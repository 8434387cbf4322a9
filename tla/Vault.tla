--------------------------------- MODULE Vault ---------------------------------
(* vault.ts: a vault sealed to a roster of custodians, and one of them, the   *)
(* opener, who collects shares from the others' contribution files to open    *)
(* it.  The files are opaque: one made from another vault is accepted when    *)
(* its x is in the roster.  A data key is one byte here, as a secret's bytes  *)
(* are shared independently; the AEAD opens a ciphertext with the key that    *)
(* made it and with no other.  The sharing scheme is a parameter, for which   *)
(* module Shamir is given.                                                    *)
EXTENDS Naturals, FiniteSets

CONSTANTS
    Custodians,     \* how many there are, the opener being custodian 1
    DekByte,        \* bytes a random data key may have
    Coefficient,    \* bytes randomBytes may give split
    ForeignByte,    \* bytes in the shares of other vaults
    shareAt(_, _, _), split(_, _, _), CanCombine(_), combine(_)     \* of Shamir

Byte == 0 .. 255

Params ==
    DekByte \cup Coefficient \cup ForeignByte \subseteq Byte /\ Custodians \in 1 .. 255

VARIABLES
    vault,      \* its quorum, key, coefficients and shares as split, or NoVault
    got         \* the shares the opener holds

vars == <<vault, got>>

NoVault == [k |-> 0]
Polynomials(k) == [1 .. k - 1 -> Coefficient]

\* One invariant for the shape of the state.
TypeOK ==
    /\ vault # NoVault =>
        /\ vault.k \in 1 .. Custodians
        /\ \A i \in 1 .. Custodians : vault.share[i] \in [x : {i}, y : Byte]
    /\ got \subseteq [x : 1 .. Custodians, y : Byte]

Init == vault = NoVault /\ got = {}

\* sealVault: a fresh data key, shared k of n; share i goes to custodian i.
sealVault(k, dek, coef) ==
    /\ vault = NoVault
    /\ vault' = [k |-> k, dek |-> dek, coef |-> coef, share |-> split(dek, coef, Custodians)]
    /\ UNCHANGED got

\* Custodian x contributes its share to the opener, who imports it; for its own
\* x the opener calls contributeShare.
Contribute(x) ==
    /\ vault # NoVault
    /\ got' = got \cup {vault.share[x]}
    /\ UNCHANGED vault

\* The opener imports custodian x's contribution file of another vault.
ContributeOther(x, y) ==
    /\ vault # NoVault
    /\ got' = got \cup {[x |-> x, y |-> y]}
    /\ UNCHANGED vault

Next ==
    \/ \E k \in 1 .. Custodians : \E dek \in DekByte, coef \in Polynomials(k) :
        sealVault(k, dek, coef)
    \/ \E x \in 1 .. Custodians : Contribute(x)
    \/ \E x \in 1 .. Custodians, y \in ForeignByte : ContributeOther(x, y)

Spec == Init /\ [][Next]_vars

--------------------------------------------------------------------------------

\* Mutant: a share that does not fit is passed over.
opensWithSome(shares) ==
    \E some \in SUBSET shares : /\ Cardinality(some) >= vault.k
                              /\ CanCombine(some) /\ combine(some) = vault.dek

\* openVault on some shares: there are k of them, and they make the key.
opens(shares) ==
    Cardinality(shares) >= vault.k /\ CanCombine(shares) /\ combine(shares) = vault.dek

\* A share of another vault that happens to be the same byte is as good.
Genuine == {s \in got : s = vault.share[s.x]}

\* "a quorum of k-of-n custodians" (README.md:103) opens the vault, whichever
\* custodians they are and however many more than k, and fewer do not.
QuorumOpens ==
    vault # NoVault => (opens(Genuine) <=> Cardinality(Genuine) >= vault.k)

\* "Fewer/wrong shares fail closed on the AEAD tag" (README.md:111): with one
\* share of another vault among the genuine ones the vault stays shut.
OneWrongShareFailsClosed ==
    vault # NoVault => \A w \in got \ Genuine : ~opens(Genuine \cup {w})

\* "Nothing is recoverable below quorum" (README.md:109): whichever fewer than k
\* genuine shares there are, split could have made them of any other key too,
\* with coefficients that randomBytes may give.
BelowQuorumNothingIsKnown ==
    vault # NoVault /\ Cardinality(Genuine) < vault.k =>
        \A guess \in DekByte : \E coef \in Polynomials(vault.k) :
            \A s \in Genuine : shareAt(guess, coef, s.x) = s.y

================================================================================
