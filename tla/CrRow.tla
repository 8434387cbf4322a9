--------------------------------- MODULE CrRow ---------------------------------
(* One row of a cr-sqlite table as this engine uses them: every signed row is *)
(* written whole by INSERT OR REPLACE, so its columns share one col_version,  *)
(* and rows travel through crsql_changes, whose merge decides each column by  *)
(* itself.  cr-sqlite is not part of the repository: these operators are its  *)
(* behaviour as engine/crengine.ts and engine/sqlite.ts rely on it.           *)
EXTENDS Naturals

CONSTANTS
    Device,     \* a device and the public key its user is logged in with
    Nobody,     \* a NULL public key
    MaxVer,     \* bound: the highest version of a row
    TextOrder,  \* how two contents (ciphertexts, roles) compare as column values
    KeyOrder,   \* how two public keys compare
    SigOrder    \* how two signatures compare

ASSUME NobodyAssumption == Nobody \notin Device
ASSUME MaxVerAssumption == MaxVer \in Nat

\* A write is named by its author, the version it gives the row and what the
\* row then says: a cell's text, a writer grant or its revocation.
Write == [by : Device, ver : 1..MaxVer, says : {"text", "writer", "revoked"}]

NoWrite == [by |-> Nobody, ver |-> 0, says |-> "nothing"]

\* Ciphertexts (random nonces), signatures and public keys never collide.
ASSUME OrderAssumption ==
    /\ TextOrder \in [Write -> Nat] /\ SigOrder \in [Write -> Nat]
    /\ KeyOrder \in [Device -> Nat]
    /\ \A v, w \in Write : TextOrder[v] = TextOrder[w] => v = w
    /\ \A v, w \in Write : SigOrder[v] = SigOrder[w] => v = w
    /\ \A d, e \in Device : KeyOrder[d] = KeyOrder[e] => d = e

\* The content, author and sig columns each remember the write they came from.
Row == [ver : 0..MaxVer, body : Write \cup {NoWrite},
        author : Device \cup {Nobody}, sig : Write \cup {NoWrite}]

NoRow == [ver |-> 0, body |-> NoWrite, author |-> Nobody, sig |-> NoWrite]

--------------------------------------------------------------------------------

\* Mutant: the replaced row keeps its clock.
PutUnclocked(row, d, says) ==
    LET w == [by |-> d, ver |-> row.ver, says |-> says]
    IN  [ver |-> row.ver, body |-> w, author |-> d, sig |-> w]

\* INSERT OR REPLACE: the version of every column goes up by one.
Put(row, d, says) ==
    LET w == [by |-> d, ver |-> row.ver + 1, says |-> says]
    IN  [ver |-> row.ver + 1, body |-> w, author |-> d, sig |-> w]

\* C.verifyMessage(sigInput(row), row.sig, row.author): the signature is the
\* author's and was made over this content.
Verifies(row) == row.sig = row.body /\ row.author = row.sig.by

Larger(order, x, y) == IF order[x] >= order[y] THEN x ELSE y

\* Mutant: on equal versions the incoming row replaces the local one.
MergeRowLast(local, in) == IF in.ver >= local.ver THEN in ELSE local

\* Mutant: an applied changeset overwrites what it meets.
MergeRowBlind(local, in) == IF in.ver > 0 THEN in ELSE local

\* crsql_changes: the higher version wins; on equal versions each column keeps
\* the larger of the two values, whatever happens to the columns beside it.
MergeRow(local, in) ==
    IF in.ver = local.ver /\ in.ver > 0
    THEN [ver    |-> in.ver,
          body   |-> Larger(TextOrder, local.body, in.body),
          author |-> Larger(KeyOrder, local.author, in.author),
          sig    |-> Larger(SigOrder, local.sig, in.sig)]
    ELSE IF in.ver > local.ver THEN in ELSE local

================================================================================
