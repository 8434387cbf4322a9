------------------------------- MODULE DekCache --------------------------------
(* getDEK of engine/crengine.ts and everything that changes what it reads: the *)
(* session, the main database and dekCache itself.  getDEK is async: it reads  *)
(* state.session, awaits the admin root, reads state.session again, awaits the *)
(* keywrap or the derivation, reads the session once more to unseal, awaits    *)
(* that, and stores the answer; logins, imports and a wipe come in between.    *)
(* One resource stands for all.  A key is named by who it was derived from and *)
(* its version: the right one is the admin root's.                             *)
EXTENDS Naturals

CONSTANTS
    User,       \* people who use this device
    Nobody,     \* state.session, or the admin root, is null
    Admin,      \* the admin of the group: the root every changeset carries
    MaxDekVer,  \* bound: the newest version of the data key
    Reader      \* getDEK calls that may be under way at once

Params == Nobody \notin User /\ Admin \in User /\ MaxDekVer \in Nat

VARIABLES
    session,    \* state.session
    root,       \* adminroot in the main database, null when there is none
    wraps,      \* keywrap rows: whom the key of which version is sealed to
    cache,      \* dekCache
    call,       \* the getDEK calls under way
    importing   \* an import has applied its changeset and not cleared the cache

vars == <<session, root, wraps, cache, call, importing>>

Version == 1 .. MaxDekVer
Slot == User \X Version                     \* ck, without the resource
Dek == [by : User, ver : Version]
NoDek == [by |-> Nobody, ver |-> 0]         \* null
Unknown == [by |-> Nobody, ver |-> 1]       \* the cache has no such entry

NoCall == [at |-> "idle", slot |-> <<Nobody, 0>>, as |-> Nobody, dek |-> NoDek,
           switched |-> FALSE]

RightDek(ver) == [by |-> Admin, ver |-> ver]

Cleared == [s \in Slot |-> Unknown]

\* One invariant for the shape of the state.
TypeOK ==
    /\ session \in User \cup {Nobody} /\ root \in {Admin, Nobody}
    /\ wraps \subseteq Slot
    /\ importing \in BOOLEAN
    /\ cache \in [Slot -> Dek \cup {NoDek, Unknown}]
    /\ call \in [Reader -> {NoCall} \cup
            [at : {"root", "wrap", "crypto"}, slot : Slot, as : User \cup {Nobody},
             dek : Dek \cup {NoDek}, switched : BOOLEAN]]

Init ==
    /\ session = Nobody /\ root = Nobody /\ wraps = {}
    /\ importing = FALSE
    /\ cache = Cleared
    /\ call = [c \in Reader |-> NoCall]

Idle(c) == call[c].at = "idle"
Finish(c) == call' = [call EXCEPT ![c] = NoCall]

--------------------------------------------------------------------------------
(* The session.                                                               *)

\* Calls under way meet at most one login: unlock derives an Argon2id key and
\* login generates key pairs first, which takes longer than a call's statements.
MayLogin == \A c \in Reader : Idle(c) \/ ~call[c].switched

\* Mutant: the cache survives a change of user.
LoginKeeping(u) ==
    /\ MayLogin
    /\ session' = u
    /\ call' = [c \in Reader |-> IF Idle(c) THEN NoCall ELSE [call[c] EXCEPT !.switched = TRUE]]
    /\ UNCHANGED <<root, wraps, cache, importing>>

\* login and unlock: the session is replaced and the cache cleared.
Login(u) ==
    /\ MayLogin
    /\ session' = u
    /\ cache' = Cleared
    /\ call' = [c \in Reader |-> IF Idle(c) THEN NoCall ELSE [call[c] EXCEPT !.switched = TRUE]]
    /\ UNCHANGED <<root, wraps, importing>>

Logout ==
    /\ session # Nobody
    /\ session' = Nobody
    /\ cache' = Cleared
    /\ UNCHANGED <<root, wraps, call, importing>>

--------------------------------------------------------------------------------
(* getDEK.                                                                    *)

\* A call that finds its entry returns it.  The others begin with adminPub.
\* Callers have read a grant or a cell before, so there is an admin root.
GetDek(c, ver) ==
    /\ Idle(c)
    /\ session # Nobody /\ root # Nobody
    /\ cache[<<session, ver>>] = Unknown
    /\ call' = [call EXCEPT ![c] = [NoCall EXCEPT !.at = "root", !.slot = <<session, ver>>]]
    /\ UNCHANGED <<session, root, wraps, cache, importing>>

\* adminPub answers.  The admin derives, from the private key of the session as
\* it is now; the others ask for their keywrap, by its public key as it is now.
\* Without a session it throws.
ReadRoot(c) ==
    /\ call[c].at = "root"
    /\ IF session = Nobody THEN Finish(c)
       ELSE IF call[c].slot[1] = root
       THEN call' = [call EXCEPT ![c].at = "crypto",
                         ![c].dek = [by |-> session, ver |-> call[c].slot[2]]]
       ELSE call' = [call EXCEPT ![c].at = "wrap", ![c].as = session]
    /\ UNCHANGED <<session, root, wraps, cache, importing>>

\* The keywrap query answers.  No box: null is stored at once.  A box: only the
\* user it was sealed to opens it.
ReadWrap(c) ==
    /\ call[c].at = "wrap"
    /\ LET ver == call[c].slot[2] IN
        IF <<call[c].as, ver>> \in wraps /\ session # Nobody
        THEN /\ call' = [call EXCEPT ![c].at = "crypto",
                            ![c].dek = IF session = call[c].as THEN RightDek(ver) ELSE NoDek]
             /\ UNCHANGED cache
        ELSE cache' = [cache EXCEPT ![call[c].slot] = NoDek] /\ Finish(c)
    /\ UNCHANGED <<session, root, wraps, importing>>

\* The derivation or the unsealing ends, and its answer is stored.
Store(c) ==
    /\ call[c].at = "crypto"
    /\ cache' = [cache EXCEPT ![call[c].slot] = call[c].dek]
    /\ Finish(c)
    /\ UNCHANGED <<session, root, wraps, importing>>

--------------------------------------------------------------------------------
(* The main database.                                                         *)

\* genesis: the session is the admin root from now on.
Genesis ==
    /\ session = Admin /\ root = Nobody
    /\ root' = Admin
    /\ cache' = Cleared
    /\ UNCHANGED <<session, wraps, call, importing>>

\* importChangeset opens a database if there is none, for which somebody is logged
\* in, and after authorization applies the changeset: the first brings the root,
\* any of them keywraps.
ImportApplies(box) ==
    /\ session # Nobody \/ root # Nobody
    /\ ~importing
    /\ root' = Admin
    /\ wraps' = wraps \cup {box}
    /\ importing' = TRUE
    /\ UNCHANGED <<session, cache, call>>

\* Mutant: the cache is not cleared after a merge.
ImportKeeps ==
    /\ importing
    /\ importing' = FALSE
    /\ UNCHANGED <<session, root, wraps, cache, call>>

\* ... and then clears the cache.
ImportClears ==
    /\ importing
    /\ importing' = FALSE
    /\ cache' = Cleared
    /\ UNCHANGED <<session, root, wraps, call>>

\* wipe: a member's connection is closed, the queries still queued on it throw,
\* and the cache is cleared.
Wipe ==
    /\ root # Nobody /\ ~importing
    /\ session \notin {root, Nobody}
    /\ root' = Nobody /\ wraps' = {}
    /\ cache' = Cleared
    /\ call' = [c \in Reader |-> IF call[c].at = "crypto" THEN call[c] ELSE NoCall]
    /\ UNCHANGED <<session, importing>>

Next ==
    \/ \E u \in User : Login(u)
    \/ Logout \/ Genesis \/ ImportClears \/ Wipe
    \/ \E s \in Slot : s[1] # Admin /\ ImportApplies(s)
    \/ \E c \in Reader :
        \/ \E v \in Version : GetDek(c, v)
        \/ ReadRoot(c) \/ ReadWrap(c) \/ Store(c)

Spec == Init /\ [][Next]_vars

--------------------------------------------------------------------------------

\* An entry of the user at the keyboard is null or the resource's key, whoever
\* was logged in when the call that stored it began, and whoever when it ended:
\* a record is never encrypted under, or read with, another key.
RightKeyOrNone ==
    session # Nobody =>
        \A v \in Version : cache[<<session, v>>] \in {Unknown, NoDek, RightDek(v)}

\* "decrypts only the resources you hold a DEK for" (README.md:71): a
\* null is not kept once the user's keywrap is here, or for the admin.
NoStaleNull ==
    session # Nobody /\ ~importing =>
        \A v \in Version : cache[<<session, v>>] = NoDek =>
            session # root /\ <<session, v>> \notin wraps

================================================================================
