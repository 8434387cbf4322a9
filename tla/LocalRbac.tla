------------------------------- MODULE LocalRbac -------------------------------
(* The parts of localRbac that share no state, side by side: the file system  *)
(* under the database, the connection, the key cache, the consensus loop, the *)
(* MLS groups, the vault and the lock ceremony.  What one part does neither   *)
(* reads nor changes what another keeps, so every interleaving of two parts   *)
(* is a pair of behaviours of one part each; a behaviour here is one of one   *)
(* part, named by `part', and the others stay in their initial states.        *)
EXTENDS Naturals, Shamir

CONSTANTS
    Admin, Member,          \* the coordinator and the members
    Rebuilder, Locker,      \* members who take part in the rounds, or may lock
    Nobody, EmptyLeaf,      \* nobody is logged in; an empty leaf
    Record, Resource,       \* records, resources
    LockRecord,             \* the records there are when somebody locks
    AsyncCall,              \* calls that may overlap, of getDEK or recordCheckpoint
    Task,                   \* handlers that use the connection
    MaxFault, MaxTxn, MaxPage, PurgeAtLeast,                    \* bounds of Vfs
    MaxCall,                                                    \* of Conn
    MaxKeyVer,                                                  \* of Dek
    MaxCheckpoint, MaxPut, MaxArchived,                         \* of Loop
    MaxCommit,                                                  \* of Mls
    Custodians, DekByte, Coefficient, ForeignByte,              \* of Vlt
    MaxDekVer, MaxWrite                                         \* of Lock

VARIABLE part       \* the part that moves

\* Of the file system.
VARIABLES disk, image, txs, runs, rejected, syncing, lost, faults,
          phase, file, cache, todo, txn, pending, hist, acked
\* Of the connection.
VARIABLES lane, use, handle, closing, calls, missed
\* Of the key cache.
VARIABLES session, root, wraps, dekCache, getting, importing
\* Of the consensus loop.
VARIABLES db, stage, diff, slice, recording, made, home
\* Of the MLS groups.
VARIABLES group, held, changing, welcomes, commits, commitCount, roster
\* Of the vault.
VARIABLES vault, got
\* Of the ceremony.
VARIABLES cell, archived, dekver, keys, granted, writes, folded, output, start

Vfs  == INSTANCE IdbVfs WITH PurgeDuringSync <- FALSE
Conn == INSTANCE ConnQueue
Dek  == INSTANCE DekCache WITH User <- {Admin} \cup Member, Reader <- AsyncCall,
            MaxDekVer <- MaxKeyVer, cache <- dekCache, call <- getting
Loop == INSTANCE Rebuild WITH Member <- Rebuilder, Recorder <- AsyncCall, MaxWrite <- MaxPut,
            Readable <- [m \in Rebuilder |-> Record],
            CanEdit <- FALSE, CanSyncDirty <- FALSE
Mls  == INSTANCE MlsGroups WITH Coordinator <- Admin, Blank <- EmptyLeaf, Caller <- {Admin},
            call <- changing, made <- commitCount, granted <- roster
Vlt  == INSTANCE Vault
Lock == INSTANCE Ceremony WITH Member <- Locker, Record <- LockRecord

ASSUME ParamsAssumption ==
    /\ Vfs!Params /\ Conn!Params /\ Dek!Params /\ Loop!Params
    /\ Mls!Params /\ Vlt!Params /\ Lock!Params

vfs   == <<disk, image, txs, runs, rejected, syncing, lost, faults,
           phase, file, cache, todo, txn, pending, hist, acked>>
conn  == <<lane, use, handle, closing, calls, missed>>
dek   == <<session, root, wraps, dekCache, getting, importing>>
loop  == <<db, stage, diff, slice, recording, made, home>>
mls   == <<group, held, changing, welcomes, commits, commitCount, roster>>
vlt   == <<vault, got>>
lock  == <<cell, archived, dekver, keys, granted, writes, folded, output, start>>
vars  == <<part, vfs, conn, dek, loop, mls, vlt, lock>>

Init ==
    /\ part \in {"vfs", "conn", "dek", "loop", "mls", "vault", "lock"}
    /\ Vfs!Init /\ Conn!Init /\ Dek!Init /\ Loop!Init /\ Mls!Init /\ Vlt!Init /\ Lock!Init

VfsMoves ==
    /\ part = "vfs" /\ Vfs!Next
    /\ UNCHANGED <<part, conn, dek, loop, mls, vlt, lock>>
ConnMoves ==
    /\ part = "conn" /\ Conn!Next
    /\ UNCHANGED <<part, vfs, dek, loop, mls, vlt, lock>>
DekMoves ==
    /\ part = "dek" /\ Dek!Next
    /\ UNCHANGED <<part, vfs, conn, loop, mls, vlt, lock>>
LoopMoves ==
    /\ part = "loop" /\ Loop!Next
    /\ UNCHANGED <<part, vfs, conn, dek, mls, vlt, lock>>
MlsMoves ==
    /\ part = "mls" /\ Mls!Next
    /\ UNCHANGED <<part, vfs, conn, dek, loop, vlt, lock>>
VaultMoves ==
    /\ part = "vault" /\ Vlt!Next
    /\ UNCHANGED <<part, vfs, conn, dek, loop, mls, lock>>
LockMoves ==
    /\ part = "lock" /\ Lock!Next
    /\ UNCHANGED <<part, vfs, conn, dek, loop, mls, vlt>>

Next == VfsMoves \/ ConnMoves \/ DekMoves \/ LoopMoves \/ MlsMoves \/ VaultMoves \/ LockMoves

\* The page's event loop serves the file system and the connection; in a
\* behaviour of another part the steps it would take there are never enabled.
Spec == Init /\ [][Next]_vars /\ Vfs!EventLoop /\ Conn!Steps

--------------------------------------------------------------------------------

\* The state of every part has its shape; in particular two IndexedDB
\* transactions at most are ever open (EncryptingIDBContext.js:94).
TypeOK ==
    /\ Vfs!TypeOK /\ Conn!TypeOK /\ Dek!TypeOK /\ Loop!TypeOK
    /\ Mls!TypeOK /\ Vlt!TypeOK /\ Lock!TypeOK

--------------------------------------------------------------------------------
(* Each property is stated and explained in the module of its part.           *)

\* EncryptedIDBVFS.js:471 reports SQLITE_IOCAP_BATCH_ATOMIC: the object store
\* implements an atomic file, through crashes, aborts, rollbacks and purges.
Implements == Vfs!Implements

\* A connection that takes the lock (EncryptedIDBVFS.js:399) reads the pages of
\* the last committed transaction.
ReadsCommitted == Vfs!ReadsCommitted

\* xSync (EncryptedIDBVFS.js:332) answers.
SyncAnswers == Vfs!SyncAnswers

\* A purge that is scheduled (EncryptedIDBVFS.js:701) happens.
PurgeHappens == Vfs!PurgeHappens

\* What was called on a connection (engine/sqlite.ts:29) before close() runs
\* while it is open.
EarlyCallsRun == Conn!EarlyCallsRun

\* Every call on a connection (engine/sqlite.ts:29) is answered.
CallsAnswered == Conn!CallsAnswered

\* getDEK (engine/crengine.ts:143) caches the resource's key or null, and under
\* the right user, whatever logins come between its awaits.
RightKeyOrNone == Dek!RightKeyOrNone

\* No null is left in dekCache (engine/crengine.ts:154) once the key is here.
NoStaleNull == Dek!NoStaleNull

\* A member gets back from the rebuild slice (engine/crengine.ts:521) what it
\* had when it sent its diff.
KeptThroughRebuild == Loop!KeptThroughRebuild

\* Every checkpoint's chain (consensus/chain.ts:20) goes back to a first one,
\* although recordCheckpoint calls overlap.
ChainsComplete == Loop!ChainsComplete

\* mergeBase (consensus/chain.ts:34) is the latest common checkpoint on a fork.
MergeBaseIsLatest == Loop!MergeBaseIsLatest

\* Holders of one group at one epoch derive one key (mls/mls.ts:102).
SameEpochSameKey == Mls!SameEpochSameKey

\* Who was revoked (mls/compartments.ts:53) cannot derive the current key.
RevokedLockedOut == Mls!RevokedLockedOut

\* Any k custodians open the vault (vault.ts:106) and fewer do not.
QuorumOpens == Vlt!QuorumOpens

\* A share of another vault among the genuine ones leaves it shut (vault.ts:106).
OneWrongShareFailsClosed == Vlt!OneWrongShareFailsClosed

\* Fewer than k shares could have been split from any key (shamir.ts:36).
BelowQuorumNothingIsKnown == Vlt!BelowQuorumNothingIsKnown

\* A lock by somebody who can open every cell keeps every record, once, with a
\* value of its newest key version (engine/crengine.ts:359).
LockLosesNothing == Lock!LockLosesNothing

================================================================================
