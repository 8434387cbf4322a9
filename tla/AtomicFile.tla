------------------------------ MODULE AtomicFile -------------------------------
(* What SQLite takes from a file whose device reports SQLITE_IOCAP_BATCH_     *)
(* ATOMIC: a transaction is on disk whole or not at all, transactions reach   *)
(* the disk in order, and one whose xSync succeeded survives a crash.  No     *)
(* pages, versions, IndexedDB transactions or queues: EncryptedIDBVFS.js and  *)
(* EncryptingIDBContext.js (module IdbVfs) implement this.                    *)
EXTENDS Naturals, Sequences

CONSTANT Content        \* what a file may hold

VARIABLES
    hist,       \* the contents committed since the file was opened, oldest first
    stored,     \* which of them a crash would leave
    acked,      \* the newest one SQLite was told is safe
    lost        \* whether IndexedDB ever dropped writes

vars == <<hist, stored, acked, lost>>

TypeOK ==
    /\ hist \in Seq(Content) /\ hist # <<>>
    /\ stored \in Nat
    /\ acked \in 0 .. Len(hist)
    /\ lost \in BOOLEAN

\* The promise: what was acknowledged is on disk.
AckedIsStored == ~lost => acked <= stored /\ stored \in 1 .. Len(hist)

Init ==
    /\ hist \in {<<c>> : c \in Content}
    /\ stored = 1
    /\ acked = 1
    /\ lost = FALSE

\* SQLite's transaction ends; its content is the next one to be stored.
Commit ==
    /\ \E c \in Content : hist' = Append(hist, c)
    /\ UNCHANGED <<stored, acked, lost>>

\* The device stores some more of the committed contents, the newest or not.
Store ==
    /\ ~lost
    /\ stored' \in stored + 1 .. Len(hist)
    /\ UNCHANGED <<hist, acked, lost>>

\* xSync returns SQLITE_OK.
Acknowledge ==
    /\ lost \/ stored = Len(hist)
    /\ acked' = Len(hist)
    /\ UNCHANGED <<hist, stored, lost>>

\* IndexedDB drops writes: nothing more is promised, not after a reload either.
Lose ==
    /\ lost' = TRUE
    /\ stored' = 0
    /\ UNCHANGED <<hist, acked>>

\* The page is closed or reloaded: what is stored becomes the file.
Crash ==
    /\ \/ ~lost /\ hist' = <<hist[stored]>> /\ stored' = 1
       \/ lost /\ hist' \in {<<c>> : c \in Content} /\ stored' = 0
    /\ acked' = 1
    /\ UNCHANGED lost

Next == Commit \/ Store \/ Acknowledge \/ Lose \/ Crash

Spec == Init /\ [][Next]_vars

================================================================================
