-------------------------------- MODULE IdbVfs ---------------------------------
(* EncryptedIDBVFS under one SQLite connection to one database file, with the *)
(* purge task in the background and crashes at any point.  SQLite, external,  *)
(* drives it: xLock; a batch atomic write, or when its cache spilled or the   *)
(* batch failed a rollback journal and plain writes; xSync; xUnlock.  It      *)
(* blocks on xOpen, xLock, xRead, xSync and a rollback, and on nothing else.  *)
(* A transaction stamps the pages it writes with its number.  SQLite writes   *)
(* page 0, which has its change counter, in every transaction, first.         *)
EXTENDS IdbContext, SequencesExt

CONSTANTS
    MaxTxn,             \* bound: transactions SQLite begins
    MaxPage,            \* bound: pages of the file
    PurgeAtLeast,       \* options.purgeAtLeast
    PurgeDuringSync     \* whether the idle callback may run while sync() waits

Params ==
    /\ MaxTxn \in Nat /\ MaxPage \in Nat \ {0} /\ MaxFault \in Nat
    /\ PurgeAtLeast \in Nat \ {0}
    /\ PurgeDuringSync \in BOOLEAN

VARIABLES
    phase,      \* where SQLite is
    file,       \* the OpenedFileEntry
    cache,      \* the pages as SQLite read them
    todo,       \* pages of the open transaction not written yet
    txn,        \* transactions begun so far
    pending,    \* #pendingPurges has the file
    hist,       \* history: contents committed since the page was loaded
    acked       \* history: the newest of them whose xSync succeeded

sqlite == <<phase, cache, todo, txn, hist, acked>>
vars == <<idb, sqlite, file, pending>>

Page == 0 .. MaxPage - 1
Content == UNION {[1 .. k -> 0 .. MaxTxn] : k \in 0 .. MaxPage}

NoFile == [b0 |-> Block(0, 0, Blank, 0), meta |-> TRUE, batch |-> FALSE, changed |-> {}]

View == IF txs = <<>> THEN disk ELSE image

Enqueue(ops) == runs' = runs \o ops
Op(name) == [do |-> name]

Init ==
    /\ IdbInit(EmptyStore)
    /\ phase = "closed"
    /\ file = NoFile
    /\ cache = <<>> /\ todo = {} /\ txn = 0
    /\ pending = FALSE
    /\ hist = << <<>> >> /\ acked = 1

--------------------------------------------------------------------------------
(* What SQLite calls.  The first conjunct of each is SQLite's, the others the *)
(* VFS method's.                                                              *)

Rest == <<disk, image, txs, rejected, syncing, lost, faults>>

\* xOpen: isMetadataChanged starts true; block 0 is read by a queued function.
xOpen ==
    /\ phase = "closed"
    /\ phase' = "opening"
    /\ file' = NoFile
    /\ Enqueue(<<Op("open")>>)
    /\ UNCHANGED <<Rest, cache, todo, txn, hist, acked, pending>>

\* xClose: the entry is forgotten; the database is not deleted on close.
xClose ==
    /\ phase = "unlocked"
    /\ phase' = "closed"
    /\ UNCHANGED <<Rest, runs, file, cache, todo, txn, hist, acked, pending>>

\* xLock to SHARED: block 0 is read again, then SQLite looks for a journal.
xLock ==
    /\ phase = "unlocked"
    /\ phase' = "locking"
    /\ Enqueue(<<Op("reload")>>)
    /\ UNCHANGED <<Rest, file, cache, todo, txn, hist, acked, pending>>

xUnlock ==
    /\ phase = "locked"
    /\ phase' = "unlocked"
    /\ UNCHANGED <<Rest, runs, file, cache, todo, txn, hist, acked, pending>>

\* The pages a transaction writes: page 0 and others; those it appends, in a row.
WriteSets ==
    {w \in SUBSET Page :
        0 \in w /\ \A p \in w : \A q \in Len(cache) .. p : q \in w}

\* SQLITE_FCNTL_BEGIN_ATOMIC_WRITE: a new version.
BeginAtomic ==
    /\ phase = "locked" /\ txn < MaxTxn
    /\ phase' = "batch" /\ txn' = txn + 1 /\ todo' \in WriteSets
    /\ file' = [file EXCEPT !.b0.ver = @ - 1, !.batch = TRUE, !.changed = {}]
    /\ Enqueue(<<Op("clear")>>)
    /\ UNCHANGED <<Rest, cache, hist, acked, pending>>

\* The cache spilled: SQLite saves the pages it will write in a journal file,
\* through the same context.  Told SQLITE_IOCAP_SEQUENTIAL it does not sync the
\* journal before it writes the pages: the journal is on disk first because the
\* context runs functions and commits transactions in order.
Spill ==
    /\ phase = "locked" /\ txn < MaxTxn
    /\ phase' = "plain" /\ txn' = txn + 1
    /\ \E w \in WriteSets :
        LET kept == {p \in w : p < Len(cache)}
            page == [p \in kept |-> cache[p + 1]]
        IN  /\ todo' = w
            /\ Enqueue(<<[do |-> "journal", jr |-> [size |-> Len(cache), page |-> page]]>>)
    /\ UNCHANGED <<Rest, file, cache, hist, acked, pending>>

\* xWrite of one page: page 0 in a batch stays in memory until the commit; a
\* plain write of it queues the block in memory, not a copy of it.
xWrite(val, pos) ==
    LET grows == file.b0.size < pos + 1
        size  == IF grows THEN pos + 1 ELSE file.b0.size
    IN  /\ file' = [file EXCEPT
                !.b0.size = size,
                !.b0.val  = IF pos = 0 THEN val ELSE @,
                !.meta    = pos # 0 /\ (@ \/ grows),
                !.changed = IF file.batch /\ ~grows THEN @ \cup {pos} ELSE @]
        /\ IF pos # 0 THEN Enqueue(<<[do |-> "put", b |-> Block(pos, file.b0.ver, val, 0)]>>)
           ELSE IF file.batch THEN UNCHANGED runs
           ELSE Enqueue(<<Op("block0")>>)

WritePage ==
    /\ phase \in {"batch", "plain"} /\ todo # {}
    /\ todo' = todo \ {Min(todo)}
    /\ xWrite(txn, Min(todo))
    /\ cache' = [i \in 1 .. file'.b0.size |-> IF i = Min(todo) + 1 THEN txn ELSE cache[i]]
    /\ UNCHANGED <<Rest, phase, txn, hist, acked, pending>>

\* SQLITE_FCNTL_COMMIT_ATOMIC_WRITE.
CommitAtomic ==
    /\ phase = "batch" /\ todo = {}
    /\ phase' = "written"
    /\ hist' = Append(hist, cache)
    /\ file' = [file EXCEPT !.batch = FALSE, !.changed = {}, !.meta = FALSE]
    /\ Enqueue(<<[do |-> "commit", b |-> file.b0, changed |-> file.changed]>>)
    /\ UNCHANGED <<Rest, cache, todo, txn, acked, pending>>

\* SQLITE_FCNTL_ROLLBACK_ATOMIC_WRITE, after a write of the batch failed; SQLite
\* goes on with a journal or gives up.
RollbackAtomic ==
    /\ phase = "batch"
    /\ phase' = "rolling"
    /\ todo' = {}
    /\ file' = [file EXCEPT !.batch = FALSE, !.changed = {}, !.meta = FALSE]
    /\ Enqueue(<<[do |-> "undo", ver |-> file.b0.ver + 1]>>)
    /\ UNCHANGED <<Rest, cache, txn, hist, acked, pending>>

\* SQLITE_FCNTL_SYNC writes block 0 if it changed (there is no VACUUM, hence no
\* overwrite), then xSync calls sync().
Sync(from, to) ==
    /\ phase = from /\ todo = {}
    /\ phase' = to
    /\ file' = [file EXCEPT !.meta = FALSE]
    /\ Enqueue((IF file.meta THEN <<Op("block0")>> ELSE <<>>) \o <<Op("sync")>>)
    /\ UNCHANGED <<Rest, cache, todo, txn, hist, acked, pending>>

xSync == Sync("written", "syncing") \/ Sync("plain", "flushing")

\* xTruncate cuts block 0 in memory, if SQLite finds the file too long.
Cut(b, size) == IF b.size = size THEN b
                ELSE [b EXCEPT !.size = size, !.val = IF size = 0 THEN Blank ELSE @]

\* xWrite of a page that the journal has, through the block 0 in memory.
WriteBack(jr, ver, p) ==
    IF p = 0 THEN Op("block0") ELSE [do |-> "put", b |-> Block(p, ver, jr.page[p], 0)]

\* A hot journal: the file is cut, its pages are written back, and synced.  If
\* the journal went with an aborted transaction, SQLite just reads the file.
PlayBack ==
    /\ phase = "hot"
    /\ IF View.journal = NoJournal
       THEN /\ phase' = "locked" /\ cache' = ReadFile(View, file.b0)
            /\ UNCHANGED <<file, runs>>
       ELSE LET jr   == View.journal
                cut  == Cut(file.b0, jr.size)
                back == 0 \in DOMAIN jr.page
                b0   == [cut EXCEPT !.val = IF back THEN jr.page[0] ELSE @]
            IN  /\ phase' = "replaying"
                /\ file' = [file EXCEPT !.b0 = b0, !.meta = FALSE]
                /\ \E order \in SetToSeqs(DOMAIN jr.page) :
                    Enqueue((IF jr.size < file.b0.size THEN <<[do |-> "truncate", b |-> cut]>> ELSE <<>>)
                            \o [i \in DOMAIN order |-> WriteBack(jr, b0.ver, order[i])]
                            \o (IF file.meta /\ ~ back THEN <<Op("block0")>> ELSE <<>>)
                            \o <<Op("sync")>>)
                /\ UNCHANGED cache
    /\ UNCHANGED <<Rest, todo, txn, hist, acked, pending>>

--------------------------------------------------------------------------------
(* The functions on #runChain, and sync()'s answer.                           *)

NextRun == runs[1]

\* One that writes: what it does to the store.
Effect(op, s) ==
    CASE op.do = "put"      -> Put(s, op.b)
      [] op.do = "block0"   -> Put(s, file.b0)
      [] op.do = "clear"    -> ClearAbandoned(s, file)
      [] op.do = "commit"   -> CommitBatch(s, op.b, op.changed)
      [] op.do = "truncate" -> Truncate(s, op.b)
      [] op.do = "purge"    -> Purge(s)
      [] op.do = "journal"  -> [s EXCEPT !.journal = op.jr]
      [] op.do = "unlink"   -> [s EXCEPT !.journal = NoJournal]

Writing == {"put", "block0", "clear", "commit", "truncate", "purge", "journal", "unlink"}

\* A commit that makes the purge block long enough schedules a purge.
RunWrite ==
    /\ runs # <<>> /\ NextRun.do \in Writing
    /\ Ran(Effect(NextRun, View))
    /\ runs' = Tail(runs)
    /\ pending' = \/ pending
                  \/ NextRun.do = "commit" /\ image'.purge.count >= PurgeAtLeast
    /\ UNCHANGED <<sqlite, file>>

\* xOpen's function: block 0 is found, or created.
RunOpen ==
    /\ runs # <<>> /\ NextRun.do = "open"
    /\ Ran(IF Block0s(View) = {} THEN Put(View, NoFile.b0) ELSE View)
    /\ runs' = Tail(runs)
    /\ file' = [file EXCEPT !.b0 = Newest(Block0s(image'))]
    /\ phase' = "unlocked"
    /\ UNCHANGED <<cache, todo, txn, hist, acked, pending>>

\* xLock's function, xAccess of the journal, and the xReads that follow.
RunReload ==
    /\ runs # <<>> /\ NextRun.do = "reload" /\ Runnable
    /\ runs' = Tail(runs)
    /\ IF Block0s(View) = {} THEN phase' = "failed" /\ UNCHANGED <<file, cache>>
       ELSE /\ file' = [file EXCEPT !.b0 = Newest(Block0s(View))]
            /\ cache' = ReadFile(View, file'.b0)
            /\ phase' = IF View.journal = NoJournal THEN "locked" ELSE "hot"
    /\ UNCHANGED <<Rest, todo, txn, hist, acked, pending>>

\* The rollback's function: block 0 of the version before.
RunUndo ==
    /\ runs # <<>> /\ NextRun.do = "undo" /\ Runnable
    /\ runs' = Tail(runs)
    /\ LET was == {b \in Block0s(View) : b.ver = NextRun.ver}
       IN  IF was = {} THEN phase' = "failed" /\ UNCHANGED <<file, cache>>
           ELSE /\ file' = [file EXCEPT !.b0 = CHOOSE b \in was : TRUE]
                /\ cache' = ReadFile(View, file'.b0)
                /\ phase' = "locked"
    /\ UNCHANGED <<Rest, todo, txn, hist, acked, pending>>

\* xSync returns SQLITE_OK: the batch is safe; the plain writes are and the
\* journal is deleted, which commits; or what the journal held is and the journal
\* is deleted.
SyncOK ==
    /\ SyncReturns
    /\ \/ /\ phase = "syncing" /\ phase' = "unlocked"
          /\ acked' = Len(hist)
          /\ UNCHANGED <<runs, hist>>
       \/ /\ phase = "flushing" /\ phase' = "unlocked"
          /\ Enqueue(<<Op("unlink")>>)
          /\ hist' = Append(hist, cache)
          /\ UNCHANGED acked
       \/ /\ phase = "replaying" /\ phase' = "locking"
          /\ Enqueue(<<Op("unlink"), Op("reload")>>)
          /\ UNCHANGED <<hist, acked>>
    /\ UNCHANGED <<cache, todo, txn, file, pending>>

\* xSync returns SQLITE_IOERR: SQLite drops its cache and its lock.
SyncFails ==
    /\ SyncThrows
    /\ phase' = "unlocked" /\ todo' = {}
    /\ UNCHANGED <<cache, txn, hist, acked, file, pending>>

--------------------------------------------------------------------------------

IdlePurgeForgets ==
    /\ pending /\ pending' = FALSE
    /\ UNCHANGED <<Rest, sqlite, file, runs>>

\* The idle callback of #maybePurge.
IdlePurge ==
    /\ pending
    /\ syncing \/ Op("sync") \in Range(runs) => PurgeDuringSync
    /\ pending' = FALSE
    /\ Enqueue(<<Op("purge")>>)
    /\ UNCHANGED <<Rest, sqlite, file>>

\* The steps of the context that are not a function's.
Outside == <<sqlite, file, pending>>
Replaced  == NewTransaction /\ UNCHANGED Outside
Committed == (Committing \/ Complete) /\ UNCHANGED Outside
Aborted   == Abort /\ UNCHANGED Outside
Drained   == SyncRuns /\ UNCHANGED Outside

\* The page is closed or reloaded.
Crash ==
    /\ IdbReset
    /\ phase' = "closed" /\ file' = NoFile /\ todo' = {} /\ pending' = FALSE
    /\ cache' = <<>>
    /\ hist' = <<Recovered(disk)>> /\ acked' = 1
    /\ UNCHANGED txn

Next ==
    \/ xOpen \/ xClose \/ xLock \/ xUnlock
    \/ BeginAtomic \/ Spill \/ WritePage \/ CommitAtomic \/ RollbackAtomic
    \/ xSync \/ PlayBack
    \/ RunWrite \/ RunOpen \/ RunReload \/ RunUndo \/ SyncOK \/ SyncFails
    \/ IdlePurge \/ Replaced \/ Committed \/ Aborted \/ Drained \/ Crash

Spec == Init /\ [][Next]_vars

\* #runChain goes on.
ChainMoves == RunWrite \/ RunOpen \/ RunReload \/ RunUndo \/ Replaced \/ Drained

\* The browser runs the promise callbacks, ends the transactions and calls the
\* idle callback; nothing makes SQLite go on, the page reload or a write fail.
EventLoop ==
    /\ WF_vars(ChainMoves) /\ WF_vars(Committed)
    /\ WF_vars(SyncOK \/ SyncFails) /\ SF_vars(IdlePurge)

FairSpec == Spec /\ EventLoop

--------------------------------------------------------------------------------

\* One invariant for the shape of the state.
TypeOK ==
    /\ txs \in Seq(Tx) /\ Len(txs) <= 2
    /\ {rejected, syncing, lost, pending} \subseteq BOOLEAN
    /\ file.b0.ver \in -MaxTxn .. 0 /\ file.b0.size \in 0 .. MaxPage
    /\ cache \in Content /\ todo \subseteq Page
    /\ txn \in 0 .. MaxTxn
    /\ hist \in Seq(Content) /\ acked \in 1 .. Len(hist)

\* Which of the committed contents a crash would leave, 0 if none of them.
Stored == Max({0} \cup {i \in 1 .. Len(hist) : hist[i] = Recovered(disk)})

File == INSTANCE AtomicFile WITH stored <- IF lost THEN 0 ELSE Stored

\* "SQLITE_IOCAP_BATCH_ATOMIC" (EncryptedIDBVFS.js:471): whatever is written,
\* abandoned, rolled back, played back or purged, and wherever the page is
\* reloaded, the object store holds one committed content and never a mix, they
\* reach it in order, and what xSync answered SQLITE_OK for is in it.
Implements == File!Spec

\* "All writes in the batch have a new version": a connection that takes the
\* lock reads the pages of the last committed transaction, not those of one
\* that was abandoned or rolled back, nor of one a purge should have left alone.
ReadsCommitted == phase = "locked" /\ ~lost => cache = hist[Len(hist)]

\* "Wait until all transactions since the previous sync have committed"
\* (EncryptingIDBContext.js:163): what xSync answered SQLITE_OK for is on disk.
\* It fails when the purge task runs while sync() waits: see the run vfs_ack.
AcknowledgedIsDurable == ~lost => acked <= Stored

Waiting == {"syncing", "flushing", "replaying"}

\* xSync answers, also when functions of other tasks keep joining #runChain or a
\* transaction was aborted: SQLite, which blocks on it, is never stuck.
SyncAnswers == (phase \in Waiting) ~> (phase \notin Waiting)

\* "Blocks to purge are saved in a special IndexedDB object": once a purge is
\* scheduled the old versions go, unless the page is reloaded or a transaction
\* aborted first.
PurgeHappens ==
    \A n \in 0 .. MaxFault :
        (pending /\ faults = n) ~> (disk.purge.count < PurgeAtLeast \/ faults # n)

================================================================================
