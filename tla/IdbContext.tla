------------------------------ MODULE IdbContext -------------------------------
(* EncryptingIDBContext: functions run one after the other on transactions    *)
(* that are reused while they last, and sync() waits for those transactions.  *)
(* A transaction is made for a function ("new"), takes requests ("live"), then *)
(* commits by itself or is told to when it is 5 s old ("committing"); it may  *)
(* be aborted, by a full disk say.  A function that meets a committing one    *)
(* fails and is tried again on a new one, which IndexedDB starts when the old *)
(* one is done: so at most two are open.  Transactions opened for reading     *)
(* write nothing and are left out, with the switch to a writing one, after    *)
(* which a #putChain callback may find another #tx than its own.              *)
EXTENDS BlockStore

CONSTANT MaxFault       \* bound: transactions aborted and page reloads, together

VARIABLES
    disk,       \* the object store as committed
    image,      \* the store as the first open transaction sees it
    txs,        \* open transactions, oldest first; the last is #tx
    runs,       \* the functions chained on #runChain, and sync() calls
    rejected,   \* #putChain is rejected
    syncing,    \* sync() is past the first of its two awaits
    lost,       \* history: a transaction was aborted
    faults      \* aborts and reloads so far

idb == <<disk, image, txs, runs, rejected, syncing, lost, faults>>

\* chained: #putChain waits for it; awaited: the promise sync() waits for does.
Tx == [state : {"new", "live", "committing"}, chained : BOOLEAN, awaited : BOOLEAN]
NewTx == [state |-> "new", chained |-> TRUE, awaited |-> FALSE]

\* The constructor, on an object store s.
IdbInit(s) ==
    /\ disk = s /\ image = s
    /\ txs = <<>> /\ runs = <<>>
    /\ rejected = FALSE /\ syncing = FALSE /\ lost = FALSE /\ faults = 0

\* The page goes away: open transactions and everything in memory with it.  What
\* an aborted transaction left half written stays so.
IdbReset ==
    /\ faults < MaxFault /\ faults' = faults + 1
    /\ image' = disk
    /\ txs' = <<>> /\ runs' = <<>>
    /\ rejected' = FALSE /\ syncing' = FALSE
    /\ UNCHANGED <<disk, lost>>

\* #run calls the first function of the chain: the transaction it uses is live
\* and not waiting for an older one, or is created now.
Runnable == Len(txs) <= 1 /\ (txs # <<>> => txs[1].state # "committing")

\* The first function of the chain ran; s is the store it leaves.
Ran(s) ==
    /\ Runnable
    /\ image' = s
    /\ txs' = <<[(IF txs = <<>> THEN NewTx ELSE txs[1]) EXCEPT !.state = "live"]>>
    /\ UNCHANGED <<disk, rejected, syncing, lost, faults>>

NewTransactionEachTime ==
    /\ runs # <<>> /\ runs[1].do # "sync"
    /\ Len(txs) \in 1 .. 2 /\ txs[1].state = "committing"
    /\ txs' = Append(txs, NewTx)
    /\ UNCHANGED <<disk, image, runs, rejected, syncing, lost, faults>>

\* The function throws on a transaction that is committing: #run catches that
\* and makes a new transaction, whose result is chained onto #putChain.
NewTransaction ==
    /\ runs # <<>> /\ runs[1].do # "sync"
    /\ Len(txs) = 1 /\ txs[1].state = "committing"
    /\ txs' = Append(txs, NewTx)
    /\ UNCHANGED <<disk, image, runs, rejected, syncing, lost, faults>>

CommittingOnDemand ==
    /\ runs # <<>>
    /\ txs # <<>> /\ txs[1].state = "live"
    /\ txs' = [txs EXCEPT ![1].state = "committing"]
    /\ UNCHANGED <<disk, image, runs, rejected, syncing, lost, faults>>

\* No more requests, or commit() after MAX_TRANSACTION_LIFETIME_MILLIS.
Committing ==
    /\ txs # <<>> /\ txs[1].state = "live"
    /\ txs' = [txs EXCEPT ![1].state = "committing"]
    /\ UNCHANGED <<disk, image, runs, rejected, syncing, lost, faults>>

\* The 'complete' event of the oldest transaction.
Complete ==
    /\ txs # <<>> /\ txs[1].state = "committing"
    /\ disk' = image
    /\ txs' = Tail(txs)
    /\ UNCHANGED <<image, runs, rejected, syncing, lost, faults>>

\* The 'abort' event: what its functions wrote is gone.
Abort ==
    /\ txs # <<>> /\ faults < MaxFault
    /\ faults' = faults + 1
    /\ image' = disk
    /\ txs' = Tail(txs)
    /\ rejected' = (rejected \/ txs[1].chained)
    /\ lost' = TRUE
    /\ UNCHANGED <<disk, runs, syncing>>

\* sync(): the functions queued before the call are done ...
SyncRuns ==
    /\ runs # <<>> /\ runs[1].do = "sync"
    /\ runs' = Tail(runs)
    /\ syncing' = TRUE
    /\ txs' = [i \in DOMAIN txs |-> [txs[i] EXCEPT !.awaited = @ \/ txs[i].chained]]
    /\ UNCHANGED <<disk, image, rejected, lost, faults>>

\* ... and the transactions of #putChain as it was then: #putChain is replaced.
SyncReturns ==
    /\ syncing /\ ~rejected
    /\ \A i \in DOMAIN txs : ~txs[i].awaited
    /\ syncing' = FALSE
    /\ txs' = [i \in DOMAIN txs |-> [txs[i] EXCEPT !.chained = FALSE]]
    /\ UNCHANGED <<disk, image, rejected, lost, faults>>

\* A transaction was aborted: sync() throws, #putChain stays rejected.
SyncThrows ==
    /\ syncing /\ rejected
    /\ syncing' = FALSE
    /\ txs' = [i \in DOMAIN txs |-> [txs[i] EXCEPT !.awaited = FALSE]]
    /\ UNCHANGED <<disk, image, runs, rejected, lost, faults>>

================================================================================
