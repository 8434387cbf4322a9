---------------------------- MODULE LocalRbacProofs ----------------------------
(* What is proved of the parts, for the program they make up: a behaviour of  *)
(* LocalRbac is, seen from the variables of one part, one of that part.       *)
EXTENDS LocalRbac, ShamirProofs, FiniteSetTheorems, TLAPS

DekProof  == INSTANCE DekCacheProofs WITH User <- {Admin} \cup Member, Reader <- AsyncCall,
                 MaxDekVer <- MaxKeyVer, cache <- dekCache, call <- getting
MlsProof  == INSTANCE MlsGroupsProofs WITH Coordinator <- Admin, Blank <- EmptyLeaf, Caller <- {Admin},
                 call <- changing, made <- commitCount, granted <- roster
LoopProof == INSTANCE RebuildProofs WITH Member <- Rebuilder, Recorder <- AsyncCall,
                 MaxWrite <- MaxPut, Readable <- [m \in Rebuilder |-> Record],
                 CanEdit <- FALSE, CanSyncDirty <- FALSE
VfsProof  == INSTANCE IdbVfsProofs WITH PurgeDuringSync <- FALSE

\* One part moves at a time, and the others keep their variables.
LEMMA PartsMove ==
  ASSUME [Next]_vars
  PROVE  /\ Vfs!Next \/ UNCHANGED vfs
         /\ Dek!Next \/ UNCHANGED dek
         /\ Conn!Next \/ UNCHANGED conn
         /\ Mls!Next \/ UNCHANGED mls
         /\ Loop!Next \/ UNCHANGED loop
         /\ Lock!Next \/ UNCHANGED lock
         /\ Vlt!Next \/ UNCHANGED vlt
<1>1. CASE VfsMoves
  BY <1>1 DEF VfsMoves
<1>2. CASE ConnMoves
  BY <1>2 DEF ConnMoves
<1>3. CASE DekMoves
  BY <1>3 DEF DekMoves
<1>4. CASE LoopMoves
  BY <1>4 DEF LoopMoves
<1>5. CASE MlsMoves
  BY <1>5 DEF MlsMoves
<1>6. CASE VaultMoves
  BY <1>6 DEF VaultMoves
<1>7. CASE LockMoves
  BY <1>7 DEF LockMoves
<1>8. CASE UNCHANGED vars
  BY <1>8 DEF vars
<1> QED
  BY <1>1, <1>2, <1>3, <1>4, <1>5, <1>6, <1>7, <1>8 DEF Next

--------------------------------------------------------------------------------
(* The key cache.                                                             *)

LEMMA DekBegins == Init => DekProof!Init
  BY DEF Init, Dek!Init, DekProof!Init, Dek!NoCall, DekProof!NoCall, Dek!NoDek,
         DekProof!NoDek, Dek!Unknown, DekProof!Unknown, Dek!Cleared, DekProof!Cleared,
         Dek!Slot, DekProof!Slot, Dek!Version, DekProof!Version

LEMMA DekNext == Dek!Next => DekProof!Next
<1> USE DEF Dek!Slot, DekProof!Slot, Dek!Version, DekProof!Version, Dek!NoCall,
            DekProof!NoCall, Dek!NoDek, DekProof!NoDek, Dek!Unknown, DekProof!Unknown,
            Dek!Idle, DekProof!Idle, Dek!Finish, DekProof!Finish
<1>1. ASSUME NEW u, Dek!Login(u) PROVE DekProof!Login(u)
  BY <1>1 DEF Dek!Login, DekProof!Login, Dek!MayLogin, DekProof!MayLogin, Dek!Cleared,
              DekProof!Cleared
<1>2. Dek!Logout => DekProof!Logout
  BY DEF Dek!Logout, DekProof!Logout, Dek!Cleared, DekProof!Cleared
<1>3. Dek!Genesis => DekProof!Genesis
  BY DEF Dek!Genesis, DekProof!Genesis, Dek!Cleared, DekProof!Cleared
<1>4. Dek!ImportClears => DekProof!ImportClears
  BY DEF Dek!ImportClears, DekProof!ImportClears, Dek!Cleared, DekProof!Cleared
<1>5. Dek!Wipe => DekProof!Wipe
  BY DEF Dek!Wipe, DekProof!Wipe, Dek!Cleared, DekProof!Cleared
<1>6. ASSUME NEW s, Dek!ImportApplies(s) PROVE DekProof!ImportApplies(s)
  BY <1>6 DEF Dek!ImportApplies, DekProof!ImportApplies
<1>7. ASSUME NEW c, NEW v, Dek!GetDek(c, v) PROVE DekProof!GetDek(c, v)
  BY <1>7 DEF Dek!GetDek, DekProof!GetDek
<1>8. ASSUME NEW c, Dek!ReadRoot(c) PROVE DekProof!ReadRoot(c)
  BY <1>8 DEF Dek!ReadRoot, DekProof!ReadRoot
<1>9. ASSUME NEW c, Dek!ReadWrap(c) PROVE DekProof!ReadWrap(c)
  BY <1>9 DEF Dek!ReadWrap, DekProof!ReadWrap, Dek!RightDek, DekProof!RightDek
<1>10. ASSUME NEW c, Dek!Store(c) PROVE DekProof!Store(c)
  BY <1>10 DEF Dek!Store, DekProof!Store
<1> QED
  BY <1>1, <1>2, <1>3, <1>4, <1>5, <1>6, <1>7, <1>8, <1>9, <1>10
     DEF Dek!Next, DekProof!Next

LEMMA DekSpec == Spec => DekProof!Spec
<1>1. [Next]_vars => [DekProof!Next]_DekProof!vars
  BY PartsMove, DekNext DEF dek, DekProof!vars
<1> QED
  BY <1>1, DekBegins, PTL DEF Spec, DekProof!Spec

\* Admin is a user, and nobody is not: what TLC evaluates on every run.
LEMMA DekParams == DekProof!Params
  BY ParamsAssumption DEF Dek!Params, DekProof!Params

\* getDEK (engine/crengine.ts:143) never leaves, under the user at the keyboard,
\* a key that is not the resource's, however many members, versions and calls
\* there are and whatever logins, imports and wipes come between its awaits.
THEOREM KeysAreRight == Spec => []RightKeyOrNone
<1>1. DekProof!RightKeyOrNone => RightKeyOrNone
  BY DEF DekProof!RightKeyOrNone, RightKeyOrNone, Dek!RightKeyOrNone, Dek!Version,
         DekProof!Version, Dek!Unknown, DekProof!Unknown, Dek!NoDek, DekProof!NoDek,
         Dek!RightDek, DekProof!RightDek
<1>2. DekProof!Spec => []DekProof!RightKeyOrNone
  BY DekParams, DekProof!KeysAreRight
<1> QED
  BY <1>1, <1>2, DekSpec, PTL

\* ... nor a null (engine/crengine.ts:154) once the user's keywrap is here.
THEOREM NullsAreFresh == Spec => []NoStaleNull
<1>1. DekProof!NoStaleNull => NoStaleNull
  BY DEF DekProof!NoStaleNull, NoStaleNull, Dek!NoStaleNull, Dek!Version,
         DekProof!Version, Dek!NoDek, DekProof!NoDek
<1>2. DekProof!Spec => []DekProof!NoStaleNull
  BY DekParams, DekProof!NullsAreFresh
<1> QED
  BY <1>1, <1>2, DekSpec, PTL

--------------------------------------------------------------------------------
(* The connection.                                                            *)

LaneJobs == [by : Task, does : {"statement", "finalize", "close"}, early : BOOLEAN]

EarlyJob(j) == j.does = "statement" /\ j.early

\* The lane keeps the order of the calls: what was called before close() stands
\* before crsql_finalize(), which stands before the close.
LaneInOrder ==
    /\ closing = "no" => handle = "open" /\ \A i \in DOMAIN lane : lane[i].does = "statement"
    /\ handle = "open" => \A i \in DOMAIN lane : lane[i].does # "close"
    /\ handle # "open" => \A i \in DOMAIN lane : ~EarlyJob(lane[i])
    /\ \A i, j \in DOMAIN lane : EarlyJob(lane[i]) /\ lane[j].does = "finalize" => i < j

LaneInv == Conn!TypeOK /\ LaneInOrder /\ Conn!EarlyCallsRun

\* Chaining a job: the others keep their places and it is the last.
LEMMA JobChained ==
  ASSUME NEW S, NEW l \in Seq(S), NEW j \in S
  PROVE  /\ Append(l, j) \in Seq(S)
         /\ DOMAIN l = 1 .. Len(l) /\ Len(l) \in Nat
         /\ DOMAIN Append(l, j) = 1 .. Len(l) + 1
         /\ \A i \in DOMAIN l : Append(l, j)[i] = l[i]
         /\ Append(l, j)[Len(l) + 1] = j
  OBVIOUS

\* The first job leaves: the others move up by one place.
LEMMA JobLeft ==
  ASSUME NEW S, NEW l \in Seq(S), l # << >>
  PROVE  /\ Tail(l) \in Seq(S)
         /\ l[1] \in S /\ 1 \in DOMAIN l
         /\ DOMAIN l = 1 .. Len(l) /\ DOMAIN Tail(l) = 1 .. Len(l) - 1
         /\ \A i \in DOMAIN Tail(l) : i + 1 \in DOMAIN l /\ Tail(l)[i] = l[i + 1]
  OBVIOUS

LEMMA LaneBegins == ASSUME Conn!Params, Conn!Init PROVE LaneInv
  BY DEF Conn!Params, Conn!Init, LaneInv, Conn!TypeOK, LaneInOrder, Conn!EarlyCallsRun

LEMMA CallChains == ASSUME Conn!Params, LaneInv, NEW t \in Task, Conn!Call(t) PROVE LaneInv'
<1> DEFINE j == Conn!Job(t, "statement")
<1>1. j \in LaneJobs /\ j.does = "statement" /\ (closing # "no" => ~j.early)
  BY DEF Conn!Job, LaneJobs
<1>2. lane \in Seq(LaneJobs) /\ lane' = Append(lane, j)
  BY DEF LaneInv, Conn!TypeOK, LaneJobs, Conn!Call
<1> HIDE DEF j
<1>3. /\ lane' \in Seq(LaneJobs)
      /\ DOMAIN lane = 1 .. Len(lane) /\ Len(lane) \in Nat
      /\ DOMAIN lane' = 1 .. Len(lane) + 1
      /\ \A i \in DOMAIN lane : lane'[i] = lane[i]
      /\ lane'[Len(lane) + 1] = j
  BY <1>1, <1>2, JobChained
<1>4. calls < MaxCall /\ calls' = calls + 1 /\ UNCHANGED <<use, handle, closing, missed>>
  BY DEF Conn!Call
<1>5. Conn!TypeOK'
  BY <1>3, <1>4 DEF Conn!Params, LaneInv, Conn!TypeOK, LaneJobs
<1>6. LaneInOrder'
  BY <1>1, <1>3, <1>4 DEF LaneInv, LaneInOrder, EarlyJob
<1> QED
  BY <1>4, <1>5, <1>6 DEF LaneInv, Conn!EarlyCallsRun

LEMMA CloseChains == ASSUME LaneInv, NEW t \in Task, Conn!Close(t) PROVE LaneInv'
<1> DEFINE j == Conn!Job(t, "finalize")
<1>1. j \in LaneJobs /\ j.does = "finalize"
  BY DEF Conn!Job, LaneJobs
<1>2. lane \in Seq(LaneJobs) /\ lane' = Append(lane, j)
  BY DEF LaneInv, Conn!TypeOK, LaneJobs, Conn!Close
<1> HIDE DEF j
<1>3. /\ lane' \in Seq(LaneJobs)
      /\ DOMAIN lane = 1 .. Len(lane) /\ Len(lane) \in Nat
      /\ DOMAIN lane' = 1 .. Len(lane) + 1
      /\ \A i \in DOMAIN lane : lane'[i] = lane[i]
      /\ lane'[Len(lane) + 1] = j
  BY <1>1, <1>2, JobChained
<1>4. closing = "no" /\ closing' = "finalizing" /\ UNCHANGED <<use, handle, calls, missed>>
  BY DEF Conn!Close
<1>5. Conn!TypeOK'
  BY <1>3, <1>4 DEF LaneInv, Conn!TypeOK, LaneJobs
<1>6. LaneInOrder'
  BY <1>1, <1>3, <1>4 DEF LaneInv, LaneInOrder, EarlyJob
<1> QED
  BY <1>4, <1>5, <1>6 DEF LaneInv, Conn!EarlyCallsRun

\* An early statement that starts finds the connection open.
LEMMA JobStarts == ASSUME LaneInv, Conn!Start PROVE LaneInv'
<1>1. lane \in Seq(LaneJobs) /\ lane # << >>
  BY DEF LaneInv, Conn!TypeOK, LaneJobs, Conn!Start
<1>2. 1 \in DOMAIN lane
  BY <1>1
<1>3. missed' = missed
  BY <1>2 DEF LaneInv, LaneInOrder, EarlyJob, Conn!Start
<1> QED
  BY <1>3 DEF LaneInv, Conn!TypeOK, LaneInOrder, Conn!EarlyCallsRun, Conn!Start

\* The first job leaves and the connection is as it was.
LEMMA JobLeaves ==
  ASSUME LaneInv, lane # << >>, lane' = Tail(lane), use' = "free",
         UNCHANGED <<handle, closing, calls, missed>>
  PROVE  LaneInv'
<1>1. lane \in Seq(LaneJobs)
  BY DEF LaneInv, Conn!TypeOK, LaneJobs
<1>2. /\ lane' \in Seq(LaneJobs) /\ Len(lane) \in Nat
      /\ DOMAIN lane = 1 .. Len(lane) /\ DOMAIN lane' = 1 .. Len(lane) - 1
      /\ \A i \in DOMAIN lane' : i + 1 \in DOMAIN lane /\ lane'[i] = lane[i + 1]
  BY <1>1, JobLeft
<1>3. Conn!TypeOK'
  BY <1>2 DEF LaneInv, Conn!TypeOK, LaneJobs
<1>4. LaneInOrder'
  BY <1>2 DEF LaneInv, LaneInOrder, EarlyJob
<1> QED
  BY <1>3, <1>4 DEF LaneInv, Conn!EarlyCallsRun

\* A job runs only while there is one.
LaneRuns == use = "busy" => lane # << >>

LEMMA JobThrows == ASSUME LaneInv, LaneRuns, Conn!Throw PROVE LaneInv'
  BY JobLeaves DEF Conn!Throw, LaneRuns

LEMMA JobSettles == ASSUME LaneInv, LaneRuns, Conn!Settle PROVE LaneInv'
<1>1. lane \in Seq(LaneJobs) /\ lane # << >>
  BY DEF LaneInv, Conn!TypeOK, LaneJobs, Conn!Settle, LaneRuns
<1>2. CASE lane[1].does = "statement"
  BY <1>1, <1>2, JobLeaves DEF Conn!Settle
<1>3. CASE lane[1].does = "finalize"
  <2> DEFINE rest == Tail(lane)
             j == Conn!Job(lane[1].by, "close")
  <2>1. /\ rest \in Seq(LaneJobs) /\ lane[1] \in LaneJobs /\ Len(lane) \in Nat
        /\ DOMAIN lane = 1 .. Len(lane) /\ DOMAIN rest = 1 .. Len(lane) - 1
        /\ \A i \in DOMAIN rest : i + 1 \in DOMAIN lane /\ rest[i] = lane[i + 1]
    BY <1>1, JobLeft
  <2>2. j \in LaneJobs /\ j.does = "close"
    BY <2>1 DEF Conn!Job, LaneJobs
  <2>3. lane' = Append(rest, j) /\ handle' = "finalized" /\ closing' = "closing"
    BY <1>3 DEF Conn!Settle
  <2>4. \A i \in DOMAIN rest : ~EarlyJob(rest[i])
    <3> SUFFICES ASSUME NEW i \in DOMAIN rest, EarlyJob(rest[i]) PROVE FALSE
      OBVIOUS
    <3>1. 1 \in DOMAIN lane
      BY <1>1, <2>1
    <3>2. i + 1 < 1
      BY <1>3, <2>1, <3>1 DEF LaneInv, LaneInOrder, EarlyJob
    <3> QED
      BY <2>1, <3>2
  <2> HIDE DEF rest, j
  <2>0. rest \in Seq(LaneJobs) /\ j \in LaneJobs
    BY <2>1, <2>2
  <2>5. /\ lane' \in Seq(LaneJobs)
        /\ DOMAIN rest = 1 .. Len(rest) /\ Len(rest) \in Nat
        /\ DOMAIN lane' = 1 .. Len(rest) + 1
        /\ \A i \in DOMAIN rest : lane'[i] = rest[i]
        /\ lane'[Len(rest) + 1] = j
    BY <2>3, <2>0, JobChained
  <2>6. Conn!TypeOK'
    BY <2>3, <2>5 DEF LaneInv, Conn!TypeOK, LaneJobs, Conn!Settle
  <2>7. \A i \in DOMAIN lane' : ~EarlyJob(lane'[i])
    BY <2>2, <2>4, <2>5 DEF EarlyJob
  <2>8. LaneInOrder'
    BY <2>3, <2>7 DEF LaneInOrder, EarlyJob
  <2> QED
    BY <2>6, <2>8 DEF LaneInv, Conn!EarlyCallsRun, Conn!Settle
<1>4. CASE lane[1].does = "close"
  <2>1. /\ lane' \in Seq(LaneJobs) /\ Len(lane) \in Nat /\ 1 \in DOMAIN lane
        /\ DOMAIN lane = 1 .. Len(lane) /\ DOMAIN lane' = 1 .. Len(lane) - 1
        /\ \A i \in DOMAIN lane' : i + 1 \in DOMAIN lane /\ lane'[i] = lane[i + 1]
    BY <1>1, <1>4, JobLeft DEF Conn!Settle
  <2>2. handle' = "closed" /\ closing' = "done" /\ use' = "free" /\ UNCHANGED <<calls, missed>>
    BY <1>4 DEF Conn!Settle
  <2>3. handle # "open"
    BY <1>4, <2>1 DEF LaneInv, LaneInOrder
  <2>4. \A i \in DOMAIN lane' : ~EarlyJob(lane'[i])
    BY <2>1, <2>3 DEF LaneInv, LaneInOrder, EarlyJob
  <2>5. Conn!TypeOK'
    BY <2>1, <2>2 DEF LaneInv, Conn!TypeOK, LaneJobs
  <2>6. LaneInOrder'
    BY <2>2, <2>4 DEF LaneInOrder, EarlyJob
  <2> QED
    BY <2>2, <2>5, <2>6 DEF LaneInv, Conn!EarlyCallsRun
<1> QED
  BY <1>2, <1>3, <1>4 DEF Conn!Settle

LEMMA LaneStaysBusy == ASSUME LaneInv, LaneRuns, [Conn!Next]_conn PROVE LaneRuns'
<1>1. ASSUME NEW t \in Task, Conn!Call(t) \/ Conn!Close(t) PROVE LaneRuns'
  <2>1. lane \in Seq(LaneJobs)
    BY DEF LaneInv, Conn!TypeOK, LaneJobs
  <2>2. \A j \in LaneJobs : Append(lane, j) # << >>
    <3> SUFFICES ASSUME NEW j \in LaneJobs PROVE Append(lane, j) # << >>
      OBVIOUS
    <3>1. Len(Append(lane, j)) = Len(lane) + 1 /\ Len(lane) \in Nat
      BY <2>1
    <3>2. Len(<< >>) = 0
      OBVIOUS
    <3> QED
      BY <3>1, <3>2
  <2>3. Conn!Job(t, "statement") \in LaneJobs /\ Conn!Job(t, "finalize") \in LaneJobs
    BY DEF Conn!Job, LaneJobs
  <2> QED
    BY <1>1, <2>2, <2>3 DEF Conn!Call, Conn!Close, LaneRuns
<1>2. CASE Conn!Start
  BY <1>2 DEF Conn!Start, LaneRuns
<1>3. CASE Conn!Throw
  BY <1>3 DEF Conn!Throw, LaneRuns
<1>4. CASE Conn!Settle
  BY <1>4 DEF Conn!Settle, LaneRuns
<1>5. CASE UNCHANGED conn
  BY <1>5 DEF conn, LaneRuns
<1> QED
  BY <1>1, <1>2, <1>3, <1>4, <1>5 DEF Conn!Next

LEMMA LaneSteps == ASSUME Conn!Params, LaneInv, LaneRuns, [Conn!Next]_conn PROVE LaneInv'
<1>1. ASSUME NEW t \in Task, Conn!Call(t) PROVE LaneInv'
  BY <1>1, CallChains
<1>2. ASSUME NEW t \in Task, Conn!Close(t) PROVE LaneInv'
  BY <1>2, CloseChains
<1>3. CASE Conn!Start
  BY <1>3, JobStarts
<1>4. CASE Conn!Throw
  BY <1>4, JobThrows
<1>5. CASE Conn!Settle
  BY <1>5, JobSettles
<1>6. CASE UNCHANGED conn
  BY <1>6 DEF conn, LaneInv, Conn!TypeOK, LaneInOrder, Conn!EarlyCallsRun, EarlyJob
<1> QED
  BY <1>1, <1>2, <1>3, <1>4, <1>5, <1>6 DEF Conn!Next

LEMMA LaneAlwaysInOrder == Spec => []LaneInv
<1>1. Conn!Params
  BY ParamsAssumption
<1>2. Init => LaneInv /\ LaneRuns
  <2>1. Conn!Init => LaneRuns
    BY DEF Conn!Init, LaneRuns
  <2> QED
    BY <1>1, <2>1, LaneBegins DEF Init
<1>3. LaneInv /\ LaneRuns /\ [Next]_vars => (LaneInv /\ LaneRuns)'
  <2> SUFFICES ASSUME LaneInv, LaneRuns, [Next]_vars PROVE LaneInv' /\ LaneRuns'
    OBVIOUS
  <2>1. [Conn!Next]_conn
    BY PartsMove
  <2> QED
    BY <1>1, <2>1, LaneSteps, LaneStaysBusy
<1> QED
  BY <1>2, <1>3, PTL DEF Spec

\* What was called on the connection before close() (engine/sqlite.ts:98) runs
\* while it is open, for any number of handlers and of statements that throw.
THEOREM EarlyCallsAlwaysRun == Spec => []EarlyCallsRun
<1>1. LaneInv => EarlyCallsRun
  BY DEF LaneInv, EarlyCallsRun
<1> QED
  BY <1>1, LaneAlwaysInOrder, PTL

--------------------------------------------------------------------------------
(* The MLS groups.                                                            *)

LEMMA MlsBegins == Init => MlsProof!Init
  BY DEF Init, Mls!Init, MlsProof!Init, Mls!NoGroup, MlsProof!NoGroup, Mls!NoCall,
         MlsProof!NoCall

\* The leaves of a group are the same ones in both instances.
LEMMA MlsLeaves ==
  ASSUME NEW log
  PROVE  /\ Mls!Leaves(log) = MlsProof!Leaves(log)
         /\ Mls!Roster(log) = MlsProof!Roster(log)
         /\ Mls!FreeLeaf(log) = MlsProof!FreeLeaf(log)
<1>1. Mls!Leaves(log) = MlsProof!Leaves(log)
  BY Zenon DEF Mls!Leaves, MlsProof!Leaves, Mls!Max, MlsProof!Max
<1>2. Mls!Roster(log) = MlsProof!Roster(log)
  BY <1>1 DEF Mls!Roster, MlsProof!Roster
<1>3. Mls!FreeLeaf(log) = MlsProof!FreeLeaf(log)
  BY <1>1, Zenon DEF Mls!FreeLeaf, MlsProof!FreeLeaf, Mls!Min, MlsProof!Min,
                     Mls!Cardinality, MlsProof!Cardinality
<1> QED
  BY <1>1, <1>2, <1>3

LEMMA MlsNext == Mls!Next => MlsProof!Next
<1> USE DEF Mls!NoGroup, MlsProof!NoGroup, Mls!NoCall, MlsProof!NoCall
<1>1. ASSUME NEW c, NEW m, Mls!grant(c, m) PROVE MlsProof!grant(c, m)
  BY <1>1, MlsLeaves DEF Mls!grant, MlsProof!grant
<1>2. ASSUME NEW c, NEW leaf, Mls!revoke(c, leaf) PROVE MlsProof!revoke(c, leaf)
  BY <1>2 DEF Mls!revoke, MlsProof!revoke
<1>3. ASSUME NEW c, Mls!Founded(c) PROVE MlsProof!Founded(c)
  BY <1>3 DEF Mls!Founded, MlsProof!Founded, Mls!Founding, MlsProof!Founding
<1>4. ASSUME NEW c, Mls!Granted(c) PROVE MlsProof!Granted(c)
  BY <1>4, MlsLeaves DEF Mls!Granted, MlsProof!Granted
<1>5. ASSUME NEW c, Mls!Revoked(c) PROVE MlsProof!Revoked(c)
  BY <1>5, MlsLeaves DEF Mls!Revoked, MlsProof!Revoked
<1>6. ASSUME NEW m, Mls!join(m) PROVE MlsProof!join(m)
  BY <1>6 DEF Mls!join, MlsProof!join
<1>7. ASSUME NEW m, Mls!apply(m) PROVE MlsProof!apply(m)
  BY <1>7, MlsLeaves DEF Mls!apply, MlsProof!apply
<1> QED
  BY <1>1, <1>2, <1>3, <1>4, <1>5, <1>6, <1>7, MlsLeaves DEF Mls!Next, MlsProof!Next

LEMMA MlsSpec == Spec => MlsProof!Spec
<1>1. [Next]_vars => [MlsProof!Next]_MlsProof!vars
  BY PartsMove, MlsNext DEF mls, MlsProof!vars
<1> QED
  BY <1>1, MlsBegins, PTL DEF Spec, MlsProof!Spec

\* Holders of one MLS group at one epoch derive one key (mls/mls.ts:102), for any
\* members, any number of commits and any fate of the files they travel in; the
\* coordinator's calls come one after the other.
THEOREM OneKeyPerEpoch == Spec => []SameEpochSameKey
<1>1. MlsProof!SameEpochSameKey => SameEpochSameKey
  BY DEF MlsProof!SameEpochSameKey, SameEpochSameKey, Mls!SameEpochSameKey, Mls!Holder,
         MlsProof!Holder, Mls!dek, MlsProof!dek, Mls!epoch, MlsProof!epoch,
         Mls!NoGroup, MlsProof!NoGroup
<1>2. MlsProof!OneAtATime
  BY DEF MlsProof!OneAtATime
<1>3. MlsProof!Spec => []MlsProof!SameEpochSameKey
  BY <1>2, MlsProof!OneKeyPerEpoch
<1> QED
  BY <1>1, <1>3, MlsSpec, PTL

LEMMA MlsParams == MlsProof!Params /\ MlsProof!OneAtATime
  BY ParamsAssumption DEF Mls!Params, MlsProof!Params, MlsProof!OneAtATime

\* Who was revoked (mls/compartments.ts:53) and not granted again cannot derive
\* the key in use, from any of the files there ever were.
THEOREM RevokeLocksOut == Spec => []RevokedLockedOut
<1>1. MlsProof!RevokedLockedOut => RevokedLockedOut
  BY DEF MlsProof!RevokedLockedOut, RevokedLockedOut, Mls!RevokedLockedOut,
         Mls!NoGroup, MlsProof!NoGroup
<1>2. MlsProof!Spec => []MlsProof!RevokedLockedOut
  BY MlsParams, MlsProof!RevokeLocksOut
<1> QED
  BY <1>1, <1>2, MlsSpec, PTL

--------------------------------------------------------------------------------
(* The consensus loop.                                                        *)

\* The chain verbs are the same ones in both instances.
LEMMA LoopChains ==
  ASSUME NEW cps, NEW h
  PROVE  /\ Loop!chainFrom(cps, h) = LoopProof!chainFrom(cps, h)
         /\ Loop!Tips(cps) = LoopProof!Tips(cps)
<1>1. Loop!Cardinality(cps) = LoopProof!Cardinality(cps)
  BY Zenon DEF Loop!Cardinality, LoopProof!Cardinality
<1>2. \A x : Loop!Parent(cps, x) = LoopProof!Parent(cps, x)
  BY Zenon DEF Loop!Parent, LoopProof!Parent, Loop!ByHash, LoopProof!ByHash, Loop!Root,
               LoopProof!Root
<1>3. Loop!Walk(cps, h) = LoopProof!Walk(cps, h)
  <2> DEFINE Up(up) == [n \in 1 .. Loop!Cardinality(cps) + 1 |->
                         IF n = 1 THEN h ELSE Loop!Parent(cps, up[n - 1])]
             Also(up) == [n \in 1 .. LoopProof!Cardinality(cps) + 1 |->
                         IF n = 1 THEN h ELSE LoopProof!Parent(cps, up[n - 1])]
  <2>1. \A up : Up(up) = Also(up)
    BY <1>1, <1>2, Zenon
  <2>2. /\ Loop!Walk(cps, h) = CHOOSE up : up = Up(up)
        /\ LoopProof!Walk(cps, h) = CHOOSE up : up = Also(up)
    BY Zenon DEF Loop!Walk, LoopProof!Walk
  <2> HIDE DEF Up, Also
  <2>3. (CHOOSE up : up = Up(up)) = CHOOSE up : up = Also(up)
    BY <2>1, Zenon
  <2> QED
    BY <2>2, <2>3, Zenon
<1>4. Loop!chainFrom(cps, h) = LoopProof!chainFrom(cps, h)
  BY <1>3, Zenon DEF Loop!chainFrom, LoopProof!chainFrom, Loop!Cardinality, LoopProof!Cardinality
<1>5. Loop!Tips(cps) = LoopProof!Tips(cps)
  BY DEF Loop!Tips, LoopProof!Tips, Loop!Root, LoopProof!Root
<1> QED
  BY <1>4, <1>5

LEMMA LoopBegins == Init => LoopProof!Init
  BY DEF Init, Loop!Init, LoopProof!Init, Loop!Device, LoopProof!Device, Loop!Empty,
         LoopProof!Empty, Loop!Nothing, LoopProof!Nothing, Loop!NoRows, LoopProof!NoRows,
         Loop!NoRow, LoopProof!NoRow

\* The merge, the watermarks and the diffs are the same ones in both instances.
LEMMA LoopChangesets ==
  /\ Loop!Device = LoopProof!Device /\ Loop!NoRow = LoopProof!NoRow
  /\ Loop!Nothing = LoopProof!Nothing /\ Loop!Empty = LoopProof!Empty
  /\ \A since, cps : Loop!Watermarked(since, cps) = LoopProof!Watermarked(since, cps)
  /\ \A since, items : Loop!Touched(since, items) = LoopProof!Touched(since, items)
  /\ \A d, in : Loop!Imported(d, in) = LoopProof!Imported(d, in)
  /\ \A d, h : Loop!ExportSince(d, h) = LoopProof!ExportSince(d, h)
  /\ \A d : Loop!stateRoot(d) = LoopProof!stateRoot(d)
<1>1. /\ Loop!Device = LoopProof!Device /\ Loop!NoRow = LoopProof!NoRow
      /\ Loop!Nothing = LoopProof!Nothing /\ Loop!Empty = LoopProof!Empty
  BY Zenon DEF Loop!Device, LoopProof!Device, Loop!Empty, LoopProof!Empty, Loop!Nothing,
               LoopProof!Nothing, Loop!NoRows, LoopProof!NoRows, Loop!NoRow, LoopProof!NoRow
<1>2. \A since, cps : Loop!Watermarked(since, cps) = LoopProof!Watermarked(since, cps)
  BY Zenon DEF Loop!Watermarked, LoopProof!Watermarked
<1>3. \A since, items : Loop!Touched(since, items) = LoopProof!Touched(since, items)
  BY Zenon DEF Loop!Touched, LoopProof!Touched
<1>4. ASSUME NEW d, NEW in PROVE Loop!Imported(d, in) = LoopProof!Imported(d, in)
  BY Zenon DEF Loop!Imported, LoopProof!Imported, Loop!Later, LoopProof!Later, Loop!Cell,
               LoopProof!Cell, Loop!Gone, LoopProof!Gone, Loop!Watermarked,
               LoopProof!Watermarked, Loop!Touched, LoopProof!Touched
<1>5. ASSUME NEW d, NEW h PROVE Loop!ExportSince(d, h) = LoopProof!ExportSince(d, h)
  BY Zenon DEF Loop!ExportSince, LoopProof!ExportSince, Loop!Root, LoopProof!Root,
               Loop!Nothing, LoopProof!Nothing, Loop!NoRows, LoopProof!NoRows, Loop!NoRow,
               LoopProof!NoRow, Loop!Cell, LoopProof!Cell, Loop!Gone, LoopProof!Gone
<1>6. \A d : Loop!stateRoot(d) = LoopProof!stateRoot(d)
  BY Zenon DEF Loop!stateRoot, LoopProof!stateRoot
<1> QED
  BY <1>1, <1>2, <1>3, <1>4, <1>5, <1>6

LEMMA LoopWrites ==
  ASSUME NEW d, NEW r
  PROVE  /\ Loop!putRecord(d, r) => LoopProof!putRecord(d, r)
         /\ Loop!editRecord(d, r) => LoopProof!editRecord(d, r)
         /\ Loop!archiveRecord(d, r) => LoopProof!archiveRecord(d, r)
<1>1. /\ Loop!Device = LoopProof!Device /\ Loop!NoRow = LoopProof!NoRow
      /\ \A since, items : Loop!Touched(since, items) = LoopProof!Touched(since, items)
      /\ Loop!Cell(r) = LoopProof!Cell(r) /\ Loop!Gone(r) = LoopProof!Gone(r)
  BY LoopChangesets DEF Loop!Cell, LoopProof!Cell, Loop!Gone, LoopProof!Gone
<1>2. /\ Loop!Works(d) = LoopProof!Works(d) /\ Loop!MayWrite(d) = LoopProof!MayWrite(d)
  BY Zenon DEF Loop!Works, LoopProof!Works, Loop!MayWrite, LoopProof!MayWrite
<1>3. Loop!Write(d, r) => LoopProof!Write(d, r)
  BY <1>1, <1>2, Zenon DEF Loop!Write, LoopProof!Write
<1>4. Loop!archiveRecord(d, r) => LoopProof!archiveRecord(d, r)
  BY <1>1, <1>2, Zenon DEF Loop!archiveRecord, LoopProof!archiveRecord, Loop!Cardinality,
                           LoopProof!Cardinality
<1> QED
  BY <1>3, <1>4 DEF Loop!putRecord, LoopProof!putRecord, Loop!editRecord, LoopProof!editRecord

LEMMA LoopNext == Loop!Next => LoopProof!Next
<1>1. ASSUME NEW m, Loop!Sync(m) PROVE LoopProof!Sync(m)
  BY <1>1, LoopChangesets, Zenon DEF Loop!Sync, LoopProof!Sync
<1>2. ASSUME NEW m, Loop!Export(m) PROVE LoopProof!Export(m)
  BY <1>2, LoopChangesets, LoopChains, Zenon DEF Loop!Export, LoopProof!Export
<1>3. ASSUME NEW m, Loop!MergeDiff(m) PROVE LoopProof!MergeDiff(m)
  BY <1>3, LoopChangesets, Zenon DEF Loop!MergeDiff, LoopProof!MergeDiff
<1>4. ASSUME NEW m, Loop!rebuildSliceFor(m) PROVE LoopProof!rebuildSliceFor(m)
  BY <1>4, Zenon DEF Loop!rebuildSliceFor, LoopProof!rebuildSliceFor, Loop!Nothing,
       LoopProof!Nothing, Loop!NoRows, LoopProof!NoRows, Loop!NoRow, LoopProof!NoRow
<1>5. ASSUME NEW m, Loop!wipe(m) PROVE LoopProof!wipe(m)
  BY <1>5, LoopChangesets, Zenon DEF Loop!wipe, LoopProof!wipe
<1>6. ASSUME NEW m, Loop!Rejoin(m) PROVE LoopProof!Rejoin(m)
  BY <1>6, LoopChangesets, Zenon DEF Loop!Rejoin, LoopProof!Rejoin
<1>7. ASSUME NEW c, Loop!ReadChain(c) PROVE LoopProof!ReadChain(c)
  BY <1>7, LoopChains, Zenon DEF Loop!ReadChain, LoopProof!ReadChain, Loop!MayRecord,
       LoopProof!MayRecord, Loop!Cardinality, LoopProof!Cardinality, Loop!Max, LoopProof!Max
<1>8. ASSUME NEW c, Loop!RecordCheckpoint(c) PROVE LoopProof!RecordCheckpoint(c)
  BY <1>8, LoopChangesets, Zenon DEF Loop!RecordCheckpoint, LoopProof!RecordCheckpoint
<1> QED
  BY <1>1, <1>2, <1>3, <1>4, <1>5, <1>6, <1>7, <1>8, LoopWrites, LoopChangesets
     DEF Loop!Next, LoopProof!Next

LEMMA LoopSpec == Spec => LoopProof!Spec
<1>1. [Next]_vars => [LoopProof!Next]_LoopProof!vars
  BY PartsMove, LoopNext DEF loop, LoopProof!vars
<1> QED
  BY <1>1, LoopBegins, PTL DEF Spec, LoopProof!Spec

LEMMA LoopParams == LoopProof!Params
  BY ParamsAssumption DEF Loop!Params, LoopProof!Params

\* What a member had when it sent its diff is in the database it rebuilds from the
\* slice (engine/crengine.ts:521), for any members, records and checkpoints.
THEOREM RebuildKeeps == Spec => []KeptThroughRebuild
<1>1. LoopProof!KeptThroughRebuild => KeptThroughRebuild
  BY Zenon DEF LoopProof!KeptThroughRebuild, KeptThroughRebuild, Loop!KeptThroughRebuild
<1>2. LoopProof!Spec => []LoopProof!KeptThroughRebuild
  BY LoopParams, LoopProof!RebuildKeeps
<1> QED
  BY <1>1, <1>2, LoopSpec, PTL

\* The chain of every checkpoint (consensus/chain.ts:20) goes back to a first one,
\* however the recordCheckpoint calls overlapped.
THEOREM ChainsAreComplete == Spec => []ChainsComplete
<1>1. LoopProof!ChainsComplete => ChainsComplete
  BY LoopChains, LoopChangesets, Zenon
     DEF LoopProof!ChainsComplete, ChainsComplete, Loop!ChainsComplete
<1>2. LoopProof!Spec => []LoopProof!ChainsComplete
  BY LoopParams, LoopProof!ChainsAreComplete
<1> QED
  BY <1>1, <1>2, LoopSpec, PTL

\* mergeBase (consensus/chain.ts:34) is the latest checkpoint on both chains.
THEOREM MergeBaseIsTheLatest == Spec => []MergeBaseIsLatest
<1>1. \A chain : Loop!ToSet(chain) = LoopProof!ToSet(chain)
  BY Zenon DEF Loop!ToSet, LoopProof!ToSet
<1>2. ASSUME NEW cps, NEW a, NEW b
      PROVE  Loop!mergeBase(cps, a, b) = LoopProof!mergeBase(cps, a, b)
  <2>1. Loop!chainFrom(cps, a) = LoopProof!chainFrom(cps, a)
    BY LoopChains
  <2>2. Loop!chainFrom(cps, b) = LoopProof!chainFrom(cps, b)
    BY LoopChains
  <2>3. \A x, y : Loop!Common(x, y) = LoopProof!Common(x, y)
    BY <1>1, Zenon DEF Loop!Common, LoopProof!Common
  <2>4. \A set : Loop!Min(set) = LoopProof!Min(set)
    BY Zenon DEF Loop!Min, LoopProof!Min
  <2>5. Loop!Root = LoopProof!Root
    BY DEF Loop!Root, LoopProof!Root
  <2> QED
    BY <2>1, <2>2, <2>3, <2>4, <2>5, Zenon DEF Loop!mergeBase, LoopProof!mergeBase
<1>3. LoopProof!MergeBaseIsLatest => MergeBaseIsLatest
  BY <1>1, <1>2, LoopChains, LoopChangesets, Zenon
     DEF LoopProof!MergeBaseIsLatest, MergeBaseIsLatest, Loop!MergeBaseIsLatest
<1>4. LoopProof!Spec => []LoopProof!MergeBaseIsLatest
  BY LoopParams, LoopProof!MergeBaseIsTheLatest
<1> QED
  BY <1>3, <1>4, LoopSpec, PTL

--------------------------------------------------------------------------------
(* The lock ceremony.                                                         *)

\* w holds the winner after each of the first k cells.
Winners(w, cells, k) ==
    w = [n \in 0 .. k |->
            IF n = 0 THEN Lock!NoWinner
            ELSE IF n = 1 \/ Lock!LaterHlc(cells[n], w[n - 1]) THEN cells[n] ELSE w[n - 1]]

\* The fold of foldRecords has a result.
LEMMA WinnersExist ==
  ASSUME NEW cells, NEW k \in Nat
  PROVE  \E w : Winners(w, cells, k)
<1> DEFINE T == {n \in Nat : ~ \E w : Winners(w, cells, n)}
<1> SUFFICES ASSUME T # {} PROVE FALSE
  OBVIOUS
<1>1. PICK m \in T : \A x \in T : m <= x
  BY LoopProof!Smallest
<1>2. CASE m = 0
  <2> DEFINE w == [n \in 0 .. 0 |-> Lock!NoWinner]
             e(n) == IF n = 0 THEN Lock!NoWinner
                     ELSE IF n = 1 \/ Lock!LaterHlc(cells[n], w[n - 1]) THEN cells[n]
                          ELSE w[n - 1]
  <2>1. \A n \in 0 .. 0 : n = 0
    OBVIOUS
  <2>2. \A n \in 0 .. 0 : e(n) = Lock!NoWinner
    BY <2>1, Zenon
  <2>3. w = [n \in 0 .. 0 |-> e(n)]
    BY <2>2, Zenon
  <2> QED
    BY <1>2, <2>3, Zenon DEF Winners
<1>3. CASE m # 0
  <2>1. m - 1 \in Nat /\ m - 1 \notin T
    BY <1>1, <1>3
  <2>2. PICK v : Winners(v, cells, m - 1)
    BY <2>1
  <2> DEFINE e(u, n) == IF n = 0 THEN Lock!NoWinner
                        ELSE IF n = 1 \/ Lock!LaterHlc(cells[n], u[n - 1]) THEN cells[n]
                             ELSE u[n - 1]
             w == [n \in 0 .. m |-> e(v, n)]
  <2>3. v = [n \in 0 .. m - 1 |-> e(v, n)]
    BY <2>2, Zenon DEF Winners
  <2>4. \A n \in 0 .. m - 1 : v[n] = e(v, n)
    <3> HIDE DEF e
    <3> QED
      BY <2>3
  <2>5. \A n \in 0 .. m - 1 : w[n] = v[n]
    <3> HIDE DEF e
    <3>1. \A n \in 0 .. m - 1 : n \in 0 .. m
      BY <2>1
    <3> QED
      BY <2>4, <3>1
  <2>6. \A n \in 0 .. m : n # 0 => n - 1 \in 0 .. m - 1
    BY <2>1
  <2>7. \A n \in 0 .. m : n # 0 => w[n - 1] = v[n - 1]
    <3> HIDE DEF w
    <3> QED
      BY <2>5, <2>6
  <2>8. \A n \in 0 .. m : w[n] = e(v, n)
    <3> HIDE DEF e
    <3> QED
      OBVIOUS
  <2>9. w = [n \in 0 .. m |-> w[n]]
    <3> HIDE DEF e
    <3> QED
      OBVIOUS
  <2> HIDE DEF w
  <2>10. \A n \in 0 .. m : e(v, n) = e(w, n)
    BY <2>7, Zenon
  <2>11. \A n \in 0 .. m : w[n] = e(w, n)
    <3> HIDE DEF e
    <3> QED
      BY <2>8, <2>10, Zenon
  <2>12. w = [n \in 0 .. m |-> e(w, n)]
    <3> HIDE DEF e
    <3> QED
      BY <2>9, <2>11, Zenon
  <2> QED
    BY <2>12, Zenon DEF Winners
<1> QED
  BY <1>2, <1>3

\* The winner is one of the cells, and no other has a newer key version.
LEMMA FoldPicksNewest ==
  ASSUME NEW D, \A c \in D : c.ver \in Nat /\ c.res \in Nat,
         NEW n \in Nat \ {0}, NEW cells \in [1 .. n -> D]
  PROVE  \E i \in 1 .. n : /\ Lock!foldRecord(cells) = cells[i]
                           /\ \A j \in 1 .. n : cells[j].ver <= cells[i].ver
<1>1. Len(cells) = n
  OBVIOUS
<1>2. PICK w : Winners(w, cells, n)
  BY WinnersExist
<1> DEFINE u == CHOOSE x : x = [k \in 0 .. n |->
                    IF k = 0 THEN Lock!NoWinner
                    ELSE IF k = 1 \/ Lock!LaterHlc(cells[k], x[k - 1]) THEN cells[k]
                         ELSE x[k - 1]]
<1>3. Lock!foldRecord(cells) = u[n]
  BY <1>1, Zenon DEF Lock!foldRecord
<1>4. u = [k \in 0 .. n |->
              IF k = 0 THEN Lock!NoWinner
              ELSE IF k = 1 \/ Lock!LaterHlc(cells[k], u[k - 1]) THEN cells[k] ELSE u[k - 1]]
  BY <1>2, Zenon DEF Winners
<1> HIDE DEF u
<1>5. \A k \in 1 .. n :
        u[k] = IF k = 1 \/ Lock!LaterHlc(cells[k], u[k - 1]) THEN cells[k] ELSE u[k - 1]
  BY <1>4
<1> DEFINE Newest(k) == \E i \in 1 .. k : u[k] = cells[i] /\ \A j \in 1 .. k : cells[j].ver <= cells[i].ver
           T == {k \in 1 .. n : ~ Newest(k)}
<1>6. T = {}
  <2> SUFFICES ASSUME T # {} PROVE FALSE
    OBVIOUS
  <2>1. T \subseteq Nat
    OBVIOUS
  <2>2. PICK k \in T : \A x \in T : k <= x
    BY <2>1, LoopProof!Smallest
  <2>3. k \in 1 .. n /\ ~ Newest(k)
    OBVIOUS
  <2>4. \A i \in 1 .. n : cells[i].ver \in Nat /\ cells[i].res \in Nat
    OBVIOUS
  <2>5. CASE k = 1
    <3>1. u[1] = cells[1]
      BY <1>5
    <3> QED
      BY <2>3, <2>4, <2>5, <3>1
  <2>6. CASE k # 1
    <3>1. k - 1 \in 1 .. n /\ ~ (k <= k - 1)
      BY <2>3, <2>6
    <3>2. Newest(k - 1)
      BY <2>2, <3>1
    <3>3. PICK i \in 1 .. k - 1 : /\ u[k - 1] = cells[i]
                                  /\ \A j \in 1 .. k - 1 : cells[j].ver <= cells[i].ver
      BY <3>2
    <3>4. i \in 1 .. n /\ i \in 1 .. k /\ \A j \in 1 .. k : j = k \/ j \in 1 .. k - 1
      BY <2>3, <3>1
    <3>5. CASE Lock!LaterHlc(cells[k], cells[i])
      <4>1. u[k] = cells[k] /\ cells[i].ver <= cells[k].ver
        BY <1>5, <2>3, <2>4, <3>3, <3>4, <3>5 DEF Lock!LaterHlc
      <4>2. \A j \in 1 .. k : cells[j].ver <= cells[k].ver
        BY <2>3, <2>4, <3>3, <3>4, <4>1
      <4> QED
        BY <2>3, <4>1, <4>2
    <3>6. CASE ~ Lock!LaterHlc(cells[k], cells[i])
      <4>1. u[k] = cells[i] /\ cells[k].ver <= cells[i].ver
        BY <1>5, <2>3, <2>4, <2>6, <3>3, <3>4, <3>6, SMTT(30) DEF Lock!LaterHlc
      <4>2. \A j \in 1 .. k : cells[j].ver <= cells[i].ver
        BY <3>3, <3>4, <4>1
      <4> QED
        BY <2>3, <3>4, <4>1, <4>2
    <3> QED
      BY <3>5, <3>6
  <2> QED
    BY <2>5, <2>6
<1>7. Newest(n)
  BY <1>6
<1> QED
  BY <1>3, <1>7

\* A list of a finite set's members, each once, has them all.
LEMMA ListHasAll ==
  ASSUME NEW D, IsFiniteSet(D), NEW cells \in Lock!SetToSeqs(D)
  PROVE  \E n \in Nat : cells \in [1 .. n -> D] /\ \A c \in D : \E j \in 1 .. n : cells[j] = c
<1> DEFINE n == Cardinality(D)
<1>1. n \in Nat
  BY FS_CardinalityType
<1>2. Lock!Cardinality(D) = n
  BY Zenon DEF Lock!Cardinality, Cardinality
<1>3. cells \in [1 .. n -> D] /\ \A i, j \in 1 .. n : i # j => cells[i] # cells[j]
  BY <1>2, Zenon DEF Lock!SetToSeqs
<1>4. IsFiniteSet(1 .. n) /\ Cardinality(1 .. n) = n
  BY <1>1, FS_Interval
<1> HIDE DEF n
<1>5. cells \in Injection(1 .. n, D)
  BY <1>3 DEF Injection, IsInjective
<1>6. cells \in Surjection(1 .. n, D)
  BY <1>4, <1>5, FS_Injection DEF n
<1> QED
  BY <1>1, <1>3, <1>6 DEF Surjection

\* val is what foldRecords makes of the cells c that by can open with the keys k,
\* when by can open all of them.
FoldsNewest(by, val, c, k) ==
    \A rid \in LockRecord :
        LET tagged == Lock!Tagged(c, rid)
        IN  tagged # {} /\ (\A res \in tagged : Lock!HasKey(by, res, c[<<rid, res>>].ver, k)) =>
                \E res \in tagged :
                    /\ val[rid] = c[<<rid, res>>].val
                    /\ \A x \in tagged : c[<<rid, x>>].ver <= c[<<rid, res>>].ver

IsCells(c) ==
    /\ c \in [LockRecord \X Resource -> [ver : 0 .. MaxDekVer, val : 0 .. MaxWrite]]
    /\ \A x \in LockRecord \X Resource : c[x] # Lock!NoCell => c[x].ver # 0

\* No cell goes away, a consolidation under way has folded the newest values, and
\* a lock that was answered ended the day.
Ceremonious ==
    /\ IsCells(cell) /\ IsCells(start.cell)
    /\ dekver \in [Resource -> 1 .. MaxDekVer] /\ archived \subseteq LockRecord
    /\ writes \in 0 .. MaxWrite
    /\ \A x \in LockRecord \X Resource : start.cell[x] # Lock!NoCell => cell[x] # Lock!NoCell
    /\ folded = Lock!Nothing \/
         /\ folded.by \in Locker \cup {Admin} /\ output = Lock!Nothing
         /\ FoldsNewest(folded.by, folded.val, start.cell, start.keys)
    /\ Lock!LockLosesNothing

LEMMA CellsFold ==
  ASSUME Lock!Params, NEW by, NEW c, NEW k, IsCells(c), c = cell, k = keys,
         NEW rows, \A rid \in LockRecord : rows[rid] \in Lock!SetToSeqs(Lock!Decrypted(by, rid)),
         NEW val, val = [rid \in LockRecord |-> Lock!foldRecord(rows[rid]).val]
  PROVE  FoldsNewest(by, val, c, k)
<1> SUFFICES ASSUME NEW rid \in LockRecord, Lock!Tagged(c, rid) # {},
                    \A res \in Lock!Tagged(c, rid) : Lock!HasKey(by, res, c[<<rid, res>>].ver, k)
             PROVE  \E res \in Lock!Tagged(c, rid) :
                      /\ val[rid] = c[<<rid, res>>].val
                      /\ \A x \in Lock!Tagged(c, rid) : c[<<rid, x>>].ver <= c[<<rid, res>>].ver
  BY Zenon DEF FoldsNewest
<1> DEFINE tagged == Lock!Tagged(c, rid)
           open(res) == [ver |-> c[<<rid, res>>].ver, val |-> c[<<rid, res>>].val, res |-> res]
           D == {open(res) : res \in tagged}
<1>1. tagged \subseteq Resource /\ tagged # {}
  BY DEF Lock!Tagged
<1>2. Lock!Decrypted(by, rid) = D
  <2>1. {x \in tagged : Lock!HasKey(by, x, c[<<rid, x>>].ver, k)} = tagged
    OBVIOUS
  <2> QED
    BY <2>1 DEF Lock!Decrypted
<1>3. \A res \in tagged : c[<<rid, res>>] \in [ver : 0 .. MaxDekVer, val : 0 .. MaxWrite]
  BY <1>1 DEF IsCells
<1>4. MaxDekVer \in Nat /\ Resource \subseteq Nat /\ IsFiniteSet(Resource)
  BY DEF Lock!Params, Lock!IsFiniteSet, IsFiniteSet
<1> HIDE DEF tagged
<1>5. \A d \in D : d.ver \in Nat /\ d.res \in Nat
  <2>1. ASSUME NEW res \in tagged PROVE open(res).ver \in Nat /\ open(res).res \in Nat
    <3>1. c[<<rid, res>>].ver \in 0 .. MaxDekVer /\ res \in Resource
      BY <1>1, <1>3
    <3>2. open(res).ver = c[<<rid, res>>].ver /\ open(res).res = res
      OBVIOUS
    <3> HIDE DEF open
    <3> QED
      BY <1>4, <3>1, <3>2
  <2> HIDE DEF open
  <2> QED
    BY <2>1
<1>6. IsFiniteSet(D)
  <2>1. IsFiniteSet(tagged)
    BY <1>1, <1>4, FS_Subset
  <2> DEFINE f == [res \in tagged |-> open(res)]
  <2>2. f \in Surjection(tagged, D)
    BY DEF Surjection
  <2> HIDE DEF f, D
  <2> QED
    BY <2>1, <2>2, FS_Surjection
<1> HIDE DEF D
<1>7. PICK n \in Nat : /\ rows[rid] \in [1 .. n -> D]
                       /\ \A d \in D : \E j \in 1 .. n : rows[rid][j] = d
  BY <1>2, <1>6, ListHasAll
<1>8. \A res \in tagged : \E j \in 1 .. n : rows[rid][j] = open(res)
  BY <1>7 DEF D
<1>9. n # 0
  <2> SUFFICES ASSUME n = 0 PROVE FALSE
    OBVIOUS
  <2>1. PICK res \in tagged : TRUE
    BY <1>1
  <2>2. PICK j \in 1 .. n : TRUE
    BY <1>8, <2>1
  <2> QED
    BY <2>2
<1>10. PICK i \in 1 .. n : /\ Lock!foldRecord(rows[rid]) = rows[rid][i]
                           /\ \A j \in 1 .. n : rows[rid][j].ver <= rows[rid][i].ver
  BY <1>5, <1>7, <1>9, FoldPicksNewest
<1>11. PICK res \in tagged : rows[rid][i] = open(res)
  <2>1. rows[rid][i] \in D
    BY <1>7
  <2> HIDE DEF open
  <2> QED
    BY <2>1 DEF D
<1>12. val[rid] = c[<<rid, res>>].val
  BY <1>10, <1>11
<1>13. \A x \in tagged : c[<<rid, x>>].ver <= c[<<rid, res>>].ver
  <2> TAKE x \in tagged
  <2>1. PICK j \in 1 .. n : rows[rid][j] = open(x)
    BY <1>8
  <2>2. rows[rid][j].ver <= rows[rid][i].ver
    BY <1>10
  <2> QED
    BY <1>11, <2>1, <2>2
<1> QED
  BY <1>12, <1>13 DEF tagged

\* What no step of the day takes away: cells that were there, a fold under way.
LEMMA CeremonyDay ==
  ASSUME Ceremonious, IsCells(cell'), UNCHANGED <<folded, output, start>>,
         dekver' \in [Resource -> 1 .. MaxDekVer], archived' \subseteq LockRecord,
         writes' \in 0 .. MaxWrite,
         \A x \in LockRecord \X Resource : cell[x] # Lock!NoCell => cell'[x] # Lock!NoCell
  PROVE  Ceremonious'
<1>1. \A x \in LockRecord \X Resource : start.cell[x] # Lock!NoCell => cell'[x] # Lock!NoCell
  BY DEF Ceremonious
<1>2. folded' = Lock!Nothing \/
        /\ folded'.by \in Locker \cup {Admin} /\ output' = Lock!Nothing
        /\ FoldsNewest(folded'.by, folded'.val, start'.cell, start'.keys)
  BY Zenon DEF Ceremonious, FoldsNewest, Lock!Tagged, Lock!HasKey, Lock!NoCell, Lock!Nothing
<1>3. Lock!LockLosesNothing'
  <2>1. output' = output /\ start' = start /\ Lock!LockLosesNothing
    BY DEF Ceremonious
  <2>2. /\ Lock!Locked' = Lock!Locked /\ Lock!NoCell' = Lock!NoCell
        /\ \A rid : Lock!Tagged(start.cell, rid)' = Lock!Tagged(start.cell, rid)
        /\ \A rid : Lock!OpensAll(output.by, rid)' = Lock!OpensAll(output.by, rid)
    BY <2>1, Zenon DEF Lock!Locked, Lock!OpensAll, Lock!Tagged, Lock!HasKey, Lock!NoCell
  <2> QED
    BY <2>1, <2>2, SMTT(30) DEF Lock!LockLosesNothing
<1>4. IsCells(start.cell)' /\ Lock!Nothing' = Lock!Nothing /\ Lock!NoCell' = Lock!NoCell
  BY DEF Ceremonious, IsCells, Lock!Nothing, Lock!NoCell
<1> QED
  BY <1>1, <1>2, <1>3, <1>4 DEF Ceremonious

LEMMA CeremonyWrite ==
  ASSUME Ceremonious, Lock!Params, NEW rid \in LockRecord, NEW res \in Resource,
         Lock!writeCell(rid, res)
  PROVE  Ceremonious'
<1>1. /\ writes' = writes + 1 /\ writes < MaxWrite
      /\ cell' = [cell EXCEPT ![<<rid, res>>] = [ver |-> dekver[res], val |-> writes']]
      /\ UNCHANGED <<folded, output, start, archived, dekver>>
  BY DEF Lock!writeCell, Lock!Rest
<1>2. MaxDekVer \in Nat /\ MaxWrite \in Nat /\ writes \in 0 .. MaxWrite /\ dekver[res] \in 1 .. MaxDekVer
  BY DEF Lock!Params, Ceremonious
<1> DEFINE new == [ver |-> dekver[res], val |-> writes']
           at == <<rid, res>>
<1>3. new \in [ver : 0 .. MaxDekVer, val : 0 .. MaxWrite] /\ new.ver # 0 /\ new # Lock!NoCell
  BY <1>1, <1>2 DEF Lock!NoCell
<1>4. cell' = [cell EXCEPT ![at] = new]
  BY <1>1
<1> HIDE DEF new, at
<1>5. IsCells(cell)
  BY DEF Ceremonious
<1>6. IsCells(cell')
  BY <1>3, <1>4, <1>5 DEF IsCells
<1>7. \A x \in LockRecord \X Resource : cell[x] # Lock!NoCell => cell'[x] # Lock!NoCell
  BY <1>3, <1>4, <1>5 DEF IsCells
<1>8. writes' \in 0 .. MaxWrite
  BY <1>1, <1>2
<1> QED
  BY <1>1, <1>6, <1>7, <1>8, CeremonyDay DEF Ceremonious

LEMMA CeremonyKeys ==
  ASSUME Ceremonious, Lock!Params,
         \/ \E rid \in LockRecord : Lock!archiveRecord(rid)
         \/ \E m \in Locker, res \in Resource : Lock!grant(m, res) \/ Lock!revoke(m, res)
         \/ \E res \in Resource : Lock!rotateDek(res)
  PROVE  Ceremonious'
<1>1. UNCHANGED <<folded, output, start, cell, writes>>
  BY DEF Lock!archiveRecord, Lock!grant, Lock!revoke, Lock!rotateDek, Lock!Rest
<1>2. archived' \subseteq LockRecord
  BY DEF Ceremonious, Lock!archiveRecord, Lock!grant, Lock!revoke, Lock!rotateDek
<1>3. ASSUME NEW res \in Resource, NEW members, Lock!Rotated(res, members)
      PROVE  dekver' \in [Resource -> 1 .. MaxDekVer]
  <2>1. dekver[res] \in 1 .. MaxDekVer /\ dekver[res] < MaxDekVer /\ MaxDekVer \in Nat
    BY <1>3 DEF Lock!Rotated, Ceremonious, Lock!Params
  <2> QED
    BY <1>3, <2>1 DEF Lock!Rotated, Ceremonious
<1>4. dekver' \in [Resource -> 1 .. MaxDekVer]
  BY <1>3 DEF Ceremonious, Lock!archiveRecord, Lock!grant, Lock!revoke, Lock!rotateDek
<1> QED
  BY <1>1, <1>2, <1>4, CeremonyDay DEF Ceremonious

LEMMA CeremonyReads ==
  ASSUME Ceremonious, Lock!Params, NEW by \in Locker \cup {Admin}, Lock!ReadCells(by)
  PROVE  Ceremonious'
<1>1. PICK rows : /\ \A rid \in LockRecord : rows[rid] \in Lock!SetToSeqs(Lock!Decrypted(by, rid))
                  /\ folded' = [by |-> by, val |-> [rid \in LockRecord |->
                                                      Lock!foldRecord(rows[rid]).val]]
  BY DEF Lock!ReadCells
<1>2. /\ start' = [cell |-> cell, keys |-> keys] /\ output = Lock!Nothing
      /\ UNCHANGED <<output, cell, archived, dekver, keys, granted, writes>>
  BY DEF Lock!ReadCells, Lock!Day, Lock!db
<1>3. FoldsNewest(folded'.by, folded'.val, start'.cell, start'.keys)
  <2> DEFINE val == [rid \in LockRecord |-> Lock!foldRecord(rows[rid]).val]
  <2>1. folded'.by = by /\ folded'.val = val /\ start'.cell = cell /\ start'.keys = keys
    BY <1>1, <1>2
  <2>2. FoldsNewest(by, val, cell, keys)
    BY <1>1, CellsFold DEF Ceremonious
  <2> HIDE DEF val
  <2> QED
    BY <2>1, <2>2
<1>4. IsCells(cell) /\ start'.cell = cell /\ cell' = cell /\ folded'.by = by
  BY <1>1, <1>2 DEF Ceremonious
<1>5. ~ Lock!Locked'
  BY <1>2 DEF Lock!Locked, Lock!Nothing, Lock!Params
<1>6. IsCells(cell') /\ IsCells(start'.cell) /\ output' = Lock!Nothing
  BY <1>2, <1>4
<1> QED
  BY <1>2, <1>3, <1>4, <1>5, <1>6
     DEF Ceremonious, Lock!LockLosesNothing, IsCells, FoldsNewest, Lock!NoCell, Lock!Nothing

LEMMA CeremonyLocks ==
  ASSUME Ceremonious, Lock!Params, Lock!lock
  PROVE  Ceremonious'
<1>1. /\ folded # Lock!Nothing /\ folded' = Lock!Nothing
      /\ UNCHANGED <<start, cell, archived, dekver, keys, granted, writes>>
  BY DEF Lock!lock, Lock!db
<1>2. FoldsNewest(folded.by, folded.val, start.cell, start.keys)
  BY <1>1 DEF Ceremonious
<1> DEFINE records == Lock!Records
<1>3. Lock!Locked' => output' = [by |-> folded.by, active |-> {r \in records : ~ r.archived},
                                 archive |-> {r \in records : r.archived}]
  BY DEF Lock!lock, Lock!Locked, Lock!Params
<1>4. ASSUME Lock!Locked', NEW rid \in LockRecord, Lock!Tagged(start.cell, rid) # {},
             Lock!OpensAll(folded.by, rid)
      PROVE  LET tagged == Lock!Tagged(start.cell, rid)
                 out    == {r \in output'.active \cup output'.archive : r.rid = rid}
             IN  /\ Lock!Cardinality(out) = 1
                 /\ \A r \in out : \E res \in tagged :
                     /\ r.val = start.cell[<<rid, res>>].val
                     /\ \A x \in tagged : start.cell[<<rid, x>>].ver <= start.cell[<<rid, res>>].ver
  <2> DEFINE tagged == Lock!Tagged(start.cell, rid)
             entry(x) == [rid |-> x, val |-> folded.val[x], resources |-> Lock!Tagged(cell, x),
                          archived |-> x \in archived]
             mine == entry(rid)
  <2>1. PICK res \in tagged :
          /\ folded.val[rid] = start.cell[<<rid, res>>].val
          /\ \A x \in tagged : start.cell[<<rid, x>>].ver <= start.cell[<<rid, res>>].ver
    BY <1>2, <1>4 DEF FoldsNewest, Lock!OpensAll
  <2>2. Lock!Tagged(cell, rid) # {}
    BY <1>4 DEF Ceremonious, Lock!Tagged
  <2>3. \A r : r \in records /\ r.rid = rid <=> r = mine
    <3>1. \A x : entry(x).rid = x
      OBVIOUS
    <3>2. records = {entry(x) : x \in {y \in LockRecord : Lock!Tagged(cell, y) # {}}}
      BY Zenon DEF Lock!Records
    <3> HIDE DEF entry, records
    <3> QED
      BY <2>2, <3>1, <3>2
  <2>4. output'.active \cup output'.archive = records
    BY <1>3, <1>4
  <2>6. mine.val = folded.val[rid]
    OBVIOUS
  <2> HIDE DEF records, mine
  <2>5. {r \in output'.active \cup output'.archive : r.rid = rid} = {mine}
    BY <2>3, <2>4
  <2>7. Lock!Cardinality({mine}) = 1
    <3>1. Cardinality({mine}) = 1
      BY FS_Singleton
    <3> QED
      BY <3>1, Zenon DEF Lock!Cardinality, Cardinality
  <2> QED
    BY <2>1, <2>5, <2>6, <2>7
<1>5. Lock!Locked' => output'.by = folded.by
  BY <1>3
<1>6. Lock!LockLosesNothing'
  <2>1. \A by, rid : Lock!OpensAll(by, rid)' <=> Lock!OpensAll(by, rid)
    BY <1>1 DEF Lock!OpensAll, Lock!Tagged, Lock!HasKey, Lock!NoCell
  <2>2. \A rid : Lock!Tagged(start.cell, rid)' = Lock!Tagged(start.cell, rid)
    BY <1>1 DEF Lock!Tagged, Lock!NoCell
  <2>3. start' = start
    BY <1>1
  <2> SUFFICES ASSUME Lock!Locked', NEW rid \in LockRecord, Lock!Tagged(start.cell, rid) # {},
                      Lock!OpensAll(folded.by, rid)
               PROVE  LET tagged == Lock!Tagged(start.cell, rid)
                          out    == {r \in output'.active \cup output'.archive : r.rid = rid}
                      IN  /\ Lock!Cardinality(out) = 1
                          /\ \A r \in out : \E res \in tagged :
                              /\ r.val = start.cell[<<rid, res>>].val
                              /\ \A x \in tagged :
                                    start.cell[<<rid, x>>].ver <= start.cell[<<rid, res>>].ver
    BY <1>5, <2>1, <2>2, <2>3, Zenon DEF Lock!LockLosesNothing
  <2> QED
    BY <1>4, Zenon
<1> QED
  BY <1>1, <1>6 DEF Ceremonious, IsCells, Lock!NoCell, Lock!Nothing

LEMMA CeremonyBegins == Init => Ceremonious
<1> SUFFICES ASSUME Init PROVE Ceremonious
  OBVIOUS
<1> USE DEF Init, Lock!Init
<1>1. Lock!Params
  BY ParamsAssumption
<1>2. MaxDekVer \in 1 .. 9 /\ MaxWrite \in Nat /\ "nobody" \notin Locker \cup {Admin}
  BY <1>1 DEF Lock!Params
<1>3. cell = [c \in LockRecord \X Resource |-> Lock!NoCell] /\ start.cell = cell
  OBVIOUS
<1>4. IsCells(cell)
  BY <1>2, <1>3 DEF IsCells, Lock!NoCell
<1>5. dekver \in [Resource -> 1 .. MaxDekVer]
  BY <1>2
<1>6. ~ Lock!Locked
  BY <1>2 DEF Lock!Locked, Lock!Nothing
<1> QED
  BY <1>2, <1>3, <1>4, <1>5, <1>6 DEF Ceremonious, Lock!LockLosesNothing

LEMMA CeremonySteps == Ceremonious /\ [Next]_vars => Ceremonious'
<1> SUFFICES ASSUME Ceremonious, [Next]_vars PROVE Ceremonious'
  OBVIOUS
<1>1. Lock!Params
  BY ParamsAssumption
<1>2. CASE Lock!Next
  BY <1>1, <1>2, CeremonyWrite, CeremonyKeys, CeremonyReads, CeremonyLocks DEF Lock!Next
<1>3. CASE UNCHANGED lock
  <2>1. UNCHANGED <<folded, output, start, cell, archived, dekver, writes>>
    BY <1>3 DEF lock
  <2> QED
    BY <2>1, CeremonyDay DEF Ceremonious
<1> QED
  BY <1>2, <1>3, PartsMove

\* A lock by somebody who can open every cell (ceremony/index.ts:8) keeps every
\* record there was, once, with a value of its newest key version
\* (engine/crengine.ts:359), whatever is written, granted or rotated meanwhile and
\* in whatever order the database lists the cells.
THEOREM LocksLoseNothing == Spec => []LockLosesNothing
<1>1. Ceremonious => LockLosesNothing
  BY DEF Ceremonious, LockLosesNothing
<1> QED
  BY <1>1, CeremonyBegins, CeremonySteps, PTL DEF Spec

--------------------------------------------------------------------------------
(* The file system.                                                           *)

LEMMA VfsStore ==
  /\ \A s, b : Vfs!Put(s, b) = VfsProof!Put(s, b)
  /\ \A s : Vfs!Block0s(s) = VfsProof!Block0s(s)
  /\ \A b : Vfs!Newest(b) = VfsProof!Newest(b)
  /\ \A s, b : Vfs!ReadFile(s, b) = VfsProof!ReadFile(s, b)
  /\ \A s : Vfs!Recovered(s) = VfsProof!Recovered(s)
  /\ Vfs!View = VfsProof!View /\ Vfs!EmptyStore = VfsProof!EmptyStore
  /\ Vfs!NoFile = VfsProof!NoFile /\ Vfs!NoJournal = VfsProof!NoJournal
  /\ \A op, s : Vfs!Effect(op, s) = VfsProof!Effect(op, s)
BY DEF Vfs!Put, VfsProof!Put, Vfs!Block0s, VfsProof!Block0s, Vfs!Newest, VfsProof!Newest,
       Vfs!ReadFile, VfsProof!ReadFile, Vfs!ReadPage, VfsProof!ReadPage, Vfs!Found, VfsProof!Found,
       Vfs!Recovered, VfsProof!Recovered, Vfs!View, VfsProof!View, Vfs!EmptyStore, VfsProof!EmptyStore,
       Vfs!NoFile, VfsProof!NoFile, Vfs!Block, VfsProof!Block, Vfs!NoJournal, VfsProof!NoJournal,
       Vfs!NoPurge, VfsProof!NoPurge, Vfs!Max, VfsProof!Max, Vfs!Blank, VfsProof!Blank,
       Vfs!Zero, VfsProof!Zero, Vfs!Effect, VfsProof!Effect, Vfs!ClearAbandoned, VfsProof!ClearAbandoned,
       Vfs!CommitBatch, VfsProof!CommitBatch, Vfs!Truncate, VfsProof!Truncate, Vfs!Purge, VfsProof!Purge,
       Vfs!Cardinality, VfsProof!Cardinality

LEMMA VfsBegins == Init => VfsProof!Init
BY VfsStore DEF Init, Vfs!Init, VfsProof!Init, Vfs!IdbInit, VfsProof!IdbInit

LEMMA VfsNext == Vfs!Next => VfsProof!Next
<1> USE DEF Vfs!Rest, VfsProof!Rest, Vfs!Enqueue, VfsProof!Enqueue, Vfs!Op, VfsProof!Op,
            Vfs!Outside, VfsProof!Outside, Vfs!sqlite, VfsProof!sqlite
<1>1. Vfs!xOpen \/ Vfs!xClose \/ Vfs!xLock \/ Vfs!xUnlock =>
          VfsProof!xOpen \/ VfsProof!xClose \/ VfsProof!xLock \/ VfsProof!xUnlock
  BY VfsStore DEF Vfs!xOpen, Vfs!xClose, Vfs!xLock, Vfs!xUnlock, VfsProof!xOpen, VfsProof!xClose,
     VfsProof!xLock, VfsProof!xUnlock
<1>2. Vfs!WriteSets = VfsProof!WriteSets /\ \A s : Vfs!Min(s) = VfsProof!Min(s)
  BY DEF Vfs!WriteSets, VfsProof!WriteSets, Vfs!Page, VfsProof!Page, Vfs!Min, VfsProof!Min
<1>3. Vfs!BeginAtomic => VfsProof!BeginAtomic
  BY <1>2, Zenon DEF Vfs!BeginAtomic, VfsProof!BeginAtomic
<1>4. Vfs!Spill => VfsProof!Spill
  BY <1>2, Zenon DEF Vfs!Spill, VfsProof!Spill
<1>5. Vfs!WritePage => VfsProof!WritePage
  BY <1>2, Zenon DEF Vfs!WritePage, VfsProof!WritePage, Vfs!xWrite, VfsProof!xWrite, Vfs!Block, VfsProof!Block
<1>6. Vfs!CommitAtomic => VfsProof!CommitAtomic
  BY Zenon DEF Vfs!CommitAtomic, VfsProof!CommitAtomic
<1>7. Vfs!RollbackAtomic => VfsProof!RollbackAtomic
  BY Zenon DEF Vfs!RollbackAtomic, VfsProof!RollbackAtomic
<1>8. Vfs!xSync => VfsProof!xSync
  BY Zenon DEF Vfs!xSync, VfsProof!xSync, Vfs!Sync, VfsProof!Sync
<1>9. Vfs!PlayBack => VfsProof!PlayBack
  <2>1. \A b, size : Vfs!Cut(b, size) = VfsProof!Cut(b, size)
    BY DEF Vfs!Cut, VfsProof!Cut, Vfs!Blank, VfsProof!Blank
  <2>2. \A jr, ver, p : Vfs!WriteBack(jr, ver, p) = VfsProof!WriteBack(jr, ver, p)
    BY DEF Vfs!WriteBack, VfsProof!WriteBack, Vfs!Block, VfsProof!Block
  <2>3. \A D : Vfs!SetToSeqs(D) = VfsProof!SetToSeqs(D)
    BY DEF Vfs!SetToSeqs, VfsProof!SetToSeqs, Vfs!Cardinality, VfsProof!Cardinality
  <2>4. \A jr, ver, order : [i \in DOMAIN order |-> Vfs!WriteBack(jr, ver, order[i])]
                              = [i \in DOMAIN order |-> VfsProof!WriteBack(jr, ver, order[i])]
    BY <2>2
  <2>5. Vfs!View = VfsProof!View /\ Vfs!NoJournal = VfsProof!NoJournal
        /\ Vfs!ReadFile(VfsProof!View, file.b0) = VfsProof!ReadFile(VfsProof!View, file.b0)
    BY VfsStore
  <2> DEFINE jr == VfsProof!View.journal
  <2>6. Vfs!Cut(file.b0, jr.size) = VfsProof!Cut(file.b0, jr.size)
        /\ Vfs!SetToSeqs(DOMAIN jr.page) = VfsProof!SetToSeqs(DOMAIN jr.page)
    BY <2>1, <2>3
  <2> HIDE DEF jr
  <2>7. ASSUME Vfs!PlayBack  PROVE VfsProof!PlayBack
    <3>1. CASE jr = VfsProof!NoJournal
      BY <2>5, <2>7, <3>1 DEF Vfs!PlayBack, VfsProof!PlayBack, jr
    <3>2. CASE jr # VfsProof!NoJournal
      <4> DEFINE cut  == VfsProof!Cut(file.b0, jr.size)
                 back == 0 \in DOMAIN jr.page
                 b0   == [cut EXCEPT !.val = IF back THEN jr.page[0] ELSE @]
                 Before == IF jr.size < file.b0.size THEN <<[do |-> "truncate", b |-> cut]>> ELSE <<>>
                 After == (IF file.meta /\ ~ back THEN <<VfsProof!Op("block0")>> ELSE <<>>)
                 Queued(written) == runs' = runs \o (Before \o written \o After \o <<VfsProof!Op("sync")>>)
      <4>1. /\ phase = "hot" /\ phase' = "replaying" /\ UNCHANGED cache
            /\ UNCHANGED <<VfsProof!Rest, todo, txn, hist, acked, pending>>
        BY <2>5, <2>7, <3>2 DEF Vfs!PlayBack, jr
      <4>2. file' = [file EXCEPT !.b0 = b0, !.meta = FALSE]
        BY <2>5, <2>6, <2>7, <3>2, Zenon DEF Vfs!PlayBack, jr
      <4>3. \E order \in VfsProof!SetToSeqs(DOMAIN jr.page) :
                Queued([i \in DOMAIN order |-> Vfs!WriteBack(jr, b0.ver, order[i])])
        <5> DEFINE Plays(j, c, orders) ==
                     \E order \in orders :
                         runs' = runs \o
                             ((IF j.size < file.b0.size THEN <<[do |-> "truncate", b |-> c]>> ELSE <<>>)
                              \o [i \in DOMAIN order |->
                                    Vfs!WriteBack(j, [c EXCEPT !.val = IF 0 \in DOMAIN j.page
                                                                       THEN j.page[0] ELSE @].ver, order[i])]
                              \o (IF file.meta /\ ~ (0 \in DOMAIN j.page)
                                  THEN <<VfsProof!Op("block0")>> ELSE <<>>)
                              \o <<VfsProof!Op("sync")>>)
        <5>1. Vfs!View.journal # Vfs!NoJournal /\ Vfs!View.journal = jr
          BY <2>5, <3>2 DEF jr
        <5>2. Plays(Vfs!View.journal, Vfs!Cut(file.b0, Vfs!View.journal.size),
                    Vfs!SetToSeqs(DOMAIN Vfs!View.journal.page))
          BY <2>7, <5>1, Zenon DEF Vfs!PlayBack
        <5> HIDE DEF Plays
        <5>3. Plays(jr, cut, VfsProof!SetToSeqs(DOMAIN jr.page))
          BY <2>6, <5>1, <5>2, Zenon
        <5> QED
          BY <5>3, Zenon DEF Plays, Queued
      <4> HIDE DEF Queued, b0
      <4>4. \E order \in VfsProof!SetToSeqs(DOMAIN jr.page) :
                Queued([i \in DOMAIN order |-> VfsProof!WriteBack(jr, b0.ver, order[i])])
        <5>1. PICK order \in VfsProof!SetToSeqs(DOMAIN jr.page) :
                Queued([i \in DOMAIN order |-> Vfs!WriteBack(jr, b0.ver, order[i])])
          BY <4>3
        <5>2. [i \in DOMAIN order |-> Vfs!WriteBack(jr, b0.ver, order[i])]
              = [i \in DOMAIN order |-> VfsProof!WriteBack(jr, b0.ver, order[i])]
          BY <2>4
        <5> QED
          BY <5>1, <5>2, Zenon
      <4> QED
        BY <4>1, <4>2, <4>4, <3>2, Zenon DEF VfsProof!PlayBack, jr, Queued, b0
    <3> QED
      BY <3>1, <3>2
  <2> QED
    BY <2>7
<1>10. \A s : Vfs!Ran(s) => VfsProof!Ran(s)
  BY Zenon DEF Vfs!Ran, VfsProof!Ran, Vfs!Runnable, VfsProof!Runnable, Vfs!NewTx, VfsProof!NewTx
<1>11. Vfs!RunWrite => VfsProof!RunWrite
  BY <1>10, VfsStore, Zenon DEF Vfs!RunWrite, VfsProof!RunWrite, Vfs!NextRun, VfsProof!NextRun,
     Vfs!Writing, VfsProof!Writing
<1>12. Vfs!RunOpen => VfsProof!RunOpen
  BY <1>10, VfsStore, Zenon DEF Vfs!RunOpen, VfsProof!RunOpen, Vfs!NextRun, VfsProof!NextRun
<1>13. Vfs!RunReload => VfsProof!RunReload
  BY VfsStore, Zenon DEF Vfs!RunReload, VfsProof!RunReload, Vfs!NextRun, VfsProof!NextRun,
     Vfs!Runnable, VfsProof!Runnable
<1>14. Vfs!RunUndo => VfsProof!RunUndo
  BY VfsStore, Zenon DEF Vfs!RunUndo, VfsProof!RunUndo, Vfs!NextRun, VfsProof!NextRun,
     Vfs!Runnable, VfsProof!Runnable
<1>15. Vfs!SyncOK \/ Vfs!SyncFails => VfsProof!SyncOK \/ VfsProof!SyncFails
  BY Zenon DEF Vfs!SyncOK, VfsProof!SyncOK, Vfs!SyncFails, VfsProof!SyncFails, Vfs!SyncReturns,
     VfsProof!SyncReturns, Vfs!SyncThrows, VfsProof!SyncThrows
<1>16. Vfs!IdlePurge => VfsProof!IdlePurge
  BY Zenon DEF Vfs!IdlePurge, VfsProof!IdlePurge, Vfs!Range, VfsProof!Range
<1>17. Vfs!Replaced => VfsProof!Replaced
  BY Zenon DEF Vfs!Replaced, VfsProof!Replaced, Vfs!NewTransaction, VfsProof!NewTransaction,
     Vfs!NewTx, VfsProof!NewTx
<1>18. Vfs!Committed => VfsProof!Committed
  BY Zenon DEF Vfs!Committed, VfsProof!Committed, Vfs!Committing, VfsProof!Committing, Vfs!Complete,
     VfsProof!Complete
<1>19. Vfs!Aborted \/ Vfs!Drained => VfsProof!Aborted \/ VfsProof!Drained
  BY Zenon DEF Vfs!Aborted, VfsProof!Aborted, Vfs!Abort, VfsProof!Abort, Vfs!Drained, VfsProof!Drained,
     Vfs!SyncRuns, VfsProof!SyncRuns
<1>20. Vfs!Crash => VfsProof!Crash
  BY VfsStore, Zenon DEF Vfs!Crash, VfsProof!Crash, Vfs!IdbReset, VfsProof!IdbReset
<1> QED
  BY <1>1, <1>3, <1>4, <1>5, <1>6, <1>7, <1>8, <1>9, <1>11, <1>12, <1>13, <1>14, <1>15, <1>16, <1>17,
     <1>18, <1>19, <1>20, Zenon DEF Vfs!Next, VfsProof!Next

LEMMA VfsSpec == Spec => VfsProof!Spec
<1>1. [Next]_vars => [VfsProof!Next]_VfsProof!vars
  <2>1. CASE UNCHANGED vfs
    BY <2>1 DEF vfs, VfsProof!vars, VfsProof!idb, VfsProof!sqlite
  <2> QED
    BY <2>1, PartsMove, VfsNext
<1> QED
  BY <1>1, VfsBegins, PTL DEF Spec, VfsProof!Spec

LEMMA VfsParams == VfsProof!Params
BY ParamsAssumption DEF Vfs!Params, VfsProof!Params

\* The object store implements an atomic file (EncryptedIDBVFS.js:471), for any
\* number of transactions, pages, aborts and reloads.
THEOREM StoreIsAtomicFile == Spec => Implements
<1>1. VfsProof!Spec => VfsProof!Implements
  BY VfsParams, VfsProof!ImplementsFile
<1>2. VfsProof!Stored = Vfs!Stored /\ VfsProof!Stored' = Vfs!Stored'
  BY DEF Vfs!Stored, VfsProof!Stored, Vfs!Recovered, VfsProof!Recovered, Vfs!Block0s,
         VfsProof!Block0s, Vfs!ReadFile, VfsProof!ReadFile, Vfs!ReadPage, VfsProof!ReadPage, Vfs!Found,
         VfsProof!Found, Vfs!Newest, VfsProof!Newest, Vfs!Max, VfsProof!Max, Vfs!Zero, VfsProof!Zero,
         Vfs!NoJournal, VfsProof!NoJournal, Vfs!Blank, VfsProof!Blank
<1>3. VfsProof!Content = Vfs!Content
  BY DEF VfsProof!Content, Vfs!Content
<1>4. VfsProof!File!Init => Vfs!File!Init
  BY <1>2, <1>3, Zenon DEF Vfs!File!Init, VfsProof!File!Init
<1>5. VfsProof!File!Commit \/ VfsProof!File!Store => Vfs!File!Commit \/ Vfs!File!Store
  BY <1>2, <1>3, Zenon DEF VfsProof!File!Commit, Vfs!File!Commit, VfsProof!File!Store, Vfs!File!Store
<1>6. VfsProof!File!Acknowledge \/ VfsProof!File!Lose => Vfs!File!Acknowledge \/ Vfs!File!Lose
  BY <1>2, Zenon DEF VfsProof!File!Acknowledge, Vfs!File!Acknowledge, VfsProof!File!Lose, Vfs!File!Lose
<1>7. VfsProof!File!Crash => Vfs!File!Crash
  BY <1>2, <1>3, Zenon DEF VfsProof!File!Crash, Vfs!File!Crash
<1>8. UNCHANGED VfsProof!File!vars => UNCHANGED Vfs!File!vars
  BY <1>2, Zenon DEF VfsProof!File!vars, Vfs!File!vars
<1>9. [VfsProof!File!Next]_(VfsProof!File!vars) => [Vfs!File!Next]_(Vfs!File!vars)
  BY <1>5, <1>6, <1>7, <1>8, Zenon DEF Vfs!File!Next, VfsProof!File!Next
<1> QED
  BY <1>1, <1>4, <1>9, VfsSpec, PTL DEF Implements, Vfs!Implements, VfsProof!Implements, Vfs!File!Spec,
     VfsProof!File!Spec

\* A connection that takes the lock (EncryptedIDBVFS.js:399) reads the pages of
\* the last committed transaction.
THEOREM LocksReadCommitted == Spec => []ReadsCommitted
<1>1. VfsProof!ReadsCommitted => ReadsCommitted
  BY DEF VfsProof!ReadsCommitted, ReadsCommitted, Vfs!ReadsCommitted
<1>2. VfsProof!Spec => []VfsProof!ReadsCommitted
  BY VfsParams, VfsProof!LocksReadCommitted
<1> QED
  BY <1>1, <1>2, VfsSpec, PTL

--------------------------------------------------------------------------------
(* The vault: whatever the bytes of the polynomials, and whoever contributes. *)

\* A vault's shares are its key's, by its polynomial.
IsSealed(v) ==
    /\ v.k \in 1 .. Custodians /\ v.dek \in Byte
    /\ v.coef \in [1 .. v.k - 1 -> Byte]
    /\ v.share = split(v.dek, v.coef, Custodians)

\* What the opener holds are bytes, each for a custodian.
Sealed ==
    /\ vault = Vlt!NoVault \/ IsSealed(vault)
    /\ got \subseteq [x : 1 .. Custodians, y : Byte]

LEMMA CustodiansAreBytes ==
  /\ Custodians \in 1 .. 255 /\ \A i \in 1 .. Custodians : i \in Byte \ {0}
  /\ DekByte \subseteq Byte /\ Coefficient \subseteq Byte /\ ForeignByte \subseteq Byte
  BY ParamsAssumption DEF Vlt!Params, Vlt!Byte, Byte

LEMMA SharesSplit ==
  ASSUME NEW k \in 1 .. Custodians, NEW key \in DekByte, NEW coef \in Vlt!Polynomials(k)
  PROVE  k - 1 \in Nat /\ coef \in [1 .. k - 1 -> Byte] /\ key \in Byte
  BY CustodiansAreBytes DEF Vlt!Polynomials

\* The share a sealed vault has for custodian i.
LEMMA ShareOf ==
  ASSUME NEW v, IsSealed(v), NEW i \in 1 .. Custodians
  PROVE  /\ v.share[i] = [x |-> i, y |-> shareAt(v.dek, v.coef, i)]
         /\ v.share[i] \in [x : {i}, y : Byte] /\ v.share[i] \in [x : 1 .. Custodians, y : Byte]
<1>1. v.share[i] = [x |-> i, y |-> shareAt(v.dek, v.coef, i)]
  BY DEF IsSealed, split
<1>2. /\ v.dek \in Byte /\ v.k - 1 \in Nat /\ v.coef \in [1 .. v.k - 1 -> Byte] /\ i \in Byte
  BY CustodiansAreBytes DEF IsSealed
<1> DEFINE y == shareAt(v.dek, v.coef, i)
<1>3. y \in Byte
  BY <1>2, ShareIsByte
<1> HIDE DEF y
<1>4. [x |-> i, y |-> y] \in [x : {i}, y : Byte] /\ [x |-> i, y |-> y] \in [x : 1 .. Custodians, y : Byte]
  BY <1>3
<1> QED
  BY <1>1, <1>4 DEF y

LEMMA SealedSteps == Sealed /\ [Next]_vars => Sealed'
<1> SUFFICES ASSUME Sealed, [Next]_vars PROVE Sealed'
  OBVIOUS
<1>1. ASSUME NEW k \in 1 .. Custodians, NEW key \in DekByte, NEW coef \in Vlt!Polynomials(k),
             Vlt!sealVault(k, key, coef)
      PROVE  Sealed'
  <2> DEFINE v == [k |-> k, dek |-> key, coef |-> coef, share |-> split(key, coef, Custodians)]
  <2>1. vault' = v /\ got' = got
    BY <1>1 DEF Vlt!sealVault
  <2>2. IsSealed(v)
    BY SharesSplit DEF IsSealed
  <2> HIDE DEF v
  <2> QED
    BY <2>1, <2>2 DEF Sealed
<1>2. ASSUME NEW x \in 1 .. Custodians, Vlt!Contribute(x) PROVE Sealed'
  <2>1. vault' = vault /\ IsSealed(vault) /\ got' = got \cup {vault.share[x]}
    BY <1>2 DEF Vlt!Contribute, Sealed
  <2>2. vault.share[x] \in [x : 1 .. Custodians, y : Byte]
    BY <2>1, ShareOf
  <2> QED
    BY <2>1, <2>2 DEF Sealed
<1>3. ASSUME NEW x \in 1 .. Custodians, NEW y \in ForeignByte, Vlt!ContributeOther(x, y)
      PROVE  Sealed'
  <2>1. y \in Byte
    BY CustodiansAreBytes
  <2> QED
    BY <1>3, <2>1 DEF Vlt!ContributeOther, Sealed
<1>4. CASE UNCHANGED vlt
  BY <1>4 DEF vlt, Sealed
<1> QED
  BY <1>1, <1>2, <1>3, <1>4, PartsMove DEF Vlt!Next

LEMMA AlwaysSealed == Spec => []Sealed
<1>1. Init => Sealed
  BY DEF Init, Vlt!Init, Sealed
<1> QED
  BY <1>1, SealedSteps, PTL DEF Spec

\* What is known of the vault and of its shares among those the opener holds.
LEMMA GenuineShares ==
  ASSUME Sealed, vault # Vlt!NoVault
  PROVE  /\ IsSealed(vault)
         /\ vault.dek \in Byte /\ vault.k \in 1 .. Custodians
         /\ vault.k - 1 \in Nat /\ vault.coef \in [1 .. vault.k - 1 -> Byte]
         /\ \A s \in Vlt!Genuine :
              /\ s \in got /\ s.x \in Byte \ {0}
              /\ s = [x |-> s.x, y |-> shareAt(vault.dek, vault.coef, s.x)]
              /\ s.y = shareAt(vault.dek, vault.coef, s.x)
<1>1. IsSealed(vault)
  BY DEF Sealed
<1>2. /\ vault.dek \in Byte /\ vault.k \in 1 .. Custodians
      /\ vault.k - 1 \in Nat /\ vault.coef \in [1 .. vault.k - 1 -> Byte]
  BY <1>1, CustodiansAreBytes DEF IsSealed
<1>3. ASSUME NEW s \in Vlt!Genuine
      PROVE  /\ s \in got /\ s.x \in Byte \ {0}
             /\ s = [x |-> s.x, y |-> shareAt(vault.dek, vault.coef, s.x)]
             /\ s.y = shareAt(vault.dek, vault.coef, s.x)
  <2>1. s \in got /\ s = vault.share[s.x]
    BY DEF Vlt!Genuine
  <2>2. s.x \in 1 .. Custodians
    BY <2>1 DEF Sealed
  <2>3. s = [x |-> s.x, y |-> shareAt(vault.dek, vault.coef, s.x)]
    BY <1>1, <2>1, <2>2, ShareOf
  <2>4. s.y = shareAt(vault.dek, vault.coef, s.x)
    BY <2>3
  <2>5. s.x \in Byte \ {0}
    BY <2>2, CustodiansAreBytes
  <2> QED
    BY <2>1, <2>3, <2>4, <2>5
<1> QED
  BY <1>1, <1>2, <1>3

LEMMA SharesCounted == \A H : Vlt!Cardinality(H) = Cardinality(H)
  BY Zenon DEF Vlt!Cardinality, Cardinality

\* Shares with an x each have as many points as there are of them.
LEMMA AsManyPoints ==
  ASSUME NEW H \in SUBSET got, Sealed, \A s, t \in H : s.x = t.x => s = t
  PROVE  /\ Cardinality(Points(H)) = Cardinality(H)
         /\ Cardinality(H) \in Nat /\ Points(H) \in SUBSET (Byte \ {0})
<1> DEFINE P == Points(H)
           f == [x \in P |-> CHOOSE s \in H : s.x = x]
           g == [s \in H |-> s.x]
<1>1. P = {s.x : s \in H}
  BY DEF Points
<1>2. P \subseteq 1 .. Custodians
  BY <1>1 DEF Sealed
<1>3. IsFiniteSet(P)
  <2>1. IsFiniteSet(1 .. Custodians)
    BY CustodiansAreBytes, FS_Interval
  <2> QED
    BY <1>2, <2>1, FS_Subset
<1> HIDE DEF P
<1>4. \A s \in H : s.x \in P /\ f[s.x] = s
  BY <1>1
<1>5. \A x \in P : f[x] \in H
  BY <1>1
<1>6. f \in Surjection(P, H)
  BY <1>4, <1>5 DEF Surjection
<1> HIDE DEF f
<1>7. IsFiniteSet(H) /\ Cardinality(H) <= Cardinality(P)
  BY <1>3, <1>6, FS_Surjection
<1>8. g \in Surjection(H, P)
  BY <1>1 DEF Surjection
<1> HIDE DEF g
<1>9. Cardinality(P) <= Cardinality(H)
  BY <1>7, <1>8, FS_Surjection
<1>10. Cardinality(H) \in Nat /\ Cardinality(P) \in Nat
  BY <1>3, <1>7, FS_CardinalityType
<1>11. P \in SUBSET (Byte \ {0})
  BY <1>2, CustodiansAreBytes
<1> QED
  BY <1>7, <1>9, <1>10, <1>11 DEF P

\* Whatever fewer than k shares the opener has (crypto/secret-sharing/shamir.ts:36):
\* with coefficients of any bytes, as randomBytes gives them, split could have
\* made these shares of every key.
THEOREM NothingBelowQuorum ==
  ASSUME Coefficient = Byte
  PROVE  Spec => []BelowQuorumNothingIsKnown
<1>1. Sealed => BelowQuorumNothingIsKnown
  <2> SUFFICES ASSUME Sealed, vault # Vlt!NoVault, Cardinality(Vlt!Genuine) < vault.k,
                      NEW guess \in DekByte
               PROVE  \E coef \in Vlt!Polynomials(vault.k) :
                        \A s \in Vlt!Genuine : shareAt(guess, coef, s.x) = s.y
    BY SharesCounted DEF BelowQuorumNothingIsKnown, Vlt!BelowQuorumNothingIsKnown
  <2> DEFINE G == Vlt!Genuine
             T == Points(G)
             secret == vault.dek
             coef == vault.coef
             n == vault.k - 1
  <2>1. /\ secret \in Byte /\ vault.k \in 1 .. Custodians /\ n \in Nat
        /\ coef \in [1 .. n -> Byte]
    BY GenuineShares
  <2>2. \A s \in G : /\ s \in got /\ s = [x |-> s.x, y |-> shareAt(secret, coef, s.x)]
                     /\ s.y = shareAt(secret, coef, s.x)
    BY GenuineShares
  <2>3. guess \in Byte
    BY CustodiansAreBytes
  <2>4. Vlt!Polynomials(vault.k) = [1 .. n -> Byte]
    BY DEF Vlt!Polynomials
  <2>5. Cardinality(G) < vault.k
    OBVIOUS
  <2> HIDE DEF G, secret, coef
  <2>6. \A s, t \in G : s.x = t.x => s = t
    BY <2>2
  <2>7. Cardinality(T) = Cardinality(G) /\ Cardinality(G) \in Nat /\ T \in SUBSET (Byte \ {0})
    BY <2>2, <2>6, AsManyPoints
  <2>8. \A s \in G : s.x \in T
    BY DEF Points
  <2>9. Cardinality(T) <= n
    <3> HIDE DEF T
    <3> QED
      BY <2>1, <2>5, <2>7
  <2> HIDE DEF T, n
  <2>10. PICK other \in [1 .. n -> Byte] : SameShares(guess, other, secret, coef, T)
    BY <2>1, <2>3, <2>7, <2>9, EverySecretFits
  <2>11. \A s \in G : shareAt(guess, other, s.x) = s.y
    BY <2>2, <2>8, <2>10 DEF SameShares
  <2> QED
    BY <2>4, <2>11 DEF G
<1> QED
  BY <1>1, AlwaysSealed, PTL

\* Any k custodians open the vault (vault.ts:106), whoever they are and however
\* many more there are, and fewer do not.
THEOREM AnyQuorumOpens == Spec => []QuorumOpens
<1>1. Sealed => QuorumOpens
  <2> SUFFICES ASSUME Sealed, vault # Vlt!NoVault
               PROVE  Vlt!opens(Vlt!Genuine) <=> Cardinality(Vlt!Genuine) >= vault.k
    BY SharesCounted, Zenon DEF QuorumOpens, Vlt!QuorumOpens
  <2> DEFINE G == Vlt!Genuine
             secret == vault.dek
             coef == vault.coef
             k == vault.k
  <2>1. /\ secret \in Byte /\ k \in 1 .. Custodians
        /\ k - 1 \in Nat /\ coef \in [1 .. k - 1 -> Byte]
    BY GenuineShares
  <2>2. \A s \in G : /\ s \in got /\ s.x \in Byte \ {0}
                     /\ s = [x |-> s.x, y |-> shareAt(secret, coef, s.x)]
                     /\ s.y = shareAt(secret, coef, s.x)
    BY GenuineShares
  <2> SUFFICES ASSUME Cardinality(G) >= k PROVE CanCombine(G) /\ combine(G) = secret
    BY SharesCounted DEF Vlt!opens
  <2> HIDE DEF G, secret, coef, k
  <2>3. \A s, t \in G : s.x = t.x => s = t
    BY <2>2
  <2>4. Cardinality(Points(G)) = Cardinality(G) /\ Cardinality(G) \in Nat
    BY <2>2, <2>3, AsManyPoints
  <2>5. G # {}
    <3> SUFFICES ASSUME G = {} PROVE FALSE
      OBVIOUS
    <3>1. Cardinality(G) = 0
      BY FS_EmptySet, Zenon
    <3>2. k >= 1 /\ k \in Nat
      BY <2>1
    <3> QED
      BY <3>1, <3>2
  <2>6. CanCombine(G)
    BY <2>2, <2>3, <2>5 DEF CanCombine
  <2>7. Cardinality(Points(G)) >= (k - 1) + 1
    BY <2>1, <2>4
  <2> QED
    BY <2>1, <2>2, <2>6, <2>7, CombineRecovers
<1> QED
  BY <1>1, AlwaysSealed, PTL

\* "Fewer/wrong shares fail closed on the AEAD tag" (README.md:111): with a share
\* of another vault among the genuine ones, of a custodian who has contributed or
\* of one who has not, vault.ts:106 does not open the vault.
THEOREM WrongShareFailsClosed == Spec => []OneWrongShareFailsClosed
<1>1. Sealed => OneWrongShareFailsClosed
  <2> SUFFICES ASSUME Sealed, vault # Vlt!NoVault, NEW w \in got \ Vlt!Genuine,
                      Vlt!opens(Vlt!Genuine \cup {w})
               PROVE  FALSE
    BY DEF OneWrongShareFailsClosed, Vlt!OneWrongShareFailsClosed
  <2> DEFINE G == Vlt!Genuine
             H == G \cup {w}
             secret == vault.dek
             coef == vault.coef
             k == vault.k
  <2>1. /\ secret \in Byte /\ k \in 1 .. Custodians
        /\ k - 1 \in Nat /\ coef \in [1 .. k - 1 -> Byte]
    BY GenuineShares
  <2>2. \A s \in G : /\ s \in got /\ s.x \in Byte \ {0}
                     /\ s = [x |-> s.x, y |-> shareAt(secret, coef, s.x)]
                     /\ s.y = shareAt(secret, coef, s.x)
    BY GenuineShares
  <2>3. w.x \in Byte /\ w.y \in Byte /\ w.y # shareAt(secret, coef, w.x)
    <3>1. w \in [x : 1 .. Custodians, y : Byte] /\ w # vault.share[w.x]
      BY DEF Sealed, Vlt!Genuine
    <3>2. w.x \in 1 .. Custodians /\ w.y \in Byte /\ w = [x |-> w.x, y |-> w.y]
      BY <3>1
    <3>3. IsSealed(vault)
      BY GenuineShares
    <3>4. vault.share[w.x] = [x |-> w.x, y |-> shareAt(secret, coef, w.x)]
      BY <3>2, <3>3, ShareOf
    <3> QED
      BY <3>1, <3>2, <3>4, CustodiansAreBytes
  <2>4. Cardinality(H) >= k /\ CanCombine(H) /\ combine(H) = secret
    BY SharesCounted DEF Vlt!opens
  <2> HIDE DEF secret, coef, k, G
  <2>5. H \in SUBSET got /\ w \in H
    BY <2>2
  <2>6. \A s, t \in H : s.x = t.x => s = t
    BY <2>4 DEF CanCombine
  <2>7. \A s \in H \ {w} : s.x \in Byte /\ s.y = shareAt(secret, coef, s.x)
    BY <2>2
  <2> HIDE DEF H
  <2>8. Cardinality(Points(H)) = Cardinality(H) /\ Cardinality(H) \in Nat
    BY <2>5, <2>6, AsManyPoints
  <2>9. Cardinality(Points(H)) >= (k - 1) + 1
    BY <2>1, <2>4, <2>8
  <2>10. combine(H) # secret
    BY <2>1, <2>3, <2>4, <2>5, <2>7, <2>9, CombineMisses
  <2> QED
    BY <2>4, <2>10
<1> QED
  BY <1>1, AlwaysSealed, PTL

--------------------------------------------------------------------------------
(* The shape of the state.                                                    *)

\* The state of every part has its shape; in particular two IndexedDB transactions
\* at most are ever open (EncryptingIDBContext.js:94), and every share is a byte
\* for each custodian (crypto/secret-sharing/shamir.ts:36).
THEOREM TypeCorrect == Spec => []TypeOK
<1>1. Spec => []Vfs!TypeOK
  <2>1. VfsProof!TypeOK => Vfs!TypeOK
    BY DEF VfsProof!TypeOK, Vfs!TypeOK, VfsProof!Tx, Vfs!Tx, VfsProof!Content, Vfs!Content,
           VfsProof!Page, Vfs!Page
  <2>2. VfsProof!Spec => []VfsProof!TypeOK
    BY VfsParams, VfsProof!TypeCorrect
  <2> QED
    BY <2>1, <2>2, VfsSpec, PTL
<1>2. Spec => []Conn!TypeOK
  <2>1. LaneInv => Conn!TypeOK
    BY DEF LaneInv
  <2> QED
    BY <2>1, LaneAlwaysInOrder, PTL
<1>3. Spec => []Dek!TypeOK
  <2>1. DekProof!TypeOK => Dek!TypeOK
    BY Zenon DEF DekProof!TypeOK, Dek!TypeOK, DekProof!Slot, Dek!Slot, DekProof!Dek, Dek!Dek,
           DekProof!NoDek, Dek!NoDek, DekProof!Unknown, Dek!Unknown, DekProof!NoCall, Dek!NoCall,
           DekProof!Version, Dek!Version
  <2>2. DekProof!Spec => []DekProof!TypeOK
    BY DekParams, DekProof!TypeCorrect
  <2> QED
    BY <2>1, <2>2, DekSpec, PTL
<1>4. Spec => []Loop!TypeOK
  <2>1. LoopProof!TypeOK => Loop!TypeOK
    BY Zenon DEF LoopProof!TypeOK, Loop!TypeOK, LoopProof!Device, Loop!Device
  <2>2. LoopProof!Spec => []LoopProof!TypeOK
    BY LoopParams, LoopProof!TypeCorrect
  <2> QED
    BY <2>1, <2>2, LoopSpec, PTL
<1>5. Spec => []Mls!TypeOK
  <2>1. MlsProof!TypeOK => Mls!TypeOK
    BY MlsLeaves DEF MlsProof!TypeOK, Mls!TypeOK, MlsProof!NoGroup, Mls!NoGroup
  <2>2. MlsProof!Spec => []MlsProof!TypeOK
    BY MlsParams, MlsProof!TypeCorrect
  <2> QED
    BY <2>1, <2>2, MlsSpec, PTL
<1>6. Spec => []Vlt!TypeOK
  <2>1. Sealed => Vlt!TypeOK
    <3> SUFFICES ASSUME Sealed PROVE Vlt!TypeOK
      OBVIOUS
    <3>1. Byte = Vlt!Byte
      BY DEF Byte, Vlt!Byte
    <3>2. ASSUME vault # Vlt!NoVault, NEW i \in 1 .. Custodians
          PROVE  vault.k \in 1 .. Custodians /\ vault.share[i] \in [x : {i}, y : Byte]
      <4>1. IsSealed(vault) /\ vault.k \in 1 .. Custodians
        BY <3>2, GenuineShares
      <4> QED
        BY <4>1, ShareOf
    <3>3. vault # Vlt!NoVault => vault.k \in 1 .. Custodians
      BY GenuineShares
    <3> QED
      BY <3>1, <3>2, <3>3 DEF Sealed, Vlt!TypeOK
  <2> QED
    BY <2>1, AlwaysSealed, PTL
<1>7. Spec => []Lock!TypeOK
  <2>1. Ceremonious => Lock!TypeOK
    BY DEF Ceremonious, IsCells, Lock!TypeOK, Lock!Nothing
  <2> QED
    BY <2>1, CeremonyBegins, CeremonySteps, PTL DEF Spec
<1> QED
  BY <1>1, <1>2, <1>3, <1>4, <1>5, <1>6, <1>7, PTL DEF TypeOK

================================================================================
