---------------------------- MODULE MlsGroupsProofs ----------------------------
(* Proofs about one resource's MLS group, for any members and any files kept, *)
(* lost or repeated, when the coordinator's calls come one after the other.   *)
EXTENDS MlsGroups, FiniteSetTheorems, TLAPS

\* grant and revoke calls do not overlap.
OneAtATime == \A c, d \in Caller : c = d

\* A group state: what made it is not restricted.
IsLog(l) == \E S : l \in Seq(S)

\* p is a state that the group in state l went through.
Past(p, l) == IsLog(p) /\ Len(p) <= Len(l) /\ \A i \in 1 .. Len(p) : p[i] = l[i]

\* Whatever state is held, in a file, or worked on by the call under way, is one
\* that the coordinator's group went through.
OneHistory ==
    /\ IsLog(group)
    /\ held = [m \in Member |-> held[m]] /\ call = [c \in Caller |-> call[c]]
    /\ \A m \in Member : Past(held[m], group)
    /\ \A w \in welcomes : Past(w[2], group)
    /\ \A log \in commits : Past(log, group)
    /\ \A c \in Caller :
        /\ call[c].do = "found" => group = NoGroup
        /\ call[c].do \in {"add", "remove"} => call[c].on = group

--------------------------------------------------------------------------------
(* Lemmas about logs.                                                         *)

LEMMA Grows ==
  ASSUME NEW l, IsLog(l), NEW e
  PROVE  /\ IsLog(Append(l, e))
         /\ Len(l) \in Nat /\ Len(Append(l, e)) = Len(l) + 1
         /\ \A i \in 1 .. Len(l) : Append(l, e)[i] = l[i]
<1>1. PICK S : l \in Seq(S)
  BY DEF IsLog
<1> DEFINE T == S \cup {e}
<1>2. l \in Seq(T) /\ e \in T
  BY <1>1
<1> HIDE DEF T
<1>3. Append(l, e) \in Seq(T)
  BY <1>2
<1> QED
  BY <1>2, <1>3 DEF IsLog

LEMMA PastGrows ==
  ASSUME NEW l, IsLog(l), NEW e, NEW p, Past(p, l)
  PROVE  Past(p, Append(l, e))
<1>1. PICK S : p \in Seq(S)
  BY DEF Past, IsLog
<1>2. Len(p) \in Nat
  BY <1>1
<1> QED
  BY <1>2, Grows DEF Past

LEMMA PastItself == ASSUME NEW l, IsLog(l) PROVE Past(l, l)
<1>1. PICK S : l \in Seq(S)
  BY DEF IsLog
<1>2. Len(l) \in Nat
  BY <1>1
<1> QED
  BY <1>2 DEF Past

\* Two states of one group that are equally long are the same.
LEMMA SameLength ==
  ASSUME NEW l, IsLog(l), NEW p, NEW q, Past(p, l), Past(q, l), Len(p) = Len(q)
  PROVE  p = q
<1>1. PICK S : p \in Seq(S)
  BY DEF Past, IsLog
<1>2. PICK T : q \in Seq(T)
  BY DEF Past, IsLog
<1> DEFINE U == S \cup T
<1>3. p \in Seq(U) /\ q \in Seq(U)
  BY <1>1, <1>2
<1>4. \A i \in 1 .. Len(p) : p[i] = q[i]
  BY DEF Past
<1> HIDE DEF U
<1> QED
  BY <1>3, <1>4

LEMMA NothingIsPast == ASSUME NEW l, IsLog(l) PROVE Past(NoGroup, l)
<1>1. NoGroup \in Seq({}) /\ Len(NoGroup) = 0
  BY DEF NoGroup
<1>2. PICK S : l \in Seq(S)
  BY DEF IsLog
<1>3. Len(l) \in Nat
  BY <1>2
<1> QED
  BY <1>1, <1>3 DEF Past, IsLog

\* Of a group that was not founded there is no other state.
LEMMA OnlyNothing == ASSUME NEW p, Past(p, NoGroup) PROVE p = NoGroup
<1>1. IsLog(NoGroup)
  BY DEF NoGroup, IsLog
<1>2. PICK S : p \in Seq(S)
  BY DEF Past, IsLog
<1>3. Len(p) \in Nat /\ Len(NoGroup) = 0
  BY <1>2 DEF NoGroup
<1>4. Len(p) = Len(NoGroup)
  BY <1>3 DEF Past
<1> QED
  BY <1>1, <1>4, NothingIsPast, SameLength

--------------------------------------------------------------------------------
(* The invariant.                                                             *)

LEMMA InitHolds == ASSUME Init PROVE OneHistory
<1>1. IsLog(NoGroup)
  BY DEF NoGroup, IsLog
<1> QED
  BY <1>1, PastItself DEF Init, OneHistory, NoCall

\* A call begins on the group as it is.
LEMMA BeginHolds ==
  ASSUME OneAtATime, OneHistory, NEW c \in Caller, NEW x, call' = [call EXCEPT ![c] = x],
         x.do = "found" => group = NoGroup,
         x.do \in {"add", "remove"} => x.on = group,
         UNCHANGED <<group, held, welcomes, commits>>
  PROVE  OneHistory'
<1>1. \A d \in Caller : call'[d] = x
  BY DEF OneHistory, OneAtATime
<1>2. call' = [d \in Caller |-> call'[d]]
  BY DEF OneHistory
<1> QED
  BY <1>1, <1>2 DEF OneHistory

\* A call ends with one more commit.
LEMMA CommitHolds ==
  ASSUME OneAtATime, OneHistory, NEW c \in Caller, NEW e,
         group' = Append(group, e),
         \A w \in welcomes' : w \in welcomes \/ w[2] = group',
         \A log \in commits' : log \in commits \/ log = group',
         call' = [call EXCEPT ![c] = NoCall], UNCHANGED held
  PROVE  OneHistory'
<1>1. IsLog(group) /\ IsLog(group')
  BY Grows DEF OneHistory
<1>2. \A p : Past(p, group) => Past(p, group')
  BY <1>1, PastGrows
<1>3. Past(group', group')
  BY <1>1, PastItself
<1>4. \A d \in Caller : call'[d] = NoCall
  BY DEF OneHistory, OneAtATime
<1>5. call' = [d \in Caller |-> call'[d]]
  BY DEF OneHistory
<1>6. held' = [m \in Member |-> held'[m]] /\ \A m \in Member : Past(held'[m], group')
  BY <1>2 DEF OneHistory
<1>7. \A w \in welcomes' : Past(w[2], group')
  BY <1>2, <1>3 DEF OneHistory
<1>8. \A log \in commits' : Past(log, group')
  BY <1>2, <1>3 DEF OneHistory
<1>9. NoCall.do = "none"
  BY DEF NoCall
<1> QED
  BY <1>1, <1>4, <1>5, <1>6, <1>7, <1>8, <1>9 DEF OneHistory

\* The group is founded when nothing is held, or in any file.
LEMMA FoundedHolds ==
  ASSUME OneAtATime, OneHistory, NEW c \in Caller, Founded(c) PROVE OneHistory'
<1>1. group = NoGroup
  BY DEF Founded, OneHistory
<1> DEFINE f == Founding(made')
           x == [do |-> "add", on |-> group', who |-> call[c].who]
<1>2. group' = <<f>> /\ call' = [call EXCEPT ![c] = x]
  BY DEF Founded
<1>3. UNCHANGED <<held, welcomes, commits>>
  BY DEF Founded
<1>4. x.do = "add" /\ x.on = group'
  OBVIOUS
<1> HIDE DEF f, x
<1>5. IsLog(group')
  <2>1. group' \in Seq({f})
    BY <1>2
  <2> QED
    BY <2>1 DEF IsLog
<1>6. \A p : Past(p, group) => Past(p, group')
  BY <1>1, <1>5, OnlyNothing, NothingIsPast
<1>7. \A d \in Caller : call'[d] = x
  BY <1>2 DEF OneHistory, OneAtATime
<1>8. call' = [d \in Caller |-> call'[d]]
  BY <1>2 DEF OneHistory
<1> QED
  BY <1>3, <1>4, <1>5, <1>6, <1>7, <1>8 DEF OneHistory

\* A member that joins or applies goes to a state of the group.
LEMMA FollowHolds ==
  ASSUME OneHistory, NEW m \in Member, NEW log, Past(log, group),
         held' = [held EXCEPT ![m] = log],
         UNCHANGED <<group, call, welcomes, commits>>
  PROVE  OneHistory'
<1>1. \A n \in Member : held'[n] = IF n = m THEN log ELSE held[n]
  BY DEF OneHistory
<1>2. held' = [n \in Member |-> held'[n]]
  BY DEF OneHistory
<1> QED
  BY <1>1, <1>2 DEF OneHistory

LEMMA StepHolds == ASSUME OneAtATime, OneHistory, [Next]_vars PROVE OneHistory'
<1>1. ASSUME NEW c \in Caller, NEW m \in Member, grant(c, m) PROVE OneHistory'
  <2> DEFINE x == IF group = NoGroup THEN [do |-> "found", who |-> m]
                  ELSE [do |-> "add", on |-> group, who |-> m]
  <2>1. call' = [call EXCEPT ![c] = x] /\ UNCHANGED <<group, held, welcomes, commits>>
    BY <1>1 DEF grant
  <2>2. (x.do = "found" => group = NoGroup) /\ (x.do \in {"add", "remove"} => x.on = group)
    OBVIOUS
  <2> HIDE DEF x
  <2> QED
    BY <2>1, <2>2, BeginHolds
<1>2. ASSUME NEW c \in Caller, NEW leaf, revoke(c, leaf) PROVE OneHistory'
  <2> DEFINE x == [do |-> "remove", on |-> group, leaf |-> leaf]
  <2>1. call' = [call EXCEPT ![c] = x] /\ UNCHANGED <<group, held, welcomes, commits>>
    BY <1>2 DEF revoke
  <2>2. (x.do = "found" => group = NoGroup) /\ (x.do \in {"add", "remove"} => x.on = group)
    OBVIOUS
  <2> HIDE DEF x
  <2> QED
    BY <2>1, <2>2, BeginHolds
<1>3. ASSUME NEW c \in Caller, Founded(c) PROVE OneHistory'
  BY <1>3, FoundedHolds
<1>4. ASSUME NEW c \in Caller, Granted(c) PROVE OneHistory'
  <2> DEFINE e == [op |-> "add", leaf |-> FreeLeaf(group), who |-> call[c].who, id |-> made + 1]
  <2>1. call[c].on = group
    BY <1>4 DEF Granted, OneHistory
  <2>2. /\ group' = Append(group, e)
        /\ welcomes' = welcomes \cup {<<call[c].who, group'>>}
        /\ commits' = commits \cup {group'}
        /\ call' = [call EXCEPT ![c] = NoCall] /\ UNCHANGED held
    BY <1>4, <2>1 DEF Granted
  <2> HIDE DEF e
  <2>3. \A w \in welcomes' : w \in welcomes \/ w[2] = group'
    BY <2>2
  <2>4. \A log \in commits' : log \in commits \/ log = group'
    BY <2>2
  <2> QED
    BY <2>2, <2>3, <2>4, CommitHolds
<1>5. ASSUME NEW c \in Caller, Revoked(c) PROVE OneHistory'
  <2> DEFINE e == [op |-> "remove", leaf |-> call[c].leaf, who |-> Blank, id |-> made + 1]
  <2>1. call[c].on = group
    BY <1>5 DEF Revoked, OneHistory
  <2>2. /\ group' = Append(group, e) /\ commits' = commits \cup {group'}
        /\ call' = [call EXCEPT ![c] = NoCall] /\ UNCHANGED <<held, welcomes>>
    BY <1>5, <2>1 DEF Revoked
  <2> HIDE DEF e
  <2>3. \A log \in commits' : log \in commits \/ log = group'
    BY <2>2
  <2> QED
    BY <2>2, <2>3, CommitHolds
<1>6. ASSUME NEW m \in Member, join(m) PROVE OneHistory'
  <2>1. PICK w \in welcomes : held' = [held EXCEPT ![m] = w[2]]
    BY <1>6 DEF join
  <2>2. Past(w[2], group)
    BY DEF OneHistory
  <2>3. UNCHANGED <<group, call, welcomes, commits>>
    BY <1>6 DEF join
  <2> QED
    BY <2>1, <2>2, <2>3, FollowHolds
<1>7. ASSUME NEW m \in Member, apply(m) PROVE OneHistory'
  <2>1. PICK log \in commits : held' = [held EXCEPT ![m] = log]
    BY <1>7 DEF apply
  <2>2. Past(log, group)
    BY DEF OneHistory
  <2>3. UNCHANGED <<group, call, welcomes, commits>>
    BY <1>7 DEF apply
  <2> QED
    BY <2>1, <2>2, <2>3, FollowHolds
<1>8. CASE UNCHANGED vars
  BY <1>8 DEF vars, OneHistory
<1> QED
  BY <1>1, <1>2, <1>3, <1>4, <1>5, <1>6, <1>7, <1>8 DEF Next

LEMMA OneHistoryOneKey == ASSUME OneHistory PROVE SameEpochSameKey
<1> SUFFICES ASSUME NEW a \in Holder, NEW b \in Holder, epoch(dek(a)) = epoch(dek(b))
             PROVE  dek(a) = dek(b)
  BY DEF SameEpochSameKey
<1>1. \A h \in Holder : Past(dek(h), group)
  BY PastItself DEF Holder, dek, OneHistory
<1>2. \A h \in Holder : Len(dek(h)) \in Nat
  <2> SUFFICES ASSUME NEW h \in Holder PROVE Len(dek(h)) \in Nat
    OBVIOUS
  <2>1. PICK S : dek(h) \in Seq(S)
    BY <1>1 DEF Past, IsLog
  <2> QED
    BY <2>1
<1>3. Len(dek(a)) = Len(dek(b))
  BY <1>2 DEF epoch
<1> QED
  BY <1>1, <1>3, SameLength DEF OneHistory

\* Holders of one group at one epoch derive one key (mls/mls.ts:102), for any
\* members, however many commits there are and whichever files are lost, late,
\* repeated or out of order.
THEOREM OneKeyPerEpoch == ASSUME OneAtATime PROVE Spec => []SameEpochSameKey
<1>1. Init => OneHistory
  BY InitHolds
<1>2. OneHistory /\ [Next]_vars => OneHistory'
  BY StepHolds
<1>3. OneHistory => SameEpochSameKey
  BY OneHistoryOneKey
<1> QED
  BY <1>1, <1>2, <1>3, PTL DEF Spec

--------------------------------------------------------------------------------
(* Who is in which leaf.                                                      *)

\* A set of natural numbers that is not empty has a smallest one.
LEMMA Smallest ==
  ASSUME NEW T, T # {}, T \subseteq Nat
  PROVE  Min(T) \in T /\ \A x \in T : Min(T) <= x
<1>1. PICK m \in T : \A x \in T : <<x, m>> \notin OpToRel(<, Nat)
  BY NatLessThanWellFounded, WFMin, Zenon
<1>2. \A x \in T : m <= x
  <2> SUFFICES ASSUME NEW x \in T, x < m PROVE FALSE
    OBVIOUS
  <2>1. x \in Nat /\ m \in Nat
    OBVIOUS
  <2>2. <<x, m>> \in OpToRel(<, Nat)
    BY <2>1, Zenon DEF OpToRel
  <2> QED
    BY <1>1, <2>2
<1>3. Min(T) = CHOOSE m0 \in T : \A x \in T : m0 =< x
  BY DEF Min
<1> QED
  BY <1>2, <1>3

\* ... and, if they have a bound, a largest one.
LEMMA Largest ==
  ASSUME NEW n \in Nat, NEW T, T # {}, T \subseteq 1 .. n
  PROVE  Max(T) \in T /\ \A x \in T : x <= Max(T)
<1> DEFINE U == {n - x : x \in T}
<1>1. U # {}
  OBVIOUS
<1>2. U \subseteq Nat
  OBVIOUS
<1>3. PICK x \in T : \A u \in U : n - x <= u
  <2> HIDE DEF U
  <2>1. Min(U) \in U /\ \A u \in U : Min(U) <= u
    BY <1>1, <1>2, Smallest
  <2> QED
    BY <2>1 DEF U
<1>4. \A y \in T : n - y \in U
  OBVIOUS
<1> HIDE DEF U
<1>5. \A y \in T : x >= y
  BY <1>3, <1>4
<1>6. Max(T) = CHOOSE z \in T : \A y \in T : z >= y
  BY DEF Max
<1> QED
  BY <1>5, <1>6

\* a is the state that a commit with entry e makes of l.
Commits(l, e, a) == a = Append(l, e)

\* What the commit does to the leaves.
SeatChanges(l, e, a) ==
    /\ DOMAIN Leaves(a) = DOMAIN Leaves(l) \cup {e.leaf}
    /\ Leaves(a)[e.leaf] = e.who
    /\ \A i \in DOMAIN Leaves(l) : i # e.leaf => Leaves(a)[i] = Leaves(l)[i]

\* A commit puts somebody, or nobody, into one leaf.
LEMMA LeavesGrow ==
  ASSUME NEW l, IsLog(l), NEW e, NEW a, Commits(l, e, a)
  PROVE  SeatChanges(l, e, a)
<1> DEFINE At(s, i) == {n \in DOMAIN s : s[n].leaf = i}
<1>1. PICK S : l \in Seq(S)
  BY DEF IsLog
<1>2. /\ Len(l) \in Nat /\ DOMAIN l = 1 .. Len(l)
      /\ DOMAIN a = 1 .. Len(l) + 1
      /\ a[Len(l) + 1] = e
      /\ \A n \in 1 .. Len(l) : a[n] = l[n]
  BY <1>1 DEF Commits
<1>3. \A s : Leaves(s) = [i \in {s[n].leaf : n \in DOMAIN s} |-> s[Max(At(s, i))].who]
  BY DEF Leaves
<1>4. {a[n].leaf : n \in DOMAIN a} = {l[n].leaf : n \in DOMAIN l} \cup {e.leaf}
  BY <1>2
<1>5. a[Max(At(a, e.leaf))].who = e.who
  <2> DEFINE T == At(a, e.leaf)
             n == Len(l) + 1
  <2>1. n \in Nat /\ T \subseteq 1 .. n /\ n \in T
    BY <1>2
  <2> HIDE DEF T, n
  <2>2. T # {}
    BY <2>1
  <2>3. Max(T) \in T /\ \A x \in T : x <= Max(T)
    BY <2>1, <2>2, Largest
  <2>4. Max(T) \in 1 .. n /\ n <= Max(T)
    BY <2>1, <2>3
  <2>5. \A x \in 1 .. n : n <= x => x = n
    BY <2>1
  <2>6. Max(T) = n
    BY <2>4, <2>5
  <2> QED
    BY <1>2, <2>6 DEF T, n
<1>6. ASSUME NEW i \in {l[n].leaf : n \in DOMAIN l}, i # e.leaf
      PROVE  a[Max(At(a, i))].who = l[Max(At(l, i))].who
  <2>1. At(a, i) = At(l, i)
    BY <1>2, <1>6
  <2>2. At(l, i) # {} /\ At(l, i) \subseteq 1 .. Len(l)
    BY <1>2
  <2>3. Max(At(l, i)) \in 1 .. Len(l)
    <3> DEFINE T == At(l, i)
    <3> HIDE DEF T
    <3> QED
      BY <1>2, <2>2, Largest DEF T
  <2> QED
    BY <1>2, <2>1, <2>3
<1> HIDE DEF At
<1>7. Leaves(a) = [i \in {l[n].leaf : n \in DOMAIN l} \cup {e.leaf} |->
                      IF i = e.leaf THEN e.who ELSE Leaves(l)[i]]
  BY <1>3, <1>4, <1>5, <1>6
<1>8. DOMAIN Leaves(l) = {l[n].leaf : n \in DOMAIN l}
  BY <1>3
<1> QED
  BY <1>7, <1>8 DEF SeatChanges

\* A group that was just founded has its founder.
LEMMA LeavesFounded ==
  ASSUME NEW id
  PROVE  DOMAIN Leaves(<<Founding(id)>>) = {0} /\ Leaves(<<Founding(id)>>)[0] = Coordinator
<1>1. IsLog(NoGroup) /\ DOMAIN Leaves(NoGroup) = {}
  BY DEF IsLog, NoGroup, Leaves
<1>2. <<Founding(id)>> = Append(NoGroup, Founding(id))
  BY DEF NoGroup
<1> QED
  <2> DEFINE f == <<Founding(id)>>
  <2>1. /\ Commits(NoGroup, Founding(id), f)
        /\ Founding(id).leaf = 0 /\ Founding(id).who = Coordinator
    BY <1>2 DEF Founding, Commits
  <2> HIDE DEF f
  <2>2. SeatChanges(NoGroup, Founding(id), f)
    BY <1>1, <2>1, LeavesGrow
  <2> QED
    BY <1>1, <2>1, <2>2 DEF f, SeatChanges

--------------------------------------------------------------------------------
(* The coordinator's tree and its record of who is granted.                   *)

\* The leaves of a group are numbered from 0, and nobody is in two of them.
Seats(g) ==
    /\ g # NoGroup => \E k \in Nat : DOMAIN Leaves(g) = 0 .. k
    /\ \A i \in DOMAIN Leaves(g) : Leaves(g)[i] \in Holder \cup {Blank}
    /\ \A i, j \in DOMAIN Leaves(g) :
        Leaves(g)[i] = Leaves(g)[j] => i = j \/ Leaves(g)[i] = Blank

\* The roster of the coordinator's group is who is granted, whoever follows a
\* group is in its roster, and a call under way is about somebody it can add or
\* remove.
Seated ==
    /\ made \in 0 .. MaxCommit
    /\ Seats(group)
    /\ granted = Roster(group) \ {Coordinator}
    /\ \A w \in welcomes : w[1] \in Roster(w[2])
    /\ \A m \in Member : held[m] # NoGroup => m \in Roster(held[m])
    /\ \A c \in Caller :
        /\ call[c].do \in {"found", "add"} => call[c].who \in Member \ Roster(group)
        /\ call[c].do = "add" => group # NoGroup
        /\ call[c].do = "remove" =>
            /\ call[c].leaf \in DOMAIN Leaves(group)
            /\ Leaves(group)[call[c].leaf] \in Member

LEMMA NobodySeated == Leaves(NoGroup) = << >> /\ Roster(NoGroup) = {} /\ Seats(NoGroup)
<1>1. DOMAIN Leaves(NoGroup) = {} /\ Leaves(NoGroup) = << >>
  BY DEF Leaves, NoGroup
<1> QED
  BY <1>1 DEF Roster, Seats

\* The leaf an added member takes is a blank one or the next one.
LEMMA FreeLeafIsFree ==
  ASSUME NEW g, NEW k \in Nat, DOMAIN Leaves(g) = 0 .. k
  PROVE  \/ FreeLeaf(g) \in 0 .. k /\ Leaves(g)[FreeLeaf(g)] = Blank
         \/ FreeLeaf(g) = k + 1
<1> DEFINE T == {i \in DOMAIN Leaves(g) : Leaves(g)[i] = Blank} \cup {Cardinality(DOMAIN Leaves(g))}
<1>1. Cardinality(DOMAIN Leaves(g)) = k + 1
  BY FS_Interval
<1>2. T \subseteq Nat /\ T # {}
  BY <1>1
<1>3. FreeLeaf(g) = Min(T)
  BY DEF FreeLeaf
<1>4. \A i \in T : (i \in 0 .. k /\ Leaves(g)[i] = Blank) \/ i = k + 1
  BY <1>1
<1> HIDE DEF T
<1>5. FreeLeaf(g) \in T
  BY <1>2, <1>3, Smallest
<1> QED
  BY <1>4, <1>5

LEMMA AddSeat ==
  ASSUME Params, NEW g, IsLog(g), g # NoGroup, Seats(g), NEW m \in Member \ Roster(g),
         NEW e, e.leaf = FreeLeaf(g), e.who = m
  PROVE  Seats(Append(g, e)) /\ Roster(Append(g, e)) = Roster(g) \cup {m}
<1> DEFINE i == e.leaf
           after == Append(g, e)
<1>1. PICK k \in Nat : DOMAIN Leaves(g) = 0 .. k
  BY DEF Seats
<1>2. (i \in 0 .. k /\ Leaves(g)[i] = Blank) \/ i = k + 1
  BY <1>1, FreeLeafIsFree
<1>3. /\ DOMAIN Leaves(after) = (0 .. k) \cup {i}
      /\ \A x \in DOMAIN Leaves(after) :
            Leaves(after)[x] = IF x = i THEN m ELSE Leaves(g)[x]
  <2>1. Commits(g, e, after)
    BY DEF Commits
  <2> HIDE DEF after
  <2>2. SeatChanges(g, e, after)
    BY <2>1, LeavesGrow
  <2> QED
    BY <1>1, <2>2 DEF SeatChanges
<1> HIDE DEF after
<1>4. (0 .. k) \cup {i} = 0 .. k \/ (0 .. k) \cup {i} = 0 .. k + 1
  BY <1>2
<1>5. \E n \in Nat : DOMAIN Leaves(after) = 0 .. n
  BY <1>3, <1>4
<1> HIDE DEF i
<1>6. m \in Holder /\ m # Blank /\ \A x \in 0 .. k : Leaves(g)[x] # m
  BY <1>1 DEF Holder, Params, Roster
<1>7. \A x \in DOMAIN Leaves(after) : Leaves(after)[x] \in Holder \cup {Blank}
  BY <1>1, <1>3, <1>6 DEF Seats
<1>8. \A x, y \in DOMAIN Leaves(after) :
        Leaves(after)[x] = Leaves(after)[y] => x = y \/ Leaves(after)[x] = Blank
  BY <1>1, <1>3, <1>6 DEF Seats
<1>9. Roster(after) = Roster(g) \cup {m}
  <2>1. \A x \in DOMAIN Leaves(g) : Leaves(g)[x] # Blank => x # i /\ Leaves(after)[x] = Leaves(g)[x]
    BY <1>1, <1>2, <1>3
  <2>2. Leaves(after)[i] = m /\ i \in DOMAIN Leaves(after)
    BY <1>3
  <2>3. \A x \in DOMAIN Leaves(after) :
          x = i \/ (x \in DOMAIN Leaves(g) /\ Leaves(after)[x] = Leaves(g)[x])
    BY <1>1, <1>3
  <2>4. DOMAIN Leaves(g) \subseteq DOMAIN Leaves(after)
    BY <1>1, <1>3
  <2> QED
    BY <1>6, <2>1, <2>2, <2>3, <2>4 DEF Roster
<1> QED
  BY <1>5, <1>7, <1>8, <1>9 DEF Seats, after

LEMMA EmptySeat ==
  ASSUME Params, NEW g, IsLog(g), g # NoGroup, Seats(g),
         NEW i \in DOMAIN Leaves(g), Leaves(g)[i] \in Member,
         NEW e, e.leaf = i, e.who = Blank
  PROVE  Seats(Append(g, e)) /\ Roster(Append(g, e)) = Roster(g) \ {Leaves(g)[i]}
<1> DEFINE after == Append(g, e)
<1>1. PICK k \in Nat : DOMAIN Leaves(g) = 0 .. k
  BY DEF Seats
<1>2. /\ DOMAIN Leaves(after) = (0 .. k) \cup {i}
      /\ \A x \in DOMAIN Leaves(after) :
            Leaves(after)[x] = IF x = i THEN Blank ELSE Leaves(g)[x]
  <2>1. Commits(g, e, after)
    BY DEF Commits
  <2> HIDE DEF after
  <2>2. SeatChanges(g, e, after)
    BY <2>1, LeavesGrow
  <2> QED
    BY <1>1, <2>2 DEF SeatChanges
<1> HIDE DEF after
<1>3. (0 .. k) \cup {i} = 0 .. k
  BY <1>1
<1>4. /\ DOMAIN Leaves(after) = 0 .. k
      /\ \A x \in 0 .. k : Leaves(after)[x] = IF x = i THEN Blank ELSE Leaves(g)[x]
  BY <1>2, <1>3
<1>5. Leaves(g)[i] # Blank
  BY DEF Params
<1>6. \A x \in 0 .. k : x # i => Leaves(g)[x] # Leaves(g)[i]
  BY <1>1, <1>5 DEF Seats
<1>7. Seats(after)
  BY <1>1, <1>4 DEF Seats
<1>8. Roster(after) = Roster(g) \ {Leaves(g)[i]}
  BY <1>1, <1>4, <1>6 DEF Roster
<1> QED
  BY <1>7, <1>8 DEF after

LEMMA SeatedBegins == ASSUME Params, Init PROVE Seated
  BY NobodySeated DEF Init, Seated, NoCall, Params

\* One step of the coordinator or of a member.
LEMMA SeatedStep ==
  ASSUME Params, OneAtATime, OneHistory, Seated, [Next]_vars PROVE Seated'
<1>1. ASSUME NEW c \in Caller, NEW m \in Member, grant(c, m) PROVE Seated'
  <2>1. UNCHANGED <<group, held, welcomes, made, granted>>
    BY <1>1 DEF grant
  <2>2. call'[c] = IF group = NoGroup THEN [do |-> "found", who |-> m]
                   ELSE [do |-> "add", on |-> group, who |-> m]
    BY <1>1 DEF grant, OneHistory
  <2>3. \A d \in Caller : d = c
    BY DEF OneAtATime
  <2>4. m \notin Roster(group)
    BY <1>1 DEF grant
  <2> QED
    BY <2>1, <2>2, <2>3, <2>4 DEF Seated
<1>2. ASSUME NEW c \in Caller, NEW leaf \in DOMAIN Leaves(group),
             Leaves(group)[leaf] \in Member, revoke(c, leaf) PROVE Seated'
  <2>1. UNCHANGED <<group, held, welcomes, made, granted>>
    BY <1>2 DEF revoke
  <2>2. call'[c] = [do |-> "remove", on |-> group, leaf |-> leaf]
    BY <1>2 DEF revoke, OneHistory
  <2>3. \A d \in Caller : d = c
    BY DEF OneAtATime
  <2> QED
    BY <1>2, <2>1, <2>2, <2>3 DEF Seated
<1>3. ASSUME NEW c \in Caller, Founded(c) PROVE Seated'
  <2>1. group = NoGroup /\ call[c].who \in Member
    BY <1>3 DEF Founded, OneHistory, Seated
  <2>2. /\ group' = <<Founding(made')>>
        /\ made' \in 0 .. MaxCommit
        /\ UNCHANGED <<held, welcomes, granted>>
    BY <1>3 DEF Founded, Seated, Params
  <2>3. DOMAIN Leaves(group') = {0} /\ Leaves(group')[0] = Coordinator
    BY <2>2, LeavesFounded
  <2>4. Coordinator # Blank /\ Coordinator \notin Member
    BY DEF Params
  <2>5. Roster(group') = {Coordinator}
    BY <2>3, <2>4 DEF Roster
  <2>6. Seats(group')
    <3>1. DOMAIN Leaves(group') = 0 .. 0
      BY <2>3
    <3> QED
      BY <2>3, <3>1 DEF Seats, Holder
  <2>7. granted = {}
    BY <2>1, NobodySeated DEF Seated
  <2>8. \A d \in Caller : call'[d].do = "add" /\ call'[d].who = call[c].who
    BY <1>3 DEF Founded, OneHistory, OneAtATime
  <2>9. group' # NoGroup
    BY <2>2 DEF NoGroup
  <2> QED
    BY <2>1, <2>2, <2>4, <2>5, <2>6, <2>7, <2>8, <2>9 DEF Seated
<1>4. ASSUME NEW c \in Caller, Granted(c) PROVE Seated'
  <2> DEFINE who == call[c].who
             e == [op |-> "add", leaf |-> FreeLeaf(group), who |-> who, id |-> made + 1]
  <2>1. call[c].on = group /\ group # NoGroup /\ who \in Member \ Roster(group)
    BY <1>4 DEF Granted, OneHistory, Seated
  <2>2. /\ group' = Append(group, e)
        /\ made' \in 0 .. MaxCommit
        /\ welcomes' = welcomes \cup {<<who, group'>>}
        /\ granted' = granted \cup {who}
        /\ UNCHANGED held
    BY <1>4, <2>1 DEF Granted, Seated, Params
  <2>3. \A d \in Caller : call'[d].do = "none"
    BY <1>4 DEF Granted, OneHistory, OneAtATime, NoCall
  <2>4. e.leaf = FreeLeaf(group) /\ e.who = who
    OBVIOUS
  <2> HIDE DEF e, who
  <2>5. Seats(group') /\ Roster(group') = Roster(group) \cup {who}
    BY <2>1, <2>2, <2>4, AddSeat DEF OneHistory, Seated
  <2>6. granted' = Roster(group') \ {Coordinator}
    BY <2>1, <2>2, <2>5 DEF Seated, Params
  <2>7. \A w \in welcomes' : w[1] \in Roster(w[2])
    <3>1. \A w \in welcomes : w[1] \in Roster(w[2])
      BY DEF Seated
    <3>2. who \in Roster(group')
      BY <2>5
    <3>3. <<who, group'>>[1] = who /\ <<who, group'>>[2] = group'
      OBVIOUS
    <3>4. \A w \in welcomes' : w \in welcomes \/ w = <<who, group'>>
      BY <2>2
    <3> QED
      BY <3>1, <3>2, <3>3, <3>4, Zenon
  <2>8. \A m \in Member : held'[m] # NoGroup => m \in Roster(held'[m])
    BY <2>2 DEF Seated
  <2>9. Seats(group') /\ made' \in 0 .. MaxCommit
    BY <2>2, <2>5
  <2> QED
    BY <2>3, <2>6, <2>7, <2>8, <2>9, Zenon DEF Seated
<1>5. ASSUME NEW c \in Caller, Revoked(c) PROVE Seated'
  <2> DEFINE leaf == call[c].leaf
             e == [op |-> "remove", leaf |-> leaf, who |-> Blank, id |-> made + 1]
  <2>1. /\ call[c].on = group
        /\ leaf \in DOMAIN Leaves(group) /\ Leaves(group)[leaf] \in Member
    BY <1>5 DEF Revoked, OneHistory, Seated
  <2>2. /\ group' = Append(group, e)
        /\ made' \in 0 .. MaxCommit
        /\ granted' = granted \ {Leaves(group)[leaf]}
        /\ UNCHANGED <<held, welcomes>>
    BY <1>5, <2>1 DEF Revoked, Seated, Params
  <2>3. \A d \in Caller : call'[d].do = "none"
    BY <1>5 DEF Revoked, OneHistory, OneAtATime, NoCall
  <2>4. e.leaf = leaf /\ e.who = Blank
    OBVIOUS
  <2>5. group # NoGroup
    BY <2>1, NobodySeated
  <2> HIDE DEF e, leaf
  <2>6. Seats(group') /\ Roster(group') = Roster(group) \ {Leaves(group)[leaf]}
    BY <2>1, <2>2, <2>4, <2>5, EmptySeat DEF OneHistory, Seated
  <2>7. granted' = Roster(group') \ {Coordinator}
    BY <2>2, <2>6 DEF Seated
  <2> QED
    BY <2>2, <2>3, <2>6, <2>7 DEF Seated
<1>6. ASSUME NEW m \in Member, join(m) PROVE Seated'
  <2>1. PICK w \in welcomes : w[1] = m /\ held' = [held EXCEPT ![m] = w[2]]
    BY <1>6 DEF join
  <2>2. UNCHANGED <<group, call, welcomes, made, granted>>
    BY <1>6 DEF join
  <2>3. \A n \in Member : held'[n] = IF n = m THEN w[2] ELSE held[n]
    BY <2>1 DEF OneHistory
  <2> QED
    BY <2>1, <2>2, <2>3 DEF Seated
<1>7. ASSUME NEW m \in Member, apply(m) PROVE Seated'
  <2>1. PICK log : m \in Roster(log) /\ held' = [held EXCEPT ![m] = log]
    BY <1>7 DEF apply
  <2>2. UNCHANGED <<group, call, welcomes, made, granted>>
    BY <1>7 DEF apply
  <2>3. \A n \in Member : held'[n] = IF n = m THEN log ELSE held[n]
    BY <2>1 DEF OneHistory
  <2> QED
    BY <2>1, <2>2, <2>3 DEF Seated
<1>8. CASE UNCHANGED vars
  BY <1>8 DEF vars, Seated
<1> QED
  BY <1>1, <1>2, <1>3, <1>4, <1>5, <1>6, <1>7, <1>8 DEF Next

LEMMA AlwaysSeated ==
  ASSUME Params, OneAtATime PROVE Spec => [](OneHistory /\ Seated)
<1>1. Init => OneHistory /\ Seated
  BY InitHolds, SeatedBegins
<1>2. OneHistory /\ Seated /\ [Next]_vars => (OneHistory /\ Seated)'
  BY StepHolds, SeatedStep
<1> QED
  BY <1>1, <1>2, PTL DEF Spec

\* The shape of the state, for any members and any number of commits.
THEOREM TypeCorrect == ASSUME Params, OneAtATime PROVE Spec => []TypeOK
<1>1. Seated => TypeOK
  BY DEF Seated, Seats, TypeOK, Roster, Holder
<1> QED
  BY <1>1, AlwaysSeated, PTL

\* "epoch advances, DEK rotates" (mls/compartments.ts:12): whichever Welcomes and
\* commits a revoked member kept, none of them gives it the group the
\* coordinator takes the current key from, until it is granted again.
THEOREM RevokeLocksOut == ASSUME Params, OneAtATime PROVE Spec => []RevokedLockedOut
<1>1. Params /\ Seated => RevokedLockedOut
  BY DEF Seated, RevokedLockedOut, Params
<1> QED
  BY <1>1, AlwaysSeated, PTL

================================================================================
