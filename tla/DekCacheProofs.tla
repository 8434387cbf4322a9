---------------------------- MODULE DekCacheProofs ----------------------------
(* Proofs about getDEK's cache, for any users, versions and calls under way.  *)
EXTENDS DekCache, TLAPS

\* What a call under way knows of the session it meets.  Until a login comes in
\* between, the session is the one it began with, or nobody's.  A key that is
\* not the resource's, or none, is only about to be stored by a call that met
\* another user, and that user stays until the call has ended.
Follows(c) ==
    LET own == call[c].slot[1] IN
    /\ ~call[c].switched => session \in {own, Nobody}
    /\ call[c].at \in {"root", "wrap"} => root = Admin
    /\ call[c].at = "wrap" =>
        own # Admin /\ (call[c].as # own => session # own /\ call[c].switched)
    /\ call[c].at = "crypto" =>
        call[c].dek = RightDek(call[c].slot[2]) \/ (session # own /\ call[c].switched)

CallsFollowSession == \A c \in Reader : ~Idle(c) => Follows(c)

IInv == TypeOK /\ RightKeyOrNone /\ NoStaleNull /\ CallsFollowSession

UnderWay ==
    [at : {"root", "wrap", "crypto"}, slot : Slot, as : User \cup {Nobody},
     dek : Dek \cup {NoDek}, switched : BOOLEAN]

--------------------------------------------------------------------------------
(* Lemmas about the answers and about the calls.                              *)

\* The three kinds of answer are different, and each is one the cache may hold.
LEMMA Answers ==
  ASSUME Params
  PROVE  /\ Nobody \notin User /\ Admin \in User
         /\ Unknown # NoDek
         /\ \A v \in Version :
             RightDek(v) \in Dek /\ RightDek(v) # NoDek /\ RightDek(v) # Unknown
         /\ \A s \in Slot : s[1] \in User /\ s[2] \in Version /\ s = <<s[1], s[2]>>
         /\ \A u \in User, v \in Version : <<u, v>> \in Slot
  BY DEF Params, Unknown, NoDek, RightDek, Dek, Version, Slot

\* A call under way has a whole record; the others have NoCall.
LEMMA CallShape ==
  ASSUME TypeOK, NEW c \in Reader
  PROVE  IF Idle(c) THEN call[c] = NoCall ELSE call[c] \in UnderWay
<1>1. call[c] \in {NoCall} \cup UnderWay
  BY DEF TypeOK, UnderWay
<1>2. NoCall.at = "idle"
  BY DEF NoCall
<1>3. \A x \in UnderWay : x.at # "idle"
  BY DEF UnderWay
<1> QED
  BY <1>1, <1>2, <1>3 DEF Idle

\* A cleared cache breaks no promise, whoever is logged in.
LEMMA ClearedHolds ==
  ASSUME Params, cache' = Cleared, session' \in User \cup {Nobody}
  PROVE  cache' \in [Slot -> Dek \cup {NoDek, Unknown}] /\ RightKeyOrNone' /\ NoStaleNull'
<1>1. \A s \in Slot : cache'[s] = Unknown
  BY DEF Cleared
<1>2. cache' \in [Slot -> Dek \cup {NoDek, Unknown}]
  BY DEF Cleared
<1>3. RightKeyOrNone'
  BY <1>1, Answers DEF RightKeyOrNone
<1>4. NoStaleNull'
  BY <1>1, Answers DEF NoStaleNull
<1> QED
  BY <1>2, <1>3, <1>4

\* A call that ends is no longer under way; the others are as they were.
LEMMA FinishHolds ==
  ASSUME TypeOK, CallsFollowSession, NEW c \in Reader, Finish(c),
         UNCHANGED <<session, root>>
  PROVE  /\ call' \in [Reader -> {NoCall} \cup UnderWay]
         /\ CallsFollowSession'
<1>1. call' \in [Reader -> {NoCall} \cup UnderWay]
  BY DEF TypeOK, Finish, UnderWay
<1>2. ASSUME NEW d \in Reader, ~Idle(d)' PROVE Follows(d)'
  <2>1. d # c /\ call'[d] = call[d]
    BY <1>2 DEF Finish, Idle, NoCall, TypeOK
  <2> QED
    BY <1>2, <2>1 DEF CallsFollowSession, Follows, Idle
<1> QED
  BY <1>1, <1>2 DEF CallsFollowSession

--------------------------------------------------------------------------------
(* The invariant.                                                             *)

LEMMA InitHolds == ASSUME Params, Init PROVE IInv
<1>1. TypeOK
  BY Answers DEF Init, TypeOK, Cleared
<1>2. RightKeyOrNone /\ NoStaleNull
  BY DEF Init, RightKeyOrNone, NoStaleNull
<1>3. CallsFollowSession
  BY DEF Init, CallsFollowSession, Idle, NoCall
<1> QED
  BY <1>1, <1>2, <1>3 DEF IInv

\* A login finds calls that no other login came in between of.
LEMMA LoginHolds == ASSUME Params, IInv, NEW u \in User, Login(u) PROVE IInv'
<1>1. RightKeyOrNone' /\ NoStaleNull' /\ cache' \in [Slot -> Dek \cup {NoDek, Unknown}]
  BY ClearedHolds DEF Login
<1>2. ASSUME NEW c \in Reader, Idle(c) PROVE call'[c] = NoCall
  BY <1>2 DEF Login
<1>3. ASSUME NEW c \in Reader, ~Idle(c)
      PROVE  /\ ~call[c].switched /\ Follows(c)
             /\ call'[c] \in UnderWay
             /\ call'[c].at = call[c].at /\ call'[c].slot = call[c].slot
             /\ call'[c].as = call[c].as /\ call'[c].dek = call[c].dek /\ call'[c].switched
  <2>1. ~call[c].switched
    BY <1>3 DEF Login, MayLogin
  <2>2. Follows(c)
    BY <1>3 DEF IInv, CallsFollowSession
  <2>3. call[c] \in UnderWay
    BY <1>3, CallShape DEF IInv
  <2>4. call'[c] = [call[c] EXCEPT !.switched = TRUE]
    BY <1>3 DEF Login
  <2> HIDE DEF Idle
  <2>5. /\ call'[c] \in UnderWay
        /\ call'[c].at = call[c].at /\ call'[c].slot = call[c].slot
        /\ call'[c].as = call[c].as /\ call'[c].dek = call[c].dek /\ call'[c].switched
    BY <2>3, <2>4 DEF UnderWay
  <2> QED
    BY <2>1, <2>2, <2>5
<1>4. call' \in [Reader -> {NoCall} \cup UnderWay]
  BY <1>2, <1>3 DEF Login
<1>5. TypeOK'
  BY <1>1, <1>4 DEF Login, IInv, TypeOK, UnderWay
<1>6. ASSUME NEW c \in Reader, ~Idle(c)' PROVE Follows(c)'
  <2>1. ~Idle(c)
    <3> SUFFICES ASSUME Idle(c) PROVE FALSE
      OBVIOUS
    <3> QED
      BY <1>2, <1>6 DEF Idle, NoCall
  <2>2. /\ call[c].at \in {"root", "wrap"} => root' = Admin
        /\ call[c].at = "wrap" => call[c].slot[1] # Admin /\ call[c].as = call[c].slot[1]
        /\ call[c].at = "crypto" => call[c].dek = RightDek(call[c].slot[2])
    BY <1>3, <2>1 DEF Follows, Login
  <2> QED
    BY <1>3, <2>1, <2>2 DEF Follows, RightDek
<1> QED
  BY <1>1, <1>5, <1>6 DEF IInv, CallsFollowSession

LEMMA LogoutHolds == ASSUME Params, IInv, Logout PROVE IInv'
<1>1. RightKeyOrNone' /\ NoStaleNull' /\ cache' \in [Slot -> Dek \cup {NoDek, Unknown}]
  BY ClearedHolds DEF Logout
<1>2. TypeOK'
  BY <1>1 DEF Logout, IInv, TypeOK
<1>3. ASSUME NEW c \in Reader, ~Idle(c)' PROVE Follows(c)'
  <2>1. Follows(c) /\ call' = call /\ root' = root /\ session' = Nobody
    BY <1>3 DEF IInv, CallsFollowSession, Logout, Idle
  <2>2. call[c].slot[1] \in User
    BY <1>3, <2>1, CallShape, Answers DEF IInv, UnderWay, Idle
  <2>3. call[c].slot[1] # Nobody
    BY <2>2, Answers
  <2> QED
    BY <2>1, <2>3 DEF Follows
<1> QED
  BY <1>1, <1>2, <1>3 DEF IInv, CallsFollowSession

\* A call that begins is of the user who is logged in.
LEMMA GetDekHolds ==
  ASSUME Params, IInv, NEW c \in Reader, NEW v \in Version, GetDek(c, v) PROVE IInv'
<1>1. call'[c] = [at |-> "root", slot |-> <<session, v>>, as |-> Nobody, dek |-> NoDek,
                  switched |-> FALSE]
  BY DEF GetDek, NoCall, IInv, TypeOK
<1>2. \A d \in Reader : d # c => call'[d] = call[d]
  BY DEF GetDek, IInv, TypeOK
<1>3. session \in User /\ root = Admin
  BY Answers DEF GetDek, IInv, TypeOK
<1>4. call'[c] \in UnderWay
  BY <1>1, <1>3, Answers DEF UnderWay
<1>5. call' \in [Reader -> {NoCall} \cup UnderWay]
  BY <1>4 DEF GetDek, IInv, TypeOK, UnderWay
<1>6. TypeOK'
  BY <1>5 DEF GetDek, IInv, TypeOK, UnderWay
<1>7. RightKeyOrNone' /\ NoStaleNull'
  BY DEF GetDek, IInv, RightKeyOrNone, NoStaleNull
<1>8. ASSUME NEW d \in Reader, ~Idle(d)' PROVE Follows(d)'
  <2>1. CASE d = c
    BY <1>1, <1>3, <2>1 DEF GetDek, Follows
  <2>2. CASE d # c
    BY <1>2, <1>8, <2>2 DEF GetDek, Follows, IInv, CallsFollowSession, Idle
  <2> QED
    BY <2>1, <2>2
<1> QED
  BY <1>6, <1>7, <1>8 DEF IInv, CallsFollowSession

\* A call that goes on: what it now knows is in x, the others are as they were.
LEMMA GoesOn ==
  ASSUME IInv, NEW c \in Reader, NEW x \in UnderWay, call' = [call EXCEPT ![c] = x],
         UNCHANGED <<session, root, wraps, importing, cache>>, Follows(c)'
  PROVE  IInv'
<1>1. TypeOK'
  BY DEF IInv, TypeOK, UnderWay
<1>2. RightKeyOrNone' /\ NoStaleNull'
  BY DEF IInv, RightKeyOrNone, NoStaleNull
<1>3. ASSUME NEW d \in Reader, ~Idle(d)' PROVE Follows(d)'
  <2>1. CASE d = c
    BY <2>1
  <2>2. CASE d # c
    BY <1>3, <2>2 DEF Follows, IInv, TypeOK, CallsFollowSession, Idle
  <2> QED
    BY <2>1, <2>2
<1> QED
  BY <1>1, <1>2, <1>3 DEF IInv, CallsFollowSession

LEMMA ReadRootHolds == ASSUME Params, IInv, NEW c \in Reader, ReadRoot(c) PROVE IInv'
<1>1. call[c].at = "root" /\ ~Idle(c) /\ Follows(c)
  BY DEF ReadRoot, Idle, IInv, CallsFollowSession
<1>2. call[c] \in UnderWay
  BY <1>1, CallShape DEF IInv
<1>3. CASE session = Nobody
  <2>1. Finish(c) /\ UNCHANGED <<session, root, wraps, cache, importing>>
    BY <1>3 DEF ReadRoot
  <2>2. call' \in [Reader -> {NoCall} \cup UnderWay] /\ CallsFollowSession'
    BY <2>1, FinishHolds DEF IInv
  <2> QED
    BY <2>1, <2>2 DEF IInv, TypeOK, UnderWay, RightKeyOrNone, NoStaleNull
<1>4. CASE session # Nobody /\ call[c].slot[1] = root
  <2> DEFINE x == [call[c] EXCEPT !.at = "crypto",
                                  !.dek = [by |-> session, ver |-> call[c].slot[2]]]
  <2>1. call' = [call EXCEPT ![c] = x]
    BY <1>4 DEF ReadRoot
  <2>2. /\ x \in UnderWay /\ x.at = "crypto" /\ x.slot = call[c].slot
        /\ x.switched = call[c].switched
        /\ x.dek = [by |-> session, ver |-> call[c].slot[2]]
    BY <1>2, <1>4, Answers DEF UnderWay, IInv, TypeOK, Dek
  <2>3. call'[c] = x
    BY <2>1 DEF IInv, TypeOK
  <2> HIDE DEF x
  <2>4. root = Admin
    BY <1>1 DEF Follows
  <2>5. Follows(c)'
    BY <1>1, <1>4, <2>2, <2>3, <2>4 DEF Follows, ReadRoot, RightDek
  <2> QED
    BY <2>1, <2>2, <2>5, GoesOn DEF ReadRoot
<1>5. CASE session # Nobody /\ call[c].slot[1] # root
  <2> DEFINE x == [call[c] EXCEPT !.at = "wrap", !.as = session]
  <2>1. call' = [call EXCEPT ![c] = x]
    BY <1>5 DEF ReadRoot
  <2>2. /\ x \in UnderWay /\ x.at = "wrap" /\ x.slot = call[c].slot
        /\ x.switched = call[c].switched /\ x.as = session
    BY <1>2, <1>5 DEF UnderWay, IInv, TypeOK
  <2>3. call'[c] = x
    BY <2>1 DEF IInv, TypeOK
  <2> HIDE DEF x
  <2>4. root = Admin
    BY <1>1 DEF Follows
  <2>5. Follows(c)'
    BY <1>1, <1>5, <2>2, <2>3, <2>4 DEF Follows, ReadRoot
  <2> QED
    BY <2>1, <2>2, <2>5, GoesOn DEF ReadRoot
<1> QED
  BY <1>3, <1>4, <1>5

\* What is stored for the user at the keyboard is right; a null only when there
\* was no box for that user.
LEMMA StoredHolds ==
  ASSUME Params, IInv, NEW c \in Reader, call[c] \in UnderWay, Finish(c),
         NEW answer \in Dek \cup {NoDek},
         cache' = [cache EXCEPT ![call[c].slot] = answer],
         UNCHANGED <<session, root, wraps, importing>>,
         session = call[c].slot[1] => \/ answer = RightDek(call[c].slot[2])
                                      \/ /\ answer = NoDek
                                         /\ session # root
                                         /\ call[c].slot \notin wraps
  PROVE  IInv'
<1>1. call' \in [Reader -> {NoCall} \cup UnderWay] /\ CallsFollowSession'
  BY FinishHolds DEF IInv
<1>2. call[c].slot \in Slot
  BY DEF UnderWay
<1>3. TypeOK'
  BY <1>1 DEF IInv, TypeOK, UnderWay
<1>4. ASSUME NEW v \in Version, session # Nobody
      PROVE  /\ cache'[<<session, v>>] \in {Unknown, NoDek, RightDek(v)}
             /\ ~importing /\ cache'[<<session, v>>] = NoDek =>
                    session # root /\ <<session, v>> \notin wraps
  <2>1. session \in User /\ <<session, v>> \in Slot
    BY <1>4, Answers DEF IInv, TypeOK
  <2>2. CASE <<session, v>> = call[c].slot
    <3>1. cache'[<<session, v>>] = answer
      BY <1>2, <2>2 DEF IInv, TypeOK
    <3>2. session = call[c].slot[1] /\ v = call[c].slot[2]
      BY <2>2
    <3> QED
      BY <2>2, <3>1, <3>2, Answers
  <2>3. CASE <<session, v>> # call[c].slot
    <3>1. cache'[<<session, v>>] = cache[<<session, v>>]
      BY <1>2, <2>1, <2>3 DEF IInv, TypeOK
    <3> QED
      BY <1>4, <3>1 DEF IInv, RightKeyOrNone, NoStaleNull
  <2> QED
    BY <2>2, <2>3
<1>5. RightKeyOrNone' /\ NoStaleNull'
  BY <1>4 DEF RightKeyOrNone, NoStaleNull, RightDek
<1> QED
  BY <1>1, <1>3, <1>5 DEF IInv

LEMMA ReadWrapHolds == ASSUME Params, IInv, NEW c \in Reader, ReadWrap(c) PROVE IInv'
<1> DEFINE own == call[c].slot[1]
           ver == call[c].slot[2]
           box == <<call[c].as, ver>> \in wraps /\ session # Nobody
<1>1. call[c].at = "wrap" /\ ~Idle(c) /\ Follows(c)
  BY DEF ReadWrap, Idle, IInv, CallsFollowSession
<1>2. call[c] \in UnderWay
  BY <1>1, CallShape DEF IInv
<1>3. own # Admin /\ (call[c].as # own => session # own /\ call[c].switched)
  BY <1>1 DEF Follows
<1>4. CASE box
  <2> DEFINE answer == IF session = call[c].as THEN RightDek(ver) ELSE NoDek
             x == [call[c] EXCEPT !.at = "crypto", !.dek = answer]
  <2>1. call' = [call EXCEPT ![c] = x] /\ UNCHANGED cache
    BY <1>4 DEF ReadWrap
  <2>2. answer \in Dek \cup {NoDek}
    BY <1>2, Answers DEF UnderWay
  <2>3. answer = RightDek(ver) \/ session # call[c].as
    OBVIOUS
  <2> HIDE DEF answer
  <2>4. /\ x \in UnderWay /\ x.at = "crypto" /\ x.slot = call[c].slot
        /\ x.switched = call[c].switched /\ x.dek = answer
    BY <1>2, <2>2 DEF UnderWay
  <2>5. call'[c] = x
    BY <2>1 DEF IInv, TypeOK
  <2> HIDE DEF x
  <2>6. answer = RightDek(ver) \/ (session # own /\ call[c].switched)
    BY <1>1, <1>3, <1>4, <2>3 DEF Follows
  <2>7. Follows(c)'
    BY <1>1, <2>4, <2>5, <2>6 DEF Follows, ReadWrap, RightDek
  <2> QED
    BY <2>1, <2>4, <2>7, GoesOn DEF ReadWrap
<1>5. CASE ~box
  <2>1. cache' = [cache EXCEPT ![call[c].slot] = NoDek] /\ Finish(c)
    BY <1>5 DEF ReadWrap
  <2>2. UNCHANGED <<session, root, wraps, importing>>
    BY DEF ReadWrap
  <2>3. ASSUME session = own PROVE session # root /\ call[c].slot \notin wraps
    <3>1. call[c].as = own /\ own # Admin /\ root = Admin
      BY <1>1, <1>3, <2>3 DEF Follows
    <3>2. own \in User /\ call[c].slot = <<own, ver>>
      BY <1>2, Answers DEF UnderWay
    <3> QED
      BY <1>5, <2>3, <3>1, <3>2, Answers
  <2> HIDE DEF box
  <2> QED
    BY <1>2, <2>1, <2>2, <2>3, StoredHolds
<1> QED
  BY <1>4, <1>5

LEMMA StoreHolds == ASSUME Params, IInv, NEW c \in Reader, Store(c) PROVE IInv'
<1>1. call[c].at = "crypto" /\ ~Idle(c) /\ Follows(c)
  BY DEF Store, Idle, IInv, CallsFollowSession
<1>2. call[c] \in UnderWay
  BY <1>1, CallShape DEF IInv
<1>3. call[c].dek \in Dek \cup {NoDek}
  BY <1>2 DEF UnderWay
<1>4. session = call[c].slot[1] => call[c].dek = RightDek(call[c].slot[2])
  BY <1>1 DEF Follows
<1> QED
  BY <1>2, <1>3, <1>4, StoredHolds DEF Store

--------------------------------------------------------------------------------
(* The main database.                                                         *)

LEMMA GenesisHolds == ASSUME Params, IInv, Genesis PROVE IInv'
<1>1. RightKeyOrNone' /\ NoStaleNull' /\ cache' \in [Slot -> Dek \cup {NoDek, Unknown}]
  BY ClearedHolds DEF Genesis, IInv, TypeOK
<1>2. TypeOK'
  BY <1>1 DEF Genesis, IInv, TypeOK
<1>3. CallsFollowSession'
  BY DEF Genesis, IInv, CallsFollowSession, Follows, Idle
<1> QED
  BY <1>1, <1>2, <1>3 DEF IInv

LEMMA ImportAppliesHolds ==
  ASSUME Params, IInv, NEW box \in Slot, ImportApplies(box) PROVE IInv'
<1>1. TypeOK'
  BY DEF ImportApplies, IInv, TypeOK
<1>2. RightKeyOrNone' /\ NoStaleNull'
  BY DEF ImportApplies, IInv, RightKeyOrNone, NoStaleNull, RightDek
<1>3. CallsFollowSession'
  BY DEF ImportApplies, IInv, CallsFollowSession, Follows, Idle, RightDek
<1> QED
  BY <1>1, <1>2, <1>3 DEF IInv

LEMMA ImportClearsHolds == ASSUME Params, IInv, ImportClears PROVE IInv'
<1>1. RightKeyOrNone' /\ NoStaleNull' /\ cache' \in [Slot -> Dek \cup {NoDek, Unknown}]
  BY ClearedHolds DEF ImportClears, IInv, TypeOK
<1>2. TypeOK'
  BY <1>1 DEF ImportClears, IInv, TypeOK
<1>3. CallsFollowSession'
  BY DEF ImportClears, IInv, CallsFollowSession, Follows, Idle, RightDek
<1> QED
  BY <1>1, <1>2, <1>3 DEF IInv

\* The calls that a wipe leaves under way read no database any more.
LEMMA WipeHolds == ASSUME Params, IInv, Wipe PROVE IInv'
<1>1. RightKeyOrNone' /\ NoStaleNull' /\ cache' \in [Slot -> Dek \cup {NoDek, Unknown}]
  BY ClearedHolds DEF Wipe, IInv, TypeOK
<1>2. \A c \in Reader :
        call'[c] = IF call[c].at = "crypto" THEN call[c] ELSE NoCall
  BY DEF Wipe
<1>3. call' \in [Reader -> {NoCall} \cup UnderWay]
  BY <1>2 DEF Wipe, IInv, TypeOK, UnderWay
<1>4. TypeOK'
  BY <1>1, <1>3 DEF Wipe, IInv, TypeOK, UnderWay
<1>5. ASSUME NEW c \in Reader, ~Idle(c)' PROVE Follows(c)'
  <2>1. call[c].at = "crypto" /\ call'[c] = call[c]
    BY <1>2, <1>5 DEF Idle, NoCall
  <2>2. Follows(c)
    BY <2>1 DEF IInv, CallsFollowSession, Idle
  <2> QED
    BY <2>1, <2>2 DEF Follows, Wipe, RightDek
<1> QED
  BY <1>1, <1>4, <1>5 DEF IInv, CallsFollowSession

--------------------------------------------------------------------------------

LEMMA StepHolds == ASSUME Params, IInv, [Next]_vars PROVE IInv'
<1>1. ASSUME NEW u \in User, Login(u) PROVE IInv'
  BY <1>1, LoginHolds
<1>2. CASE Logout
  BY <1>2, LogoutHolds
<1>3. CASE Genesis
  BY <1>3, GenesisHolds
<1>4. CASE ImportClears
  BY <1>4, ImportClearsHolds
<1>5. CASE Wipe
  BY <1>5, WipeHolds
<1>6. ASSUME NEW s \in Slot, ImportApplies(s) PROVE IInv'
  BY <1>6, ImportAppliesHolds
<1>7. ASSUME NEW c \in Reader, NEW v \in Version, GetDek(c, v) PROVE IInv'
  BY <1>7, GetDekHolds
<1>8. ASSUME NEW c \in Reader, ReadRoot(c) PROVE IInv'
  BY <1>8, ReadRootHolds
<1>9. ASSUME NEW c \in Reader, ReadWrap(c) PROVE IInv'
  BY <1>9, ReadWrapHolds
<1>10. ASSUME NEW c \in Reader, Store(c) PROVE IInv'
  BY <1>10, StoreHolds
<1>11. CASE UNCHANGED vars
  BY <1>11 DEF vars, IInv, TypeOK, RightKeyOrNone, NoStaleNull, CallsFollowSession,
               Follows, Idle, RightDek
<1> QED
  BY <1>1, <1>2, <1>3, <1>4, <1>5, <1>6, <1>7, <1>8, <1>9, <1>10, <1>11 DEF Next

LEMMA AlwaysIInv == ASSUME Params PROVE Spec => []IInv
<1>1. Init => IInv
  BY InitHolds
<1>2. IInv /\ [Next]_vars => IInv'
  BY StepHolds
<1> QED
  BY <1>1, <1>2, PTL DEF Spec

\* The state of the cache and of the calls has its shape, for any users, any
\* number of versions and of calls that overlap.
THEOREM TypeCorrect == ASSUME Params PROVE Spec => []TypeOK
<1>1. IInv => TypeOK
  BY DEF IInv
<1> QED
  BY <1>1, AlwaysIInv, PTL

\* getDEK (engine/crengine.ts:143) never leaves, under the user at the keyboard,
\* a key that is not the resource's, whatever logins, logouts, imports and wipes
\* come between its awaits.
THEOREM KeysAreRight == ASSUME Params PROVE Spec => []RightKeyOrNone
<1>1. IInv => RightKeyOrNone
  BY DEF IInv
<1> QED
  BY <1>1, AlwaysIInv, PTL

\* ... nor a null (engine/crengine.ts:154) once the user's keywrap is here.
THEOREM NullsAreFresh == ASSUME Params PROVE Spec => []NoStaleNull
<1>1. IInv => NoStaleNull
  BY DEF IInv
<1> QED
  BY <1>1, AlwaysIInv, PTL

================================================================================
