--------------------------- MODULE KeyRotationProofs ---------------------------
(* What holds of KeyRotation for every set of subjects, resources and calls:  *)
(* its type invariant, and that a returned rotating revoke locks its subject  *)
(* out, however the calls are interleaved.                                    *)
EXTENDS KeyRotation, TLAPS

--------------------------------------------------------------------------------
(* The inductive invariant. *)

\* Each step of a call belongs to the methods that have it, and a grant or a
\* revoke names a subject.
Shape ==
    \A c \in Call :
        /\ req[c].op \in {"grant", "revoke", "revokeKeep"} => req[c].subject \in Subject
        /\ pc[c] = "putGrant" => req[c].op = "grant"
        /\ pc[c] \in {"readEpoch", "putRevoke"} => req[c].op \in {"revoke", "revokeKeep"}
        /\ pc[c] \in {"ensure", "initVer"} => req[c].op \in {"grant", "write"}
        /\ pc[c] \in {"listResources", "nextResource"} => req[c].op = "rotateAll"
        /\ queue[c] # {} => req[c].op = "rotateAll" /\ pc[c] # "idle"

\* No wrap, and no call about to wrap or write, is ahead of its resource.
Bounded ==
    /\ \A s \in Subject, r \in Resource, v \in Version :
         <<s, r, v>> \in keywrap => v <= dekver[r]
    /\ \A c \in Call :
         pc[c] \in {"members", "wrap", "putGrant", "putCell"}
             => ver[c] <= dekver[req[c].resource]
    /\ \A c \in Call :
         pc[c] \in {"putVer", "members", "wrap", "putGrant"} => ver[c] >= 1

\* Every wrap that s holds on r, or that a call in flight still owes s, is of a
\* version below n.
Below(s, r, n) ==
    /\ \A v \in Version : <<s, r, v>> \in keywrap => v < n
    /\ \A c \in Call :
         (pc[c] = "wrap" /\ s \in todo[c] /\ req[c].resource = r) => ver[c] < n

\* A rotating revoke past its putGrant, no grant since: the subject is no member,
\* and once the new version is chosen all its wraps are below it.
ClosingInv ==
    \A s \in Subject, r \in Resource, c \in Call :
        <<s, r, c>> \in closing =>
            /\ grantrec[<<s, r>>].status = "revoked"
            /\ req[c] = [op |-> "revoke", subject |-> s, resource |-> r]
            /\ pc[c] \in {"readVer", "putVer", "members", "wrap"}
            /\ pc[c] # "readVer" => Below(s, r, ver[c])

LockedInv ==
    \A s \in Subject, r \in Resource :
        <<s, r>> \in locked =>
            /\ grantrec[<<s, r>>].status = "revoked"
            /\ dekver[r] >= 1
            /\ Below(s, r, dekver[r])

ShutInv ==
    \A c \in Call, s \in Subject :
        <<c, s>> \in shut =>
            /\ <<s, req[c].resource>> \in locked
            /\ req[c].op = "write"
            /\ pc[c] \in {"ensure", "putCell"}
            /\ pc[c] = "putCell" => Below(s, req[c].resource, ver[c])

IInv == TypeOK /\ Shape /\ Bounded /\ ClosingInv /\ LockedInv /\ ShutInv

--------------------------------------------------------------------------------

\* The types are kept by every statement of every call.
LEMMA TypeOKStep == TypeOK /\ Shape /\ [Next]_vars => TypeOK'
<1> SUFFICES ASSUME TypeOK, Shape, [Next]_vars PROVE TypeOK'
  OBVIOUS
<1> USE DefaultAssumption, NoOneAssumption, MaxVerAssumption
    DEF tables, calls, history, Request, Op, Step, GrantRow, Version, NoRequest
<1>1. ASSUME NEW c \in Call, NEW s \in Subject, ImportIdentityCard(c, s)
      PROVE  TypeOK'
  BY <1>1 DEF TypeOK, Shape, ImportIdentityCard
<1>2. ASSUME NEW c \in Call, NEW s \in Subject, NEW r \in Resource,
             StartGrant(c, s, r)
      PROVE  TypeOK'
  BY <1>2 DEF TypeOK, Shape, Start, StartGrant
<1>3. ASSUME NEW c \in Call, NEW s \in Subject, NEW r \in Resource,
             StartRevoke(c, s, r)
      PROVE  TypeOK'
  BY <1>3 DEF TypeOK, Shape, Start, StartRevoke
<1>4. ASSUME NEW c \in Call, NEW s \in Subject, NEW r \in Resource,
             StartRevokeKeep(c, s, r)
      PROVE  TypeOK'
  BY <1>4 DEF TypeOK, Shape, Start, StartRevokeKeep
<1>5. ASSUME NEW c \in Call, NEW r \in Resource, StartRotateDek(c, r)
      PROVE  TypeOK'
  BY <1>5 DEF TypeOK, Shape, Start, StartRotateDek
<1>6. ASSUME NEW c \in Call, NEW r \in Resource, StartWrite(c, r) PROVE TypeOK'
  <2>1. shut' \in SUBSET (Call \X Subject)
    BY <1>6 DEF TypeOK, StartWrite
  <2> QED
    BY <1>6, <2>1 DEF TypeOK, Start, StartWrite
<1>7. ASSUME NEW c \in Call, StartRotateAll(c) PROVE TypeOK'
  BY <1>7 DEF TypeOK, Shape, Start, StartRotateAll
<1>8. ASSUME NEW c \in Call, EnsureDekVer(c) PROVE TypeOK'
  BY <1>8 DEF TypeOK, Shape, EnsureDekVer, AfterEnsure, DekVerFor, Goto
<1>9. ASSUME NEW c \in Call, InitDekVer(c) PROVE TypeOK'
  BY <1>9 DEF TypeOK, Shape, InitDekVer, AfterEnsure, PutDekver, Goto
<1>10. ASSUME NEW c \in Call, PutGrant(c) PROVE TypeOK'
  BY <1>10 DEF TypeOK, Shape, PutGrant, Goto
<1>11. ASSUME NEW c \in Call, PutCell(c) PROVE TypeOK'
  BY <1>11 DEF TypeOK, Shape, PutCell, Reset
<1>12. ASSUME NEW c \in Call, ReadEpoch(c) PROVE TypeOK'
  BY <1>12 DEF TypeOK, Shape, ReadEpoch, DekVerFor, Goto
<1>13. ASSUME NEW c \in Call, PutRevoke(c) PROVE TypeOK'
  <2>1. req[c].subject \in Subject /\ req[c].resource \in Resource
    BY <1>13 DEF TypeOK, Shape, PutRevoke
  <2>2. grantrec' \in [Subject \X Resource -> GrantRow]
    BY <1>13, <2>1 DEF TypeOK, PutRevoke
  <2>3. CASE req[c].op = "revoke"
    <3>1. /\ pc' = [pc EXCEPT ![c] = "readVer"]
          /\ closing' = closing \cup {<<req[c].subject, req[c].resource, c>>}
          /\ UNCHANGED <<known, dekver, keywrap, cell, req, ver, todo, queue, locked, shut, torn>>
      BY <1>13, <2>3 DEF PutRevoke, Goto
    <3>2. closing' \in SUBSET (Subject \X Resource \X Call)
      BY <2>1, <3>1 DEF TypeOK
    <3> QED
      BY <2>2, <3>1, <3>2 DEF TypeOK
  <2>4. CASE req[c].op = "revokeKeep"
    <3>1. Reset(c) /\ UNCHANGED <<known, dekver, keywrap, cell, closing, locked, shut, torn>>
      BY <1>13, <2>4 DEF PutRevoke
    <3> QED
      BY <2>2, <3>1 DEF TypeOK, Reset
  <2> QED
    BY <1>13, <2>3, <2>4 DEF PutRevoke
<1>14. ASSUME NEW c \in Call, ListResources(c) PROVE TypeOK'
  BY <1>14 DEF TypeOK, Shape, ListResources, Goto
<1>15. ASSUME NEW c \in Call, NextResource(c) PROVE TypeOK'
  <2>1. PICK r \in queue[c] :
          /\ queue' = [queue EXCEPT ![c] = @ \ {r}]
          /\ req' = [req EXCEPT ![c] = [@ EXCEPT !.resource = r]]
    BY <1>15 DEF NextResource
  <2>2. r \in Resource
    BY DEF TypeOK
  <2>3. req' \in [Call -> Request]
    <3>1. req \in [Call -> Request] /\ req[c] \in Request
      BY DEF TypeOK
    <3>2. [req[c] EXCEPT !.resource = r] \in Request
      BY <2>2, <3>1
    <3> QED
      BY <2>1, <3>1, <3>2
  <2>4. queue' \in [Call -> SUBSET Resource]
    BY <2>1 DEF TypeOK
  <2>5. pc' \in [Call -> Step] /\ UNCHANGED <<tables, ver, todo, history>>
    BY <1>15 DEF TypeOK, NextResource, Goto
  <2> QED
    BY <2>3, <2>4, <2>5 DEF TypeOK
<1>16. ASSUME NEW c \in Call, ReadVer(c) PROVE TypeOK'
  BY <1>16 DEF TypeOK, Shape, ReadVer, DekVerFor, Goto
<1>17. ASSUME NEW c \in Call, PutVer(c) PROVE TypeOK'
  BY <1>17 DEF TypeOK, Shape, PutVer, PutDekver, Goto
<1>18. ASSUME NEW c \in Call, ReadMembers(c) PROVE TypeOK'
  BY <1>18 DEF TypeOK, Shape, ReadMembers, MembersOf, Member, Goto
<1>19. ASSUME NEW c \in Call, NEW s \in Subject, WrapDekTo(c, s) PROVE TypeOK'
  BY <1>19 DEF TypeOK, Shape, WrapDekTo
<1>20. ASSUME NEW c \in Call, NEW s \in Subject, ThrowUnknown(c, s)
       PROVE  TypeOK'
  BY <1>20 DEF TypeOK, Shape, ThrowUnknown, Unfinished, Reset
<1>21. ASSUME NEW c \in Call, NextRotation(c) PROVE TypeOK'
  BY <1>21 DEF TypeOK, Shape, NextRotation, Goto
<1>22. ASSUME NEW c \in Call, Return(c) PROVE TypeOK'
  BY <1>22 DEF TypeOK, Shape, Return, Reset
<1>23. CASE Crash
  BY <1>23 DEF TypeOK, Shape, Crash, Unfinished
<1>24. CASE UNCHANGED vars
  BY <1>24 DEF TypeOK, Shape, vars
<1> QED
  BY <1>1, <1>2, <1>3, <1>4, <1>5, <1>6, <1>7, <1>8, <1>9, <1>10, <1>11,
     <1>12, <1>13, <1>14, <1>15, <1>16, <1>17, <1>18, <1>19, <1>20, <1>21,
     <1>22, <1>23, <1>24 DEF Next, Begin, Continue

\* So is the place of each step in its method.
LEMMA ShapeStep == TypeOK /\ Shape /\ [Next]_vars => Shape'
<1> SUFFICES ASSUME TypeOK, Shape, [Next]_vars PROVE Shape'
  OBVIOUS
<1> USE DefaultAssumption, NoOneAssumption, MaxVerAssumption
    DEF tables, calls, history, Request, Op, Step, GrantRow, Version, NoRequest
<1>1. ASSUME NEW c \in Call, NEW s \in Subject, ImportIdentityCard(c, s)
      PROVE  Shape'
  BY <1>1 DEF TypeOK, Shape, ImportIdentityCard
<1>2. ASSUME NEW c \in Call, NEW s \in Subject, NEW r \in Resource,
             StartGrant(c, s, r)
      PROVE  Shape'
  BY <1>2 DEF TypeOK, Shape, Start, StartGrant
<1>3. ASSUME NEW c \in Call, NEW s \in Subject, NEW r \in Resource,
             StartRevoke(c, s, r)
      PROVE  Shape'
  BY <1>3 DEF TypeOK, Shape, Start, StartRevoke
<1>4. ASSUME NEW c \in Call, NEW s \in Subject, NEW r \in Resource,
             StartRevokeKeep(c, s, r)
      PROVE  Shape'
  BY <1>4 DEF TypeOK, Shape, Start, StartRevokeKeep
<1>5. ASSUME NEW c \in Call, NEW r \in Resource, StartRotateDek(c, r)
      PROVE  Shape'
  BY <1>5 DEF TypeOK, Shape, Start, StartRotateDek
<1>6. ASSUME NEW c \in Call, NEW r \in Resource, StartWrite(c, r) PROVE Shape'
  BY <1>6 DEF TypeOK, Shape, Start, StartWrite
<1>7. ASSUME NEW c \in Call, StartRotateAll(c) PROVE Shape'
  BY <1>7 DEF TypeOK, Shape, Start, StartRotateAll
<1>8. ASSUME NEW c \in Call, EnsureDekVer(c) PROVE Shape'
  BY <1>8 DEF TypeOK, Shape, EnsureDekVer, AfterEnsure, DekVerFor, Goto
<1>9. ASSUME NEW c \in Call, InitDekVer(c) PROVE Shape'
  BY <1>9 DEF TypeOK, Shape, InitDekVer, AfterEnsure, PutDekver, Goto
<1>10. ASSUME NEW c \in Call, PutGrant(c) PROVE Shape'
  BY <1>10 DEF TypeOK, Shape, PutGrant, Goto
<1>11. ASSUME NEW c \in Call, PutCell(c) PROVE Shape'
  BY <1>11 DEF TypeOK, Shape, PutCell, Reset
<1>12. ASSUME NEW c \in Call, ReadEpoch(c) PROVE Shape'
  BY <1>12 DEF TypeOK, Shape, ReadEpoch, DekVerFor, Goto
<1>13. ASSUME NEW c \in Call, PutRevoke(c) PROVE Shape'
  <2>1. CASE req[c].op = "revoke"
    BY <1>13, <2>1 DEF TypeOK, Shape, PutRevoke, Goto
  <2>2. CASE req[c].op = "revokeKeep"
    BY <1>13, <2>2 DEF TypeOK, Shape, PutRevoke, Reset
  <2> QED
    BY <1>13, <2>1, <2>2 DEF PutRevoke
<1>14. ASSUME NEW c \in Call, ListResources(c) PROVE Shape'
  BY <1>14 DEF TypeOK, Shape, ListResources, Goto
<1>15. ASSUME NEW c \in Call, NextResource(c) PROVE Shape'
  BY <1>15 DEF TypeOK, Shape, NextResource, Goto
<1>16. ASSUME NEW c \in Call, ReadVer(c) PROVE Shape'
  BY <1>16 DEF TypeOK, Shape, ReadVer, DekVerFor, Goto
<1>17. ASSUME NEW c \in Call, PutVer(c) PROVE Shape'
  BY <1>17 DEF TypeOK, Shape, PutVer, PutDekver, Goto
<1>18. ASSUME NEW c \in Call, ReadMembers(c) PROVE Shape'
  BY <1>18 DEF TypeOK, Shape, ReadMembers, MembersOf, Member, Goto
<1>19. ASSUME NEW c \in Call, NEW s \in Subject, WrapDekTo(c, s) PROVE Shape'
  BY <1>19 DEF TypeOK, Shape, WrapDekTo
<1>20. ASSUME NEW c \in Call, NEW s \in Subject, ThrowUnknown(c, s) PROVE Shape'
  BY <1>20 DEF TypeOK, Shape, ThrowUnknown, Unfinished, Reset
<1>21. ASSUME NEW c \in Call, NextRotation(c) PROVE Shape'
  BY <1>21 DEF TypeOK, Shape, NextRotation, Goto
<1>22. ASSUME NEW c \in Call, Return(c) PROVE Shape'
  BY <1>22 DEF TypeOK, Shape, Return, Reset
<1>23. CASE Crash
  BY <1>23 DEF TypeOK, Shape, Crash, Unfinished
<1>24. CASE UNCHANGED vars
  BY <1>24 DEF TypeOK, Shape, vars
<1> QED
  BY <1>1, <1>2, <1>3, <1>4, <1>5, <1>6, <1>7, <1>8, <1>9, <1>10, <1>11,
     <1>12, <1>13, <1>14, <1>15, <1>16, <1>17, <1>18, <1>19, <1>20, <1>21,
     <1>22, <1>23, <1>24 DEF Next, Begin, Continue

\* dekver only grows, and a version is announced before it is wrapped.
LEMMA BoundedStep == TypeOK /\ Shape /\ Bounded /\ [Next]_vars => Bounded'
<1> SUFFICES ASSUME TypeOK, Shape, Bounded, [Next]_vars PROVE Bounded'
  OBVIOUS
<1> USE DefaultAssumption, NoOneAssumption, MaxVerAssumption
    DEF tables, calls, history, Request, Op, Step, GrantRow, Version, NoRequest
<1>1. ASSUME NEW c \in Call, NEW s \in Subject, ImportIdentityCard(c, s)
      PROVE  Bounded'
  BY <1>1 DEF TypeOK, Shape, Bounded, ImportIdentityCard
<1>2. ASSUME NEW c \in Call, NEW s \in Subject, NEW r \in Resource,
             StartGrant(c, s, r)
      PROVE  Bounded'
  BY <1>2 DEF TypeOK, Shape, Bounded, Start, StartGrant
<1>3. ASSUME NEW c \in Call, NEW s \in Subject, NEW r \in Resource,
             StartRevoke(c, s, r)
      PROVE  Bounded'
  BY <1>3 DEF TypeOK, Shape, Bounded, Start, StartRevoke
<1>4. ASSUME NEW c \in Call, NEW s \in Subject, NEW r \in Resource,
             StartRevokeKeep(c, s, r)
      PROVE  Bounded'
  BY <1>4 DEF TypeOK, Shape, Bounded, Start, StartRevokeKeep
<1>5. ASSUME NEW c \in Call, NEW r \in Resource, StartRotateDek(c, r)
      PROVE  Bounded'
  BY <1>5 DEF TypeOK, Shape, Bounded, Start, StartRotateDek
<1>6. ASSUME NEW c \in Call, NEW r \in Resource, StartWrite(c, r) PROVE Bounded'
  BY <1>6 DEF TypeOK, Shape, Bounded, Start, StartWrite
<1>7. ASSUME NEW c \in Call, StartRotateAll(c) PROVE Bounded'
  BY <1>7 DEF TypeOK, Shape, Bounded, Start, StartRotateAll
<1>8. ASSUME NEW c \in Call, EnsureDekVer(c) PROVE Bounded'
  BY <1>8 DEF TypeOK, Shape, Bounded, EnsureDekVer, AfterEnsure, DekVerFor,
     Goto
<1>9. ASSUME NEW c \in Call, InitDekVer(c) PROVE Bounded'
  BY <1>9 DEF TypeOK, Shape, Bounded, InitDekVer, AfterEnsure, PutDekver, Goto
<1>10. ASSUME NEW c \in Call, PutGrant(c) PROVE Bounded'
  BY <1>10 DEF TypeOK, Shape, Bounded, PutGrant, Goto
<1>11. ASSUME NEW c \in Call, PutCell(c) PROVE Bounded'
  BY <1>11 DEF TypeOK, Shape, Bounded, PutCell, Reset
<1>12. ASSUME NEW c \in Call, ReadEpoch(c) PROVE Bounded'
  BY <1>12 DEF TypeOK, Shape, Bounded, ReadEpoch, DekVerFor, Goto
<1>13. ASSUME NEW c \in Call, PutRevoke(c) PROVE Bounded'
  <2>1. CASE req[c].op = "revoke"
    <3>1. /\ pc' = [pc EXCEPT ![c] = "readVer"] /\ pc[c] = "putRevoke"
          /\ UNCHANGED <<known, dekver, keywrap, cell, req, ver, todo, queue, locked, shut, torn>>
      BY <1>13, <2>1 DEF PutRevoke, Goto
    <3>2. grantrec' = [grantrec EXCEPT ![<<req[c].subject, req[c].resource>>]
                         = [status |-> "revoked", epoch |-> ver[c]]]
      BY <1>13 DEF PutRevoke
    <3> QED
      BY <3>1, <3>2 DEF TypeOK, Bounded
  <2>2. CASE req[c].op = "revokeKeep"
    <3>1. /\ pc' = [pc EXCEPT ![c] = "idle"] /\ pc[c] = "putRevoke"
          /\ ver' = [ver EXCEPT ![c] = 0] /\ req' = [req EXCEPT ![c] = NoRequest]
          /\ UNCHANGED <<dekver, keywrap>>
      BY <1>13, <2>2 DEF PutRevoke, Reset
    <3>2. pc'[c] = "idle" /\ \A e \in Call : e # c => pc'[e] = pc[e] /\ ver'[e] = ver[e] /\ req'[e] = req[e]
      BY <3>1 DEF TypeOK
    <3> QED
      BY <3>1, <3>2 DEF Bounded
  <2> QED
    BY <1>13, <2>1, <2>2 DEF PutRevoke
<1>14. ASSUME NEW c \in Call, ListResources(c) PROVE Bounded'
  BY <1>14 DEF TypeOK, Shape, Bounded, ListResources, Goto
<1>15. ASSUME NEW c \in Call, NextResource(c) PROVE Bounded'
  BY <1>15 DEF TypeOK, Shape, Bounded, NextResource, Goto
<1>16. ASSUME NEW c \in Call, ReadVer(c) PROVE Bounded'
  BY <1>16 DEF TypeOK, Shape, Bounded, ReadVer, DekVerFor, Goto
<1>17. ASSUME NEW c \in Call, PutVer(c) PROVE Bounded'
  BY <1>17 DEF TypeOK, Shape, Bounded, PutVer, PutDekver, Goto
<1>18. ASSUME NEW c \in Call, ReadMembers(c) PROVE Bounded'
  BY <1>18 DEF TypeOK, Shape, Bounded, ReadMembers, MembersOf, Member, Goto
<1>19. ASSUME NEW c \in Call, NEW s \in Subject, WrapDekTo(c, s) PROVE Bounded'
  BY <1>19 DEF TypeOK, Shape, Bounded, WrapDekTo
<1>20. ASSUME NEW c \in Call, NEW s \in Subject, ThrowUnknown(c, s)
       PROVE  Bounded'
  BY <1>20 DEF TypeOK, Shape, Bounded, ThrowUnknown, Unfinished, Reset
<1>21. ASSUME NEW c \in Call, NextRotation(c) PROVE Bounded'
  BY <1>21 DEF TypeOK, Shape, Bounded, NextRotation, Goto
<1>22. ASSUME NEW c \in Call, Return(c) PROVE Bounded'
  BY <1>22 DEF TypeOK, Shape, Bounded, Return, Reset
<1>23. CASE Crash
  BY <1>23 DEF TypeOK, Shape, Bounded, Crash, Unfinished
<1>24. CASE UNCHANGED vars
  BY <1>24 DEF TypeOK, Shape, Bounded, vars
<1> QED
  BY <1>1, <1>2, <1>3, <1>4, <1>5, <1>6, <1>7, <1>8, <1>9, <1>10, <1>11,
     <1>12, <1>13, <1>14, <1>15, <1>16, <1>17, <1>18, <1>19, <1>20, <1>21,
     <1>22, <1>23, <1>24 DEF Next, Begin, Continue

\* A subject that is no member, and is not granted in this step, gains no wrap
\* and no pending wrap: what it holds stays below n.
LEMMA BelowStep ==
  ASSUME NEW s \in Subject, NEW r \in Resource, NEW n \in Version,
         TypeOK, Shape, Next, Below(s, r, n),
         ~Member(s, r), grantrec'[<<s, r>>].status # "member"
  PROVE  Below(s, r, n)'
<1> USE DefaultAssumption, NoOneAssumption, MaxVerAssumption
    DEF tables, calls, history, Version
<1>1. ASSUME NEW c \in Call, NEW t \in Subject, ImportIdentityCard(c, t)
      PROVE  Below(s, r, n)'
  BY <1>1 DEF TypeOK, Shape, Below, Member, ImportIdentityCard
<1>2. ASSUME NEW c \in Call, NEW t \in Subject, NEW q \in Resource,
             StartGrant(c, t, q)
      PROVE  Below(s, r, n)'
  BY <1>2 DEF TypeOK, Shape, Below, Member, Start, StartGrant
<1>3. ASSUME NEW c \in Call, NEW t \in Subject, NEW q \in Resource,
             StartRevoke(c, t, q)
      PROVE  Below(s, r, n)'
  BY <1>3 DEF TypeOK, Shape, Below, Member, Start, StartRevoke
<1>4. ASSUME NEW c \in Call, NEW t \in Subject, NEW q \in Resource,
             StartRevokeKeep(c, t, q)
      PROVE  Below(s, r, n)'
  BY <1>4 DEF TypeOK, Shape, Below, Member, Start, StartRevokeKeep
<1>5. ASSUME NEW c \in Call, NEW q \in Resource, StartRotateDek(c, q)
      PROVE  Below(s, r, n)'
  BY <1>5 DEF TypeOK, Shape, Below, Member, Start, StartRotateDek
<1>6. ASSUME NEW c \in Call, NEW q \in Resource, StartWrite(c, q)
      PROVE  Below(s, r, n)'
  BY <1>6 DEF TypeOK, Shape, Below, Member, Start, StartWrite
<1>7. ASSUME NEW c \in Call, StartRotateAll(c) PROVE Below(s, r, n)'
  BY <1>7 DEF TypeOK, Shape, Below, Member, Start, StartRotateAll
<1>8. ASSUME NEW c \in Call, EnsureDekVer(c) PROVE Below(s, r, n)'
  BY <1>8 DEF TypeOK, Shape, Below, Member, EnsureDekVer, AfterEnsure,
     DekVerFor, Goto
<1>9. ASSUME NEW c \in Call, InitDekVer(c) PROVE Below(s, r, n)'
  BY <1>9 DEF TypeOK, Shape, Below, Member, InitDekVer, AfterEnsure,
     PutDekver, Goto
<1>10. ASSUME NEW c \in Call, PutGrant(c) PROVE Below(s, r, n)'
  BY <1>10 DEF TypeOK, Shape, Below, Member, PutGrant, Goto
<1>11. ASSUME NEW c \in Call, PutCell(c) PROVE Below(s, r, n)'
  BY <1>11 DEF TypeOK, Shape, Below, Member, PutCell, Reset
<1>12. ASSUME NEW c \in Call, ReadEpoch(c) PROVE Below(s, r, n)'
  BY <1>12 DEF TypeOK, Shape, Below, Member, ReadEpoch, DekVerFor, Goto
<1>13. ASSUME NEW c \in Call, PutRevoke(c) PROVE Below(s, r, n)'
  <2>1. CASE req[c].op = "revoke"
    BY <1>13, <2>1 DEF TypeOK, Below, PutRevoke, Goto
  <2>2. CASE req[c].op = "revokeKeep"
    BY <1>13, <2>2 DEF TypeOK, Below, PutRevoke, Reset
  <2> QED
    BY <1>13, <2>1, <2>2 DEF PutRevoke
<1>14. ASSUME NEW c \in Call, ListResources(c) PROVE Below(s, r, n)'
  BY <1>14 DEF TypeOK, Shape, Below, Member, ListResources, Goto
<1>15. ASSUME NEW c \in Call, NextResource(c) PROVE Below(s, r, n)'
  BY <1>15 DEF TypeOK, Shape, Below, Member, NextResource, Goto
<1>16. ASSUME NEW c \in Call, ReadVer(c) PROVE Below(s, r, n)'
  BY <1>16 DEF TypeOK, Shape, Below, Member, ReadVer, DekVerFor, Goto
<1>17. ASSUME NEW c \in Call, PutVer(c) PROVE Below(s, r, n)'
  BY <1>17 DEF TypeOK, Shape, Below, Member, PutVer, PutDekver, Goto
<1>18. ASSUME NEW c \in Call, ReadMembers(c) PROVE Below(s, r, n)'
  BY <1>18 DEF TypeOK, Shape, Below, Member, ReadMembers, MembersOf, Member,
     Goto
<1>19. ASSUME NEW c \in Call, NEW t \in Subject, WrapDekTo(c, t)
       PROVE  Below(s, r, n)'
  BY <1>19 DEF TypeOK, Shape, Below, Member, WrapDekTo
<1>20. ASSUME NEW c \in Call, NEW t \in Subject, ThrowUnknown(c, t)
       PROVE  Below(s, r, n)'
  BY <1>20 DEF TypeOK, Shape, Below, Member, ThrowUnknown, Unfinished, Reset
<1>21. ASSUME NEW c \in Call, NextRotation(c) PROVE Below(s, r, n)'
  BY <1>21 DEF TypeOK, Shape, Below, Member, NextRotation, Goto
<1>22. ASSUME NEW c \in Call, Return(c) PROVE Below(s, r, n)'
  BY <1>22 DEF TypeOK, Shape, Below, Member, Return, Reset
<1>23. CASE Crash
  BY <1>23 DEF TypeOK, Shape, Below, Member, Crash, Unfinished
<1> QED
  BY <1>1, <1>2, <1>3, <1>4, <1>5, <1>6, <1>7, <1>8, <1>9, <1>10, <1>11,
     <1>12, <1>13, <1>14, <1>15, <1>16, <1>17, <1>18, <1>19, <1>20, <1>21,
     <1>22, <1>23 DEF Next, Begin, Continue

\* What a step leaves of a rotating revoke it does not end: still the same call,
\* past its putGrant, and its chosen version is kept or is just being chosen.
LEMMA ClosingFrame ==
  ASSUME NEW s \in Subject, NEW r \in Resource, NEW x \in Call,
         TypeOK, Shape, ClosingInv, Next,
         <<s, r, x>> \in closing, <<s, r, x>> \in closing'
  PROVE  /\ grantrec'[<<s, r>>].status = "revoked"
         /\ req'[x] = req[x]
         /\ pc'[x] \in {"readVer", "putVer", "members", "wrap"}
         /\ pc'[x] # "readVer" =>
              \/ pc[x] # "readVer" /\ ver'[x] = ver[x]
              \/ pc[x] = "readVer" /\ ver'[x] = dekver[r] + 1
<1> DEFINE Kept ==
      /\ grantrec'[<<s, r>>].status = "revoked"
      /\ req'[x] = req[x]
      /\ pc'[x] \in {"readVer", "putVer", "members", "wrap"}
      /\ pc'[x] # "readVer" =>
           \/ pc[x] # "readVer" /\ ver'[x] = ver[x]
           \/ pc[x] = "readVer" /\ ver'[x] = dekver[r] + 1
<1>0. /\ grantrec[<<s, r>>].status = "revoked"
      /\ req[x] = [op |-> "revoke", subject |-> s, resource |-> r]
      /\ pc[x] \in {"readVer", "putVer", "members", "wrap"}
  BY DEF ClosingInv
<1> USE DEF tables, calls, history
<1>1. ASSUME NEW c \in Call, NEW t \in Subject, ImportIdentityCard(c, t)
      PROVE  Kept
  BY <1>0, <1>1 DEF TypeOK, Shape, ImportIdentityCard
<1>2. ASSUME NEW c \in Call, NEW t \in Subject, NEW q \in Resource,
             StartGrant(c, t, q)
      PROVE  Kept
  BY <1>0, <1>2 DEF TypeOK, Shape, Start, StartGrant
<1>3. ASSUME NEW c \in Call, NEW t \in Subject, NEW q \in Resource,
             StartRevoke(c, t, q)
      PROVE  Kept
  BY <1>0, <1>3 DEF TypeOK, Shape, Start, StartRevoke
<1>4. ASSUME NEW c \in Call, NEW t \in Subject, NEW q \in Resource,
             StartRevokeKeep(c, t, q)
      PROVE  Kept
  BY <1>0, <1>4 DEF TypeOK, Shape, Start, StartRevokeKeep
<1>5. ASSUME NEW c \in Call, NEW q \in Resource, StartRotateDek(c, q) PROVE Kept
  BY <1>0, <1>5 DEF TypeOK, Shape, Start, StartRotateDek
<1>6. ASSUME NEW c \in Call, NEW q \in Resource, StartWrite(c, q) PROVE Kept
  BY <1>0, <1>6 DEF TypeOK, Shape, Start, StartWrite
<1>7. ASSUME NEW c \in Call, StartRotateAll(c) PROVE Kept
  BY <1>0, <1>7 DEF TypeOK, Shape, Start, StartRotateAll
<1>8. ASSUME NEW c \in Call, EnsureDekVer(c) PROVE Kept
  BY <1>0, <1>8 DEF TypeOK, Shape, EnsureDekVer, AfterEnsure, DekVerFor, Goto
<1>9. ASSUME NEW c \in Call, InitDekVer(c) PROVE Kept
  BY <1>0, <1>9 DEF TypeOK, Shape, InitDekVer, AfterEnsure, PutDekver, Goto
<1>10. ASSUME NEW c \in Call, PutGrant(c) PROVE Kept
  BY <1>0, <1>10 DEF TypeOK, Shape, PutGrant, Goto
<1>11. ASSUME NEW c \in Call, PutCell(c) PROVE Kept
  BY <1>0, <1>11 DEF TypeOK, Shape, PutCell, Reset
<1>12. ASSUME NEW c \in Call, ReadEpoch(c) PROVE Kept
  BY <1>0, <1>12 DEF TypeOK, Shape, ReadEpoch, DekVerFor, Goto
<1>13. ASSUME NEW c \in Call, PutRevoke(c) PROVE Kept
  <2>1. CASE req[c].op = "revoke"
    BY <1>0, <1>13, <2>1 DEF TypeOK, PutRevoke, Goto
  <2>2. CASE req[c].op = "revokeKeep"
    BY <1>0, <1>13, <2>2 DEF TypeOK, PutRevoke, Reset
  <2> QED
    BY <1>13, <2>1, <2>2 DEF PutRevoke
<1>14. ASSUME NEW c \in Call, ListResources(c) PROVE Kept
  BY <1>0, <1>14 DEF TypeOK, Shape, ListResources, Goto
<1>15. ASSUME NEW c \in Call, NextResource(c) PROVE Kept
  BY <1>0, <1>15 DEF TypeOK, Shape, NextResource, Goto
<1>16. ASSUME NEW c \in Call, ReadVer(c) PROVE Kept
  BY <1>0, <1>16 DEF TypeOK, Shape, ReadVer, DekVerFor, Goto
<1>17. ASSUME NEW c \in Call, PutVer(c) PROVE Kept
  BY <1>0, <1>17 DEF TypeOK, Shape, PutVer, PutDekver, Goto
<1>18. ASSUME NEW c \in Call, ReadMembers(c) PROVE Kept
  BY <1>0, <1>18 DEF TypeOK, Shape, ReadMembers, MembersOf, Member, Goto
<1>19. ASSUME NEW c \in Call, NEW t \in Subject, WrapDekTo(c, t) PROVE Kept
  BY <1>0, <1>19 DEF TypeOK, Shape, WrapDekTo
<1>20. ASSUME NEW c \in Call, NEW t \in Subject, ThrowUnknown(c, t) PROVE Kept
  BY <1>0, <1>20 DEF TypeOK, Shape, ThrowUnknown, Unfinished, Reset
<1>21. ASSUME NEW c \in Call, NextRotation(c) PROVE Kept
  BY <1>0, <1>21 DEF TypeOK, Shape, NextRotation, Goto
<1>22. ASSUME NEW c \in Call, Return(c) PROVE Kept
  BY <1>0, <1>22 DEF TypeOK, Shape, Return, Reset
<1>23. CASE Crash
  BY <1>0, <1>23 DEF TypeOK, Shape, Crash, Unfinished
<1> QED
  BY <1>1, <1>2, <1>3, <1>4, <1>5, <1>6, <1>7, <1>8, <1>9, <1>10, <1>11,
     <1>12, <1>13, <1>14, <1>15, <1>16, <1>17, <1>18, <1>19, <1>20, <1>21,
     <1>22, <1>23 DEF Next, Begin, Continue

\* Below is monotone in its bound.
LEMMA BelowWeaken ==
  ASSUME NEW s \in Subject, NEW r \in Resource, NEW m \in Nat, NEW n \in Nat,
         m <= n, TypeOK, Below(s, r, m)
  PROVE  Below(s, r, n)
BY MaxVerAssumption DEF Below, TypeOK, Version

\* What Bounded says, in terms of Below.
LEMMA BoundedBelow ==
  ASSUME NEW s \in Subject, NEW r \in Resource, TypeOK, Bounded
  PROVE  Below(s, r, dekver[r] + 1)
BY MaxVerAssumption DEF Bounded, Below, TypeOK, Version

\* Only a rotating revoke's own putGrant enters closing.
LEMMA ClosingEntry ==
  ASSUME NEW s \in Subject, NEW r \in Resource, NEW x \in Call,
         TypeOK, Next, <<s, r, x>> \in closing', <<s, r, x>> \notin closing
  PROVE  /\ PutRevoke(x)
         /\ req[x].op = "revoke" /\ req[x].subject = s /\ req[x].resource = r
<1> DEFINE Entered ==
      /\ PutRevoke(x)
      /\ req[x].op = "revoke" /\ req[x].subject = s /\ req[x].resource = r
<1> USE DEF tables, calls, history
<1>1. ASSUME NEW c \in Call, Begin(c) PROVE Entered
  BY <1>1 DEF Begin, ImportIdentityCard, Start, StartGrant, StartRevoke,
     StartRevokeKeep, StartRotateDek, StartRotateAll, StartWrite
<1>2. ASSUME NEW c \in Call, PutRevoke(c) PROVE Entered
  <2>1. CASE req[c].op = "revoke"
    <3>1. closing' = closing \cup {<<req[c].subject, req[c].resource, c>>}
      BY <1>2, <2>1 DEF PutRevoke
    <3> QED
      BY <1>2, <2>1, <3>1
  <2>2. CASE req[c].op = "revokeKeep"
    BY <1>2, <2>2 DEF PutRevoke
  <2> QED
    BY <1>2, <2>1, <2>2 DEF PutRevoke
<1>3. ASSUME NEW c \in Call, Continue(c), ~PutRevoke(c) PROVE Entered
  BY <1>3 DEF Continue, EnsureDekVer, InitDekVer, PutGrant, PutCell, ReadEpoch,
     ListResources, NextResource, ReadVer, PutVer, ReadMembers, WrapDekTo,
     ThrowUnknown, NextRotation, Return
<1>4. CASE Crash
  BY <1>4 DEF Crash
<1> QED
  BY <1>1, <1>2, <1>3, <1>4 DEF Next

\* A rotating revoke keeps its subject out until it returns.
LEMMA ClosingStep == IInv /\ [Next]_vars => ClosingInv'
<1> SUFFICES ASSUME IInv, [Next]_vars,
                    NEW s \in Subject, NEW r \in Resource, NEW x \in Call,
                    <<s, r, x>> \in closing'
             PROVE  /\ grantrec'[<<s, r>>].status = "revoked"
                    /\ req'[x] = [op |-> "revoke", subject |-> s, resource |-> r]
                    /\ pc'[x] \in {"readVer", "putVer", "members", "wrap"}
                    /\ pc'[x] # "readVer" => Below(s, r, ver[x])'
  BY DEF ClosingInv, Below
<1> USE DEF IInv
<1>1. CASE UNCHANGED vars
  BY <1>1 DEF vars, tables, calls, history, ClosingInv, Below
<1>2. CASE Next /\ <<s, r, x>> \in closing
  <2>1. /\ grantrec[<<s, r>>].status = "revoked"
        /\ req[x] = [op |-> "revoke", subject |-> s, resource |-> r]
        /\ pc[x] # "readVer" => Below(s, r, ver[x])
    BY <1>2 DEF ClosingInv
  <2>2. /\ grantrec'[<<s, r>>].status = "revoked"
        /\ req'[x] = req[x]
        /\ pc'[x] \in {"readVer", "putVer", "members", "wrap"}
        /\ pc'[x] # "readVer" =>
             \/ pc[x] # "readVer" /\ ver'[x] = ver[x]
             \/ pc[x] = "readVer" /\ ver'[x] = dekver[r] + 1
    BY <1>2, ClosingFrame
  <2>3. ASSUME pc'[x] # "readVer" PROVE Below(s, r, ver[x])'
    <3>1. PICK n \in Version : n = ver'[x]
      BY TypeOKStep DEF TypeOK
    <3>2. Below(s, r, n)
      BY <2>1, <2>2, <2>3, <3>1, BoundedBelow
    <3>3. Below(s, r, n)'
      BY <1>2, <2>1, <2>2, <3>2, BelowStep DEF Member
    <3> QED
      BY <3>1, <3>3 DEF Below
  <2> QED
    BY <2>1, <2>2, <2>3
<1>3. CASE Next /\ <<s, r, x>> \notin closing
  <2>1. PutRevoke(x) /\ req[x].op = "revoke" /\ req[x].subject = s /\ req[x].resource = r
    BY <1>3, ClosingEntry
  <2>2. req[x] = [op |-> "revoke", subject |-> s, resource |-> r]
    BY <2>1 DEF TypeOK, Request
  <2>3. grantrec'[<<s, r>>].status = "revoked" /\ req'[x] = req[x] /\ pc'[x] = "readVer"
    BY <2>1 DEF PutRevoke, Goto, TypeOK
  <2> QED
    BY <2>2, <2>3
<1> QED
  BY <1>1, <1>2, <1>3

\* A lock survives a step unless its subject is granted again; it is entered
\* when the rotating revoke that owns it returns.
LEMMA LockedFrame ==
  ASSUME NEW s \in Subject, NEW r \in Resource, TypeOK, Shape, Next,
         <<s, r>> \in locked'
  PROVE  /\ grantrec[<<s, r>>].status = "revoked" => grantrec'[<<s, r>>].status = "revoked"
         /\ dekver'[r] >= dekver[r]
         /\ <<s, r>> \notin locked =>
              \E c \in Call : <<s, r, c>> \in closing /\ pc[c] = "wrap"
<1> DEFINE Kept ==
      /\ grantrec[<<s, r>>].status = "revoked" => grantrec'[<<s, r>>].status = "revoked"
      /\ dekver'[r] >= dekver[r]
      /\ <<s, r>> \notin locked =>
           \E c \in Call : <<s, r, c>> \in closing /\ pc[c] = "wrap"
<1> USE MaxVerAssumption DEF tables, calls, history, Version
<1>1. ASSUME NEW c \in Call, NEW t \in Subject, ImportIdentityCard(c, t)
      PROVE  Kept
  BY <1>1 DEF TypeOK, Shape, ImportIdentityCard
<1>2. ASSUME NEW c \in Call, NEW t \in Subject, NEW q \in Resource,
             StartGrant(c, t, q)
      PROVE  Kept
  BY <1>2 DEF TypeOK, Shape, Start, StartGrant
<1>3. ASSUME NEW c \in Call, NEW t \in Subject, NEW q \in Resource,
             StartRevoke(c, t, q)
      PROVE  Kept
  BY <1>3 DEF TypeOK, Shape, Start, StartRevoke
<1>4. ASSUME NEW c \in Call, NEW t \in Subject, NEW q \in Resource,
             StartRevokeKeep(c, t, q)
      PROVE  Kept
  BY <1>4 DEF TypeOK, Shape, Start, StartRevokeKeep
<1>5. ASSUME NEW c \in Call, NEW q \in Resource, StartRotateDek(c, q) PROVE Kept
  BY <1>5 DEF TypeOK, Shape, Start, StartRotateDek
<1>6. ASSUME NEW c \in Call, NEW q \in Resource, StartWrite(c, q) PROVE Kept
  BY <1>6 DEF TypeOK, Shape, Start, StartWrite
<1>7. ASSUME NEW c \in Call, StartRotateAll(c) PROVE Kept
  BY <1>7 DEF TypeOK, Shape, Start, StartRotateAll
<1>8. ASSUME NEW c \in Call, EnsureDekVer(c) PROVE Kept
  BY <1>8 DEF TypeOK, Shape, EnsureDekVer, AfterEnsure, DekVerFor, Goto
<1>9. ASSUME NEW c \in Call, InitDekVer(c) PROVE Kept
  BY <1>9 DEF TypeOK, Shape, InitDekVer, AfterEnsure, PutDekver, Goto
<1>10. ASSUME NEW c \in Call, PutGrant(c) PROVE Kept
  BY <1>10 DEF TypeOK, Shape, PutGrant, Goto
<1>11. ASSUME NEW c \in Call, PutCell(c) PROVE Kept
  BY <1>11 DEF TypeOK, Shape, PutCell, Reset
<1>12. ASSUME NEW c \in Call, ReadEpoch(c) PROVE Kept
  BY <1>12 DEF TypeOK, Shape, ReadEpoch, DekVerFor, Goto
<1>13. ASSUME NEW c \in Call, PutRevoke(c) PROVE Kept
  <2>1. CASE req[c].op = "revoke"
    BY <1>13, <2>1 DEF TypeOK, PutRevoke, Goto
  <2>2. CASE req[c].op = "revokeKeep"
    BY <1>13, <2>2 DEF TypeOK, PutRevoke, Reset
  <2> QED
    BY <1>13, <2>1, <2>2 DEF PutRevoke
<1>14. ASSUME NEW c \in Call, ListResources(c) PROVE Kept
  BY <1>14 DEF TypeOK, Shape, ListResources, Goto
<1>15. ASSUME NEW c \in Call, NextResource(c) PROVE Kept
  BY <1>15 DEF TypeOK, Shape, NextResource, Goto
<1>16. ASSUME NEW c \in Call, ReadVer(c) PROVE Kept
  BY <1>16 DEF TypeOK, Shape, ReadVer, DekVerFor, Goto
<1>17. ASSUME NEW c \in Call, PutVer(c) PROVE Kept
  BY <1>17 DEF TypeOK, Shape, PutVer, PutDekver, Goto
<1>18. ASSUME NEW c \in Call, ReadMembers(c) PROVE Kept
  BY <1>18 DEF TypeOK, Shape, ReadMembers, MembersOf, Member, Goto
<1>19. ASSUME NEW c \in Call, NEW t \in Subject, WrapDekTo(c, t) PROVE Kept
  BY <1>19 DEF TypeOK, Shape, WrapDekTo
<1>20. ASSUME NEW c \in Call, NEW t \in Subject, ThrowUnknown(c, t) PROVE Kept
  BY <1>20 DEF TypeOK, Shape, ThrowUnknown, Unfinished, Reset
<1>21. ASSUME NEW c \in Call, NextRotation(c) PROVE Kept
  BY <1>21 DEF TypeOK, Shape, NextRotation, Goto
<1>22. ASSUME NEW c \in Call, Return(c) PROVE Kept
  <2>1. <<s, r>> \notin locked => <<s, r, c>> \in closing /\ pc[c] = "wrap"
    BY <1>22 DEF Return
  <2>2. grantrec' = grantrec /\ dekver' = dekver
    BY <1>22 DEF Return
  <2>3. dekver'[r] >= dekver[r]
    BY <2>2 DEF TypeOK
  <2>4. c \in Call
    OBVIOUS
  <2>5. <<s, r>> \notin locked =>
          \E x \in Call : <<s, r, x>> \in closing /\ pc[x] = "wrap"
    BY <2>1, <2>4
  <2> QED
    BY <2>2, <2>3, <2>5
<1>23. CASE Crash
  BY <1>23 DEF TypeOK, Shape, Crash, Unfinished
<1> QED
  BY <1>1, <1>2, <1>3, <1>4, <1>5, <1>6, <1>7, <1>8, <1>9, <1>10, <1>11,
     <1>12, <1>13, <1>14, <1>15, <1>16, <1>17, <1>18, <1>19, <1>20, <1>21,
     <1>22, <1>23 DEF Next, Begin, Continue

\* And the lock it leaves behind is kept.
LEMMA LockedStep == IInv /\ [Next]_vars => LockedInv'
<1> SUFFICES ASSUME IInv, [Next]_vars,
                    NEW s \in Subject, NEW r \in Resource, <<s, r>> \in locked'
             PROVE  /\ grantrec'[<<s, r>>].status = "revoked"
                    /\ dekver'[r] >= 1
                    /\ Below(s, r, dekver[r])'
  BY DEF LockedInv, Below
<1> USE DEF IInv
<1>1. CASE UNCHANGED vars
  BY <1>1 DEF vars, tables, calls, history, LockedInv, Below
<1>2. CASE Next
  <2>0. dekver[r] \in Nat /\ dekver'[r] \in Nat
    BY MaxVerAssumption, TypeOKStep DEF TypeOK, Version
  <2>1. /\ grantrec[<<s, r>>].status = "revoked" => grantrec'[<<s, r>>].status = "revoked"
        /\ dekver'[r] >= dekver[r]
        /\ <<s, r>> \notin locked =>
             \E c \in Call : <<s, r, c>> \in closing /\ pc[c] = "wrap"
    BY <1>2, LockedFrame
  <2>2. /\ grantrec[<<s, r>>].status = "revoked"
        /\ dekver[r] >= 1
        /\ Below(s, r, dekver[r])
    <3>1. CASE <<s, r>> \in locked
      BY <3>1 DEF LockedInv
    <3>2. CASE <<s, r>> \notin locked
      <4>1. PICK c \in Call : <<s, r, c>> \in closing /\ pc[c] = "wrap"
        BY <2>1, <3>2
      <4>2. /\ grantrec[<<s, r>>].status = "revoked"
            /\ req[c].resource = r
            /\ Below(s, r, ver[c])
        <5>1. req[c] = [op |-> "revoke", subject |-> s, resource |-> r]
          BY <4>1 DEF ClosingInv
        <5> QED
          BY <4>1, <5>1 DEF ClosingInv
      <4>3. ver[c] <= dekver[r] /\ ver[c] \in Nat
        BY <4>1, <4>2, MaxVerAssumption DEF Bounded, TypeOK, Version
      <4>4. Below(s, r, dekver[r])
        BY <2>0, <4>2, <4>3, BelowWeaken
      <4>5. dekver[r] >= 1
        BY <2>0, <4>1, <4>3 DEF Bounded
      <4> QED
        BY <4>2, <4>4, <4>5
    <3> QED
      BY <3>1, <3>2
  <2>3. PICK n \in Version : n = dekver[r]
    BY DEF TypeOK
  <2>4. Below(s, r, n)'
    BY <1>2, <2>1, <2>2, <2>3, BelowStep DEF Member
  <2>5. Below(s, r, dekver[r])'
    BY <2>0, <2>1, <2>3, <2>4, TypeOKStep DEF Below, TypeOK, Version
  <2> QED
    BY <2>0, <2>1, <2>2, <2>5
<1> QED
  BY <1>1, <1>2

\* A write stays shut while it runs, and its version, once read, is the current one.
LEMMA ShutFrame ==
  ASSUME NEW s \in Subject, NEW x \in Call, TypeOK, Shape, ShutInv, Next,
         <<x, s>> \in shut, <<x, s>> \in shut'
  PROVE  /\ req'[x] = req[x]
         /\ <<s, req[x].resource>> \in locked'
         /\ \/ pc[x] = pc'[x] /\ ver'[x] = ver[x]
            \/ pc[x] = "ensure" /\ EnsureDekVer(x)
<1> DEFINE Kept ==
      /\ req'[x] = req[x]
      /\ <<s, req[x].resource>> \in locked'
      /\ \/ pc[x] = pc'[x] /\ ver'[x] = ver[x]
         \/ pc[x] = "ensure" /\ EnsureDekVer(x)
<1>0. /\ <<s, req[x].resource>> \in locked
      /\ pc[x] \in {"ensure", "putCell"}
  BY DEF ShutInv
<1> USE DEF tables, calls, history
<1>1. ASSUME NEW c \in Call, NEW t \in Subject, ImportIdentityCard(c, t)
      PROVE  Kept
  BY <1>0, <1>1 DEF TypeOK, Shape, ImportIdentityCard
<1>2. ASSUME NEW c \in Call, NEW t \in Subject, NEW q \in Resource,
             StartGrant(c, t, q)
      PROVE  Kept
  BY <1>0, <1>2 DEF TypeOK, Shape, Start, StartGrant
<1>3. ASSUME NEW c \in Call, NEW t \in Subject, NEW q \in Resource,
             StartRevoke(c, t, q)
      PROVE  Kept
  BY <1>0, <1>3 DEF TypeOK, Shape, Start, StartRevoke
<1>4. ASSUME NEW c \in Call, NEW t \in Subject, NEW q \in Resource,
             StartRevokeKeep(c, t, q)
      PROVE  Kept
  BY <1>0, <1>4 DEF TypeOK, Shape, Start, StartRevokeKeep
<1>5. ASSUME NEW c \in Call, NEW q \in Resource, StartRotateDek(c, q) PROVE Kept
  BY <1>0, <1>5 DEF TypeOK, Shape, Start, StartRotateDek
<1>6. ASSUME NEW c \in Call, NEW q \in Resource, StartWrite(c, q) PROVE Kept
  BY <1>0, <1>6 DEF TypeOK, Shape, Start, StartWrite
<1>7. ASSUME NEW c \in Call, StartRotateAll(c) PROVE Kept
  BY <1>0, <1>7 DEF TypeOK, Shape, Start, StartRotateAll
<1>8. ASSUME NEW c \in Call, EnsureDekVer(c) PROVE Kept
  BY <1>0, <1>8 DEF TypeOK, Shape, EnsureDekVer, AfterEnsure, DekVerFor, Goto
<1>9. ASSUME NEW c \in Call, InitDekVer(c) PROVE Kept
  BY <1>0, <1>9 DEF TypeOK, Shape, InitDekVer, AfterEnsure, PutDekver, Goto
<1>10. ASSUME NEW c \in Call, PutGrant(c) PROVE Kept
  BY <1>0, <1>10 DEF TypeOK, Shape, PutGrant, Goto
<1>11. ASSUME NEW c \in Call, PutCell(c) PROVE Kept
  BY <1>0, <1>11 DEF TypeOK, Shape, PutCell, Reset
<1>12. ASSUME NEW c \in Call, ReadEpoch(c) PROVE Kept
  BY <1>0, <1>12 DEF TypeOK, Shape, ReadEpoch, DekVerFor, Goto
<1>13. ASSUME NEW c \in Call, PutRevoke(c) PROVE Kept
  <2>1. CASE req[c].op = "revoke"
    BY <1>0, <1>13, <2>1 DEF TypeOK, PutRevoke, Goto
  <2>2. CASE req[c].op = "revokeKeep"
    BY <1>0, <1>13, <2>2 DEF TypeOK, PutRevoke, Reset
  <2> QED
    BY <1>13, <2>1, <2>2 DEF PutRevoke
<1>14. ASSUME NEW c \in Call, ListResources(c) PROVE Kept
  BY <1>0, <1>14 DEF TypeOK, Shape, ListResources, Goto
<1>15. ASSUME NEW c \in Call, NextResource(c) PROVE Kept
  BY <1>0, <1>15 DEF TypeOK, Shape, NextResource, Goto
<1>16. ASSUME NEW c \in Call, ReadVer(c) PROVE Kept
  BY <1>0, <1>16 DEF TypeOK, Shape, ReadVer, DekVerFor, Goto
<1>17. ASSUME NEW c \in Call, PutVer(c) PROVE Kept
  BY <1>0, <1>17 DEF TypeOK, Shape, PutVer, PutDekver, Goto
<1>18. ASSUME NEW c \in Call, ReadMembers(c) PROVE Kept
  BY <1>0, <1>18 DEF TypeOK, Shape, ReadMembers, MembersOf, Member, Goto
<1>19. ASSUME NEW c \in Call, NEW t \in Subject, WrapDekTo(c, t) PROVE Kept
  BY <1>0, <1>19 DEF TypeOK, Shape, WrapDekTo
<1>20. ASSUME NEW c \in Call, NEW t \in Subject, ThrowUnknown(c, t) PROVE Kept
  BY <1>0, <1>20 DEF TypeOK, Shape, ThrowUnknown, Unfinished, Reset
<1>21. ASSUME NEW c \in Call, NextRotation(c) PROVE Kept
  BY <1>0, <1>21 DEF TypeOK, Shape, NextRotation, Goto
<1>22. ASSUME NEW c \in Call, Return(c) PROVE Kept
  BY <1>0, <1>22 DEF TypeOK, Shape, Return, Reset
<1>23. CASE Crash
  BY <1>0, <1>23 DEF TypeOK, Shape, Crash, Unfinished
<1> QED
  BY <1>1, <1>2, <1>3, <1>4, <1>5, <1>6, <1>7, <1>8, <1>9, <1>10, <1>11,
     <1>12, <1>13, <1>14, <1>15, <1>16, <1>17, <1>18, <1>19, <1>20, <1>21,
     <1>22, <1>23 DEF Next, Begin, Continue

\* Only the start of a write enters shut.
LEMMA ShutEntry ==
  ASSUME NEW s \in Subject, NEW x \in Call, TypeOK, Next,
         <<x, s>> \in shut', <<x, s>> \notin shut
  PROVE  /\ pc'[x] = "ensure" /\ req'[x].op = "write"
         /\ <<s, req'[x].resource>> \in locked'
<1> DEFINE Entered == /\ pc'[x] = "ensure" /\ req'[x].op = "write"
                      /\ <<s, req'[x].resource>> \in locked'
<1> USE DEF tables, calls, history
<1>1. ASSUME NEW c \in Call, NEW r \in Resource, StartWrite(c, r) PROVE Entered
  BY <1>1 DEF StartWrite, Start, TypeOK
<1>2. ASSUME NEW c \in Call, Begin(c), \A r \in Resource : ~StartWrite(c, r)
      PROVE  Entered
  BY <1>2 DEF Begin, ImportIdentityCard, StartGrant, StartRevoke,
     StartRevokeKeep, StartRotateDek, StartRotateAll
<1>3. ASSUME NEW c \in Call, Continue(c) PROVE Entered
  BY <1>3 DEF Continue, EnsureDekVer, InitDekVer, PutGrant, PutCell, ReadEpoch,
     PutRevoke, ListResources, NextResource, ReadVer, PutVer, ReadMembers,
     WrapDekTo, ThrowUnknown, NextRotation, Return
<1>4. CASE Crash
  BY <1>4 DEF Crash
<1> QED
  BY <1>1, <1>2, <1>3, <1>4 DEF Next

\* A write begun under a lock reads a version the locked subject does not hold.
LEMMA ShutStep == IInv /\ [Next]_vars => ShutInv'
<1> SUFFICES ASSUME IInv, [Next]_vars,
                    NEW x \in Call, NEW s \in Subject, <<x, s>> \in shut'
             PROVE  /\ <<s, req'[x].resource>> \in locked'
                    /\ req'[x].op = "write"
                    /\ pc'[x] \in {"ensure", "putCell"}
                    /\ pc'[x] = "putCell" => Below(s, req[x].resource, ver[x])'
  BY DEF ShutInv, Below
<1> USE DEF IInv
<1>1. CASE UNCHANGED vars
  BY <1>1 DEF vars, tables, calls, history, ShutInv, Below
<1>2. CASE Next /\ <<x, s>> \in shut
  <2>1. PICK r \in Resource : r = req[x].resource
    BY DEF TypeOK, Request
  <2>2. /\ <<s, r>> \in locked
        /\ pc[x] \in {"ensure", "putCell"}
        /\ pc[x] = "putCell" => Below(s, r, ver[x])
    BY <1>2, <2>1 DEF ShutInv
  <2>3. /\ req'[x] = req[x]
        /\ <<s, r>> \in locked'
        /\ \/ pc[x] = pc'[x] /\ ver'[x] = ver[x]
           \/ pc[x] = "ensure" /\ EnsureDekVer(x)
    BY <1>2, <2>1, ShutFrame
  <2>4. /\ grantrec[<<s, r>>].status = "revoked"
        /\ grantrec'[<<s, r>>].status = "revoked"
        /\ dekver[r] >= 1
        /\ Below(s, r, dekver[r])
    BY <1>2, <2>2, LockedFrame, <2>3 DEF LockedInv
  <2>5. /\ pc'[x] \in {"ensure", "putCell"}
        /\ pc'[x] = "putCell" => Below(s, r, ver'[x])
    <3>1. CASE pc[x] = "ensure" /\ EnsureDekVer(x)
      <4>1. ver'[x] = dekver[r] /\ pc'[x] = "putCell"
        <5>1. req[x].op = "write"
          BY <1>2, <3>1 DEF ShutInv
        <5> QED
          BY <2>1, <2>4, <3>1, <5>1, MaxVerAssumption
             DEF EnsureDekVer, AfterEnsure, DekVerFor, Goto, TypeOK, Version
      <4> QED
        BY <2>4, <4>1
    <3>2. CASE pc[x] = pc'[x] /\ ver'[x] = ver[x]
      BY <2>2, <3>2
    <3> QED
      BY <2>3, <3>1, <3>2
  <2>6. ASSUME pc'[x] = "putCell" PROVE Below(s, req[x].resource, ver[x])'
    <3>1. PICK n \in Version : n = ver'[x]
      BY TypeOKStep DEF TypeOK
    <3>2. Below(s, r, n)'
      BY <1>2, <2>4, <2>5, <2>6, <3>1, BelowStep DEF Member
    <3> QED
      BY <2>1, <2>3, <3>1, <3>2 DEF Below
  <2>7. req[x].op = "write"
    BY <1>2 DEF ShutInv
  <2> QED
    BY <2>1, <2>3, <2>5, <2>6, <2>7
<1>3. CASE Next /\ <<x, s>> \notin shut
  BY <1>3, ShutEntry
<1> QED
  BY <1>1, <1>2, <1>3

\* The inductive invariant holds at genesis ...
LEMMA InitIInv == Init => IInv
BY DefaultAssumption, NoOneAssumption, MaxVerAssumption
   DEF Init, IInv, TypeOK, Shape, Bounded, ClosingInv, LockedInv, ShutInv,
       Version, GrantRow, Op, Step, Request, NoRequest

\* ... is kept by every step ...
LEMMA NextIInv == IInv /\ [Next]_vars => IInv'
BY TypeOKStep, ShapeStep, BoundedStep, ClosingStep, LockedStep, ShutStep DEF
   IInv

\* ... and so always holds.
LEMMA SpecIInv == Spec => []IInv
BY InitIInv, NextIInv, PTL DEF Spec

--------------------------------------------------------------------------------

\* The tables and the calls' locals keep their types (createCrDevice's state),
\* for every set of subjects, resources and calls in flight.
THEOREM TypeCorrect == Spec => []TypeOK
<1>1. IInv => TypeOK
  BY DEF IInv
<1> QED
  BY SpecIInv, <1>1, PTL

\* A rotating revoke that has returned locks its subject out of the current key,
\* whatever grants, rotations, writes and crashes it overlapped with
\* (crengine.ts:255-263).
THEOREM RevokeLocksOut == Spec => []LockedOut
<1>1. IInv => LockedOut
  <2> SUFFICES ASSUME IInv, NEW s \in Subject, NEW r \in Resource, <<s, r>> \in locked
               PROVE  <<s, r, dekver[r]>> \notin keywrap
    BY DEF LockedOut
  <2>1. dekver[r] \in Version /\ Below(s, r, dekver[r])
    BY DEF IInv, TypeOK, LockedInv
  <2> QED
    BY <2>1, MaxVerAssumption DEF Below, Version
<1> QED
  BY SpecIInv, <1>1, PTL

\* A write begun after such a revoke returned encrypts under a version the
\* subject does not hold (writeCell, crengine.ts:290-296).
THEOREM RevokeLocksLaterWrites == Spec => []LaterWritesLocked
<1>1. IInv => LaterWritesLocked
  <2> SUFFICES ASSUME IInv, NEW c \in Call, NEW s \in Subject,
                      <<c, s>> \in shut, pc[c] = "putCell"
               PROVE  <<s, req[c].resource, ver[c]>> \notin keywrap
    BY DEF LaterWritesLocked
  <2>1. ver[c] \in Version /\ Below(s, req[c].resource, ver[c])
    BY DEF IInv, TypeOK, ShutInv
  <2> QED
    BY <2>1, MaxVerAssumption DEF Below, Version
<1> QED
  BY SpecIInv, <1>1, PTL

--------------------------------------------------------------------------------
(* A device used serially: at most one call in flight.                        *)

Serial == \A c, d \in Call : c = d

\* Alone, a call's version is not overtaken between its read and its write, and
\* the subject of a revoke stays out until the members are read.
Undisturbed ==
    /\ \A c \in Call :
         /\ pc[c] = "putGrant" => ver[c] = dekver[req[c].resource]
         /\ pc[c] = "putVer" => ver[c] = dekver[req[c].resource] + 1
         /\ pc[c] = "initVer" => dekver[req[c].resource] = 0
         /\ (req[c].op = "revoke" /\ pc[c] \in {"readVer", "putVer", "members"})
              => ~Member(req[c].subject, req[c].resource)
    /\ \A s \in Subject, r \in Resource : Member(s, r) => dekver[r] >= 1

\* Call c has announced version v of r and not yet wrapped it for s.
Owes(c, s, r, v) ==
    /\ req[c].resource = r
    /\ ver[c] = v
    /\ pc[c] = "members" \/ (pc[c] = "wrap" /\ s \in todo[c])

HeldInv ==
    \A s \in Subject, r \in Resource, v \in Version :
        (/\ Member(s, r)
         /\ grantrec[<<s, r>>].epoch <= v
         /\ v <= dekver[r]
         /\ <<r, v>> \notin torn)
            => <<s, r, v>> \in keywrap \/ \E c \in Call : Owes(c, s, r, v)

SerialInv == IInv /\ Undisturbed /\ HeldInv

\* With no other call in flight, nothing moves between a call's statements.
LEMMA UndisturbedStep ==
  ASSUME Serial, TypeOK, Shape, Bounded, Undisturbed, [Next]_vars
  PROVE  Undisturbed'
<1> USE DefaultAssumption, NoOneAssumption, MaxVerAssumption DEF Serial, tables, calls, history, Version
<1>1. ASSUME NEW c \in Call, NEW t \in Subject, ImportIdentityCard(c, t)
      PROVE  Undisturbed'
  BY <1>1 DEF TypeOK, Shape, Bounded, Undisturbed, Member, ImportIdentityCard
<1>2. ASSUME NEW c \in Call, NEW t \in Subject, NEW q \in Resource,
             StartGrant(c, t, q)
      PROVE  Undisturbed'
  BY <1>2 DEF TypeOK, Shape, Bounded, Undisturbed, Member, Start, StartGrant
<1>3. ASSUME NEW c \in Call, NEW t \in Subject, NEW q \in Resource,
             StartRevoke(c, t, q)
      PROVE  Undisturbed'
  BY <1>3 DEF TypeOK, Shape, Bounded, Undisturbed, Member, Start, StartRevoke
<1>4. ASSUME NEW c \in Call, NEW t \in Subject, NEW q \in Resource,
             StartRevokeKeep(c, t, q)
      PROVE  Undisturbed'
  BY <1>4 DEF TypeOK, Shape, Bounded, Undisturbed, Member, Start,
     StartRevokeKeep
<1>5. ASSUME NEW c \in Call, NEW q \in Resource, StartRotateDek(c, q)
      PROVE  Undisturbed'
  BY <1>5 DEF TypeOK, Shape, Bounded, Undisturbed, Member, Start,
     StartRotateDek
<1>6. ASSUME NEW c \in Call, NEW q \in Resource, StartWrite(c, q)
      PROVE  Undisturbed'
  BY <1>6 DEF TypeOK, Shape, Bounded, Undisturbed, Member, Start, StartWrite
<1>7. ASSUME NEW c \in Call, StartRotateAll(c) PROVE Undisturbed'
  BY <1>7 DEF TypeOK, Shape, Bounded, Undisturbed, Member, Start,
     StartRotateAll
<1>8. ASSUME NEW c \in Call, EnsureDekVer(c) PROVE Undisturbed'
  BY <1>8 DEF TypeOK, Shape, Bounded, Undisturbed, Member, EnsureDekVer,
     AfterEnsure, DekVerFor, Goto
<1>9. ASSUME NEW c \in Call, InitDekVer(c) PROVE Undisturbed'
  <2>1. \A d \in Call : d = c
    OBVIOUS
  <2>2. dekver[req[c].resource] = 0
    BY <1>9 DEF Undisturbed, InitDekVer
  <2>3. dekver' = [dekver EXCEPT ![req[c].resource] = 1]
    BY <1>9, <2>2 DEF InitDekVer, PutDekver
  <2>4. /\ pc' = [pc EXCEPT ![c] = AfterEnsure(c)]
        /\ ver' = [ver EXCEPT ![c] = 1]
        /\ UNCHANGED <<grantrec, req>>
    BY <1>9 DEF InitDekVer, Goto
  <2>5. req[c].resource \in Resource
    BY DEF TypeOK, Request
  <2> QED
    BY <2>1, <2>3, <2>4, <2>5 DEF TypeOK, Undisturbed, Member, AfterEnsure
<1>10. ASSUME NEW c \in Call, PutGrant(c) PROVE Undisturbed'
  BY <1>10 DEF TypeOK, Shape, Bounded, Undisturbed, Member, PutGrant, Goto
<1>11. ASSUME NEW c \in Call, PutCell(c) PROVE Undisturbed'
  BY <1>11 DEF TypeOK, Shape, Bounded, Undisturbed, Member, PutCell, Reset
<1>12. ASSUME NEW c \in Call, ReadEpoch(c) PROVE Undisturbed'
  BY <1>12 DEF TypeOK, Shape, Bounded, Undisturbed, Member, ReadEpoch,
     DekVerFor, Goto
<1>13. ASSUME NEW c \in Call, PutRevoke(c) PROVE Undisturbed'
  <2>1. CASE req[c].op = "revoke"
    <3>1. <<req[c].subject, req[c].resource>> \in Subject \X Resource
      BY <2>1 DEF TypeOK, Shape, Request
    <3>2. grantrec' = [grantrec EXCEPT ![<<req[c].subject, req[c].resource>>]
                                 = [status |-> "revoked", epoch |-> ver[c]]]
      BY <1>13 DEF PutRevoke
    <3>3. pc' = [pc EXCEPT ![c] = "readVer"] /\ UNCHANGED <<req, ver, dekver>>
      BY <1>13, <2>1 DEF PutRevoke, Goto
    <3>4. \A t \in Subject, q \in Resource : Member(t, q)' => Member(t, q)
      BY <3>1, <3>2 DEF TypeOK, Member
    <3>5. ~Member(req[c].subject, req[c].resource)'
      BY <3>1, <3>2, <3>3 DEF TypeOK, Member
    <3> QED
      BY <3>3, <3>4, <3>5 DEF TypeOK, Undisturbed
  <2>2. CASE req[c].op = "revokeKeep"
    BY <1>13, <2>2 DEF TypeOK, Shape, Undisturbed, Member, PutRevoke, Reset
  <2> QED
    BY <1>13, <2>1, <2>2 DEF PutRevoke
<1>14. ASSUME NEW c \in Call, ListResources(c) PROVE Undisturbed'
  BY <1>14 DEF TypeOK, Shape, Bounded, Undisturbed, Member, ListResources,
     Goto
<1>15. ASSUME NEW c \in Call, NextResource(c) PROVE Undisturbed'
  BY <1>15 DEF TypeOK, Shape, Bounded, Undisturbed, Member, NextResource, Goto
<1>16. ASSUME NEW c \in Call, ReadVer(c) PROVE Undisturbed'
  BY <1>16 DEF TypeOK, Shape, Bounded, Undisturbed, Member, ReadVer,
     DekVerFor, Goto
<1>17. ASSUME NEW c \in Call, PutVer(c) PROVE Undisturbed'
  BY <1>17 DEF TypeOK, Shape, Bounded, Undisturbed, Member, PutVer, PutDekver,
     Goto
<1>18. ASSUME NEW c \in Call, ReadMembers(c) PROVE Undisturbed'
  BY <1>18 DEF TypeOK, Shape, Bounded, Undisturbed, Member, ReadMembers,
     MembersOf, Member, Goto
<1>19. ASSUME NEW c \in Call, NEW t \in Subject, WrapDekTo(c, t)
       PROVE  Undisturbed'
  BY <1>19 DEF TypeOK, Shape, Bounded, Undisturbed, Member, WrapDekTo
<1>20. ASSUME NEW c \in Call, NEW t \in Subject, ThrowUnknown(c, t)
       PROVE  Undisturbed'
  BY <1>20 DEF TypeOK, Shape, Bounded, Undisturbed, Member, ThrowUnknown,
     Unfinished, Reset
<1>21. ASSUME NEW c \in Call, NextRotation(c) PROVE Undisturbed'
  BY <1>21 DEF TypeOK, Shape, Bounded, Undisturbed, Member, NextRotation, Goto
<1>22. ASSUME NEW c \in Call, Return(c) PROVE Undisturbed'
  BY <1>22 DEF TypeOK, Shape, Bounded, Undisturbed, Member, Return, Reset
<1>23. CASE Crash
  BY <1>23 DEF TypeOK, Shape, Bounded, Undisturbed, Member, Crash, Unfinished
<1>24. CASE UNCHANGED vars
  BY <1>24 DEF TypeOK, Shape, Bounded, Undisturbed, Member, vars
<1> QED
  BY <1>1, <1>2, <1>3, <1>4, <1>5, <1>6, <1>7, <1>8, <1>9, <1>10, <1>11,
     <1>12, <1>13, <1>14, <1>15, <1>16, <1>17, <1>18, <1>19, <1>20, <1>21,
     <1>22, <1>23, <1>24 DEF Next, Begin, Continue

\* A member of r holds each version in its range, or the call in flight owes it.
LEMMA HeldStep ==
  ASSUME Serial, TypeOK, Shape, Bounded, Undisturbed, HeldInv, [Next]_vars
  PROVE  HeldInv'
<1> SUFFICES ASSUME NEW s \in Subject, NEW r \in Resource, NEW v \in Version,
                    Member(s, r)', grantrec'[<<s, r>>].epoch <= v, v <= dekver'[r],
                    <<r, v>> \notin torn'
             PROVE  <<s, r, v>> \in keywrap' \/ \E c \in Call : Owes(c, s, r, v)'
  BY DEF HeldInv, Owes
<1> DEFINE Met(c) == <<s, r, v>> \in keywrap \/ Owes(c, s, r, v)
<1> DEFINE Due(c) ==
      (/\ Member(s, r) /\ grantrec[<<s, r>>].epoch <= v
       /\ v <= dekver[r] /\ <<r, v>> \notin torn)
          => <<s, r, v>> \in keywrap \/ Owes(c, s, r, v)
<1>0. \A c \in Call : Due(c)
  BY DEF Serial, HeldInv
<1> HIDE DEF Due
<1> USE DefaultAssumption, NoOneAssumption, MaxVerAssumption DEF tables, calls, history, Version
<1>1. ASSUME NEW c \in Call, NEW t \in Subject, ImportIdentityCard(c, t)
      PROVE  Met(c)'
  BY <1>0, <1>1 DEF TypeOK, Shape, Undisturbed, Due, Owes, Member,
     ImportIdentityCard
<1>2. ASSUME NEW c \in Call, NEW t \in Subject, NEW q \in Resource,
             StartGrant(c, t, q)
      PROVE  Met(c)'
  BY <1>0, <1>2 DEF TypeOK, Shape, Undisturbed, Due, Owes, Member, Start,
     StartGrant
<1>3. ASSUME NEW c \in Call, NEW t \in Subject, NEW q \in Resource,
             StartRevoke(c, t, q)
      PROVE  Met(c)'
  BY <1>0, <1>3 DEF TypeOK, Shape, Undisturbed, Due, Owes, Member, Start,
     StartRevoke
<1>4. ASSUME NEW c \in Call, NEW t \in Subject, NEW q \in Resource,
             StartRevokeKeep(c, t, q)
      PROVE  Met(c)'
  BY <1>0, <1>4 DEF TypeOK, Shape, Undisturbed, Due, Owes, Member, Start,
     StartRevokeKeep
<1>5. ASSUME NEW c \in Call, NEW q \in Resource, StartRotateDek(c, q)
      PROVE  Met(c)'
  BY <1>0, <1>5 DEF TypeOK, Shape, Undisturbed, Due, Owes, Member, Start,
     StartRotateDek
<1>6. ASSUME NEW c \in Call, NEW q \in Resource, StartWrite(c, q) PROVE Met(c)'
  BY <1>0, <1>6 DEF TypeOK, Shape, Undisturbed, Due, Owes, Member, Start,
     StartWrite
<1>7. ASSUME NEW c \in Call, StartRotateAll(c) PROVE Met(c)'
  BY <1>0, <1>7 DEF TypeOK, Shape, Undisturbed, Due, Owes, Member, Start,
     StartRotateAll
<1>8. ASSUME NEW c \in Call, EnsureDekVer(c) PROVE Met(c)'
  BY <1>0, <1>8 DEF TypeOK, Shape, Undisturbed, Due, Owes, Member, EnsureDekVer,
     AfterEnsure, DekVerFor, Goto
<1>9. ASSUME NEW c \in Call, InitDekVer(c) PROVE Met(c)'
  <2>1. req[c].resource # r
    <3>1. Member(s, r)
      BY <1>9 DEF InitDekVer, Member
    <3>2. dekver[r] >= 1 /\ dekver[req[c].resource] = 0
      BY <1>9, <3>1 DEF Undisturbed, InitDekVer
    <3> QED
      BY <3>2
  <2> QED
    BY <1>0, <1>9, <2>1 DEF TypeOK, Due, Owes, Member, InitDekVer, PutDekver,
       Goto
<1>10. ASSUME NEW c \in Call, PutGrant(c) PROVE Met(c)'
  <2>1. ver[c] = dekver[req[c].resource] /\ req[c].subject \in Subject
    BY <1>10 DEF Undisturbed, Shape, PutGrant
  <2>2. CASE req[c].subject = s /\ req[c].resource = r
    <3>1. grantrec'[<<s, r>>].epoch = ver[c] /\ dekver' = dekver
      BY <1>10, <2>2 DEF TypeOK, PutGrant
    <3>2. ver[c] <= v /\ v <= ver[c]
      BY <2>1, <2>2, <3>1
    <3>3. ver[c] \in Int /\ v \in Int
      BY DEF TypeOK
    <3>4. v = ver[c]
      BY <3>2, <3>3
    <3> QED
      BY <1>10, <2>2, <3>4 DEF TypeOK, Owes, PutGrant, Goto
  <2>3. CASE req[c].subject # s \/ req[c].resource # r
    <3>1. grantrec'[<<s, r>>] = grantrec[<<s, r>>] /\ dekver' = dekver
      BY <1>10, <2>1, <2>3 DEF TypeOK, PutGrant
    <3> QED
      BY <1>0, <1>10, <3>1 DEF Due, Owes, Member, PutGrant
  <2> QED
    BY <2>2, <2>3
<1>11. ASSUME NEW c \in Call, PutCell(c) PROVE Met(c)'
  BY <1>0, <1>11 DEF TypeOK, Shape, Undisturbed, Due, Owes, Member, PutCell,
     Reset
<1>12. ASSUME NEW c \in Call, ReadEpoch(c) PROVE Met(c)'
  BY <1>0, <1>12 DEF TypeOK, Shape, Undisturbed, Due, Owes, Member, ReadEpoch,
     DekVerFor, Goto
<1>13. ASSUME NEW c \in Call, PutRevoke(c) PROVE Met(c)'
  <2>1. CASE req[c].op = "revoke"
    BY <1>0, <1>13, <2>1 DEF TypeOK, Due, Owes, Member, PutRevoke, Goto
  <2>2. CASE req[c].op = "revokeKeep"
    BY <1>0, <1>13, <2>2 DEF TypeOK, Shape, Due, Owes, Member, PutRevoke, Reset
  <2> QED
    BY <1>13, <2>1, <2>2 DEF PutRevoke
<1>14. ASSUME NEW c \in Call, ListResources(c) PROVE Met(c)'
  BY <1>0, <1>14 DEF TypeOK, Shape, Undisturbed, Due, Owes, Member,
     ListResources, Goto
<1>15. ASSUME NEW c \in Call, NextResource(c) PROVE Met(c)'
  BY <1>0, <1>15 DEF TypeOK, Shape, Undisturbed, Due, Owes, Member,
     NextResource, Goto
<1>16. ASSUME NEW c \in Call, ReadVer(c) PROVE Met(c)'
  BY <1>0, <1>16 DEF TypeOK, Shape, Undisturbed, Due, Owes, Member, ReadVer,
     DekVerFor, Goto
<1>17. ASSUME NEW c \in Call, PutVer(c) PROVE Met(c)'
  <2>1. ver[c] = dekver[req[c].resource] + 1
    BY <1>17 DEF Undisturbed, PutVer
  <2>2. CASE req[c].resource = r /\ v > dekver[r]
    <3>1. v = ver[c]
      <4>1. dekver[r] \in Int /\ ver[c] \in Int /\ v \in Int
        BY DEF TypeOK
      <4>2. dekver'[r] = ver[c]
        BY <1>17, <2>1, <2>2, <4>1 DEF TypeOK, PutVer, PutDekver
      <4>3. v <= ver[c]
        BY <4>2
      <4> QED
        BY <2>1, <2>2, <4>1, <4>3
    <3> QED
      BY <1>17, <2>2, <3>1 DEF TypeOK, Owes, PutVer, Goto
  <2>3. CASE req[c].resource # r \/ v <= dekver[r]
    <3>1. v <= dekver[r]
      BY <1>17, <2>3 DEF TypeOK, PutVer, PutDekver
    <3> QED
      BY <1>0, <1>17, <3>1 DEF Due, Owes, Member, PutVer
  <2> QED
    BY <2>2, <2>3 DEF TypeOK
<1>18. ASSUME NEW c \in Call, ReadMembers(c) PROVE Met(c)'
  <2>1. Member(s, r) /\ Due(c)
    BY <1>0, <1>18 DEF ReadMembers, Member
  <2>2. req[c].resource = r => s \notin Exclude(c)
    BY <1>18, <2>1 DEF Undisturbed, ReadMembers, Exclude
  <2> QED
    BY <1>18, <2>1, <2>2 DEF TypeOK, Due, Owes, ReadMembers, MembersOf, Goto
<1>19. ASSUME NEW c \in Call, NEW t \in Subject, WrapDekTo(c, t) PROVE Met(c)'
  BY <1>0, <1>19 DEF TypeOK, Shape, Undisturbed, Due, Owes, Member, WrapDekTo
<1>20. ASSUME NEW c \in Call, NEW t \in Subject, ThrowUnknown(c, t)
       PROVE  Met(c)'
  BY <1>0, <1>20 DEF TypeOK, Shape, Undisturbed, Due, Owes, Member,
     ThrowUnknown, Unfinished, Reset
<1>21. ASSUME NEW c \in Call, NextRotation(c) PROVE Met(c)'
  BY <1>0, <1>21 DEF TypeOK, Shape, Undisturbed, Due, Owes, Member,
     NextRotation, Goto
<1>22. ASSUME NEW c \in Call, Return(c) PROVE Met(c)'
  BY <1>0, <1>22 DEF TypeOK, Shape, Undisturbed, Due, Owes, Member, Return,
     Reset
<1>23. CASE Crash
  <2>1. /\ Member(s, r) /\ grantrec[<<s, r>>].epoch <= v
        /\ v <= dekver[r] /\ <<r, v>> \notin torn
    BY <1>23 DEF Crash, Member
  <2>2. \A c \in Call : ~Owes(c, s, r, v)
    <3> SUFFICES ASSUME NEW c \in Call, Owes(c, s, r, v) PROVE FALSE
      OBVIOUS
    <3>1. <<r, v>> \in Unfinished(c)
      BY DEF Owes, Unfinished
    <3> QED
      BY <1>23, <3>1 DEF Crash
  <2> QED
    BY <1>23, <2>1, <2>2 DEF HeldInv, Crash
<1>24. CASE UNCHANGED vars
  BY <1>24 DEF HeldInv, Owes, Member, vars
<1> QED
  BY <1>1, <1>2, <1>3, <1>4, <1>5, <1>6, <1>7, <1>8, <1>9, <1>10, <1>11,
     <1>12, <1>13, <1>14, <1>15, <1>16, <1>17, <1>18, <1>19, <1>20, <1>21,
     <1>22, <1>23, <1>24 DEF Next, Begin, Continue

\* Used one call at a time, the device leaves every member, whenever no call is in
\* flight, with every version issued since the grant whose distribution was not
\* cut short (rotateResource and grant, crengine.ts:234-253).
THEOREM SerialMembersHoldKeys == ASSUME Serial PROVE Spec => []MembersHoldKeys
<1>1. Init => SerialInv
  BY InitIInv DEF SerialInv, Init, Undisturbed, HeldInv, Member
<1>2. SerialInv /\ [Next]_vars => SerialInv'
  BY NextIInv, UndisturbedStep, HeldStep DEF SerialInv, IInv
<1>3. SerialInv => MembersHoldKeys
  <2> SUFFICES ASSUME SerialInv, Quiet, NEW s \in Subject, NEW r \in Resource,
                      NEW v \in grantrec[<<s, r>>].epoch..dekver[r],
                      Member(s, r), <<r, v>> \notin torn
               PROVE  <<s, r, v>> \in keywrap
    BY DEF MembersHoldKeys
  <2>1. \A c \in Call : ~Owes(c, s, r, v)
    BY DEF Quiet, Owes
  <2>2. v \in Version /\ grantrec[<<s, r>>].epoch <= v /\ v <= dekver[r]
    BY MaxVerAssumption DEF SerialInv, IInv, TypeOK, Version, GrantRow
  <2> QED
    BY <2>1, <2>2 DEF SerialInv, HeldInv
<1> QED
  BY <1>1, <1>2, <1>3, PTL DEF Spec

================================================================================
