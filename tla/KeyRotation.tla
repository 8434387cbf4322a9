------------------------------ MODULE KeyRotation ------------------------------
(* The key administration of one device: createCrDevice's grant, revoke,      *)
(* rotateDek, rotateAllDeks, importIdentityCard and the admin's own writeCell *)
(* (packages/datalayer/src/engine/crengine.ts).                               *)
(*                                                                            *)
(* Every method is async and nothing excludes two of them from running at the *)
(* same time (the buttons of packages/app/src/ui.ts call them directly), so a *)
(* call is a small program: one action per statement it sends to the Conn,    *)
(* whose queue runs one statement at a time.  Call is the set of calls that   *)
(* can be in flight together: a singleton is a device used serially.          *)
EXTENDS Integers

CONSTANTS
    Subject,    \* public keys other than the admin's
    Resource,   \* compartments
    Default,    \* the device's default resource (opts.defaultResource)
    Call,       \* calls that may be in flight at the same time
    NoOne,      \* the subject of a call that names none
    MaxVer,     \* bound: the highest DEK version a rotation may reach
    CanCrash    \* whether the tab may close while calls are in flight

ASSUME DefaultAssumption == Default \in Resource
ASSUME NoOneAssumption == NoOne \notin Subject
ASSUME MaxVerAssumption == MaxVer \in Nat /\ MaxVer >= 1
ASSUME CanCrashAssumption == CanCrash \in BOOLEAN

VARIABLES
    known,      \* subjects with an identity row
    dekver,     \* resource -> highest version in table dekver, 0 when it has no row
    grantrec,   \* <<subject, resource>> -> the grant row: its status and epoch
    keywrap,    \* table keywrap, as <<subject, resource, dek_ver>>
    cell,       \* resource -> dek_ver of its one cell row here, 0 when there is none
    pc,         \* where each call stands
    req,        \* what each call was asked to do
    ver,        \* its local v / cur / nv
    todo,       \* subjects its wrapping loop has still to serve
    queue,      \* rotateAllDeks: resources still to rotate
    \* history, read by no action
    closing,    \* <<s, r, c>>: rotating revoke c of s on r has written its row, no grant since
    locked,     \* <<s, r>>: such a revoke has returned, and no grant of s on r since
    shut,       \* <<c, s>>: s was locked on c's resource when write c began, no grant since
    torn        \* <<r, v>>: a call distributing version v of r threw or crashed

tables  == <<known, dekver, grantrec, keywrap, cell>>
calls   == <<pc, req, ver, todo, queue>>
history == <<closing, locked, shut, torn>>
vars    == <<tables, calls, history>>

--------------------------------------------------------------------------------

Version == 0..MaxVer

\* role/revoked collapse to one status: putGrant is only ever called with
\* ('reader' | 'writer', false) or ('none', true).
GrantRow == [status : {"absent", "member", "revoked"}, epoch : Version]

Op == {"none", "grant", "revoke", "revokeKeep", "rotate", "rotateAll", "write"}

Request == [op : Op, subject : Subject \cup {NoOne}, resource : Resource]

Step == {"idle", "ensure", "initVer", "putGrant", "readEpoch", "putRevoke",
         "readVer", "putVer", "members", "wrap", "listResources", "nextResource",
         "putCell"}

NoRequest == [op |-> "none", subject |-> NoOne, resource |-> Default]

\* One invariant for the shape of the tables and of the calls' locals.
TypeOK ==
    /\ known \in SUBSET Subject
    /\ dekver \in [Resource -> Version]
    /\ grantrec \in [Subject \X Resource -> GrantRow]
    /\ keywrap \in SUBSET (Subject \X Resource \X Version)
    /\ cell \in [Resource -> Version]
    /\ pc \in [Call -> Step]
    /\ req \in [Call -> Request]
    /\ ver \in [Call -> Version]
    /\ todo \in [Call -> SUBSET Subject]
    /\ queue \in [Call -> SUBSET Resource]
    /\ closing \in SUBSET (Subject \X Resource \X Call)
    /\ locked \in SUBSET (Subject \X Resource)
    /\ shut \in SUBSET (Call \X Subject)
    /\ torn \in SUBSET (Resource \X Version)

--------------------------------------------------------------------------------

\* Mutant: the select without its ORDER BY ... DESC returns the oldest row.
DekVerForOldest(r) == IF dekver[r] = 0 THEN 0 ELSE 1

\* SELECT ver ... ORDER BY ver DESC LIMIT 1, or 0
DekVerFor(r) == dekver[r]

\* putDekver inserts the row (r, v); only the highest version is ever read back.
PutDekver(r, v) ==
    dekver' = [dekver EXCEPT ![r] = IF v > @ THEN v ELSE @]

Member(s, r) == grantrec[<<s, r>>].status = "member"

\* Mutant: the select loses its "revoked=0 AND role IN ('reader','writer')".
MembersOfUnfiltered(r) == {s \in Subject : grantrec[<<s, r>>].status # "absent"}

MembersOf(r) == {s \in Subject : Member(s, r)}

\* The subject rotateResource skips: revoke passes the one it has just revoked.
Exclude(c) == IF req[c].op = "revoke" THEN {req[c].subject} ELSE {}

Goto(c, step) == pc' = [pc EXCEPT ![c] = step]

\* A call returns or throws: its locals are gone.
Reset(c) ==
    /\ pc' = [pc EXCEPT ![c] = "idle"]
    /\ req' = [req EXCEPT ![c] = NoRequest]
    /\ ver' = [ver EXCEPT ![c] = 0]
    /\ todo' = [todo EXCEPT ![c] = {}]
    /\ queue' = [queue EXCEPT ![c] = {}]

\* The version a call has announced and not yet handed to everyone.
Unfinished(c) ==
    IF pc[c] \in {"members", "wrap"} THEN {<<req[c].resource, ver[c]>>} ELSE {}

--------------------------------------------------------------------------------

\* genesis: adminroot, the admin's own card, version 1 of the default resource.
Init ==
    /\ known = {}
    /\ dekver = [r \in Resource |-> IF r = Default THEN 1 ELSE 0]
    /\ grantrec = [sr \in Subject \X Resource |-> [status |-> "absent", epoch |-> 0]]
    /\ keywrap = {}
    /\ cell = [r \in Resource |-> 0]
    /\ pc = [c \in Call |-> "idle"]
    /\ req = [c \in Call |-> NoRequest]
    /\ ver = [c \in Call |-> 0]
    /\ todo = [c \in Call |-> {}]
    /\ queue = [c \in Call |-> {}]
    /\ closing = {}
    /\ locked = {}
    /\ shut = {}
    /\ torn = {}

\* importIdentityCard: after the signature check, one INSERT OR REPLACE.
ImportIdentityCard(c, s) ==
    /\ pc[c] = "idle"
    /\ known' = known \cup {s}
    /\ UNCHANGED <<dekver, grantrec, keywrap, cell, calls, history>>

\* A method is called.  Its isAdmin() / writerOf() reads are part of this step:
\* the session is the admin and adminroot never changes.
Start(c, op, s, r, step) ==
    /\ pc[c] = "idle"
    /\ pc' = [pc EXCEPT ![c] = step]
    /\ req' = [req EXCEPT ![c] = [op |-> op, subject |-> s, resource |-> r]]
    /\ UNCHANGED <<tables, ver, todo, queue, closing, locked, torn>>

StartGrant(c, s, r) ==
    Start(c, "grant", s, r, "ensure") /\ UNCHANGED shut

StartRevoke(c, s, r) ==
    Start(c, "revoke", s, r, "readEpoch") /\ UNCHANGED shut

\* revoke(s, r, rotate = false)
StartRevokeKeep(c, s, r) ==
    Start(c, "revokeKeep", s, r, "readEpoch") /\ UNCHANGED shut

StartRotateDek(c, r) ==
    Start(c, "rotate", NoOne, r, "readVer") /\ UNCHANGED shut

StartRotateAll(c) ==
    Start(c, "rotateAll", NoOne, Default, "listResources") /\ UNCHANGED shut

StartWrite(c, r) ==
    /\ Start(c, "write", NoOne, r, "ensure")
    /\ shut' = shut \cup ({c} \X {s \in Subject : <<s, r>> \in locked})

--------------------------------------------------------------------------------

AfterEnsure(c) == IF req[c].op = "grant" THEN "putGrant" ELSE "putCell"

\* ensureDekVer reads the current version ...
EnsureDekVer(c) ==
    /\ pc[c] = "ensure"
    /\ LET v == DekVerFor(req[c].resource) IN
         /\ ver' = [ver EXCEPT ![c] = v]
         /\ Goto(c, IF v = 0 THEN "initVer" ELSE AfterEnsure(c))
    /\ UNCHANGED <<tables, req, todo, queue, history>>

\* ... and writes version 1 when the read found none.
InitDekVer(c) ==
    /\ pc[c] = "initVer"
    /\ PutDekver(req[c].resource, 1)
    /\ ver' = [ver EXCEPT ![c] = 1]
    /\ Goto(c, AfterEnsure(c))
    /\ UNCHANGED <<known, grantrec, keywrap, cell, req, todo, queue, history>>

\* grant: putGrant(s, r, role, false, cur); wrapDekTo(s, r, cur) comes next.
PutGrant(c) ==
    LET s == req[c].subject
        r == req[c].resource IN
    /\ pc[c] = "putGrant"
    /\ grantrec' = [grantrec EXCEPT ![<<s, r>>] = [status |-> "member", epoch |-> ver[c]]]
    /\ todo' = [todo EXCEPT ![c] = {s}]
    /\ Goto(c, "wrap")
    /\ closing' = {x \in closing : x[1] # s \/ x[2] # r}
    /\ locked' = locked \ {<<s, r>>}
    /\ shut' = {x \in shut : x[2] # s \/ req[x[1]].resource # r}
    /\ UNCHANGED <<known, dekver, keywrap, cell, req, ver, queue, torn>>

\* Mutant: the revocation is recorded at the version the rotation will create.
ReadEpochNext(c) ==
    /\ pc[c] = "readEpoch"
    /\ ver' = [ver EXCEPT ![c] = DekVerFor(req[c].resource) + 1]
    /\ Goto(c, "putRevoke")
    /\ UNCHANGED <<tables, req, todo, queue, history>>

\* revoke reads the version it records as the row's epoch ...
ReadEpoch(c) ==
    /\ pc[c] = "readEpoch"
    /\ ver' = [ver EXCEPT ![c] = DekVerFor(req[c].resource)]
    /\ Goto(c, "putRevoke")
    /\ UNCHANGED <<tables, req, todo, queue, history>>

\* ... writes the revocation, and rotates or returns.
PutRevoke(c) ==
    LET s == req[c].subject
        r == req[c].resource IN
    /\ pc[c] = "putRevoke"
    /\ grantrec' = [grantrec EXCEPT ![<<s, r>>] = [status |-> "revoked", epoch |-> ver[c]]]
    /\ \/ /\ req[c].op = "revoke"
          /\ Goto(c, "readVer")
          /\ closing' = closing \cup {<<s, r, c>>}
          /\ UNCHANGED <<req, ver, todo, queue>>
       \/ /\ req[c].op = "revokeKeep"
          /\ Reset(c)
          /\ UNCHANGED closing
    /\ UNCHANGED <<known, dekver, keywrap, cell, locked, shut, torn>>

--------------------------------------------------------------------------------

\* rotateAllDeks: SELECT DISTINCT resource FROM dekver
ListResources(c) ==
    /\ pc[c] = "listResources"
    /\ queue' = [queue EXCEPT ![c] = {r \in Resource : dekver[r] > 0}]
    /\ Goto(c, "nextResource")
    /\ UNCHANGED <<tables, req, ver, todo, history>>

NextResource(c) ==
    /\ pc[c] = "nextResource"
    /\ \E r \in queue[c] :
         /\ queue' = [queue EXCEPT ![c] = @ \ {r}]
         /\ req' = [req EXCEPT ![c] = [@ EXCEPT !.resource = r]]
    /\ Goto(c, "readVer")
    /\ UNCHANGED <<tables, ver, todo, history>>

\* rotateResource: nv = dekVerFor(r) + 1 (bounded by MaxVer) ...
ReadVer(c) ==
    /\ pc[c] = "readVer"
    /\ DekVerFor(req[c].resource) < MaxVer
    /\ ver' = [ver EXCEPT ![c] = DekVerFor(req[c].resource) + 1]
    /\ Goto(c, "putVer")
    /\ UNCHANGED <<tables, req, todo, queue, history>>

\* ... putDekver(r, nv) ...
PutVer(c) ==
    /\ pc[c] = "putVer"
    /\ PutDekver(req[c].resource, ver[c])
    /\ Goto(c, "members")
    /\ UNCHANGED <<known, grantrec, keywrap, cell, req, ver, todo, queue, history>>

\* Mutant: rotateResource excludes the wrong way round.
ReadMembersExcluded(c) ==
    /\ pc[c] = "members"
    /\ todo' = [todo EXCEPT ![c] = MembersOf(req[c].resource) \cap Exclude(c)]
    /\ Goto(c, "wrap")
    /\ UNCHANGED <<tables, req, ver, queue, history>>

\* ... membersOf(r), less the excluded subject ...
ReadMembers(c) ==
    /\ pc[c] = "members"
    /\ todo' = [todo EXCEPT ![c] = MembersOf(req[c].resource) \ Exclude(c)]
    /\ Goto(c, "wrap")
    /\ UNCHANGED <<tables, req, ver, queue, history>>

\* ... and wrapDekTo for each of them, in the order the rows came back.  The
\* read of the identity row and the putKeywrap are one step: no other statement
\* touches that keywrap row, and identity rows are never deleted.
WrapDekTo(c, s) ==
    /\ pc[c] = "wrap"
    /\ s \in todo[c]
    /\ s \in known
    /\ keywrap' = keywrap \cup {<<s, req[c].resource, ver[c]>>}
    /\ todo' = [todo EXCEPT ![c] = @ \ {s}]
    /\ UNCHANGED <<known, dekver, grantrec, cell, pc, req, ver, queue, history>>

\* wrapDekTo throws 'unknown identity' and the whole call with it: what it has
\* written stays.
ThrowUnknown(c, s) ==
    /\ pc[c] = "wrap"
    /\ s \in todo[c]
    /\ s \notin known
    /\ Reset(c)
    /\ torn' = torn \cup Unfinished(c)
    /\ closing' = {x \in closing : x[3] # c}
    /\ UNCHANGED <<tables, locked, shut>>

\* The loop is over: rotateAllDeks goes on, the other calls return.
NextRotation(c) ==
    /\ pc[c] = "wrap"
    /\ todo[c] = {}
    /\ queue[c] # {}
    /\ Goto(c, "nextResource")
    /\ UNCHANGED <<tables, req, ver, todo, queue, history>>

Return(c) ==
    LET s == req[c].subject
        r == req[c].resource IN
    /\ pc[c] = "wrap"
    /\ todo[c] = {}
    /\ queue[c] = {}
    /\ Reset(c)
    /\ locked' = locked \cup {x \in {<<s, r>>} : <<s, r, c>> \in closing}
    /\ closing' = closing \ {<<s, r, c>>}
    /\ UNCHANGED <<tables, shut, torn>>

\* writeCell: getDEK derives the key of the version read, putCell stores it.
PutCell(c) ==
    /\ pc[c] = "putCell"
    /\ cell' = [cell EXCEPT ![req[c].resource] = ver[c]]
    /\ Reset(c)
    /\ shut' = {x \in shut : x[1] # c}
    /\ UNCHANGED <<known, dekver, grantrec, keywrap, closing, locked, torn>>

\* The tab closes or the machine stops: every call in flight is gone, the tables
\* stay.
Crash ==
    /\ CanCrash
    /\ \E c \in Call : pc[c] # "idle"
    /\ pc' = [c \in Call |-> "idle"]
    /\ req' = [c \in Call |-> NoRequest]
    /\ ver' = [c \in Call |-> 0]
    /\ todo' = [c \in Call |-> {}]
    /\ queue' = [c \in Call |-> {}]
    /\ torn' = torn \cup UNION {Unfinished(c) : c \in Call}
    /\ closing' = {}
    /\ shut' = {}
    /\ UNCHANGED <<tables, locked>>

--------------------------------------------------------------------------------

Begin(c) ==
    \/ \E s \in Subject : ImportIdentityCard(c, s)
    \/ \E s \in Subject, r \in Resource :
         StartGrant(c, s, r) \/ StartRevoke(c, s, r) \/ StartRevokeKeep(c, s, r)
    \/ \E r \in Resource : StartRotateDek(c, r) \/ StartWrite(c, r)
    \/ StartRotateAll(c)

Continue(c) ==
    \/ EnsureDekVer(c) \/ InitDekVer(c) \/ PutGrant(c) \/ PutCell(c)
    \/ ReadEpoch(c) \/ PutRevoke(c)
    \/ ListResources(c) \/ NextResource(c)
    \/ ReadVer(c) \/ PutVer(c) \/ ReadMembers(c)
    \/ \E s \in Subject : WrapDekTo(c, s) \/ ThrowUnknown(c, s)
    \/ NextRotation(c) \/ Return(c)

Next ==
    \/ \E c \in Call : Begin(c) \/ Continue(c)
    \/ Crash

Spec == Init /\ [][Next]_vars

--------------------------------------------------------------------------------

\* "With rotate=true ... the revoked user is locked out of FUTURE writes
\* immediately" (crengine.ts:255-257): once a rotating revoke has returned, the
\* revoked subject holds no wrap of the resource's current key, however the
\* call was interleaved with grants, rotations and writes, until a new grant.
LockedOut ==
    \A s \in Subject, r \in Resource :
        <<s, r>> \in locked => <<s, r, dekver[r]>> \notin keywrap

\* And what is written afterwards is unreadable to them: a write begun after the
\* revoke returned never encrypts under a version the subject holds.
LaterWritesLocked ==
    \A c \in Call, s \in Subject :
        (<<c, s>> \in shut /\ pc[c] = "putCell")
            => <<s, req[c].resource, ver[c]>> \notin keywrap

Quiet == \A c \in Call : pc[c] = "idle"

\* "Bump a resource's DEK version and re-seal the new key to its current
\* members" (crengine.ts:234): when no call is in flight, a member holds every
\* version issued since the grant, save those whose distribution was cut short.
\* It holds on a device used serially; see KeyRotation's runs for two calls.
MembersHoldKeys ==
    Quiet =>
        \A s \in Subject, r \in Resource :
            \A v \in grantrec[<<s, r>>].epoch..dekver[r] :
                (Member(s, r) /\ <<r, v>> \notin torn) => <<s, r, v>> \in keywrap

\* The same promise for the current key alone, where no call has ever thrown or
\* crashed.  Two overlapping calls break it: see the run key_lost.
MembersHoldCurrentKey ==
    (Quiet /\ torn = {}) =>
        \A s \in Subject, r \in Resource :
            Member(s, r) => <<s, r, dekver[r]>> \in keywrap

\* "re-seal the new key to the remaining members" (README.md:80): a member whose
\* grant went through keeps up with every later rotation.  A grant to a subject
\* without an identity row breaks it, one call at a time: see the run key_wedge.
ProvisionedMembersKeepUp ==
    Quiet =>
        \A s \in Subject, r \in Resource :
            (Member(s, r) /\ <<s, r, grantrec[<<s, r>>].epoch>> \in keywrap)
                => <<s, r, dekver[r]>> \in keywrap

================================================================================
