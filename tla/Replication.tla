------------------------------ MODULE Replication ------------------------------
(* Replicas exchanging changesets: exportChangeset, importChangeset and       *)
(* authorizeStaging of engine/crengine.ts, between devices that create a      *)
(* database, administer writers and edit.  One resource and one cell stand    *)
(* for all of them (authorization is per row, and rows do not interact); the  *)
(* adminroot, grantrec and cell tables decide what is accepted, so they are   *)
(* the ones kept.  A file is a full changeset (exportChangeset(-1), the only  *)
(* kind the app exports): it may be lost, imported late, out of order, by     *)
(* anyone, and more than once.  importChangeset is async and reads the main   *)
(* database at two places before it applies, so a device may be in the middle *)
(* of two imports.                                                            *)
EXTENDS CrRow

CONSTANTS
    Founder,    \* devices whose user may click "Create genesis DB"
    Editor,     \* devices whose user edits the cell
    MaxGrant,   \* bound: the highest version of a grant row
    File,       \* changeset files in circulation
    CanOverlap  \* whether an import may begin while another runs on the device

ASSUME FounderAssumption == Founder \subseteq Device /\ Editor \subseteq Device
ASSUME MaxGrantAssumption == MaxGrant \in Nat /\ MaxGrant <= MaxVer
ASSUME CanOverlapAssumption == CanOverlap \in BOOLEAN

VARIABLES
    db,         \* each device's main database
    open,       \* devices that have one (state.conn is not null)
    file,       \* the changeset each file holds
    step,       \* where the import of each file stands, "held" when there is none
    at,         \* the device that imports it
    trust,      \* authorizeStaging's local "admin" in that import
    appointed   \* history: <<admin, subject>> of every writer grant ever made

imports == <<step, at, trust>>
vars    == <<db, open, file, imports, appointed>>

--------------------------------------------------------------------------------

\* "seen" is history: the cell writes merged so far.  No decision reads it.
Db == [root : Device \cup {Nobody}, grant : [Device -> Row], cell : Row,
       seen : SUBSET Write]

Empty == [root |-> Nobody, grant |-> [s \in Device |-> NoRow], cell |-> NoRow,
          seen |-> {}]

\* One invariant for the shape of databases, files and imports in flight.
TypeOK ==
    /\ db \in [Device -> Db]
    /\ open \in SUBSET Device
    /\ file \in [File -> Db]
    /\ step \in [File -> {"held", "data", "apply"}]
    /\ at \in [File -> Device \cup {Nobody}]
    /\ trust \in [File -> Device \cup {Nobody}]
    /\ appointed \in SUBSET (Device \X Device)

--------------------------------------------------------------------------------

\* writerIn: the admin, or a subject whose grant row in this database says so.
WriterIn(d, admin, author) ==
    \/ author = admin
    \/ author \in Device /\ d.grant[author].body.says = "writer"

\* authorizeStaging, step 1: one admin root, and every system row carries a
\* valid signature of that admin.
\* Mutant: no trust on first use.
AdminNoTofu(main, in) == main.root

Admin(main, in) == IF main.root # Nobody THEN main.root ELSE in.root

SystemRowsOK(main, in) ==
    /\ main.root # Nobody => in.root = main.root
    /\ \A s \in Device :
         in.grant[s].ver > 0 =>
            Verifies(in.grant[s]) /\ in.grant[s].author = Admin(main, in)

\* Mutant: only main's grants count, the changeset's own do not.
DataRowsOKMainOnly(main, in, admin) ==
    in.cell.ver > 0 => Verifies(in.cell) /\ WriterIn(main, admin, in.cell.author)

\* step 2: a cell is accepted when its signature is valid and its author is a
\* writer in the changeset's grants or in main's.
DataRowsOK(main, in, admin) ==
    in.cell.ver > 0 =>
        /\ Verifies(in.cell)
        /\ WriterIn(in, admin, in.cell.author) \/ WriterIn(main, admin, in.cell.author)

\* applyChangesetSQL into main.  adminroot is a CRR like the others, written
\* once on any device: two roots tie on version 1.
MergeRoot(local, in) ==
    IF local = Nobody THEN in
    ELSE IF in = Nobody THEN local ELSE Larger(KeyOrder, local, in)

MergeDb(main, in) ==
    [root  |-> MergeRoot(main.root, in.root),
     grant |-> [s \in Device |-> MergeRow(main.grant[s], in.grant[s])],
     cell  |-> MergeRow(main.cell, in.cell),
     seen  |-> main.seen \cup in.seen]

--------------------------------------------------------------------------------

Init ==
    /\ db = [d \in Device |-> Empty]
    /\ open = {}
    /\ file = [f \in File |-> Empty]
    /\ step = [f \in File |-> "held"]
    /\ at = [f \in File |-> Nobody]
    /\ trust = [f \in File |-> Nobody]
    /\ appointed = {}

\* genesis: the app offers it while the device has no database.
Genesis(d) ==
    /\ d \in Founder \ open
    /\ open' = open \cup {d}
    /\ db' = [db EXCEPT ![d].root = d]
    /\ UNCHANGED <<file, imports, appointed>>

\* grant(s, 'writer') and revoke(s): isAdmin, then putGrant.  ('reader' writes
\* the same row and makes no writer.)
SetGrant(d, s, says) ==
    /\ d \in open
    /\ db[d].root = d
    /\ s # d
    /\ db[d].grant[s].ver < MaxGrant
    /\ db' = [db EXCEPT ![d].grant[s] = Put(@, d, says)]
    /\ UNCHANGED <<open, file, imports>>

Grant(d, s) ==
    /\ SetGrant(d, s, "writer")
    /\ appointed' = appointed \cup {<<d, s>>}

Revoke(d, s) ==
    /\ SetGrant(d, s, "revoked")
    /\ UNCHANGED appointed

\* Mutant: writeCell without its writerOf check.
EditUngated(d) ==
    /\ d \in Editor \cap open
    /\ db[d].cell.ver < MaxVer
    /\ LET row == Put(db[d].cell, d, "text") IN
         db' = [db EXCEPT ![d].cell = row, ![d].seen = @ \cup {row.body}]
    /\ UNCHANGED <<open, file, imports, appointed>>

\* writeCell: writerOf(self), then putCell.  (A writer's DEK came with the grant.)
Edit(d) ==
    /\ d \in Editor \cap open
    /\ db[d].root # Nobody
    /\ WriterIn(db[d], db[d].root, d)
    /\ db[d].cell.ver < MaxVer
    /\ LET row == Put(db[d].cell, d, "text") IN
         db' = [db EXCEPT ![d].cell = row, ![d].seen = @ \cup {row.body}]
    /\ UNCHANGED <<open, file, imports, appointed>>

\* exportChangeset(-1), saved over an older file: that one is lost.
Export(d, f) ==
    /\ d \in open
    /\ step[f] = "held"
    /\ file' = [file EXCEPT ![f] = db[d]]
    /\ UNCHANGED <<db, open, imports, appointed>>

--------------------------------------------------------------------------------

\* A device reads a file into importChangeset.  (A blank one returns at once.)
CanImport(d, f) ==
    /\ step[f] = "held"
    /\ file[f].root # Nobody
    /\ CanOverlap \/ \A g \in File : at[g] # d

\* The import ends, in whichever way; the file is still there.
Finish(f) ==
    /\ step' = [step EXCEPT ![f] = "held"]
    /\ at' = [at EXCEPT ![f] = Nobody]
    /\ trust' = [trust EXCEPT ![f] = Nobody]

\* Mutant: a conflicting admin root goes unnoticed.
CheckSystemTrusting(d, f) ==
    /\ CanImport(d, f)
    /\ SystemRowsOK(Empty, file[f])
    /\ open' = open \cup {d}
    /\ step' = [step EXCEPT ![f] = "data"]
    /\ at' = [at EXCEPT ![f] = d]
    /\ trust' = [trust EXCEPT ![f] = file[f].root]
    /\ UNCHANGED <<db, file, appointed>>

\* importChangeset opens the main database when there is none, applies the
\* changeset to a staging connection of its own, and authorizeStaging reads
\* main's admin root and checks the system rows ...
CheckSystem(d, f) ==
    /\ CanImport(d, f)
    /\ SystemRowsOK(db[d], file[f])
    /\ open' = open \cup {d}
    /\ step' = [step EXCEPT ![f] = "data"]
    /\ at' = [at EXCEPT ![f] = d]
    /\ trust' = [trust EXCEPT ![f] = Admin(db[d], file[f])]
    /\ UNCHANGED <<db, file, appointed>>

\* ... one of them does not pass, and the changeset is rejected ...
RejectSystem(d, f) ==
    /\ CanImport(d, f)
    /\ ~SystemRowsOK(db[d], file[f])
    /\ open' = open \cup {d}
    /\ UNCHANGED <<db, file, imports, appointed>>

\* ... then it checks the data rows, against main's grants as they are by now.
CheckData(f) ==
    /\ step[f] = "data"
    /\ DataRowsOK(db[at[f]], file[f], trust[f])
    /\ step' = [step EXCEPT ![f] = "apply"]
    /\ UNCHANGED <<db, open, file, at, trust, appointed>>

RejectData(f) ==
    /\ step[f] = "data"
    /\ ~DataRowsOK(db[at[f]], file[f], trust[f])
    /\ Finish(f)
    /\ UNCHANGED <<db, open, file, appointed>>

\* Every row has passed: the changeset is merged into main.
Apply(f) ==
    /\ step[f] = "apply"
    /\ db' = [db EXCEPT ![at[f]] = MergeDb(@, file[f])]
    /\ Finish(f)
    /\ UNCHANGED <<open, file, appointed>>

--------------------------------------------------------------------------------

Use(d) ==
    \/ Genesis(d) \/ Edit(d)
    \/ \E s \in Device : Grant(d, s) \/ Revoke(d, s)
    \/ \E f \in File : Export(d, f) \/ CheckSystem(d, f) \/ RejectSystem(d, f)

Next ==
    \/ \E d \in Device : Use(d)
    \/ \E f \in File : CheckData(f) \/ RejectData(f) \/ Apply(f)

Spec == Init /\ [][Next]_vars

--------------------------------------------------------------------------------

\* "The CRDT gives commutative, associative, idempotent per-column merge"
\* (README.md:33): two replicas that have merged the same writes hold the same
\* cell, in whatever order, however often and through whomever they came.
SameWritesSameCell ==
    \A d, e \in Device : db[d].seen = db[e].seen => db[d].cell = db[e].cell

\* A stale or repeated file undoes nothing: a grant row changes only towards a
\* later version, so an old changeset never brings a revoked grant back.
GrantsOnlyMoveForward ==
    [][\A d, s \in Device :
         db'[d].grant[s] # db[d].grant[s] => db'[d].grant[s].ver > db[d].grant[s].ver]_vars

\* "adminroot: the admin's pubkey, pinned trust-on-first-use" (README.md:57).
RootPinned ==
    [][\A d \in Device : db[d].root # Nobody => db'[d].root = db[d].root]_vars

\* What a replica holds is its own group's: grants signed by its root, and a
\* cell whose every column was written by the root or by a writer it appointed.
OneGroup ==
    \A d \in Device :
        LET group == {db[d].root} \cup {s \in Device : <<db[d].root, s>> \in appointed} IN
        /\ \A s \in Device : db[d].grant[s].ver > 0 => db[d].grant[s].author = db[d].root
        /\ db[d].cell.ver > 0 =>
             {db[d].cell.author, db[d].cell.body.by, db[d].cell.sig.by} \subseteq group

--------------------------------------------------------------------------------

\* What importing e's full changeset leaves on d, with nothing else in flight.
Outcome(main, in) ==
    IF SystemRowsOK(main, in) /\ DataRowsOK(main, in, Admin(main, in))
    THEN MergeDb(main, in) ELSE main

SameTables(x, y) == x.root = y.root /\ x.grant = y.grant /\ x.cell = y.cell

\* "Any two replicas that have exchanged everyone's deltas converge to the same
\* state" (README.md:35): when no exchange between any two of the replicas would
\* change anything any more, they hold the same tables.
ExchangeConverges ==
    (\A d, e \in Device : SameTables(Outcome(db[d], db[e]), db[d]))
        => \A d, e \in Device : SameTables(db[d], db[e])

\* "an ops-only changeset fully reconstructs state on a fresh machine"
\* (README.md:66): a device with nothing accepts any replica's full changeset.
FreshMachineReconstructs ==
    \A d \in Device :
        db[d].root # Nobody => SameTables(Outcome(Empty, db[d]), db[d])

================================================================================
