-------------------------------- MODULE Rebuild --------------------------------
(* The consensus loop of engine/crengine.ts: members work, export what they   *)
(* wrote since their last checkpoint and send it; the coordinator merges the  *)
(* diffs, records a checkpoint and hands each member a rebuild slice; the     *)
(* member wipes its database and imports the slice.                           *)
(* "Changed since db_version n" is kept as the set of rows changed since, one *)
(* set per local watermark.  A record is one cell row; a row has a version    *)
(* and a write, and cr-sqlite (external) merges by version, then by value,    *)
(* for which the larger write stands.  Everybody here is a writer on the      *)
(* resources it reads, and nothing is rejected: Replication models that.      *)
EXTENDS Chain

CONSTANTS
    Admin, Member,  \* the coordinator's device, the others
    Record,         \* records, each under one resource
    Readable,       \* Readable[m]: records of the resources m has a grant on
    Recorder,       \* recordCheckpoint calls that may overlap
    MaxCheckpoint,  \* bound: checkpoints
    MaxWrite,       \* bound: cell writes
    MaxArchived,    \* bound: records archived
    CanEdit,        \* whether a record is written again after it was created
    CanSyncDirty    \* whether a member with work not sent adopts a checkpoint

Params ==
    /\ Admin \notin Member /\ Readable \in [Member -> SUBSET Record]
    /\ {MaxCheckpoint, MaxWrite, MaxArchived} \subseteq Nat
    /\ {CanEdit, CanSyncDirty} \subseteq BOOLEAN

VARIABLES
    db,         \* each device's main database
    stage,      \* where each member is in the round
    diff,       \* the diff each member has sent
    slice,      \* the slice made for each member
    recording,  \* what each recordCheckpoint under way has read
    made,       \* history: each write's record and the writes it overwrote
    home        \* history: the member's database when it exported its diff

vars == <<db, stage, diff, slice, recording, made, home>>

Device == {Admin} \cup Member

NoRow == [ver |-> 0, id |-> 0]
NoRows == [r \in Record |-> NoRow]

\* What a changeset can carry: cell rows, archived rows with flag = 1, and
\* checkpoint rows; seen is history, the writes merged so far.
Nothing == [row |-> NoRows, gone |-> {}, cps |-> {}, seen |-> {}]

\* A database has a watermark per checkpoint too: since[h], the rows changed
\* after the db_version that _wm has for h.
Empty == [row |-> NoRows, gone |-> {}, cps |-> {}, seen |-> {}, since |-> << >>]

Cell(r) == <<"cell", r>>
Gone(r) == <<"archived", r>>

Touched(since, items) == [h \in DOMAIN since |-> since[h] \cup items]

--------------------------------------------------------------------------------
(* The merge and the watermarks.                                              *)

Later(x, y) == x.ver > y.ver \/ (x.ver = y.ver /\ x.id > y.id)

\* Mutant: INSERT OR REPLACE, for every checkpoint there is.
WatermarkedAgain(since, cps) == [h \in {c.hash : c \in cps} |-> {}]

\* setWatermark (INSERT OR IGNORE) for each checkpoint that has no watermark.
Watermarked(since, cps) ==
    [h \in {c.hash : c \in cps} |-> IF h \in DOMAIN since THEN since[h] ELSE {}]

\* importChangeset of an accepted changeset: applied, then watermarked, here in
\* one step; in the code a local write between the two falls below the watermark,
\* as what a member has not sent does when it imports with CanSyncDirty.
Imported(d, in) ==
    LET wins == {r \in Record : Later(in.row[r], d.row[r])}
        news == {Cell(r) : r \in wins} \cup {Gone(r) : r \in in.gone \ d.gone}
        cps  == d.cps \cup in.cps
    IN  [row   |-> [r \in Record |-> IF r \in wins THEN in.row[r] ELSE d.row[r]],
         gone  |-> d.gone \cup in.gone,
         cps   |-> cps,
         seen  |-> d.seen \cup in.seen,
         since |-> Watermarked(Touched(d.since, news), cps)]

\* exportSince(h): the rows changed since; without a checkpoint, where it throws,
\* the caller sends exportChangeset(-1), which is everything.
ExportSince(d, h) ==
    IF h = Root THEN [x \in DOMAIN Nothing |-> d[x]]
    ELSE [row  |-> [r \in Record |-> IF Cell(r) \in d.since[h] THEN d.row[r] ELSE NoRow],
          gone |-> {r \in d.gone : Gone(r) \in d.since[h]},
          cps  |-> {},
          seen |-> {d.row[r].id : r \in {x \in Record : Cell(x) \in d.since[h]}}]

\* stateRoot: who holds the same cells has the same root; versions are not in it.
\* Grant rows are, but nobody's change here.
stateRoot(d) == {d.row[r].id : r \in Record} \ {0}

--------------------------------------------------------------------------------

\* One invariant for the shape of the state.
TypeOK ==
    /\ \A d \in Device :
        /\ db[d].row \in [Record -> [ver : Nat, id : 0 .. MaxWrite]]
        /\ db[d].gone \subseteq Record
        /\ DOMAIN db[d].since = {c.hash : c \in db[d].cps}
    /\ stage \in [Member -> {"working", "sent", "merged", "sliced", "wiped"}]

Init ==
    /\ db = [d \in Device |-> Empty]
    /\ stage = [m \in Member |-> "working"]
    /\ diff = [m \in Member |-> Nothing]
    /\ slice = [m \in Member |-> Nothing]
    /\ recording = [c \in Recorder |-> << >>]
    /\ made = << >>
    /\ home = [m \in Member |-> Nothing]

\* A member works until it sends its diff, then waits for its slice.
Works(d) == d = Admin \/ (d \in Member /\ stage[d] = "working")
MayWrite(d) == IF d = Admin THEN Record ELSE Readable[d]

\* writeCell: the row's version goes up by one.
Write(d, r) ==
    LET was == db[d].row[r]
        w   == Len(made) + 1
    IN
    /\ Works(d) /\ r \in MayWrite(d)
    /\ w <= MaxWrite
    /\ made' = Append(made, [rec |-> r,
           over |-> IF was = NoRow THEN {} ELSE {was.id} \cup made[was.id].over])
    /\ db' = [db EXCEPT ![d].row[r] = [ver |-> was.ver + 1, id |-> w],
                        ![d].seen = @ \cup {w},
                        ![d].since = Touched(@, {Cell(r)})]
    /\ UNCHANGED <<stage, diff, slice, recording, home>>

\* putRecord: a new record has a fresh UUID.
putRecord(d, r) == (\A w \in DOMAIN made : made[w].rec # r) /\ Write(d, r)

editRecord(d, r) == CanEdit /\ db[d].row[r] # NoRow /\ Write(d, r)

archiveRecord(d, r) ==
    /\ Works(d) /\ r \in MayWrite(d)
    /\ db[d].row[r] # NoRow /\ r \notin db[d].gone
    /\ Cardinality({r} \cup UNION {db[e].gone : e \in Device}) <= MaxArchived
    /\ db' = [db EXCEPT ![d].gone = @ \cup {r}, ![d].since = Touched(@, {Gone(r)})]
    /\ UNCHANGED <<stage, diff, slice, recording, made, home>>

\* Between the rounds a member may import the coordinator's full changeset.
\* Its checkpoints get their watermark after what the member wrote before: what
\* it has not sent by then is in no later diff.
Sync(m) ==
    /\ stage[m] = "working"
    /\ \/ CanSyncDirty
       \/ db[Admin].cps \subseteq db[m].cps
       \/ db[m].seen \subseteq db[Admin].seen /\ db[m].gone \subseteq db[Admin].gone
    /\ db' = [db EXCEPT ![m] = Imported(@, db[Admin])]
    /\ UNCHANGED <<stage, diff, slice, recording, made, home>>

--------------------------------------------------------------------------------
(* A round.                                                                   *)

\* The member exports its diff since the latest checkpoint it holds.
Export(m) ==
    /\ stage[m] = "working"
    /\ stage' = [stage EXCEPT ![m] = "sent"]
    /\ \E h \in Tips(db[m].cps) : diff' = [diff EXCEPT ![m] = ExportSince(db[m], h)]
    /\ home' = [home EXCEPT ![m] = [x \in DOMAIN Nothing |-> db[m][x]]]
    /\ UNCHANGED <<db, slice, recording, made>>

\* runConsensus: one of its importChangeset calls ...
MergeDiff(m) ==
    /\ stage[m] = "sent"
    /\ stage' = [stage EXCEPT ![m] = "merged"]
    /\ db' = [db EXCEPT ![Admin] = Imported(@, diff[m])]
    /\ diff' = [diff EXCEPT ![m] = Nothing]
    /\ UNCHANGED <<slice, recording, made, home>>

MayRecord ==
    Cardinality(db[Admin].cps) + Cardinality({c \in Recorder : recording[c] # << >>})
        < MaxCheckpoint

\* ... and then recordCheckpoint, also called by itself: the chain is read;
\* the next epoch is one more than the highest.
ReadChain(c) ==
    LET cps == db[Admin].cps
        epoch == Max({-1} \cup {x.epoch : x \in cps}) + 1
    IN
    /\ recording[c] = << >>
    /\ MayRecord
    /\ \E parent \in Tips(cps) :
        recording' = [recording EXCEPT ![c] = <<epoch, parent>>]
    /\ UNCHANGED <<db, stage, diff, slice, made, home>>

\* Mutant: the parent is read again when the checkpoint is written.
RecordCheckpointRereading(c) ==
    /\ recording[c] # << >>
    /\ \E parent \in Tips(db[Admin].cps) :
        LET hash == <<stateRoot(db[Admin]), recording[c][1], parent>>
            cps  == db[Admin].cps \cup
                     {[hash |-> hash, epoch |-> recording[c][1], parent |-> parent]}
        IN  db' = [db EXCEPT ![Admin].cps = cps, ![Admin].since = Watermarked(@, cps)]
    /\ recording' = [recording EXCEPT ![c] = << >>]
    /\ UNCHANGED <<stage, diff, slice, made, home>>

\* The state root is taken, hashed with what was read, and the checkpoint is
\* inserted; its watermark follows.  The root only names the checkpoint, so a write
\* between taking it and the insert is left out.
RecordCheckpoint(c) ==
    /\ recording[c] # << >>
    /\ LET hash == <<stateRoot(db[Admin]), recording[c][1], recording[c][2]>>
           cps  == db[Admin].cps \cup
                     {[hash |-> hash, epoch |-> recording[c][1], parent |-> recording[c][2]]}
       IN  db' = [db EXCEPT ![Admin].cps = cps, ![Admin].since = Watermarked(@, cps)]
    /\ recording' = [recording EXCEPT ![c] = << >>]
    /\ UNCHANGED <<stage, diff, slice, made, home>>

\* rebuildSliceFor: what m may read and is not archived, in a fresh database,
\* where every row has version 1; the archived table itself is left out.
rebuildSliceFor(m) ==
    /\ stage[m] = "merged"
    /\ stage' = [stage EXCEPT ![m] = "sliced"]
    /\ LET kept == {r \in Readable[m] \ db[Admin].gone : db[Admin].row[r] # NoRow}
           row == [r \in Record |-> IF r \in kept THEN [db[Admin].row[r] EXCEPT !.ver = 1]
                                    ELSE NoRow]
       IN  slice' = [slice EXCEPT ![m] =
               [Nothing EXCEPT !.row = row, !.cps = db[Admin].cps,
                               !.seen = {row[r].id : r \in kept}]]
    /\ UNCHANGED <<db, diff, recording, made, home>>

\* close(), on ":memory:" the end of the database; the member opens an empty one.
wipe(m) ==
    /\ stage[m] = "sliced"
    /\ stage' = [stage EXCEPT ![m] = "wiped"]
    /\ db' = [db EXCEPT ![m] = Empty]
    /\ UNCHANGED <<diff, slice, recording, made, home>>

\* The member imports its slice and goes on.
Rejoin(m) ==
    /\ stage[m] = "wiped"
    /\ stage' = [stage EXCEPT ![m] = "working"]
    /\ db' = [db EXCEPT ![m] = Imported(@, slice[m])]
    /\ slice' = [slice EXCEPT ![m] = Nothing]
    /\ UNCHANGED <<diff, recording, made, home>>

Next ==
    \/ \E d \in Device, r \in Record : putRecord(d, r) \/ editRecord(d, r) \/ archiveRecord(d, r)
    \/ \E m \in Member : \/ Sync(m) \/ Export(m) \/ MergeDiff(m)
                         \/ rebuildSliceFor(m) \/ wipe(m) \/ Rejoin(m)
    \/ \E c \in Recorder : ReadChain(c) \/ RecordCheckpoint(c)

Spec == Init /\ [][Next]_vars

--------------------------------------------------------------------------------

\* "Members wipe their local store and rebuild from the slice" (README.md:93):
\* what a member may read and had when it sent its diff is in the database it
\* rebuilt, or a later write of it is, unless it was archived meanwhile.
KeptThroughRebuild ==
    \A m \in Member : stage[m] = "working" =>
        \A r \in Readable[m] :
            LET had == home[m].row[r].id
                has == db[m].row[r].id
            IN  had # 0 /\ r \notin home[m].gone \cup db[Admin].gone =>
                    has # 0 /\ (has = had \/ had \in made[has].over)

\* "a parent-linked list of agreed group states" (consensus/chain.ts:6): on every
\* device the chain of a checkpoint goes back to a first one, an epoch at a time,
\* also when two recordCheckpoint calls overlapped and forked it.
ChainsComplete ==
    \A d \in Device : \A c \in db[d].cps :
        Len(chainFrom(db[d].cps, c.hash)) = c.epoch + 1

\* "the most-recent common checkpoint (merge-base) of the two chains"
\* (consensus/chain.ts:32), whichever way the chain forked: every checkpoint that
\* both chains have is on the merge base's own chain; without one it is none.
MergeBaseIsLatest ==
    \A d \in Device : \A a, b \in db[d].cps :
        ToSet(chainFrom(db[d].cps, a.hash)) \cap ToSet(chainFrom(db[d].cps, b.hash))
            \subseteq ToSet(chainFrom(db[d].cps, mergeBase(db[d].cps, a.hash, b.hash)))

\* "a coordinator merges every member's diff-since-the-last-checkpoint"
\* (README.md:89): no device shows a write that another write, which it has
\* merged too, had overwritten.  It fails once a record is edited after a
\* rebuild: see the run rebuild_undo.
NoneUndone ==
    \A d \in Device, r \in Record : \A w \in db[d].seen :
        made[w].rec = r => db[d].row[r].id \notin made[w].over

================================================================================
