------------------------------- MODULE Ceremony --------------------------------
(* consolidate of engine/crengine.ts, the fold of compartment/materialize.ts  *)
(* and lock of ceremony/index.ts, while the database is being written.        *)
(* A record may have a cell under several resources, and columns fold apart   *)
(* from each other, so a record has one column here.  A cell is encrypted     *)
(* under one version of its resource's key; the admin derives every version,  *)
(* a member has those wrapped to it.  consolidate reads the cells first, and  *)
(* after several awaits which records there are and which are archived.       *)
EXTENDS Naturals, Sequences, FiniteSets, SequencesExt

CONSTANTS
    Admin, Member,  \* who may lock
    Record,         \* records
    Resource,       \* resources: natural numbers, ordered as their names are
    MaxDekVer,      \* bound: the highest version of a key
    MaxWrite        \* bound: cell writes

\* j(dek_ver, resource) is compared as text: up to 9 that is the numbers' order.
Params ==
    /\ MaxDekVer \in 1 .. 9
    /\ Admin \notin Member /\ MaxWrite \in Nat
    /\ {"nobody", "refused"} \cap (Member \cup {Admin}) = {}
    /\ Resource \subseteq Nat /\ IsFiniteSet(Resource)

VARIABLES
    cell,       \* the cell table: version and value of <<record, resource>>
    archived,   \* records with archived.flag = 1
    dekver,     \* each resource's newest key version
    keys,       \* <<member, resource, version>>: the keywrap table
    granted,    \* <<member, resource>>: grants not revoked
    writes,     \* cell writes so far
    folded,     \* what the consolidation under way has folded, if any
    output,     \* what the last lock put in the vault and in the archive
    start       \* history: the cells and keys that consolidation found

db == <<cell, archived, dekver, keys, granted, writes>>
vars == <<db, folded, output, start>>

NoCell == [ver |-> 0, val |-> 0]
Nothing == [by |-> "nobody"]

Tagged(cells, rid) == {res \in Resource : cells[<<rid, res>>] # NoCell}

Init ==
    /\ cell = [c \in Record \X Resource |-> NoCell]
    /\ archived = {}
    /\ dekver = [res \in Resource |-> 1]
    /\ keys = {} /\ granted = {}
    /\ writes = 0
    /\ folded = Nothing /\ output = Nothing
    /\ start = [cell |-> cell, keys |-> {}]

--------------------------------------------------------------------------------
(* The database goes on changing, until a lock has answered: what happens     *)
(* after it is another day's lock.                                            *)

Rest == <<folded, output, start>>

Day == output = Nothing

writeCell(rid, res) ==
    /\ Day
    /\ writes < MaxWrite /\ writes' = writes + 1
    /\ cell' = [cell EXCEPT ![<<rid, res>>] = [ver |-> dekver[res], val |-> writes']]
    /\ UNCHANGED <<Rest, archived, dekver, keys, granted>>

archiveRecord(rid) ==
    /\ Day
    /\ Tagged(cell, rid) # {}
    /\ archived' = IF rid \in archived THEN archived \ {rid} ELSE archived \cup {rid}
    /\ UNCHANGED <<Rest, cell, dekver, keys, granted, writes>>

\* grant wraps the newest version only.
grant(m, res) ==
    /\ Day
    /\ <<m, res>> \notin granted
    /\ granted' = granted \cup {<<m, res>>}
    /\ keys' = keys \cup {<<m, res, dekver[res]>>}
    /\ UNCHANGED <<Rest, cell, archived, dekver, writes>>

\* The newest version grows by one and is wrapped to the members there are.
Rotated(res, members) ==
    /\ dekver[res] < MaxDekVer
    /\ dekver' = [dekver EXCEPT ![res] = @ + 1]
    /\ keys' = keys \cup {<<m, res, dekver'[res]>> : m \in members}

rotateDek(res) ==
    /\ Day
    /\ Rotated(res, {m \in Member : <<m, res>> \in granted})
    /\ UNCHANGED <<Rest, cell, archived, granted, writes>>

\* revoke, with or without a rotation.
revoke(m, res) ==
    /\ Day
    /\ <<m, res>> \in granted
    /\ granted' = granted \ {<<m, res>>}
    /\ \/ Rotated(res, {x \in Member : <<x, res>> \in granted'})
       \/ UNCHANGED <<dekver, keys>>
    /\ UNCHANGED <<Rest, cell, archived, writes>>

--------------------------------------------------------------------------------
(* The lock.                                                                  *)

\* getDEK, for the one who locks.
HasKey(by, res, ver, wraps) == by = Admin \/ <<by, res, ver>> \in wraps

\* hlc of a decrypted cell is j(dek_ver, resource), compared as text.
LaterHlc(a, b) == a.ver > b.ver \/ (a.ver = b.ver /\ a.res > b.res)

NoWinner == [ver |-> 0, val |-> 0, res |-> 0]

\* Mutant: the first cell met wins.
foldRecordFirst(cells) == IF cells = << >> THEN NoWinner ELSE cells[1]

\* foldRecords for one record, a cell at a time: the highest hlc wins, whatever
\* the order of the cells; val 0 when there was none.
foldRecord(cells) ==
    LET winner[n \in 0 .. Len(cells)] ==
            IF n = 0 THEN NoWinner
            ELSE IF n = 1 \/ LaterHlc(cells[n], winner[n - 1]) THEN cells[n] ELSE winner[n - 1]
    IN  winner[Len(cells)]

Decrypted(by, rid) ==
    {[ver |-> cell[<<rid, res>>].ver, val |-> cell[<<rid, res>>].val, res |-> res] :
        res \in {x \in Tagged(cell, rid) : HasKey(by, x, cell[<<rid, x>>].ver, keys)}}

\* consolidate reads and decrypts the cells, which the database lists in any
\* order, and folds them ...
ReadCells(by) ==
    /\ Day
    /\ folded = Nothing
    /\ \E rows \in [Record -> UNION {SetToSeqs(Decrypted(by, rid)) : rid \in Record}] :
        /\ \A rid \in Record : rows[rid] \in SetToSeqs(Decrypted(by, rid))
        /\ folded' = [by |-> by, val |-> [rid \in Record |-> foldRecord(rows[rid]).val]]
    /\ start' = [cell |-> cell, keys |-> keys]
    /\ UNCHANGED <<db, output>>

\* ... then lists the records that have a cell by now, their resources and flags.
Records ==
    {[rid |-> rid, val |-> folded.val[rid], resources |-> Tagged(cell, rid),
      archived |-> rid \in archived] : rid \in {x \in Record : Tagged(cell, x) # {}}}

resourcesIn(records) == UNION {r.resources : r \in records}

\* heldResources: the admin holds what there are cells or grants for, a member
\* what it is granted.
heldResources(by) ==
    IF by = Admin
    THEN {res \in Resource : \/ \E rid \in Record : cell[<<rid, res>>] # NoCell
                             \/ \E m \in Member : <<m, res>> \in granted}
    ELSE {res \in Resource : <<by, res>> \in granted}

\* lock: refused unless every resource is held; the archived records apart.
lock ==
    /\ folded # Nothing
    /\ LET records == Records IN
        output' = IF resourcesIn(records) \subseteq heldResources(folded.by)
                  THEN [by |-> folded.by,
                        active |-> {r \in records : ~r.archived},
                        archive |-> {r \in records : r.archived}]
                  ELSE [by |-> "refused"]
    /\ folded' = Nothing
    /\ UNCHANGED <<db, start>>

Next ==
    \/ \E rid \in Record, res \in Resource : writeCell(rid, res)
    \/ \E rid \in Record : archiveRecord(rid)
    \/ \E m \in Member, res \in Resource : grant(m, res) \/ revoke(m, res)
    \/ \E res \in Resource : rotateDek(res)
    \/ \E by \in Member \cup {Admin} : ReadCells(by)
    \/ lock

Spec == Init /\ [][Next]_vars

--------------------------------------------------------------------------------

\* One invariant for the shape of the state.
TypeOK ==
    /\ cell \in [Record \X Resource -> [ver : 0 .. MaxDekVer, val : 0 .. MaxWrite]]
    /\ dekver \in [Resource -> 1 .. MaxDekVer]
    /\ archived \subseteq Record
    /\ folded.by \in {"nobody"} \cup Member \cup {Admin}

Locked == output.by \in Member \cup {Admin}

\* Who locks can open every cell of the record, whatever version it is under.
OpensAll(by, rid) ==
    \A res \in Tagged(start.cell, rid) :
        HasKey(by, res, start.cell[<<rid, res>>].ver, start.keys)

\* "locker must hold ALL resource DEKs" (ceremony/index.ts:8): what such a locker
\* locks is every record there was, once, in the vault or in the archive, with
\* a value no cell of a newer key version has, whatever is written meanwhile.
LockLosesNothing ==
    Locked => \A rid \in Record :
        LET tagged == Tagged(start.cell, rid)
            out    == {r \in output.active \cup output.archive : r.rid = rid}
        IN  tagged # {} /\ OpensAll(output.by, rid) =>
                /\ Cardinality(out) = 1
                /\ \A r \in out : \E res \in tagged :
                    /\ r.val = start.cell[<<rid, res>>].val
                    /\ \A x \in tagged : start.cell[<<rid, x>>].ver <= start.cell[<<rid, res>>].ver

================================================================================
