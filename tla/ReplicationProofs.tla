--------------------------- MODULE ReplicationProofs ---------------------------
(* What holds of Replication for any devices, files, bounds and orders.       *)
EXTENDS Replication, TLAPS

USE NobodyAssumption, MaxVerAssumption

--------------------------------------------------------------------------------
(* A cell row is the join of the writes seen: the last version, and of the    *)
(* writes that gave it that version the largest value in each column.         *)

IsJoin(S, row) ==
    /\ S = {} => row = NoRow
    /\ S # {} =>
         /\ \A x \in S : x.ver <= row.ver
         /\ row.body \in S /\ row.body.ver = row.ver
         /\ row.sig \in S /\ row.sig.ver = row.ver
         /\ \E x \in S : x.ver = row.ver /\ x.by = row.author
         /\ \A x \in S : x.ver = row.ver =>
              /\ TextOrder[x] <= TextOrder[row.body]
              /\ SigOrder[x] <= SigOrder[row.sig]
              /\ KeyOrder[x.by] <= KeyOrder[row.author]

\* What a write is made of, and that its columns have ranks.
LEMMA WriteFields ==
    ASSUME NEW x \in Write
    PROVE  /\ x.ver \in Nat /\ x.ver > 0 /\ x.by \in Device
           /\ TextOrder[x] \in Nat /\ SigOrder[x] \in Nat /\ KeyOrder[x.by] \in Nat
  <1>1. x.ver \in Nat /\ x.ver > 0 /\ x.by \in Device
    BY DEF Write
  <1> QED
    BY <1>1, OrderAssumption

\* Merging gives a row of the table.
LEMMA MergeRowType ==
    ASSUME NEW r1 \in Row, NEW r2 \in Row
    PROVE  MergeRow(r1, r2) \in Row
  BY DEF MergeRow, Row, Larger

\* So does writing, below the bound.
LEMMA PutType ==
    ASSUME NEW r \in Row, r.ver < MaxVer, NEW d \in Device,
           NEW says \in {"text", "writer", "revoked"}
    PROVE  /\ Put(r, d, says) \in Row
           /\ Put(r, d, says).body \in Write
  BY DEF Put, Row, Write

\* The version a write gives a row is at least one.
LEMMA JoinVersion ==
    ASSUME NEW S \in SUBSET Write, NEW r \in Row, IsJoin(S, r), S # {}
    PROVE  /\ r.ver > 0
           /\ r.body \in Write /\ r.sig \in Write /\ r.author \in Device
  BY DEF IsJoin, Write, Row

\* A set of writes has one join, because no two writes compare equal.
LEMMA JoinUnique ==
    ASSUME NEW S \in SUBSET Write, NEW r1 \in Row, NEW r2 \in Row,
           IsJoin(S, r1), IsJoin(S, r2)
    PROVE  r1 = r2
  <1>1. CASE S = {}
    BY <1>1 DEF IsJoin
  <1>2. CASE S # {}
    <2>1. r1.ver = r2.ver
      BY <1>2 DEF IsJoin, Row, Write
    <2>2. r1.body = r2.body
      <3>1. r1.body \in S /\ r2.body \in S /\ r1.body.ver = r1.ver /\ r2.body.ver = r2.ver
        BY <1>2 DEF IsJoin
      <3>2. TextOrder[r1.body] <= TextOrder[r2.body] /\ TextOrder[r2.body] <= TextOrder[r1.body]
        BY <1>2, <2>1, <3>1 DEF IsJoin
      <3> QED
        BY <3>1, <3>2, OrderAssumption
    <2>3. r1.sig = r2.sig
      <3>1. r1.sig \in S /\ r2.sig \in S /\ r1.sig.ver = r1.ver /\ r2.sig.ver = r2.ver
        BY <1>2 DEF IsJoin
      <3>2. SigOrder[r1.sig] <= SigOrder[r2.sig] /\ SigOrder[r2.sig] <= SigOrder[r1.sig]
        BY <1>2, <2>1, <3>1 DEF IsJoin
      <3> QED
        BY <3>1, <3>2, OrderAssumption
    <2>4. r1.author = r2.author
      <3>1. PICK x \in S : x.ver = r1.ver /\ x.by = r1.author
        BY <1>2 DEF IsJoin
      <3>2. PICK y \in S : y.ver = r2.ver /\ y.by = r2.author
        BY <1>2 DEF IsJoin
      <3>3. KeyOrder[x.by] <= KeyOrder[y.by] /\ KeyOrder[y.by] <= KeyOrder[x.by]
        BY <1>2, <2>1, <3>1, <3>2 DEF IsJoin
      <3>4. x.by \in Device /\ y.by \in Device
        BY DEF Write
      <3> QED
        BY <3>1, <3>2, <3>3, <3>4, OrderAssumption
    <2> QED
      BY <2>1, <2>2, <2>3, <2>4 DEF Row
  <1> QED
    BY <1>1, <1>2

\* A local edit is the join of what was seen and itself.
LEMMA JoinPut ==
    ASSUME NEW S \in SUBSET Write, NEW r \in Row, IsJoin(S, r), r.ver < MaxVer,
           NEW d \in Device
    PROVE  IsJoin(S \cup {Put(r, d, "text").body}, Put(r, d, "text"))
  <1> DEFINE p == Put(r, d, "text")
  <1>1. /\ p.body = [by |-> d, ver |-> r.ver + 1, says |-> "text"]
        /\ p.ver = r.ver + 1 /\ p.author = d /\ p.sig = p.body
    BY DEF Put
  <1>2. p.body \in Write /\ p.body.ver = p.ver /\ p.body.by = p.author
    BY <1>1 DEF Write, Row
  <1>3. \A x \in S : x.ver < p.ver
    BY <1>1 DEF IsJoin, Row, Write
  <1>4. KeyOrder[d] \in Nat /\ TextOrder[p.body] \in Nat /\ SigOrder[p.body] \in Nat
    BY <1>2, OrderAssumption
  <1>5. \A x \in S \cup {p.body} : x.ver <= p.ver
    BY <1>2, <1>3 DEF Write, Row
  <1>6. \A x \in S \cup {p.body} : x.ver = p.ver => x = p.body
    BY <1>2, <1>3 DEF Write, Row
  <1>7. p.sig = p.body /\ p.sig \in S \cup {p.body} /\ p.author = d /\ p.body.by = d
    BY <1>1, <1>2
  <1> HIDE DEF p
  <1>8. \A x \in S \cup {p.body} : x.ver = p.ver =>
          /\ TextOrder[x] <= TextOrder[p.body]
          /\ SigOrder[x] <= SigOrder[p.sig]
          /\ KeyOrder[x.by] <= KeyOrder[p.author]
    <2> SUFFICES ASSUME NEW x \in S \cup {p.body}, x.ver = p.ver
                 PROVE  /\ TextOrder[x] <= TextOrder[p.body]
                        /\ SigOrder[x] <= SigOrder[p.sig]
                        /\ KeyOrder[x.by] <= KeyOrder[p.author]
      OBVIOUS
    <2>1. x = p.body
      BY <1>6
    <2> QED
      BY <2>1, <1>4, <1>7
  <1>9. S \cup {p.body} # {} /\ \E x \in S \cup {p.body} : x.ver = p.ver /\ x.by = p.author
    BY <1>2
  <1> DEFINE T == S \cup {p.body}
  <1>10. p.body \in T /\ p.body.ver = p.ver /\ p.sig \in T /\ p.sig.ver = p.ver
    BY <1>2, <1>7
  <1>11. /\ T # {} /\ \A x \in T : x.ver <= p.ver
         /\ \E x \in T : x.ver = p.ver /\ x.by = p.author
         /\ \A x \in T : x.ver = p.ver =>
              /\ TextOrder[x] <= TextOrder[p.body]
              /\ SigOrder[x] <= SigOrder[p.sig]
              /\ KeyOrder[x.by] <= KeyOrder[p.author]
    BY <1>5, <1>8, <1>9
  <1> HIDE DEF T
  <1>12. IsJoin(T, p)
    BY <1>10, <1>11 DEF IsJoin
  <1> QED
    BY <1>12 DEF T, p

\* The merge of two joins is the join of what both have seen.
LEMMA JoinMerge ==
    ASSUME NEW S \in SUBSET Write, NEW T \in SUBSET Write,
           NEW r \in Row, NEW q \in Row, IsJoin(S, r), IsJoin(T, q)
    PROVE  IsJoin(S \cup T, MergeRow(r, q))
  <1>1. CASE S = {}
    <2>1. r.ver = 0 /\ S \cup T = T
      BY <1>1 DEF IsJoin, NoRow
    <2>2. CASE T = {}
      BY <1>1, <2>1, <2>2 DEF IsJoin, NoRow, MergeRow
    <2>3. CASE T # {}
      <3>1. q.ver > 0 /\ q.ver \in Nat
        BY <2>3, JoinVersion DEF Row
      <3>2. MergeRow(r, q) = q
        BY <2>1, <3>1 DEF MergeRow
      <3> QED
        BY <2>1, <3>2
    <2> QED
      BY <2>2, <2>3
  <1>2. CASE S # {} /\ T = {}
    <2>1. q.ver = 0 /\ S \cup T = S
      BY <1>2 DEF IsJoin, NoRow
    <2>2. r.ver > 0 /\ r.ver \in Nat
      BY <1>2, JoinVersion DEF Row
    <2>3. MergeRow(r, q) = r
      BY <2>1, <2>2 DEF MergeRow
    <2> QED
      BY <2>1, <2>3
  <1>3. CASE S # {} /\ T # {}
    <2>1. /\ r.ver > 0 /\ r.ver \in Nat /\ r.body \in Write /\ r.sig \in Write
          /\ r.author \in Device
          /\ q.ver > 0 /\ q.ver \in Nat /\ q.body \in Write /\ q.sig \in Write
          /\ q.author \in Device
      BY <1>3, JoinVersion DEF Row
    <2>2. \A x \in S \cup T : x.ver \in Nat /\ x.by \in Device /\ TextOrder[x] \in Nat
                             /\ SigOrder[x] \in Nat /\ KeyOrder[x.by] \in Nat
      BY WriteFields
    <2>3. CASE r.ver > q.ver
      <3>1. MergeRow(r, q) = r
        BY <2>1, <2>3 DEF MergeRow
      <3>2. \A x \in T : x.ver < r.ver
        BY <1>3, <2>1, <2>2, <2>3 DEF IsJoin
      <3> QED
        BY <1>3, <2>1, <2>2, <3>1, <3>2 DEF IsJoin
    <2>4. CASE q.ver > r.ver
      <3>1. MergeRow(r, q) = q
        BY <2>1, <2>4 DEF MergeRow
      <3>2. \A x \in S : x.ver < q.ver
        BY <1>3, <2>1, <2>2, <2>4 DEF IsJoin
      <3> QED
        BY <1>3, <2>1, <2>2, <3>1, <3>2 DEF IsJoin
    <2>5. CASE r.ver = q.ver
      <3> DEFINE m == MergeRow(r, q)
      <3>1. /\ m.ver = r.ver /\ m.ver = q.ver
            /\ m.body = Larger(TextOrder, r.body, q.body)
            /\ m.author = Larger(KeyOrder, r.author, q.author)
            /\ m.sig = Larger(SigOrder, r.sig, q.sig)
        BY <2>1, <2>5 DEF MergeRow
      <3> HIDE DEF m
      <3>2. /\ r.body \in S /\ r.body.ver = r.ver /\ r.sig \in S /\ r.sig.ver = r.ver
            /\ q.body \in T /\ q.body.ver = q.ver /\ q.sig \in T /\ q.sig.ver = q.ver
        BY <1>3 DEF IsJoin
      <3>3. \A x \in S \cup T : x.ver <= m.ver
        BY <1>3, <3>1 DEF IsJoin
      <3>4. m.body \in S \cup T /\ m.body.ver = m.ver
        BY <3>1, <3>2 DEF Larger
      <3>5. m.sig \in S \cup T /\ m.sig.ver = m.ver
        BY <3>1, <3>2 DEF Larger
      <3>6. \E x \in S \cup T : x.ver = m.ver /\ x.by = m.author
        <4>1. PICK x \in S : x.ver = r.ver /\ x.by = r.author
          BY <1>3 DEF IsJoin
        <4>2. PICK y \in T : y.ver = q.ver /\ y.by = q.author
          BY <1>3 DEF IsJoin
        <4> QED
          BY <3>1, <4>1, <4>2 DEF Larger
      <3>7. \A x \in S \cup T : x.ver = m.ver =>
              /\ TextOrder[x] <= TextOrder[m.body]
              /\ SigOrder[x] <= SigOrder[m.sig]
              /\ KeyOrder[x.by] <= KeyOrder[m.author]
        <4> SUFFICES ASSUME NEW x \in S \cup T, x.ver = m.ver
                     PROVE  /\ TextOrder[x] <= TextOrder[m.body]
                            /\ SigOrder[x] <= SigOrder[m.sig]
                            /\ KeyOrder[x.by] <= KeyOrder[m.author]
          OBVIOUS
        <4>1. /\ TextOrder[r.body] \in Nat /\ TextOrder[q.body] \in Nat
              /\ SigOrder[r.sig] \in Nat /\ SigOrder[q.sig] \in Nat
              /\ KeyOrder[r.author] \in Nat /\ KeyOrder[q.author] \in Nat
          BY <2>1, OrderAssumption
        <4>2. CASE x \in S
          <5>1. /\ TextOrder[x] <= TextOrder[r.body]
                /\ SigOrder[x] <= SigOrder[r.sig]
                /\ KeyOrder[x.by] <= KeyOrder[r.author]
            BY <1>3, <3>1, <4>2 DEF IsJoin
          <5> QED
            BY <2>2, <3>1, <4>1, <5>1 DEF Larger
        <4>3. CASE x \in T
          <5>1. /\ TextOrder[x] <= TextOrder[q.body]
                /\ SigOrder[x] <= SigOrder[q.sig]
                /\ KeyOrder[x.by] <= KeyOrder[q.author]
            BY <1>3, <3>1, <4>3 DEF IsJoin
          <5> QED
            BY <2>2, <3>1, <4>1, <5>1 DEF Larger
        <4> QED
          BY <4>2, <4>3
      <3> QED
        BY <1>3, <3>3, <3>4, <3>5, <3>6, <3>7 DEF IsJoin, m
    <2> QED
      BY <2>1, <2>3, <2>4, <2>5
  <1> QED
    BY <1>1, <1>2, <1>3

--------------------------------------------------------------------------------
(* Type correctness, for overlapping imports too. *)

\* The blank database is one.
LEMMA EmptyType == Empty \in Db
  BY DEF Empty, Db, NoRow, Row

\* Merging two databases gives a database.
LEMMA MergeDbType ==
    ASSUME NEW x \in Db, NEW y \in Db
    PROVE  /\ MergeDb(x, y) \in Db
           /\ MergeDb(x, y).cell = MergeRow(x.cell, y.cell)
           /\ MergeDb(x, y).seen = x.seen \cup y.seen
           /\ MergeDb(x, y).root = MergeRoot(x.root, y.root)
           /\ \A s \in Device : MergeDb(x, y).grant[s] = MergeRow(x.grant[s], y.grant[s])
  <1>1. MergeRoot(x.root, y.root) \in Device \cup {Nobody}
    BY DEF MergeRoot, Larger, Db
  <1>2. \A s \in Device : MergeRow(x.grant[s], y.grant[s]) \in Row
    BY MergeRowType DEF Db
  <1>3. MergeRow(x.cell, y.cell) \in Row
    BY MergeRowType DEF Db
  <1>4. x.seen \cup y.seen \in SUBSET Write
    BY DEF Db
  <1> QED
    BY <1>1, <1>2, <1>3, <1>4 DEF MergeDb, Db

\* What the three local operations do to the databases: genesis.
LEMMA GenesisStep ==
    ASSUME TypeOK, NEW d \in Device, Genesis(d)
    PROVE  /\ db' \in [Device -> Db]
           /\ db'[d].root = d /\ db'[d].grant = db[d].grant
           /\ db'[d].cell = db[d].cell /\ db'[d].seen = db[d].seen
           /\ \A e \in Device : e # d => db'[e] = db[e]
  <1> DEFINE y == [db[d] EXCEPT !.root = d]
  <1>1. db[d] \in Db /\ db \in [Device -> Db]
    BY DEF TypeOK
  <1>2. y \in Db /\ y.root = d /\ y.grant = db[d].grant /\ y.cell = db[d].cell
        /\ y.seen = db[d].seen
    BY <1>1 DEF Db
  <1>3. db' = [db EXCEPT ![d] = y]
    BY DEF Genesis
  <1> HIDE DEF y
  <1> QED
    BY <1>1, <1>2, <1>3

\* putGrant.
LEMMA SetGrantStep ==
    ASSUME TypeOK, NEW d \in Device, NEW s \in Device,
           NEW says \in {"writer", "revoked"}, SetGrant(d, s, says)
    PROVE  /\ db' \in [Device -> Db]
           /\ db'[d].root = db[d].root
           /\ db'[d].cell = db[d].cell /\ db'[d].seen = db[d].seen
           /\ db'[d].grant[s] = Put(db[d].grant[s], d, says)
           /\ \A e \in Device : e # s => db'[d].grant[e] = db[d].grant[e]
           /\ \A e \in Device : e # d => db'[e] = db[e]
  <1> DEFINE r == Put(db[d].grant[s], d, says)
             y == [db[d] EXCEPT !.grant[s] = r]
  <1>1. db[d] \in Db /\ db \in [Device -> Db]
    BY DEF TypeOK
  <1>2. db[d].grant[s] \in Row /\ db[d].grant[s].ver < MaxVer
    <2>1. db[d].grant[s] \in Row /\ db[d].grant[s].ver < MaxGrant
      BY <1>1 DEF SetGrant, Db
    <2> QED
      BY <2>1, MaxGrantAssumption DEF Row
  <1>3. r \in Row
    BY <1>2, PutType
  <1>4. db' = [db EXCEPT ![d] = y]
    BY DEF SetGrant
  <1>5. r = Put(db[d].grant[s], d, says)
    OBVIOUS
  <1> HIDE DEF r
  <1>6. /\ y \in Db /\ y.root = db[d].root /\ y.cell = db[d].cell /\ y.seen = db[d].seen
        /\ y.grant[s] = r /\ \A e \in Device : e # s => y.grant[e] = db[d].grant[e]
    BY <1>1, <1>3 DEF Db
  <1> HIDE DEF y
  <1> QED
    BY <1>1, <1>4, <1>5, <1>6

\* putCell.
LEMMA EditStep ==
    ASSUME TypeOK, NEW d \in Device, Edit(d)
    PROVE  /\ db' \in [Device -> Db]
           /\ db'[d].root = db[d].root /\ db'[d].grant = db[d].grant
           /\ db'[d].cell = Put(db[d].cell, d, "text")
           /\ db'[d].seen = db[d].seen \cup {Put(db[d].cell, d, "text").body}
           /\ \A e \in Device : e # d => db'[e] = db[e]
  <1> DEFINE r == Put(db[d].cell, d, "text")
             y == [db[d] EXCEPT !.cell = r, !.seen = @ \cup {r.body}]
  <1>1. db[d] \in Db /\ db \in [Device -> Db]
    BY DEF TypeOK
  <1>2. db[d].cell \in Row /\ db[d].cell.ver < MaxVer
    BY <1>1 DEF Edit, Db
  <1>3. r \in Row /\ r.body \in Write
    BY <1>2, PutType
  <1>4. db' = [db EXCEPT ![d] = y]
    BY DEF Edit
  <1>5. r = Put(db[d].cell, d, "text")
    OBVIOUS
  <1> HIDE DEF r
  <1>6. /\ y \in Db /\ y.root = db[d].root /\ y.grant = db[d].grant
        /\ y.cell = r /\ y.seen = db[d].seen \cup {r.body}
    BY <1>1, <1>3 DEF Db
  <1> HIDE DEF y
  <1> QED
    BY <1>1, <1>4, <1>5, <1>6

\* The initial state has the types.
LEMMA TypeInit == Init => TypeOK
  BY EmptyType DEF Init, TypeOK

\* Every step keeps them.
LEMMA TypeStep == TypeOK /\ [Next]_vars => TypeOK'
  <1> SUFFICES ASSUME TypeOK, [Next]_vars PROVE TypeOK'
    OBVIOUS
  <1>1. ASSUME NEW d \in Device, Genesis(d) PROVE TypeOK'
    <2>1. db' \in [Device -> Db]
      BY <1>1, GenesisStep
    <2>2. open' = open \cup {d} /\ UNCHANGED <<file, step, at, trust, appointed>>
      BY <1>1 DEF Genesis, imports
    <2> QED
      BY <2>1, <2>2 DEF TypeOK
  <1>2. ASSUME NEW d \in Device, NEW s \in Device, Grant(d, s) PROVE TypeOK'
    <2>1. SetGrant(d, s, "writer")
      BY <1>2 DEF Grant
    <2>2. db' \in [Device -> Db]
      BY <2>1, SetGrantStep
    <2> QED
      BY <1>2, <2>1, <2>2 DEF Grant, SetGrant, TypeOK, imports
  <1>3. ASSUME NEW d \in Device, NEW s \in Device, Revoke(d, s) PROVE TypeOK'
    <2>1. SetGrant(d, s, "revoked")
      BY <1>3 DEF Revoke
    <2>2. db' \in [Device -> Db]
      BY <2>1, SetGrantStep
    <2> QED
      BY <1>3, <2>1, <2>2 DEF Revoke, SetGrant, TypeOK, imports
  <1>4. ASSUME NEW d \in Device, Edit(d) PROVE TypeOK'
    BY <1>4, EditStep DEF Edit, TypeOK, imports
  <1>5. ASSUME NEW d \in Device, NEW f \in File, Export(d, f) PROVE TypeOK'
    BY <1>5 DEF Export, TypeOK, imports
  <1>6. ASSUME NEW d \in Device, NEW f \in File, CheckSystem(d, f) PROVE TypeOK'
    <2>1. Admin(db[d], file[f]) \in Device \cup {Nobody}
      BY DEF Admin, TypeOK, Db
    <2> QED
      BY <1>6, <2>1 DEF CheckSystem, TypeOK
  <1>7. ASSUME NEW d \in Device, NEW f \in File, RejectSystem(d, f) PROVE TypeOK'
    BY <1>7 DEF RejectSystem, TypeOK, imports
  <1>8. ASSUME NEW f \in File, CheckData(f) PROVE TypeOK'
    BY <1>8 DEF CheckData, TypeOK
  <1>9. ASSUME NEW f \in File, RejectData(f) PROVE TypeOK'
    BY <1>9 DEF RejectData, Finish, TypeOK
  <1>10. ASSUME NEW f \in File, Apply(f) PROVE TypeOK'
    <2>1. \A d \in Device : MergeDb(db[d], file[f]) \in Db
      BY MergeDbType DEF TypeOK
    <2> QED
      BY <1>10, <2>1 DEF Apply, Finish, TypeOK
  <1>11. ASSUME UNCHANGED vars PROVE TypeOK'
    BY <1>11 DEF TypeOK, vars, imports
  <1> QED
    BY <1>1, <1>2, <1>3, <1>4, <1>5, <1>6, <1>7, <1>8, <1>9, <1>10, <1>11 DEF Next, Use

\* Databases, files and imports in flight keep their shape, whatever the devices
\* do and however their imports overlap.
THEOREM TypeCorrect == Spec => []TypeOK
  BY TypeInit, TypeStep, PTL DEF Spec

--------------------------------------------------------------------------------
(* The merge promise of README.md:33, for overlapping imports too: every      *)
(* database and every file holds the join of the writes it has seen.          *)

Joined ==
    /\ \A d \in Device : IsJoin(db[d].seen, db[d].cell)
    /\ \A f \in File : IsJoin(file[f].seen, file[f].cell)

\* Cells and histories change by Edit and Apply only, and files are copies.
LEMMA JoinedStep == TypeOK /\ Joined /\ [Next]_vars => Joined'
  <1> SUFFICES ASSUME TypeOK, Joined, [Next]_vars PROVE Joined'
    OBVIOUS
  <1>1. ASSUME NEW d \in Device, Genesis(d) PROVE Joined'
    <2>1. \A e \in Device : db'[e].cell = db[e].cell /\ db'[e].seen = db[e].seen
      BY <1>1, GenesisStep
    <2> QED
      BY <1>1, <2>1 DEF Genesis, Joined
  <1>2. ASSUME NEW d \in Device, NEW s \in Device, Grant(d, s) \/ Revoke(d, s) PROVE Joined'
    <2>1. PICK says \in {"writer", "revoked"} : SetGrant(d, s, says)
      BY <1>2 DEF Grant, Revoke
    <2>2. \A e \in Device : db'[e].cell = db[e].cell /\ db'[e].seen = db[e].seen
      BY <2>1, SetGrantStep
    <2> QED
      BY <2>1, <2>2 DEF SetGrant, Joined
  <1>3. ASSUME NEW d \in Device, Edit(d) PROVE Joined'
    <2>1. db[d].cell \in Row /\ db[d].seen \in SUBSET Write /\ db[d].cell.ver < MaxVer
      BY <1>3 DEF Edit, TypeOK, Db
    <2>2. IsJoin(db'[d].seen, db'[d].cell)
      <3>1. IsJoin(db[d].seen \cup {Put(db[d].cell, d, "text").body}, Put(db[d].cell, d, "text"))
        BY <2>1, JoinPut DEF Joined
      <3> QED
        BY <1>3, <3>1, EditStep
    <2>3. \A e \in Device : e # d => IsJoin(db'[e].seen, db'[e].cell)
      BY <1>3, EditStep DEF Joined
    <2> QED
      BY <1>3, <2>2, <2>3 DEF Edit, Joined
  <1>4. ASSUME NEW d \in Device, NEW f \in File, Export(d, f) PROVE Joined'
    BY <1>4 DEF Export, Joined, TypeOK
  <1>5. ASSUME NEW f \in File, Apply(f) PROVE Joined'
    <2>1. \A d \in Device : IsJoin(MergeDb(db[d], file[f]).seen, MergeDb(db[d], file[f]).cell)
      <3> SUFFICES ASSUME NEW d \in Device
                   PROVE  IsJoin(MergeDb(db[d], file[f]).seen, MergeDb(db[d], file[f]).cell)
        OBVIOUS
      <3>1. /\ db[d].cell \in Row /\ db[d].seen \in SUBSET Write /\ db[d] \in Db
            /\ file[f].cell \in Row /\ file[f].seen \in SUBSET Write /\ file[f] \in Db
        BY DEF TypeOK, Db
      <3>2. IsJoin(db[d].seen \cup file[f].seen, MergeRow(db[d].cell, file[f].cell))
        BY <3>1, JoinMerge DEF Joined
      <3>3. /\ MergeDb(db[d], file[f]).cell = MergeRow(db[d].cell, file[f].cell)
            /\ MergeDb(db[d], file[f]).seen = db[d].seen \cup file[f].seen
        BY <3>1, MergeDbType
      <3> QED
        BY <3>2, <3>3
    <2>2. \A d \in Device : db'[d] = db[d] \/ db'[d] = MergeDb(db[d], file[f])
      BY <1>5 DEF Apply, TypeOK
    <2> QED
      BY <1>5, <2>1, <2>2 DEF Apply, Joined
  <1>6. ASSUME UNCHANGED <<db, file>> PROVE Joined'
    BY <1>6 DEF Joined
  <1> QED
    BY <1>1, <1>2, <1>3, <1>4, <1>5, <1>6
       DEF Next, Use, CheckSystem, RejectSystem, CheckData, RejectData, vars

\* "The CRDT gives commutative, associative, idempotent per-column merge": two
\* replicas that have merged the same writes hold the same cell.
THEOREM MergeConverges == Spec => []SameWritesSameCell
  <1>1. Init => Joined
    BY DEF Init, Joined, IsJoin, Empty
  <1>2. TypeOK /\ Joined => SameWritesSameCell
    <2> SUFFICES ASSUME TypeOK, Joined, NEW d \in Device, NEW e \in Device,
                        db[d].seen = db[e].seen
                 PROVE  db[d].cell = db[e].cell
      BY DEF SameWritesSameCell
    <2>1. /\ db[d].seen \in SUBSET Write
          /\ db[d].cell \in Row /\ db[e].cell \in Row
      BY DEF TypeOK, Db
    <2> QED
      BY <2>1, JoinUnique DEF Joined
  <1> QED
    BY <1>1, <1>2, JoinedStep, TypeCorrect, PTL DEF Spec

--------------------------------------------------------------------------------
(* Trust on first use: between the check of the admin root and the merge      *)
(* nothing else gives the device another root.  Either of two things sees to  *)
(* it: a device runs its imports one at a time, or there is one founder.      *)

Serial     == CanOverlap = FALSE
OneFounder == \A d, e \in Founder : d = e
OneTrust   == Serial \/ OneFounder

Trusted ==
    /\ \A f \in File : at[f] = Nobody <=> step[f] = "held"
    /\ \A f \in File : at[f] # Nobody => at[f] \in open
    /\ \A d \in Device : db[d].root # Nobody => d \in open
    /\ \A f \in File : at[f] # Nobody =>
         /\ file[f].root # Nobody
         /\ db[at[f]].root \in {Nobody, file[f].root}

\* With imports one at a time, a device has at most one.
Alone ==
    /\ Trusted
    /\ \A f, g \in File : at[f] # Nobody /\ at[f] = at[g] => f = g

\* Merging two roots that agree keeps what was pinned.
LEMMA MergeRootKeeps ==
    ASSUME NEW r, NEW q, r \in {Nobody, q}
    PROVE  MergeRoot(r, q) = q /\ (r # Nobody => MergeRoot(r, q) = r)
  BY DEF MergeRoot, Larger

\* What an Apply does to the roots.
LEMMA ApplyStep ==
    ASSUME TypeOK, Trusted, NEW f \in File, Apply(f)
    PROVE  /\ at[f] \in Device /\ at[f] \in open
           /\ file[f].root # Nobody /\ db[at[f]].root \in {Nobody, file[f].root}
           /\ db'[at[f]] = MergeDb(db[at[f]], file[f])
           /\ db'[at[f]].root = file[f].root
           /\ \A e \in Device : e # at[f] => db'[e] = db[e]
  <1>1. at[f] # Nobody /\ at[f] \in Device
    BY DEF Apply, Trusted, TypeOK
  <1>2. file[f].root # Nobody /\ db[at[f]].root \in {Nobody, file[f].root} /\ at[f] \in open
    BY <1>1 DEF Trusted
  <1>3. /\ db'[at[f]] = MergeDb(db[at[f]], file[f])
        /\ \A e \in Device : e # at[f] => db'[e] = db[e]
    BY <1>1 DEF Apply, TypeOK
  <1>4. MergeDb(db[at[f]], file[f]).root = MergeRoot(db[at[f]].root, file[f].root)
    BY <1>1, MergeDbType DEF TypeOK
  <1> QED
    BY <1>1, <1>2, <1>3, <1>4, MergeRootKeeps

\* Steps that change no root, no import and no file being imported.
LEMMA AloneSame ==
    ASSUME TypeOK, Alone, UNCHANGED imports, open \subseteq open',
           \A d \in Device : db'[d].root = db[d].root,
           \A f \in File : at[f] # Nobody => file'[f] = file[f]
    PROVE  Alone'
  <1>1. \A f \in File : at[f] # Nobody => at[f] \in Device
    BY DEF TypeOK
  <1> QED
    BY <1>1 DEF Alone, Trusted, imports

\* One import at a time keeps Alone, whatever the devices do meanwhile.
LEMMA AloneStep == Serial /\ TypeOK /\ Alone /\ [Next]_vars => Alone'
  <1> SUFFICES ASSUME Serial, TypeOK, Alone, [Next]_vars PROVE Alone'
    OBVIOUS
  <1>0. \A f \in File : at[f] # Nobody => at[f] \in Device
    BY DEF TypeOK
  <1>1. ASSUME NEW d \in Device, Genesis(d) PROVE Alone'
    <2>1. \A f \in File : at[f] # Nobody => at[f] # d
      BY <1>1 DEF Genesis, Alone, Trusted
    <2>2. /\ \A e \in Device : e # d => db'[e].root = db[e].root
          /\ open' = open \cup {d} /\ UNCHANGED <<file, at, step>>
      BY <1>1, GenesisStep DEF Genesis, imports
    <2> QED
      BY <1>0, <2>1, <2>2 DEF Alone, Trusted
  <1>2. ASSUME NEW d \in Device, NEW s \in Device, Grant(d, s) \/ Revoke(d, s) PROVE Alone'
    <2>1. PICK says \in {"writer", "revoked"} : SetGrant(d, s, says)
      BY <1>2 DEF Grant, Revoke
    <2>2. \A e \in Device : db'[e].root = db[e].root
      BY <2>1, SetGrantStep
    <2> QED
      BY <2>1, <2>2, AloneSame DEF SetGrant
  <1>3. ASSUME NEW d \in Device, Edit(d) PROVE Alone'
    <2>1. \A e \in Device : db'[e].root = db[e].root
      BY <1>3, EditStep
    <2> QED
      BY <1>3, <2>1, AloneSame DEF Edit
  <1>4. ASSUME NEW d \in Device, NEW f \in File, Export(d, f) PROVE Alone'
    <2>1. \A g \in File : at[g] # Nobody => file'[g] = file[g]
      BY <1>4 DEF Export, Alone, Trusted, TypeOK
    <2> QED
      BY <1>4, <2>1, AloneSame DEF Export
  <1>5. ASSUME NEW d \in Device, NEW f \in File, CheckSystem(d, f) PROVE Alone'
    <2>1. file[f].root # Nobody /\ db[d].root \in {Nobody, file[f].root}
      BY <1>5 DEF CheckSystem, CanImport, SystemRowsOK
    <2>2. \A g \in File : at[g] # d
      BY <1>5 DEF CheckSystem, CanImport, Serial
    <2>3. /\ at'[f] = d /\ step'[f] = "data" /\ open' = open \cup {d} /\ UNCHANGED <<db, file>>
          /\ \A g \in File : g # f => at'[g] = at[g] /\ step'[g] = step[g]
      BY <1>5 DEF CheckSystem, TypeOK
    <2> QED
      BY <2>1, <2>2, <2>3, d # Nobody DEF Alone, Trusted
  <1>6. ASSUME NEW d \in Device, NEW f \in File, RejectSystem(d, f) PROVE Alone'
    BY <1>6, AloneSame DEF RejectSystem
  <1>7. ASSUME NEW f \in File, CheckData(f) PROVE Alone'
    <2>1. /\ step[f] = "data" /\ step'[f] = "apply"
          /\ \A g \in File : g # f => step'[g] = step[g]
          /\ UNCHANGED <<db, open, file, at>>
      BY <1>7 DEF CheckData, TypeOK
    <2> QED
      BY <2>1 DEF Alone, Trusted
  <1>8. ASSUME NEW f \in File, Finish(f), UNCHANGED <<db, open, file>> PROVE Alone'
    <2>1. /\ at'[f] = Nobody /\ step'[f] = "held"
          /\ \A g \in File : g # f => at'[g] = at[g] /\ step'[g] = step[g]
      BY <1>8 DEF Finish, TypeOK
    <2> QED
      BY <1>8, <2>1 DEF Alone, Trusted
  <1>9. ASSUME NEW f \in File, Apply(f) PROVE Alone'
    <2>1. /\ at'[f] = Nobody /\ step'[f] = "held" /\ UNCHANGED <<open, file>>
          /\ \A g \in File : g # f => at'[g] = at[g] /\ step'[g] = step[g]
      BY <1>9 DEF Apply, Finish, TypeOK
    <2>2. at[f] # Nobody /\ \A g \in File : g # f => at[g] # at[f]
      BY <1>9 DEF Apply, Alone, Trusted
    <2>3. \A g \in File : at'[g] # Nobody => db'[at'[g]] = db[at[g]] /\ at'[g] = at[g]
      BY <1>0, <1>9, <2>1, <2>2, ApplyStep DEF Alone
    <2>4. \A d \in Device : db'[d].root # Nobody => d \in open
      BY <1>9, ApplyStep DEF Alone, Trusted
    <2> QED
      BY <2>1, <2>3, <2>4 DEF Alone, Trusted
  <1>10. ASSUME UNCHANGED vars PROVE Alone'
    BY <1>10 DEF Alone, Trusted, vars, imports
  <1> QED
    BY <1>1, <1>2, <1>3, <1>4, <1>5, <1>6, <1>7, <1>8, <1>9, <1>10
       DEF Next, Use, RejectData

\* With one founder every root is that founder, so no two roots disagree.
Rooted ==
    /\ Trusted
    /\ \A d \in Device : db[d].root \in Founder \cup {Nobody}
    /\ \A f \in File : file[f].root \in Founder \cup {Nobody}

\* One founder keeps Rooted, however imports overlap.
LEMMA RootedStep == OneFounder /\ TypeOK /\ Rooted /\ [Next]_vars => Rooted'
  <1> SUFFICES ASSUME OneFounder, TypeOK, Rooted, [Next]_vars PROVE Rooted'
    OBVIOUS
  <1>0. /\ \A f \in File : at[f] # Nobody => at[f] \in Device
        /\ \A r, q \in Founder \cup {Nobody} : q # Nobody => r \in {Nobody, q}
    BY DEF TypeOK, OneFounder
  <1>1. ASSUME NEW d \in Device, Genesis(d) PROVE Rooted'
    <2>1. /\ d \in Founder /\ db'[d].root = d /\ open' = open \cup {d}
          /\ \A e \in Device : e # d => db'[e].root = db[e].root
          /\ UNCHANGED <<file, at, step>>
      BY <1>1, GenesisStep DEF Genesis, imports
    <2>2. \A e \in Device : db'[e].root \in Founder \cup {Nobody}
      BY <2>1 DEF Rooted
    <2> QED
      BY <1>0, <2>1, <2>2 DEF Rooted, Trusted
  <1>2. ASSUME UNCHANGED <<imports, file>>, open \subseteq open',
               \A d \in Device : db'[d].root = db[d].root
        PROVE  Rooted'
    BY <1>0, <1>2 DEF Rooted, Trusted, imports
  <1>3. ASSUME NEW d \in Device, NEW f \in File, Export(d, f) PROVE Rooted'
    <2>1. \A g \in File : at[g] # Nobody => file'[g] = file[g]
      BY <1>3 DEF Export, Rooted, Trusted, TypeOK
    <2>2. \A g \in File : file'[g].root \in Founder \cup {Nobody}
      BY <1>3 DEF Export, Rooted, TypeOK
    <2> QED
      BY <1>3, <2>1, <2>2 DEF Export, Rooted, Trusted, imports
  <1>4. ASSUME NEW d \in Device, NEW f \in File, CheckSystem(d, f) PROVE Rooted'
    <2>1. file[f].root # Nobody /\ db[d].root \in {Nobody, file[f].root}
      BY <1>4 DEF CheckSystem, CanImport, SystemRowsOK
    <2>2. /\ at'[f] = d /\ step'[f] = "data" /\ open' = open \cup {d} /\ UNCHANGED <<db, file>>
          /\ \A g \in File : g # f => at'[g] = at[g] /\ step'[g] = step[g]
      BY <1>4 DEF CheckSystem, TypeOK
    <2> QED
      BY <2>1, <2>2, d # Nobody DEF Rooted, Trusted
  <1>5. ASSUME NEW f \in File, CheckData(f) PROVE Rooted'
    <2>1. /\ step[f] = "data" /\ step'[f] = "apply"
          /\ \A g \in File : g # f => step'[g] = step[g]
          /\ UNCHANGED <<db, open, file, at>>
      BY <1>5 DEF CheckData, TypeOK
    <2> QED
      BY <2>1 DEF Rooted, Trusted
  <1>6. ASSUME NEW f \in File, Finish(f), UNCHANGED <<open, file>>,
               \A d \in Device : db'[d].root \in Founder \cup {Nobody},
               \A d \in Device : db'[d].root # Nobody => d \in open
        PROVE  Rooted'
    <2>1. /\ at'[f] = Nobody /\ step'[f] = "held"
          /\ \A g \in File : g # f => at'[g] = at[g] /\ step'[g] = step[g]
      BY <1>6 DEF Finish, TypeOK
    <2>2. \A g \in File : at'[g] # Nobody =>
            /\ at'[g] = at[g] /\ at[g] \in Device /\ at[g] \in open
            /\ file'[g].root # Nobody /\ file'[g].root \in Founder \cup {Nobody}
      BY <1>0, <1>6, <2>1 DEF Rooted, Trusted
    <2>3. \A g \in File : at'[g] # Nobody => db'[at'[g]].root \in {Nobody, file'[g].root}
      BY <1>0, <1>6, <2>2
    <2>4. \A g \in File : at'[g] = Nobody <=> step'[g] = "held"
      BY <2>1 DEF Rooted, Trusted
    <2>5. Trusted'
      BY <1>6, <2>2, <2>3, <2>4 DEF Trusted
    <2> QED
      BY <1>6, <2>5 DEF Rooted
  <1>7. ASSUME NEW f \in File, Apply(f) PROVE Rooted'
    <2>1. Trusted
      BY DEF Rooted
    <2>2. /\ at[f] \in open /\ db'[at[f]].root = file[f].root
          /\ \A e \in Device : e # at[f] => db'[e] = db[e]
      BY <1>7, <2>1, ApplyStep
    <2> QED
      BY <1>6, <1>7, <2>2 DEF Apply, Rooted, Trusted
  <1>8. ASSUME NEW f \in File, RejectData(f) PROVE Rooted'
    BY <1>6, <1>8 DEF RejectData, Rooted, Trusted
  <1>9. ASSUME NEW d \in Device, NEW s \in Device, Grant(d, s) \/ Revoke(d, s) PROVE Rooted'
    <2>1. PICK says \in {"writer", "revoked"} : SetGrant(d, s, says)
      BY <1>9 DEF Grant, Revoke
    <2>2. \A e \in Device : db'[e].root = db[e].root
      BY <2>1, SetGrantStep
    <2> QED
      BY <1>2, <2>1, <2>2 DEF SetGrant
  <1>10. ASSUME NEW d \in Device, Edit(d) PROVE Rooted'
    <2>1. \A e \in Device : db'[e].root = db[e].root
      BY <1>10, EditStep
    <2> QED
      BY <1>2, <1>10, <2>1 DEF Edit
  <1>11. ASSUME NEW d \in Device, NEW f \in File, RejectSystem(d, f) PROVE Rooted'
    BY <1>2, <1>11 DEF RejectSystem
  <1>12. ASSUME UNCHANGED vars PROVE Rooted'
    BY <1>2, <1>12 DEF vars, imports
  <1> QED
    BY <1>1, <1>3, <1>4, <1>5, <1>7, <1>8, <1>9, <1>10, <1>11, <1>12 DEF Next, Use

TrustInv == TypeOK /\ Trusted

\* Either way, when a changeset is merged its root is the device's, or its first.
LEMMA TrustAlways == ASSUME OneTrust PROVE Spec => []TrustInv
  <1>1. Init => Alone /\ Rooted
    BY DEF Init, Alone, Rooted, Trusted, Empty
  <1>2. TypeOK /\ Alone => TrustInv
    BY DEF TrustInv, Alone
  <1>3. TypeOK /\ Rooted => TrustInv
    BY DEF TrustInv, Rooted
  <1>4. CASE Serial
    <2>1. TypeOK /\ Alone /\ [Next]_vars => Alone'
      BY <1>4, AloneStep
    <2> QED
      BY <1>1, <1>2, <2>1, TypeCorrect, PTL DEF Spec
  <1>5. CASE OneFounder
    <2>1. TypeOK /\ Rooted /\ [Next]_vars => Rooted'
      BY <1>5, RootedStep
    <2> QED
      BY <1>1, <1>3, <2>1, TypeCorrect, PTL DEF Spec
  <1> QED
    BY <1>4, <1>5 DEF OneTrust

\* "adminroot: the admin's pubkey, pinned trust-on-first-use": a root that a
\* device holds never changes, if its imports do not overlap or all devices
\* have the same founder.
THEOREM RootStaysPinned == ASSUME OneTrust PROVE Spec => RootPinned
  <1>1. TrustInv /\ [Next]_vars =>
          [\A d \in Device : db[d].root # Nobody => db'[d].root = db[d].root]_vars
    <2> SUFFICES ASSUME TypeOK, Trusted, Next, NEW d \in Device, db[d].root # Nobody
                 PROVE  db'[d].root = db[d].root
      BY DEF TrustInv
    <2>1. CASE \E e \in Device : Genesis(e)
      BY <2>1, GenesisStep DEF Genesis, Trusted
    <2>2. CASE \E e, s \in Device : Grant(e, s) \/ Revoke(e, s)
      <3>1. PICK e \in Device, s \in Device, says \in {"writer", "revoked"} : SetGrant(e, s, says)
        BY <2>2 DEF Grant, Revoke
      <3> QED
        BY <3>1, SetGrantStep
    <2>3. CASE \E e \in Device : Edit(e)
      BY <2>3, EditStep
    <2>4. CASE \E f \in File : Apply(f)
      BY <2>4, ApplyStep
    <2>5. CASE UNCHANGED db
      BY <2>5
    <2> QED
      BY <2>1, <2>2, <2>3, <2>4, <2>5
         DEF Next, Use, Export, CheckSystem, RejectSystem, CheckData, RejectData
  <1> QED
    BY <1>1, TrustAlways, PTL DEF Spec, RootPinned

--------------------------------------------------------------------------------
(* One group: what a database or a file holds was signed by its root or by    *)
(* writers its root appointed.                                                *)

Group(root, made) == {root} \cup {s \in Device : <<root, s>> \in made}

\* Every column of the row was written by a member of the root's group.
InGroup(row, root, made) ==
    /\ row.author \in Group(root, made)
    /\ row.body.by \in Group(root, made)
    /\ row.sig.by \in Group(root, made)

Own(x, made) ==
    /\ x.root = Nobody => x.cell.ver = 0 /\ \A s \in Device : x.grant[s].ver = 0
    /\ \A s \in Device :
         /\ x.grant[s].ver > 0 => x.grant[s].author = x.root
         /\ x.grant[s].body.says = "writer" => <<x.root, s>> \in made
    /\ x.cell.ver > 0 => InGroup(x.cell, x.root, made)

Grouped ==
    /\ \A d \in Device : Own(db[d], appointed)
    /\ \A f \in File : Own(file[f], appointed)

\* Appointments are never forgotten.
LEMMA OwnGrows ==
    ASSUME NEW x, NEW made, NEW more, made \subseteq more, Own(x, made)
    PROVE  Own(x, more)
  BY DEF Own, InGroup, Group

\* The columns of a merged row come from the two rows.
LEMMA MergeRowColumns ==
    ASSUME NEW r \in Row, NEW q \in Row
    PROVE  LET m == MergeRow(r, q) IN
           /\ m.ver > 0 <=> r.ver > 0 \/ q.ver > 0
           /\ m.body \in {r.body, q.body}
           /\ m.ver > 0 =>
                /\ (r.ver > 0 /\ m.body = r.body) \/ (q.ver > 0 /\ m.body = q.body)
                /\ (r.ver > 0 /\ m.author = r.author) \/ (q.ver > 0 /\ m.author = q.author)
                /\ (r.ver > 0 /\ m.sig = r.sig) \/ (q.ver > 0 /\ m.sig = q.sig)
  <1>0. r.ver \in Nat /\ q.ver \in Nat
    BY DEF Row
  <1> DEFINE m == MergeRow(r, q)
  <1>1. CASE q.ver = r.ver /\ q.ver > 0
    <2>1. /\ m.ver = r.ver
          /\ m.body = Larger(TextOrder, r.body, q.body)
          /\ m.author = Larger(KeyOrder, r.author, q.author)
          /\ m.sig = Larger(SigOrder, r.sig, q.sig)
      BY <1>0, <1>1 DEF MergeRow
    <2> HIDE DEF m
    <2>2. m.ver > 0 /\ r.ver > 0 /\ q.ver > 0
      BY <1>1, <2>1
    <2> QED
      BY <2>1, <2>2 DEF Larger, m
  <1>2. CASE q.ver > r.ver
    <2>1. m = q /\ q.ver > 0
      BY <1>0, <1>2 DEF MergeRow
    <2> QED
      BY <2>1
  <1>3. CASE q.ver < r.ver \/ (q.ver = r.ver /\ q.ver = 0)
    <2>1. m = r /\ (q.ver > 0 => r.ver > 0)
      BY <1>0, <1>3 DEF MergeRow
    <2> QED
      BY <2>1
  <1> QED
    BY <1>0, <1>1, <1>2, <1>3

\* Merging a database into one with the same root, or with none, mixes no groups.
LEMMA OwnMerge ==
    ASSUME NEW made \in SUBSET (Device \X Device), NEW x \in Db, NEW y \in Db,
           Own(x, made), Own(y, made), y.root # Nobody, x.root \in {Nobody, y.root}
    PROVE  Own(MergeDb(x, y), made)
  <1> DEFINE m == MergeDb(x, y)
  <1>1. /\ m.root = y.root /\ m.cell = MergeRow(x.cell, y.cell)
        /\ \A s \in Device : m.grant[s] = MergeRow(x.grant[s], y.grant[s])
    BY MergeDbType, MergeRootKeeps
  <1>2. /\ x.cell \in Row /\ y.cell \in Row
        /\ \A s \in Device : x.grant[s] \in Row /\ y.grant[s] \in Row
    BY DEF Db
  <1> HIDE DEF m
  <1>3. ASSUME NEW s \in Device
        PROVE  /\ m.grant[s].ver > 0 => m.grant[s].author = m.root
               /\ m.grant[s].body.says = "writer" => <<m.root, s>> \in made
    <2>1. /\ x.grant[s].ver > 0 => x.grant[s].author = m.root
          /\ y.grant[s].ver > 0 => y.grant[s].author = m.root
      <3>1. x.root = Nobody => ~(x.grant[s].ver > 0)
        BY DEF Own
      <3> QED
        BY <1>1, <3>1 DEF Own
    <2>2. /\ x.grant[s].body.says = "writer" => <<m.root, s>> \in made
          /\ y.grant[s].body.says = "writer" => <<m.root, s>> \in made
      <3>1. <<Nobody, s>> \notin made
        OBVIOUS
      <3> QED
        BY <1>1, <3>1 DEF Own
    <2> QED
      BY <1>1, <1>2, <2>1, <2>2, MergeRowColumns
  <1>4. m.cell.ver > 0 => InGroup(m.cell, m.root, made)
    <2>1. /\ x.cell.ver > 0 => InGroup(x.cell, m.root, made)
          /\ y.cell.ver > 0 => InGroup(y.cell, m.root, made)
      <3>1. x.root = Nobody => ~(x.cell.ver > 0)
        BY DEF Own
      <3> QED
        BY <1>1, <3>1 DEF Own
    <2> QED
      BY <1>1, <1>2, <2>1, MergeRowColumns DEF InGroup
  <1>5. m.root # Nobody
    BY <1>1
  <1> QED
    BY <1>3, <1>4, <1>5 DEF Own, m

\* No step mixes two groups.
LEMMA GroupedStep == TypeOK /\ Trusted /\ Grouped /\ [Next]_vars => Grouped'
  <1> SUFFICES ASSUME TypeOK, Trusted, Grouped, [Next]_vars PROVE Grouped'
    OBVIOUS
  <1>1. ASSUME NEW d \in Device, Genesis(d) PROVE Grouped'
    <2>1. db[d].root = Nobody /\ UNCHANGED <<file, appointed>>
      BY <1>1 DEF Genesis, Trusted
    <2>2. /\ ~(db[d].cell.ver > 0)
          /\ \A s \in Device : ~(db[d].grant[s].ver > 0) /\ <<Nobody, s>> \notin appointed
      BY <2>1 DEF Grouped, Own, TypeOK
    <2>3. \A s \in Device : db[d].grant[s].body.says # "writer"
      BY <2>1, <2>2 DEF Grouped, Own
    <2>4. /\ db'[d].root = d /\ db'[d].grant = db[d].grant /\ db'[d].cell = db[d].cell
          /\ \A e \in Device : e # d => db'[e] = db[e]
      BY <1>1, GenesisStep
    <2>5. Own(db'[d], appointed)
      <3>1. /\ db'[d].root # Nobody /\ ~(db'[d].cell.ver > 0)
            /\ \A s \in Device : ~(db'[d].grant[s].ver > 0) /\ db'[d].grant[s].body.says # "writer"
        BY <2>2, <2>3, <2>4
      <3> QED
        BY <3>1 DEF Own
    <2>6. \A e \in Device : Own(db'[e], appointed)
      BY <2>4, <2>5 DEF Grouped
    <2> QED
      BY <2>1, <2>6 DEF Grouped
  <1>2. ASSUME NEW d \in Device, NEW s \in Device, Grant(d, s) \/ Revoke(d, s) PROVE Grouped'
    <2>1. PICK says \in {"writer", "revoked"} :
            SetGrant(d, s, says) /\ (says = "writer" => <<d, s>> \in appointed')
      BY <1>2 DEF Grant, Revoke
    <2>2. appointed \subseteq appointed'
      BY <1>2 DEF Grant, Revoke
    <2>3. db[d].root = d /\ UNCHANGED file
      BY <2>1 DEF SetGrant
    <2>4. Own(db[d], appointed')
      BY <2>2, OwnGrows DEF Grouped
    <2>5. /\ db'[d].root = d /\ db'[d].cell = db[d].cell
          /\ db'[d].grant[s].author = d /\ db'[d].grant[s].body.says = says
          /\ \A e \in Device : e # s => db'[d].grant[e] = db[d].grant[e]
      <3>1. /\ db'[d].root = d /\ db'[d].cell = db[d].cell
            /\ db'[d].grant[s] = Put(db[d].grant[s], d, says)
            /\ \A e \in Device : e # s => db'[d].grant[e] = db[d].grant[e]
        BY <2>1, <2>3, SetGrantStep
      <3> QED
        BY <3>1 DEF Put
    <2>6. Own(db'[d], appointed')
      <3>1. Own(db[d], appointed') /\ db'[d].root = db[d].root
        BY <2>3, <2>4, <2>5
      <3>2. db'[d].root # Nobody
        BY <2>5
      <3>3. ASSUME NEW e \in Device
            PROVE  /\ db'[d].grant[e].ver > 0 => db'[d].grant[e].author = db'[d].root
                   /\ db'[d].grant[e].body.says = "writer" => <<db'[d].root, e>> \in appointed'
        BY <2>1, <2>5, <3>1 DEF Own
      <3> QED
        BY <2>5, <3>1, <3>2, <3>3 DEF Own
    <2>7. \A e \in Device : e # d => db'[e] = db[e]
      BY <2>1, SetGrantStep
    <2> QED
      BY <2>2, <2>3, <2>6, <2>7, OwnGrows DEF Grouped
  <1>3. ASSUME NEW d \in Device, Edit(d) PROVE Grouped'
    <2>1. Own(db[d], appointed) /\ UNCHANGED <<file, appointed>>
      BY <1>3 DEF Edit, Grouped
    <2>2. db[d].root # Nobody /\ d \in Group(db[d].root, appointed)
      BY <1>3, <2>1 DEF Edit, WriterIn, Own, Group
    <2>3. /\ db'[d].root = db[d].root /\ db'[d].grant = db[d].grant
          /\ db'[d].cell.author = d /\ db'[d].cell.body.by = d /\ db'[d].cell.sig.by = d
          /\ \A e \in Device : e # d => db'[e] = db[e]
      <3>1. /\ db'[d].root = db[d].root /\ db'[d].grant = db[d].grant
            /\ db'[d].cell = Put(db[d].cell, d, "text")
            /\ \A e \in Device : e # d => db'[e] = db[e]
        BY <1>3, EditStep
      <3> QED
        BY <3>1 DEF Put
    <2>4. Own(db'[d], appointed)
      <3>1. InGroup(db'[d].cell, db'[d].root, appointed)
        BY <2>2, <2>3 DEF InGroup
      <3>2. ASSUME NEW s \in Device
            PROVE  /\ db'[d].grant[s].ver > 0 => db'[d].grant[s].author = db'[d].root
                   /\ db'[d].grant[s].body.says = "writer" => <<db'[d].root, s>> \in appointed
        BY <2>1, <2>3 DEF Own
      <3> QED
        BY <2>2, <2>3, <3>1, <3>2 DEF Own
    <2> QED
      BY <2>1, <2>3, <2>4 DEF Grouped
  <1>4. ASSUME NEW d \in Device, NEW f \in File, Export(d, f) PROVE Grouped'
    <2>1. \A g \in File : file'[g] = file[g] \/ file'[g] = db[d]
      BY <1>4 DEF Export, TypeOK
    <2> QED
      BY <1>4, <2>1 DEF Export, Grouped
  <1>5. ASSUME NEW f \in File, Apply(f) PROVE Grouped'
    <2>1. /\ db[at[f]] \in Db /\ file[f] \in Db /\ appointed \in SUBSET (Device \X Device)
          /\ Own(db[at[f]], appointed) /\ Own(file[f], appointed)
      BY <1>5, ApplyStep DEF Grouped, TypeOK
    <2>2. Own(MergeDb(db[at[f]], file[f]), appointed)
      BY <1>5, <2>1, ApplyStep, OwnMerge
    <2>3. UNCHANGED <<file, appointed>>
      BY <1>5 DEF Apply
    <2> QED
      BY <1>5, <2>2, <2>3, ApplyStep DEF Grouped
  <1>6. ASSUME UNCHANGED <<db, file, appointed>> PROVE Grouped'
    BY <1>6 DEF Grouped
  <1> QED
    BY <1>1, <1>2, <1>3, <1>4, <1>5, <1>6
       DEF Next, Use, CheckSystem, RejectSystem, CheckData, RejectData, vars

\* What a device holds is its own group's: grants of its root, and a cell
\* written by the root or its writers; if its imports do not overlap or all
\* devices have the same founder.
THEOREM OneGroupOnly == ASSUME OneTrust PROVE Spec => []OneGroup
  <1>1. Init => Grouped
    BY DEF Init, Grouped, Own, Empty, NoRow, NoWrite
  <1>2. Grouped => OneGroup
    BY ZenonT(30) DEF Grouped, OneGroup, Own, InGroup, Group
  <1>3. TrustInv /\ Grouped /\ [Next]_vars => Grouped'
    BY GroupedStep DEF TrustInv
  <1> QED
    BY <1>1, <1>2, <1>3, TrustAlways, PTL DEF Spec

--------------------------------------------------------------------------------
(* Copies: a grant row is written on its root's device and only copied        *)
(* elsewhere, so two copies of the same version are the same row.             *)

\* The databases and the files.
Held == {db[d] : d \in Device} \cup {file[f] : f \in File}

\* What has no root holds nothing, and a row never written is blank.
Blank(x) ==
    /\ x.root = Nobody => x.cell = NoRow /\ \A s \in Device : x.grant[s] = NoRow
    /\ \A s \in Device : x.grant[s].ver = 0 => x.grant[s] = NoRow

\* The root's own device has the latest version of every grant.
Follows(x, main) ==
    x.root # Nobody =>
        /\ main[x.root].root = x.root
        /\ \A s \in Device : x.grant[s].ver <= main[x.root].grant[s].ver

SameCopies(x, y) ==
    x.root = y.root =>
        \A s \in Device : x.grant[s].ver = y.grant[s].ver => x.grant[s] = y.grant[s]

Copies ==
    /\ \A x \in Held : Blank(x) /\ Follows(x, db)
    /\ \A x, y \in Held : SameCopies(x, y)

\* Everything held is a database.
LEMMA HeldType ==
    ASSUME TypeOK, NEW x \in Held
    PROVE  /\ x \in Db /\ x.root \in Device \cup {Nobody} /\ x.cell \in Row
           /\ \A s \in Device : x.grant[s] \in Row /\ x.grant[s].ver \in Nat
  <1>1. x \in Db
    BY DEF Held, TypeOK
  <1> QED
    BY <1>1 DEF Db, Row

\* A step that changes one database adds what it becomes.
LEMMA HeldGrows ==
    ASSUME TypeOK, NEW d \in Device, UNCHANGED file,
           \A e \in Device : e # d => db'[e] = db[e]
    PROVE  /\ Held' \subseteq Held \cup {db'[d]}
           /\ db'[d] \in Held'
           /\ \A e \in Device : db[e] \in Held
  BY DEF Held

\* Rows that are equal when their versions are merge to the later of the two.
LEMMA MergeCopies ==
    ASSUME NEW r \in Row, NEW q \in Row, r.ver = q.ver => r = q
    PROVE  MergeRow(r, q) = IF q.ver > r.ver THEN q ELSE r
  <1>0. r.ver \in Nat /\ q.ver \in Nat
    BY DEF Row
  <1>1. CASE r.ver = q.ver /\ q.ver > 0
    <2>1. q = r
      BY <1>1
    <2>2. MergeRow(r, r) = [ver |-> r.ver, body |-> r.body, author |-> r.author, sig |-> r.sig]
      BY <1>1, <2>1 DEF MergeRow, Larger
    <2>3. [ver |-> r.ver, body |-> r.body, author |-> r.author, sig |-> r.sig] = r
      BY DEF Row
    <2> QED
      BY <1>0, <2>1, <2>2, <2>3
  <1>2. CASE ~(r.ver = q.ver /\ q.ver > 0)
    BY <1>2 DEF MergeRow
  <1> QED
    BY <1>1, <1>2

\* Steps that leave every root and grant as it was keep Copies.
LEMMA CopiesSame ==
    ASSUME TypeOK, Copies,
           \A d \in Device : db'[d].root = db[d].root /\ db'[d].grant = db[d].grant,
           \A x \in Held' : \E y \in Held :
              /\ x.root = y.root /\ x.grant = y.grant
              /\ x.root = Nobody => x.cell = y.cell
    PROVE  Copies'
  <1>1. ASSUME NEW x \in Held' PROVE Blank(x) /\ Follows(x, db')
    <2>1. PICK y \in Held : /\ x.root = y.root /\ x.grant = y.grant
                            /\ x.root = Nobody => x.cell = y.cell
      OBVIOUS
    <2>2. Blank(y) /\ Follows(y, db) /\ y.root \in Device \cup {Nobody}
      BY HeldType DEF Copies
    <2> QED
      BY <2>1, <2>2 DEF Blank, Follows
  <1>2. ASSUME NEW x \in Held', NEW y \in Held' PROVE SameCopies(x, y)
    <2>1. PICK v \in Held : x.root = v.root /\ x.grant = v.grant
      OBVIOUS
    <2>2. PICK w \in Held : y.root = w.root /\ y.grant = w.grant
      OBVIOUS
    <2>3. SameCopies(v, w)
      BY DEF Copies
    <2> QED
      BY <2>1, <2>2, <2>3 DEF SameCopies
  <1> QED
    BY <1>1, <1>2 DEF Copies

\* What an import leaves: the device's root, and the later copy of every grant.
LEMMA MergedGrants ==
    ASSUME TypeOK, Copies, NEW x \in Held, NEW y \in Held,
           y.root # Nobody, x.root \in {Nobody, y.root}
    PROVE  /\ MergeDb(x, y).root = y.root
           /\ \A s \in Device :
                /\ x.grant[s].ver = y.grant[s].ver => x.grant[s] = y.grant[s]
                /\ MergeDb(x, y).grant[s] =
                     IF y.grant[s].ver > x.grant[s].ver THEN y.grant[s] ELSE x.grant[s]
  <1>1. x \in Db /\ y \in Db /\ \A s \in Device : x.grant[s] \in Row /\ y.grant[s] \in Row
    BY HeldType
  <1>2. MergeDb(x, y).root = y.root
    BY <1>1, MergeDbType, MergeRootKeeps
  <1>3. ASSUME NEW s \in Device, x.grant[s].ver = y.grant[s].ver PROVE x.grant[s] = y.grant[s]
    <2>1. CASE x.root = y.root
      BY <1>3, <2>1 DEF Copies, SameCopies
    <2>2. CASE x.root = Nobody
      <3>1. x.grant[s] = NoRow
        BY <2>2 DEF Copies, Blank
      <3>2. y.grant[s].ver = 0
        BY <1>3, <3>1 DEF NoRow
      <3> QED
        BY <3>1, <3>2 DEF Copies, Blank
    <2> QED
      BY <2>1, <2>2
  <1>4. ASSUME NEW s \in Device
        PROVE  MergeDb(x, y).grant[s] =
                 IF y.grant[s].ver > x.grant[s].ver THEN y.grant[s] ELSE x.grant[s]
    <2>1. MergeDb(x, y).grant[s] = MergeRow(x.grant[s], y.grant[s])
      BY <1>1, MergeDbType
    <2> QED
      BY <1>1, <1>3, <2>1, MergeCopies
  <1> QED
    BY <1>2, <1>3, <1>4

\* Every step keeps the copies in order.
LEMMA CopiesStep == TypeOK /\ Trusted /\ Copies /\ [Next]_vars => Copies'
  <1> SUFFICES ASSUME TypeOK, Trusted, Copies, [Next]_vars PROVE Copies'
    OBVIOUS
  <1>0. \A d \in Device : db[d] \in Held /\ \A f \in File : file[f] \in Held
    BY DEF Held
  <1>1. ASSUME NEW d \in Device, Genesis(d) PROVE Copies'
    <2>1. db[d].root = Nobody /\ UNCHANGED file
      BY <1>1 DEF Genesis, Trusted
    <2>2. /\ db'[d].root = d /\ db'[d].grant = db[d].grant
          /\ \A e \in Device : e # d => db'[e] = db[e]
      BY <1>1, GenesisStep
    <2>3. Held' \subseteq Held \cup {db'[d]} /\ db[d] \in Held
      BY <2>1, <2>2, HeldGrows
    <2>4. \A s \in Device : db'[d].grant[s] = NoRow
      BY <2>1, <2>2, <2>3 DEF Copies, Blank
    <2>5. \A x \in Held : x.root # d
      BY <2>1 DEF Copies, Follows
    <2>6. ASSUME NEW x \in Held' PROVE Blank(x) /\ Follows(x, db')
      <3>1. CASE x \in Held
        <4>1. Blank(x) /\ Follows(x, db) /\ x.root # d /\ x.root \in Device \cup {Nobody}
          BY <2>5, <3>1, HeldType DEF Copies
        <4> QED
          BY <2>2, <4>1 DEF Follows
      <3>2. CASE x = db'[d]
        <4>1. Blank(x)
          BY <2>2, <2>4, <3>2 DEF Blank
        <4>2. NoRow.ver <= NoRow.ver
          BY DEF NoRow
        <4> QED
          BY <2>2, <2>4, <3>2, <4>1, <4>2 DEF Follows
      <3> QED
        BY <2>3, <3>1, <3>2
    <2>7. ASSUME NEW x \in Held', NEW y \in Held' PROVE SameCopies(x, y)
      <3>1. CASE x \in Held /\ y \in Held
        BY <3>1 DEF Copies
      <3>2. CASE x = db'[d] /\ y = db'[d]
        BY <3>2 DEF SameCopies
      <3>3. CASE (x \in Held /\ y = db'[d]) \/ (x = db'[d] /\ y \in Held)
        BY <2>2, <2>5, <3>3 DEF SameCopies
      <3> QED
        BY <2>3, <3>1, <3>2, <3>3
    <2> QED
      BY <2>6, <2>7 DEF Copies
  <1>2. ASSUME NEW d \in Device, NEW s \in Device, NEW says \in {"writer", "revoked"},
               SetGrant(d, s, says)
        PROVE  Copies'
    <2>1. db[d].root = d /\ UNCHANGED file
      BY <1>2 DEF SetGrant
    <2>2. /\ db'[d].root = d /\ db'[d].cell = db[d].cell
          /\ db'[d].grant[s] = Put(db[d].grant[s], d, says)
          /\ \A e \in Device : e # s => db'[d].grant[e] = db[d].grant[e]
          /\ \A e \in Device : e # d => db'[e] = db[e]
      BY <1>2, <2>1, SetGrantStep
    <2>3. Held' \subseteq Held \cup {db'[d]} /\ db[d] \in Held
      BY <2>1, <2>2, HeldGrows
    <2>4. /\ db'[d].grant[s].ver = db[d].grant[s].ver + 1
          /\ \A e \in Device : db[d].grant[e].ver \in Nat
      BY <2>2, <2>3, HeldType DEF Put
    <2>5. \A x \in Held : \A e \in Device : x.grant[e].ver \in Nat
      BY HeldType
    <2>6. ASSUME NEW x \in Held, x.root = d
          PROVE  /\ x.grant[s].ver < db'[d].grant[s].ver
                 /\ \A e \in Device : x.grant[e].ver <= db[d].grant[e].ver
      BY <2>4, <2>5, <2>6 DEF Copies, Follows
    <2>7. ASSUME NEW x \in Held' PROVE Blank(x) /\ Follows(x, db')
      <3>1. CASE x \in Held
        <4>1. Blank(x) /\ Follows(x, db) /\ x.root \in Device \cup {Nobody}
          BY <3>1, HeldType DEF Copies
        <4>2. CASE x.root = d
          <5>1. \A e \in Device : x.grant[e].ver <= db'[d].grant[e].ver
            BY <2>2, <2>4, <2>5, <2>6, <3>1, <4>2
          <5> QED
            BY <2>2, <4>1, <4>2, <5>1 DEF Follows
        <4>3. CASE x.root # d
          BY <2>2, <4>1, <4>3 DEF Follows
        <4> QED
          BY <4>2, <4>3
      <3>2. CASE x = db'[d]
        <4>1. \A e \in Device : x.grant[e].ver \in Nat /\ (x.grant[e].ver = 0 => x.grant[e] = NoRow)
          BY <2>2, <2>3, <2>4, <3>2 DEF Copies, Blank
        <4> QED
          BY <2>2, <3>2, <4>1 DEF Blank, Follows
      <3> QED
        BY <2>3, <3>1, <3>2
    <2>8. ASSUME NEW x \in Held, x.root = d, NEW e \in Device, x.grant[e].ver = db'[d].grant[e].ver
          PROVE  x.grant[e] = db'[d].grant[e]
      <3>1. e # s
        BY <2>4, <2>5, <2>6, <2>8
      <3>2. db'[d].grant[e] = db[d].grant[e]
        BY <2>2, <3>1
      <3> QED
        BY <2>1, <2>3, <2>8, <3>2 DEF Copies, SameCopies
    <2>9. ASSUME NEW x \in Held', NEW y \in Held' PROVE SameCopies(x, y)
      <3>1. CASE x \in Held /\ y \in Held
        BY <3>1 DEF Copies
      <3>2. CASE x = db'[d] /\ y = db'[d]
        BY <3>2 DEF SameCopies
      <3>3. CASE x \in Held /\ y = db'[d]
        BY <2>2, <2>8, <3>3 DEF SameCopies
      <3>4. CASE x = db'[d] /\ y \in Held
        BY <2>2, <2>8, <3>4 DEF SameCopies
      <3> QED
        BY <2>3, <3>1, <3>2, <3>3, <3>4
    <2> QED
      BY <2>7, <2>9 DEF Copies
  <1>3. ASSUME NEW d \in Device, Edit(d) PROVE Copies'
    <2>1. db[d].root # Nobody /\ UNCHANGED file
      BY <1>3 DEF Edit
    <2>2. /\ db'[d].root = db[d].root /\ db'[d].grant = db[d].grant
          /\ \A e \in Device : e # d => db'[e] = db[e]
      BY <1>3, EditStep
    <2>3. Held' \subseteq Held \cup {db'[d]}
      BY <2>1, <2>2, HeldGrows
    <2> QED
      BY <1>0, <2>1, <2>2, <2>3, CopiesSame
  <1>4. ASSUME NEW d \in Device, NEW f \in File, Export(d, f) PROVE Copies'
    <2>1. UNCHANGED db /\ \A g \in File : file'[g] = file[g] \/ file'[g] = db[d]
      BY <1>4 DEF Export, TypeOK
    <2>2. \A x \in Held' : x \in Held
      BY <2>1 DEF Held
    <2> QED
      BY <2>1, <2>2, CopiesSame
  <1>5. ASSUME NEW f \in File, Apply(f) PROVE Copies'
    <2> DEFINE d == at[f]
               n == MergeDb(db[d], file[f])
    <2>1. /\ d \in Device /\ file[f].root # Nobody /\ db[d].root \in {Nobody, file[f].root}
          /\ db'[d] = n /\ \A e \in Device : e # d => db'[e] = db[e]
          /\ UNCHANGED file
      BY <1>5, ApplyStep DEF Apply
    <2>2. db[d] \in Held /\ file[f] \in Held /\ file[f].root \in Device
      BY <1>0, <2>1, HeldType
    <2>3. /\ n.root = file[f].root
          /\ \A s \in Device :
               n.grant[s] = IF file[f].grant[s].ver > db[d].grant[s].ver
                            THEN file[f].grant[s] ELSE db[d].grant[s]
      BY <2>1, <2>2, MergedGrants
    <2>4. Held' \subseteq Held \cup {n}
      BY <2>1, HeldGrows
    <2>5. \A x \in Held : \A s \in Device : x.grant[s].ver \in Nat
      BY HeldType
    <2> HIDE DEF n
    <2> HIDE DEF d
    <2>6. \A e \in Device : /\ db[e].root # Nobody => db'[e].root = db[e].root
                            /\ \A s \in Device : db[e].grant[s].ver <= db'[e].grant[s].ver
      BY <1>0, <2>1, <2>2, <2>3, <2>5
    <2>7. ASSUME NEW x \in Held PROVE Blank(x) /\ Follows(x, db')
      <3>1. Blank(x) /\ Follows(x, db) /\ x.root \in Device \cup {Nobody}
        BY HeldType DEF Copies
      <3>2. CASE x.root # Nobody
        <4>1. /\ db[x.root].root = x.root /\ x.root \in Device
              /\ \A s \in Device : x.grant[s].ver <= db[x.root].grant[s].ver
          BY <3>1, <3>2 DEF Follows
        <4>2. db'[x.root].root = x.root
          BY <2>6, <3>2, <4>1
        <4>3. ASSUME NEW s \in Device PROVE x.grant[s].ver <= db'[x.root].grant[s].ver
          <5>1. x.grant[s].ver <= db[x.root].grant[s].ver
                /\ db[x.root].grant[s].ver <= db'[x.root].grant[s].ver
            BY <2>6, <4>1
          <5>2. db'[x.root].grant[s].ver \in Nat /\ db[x.root].grant[s].ver \in Nat
            BY <1>0, <2>1, <2>2, <2>3, <2>5, <4>1
          <5> QED
            BY <2>5, <5>1, <5>2
        <4> QED
          BY <3>1, <4>2, <4>3 DEF Follows
      <3>3. CASE x.root = Nobody
        BY <3>1, <3>3 DEF Follows
      <3> QED
        BY <3>2, <3>3
    <2>8. Blank(n) /\ Follows(n, db')
      <3>1. Follows(file[f], db') /\ Blank(file[f]) /\ Blank(db[d])
        BY <2>2, <2>7
      <3>2. Blank(n)
        BY <2>1, <2>3, <3>1 DEF Blank
      <3>3. db'[n.root].root = n.root
        BY <2>1, <2>3, <3>1 DEF Follows
      <3>4. ASSUME NEW s \in Device PROVE n.grant[s].ver <= db'[n.root].grant[s].ver
        <4>1. file[f].grant[s].ver <= db'[n.root].grant[s].ver
          BY <2>1, <2>3, <3>1 DEF Follows
        <4>2. CASE db[d].root = n.root
          <5>1. Follows(db[d], db')
            BY <2>2, <2>7
          <5>2. db[d].grant[s].ver <= db'[n.root].grant[s].ver
            BY <2>1, <2>3, <4>2, <5>1 DEF Follows
          <5> QED
            BY <2>3, <4>1, <5>2
        <4>3. CASE db[d].root = Nobody
          <5>1. db[d].grant[s] = NoRow /\ NoRow.ver = 0
            BY <3>1, <4>3 DEF Blank, NoRow
          <5>2. n.grant[s] = file[f].grant[s] \/ (n.grant[s].ver = 0 /\ file[f].grant[s].ver \in Nat)
            BY <2>2, <2>3, <2>5, <5>1
          <5>3. file[f].grant[s].ver \in Nat
            BY <2>2, <2>5
          <5>4. n.grant[s].ver = file[f].grant[s].ver
            BY <2>3, <5>1, <5>3
          <5> QED
            BY <4>1, <5>4
        <4> QED
          BY <2>1, <2>3, <4>2, <4>3
      <3> QED
        BY <3>2, <3>3, <3>4 DEF Follows
    <2>9. ASSUME NEW x \in Held, x.root = n.root, NEW s \in Device, x.grant[s].ver = n.grant[s].ver
          PROVE  x.grant[s] = n.grant[s]
      <3>1. SameCopies(x, file[f]) /\ SameCopies(x, db[d]) /\ Blank(x) /\ Blank(db[d])
        BY <2>2 DEF Copies
      <3>2. CASE n.grant[s] = file[f].grant[s]
        BY <2>3, <2>9, <3>1, <3>2 DEF SameCopies
      <3>3. CASE n.grant[s] = db[d].grant[s] /\ db[d].root = n.root
        BY <2>3, <2>9, <3>1, <3>3 DEF SameCopies
      <3>4. CASE n.grant[s] = db[d].grant[s] /\ db[d].root = Nobody
        <4>1. db[d].grant[s] = NoRow /\ NoRow.ver = 0
          BY <3>1, <3>4 DEF Blank, NoRow
        <4> QED
          BY <2>9, <3>1, <3>4, <4>1 DEF Blank
      <3> QED
        BY <2>1, <2>3, <3>2, <3>3, <3>4
    <2>10. ASSUME NEW x \in Held', NEW y \in Held' PROVE SameCopies(x, y)
      <3>1. CASE x \in Held /\ y \in Held
        BY <3>1 DEF Copies
      <3>2. CASE x = n /\ y = n
        BY <3>2 DEF SameCopies
      <3>3. CASE x \in Held /\ y = n
        BY <2>9, <3>3 DEF SameCopies
      <3>4. CASE x = n /\ y \in Held
        BY <2>9, <3>4 DEF SameCopies
      <3> QED
        BY <2>4, <3>1, <3>2, <3>3, <3>4
    <2> QED
      BY <2>4, <2>7, <2>8, <2>10 DEF Copies
  <1>6. ASSUME UNCHANGED <<db, file>> PROVE Copies'
    <2>1. \A x \in Held' : x \in Held
      BY <1>6 DEF Held
    <2> QED
      BY <1>6, <2>1, CopiesSame
  <1> QED
    BY <1>1, <1>2, <1>3, <1>4, <1>5, <1>6
       DEF Next, Use, Grant, Revoke, CheckSystem, RejectSystem, CheckData, RejectData, vars

CopiesInv == TrustInv /\ Copies

\* So do all of them.
LEMMA CopiesAlways == ASSUME OneTrust PROVE Spec => []CopiesInv
  <1>1. Init => Copies
    BY NobodyAssumption DEF Init, Copies, Held, Blank, Follows, SameCopies, Empty
  <1>2. TrustInv /\ Copies /\ [Next]_vars => Copies'
    BY CopiesStep DEF TrustInv
  <1> QED
    BY <1>1, <1>2, TrustAlways, PTL DEF Spec, CopiesInv

\* A stale or repeated file undoes nothing: a grant row changes only towards a
\* later version, so no old changeset brings a revoked grant back.
THEOREM GrantsMoveForward == ASSUME OneTrust PROVE Spec => GrantsOnlyMoveForward
  <1>1. CopiesInv /\ [Next]_vars =>
          [\A d, s \in Device :
             db'[d].grant[s] # db[d].grant[s] => db'[d].grant[s].ver > db[d].grant[s].ver]_vars
    <2> SUFFICES ASSUME TypeOK, Trusted, Copies, Next, NEW d \in Device, NEW s \in Device,
                        db'[d].grant[s] # db[d].grant[s]
                 PROVE  db'[d].grant[s].ver > db[d].grant[s].ver
      BY DEF CopiesInv, TrustInv
    <2>0. /\ \A e \in Device : db[e] \in Held
          /\ \A f \in File : file[f] \in Held
          /\ db[d].grant[s].ver \in Nat
      BY HeldType DEF Held
    <2>1. CASE \E e \in Device : Genesis(e) \/ Edit(e)
      BY <2>1, GenesisStep, EditStep
    <2>2. CASE \E e, t \in Device : Grant(e, t) \/ Revoke(e, t)
      <3>1. PICK e \in Device, t \in Device, says \in {"writer", "revoked"} : SetGrant(e, t, says)
        BY <2>2 DEF Grant, Revoke
      <3>2. e = d /\ t = s /\ db'[d].grant[s] = Put(db[d].grant[s], d, says)
        BY <3>1, SetGrantStep
      <3> QED
        BY <2>0, <3>2 DEF Put
    <2>3. CASE \E f \in File : Apply(f)
      <3>1. PICK f \in File : Apply(f)
        BY <2>3
      <3>2. /\ at[f] = d /\ file[f].root # Nobody /\ db[d].root \in {Nobody, file[f].root}
            /\ db'[d] = MergeDb(db[d], file[f])
        BY <3>1, ApplyStep
      <3>3. db'[d].grant[s] = IF file[f].grant[s].ver > db[d].grant[s].ver
                              THEN file[f].grant[s] ELSE db[d].grant[s]
        BY <2>0, <3>2, MergedGrants
      <3> QED
        BY <3>3
    <2>4. CASE UNCHANGED db
      BY <2>4
    <2> QED
      BY <2>1, <2>2, <2>3, <2>4
         DEF Next, Use, Export, CheckSystem, RejectSystem, CheckData, RejectData
  <1> QED
    BY <1>1, CopiesAlways, PTL DEF Spec, GrantsOnlyMoveForward

--------------------------------------------------------------------------------
(* A calm group: one founder, one editor, and a grant row is written once.    *)
(* Then no two rows tie and no grant is withdrawn, and everything that was    *)
(* exported is accepted wherever it arrives.                                  *)

Calm ==
    /\ OneFounder
    /\ \A d, e \in Editor : d = e
    /\ MaxGrant <= 1

\* The row the editor's write with this version leaves.
Written(e, v) ==
    LET w == [by |-> e, ver |-> v, says |-> "text"]
    IN  [ver |-> v, body |-> w, author |-> e, sig |-> w]

\* A database that any database of the group accepts: its grants are signed by
\* its root, its cell is by the editor, and it holds the grant that justifies it.
Fit(x) ==
    /\ x.root \in Founder \cup {Nobody}
    /\ \A s \in Device :
         /\ x.grant[s].ver <= MaxGrant
         /\ x.grant[s].ver > 0 => Verifies(x.grant[s]) /\ x.grant[s].author = x.root
    /\ x.cell.ver = 0 => x.cell = NoRow
    /\ x.cell.ver > 0 =>
         \E e \in Editor : x.cell = Written(e, x.cell.ver) /\ WriterIn(x, x.root, e)

AllFit == \A x \in Held : Fit(x)

\* What two databases of a calm group merge to: nothing of either is lost.
LEMMA FitMerge ==
    ASSUME Calm, TypeOK, Copies, AllFit, NEW x \in Held, NEW y \in Held,
           y.root # Nobody, x.root \in {Nobody, y.root}
    PROVE  /\ Fit(MergeDb(x, y))
           /\ MergeDb(x, y).cell = IF y.cell.ver > x.cell.ver THEN y.cell ELSE x.cell
           /\ x.cell.ver = y.cell.ver => x.cell = y.cell
  <1> DEFINE m == MergeDb(x, y)
  <1>1. /\ x \in Db /\ y \in Db /\ x.cell \in Row /\ y.cell \in Row
        /\ x.cell.ver \in Nat /\ y.cell.ver \in Nat
        /\ \A s \in Device : x.grant[s].ver \in Nat /\ y.grant[s].ver \in Nat
    BY HeldType DEF Row
  <1>2. /\ m.root = y.root /\ m.cell = MergeRow(x.cell, y.cell)
        /\ \A s \in Device :
             /\ x.grant[s].ver = y.grant[s].ver => x.grant[s] = y.grant[s]
             /\ m.grant[s] =
                  IF y.grant[s].ver > x.grant[s].ver THEN y.grant[s] ELSE x.grant[s]
    BY <1>1, MergedGrants, MergeDbType
  <1>3. Fit(x) /\ Fit(y) /\ Blank(x) /\ Blank(y)
    BY DEF AllFit, Copies
  <1>4. x.cell.ver = y.cell.ver => x.cell = y.cell
    <2>1. CASE x.cell.ver = 0
      BY <1>3, <2>1 DEF Fit
    <2>2. CASE x.cell.ver > 0 /\ x.cell.ver = y.cell.ver
      <3>1. PICK e \in Editor : x.cell = Written(e, x.cell.ver)
        BY <1>3, <2>2 DEF Fit
      <3>2. PICK d \in Editor : y.cell = Written(d, y.cell.ver)
        BY <1>3, <2>2 DEF Fit
      <3>3. d = e
        BY DEF Calm
      <3> HIDE DEF m
      <3> QED
        BY <2>2, <3>1, <3>2, <3>3
    <2> QED
      BY <1>1, <2>1, <2>2
  <1>5. m.cell = IF y.cell.ver > x.cell.ver THEN y.cell ELSE x.cell
    BY <1>1, <1>2, <1>4, MergeCopies
  <1> HIDE DEF m
  <1>6. ASSUME NEW s \in Device
        PROVE  /\ m.grant[s].ver <= MaxGrant
               /\ m.grant[s].ver > 0 => Verifies(m.grant[s]) /\ m.grant[s].author = m.root
    <2>1. x.root = Nobody => x.grant[s].ver = 0
      BY <1>3 DEF Blank, NoRow
    <2> QED
      BY <1>1, <1>2, <1>3, <2>1 DEF Fit
  <1>7. ASSUME NEW s \in Device,
               x.grant[s].body.says = "writer" \/ y.grant[s].body.says = "writer"
        PROVE  m.grant[s].body.says = "writer"
    <2>1. /\ x.grant[s].ver <= 1 /\ y.grant[s].ver <= 1
          /\ x.grant[s].body.says = "writer" => x.grant[s].ver # 0
          /\ y.grant[s].body.says = "writer" => y.grant[s].ver # 0
      <3>1. NoRow.body.says # "writer"
        BY DEF NoRow, NoWrite
      <3>2. MaxGrant \in Nat /\ MaxGrant <= 1
        BY MaxGrantAssumption DEF Calm
      <3> QED
        BY <1>1, <1>3, <3>1, <3>2 DEF Fit, Blank
    <2> QED
      BY <1>1, <1>2, <1>7, <2>1
  <1>8. ASSUME m.cell.ver > 0
        PROVE  \E e \in Editor : m.cell = Written(e, m.cell.ver) /\ WriterIn(m, m.root, e)
    <2>1. ASSUME m.cell = y.cell
          PROVE  \E e \in Editor : m.cell = Written(e, m.cell.ver) /\ WriterIn(m, m.root, e)
      <3>1. PICK e \in Editor : y.cell = Written(e, y.cell.ver) /\ WriterIn(y, y.root, e)
        BY <1>3, <1>8, <2>1 DEF Fit
      <3>2. WriterIn(m, m.root, e)
        BY <1>2, <1>7, <3>1 DEF WriterIn
      <3> QED
        BY <2>1, <3>1, <3>2
    <2>2. ASSUME m.cell = x.cell
          PROVE  \E e \in Editor : m.cell = Written(e, m.cell.ver) /\ WriterIn(m, m.root, e)
      <3>1. PICK e \in Editor : x.cell = Written(e, x.cell.ver) /\ WriterIn(x, x.root, e)
        BY <1>3, <1>8, <2>2 DEF Fit
      <3>2. x.root = m.root
        BY <1>2, <1>3, <1>8, <2>2 DEF Blank, NoRow
      <3>3. WriterIn(m, m.root, e)
        BY <1>7, <3>1, <3>2 DEF WriterIn
      <3> QED
        BY <2>2, <3>1, <3>3
    <2> QED
      BY <1>5, <2>1, <2>2
  <1>9. m.root \in Founder \cup {Nobody} /\ (m.cell.ver = 0 => m.cell = NoRow)
    BY <1>1, <1>2, <1>3, <1>5 DEF Fit
  <1>10. Fit(m)
    BY <1>6, <1>8, <1>9 DEF Fit
  <1> QED
    BY <1>4, <1>5, <1>10 DEF m

\* A calm group stays fit.
LEMMA FitStep == Calm /\ CopiesInv /\ AllFit /\ [Next]_vars => AllFit'
  <1> SUFFICES ASSUME Calm, TypeOK, Trusted, Copies, AllFit, [Next]_vars PROVE AllFit'
    BY DEF CopiesInv, TrustInv
  <1>0. \A d \in Device : db[d] \in Held /\ \A f \in File : file[f] \in Held
    BY DEF Held
  <1>1. ASSUME NEW d \in Device, Genesis(d) PROVE AllFit'
    <2>1. db[d].root = Nobody /\ d \in Founder /\ UNCHANGED file
      BY <1>1 DEF Genesis, Trusted
    <2>2. /\ db'[d].root = d /\ db'[d].grant = db[d].grant /\ db'[d].cell = db[d].cell
          /\ \A e \in Device : e # d => db'[e] = db[e]
      BY <1>1, GenesisStep
    <2>3. db[d].cell = NoRow /\ \A s \in Device : db[d].grant[s] = NoRow
      BY <1>0, <2>1 DEF Copies, Blank
    <2>4. Fit(db'[d])
      BY <2>1, <2>2, <2>3, MaxGrantAssumption DEF Fit, NoRow
    <2> QED
      BY <2>1, <2>2, <2>4, HeldGrows DEF AllFit
  <1>2. ASSUME NEW d \in Device, NEW s \in Device, NEW says \in {"writer", "revoked"},
               SetGrant(d, s, says)
        PROVE  AllFit'
    <2>1. db[d].root = d /\ db[d].grant[s].ver < MaxGrant /\ UNCHANGED file
      BY <1>2 DEF SetGrant
    <2>2. /\ db'[d].root = db[d].root /\ db'[d].cell = db[d].cell
          /\ db'[d].grant[s] = Put(db[d].grant[s], d, says)
          /\ \A e \in Device : e # s => db'[d].grant[e] = db[d].grant[e]
          /\ \A e \in Device : e # d => db'[e] = db[e]
      BY <1>2, SetGrantStep
    <2>3. Fit(db[d]) /\ db[d].grant[s].ver \in Nat
      BY <1>0, HeldType DEF AllFit
    <2>4. /\ db'[d].grant[s].ver <= MaxGrant /\ Verifies(db'[d].grant[s])
          /\ db'[d].grant[s].author = d
      BY <2>1, <2>2, <2>3, MaxGrantAssumption DEF Put, Verifies
    <2>5. db[d].grant[s] = NoRow
      <3>1. db[d].grant[s].ver = 0
        BY <2>1, <2>3, MaxGrantAssumption DEF Calm
      <3> QED
        BY <1>0, <3>1 DEF Copies, Blank
    <2>6. \A e : WriterIn(db[d], d, e) => WriterIn(db'[d], d, e)
      <3>1. NoRow.body.says # "writer"
        BY DEF NoRow, NoWrite
      <3> QED
        BY <2>2, <2>5, <3>1 DEF WriterIn
    <2>7. Fit(db'[d])
      BY <2>1, <2>2, <2>3, <2>4, <2>6 DEF Fit
    <2> QED
      BY <2>1, <2>2, <2>7, HeldGrows DEF AllFit
  <1>3. ASSUME NEW d \in Device, Edit(d) PROVE AllFit'
    <2>1. d \in Editor /\ WriterIn(db[d], db[d].root, d) /\ UNCHANGED file
      BY <1>3 DEF Edit
    <2>2. /\ db'[d].root = db[d].root /\ db'[d].grant = db[d].grant
          /\ db'[d].cell = Put(db[d].cell, d, "text")
          /\ \A e \in Device : e # d => db'[e] = db[e]
      BY <1>3, EditStep
    <2>3. Fit(db[d]) /\ db[d].cell.ver \in Nat
      BY <1>0, HeldType DEF AllFit, Row
    <2>4. db'[d].cell = Written(d, db'[d].cell.ver) /\ db'[d].cell.ver > 0
      BY <2>2, <2>3 DEF Put, Written
    <2>5. WriterIn(db'[d], db'[d].root, d)
      BY <2>1, <2>2 DEF WriterIn
    <2>6. Fit(db'[d])
      BY <2>1, <2>2, <2>3, <2>4, <2>5 DEF Fit
    <2> QED
      BY <2>1, <2>2, <2>6, HeldGrows DEF AllFit
  <1>4. ASSUME NEW d \in Device, NEW f \in File, Export(d, f) PROVE AllFit'
    <2>1. UNCHANGED db /\ \A g \in File : file'[g] = file[g] \/ file'[g] = db[d]
      BY <1>4 DEF Export, TypeOK
    <2>2. \A x \in Held' : x \in Held
      BY <2>1 DEF Held
    <2> QED
      BY <2>2 DEF AllFit
  <1>5. ASSUME NEW f \in File, Apply(f) PROVE AllFit'
    <2>1. /\ at[f] \in Device /\ file[f].root # Nobody
          /\ db[at[f]].root \in {Nobody, file[f].root}
          /\ db'[at[f]] = MergeDb(db[at[f]], file[f])
          /\ \A e \in Device : e # at[f] => db'[e] = db[e]
          /\ UNCHANGED file
      BY <1>5, ApplyStep DEF Apply
    <2>2. Fit(db'[at[f]])
      BY <1>0, <2>1, FitMerge
    <2> QED
      BY <2>1, <2>2, HeldGrows DEF AllFit
  <1>6. ASSUME UNCHANGED <<db, file>> PROVE AllFit'
    <2>1. \A x \in Held' : x \in Held
      BY <1>6 DEF Held
    <2> QED
      BY <2>1 DEF AllFit
  <1> QED
    BY <1>1, <1>2, <1>3, <1>4, <1>5, <1>6
       DEF Next, Use, Grant, Revoke, CheckSystem, RejectSystem, CheckData, RejectData, vars

CalmInv == CopiesInv /\ AllFit

\* So every database and every file is one the whole group accepts.
LEMMA CalmAlways == ASSUME Calm PROVE Spec => []CalmInv
  <1>1. Init => AllFit
    BY MaxGrantAssumption DEF Init, AllFit, Held, Fit, Empty, NoRow
  <1>2. CopiesInv /\ AllFit /\ [Next]_vars => AllFit'
    BY FitStep
  <1>3. OneTrust
    BY DEF Calm, OneTrust
  <1> QED
    BY <1>1, <1>2, <1>3, CopiesAlways, PTL DEF Spec, CalmInv

\* authorizeStaging accepts what a member of a calm group exports, on a device
\* that has its root or none.
LEMMA FitAccepted ==
    ASSUME NEW x, NEW y, Fit(y), y.root # Nobody, x.root \in {Nobody, y.root}
    PROVE  Outcome(x, y) = MergeDb(x, y)
  <1>1. Admin(x, y) = y.root
    BY DEF Admin
  <1>2. SystemRowsOK(x, y)
    BY <1>1 DEF SystemRowsOK, Fit
  <1>3. DataRowsOK(x, y, Admin(x, y))
    <2>1. ASSUME y.cell.ver > 0
          PROVE  Verifies(y.cell) /\ WriterIn(y, y.root, y.cell.author)
      <3>1. PICK e \in Editor : y.cell = Written(e, y.cell.ver) /\ WriterIn(y, y.root, e)
        BY <2>1 DEF Fit
      <3>2. /\ y.cell.sig = y.cell.body /\ y.cell.author = e /\ y.cell.sig.by = e
        BY <3>1 DEF Written
      <3> QED
        BY <3>1, <3>2 DEF Verifies
    <2> QED
      BY <1>1, <2>1 DEF DataRowsOK
  <1> QED
    BY <1>2, <1>3 DEF Outcome

\* Two tables of grants are the same when every row is.
LEMMA SameGrants ==
    ASSUME NEW x \in Db, NEW y \in Db, \A s \in Device : x.grant[s] = y.grant[s]
    PROVE  x.grant = y.grant
  <1>1. x.grant \in [Device -> Row] /\ y.grant \in [Device -> Row]
    BY DEF Db
  <1> QED
    BY <1>1

\* "an ops-only changeset fully reconstructs state on a fresh machine"
\* (README.md:66): in a calm group a device with nothing accepts any replica's
\* full changeset and then holds the same tables.
THEOREM FreshMachinesJoin == ASSUME Calm PROVE Spec => []FreshMachineReconstructs
  <1>1. CalmInv => FreshMachineReconstructs
    <2> SUFFICES ASSUME CalmInv, NEW d \in Device, db[d].root # Nobody
                 PROVE  SameTables(Outcome(Empty, db[d]), db[d])
      BY DEF FreshMachineReconstructs
    <2> DEFINE y == db[d]
               m == MergeDb(Empty, y)
    <2>1. TypeOK /\ Copies /\ AllFit /\ y \in Held
      BY DEF CalmInv, CopiesInv, TrustInv, Held
    <2>2. y \in Db /\ y.cell \in Row /\ \A s \in Device : y.grant[s] \in Row
      BY <2>1, HeldType
    <2>3. Fit(y) /\ Blank(y)
      BY <2>1 DEF AllFit, Copies
    <2>4. /\ Empty.root = Nobody /\ Empty.cell = NoRow
          /\ \A s \in Device : Empty.grant[s] = NoRow
      BY DEF Empty
    <2>5. NoRow \in Row /\ NoRow.ver = 0
      BY DEF NoRow, Row
    <2>6. Outcome(Empty, y) = m
      BY <2>3, <2>4, FitAccepted
    <2>7. /\ m \in Db /\ m.root = y.root /\ m.cell = MergeRow(NoRow, y.cell)
          /\ \A s \in Device : m.grant[s] = MergeRow(NoRow, y.grant[s])
      BY <2>2, <2>4, EmptyType, MergeDbType, MergeRootKeeps
    <2>8. ASSUME NEW r \in Row, r.ver = 0 => r = NoRow PROVE MergeRow(NoRow, r) = r
      <3>1. MergeRow(NoRow, r) = IF r.ver > NoRow.ver THEN r ELSE NoRow
        BY <2>5, <2>8, MergeCopies
      <3>2. r.ver \in Nat
        BY DEF Row
      <3> QED
        BY <2>5, <2>8, <3>1, <3>2
    <2> HIDE DEF m
    <2>9. m.cell = y.cell /\ \A s \in Device : m.grant[s] = y.grant[s]
      BY <2>2, <2>3, <2>7, <2>8 DEF Fit, Blank
    <2>10. m.grant = y.grant
      BY <2>2, <2>7, <2>9, SameGrants
    <2> QED
      BY <2>6, <2>7, <2>9, <2>10 DEF SameTables
  <1> QED
    BY <1>1, CalmAlways, PTL DEF Spec

\* "Any two replicas that have exchanged everyone's deltas converge to the same
\* state" (README.md:35), in a calm group: when no exchange between any two
\* replicas would change anything any more, they hold the same tables.
THEOREM CalmExchangeConverges == ASSUME Calm PROVE Spec => []ExchangeConverges
  <1>1. CalmInv => ExchangeConverges
    <2> SUFFICES ASSUME CalmInv,
                        \A d, e \in Device : SameTables(Outcome(db[d], db[e]), db[d]),
                        NEW d \in Device, NEW e \in Device
                 PROVE  SameTables(db[d], db[e])
      BY DEF ExchangeConverges
    <2>1. TypeOK /\ Copies /\ AllFit /\ \A c \in Device : db[c] \in Held
      BY DEF CalmInv, CopiesInv, TrustInv, Held
    <2>2. \A c \in Device :
            /\ db[c] \in Db /\ db[c].cell.ver \in Nat
            /\ \A s \in Device : db[c].grant[s].ver \in Nat
            /\ Fit(db[c]) /\ Blank(db[c])
      <3> SUFFICES ASSUME NEW c \in Device
                   PROVE  /\ db[c] \in Db /\ db[c].cell.ver \in Nat
                          /\ \A s \in Device : db[c].grant[s].ver \in Nat
                          /\ Fit(db[c]) /\ Blank(db[c])
        OBVIOUS
      <3>1. TypeOK /\ db[c] \in Held /\ Fit(db[c]) /\ Blank(db[c])
        BY <2>1 DEF AllFit, Copies
      <3>2. db[c] \in Db /\ db[c].cell \in Row /\ \A s \in Device : db[c].grant[s].ver \in Nat
        BY <3>1, HeldType
      <3>3. db[c].cell.ver \in Nat
        BY <3>2 DEF Row
      <3> QED
        BY <3>1, <3>2, <3>3
    <2>3. \A b, c \in Device :
            db[c].root # Nobody /\ db[b].root \in {Nobody, db[c].root} =>
              SameTables(MergeDb(db[b], db[c]), db[b])
      BY <2>2, FitAccepted
    <2>4. ASSUME NEW b \in Device, NEW c \in Device, db[c].root # Nobody
          PROVE  db[b].root = db[c].root
      <3>1. db[b].root \in {Nobody, db[c].root}
        BY <2>2, <2>4 DEF Fit, Calm, OneFounder
      <3>2. MergeDb(db[b], db[c]).root = db[c].root
        BY <2>1, <2>4, <3>1, MergedGrants
      <3> QED
        BY <2>3, <2>4, <3>1, <3>2 DEF SameTables
    <2>5. CASE db[d].root = Nobody /\ db[e].root = Nobody
      <3>1. db[d].cell = db[e].cell /\ \A s \in Device : db[d].grant[s] = db[e].grant[s]
        BY <2>2, <2>5 DEF Blank
      <3> QED
        BY <2>2, <2>5, <3>1, SameGrants DEF SameTables
    <2>6. CASE db[d].root # Nobody \/ db[e].root # Nobody
      <3>1. db[d].root = db[e].root /\ db[d].root # Nobody
        BY <2>4, <2>6
      <3>2. SameTables(MergeDb(db[d], db[e]), db[d]) /\ SameTables(MergeDb(db[e], db[d]), db[e])
        BY <2>3, <3>1
      <3>3. /\ MergeDb(db[d], db[e]).cell =
                 IF db[e].cell.ver > db[d].cell.ver THEN db[e].cell ELSE db[d].cell
            /\ MergeDb(db[e], db[d]).cell =
                 IF db[d].cell.ver > db[e].cell.ver THEN db[d].cell ELSE db[e].cell
            /\ db[d].cell.ver = db[e].cell.ver => db[d].cell = db[e].cell
        BY <2>1, <3>1, FitMerge
      <3>4. db[d].cell = db[e].cell
        BY <2>2, <3>2, <3>3 DEF SameTables
      <3>5. ASSUME NEW s \in Device PROVE db[d].grant[s] = db[e].grant[s]
        <4>1. /\ MergeDb(db[d], db[e]).grant[s] =
                   IF db[e].grant[s].ver > db[d].grant[s].ver THEN db[e].grant[s] ELSE db[d].grant[s]
              /\ MergeDb(db[e], db[d]).grant[s] =
                   IF db[d].grant[s].ver > db[e].grant[s].ver THEN db[d].grant[s] ELSE db[e].grant[s]
              /\ db[d].grant[s].ver = db[e].grant[s].ver => db[d].grant[s] = db[e].grant[s]
          BY <2>1, <3>1, MergedGrants
        <4>2. /\ MergeDb(db[d], db[e]).grant[s] = db[d].grant[s]
              /\ MergeDb(db[e], db[d]).grant[s] = db[e].grant[s]
          BY <3>2 DEF SameTables
        <4> QED
          BY <2>2, <4>1, <4>2
      <3>6. db[d].grant = db[e].grant
        BY <2>2, <3>5, SameGrants
      <3> QED
        BY <3>1, <3>4, <3>6 DEF SameTables
    <2> QED
      BY <2>5, <2>6
  <1> QED
    BY <1>1, CalmAlways, PTL DEF Spec

================================================================================
