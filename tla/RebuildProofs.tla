----------------------------- MODULE RebuildProofs -----------------------------
(* Proofs about the consensus loop, for any members, records, writes and      *)
(* recordCheckpoint calls that overlap.                                       *)
EXTENDS Rebuild, FiniteSetTheorems, TLAPS

\* Checkpoints as recordCheckpoint makes them: a hash covers the epoch and the
\* parent, and the parent of any but a first one is there, one epoch older.
Linked(cps) ==
    /\ IsFiniteSet(cps)
    /\ \A c \in cps :
        /\ c.epoch \in Nat
        /\ c = [hash |-> c.hash, epoch |-> c.epoch, parent |-> c.parent]
        /\ \E s : c.hash = <<s, c.epoch, c.parent>>
        /\ IF c.epoch = 0 THEN c.parent = Root
           ELSE \E p \in cps : p.hash = c.parent /\ p.epoch = c.epoch - 1

\* What a database holds or a changeset carries.
Content(x) ==
    /\ x.row \in [Record -> [ver : Nat, id : 0 .. MaxWrite]]
    /\ x.gone \subseteq Record
    /\ Linked(x.cps)

IsChangeset(x) == DOMAIN x = {"row", "gone", "cps", "seen"} /\ Content(x)

IsDatabase(x) ==
    /\ DOMAIN x = {"row", "gone", "cps", "seen", "since"} /\ Content(x)
    /\ DOMAIN x.since = {c.hash : c \in x.cps}

\* What recordCheckpoint has read: the epoch after a checkpoint that is there, or
\* that of a first one.
Follows(reading, cps) ==
    LET e == reading[1]
        p == reading[2]
    IN  /\ e \in Nat
        /\ IF e = 0 THEN p = Root ELSE \E x \in cps : x.hash = p /\ x.epoch = e - 1

\* The state has its shape, and the checkpoints everywhere are linked.
Shape ==
    /\ db = [d \in Device |-> db[d]] /\ \A d \in Device : IsDatabase(db[d])
    /\ stage \in [Member -> {"working", "sent", "merged", "sliced", "wiped"}]
    /\ diff = [m \in Member |-> diff[m]] /\ \A m \in Member : IsChangeset(diff[m])
    /\ slice = [m \in Member |-> slice[m]] /\ \A m \in Member : IsChangeset(slice[m])
    /\ recording = [c \in Recorder |-> recording[c]]
    /\ \A c \in Recorder : recording[c] = << >> \/ Follows(recording[c], db[Admin].cps)
    /\ \E S : made \in Seq(S)

\* Cells when no record is written twice, log being the writes: a row is there
\* with its one write, or not, and a write was merged just where its row is.
Single(x, log) ==
    /\ \A r \in Record : x.row[r] # NoRow =>
        /\ x.row[r].ver = 1 /\ x.row[r].id \in DOMAIN log /\ log[x.row[r].id].rec = r
        /\ x.row[r].id \in x.seen
    /\ \A w \in x.seen \ {0} :
        /\ w \in DOMAIN log /\ log[w].rec \in Record
        /\ x.row[log[w].rec] # NoRow

\* No record is written twice.
Once(log) == \A v, w \in DOMAIN log : log[v].rec = log[w].rec => v = w

Has(x, r) == x.row[r] # NoRow

\* What a member has and the coordinator lacks is in the diff it would send.
Unsent(m) ==
    \A h \in DOMAIN db[m].since, r \in Record :
        Has(db[m], r) => Cell(r) \in db[m].since[h] \/ Has(db[Admin], r)

\* Where a member's record is, on its way through a round.
Brought(m, r) ==
    /\ stage[m] = "sent" => Has(diff[m], r) \/ Has(db[Admin], r)
    /\ stage[m] = "merged" => Has(db[Admin], r)
    /\ stage[m] \in {"sliced", "wiped"} => Has(slice[m], r) \/ r \in db[Admin].gone
    /\ stage[m] = "working" => Has(db[m], r) \/ r \in db[Admin].gone

OnItsWay(m) ==
    /\ Unsent(m)
    /\ \A r \in Record : Has(slice[m], r) => Has(db[Admin], r)
    /\ stage[m] = "wiped" => db[m] = Empty
    /\ \A r \in Readable[m] : Has(home[m], r) => Brought(m, r)

\* Nothing is lost on the way.
Traced ==
    /\ home = [m \in Member |-> home[m]]
    /\ \A m \in Member : home[m].row \in [Record -> [ver : Nat, id : 0 .. MaxWrite]]
    /\ Once(made)
    /\ \A d \in Device : Single(db[d], made)
    /\ \A m \in Member : /\ Single(diff[m], made) /\ Single(slice[m], made)
                         /\ Single(home[m], made)
    /\ \A m \in Member : OnItsWay(m)

--------------------------------------------------------------------------------
(* Lemmas about numbers and about the walk over the parent links.             *)

\* A set of numbers that is not empty has a smallest one.
LEMMA Smallest ==
  ASSUME NEW T, T # {}, T \subseteq Nat
  PROVE  \E m \in T : \A x \in T : m <= x
<1>1. PICK m \in T : \A x \in T : <<x, m>> \notin OpToRel(<, Nat)
  BY NatLessThanWellFounded, WFMin, Zenon
<1>2. \A x \in T : m <= x
  <2> SUFFICES ASSUME NEW x \in T, x < m PROVE FALSE
    OBVIOUS
  <2>1. x \in Nat /\ m \in Nat
    OBVIOUS
  <2>2. <<x, m>> \in OpToRel(<, Nat)
    BY <2>1, Zenon DEF OpToRel
  <2> QED
    BY <1>1, <2>2
<1> QED
  BY <1>2

\* f is the walk's first k steps.
Steps(f, cps, h, k) ==
    f = [n \in 1 .. k |-> IF n = 1 THEN h ELSE Parent(cps, f[n - 1])]

\* The definition of the walk has a solution.
LEMMA StepsExist ==
  ASSUME NEW cps, NEW h, NEW k \in Nat
  PROVE  \E f : Steps(f, cps, h, k)
<1> DEFINE T == {n \in Nat : ~ \E f : Steps(f, cps, h, n)}
<1> SUFFICES ASSUME T # {} PROVE FALSE
  OBVIOUS
<1>1. PICK m \in T : \A x \in T : m <= x
  BY Smallest
<1>2. CASE m = 0
  <2> DEFINE f == [n \in 1 .. 0 |-> h]
  <2>1. f = [n \in 1 .. 0 |-> IF n = 1 THEN h ELSE Parent(cps, f[n - 1])]
    OBVIOUS
  <2> QED
    BY <1>2, <2>1, Zenon DEF Steps
<1>3. CASE m # 0
  <2>1. m - 1 \in Nat /\ m - 1 \notin T
    BY <1>1, <1>3
  <2>2. PICK g : Steps(g, cps, h, m - 1)
    BY <2>1
  <2> DEFINE f == [n \in 1 .. m |-> IF n = 1 THEN h ELSE Parent(cps, g[n - 1])]
  <2>3. \A n \in 1 .. m - 1 : g[n] = IF n = 1 THEN h ELSE Parent(cps, g[n - 1])
    BY <2>2 DEF Steps
  <2>4. \A n \in 1 .. m - 1 : f[n] = g[n]
    <3> TAKE n \in 1 .. m - 1
    <3>1. n \in 1 .. m
      BY <2>1
    <3>2. f[n] = IF n = 1 THEN h ELSE Parent(cps, g[n - 1])
      BY <3>1
    <3> QED
      BY <2>3, <3>2, Zenon
  <2>5. \A n \in 1 .. m : n # 1 => f[n - 1] = g[n - 1]
    <3> HIDE DEF f
    <3>1. \A n \in 1 .. m : n # 1 => n - 1 \in 1 .. m - 1
      BY <2>1
    <3> QED
      BY <2>4, <3>1
  <2> DEFINE e(n) == IF n = 1 THEN h ELSE Parent(cps, f[n - 1])
  <2>6. \A n \in 1 .. m : f[n] = e(n)
    <3> TAKE n \in 1 .. m
    <3>1. f[n] = IF n = 1 THEN h ELSE Parent(cps, g[n - 1])
      OBVIOUS
    <3> HIDE DEF f
    <3> QED
      BY <3>1, <2>5, Zenon
  <2>7. f = [n \in 1 .. m |-> f[n]]
    OBVIOUS
  <2> HIDE DEF f
  <2>8. f = [n \in 1 .. m |-> e(n)]
    BY <2>6, <2>7, Zenon
  <2> QED
    BY <2>8, Zenon DEF Steps
<1> QED
  BY <1>2, <1>3

LEMMA WalkSteps ==
  ASSUME NEW cps, IsFiniteSet(cps), NEW h
  PROVE  /\ DOMAIN Walk(cps, h) = 1 .. Cardinality(cps) + 1
         /\ Walk(cps, h)[1] = h
         /\ \A n \in 1 .. Cardinality(cps) :
                Walk(cps, h)[n + 1] = Parent(cps, Walk(cps, h)[n])
<1> DEFINE N == Cardinality(cps) + 1
<1>1. N \in Nat /\ Cardinality(cps) \in Nat
  BY FS_CardinalityType
<1>2. \E f : f = [n \in 1 .. N |-> IF n = 1 THEN h ELSE Parent(cps, f[n - 1])]
  <2> HIDE DEF N
  <2>1. \E f : Steps(f, cps, h, N)
    BY <1>1, StepsExist
  <2> QED
    BY <2>1, Zenon DEF Steps
<1>3. Walk(cps, h) = [n \in 1 .. N |-> IF n = 1 THEN h ELSE Parent(cps, Walk(cps, h)[n - 1])]
  BY <1>2, Zenon DEF Walk
<1> DEFINE up == Walk(cps, h)
<1> HIDE DEF up
<1>4. up = [n \in 1 .. N |-> IF n = 1 THEN h ELSE Parent(cps, up[n - 1])]
  BY <1>3, Zenon DEF up
<1>5. DOMAIN up = 1 .. N /\ up[1] = h
  BY <1>1, <1>4
<1>6. ASSUME NEW n \in 1 .. Cardinality(cps) PROVE up[n + 1] = Parent(cps, up[n])
  <2>1. n + 1 \in 1 .. N /\ n + 1 # 1 /\ (n + 1) - 1 = n
    BY <1>1
  <2>2. up[n + 1] = Parent(cps, up[(n + 1) - 1])
    BY <1>4, <2>1
  <2> QED
    BY <2>1, <2>2
<1> QED
  BY <1>5, <1>6 DEF up

\* A checkpoint leads to its parent, and nothing else leads anywhere.
LEMMA ParentLink ==
  ASSUME NEW cps, Linked(cps)
  PROVE  /\ \A c \in cps : Parent(cps, c.hash) = c.parent
         /\ \A c, d \in cps : c.hash = d.hash => c = d
         /\ \A c \in cps : c.hash # Root
         /\ Parent(cps, Root) = Root
<1>1. \A c, d \in cps : c.hash = d.hash => c = d
  <2> SUFFICES ASSUME NEW c \in cps, NEW d \in cps, c.hash = d.hash PROVE c = d
    OBVIOUS
  <2>1. PICK s : c.hash = <<s, c.epoch, c.parent>>
    BY DEF Linked
  <2>2. PICK t : d.hash = <<t, d.epoch, d.parent>>
    BY DEF Linked
  <2>3. c.epoch = d.epoch /\ c.parent = d.parent
    <3>1. c.hash[2] = c.epoch /\ c.hash[3] = c.parent
      BY <2>1
    <3>2. d.hash[2] = d.epoch /\ d.hash[3] = d.parent
      BY <2>2
    <3> QED
      BY <3>1, <3>2
  <2>4. /\ c = [hash |-> c.hash, epoch |-> c.epoch, parent |-> c.parent]
        /\ d = [hash |-> d.hash, epoch |-> d.epoch, parent |-> d.parent]
    BY DEF Linked
  <2> QED
    BY <2>3, <2>4, Zenon
<1>2. ASSUME NEW c \in cps PROVE Parent(cps, c.hash) = c.parent
  <2>1. \E d \in cps : d.hash = c.hash
    OBVIOUS
  <2>2. ByHash(cps, c.hash) \in cps /\ ByHash(cps, c.hash).hash = c.hash
    BY <2>1, Zenon DEF ByHash
  <2>3. ByHash(cps, c.hash) = c
    BY <1>1, <2>2, Zenon
  <2>4. c.hash \in {d.hash : d \in cps}
    OBVIOUS
  <2> QED
    BY <2>3, <2>4, Zenon DEF Parent
<1>3. ASSUME NEW c \in cps PROVE c.hash # Root
  <2>1. PICK s : c.hash = <<s, c.epoch, c.parent>>
    BY DEF Linked
  <2> QED
    BY <2>1 DEF Root
<1>4. Parent(cps, Root) = Root
  <2>1. Root \notin {c.hash : c \in cps}
    BY <1>3
  <2> QED
    BY <2>1, Zenon DEF Parent
<1> QED
  BY <1>1, <1>2, <1>3, <1>4

\* Where the walk from c is after n steps: at a checkpoint as old as n says, or
\* past the first one.
LEMMA WalkGoesBack ==
  ASSUME NEW cps, Linked(cps), NEW c \in cps, NEW n \in 1 .. Cardinality(cps) + 1
  PROVE  LET h == Walk(cps, c.hash)[n]
         IN  IF n <= c.epoch + 1 THEN \E x \in cps : x.hash = h /\ x.epoch = c.epoch + 1 - n
             ELSE h = Root
<1> DEFINE up == Walk(cps, c.hash)
           N == Cardinality(cps)
           Back(k) == IF k <= c.epoch + 1
                      THEN \E x \in cps : x.hash = up[k] /\ x.epoch = c.epoch + 1 - k
                      ELSE up[k] = Root
           T == {k \in 1 .. N + 1 : ~ Back(k)}
<1> SUFFICES ASSUME T # {} PROVE FALSE
  BY Zenon
<1>1. IsFiniteSet(cps) /\ N \in Nat /\ c.epoch \in Nat
  BY FS_CardinalityType DEF Linked
<1>2. /\ up[1] = c.hash
      /\ \A k \in 1 .. N : up[k + 1] = Parent(cps, up[k])
  BY <1>1, WalkSteps
<1> HIDE DEF up, N
<1>3. T \subseteq Nat
  BY <1>1
<1>4. PICK k \in T : \A x \in T : k <= x
  BY <1>3, Smallest
<1>5. k \in 1 .. N + 1 /\ ~ Back(k)
  OBVIOUS
<1>6. CASE k = 1
  <2>1. 1 <= c.epoch + 1 /\ c.epoch = c.epoch + 1 - 1
    BY <1>1
  <2>2. Back(1)
    BY <1>2, <2>1
  <2> QED
    BY <1>5, <1>6, <2>2
<1>7. CASE k # 1
  <2> DEFINE j == k - 1
  <2>1. j \in 1 .. N /\ k = j + 1 /\ j \in 1 .. N + 1 /\ ~ (k <= j)
    BY <1>1, <1>5, <1>7
  <2>2. Back(j)
    BY <1>4, <2>1
  <2>3. up[k] = Parent(cps, up[j])
    BY <1>2, <2>1
  <2> HIDE DEF j
  <2>4. CASE j <= c.epoch + 1
    <3>1. PICK x \in cps : x.hash = up[j] /\ x.epoch = c.epoch + 1 - j
      BY <2>2, <2>4
    <3>2. up[k] = x.parent
      BY <2>3, <3>1, ParentLink
    <3>3. CASE x.epoch = 0
      <4>1. x.parent = Root
        BY <3>3 DEF Linked
      <4>2. ~ (k <= c.epoch + 1)
        BY <1>1, <2>1, <3>1, <3>3
      <4> QED
        BY <1>5, <3>2, <4>1, <4>2
    <3>4. CASE x.epoch # 0
      <4>1. PICK p \in cps : p.hash = x.parent /\ p.epoch = x.epoch - 1
        BY <3>4 DEF Linked
      <4>2. x.epoch \in Nat
        BY DEF Linked
      <4>3. p.epoch = c.epoch + 1 - k /\ k <= c.epoch + 1
        BY <1>1, <2>1, <3>1, <3>4, <4>1, <4>2
      <4> QED
        BY <1>5, <3>2, <4>1, <4>3
    <3> QED
      BY <3>3, <3>4
  <2>5. CASE ~ (j <= c.epoch + 1)
    <3>1. up[k] = Root
      BY <2>2, <2>3, <2>5, ParentLink
    <3>2. ~ (k <= c.epoch + 1)
      BY <1>1, <2>1, <2>5
    <3> QED
      BY <1>5, <3>1, <3>2
  <2> QED
    BY <2>4, <2>5
<1> QED
  BY <1>6, <1>7

\* There are as many checkpoints as a chain is long.
LEMMA ChainFits ==
  ASSUME NEW cps, Linked(cps), NEW c \in cps
  PROVE  c.epoch + 1 <= Cardinality(cps)
<1> DEFINE N == Cardinality(cps)
           up == Walk(cps, c.hash)
<1>1. IsFiniteSet(cps) /\ N \in Nat /\ c.epoch \in Nat
  BY FS_CardinalityType DEF Linked
<1> SUFFICES ASSUME N + 1 <= c.epoch + 1 PROVE FALSE
  BY <1>1
<1>2. \A n \in 1 .. N + 1 : \E x \in cps : x.hash = up[n] /\ x.epoch = c.epoch + 1 - n
  <2> TAKE n \in 1 .. N + 1
  <2>1. n <= c.epoch + 1
    BY <1>1
  <2> QED
    BY <2>1, WalkGoesBack
<1> DEFINE at == [n \in 1 .. N + 1 |-> CHOOSE x \in cps : x.epoch = c.epoch + 1 - n]
<1>3. \A n \in 1 .. N + 1 : at[n] \in cps /\ at[n].epoch = c.epoch + 1 - n
  <2> TAKE n \in 1 .. N + 1
  <2>1. \E x \in cps : x.epoch = c.epoch + 1 - n
    BY <1>2
  <2>2. at[n] = CHOOSE x \in cps : x.epoch = c.epoch + 1 - n
    OBVIOUS
  <2> QED
    BY <2>1, <2>2, Zenon
<1>4. at \in [1 .. N + 1 -> cps]
  <2>1. at = [n \in 1 .. N + 1 |-> at[n]]
    OBVIOUS
  <2> HIDE DEF at
  <2> QED
    BY <1>3, <2>1
<1>5. IsFiniteSet(1 .. N + 1) /\ Cardinality(1 .. N + 1) = N + 1
  BY <1>1, FS_Interval
<1> HIDE DEF at
<1>6. PICK x, y \in 1 .. N + 1 : x # y /\ at[x] = at[y]
  <2>1. Cardinality(cps) < Cardinality(1 .. N + 1)
    BY <1>1, <1>5
  <2> HIDE DEF N
  <2> QED
    BY <1>1, <1>4, <1>5, <2>1, FS_PigeonHole
<1>7. at[x].epoch = c.epoch + 1 - x /\ at[y].epoch = c.epoch + 1 - y
  BY <1>3
<1> QED
  BY <1>1, <1>6, <1>7

\* The chain of c is the walk down to epoch 0.
LEMMA ChainIsWalk ==
  ASSUME NEW cps, Linked(cps), NEW c \in cps
  PROVE  LET chain == chainFrom(cps, c.hash)
         IN  /\ Len(chain) = c.epoch + 1
             /\ DOMAIN chain = 1 .. c.epoch + 1
             /\ \A n \in 1 .. c.epoch + 1 : chain[n] = Walk(cps, c.hash)[n]
<1> DEFINE N == Cardinality(cps)
           up == Walk(cps, c.hash)
           cut == SubSeq(up, 1, N + 1)
           known == {n \in DOMAIN cut : cut[n] \in {x.hash : x \in cps}}
<1>1. IsFiniteSet(cps) /\ N \in Nat /\ c.epoch \in Nat /\ c.epoch + 1 <= N
  BY FS_CardinalityType, ChainFits DEF Linked
<1>2. DOMAIN cut = 1 .. N + 1 /\ \A n \in 1 .. N + 1 : cut[n] = up[n]
  <2> HIDE DEF N, up
  <2> QED
    BY <1>1
<1> HIDE DEF cut
<1>3. ASSUME NEW n \in 1 .. N + 1 PROVE n \in known <=> n <= c.epoch + 1
  <2>1. CASE n <= c.epoch + 1
    BY <1>2, <2>1, WalkGoesBack
  <2>2. CASE ~ (n <= c.epoch + 1)
    <3>1. up[n] = Root
      BY <2>2, WalkGoesBack
    <3> HIDE DEF up
    <3>2. up[n] \notin {x.hash : x \in cps}
      BY <3>1, ParentLink
    <3>3. cut[n] = up[n]
      BY <1>2
    <3> QED
      BY <2>2, <3>2, <3>3
  <2> QED
    BY <2>1, <2>2
<1>4. known \subseteq 1 .. N + 1
  BY <1>2
<1> HIDE DEF known
<1>5. known = 1 .. c.epoch + 1
  <2> HIDE DEF N
  <2>1. \A n \in 1 .. c.epoch + 1 : n \in 1 .. N + 1 /\ n <= c.epoch + 1
    BY <1>1
  <2>2. \A n \in 1 .. N + 1 : n <= c.epoch + 1 => n \in 1 .. c.epoch + 1
    BY <1>1
  <2> QED
    BY <1>3, <1>4, <2>1, <2>2
<1>6. Cardinality(known) = c.epoch + 1
  BY <1>1, <1>5, FS_Interval, SMTT(30)
<1>7. chainFrom(cps, c.hash) = SubSeq(cut, 1, c.epoch + 1)
  BY <1>6, Zenon DEF chainFrom, known, cut
<1> HIDE DEF up
<1> DEFINE e == c.epoch + 1
<1>8. e \in Nat /\ 1 <= e /\ \A n \in 1 .. e : n \in 1 .. N + 1
  <2> HIDE DEF N
  <2> QED
    BY <1>1
<1> HIDE DEF e
<1> DEFINE chain == SubSeq(cut, 1, e)
<1>9. /\ Len(chain) = e /\ DOMAIN chain = 1 .. e
      /\ \A n \in 1 .. e : chain[n] = up[n]
  <2>1. /\ Len(chain) = e /\ DOMAIN chain = 1 .. e
        /\ \A n \in 1 .. e : chain[n] = cut[n]
    BY <1>8
  <2> HIDE DEF chain, N
  <2> QED
    BY <1>2, <1>8, <2>1
<1> HIDE DEF chain
<1> QED
  BY <1>7, <1>9, Zenon DEF e, up, chain

\* Who is on a chain, by its place on the walk.
LEMMA OnChain ==
  ASSUME NEW cps, Linked(cps), NEW a \in cps, NEW h
  PROVE  isDescendant(cps, a.hash, h) <=> \E n \in 1 .. a.epoch + 1 : Walk(cps, a.hash)[n] = h
<1> DEFINE chain == chainFrom(cps, a.hash)
<1>1. /\ DOMAIN chain = 1 .. a.epoch + 1
      /\ \A n \in 1 .. a.epoch + 1 : chain[n] = Walk(cps, a.hash)[n]
  BY ChainIsWalk
<1>2. isDescendant(cps, a.hash, h) <=> \E n \in DOMAIN chain : chain[n] = h
  BY DEF isDescendant, ToSet
<1> QED
  BY <1>1, <1>2

\* The chain of a checkpoint on a chain is the rest of that chain.
LEMMA ChainRest ==
  ASSUME NEW cps, Linked(cps), NEW a \in cps, NEW x \in cps,
         NEW i \in 1 .. a.epoch + 1, Walk(cps, a.hash)[i] = x.hash,
         NEW k \in 1 .. x.epoch + 1
  PROVE  Walk(cps, a.hash)[i + k - 1] = Walk(cps, x.hash)[k]
<1> DEFINE N == Cardinality(cps)
           up == Walk(cps, a.hash)
           rest == Walk(cps, x.hash)
           T == {n \in 1 .. x.epoch + 1 : up[i + n - 1] # rest[n]}
<1> SUFFICES ASSUME T # {} PROVE FALSE
  OBVIOUS
<1>1. /\ IsFiniteSet(cps) /\ N \in Nat /\ a.epoch \in Nat /\ x.epoch \in Nat
      /\ a.epoch + 1 <= N /\ x.epoch + 1 <= N
  BY FS_CardinalityType, ChainFits DEF Linked
<1>2. x.epoch = a.epoch + 1 - i
  <2>1. i \in 1 .. N + 1 /\ i <= a.epoch + 1
    BY <1>1
  <2>2. PICK y \in cps : y.hash = up[i] /\ y.epoch = a.epoch + 1 - i
    BY <2>1, WalkGoesBack
  <2> QED
    BY <2>2, ParentLink
<1>3. /\ \A n \in 1 .. N : up[n + 1] = Parent(cps, up[n])
      /\ \A n \in 1 .. N : rest[n + 1] = Parent(cps, rest[n])
      /\ rest[1] = x.hash
  <2>1. \A n \in 1 .. N : up[n + 1] = Parent(cps, up[n])
    BY <1>1, WalkSteps
  <2>2. /\ \A n \in 1 .. N : rest[n + 1] = Parent(cps, rest[n])
        /\ rest[1] = x.hash
    BY <1>1, WalkSteps, SMTT(30)
  <2> QED
    BY <2>1, <2>2
<1>4. up[i] = x.hash
  OBVIOUS
<1> HIDE DEF up, rest, N
<1>5. T \subseteq Nat
  BY <1>1
<1>6. PICK n \in T : \A y \in T : n <= y
  BY <1>5, Smallest
<1>7. n \in 1 .. x.epoch + 1 /\ up[i + n - 1] # rest[n]
  OBVIOUS
<1>8. n # 1
  <2>1. i + 1 - 1 = i
    BY <1>1
  <2> QED
    BY <1>3, <1>4, <1>7, <2>1
<1>9. n - 1 \in 1 .. x.epoch + 1 /\ n - 1 \in 1 .. N /\ ~ (n <= n - 1)
  BY <1>1, <1>7, <1>8
<1>10. up[i + (n - 1) - 1] = rest[n - 1]
  BY <1>6, <1>9
<1>11. /\ i + (n - 1) - 1 \in 1 .. N
       /\ (i + (n - 1) - 1) + 1 = i + n - 1 /\ (n - 1) + 1 = n
  BY <1>1, <1>2, <1>7, <1>8
<1>12. up[i + n - 1] = Parent(cps, up[i + (n - 1) - 1]) /\ rest[n] = Parent(cps, rest[n - 1])
  BY <1>3, <1>9, <1>11
<1> QED
  BY <1>7, <1>10, <1>12

\* mergeBase of two checkpoints with a common ancestor: no later one is common.
LEMMA LatestCommon ==
  ASSUME NEW cps, Linked(cps), NEW a \in cps, NEW b \in cps, NEW h,
         isDescendant(cps, a.hash, h), isDescendant(cps, b.hash, h)
  PROVE  isDescendant(cps, mergeBase(cps, a.hash, b.hash), h)
<1> DEFINE up == Walk(cps, a.hash)
           T == Common(chainFrom(cps, a.hash), chainFrom(cps, b.hash))
<1>1. a.epoch \in Nat
  BY DEF Linked
<1>2. /\ DOMAIN chainFrom(cps, a.hash) = 1 .. a.epoch + 1
      /\ \A n \in 1 .. a.epoch + 1 : chainFrom(cps, a.hash)[n] = up[n]
  BY ChainIsWalk
<1>3. PICK j \in 1 .. a.epoch + 1 : up[j] = h
  BY OnChain
<1>4. T \subseteq 1 .. a.epoch + 1 /\ j \in T
  BY <1>2, <1>3 DEF Common, isDescendant
<1>5. Min(T) \in T /\ Min(T) <= j
  <2> HIDE DEF T
  <2>1. T # {} /\ T \subseteq Nat
    BY <1>1, <1>4
  <2>2. \E m \in T : \A x \in T : m <= x
    BY <2>1, Smallest
  <2>3. Min(T) = CHOOSE m \in T : \A x \in T : m =< x
    BY DEF Min
  <2> QED
    BY <1>4, <2>2, <2>3
<1> DEFINE i == Min(T)
<1>6. i \in 1 .. a.epoch + 1 /\ i <= j
  BY <1>4, <1>5
<1>7. mergeBase(cps, a.hash, b.hash) = up[i]
  BY <1>2, <1>4, <1>6 DEF mergeBase
<1> HIDE DEF i, T
<1>8. PICK x \in cps : x.hash = up[i] /\ x.epoch = a.epoch + 1 - i
  <2>1. i \in 1 .. Cardinality(cps) + 1 /\ i <= a.epoch + 1
    <3>1. a.epoch + 1 <= Cardinality(cps) /\ Cardinality(cps) \in Nat
      BY ChainFits, FS_CardinalityType DEF Linked
    <3> QED
      BY <1>1, <1>6, <3>1
  <2> QED
    BY <2>1, WalkGoesBack
<1> DEFINE k == j - i + 1
<1>9. k \in 1 .. x.epoch + 1 /\ i + k - 1 = j
  BY <1>1, <1>3, <1>6, <1>8
<1>10. Walk(cps, x.hash)[k] = h
  <2> HIDE DEF k
  <2>1. Walk(cps, a.hash)[i + k - 1] = Walk(cps, x.hash)[k]
    BY <1>6, <1>8, <1>9, ChainRest
  <2> QED
    BY <1>3, <1>9, <2>1
<1> QED
  BY <1>7, <1>8, <1>9, <1>10, OnChain

--------------------------------------------------------------------------------
(* The shape of the state.                                                    *)

LEMMA LinkedUnion ==
  ASSUME NEW A, NEW B, Linked(A), Linked(B)
  PROVE  Linked(A \cup B)
<1>1. IsFiniteSet(A \cup B)
  BY FS_Union DEF Linked
<1> QED
  BY <1>1 DEF Linked

LEMMA NothingIsChangeset == MaxWrite \in Nat => IsChangeset(Nothing)
<1> SUFFICES ASSUME MaxWrite \in Nat PROVE IsChangeset(Nothing)
  OBVIOUS
<1>1. Linked({})
  BY FS_EmptySet DEF Linked
<1>2. NoRows \in [Record -> [ver : Nat, id : 0 .. MaxWrite]]
  BY DEF NoRows, NoRow
<1> HIDE DEF NoRows
<1> QED
  BY <1>1, <1>2 DEF Nothing, IsChangeset, Content

LEMMA EmptyIsDatabase == MaxWrite \in Nat => IsDatabase(Empty)
<1> SUFFICES ASSUME MaxWrite \in Nat PROVE IsDatabase(Empty)
  OBVIOUS
<1>1. Linked({})
  BY FS_EmptySet DEF Linked
<1>2. NoRows \in [Record -> [ver : Nat, id : 0 .. MaxWrite]]
  BY DEF NoRows, NoRow
<1> QED
  BY <1>1, <1>2 DEF Empty, IsDatabase, Content

LEMMA ImportedIsDatabase ==
  ASSUME NEW d, NEW in, Content(d), Content(in)
  PROVE  IsDatabase(Imported(d, in))
<1> DEFINE new == Imported(d, in)
<1>1. DOMAIN new = {"row", "gone", "cps", "seen", "since"}
  BY DEF Imported
<1>2. new.row \in [Record -> [ver : Nat, id : 0 .. MaxWrite]]
  BY DEF Imported, Content
<1>3. new.gone \subseteq Record
  BY DEF Imported, Content
<1>4. new.cps = d.cps \cup in.cps
  BY DEF Imported
<1>5. Linked(new.cps)
  BY <1>4, LinkedUnion DEF Content
<1>6. DOMAIN new.since = {c.hash : c \in new.cps}
  BY DEF Imported, Watermarked
<1> QED
  BY <1>1, <1>2, <1>3, <1>5, <1>6 DEF IsDatabase, Content

LEMMA ExportIsChangeset ==
  ASSUME NEW d, IsDatabase(d), NEW h, MaxWrite \in Nat
  PROVE  IsChangeset(ExportSince(d, h))
<1>1. CASE h = Root
  <2>1. ExportSince(d, h) = [x \in {"row", "gone", "cps", "seen"} |-> d[x]]
    BY <1>1 DEF ExportSince, Nothing
  <2> QED
    BY <2>1 DEF IsChangeset, IsDatabase, Content
<1>2. CASE h # Root
  <2> DEFINE out == ExportSince(d, h)
  <2>1. /\ DOMAIN out = {"row", "gone", "cps", "seen"}
        /\ out.row = [r \in Record |-> IF Cell(r) \in d.since[h] THEN d.row[r] ELSE NoRow]
        /\ out.gone \subseteq d.gone
        /\ out.cps = {}
    BY <1>2 DEF ExportSince
  <2> HIDE DEF out
  <2>2. out.row \in [Record -> [ver : Nat, id : 0 .. MaxWrite]]
    BY <2>1 DEF NoRow, IsDatabase, Content
  <2>3. Linked({})
    BY FS_EmptySet DEF Linked
  <2> QED
    BY <2>1, <2>2, <2>3 DEF IsChangeset, IsDatabase, Content, out
<1> QED
  BY <1>1, <1>2

LEMMA ShapeInit == MaxWrite \in Nat /\ Init => Shape
<1> SUFFICES ASSUME MaxWrite \in Nat, Init PROVE Shape
  OBVIOUS
<1> USE DEF Init
<1>1. db = [d \in Device |-> db[d]] /\ \A d \in Device : IsDatabase(db[d])
  BY EmptyIsDatabase
<1>2. /\ diff = [m \in Member |-> diff[m]] /\ \A m \in Member : IsChangeset(diff[m])
      /\ slice = [m \in Member |-> slice[m]] /\ \A m \in Member : IsChangeset(slice[m])
  BY NothingIsChangeset
<1>3. made \in Seq({})
  OBVIOUS
<1> QED
  BY <1>1, <1>2, <1>3 DEF Shape

\* One database becomes another, which has the checkpoints it had.
LEMMA DatabaseStep ==
  ASSUME Shape, NEW d \in Device, NEW new, IsDatabase(new), db' = [db EXCEPT ![d] = new],
         db[d].cps \subseteq new.cps \/ d # Admin
  PROVE  /\ db' = [e \in Device |-> db'[e]] /\ \A e \in Device : IsDatabase(db'[e])
         /\ \A c \in Recorder : recording[c] = << >> \/ Follows(recording[c], db'[Admin].cps)
<1>1. db' = [e \in Device |-> db'[e]] /\ \A e \in Device : IsDatabase(db'[e])
  BY DEF Shape
<1>2. Admin \in Device
  BY DEF Device
<1>3. db[Admin].cps \subseteq db'[Admin].cps
  BY <1>2 DEF Shape
<1>4. ASSUME NEW c \in Recorder, recording[c] # << >>
      PROVE  Follows(recording[c], db'[Admin].cps)
  <2>1. Follows(recording[c], db[Admin].cps)
    BY <1>4 DEF Shape
  <2> QED
    BY <1>3, <2>1 DEF Follows
<1> QED
  BY <1>1, <1>4

LEMMA ShapeWrite ==
  ASSUME Params, Shape, NEW d \in Device, NEW r \in Record, Write(d, r)
  PROVE  Shape'
<1> DEFINE w == Len(made) + 1
           cellRow == [ver |-> db[d].row[r].ver + 1, id |-> w]
           new == [db[d] EXCEPT !.row[r] = cellRow,
                                !.seen = @ \cup {w},
                                !.since = Touched(@, {Cell(r)})]
<1>1. db' = [db EXCEPT ![d] = new]
  BY DEF Write
<1>2. IsDatabase(db[d]) /\ MaxWrite \in Nat
  BY DEF Shape, Params
<1>3. PICK S : made \in Seq(S)
  BY DEF Shape
<1>4. w \in 0 .. MaxWrite
  BY <1>2, <1>3 DEF Write
<1>5. PICK over : made' = Append(made, over)
  BY DEF Write
<1> HIDE DEF w
<1>6. /\ DOMAIN new = {"row", "gone", "cps", "seen", "since"}
      /\ new.row = [db[d].row EXCEPT ![r] = cellRow]
      /\ new.gone = db[d].gone /\ new.cps = db[d].cps
      /\ new.since = Touched(db[d].since, {Cell(r)})
  BY <1>2 DEF IsDatabase
<1> HIDE DEF new
<1>7. new.row \in [Record -> [ver : Nat, id : 0 .. MaxWrite]]
  BY <1>2, <1>4, <1>6 DEF IsDatabase, Content
<1>8. IsDatabase(new)
  BY <1>2, <1>6, <1>7 DEF IsDatabase, Content, Touched
<1>9. made' \in Seq(S \cup {over})
  BY <1>3, <1>5
<1>10. /\ db' = [e \in Device |-> db'[e]] /\ \A e \in Device : IsDatabase(db'[e])
       /\ \A c \in Recorder : recording[c] = << >> \/ Follows(recording[c], db'[Admin].cps)
  BY <1>1, <1>6, <1>8, DatabaseStep
<1> QED
  BY <1>9, <1>10 DEF Shape, Write

LEMMA ShapeArchive ==
  ASSUME Shape, NEW d \in Device, NEW r \in Record, archiveRecord(d, r)
  PROVE  Shape'
<1> DEFINE new == [db[d] EXCEPT !.gone = @ \cup {r}, !.since = Touched(@, {Gone(r)})]
<1>1. db' = [db EXCEPT ![d] = new]
  BY DEF archiveRecord
<1>2. IsDatabase(db[d])
  BY DEF Shape
<1>3. IsDatabase(new) /\ new.cps = db[d].cps
  BY <1>2 DEF IsDatabase, Content, Touched
<1> HIDE DEF new
<1>4. /\ db' = [e \in Device |-> db'[e]] /\ \A e \in Device : IsDatabase(db'[e])
      /\ \A c \in Recorder : recording[c] = << >> \/ Follows(recording[c], db'[Admin].cps)
  BY <1>1, <1>3, DatabaseStep
<1> QED
  BY <1>4 DEF Shape, archiveRecord

\* A device imports a changeset: Sync, MergeDiff and Rejoin.
LEMMA ShapeImport ==
  ASSUME Shape, NEW d \in Device, NEW in, Content(in),
         db' = [db EXCEPT ![d] = Imported(@, in)]
  PROVE  /\ db' = [e \in Device |-> db'[e]] /\ \A e \in Device : IsDatabase(db'[e])
         /\ \A c \in Recorder : recording[c] = << >> \/ Follows(recording[c], db'[Admin].cps)
<1> DEFINE new == Imported(db[d], in)
<1>1. db' = [db EXCEPT ![d] = new]
  OBVIOUS
<1>2. IsDatabase(new)
  BY ImportedIsDatabase DEF Shape, IsDatabase
<1>3. db[d].cps \subseteq new.cps
  BY DEF Imported
<1> HIDE DEF new
<1> QED
  BY <1>1, <1>2, <1>3, DatabaseStep

\* The next epoch is that of the newest checkpoint, plus one.
LEMMA NextEpoch ==
  ASSUME NEW cps, Linked(cps), NEW parent \in Tips(cps)
  PROVE  Follows(<<Max({-1} \cup {x.epoch : x \in cps}) + 1, parent>>, cps)
<1> DEFINE T == {-1} \cup {x.epoch : x \in cps}
<1>1. Max(T) = CHOOSE x \in T : \A y \in T : x >= y
  BY DEF Max
<1>2. CASE cps = {}
  <2>1. T = {-1} /\ parent = Root
    BY <1>2 DEF Tips
  <2>2. Max(T) = -1
    BY <1>1, <2>1
  <2>3. Max(T) + 1 = 0
    BY <2>2
  <2> HIDE DEF T
  <2> QED
    BY <2>1, <2>3 DEF Follows, T
<1>3. CASE cps # {}
  <2>1. PICK x \in cps : parent = x.hash /\ \A y \in cps : y.epoch <= x.epoch
    BY <1>3 DEF Tips
  <2>2. x.epoch \in Nat /\ \A y \in cps : y.epoch \in Nat
    BY DEF Linked
  <2>3. x.epoch \in T /\ \A y \in T : y \in Int /\ x.epoch >= y
    BY <2>1, <2>2
  <2> HIDE DEF T
  <2>4. Max(T) = x.epoch
    BY <1>1, <2>2, <2>3
  <2>5. Max(T) + 1 \in Nat /\ Max(T) + 1 # 0 /\ x.epoch = (Max(T) + 1) - 1
    BY <2>2, <2>4
  <2> QED
    BY <2>1, <2>5 DEF Follows, T
<1> QED
  BY <1>2, <1>3

LEMMA ShapeReadChain ==
  ASSUME Shape, NEW c \in Recorder, ReadChain(c)
  PROVE  Shape'
<1>1. Linked(db[Admin].cps)
  BY DEF Shape, IsDatabase, Content, Device
<1>2. PICK reading : /\ recording' = [recording EXCEPT ![c] = reading]
                     /\ Follows(reading, db[Admin].cps)
  BY <1>1, NextEpoch DEF ReadChain
<1>3. recording' = [e \in Recorder |-> recording'[e]]
  BY <1>2 DEF Shape
<1>4. \A e \in Recorder : recording'[e] = << >> \/ Follows(recording'[e], db[Admin].cps)
  BY <1>2 DEF Shape
<1> QED
  BY <1>3, <1>4 DEF Shape, ReadChain

\* A checkpoint that follows what is there can be added to it.
LEMMA LinkedAdd ==
  ASSUME NEW cps, Linked(cps), NEW reading, Follows(reading, cps), NEW s
  PROVE  Linked(cps \cup {[hash |-> <<s, reading[1], reading[2]>>,
                           epoch |-> reading[1], parent |-> reading[2]]})
<1> DEFINE e == reading[1]
           p == reading[2]
           c == [hash |-> <<s, e, p>>, epoch |-> e, parent |-> p]
<1>1. /\ e \in Nat
      /\ IF e = 0 THEN p = Root ELSE \E x \in cps : x.hash = p /\ x.epoch = e - 1
  BY DEF Follows
<1> HIDE DEF e, p
<1>3. IsFiniteSet(cps \cup {c})
  BY FS_AddElement DEF Linked
<1>4. Linked(cps \cup {c})
  BY <1>1, <1>3, SMTT(30) DEF Linked
<1> QED
  BY <1>4 DEF e, p

LEMMA ShapeRecord ==
  ASSUME Shape, NEW c \in Recorder, RecordCheckpoint(c)
  PROVE  Shape'
<1> DEFINE cps == db[Admin].cps \cup
                    {[hash |-> <<stateRoot(db[Admin]), recording[c][1], recording[c][2]>>,
                      epoch |-> recording[c][1], parent |-> recording[c][2]]}
           new == [db[Admin] EXCEPT !.cps = cps, !.since = Watermarked(@, cps)]
<1>1. db' = [db EXCEPT ![Admin] = new]
  BY DEF RecordCheckpoint
<1>2. IsDatabase(db[Admin]) /\ Admin \in Device
  BY DEF Shape, Device
<1>3. Linked(cps)
  <2>1. Follows(recording[c], db[Admin].cps)
    BY DEF RecordCheckpoint, Shape
  <2> QED
    BY <1>2, <2>1, LinkedAdd DEF IsDatabase, Content
<1>4. db[Admin].cps \subseteq cps
  OBVIOUS
<1> HIDE DEF cps
<1>5. IsDatabase(new) /\ new.cps = cps
  BY <1>2, <1>3 DEF IsDatabase, Content, Watermarked
<1> HIDE DEF new
<1>6. /\ db' = [e \in Device |-> db'[e]] /\ \A e \in Device : IsDatabase(db'[e])
      /\ \A e \in Recorder : recording[e] = << >> \/ Follows(recording[e], db'[Admin].cps)
  BY <1>1, <1>2, <1>4, <1>5, DatabaseStep
<1>7. recording' = [e \in Recorder |-> IF e = c THEN << >> ELSE recording[e]]
  BY DEF RecordCheckpoint, Shape
<1> QED
  BY <1>6, <1>7 DEF Shape, RecordCheckpoint

LEMMA ShapeRound ==
  ASSUME Params, Shape, NEW m \in Member,
         Sync(m) \/ Export(m) \/ MergeDiff(m) \/ rebuildSliceFor(m) \/ wipe(m) \/ Rejoin(m)
  PROVE  Shape'
<1>1. /\ m \in Device /\ Admin \in Device /\ MaxWrite \in Nat /\ m # Admin
      /\ IsDatabase(db[m]) /\ IsDatabase(db[Admin])
      /\ Content(diff[m]) /\ Content(slice[m])
  BY DEF Shape, Device, Params, IsChangeset
<1>2. CASE Sync(m)
  <2>1. /\ db' = [e \in Device |-> db'[e]] /\ \A e \in Device : IsDatabase(db'[e])
        /\ \A c \in Recorder : recording[c] = << >> \/ Follows(recording[c], db'[Admin].cps)
    BY <1>1, <1>2, ShapeImport DEF Sync, IsDatabase
  <2> QED
    BY <1>2, <2>1 DEF Shape, Sync
<1>3. CASE Export(m)
  <2>1. PICK out : diff' = [diff EXCEPT ![m] = out] /\ IsChangeset(out)
    BY <1>1, <1>3, ExportIsChangeset DEF Export
  <2>2. diff' = [n \in Member |-> diff'[n]] /\ \A n \in Member : IsChangeset(diff'[n])
    BY <2>1 DEF Shape
  <2> QED
    BY <1>3, <2>2 DEF Shape, Export
<1>4. CASE MergeDiff(m)
  <2>1. /\ db' = [e \in Device |-> db'[e]] /\ \A e \in Device : IsDatabase(db'[e])
        /\ \A c \in Recorder : recording[c] = << >> \/ Follows(recording[c], db'[Admin].cps)
    BY <1>1, <1>4, ShapeImport DEF MergeDiff
  <2>2. diff' = [n \in Member |-> diff'[n]] /\ \A n \in Member : IsChangeset(diff'[n])
    BY <1>1, <1>4, NothingIsChangeset DEF Shape, MergeDiff
  <2> QED
    BY <1>4, <2>1, <2>2 DEF Shape, MergeDiff
<1>5. CASE rebuildSliceFor(m)
  <2> DEFINE kept == {r \in Readable[m] \ db[Admin].gone : db[Admin].row[r] # NoRow}
             row == [r \in Record |-> IF r \in kept THEN [db[Admin].row[r] EXCEPT !.ver = 1]
                                      ELSE NoRow]
             out == [Nothing EXCEPT !.row = row, !.cps = db[Admin].cps,
                                    !.seen = {row[r].id : r \in kept}]
  <2>1. slice' = [slice EXCEPT ![m] = out]
    BY <1>5 DEF rebuildSliceFor
  <2>2. /\ DOMAIN out = {"row", "gone", "cps", "seen"}
        /\ out.row = row /\ out.gone = {} /\ out.cps = db[Admin].cps
    BY DEF Nothing
  <2> HIDE DEF out
  <2>3. out.row \in [Record -> [ver : Nat, id : 0 .. MaxWrite]]
    <3> HIDE DEF kept
    <3>1. \A r \in Record : db[Admin].row[r] \in [ver : Nat, id : 0 .. MaxWrite]
      BY <1>1 DEF IsDatabase, Content
    <3>2. NoRow \in [ver : Nat, id : 0 .. MaxWrite]
      BY <1>1 DEF NoRow
    <3>3. \A r \in Record : [db[Admin].row[r] EXCEPT !.ver = 1] \in [ver : Nat, id : 0 .. MaxWrite]
      BY <3>1
    <3>4. \A r \in Record : row[r] \in [ver : Nat, id : 0 .. MaxWrite]
      BY <3>2, <3>3
    <3> QED
      BY <2>2, <3>4
  <2>4. IsChangeset(out)
    BY <1>1, <2>2, <2>3 DEF IsChangeset, IsDatabase, Content
  <2>5. slice' = [n \in Member |-> slice'[n]] /\ \A n \in Member : IsChangeset(slice'[n])
    BY <2>1, <2>4 DEF Shape
  <2> QED
    BY <1>5, <2>5 DEF Shape, rebuildSliceFor
<1>6. CASE wipe(m)
  <2>1. db' = [db EXCEPT ![m] = Empty] /\ IsDatabase(Empty)
    BY <1>1, <1>6, EmptyIsDatabase DEF wipe
  <2>2. /\ db' = [e \in Device |-> db'[e]] /\ \A e \in Device : IsDatabase(db'[e])
        /\ \A c \in Recorder : recording[c] = << >> \/ Follows(recording[c], db'[Admin].cps)
    BY <1>1, <2>1, DatabaseStep
  <2> QED
    BY <1>6, <2>2 DEF Shape, wipe
<1>7. CASE Rejoin(m)
  <2>1. /\ db' = [e \in Device |-> db'[e]] /\ \A e \in Device : IsDatabase(db'[e])
        /\ \A c \in Recorder : recording[c] = << >> \/ Follows(recording[c], db'[Admin].cps)
    BY <1>1, <1>7, ShapeImport DEF Rejoin
  <2>2. slice' = [n \in Member |-> slice'[n]] /\ \A n \in Member : IsChangeset(slice'[n])
    BY <1>1, <1>7, NothingIsChangeset DEF Shape, Rejoin
  <2> QED
    BY <1>7, <2>1, <2>2 DEF Shape, Rejoin
<1> QED
  BY <1>2, <1>3, <1>4, <1>5, <1>6, <1>7

LEMMA ShapeStep == Params /\ Shape /\ [Next]_vars => Shape'
<1> SUFFICES ASSUME Params, Shape, [Next]_vars PROVE Shape'
  OBVIOUS
<1>1. CASE \E d \in Device, r \in Record :
             putRecord(d, r) \/ editRecord(d, r) \/ archiveRecord(d, r)
  BY <1>1, ShapeWrite, ShapeArchive DEF putRecord, editRecord
<1>2. CASE \E m \in Member : \/ Sync(m) \/ Export(m) \/ MergeDiff(m)
                             \/ rebuildSliceFor(m) \/ wipe(m) \/ Rejoin(m)
  BY <1>2, ShapeRound
<1>3. CASE \E c \in Recorder : ReadChain(c) \/ RecordCheckpoint(c)
  BY <1>3, ShapeReadChain, ShapeRecord
<1>4. CASE UNCHANGED vars
  BY <1>4 DEF vars, Shape
<1> QED
  BY <1>1, <1>2, <1>3, <1>4 DEF Next

\* The databases, the changesets and the calls under way have their shape, and
\* the parent of every checkpoint (consensus/chain.ts:6) is where it is.
THEOREM ShapeKept == ASSUME Params PROVE Spec => []Shape
<1>1. Init => Shape
  BY ShapeInit DEF Params
<1>2. Shape /\ [Next]_vars => Shape'
  BY ShapeStep
<1> QED
  BY <1>1, <1>2, PTL DEF Spec

\* The type invariant, for any members, records and calls.
THEOREM TypeCorrect == ASSUME Params PROVE Spec => []TypeOK
<1>1. Shape => TypeOK
  BY DEF Shape, TypeOK, IsDatabase, Content
<1> QED
  BY <1>1, ShapeKept, PTL

\* On every device the chain of a checkpoint (consensus/chain.ts:20) goes back to
\* a first one, an epoch at a time, however recordCheckpoint calls overlapped.
THEOREM ChainsAreComplete == ASSUME Params PROVE Spec => []ChainsComplete
<1>1. Shape => ChainsComplete
  <2> SUFFICES ASSUME Shape, NEW d \in Device, NEW c \in db[d].cps
               PROVE  Len(chainFrom(db[d].cps, c.hash)) = c.epoch + 1
    BY DEF ChainsComplete
  <2>1. Linked(db[d].cps)
    BY DEF Shape, IsDatabase, Content
  <2> QED
    BY <2>1, ChainIsWalk
<1> QED
  BY <1>1, ShapeKept, PTL

\* mergeBase (consensus/chain.ts:34) is the latest checkpoint on both chains,
\* whichever way they forked.
THEOREM MergeBaseIsTheLatest == ASSUME Params PROVE Spec => []MergeBaseIsLatest
<1>1. Shape => MergeBaseIsLatest
  <2> SUFFICES ASSUME Shape, NEW d \in Device, NEW a \in db[d].cps, NEW b \in db[d].cps, NEW h,
                      isDescendant(db[d].cps, a.hash, h), isDescendant(db[d].cps, b.hash, h)
               PROVE  isDescendant(db[d].cps, mergeBase(db[d].cps, a.hash, b.hash), h)
    BY DEF MergeBaseIsLatest, isDescendant
  <2>1. Linked(db[d].cps)
    BY DEF Shape, IsDatabase, Content
  <2> QED
    BY <2>1, LatestCommon
<1> QED
  BY <1>1, ShapeKept, PTL

--------------------------------------------------------------------------------
(* What a member had when it sent its diff, when no record is written twice   *)
(* and no member with unsent work adopts a checkpoint.                        *)

\* An import of cells that are written once adds the rows that were missing.
LEMMA ImportAdds ==
  ASSUME NEW d, NEW in, NEW log, Content(d), Content(in), Once(log),
         Single(d, log), Single(in, log), NEW n \in Nat, DOMAIN log = 1 .. n
  PROVE  LET new == Imported(d, in)
         IN  /\ \A r \in Record : Has(new, r) <=> Has(d, r) \/ Has(in, r)
             /\ Single(new, log)
<1> DEFINE new == Imported(d, in)
<1>1. ASSUME NEW r \in Record
      PROVE  /\ Has(d, r) => new.row[r] = d.row[r]
             /\ ~ Has(d, r) => new.row[r] = in.row[r]
  <2>1. new.row[r] = IF Later(in.row[r], d.row[r]) THEN in.row[r] ELSE d.row[r]
    BY DEF Imported
  <2> HIDE DEF new
  <2>2. CASE ~ Has(in, r)
    <3>1. in.row[r].ver = 0 /\ in.row[r].id = 0
      BY <2>2 DEF Has, NoRow
    <3>2. d.row[r].ver \in Nat /\ d.row[r].id \in Nat
      BY DEF Content
    <3>3. ~ Later(in.row[r], d.row[r])
      BY <3>1, <3>2 DEF Later
    <3> QED
      BY <2>1, <2>2, <3>3 DEF Has
  <2>3. CASE Has(in, r) /\ ~ Has(d, r)
    <3>1. in.row[r].ver = 1 /\ d.row[r].ver = 0
      BY <2>3 DEF Has, NoRow, Single
    <3> QED
      BY <2>1, <2>3, <3>1 DEF Later
  <2>4. CASE Has(in, r) /\ Has(d, r)
    <3>1. /\ in.row[r].ver = 1 /\ in.row[r].id \in DOMAIN log /\ log[in.row[r].id].rec = r
          /\ d.row[r].ver = 1 /\ d.row[r].id \in DOMAIN log /\ log[d.row[r].id].rec = r
      BY <2>4 DEF Has, Single
    <3>2. in.row[r].id = d.row[r].id
      BY <3>1 DEF Once
    <3>3. ~ Later(in.row[r], d.row[r])
      BY <3>1, <3>2 DEF Later
    <3> QED
      BY <2>1, <2>4, <3>3
  <2> QED
    BY <2>2, <2>3, <2>4
<1>2. new.seen = d.seen \cup in.seen
  BY DEF Imported
<1> HIDE DEF new
<1>3. \A r \in Record : Has(new, r) <=> Has(d, r) \/ Has(in, r)
  BY <1>1 DEF Has
<1>4. ASSUME NEW r \in Record, new.row[r] # NoRow
      PROVE  /\ new.row[r].ver = 1 /\ new.row[r].id \in DOMAIN log
             /\ log[new.row[r].id].rec = r /\ new.row[r].id \in new.seen
  <2>1. CASE Has(d, r)
    BY <1>1, <1>2, <1>4, <2>1 DEF Single, Has
  <2>2. CASE ~ Has(d, r)
    BY <1>1, <1>2, <1>4, <2>2 DEF Single, Has
  <2> QED
    BY <2>1, <2>2
<1>5. ASSUME NEW w \in new.seen \ {0}
      PROVE  w \in DOMAIN log /\ log[w].rec \in Record /\ new.row[log[w].rec] # NoRow
  BY <1>2, <1>3 DEF Single, Has
<1>6. Single(new, log)
  BY <1>4, <1>5, Zenon DEF Single
<1> QED
  BY <1>3, <1>6 DEF new

\* A diff has the rows that changed since, all of them without a checkpoint.
LEMMA ExportHas ==
  ASSUME NEW d, NEW log, IsDatabase(d), Single(d, log), NEW n \in Nat, DOMAIN log = 1 .. n, NEW h
  PROVE  LET out == ExportSince(d, h)
         IN  /\ Single(out, log)
             /\ \A r \in Record : Has(out, r) <=> Has(d, r) /\ (h = Root \/ Cell(r) \in d.since[h])
<1> DEFINE out == ExportSince(d, h)
<1>1. CASE h = Root
  <2>1. out = [x \in {"row", "gone", "cps", "seen"} |-> d[x]]
    BY <1>1 DEF ExportSince, Nothing
  <2>2. out.row = d.row /\ out.seen = d.seen
    BY <2>1
  <2> QED
    BY <1>1, <2>2 DEF Single, Has
<1>2. CASE h # Root
  <2>1. /\ out.row = [r \in Record |-> IF Cell(r) \in d.since[h] THEN d.row[r] ELSE NoRow]
        /\ out.seen = {d.row[r].id : r \in {x \in Record : Cell(x) \in d.since[h]}}
    BY <1>2 DEF ExportSince
  <2> HIDE DEF out
  <2>2. ASSUME NEW r \in Record
        PROVE  out.row[r] = IF Cell(r) \in d.since[h] THEN d.row[r] ELSE NoRow
    BY <2>1
  <2>3. ASSUME NEW r \in Record, out.row[r] # NoRow
        PROVE  /\ out.row[r].ver = 1 /\ out.row[r].id \in DOMAIN log
               /\ log[out.row[r].id].rec = r /\ out.row[r].id \in out.seen
    BY <2>1, <2>2, <2>3 DEF Single
  <2>4. ASSUME NEW w \in out.seen \ {0}
        PROVE  w \in DOMAIN log /\ log[w].rec \in Record /\ out.row[log[w].rec] # NoRow
    <3>1. PICK r \in Record : Cell(r) \in d.since[h] /\ w = d.row[r].id
      BY <2>1
    <3>2. d.row[r] # NoRow
      BY <3>1 DEF NoRow
    <3> QED
      BY <2>2, <3>1, <3>2 DEF Single
  <2>5. Single(out, log)
    BY <2>3, <2>4, Zenon DEF Single
  <2> QED
    BY <1>2, <2>2, <2>5 DEF Has, out
<1> QED
  BY <1>1, <1>2

LEMMA NothingIsSingle ==
  ASSUME NEW log
  PROVE  Single(Nothing, log) /\ Single(Empty, log) /\ \A r \in Record : ~ Has(Nothing, r) /\ ~ Has(Empty, r)
<1>1. \A r \in Record : NoRows[r] = NoRow
  BY DEF NoRows
<1> QED
  BY <1>1 DEF Single, Nothing, Empty, Has

\* What was single stays so when a write is added to the log.
LEMMA SingleGrows ==
  ASSUME NEW x, NEW S, NEW log \in Seq(S), NEW e, Single(x, log)
  PROVE  Single(x, Append(log, e))
<1>1. /\ DOMAIN log \subseteq DOMAIN Append(log, e)
      /\ \A i \in DOMAIN log : Append(log, e)[i] = log[i]
  OBVIOUS
<1> QED
  BY <1>1, Zenon DEF Single

\* A member's own state is as it was, and the coordinator has what it had.
LEMMA StaysOnItsWay ==
  ASSUME NEW m \in Member, Params, OnItsWay(m), db'[m] = db[m], diff'[m] = diff[m],
         slice'[m] = slice[m], stage'[m] = stage[m], home'[m] = home[m],
         \A r \in Record : Has(db[Admin], r) => Has(db'[Admin], r),
         db[Admin].gone \subseteq db'[Admin].gone
  PROVE  OnItsWay(m)'
<1>1. Readable[m] \subseteq Record
  BY DEF Params
<1>2. Unsent(m)'
  BY DEF OnItsWay, Unsent, Has
<1>3. \A r \in Record : Has(slice'[m], r) => Has(db'[Admin], r)
  BY DEF OnItsWay
<1>4. ASSUME NEW r \in Readable[m], Has(home'[m], r) PROVE Brought(m, r)'
  <2>1. Brought(m, r) /\ r \in Record
    BY <1>1, <1>4 DEF OnItsWay
  <2> QED
    BY <2>1 DEF Brought, Has
<1> QED
  BY <1>2, <1>3, <1>4 DEF OnItsWay, Has

\* The log is a sequence.
LEMMA LogDomain == Shape => \E n \in Nat : DOMAIN made = 1 .. n /\ n = Len(made)
<1> SUFFICES ASSUME Shape PROVE \E n \in Nat : DOMAIN made = 1 .. n /\ n = Len(made)
  OBVIOUS
<1>1. PICK S : made \in Seq(S)
  BY DEF Shape
<1> QED
  BY <1>1

LEMMA TracedPut ==
  ASSUME Params, Shape, Traced, NEW d \in Device, NEW r \in Record, putRecord(d, r)
  PROVE  Traced'
<1> DEFINE w == Len(made) + 1
           e == [rec |-> r, over |-> IF db[d].row[r] = NoRow THEN {}
                                     ELSE {db[d].row[r].id} \cup made[db[d].row[r].id].over]
           log == Append(made, e)
           cellRow == [ver |-> db[d].row[r].ver + 1, id |-> w]
           new == [db[d] EXCEPT !.row[r] = cellRow,
                                !.seen = @ \cup {w},
                                !.since = Touched(@, {Cell(r)})]
<1>1. /\ made' = log
      /\ db' = [db EXCEPT ![d] = new]
      /\ UNCHANGED <<stage, diff, slice, recording, home>>
      /\ d # Admin => stage[d] = "working"
      /\ \A v \in DOMAIN made : made[v].rec # r
  BY DEF putRecord, Write, Works
<1>2. PICK S : made \in Seq(S)
  BY DEF Shape
<1>3. w \in Nat \ {0} /\ DOMAIN made = 1 .. w - 1
  BY <1>2
<1>4. /\ DOMAIN log = DOMAIN made \cup {w} /\ w \notin DOMAIN made
      /\ \A v \in DOMAIN made : log[v] = made[v]
      /\ log[w].rec = r
  <2> HIDE DEF e
  <2>1. /\ DOMAIN log = DOMAIN made \cup {w} /\ w \notin DOMAIN made
        /\ \A v \in DOMAIN made : log[v] = made[v]
    BY <1>2, <1>3
  <2>2. log[w] = e
    BY <1>2, <1>3
  <2>3. e.rec = r
    BY DEF e
  <2> QED
    BY <2>1, <2>2, <2>3
<1>5. IsDatabase(db[d]) /\ d \in Device /\ Single(db[d], made)
  BY DEF Shape, Traced
<1>6. db[d].row[r] = NoRow
  BY <1>1, <1>5 DEF Single
<1>7. cellRow.ver = 1 /\ cellRow.id = w /\ cellRow # NoRow
  <2>1. db[d].row[r].ver = 0
    BY <1>6 DEF NoRow
  <2> QED
    BY <2>1 DEF NoRow
<1>8. ASSUME NEW x, Single(x, made) PROVE Single(x, log)
  <2> HIDE DEF e
  <2> QED
    BY <1>2, <1>8, SingleGrows
<1> HIDE DEF w, log, cellRow
<1>9. /\ new.row = [db[d].row EXCEPT ![r] = cellRow] /\ new.seen = db[d].seen \cup {w}
      /\ new.gone = db[d].gone
      /\ new.since = [h \in DOMAIN db[d].since |-> db[d].since[h] \cup {Cell(r)}]
  BY <1>5 DEF IsDatabase, Touched
<1> HIDE DEF new
<1>10. new.row[r] = cellRow /\ \A q \in Record : q # r => new.row[q] = db[d].row[q]
  BY <1>5, <1>9 DEF IsDatabase, Content
<1>11. \A q \in Record : Has(new, q) <=> Has(db[d], q) \/ q = r
  BY <1>7, <1>10 DEF Has
<1>12. Once(log)
  BY <1>1, <1>4 DEF Traced, Once
<1>13. Single(new, log)
  <2>1. ASSUME NEW q \in Record, new.row[q] # NoRow
        PROVE  /\ new.row[q].ver = 1 /\ new.row[q].id \in DOMAIN log
               /\ log[new.row[q].id].rec = q /\ new.row[q].id \in new.seen
    <3>1. CASE q = r
      BY <1>4, <1>7, <1>9, <1>10, <3>1
    <3>2. CASE q # r
      BY <1>4, <1>5, <1>9, <1>10, <2>1, <3>2 DEF Single
    <3> QED
      BY <3>1, <3>2
  <2>2. ASSUME NEW v \in new.seen \ {0}
        PROVE  v \in DOMAIN log /\ log[v].rec \in Record /\ new.row[log[v].rec] # NoRow
    <3>1. CASE v = w
      BY <1>4, <1>7, <1>10, <3>1
    <3>2. CASE v # w
      <4>1. v \in db[d].seen \ {0}
        BY <1>9, <3>2
      <4>2. v \in DOMAIN made /\ made[v].rec \in Record /\ db[d].row[made[v].rec] # NoRow
        BY <1>5, <4>1 DEF Single
      <4> QED
        BY <1>1, <1>4, <1>10, <4>2
    <3> QED
      BY <3>1, <3>2
  <2> QED
    BY <2>1, <2>2, Zenon DEF Single
<1>14. \A x \in Device : Single(db'[x], log)
  BY <1>1, <1>8, <1>13 DEF Traced, Shape
<1>15. db'[d] = new /\ \A x \in Device : x # d => db'[x] = db[x]
  BY <1>1 DEF Shape
<1>16. Admin \in Device /\ Member \subseteq Device
  BY DEF Device
<1>17. /\ \A q \in Record : Has(db[Admin], q) => Has(db'[Admin], q)
       /\ db[Admin].gone \subseteq db'[Admin].gone
  BY <1>9, <1>11, <1>15, <1>16
<1>18. ASSUME NEW m \in Member PROVE OnItsWay(m)'
  <2>1. OnItsWay(m)
    BY DEF Traced
  <2>2. CASE m # d
    BY <1>1, <1>15, <1>16, <1>17, <2>1, <2>2, StaysOnItsWay
  <2>3. CASE m = d
    <3>1. d # Admin /\ stage[m] = "working" /\ db'[Admin] = db[Admin]
      BY <1>1, <1>15, <1>16, <2>3 DEF Params
    <3>2. Unsent(m)'
      <4>1. /\ DOMAIN db'[m].since = DOMAIN db[m].since
            /\ \A h \in DOMAIN db[m].since : db'[m].since[h] = db[m].since[h] \cup {Cell(r)}
        BY <1>9, <1>15, <2>3
      <4>2. \A q \in Record : Has(db'[m], q) <=> Has(db[m], q) \/ q = r
        BY <1>11, <1>15, <2>3
      <4> QED
        BY <2>1, <3>1, <4>1, <4>2 DEF OnItsWay, Unsent, Has
    <3>3. ASSUME NEW q \in Readable[m], Has(home'[m], q) PROVE Brought(m, q)'
      <4>1. Brought(m, q) /\ q \in Record
        BY <1>1, <2>1, <3>3 DEF OnItsWay, Params
      <4> QED
        BY <1>1, <1>11, <1>15, <2>3, <3>1, <4>1 DEF Brought, Has
    <3> QED
      BY <1>1, <2>1, <3>1, <3>2, <3>3 DEF OnItsWay, Has
  <2> QED
    BY <2>2, <2>3
<1>19. \A m \in Member : Single(diff[m], log) /\ Single(slice[m], log) /\ Single(home[m], log)
  BY <1>8 DEF Traced
<1> QED
  BY <1>1, <1>12, <1>14, <1>18, <1>19 DEF Traced

LEMMA TracedArchive ==
  ASSUME Params, Shape, Traced, NEW d \in Device, NEW r \in Record, archiveRecord(d, r)
  PROVE  Traced'
<1> DEFINE new == [db[d] EXCEPT !.gone = @ \cup {r}, !.since = Touched(@, {Gone(r)})]
<1>1. /\ db' = [db EXCEPT ![d] = new]
      /\ UNCHANGED <<stage, diff, slice, recording, made, home>>
  BY DEF archiveRecord
<1>2. IsDatabase(db[d])
  BY DEF Shape
<1>3. /\ new.row = db[d].row /\ new.seen = db[d].seen /\ new.gone = db[d].gone \cup {r}
      /\ new.since = [h \in DOMAIN db[d].since |-> db[d].since[h] \cup {Gone(r)}]
  BY <1>2 DEF IsDatabase, Touched
<1> HIDE DEF new
<1>4. db'[d] = new /\ \A x \in Device : x # d => db'[x] = db[x]
  BY <1>1 DEF Shape
<1>5. Admin \in Device /\ Member \subseteq Device
  BY DEF Device
<1>6. \A x \in Device : /\ db'[x].row = db[x].row /\ db'[x].seen = db[x].seen
                        /\ db[x].gone \subseteq db'[x].gone
  BY <1>3, <1>4
<1>7. \A x \in Device : Single(db'[x], made)
  BY <1>6, SMTT(30) DEF Traced, Single
<1>8. ASSUME NEW m \in Member PROVE OnItsWay(m)'
  <2>1. OnItsWay(m)
    BY DEF Traced
  <2>2. \A q \in Record : Has(db'[Admin], q) <=> Has(db[Admin], q)
    BY <1>5, <1>6 DEF Has
  <2>3. CASE m # d
    BY <1>1, <1>4, <1>5, <1>6, <2>1, <2>2, <2>3, StaysOnItsWay
  <2>4. CASE m = d
    <3>1. Unsent(m)'
      <4>1. /\ DOMAIN db'[m].since = DOMAIN db[m].since
            /\ \A h \in DOMAIN db[m].since : db'[m].since[h] = db[m].since[h] \cup {Gone(r)}
        BY <1>3, <1>4, <2>4
      <4>2. \A q \in Record : Has(db'[m], q) <=> Has(db[m], q)
        BY <1>5, <1>6 DEF Has
      <4> QED
        BY <2>1, <2>2, <4>1, <4>2 DEF OnItsWay, Unsent, Has
    <3>2. ASSUME NEW q \in Readable[m], Has(home'[m], q) PROVE Brought(m, q)'
      <4>1. Brought(m, q) /\ q \in Record
        BY <1>1, <2>1, <3>2 DEF OnItsWay, Params
      <4> QED
        BY <1>1, <1>5, <1>6, <4>1 DEF Brought, Has
    <3>3. stage[m] = "working"
      BY <1>5, <2>4 DEF archiveRecord, Works, Params
    <3> QED
      BY <1>1, <2>1, <2>2, <3>1, <3>2, <3>3 DEF OnItsWay, Has
  <2> QED
    BY <2>3, <2>4
<1> QED
  BY <1>1, <1>7, <1>8 DEF Traced

\* What another member does: the coordinator's database may have grown.
LEMMA OthersStay ==
  ASSUME Params, Traced, NEW m \in Member, NEW n \in Member, n # m,
         db'[n] = db[n], diff'[n] = diff[n], slice'[n] = slice[n], stage'[n] = stage[n],
         home'[n] = home[n],
         \A r \in Record : Has(db[Admin], r) => Has(db'[Admin], r),
         db[Admin].gone \subseteq db'[Admin].gone
  PROVE  OnItsWay(n)'
  BY StaysOnItsWay DEF Traced

LEMMA TracedSync ==
  ASSUME Params, ~ CanSyncDirty, Shape, Traced, NEW m \in Member, Sync(m)
  PROVE  Traced'
<1> DEFINE new == Imported(db[m], db[Admin])
<1>1. /\ db' = [db EXCEPT ![m] = new]
      /\ UNCHANGED <<stage, diff, slice, recording, made, home>> /\ stage[m] = "working"
  BY DEF Sync
<1>2. /\ Admin \in Device /\ m \in Device /\ m # Admin
      /\ Content(db[m]) /\ Content(db[Admin]) /\ DOMAIN db[m].since = {c.hash : c \in db[m].cps}
  BY DEF Shape, IsDatabase, Device, Params
<1>3. /\ \A r \in Record : Has(new, r) <=> Has(db[m], r) \/ Has(db[Admin], r)
      /\ Single(new, made)
  <2>1. \E n \in Nat : DOMAIN made = 1 .. n
    BY LogDomain
  <2>2. Once(made) /\ Single(db[m], made) /\ Single(db[Admin], made)
    BY <1>2 DEF Traced
  <2> QED
    BY <1>2, <2>1, <2>2, ImportAdds
<1>4. \A h \in DOMAIN new.since :
        IF h \in DOMAIN db[m].since THEN db[m].since[h] \subseteq new.since[h]
        ELSE h \in {c.hash : c \in db[Admin].cps}
  BY <1>2 DEF Imported, Watermarked, Touched
<1>5. (\A r \in Record : Has(db[m], r) => Has(db[Admin], r)) \/ db[Admin].cps \subseteq db[m].cps
  <2> SUFFICES ASSUME db[m].seen \subseteq db[Admin].seen, NEW r \in Record, Has(db[m], r)
               PROVE  Has(db[Admin], r)
    BY DEF Sync
  <2>1. /\ db[m].row[r].id \in DOMAIN made /\ made[db[m].row[r].id].rec = r
        /\ db[m].row[r].id \in db[Admin].seen
    BY <1>2 DEF Traced, Single, Has
  <2>2. db[m].row[r].id # 0
    BY <2>1, LogDomain
  <2> QED
    BY <1>2, <2>1, <2>2 DEF Traced, Single, Has
<1> HIDE DEF new
<1>6. db'[m] = new /\ \A x \in Device : x # m => db'[x] = db[x]
  BY <1>1, <1>2 DEF Shape
<1>7. ASSUME NEW n \in Member PROVE OnItsWay(n)'
  <2>1. CASE n # m
    <3>1. n \in Device
      BY DEF Device
    <3>2. /\ db'[n] = db[n] /\ diff'[n] = diff[n] /\ slice'[n] = slice[n]
          /\ stage'[n] = stage[n] /\ home'[n] = home[n] /\ db'[Admin] = db[Admin]
      BY <1>1, <1>2, <1>6, <2>1, <3>1
    <3> QED
      BY <2>1, <3>2, OthersStay
  <2>2. CASE n = m
    <3>1. OnItsWay(m) /\ db'[Admin] = db[Admin]
      BY <1>2, <1>6 DEF Traced
    <3>2. Unsent(m)'
      <4>1. ASSUME NEW h \in DOMAIN new.since, NEW r \in Record, Has(new, r), ~ Has(db[Admin], r)
            PROVE  Cell(r) \in new.since[h]
        <5>1. Has(db[m], r) /\ db[Admin].cps \subseteq db[m].cps
          BY <1>3, <1>5, <4>1
        <5>2. h \in DOMAIN db[m].since /\ db[m].since[h] \subseteq new.since[h]
          BY <1>2, <1>4, <5>1
        <5> QED
          BY <3>1, <4>1, <5>1, <5>2 DEF OnItsWay, Unsent
      <4> QED
        BY <1>6, <3>1, <4>1, Zenon DEF Unsent, Has
    <3>3. ASSUME NEW r \in Readable[m], Has(home'[m], r) PROVE Brought(m, r)'
      <4>1. Brought(m, r) /\ r \in Record
        BY <1>1, <3>1, <3>3 DEF OnItsWay, Params
      <4> QED
        BY <1>1, <1>3, <1>6, <3>1, <4>1 DEF Brought, Has
    <3> QED
      BY <1>1, <2>2, <3>1, <3>2, <3>3 DEF OnItsWay, Has
  <2> QED
    BY <2>1, <2>2
<1>8. \A x \in Device : Single(db'[x], made)
  BY <1>3, <1>6 DEF Traced
<1> QED
  BY <1>1, <1>7, <1>8 DEF Traced

LEMMA TracedExport ==
  ASSUME Params, Shape, Traced, NEW m \in Member, Export(m)
  PROVE  Traced'
<1>1. /\ stage[m] = "working" /\ stage' = [stage EXCEPT ![m] = "sent"]
      /\ UNCHANGED <<db, slice, recording, made>>
      /\ home' = [home EXCEPT ![m] = [x \in DOMAIN Nothing |-> db[m][x]]]
  BY DEF Export
<1>2. PICK h \in Tips(db[m].cps) : diff' = [diff EXCEPT ![m] = ExportSince(db[m], h)]
  BY DEF Export
<1>3. /\ m \in Device /\ IsDatabase(db[m]) /\ Single(db[m], made) /\ OnItsWay(m)
      /\ Readable[m] \subseteq Record
  BY DEF Shape, Traced, Device, Params
<1>4. h = Root \/ h \in DOMAIN db[m].since
  BY <1>3 DEF Tips, IsDatabase
<1> DEFINE out == ExportSince(db[m], h)
           had == [x \in DOMAIN Nothing |-> db[m][x]]
<1>5. /\ Single(out, made)
      /\ \A r \in Record : Has(out, r) <=> Has(db[m], r) /\ (h = Root \/ Cell(r) \in db[m].since[h])
  <2>1. \E n \in Nat : DOMAIN made = 1 .. n
    BY LogDomain
  <2> QED
    BY <1>3, <2>1, ExportHas
<1>6. had.row = db[m].row /\ had.seen = db[m].seen
  BY DEF Nothing
<1> HIDE DEF out, had
<1>7. Single(had, made) /\ had.row \in [Record -> [ver : Nat, id : 0 .. MaxWrite]]
  BY <1>3, <1>6 DEF Single, IsDatabase, Content
<1>8. /\ diff'[m] = out /\ \A n \in Member : n # m => diff'[n] = diff[n]
      /\ stage'[m] = "sent" /\ \A n \in Member : n # m => stage'[n] = stage[n]
      /\ home' = [n \in Member |-> home'[n]]
      /\ home'[m] = had /\ \A n \in Member : n # m => home'[n] = home[n]
  BY <1>1, <1>2 DEF Shape, Traced, out, had
<1>9. ASSUME NEW n \in Member PROVE OnItsWay(n)'
  <2>1. CASE n # m
    BY <1>1, <1>8, <2>1, OthersStay
  <2>2. CASE n = m
    <3>1. ASSUME NEW r \in Readable[m], Has(had, r) PROVE Has(out, r) \/ Has(db[Admin], r)
      <4>1. r \in Record /\ Has(db[m], r)
        BY <1>3, <1>6, <3>1 DEF Has
      <4> QED
        BY <1>3, <1>4, <1>5, <4>1 DEF OnItsWay, Unsent
    <3>2. ASSUME NEW r \in Readable[m], Has(home'[m], r) PROVE Brought(m, r)'
      BY <1>1, <1>8, <3>1, <3>2 DEF Brought, Has
    <3>3. Unsent(m)' /\ \A r \in Record : Has(slice'[m], r) => Has(db'[Admin], r)
      BY <1>1, <1>3 DEF OnItsWay, Unsent, Has
    <3> QED
      BY <1>8, <2>2, <3>2, <3>3 DEF OnItsWay, Has
  <2> QED
    BY <2>1, <2>2
<1>10. \A n \in Member : /\ Single(diff'[n], made) /\ Single(slice'[n], made)
                         /\ Single(home'[n], made)
                         /\ home'[n].row \in [Record -> [ver : Nat, id : 0 .. MaxWrite]]
  BY <1>1, <1>5, <1>7, <1>8 DEF Traced
<1> QED
  BY <1>1, <1>8, <1>9, <1>10 DEF Traced

LEMMA TracedMerge ==
  ASSUME Params, Shape, Traced, NEW m \in Member, MergeDiff(m)
  PROVE  Traced'
<1> DEFINE new == Imported(db[Admin], diff[m])
<1>1. /\ db' = [db EXCEPT ![Admin] = new] /\ diff' = [diff EXCEPT ![m] = Nothing]
      /\ stage[m] = "sent" /\ stage' = [stage EXCEPT ![m] = "merged"]
      /\ UNCHANGED <<slice, recording, made, home>>
  BY DEF MergeDiff
<1>2. /\ Admin \in Device /\ Admin \notin Member /\ Member \subseteq Device
      /\ Content(diff[m]) /\ Content(db[Admin])
  BY DEF Shape, IsDatabase, IsChangeset, Device, Params
<1>3. /\ \A r \in Record : Has(new, r) <=> Has(db[Admin], r) \/ Has(diff[m], r)
      /\ Single(new, made)
  <2>1. \E n \in Nat : DOMAIN made = 1 .. n
    BY LogDomain
  <2>2. Once(made) /\ Single(diff[m], made) /\ Single(db[Admin], made)
    BY <1>2 DEF Traced
  <2> QED
    BY <1>2, <2>1, <2>2, ImportAdds
<1>4. db[Admin].gone \subseteq new.gone
  BY DEF Imported
<1> HIDE DEF new
<1>5. db'[Admin] = new /\ \A x \in Device : x # Admin => db'[x] = db[x]
  BY <1>1, <1>2 DEF Shape
<1>6. /\ diff'[m] = Nothing /\ \A n \in Member : n # m => diff'[n] = diff[n]
      /\ stage'[m] = "merged" /\ \A n \in Member : n # m => stage'[n] = stage[n]
  BY <1>1 DEF Shape
<1>7. ASSUME NEW n \in Member PROVE OnItsWay(n)'
  <2>1. db'[n] = db[n]
    BY <1>2, <1>5
  <2>2. CASE n # m
    BY <1>1, <1>3, <1>4, <1>5, <1>6, <2>1, <2>2, OthersStay
  <2>3. CASE n = m
    <3>1. OnItsWay(m) /\ Readable[m] \subseteq Record
      BY DEF Traced, Params
    <3>2. Unsent(m)' /\ \A r \in Record : Has(slice'[m], r) => Has(db'[Admin], r)
      BY <1>1, <1>3, <1>5, <2>1, <2>3, <3>1 DEF OnItsWay, Unsent, Has
    <3>3. ASSUME NEW r \in Readable[m], Has(home'[m], r) PROVE Brought(m, r)'
      <4>1. Brought(m, r) /\ r \in Record
        BY <1>1, <3>1, <3>3 DEF OnItsWay
      <4>2. Has(db'[Admin], r)
        BY <1>1, <1>3, <1>5, <4>1 DEF Brought
      <4> QED
        BY <1>6, <4>2 DEF Brought, Has
    <3> QED
      BY <1>6, <2>3, <3>2, <3>3 DEF OnItsWay, Has
  <2> QED
    BY <2>2, <2>3
<1>8. \A x \in Device : Single(db'[x], made)
  BY <1>3, <1>5 DEF Traced
<1>9. \A n \in Member : Single(diff'[n], made)
  BY <1>6, NothingIsSingle DEF Traced
<1> QED
  BY <1>1, <1>7, <1>8, <1>9 DEF Traced

LEMMA TracedSlice ==
  ASSUME Params, Shape, Traced, NEW m \in Member, rebuildSliceFor(m)
  PROVE  Traced'
<1> DEFINE kept == {r \in Readable[m] \ db[Admin].gone : db[Admin].row[r] # NoRow}
           row == [r \in Record |-> IF r \in kept THEN [db[Admin].row[r] EXCEPT !.ver = 1]
                                    ELSE NoRow]
           out == [Nothing EXCEPT !.row = row, !.cps = db[Admin].cps,
                                  !.seen = {row[r].id : r \in kept}]
<1>1. /\ slice' = [slice EXCEPT ![m] = out]
      /\ stage[m] = "merged" /\ stage' = [stage EXCEPT ![m] = "sliced"]
      /\ UNCHANGED <<db, diff, recording, made, home>>
  BY DEF rebuildSliceFor
<1>2. /\ Admin \in Device /\ Single(db[Admin], made) /\ Content(db[Admin])
      /\ Readable[m] \subseteq Record /\ OnItsWay(m)
  BY DEF Shape, Traced, IsDatabase, Device, Params
<1>3. out.row = row /\ out.seen = {row[r].id : r \in kept}
  BY DEF Nothing
<1>4. kept \subseteq Record /\ \A r \in kept : Has(db[Admin], r)
  BY <1>2 DEF Has
<1>5. ASSUME NEW r \in Record
      PROVE  row[r] = IF r \in kept THEN db[Admin].row[r] ELSE NoRow
  <2>1. CASE r \in kept
    <3>1. db[Admin].row[r].ver = 1 /\ db[Admin].row[r] \in [ver : Nat, id : 0 .. MaxWrite]
      BY <1>2, <1>4, <2>1 DEF Single, Has, Content
    <3>2. [db[Admin].row[r] EXCEPT !.ver = 1] = db[Admin].row[r]
      BY <3>1
    <3> HIDE DEF kept
    <3>3. row[r] = [db[Admin].row[r] EXCEPT !.ver = 1]
      BY <2>1
    <3> QED
      BY <2>1, <3>2, <3>3
  <2>2. CASE r \notin kept
    <3> HIDE DEF kept
    <3> QED
      BY <2>2
  <2> QED
    BY <2>1, <2>2
<1>6. \A r \in Readable[m] : Has(db[Admin], r) => r \in kept \/ r \in db[Admin].gone
  BY DEF Has
<1> HIDE DEF kept, row, out
<1>7. \A r \in Record : Has(out, r) <=> r \in kept
  BY <1>3, <1>4, <1>5 DEF Has
<1>8. Single(out, made)
  <2>1. ASSUME NEW r \in Record, out.row[r] # NoRow
        PROVE  /\ out.row[r].ver = 1 /\ out.row[r].id \in DOMAIN made
               /\ made[out.row[r].id].rec = r /\ out.row[r].id \in out.seen
    BY <1>2, <1>3, <1>5, <2>1 DEF Single
  <2>2. ASSUME NEW w \in out.seen \ {0}
        PROVE  w \in DOMAIN made /\ made[w].rec \in Record /\ out.row[made[w].rec] # NoRow
    <3>1. PICK r \in kept : w = row[r].id
      BY <1>3
    <3>2. row[r] = db[Admin].row[r] /\ r \in Record /\ db[Admin].row[r] # NoRow
      BY <1>4, <1>5 DEF Has
    <3> QED
      BY <1>2, <1>3, <3>1, <3>2 DEF Single
  <2> QED
    BY <2>1, <2>2, Zenon DEF Single
<1>9. /\ slice'[m] = out /\ \A n \in Member : n # m => slice'[n] = slice[n]
      /\ stage'[m] = "sliced" /\ \A n \in Member : n # m => stage'[n] = stage[n]
  BY <1>1 DEF Shape
<1>10. ASSUME NEW n \in Member PROVE OnItsWay(n)'
  <2>1. CASE n # m
    BY <1>1, <1>9, <2>1, OthersStay
  <2>2. CASE n = m
    <3>1. Unsent(m)' /\ \A r \in Record : Has(slice'[m], r) => Has(db'[Admin], r)
      BY <1>1, <1>2, <1>4, <1>7, <1>9 DEF OnItsWay, Unsent, Has
    <3>2. ASSUME NEW r \in Readable[m], Has(home'[m], r) PROVE Brought(m, r)'
      <4>1. Has(db[Admin], r) /\ r \in Record
        BY <1>1, <1>2, <3>2 DEF OnItsWay, Brought
      <4>2. Has(out, r) \/ r \in db[Admin].gone
        BY <1>6, <1>7, <4>1
      <4> QED
        BY <1>1, <1>9, <4>2 DEF Brought, Has
    <3> QED
      BY <1>9, <2>2, <3>1, <3>2 DEF OnItsWay, Has
  <2> QED
    BY <2>1, <2>2
<1>11. \A n \in Member : Single(slice'[n], made)
  BY <1>8, <1>9 DEF Traced
<1> QED
  BY <1>1, <1>10, <1>11 DEF Traced

LEMMA TracedWipe ==
  ASSUME Params, Shape, Traced, NEW m \in Member, wipe(m)
  PROVE  Traced'
<1>1. /\ db' = [db EXCEPT ![m] = Empty]
      /\ stage[m] = "sliced" /\ stage' = [stage EXCEPT ![m] = "wiped"]
      /\ UNCHANGED <<diff, slice, recording, made, home>>
  BY DEF wipe
<1>2. /\ Admin \in Device /\ m \in Device /\ m # Admin /\ Member \subseteq Device
      /\ Readable[m] \subseteq Record
  BY DEF Device, Params
<1>3. /\ db'[m] = Empty /\ \A x \in Device : x # m => db'[x] = db[x]
      /\ stage'[m] = "wiped" /\ \A n \in Member : n # m => stage'[n] = stage[n]
  BY <1>1, <1>2 DEF Shape
<1>4. ASSUME NEW n \in Member PROVE OnItsWay(n)'
  <2>1. CASE n # m
    BY <1>1, <1>2, <1>3, <2>1, OthersStay
  <2>2. CASE n = m
    <3>1. OnItsWay(m) /\ db'[Admin] = db[Admin]
      BY <1>2, <1>3 DEF Traced
    <3>2. Unsent(m)'
      BY <1>3, NothingIsSingle DEF Unsent, Has
    <3>3. ASSUME NEW r \in Readable[m], Has(home'[m], r) PROVE Brought(m, r)'
      <4>1. Brought(m, r)
        BY <1>1, <3>1, <3>3 DEF OnItsWay
      <4> QED
        BY <1>1, <1>3, <3>1, <4>1 DEF Brought, Has
    <3> QED
      BY <1>1, <1>3, <2>2, <3>1, <3>2, <3>3 DEF OnItsWay, Has
  <2> QED
    BY <2>1, <2>2
<1>5. \A x \in Device : Single(db'[x], made)
  BY <1>3, NothingIsSingle DEF Traced
<1> QED
  BY <1>1, <1>4, <1>5 DEF Traced

LEMMA TracedRejoin ==
  ASSUME Params, Shape, Traced, NEW m \in Member, Rejoin(m)
  PROVE  Traced'
<1> DEFINE new == Imported(db[m], slice[m])
<1>1. /\ db' = [db EXCEPT ![m] = new] /\ slice' = [slice EXCEPT ![m] = Nothing]
      /\ stage[m] = "wiped" /\ stage' = [stage EXCEPT ![m] = "working"]
      /\ UNCHANGED <<diff, recording, made, home>>
  BY DEF Rejoin
<1>2. /\ Admin \in Device /\ m \in Device /\ m # Admin /\ Member \subseteq Device
      /\ Content(db[m]) /\ Content(slice[m]) /\ Readable[m] \subseteq Record /\ OnItsWay(m)
  BY DEF Shape, IsDatabase, IsChangeset, Traced, Device, Params
<1>3. db[m] = Empty
  BY <1>1, <1>2 DEF OnItsWay
<1>4. /\ \A r \in Record : Has(new, r) <=> Has(slice[m], r)
      /\ Single(new, made)
  <2>1. \E n \in Nat : DOMAIN made = 1 .. n
    BY LogDomain
  <2>2. Once(made) /\ Single(db[m], made) /\ Single(slice[m], made)
    BY <1>2 DEF Traced
  <2>3. /\ \A r \in Record : Has(new, r) <=> Has(db[m], r) \/ Has(slice[m], r)
        /\ Single(new, made)
    BY <1>2, <2>1, <2>2, ImportAdds
  <2> HIDE DEF new
  <2> QED
    BY <1>3, <2>3, NothingIsSingle
<1> HIDE DEF new
<1>5. /\ db'[m] = new /\ \A x \in Device : x # m => db'[x] = db[x]
      /\ slice'[m] = Nothing /\ \A n \in Member : n # m => slice'[n] = slice[n]
      /\ stage'[m] = "working" /\ \A n \in Member : n # m => stage'[n] = stage[n]
  BY <1>1, <1>2 DEF Shape
<1>6. ASSUME NEW n \in Member PROVE OnItsWay(n)'
  <2>1. CASE n # m
    BY <1>1, <1>2, <1>5, <2>1, OthersStay
  <2>2. CASE n = m
    <3>1. db'[Admin] = db[Admin]
      BY <1>2, <1>5
    <3>2. Unsent(m)'
      BY <1>2, <1>4, <1>5, <3>1 DEF OnItsWay, Unsent, Has
    <3>3. ASSUME NEW r \in Readable[m], Has(home'[m], r) PROVE Brought(m, r)'
      <4>1. Brought(m, r) /\ r \in Record
        BY <1>1, <1>2, <3>3 DEF OnItsWay
      <4> QED
        BY <1>1, <1>4, <1>5, <3>1, <4>1 DEF Brought, Has
    <3>4. \A r \in Record : ~ Has(slice'[m], r)
      BY <1>5, NothingIsSingle
    <3> QED
      BY <1>5, <2>2, <3>2, <3>3, <3>4 DEF OnItsWay, Has
  <2> QED
    BY <2>1, <2>2
<1>7. \A x \in Device : Single(db'[x], made)
  BY <1>4, <1>5 DEF Traced
<1>8. \A n \in Member : Single(slice'[n], made)
  BY <1>5, NothingIsSingle DEF Traced
<1> QED
  BY <1>1, <1>6, <1>7, <1>8 DEF Traced

LEMMA TracedRecord ==
  ASSUME Params, Shape, Traced, NEW c \in Recorder, RecordCheckpoint(c)
  PROVE  Traced'
<1>1. PICK cps, since : db' = [db EXCEPT ![Admin].cps = cps, ![Admin].since = since]
  BY DEF RecordCheckpoint
<1>2. UNCHANGED <<stage, diff, slice, made, home>>
  BY DEF RecordCheckpoint
<1>3. Admin \in Device /\ Member \subseteq Device /\ Admin \notin Member
  BY DEF Device, Params
<1>4. /\ \A x \in Device : x # Admin => db'[x] = db[x]
      /\ \A x \in Device : db'[x].row = db[x].row /\ db'[x].gone = db[x].gone
                           /\ db'[x].seen = db[x].seen
  BY <1>1, <1>3 DEF Shape, IsDatabase
<1>5. ASSUME NEW n \in Member PROVE OnItsWay(n)'
  <2>1. db'[n] = db[n] /\ OnItsWay(n) /\ db'[Admin].gone = db[Admin].gone
    BY <1>3, <1>4 DEF Traced
  <2>2. \A r \in Record : Has(db[Admin], r) => Has(db'[Admin], r)
    BY <1>3, <1>4 DEF Has
  <2> QED
    BY <1>2, <2>1, <2>2, StaysOnItsWay
<1>6. \A x \in Device : Single(db'[x], made)
  BY <1>4 DEF Traced, Single
<1> QED
  BY <1>2, <1>5, <1>6 DEF Traced

LEMMA TracedInit == Params /\ Init => Traced
<1> SUFFICES ASSUME Params, Init PROVE Traced
  OBVIOUS
<1>1. /\ \A d \in Device : db[d] = Empty
      /\ \A m \in Member : diff[m] = Nothing /\ slice[m] = Nothing /\ home[m] = Nothing
      /\ home = [m \in Member |-> home[m]] /\ made = << >>
      /\ \A m \in Member : stage[m] = "working"
  BY DEF Init
<1>2. Nothing.row \in [Record -> [ver : Nat, id : 0 .. MaxWrite]]
  BY NothingIsChangeset DEF Params, IsChangeset, Content
<1>3. Once(made)
  BY <1>1 DEF Once
<1>4. ASSUME NEW m \in Member PROVE OnItsWay(m)
  <2>1. m \in Device /\ Readable[m] \subseteq Record
    BY DEF Device, Params
  <2>2. Unsent(m)
    BY <1>1, <2>1, NothingIsSingle DEF Unsent
  <2> QED
    BY <1>1, <2>1, <2>2, NothingIsSingle DEF OnItsWay
<1> QED
  BY <1>1, <1>2, <1>3, <1>4, NothingIsSingle DEF Traced

LEMMA TracedStep ==
  Params /\ ~ CanEdit /\ ~ CanSyncDirty /\ Shape /\ Traced /\ [Next]_vars => Traced'
<1> SUFFICES ASSUME Params, ~ CanEdit, ~ CanSyncDirty, Shape, Traced, [Next]_vars PROVE Traced'
  OBVIOUS
<1>1. CASE \E d \in Device, r \in Record :
             putRecord(d, r) \/ editRecord(d, r) \/ archiveRecord(d, r)
  BY <1>1, TracedPut, TracedArchive DEF editRecord
<1>2. CASE \E m \in Member : \/ Sync(m) \/ Export(m) \/ MergeDiff(m)
                             \/ rebuildSliceFor(m) \/ wipe(m) \/ Rejoin(m)
  BY <1>2, TracedSync, TracedExport, TracedMerge, TracedSlice, TracedWipe, TracedRejoin
<1>3. ASSUME NEW c \in Recorder, ReadChain(c) PROVE Traced'
  BY <1>3 DEF ReadChain, Traced, OnItsWay, Unsent, Brought, Has
<1>4. CASE UNCHANGED vars
  BY <1>4 DEF vars, Traced, OnItsWay, Unsent, Brought, Has
<1> QED
  BY <1>1, <1>2, <1>3, <1>4, TracedRecord DEF Next

\* "Members wipe their local store and rebuild from the slice" (README.md:93) and
\* lose nothing: whatever the members wrote and archived meanwhile, what a member
\* may read and had when it sent its diff (engine/crengine.ts:415) is in the
\* database it rebuilt, as long as no record is written twice and nobody adopts a
\* checkpoint with work it has not sent.
THEOREM RebuildKeeps ==
  ASSUME Params, ~ CanEdit, ~ CanSyncDirty
  PROVE  Spec => []KeptThroughRebuild
<1>1. Init => Shape /\ Traced
  BY ShapeInit, TracedInit DEF Params
<1>2. Shape /\ Traced /\ [Next]_vars => (Shape /\ Traced)'
  BY ShapeStep, TracedStep
<1>3. Shape /\ Traced => KeptThroughRebuild
  <2> SUFFICES ASSUME Shape, Traced, NEW m \in Member, stage[m] = "working",
                      NEW r \in Readable[m], home[m].row[r].id # 0,
                      r \notin home[m].gone \cup db[Admin].gone
               PROVE  db[m].row[r].id # 0 /\ db[m].row[r].id = home[m].row[r].id
    BY DEF KeptThroughRebuild
  <2>1. m \in Device /\ r \in Record
    BY DEF Device, Params
  <2>2. Has(home[m], r)
    BY DEF Has, NoRow
  <2>3. Has(db[m], r)
    BY <2>2 DEF Traced, OnItsWay, Brought
  <2>4. /\ home[m].row[r].id \in DOMAIN made /\ made[home[m].row[r].id].rec = r
        /\ db[m].row[r].id \in DOMAIN made /\ made[db[m].row[r].id].rec = r
    BY <2>1, <2>2, <2>3 DEF Traced, Single, Has
  <2>5. db[m].row[r].id = home[m].row[r].id
    BY <2>4 DEF Traced, Once
  <2> QED
    BY <2>5
<1> QED
  BY <1>1, <1>2, <1>3, PTL DEF Spec

================================================================================
