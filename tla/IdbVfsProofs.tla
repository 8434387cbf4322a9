------------------------------ MODULE IdbVfsProofs ------------------------------
(* Proofs about the file system, for any number of transactions, pages, aborts *)
(* and reloads: it implements an atomic file, and who locks it reads the last  *)
(* committed transaction, as long as no purge starts while sync() waits.       *)
EXTENDS IdbVfs, FiniteSetTheorems, WellFoundedInduction, TLAPS

--------------------------------------------------------------------------------
(* Stores.  t bounds the transactions so far: it bounds what a page holds and  *)
(* how far versions have gone down.                                            *)

IsBlock(b, t) == b \in [pos : Page, ver : -t .. 0, val : 0 .. t, size : 0 .. MaxPage]

IsContent(c, t) == c \in Seq(0 .. t) /\ Len(c) <= MaxPage

IsJournal(jr, t) ==
    /\ jr = [size |-> jr.size, page |-> jr.page]
    /\ jr.size \in 0 .. MaxPage
    /\ \A p \in DOMAIN jr.page : p \in Page /\ p < jr.size /\ jr.page[p] \in 0 .. t
    /\ jr.size > 0 => 0 \in DOMAIN jr.page

Fields(s) == s = [blocks |-> s.blocks, purge |-> s.purge, journal |-> s.journal]

IsStore(s, t) ==
    /\ Fields(s)
    /\ \A b \in s.blocks : IsBlock(b, t)
    /\ \A a, b \in s.blocks : a.pos = b.pos /\ a.ver = b.ver => a = b
    /\ s.journal = NoJournal \/ IsJournal(s.journal, t)

\* n is the newest block 0.
Top(s, n) == n \in s.blocks /\ n.pos = 0 /\ \A b \in s.blocks : b.pos = 0 => n.ver <= b.ver

\* v is what page p, not page 0, holds for who may read the versions from f on.
At(s, f, p, v) ==
    \/ \E b \in s.blocks :
        /\ b.pos = p /\ f <= b.ver /\ b.val = v
        /\ \A x \in s.blocks : x.pos = p /\ f <= x.ver => b.ver <= x.ver
    \/ v = Zero /\ \A x \in s.blocks : x.pos = p => x.ver < f

\* c is read from block 0 and the pages it lets see.
Plain(s, n, c) ==
    /\ Len(c) = n.size
    /\ n.size > 0 => c[1] = n.val
    /\ \A p \in 1 .. n.size - 1 : At(s, n.ver, p, c[p + 1])

\* c is read when the journal has been played back.
Replayed(s, n, c) ==
    /\ Len(c) = s.journal.size
    /\ \A p \in 0 .. s.journal.size - 1 :
        IF p \in DOMAIN s.journal.page THEN c[p + 1] = s.journal.page[p]
        ELSE At(s, n.ver, p, c[p + 1])

\* c is what a new connection finds.
Finds(s, c) ==
    \/ s.blocks = {} /\ c = << >>
    \/ \E n \in s.blocks :
        Top(s, n) /\ IF s.journal = NoJournal THEN Plain(s, n, c) ELSE Replayed(s, n, c)

\* The purge block takes away no version that is still read.
PurgeSafe(s, n) ==
    \A p \in DOMAIN s.purge.page :
        /\ s.purge.page[p] \in Int /\ n.ver <= s.purge.page[p]
        /\ \/ \E b \in s.blocks : b.pos = p /\ n.ver <= b.ver /\ b.ver <= s.purge.page[p]
           \/ \A b \in s.blocks : b.pos = p => b.ver <= s.purge.page[p]

\* A store in which nothing was lost: the pages of one abandoned transaction at
\* most are in it, and a journal is no longer than the file.
Sound(s, n) ==
    /\ n.size > 0 => n.val # Blank
    /\ \A b \in s.blocks : n.ver - 1 <= b.ver
    /\ PurgeSafe(s, n)
    /\ s.journal # NoJournal =>
        /\ s.journal.size <= n.size
        /\ s.journal.size > 0 => s.journal.page[0] # Blank

Intact(s) == s = EmptyStore \/ \E n \in s.blocks : Top(s, n) /\ Sound(s, n)

--------------------------------------------------------------------------------
(* Lemmas about numbers and about the newest block.                            *)

\* A set of numbers that is not empty has a smallest one.
LEMMA Smallest ==
  ASSUME NEW T, T # {}, T \subseteq Nat
  PROVE  \E m \in T : \A x \in T : m <= x
<1>1. PICK m \in T : \A x \in T : <<x, m>> \notin OpToRel(<, Nat)
  BY NatLessThanWellFounded, WFMin, Zenon
<1>2. \A x \in T : m <= x
  <2> SUFFICES ASSUME NEW x \in T, x < m PROVE FALSE
    OBVIOUS
  <2>1. x \in Nat /\ m \in Nat
    OBVIOUS
  <2>2. <<x, m>> \in OpToRel(<, Nat)
    BY <2>1, Zenon DEF OpToRel
  <2> QED
    BY <1>1, <2>2
<1> QED
  BY <1>2

\* Among blocks there is a newest one.
LEMMA HasNewest ==
  ASSUME NEW t \in Nat, NEW B, B # {}, \A b \in B : b.ver \in -t .. 0
  PROVE  \E b \in B : \A x \in B : b.ver <= x.ver
<1> DEFINE T == {b.ver + t : b \in B}
<1>1. T # {} /\ T \subseteq Nat
  OBVIOUS
<1>2. PICK m \in T : \A x \in T : m <= x
  BY <1>1, Smallest
<1>3. PICK b \in B : m = b.ver + t
  OBVIOUS
<1>4. ASSUME NEW x \in B PROVE b.ver <= x.ver
  <2>1. b.ver + t <= x.ver + t
    BY <1>2, <1>3
  <2> QED
    BY <2>1
<1> QED
  BY <1>4

LEMMA MaxIsThere ==
  ASSUME NEW k \in Nat, NEW T, T # {}, T \subseteq 0 .. k
  PROVE  Max(T) \in T
<1> DEFINE U == {k - x : x \in T}
<1>0. \A x \in T : k - x \in Nat
  OBVIOUS
<1>1. U # {} /\ U \subseteq Nat
  BY <1>0
<1>2. PICK m \in U : \A x \in U : m <= x
  BY <1>1, Smallest
<1>3. PICK y \in T : m = k - y
  OBVIOUS
<1>4. \A x \in T : y >= x
  <2> TAKE x \in T
  <2>1. m <= k - x
    BY <1>2
  <2> QED
    BY <1>3, <2>1
<1>5. \E x \in T : \A z \in T : x >= z
  BY <1>4
<1> QED
  BY <1>5, Zenon DEF Max

LEMMA NewestIs ==
  ASSUME NEW B, NEW b \in B, \A x \in B : b.ver \in Int /\ b.ver <= x.ver /\ x.ver \in Int,
         \A x \in B : x.ver = b.ver => x = b
  PROVE  Newest(B) = b
<1>1. Newest(B) \in B /\ \A x \in B : Newest(B).ver <= x.ver
  BY Zenon DEF Newest
<1>2. Newest(B).ver = b.ver
  BY <1>1
<1> QED
  BY <1>1, <1>2

\* A store that has a block 0 has a newest one, and Newest is it.
LEMMA TopExists ==
  ASSUME NEW t \in Nat, NEW s, IsStore(s, t), Block0s(s) # {}
  PROVE  Top(s, Newest(Block0s(s)))
<1>1. \A b \in Block0s(s) : b.ver \in -t .. 0
  BY DEF Block0s, IsStore, IsBlock
<1>2. \E b \in Block0s(s) : \A x \in Block0s(s) : b.ver <= x.ver
  BY <1>1, HasNewest
<1>3. Newest(Block0s(s)) \in Block0s(s) /\ \A x \in Block0s(s) : Newest(Block0s(s)).ver <= x.ver
  BY <1>2, Zenon DEF Newest
<1> QED
  BY <1>3 DEF Top, Block0s

LEMMA TopUnique ==
  ASSUME NEW t \in Nat, NEW s, IsStore(s, t), NEW n, Top(s, n), NEW m, Top(s, m)
  PROVE  m = n
<1>1. m.ver \in Int /\ n.ver \in Int
  BY DEF Top, IsStore, IsBlock
<1> QED
  BY <1>1 DEF Top, IsStore

LEMMA TopIsNewest ==
  ASSUME NEW t \in Nat, NEW s, IsStore(s, t), NEW n, Top(s, n)
  PROVE  Block0s(s) # {} /\ Newest(Block0s(s)) = n
<1>1. Block0s(s) # {}
  BY DEF Top, Block0s
<1> QED
  BY <1>1, TopExists, TopUnique

--------------------------------------------------------------------------------
(* Lemmas about what is read.                                                  *)

LEMMA AtExists ==
  ASSUME NEW t \in Nat, NEW s, IsStore(s, t), NEW f \in Int, NEW p
  PROVE  \E v \in 0 .. t : At(s, f, p, v)
<1> DEFINE B == {b \in s.blocks : b.pos = p /\ f <= b.ver}
<1>1. \A b \in s.blocks : b.ver \in -t .. 0 /\ b.val \in 0 .. t
  BY DEF IsStore, IsBlock
<1>2. CASE B = {}
  <2>1. \A x \in s.blocks : x.pos = p => x.ver < f
    BY <1>1, <1>2
  <2> QED
    BY <2>1 DEF At, Zero
<1>3. CASE B # {}
  <2>1. \A b \in B : b.ver \in -t .. 0
    BY <1>1
  <2>2. PICK b \in B : \A x \in B : b.ver <= x.ver
    BY <1>3, <2>1, HasNewest
  <2>3. At(s, f, p, b.val)
    BY <2>2 DEF At
  <2> QED
    BY <1>1, <2>3
<1> QED
  BY <1>2, <1>3

LEMMA AtUnique ==
  ASSUME NEW t \in Nat, NEW s, IsStore(s, t), NEW f \in Int, NEW p,
         NEW v, At(s, f, p, v), NEW w, At(s, f, p, w)
  PROVE  v = w
<1>1. \A b \in s.blocks : b.ver \in Int
  BY DEF IsStore, IsBlock
<1>2. \A a, b \in s.blocks : a.pos = p /\ b.pos = p /\ a.ver <= b.ver /\ b.ver <= a.ver => a = b
  BY <1>1 DEF IsStore
<1> QED
  BY <1>1, <1>2 DEF At

\* xRead of a page finds the newest version the file's block 0 lets it see.
LEMMA ReadsPage ==
  ASSUME NEW t \in Nat, NEW s, IsStore(s, t), NEW b0, b0.ver \in Int,
         NEW p \in Nat \ {0}
  PROVE  At(s, b0.ver, p, ReadPage(s, b0, p))
<1> DEFINE B == {b \in s.blocks : b.pos = p /\ (b.ver >= b0.ver \/ p = 0)}
           here == {b \in Found(s, b0, p) : b.pos = p}
<1>1. \A b \in s.blocks : b.ver \in -t .. 0 /\ b.pos \in Nat
  BY DEF IsStore, IsBlock, Page
<1>2. ReadPage(s, b0, p) = IF here = {} THEN Zero ELSE (CHOOSE b \in here : TRUE).val
  BY DEF ReadPage
<1>3. CASE B = {}
  <2>1. \A x \in s.blocks : x.pos = p => x.ver < b0.ver
    BY <1>1, <1>3
  <2>2. here = {}
    <3> DEFINE low == {b \in s.blocks : b.pos < p}
               m == Max({x.pos : x \in low})
    <3>1. Found(s, b0, p) = IF low = {} THEN {} ELSE {Newest({b \in low : b.pos = m})}
      BY <1>3 DEF Found
    <3> SUFFICES ASSUME low # {}, Newest({b \in low : b.pos = m}).pos = p PROVE FALSE
      BY <3>1
    <3> DEFINE P == {x.pos : x \in low}
    <3>2. P # {} /\ P \subseteq 0 .. p
      BY <1>1
    <3>3. m \in P
      BY <3>2, MaxIsThere
    <3>4. {b \in low : b.pos = m} # {} /\ \A b \in {b \in low : b.pos = m} : b.ver \in -t .. 0
      BY <1>1, <3>3
    <3>5. \E y \in {b \in low : b.pos = m} : \A x \in {b \in low : b.pos = m} : y.ver <= x.ver
      BY <3>4, HasNewest
    <3>6. Newest({b \in low : b.pos = m}) \in {b \in low : b.pos = m}
      BY <3>5, Zenon DEF Newest
    <3> QED
      BY <3>6
  <2> QED
    BY <1>2, <2>1, <2>2 DEF At
<1>4. CASE B # {}
  <2>1. \A b \in B : b.ver \in -t .. 0
    BY <1>1
  <2>2. \E b \in B : \A x \in B : b.ver <= x.ver
    BY <1>4, <2>1, HasNewest
  <2>3. Newest(B) \in B /\ \A x \in B : Newest(B).ver <= x.ver
    BY <2>2, Zenon DEF Newest
  <2>4. Found(s, b0, p) = {Newest(B)}
    BY <1>4 DEF Found
  <2>5. here = {Newest(B)}
    BY <2>3, <2>4
  <2>6. (CHOOSE b \in here : TRUE) = Newest(B)
    BY <2>5
  <2>7. ReadPage(s, b0, p) = Newest(B).val
    BY <1>2, <2>5, <2>6
  <2> HIDE DEF here
  <2> QED
    BY <1>1, <2>3, <2>7 DEF At
<1> QED
  BY <1>3, <1>4

\* Any page holds one of the values written so far.
LEMMA ReadsValue ==
  ASSUME NEW t \in Nat, NEW s, IsStore(s, t), NEW b0, IsBlock(b0, t), NEW p \in Nat
  PROVE  ReadPage(s, b0, p) \in 0 .. t
<1>1. b0.ver \in Int /\ b0.val \in 0 .. t
  BY DEF IsBlock
<1>2. CASE p # 0
  <2>1. At(s, b0.ver, p, ReadPage(s, b0, p))
    BY <1>1, <1>2, ReadsPage
  <2>2. PICK v \in 0 .. t : At(s, b0.ver, p, v)
    BY <1>1, AtExists
  <2> QED
    BY <1>1, <2>1, <2>2, AtUnique
<1>3. CASE p = 0
  <2> DEFINE here == {b \in Found(s, b0, p) : b.pos = p}
             B    == {b \in s.blocks : b.pos = p /\ (b.ver >= b0.ver \/ p = 0)}
             low  == {b \in s.blocks : b.pos < p}
  <2>1. \A b \in s.blocks : b.ver \in -t .. 0 /\ b.val \in 0 .. t /\ b.pos \in Nat
    BY DEF IsStore, IsBlock, Page
  <2>2. low = {}
    BY <1>3, <2>1
  <2>3. CASE B = {}
    <3>1. here = {}
      BY <2>2, <2>3 DEF Found
    <3> QED
      BY <1>1, <3>1 DEF ReadPage, Zero
  <2>4. CASE B # {}
    <3>1. \A b \in B : b.ver \in -t .. 0
      BY <2>1
    <3>2. \E b \in B : \A x \in B : b.ver <= x.ver
      BY <2>4, <3>1, HasNewest
    <3>3. Newest(B) \in B
      BY <3>2, Zenon DEF Newest
    <3>4. Found(s, b0, p) = {Newest(B)}
      BY <2>4 DEF Found
    <3>5. here = {Newest(B)}
      BY <3>3, <3>4
    <3>6. (CHOOSE b \in here : TRUE) = Newest(B)
      BY <3>5
    <3>7. ReadPage(s, b0, p) \in {b0.val, Newest(B).val}
      BY <3>5, <3>6 DEF ReadPage
    <3> QED
      BY <1>1, <2>1, <3>3, <3>7
  <2> QED
    BY <2>3, <2>4
<1> QED
  BY <1>2, <1>3

LEMMA ReadsContent ==
  ASSUME NEW t \in Nat, NEW s, IsStore(s, t), NEW b0, IsBlock(b0, t)
  PROVE  /\ IsContent(ReadFile(s, b0), t)
         /\ Len(ReadFile(s, b0)) = b0.size
         /\ \A i \in 1 .. b0.size : ReadFile(s, b0)[i] = ReadPage(s, b0, i - 1)
<1>1. b0.size \in Nat /\ b0.size <= MaxPage
  BY DEF IsBlock
<1>2. \A i \in 1 .. b0.size : ReadPage(s, b0, i - 1) \in 0 .. t
  <2> TAKE i \in 1 .. b0.size
  <2>1. i - 1 \in Nat
    BY <1>1
  <2> QED
    BY <2>1, ReadsValue
<1>3. ReadFile(s, b0) \in [1 .. b0.size -> 0 .. t]
  BY <1>2 DEF ReadFile
<1>4. ReadFile(s, b0) \in Seq(0 .. t) /\ Len(ReadFile(s, b0)) = b0.size
  BY <1>1, <1>3
<1> QED
  BY <1>1, <1>4 DEF IsContent, ReadFile

\* SQLite reads what the newest block 0 lets it see.
LEMMA ReadsPlain ==
  ASSUME NEW t \in Nat, NEW s, IsStore(s, t), NEW n, IsBlock(n, t), n.size > 0 => n.val # Blank
  PROVE  Plain(s, n, ReadFile(s, n))
<1>1. n.size \in Nat /\ n.ver \in Int
  BY DEF IsBlock
<1>2. /\ Len(ReadFile(s, n)) = n.size
      /\ \A i \in 1 .. n.size : ReadFile(s, n)[i] = ReadPage(s, n, i - 1)
  BY ReadsContent
<1>3. n.size > 0 => ReadFile(s, n)[1] = n.val
  <2> SUFFICES ASSUME n.size > 0 PROVE ReadFile(s, n)[1] = n.val
    OBVIOUS
  <2>1. ReadFile(s, n)[1] = ReadPage(s, n, 0)
    BY <1>1, <1>2
  <2> QED
    BY <2>1 DEF ReadPage
<1>4. ASSUME NEW p \in 1 .. n.size - 1 PROVE At(s, n.ver, p, ReadFile(s, n)[p + 1])
  <2>1. ReadFile(s, n)[p + 1] = ReadPage(s, n, p)
    BY <1>1, <1>2
  <2> QED
    BY <1>1, <2>1, ReadsPage
<1> QED
  BY <1>2, <1>3, <1>4 DEF Plain

LEMMA SameContent ==
  ASSUME NEW t, NEW u, NEW c, NEW d, IsContent(c, t), IsContent(d, u), Len(c) = Len(d),
         \A i \in 1 .. Len(c) : c[i] = d[i]
  PROVE  c = d
BY DEF IsContent

LEMMA PlainUnique ==
  ASSUME NEW t \in Nat, NEW s, IsStore(s, t), NEW n \in s.blocks,
         NEW c, NEW d, IsContent(c, t), IsContent(d, t), Plain(s, n, c), Plain(s, n, d)
  PROVE  c = d
<1>1. n.size \in Nat /\ n.ver \in Int
  BY DEF IsStore, IsBlock
<1>2. ASSUME NEW i \in 1 .. n.size PROVE c[i] = d[i]
  <2>1. CASE i = 1
    BY <1>1, <2>1 DEF Plain
  <2>2. CASE i # 1
    <3>1. i - 1 \in 1 .. n.size - 1 /\ (i - 1) + 1 = i
      BY <1>1, <2>2
    <3>2. At(s, n.ver, i - 1, c[i]) /\ At(s, n.ver, i - 1, d[i])
      BY <3>1 DEF Plain
    <3> QED
      BY <1>1, <3>2, AtUnique
  <2> QED
    BY <2>1, <2>2
<1> QED
  BY <1>1, <1>2, SameContent DEF Plain

LEMMA FindsUnique ==
  ASSUME NEW t \in Nat, NEW s, IsStore(s, t), NEW c, NEW d, IsContent(c, t), IsContent(d, t),
         Finds(s, c), Finds(s, d), Intact(s)
  PROVE  c = d
<1>1. CASE s.blocks = {}
  BY <1>1 DEF Finds, Top
<1>2. CASE s.blocks # {}
  <2>1. PICK n \in s.blocks : Top(s, n) /\ Sound(s, n)
    BY <1>2 DEF Intact, EmptyStore
  <2>2. \A m \in s.blocks : Top(s, m) => m = n
    BY <2>1, TopUnique
  <2>3. CASE s.journal = NoJournal
    <3>1. Plain(s, n, c) /\ Plain(s, n, d)
      BY <1>2, <2>2, <2>3 DEF Finds
    <3> QED
      BY <3>1, PlainUnique
  <2>4. CASE s.journal # NoJournal
    <3>1. Replayed(s, n, c) /\ Replayed(s, n, d)
      BY <1>2, <2>2, <2>4 DEF Finds
    <3>2. s.journal.size \in Nat /\ n.ver \in Int
      BY <2>4 DEF IsStore, IsJournal, IsBlock
    <3>3. ASSUME NEW i \in 1 .. s.journal.size PROVE c[i] = d[i]
      <4>1. i - 1 \in 0 .. s.journal.size - 1 /\ (i - 1) + 1 = i
        BY <3>2
      <4>2. CASE i - 1 \in DOMAIN s.journal.page
        BY <3>1, <4>1, <4>2 DEF Replayed
      <4>3. CASE i - 1 \notin DOMAIN s.journal.page
        <5>1. At(s, n.ver, i - 1, c[i]) /\ At(s, n.ver, i - 1, d[i])
          BY <3>1, <4>1, <4>3 DEF Replayed
        <5> QED
          BY <3>2, <5>1, AtUnique
      <4> QED
        BY <4>2, <4>3
    <3>4. Len(c) = s.journal.size /\ Len(d) = s.journal.size
      BY <3>1 DEF Replayed
    <3> QED
      BY <3>3, <3>4, SameContent
  <2> QED
    BY <2>3, <2>4
<1> QED
  BY <1>1, <1>2

--------------------------------------------------------------------------------
(* Lemmas about what the functions do to a store.                              *)

Good(s, n, t) == IsStore(s, t) /\ Top(s, n) /\ Sound(s, n)

\* Whoever found a content in s finds it in u.
Keeps(s, u) == \A c : Finds(s, c) => Finds(u, c)

LEMMA HasFields ==
  ASSUME NEW B, NEW g, NEW jr
  PROVE  Fields([blocks |-> B, purge |-> g, journal |-> jr])
BY DEF Fields

LEMMA SetFields ==
  ASSUME NEW s, Fields(s), NEW B, NEW g, NEW jr
  PROVE  /\ [s EXCEPT !.blocks = B] = [blocks |-> B, purge |-> s.purge, journal |-> s.journal]
         /\ [s EXCEPT !.purge = g] = [blocks |-> s.blocks, purge |-> g, journal |-> s.journal]
         /\ [s EXCEPT !.journal = jr] = [blocks |-> s.blocks, purge |-> s.purge, journal |-> jr]
<1> DEFINE X == s.blocks
           y == s.purge
           z == s.journal
<1>1. s = [blocks |-> X, purge |-> y, journal |-> z]
  BY DEF Fields
<1> HIDE DEF X, y, z
<1>3. [s EXCEPT !.blocks = B] = [blocks |-> B, purge |-> y, journal |-> z]
  BY <1>1
<1>4. [s EXCEPT !.purge = g] = [blocks |-> X, purge |-> g, journal |-> z]
  BY <1>1
<1>5. [s EXCEPT !.journal = jr] = [blocks |-> X, purge |-> y, journal |-> jr]
  BY <1>1
<1> QED
  BY <1>3, <1>4, <1>5 DEF X, y, z

LEMMA PutIs ==
  ASSUME NEW t \in Nat, NEW s, IsStore(s, t), NEW b
  PROVE  /\ Put(s, b) = [blocks  |-> {x \in s.blocks : <<x.pos, x.ver>> # <<b.pos, b.ver>>} \cup {b},
                         purge   |-> s.purge,
                         journal |-> s.journal]
         /\ Fields(Put(s, b))
<1> DEFINE B == {x \in s.blocks : <<x.pos, x.ver>> # <<b.pos, b.ver>>} \cup {b}
<1>1. Put(s, b) = [s EXCEPT !.blocks = B]
  BY DEF Put
<1> HIDE DEF B
<1>2. Put(s, b) = [blocks |-> B, purge |-> s.purge, journal |-> s.journal]
  BY <1>1, SetFields DEF IsStore
<1>3. Fields(Put(s, b))
  BY <1>2, HasFields, Zenon
<1> QED
  BY <1>2, <1>3 DEF B

LEMMA PutStore ==
  ASSUME NEW t \in Nat, NEW s, IsStore(s, t), NEW b, IsBlock(b, t)
  PROVE  IsStore(Put(s, b), t)
<1> DEFINE u == Put(s, b)
<1>1. /\ u.blocks = {x \in s.blocks : <<x.pos, x.ver>> # <<b.pos, b.ver>>} \cup {b}
      /\ u.journal = s.journal
      /\ Fields(u)
  BY PutIs
<1>2. ASSUME NEW x \in u.blocks PROVE IsBlock(x, t)
  BY <1>1, <1>2 DEF IsStore
<1>3. ASSUME NEW x \in u.blocks, NEW y \in u.blocks, x.pos = y.pos, x.ver = y.ver PROVE x = y
  BY <1>1, <1>3 DEF IsStore
<1> HIDE DEF u
<1>4. u.journal = NoJournal \/ IsJournal(u.journal, t)
  BY <1>1 DEF IsStore
<1>5. IsStore(u, t)
  BY <1>1, <1>2, <1>3, <1>4 DEF IsStore
<1> QED
  BY <1>5 DEF u

\* The same store with fewer blocks.
LEMMA FewerBlocks ==
  ASSUME NEW t \in Nat, NEW s, IsStore(s, t), NEW B \in SUBSET s.blocks, NEW g
  PROVE  IsStore([blocks |-> B, purge |-> g, journal |-> s.journal], t)
BY HasFields DEF IsStore

LEMMA ClearIs ==
  ASSUME NEW t \in Nat, NEW s, IsStore(s, t), NEW f
  PROVE  /\ ClearAbandoned(s, f) = [blocks  |-> {b \in s.blocks : b.ver > f.b0.ver},
                                    purge   |-> s.purge,
                                    journal |-> s.journal]
         /\ IsStore(ClearAbandoned(s, f), t)
<1>1. ClearAbandoned(s, f) = [blocks  |-> {b \in s.blocks : b.ver > f.b0.ver},
                              purge   |-> s.purge, journal |-> s.journal]
  BY SetFields DEF ClearAbandoned, IsStore
<1> QED
  BY <1>1, FewerBlocks

LEMMA PurgeIs ==
  ASSUME NEW t \in Nat, NEW s, IsStore(s, t)
  PROVE  /\ Purge(s) = [blocks  |-> {b \in s.blocks : ~(b.pos \in DOMAIN s.purge.page
                                                        /\ b.ver > s.purge.page[b.pos])},
                        purge   |-> NoPurge,
                        journal |-> s.journal]
         /\ IsStore(Purge(s), t)
<1>1. Purge(s) = [blocks  |-> {b \in s.blocks : ~(b.pos \in DOMAIN s.purge.page
                                                  /\ b.ver > s.purge.page[b.pos])},
                  purge   |-> NoPurge, journal |-> s.journal]
  BY DEF Purge
<1> QED
  BY <1>1, FewerBlocks

LEMMA TruncateIs ==
  ASSUME NEW t \in Nat, NEW s, IsStore(s, t), NEW b, IsBlock(b, t)
  PROVE  /\ Truncate(s, b) =
              [blocks  |-> {x \in s.blocks : x.pos < b.size /\ <<x.pos, x.ver>> # <<b.pos, b.ver>>}
                               \cup {b},
               purge   |-> s.purge,
               journal |-> s.journal]
         /\ IsStore(Truncate(s, b), t)
<1> DEFINE cut == [s EXCEPT !.blocks = {x \in @ : x.pos < b.size}]
<1>1. cut = [blocks |-> {x \in s.blocks : x.pos < b.size}, purge |-> s.purge, journal |-> s.journal]
  BY SetFields DEF IsStore
<1>2. IsStore(cut, t)
  <2>1. IsStore([blocks |-> {x \in s.blocks : x.pos < b.size}, purge |-> s.purge, journal |-> s.journal], t)
    BY FewerBlocks
  <2> QED
    BY <1>1, <2>1, Zenon
<1>3. Truncate(s, b) = Put(cut, b)
  BY DEF Truncate
<1>4. IsStore(Truncate(s, b), t)
  BY <1>2, <1>3, PutStore
<1> HIDE DEF cut
<1>5. Truncate(s, b) = [blocks  |-> {x \in cut.blocks : <<x.pos, x.ver>> # <<b.pos, b.ver>>} \cup {b},
                        purge   |-> cut.purge, journal |-> cut.journal]
  BY <1>2, <1>3, PutIs
<1>6. {x \in cut.blocks : <<x.pos, x.ver>> # <<b.pos, b.ver>>}
        = {x \in s.blocks : x.pos < b.size /\ <<x.pos, x.ver>> # <<b.pos, b.ver>>}
  BY <1>1
<1> QED
  BY <1>1, <1>4, <1>5, <1>6

LEMMA CommitIs ==
  ASSUME NEW t \in Nat, NEW s, IsStore(s, t), NEW b, IsBlock(b, t), NEW changed
  PROVE  /\ CommitBatch(s, b, changed).blocks
              = {x \in s.blocks : <<x.pos, x.ver>> # <<b.pos, b.ver>>} \cup {b}
         /\ CommitBatch(s, b, changed).purge.page
              = [p \in DOMAIN s.purge.page \cup changed |->
                    IF p \in changed THEN b.ver ELSE s.purge.page[p]]
         /\ CommitBatch(s, b, changed).journal = s.journal
         /\ IsStore(CommitBatch(s, b, changed), t)
<1> DEFINE u == Put(s, b)
           old == s.purge.page
           g == [page |-> [p \in DOMAIN old \cup changed |-> IF p \in changed THEN b.ver ELSE old[p]],
                 count |-> s.purge.count + Cardinality(changed)]
<1>1. /\ u.blocks = {x \in s.blocks : <<x.pos, x.ver>> # <<b.pos, b.ver>>} \cup {b}
      /\ u.journal = s.journal
      /\ Fields(u)
  BY PutIs
<1>2. CommitBatch(s, b, changed) = [u EXCEPT !.purge = g]
  BY DEF CommitBatch
<1>3. IsStore(u, t)
  BY PutStore
<1> HIDE DEF u, g
<1>4. CommitBatch(s, b, changed) = [blocks |-> u.blocks, purge |-> g, journal |-> u.journal]
  BY <1>1, <1>2, SetFields
<1>5. IsStore(CommitBatch(s, b, changed), t)
  BY <1>3, <1>4, FewerBlocks
<1>6. CommitBatch(s, b, changed).purge.page = g.page
  BY <1>4
<1> QED
  BY <1>1, <1>4, <1>5, <1>6 DEF g

\* The pages of the file that the journal, if there is one, does not replace.
Needed(s, n, p) ==
    /\ p \in Nat \ {0}
    /\ IF s.journal = NoJournal THEN p < n.size
       ELSE p < s.journal.size /\ p \notin DOMAIN s.journal.page

\* What is found does not change when block 0 and those pages do not.
LEMMA KeepsBy ==
  ASSUME NEW t \in Nat, NEW s, IsStore(s, t), NEW n, Top(s, n), NEW u, NEW m, Top(u, m),
         m.ver = n.ver, u.journal = s.journal, s.journal = NoJournal => m = n,
         \A p, v : Needed(s, n, p) /\ At(s, n.ver, p, v) => At(u, n.ver, p, v)
  PROVE  Keeps(s, u)
<1> SUFFICES ASSUME NEW c, Finds(s, c) PROVE Finds(u, c)
  BY DEF Keeps
<1>1. n \in s.blocks /\ m \in u.blocks /\ n.size \in Nat
  BY DEF Top, IsStore, IsBlock
<1>2. PICK k \in s.blocks :
        Top(s, k) /\ IF s.journal = NoJournal THEN Plain(s, k, c) ELSE Replayed(s, k, c)
  BY <1>1 DEF Finds
<1>3. k = n
  BY <1>2, TopUnique
<1>4. CASE s.journal = NoJournal
  <2>1. \A p \in 1 .. n.size - 1 : At(u, n.ver, p, c[p + 1])
    BY <1>1, <1>2, <1>3, <1>4 DEF Needed, Plain
  <2>2. Plain(u, m, c)
    BY <1>2, <1>3, <1>4, <2>1 DEF Plain
  <2> QED
    BY <1>1, <1>4, <2>2 DEF Finds
<1>5. CASE s.journal # NoJournal
  <2>1. /\ s.journal.size \in Nat
        /\ s.journal.size > 0 => 0 \in DOMAIN s.journal.page
    BY <1>5 DEF IsStore, IsJournal
  <2>2. ASSUME NEW p \in 0 .. s.journal.size - 1, p \notin DOMAIN s.journal.page
        PROVE  At(u, m.ver, p, c[p + 1])
    <3>1. At(s, n.ver, p, c[p + 1])
      BY <1>2, <1>3, <1>5, <2>2 DEF Replayed
    <3>2. Needed(s, n, p)
      BY <1>5, <2>1, <2>2 DEF Needed
    <3> QED
      BY <3>1, <3>2
  <2>3. Replayed(u, m, c)
    BY <1>2, <1>3, <1>5, <2>2 DEF Replayed
  <2> QED
    BY <1>1, <1>5, <2>3 DEF Finds
<1> QED
  BY <1>4, <1>5

\* A page is put with the version of the batch or, outside one, the file's.
LEMMA PutPage ==
  ASSUME NEW t \in Nat, NEW s, NEW n, Good(s, n, t), NEW b, IsBlock(b, t), b.pos # 0,
         b.ver \in {n.ver - 1, n.ver}
  PROVE  /\ Good(Put(s, b), n, t)
         /\ Put(s, b).journal = s.journal
         /\ At(Put(s, b), b.ver, b.pos, b.val)
         /\ \A f, p, v : p # b.pos /\ At(s, f, p, v) => At(Put(s, b), f, p, v)
         /\ \A f \in Int : \A p, v : b.ver < f /\ At(s, f, p, v) => At(Put(s, b), f, p, v)
         /\ b \in Put(s, b).blocks
         /\ \A x \in s.blocks : \E y \in Put(s, b).blocks : y.pos = x.pos /\ y.ver = x.ver
<1> DEFINE u == Put(s, b)
<1>1. /\ u.blocks = {x \in s.blocks : <<x.pos, x.ver>> # <<b.pos, b.ver>>} \cup {b}
      /\ u.journal = s.journal /\ u.purge = s.purge
  BY PutIs DEF Good
<1>2. /\ n \in s.blocks /\ n.pos = 0 /\ n.ver \in Int /\ b.ver \in Int
      /\ \A x \in s.blocks : x.ver \in Int /\ x.pos \in Nat
  BY DEF Good, Top, IsStore, IsBlock, Page
<1>3. IsStore(u, t)
  BY PutStore DEF Good
<1> HIDE DEF u
<1>4. Top(u, n)
  BY <1>1, <1>2 DEF Good, Top
<1>5. \A x \in u.blocks : n.ver - 1 <= x.ver
  BY <1>1, <1>2 DEF Good, Sound
<1>6. PurgeSafe(u, n)
  <2> SUFFICES ASSUME NEW p \in DOMAIN s.purge.page
               PROVE  \/ \E x \in u.blocks : x.pos = p /\ n.ver <= x.ver /\ x.ver <= s.purge.page[p]
                      \/ \A x \in u.blocks : x.pos = p => x.ver <= s.purge.page[p]
    BY <1>1 DEF PurgeSafe, Good, Sound
  <2>1. s.purge.page[p] \in Int /\ n.ver <= s.purge.page[p]
    BY DEF PurgeSafe, Good, Sound
  <2>2. CASE \E x \in s.blocks : x.pos = p /\ n.ver <= x.ver /\ x.ver <= s.purge.page[p]
    <3>1. PICK x \in s.blocks : x.pos = p /\ n.ver <= x.ver /\ x.ver <= s.purge.page[p]
      BY <2>2
    <3>2. CASE <<x.pos, x.ver>> = <<b.pos, b.ver>>
      BY <1>1, <3>1, <3>2
    <3>3. CASE <<x.pos, x.ver>> # <<b.pos, b.ver>>
      BY <1>1, <3>1, <3>3
    <3> QED
      BY <3>2, <3>3
  <2>3. CASE \A x \in s.blocks : x.pos = p => x.ver <= s.purge.page[p]
    BY <1>1, <1>2, <2>1, <2>3
  <2> QED
    BY <2>2, <2>3 DEF PurgeSafe, Good, Sound
<1>7. Sound(u, n)
  BY <1>1, <1>5, <1>6 DEF Sound, Good
<1>8. At(u, b.ver, b.pos, b.val)
  BY <1>1, <1>2 DEF At
<1>9. ASSUME NEW f, NEW p, NEW v, p # b.pos, At(s, f, p, v) PROVE At(u, f, p, v)
  BY <1>1, <1>9 DEF At
<1>10. ASSUME NEW f \in Int, NEW p, NEW v, b.ver < f, At(s, f, p, v) PROVE At(u, f, p, v)
  BY <1>1, <1>2, <1>10 DEF At
<1>11. b \in u.blocks /\ \A x \in s.blocks : \E y \in u.blocks : y.pos = x.pos /\ y.ver = x.ver
  <2>1. ASSUME NEW x \in s.blocks PROVE \E y \in u.blocks : y.pos = x.pos /\ y.ver = x.ver
    <3>1. CASE <<x.pos, x.ver>> = <<b.pos, b.ver>>
      BY <1>1, <3>1
    <3>2. CASE <<x.pos, x.ver>> # <<b.pos, b.ver>>
      BY <1>1, <3>2
    <3> QED
      BY <3>1, <3>2
  <2> QED
    BY <1>1, <2>1
<1> QED
  BY <1>1, <1>3, <1>4, <1>7, <1>8, <1>9, <1>10, <1>11 DEF Good, u

\* It is not seen, or the journal has the page.
LEMMA PutKeeps ==
  ASSUME NEW t \in Nat, NEW s, NEW n, Good(s, n, t), NEW b, IsBlock(b, t), b.pos # 0,
         b.ver \in {n.ver - 1, n.ver},
         b.ver = n.ver => ~ Needed(s, n, b.pos)
  PROVE  Keeps(s, Put(s, b))
<1> DEFINE u == Put(s, b)
<1>1. n.ver \in Int
  BY DEF Good, Top, IsStore, IsBlock
<1>2. /\ Good(u, n, t)
      /\ u.journal = s.journal
      /\ \A f, p, v : p # b.pos /\ At(s, f, p, v) => At(u, f, p, v)
      /\ \A f \in Int : \A p, v : b.ver < f /\ At(s, f, p, v) => At(u, f, p, v)
  BY PutPage
<1> HIDE DEF u
<1>3. ASSUME NEW p, NEW v, Needed(s, n, p), At(s, n.ver, p, v) PROVE At(u, n.ver, p, v)
  <2>1. CASE b.ver = n.ver
    BY <1>2, <1>3, <2>1
  <2>2. CASE b.ver = n.ver - 1
    BY <1>1, <1>2, <1>3, <2>2
  <2> QED
    BY <2>1, <2>2
<1>4. IsStore(s, t) /\ Top(s, n) /\ Top(u, n)
  BY <1>2 DEF Good
<1>5. Keeps(s, u)
  BY <1>2, <1>3, <1>4, KeepsBy
<1> QED
  BY <1>5 DEF u

\* The blocks of an abandoned batch go.
LEMMA ClearKeeps ==
  ASSUME NEW t \in Nat, NEW s, NEW n, Good(s, n, t), NEW f, f.b0.ver = n.ver - 1
  PROVE  /\ Good(ClearAbandoned(s, f), n, t)
         /\ ClearAbandoned(s, f).journal = s.journal
         /\ Keeps(s, ClearAbandoned(s, f))
         /\ \A p, v : At(s, n.ver, p, v) => At(ClearAbandoned(s, f), n.ver - 1, p, v)
<1> DEFINE u == ClearAbandoned(s, f)
<1>0. u.blocks = {b \in s.blocks : b.ver > f.b0.ver} /\ u.journal = s.journal /\ u.purge = s.purge
  <2> DEFINE B == {b \in s.blocks : b.ver > f.b0.ver}
  <2>1. u = [blocks |-> B, purge |-> s.purge, journal |-> s.journal]
    BY ClearIs, Zenon DEF Good
  <2> HIDE DEF u, B
  <2>2. u.blocks = B /\ u.journal = s.journal /\ u.purge = s.purge
    BY <2>1
  <2> QED
    BY <2>2 DEF B
<1>1. u.blocks = {x \in s.blocks : n.ver - 1 < x.ver} /\ u.journal = s.journal /\ u.purge = s.purge
  <2>1. \A b \in s.blocks : b.ver \in Int /\ n.ver \in Int
    BY DEF Good, Top, IsStore, IsBlock
  <2> HIDE DEF u
  <2>2. {b \in s.blocks : b.ver > f.b0.ver} = {x \in s.blocks : n.ver - 1 < x.ver}
    BY <2>1
  <2> QED
    BY <1>0, <2>2
<1>2. IsStore(u, t)
  BY ClearIs DEF Good
<1>3. /\ n \in s.blocks /\ n.pos = 0 /\ n.ver \in Int
      /\ \A x \in s.blocks : x.ver \in Int
  BY DEF Good, Top, IsStore, IsBlock
<1> HIDE DEF u
<1>4. Top(u, n)
  BY <1>1, <1>3 DEF Good, Top
<1>5. PurgeSafe(u, n)
  BY <1>1, <1>3 DEF PurgeSafe, Good, Sound
<1>6. Sound(u, n)
  BY <1>1, <1>5 DEF Sound, Good
<1>7. ASSUME NEW p, NEW v, At(s, n.ver, p, v) PROVE At(u, n.ver, p, v) /\ At(u, n.ver - 1, p, v)
  BY <1>1, <1>3, <1>7 DEF At
<1>8. IsStore(s, t) /\ Top(s, n)
  BY DEF Good
<1>9. Keeps(s, u)
  BY <1>1, <1>4, <1>7, <1>8, KeepsBy
<1> QED
  BY <1>1, <1>2, <1>4, <1>6, <1>7, <1>9 DEF Good, u

\* A purge takes nothing that anybody reads.
LEMMA PurgeKeeps ==
  ASSUME NEW t \in Nat, NEW s, NEW n, Good(s, n, t)
  PROVE  /\ Good(Purge(s), n, t)
         /\ Purge(s).journal = s.journal
         /\ Keeps(s, Purge(s))
         /\ \A f \in Int : \A p, v : f <= n.ver /\ At(s, f, p, v) => At(Purge(s), f, p, v)
         /\ \A x \in s.blocks : x.ver < n.ver => x \in Purge(s).blocks
<1> DEFINE u == Purge(s)
           page == s.purge.page
<1>1. /\ u.blocks = {b \in s.blocks : ~(b.pos \in DOMAIN page /\ b.ver > page[b.pos])}
      /\ u.journal = s.journal /\ u.purge = NoPurge
  BY PurgeIs DEF Good
<1>2. IsStore(u, t)
  BY PurgeIs DEF Good
<1>3. /\ n \in s.blocks /\ n.pos = 0 /\ n.ver \in Int
      /\ \A x \in s.blocks : x.ver \in Int
  BY DEF Good, Top, IsStore, IsBlock
<1>4. \A p \in DOMAIN page :
        /\ page[p] \in Int /\ n.ver <= page[p]
        /\ \/ \E b \in s.blocks : b.pos = p /\ n.ver <= b.ver /\ b.ver <= page[p]
           \/ \A b \in s.blocks : b.pos = p => b.ver <= page[p]
  BY DEF PurgeSafe, Good, Sound
<1> HIDE DEF u, page
<1>5. \A x \in s.blocks : x.ver <= n.ver => x \in u.blocks
  BY <1>1, <1>3, <1>4
<1>6. Top(u, n)
  BY <1>1, <1>3, <1>5 DEF Good, Top
<1>7. PurgeSafe(u, n)
  BY <1>1 DEF PurgeSafe, NoPurge
<1>8. Sound(u, n)
  BY <1>1, <1>7 DEF Sound, Good
<1>9. ASSUME NEW f \in Int, NEW p, NEW v, f <= n.ver, At(s, f, p, v) PROVE At(u, f, p, v)
  <2>1. CASE v = Zero /\ \A x \in s.blocks : x.pos = p => x.ver < f
    BY <1>1, <2>1 DEF At
  <2>2. CASE \E b \in s.blocks : /\ b.pos = p /\ f <= b.ver /\ b.val = v
                                 /\ \A x \in s.blocks : x.pos = p /\ f <= x.ver => b.ver <= x.ver
    <3>1. PICK b \in s.blocks : /\ b.pos = p /\ f <= b.ver /\ b.val = v
                                /\ \A x \in s.blocks : x.pos = p /\ f <= x.ver => b.ver <= x.ver
      BY <2>2
    <3>2. CASE p \notin DOMAIN page
      BY <1>1, <3>1, <3>2 DEF At
    <3>3. CASE p \in DOMAIN page
      <4>1. b.ver <= page[p]
        BY <1>3, <1>4, <1>9, <3>1, <3>3
      <4>2. b \in u.blocks
        BY <1>1, <1>3, <1>4, <3>1, <3>3, <4>1
      <4> QED
        BY <1>1, <3>1, <4>2 DEF At
    <3> QED
      BY <3>2, <3>3
  <2> QED
    BY <1>9, <2>1, <2>2 DEF At
<1>10. IsStore(s, t) /\ Top(s, n)
  BY DEF Good
<1>11. Keeps(s, u)
  BY <1>1, <1>3, <1>6, <1>9, <1>10, KeepsBy
<1>12. \A x \in s.blocks : x.ver < n.ver => x \in u.blocks
  BY <1>3, <1>5
<1> QED
  BY <1>1, <1>2, <1>6, <1>8, <1>9, <1>11, <1>12 DEF Good, u

\* Block 0 of a new version brings in the pages of the batch.
LEMMA CommitShows ==
  ASSUME NEW t \in Nat, NEW s, NEW n, Good(s, n, t), s.journal = NoJournal,
         NEW b, IsBlock(b, t), b.pos = 0, b.ver = n.ver - 1,
         NEW c, Len(c) = b.size, b.size > 0 => c[1] = b.val /\ b.val # Blank,
         \A p \in 1 .. Len(c) - 1 : At(s, b.ver, p, c[p + 1]),
         NEW changed, \A p \in changed \ {0} : \E x \in s.blocks : x.pos = p /\ x.ver = b.ver
  PROVE  /\ Good(CommitBatch(s, b, changed), b, t)
         /\ CommitBatch(s, b, changed).journal = NoJournal
         /\ Finds(CommitBatch(s, b, changed), c)
<1> DEFINE u == CommitBatch(s, b, changed)
           page == s.purge.page
<1>1. /\ u.blocks = {x \in s.blocks : <<x.pos, x.ver>> # <<b.pos, b.ver>>} \cup {b}
      /\ u.purge.page = [p \in DOMAIN page \cup changed |-> IF p \in changed THEN b.ver ELSE page[p]]
      /\ u.journal = s.journal
      /\ IsStore(u, t)
  BY CommitIs DEF Good
<1>2. /\ n \in s.blocks /\ n.pos = 0 /\ n.ver \in Int /\ b.ver \in Int /\ b.size \in Nat
      /\ \A x \in s.blocks : x.ver \in Int /\ n.ver - 1 <= x.ver /\ (x.pos = 0 => n.ver <= x.ver)
  BY DEF Good, Top, Sound, IsStore, IsBlock
<1> HIDE DEF u, page
<1>3. Top(u, b)
  BY <1>1, <1>2 DEF Top
<1>4. \A p \in DOMAIN page :
        /\ page[p] \in Int /\ n.ver <= page[p]
        /\ \/ \E x \in s.blocks : x.pos = p /\ n.ver <= x.ver /\ x.ver <= page[p]
           \/ \A x \in s.blocks : x.pos = p => x.ver <= page[p]
  BY DEF PurgeSafe, Good, Sound, page
<1>5. PurgeSafe(u, b)
  <2> SUFFICES ASSUME NEW p \in DOMAIN page \cup changed
               PROVE  LET r == IF p \in changed THEN b.ver ELSE page[p]
                      IN  /\ r \in Int /\ b.ver <= r
                          /\ \/ \E x \in u.blocks : x.pos = p /\ b.ver <= x.ver /\ x.ver <= r
                             \/ \A x \in u.blocks : x.pos = p => x.ver <= r
    BY <1>1 DEF PurgeSafe
  <2>1. CASE p \in changed /\ p = 0
    BY <1>1, <1>2, <2>1
  <2>2. CASE p \in changed /\ p # 0
    <3>1. PICK x \in s.blocks : x.pos = p /\ x.ver = b.ver
      BY <2>2
    <3>2. x \in u.blocks
      BY <1>1, <2>2, <3>1
    <3> QED
      BY <1>2, <2>2, <3>1, <3>2
  <2>3. CASE p \notin changed
    <3>1. page[p] \in Int /\ n.ver <= page[p]
      BY <1>4, <2>3
    <3>2. CASE \E x \in s.blocks : x.pos = p /\ n.ver <= x.ver /\ x.ver <= page[p]
      <4>1. PICK x \in s.blocks : x.pos = p /\ n.ver <= x.ver /\ x.ver <= page[p]
        BY <3>2
      <4>2. x \in u.blocks
        BY <1>1, <1>2, <4>1
      <4> QED
        BY <1>2, <2>3, <3>1, <4>1, <4>2
    <3>3. CASE \A x \in s.blocks : x.pos = p => x.ver <= page[p]
      BY <1>1, <1>2, <2>3, <3>1, <3>3
    <3> QED
      BY <1>4, <2>3, <3>2, <3>3
  <2> QED
    BY <2>1, <2>2, <2>3
<1>6. Sound(u, b)
  BY <1>1, <1>2, <1>5 DEF Sound
<1>7. ASSUME NEW p \in 1 .. b.size - 1 PROVE At(u, b.ver, p, c[p + 1])
  <2>1. At(s, b.ver, p, c[p + 1])
    BY <1>2
  <2> QED
    BY <1>1, <1>2, <2>1 DEF At
<1>8. Finds(u, c)
  BY <1>1, <1>3, <1>7 DEF Finds, Plain, Top
<1> QED
  BY <1>1, <1>3, <1>6, <1>8 DEF Good, u

\* The file is cut to the size it had when its journal was written.
LEMMA TruncateKeeps ==
  ASSUME NEW t \in Nat, NEW s, NEW n, Good(s, n, t), s.journal # NoJournal,
         NEW b, IsBlock(b, t), b.pos = 0, b.ver = n.ver, b.size = s.journal.size,
         b.size > 0 => b.val # Blank
  PROVE  /\ Good(Truncate(s, b), b, t)
         /\ Truncate(s, b).journal = s.journal
         /\ Keeps(s, Truncate(s, b))
         /\ \A p, v : p \in 1 .. b.size - 1 /\ At(s, b.ver, p, v) => At(Truncate(s, b), b.ver, p, v)
<1> DEFINE u == Truncate(s, b)
<1>1. /\ u.blocks = {x \in s.blocks : x.pos < b.size /\ <<x.pos, x.ver>> # <<b.pos, b.ver>>} \cup {b}
      /\ u.journal = s.journal /\ u.purge = s.purge
      /\ IsStore(u, t)
  BY TruncateIs DEF Good
<1>2. /\ n \in s.blocks /\ n.pos = 0 /\ n.ver \in Int /\ b.ver \in Int /\ b.size \in Nat
      /\ \A x \in s.blocks : x.ver \in Int /\ n.ver - 1 <= x.ver /\ (x.pos = 0 => n.ver <= x.ver)
  BY DEF Good, Top, Sound, IsStore, IsBlock
<1> HIDE DEF u
<1>3. Top(u, b)
  BY <1>1, <1>2 DEF Top
<1>4. \A p \in DOMAIN s.purge.page :
        /\ s.purge.page[p] \in Int /\ n.ver <= s.purge.page[p]
        /\ \/ \E x \in s.blocks : x.pos = p /\ n.ver <= x.ver /\ x.ver <= s.purge.page[p]
           \/ \A x \in s.blocks : x.pos = p => x.ver <= s.purge.page[p]
  BY DEF PurgeSafe, Good, Sound
<1>5. PurgeSafe(u, b)
  <2> SUFFICES ASSUME NEW p \in DOMAIN s.purge.page
               PROVE  \/ \E x \in u.blocks : x.pos = p /\ b.ver <= x.ver /\ x.ver <= s.purge.page[p]
                      \/ \A x \in u.blocks : x.pos = p => x.ver <= s.purge.page[p]
    BY <1>1, <1>4 DEF PurgeSafe
  <2>1. CASE p = 0
    BY <1>1, <1>2, <1>4, <2>1
  <2>2. CASE p # 0 /\ p < b.size
    BY <1>1, <1>2, <1>4, <2>2
  <2>3. CASE p # 0 /\ ~(p < b.size)
    BY <1>1, <2>3
  <2> QED
    BY <2>1, <2>2, <2>3
<1>6. Sound(u, b)
  BY <1>1, <1>2, <1>5 DEF Sound, Good
<1>7. ASSUME NEW p, NEW v, p \in 1 .. b.size - 1, At(s, b.ver, p, v) PROVE At(u, b.ver, p, v)
  BY <1>1, <1>2, <1>7 DEF At
<1>8. \A p, v : Needed(s, n, p) /\ At(s, n.ver, p, v) => At(u, n.ver, p, v)
  BY <1>2, <1>7 DEF Needed
<1>9. IsStore(s, t) /\ Top(s, n)
  BY DEF Good
<1>10. Keeps(s, u)
  BY <1>1, <1>3, <1>8, <1>9, KeepsBy
<1> QED
  BY <1>1, <1>3, <1>6, <1>7, <1>10 DEF Good, u

\* Block 0 is written through while a journal holds what it was.
LEMMA Block0Keeps ==
  ASSUME NEW t \in Nat, NEW s, NEW n, Good(s, n, t), s.journal # NoJournal,
         NEW b, IsBlock(b, t), b.pos = 0, b.ver = n.ver, s.journal.size <= b.size,
         b.size > 0 => b.val # Blank
  PROVE  /\ Good(Put(s, b), b, t)
         /\ Put(s, b).journal = s.journal
         /\ Keeps(s, Put(s, b))
         /\ \A f, p, v : p # 0 /\ At(s, f, p, v) => At(Put(s, b), f, p, v)
<1> DEFINE u == Put(s, b)
<1>1. /\ u.blocks = {x \in s.blocks : <<x.pos, x.ver>> # <<b.pos, b.ver>>} \cup {b}
      /\ u.journal = s.journal /\ u.purge = s.purge
  BY PutIs DEF Good
<1>0. IsStore(u, t)
  BY PutStore DEF Good
<1>2. /\ n \in s.blocks /\ n.pos = 0 /\ n.ver \in Int /\ b.ver \in Int /\ b.size \in Nat
      /\ \A x \in s.blocks : x.ver \in Int /\ n.ver - 1 <= x.ver /\ (x.pos = 0 => n.ver <= x.ver)
  BY DEF Good, Top, Sound, IsStore, IsBlock
<1> HIDE DEF u
<1>3. Top(u, b)
  BY <1>1, <1>2 DEF Top
<1>4. \A p \in DOMAIN s.purge.page :
        /\ s.purge.page[p] \in Int /\ n.ver <= s.purge.page[p]
        /\ \/ \E x \in s.blocks : x.pos = p /\ n.ver <= x.ver /\ x.ver <= s.purge.page[p]
           \/ \A x \in s.blocks : x.pos = p => x.ver <= s.purge.page[p]
  BY DEF PurgeSafe, Good, Sound
<1>5. PurgeSafe(u, b)
  <2> SUFFICES ASSUME NEW p \in DOMAIN s.purge.page
               PROVE  \/ \E x \in u.blocks : x.pos = p /\ b.ver <= x.ver /\ x.ver <= s.purge.page[p]
                      \/ \A x \in u.blocks : x.pos = p => x.ver <= s.purge.page[p]
    BY <1>1, <1>4 DEF PurgeSafe
  <2>1. CASE p = 0
    BY <1>1, <1>2, <1>4, <2>1
  <2>2. CASE p # 0
    BY <1>1, <1>2, <1>4, <2>2
  <2> QED
    BY <2>1, <2>2
<1>6. Sound(u, b)
  BY <1>1, <1>2, <1>5 DEF Sound, Good
<1>7. ASSUME NEW f, NEW p, NEW v, p # 0, At(s, f, p, v) PROVE At(u, f, p, v)
  BY <1>1, <1>7 DEF At
<1>8. \A p, v : Needed(s, n, p) /\ At(s, n.ver, p, v) => At(u, n.ver, p, v)
  BY <1>7 DEF Needed
<1>9. IsStore(s, t) /\ Top(s, n)
  BY DEF Good
<1>10. Keeps(s, u)
  BY <1>1, <1>3, <1>8, <1>9, KeepsBy
<1> QED
  BY <1>0, <1>1, <1>3, <1>6, <1>7, <1>10 DEF Good, u

\* A journal that holds pages of the file, as they are, changes nothing yet.
LEMMA JournalKeeps ==
  ASSUME NEW t \in Nat, NEW s, NEW n, Good(s, n, t), s.journal = NoJournal,
         NEW jr, IsJournal(jr, t), NEW c, Finds(s, c), jr.size = Len(c),
         \A p \in DOMAIN jr.page : jr.page[p] = c[p + 1]
  PROVE  /\ Good([s EXCEPT !.journal = jr], n, t)
         /\ [s EXCEPT !.journal = jr].journal = jr
         /\ Finds([s EXCEPT !.journal = jr], c)
<1> DEFINE u == [s EXCEPT !.journal = jr]
<1>1. u = [blocks |-> s.blocks, purge |-> s.purge, journal |-> jr]
  BY SetFields DEF Good, IsStore
<1> HIDE DEF u
<1>2. u.blocks = s.blocks /\ u.purge = s.purge /\ u.journal = jr
  BY <1>1
<1>3. Fields(u)
  BY <1>1, HasFields, Zenon
<1>4. IsStore(u, t)
  BY <1>2, <1>3 DEF IsStore, Good
<1>5. jr # NoJournal /\ jr.size \in Nat
  BY DEF IsJournal, NoJournal
<1>6. n \in s.blocks /\ n.size \in Nat /\ (n.size > 0 => n.val # Blank)
  BY DEF Good, Top, Sound, IsStore, IsBlock
<1>7. Plain(s, n, c)
  <2>1. PICK k \in s.blocks : Top(s, k) /\ Plain(s, k, c)
    BY <1>6 DEF Finds
  <2>2. k = n
    BY <2>1, TopUnique DEF Good
  <2> QED
    BY <2>1, <2>2
<1>8. Top(u, n)
  BY <1>2 DEF Top, Good
<1>9. jr.size > 0 => jr.page[0] # Blank
  <2> SUFFICES ASSUME jr.size > 0 PROVE jr.page[0] # Blank
    OBVIOUS
  <2>1. 0 \in DOMAIN jr.page
    BY DEF IsJournal
  <2>2. jr.page[0] = c[1]
    BY <2>1
  <2> QED
    BY <1>5, <1>6, <1>7, <2>2 DEF Plain
<1>10. Sound(u, n)
  <2>1. PurgeSafe(u, n)
    BY <1>2 DEF PurgeSafe, Sound, Good
  <2>2. jr.size <= n.size
    BY <1>5, <1>6, <1>7 DEF Plain
  <2> QED
    BY <1>2, <1>9, <2>1, <2>2 DEF Sound, Good
<1>11. Replayed(u, n, c)
  <2> SUFFICES ASSUME NEW p \in 0 .. jr.size - 1, p \notin DOMAIN jr.page
               PROVE  At(u, n.ver, p, c[p + 1])
    BY <1>2 DEF Replayed
  <2>1. p # 0
    BY <1>5 DEF IsJournal
  <2>2. At(s, n.ver, p, c[p + 1])
    BY <1>5, <1>7, <2>1 DEF Plain
  <2> QED
    BY <1>2, <2>2 DEF At
<1>12. Finds(u, c)
  BY <1>2, <1>5, <1>6, <1>8, <1>11 DEF Finds
<1> QED
  BY <1>2, <1>4, <1>8, <1>10, <1>12 DEF Good, u

\* Without the journal the file is what is there.
LEMMA UnlinkShows ==
  ASSUME NEW t \in Nat, NEW s, NEW n, Good(s, n, t), NEW c, Plain(s, n, c)
  PROVE  /\ Good([s EXCEPT !.journal = NoJournal], n, t)
         /\ [s EXCEPT !.journal = NoJournal].journal = NoJournal
         /\ Finds([s EXCEPT !.journal = NoJournal], c)
<1> DEFINE u == [s EXCEPT !.journal = NoJournal]
<1>1. u = [blocks |-> s.blocks, purge |-> s.purge, journal |-> NoJournal]
  BY SetFields DEF Good, IsStore
<1> HIDE DEF u
<1>2. u.blocks = s.blocks /\ u.purge = s.purge /\ u.journal = NoJournal
  BY <1>1
<1>3. Fields(u)
  BY <1>1, HasFields, Zenon
<1>4. IsStore(u, t)
  BY <1>2, <1>3 DEF IsStore, Good
<1>5. Top(u, n)
  BY <1>2 DEF Top, Good
<1>6. PurgeSafe(u, n)
  BY <1>2 DEF PurgeSafe, Sound, Good
<1>7. Sound(u, n)
  BY <1>2, <1>6 DEF Sound, Good
<1>8. Plain(u, n, c)
  BY <1>2 DEF Plain, At
<1>9. Finds(u, c)
  BY <1>2, <1>5, <1>8 DEF Finds, Top
<1> QED
  BY <1>2, <1>4, <1>5, <1>7, <1>9 DEF Good, u

LEMMA EmptyIs ==
  ASSUME NEW t \in Nat
  PROVE  IsStore(EmptyStore, t) /\ Intact(EmptyStore) /\ Finds(EmptyStore, << >>)
<1>1. Fields(EmptyStore)
  BY HasFields, Zenon DEF EmptyStore
<1>2. EmptyStore.blocks = {} /\ EmptyStore.journal = NoJournal
  BY DEF EmptyStore
<1>3. IsStore(EmptyStore, t)
  BY <1>1, <1>2 DEF IsStore
<1> QED
  BY <1>2, <1>3 DEF Intact, Finds

\* The file is created.
LEMMA OpenShows ==
  ASSUME NEW t \in Nat, MaxPage \in Nat \ {0}
  PROVE  /\ IsBlock(NoFile.b0, t)
         /\ Good(Put(EmptyStore, NoFile.b0), NoFile.b0, t)
         /\ Put(EmptyStore, NoFile.b0).journal = NoJournal
         /\ Keeps(EmptyStore, Put(EmptyStore, NoFile.b0))
<1> DEFINE u == Put(EmptyStore, NoFile.b0)
           b == NoFile.b0
<1>1. /\ u.blocks = {x \in EmptyStore.blocks : <<x.pos, x.ver>> # <<b.pos, b.ver>>} \cup {b}
      /\ u.journal = EmptyStore.journal /\ u.purge = EmptyStore.purge
  BY PutIs, EmptyIs
<1>2. EmptyStore.blocks = {} /\ EmptyStore.journal = NoJournal /\ EmptyStore.purge = NoPurge
  BY DEF EmptyStore
<1>3. b = [pos |-> 0, ver |-> 0, val |-> Blank, size |-> 0]
  BY DEF NoFile, Block
<1>4. IsBlock(b, t)
  BY <1>3 DEF IsBlock, Blank, Page
<1>5. IsStore(u, t)
  BY <1>4, EmptyIs, PutStore
<1> HIDE DEF u, b
<1>6. u.blocks = {b} /\ u.journal = NoJournal /\ u.purge = NoPurge
  BY <1>1, <1>2
<1>7. Top(u, b)
  BY <1>3, <1>6 DEF Top
<1>8. PurgeSafe(u, b)
  BY <1>6 DEF PurgeSafe, NoPurge
<1>9. Sound(u, b)
  BY <1>3, <1>6, <1>8 DEF Sound
<1>10. ASSUME NEW c, Finds(EmptyStore, c) PROVE Finds(u, c)
  <2>1. c = << >>
    BY <1>2, <1>10 DEF Finds
  <2>2. Plain(u, b, c)
    BY <1>3, <2>1 DEF Plain
  <2> QED
    BY <1>6, <1>7, <2>2 DEF Finds
<1> QED
  BY <1>4, <1>5, <1>6, <1>7, <1>9, <1>10 DEF Good, Keeps, u, b

\* What a new connection reads is a content ...
LEMMA RecoveredIs ==
  ASSUME NEW t \in Nat, MaxPage \in Nat, NEW s, IsStore(s, t)
  PROVE  IsContent(Recovered(s), t)
<1>1. CASE Block0s(s) = {}
  <2>1. Recovered(s) = << >>
    BY <1>1 DEF Recovered
  <2> QED
    BY <2>1 DEF IsContent
<1>2. CASE Block0s(s) # {}
  <2> DEFINE n == Newest(Block0s(s))
             plain == ReadFile(s, n)
             jr == s.journal
             played == [i \in 1 .. jr.size |->
                          IF i - 1 \in DOMAIN jr.page THEN jr.page[i - 1]
                          ELSE IF i <= Len(plain) THEN plain[i] ELSE Zero]
  <2>1. IsBlock(n, t)
    BY <1>2, TopExists DEF Top, IsStore
  <2>2. IsContent(plain, t)
    BY <2>1, ReadsContent
  <2>3. Recovered(s) = IF jr = NoJournal THEN plain ELSE played
    BY <1>2 DEF Recovered
  <2> HIDE DEF n, plain
  <2>4. CASE jr = NoJournal
    BY <2>2, <2>3, <2>4
  <2>5. CASE jr # NoJournal
    <3>1. jr.size \in 0 .. MaxPage /\ \A p \in DOMAIN jr.page : jr.page[p] \in 0 .. t
      BY <2>5 DEF IsStore, IsJournal
    <3> HIDE DEF jr
    <3>2. played \in [1 .. jr.size -> 0 .. t]
      BY <2>2, <3>1 DEF IsContent, Zero
    <3>3. played \in Seq(0 .. t) /\ Len(played) = jr.size
      BY <3>1, <3>2
    <3> QED
      BY <2>3, <2>5, <3>1, <3>3 DEF IsContent
  <2> QED
    BY <2>4, <2>5
<1> QED
  BY <1>1, <1>2

\* ... and if nothing was lost it is what is found.
LEMMA FindsRecovered ==
  ASSUME NEW t \in Nat, NEW s, IsStore(s, t), Intact(s)
  PROVE  Finds(s, Recovered(s))
<1>1. CASE s = EmptyStore
  BY <1>1 DEF EmptyStore, Recovered, Block0s, Finds
<1>2. CASE s # EmptyStore
  <2>1. PICK n \in s.blocks : Top(s, n) /\ Sound(s, n)
    BY <1>2 DEF Intact
  <2> DEFINE plain == ReadFile(s, n)
             jr == s.journal
             played == [i \in 1 .. jr.size |->
                          IF i - 1 \in DOMAIN jr.page THEN jr.page[i - 1]
                          ELSE IF i <= Len(plain) THEN plain[i] ELSE Zero]
  <2>2. Recovered(s) = IF jr = NoJournal THEN plain ELSE played
    BY <2>1, TopIsNewest DEF Recovered
  <2>3. IsBlock(n, t)
    BY DEF IsStore
  <2>4. Plain(s, n, plain)
    BY <2>1, <2>3, ReadsPlain DEF Sound
  <2> HIDE DEF plain
  <2>5. CASE jr = NoJournal
    BY <2>1, <2>2, <2>4, <2>5 DEF Finds
  <2>6. CASE jr # NoJournal
    <3>1. /\ jr.size \in Nat
          /\ jr.size > 0 => 0 \in DOMAIN jr.page
          /\ jr.size <= n.size /\ n.size \in Nat
      BY <2>1, <2>3, <2>6 DEF IsStore, IsJournal, Sound, IsBlock
    <3>2. Len(played) = jr.size
      BY <3>1
    <3>3. ASSUME NEW p \in 0 .. jr.size - 1
          PROVE  IF p \in DOMAIN jr.page THEN played[p + 1] = jr.page[p]
                 ELSE At(s, n.ver, p, played[p + 1])
      <4>1. p + 1 \in 1 .. jr.size /\ (p + 1) - 1 = p
        BY <3>1
      <4>2. CASE p \in DOMAIN jr.page
        BY <4>1, <4>2
      <4>3. CASE p \notin DOMAIN jr.page
        <5>1. p \in 1 .. n.size - 1 /\ p + 1 <= Len(plain)
          BY <2>4, <3>1, <4>1, <4>3 DEF Plain
        <5>2. played[p + 1] = plain[p + 1]
          BY <4>1, <4>3, <5>1
        <5> QED
          BY <2>4, <4>3, <5>1, <5>2 DEF Plain
      <4> QED
        BY <4>2, <4>3
    <3> HIDE DEF played
    <3>4. Replayed(s, n, played)
      BY <3>2, <3>3 DEF Replayed
    <3> QED
      BY <2>1, <2>2, <2>6, <3>4 DEF Finds
  <2> QED
    BY <2>5, <2>6
<1> QED
  BY <1>1, <1>2

--------------------------------------------------------------------------------
(* The functions that wait.  There is never one behind sync(), and without     *)
(* the purges they come in the order of what SQLite does.                      *)

Ops(r) == {r[i] : i \in 1 .. Len(r)}

HasOp(q, k) == \E op \in q : op.do = k

PutAt(q, p) == \E op \in q : op.do = "put" /\ op.b.pos = p

Rank(k) ==
    IF k \in {"unlink", "clear", "journal", "truncate"} THEN 1
    ELSE IF k \in {"put", "block0"} THEN 2
    ELSE IF k \in {"open", "reload", "undo", "commit"} THEN 3
    ELSE 4

Before(a, b) ==
    /\ a.do # "sync"
    /\ \/ a.do = "purge" \/ b.do = "purge"
       \/ Rank(a.do) < Rank(b.do)
       \/ Rank(a.do) = 2 /\ Rank(b.do) = 2

Lined(r) ==
    /\ r \in Seq(Ops(r))
    /\ \A i, j \in 1 .. Len(r) : i < j => Before(r[i], r[j])

LEMMA OneOp == ASSUME NEW a PROVE Lined(<<a>>) /\ Ops(<<a>>) = {a}
  BY DEF Lined, Ops

LEMMA TwoOps ==
  ASSUME NEW a, NEW b, Before(a, b)
  PROVE  Lined(<<a, b>>) /\ Ops(<<a, b>>) = {a, b}
<1> DEFINE r == <<a, b>>
<1>1. Len(r) = 2 /\ r[1] = a /\ r[2] = b
  OBVIOUS
<1>2. Ops(r) = {a, b}
  <2>1. \A i \in 1 .. 2 : i = 1 \/ i = 2
    OBVIOUS
  <2> QED
    BY <1>1, <2>1 DEF Ops
<1>3. r \in Seq({a, b})
  OBVIOUS
<1>4. \A i, j \in 1 .. Len(r) : i < j => i = 1 /\ j = 2
  BY <1>1
<1> HIDE DEF r
<1> QED
  BY <1>1, <1>2, <1>3, <1>4 DEF Lined, r

LEMMA TailOps ==
  ASSUME NEW r, Lined(r), r # << >>
  PROVE  /\ Lined(Tail(r))
         /\ Ops(r) = {r[1]} \cup Ops(Tail(r))
         /\ \A op \in Ops(Tail(r)) : Before(r[1], op)
<1> DEFINE S == Ops(r)
           q == Tail(r)
<1>1. r \in Seq(S)
  BY DEF Lined
<1> HIDE DEF S
<1>2. Len(r) \in Nat \ {0} /\ q \in Seq(S) /\ Len(q) = Len(r) - 1
  BY <1>1
<1>3. \A i \in 1 .. Len(q) : q[i] = r[i + 1]
  BY <1>1
<1> HIDE DEF q
<1>4. Ops(r) = {r[1]} \cup Ops(q)
  <2>1. ASSUME NEW x \in Ops(r) PROVE x \in {r[1]} \cup Ops(q)
    <3>1. PICK i \in 1 .. Len(r) : x = r[i]
      BY <2>1 DEF Ops
    <3>2. CASE i = 1
      BY <3>1, <3>2
    <3>3. CASE i # 1
      <4>1. i - 1 \in 1 .. Len(q) /\ (i - 1) + 1 = i
        BY <1>2, <3>3
      <4>2. x = q[i - 1]
        BY <1>3, <3>1, <4>1
      <4> QED
        BY <4>1, <4>2 DEF Ops
    <3> QED
      BY <3>2, <3>3
  <2>2. ASSUME NEW x \in {r[1]} \cup Ops(q) PROVE x \in Ops(r)
    <3>1. CASE x = r[1]
      BY <1>2, <3>1 DEF Ops
    <3>2. CASE x \in Ops(q)
      <4>1. PICK i \in 1 .. Len(q) : x = q[i]
        BY <3>2 DEF Ops
      <4>2. i + 1 \in 1 .. Len(r) /\ x = r[i + 1]
        BY <1>2, <1>3, <4>1
      <4> QED
        BY <4>2 DEF Ops
    <3> QED
      BY <2>2, <3>1, <3>2
  <2> QED
    BY <2>1, <2>2
<1>5. \A i, j \in 1 .. Len(r) : i < j => Before(r[i], r[j])
  BY DEF Lined
<1>6. \A i, j \in 1 .. Len(q) : i < j => Before(q[i], q[j])
  BY <1>2, <1>3, <1>5
<1>7. q \in Seq(Ops(q))
  <2>1. \A i \in 1 .. Len(q) : q[i] \in Ops(q)
    BY DEF Ops
  <2> QED
    BY <1>2, <2>1
<1>8. ASSUME NEW op \in Ops(q) PROVE Before(r[1], op)
  <2>1. PICK i \in 1 .. Len(q) : op = q[i]
    BY DEF Ops
  <2>2. i + 1 \in 1 .. Len(r) /\ 1 \in 1 .. Len(r) /\ 1 < i + 1 /\ op = r[i + 1]
    BY <1>2, <1>3, <2>1
  <2> QED
    BY <1>5, <2>2
<1> QED
  BY <1>4, <1>6, <1>7, <1>8 DEF Lined, q

LEMMA JoinOps ==
  ASSUME NEW r, NEW q, Lined(r), Lined(q), \A a \in Ops(r) : \A b \in Ops(q) : Before(a, b)
  PROVE  Lined(r \o q) /\ Ops(r \o q) = Ops(r) \cup Ops(q)
<1> DEFINE R == Ops(r)
           Q == Ops(q)
           x == r \o q
<1>1. r \in Seq(R) /\ q \in Seq(Q)
  BY DEF Lined
<1>2. /\ \A i, j \in 1 .. Len(r) : i < j => Before(r[i], r[j])
      /\ \A i, j \in 1 .. Len(q) : i < j => Before(q[i], q[j])
  BY DEF Lined
<1>3. /\ \A i \in 1 .. Len(r) : r[i] \in R
      /\ \A i \in 1 .. Len(q) : q[i] \in Q
      /\ \A a \in R : \E i \in 1 .. Len(r) : a = r[i]
      /\ \A a \in Q : \E i \in 1 .. Len(q) : a = q[i]
  BY DEF Ops
<1> HIDE DEF R, Q
<1>4. r \in Seq(R \cup Q) /\ q \in Seq(R \cup Q)
  BY <1>1, <1>3
<1>5. /\ x \in Seq(R \cup Q) /\ Len(x) = Len(r) + Len(q) /\ Len(r) \in Nat /\ Len(q) \in Nat
      /\ \A i \in 1 .. Len(x) : x[i] = IF i <= Len(r) THEN r[i] ELSE q[i - Len(r)]
  BY <1>4
<1> HIDE DEF x
<1>6. \A i \in 1 .. Len(x) : (i <= Len(r) /\ i \in 1 .. Len(r)) \/ (i > Len(r) /\ i - Len(r) \in 1 .. Len(q))
  BY <1>5
<1>7. Ops(x) = R \cup Q
  <2>1. ASSUME NEW a \in Ops(x) PROVE a \in R \cup Q
    BY <1>5 DEF Ops
  <2>2. ASSUME NEW a \in R PROVE a \in Ops(x)
    <3>1. PICK i \in 1 .. Len(r) : a = r[i]
      BY <1>3
    <3>2. i \in 1 .. Len(x) /\ x[i] = a
      BY <1>5, <3>1
    <3> QED
      BY <3>2 DEF Ops
  <2>3. ASSUME NEW a \in Q PROVE a \in Ops(x)
    <3>1. PICK i \in 1 .. Len(q) : a = q[i]
      BY <1>3
    <3>2. i + Len(r) \in 1 .. Len(x) /\ ~(i + Len(r) <= Len(r)) /\ (i + Len(r)) - Len(r) = i
      BY <1>5, <3>1
    <3>3. x[i + Len(r)] = a
      BY <1>5, <3>1, <3>2
    <3> QED
      BY <3>2, <3>3 DEF Ops
  <2> QED
    BY <2>1, <2>2, <2>3
<1>8. ASSUME NEW i \in 1 .. Len(x), NEW j \in 1 .. Len(x), i < j PROVE Before(x[i], x[j])
  <2>1. CASE j <= Len(r)
    BY <1>2, <1>5, <1>6, <1>8, <2>1
  <2>2. CASE i <= Len(r) /\ ~(j <= Len(r))
    <3>0. i \in 1 .. Len(r) /\ j - Len(r) \in 1 .. Len(q) /\ ~(j <= Len(r))
      BY <1>5, <1>6, <2>2
    <3>2. x[i] = r[i] /\ x[j] = q[j - Len(r)]
      BY <1>5, <2>2, <3>0
    <3>1. x[i] \in R /\ x[j] \in Q
      BY <1>3, <3>0, <3>2, Zenon
    <3> QED
      BY <3>1 DEF R, Q
  <2>3. CASE ~(i <= Len(r))
    <3>1. /\ x[i] = q[i - Len(r)] /\ x[j] = q[j - Len(r)]
          /\ i - Len(r) \in 1 .. Len(q) /\ j - Len(r) \in 1 .. Len(q) /\ i - Len(r) < j - Len(r)
      BY <1>5, <1>6, <1>8, <2>3
    <3> QED
      BY <1>2, <3>1
  <2> QED
    BY <1>5, <2>1, <2>2, <2>3
<1> QED
  BY <1>5, <1>7, <1>8 DEF Lined, R, Q, x

--------------------------------------------------------------------------------
(* What holds whether or not writes were lost.                                 *)

Phases == {"closed", "opening", "unlocked", "locking", "locked", "hot", "failed", "batch",
           "written", "syncing", "rolling", "plain", "flushing", "replaying"}

\* The functions that may wait while SQLite is where it is.
KindOK(ph, k) ==
    \/ k = "purge"
    \/ ph \in {"closed", "unlocked", "opening", "locking"} /\ k = "unlink"
    \/ ph = "opening" /\ k = "open"
    \/ ph = "locking" /\ k = "reload"
    \/ ph \in {"batch", "written", "syncing", "rolling"} /\ k \in {"clear", "put"}
    \/ ph \in {"written", "syncing"} /\ k = "commit"
    \/ ph = "rolling" /\ k = "undo"
    \/ ph \in {"plain", "flushing"} /\ k \in {"journal", "put", "block0"}
    \/ ph = "replaying" /\ k \in {"truncate", "put", "block0"}
    \/ ph \in Waiting /\ k = "sync"

IsOp(op, t) ==
    /\ op.do = "put" => IsBlock(op.b, t) /\ op.b.pos # 0
    /\ op.do \in {"commit", "truncate"} => IsBlock(op.b, t) /\ op.b.pos = 0
    /\ op.do = "journal" => IsJournal(op.jr, t)
    /\ op.do = "sync" => op = Op("sync")

\* The context: every transaction is waited for until it is done.
Chained ==
    /\ txs \in Seq(Tx) /\ Len(txs) <= 2
    /\ \A i \in 1 .. Len(txs) : txs[i].chained
    /\ {rejected, syncing, lost, pending} \subseteq BOOLEAN
    /\ txs = << >> => image = disk
    /\ rejected => lost
    /\ syncing => runs = << >> /\ phase \in Waiting /\ \A i \in 1 .. Len(txs) : txs[i].awaited

Queue ==
    /\ phase \in Phases
    /\ Lined(runs)
    /\ \A op \in Ops(runs) : KindOK(phase, op.do) /\ IsOp(op, txn)

LEMMA AppendIs ==
  ASSUME NEW S, NEW q \in Seq(S), NEW x \in S
  PROVE  /\ Append(q, x) \in Seq(S) /\ Len(Append(q, x)) = Len(q) + 1 /\ Len(q) \in Nat
         /\ \A i \in 1 .. Len(q) : Append(q, x)[i] = q[i]
         /\ Append(q, x)[Len(q) + 1] = x
OBVIOUS

\* A sequence changed element by element.
LEMMA SameLength ==
  ASSUME NEW S, NEW q \in Seq(S), NEW f, f = [i \in DOMAIN q |-> f[i]], \A i \in 1 .. Len(q) : f[i] \in S
  PROVE  f \in Seq(S) /\ Len(f) = Len(q)
<1>1. DOMAIN q = 1 .. Len(q) /\ Len(q) \in Nat
  OBVIOUS
<1>2. f \in [1 .. Len(q) -> S]
  BY <1>1
<1> QED
  BY <1>1, <1>2

LEMMA Ran1 ==
  ASSUME Chained, NEW s, Ran(s), runs # << >>, pending' \in BOOLEAN
  PROVE  Chained'
<1>1. ~ syncing
  BY DEF Chained
<1>2. txs = << >> \/ (Len(txs) \in Nat \ {0} /\ txs[1] \in Tx /\ txs[1].chained)
  BY DEF Chained
<1> DEFINE x == IF txs = << >> THEN NewTx ELSE txs[1]
<1>3. x \in Tx /\ x.chained
  BY <1>2 DEF NewTx, Tx
<1>4. txs' = <<[x EXCEPT !.state = "live"]>>
  BY DEF Ran
<1> HIDE DEF x
<1> DEFINE y == [x EXCEPT !.state = "live"]
<1>5. y \in Tx /\ y.chained
  BY <1>3 DEF Tx
<1> HIDE DEF y
<1>9. txs' = <<y>>
  BY <1>4 DEF y
<1>6. txs' \in Seq(Tx) /\ Len(txs') = 1 /\ txs'[1].chained
  BY <1>9, <1>5
<1>7. \A i \in 1 .. Len(txs') : txs'[i].chained
  BY <1>6
<1>8. txs' # << >>
  BY <1>9
<1> QED
  BY <1>1, <1>6, <1>7, <1>8 DEF Chained, Ran

LEMMA Rest1 ==
  ASSUME Chained, ~ syncing, UNCHANGED Rest, pending' \in BOOLEAN
  PROVE  Chained'
BY DEF Chained, Rest

LEMMA ChainedStep ==
  ASSUME ~ PurgeDuringSync, Chained, Queue, [Next]_vars
  PROVE  Chained'
<1>0. {rejected, syncing, lost, pending} \subseteq BOOLEAN
  BY DEF Chained
<1>a. txs \in Seq(Tx) /\ Len(txs) <= 2
  BY DEF Chained
<1>b. \A i \in 1 .. Len(txs) : txs[i].chained
  BY DEF Chained
<1>1. ASSUME xOpen \/ xClose \/ xLock \/ xUnlock \/ BeginAtomic \/ Spill \/ WritePage
             \/ CommitAtomic \/ RollbackAtomic \/ xSync \/ PlayBack
      PROVE  Chained'
  <2>1. UNCHANGED Rest /\ pending' = pending
    BY <1>1, Zenon DEF xOpen, xClose, xLock, xUnlock, BeginAtomic, Spill, WritePage, CommitAtomic,
       RollbackAtomic, xSync, Sync, PlayBack
  <2>2. phase \notin Waiting
    BY <1>1 DEF xOpen, xClose, xLock, xUnlock, BeginAtomic, Spill, WritePage, CommitAtomic,
       RollbackAtomic, xSync, Sync, PlayBack, Waiting
  <2> QED
    BY <1>0, <2>1, <2>2, Rest1 DEF Chained
<1>2. CASE IdlePurge
  BY <1>2, Rest1 DEF IdlePurge, Chained
<1>3. CASE RunWrite
  BY <1>0, <1>3, Ran1 DEF RunWrite
<1>4. CASE RunOpen
  BY <1>0, <1>4, Ran1 DEF RunOpen
<1>5. CASE RunReload \/ RunUndo
  BY <1>0, <1>5, Rest1 DEF RunReload, RunUndo, Chained
<1>6. CASE SyncOK
  <2>1. syncing /\ ~ rejected /\ (\A i \in DOMAIN txs : ~ txs[i].awaited) /\ syncing' = FALSE
        /\ txs' = [i \in DOMAIN txs |-> [txs[i] EXCEPT !.chained = FALSE]]
        /\ UNCHANGED <<disk, image, rejected, lost, faults, pending>>
    BY <1>6 DEF SyncOK, SyncReturns
  <2>2. Len(txs) = 0
    BY <1>a, <2>1 DEF Chained
  <2>3. txs' = << >>
    BY <1>a, <2>1, <2>2
  <2>4. txs = << >>
    BY <1>a, <2>2
  <2>5. txs' = txs
    BY <2>3, <2>4
  <2> QED
    BY <2>1, <2>5 DEF Chained
<1>7. CASE SyncFails
  <2>1. txs' = [i \in DOMAIN txs |-> [txs[i] EXCEPT !.awaited = FALSE]] /\ syncing' = FALSE
        /\ UNCHANGED <<disk, image, runs, rejected, lost, faults, pending>>
    BY <1>7 DEF SyncFails, SyncThrows
  <2>2. ASSUME NEW i \in 1 .. Len(txs)
        PROVE  LET x == [txs[i] EXCEPT !.awaited = FALSE] IN x \in Tx /\ x.chained
    <3>1. txs[i] \in Tx /\ txs[i].chained
      BY <1>a, <1>b
    <3> QED
      BY <3>1 DEF Tx
  <2>6. DOMAIN txs = 1 .. Len(txs)
    BY <1>a
  <2>7. txs' = [i \in DOMAIN txs |-> txs'[i]]
    BY <2>1
  <2>8. \A i \in 1 .. Len(txs) : txs'[i] \in Tx
    BY <2>1, <2>2, <2>6
  <2>3. txs' \in Seq(Tx) /\ Len(txs') = Len(txs)
    BY <1>a, <2>7, <2>8, SameLength
  <2>4. \A i \in 1 .. Len(txs) : txs'[i].chained
    BY <1>a, <1>b, <2>1, <2>2
  <2>5. txs' = << >> => txs = << >>
    BY <1>a, <2>3
  <2> QED
    BY <1>a, <2>1, <2>3, <2>4, <2>5 DEF Chained
<1>8. CASE Replaced
  <2>1. runs # << >> /\ Len(txs) = 1 /\ txs' = Append(txs, NewTx)
        /\ UNCHANGED <<disk, image, runs, rejected, syncing, lost, faults, pending>>
    BY <1>8 DEF Replaced, NewTransaction, Outside
  <2>2. NewTx \in Tx /\ NewTx.chained
    BY DEF NewTx, Tx
  <2>3. txs' \in Seq(Tx) /\ Len(txs') = 2 /\ txs'[1] = txs[1] /\ txs'[2] = NewTx
    <3>1. /\ Append(txs, NewTx) \in Seq(Tx) /\ Len(Append(txs, NewTx)) = Len(txs) + 1
          /\ \A i \in 1 .. Len(txs) : Append(txs, NewTx)[i] = txs[i]
          /\ Append(txs, NewTx)[Len(txs) + 1] = NewTx
      BY <1>a, <2>2, AppendIs, ZenonT(40)
    <3>2. 1 \in 1 .. Len(txs) /\ Len(txs) + 1 = 2
      BY <2>1
    <3>3. txs' = Append(txs, NewTx)
      BY <2>1
    <3> HIDE DEF NewTx
    <3> QED
      BY <3>1, <3>2, <3>3, Zenon
  <2>4. \A i \in 1 .. Len(txs') : txs'[i].chained
    <3>1. \A i \in 1 .. 2 : i = 1 \/ i = 2
      OBVIOUS
    <3>2. txs[1].chained
      BY <1>b, <2>1
    <3> QED
      BY <2>2, <2>3, <3>1, <3>2
  <2>5. txs' # << >> /\ ~ syncing
    BY <2>1, <2>3 DEF Chained
  <2> QED
    BY <2>1, <2>3, <2>4, <2>5 DEF Chained
<1>9. CASE Committing /\ UNCHANGED Outside
  <2>1. txs # << >> /\ txs' = [txs EXCEPT ![1].state = "committing"]
        /\ UNCHANGED <<disk, image, runs, rejected, syncing, lost, faults, pending, phase>>
    BY <1>9 DEF Committing, Outside, sqlite
  <2>2. Len(txs) \in Nat \ {0} /\ txs[1] \in Tx
    BY <1>a, <2>1
  <2>3. [txs[1] EXCEPT !.state = "committing"] \in Tx
        /\ [txs[1] EXCEPT !.state = "committing"].chained = txs[1].chained
        /\ [txs[1] EXCEPT !.state = "committing"].awaited = txs[1].awaited
    BY <2>2 DEF Tx
  <2>4. /\ txs' \in Seq(Tx) /\ Len(txs') = Len(txs)
        /\ \A i \in 1 .. Len(txs) : txs'[i].chained = txs[i].chained /\ txs'[i].awaited = txs[i].awaited
    BY <1>a, <2>1, <2>2, <2>3
  <2>5. txs' # << >>
    BY <2>2, <2>4
  <2> QED
    BY <2>1, <2>4, <2>5 DEF Chained
<1>10. ASSUME (Complete \/ Abort) /\ UNCHANGED Outside PROVE Chained'
  <2>1. txs # << >> /\ txs' = Tail(txs) /\ disk' = image'
        /\ UNCHANGED <<runs, syncing, pending, phase>>
    BY <1>10 DEF Complete, Abort, Outside, sqlite
  <2>2. (lost' = lost /\ rejected' = rejected) \/ (lost' = TRUE /\ rejected' \in BOOLEAN)
    <3>1. CASE Complete
      BY <3>1 DEF Complete
    <3>2. CASE Abort
      <4>0. txs[1] \in Tx
        BY <1>a, <2>1
      <4>1. txs[1].chained \in BOOLEAN
        BY <4>0 DEF Tx
      <4> QED
        BY <1>0, <3>2, <4>1 DEF Abort
    <3> QED
      BY <1>10, <3>1, <3>2
  <2>3. /\ txs' \in Seq(Tx) /\ Len(txs') = Len(txs) - 1 /\ Len(txs) \in Nat \ {0}
        /\ \A i \in 1 .. Len(txs') : i + 1 \in 1 .. Len(txs) /\ txs'[i] = txs[i + 1]
    BY <1>a, <2>1
  <2>4. {rejected', syncing', lost', pending'} \subseteq BOOLEAN
    BY <1>0, <2>1, <2>2
  <2>5. \A i \in 1 .. Len(txs') : txs'[i].chained
    BY <1>b, <2>3
  <2>6. syncing' => runs' = << >> /\ phase' \in Waiting /\ \A i \in 1 .. Len(txs') : txs'[i].awaited
    BY <2>1, <2>3 DEF Chained
  <2>7. rejected' => lost'
    BY <2>2 DEF Chained
  <2> QED
    BY <1>a, <2>1, <2>3, <2>4, <2>5, <2>6, <2>7 DEF Chained
<1>11. CASE Drained
  <2>1. runs # << >> /\ runs[1].do = "sync" /\ runs' = Tail(runs) /\ syncing' = TRUE
        /\ txs' = [i \in DOMAIN txs |-> [txs[i] EXCEPT !.awaited = @ \/ txs[i].chained]]
        /\ UNCHANGED <<disk, image, rejected, lost, faults, pending, phase>>
    BY <1>11 DEF Drained, SyncRuns, Outside, sqlite
  <2>2. /\ Lined(Tail(runs))
        /\ Ops(runs) = {runs[1]} \cup Ops(Tail(runs))
        /\ \A op \in Ops(Tail(runs)) : Before(runs[1], op)
    BY <2>1, TailOps DEF Queue
  <2>3. Ops(Tail(runs)) = {}
    BY <2>1, <2>2 DEF Before
  <2>4. runs' = << >>
    <3>1. \A i \in 1 .. Len(Tail(runs)) : FALSE
      BY <2>3 DEF Ops
    <3> QED
      BY <2>1, <2>2, <3>1 DEF Lined
  <2>5. phase \in Waiting
    BY <2>1, <2>2 DEF Queue, KindOK
  <2>6. ASSUME NEW i \in 1 .. Len(txs)
        PROVE  LET x == [txs[i] EXCEPT !.awaited = @ \/ txs[i].chained]
               IN  x \in Tx /\ x.chained /\ x.awaited
    <3>1. txs[i] \in Tx /\ txs[i].chained
      BY <1>a, <1>b
    <3> QED
      BY <3>1 DEF Tx
  <2>9. DOMAIN txs = 1 .. Len(txs)
    BY <1>a
  <2>10. txs' = [i \in DOMAIN txs |-> txs'[i]]
    BY <2>1
  <2>11. \A i \in 1 .. Len(txs) : txs'[i] \in Tx /\ txs'[i].chained /\ txs'[i].awaited
    BY <2>1, <2>6, <2>9
  <2>7. txs' \in Seq(Tx) /\ Len(txs') = Len(txs) /\ \A i \in 1 .. Len(txs) : txs'[i].chained /\ txs'[i].awaited
    BY <1>a, <2>10, <2>11, SameLength
  <2>8. txs' = << >> => txs = << >>
    BY <1>a, <2>7
  <2> QED
    BY <1>0, <1>a, <2>1, <2>4, <2>5, <2>7, <2>8 DEF Chained
<1>12. CASE Crash
  <2>1. /\ txs' = << >> /\ image' = disk /\ disk' = disk /\ rejected' = FALSE /\ syncing' = FALSE
        /\ lost' = lost /\ pending' = FALSE
    BY <1>12 DEF Crash, IdbReset
  <2>2. {rejected', syncing', lost', pending'} \subseteq BOOLEAN
    BY <1>0, <2>1
  <2>3. txs' \in Seq(Tx) /\ Len(txs') = 0
    BY <2>1
  <2> QED
    BY <2>1, <2>2, <2>3 DEF Chained
<1>13. CASE UNCHANGED vars
  BY <1>13 DEF vars, idb, sqlite, Chained
<1> QED
  BY <1>1, <1>2, <1>3, <1>4, <1>5, <1>6, <1>7, <1>8, <1>9, <1>10, <1>11, <1>12, <1>13
  DEF Next, Committed, Aborted

--------------------------------------------------------------------------------
(* Types.                                                                      *)

IsFile(f, t) ==
    /\ f \in [b0      : [pos : Page, ver : -t .. 0, val : 0 .. t, size : 0 .. MaxPage],
              meta    : BOOLEAN,
              batch   : BOOLEAN,
              changed : SUBSET Page]
    /\ f.b0.pos = 0

\* SQLite knows the size of the file, and appends pages in a row.
Opened ==
    /\ txn \in 0 .. MaxTxn
    /\ IsFile(file, txn) /\ file.batch = (phase = "batch")
    /\ phase = "batch" => file.b0.ver < 0
    /\ phase = "written" => ~ file.meta
    /\ IsContent(cache, txn) /\ todo \subseteq Page
    /\ phase \in {"locked", "batch", "plain", "flushing"} => Len(cache) = file.b0.size
    /\ phase \in {"batch", "plain"} => \A p \in todo : \A q \in file.b0.size .. p : q \in todo

Types ==
    /\ Opened
    /\ IsStore(disk, txn) /\ IsStore(image, txn)
    /\ hist \in Seq(Content) /\ \A i \in 1 .. Len(hist) : IsContent(hist[i], txn)
    /\ acked \in 1 .. Len(hist)

LEMMA Larger ==
  ASSUME NEW t \in Nat, NEW u \in Nat, t <= u
  PROVE  /\ \A b : IsBlock(b, t) => IsBlock(b, u)
         /\ \A c : IsContent(c, t) => IsContent(c, u)
         /\ \A jr : IsJournal(jr, t) => IsJournal(jr, u)
         /\ \A s : IsStore(s, t) => IsStore(s, u)
         /\ \A f : IsFile(f, t) => IsFile(f, u)
<1>0. -t .. 0 \subseteq -u .. 0 /\ 0 .. t \subseteq 0 .. u
  OBVIOUS
<1>1. \A b : IsBlock(b, t) => IsBlock(b, u)
  BY <1>0 DEF IsBlock
<1>2. ASSUME NEW c, IsContent(c, t) PROVE IsContent(c, u)
  <2>1. \A i \in 1 .. Len(c) : c[i] \in 0 .. u
    BY <1>0, <1>2 DEF IsContent
  <2>2. c \in Seq(0 .. t) /\ Len(c) <= MaxPage
    BY <1>2 DEF IsContent
  <2>3. c \in Seq(0 .. u)
    BY <2>1, <2>2
  <2> QED
    BY <2>2, <2>3 DEF IsContent
<1>3. \A jr : IsJournal(jr, t) => IsJournal(jr, u)
  BY <1>0 DEF IsJournal
<1>4. \A s : IsStore(s, t) => IsStore(s, u)
  BY <1>1, <1>3, Zenon DEF IsStore
<1>5. \A f : IsFile(f, t) => IsFile(f, u)
  BY <1>0 DEF IsFile
<1> QED
  BY <1>1, <1>2, <1>3, <1>4, <1>5

LEMMA InContent ==
  ASSUME Params, NEW t \in Nat, t <= MaxTxn, NEW c, IsContent(c, t)
  PROVE  c \in Content
<1>1. Len(c) \in 0 .. MaxPage /\ c \in [1 .. Len(c) -> 0 .. MaxTxn]
  BY DEF IsContent, Params
<1> QED
  BY <1>1 DEF Content

\* How the entry of the file changes.
LEMMA BatchFile ==
  ASSUME NEW t \in Nat, NEW f, IsFile(f, t)
  PROVE  LET g == [f EXCEPT !.b0.ver = @ - 1, !.batch = TRUE, !.changed = {}]
         IN  /\ IsFile(g, t + 1)
             /\ g.b0.pos = 0 /\ g.b0.ver = f.b0.ver - 1 /\ g.b0.val = f.b0.val
             /\ g.b0.size = f.b0.size /\ g.meta = f.meta /\ g.batch = TRUE /\ g.changed = {}
<1> DEFINE w == f.b0.ver - 1
           yes == TRUE
           none == {}
           g == [f EXCEPT !.b0.ver = w, !.batch = yes, !.changed = none]
<1>0. f \in [b0      : [pos : Page, ver : Int, val : 0 .. t, size : 0 .. MaxPage],
            meta    : BOOLEAN,
            batch   : BOOLEAN,
            changed : SUBSET Page]
      /\ f.b0.pos = 0
  BY DEF IsFile
<1>1. w \in -(t + 1) .. 0 /\ f.b0.val \in 0 .. t + 1
  BY DEF IsFile
<1>2. yes \in BOOLEAN /\ none \in SUBSET Page
  OBVIOUS
<1> HIDE DEF w, yes, none
<1>4. /\ g.b0.pos = 0 /\ g.b0.ver = w /\ g.b0.val = f.b0.val /\ g.b0.size = f.b0.size
      /\ g.meta = f.meta /\ g.batch = yes /\ g.changed = none
  BY <1>0
<1>5. g = [b0 |-> [pos |-> 0, ver |-> w, val |-> f.b0.val, size |-> f.b0.size],
           meta |-> f.meta, batch |-> yes, changed |-> none]
  <2>1. ASSUME NEW h, h = [f EXCEPT !.b0.ver = w, !.batch = yes, !.changed = none]
        PROVE  h = [b0 |-> [pos |-> 0, ver |-> w, val |-> f.b0.val, size |-> f.b0.size],
                    meta |-> f.meta, batch |-> yes, changed |-> none]
    BY <1>0, <2>1
  <2> QED
    BY <2>1
<1>6. f.b0.size \in 0 .. MaxPage /\ f.meta \in BOOLEAN /\ 0 \in Page
  BY <1>0
<1> HIDE DEF g
<1>7. IsFile(g, t + 1)
  BY <1>1, <1>2, <1>4, <1>5, <1>6 DEF IsFile
<1> QED
  BY <1>4, <1>7, Zenon DEF w, yes, none, g

LEMMA EndFile ==
  ASSUME NEW t \in Nat, NEW f, IsFile(f, t), NEW g,
         g = [f EXCEPT !.batch = FALSE, !.changed = {}, !.meta = FALSE]
  PROVE  IsFile(g, t) /\ g.b0 = f.b0 /\ g.meta = FALSE /\ g.batch = FALSE /\ g.changed = {}
BY DEF IsFile

LEMMA SyncFile ==
  ASSUME NEW t \in Nat, NEW f, IsFile(f, t), NEW g, g = [f EXCEPT !.meta = FALSE]
  PROVE  IsFile(g, t) /\ g.b0 = f.b0 /\ g.meta = FALSE /\ g.batch = f.batch /\ g.changed = f.changed
BY DEF IsFile

LEMMA Block0File ==
  ASSUME NEW t \in Nat, NEW f, IsFile(f, t), NEW b, IsBlock(b, t), b.pos = 0,
         NEW g, g = [f EXCEPT !.b0 = b]
  PROVE  IsFile(g, t) /\ g.b0 = b /\ g.meta = f.meta /\ g.batch = f.batch /\ g.changed = f.changed
BY DEF IsFile, IsBlock

\* g is f with another block 0, about to be written.
Rewrites(f, b, g) == g = [f EXCEPT !.b0 = b, !.meta = FALSE]

LEMMA CutFile ==
  ASSUME NEW t \in Nat, NEW f, IsFile(f, t), NEW b, IsBlock(b, t), b.pos = 0, NEW g, Rewrites(f, b, g)
  PROVE  IsFile(g, t) /\ g.b0 = b /\ g.batch = f.batch
BY DEF IsFile, IsBlock, Rewrites

\* One page is written: the size is at least its end.
LEMMA WriteFile ==
  ASSUME NEW t \in Nat, MaxPage \in Nat, NEW p \in Page, NEW val \in 0 .. t, IsFile(file, t),
         xWrite(val, p)
  PROVE  /\ IsFile(file', t)
         /\ file'.b0.pos = 0 /\ file'.b0.ver = file.b0.ver
         /\ file'.b0.size = IF file.b0.size < p + 1 THEN p + 1 ELSE file.b0.size
         /\ file'.b0.val = IF p = 0 THEN val ELSE file.b0.val
         /\ file'.meta = (p # 0 /\ (file.meta \/ file.b0.size < p + 1))
         /\ file'.batch = file.batch
         /\ file'.changed = IF file.batch /\ ~ (file.b0.size < p + 1) THEN file.changed \cup {p}
                            ELSE file.changed
         /\ runs' = IF p # 0
                    THEN runs \o <<[do |-> "put", b |-> Block(p, file.b0.ver, val, 0)]>>
                    ELSE IF file.batch THEN runs ELSE runs \o <<Op("block0")>>
<1> DEFINE grows == file.b0.size < p + 1
           size == IF grows THEN p + 1 ELSE file.b0.size
           meta == p # 0 /\ (file.meta \/ grows)
           changed == IF file.batch /\ ~ grows THEN file.changed \cup {p} ELSE file.changed
           v == IF p = 0 THEN val ELSE file.b0.val
<1>1. file' = [file EXCEPT !.b0.size = size, !.b0.val = v, !.meta = meta, !.changed = changed]
  BY DEF xWrite
<1>2. size \in 0 .. MaxPage /\ v \in 0 .. t
  BY DEF IsFile, Page
<1>3. meta \in BOOLEAN
  OBVIOUS
<1>4. changed \in SUBSET Page
  BY DEF IsFile
<1>5. runs' = IF p # 0
              THEN runs \o <<[do |-> "put", b |-> Block(p, file.b0.ver, val, 0)]>>
              ELSE IF file.batch THEN runs ELSE runs \o <<Op("block0")>>
  BY DEF xWrite, Enqueue
<1> HIDE DEF size, meta, changed, v
<1>6. /\ file'.b0.pos = 0 /\ file'.b0.ver = file.b0.ver /\ file'.b0.size = size /\ file'.b0.val = v
      /\ file'.meta = meta /\ file'.batch = file.batch /\ file'.changed = changed
      /\ IsFile(file', t)
  BY <1>1, <1>2, <1>3, <1>4 DEF IsFile
<1> QED
  BY <1>5, <1>6, Zenon DEF size, meta, changed, v

\* A function sees what the last one left.
LEMMA ViewIs == ASSUME Chained PROVE View = image
BY DEF Chained, View

\* Whatever a function does to a store, a store it stays.
LEMMA EffectStore ==
  ASSUME NEW t \in Nat, NEW s, IsStore(s, t), NEW op, IsOp(op, t), op.do \in Writing, IsFile(file, t)
  PROVE  IsStore(Effect(op, s), t)
<1>0. IsBlock(file.b0, t)
  BY DEF IsFile, IsBlock
<1>1. CASE op.do = "put"
  <2>1. Effect(op, s) = Put(s, op.b)
    BY <1>1 DEF Effect
  <2>2. IsBlock(op.b, t)
    BY <1>1 DEF IsOp
  <2> QED
    BY <2>1, <2>2, PutStore
<1>2. CASE op.do = "block0"
  <2>1. Effect(op, s) = Put(s, file.b0)
    BY <1>2 DEF Effect
  <2> QED
    BY <1>0, <2>1, PutStore
<1>3. CASE op.do = "clear"
  <2>1. Effect(op, s) = ClearAbandoned(s, file)
    BY <1>3 DEF Effect
  <2> QED
    BY <2>1, ClearIs
<1>4. CASE op.do = "commit"
  <2>1. Effect(op, s) = CommitBatch(s, op.b, op.changed)
    BY <1>4 DEF Effect
  <2>2. IsBlock(op.b, t)
    BY <1>4 DEF IsOp
  <2>3. IsStore(CommitBatch(s, op.b, op.changed), t)
    BY <2>2, CommitIs
  <2> QED
    BY <2>1, <2>3, Zenon
<1>5. CASE op.do = "truncate"
  <2>1. Effect(op, s) = Truncate(s, op.b)
    BY <1>5 DEF Effect
  <2>2. IsBlock(op.b, t)
    BY <1>5 DEF IsOp
  <2> QED
    BY <2>1, <2>2, TruncateIs
<1>6. CASE op.do = "purge"
  <2>1. Effect(op, s) = Purge(s)
    BY <1>6 DEF Effect
  <2> QED
    BY <2>1, PurgeIs
<1>7. CASE op.do \in {"journal", "unlink"}
  <2> DEFINE jr == IF op.do = "journal" THEN op.jr ELSE NoJournal
  <2>1. Effect(op, s) = [s EXCEPT !.journal = jr]
    BY <1>7 DEF Effect
  <2>2. jr = NoJournal \/ IsJournal(jr, t)
    BY <1>7 DEF IsOp
  <2> HIDE DEF jr
  <2>3. Effect(op, s) = [blocks |-> s.blocks, purge |-> s.purge, journal |-> jr]
    BY <2>1, SetFields DEF IsStore
  <2>4. Fields(Effect(op, s))
    BY <2>3, HasFields, Zenon
  <2>5. Effect(op, s).blocks = s.blocks /\ Effect(op, s).journal = jr
    BY <2>3
  <2> QED
    BY <2>2, <2>4, <2>5 DEF IsStore
<1> QED
  BY <1>1, <1>2, <1>3, <1>4, <1>5, <1>6, <1>7 DEF Writing

\* The functions that SQLite or the idle callback adds come last.
LEMMA Added ==
  ASSUME Queue, NEW q, Lined(q), runs' = runs \o q, NEW t, txn \in Nat, t \in Nat, txn <= t,
         \A a \in Ops(runs) : \A b \in Ops(q) : Before(a, b),
         phase' \in Phases, txn' = t,
         \A a \in Ops(runs) : KindOK(phase', a.do),
         \A b \in Ops(q) : KindOK(phase', b.do) /\ IsOp(b, t)
  PROVE  Queue'
<1>1. Lined(runs') /\ Ops(runs') = Ops(runs) \cup Ops(q)
  BY JoinOps DEF Queue
<1>2. \A a \in Ops(runs) : IsOp(a, txn)
  BY DEF Queue
<1>3. \A a : IsOp(a, txn) => IsOp(a, t)
  BY Larger DEF IsOp
<1>4. \A op \in Ops(runs') : KindOK(phase', op.do) /\ IsOp(op, txn')
  BY <1>1, <1>2, <1>3
<1> QED
  BY <1>1, <1>4 DEF Queue

LEMMA AddedOne ==
  ASSUME Queue, NEW ph \in Phases, phase' = ph, NEW a, runs' = runs \o <<a>>,
         txn \in Nat, txn' \in Nat, txn <= txn',
         \A x \in Ops(runs) : Before(x, a) /\ KindOK(ph, x.do),
         KindOK(ph, a.do), IsOp(a, txn')
  PROVE  Queue'
<1> DEFINE q == <<a>>
<1>1. Lined(q) /\ Ops(q) = {a} /\ runs' = runs \o q
  BY OneOp
<1> HIDE DEF q
<1> QED
  BY <1>1, Added

LEMMA AddedTwo ==
  ASSUME Queue, NEW ph \in Phases, phase' = ph, NEW a, NEW b, runs' = runs \o <<a, b>>,
         txn \in Nat, txn' \in Nat, txn <= txn', Before(a, b),
         \A x \in Ops(runs) : Before(x, a) /\ Before(x, b) /\ KindOK(ph, x.do),
         KindOK(ph, a.do), IsOp(a, txn'), KindOK(ph, b.do), IsOp(b, txn')
  PROVE  Queue'
<1> DEFINE q == <<a, b>>
<1>1. Lined(q) /\ Ops(q) = {a, b} /\ runs' = runs \o q
  BY TwoOps
<1> HIDE DEF q
<1> QED
  BY <1>1, Added

\* The first of them is done.
LEMMA Taken ==
  ASSUME Queue, runs # << >>, runs' = Tail(runs), txn' = txn, phase' \in Phases,
         \A a \in Ops(runs) : Before(runs[1], a) /\ KindOK(phase, a.do) => KindOK(phase', a.do)
  PROVE  Queue'
<1>1. /\ Lined(runs')
      /\ Ops(runs) = {runs[1]} \cup Ops(runs')
      /\ \A op \in Ops(runs') : Before(runs[1], op)
  BY TailOps DEF Queue
<1>2. \A op \in Ops(runs') : KindOK(phase', op.do) /\ IsOp(op, txn')
  BY <1>1 DEF Queue
<1> QED
  BY <1>1, <1>2 DEF Queue

\* Nothing waits.
LEMMA NothingWaits ==
  ASSUME runs' = << >>, phase' \in Phases
  PROVE  Queue'
BY DEF Queue, Lined, Ops

\* The next page that is written.
LEMMA MinIsThere ==
  ASSUME NEW T, T # {}, T \subseteq Nat
  PROVE  Min(T) \in T /\ \A x \in T : Min(T) <= x
<1>1. \E m \in T : \A x \in T : m <= x
  BY Smallest
<1>2. Min(T) = CHOOSE m \in T : \A x \in T : m =< x
  BY DEF Min
<1> QED
  BY <1>1, <1>2

LEMMA BlockIs ==
  ASSUME NEW t \in Nat, MaxPage \in Nat, NEW p \in Page, NEW ver \in -t .. 0, NEW val \in 0 .. t
  PROVE  /\ Block(p, ver, val, 0).pos = p /\ Block(p, ver, val, 0).ver = ver
         /\ Block(p, ver, val, 0).val = val
         /\ IsBlock(Block(p, ver, val, 0), t)
BY DEF Block, IsBlock

\* What writes the pages of a journal back, in any order, is put or block0.
LEMMA PutsBack ==
  ASSUME NEW ver, NEW jr, NEW D, IsFiniteSet(D), NEW order \in SetToSeqs(D), NEW puts,
         puts = [i \in DOMAIN order |-> WriteBack(jr, ver, order[i])]
  PROVE  Lined(puts) /\ Ops(puts) = {WriteBack(jr, ver, p) : p \in D}
<1> DEFINE n == Cardinality(D)
           P == {WriteBack(jr, ver, p) : p \in D}
<1>1. n \in Nat
  BY FS_CardinalityType
<1>2. order \in [1 .. n -> D] /\ \A i, j \in 1 .. n : i # j => order[i] # order[j]
  BY Zenon DEF SetToSeqs
<1>3. IsFiniteSet(1 .. n) /\ Cardinality(1 .. n) = n
  BY <1>1, FS_Interval
<1> HIDE DEF n
<1>4. order \in Injection(1 .. n, D)
  BY <1>2 DEF Injection, IsInjective
<1>5. order \in Surjection(1 .. n, D)
  BY <1>3, <1>4, FS_Injection DEF n
<1>6. \A p \in D : \E i \in 1 .. n : order[i] = p
  BY <1>5 DEF Surjection
<1>7. DOMAIN order = 1 .. n /\ \A i \in 1 .. n : order[i] \in D
  BY <1>2
<1>8. \A i \in 1 .. n : puts[i] = WriteBack(jr, ver, order[i])
  BY <1>7, Zenon
<1>9. \A i \in 1 .. n : puts[i] \in P
  BY <1>7, <1>8
<1>10. puts = [i \in 1 .. n |-> WriteBack(jr, ver, order[i])]
  BY <1>7, Zenon
<1>11. \A a \in P : \E i \in 1 .. n : puts[i] = a
  BY <1>6, <1>8
<1>12. \A a \in P : a.do \in {"put", "block0"}
  BY DEF WriteBack, Op
<1> HIDE DEF P
<1>13. puts \in [1 .. n -> P]
  BY <1>9, <1>10
<1>14. puts \in Seq(P) /\ Len(puts) = n
  BY <1>1, <1>13
<1>15. Ops(puts) = P
  BY <1>9, <1>11, <1>14 DEF Ops
<1>16. \A i, j \in 1 .. Len(puts) : i < j => Before(puts[i], puts[j])
  BY <1>9, <1>12, <1>14 DEF Before, Rank
<1> QED
  BY <1>14, <1>15, <1>16 DEF Lined, P

\* The pages of a file, and of a journal, are finitely many.
LEMMA FewPages ==
  ASSUME MaxPage \in Nat, NEW D, D \subseteq Page
  PROVE  IsFiniteSet(D)
<1>1. IsFiniteSet(0 .. MaxPage - 1)
  BY FS_Interval
<1> QED
  BY <1>1, FS_Subset DEF Page

\* What xTruncate queues, if it is called, and what xSync does.
CutOps(b, jr) == IF jr.size < b.size THEN <<[do |-> "truncate", b |-> Cut(b, jr.size)]>> ELSE << >>

LastOps(b, jr, meta) == IF meta /\ 0 \notin DOMAIN jr.page THEN <<Op("block0")>> ELSE << >>

PlayOps(b, jr, meta, ver, order) ==
    CutOps(b, jr) \o [i \in DOMAIN order |-> WriteBack(jr, ver, order[i])]
                  \o LastOps(b, jr, meta) \o <<Op("sync")>>

\* Block 0 as the journal has it.
Back0(b, jr) == [Cut(b, jr.size) EXCEPT !.val = IF 0 \in DOMAIN jr.page THEN jr.page[0] ELSE @]

Queues(r, q, b, jr, meta) ==
    \E order \in SetToSeqs(DOMAIN jr.page) : q = r \o PlayOps(b, jr, meta, Back0(b, jr).ver, order)

\* The functions a playback queues.
Played(P, b, jr, ver) ==
    /\ \A x \in P : \/ x = [do |-> "truncate", b |-> Cut(b, jr.size)] /\ jr.size < b.size
                    \/ x = Op("block0") \/ x = Op("sync")
                    \/ \E p \in DOMAIN jr.page \ {0} : x = WriteBack(jr, ver, p)
    /\ jr.size < b.size => HasOp(P, "truncate")
    /\ 0 \in DOMAIN jr.page => HasOp(P, "block0")
    /\ \A p \in DOMAIN jr.page \ {0} : WriteBack(jr, ver, p) \in P

LEMMA PlaysIt ==
  ASSUME PlayBack, NEW jr, jr = View.journal, jr # NoJournal, NEW b0, b0 = Back0(file.b0, jr)
  PROVE  /\ phase' = "replaying" /\ cache' = cache
         /\ Rewrites(file, b0, file')
         /\ Queues(runs, runs', file.b0, jr, file.meta)
<1> DEFINE v == [Cut(file.b0, View.journal.size) EXCEPT
                     !.val = IF 0 \in DOMAIN View.journal.page THEN View.journal.page[0] ELSE @]
<1>1. View.journal # NoJournal
  OBVIOUS
<1>2. /\ phase' = "replaying" /\ cache' = cache
      /\ file' = [file EXCEPT !.b0 = v, !.meta = FALSE]
      /\ Queues(runs, runs', file.b0, View.journal, file.meta)
  BY <1>1, Zenon DEF PlayBack, Enqueue, PlayOps, CutOps, LastOps, Queues, Back0
<1>3. v = b0
  BY DEF Back0
<1> HIDE DEF v
<1> QED
  BY <1>2, <1>3, Zenon DEF Rewrites

LEMMA CutIs ==
  ASSUME NEW t \in Nat, NEW b, IsBlock(b, t), b.pos = 0, NEW k \in 0 .. MaxPage
  PROVE  /\ IsBlock(Cut(b, k), t)
         /\ Cut(b, k).pos = 0 /\ Cut(b, k).ver = b.ver /\ Cut(b, k).size = k
         /\ k # 0 => Cut(b, k).val = b.val
         /\ k = b.size => Cut(b, k) = b
<1> DEFINE v == IF k = 0 THEN Blank ELSE b.val
           x == [b EXCEPT !.size = k, !.val = v]
<1>1. v \in 0 .. t /\ (k # 0 => v = b.val)
  BY DEF IsBlock, Blank
<1> HIDE DEF v
<1>2. IsBlock(x, t) /\ x.pos = 0 /\ x.ver = b.ver /\ x.size = k /\ x.val = v
  BY <1>1 DEF IsBlock
<1>3. Cut(b, k) = IF b.size = k THEN b ELSE x
  BY DEF Cut, v
<1> HIDE DEF x
<1> QED
  BY <1>1, <1>2, <1>3

LEMMA PlayedFile ==
  ASSUME NEW t \in Nat, NEW jr, IsJournal(jr, t), NEW b, IsBlock(b, t), b.pos = 0, NEW x,
         x = Back0(b, jr)
  PROVE  /\ IsBlock(x, t)
         /\ x.pos = 0 /\ x.ver = b.ver /\ x.size = jr.size
         /\ jr.size # 0 => x.val = jr.page[0]
         /\ jr.size = 0 => x = Cut(b, jr.size)
<1> DEFINE c == Cut(b, jr.size)
           v == IF 0 \in DOMAIN jr.page THEN jr.page[0] ELSE c.val
<1>1. jr.size \in 0 .. MaxPage /\ (jr.size # 0 => 0 \in DOMAIN jr.page)
      /\ (0 \in DOMAIN jr.page => jr.page[0] \in 0 .. t /\ jr.size # 0)
  BY DEF IsJournal
<1>2. IsBlock(c, t) /\ c.pos = 0 /\ c.ver = b.ver /\ c.size = jr.size
  BY <1>1, CutIs
<1>3. x = [c EXCEPT !.val = v]
  BY DEF Back0
<1> HIDE DEF c
<1>4. v \in 0 .. t /\ (jr.size # 0 => v = jr.page[0]) /\ (jr.size = 0 => v = c.val)
  BY <1>1, <1>2 DEF IsBlock
<1> HIDE DEF v
<1>5. IsBlock(x, t) /\ x.pos = 0 /\ x.ver = c.ver /\ x.size = c.size /\ x.val = v
  BY <1>2, <1>3, <1>4 DEF IsBlock
<1>6. v = c.val => x = c
  BY <1>2, <1>3 DEF IsBlock
<1> QED
  BY <1>2, <1>4, <1>5, <1>6 DEF c

LEMMA NoOps == Lined(<< >>) /\ Ops(<< >>) = {}
BY DEF Lined, Ops

LEMMA PlaysBack ==
  ASSUME MaxPage \in Nat, NEW t, NEW b, NEW jr, IsJournal(jr, t), NEW meta, NEW ver,
         NEW order \in SetToSeqs(DOMAIN jr.page)
  PROVE  /\ Lined(PlayOps(b, jr, meta, ver, order))
         /\ Played(Ops(PlayOps(b, jr, meta, ver, order)), b, jr, ver)
<1> DEFINE q == PlayOps(b, jr, meta, ver, order)
           a == [do |-> "truncate", b |-> Cut(b, jr.size)]
           D == DOMAIN jr.page
           puts == [i \in DOMAIN order |-> WriteBack(jr, ver, order[i])]
           front == CutOps(b, jr)
           last == LastOps(b, jr, meta)
           end == <<Op("sync")>>
<1>1. IsFiniteSet(D)
  <2>1. D \subseteq Page
    BY DEF IsJournal
  <2> QED
    BY <2>1, FewPages
<1>2. Lined(puts) /\ Ops(puts) = {WriteBack(jr, ver, p) : p \in D}
  <2>1. order \in SetToSeqs(D) /\ puts = [i \in DOMAIN order |-> WriteBack(jr, ver, order[i])]
    OBVIOUS
  <2> HIDE DEF puts, D
  <2> QED
    BY <1>1, <2>1, PutsBack
<1>3. /\ Lined(front) /\ \A x \in Ops(front) : x = a /\ jr.size < b.size
      /\ jr.size < b.size => a \in Ops(front)
  BY NoOps, OneOp DEF CutOps
<1>4. Lined(last) /\ \A x \in Ops(last) : x = Op("block0")
  BY NoOps, OneOp DEF LastOps
<1>5. Lined(end) /\ Ops(end) = {Op("sync")}
  BY OneOp
<1>6. /\ a.do = "truncate" /\ Op("sync").do = "sync" /\ Op("block0").do = "block0"
      /\ \A x \in Ops(puts) : x.do \in {"put", "block0"}
  BY <1>2 DEF Op, WriteBack
<1>7. q = ((front \o puts) \o last) \o end
  BY DEF PlayOps
<1> HIDE DEF q, a, puts, front, last, end, D
<1>8. Lined(front \o puts) /\ Ops(front \o puts) = Ops(front) \cup Ops(puts)
  <2>1. \A x \in Ops(front) : \A y \in Ops(puts) : Before(x, y)
    BY <1>3, <1>6 DEF Before, Rank
  <2> QED
    BY <1>2, <1>3, <2>1, JoinOps
<1> DEFINE two == front \o puts
<1>9. Lined(two) /\ Ops(two) = Ops(front) \cup Ops(puts)
  BY <1>8
<1> HIDE DEF two
<1>10. Lined(two \o last) /\ Ops(two \o last) = Ops(two) \cup Ops(last)
  <2>1. \A x \in Ops(two) : \A y \in Ops(last) : Before(x, y)
    BY <1>3, <1>4, <1>6, <1>9 DEF Before, Rank
  <2> QED
    BY <1>4, <1>9, <2>1, JoinOps
<1> DEFINE three == two \o last
<1>11. Lined(three) /\ Ops(three) = Ops(two) \cup Ops(last)
  BY <1>10
<1> HIDE DEF three
<1>12. Lined(three \o end) /\ Ops(three \o end) = Ops(three) \cup Ops(end)
  <2>1. \A x \in Ops(three) : \A y \in Ops(end) : Before(x, y)
    BY <1>3, <1>4, <1>5, <1>6, <1>9, <1>11 DEF Before, Rank
  <2> QED
    BY <1>5, <1>11, <2>1, JoinOps
<1>13. Lined(q) /\ Ops(q) = Ops(front) \cup Ops(puts) \cup Ops(last) \cup Ops(end)
  BY <1>7, <1>9, <1>11, <1>12 DEF two, three
<1>14. 0 \in D => Op("block0") \in Ops(puts)
  BY <1>2 DEF WriteBack
<1>15. ASSUME NEW x \in Ops(q)
       PROVE  \/ x = a /\ jr.size < b.size
              \/ x = Op("block0") \/ x = Op("sync")
              \/ \E p \in D \ {0} : x = WriteBack(jr, ver, p)
  <2>1. CASE x \in Ops(puts)
    <3>1. PICK p \in D : x = WriteBack(jr, ver, p)
      BY <1>2, <2>1
    <3>2. CASE p = 0
      BY <3>1, <3>2 DEF WriteBack
    <3>3. CASE p # 0
      BY <3>1, <3>3
    <3> QED
      BY <3>2, <3>3
  <2> QED
    BY <1>3, <1>4, <1>5, <1>13, <2>1
<1>16. \A p \in D \ {0} : WriteBack(jr, ver, p) \in Ops(q)
  BY <1>2, <1>13
<1>17. jr.size < b.size => HasOp(Ops(q), "truncate")
  BY <1>3, <1>6, <1>13 DEF HasOp
<1>18. 0 \in D => HasOp(Ops(q), "block0")
  BY <1>6, <1>13, <1>14 DEF HasOp
<1>19. Lined(q) /\ Played(Ops(q), b, jr, ver)
  BY <1>13, <1>15, <1>16, <1>17, <1>18 DEF Played, D, a
<1> QED
  BY <1>19 DEF q

LEMMA TxnGrows ==
  ASSUME Types, [Next]_vars
  PROVE  txn' \in Nat /\ txn <= txn' /\ txn \in Nat
<1>1. txn' = txn \/ txn' = txn + 1
  BY DEF Next, vars, idb, sqlite, xOpen, xClose, xLock, xUnlock, BeginAtomic, Spill, WritePage,
     CommitAtomic, RollbackAtomic, xSync, Sync, PlayBack, RunWrite, RunOpen, RunReload, RunUndo,
     SyncOK, SyncFails, IdlePurge, Replaced, Committed, Aborted, Drained, Outside, Crash
<1>2. txn \in Nat
  BY DEF Types, Opened
<1> QED
  BY <1>1, <1>2

LEMMA QueueStep ==
  ASSUME Params, ~ PurgeDuringSync, Chained, Queue, Types, [Next]_vars
  PROVE  Queue'
<1>0. txn \in Nat /\ phase \in Phases
  BY DEF Types, Opened, Queue
<1>a. \A a \in Ops(runs) : KindOK(phase, a.do) /\ IsOp(a, txn)
  BY DEF Queue
<1>b. View = image
  BY ViewIs
<1>c. file.b0.pos = 0 /\ IsBlock(file.b0, txn) /\ file.b0.ver \in Int
  BY DEF Types, Opened, IsFile, IsBlock
<1>d. txn' \in Nat /\ txn <= txn'
  BY TxnGrows
<1>e. txn' = txn => \A a : IsOp(a, txn) => IsOp(a, txn')
  OBVIOUS
<1>1. CASE xOpen
  <2>0. "opening" \in Phases
    BY DEF Phases
  <2>1. phase = "closed" /\ phase' = "opening" /\ runs' = runs \o <<Op("open")>> /\ txn' = txn
    BY <1>1 DEF xOpen, Enqueue
  <2>2. \A a \in Ops(runs) : Before(a, Op("open")) /\ KindOK("opening", a.do)
    BY <1>a, <2>1 DEF KindOK, Before, Rank, Op, Waiting
  <2>3. KindOK("opening", Op("open").do) /\ IsOp(Op("open"), txn')
    BY DEF KindOK, IsOp, Op
  <2> QED
    BY <1>0, <1>d, <2>0, <2>1, <2>2, <2>3, AddedOne, Zenon
<1>2. CASE xClose \/ xUnlock
  <2>1. /\ phase' \in {"closed", "unlocked"} /\ phase \in {"unlocked", "locked"}
        /\ runs' = runs /\ txn' = txn
    BY <1>2 DEF xClose, xUnlock
  <2>2. \A a \in Ops(runs) : KindOK(phase', a.do)
    BY <1>a, <2>1 DEF KindOK, Waiting
  <2> QED
    BY <1>a, <2>1, <2>2 DEF Queue, Phases
<1>3. CASE xLock
  <2>0. "locking" \in Phases
    BY DEF Phases
  <2>1. phase = "unlocked" /\ phase' = "locking" /\ runs' = runs \o <<Op("reload")>> /\ txn' = txn
    BY <1>3 DEF xLock, Enqueue
  <2>2. \A a \in Ops(runs) : Before(a, Op("reload")) /\ KindOK("locking", a.do)
    BY <1>a, <2>1 DEF KindOK, Before, Rank, Op, Waiting
  <2>3. KindOK("locking", Op("reload").do) /\ IsOp(Op("reload"), txn')
    BY DEF KindOK, IsOp, Op
  <2> QED
    BY <1>0, <1>d, <2>0, <2>1, <2>2, <2>3, AddedOne, Zenon
<1>4. CASE BeginAtomic
  <2>0. "batch" \in Phases
    BY DEF Phases
  <2>1. phase = "locked" /\ phase' = "batch" /\ runs' = runs \o <<Op("clear")>> /\ txn' = txn + 1
    BY <1>4 DEF BeginAtomic, Enqueue
  <2>2. \A a \in Ops(runs) : Before(a, Op("clear")) /\ KindOK("batch", a.do)
    BY <1>a, <2>1 DEF KindOK, Before, Rank, Op, Waiting
  <2>3. KindOK("batch", Op("clear").do) /\ IsOp(Op("clear"), txn')
    BY DEF KindOK, IsOp, Op
  <2> QED
    BY <1>0, <1>d, <2>0, <2>1, <2>2, <2>3, AddedOne, Zenon
<1>5. CASE Spill
  <2>1. phase = "locked" /\ phase' = "plain" /\ txn' = txn + 1
    BY <1>5 DEF Spill
  <2>2. PICK w \in WriteSets :
          runs' = runs \o <<[do |-> "journal",
                             jr |-> [size |-> Len(cache),
                                     page |-> [p \in {p \in w : p < Len(cache)} |-> cache[p + 1]]]]>>
    BY <1>5 DEF Spill, Enqueue
  <2> DEFINE kept == {p \in w : p < Len(cache)}
             page == [p \in kept |-> cache[p + 1]]
             jr == [size |-> Len(cache), page |-> page]
             a == [do |-> "journal", jr |-> jr]
  <2>3. IsJournal(jr, txn + 1)
    <3>1. /\ cache \in Seq(0 .. txn) /\ Len(cache) \in 0 .. MaxPage
          /\ w \subseteq Page /\ 0 \in w
      BY DEF Types, Opened, IsContent, WriteSets
    <3>2. \A p \in kept : p \in Page /\ p < Len(cache) /\ page[p] \in 0 .. txn + 1
      BY <1>0, <3>1 DEF Page
    <3>3. Len(cache) > 0 => 0 \in kept
      BY <3>1
    <3>4. jr.size = Len(cache) /\ jr.page = page /\ DOMAIN page = kept
      OBVIOUS
    <3>5. jr = [size |-> jr.size, page |-> jr.page]
      OBVIOUS
    <3> HIDE DEF kept, page, jr
    <3> QED
      BY <3>1, <3>2, <3>3, <3>4, <3>5 DEF IsJournal
  <2>4. a.do = "journal" /\ a.jr = jr
    OBVIOUS
  <2>5. runs' = runs \o <<a>>
    BY <2>2
  <2> HIDE DEF a, jr
  <2>6. IsOp(a, txn + 1)
    BY <2>3, <2>4 DEF IsOp
  <2>7. "plain" \in Phases /\ txn' = txn + 1
    BY <2>1 DEF Phases
  <2>8. \A x \in Ops(runs) : Before(x, a) /\ KindOK("plain", x.do)
    BY <1>a, <2>1, <2>4 DEF KindOK, Before, Rank, Waiting
  <2>9. KindOK("plain", a.do)
    BY <2>4 DEF KindOK, Waiting
  <2> QED
    BY <1>0, <1>d, <2>1, <2>5, <2>6, <2>7, <2>8, <2>9, AddedOne, Zenon
<1>6. CASE WritePage
  <2>1. phase \in {"batch", "plain"} /\ todo # {} /\ phase' = phase /\ txn' = txn
        /\ xWrite(txn, Min(todo))
    BY <1>6 DEF WritePage
  <2> DEFINE p == Min(todo)
             a == [do |-> "put", b |-> Block(p, file.b0.ver, txn, 0)]
             b == Op("block0")
  <2>2. p \in Page
    <3>1. todo \subseteq Nat /\ todo \subseteq Page
      BY DEF Types, Opened, Page
    <3>2. p \in todo
      BY <2>1, <3>1, MinIsThere
    <3> QED
      BY <3>1, <3>2
  <2>3. runs' = IF p # 0 THEN runs \o <<a>> ELSE IF file.batch THEN runs ELSE runs \o <<b>>
    BY <2>1 DEF xWrite, Enqueue
  <2>4. file.batch = (phase = "batch")
    BY DEF Types, Opened
  <2>5. a.do = "put" /\ a.b.pos = p /\ IsBlock(a.b, txn) /\ b.do = "block0"
    <3>1. MaxPage \in Nat /\ file.b0.ver \in -txn .. 0 /\ txn \in 0 .. txn
      BY <1>0, <1>c DEF Params, IsBlock
    <3>2. a.b = Block(p, file.b0.ver, txn, 0) /\ a.do = "put" /\ b.do = "block0"
      BY DEF Op
    <3> QED
      BY <1>0, <2>2, <3>1, <3>2, BlockIs
  <2> HIDE DEF a, b, p
  <2>6. CASE p # 0
    <3>1. \A x \in Ops(runs) : Before(x, a)
      BY <1>a, <2>1, <2>5 DEF KindOK, Before, Rank, Waiting
    <3>2. KindOK(phase, a.do) /\ IsOp(a, txn)
      BY <2>1, <2>5, <2>6 DEF KindOK, IsOp
    <3> QED
      BY <1>0, <1>a, <1>d, <1>e, <2>1, <2>3, <2>6, <3>1, <3>2, AddedOne, Zenon
  <2>7. CASE p = 0 /\ phase = "batch"
    BY <2>1, <2>3, <2>4, <2>7 DEF Queue
  <2>8. CASE p = 0 /\ phase = "plain"
    <3>1. \A x \in Ops(runs) : Before(x, b)
      BY <1>a, <2>5, <2>8 DEF KindOK, Before, Rank, Waiting
    <3>2. KindOK(phase, b.do) /\ IsOp(b, txn)
      BY <2>5, <2>8 DEF KindOK, IsOp
    <3>3. runs' = runs \o <<b>>
      BY <2>3, <2>4, <2>8
    <3> QED
      BY <1>0, <1>a, <1>d, <1>e, <2>1, <3>1, <3>2, <3>3, AddedOne, Zenon
  <2> QED
    BY <2>1, <2>6, <2>7, <2>8
<1>7. CASE CommitAtomic
  <2>0. "written" \in Phases
    BY DEF Phases
  <2> DEFINE a == [do |-> "commit", b |-> file.b0, changed |-> file.changed]
  <2>1. phase = "batch" /\ phase' = "written" /\ runs' = runs \o <<a>> /\ txn' = txn
    BY <1>7 DEF CommitAtomic, Enqueue
  <2>2. a.do = "commit" /\ a.b = file.b0
    OBVIOUS
  <2> HIDE DEF a
  <2>3. \A x \in Ops(runs) : Before(x, a) /\ KindOK("written", x.do)
    BY <1>a, <2>1, <2>2 DEF KindOK, Before, Rank, Waiting
  <2>4. KindOK("written", a.do) /\ IsOp(a, txn)
    BY <1>c, <2>2 DEF KindOK, IsOp
  <2> QED
    BY <1>0, <1>d, <1>e, <2>0, <2>1, <2>3, <2>4, AddedOne, Zenon
<1>8. CASE RollbackAtomic
  <2>0. "rolling" \in Phases
    BY DEF Phases
  <2> DEFINE a == [do |-> "undo", ver |-> file.b0.ver + 1]
  <2>1. phase = "batch" /\ phase' = "rolling" /\ runs' = runs \o <<a>> /\ txn' = txn
    BY <1>8 DEF RollbackAtomic, Enqueue
  <2>2. a.do = "undo"
    OBVIOUS
  <2> HIDE DEF a
  <2>3. \A x \in Ops(runs) : Before(x, a) /\ KindOK("rolling", x.do)
    BY <1>a, <2>1, <2>2 DEF KindOK, Before, Rank, Waiting
  <2>4. KindOK("rolling", a.do) /\ IsOp(a, txn)
    BY <2>2 DEF KindOK, IsOp
  <2> QED
    BY <1>0, <1>d, <1>e, <2>0, <2>1, <2>3, <2>4, AddedOne, Zenon
<1>9. CASE xSync
  <2>1. PICK to \in {"syncing", "flushing"} :
          /\ phase = IF to = "syncing" THEN "written" ELSE "plain"
          /\ phase' = to /\ txn' = txn
          /\ runs' = runs \o ((IF file.meta THEN <<Op("block0")>> ELSE <<>>) \o <<Op("sync")>>)
    BY <1>9 DEF xSync, Sync, Enqueue
  <2>0. to \in Phases
    BY DEF Phases
  <2> DEFINE a == Op("block0")
             b == Op("sync")
  <2>2. a.do = "block0" /\ b.do = "sync" /\ b = Op("sync")
    BY DEF Op
  <2>3. \A x \in Ops(runs) : Before(x, b) /\ KindOK(to, x.do)
    BY <1>a, <2>1, <2>2 DEF KindOK, Before, Rank, Waiting
  <2>4. KindOK(to, b.do) /\ IsOp(b, txn)
    BY <2>1, <2>2 DEF KindOK, IsOp, Waiting
  <2>5. CASE ~ file.meta
    <3>1. runs' = runs \o <<b>>
      BY <2>1, <2>5
    <3> HIDE DEF b
    <3> QED
      BY <1>0, <1>d, <1>e, <2>0, <2>1, <2>3, <2>4, <3>1, AddedOne, Zenon
  <2>6. CASE file.meta
    <3>1. to = "flushing" /\ phase = "plain"
      BY <2>1, <2>6 DEF Types, Opened
    <3>2. runs' = runs \o <<a, b>>
      BY <2>1, <2>6
    <3> HIDE DEF a, b
    <3>3. \A x \in Ops(runs) : Before(x, a)
      BY <1>a, <2>2, <3>1 DEF KindOK, Before, Rank, Waiting
    <3>4. KindOK(to, a.do) /\ IsOp(a, txn) /\ Before(a, b)
      BY <2>2, <3>1 DEF KindOK, IsOp, Before, Rank
    <3> QED
      BY <1>0, <1>d, <1>e, <2>0, <2>1, <2>3, <2>4, <3>2, <3>3, <3>4, AddedTwo, Zenon
  <2> QED
    BY <2>5, <2>6 DEF Types, Opened, IsFile
<1>10. CASE PlayBack
  <2>1. phase = "hot" /\ txn' = txn
    BY <1>10 DEF PlayBack
  <2>2. \A x \in Ops(runs) : x.do = "purge"
    BY <1>a, <2>1 DEF KindOK, Waiting
  <2>3. CASE image.journal = NoJournal
    <3>1. phase' = "locked" /\ runs' = runs
      BY <1>10, <1>b, <2>3 DEF PlayBack
    <3>2. \A a \in Ops(runs) : KindOK(phase', a.do)
      BY <2>2 DEF KindOK
    <3> QED
      BY <1>a, <2>1, <3>1, <3>2 DEF Queue, Phases
  <2>4. CASE image.journal # NoJournal
    <3> DEFINE jr == image.journal
               b0 == Back0(file.b0, jr)
    <3>1. IsJournal(jr, txn)
      BY <2>4 DEF Types, Opened, IsStore
    <3>5. MaxPage \in Nat /\ jr = View.journal /\ jr # NoJournal
      BY <1>b, <2>4 DEF Params
    <3>10. b0 = Back0(file.b0, jr)
      OBVIOUS
    <3> HIDE DEF b0, jr
    <3>3. phase' = "replaying"
      BY <1>10, <3>5, <3>10, PlaysIt, Zenon
    <3>11. Queues(runs, runs', file.b0, jr, file.meta)
      BY <1>10, <3>5, <3>10, PlaysIt, Zenon
    <3>2. PICK order \in SetToSeqs(DOMAIN jr.page) :
            runs' = runs \o PlayOps(file.b0, jr, file.meta, b0.ver, order)
      BY <3>10, <3>11, Zenon DEF Queues
    <3>4. IsBlock(b0, txn) /\ b0.pos = 0 /\ b0.ver = file.b0.ver
      BY <1>0, <1>c, <3>1, <3>10, PlayedFile
    <3>12. IsBlock(Cut(file.b0, jr.size), txn) /\ Cut(file.b0, jr.size).pos = 0
      <4>1. jr.size \in 0 .. MaxPage
        BY <3>1 DEF IsJournal
      <4> QED
        BY <1>0, <1>c, <4>1, CutIs
    <3> DEFINE q == PlayOps(file.b0, jr, file.meta, b0.ver, order)
    <3>6. Lined(q) /\ Played(Ops(q), file.b0, jr, b0.ver)
      BY <3>1, <3>5, PlaysBack
    <3>9. runs' = runs \o q
      BY <3>2
    <3> HIDE DEF q
    <3>7. \A x \in Ops(q) : KindOK("replaying", x.do) /\ IsOp(x, txn)
      <4> SUFFICES ASSUME NEW x \in Ops(q) PROVE KindOK("replaying", x.do) /\ IsOp(x, txn)
        OBVIOUS
      <4>1. CASE x = [do |-> "truncate", b |-> Cut(file.b0, jr.size)]
        BY <3>12, <4>1 DEF KindOK, IsOp
      <4>2. CASE x = Op("sync") \/ x = Op("block0")
        BY <4>2 DEF KindOK, IsOp, Op, Waiting
      <4>3. CASE \E p \in DOMAIN jr.page \ {0} : x = WriteBack(jr, b0.ver, p)
        <5>1. PICK p \in DOMAIN jr.page \ {0} : x = WriteBack(jr, b0.ver, p)
          BY <4>3
        <5>2. p \in Page /\ p # 0 /\ jr.page[p] \in 0 .. txn /\ b0.ver \in -txn .. 0
          BY <3>1, <3>4 DEF IsJournal, IsBlock
        <5>3. x.do = "put" /\ x.b = Block(p, b0.ver, jr.page[p], 0)
          BY <5>1, <5>2 DEF WriteBack
        <5>4. IsBlock(x.b, txn) /\ x.b.pos # 0
          BY <1>0, <3>5, <5>2, <5>3, BlockIs
        <5> QED
          BY <5>3, <5>4 DEF KindOK, IsOp
      <4> QED
        BY <3>6, <4>1, <4>2, <4>3 DEF Played
    <3>8. \A x \in Ops(runs) : KindOK("replaying", x.do) /\ \A y \in Ops(q) : Before(x, y)
      BY <2>2 DEF KindOK, Before
    <3>13. phase' \in Phases /\ txn \in Nat /\ txn' = txn /\ txn <= txn
      BY <1>0, <2>1, <3>3 DEF Phases
    <3>14. \A x \in Ops(runs) : \A y \in Ops(q) : Before(x, y)
      BY <3>8
    <3>15. /\ \A x \in Ops(runs) : KindOK(phase', x.do)
           /\ \A x \in Ops(q) : KindOK(phase', x.do) /\ IsOp(x, txn)
      BY <3>3, <3>7, <3>8
    <3> QED
      BY <3>6, <3>9, <3>13, <3>14, <3>15, Added, Zenon
  <2> QED
    BY <2>3, <2>4
<1>11. CASE RunWrite
  <2>1. runs # << >> /\ runs' = Tail(runs) /\ txn' = txn /\ phase' = phase
    BY <1>11 DEF RunWrite, sqlite
  <2> QED
    BY <1>0, <2>1, Taken
<1>12. CASE RunOpen \/ RunReload \/ RunUndo
  <2>1. /\ runs # << >> /\ runs' = Tail(runs) /\ txn' = txn /\ phase' \in Phases
        /\ runs[1].do \in {"open", "reload", "undo"}
    <3>1. CASE RunOpen
      BY <3>1 DEF RunOpen, Phases, NextRun
    <3>2. CASE RunReload
      BY <3>2 DEF RunReload, Phases, NextRun
    <3>3. CASE RunUndo
      <4>1. runs # << >> /\ runs[1].do = "undo" /\ runs' = Tail(runs) /\ txn' = txn
        BY <3>3 DEF RunUndo, NextRun
      <4>2. phase' \in {"failed", "locked"}
        BY <3>3, Zenon DEF RunUndo
      <4> QED
        BY <4>1, <4>2 DEF Phases
    <3> QED
      BY <1>12, <3>1, <3>2, <3>3
  <2>2. ASSUME NEW a \in Ops(runs), Before(runs[1], a) PROVE a.do = "purge"
    <3>1. KindOK(phase, a.do) /\ KindOK(phase, runs[1].do)
      BY <1>a, <2>1, TailOps DEF Queue
    <3> QED
      BY <2>1, <2>2, <3>1 DEF KindOK, Before, Rank, Waiting
  <2>3. \A a \in Ops(runs) : Before(runs[1], a) => KindOK(phase', a.do)
    BY <2>2 DEF KindOK
  <2> QED
    BY <2>1, <2>3, Taken
<1>13. CASE SyncOK
  <2>1. syncing /\ runs = << >> /\ txn' = txn
    BY <1>13 DEF SyncOK, SyncReturns, Chained
  <2>2. CASE phase' = "unlocked" /\ runs' = runs
    BY <2>1, <2>2, NothingWaits DEF Phases
  <2>3. CASE phase' = "unlocked" /\ runs' = runs \o <<Op("unlink")>>
    <3>0. "unlocked" \in Phases
      BY DEF Phases
    <3>1. \A a \in Ops(runs) : FALSE
      BY <2>1 DEF Ops
    <3>2. KindOK("unlocked", Op("unlink").do) /\ IsOp(Op("unlink"), txn)
      BY DEF KindOK, IsOp, Op
    <3> QED
      BY <1>0, <1>d, <1>e, <2>1, <2>3, <3>0, <3>1, <3>2, AddedOne, Zenon
  <2>4. CASE phase' = "locking" /\ runs' = runs \o <<Op("unlink"), Op("reload")>>
    <3> DEFINE a == Op("unlink")
               b == Op("reload")
    <3>1. \A x \in Ops(runs) : FALSE
      BY <2>1 DEF Ops
    <3>2. KindOK("locking", a.do) /\ IsOp(a, txn) /\ KindOK("locking", b.do) /\ IsOp(b, txn) /\ Before(a, b)
      BY DEF KindOK, IsOp, Op, Before, Rank
    <3> HIDE DEF a, b
    <3>3. "locking" \in Phases
      BY DEF Phases
    <3>4. runs' = runs \o <<a, b>>
      BY <2>4 DEF a, b
    <3> QED
      BY <1>0, <1>d, <1>e, <2>1, <2>4, <3>1, <3>2, <3>3, <3>4, AddedTwo, Zenon
  <2> QED
    BY <1>13, <2>2, <2>3, <2>4 DEF SyncOK, Enqueue
<1>14. CASE SyncFails
  <2>1. runs' = << >> /\ phase' = "unlocked"
    BY <1>14 DEF SyncFails, SyncThrows, Chained
  <2> QED
    BY <2>1, NothingWaits DEF Phases
<1>15. CASE IdlePurge
  <2>1. runs' = runs \o <<Op("purge")>> /\ phase' = phase /\ txn' = txn /\ Op("sync") \notin Range(runs)
    BY <1>15 DEF IdlePurge, Enqueue, sqlite
  <2>2. \A a \in Ops(runs) : a.do # "sync"
    <3>1. Range(runs) = Ops(runs)
      BY DEF Range, Ops, Queue, Lined
    <3> QED
      BY <1>a, <2>1, <3>1 DEF IsOp
  <2>3. \A a \in Ops(runs) : Before(a, Op("purge"))
    BY <2>2 DEF Before, Op
  <2>4. KindOK(phase, Op("purge").do) /\ IsOp(Op("purge"), txn)
    BY DEF KindOK, IsOp, Op
  <2> QED
    BY <1>0, <1>a, <1>d, <1>e, <2>1, <2>3, <2>4, AddedOne, Zenon
<1>16. CASE Replaced \/ Committed \/ Aborted \/ UNCHANGED vars
  <2>1. UNCHANGED <<runs, phase, txn>>
    BY <1>16 DEF Replaced, NewTransaction, Committed, Committing, Complete, Aborted, Abort, Outside,
       sqlite, vars, idb
  <2> QED
    BY <2>1 DEF Queue
<1>17. CASE Drained
  <2>1. runs # << >> /\ runs' = Tail(runs) /\ txn' = txn /\ phase' = phase
    BY <1>17 DEF Drained, SyncRuns, Outside, sqlite
  <2> QED
    BY <1>0, <2>1, Taken
<1>18. CASE Crash
  <2>1. runs' = << >> /\ phase' = "closed"
    BY <1>18 DEF Crash, IdbReset
  <2> QED
    BY <2>1, NothingWaits DEF Phases
<1> QED
  BY <1>1, <1>2, <1>3, <1>4, <1>5, <1>6, <1>7, <1>8, <1>9, <1>10, <1>11, <1>12, <1>13, <1>14, <1>15,
     <1>16, <1>17, <1>18 DEF Next

\* What is on disk and what the transactions made of it are stores.
LEMMA StoresStep ==
  ASSUME Params, Chained, Queue, Types, [Next]_vars
  PROVE  IsStore(disk', txn') /\ IsStore(image', txn')
<1>0. txn' \in Nat /\ txn <= txn' /\ txn \in Nat
  BY TxnGrows
<1>1. IsStore(disk, txn) /\ IsStore(image, txn) /\ View = image
  BY ViewIs DEF Types, Opened
<1>2. CASE RunWrite
  <2>1. disk' = disk /\ image' = Effect(runs[1], image) /\ runs # << >> /\ runs[1].do \in Writing
    BY <1>1, <1>2 DEF RunWrite, NextRun, Ran
  <2>2. txn' = txn
    BY <1>2 DEF RunWrite, sqlite
  <2>3. IsOp(runs[1], txn)
    BY <2>1, TailOps DEF Queue
  <2>4. IsFile(file, txn)
    BY DEF Types, Opened
  <2>5. IsStore(Effect(runs[1], image), txn)
    BY <1>0, <1>1, <2>1, <2>3, <2>4, EffectStore
  <2> QED
    BY <1>1, <2>1, <2>2, <2>5
<1>3. CASE RunOpen
  <2>1. disk' = disk /\ txn' = txn /\ image' = IF Block0s(image) = {} THEN Put(image, NoFile.b0) ELSE image
    BY <1>1, <1>3 DEF RunOpen, Ran
  <2>2. IsBlock(NoFile.b0, txn)
    BY <1>0, OpenShows DEF Params
  <2>3. IsStore(Put(image, NoFile.b0), txn)
    BY <1>0, <1>1, <2>2, PutStore
  <2> QED
    BY <1>1, <2>1, <2>3
<1>4. CASE Committed \/ Aborted \/ Crash
  <2>1. disk' \in {disk, image} /\ image' \in {disk, image} /\ txn' = txn
    BY <1>4 DEF Committed, Committing, Complete, Aborted, Abort, Crash, IdbReset, Outside, sqlite
  <2> QED
    BY <1>1, <2>1
<1>5. CASE UNCHANGED <<disk, image>>
  BY <1>0, <1>1, <1>5, Larger
<1>6. RunWrite \/ RunOpen \/ Committed \/ Aborted \/ Crash \/ UNCHANGED <<disk, image>>
  BY DEF Next, vars, idb, Rest, xOpen, xClose, xLock, xUnlock, BeginAtomic, Spill, WritePage,
     CommitAtomic, RollbackAtomic, xSync, Sync, PlayBack, RunReload, RunUndo, SyncOK, SyncReturns,
     SyncFails, SyncThrows, IdlePurge, Replaced, NewTransaction, Drained, SyncRuns
<1> QED
  BY <1>2, <1>3, <1>4, <1>5, <1>6

\* What was committed, and what of it was acknowledged.
LEMMA HistStep ==
  ASSUME Params, Types, [Next]_vars, txn' <= MaxTxn
  PROVE  /\ hist' \in Seq(Content)
         /\ \A i \in 1 .. Len(hist') : IsContent(hist'[i], txn')
         /\ acked' \in 1 .. Len(hist')
<1>0. txn' \in Nat /\ txn <= txn' /\ txn \in Nat
  BY TxnGrows
<1>1. /\ hist \in Seq(Content) /\ Len(hist) \in Nat
      /\ \A i \in 1 .. Len(hist) : IsContent(hist[i], txn')
      /\ acked \in 1 .. Len(hist)
  BY <1>0, Larger DEF Types, Opened
<1>2. IsContent(cache, txn') /\ cache \in Content
  <2>1. IsContent(cache, txn')
    BY <1>0, Larger DEF Types, Opened
  <2> QED
    BY <1>0, <2>1, InContent
<1>3. CASE hist' = Append(hist, cache) /\ acked' = acked
  <2>1. /\ hist' \in Seq(Content) /\ Len(hist') = Len(hist) + 1
        /\ \A i \in 1 .. Len(hist) : hist'[i] = hist[i]
        /\ hist'[Len(hist) + 1] = cache
    BY <1>1, <1>2, <1>3, AppendIs
  <2>2. \A i \in 1 .. Len(hist') : i \in 1 .. Len(hist) \/ i = Len(hist) + 1
    BY <1>1, <2>1
  <2>3. \A i \in 1 .. Len(hist') : IsContent(hist'[i], txn')
    BY <1>1, <1>2, <2>1, <2>2
  <2> QED
    BY <1>1, <1>3, <2>1, <2>3
<1>4. CASE hist' = hist /\ acked' \in {acked, Len(hist)}
  BY <1>1, <1>4
<1>5. CASE hist' = <<Recovered(disk)>> /\ acked' = 1
  <2>1. IsContent(Recovered(disk), txn)
    BY <1>0, RecoveredIs DEF Types, Opened, Params
  <2>2. IsContent(Recovered(disk), txn') /\ Recovered(disk) \in Content
    BY <1>0, <2>1, Larger, InContent
  <2> DEFINE c == Recovered(disk)
  <2> HIDE DEF c
  <2>3. Len(<<c>>) = 1 /\ <<c>>[1] = c
    OBVIOUS
  <2>4. hist' = <<c>> /\ c \in Content /\ IsContent(c, txn')
    BY <1>5, <2>2 DEF c
  <2>5. <<c>> \in Seq(Content)
    BY <2>4
  <2> QED
    BY <1>5, <2>3, <2>4, <2>5
<1>6. \/ hist' = Append(hist, cache) /\ acked' = acked
      \/ hist' = hist /\ acked' \in {acked, Len(hist)}
      \/ hist' = <<Recovered(disk)>> /\ acked' = 1
  <2>1. CASE SyncOK
    BY <2>1 DEF SyncOK
  <2>2. CASE CommitAtomic
    BY <2>2 DEF CommitAtomic
  <2>3. CASE Crash
    BY <2>3 DEF Crash
  <2>4. CASE UNCHANGED <<hist, acked>>
    BY <2>4
  <2> QED
    BY <2>1, <2>2, <2>3, <2>4 DEF Next, vars, sqlite, xOpen, xClose, xLock, xUnlock, BeginAtomic, Spill,
       WritePage, RollbackAtomic, xSync, Sync, PlayBack, RunWrite, RunOpen, RunReload, RunUndo,
       SyncFails, IdlePurge, Replaced, Committed, Aborted, Drained, Outside
<1> QED
  BY <1>3, <1>4, <1>5, <1>6

LEMMA NoFileIs ==
  ASSUME NEW t \in Nat, MaxPage \in Nat \ {0}
  PROVE  IsFile(NoFile, t) /\ NoFile.batch = FALSE /\ NoFile.meta = TRUE /\ NoFile.b0.size = 0
<1>1. NoFile = [b0 |-> [pos |-> 0, ver |-> 0, val |-> 0, size |-> 0],
                meta |-> TRUE, batch |-> FALSE, changed |-> {}]
  BY DEF NoFile, Block, Blank
<1>2. 0 \in Page /\ 0 \in -t .. 0 /\ 0 \in 0 .. t /\ 0 \in 0 .. MaxPage
  BY DEF Page
<1> QED
  BY <1>1, <1>2 DEF IsFile

LEMMA OpenedStep ==
  ASSUME Params, Chained, Queue, Types, [Next]_vars
  PROVE  Opened'
<1>0. txn' \in Nat /\ txn <= txn' /\ txn \in 0 .. MaxTxn /\ MaxPage \in Nat \ {0} /\ txn \in Nat
      /\ MaxTxn \in Nat
  BY TxnGrows DEF Types, Opened, Params
<1>1. /\ IsFile(file, txn) /\ file.batch = (phase = "batch")
      /\ IsContent(cache, txn) /\ todo \subseteq Page
      /\ IsStore(image, txn) /\ View = image
      /\ file.b0.pos = 0 /\ file.b0.size \in Nat /\ IsBlock(file.b0, txn)
  BY ViewIs DEF Types, Opened, IsFile, IsBlock
<1>a. IsFile(file, txn) /\ txn \in Nat
  BY <1>0, <1>1
<1>2. CASE xOpen
  <2>1. phase' = "opening" /\ file' = NoFile /\ UNCHANGED <<txn, cache, todo>>
    BY <1>2 DEF xOpen
  <2>2. IsFile(NoFile, txn) /\ NoFile.batch = FALSE
    BY <1>0, NoFileIs
  <2> QED
    BY <1>0, <1>1, <2>1, <2>2 DEF Opened
<1>3. CASE Crash
  <2>1. phase' = "closed" /\ file' = NoFile /\ todo' = {} /\ cache' = << >> /\ txn' = txn
    BY <1>3 DEF Crash
  <2>2. IsFile(NoFile, txn) /\ NoFile.batch = FALSE
    BY <1>0, NoFileIs
  <2>3. IsContent(<< >>, txn)
    BY <1>0 DEF IsContent
  <2> QED
    BY <1>0, <1>1, <2>1, <2>2, <2>3 DEF Opened
<1>4. CASE BeginAtomic
  <2>1. /\ phase = "locked" /\ txn < MaxTxn /\ phase' = "batch" /\ txn' = txn + 1
        /\ todo' \in WriteSets /\ cache' = cache
        /\ file' = [file EXCEPT !.b0.ver = @ - 1, !.batch = TRUE, !.changed = {}]
    BY <1>4 DEF BeginAtomic
  <2> DEFINE g == [file EXCEPT !.b0.ver = @ - 1, !.batch = TRUE, !.changed = {}]
  <2>2. IsFile(g, txn + 1) /\ g.b0.ver = file.b0.ver - 1 /\ g.b0.size = file.b0.size /\ g.batch = TRUE
    BY <1>0, <1>1, BatchFile
  <2> HIDE DEF g
  <2>3. IsFile(file', txn') /\ file'.b0.ver < 0 /\ file'.b0.size = file.b0.size /\ file'.batch = TRUE
    BY <1>1, <2>1, <2>2 DEF g, IsFile
  <2>4. todo' \subseteq Page /\ \A p \in todo' : \A q \in Len(cache) .. p : q \in todo'
    BY <2>1 DEF WriteSets
  <2>5. Len(cache) = file.b0.size
    BY <2>1 DEF Types, Opened
  <2>6. IsContent(cache', txn')
    BY <1>0, <1>1, <2>1, Larger
  <2> QED
    <3>1. Len(cache') = file'.b0.size /\ txn' \in 0 .. MaxTxn
      BY <1>0, <2>1, <2>3, <2>5
    <3>2. \A p \in todo' : \A q \in file'.b0.size .. p : q \in todo'
      BY <2>3, <2>4, <2>5
    <3> QED
      BY <2>1, <2>3, <2>4, <2>6, <3>1, <3>2 DEF Opened
<1>5. CASE Spill
  <2>1. /\ phase = "locked" /\ txn < MaxTxn /\ phase' = "plain" /\ txn' = txn + 1
        /\ todo' \in WriteSets /\ cache' = cache /\ file' = file
    BY <1>5 DEF Spill
  <2>2. IsFile(file', txn') /\ IsContent(cache', txn')
    BY <1>0, <1>1, <2>1, Larger
  <2>3. todo' \subseteq Page /\ \A p \in todo' : \A q \in Len(cache) .. p : q \in todo'
    BY <2>1 DEF WriteSets
  <2>4. Len(cache) = file.b0.size
    BY <2>1 DEF Types, Opened
  <2> QED
    <3>1. Len(cache') = file'.b0.size /\ txn' \in 0 .. MaxTxn
      BY <1>0, <2>1, <2>4
    <3>2. \A p \in todo' : \A q \in file'.b0.size .. p : q \in todo'
      BY <2>1, <2>3, <2>4
    <3>3. file'.batch = (phase' = "batch")
      BY <1>1, <2>1
    <3> QED
      BY <2>1, <2>2, <2>3, <3>1, <3>2, <3>3 DEF Opened
<1>6. CASE WritePage
  <2> DEFINE p == Min(todo)
  <2>1. /\ phase \in {"batch", "plain"} /\ todo # {} /\ phase' = phase /\ txn' = txn
        /\ todo' = todo \ {p} /\ xWrite(txn, p)
        /\ cache' = [i \in 1 .. file'.b0.size |-> IF i = p + 1 THEN txn ELSE cache[i]]
    BY <1>6 DEF WritePage
  <2>2. p \in todo /\ p \in Page /\ p \in Nat /\ \A x \in todo : p <= x
    <3>1. todo \subseteq Nat /\ todo \subseteq Page
      BY <1>1 DEF Page
    <3>2. p \in todo /\ \A x \in todo : p <= x
      BY <2>1, <3>1, MinIsThere
    <3> QED
      BY <3>1, <3>2
  <2> HIDE DEF p
  <2>3. /\ IsFile(file', txn)
        /\ file'.b0.ver = file.b0.ver
        /\ file'.b0.size = IF file.b0.size < p + 1 THEN p + 1 ELSE file.b0.size
        /\ file'.batch = file.batch
    <3>1. txn \in 0 .. txn
      BY <1>0
    <3> QED
      BY <1>0, <1>1, <2>1, <2>2, <3>1, WriteFile
  <2>4. /\ Len(cache) = file.b0.size
        /\ \A x \in todo : \A q \in file.b0.size .. x : q \in todo
        /\ phase = "batch" => file.b0.ver < 0
    BY <2>1 DEF Types, Opened
  <2>5. p <= file.b0.size
    BY <1>1, <2>2, <2>4
  <2>6. file'.b0.size \in Nat /\ file'.b0.size <= MaxPage
    BY <2>3 DEF IsFile
  <2>7. \A i \in 1 .. file'.b0.size : i = p + 1 \/ i \in 1 .. Len(cache)
    <3> SUFFICES ASSUME NEW i \in Nat, 1 <= i, i <= file'.b0.size, i # p + 1
                 PROVE  i <= Len(cache)
      BY <1>1, <2>4, <2>6
    <3> QED
      BY <1>1, <2>2, <2>3, <2>4, <2>5
  <2>8. \A i \in 1 .. Len(cache) : cache[i] \in 0 .. txn
    <3> DEFINE S == 0 .. txn
    <3>1. cache \in Seq(S)
      BY <1>1 DEF IsContent
    <3> HIDE DEF S
    <3>2. \A i \in 1 .. Len(cache) : cache[i] \in S
      BY <3>1
    <3> QED
      BY <3>2 DEF S
  <2>9. cache' \in [1 .. file'.b0.size -> 0 .. txn]
    <3>1. \A i \in 1 .. file'.b0.size : (IF i = p + 1 THEN txn ELSE cache[i]) \in 0 .. txn
      BY <1>0, <2>7, <2>8
    <3> QED
      BY <2>1, <3>1
  <2>10. IsContent(cache', txn) /\ Len(cache') = file'.b0.size
    <3> DEFINE n == file'.b0.size
               S == 0 .. txn
    <3>1. n \in Nat /\ n <= MaxPage /\ cache' \in [1 .. n -> S]
      BY <2>6, <2>9
    <3> HIDE DEF n, S
    <3>2. cache' \in Seq(S) /\ Len(cache') = n
      BY <3>1
    <3> QED
      BY <3>1, <3>2 DEF IsContent, n, S
  <2>11. \A x \in todo' : \A q \in file'.b0.size .. x : q \in todo'
    <3> SUFFICES ASSUME NEW x \in todo', NEW q \in file'.b0.size .. x PROVE q \in todo'
      OBVIOUS
    <3>1. x \in todo /\ x \in Nat /\ q \in Nat /\ q \in file.b0.size .. x /\ q # p
      BY <1>1, <2>1, <2>2, <2>3, <2>6 DEF Page
    <3> QED
      BY <2>1, <2>4, <3>1
  <2> QED
    BY <1>0, <1>1, <2>1, <2>3, <2>4, <2>10, <2>11 DEF Opened
<1>7. CASE CommitAtomic \/ RollbackAtomic
  <2>1. /\ phase' \in {"written", "rolling"} /\ UNCHANGED <<txn, cache>> /\ todo' \in {todo, {}}
        /\ file' = [file EXCEPT !.batch = FALSE, !.changed = {}, !.meta = FALSE]
    BY <1>7 DEF CommitAtomic, RollbackAtomic
  <2>2. IsFile(file', txn) /\ file'.batch = FALSE /\ file'.meta = FALSE
    BY <1>a, <2>1, EndFile, Zenon
  <2> QED
    BY <1>0, <1>1, <2>1, <2>2 DEF Opened
<1>8. CASE xSync
  <2>1. /\ \/ phase = "written" /\ phase' = "syncing"
           \/ phase = "plain" /\ phase' = "flushing"
        /\ UNCHANGED <<txn, cache, todo>> /\ file' = [file EXCEPT !.meta = FALSE]
    BY <1>8 DEF xSync, Sync
  <2>2. IsFile(file', txn) /\ file'.batch = file.batch /\ file'.b0 = file.b0
    BY <1>a, <2>1, SyncFile, Zenon
  <2>3. phase = "plain" => Len(cache) = file.b0.size
    BY DEF Types, Opened
  <2> QED
    BY <1>0, <1>1, <2>1, <2>2, <2>3 DEF Opened
<1>9. CASE PlayBack
  <2>1. phase = "hot" /\ UNCHANGED <<txn, todo>>
    BY <1>9 DEF PlayBack
  <2>2. CASE image.journal = NoJournal
    <3>1. phase' = "locked" /\ cache' = ReadFile(image, file.b0) /\ file' = file
      BY <1>1, <1>9, <2>2 DEF PlayBack
    <3>2. IsContent(cache', txn) /\ Len(cache') = file.b0.size
      BY <1>0, <1>1, <3>1, ReadsContent
    <3> QED
      BY <1>0, <1>1, <2>1, <3>1, <3>2 DEF Opened
  <2>3. CASE image.journal # NoJournal
    <3> DEFINE jr == image.journal
               b0 == Back0(file.b0, jr)
    <3>1. jr = View.journal /\ jr # NoJournal /\ IsJournal(jr, txn)
      BY <1>1, <2>3 DEF IsStore
    <3>2. IsBlock(b0, txn) /\ b0.pos = 0
      BY <1>0, <1>1, <3>1, PlayedFile
    <3>3. b0 = Back0(file.b0, jr)
      OBVIOUS
    <3> HIDE DEF jr, b0
    <3>4. phase' = "replaying" /\ cache' = cache /\ Rewrites(file, b0, file')
      <4>1. PlayBack
        BY <1>9
      <4>2. phase' = "replaying"
        BY <3>1, <3>3, <4>1, PlaysIt, Zenon
      <4>3. cache' = cache
        BY <3>1, <3>3, <4>1, PlaysIt, Zenon
      <4>4. Rewrites(file, b0, file')
        BY <3>1, <3>3, <4>1, PlaysIt, Zenon
      <4> QED
        BY <4>2, <4>3, <4>4, Zenon
    <3>6. txn \in Nat /\ IsFile(file, txn)
      BY <1>0, <1>1
    <3>5. IsFile(file', txn) /\ file'.batch = file.batch
      BY <3>2, <3>4, <3>6, CutFile
    <3> QED
      BY <1>0, <1>1, <2>1, <3>4, <3>5 DEF Opened
  <2> QED
    BY <2>2, <2>3
<1>10. CASE RunOpen
  <2>1. /\ phase' = "unlocked" /\ UNCHANGED <<txn, cache, todo>>
        /\ file' = [file EXCEPT !.b0 = Newest(Block0s(image'))]
        /\ image' = IF Block0s(image) = {} THEN Put(image, NoFile.b0) ELSE image
        /\ runs # << >> /\ runs[1].do = "open"
    BY <1>1, <1>10 DEF RunOpen, Ran, NextRun
  <2>2. phase = "opening"
    <3>1. KindOK(phase, runs[1].do)
      BY <2>1, TailOps DEF Queue
    <3> QED
      BY <2>1, <3>1 DEF KindOK
  <2>3. IsStore(image', txn')
    BY StoresStep
  <2>4. Block0s(image') # {}
    <3>1. CASE Block0s(image) = {}
      <4>1. NoFile.b0 \in Put(image, NoFile.b0).blocks
        BY <1>0, <1>1, PutIs
      <4>2. NoFile.b0.pos = 0
        BY <1>0, NoFileIs DEF IsFile
      <4> QED
        BY <2>1, <3>1, <4>1, <4>2 DEF Block0s
    <3> QED
      BY <2>1, <3>1
  <2> DEFINE b == Newest(Block0s(image'))
  <2>5. Top(image', b)
    BY <1>0, <2>3, <2>4, TopExists
  <2> HIDE DEF b
  <2>6. IsBlock(b, txn) /\ b.pos = 0
    BY <2>1, <2>3, <2>5 DEF Top, IsStore
  <2>7. IsFile(file', txn) /\ file'.batch = file.batch
    BY <1>0, <1>1, <2>1, <2>6, Block0File DEF b
  <2> QED
    BY <1>0, <1>1, <2>1, <2>2, <2>7 DEF Opened
<1>11. CASE RunReload \/ RunUndo
  <2>1. UNCHANGED <<txn, todo>> /\ runs # << >> /\ runs[1].do \in {"reload", "undo"}
    BY <1>11 DEF RunReload, RunUndo, NextRun
  <2>2. phase \notin {"batch"}
    <3>1. KindOK(phase, runs[1].do)
      BY <2>1, TailOps DEF Queue
    <3> QED
      BY <2>1, <3>1 DEF KindOK
  <2>3. \/ phase' = "failed" /\ UNCHANGED <<file, cache>>
        \/ \E b \in Block0s(image) : /\ phase' \in {"locked", "hot"}
                                     /\ file' = [file EXCEPT !.b0 = b]
                                     /\ cache' = ReadFile(image, file'.b0)
    <3>1. CASE RunReload
      <4>1. Block0s(image) # {} => Newest(Block0s(image)) \in Block0s(image)
        BY <1>0, <1>1, TopExists DEF Top, Block0s
      <4>2. CASE Block0s(image) = {}
        BY <1>1, <3>1, <4>2 DEF RunReload
      <4>3. CASE Block0s(image) # {}
        <5>1. /\ phase' \in {"locked", "hot"}
              /\ file' = [file EXCEPT !.b0 = Newest(Block0s(image))]
              /\ cache' = ReadFile(image, file'.b0)
          BY <1>1, <3>1, <4>3 DEF RunReload
        <5> QED
          BY <4>1, <4>3, <5>1
      <4> QED
        BY <4>2, <4>3
    <3>2. CASE RunUndo
      <4> DEFINE was == {b \in Block0s(image) : b.ver = runs[1].ver}
      <4>1. IF was = {} THEN phase' = "failed" /\ UNCHANGED <<file, cache>>
            ELSE /\ file' = [file EXCEPT !.b0 = CHOOSE b \in was : TRUE]
                 /\ cache' = ReadFile(image, file'.b0)
                 /\ phase' = "locked"
        BY <1>1, <3>2 DEF RunUndo, NextRun
      <4>2. was # {} => (CHOOSE b \in was : TRUE) \in was
        OBVIOUS
      <4>3. was \subseteq Block0s(image)
        OBVIOUS
      <4> HIDE DEF was
      <4> QED
        BY <4>1, <4>2, <4>3
    <3> QED
      BY <1>11, <3>1, <3>2
  <2>4. CASE phase' = "failed" /\ UNCHANGED <<file, cache>>
    BY <1>0, <1>1, <2>1, <2>2, <2>4 DEF Opened
  <2>5. ASSUME NEW b \in Block0s(image), phase' \in {"locked", "hot"}, file' = [file EXCEPT !.b0 = b],
               cache' = ReadFile(image, file'.b0)
        PROVE  Opened'
    <3>1. IsBlock(b, txn) /\ b.pos = 0
      BY <1>1 DEF IsStore, Block0s
    <3>2. IsFile(file', txn) /\ file'.batch = file.batch /\ file'.b0 = b
      BY <1>0, <1>1, <2>5, <3>1, Block0File
    <3>3. IsContent(cache', txn) /\ Len(cache') = file'.b0.size
      BY <1>0, <1>1, <2>5, <3>1, <3>2, ReadsContent
    <3> QED
      BY <1>0, <1>1, <2>1, <2>2, <2>5, <3>2, <3>3 DEF Opened
  <2> QED
    BY <2>3, <2>4, <2>5
<1>12. CASE SyncOK
  <2>1. /\ \/ phase = "syncing" /\ phase' = "unlocked"
           \/ phase = "flushing" /\ phase' = "unlocked"
           \/ phase = "replaying" /\ phase' = "locking"
        /\ UNCHANGED <<txn, file, cache, todo>>
    BY <1>12 DEF SyncOK
  <2> QED
    BY <1>0, <1>1, <2>1 DEF Opened, Types
<1>13. CASE SyncFails
  <2>1. /\ phase' = "unlocked" /\ phase \in Waiting
        /\ todo' = {} /\ UNCHANGED <<txn, file, cache>>
    BY <1>13 DEF SyncFails, SyncThrows, Chained
  <2> QED
    BY <1>0, <1>1, <2>1 DEF Opened, Waiting
<1>14. CASE xClose \/ xLock \/ xUnlock
  <2>1. /\ phase \in {"unlocked", "locked"} /\ phase' \in {"closed", "locking", "unlocked"}
        /\ UNCHANGED <<txn, file, cache, todo>>
    BY <1>14 DEF xClose, xLock, xUnlock
  <2> QED
    BY <1>0, <1>1, <2>1 DEF Opened
<1>15. CASE UNCHANGED <<phase, txn, file, cache, todo>>
  BY <1>15 DEF Opened, Types
<1>16. \/ xOpen \/ Crash \/ BeginAtomic \/ Spill \/ WritePage \/ CommitAtomic \/ RollbackAtomic \/ xSync
       \/ PlayBack \/ RunOpen \/ RunReload \/ RunUndo \/ SyncOK \/ SyncFails \/ xClose \/ xLock \/ xUnlock
       \/ UNCHANGED <<phase, txn, file, cache, todo>>
  BY DEF Next, vars, sqlite, RunWrite, IdlePurge, Replaced, Committed, Aborted, Drained, Outside
<1> QED
  BY <1>2, <1>3, <1>4, <1>5, <1>6, <1>7, <1>8, <1>9, <1>10, <1>11, <1>12, <1>13, <1>14, <1>15, <1>16

LEMMA TypesStep ==
  ASSUME Params, Chained, Queue, Types, [Next]_vars
  PROVE  Types'
<1>1. Opened'
  BY OpenedStep
<1>2. txn' <= MaxTxn
  BY <1>1 DEF Opened, Params
<1> QED
  BY <1>1, <1>2, StoresStep, HistStep DEF Types

LEMMA Starts ==
  ASSUME Params, Init
  PROVE  Chained /\ Queue /\ Types
<1>0. MaxTxn \in Nat /\ MaxPage \in Nat \ {0}
  BY DEF Params
<1>1. Chained
  <2>1. /\ txs = << >> /\ image = disk /\ rejected = FALSE /\ syncing = FALSE /\ lost = FALSE
        /\ pending = FALSE
    BY DEF Init, IdbInit
  <2>2. {rejected, syncing, lost, pending} \subseteq BOOLEAN
    BY <2>1
  <2>3. txs \in Seq(Tx) /\ Len(txs) = 0
    BY <2>1
  <2> QED
    BY <2>1, <2>2, <2>3 DEF Chained
<1>2. Queue
  <2>1. runs = << >> /\ phase = "closed"
    BY DEF Init, IdbInit
  <2>2. runs \in Seq(Ops(runs)) /\ Len(runs) = 0
    BY <2>1
  <2> QED
    BY <2>1, <2>2 DEF Queue, Phases, Lined, Ops
<1>3. IsFile(NoFile, 0) /\ NoFile.batch = FALSE /\ IsStore(EmptyStore, 0) /\ IsContent(<< >>, 0)
  <2>1. IsFile(NoFile, 0) /\ NoFile.batch = FALSE
    BY <1>0, NoFileIs
  <2>2. IsStore(EmptyStore, 0)
    BY EmptyIs
  <2>3. << >> \in Seq(0 .. 0) /\ Len(<< >>) = 0
    OBVIOUS
  <2> QED
    BY <1>0, <2>1, <2>2, <2>3 DEF IsContent
<1>4. << >> \in Content
  BY <1>0, <1>3, InContent
<1> DEFINE c == << >>
<1>7. c \in Content /\ IsContent(c, 0)
  BY <1>3, <1>4
<1>8. hist = <<c>> /\ acked = 1 /\ txn = 0 /\ disk = EmptyStore /\ image = EmptyStore
  BY DEF Init, IdbInit
<1> HIDE DEF c
<1>5. Len(hist) = 1 /\ hist[1] = c /\ hist \in Seq(Content)
  BY <1>7, <1>8
<1>6. Opened
  <2>1. phase = "closed" /\ file = NoFile /\ cache = << >> /\ todo = {} /\ txn = 0
    BY DEF Init
  <2>2. 0 \in 0 .. MaxTxn /\ {} \subseteq Page
    BY <1>0
  <2>3. file.batch = (phase = "batch")
    BY <1>3, <2>1
  <2> QED
    BY <1>3, <2>1, <2>2, <2>3 DEF Opened
<1> QED
  BY <1>1, <1>2, <1>3, <1>5, <1>6, <1>7, <1>8 DEF Types

--------------------------------------------------------------------------------
(* Where SQLite is, for a store s, the functions Q that wait, the block 0 in   *)
(* memory, the pages c as SQLite knows them, those it has yet to write, w, and *)
(* the content committed last.                                                 *)

Block0Is(b0, c) == Len(c) = b0.size /\ (b0.size > 0 => b0.val = c[1] /\ b0.val # Blank)

\* Those that put a page put what SQLite last wrote there.
PutsOf(Q, ver, c, w) ==
    \A op \in Q : op.do = "put" =>
        /\ op.b.ver = ver /\ op.b.pos < Len(c) /\ op.b.val = c[op.b.pos + 1]
        /\ op.b.pos \notin w

Reading(s, b0, c) == Top(s, b0) /\ s.journal = NoJournal /\ Plain(s, b0, c)

Hot(s, b0) == Top(s, b0) /\ s.journal # NoJournal

\* Versions one below the file's hold the batch: nobody reads them before its
\* block 0 is there, and those of an abandoned one go first.
Batch(s, Q, b0, c, changed, w) ==
    /\ \E n \in s.blocks : Top(s, n) /\ n.ver = b0.ver + 1
    /\ s.journal = NoJournal
    /\ Block0Is(b0, c) /\ PutsOf(Q, b0.ver, c, w)
    /\ \A p \in 1 .. Len(c) - 1 :
        PutAt(Q, p) \/ At(s, IF HasOp(Q, "clear") THEN b0.ver + 1 ELSE b0.ver, p, c[p + 1])
    /\ \A p \in changed \ {0} :
        \/ PutAt(Q, p)
        \/ ~ HasOp(Q, "clear") /\ \E b \in s.blocks : b.pos = p /\ b.ver = b0.ver

Written(s, Q, b0, end) ==
    /\ \A op \in Q : op.do = "commit" => op.b = b0 /\ Batch(s, Q, b0, end, op.changed, {})
    /\ HasOp(Q, "commit") \/ (~ HasOp(Q, "clear") /\ ~ HasOp(Q, "put"))

Rolling(s, Q, b0) ==
    /\ \E n \in s.blocks : Top(s, n) /\ n.ver = b0.ver + 1
    /\ s.journal = NoJournal
    /\ \A op \in Q : /\ op.do = "put" => op.b.ver = b0.ver
                     /\ op.do = "undo" => op.ver = b0.ver + 1

\* jr holds pages of a file of content c.
Saves(jr, c) == jr.size = Len(c) /\ \A p \in DOMAIN jr.page : jr.page[p] = c[p + 1]

\* While a journal waits the file is what was committed, and the journal has it.
Journaling(s, Q, end) ==
    HasOp(Q, "journal") =>
        /\ s.journal = NoJournal /\ \E n \in s.blocks : Top(s, n) /\ Plain(s, n, end)
        /\ \A op \in Q : op.do = "journal" => Saves(op.jr, end)

\* jr is in the store, or will be before any page.
JournalIs(s, Q, jr) ==
    IF HasOp(Q, "journal") THEN \A op \in Q : op.do = "journal" => op.jr = jr
    ELSE s.journal = jr

Saved(jr, p) == p \in DOMAIN jr.page \/ jr.size <= p

\* The file is written through; what the journal holds is what may change.
Direct(s, Q, jr, b0, meta, c, w) ==
    /\ JournalIs(s, Q, jr)
    /\ jr # NoJournal /\ jr.size \in Nat /\ jr.size <= b0.size
    /\ \E n \in s.blocks : Top(s, n) /\ n.ver = b0.ver /\ (n = b0 \/ HasOp(Q, "block0") \/ meta)
    /\ Block0Is(b0, c) /\ PutsOf(Q, b0.ver, c, w)
    /\ \A p \in w : Saved(jr, p)
    /\ \A op \in Q : op.do = "put" => Saved(jr, op.b.pos)
    /\ \A p \in 1 .. Len(c) - 1 : PutAt(Q, p) \/ At(s, b0.ver, p, c[p + 1])

Through(s, Q, b0, meta, c, w, end) ==
    Journaling(s, Q, end) /\ \E jr : Direct(s, Q, jr, b0, meta, c, w)

\* A cut file has the size it is to have, and its page 0 comes back.
Cuts(Q, b0) ==
    \A op \in Q : op.do = "truncate" =>
        /\ op.b.ver = b0.ver /\ op.b.size = b0.size /\ (b0.size > 0 => op.b.val # Blank)
        /\ op.b = b0 \/ HasOp(Q, "block0")

\* The journal is played back.
Replaying(s, Q, b0) ==
    /\ s.journal # NoJournal /\ s.journal.size = b0.size
    /\ b0.size > 0 => b0.val = s.journal.page[0]
    /\ \E n \in s.blocks : /\ Top(s, n) /\ n.ver = b0.ver
                           /\ n = b0 \/ HasOp(Q, "truncate") \/ HasOp(Q, "block0")
    /\ Cuts(Q, b0)
    /\ \A op \in Q : op.do = "put" => /\ op.b.ver = b0.ver
                                      /\ op.b.pos \in DOMAIN s.journal.page
                                      /\ op.b.val = s.journal.page[op.b.pos]
    /\ \A p \in DOMAIN s.journal.page \ {0} : PutAt(Q, p) \/ At(s, b0.ver, p, s.journal.page[p])

\* A journal goes when the file is what was committed.
Unlinking(s, Q, end) ==
    HasOp(Q, "unlink") => s.journal # NoJournal /\ \E n \in s.blocks : Top(s, n) /\ Plain(s, n, end)

\* a runs before the functions R.
Ahead(a, R) == \A op \in R : Before(a, op)

LEMMA First ==
  ASSUME NEW a, NEW R, Ahead(a, R)
  PROVE  /\ \A k : HasOp({a} \cup R, k) <=> a.do = k \/ HasOp(R, k)
         /\ \A p : PutAt({a} \cup R, p) <=> (a.do = "put" /\ a.b.pos = p) \/ PutAt(R, p)
         /\ a.do # "purge" => ~ HasOp(R, "clear") /\ ~ HasOp(R, "journal") /\ ~ HasOp(R, "truncate")
                              /\ ~ HasOp(R, "unlink")
         /\ a.do = "commit" => ~ HasOp(R, "put") /\ ~ HasOp(R, "commit")
<1>1. \A k : HasOp({a} \cup R, k) <=> a.do = k \/ HasOp(R, k)
  BY DEF HasOp
<1>2. \A p : PutAt({a} \cup R, p) <=> (a.do = "put" /\ a.b.pos = p) \/ PutAt(R, p)
  BY DEF PutAt
<1>3. a.do # "purge" => ~ HasOp(R, "clear") /\ ~ HasOp(R, "journal") /\ ~ HasOp(R, "truncate")
                        /\ ~ HasOp(R, "unlink")
  BY DEF Ahead, Before, Rank, HasOp
<1>4. a.do = "commit" => ~ HasOp(R, "put") /\ ~ HasOp(R, "commit")
  BY DEF Ahead, Before, Rank, HasOp
<1> QED
  BY <1>1, <1>2, <1>3, <1>4

LEMMA GoodTop ==
  ASSUME NEW t \in Nat, NEW s, IsStore(s, t), Intact(s), NEW n, Top(s, n)
  PROVE  Good(s, n, t)
<1>1. s # EmptyStore
  BY DEF Top, EmptyStore
<1>2. PICK m \in s.blocks : Top(s, m) /\ Sound(s, m)
  BY <1>1 DEF Intact
<1>3. m = n
  BY <1>2, TopUnique
<1> QED
  BY <1>2, <1>3 DEF Good

LEMMA GoodIntact ==
  ASSUME NEW t, NEW s, NEW n, Good(s, n, t)
  PROVE  Intact(s) /\ IsStore(s, t) /\ Top(s, n)
BY DEF Good, Intact, Top

LEMMA BatchPut ==
  ASSUME NEW t \in Nat, NEW s, IsStore(s, t), Intact(s), NEW a, NEW R, Ahead(a, R), IsOp(a, t),
         a.do = "put", NEW b0, IsBlock(b0, t), NEW c, NEW changed, NEW w,
         Batch(s, {a} \cup R, b0, c, changed, w)
  PROVE  /\ Intact(Put(s, a.b)) /\ Keeps(s, Put(s, a.b))
         /\ Batch(Put(s, a.b), R, b0, c, changed, w)
<1> DEFINE u == Put(s, a.b)
           Q == {a} \cup R
<1>1. PICK n \in s.blocks : Top(s, n) /\ n.ver = b0.ver + 1
  BY DEF Batch
<1>2. Good(s, n, t)
  BY <1>1, GoodTop
<1>3. /\ IsBlock(a.b, t) /\ a.b.pos # 0 /\ a.b.pos \in Nat /\ b0.ver \in Int /\ n.ver \in Int
      /\ a.b.ver = b0.ver /\ a.b.ver = n.ver - 1
      /\ a.b.pos < Len(c) /\ a.b.val = c[a.b.pos + 1]
  <2>1. a.b.ver = b0.ver /\ a.b.pos < Len(c) /\ a.b.val = c[a.b.pos + 1]
    BY DEF Batch, PutsOf
  <2>2. IsBlock(a.b, t) /\ a.b.pos # 0
    BY DEF IsOp
  <2>3. IsBlock(n, t)
    BY DEF IsStore
  <2>4. a.b.pos \in Nat /\ b0.ver \in Int /\ n.ver \in Int
    BY <2>2, <2>3 DEF IsBlock, Page
  <2>5. a.b.ver = n.ver - 1
    BY <1>1, <2>1, <2>4
  <2> QED
    BY <2>1, <2>2, <2>4, <2>5
<1>4. /\ Good(u, n, t)
      /\ u.journal = s.journal
      /\ At(u, a.b.ver, a.b.pos, a.b.val)
      /\ \A f, p, v : p # a.b.pos /\ At(s, f, p, v) => At(u, f, p, v)
      /\ a.b \in u.blocks
      /\ \A x \in s.blocks : \E y \in u.blocks : y.pos = x.pos /\ y.ver = x.ver
  BY <1>2, <1>3, PutPage
<1>5. Keeps(s, u)
  BY <1>2, <1>3, PutKeeps
<1>6. /\ ~ HasOp(Q, "clear") /\ ~ HasOp(R, "clear")
      /\ \A p : PutAt(Q, p) <=> p = a.b.pos \/ PutAt(R, p)
  BY First
<1>7. Intact(u) /\ Top(u, n)
  BY <1>4, GoodIntact
<1> HIDE DEF u
<1>8. \E m \in u.blocks : Top(u, m) /\ m.ver = b0.ver + 1
  BY <1>1, <1>7 DEF Top
<1>9. u.journal = NoJournal /\ Block0Is(b0, c) /\ PutsOf(R, b0.ver, c, w)
  BY <1>4 DEF Batch, PutsOf
<1>10. ASSUME NEW p \in 1 .. Len(c) - 1
       PROVE  PutAt(R, p) \/ At(u, IF HasOp(R, "clear") THEN b0.ver + 1 ELSE b0.ver, p, c[p + 1])
  <2>1. PutAt(Q, p) \/ At(s, b0.ver, p, c[p + 1])
    BY <1>6 DEF Batch
  <2>2. CASE p = a.b.pos
    BY <1>3, <1>4, <1>6, <2>2
  <2>3. CASE p # a.b.pos
    BY <1>4, <1>6, <2>1, <2>3
  <2> QED
    BY <2>2, <2>3
<1>11. ASSUME NEW p \in changed \ {0}
       PROVE  \/ PutAt(R, p)
              \/ ~ HasOp(R, "clear") /\ \E b \in u.blocks : b.pos = p /\ b.ver = b0.ver
  <2>1. PutAt(Q, p) \/ \E b \in s.blocks : b.pos = p /\ b.ver = b0.ver
    BY <1>6 DEF Batch
  <2>2. CASE p = a.b.pos
    BY <1>3, <1>4, <1>6, <2>2
  <2>3. CASE p # a.b.pos
    <3>1. CASE PutAt(Q, p)
      BY <1>6, <2>3, <3>1
    <3>2. ASSUME NEW b \in s.blocks, b.pos = p, b.ver = b0.ver
          PROVE  \E y \in u.blocks : y.pos = p /\ y.ver = b0.ver
      BY <1>4, <3>2
    <3> QED
      BY <1>6, <2>1, <3>1, <3>2
  <2> QED
    BY <2>2, <2>3
<1>12. Batch(u, R, b0, c, changed, w)
  BY <1>8, <1>9, <1>10, <1>11 DEF Batch
<1> QED
  BY <1>5, <1>7, <1>12 DEF u

LEMMA BatchClear ==
  ASSUME NEW t \in Nat, NEW s, IsStore(s, t), Intact(s), NEW a, NEW R, Ahead(a, R),
         a.do = "clear", NEW f, IsBlock(f.b0, t), NEW c, NEW changed, NEW w,
         Batch(s, {a} \cup R, f.b0, c, changed, w)
  PROVE  /\ Intact(ClearAbandoned(s, f)) /\ Keeps(s, ClearAbandoned(s, f))
         /\ Batch(ClearAbandoned(s, f), R, f.b0, c, changed, w)
<1> DEFINE u == ClearAbandoned(s, f)
           Q == {a} \cup R
           b0 == f.b0
<1>1. PICK n \in s.blocks : Top(s, n) /\ n.ver = b0.ver + 1
  BY DEF Batch
<1>2. Good(s, n, t)
  BY <1>1, GoodTop
<1>3. n.ver \in Int /\ b0.ver \in Int
  BY <1>1 DEF IsStore, IsBlock
<1>4. /\ Good(u, n, t) /\ u.journal = s.journal /\ Keeps(s, u)
      /\ \A p, v : At(s, n.ver, p, v) => At(u, n.ver - 1, p, v)
  <2>1. f.b0.ver = n.ver - 1
    BY <1>1, <1>3
  <2>2. Good(ClearAbandoned(s, f), n, t)
    BY <1>2, <2>1, ClearKeeps, ZenonT(40)
  <2>5. ClearAbandoned(s, f).journal = s.journal
    BY ClearIs DEF IsStore
  <2>3. Keeps(s, ClearAbandoned(s, f))
    BY <1>2, <2>1, ClearKeeps, ZenonT(40)
  <2>4. \A p, v : At(s, n.ver, p, v) => At(ClearAbandoned(s, f), n.ver - 1, p, v)
    BY <1>2, <2>1, ClearKeeps, ZenonT(40)
  <2> QED
    BY <2>2, <2>3, <2>4, <2>5
<1>5. /\ HasOp(Q, "clear") /\ ~ HasOp(R, "clear") /\ \A p : PutAt(Q, p) <=> PutAt(R, p)
  BY First
<1>6. Intact(u) /\ Top(u, n)
  BY <1>4, GoodIntact
<1> HIDE DEF u, b0
<1>7. \E m \in u.blocks : Top(u, m) /\ m.ver = b0.ver + 1
  BY <1>1, <1>6 DEF Top
<1>8. u.journal = NoJournal /\ Block0Is(b0, c) /\ PutsOf(R, b0.ver, c, w)
  BY <1>4 DEF Batch, PutsOf, b0
<1>9. ASSUME NEW p \in 1 .. Len(c) - 1
      PROVE  PutAt(R, p) \/ At(u, IF HasOp(R, "clear") THEN b0.ver + 1 ELSE b0.ver, p, c[p + 1])
  <2>1. PutAt(R, p) \/ At(s, b0.ver + 1, p, c[p + 1])
    BY <1>5 DEF Batch, b0
  <2>2. n.ver - 1 = b0.ver
    BY <1>1, <1>3
  <2> QED
    BY <1>1, <1>4, <1>5, <2>1, <2>2
<1>10. \A p \in changed \ {0} : PutAt(R, p)
  BY <1>5 DEF Batch, b0
<1>11. Batch(u, R, b0, c, changed, w)
  BY <1>7, <1>8, <1>9, <1>10 DEF Batch
<1> QED
  BY <1>4, <1>6, <1>11 DEF u, b0

\* A purge that runs in between changes nothing SQLite or the batch needs.
LEMMA PurgeAmid ==
  ASSUME NEW t \in Nat, NEW s, IsStore(s, t), Intact(s)
  PROVE  /\ Intact(Purge(s)) /\ Keeps(s, Purge(s)) /\ Purge(s).journal = s.journal
         /\ \A n : Top(s, n) =>
              /\ Top(Purge(s), n)
              /\ \A f \in Int : \A p, v : f <= n.ver /\ At(s, f, p, v) => At(Purge(s), f, p, v)
              /\ \A x \in s.blocks : x.ver < n.ver => x \in Purge(s).blocks
              /\ \A c : Plain(s, n, c) => Plain(Purge(s), n, c)
<1>1. CASE s = EmptyStore
  <2>1. s.blocks = {} /\ s.purge = NoPurge
    BY <1>1 DEF EmptyStore
  <2>2. Purge(s) = EmptyStore
    BY <1>1, <2>1 DEF Purge, EmptyStore, NoPurge
  <2> QED
    BY <1>1, <2>1, <2>2 DEF Top, Keeps
<1>2. CASE s # EmptyStore
  <2>1. PICK n \in s.blocks : Top(s, n) /\ Sound(s, n)
    BY <1>2 DEF Intact
  <2>2. Good(s, n, t)
    BY <2>1 DEF Good
  <2> DEFINE u == Purge(s)
  <2>3. /\ Good(u, n, t) /\ u.journal = s.journal /\ Keeps(s, u)
        /\ \A f \in Int : \A p, v : f <= n.ver /\ At(s, f, p, v) => At(u, f, p, v)
        /\ \A x \in s.blocks : x.ver < n.ver => x \in u.blocks
    BY <2>2, PurgeKeeps
  <2> HIDE DEF u
  <2>4. Intact(u) /\ Top(u, n)
    BY <2>3, GoodIntact
  <2>5. n.ver \in Int
    BY DEF IsStore, IsBlock
  <2>6. \A c : Plain(s, n, c) => Plain(u, n, c)
    BY <2>3, <2>5 DEF Plain
  <2>7. \A m : Top(s, m) => m = n
    BY <2>1, TopUnique
  <2>8. \A m : Top(s, m) =>
              /\ Top(u, m)
              /\ \A f \in Int : \A p, v : f <= m.ver /\ At(s, f, p, v) => At(u, f, p, v)
              /\ \A x \in s.blocks : x.ver < m.ver => x \in u.blocks
              /\ \A c : Plain(s, m, c) => Plain(u, m, c)
    <3> SUFFICES ASSUME NEW m, Top(s, m)
                 PROVE  /\ Top(u, m)
                        /\ \A f \in Int : \A p, v : f <= m.ver /\ At(s, f, p, v) => At(u, f, p, v)
                        /\ \A x \in s.blocks : x.ver < m.ver => x \in u.blocks
                        /\ \A c : Plain(s, m, c) => Plain(u, m, c)
      OBVIOUS
    <3>1. m = n
      BY <2>7
    <3> QED
      BY <2>3, <2>4, <2>6, <3>1
  <2> QED
    BY <2>3, <2>4, <2>8 DEF u
<1> QED
  BY <1>1, <1>2

LEMMA PurgeOps ==
  ASSUME NEW a, NEW R, a.do = "purge"
  PROVE  /\ \A k : k # "purge" => (HasOp({a} \cup R, k) <=> HasOp(R, k))
         /\ \A p : PutAt({a} \cup R, p) <=> PutAt(R, p)
BY DEF HasOp, PutAt

LEMMA BatchPurge ==
  ASSUME NEW t \in Nat, NEW s, IsStore(s, t), Intact(s), NEW a, NEW R, a.do = "purge",
         NEW b0, b0.ver \in Int, NEW c, NEW changed, NEW w,
         Batch(s, {a} \cup R, b0, c, changed, w)
  PROVE  Batch(Purge(s), R, b0, c, changed, w)
<1> DEFINE u == Purge(s)
           Q == {a} \cup R
           f == IF HasOp(R, "clear") THEN b0.ver + 1 ELSE b0.ver
<1>1. PICK n \in s.blocks : Top(s, n) /\ n.ver = b0.ver + 1
  BY DEF Batch
<1>2. /\ u.journal = s.journal /\ Top(u, n)
      /\ \A g \in Int : \A p, v : g <= n.ver /\ At(s, g, p, v) => At(u, g, p, v)
      /\ \A x \in s.blocks : x.ver < n.ver => x \in u.blocks
  BY <1>1, PurgeAmid
<1>3. HasOp(Q, "clear") <=> HasOp(R, "clear")
  BY PurgeOps
<1>4. \A p : PutAt(Q, p) <=> PutAt(R, p)
  BY PurgeOps
<1> HIDE DEF u
<1>5. \E m \in u.blocks : Top(u, m) /\ m.ver = b0.ver + 1
  BY <1>1, <1>2 DEF Top
<1>6. u.journal = NoJournal /\ Block0Is(b0, c) /\ PutsOf(R, b0.ver, c, w)
  BY <1>2 DEF Batch, PutsOf
<1>7. f \in Int /\ f <= n.ver
  BY <1>1
<1>8. ASSUME NEW p \in 1 .. Len(c) - 1
      PROVE  PutAt(R, p) \/ At(u, f, p, c[p + 1])
  <2>1. PutAt(R, p) \/ At(s, f, p, c[p + 1])
    BY <1>3, <1>4 DEF Batch
  <2> HIDE DEF f
  <2> QED
    BY <1>2, <1>7, <2>1
<1>9. ASSUME NEW p \in changed \ {0}
      PROVE  PutAt(R, p) \/ (~ HasOp(R, "clear") /\ \E b \in u.blocks : b.pos = p /\ b.ver = b0.ver)
  <2>1. PutAt(R, p) \/ (~ HasOp(R, "clear") /\ \E b \in s.blocks : b.pos = p /\ b.ver = b0.ver)
    BY <1>3, <1>4 DEF Batch
  <2>2. \A b \in s.blocks : b.ver = b0.ver => b \in u.blocks
    BY <1>1, <1>2
  <2> QED
    BY <2>1, <2>2
<1>10. Batch(u, R, b0, c, changed, w)
  BY <1>5, <1>6, <1>8, <1>9 DEF Batch
<1> QED
  BY <1>10 DEF u

LEMMA WrittenPurge ==
  ASSUME NEW t \in Nat, NEW s, IsStore(s, t), Intact(s), NEW a, NEW R, a.do = "purge",
         NEW b0, b0.ver \in Int, NEW end, Written(s, {a} \cup R, b0, end)
  PROVE  Written(Purge(s), R, b0, end)
<1>1. ASSUME NEW op \in R, op.do = "commit"
      PROVE  op.b = b0 /\ Batch(Purge(s), R, b0, end, op.changed, {})
  <2>1. op.b = b0 /\ Batch(s, {a} \cup R, b0, end, op.changed, {})
    BY <1>1 DEF Written
  <2> QED
    BY <2>1, BatchPurge
<1>2. HasOp(R, "commit") \/ (~ HasOp(R, "clear") /\ ~ HasOp(R, "put"))
  BY PurgeOps DEF Written
<1> QED
  BY <1>1, <1>2 DEF Written

LEMMA RollingPurge ==
  ASSUME NEW t \in Nat, NEW s, IsStore(s, t), Intact(s), NEW a, NEW R,
         NEW b0, Rolling(s, {a} \cup R, b0)
  PROVE  Rolling(Purge(s), R, b0)
<1>1. PICK n \in s.blocks : Top(s, n) /\ n.ver = b0.ver + 1
  BY DEF Rolling
<1>2. Top(Purge(s), n) /\ Purge(s).journal = s.journal
  BY <1>1, PurgeAmid
<1>3. n \in Purge(s).blocks
  BY <1>2 DEF Top
<1> QED
  BY <1>1, <1>2, <1>3 DEF Rolling

LEMMA ReadingPurge ==
  ASSUME NEW t \in Nat, NEW s, IsStore(s, t), Intact(s), NEW b0
  PROVE  /\ \A c : Reading(s, b0, c) => Reading(Purge(s), b0, c)
         /\ Hot(s, b0) => Hot(Purge(s), b0)
BY PurgeAmid DEF Reading, Hot

LEMMA JournalingPurge ==
  ASSUME NEW t \in Nat, NEW s, IsStore(s, t), Intact(s), NEW a, NEW R, a.do = "purge",
         NEW end, Journaling(s, {a} \cup R, end)
  PROVE  Journaling(Purge(s), R, end)
<1> SUFFICES ASSUME HasOp(R, "journal")
             PROVE  /\ Purge(s).journal = NoJournal
                    /\ \E n \in Purge(s).blocks : Top(Purge(s), n) /\ Plain(Purge(s), n, end)
                    /\ \A op \in R : op.do = "journal" => Saves(op.jr, end)
  BY DEF Journaling
<1>1. HasOp({a} \cup R, "journal")
  BY PurgeOps
<1>2. PICK n \in s.blocks : Top(s, n) /\ Plain(s, n, end)
  BY <1>1 DEF Journaling
<1>3. Top(Purge(s), n) /\ Plain(Purge(s), n, end) /\ Purge(s).journal = s.journal
  BY <1>2, PurgeAmid
<1>4. n \in Purge(s).blocks
  BY <1>3 DEF Top
<1> QED
  BY <1>1, <1>3, <1>4 DEF Journaling

LEMMA DirectPurge ==
  ASSUME NEW t \in Nat, NEW s, IsStore(s, t), Intact(s), NEW a, NEW R, a.do = "purge", NEW jr,
         NEW b0, b0.ver \in Int, NEW meta, NEW c, NEW w, Direct(s, {a} \cup R, jr, b0, meta, c, w)
  PROVE  Direct(Purge(s), R, jr, b0, meta, c, w)
<1> DEFINE u == Purge(s)
           Q == {a} \cup R
<1>1. PICK n \in s.blocks : Top(s, n) /\ n.ver = b0.ver /\ (n = b0 \/ HasOp(Q, "block0") \/ meta)
  BY DEF Direct
<1>2. /\ u.journal = s.journal /\ Top(u, n)
      /\ \A g \in Int : \A p, v : g <= n.ver /\ At(s, g, p, v) => At(u, g, p, v)
  BY <1>1, PurgeAmid
<1>3. (HasOp(Q, "block0") <=> HasOp(R, "block0")) /\ (HasOp(Q, "journal") <=> HasOp(R, "journal"))
  BY PurgeOps
<1>4. \A p : PutAt(Q, p) <=> PutAt(R, p)
  BY PurgeOps
<1>5. JournalIs(u, R, jr)
  BY <1>2, <1>3 DEF Direct, JournalIs
<1> HIDE DEF u
<1>6. \E m \in u.blocks : Top(u, m) /\ m.ver = b0.ver /\ (m = b0 \/ HasOp(R, "block0") \/ meta)
  BY <1>1, <1>2, <1>3 DEF Top
<1>7. Block0Is(b0, c) /\ PutsOf(R, b0.ver, c, w)
  BY DEF Direct, PutsOf
<1>8. ASSUME NEW p \in 1 .. Len(c) - 1
      PROVE  PutAt(R, p) \/ At(u, b0.ver, p, c[p + 1])
  <2>1. PutAt(R, p) \/ At(s, b0.ver, p, c[p + 1])
    BY <1>4 DEF Direct
  <2> QED
    BY <1>1, <1>2, <2>1
<1>9. Direct(u, R, jr, b0, meta, c, w)
  BY <1>5, <1>6, <1>7, <1>8 DEF Direct
<1> QED
  BY <1>9 DEF u

LEMMA ThroughPurge ==
  ASSUME NEW t \in Nat, NEW s, IsStore(s, t), Intact(s), NEW a, NEW R, a.do = "purge", NEW end,
         NEW b0, b0.ver \in Int, NEW meta, NEW c, NEW w, Through(s, {a} \cup R, b0, meta, c, w, end)
  PROVE  Through(Purge(s), R, b0, meta, c, w, end)
<1>1. PICK jr : Direct(s, {a} \cup R, jr, b0, meta, c, w)
  BY DEF Through
<1>2. Direct(Purge(s), R, jr, b0, meta, c, w)
  BY <1>1, DirectPurge
<1>3. Journaling(Purge(s), R, end)
  BY JournalingPurge DEF Through
<1> QED
  BY <1>2, <1>3 DEF Through

LEMMA ReplayingPurge ==
  ASSUME NEW t \in Nat, NEW s, IsStore(s, t), Intact(s), NEW a, NEW R, a.do = "purge",
         NEW b0, b0.ver \in Int, Replaying(s, {a} \cup R, b0)
  PROVE  Replaying(Purge(s), R, b0)
<1> DEFINE u == Purge(s)
           Q == {a} \cup R
<1>1. PICK n \in s.blocks :
        Top(s, n) /\ n.ver = b0.ver /\ (n = b0 \/ HasOp(Q, "truncate") \/ HasOp(Q, "block0"))
  BY DEF Replaying
<1>2. /\ u.journal = s.journal /\ Top(u, n)
      /\ \A g \in Int : \A p, v : g <= n.ver /\ At(s, g, p, v) => At(u, g, p, v)
  BY <1>1, PurgeAmid
<1>3. (HasOp(Q, "truncate") <=> HasOp(R, "truncate")) /\ (HasOp(Q, "block0") <=> HasOp(R, "block0"))
  BY PurgeOps
<1>4. \A p : PutAt(Q, p) <=> PutAt(R, p)
  BY PurgeOps
<1> HIDE DEF u
<1>6. \E m \in u.blocks :
        Top(u, m) /\ m.ver = b0.ver /\ (m = b0 \/ HasOp(R, "truncate") \/ HasOp(R, "block0"))
  BY <1>1, <1>2, <1>3 DEF Top
<1>7. /\ u.journal # NoJournal /\ u.journal.size = b0.size
      /\ b0.size > 0 => b0.val = u.journal.page[0]
      /\ \A op \in R : op.do = "put" => /\ op.b.ver = b0.ver
                                        /\ op.b.pos \in DOMAIN u.journal.page
                                        /\ op.b.val = u.journal.page[op.b.pos]
  BY <1>2 DEF Replaying
<1>5. Cuts(R, b0)
  BY <1>3 DEF Replaying, Cuts
<1>8. ASSUME NEW p \in DOMAIN u.journal.page \ {0}
      PROVE  PutAt(R, p) \/ At(u, b0.ver, p, u.journal.page[p])
  <2>1. PutAt(R, p) \/ At(s, b0.ver, p, s.journal.page[p])
    BY <1>2, <1>4 DEF Replaying
  <2> QED
    BY <1>1, <1>2, <2>1
<1>9. Replaying(u, R, b0)
  BY <1>5, <1>6, <1>7, <1>8 DEF Replaying
<1> QED
  BY <1>9 DEF u

LEMMA UnlinkingPurge ==
  ASSUME NEW t \in Nat, NEW s, IsStore(s, t), Intact(s), NEW a, NEW R, a.do = "purge",
         NEW end, Unlinking(s, {a} \cup R, end)
  PROVE  Unlinking(Purge(s), R, end)
<1> SUFFICES ASSUME HasOp(R, "unlink")
             PROVE  /\ Purge(s).journal # NoJournal
                    /\ \E n \in Purge(s).blocks : Top(Purge(s), n) /\ Plain(Purge(s), n, end)
  BY DEF Unlinking
<1>1. HasOp({a} \cup R, "unlink")
  BY PurgeOps
<1>2. PICK n \in s.blocks : Top(s, n) /\ Plain(s, n, end)
  BY <1>1 DEF Unlinking
<1>3. Top(Purge(s), n) /\ Plain(Purge(s), n, end) /\ Purge(s).journal = s.journal
  BY <1>2, PurgeAmid
<1>4. n \in Purge(s).blocks
  BY <1>3 DEF Top
<1> QED
  BY <1>1, <1>3, <1>4 DEF Unlinking

LEMMA WrittenPut ==
  ASSUME NEW t \in Nat, NEW s, IsStore(s, t), Intact(s), NEW a, NEW R, Ahead(a, R), IsOp(a, t),
         a.do = "put", NEW b0, IsBlock(b0, t), NEW end, Written(s, {a} \cup R, b0, end)
  PROVE  /\ Intact(Put(s, a.b)) /\ Keeps(s, Put(s, a.b))
         /\ Written(Put(s, a.b), R, b0, end)
<1>1. HasOp(R, "commit")
  BY DEF Written, HasOp
<1>2. ASSUME NEW op \in R, op.do = "commit"
      PROVE  /\ Intact(Put(s, a.b)) /\ Keeps(s, Put(s, a.b))
             /\ op.b = b0 /\ Batch(Put(s, a.b), R, b0, end, op.changed, {})
  <2>1. op.b = b0 /\ Batch(s, {a} \cup R, b0, end, op.changed, {})
    BY <1>2 DEF Written
  <2> QED
    BY <2>1, BatchPut
<1> QED
  BY <1>1, <1>2 DEF Written, HasOp

LEMMA WrittenClear ==
  ASSUME NEW t \in Nat, NEW s, IsStore(s, t), Intact(s), NEW a, NEW R, Ahead(a, R),
         a.do = "clear", NEW f, IsBlock(f.b0, t), NEW end, Written(s, {a} \cup R, f.b0, end)
  PROVE  /\ Intact(ClearAbandoned(s, f)) /\ Keeps(s, ClearAbandoned(s, f))
         /\ Written(ClearAbandoned(s, f), R, f.b0, end)
<1>1. HasOp(R, "commit")
  BY DEF Written, HasOp
<1>2. ASSUME NEW op \in R, op.do = "commit"
      PROVE  /\ Intact(ClearAbandoned(s, f)) /\ Keeps(s, ClearAbandoned(s, f))
             /\ op.b = f.b0 /\ Batch(ClearAbandoned(s, f), R, f.b0, end, op.changed, {})
  <2>1. op.b = f.b0 /\ Batch(s, {a} \cup R, f.b0, end, op.changed, {})
    BY <1>2 DEF Written
  <2> QED
    BY <2>1, BatchClear
<1> QED
  BY <1>1, <1>2 DEF Written, HasOp

LEMMA WrittenCommit ==
  ASSUME NEW t \in Nat, NEW s, IsStore(s, t), Intact(s), NEW a, NEW R, Ahead(a, R), IsOp(a, t),
         a.do = "commit", NEW b0, NEW end, Written(s, {a} \cup R, b0, end)
  PROVE  /\ Intact(CommitBatch(s, a.b, a.changed)) /\ Finds(CommitBatch(s, a.b, a.changed), end)
         /\ Written(CommitBatch(s, a.b, a.changed), R, b0, end)
<1> DEFINE Q == {a} \cup R
           u == CommitBatch(s, b0, a.changed)
<1>1. a.b = b0 /\ Batch(s, Q, b0, end, a.changed, {})
  BY DEF Written
<1>2. PICK n \in s.blocks : Top(s, n) /\ n.ver = b0.ver + 1
  BY <1>1 DEF Batch
<1>3. Good(s, n, t)
  BY <1>2, GoodTop
<1>4. IsBlock(b0, t) /\ b0.pos = 0 /\ b0.ver = n.ver - 1
  <2>1. IsBlock(b0, t) /\ b0.pos = 0
    BY <1>1 DEF IsOp
  <2> QED
    BY <1>2, <2>1 DEF IsBlock
<1>5. /\ ~ HasOp(R, "put") /\ ~ HasOp(R, "commit") /\ ~ HasOp(R, "clear")
      /\ ~ HasOp(Q, "clear") /\ \A p : ~ PutAt(Q, p)
  <2>1. ~ HasOp(R, "put") /\ ~ HasOp(R, "commit") /\ ~ HasOp(R, "clear")
    BY First
  <2>2. ~ HasOp(Q, "clear") /\ \A p : PutAt(Q, p) <=> PutAt(R, p)
    BY <2>1, First
  <2> QED
    BY <2>1, <2>2 DEF PutAt, HasOp
<1>6. /\ Len(end) = b0.size /\ (b0.size > 0 => end[1] = b0.val /\ b0.val # Blank)
      /\ s.journal = NoJournal
      /\ \A p \in 1 .. Len(end) - 1 : At(s, b0.ver, p, end[p + 1])
      /\ \A p \in a.changed \ {0} : \E x \in s.blocks : x.pos = p /\ x.ver = b0.ver
  BY <1>1, <1>5 DEF Batch, Block0Is
<1>7. Good(u, b0, t) /\ Finds(u, end)
  BY <1>3, <1>4, <1>6, CommitShows
<1>8. Intact(u)
  BY <1>7, GoodIntact
<1>9. Written(u, R, b0, end)
  BY <1>5 DEF Written, HasOp
<1> QED
  BY <1>1, <1>7, <1>8, <1>9

LEMMA RollingPut ==
  ASSUME NEW t \in Nat, NEW s, IsStore(s, t), Intact(s), NEW a, NEW R, IsOp(a, t),
         a.do = "put", NEW b0, IsBlock(b0, t), Rolling(s, {a} \cup R, b0)
  PROVE  /\ Intact(Put(s, a.b)) /\ Keeps(s, Put(s, a.b))
         /\ Rolling(Put(s, a.b), R, b0)
<1> DEFINE u == Put(s, a.b)
<1>1. PICK n \in s.blocks : Top(s, n) /\ n.ver = b0.ver + 1
  BY DEF Rolling
<1>2. Good(s, n, t)
  BY <1>1, GoodTop
<1>3. IsBlock(a.b, t) /\ a.b.pos # 0 /\ a.b.ver = n.ver - 1 /\ n.ver \in Int
  <2>1. IsBlock(a.b, t) /\ a.b.pos # 0 /\ a.b.ver = b0.ver
    BY DEF IsOp, Rolling
  <2> QED
    BY <1>1, <2>1 DEF IsBlock
<1>4. Good(u, n, t) /\ u.journal = s.journal
  BY <1>2, <1>3, PutPage
<1>5. Keeps(s, u)
  BY <1>2, <1>3, PutKeeps
<1>6. Intact(u) /\ Top(u, n)
  BY <1>4, GoodIntact
<1> HIDE DEF u
<1>7. Rolling(u, R, b0)
  BY <1>1, <1>4, <1>6 DEF Rolling, Top
<1> QED
  BY <1>5, <1>6, <1>7 DEF u

LEMMA RollingClear ==
  ASSUME NEW t \in Nat, NEW s, IsStore(s, t), Intact(s), NEW a, NEW R,
         NEW f, IsBlock(f.b0, t), Rolling(s, {a} \cup R, f.b0)
  PROVE  /\ Intact(ClearAbandoned(s, f)) /\ Keeps(s, ClearAbandoned(s, f))
         /\ Rolling(ClearAbandoned(s, f), R, f.b0)
<1> DEFINE u == ClearAbandoned(s, f)
<1>1. PICK n \in s.blocks : Top(s, n) /\ n.ver = f.b0.ver + 1
  BY DEF Rolling
<1>2. Good(s, n, t)
  BY <1>1, GoodTop
<1>3. f.b0.ver = n.ver - 1
  BY <1>1 DEF IsBlock
<1>4. Good(u, n, t) /\ u.journal = s.journal /\ Keeps(s, u)
  BY <1>2, <1>3, ClearKeeps
<1>5. Intact(u) /\ Top(u, n)
  BY <1>4, GoodIntact
<1> HIDE DEF u
<1>6. Rolling(u, R, f.b0)
  BY <1>1, <1>4, <1>5 DEF Rolling, Top
<1> QED
  BY <1>4, <1>5, <1>6 DEF u

LEMMA JournalWritten ==
  ASSUME NEW t \in Nat, NEW s, IsStore(s, t), Intact(s), NEW a, NEW R, Ahead(a, R), IsOp(a, t),
         a.do = "journal", NEW b0, NEW meta, NEW c, NEW w, NEW end,
         Through(s, {a} \cup R, b0, meta, c, w, end)
  PROVE  /\ Intact([s EXCEPT !.journal = a.jr]) /\ Finds([s EXCEPT !.journal = a.jr], end)
         /\ Through([s EXCEPT !.journal = a.jr], R, b0, meta, c, w, end)
<1> DEFINE u == [s EXCEPT !.journal = a.jr]
           Q == {a} \cup R
<1>1. HasOp(Q, "journal") /\ ~ HasOp(R, "journal") /\ (HasOp(Q, "block0") <=> HasOp(R, "block0"))
      /\ \A p : PutAt(Q, p) <=> PutAt(R, p)
  BY First
<1>2. PICK jr : Direct(s, Q, jr, b0, meta, c, w)
  BY DEF Through
<1>3. jr = a.jr
  BY <1>1, <1>2 DEF Direct, JournalIs
<1>4. s.journal = NoJournal /\ Saves(a.jr, end)
  BY <1>1 DEF Through, Journaling
<1>5. PICK n \in s.blocks : Top(s, n) /\ Plain(s, n, end)
  BY <1>1 DEF Through, Journaling
<1>6. Good(s, n, t) /\ Finds(s, end) /\ IsJournal(a.jr, t)
  BY <1>4, <1>5, GoodTop DEF Finds, IsOp
<1>7. Good(u, n, t) /\ u.journal = a.jr /\ Finds(u, end)
  BY <1>4, <1>6, JournalKeeps DEF Saves
<1>8. Intact(u)
  BY <1>7, GoodIntact
<1>9. u = [blocks |-> s.blocks, purge |-> s.purge, journal |-> a.jr]
  BY SetFields DEF IsStore
<1>10. u.blocks = s.blocks
  BY <1>9
<1> HIDE DEF u
<1>11. \A f, p, v : At(s, f, p, v) => At(u, f, p, v)
  BY <1>10 DEF At
<1>12. \E m \in u.blocks : Top(u, m) /\ m.ver = b0.ver /\ (m = b0 \/ HasOp(R, "block0") \/ meta)
  BY <1>1, <1>2, <1>10 DEF Direct, Top
<1>13. PutsOf(R, b0.ver, c, w) /\ \A op \in R : op.do = "put" => Saved(jr, op.b.pos)
  BY <1>2 DEF Direct, PutsOf
<1>14. \A p \in 1 .. Len(c) - 1 : PutAt(R, p) \/ At(u, b0.ver, p, c[p + 1])
  BY <1>1, <1>2, <1>11 DEF Direct
<1>15. JournalIs(u, R, jr)
  BY <1>1, <1>3, <1>7 DEF JournalIs
<1>16. Direct(u, R, jr, b0, meta, c, w)
  BY <1>2, <1>12, <1>13, <1>14, <1>15 DEF Direct
<1>17. Through(u, R, b0, meta, c, w, end)
  BY <1>1, <1>16 DEF Through, Journaling
<1> QED
  BY <1>7, <1>8, <1>17 DEF u

\* A page or block 0 is put when no journal waits any more.
LEMMA DirectPut ==
  ASSUME NEW t \in Nat, NEW s, IsStore(s, t), Intact(s), NEW a, NEW R, Ahead(a, R), IsOp(a, t),
         a.do = "put", NEW b0, IsBlock(b0, t), NEW meta, NEW c, NEW w, NEW jr,
         Direct(s, {a} \cup R, jr, b0, meta, c, w)
  PROVE  /\ Intact(Put(s, a.b)) /\ Keeps(s, Put(s, a.b))
         /\ Direct(Put(s, a.b), R, jr, b0, meta, c, w) /\ ~ HasOp(R, "journal")
<1> DEFINE u == Put(s, a.b)
           Q == {a} \cup R
<1>1. PICK n \in s.blocks : Top(s, n) /\ n.ver = b0.ver /\ (n = b0 \/ HasOp(Q, "block0") \/ meta)
  BY DEF Direct
<1>0. ~ HasOp(Q, "journal") /\ ~ HasOp(R, "journal")
  BY First
<1>2. Good(s, n, t) /\ s.journal = jr
  BY <1>0, <1>1, GoodTop DEF Direct, JournalIs
<1>3. /\ IsBlock(a.b, t) /\ a.b.pos # 0 /\ a.b.ver = n.ver /\ a.b.ver = b0.ver
      /\ a.b.pos < Len(c) /\ a.b.val = c[a.b.pos + 1] /\ Saved(jr, a.b.pos)
  <2>1. IsBlock(a.b, t) /\ a.b.pos # 0
    BY DEF IsOp
  <2>2. a.b.ver = b0.ver /\ a.b.pos < Len(c) /\ a.b.val = c[a.b.pos + 1] /\ Saved(jr, a.b.pos)
    BY DEF Direct, PutsOf
  <2> QED
    BY <1>1, <2>1, <2>2
<1>4. /\ Good(u, n, t)
      /\ u.journal = s.journal
      /\ At(u, a.b.ver, a.b.pos, a.b.val)
      /\ \A f, p, v : p # a.b.pos /\ At(s, f, p, v) => At(u, f, p, v)
  <2>1. IsBlock(a.b, t) /\ a.b.pos # 0 /\ a.b.ver \in {n.ver - 1, n.ver}
    BY <1>3
  <2>2. Good(u, n, t)
    BY <1>2, <2>1, PutPage, Zenon
  <2>5. u.journal = s.journal
    BY <1>2, <2>1, PutPage
  <2>3. At(u, a.b.ver, a.b.pos, a.b.val)
    BY <1>2, <2>1, PutPage, Zenon
  <2>4. \A f, p, v : p # a.b.pos /\ At(s, f, p, v) => At(u, f, p, v)
    BY <1>2, <2>1, PutPage, Zenon
  <2> QED
    BY <2>2, <2>3, <2>4, <2>5
<1>5. s.journal # NoJournal /\ IsJournal(s.journal, t)
  BY <1>2 DEF Direct, IsStore
<1>6. ~ Needed(s, n, a.b.pos)
  BY <1>2, <1>3, <1>5 DEF Needed, Saved, IsJournal
<1>7. Keeps(s, u)
  BY <1>2, <1>3, <1>6, PutKeeps
<1>8. Intact(u) /\ Top(u, n)
  BY <1>4, GoodIntact
<1>9. /\ HasOp(Q, "block0") <=> HasOp(R, "block0")
      /\ \A p : PutAt(Q, p) <=> p = a.b.pos \/ PutAt(R, p)
  BY First
<1> HIDE DEF u
<1>10. JournalIs(u, R, jr)
  BY <1>0, <1>2, <1>4 DEF JournalIs
<1>11. \E m \in u.blocks : Top(u, m) /\ m.ver = b0.ver /\ (m = b0 \/ HasOp(R, "block0") \/ meta)
  BY <1>1, <1>8, <1>9 DEF Top
<1>12. Block0Is(b0, c) /\ PutsOf(R, b0.ver, c, w)
  BY DEF Direct, PutsOf
<1>13. ASSUME NEW p \in 1 .. Len(c) - 1
       PROVE  PutAt(R, p) \/ At(u, b0.ver, p, c[p + 1])
  <2>1. PutAt(Q, p) \/ At(s, b0.ver, p, c[p + 1])
    BY DEF Direct
  <2>2. CASE p = a.b.pos
    BY <1>3, <1>4, <2>2
  <2>3. CASE p # a.b.pos
    BY <1>4, <1>9, <2>1, <2>3
  <2> QED
    BY <2>2, <2>3
<1>14. Direct(u, R, jr, b0, meta, c, w)
  BY <1>10, <1>11, <1>12, <1>13 DEF Direct
<1> QED
  BY <1>0, <1>7, <1>8, <1>14 DEF u

LEMMA DirectBlock0 ==
  ASSUME NEW t \in Nat, NEW s, IsStore(s, t), Intact(s), NEW a, NEW R, Ahead(a, R), a.do = "block0",
         NEW b0, IsBlock(b0, t), b0.pos = 0, NEW meta, NEW c, NEW w, NEW jr,
         Direct(s, {a} \cup R, jr, b0, meta, c, w)
  PROVE  /\ Intact(Put(s, b0)) /\ Keeps(s, Put(s, b0))
         /\ Direct(Put(s, b0), R, jr, b0, meta, c, w) /\ ~ HasOp(R, "journal")
<1> DEFINE u == Put(s, b0)
           Q == {a} \cup R
<1>1. PICK n \in s.blocks : Top(s, n) /\ n.ver = b0.ver /\ (n = b0 \/ HasOp(Q, "block0") \/ meta)
  BY DEF Direct
<1>0. ~ HasOp(Q, "journal") /\ ~ HasOp(R, "journal")
  BY First
<1>2. Good(s, n, t) /\ s.journal = jr
  BY <1>0, <1>1, GoodTop DEF Direct, JournalIs
<1>3. s.journal # NoJournal /\ s.journal.size <= b0.size /\ Block0Is(b0, c)
  BY <1>2 DEF Direct
<1>4. b0.size > 0 => b0.val # Blank
  BY <1>3 DEF Block0Is
<1>5. /\ Good(u, b0, t)
      /\ u.journal = s.journal
      /\ Keeps(s, u)
      /\ \A f, p, v : p # 0 /\ At(s, f, p, v) => At(u, f, p, v)
  BY <1>1, <1>2, <1>3, <1>4, Block0Keeps
<1>6. Intact(u) /\ Top(u, b0)
  BY <1>5, GoodIntact
<1>7. \A p : PutAt(Q, p) <=> PutAt(R, p)
  BY DEF PutAt
<1> HIDE DEF u
<1>10. JournalIs(u, R, jr)
  BY <1>0, <1>2, <1>5 DEF JournalIs
<1>11. \E m \in u.blocks : Top(u, m) /\ m.ver = b0.ver /\ (m = b0 \/ HasOp(R, "block0") \/ meta)
  BY <1>6 DEF Top
<1>12. Block0Is(b0, c) /\ PutsOf(R, b0.ver, c, w)
  BY DEF Direct, PutsOf
<1>13. ASSUME NEW p \in 1 .. Len(c) - 1
       PROVE  PutAt(R, p) \/ At(u, b0.ver, p, c[p + 1])
  <2>1. PutAt(R, p) \/ At(s, b0.ver, p, c[p + 1])
    BY <1>7 DEF Direct
  <2> QED
    BY <1>5, <2>1
<1>14. Direct(u, R, jr, b0, meta, c, w)
  BY <1>10, <1>11, <1>12, <1>13 DEF Direct
<1> QED
  BY <1>0, <1>5, <1>6, <1>14 DEF u

LEMMA ThroughPut ==
  ASSUME NEW t \in Nat, NEW s, IsStore(s, t), Intact(s), NEW a, NEW R, Ahead(a, R), IsOp(a, t),
         NEW b0, IsBlock(b0, t), b0.pos = 0, NEW meta, NEW c, NEW w, NEW end, NEW b,
         (a.do = "put" /\ b = a.b) \/ (a.do = "block0" /\ b = b0),
         Through(s, {a} \cup R, b0, meta, c, w, end)
  PROVE  /\ Intact(Put(s, b)) /\ Keeps(s, Put(s, b))
         /\ Through(Put(s, b), R, b0, meta, c, w, end)
<1>1. PICK jr : Direct(s, {a} \cup R, jr, b0, meta, c, w)
  BY DEF Through
<1>2. CASE a.do = "put" /\ b = a.b
  <2>1. /\ Intact(Put(s, b)) /\ Keeps(s, Put(s, b))
        /\ Direct(Put(s, b), R, jr, b0, meta, c, w) /\ ~ HasOp(R, "journal")
    BY <1>1, <1>2, DirectPut
  <2> QED
    BY <2>1 DEF Through, Journaling
<1>3. CASE a.do = "block0" /\ b = b0
  <2>1. /\ Intact(Put(s, b)) /\ Keeps(s, Put(s, b))
        /\ Direct(Put(s, b), R, jr, b0, meta, c, w) /\ ~ HasOp(R, "journal")
    BY <1>1, <1>3, DirectBlock0
  <2> QED
    BY <2>1 DEF Through, Journaling
<1> QED
  BY <1>2, <1>3

LEMMA ReplayingTruncate ==
  ASSUME NEW t \in Nat, NEW s, IsStore(s, t), Intact(s), NEW a, NEW R, Ahead(a, R), IsOp(a, t),
         a.do = "truncate", NEW b0, b0.pos = 0, IsBlock(b0, t), Replaying(s, {a} \cup R, b0)
  PROVE  /\ Intact(Truncate(s, a.b)) /\ Keeps(s, Truncate(s, a.b))
         /\ Replaying(Truncate(s, a.b), R, b0)
<1> DEFINE b == a.b
           u == Truncate(s, b)
           Q == {a} \cup R
<1>1. PICK n \in s.blocks : Top(s, n) /\ n.ver = b0.ver
  BY DEF Replaying
<1>2. Good(s, n, t)
  BY <1>1, GoodTop
<1>3. s.journal # NoJournal /\ b0.size = s.journal.size
  BY DEF Replaying
<1>4. /\ IsBlock(b, t) /\ b.pos = 0 /\ b.ver = b0.ver /\ b.size = b0.size
      /\ b.size > 0 => b.val # Blank
      /\ b = b0 \/ HasOp(Q, "block0")
  BY DEF Replaying, Cuts, IsOp
<1> HIDE DEF b
<1>5. /\ Good(u, b, t)
      /\ u.journal = s.journal
      /\ Keeps(s, u)
      /\ \A p, v : p \in 1 .. b.size - 1 /\ At(s, b.ver, p, v) => At(u, b.ver, p, v)
  <2>1. s.journal # NoJournal /\ b.ver = n.ver /\ b.size = s.journal.size
    BY <1>1, <1>3, <1>4
  <2>5. Good(u, b, t)
    BY <1>2, <1>4, <2>1, TruncateKeeps, ZenonT(40)
  <2>6. u.journal = s.journal
    BY <1>2, <1>4, <2>1, TruncateKeeps, ZenonT(40)
  <2>3. Keeps(s, u)
    BY <1>2, <1>4, <2>1, TruncateKeeps, ZenonT(40)
  <2>4. \A p, v : p \in 1 .. b.size - 1 /\ At(s, b.ver, p, v) => At(u, b.ver, p, v)
    BY <1>2, <1>4, <2>1, TruncateKeeps, ZenonT(40)
  <2> QED
    BY <2>3, <2>4, <2>5, <2>6
<1>6. Intact(u) /\ Top(u, b)
  BY <1>5, GoodIntact
<1>7. (\A p : PutAt(Q, p) <=> PutAt(R, p)) /\ (HasOp(Q, "block0") <=> HasOp(R, "block0"))
      /\ ~ HasOp(R, "truncate")
  BY First
<1>8. IsJournal(s.journal, t)
  BY <1>3 DEF IsStore
<1> HIDE DEF u
<1>9. \E m \in u.blocks :
        Top(u, m) /\ m.ver = b0.ver /\ (m = b0 \/ HasOp(R, "truncate") \/ HasOp(R, "block0"))
  BY <1>4, <1>6, <1>7 DEF Top
<1>10. /\ u.journal # NoJournal /\ u.journal.size = b0.size
       /\ b0.size > 0 => b0.val = u.journal.page[0]
       /\ \A op \in R : op.do = "put" => /\ op.b.ver = b0.ver
                                         /\ op.b.pos \in DOMAIN u.journal.page
                                         /\ op.b.val = u.journal.page[op.b.pos]
  BY <1>3, <1>5 DEF Replaying
<1>11. Cuts(R, b0)
  BY <1>7 DEF Cuts, HasOp
<1>12. ASSUME NEW p \in DOMAIN u.journal.page \ {0}
       PROVE  PutAt(R, p) \/ At(u, b0.ver, p, u.journal.page[p])
  <2>1. PutAt(R, p) \/ At(s, b0.ver, p, s.journal.page[p])
    BY <1>5, <1>7 DEF Replaying
  <2>2. p \in 1 .. b.size - 1
    BY <1>3, <1>4, <1>5, <1>8 DEF IsJournal, Page
  <2> QED
    BY <1>4, <1>5, <2>1, <2>2
<1>13. Replaying(u, R, b0)
  BY <1>9, <1>10, <1>11, <1>12 DEF Replaying
<1> QED
  BY <1>5, <1>6, <1>13 DEF u, b

LEMMA ReplayingBlock0 ==
  ASSUME NEW t \in Nat, NEW s, IsStore(s, t), Intact(s), NEW a, NEW R, Ahead(a, R),
         a.do = "block0", NEW b0, b0.pos = 0, IsBlock(b0, t), Replaying(s, {a} \cup R, b0)
  PROVE  /\ Intact(Put(s, b0)) /\ Keeps(s, Put(s, b0))
         /\ Replaying(Put(s, b0), R, b0)
<1> DEFINE u == Put(s, b0)
           Q == {a} \cup R
<1>1. PICK n \in s.blocks : Top(s, n) /\ n.ver = b0.ver
  BY DEF Replaying
<1>2. Good(s, n, t)
  BY <1>1, GoodTop
<1>3. s.journal # NoJournal /\ b0.size = s.journal.size
  BY DEF Replaying
<1>4. b0.size > 0 => b0.val # Blank
  BY <1>2, <1>3 DEF Replaying, Good, Sound
<1>5. b0.size \in Nat
  BY DEF IsBlock
<1>6. /\ Good(u, b0, t)
      /\ u.journal = s.journal
      /\ Keeps(s, u)
      /\ \A f, p, v : p # 0 /\ At(s, f, p, v) => At(u, f, p, v)
  <2>1. s.journal.size <= b0.size
    BY <1>3, <1>5
  <2> QED
    BY <1>1, <1>2, <1>3, <1>4, <2>1, Block0Keeps
<1>7. Intact(u) /\ Top(u, b0)
  BY <1>6, GoodIntact
<1>8. (\A p : PutAt(Q, p) <=> PutAt(R, p)) /\ ~ HasOp(R, "truncate")
  BY First
<1> HIDE DEF u
<1>9. \E m \in u.blocks :
        Top(u, m) /\ m.ver = b0.ver /\ (m = b0 \/ HasOp(R, "truncate") \/ HasOp(R, "block0"))
  BY <1>7 DEF Top
<1>10. /\ u.journal # NoJournal /\ u.journal.size = b0.size
       /\ b0.size > 0 => b0.val = u.journal.page[0]
       /\ \A op \in R : op.do = "put" => /\ op.b.ver = b0.ver
                                         /\ op.b.pos \in DOMAIN u.journal.page
                                         /\ op.b.val = u.journal.page[op.b.pos]
  BY <1>3, <1>6 DEF Replaying
<1>11. Cuts(R, b0)
  BY <1>8 DEF Cuts, HasOp
<1>12. ASSUME NEW p \in DOMAIN u.journal.page \ {0}
       PROVE  PutAt(R, p) \/ At(u, b0.ver, p, u.journal.page[p])
  BY <1>6, <1>8 DEF Replaying
<1>13. Replaying(u, R, b0)
  BY <1>9, <1>10, <1>11, <1>12 DEF Replaying
<1> QED
  BY <1>6, <1>7, <1>13 DEF u

LEMMA ReplayingPut ==
  ASSUME NEW t \in Nat, NEW s, IsStore(s, t), Intact(s), NEW a, NEW R, Ahead(a, R), IsOp(a, t),
         a.do = "put", NEW b0, IsBlock(b0, t), Replaying(s, {a} \cup R, b0)
  PROVE  /\ Intact(Put(s, a.b)) /\ Keeps(s, Put(s, a.b))
         /\ Replaying(Put(s, a.b), R, b0)
<1> DEFINE u == Put(s, a.b)
           Q == {a} \cup R
<1>1. PICK n \in s.blocks :
        Top(s, n) /\ n.ver = b0.ver /\ (n = b0 \/ HasOp(Q, "truncate") \/ HasOp(Q, "block0"))
  BY DEF Replaying
<1>2. Good(s, n, t)
  BY <1>1, GoodTop
<1>3. /\ IsBlock(a.b, t) /\ a.b.pos # 0 /\ a.b.ver = n.ver /\ a.b.ver = b0.ver
      /\ a.b.pos \in DOMAIN s.journal.page /\ a.b.val = s.journal.page[a.b.pos]
      /\ a.b.ver \in {n.ver - 1, n.ver}
  <2>1. IsBlock(a.b, t) /\ a.b.pos # 0
    BY DEF IsOp
  <2>2. /\ a.b.ver = b0.ver
        /\ a.b.pos \in DOMAIN s.journal.page /\ a.b.val = s.journal.page[a.b.pos]
    BY DEF Replaying
  <2> QED
    BY <1>1, <2>1, <2>2
<1>4. /\ Good(u, n, t)
      /\ u.journal = s.journal
      /\ At(u, a.b.ver, a.b.pos, a.b.val)
      /\ \A f, p, v : p # a.b.pos /\ At(s, f, p, v) => At(u, f, p, v)
  <2>1. IsBlock(a.b, t) /\ a.b.pos # 0 /\ a.b.ver \in {n.ver - 1, n.ver}
    BY <1>3
  <2>2. Good(u, n, t)
    BY <1>2, <2>1, PutPage, Zenon
  <2>5. u.journal = s.journal
    BY <1>2, <2>1, PutPage
  <2>3. At(u, a.b.ver, a.b.pos, a.b.val)
    BY <1>2, <2>1, PutPage, Zenon
  <2>4. \A f, p, v : p # a.b.pos /\ At(s, f, p, v) => At(u, f, p, v)
    BY <1>2, <2>1, PutPage, Zenon
  <2> QED
    BY <2>2, <2>3, <2>4, <2>5
<1>5. ~ Needed(s, n, a.b.pos)
  BY <1>3 DEF Needed, Replaying
<1>6. Keeps(s, u)
  BY <1>2, <1>3, <1>5, PutKeeps
<1>7. Intact(u) /\ Top(u, n)
  BY <1>4, GoodIntact
<1>8. /\ HasOp(Q, "truncate") <=> HasOp(R, "truncate")
      /\ HasOp(Q, "block0") <=> HasOp(R, "block0")
      /\ \A p : PutAt(Q, p) <=> p = a.b.pos \/ PutAt(R, p)
  BY First
<1> HIDE DEF u
<1>9. \E m \in u.blocks :
        Top(u, m) /\ m.ver = b0.ver /\ (m = b0 \/ HasOp(R, "truncate") \/ HasOp(R, "block0"))
  BY <1>1, <1>7, <1>8 DEF Top
<1>10. /\ u.journal # NoJournal /\ u.journal.size = b0.size
       /\ b0.size > 0 => b0.val = u.journal.page[0]
       /\ \A op \in R : op.do = "put" => /\ op.b.ver = b0.ver
                                         /\ op.b.pos \in DOMAIN u.journal.page
                                         /\ op.b.val = u.journal.page[op.b.pos]
  BY <1>4 DEF Replaying
<1>11. ASSUME NEW p \in DOMAIN u.journal.page \ {0}
       PROVE  PutAt(R, p) \/ At(u, b0.ver, p, u.journal.page[p])
  <2>1. PutAt(Q, p) \/ At(s, b0.ver, p, s.journal.page[p])
    BY <1>4 DEF Replaying
  <2>2. CASE p = a.b.pos
    BY <1>3, <1>4, <2>2
  <2>3. CASE p # a.b.pos
    BY <1>4, <1>8, <2>1, <2>3
  <2> QED
    BY <2>2, <2>3
<1>12. Cuts(R, b0)
  BY <1>8 DEF Replaying, Cuts
<1>13. Replaying(u, R, b0)
  BY <1>9, <1>10, <1>11, <1>12 DEF Replaying
<1> QED
  BY <1>6, <1>7, <1>13 DEF u

LEMMA Unlinked ==
  ASSUME NEW t \in Nat, NEW s, IsStore(s, t), Intact(s), NEW a, NEW R,
         a.do = "unlink", NEW end, Unlinking(s, {a} \cup R, end)
  PROVE  /\ Intact([s EXCEPT !.journal = NoJournal]) /\ Finds([s EXCEPT !.journal = NoJournal], end)
<1>1. HasOp({a} \cup R, "unlink")
  BY DEF HasOp
<1>2. PICK n \in s.blocks : Top(s, n) /\ Plain(s, n, end)
  BY <1>1 DEF Unlinking
<1>3. Good(s, n, t)
  BY <1>2, GoodTop
<1>4. Good([s EXCEPT !.journal = NoJournal], n, t) /\ Finds([s EXCEPT !.journal = NoJournal], end)
  BY <1>2, <1>3, UnlinkShows
<1> QED
  BY <1>4, GoodIntact

\* Neither a purge nor the end of sync()'s wait is one of them.
SameOps(Q, R) == \A op : op.do \notin {"purge", "sync"} => (op \in Q <=> op \in R)

LEMMA SameHas ==
  ASSUME NEW Q, NEW R, SameOps(Q, R)
  PROVE  /\ \A k : k \notin {"purge", "sync"} => (HasOp(Q, k) <=> HasOp(R, k))
         /\ \A p : PutAt(Q, p) <=> PutAt(R, p)
<1>1. ASSUME NEW k, k \notin {"purge", "sync"}
      PROVE  HasOp(Q, k) <=> HasOp(R, k)
  BY <1>1 DEF SameOps, HasOp
<1>2. ASSUME NEW p
      PROVE  PutAt(Q, p) <=> PutAt(R, p)
  BY DEF SameOps, PutAt
<1> QED
  BY <1>1, <1>2

LEMMA SameBatch ==
  ASSUME NEW Q, NEW R, SameOps(Q, R), NEW s, NEW b0, NEW c, NEW changed, NEW w,
         Batch(s, Q, b0, c, changed, w)
  PROVE  Batch(s, R, b0, c, changed, w)
<1>1. (HasOp(Q, "clear") <=> HasOp(R, "clear")) /\ \A p : PutAt(Q, p) <=> PutAt(R, p)
  BY SameHas
<1>2. PutsOf(R, b0.ver, c, w)
  BY DEF PutsOf, Batch, SameOps
<1>3. \A p \in 1 .. Len(c) - 1 :
        PutAt(R, p) \/ At(s, IF HasOp(R, "clear") THEN b0.ver + 1 ELSE b0.ver, p, c[p + 1])
  BY <1>1 DEF Batch
<1>4. \A p \in changed \ {0} :
        \/ PutAt(R, p)
        \/ ~ HasOp(R, "clear") /\ \E b \in s.blocks : b.pos = p /\ b.ver = b0.ver
  BY <1>1 DEF Batch
<1> QED
  BY <1>2, <1>3, <1>4 DEF Batch

LEMMA SameWritten ==
  ASSUME NEW Q, NEW R, SameOps(Q, R), NEW s, NEW b0, NEW end, Written(s, Q, b0, end)
  PROVE  Written(s, R, b0, end)
<1>1. ASSUME NEW op \in R, op.do = "commit"
      PROVE  op.b = b0 /\ Batch(s, R, b0, end, op.changed, {})
  <2>1. op \in Q
    BY <1>1 DEF SameOps
  <2>2. op.b = b0 /\ Batch(s, Q, b0, end, op.changed, {})
    BY <1>1, <2>1 DEF Written
  <2> QED
    BY <2>2, SameBatch
<1>2. HasOp(R, "commit") \/ (~ HasOp(R, "clear") /\ ~ HasOp(R, "put"))
  BY SameHas DEF Written
<1> QED
  BY <1>1, <1>2 DEF Written

LEMMA SameRolling ==
  ASSUME NEW Q, NEW R, SameOps(Q, R), NEW s, NEW b0, Rolling(s, Q, b0)
  PROVE  Rolling(s, R, b0)
BY DEF Rolling, SameOps

LEMMA SameJournaling ==
  ASSUME NEW Q, NEW R, SameOps(Q, R), NEW s, NEW end, Journaling(s, Q, end)
  PROVE  Journaling(s, R, end)
<1>1. HasOp(Q, "journal") <=> HasOp(R, "journal")
  BY SameHas
<1>2. (\A op \in Q : op.do = "journal" => Saves(op.jr, end))
      <=> (\A op \in R : op.do = "journal" => Saves(op.jr, end))
  BY DEF SameOps
<1> QED
  BY <1>1, <1>2 DEF Journaling

LEMMA SameDirect ==
  ASSUME NEW Q, NEW R, SameOps(Q, R), NEW s, NEW jr, NEW b0, NEW meta, NEW c, NEW w,
         Direct(s, Q, jr, b0, meta, c, w)
  PROVE  Direct(s, R, jr, b0, meta, c, w)
<1>1. /\ HasOp(Q, "block0") <=> HasOp(R, "block0")
      /\ HasOp(Q, "journal") <=> HasOp(R, "journal")
      /\ \A p : PutAt(Q, p) <=> PutAt(R, p)
  BY SameHas
<1>2. PutsOf(R, b0.ver, c, w)
  BY DEF PutsOf, Direct, SameOps
<1>3. \A op \in R : op.do = "put" => Saved(jr, op.b.pos)
  BY DEF Direct, SameOps
<1>4. \E n \in s.blocks : Top(s, n) /\ n.ver = b0.ver /\ (n = b0 \/ HasOp(R, "block0") \/ meta)
  BY <1>1 DEF Direct
<1>5. \A p \in 1 .. Len(c) - 1 : PutAt(R, p) \/ At(s, b0.ver, p, c[p + 1])
  BY <1>1 DEF Direct
<1>6. JournalIs(s, R, jr)
  BY <1>1 DEF Direct, JournalIs, SameOps
<1> QED
  BY <1>2, <1>3, <1>4, <1>5, <1>6 DEF Direct

LEMMA SameThrough ==
  ASSUME NEW Q, NEW R, SameOps(Q, R), NEW s, NEW b0, NEW meta, NEW c, NEW w, NEW end,
         Through(s, Q, b0, meta, c, w, end)
  PROVE  Through(s, R, b0, meta, c, w, end)
<1>1. PICK jr : Direct(s, Q, jr, b0, meta, c, w)
  BY DEF Through
<1>2. Direct(s, R, jr, b0, meta, c, w)
  BY <1>1, SameDirect
<1>3. Journaling(s, R, end)
  BY SameJournaling DEF Through
<1> QED
  BY <1>2, <1>3 DEF Through

LEMMA SameReplaying ==
  ASSUME NEW Q, NEW R, SameOps(Q, R), NEW s, NEW b0, Replaying(s, Q, b0)
  PROVE  Replaying(s, R, b0)
<1>1. /\ HasOp(Q, "truncate") <=> HasOp(R, "truncate")
      /\ HasOp(Q, "block0") <=> HasOp(R, "block0")
      /\ \A p : PutAt(Q, p) <=> PutAt(R, p)
  BY SameHas
<1>2. \A op \in R : op.do = "put" => /\ op.b.ver = b0.ver
                                     /\ op.b.pos \in DOMAIN s.journal.page
                                     /\ op.b.val = s.journal.page[op.b.pos]
  BY DEF Replaying, SameOps
<1>3. \E n \in s.blocks :
        Top(s, n) /\ n.ver = b0.ver /\ (n = b0 \/ HasOp(R, "truncate") \/ HasOp(R, "block0"))
  BY <1>1 DEF Replaying
<1>4. \A p \in DOMAIN s.journal.page \ {0} : PutAt(R, p) \/ At(s, b0.ver, p, s.journal.page[p])
  BY <1>1 DEF Replaying
<1>5. Cuts(R, b0)
  BY <1>1 DEF Replaying, Cuts, SameOps
<1> QED
  BY <1>2, <1>3, <1>4, <1>5 DEF Replaying

--------------------------------------------------------------------------------
(* The invariant, as long as nothing was lost.                                *)

\* The change counter in page 0.
Stamp(c) == IF c = << >> THEN 0 ELSE c[1]

Current == hist[Len(hist)]

Ordered == \A i, j \in 1 .. Len(hist) : i < j => Stamp(hist[i]) < Stamp(hist[j])

\* What a reload would find, and what is in the queue for it to find later.
OnDisk ==
    \E i, j \in 1 .. Len(hist) :
        /\ i <= j /\ Finds(disk, hist[i]) /\ Finds(image, hist[j])
        /\ \/ j = Len(hist)
           \/ j = Len(hist) - 1 /\ (HasOp(Ops(runs), "commit") \/ HasOp(Ops(runs), "unlink"))

Stamps ==
    /\ phase \in {"batch", "plain", "flushing"} => Stamp(Current) < txn
    /\ phase \in {"batch", "plain"} => 0 \in todo \/ (cache # << >> /\ cache[1] = txn)
    /\ phase = "flushing" => cache # << >> /\ cache[1] = txn

InPhase ==
    /\ phase = "locked" => Reading(image, file.b0, cache) /\ cache = Current
    /\ phase = "hot" => Hot(image, file.b0)
    /\ phase = "batch" => Batch(image, Ops(runs), file.b0, cache, file.changed, todo)
    /\ phase \in {"written", "syncing"} => Written(image, Ops(runs), file.b0, Current)
    /\ phase = "rolling" => Rolling(image, Ops(runs), file.b0)
    /\ phase = "plain" => Through(image, Ops(runs), file.b0, file.meta, cache, todo, Current)
    /\ phase = "flushing" => Through(image, Ops(runs), file.b0, FALSE, cache, {}, Current)
    /\ phase = "replaying" => Replaying(image, Ops(runs), file.b0)

Leaving == Unlinking(image, Ops(runs), Current)

Whole == Ordered /\ OnDisk /\ Stamps /\ InPhase /\ Leaving /\ Intact(disk) /\ Intact(image)

LEMMA KindsIn ==
  ASSUME Queue
  PROVE  \A k : HasOp(Ops(runs), k) => KindOK(phase, k)
BY DEF Queue, HasOp

LEMMA HasLast ==
  ASSUME Types
  PROVE  /\ hist \in Seq(Content) /\ Len(hist) \in Nat /\ Len(hist) >= 1
         /\ Len(hist) \in 1 .. Len(hist)
         /\ IsContent(Current, txn) /\ txn \in Nat
<1>1. hist \in Seq(Content) /\ acked \in 1 .. Len(hist)
  BY DEF Types
<1>2. Len(hist) \in Nat /\ Len(hist) >= 1
  BY <1>1
<1>3. Len(hist) \in 1 .. Len(hist)
  BY <1>2
<1>4. IsContent(Current, txn)
  BY <1>3 DEF Types, Current
<1>5. txn \in Nat
  BY DEF Types, Opened
<1> QED
  BY <1>1, <1>2, <1>3, <1>4, <1>5

\* Nothing in the queue changes what a reload would find: it is the last commit.
LEMMA FindsLast ==
  ASSUME Types, OnDisk, ~ HasOp(Ops(runs), "commit"), ~ HasOp(Ops(runs), "unlink")
  PROVE  Finds(image, Current)
BY DEF OnDisk, Current

LEMMA NoneFinish ==
  ASSUME Queue, phase \in {"locked", "hot", "batch", "rolling", "plain", "flushing", "replaying"}
  PROVE  ~ HasOp(Ops(runs), "commit") /\ ~ HasOp(Ops(runs), "unlink")
BY KindsIn DEF KindOK, Waiting

LEMMA OpsOf ==
  ASSUME NEW S, NEW r \in Seq(S), NEW T, NEW q \in Seq(T)
  PROVE  Ops(r \o q) = Ops(r) \cup Ops(q)
<1>1. /\ Len(r \o q) = Len(r) + Len(q) /\ Len(r) \in Nat /\ Len(q) \in Nat
      /\ \A i \in 1 .. Len(r) : (r \o q)[i] = r[i]
      /\ \A i \in 1 .. Len(q) : (r \o q)[Len(r) + i] = q[i]
  <2>1. r \in Seq(S \cup T) /\ q \in Seq(S \cup T)
    OBVIOUS
  <2> QED
    BY <2>1
<1>2. ASSUME NEW x \in Ops(r \o q)
      PROVE  x \in Ops(r) \cup Ops(q)
  <2>1. PICK i \in 1 .. Len(r \o q) : x = (r \o q)[i]
    BY DEF Ops
  <2>2. CASE i <= Len(r)
    BY <1>1, <2>1, <2>2 DEF Ops
  <2>3. CASE i > Len(r)
    <3>1. i - Len(r) \in 1 .. Len(q) /\ i = Len(r) + (i - Len(r))
      BY <1>1, <2>1, <2>3
    <3>2. x = q[i - Len(r)]
      BY <1>1, <2>1, <3>1
    <3> QED
      BY <3>1, <3>2 DEF Ops
  <2> QED
    BY <1>1, <2>1, <2>2, <2>3
<1>3. ASSUME NEW x \in Ops(r)
      PROVE  x \in Ops(r \o q)
  <2>1. PICK i \in 1 .. Len(r) : x = r[i]
    BY DEF Ops
  <2>2. i \in 1 .. Len(r \o q) /\ x = (r \o q)[i]
    BY <1>1, <2>1
  <2> QED
    BY <2>2 DEF Ops
<1>4. ASSUME NEW x \in Ops(q)
      PROVE  x \in Ops(r \o q)
  <2>1. PICK i \in 1 .. Len(q) : x = q[i]
    BY DEF Ops
  <2>2. Len(r) + i \in 1 .. Len(r \o q) /\ x = (r \o q)[Len(r) + i]
    BY <1>1, <2>1
  <2> QED
    BY <2>2 DEF Ops
<1> QED
  BY <1>2, <1>3, <1>4

\* What SQLite just queued, one function or two.
LEMMA QueuedOne ==
  ASSUME Queue, NEW a, runs' = runs \o <<a>>
  PROVE  /\ Ops(runs)' = Ops(runs) \cup {a}
         /\ \A k : HasOp(Ops(runs)', k) <=> HasOp(Ops(runs), k) \/ a.do = k
         /\ \A p : PutAt(Ops(runs)', p) <=> PutAt(Ops(runs), p) \/ (a.do = "put" /\ a.b.pos = p)
<1>1. runs \in Seq(Ops(runs)) /\ <<a>> \in Seq({a})
  BY DEF Queue, Lined
<1>2. Ops(runs \o <<a>>) = Ops(runs) \cup {a}
  <2>1. Ops(runs \o <<a>>) = Ops(runs) \cup Ops(<<a>>)
    BY <1>1, OpsOf
  <2> QED
    BY <2>1, OneOp
<1>3. Ops(runs)' = Ops(runs) \cup {a}
  BY <1>2 DEF Ops
<1> QED
  BY <1>3 DEF HasOp, PutAt

LEMMA QueuedTwo ==
  ASSUME Queue, NEW a, NEW b, Before(a, b), runs' = runs \o <<a, b>>
  PROVE  /\ Ops(runs)' = Ops(runs) \cup {a, b}
         /\ \A k : HasOp(Ops(runs)', k) <=> HasOp(Ops(runs), k) \/ a.do = k \/ b.do = k
         /\ a.do # "put" /\ b.do # "put" => \A p : PutAt(Ops(runs)', p) <=> PutAt(Ops(runs), p)
<1>1. runs \in Seq(Ops(runs)) /\ <<a, b>> \in Seq({a, b})
  BY DEF Queue, Lined
<1>2. Ops(runs \o <<a, b>>) = Ops(runs) \cup {a, b}
  <2>1. Ops(runs \o <<a, b>>) = Ops(runs) \cup Ops(<<a, b>>)
    BY <1>1, OpsOf
  <2> QED
    BY <2>1, TwoOps
<1>3. Ops(runs)' = Ops(runs) \cup {a, b}
  BY <1>2 DEF Ops
<1> QED
  BY <1>3 DEF HasOp, PutAt

LEMMA Settled ==
  ASSUME Whole, UNCHANGED <<disk, image, hist>>,
         HasOp(Ops(runs)', "commit") <=> HasOp(Ops(runs), "commit"),
         HasOp(Ops(runs)', "unlink") <=> HasOp(Ops(runs), "unlink"),
         Stamps', InPhase'
  PROVE  Whole'
<1>1. Current' = Current
  BY DEF Current
<1>2. Ordered'
  BY DEF Whole, Ordered
<1>3. OnDisk'
  BY DEF Whole, OnDisk
<1>4. Leaving'
  BY <1>1 DEF Whole, Leaving, Unlinking
<1>5. Intact(disk)' /\ Intact(image)'
  BY DEF Whole
<1> QED
  BY <1>2, <1>3, <1>4, <1>5 DEF Whole

LEMMA BatchBegins ==
  ASSUME NEW t \in Nat, NEW s, IsStore(s, t), Intact(s), NEW b0, IsBlock(b0, t),
         NEW c, Reading(s, b0, c),
         NEW g, g.ver = b0.ver - 1, g.size = b0.size, g.val = b0.val,
         NEW Q, HasOp(Q, "clear"), ~ HasOp(Q, "put"), NEW w
  PROVE  Batch(s, Q, g, c, {}, w)
<1>1. Top(s, b0) /\ s.journal = NoJournal /\ Plain(s, b0, c)
  BY DEF Reading
<1>2. Good(s, b0, t) /\ b0.ver \in Int /\ g.ver + 1 = b0.ver
  BY <1>1, GoodTop DEF IsBlock
<1>3. b0 \in s.blocks /\ (b0.size > 0 => b0.val # Blank)
  BY <1>1, <1>2 DEF Top, Good, Sound
<1>4. Block0Is(g, c)
  BY <1>1, <1>3 DEF Block0Is, Plain
<1>5. PutsOf(Q, g.ver, c, w)
  BY DEF PutsOf, HasOp
<1>6. \A p \in 1 .. Len(c) - 1 : At(s, g.ver + 1, p, c[p + 1])
  BY <1>1, <1>2 DEF Plain
<1> QED
  BY <1>1, <1>2, <1>3, <1>4, <1>5, <1>6 DEF Batch

\* A journal that waits is what lets the pages be written.
LEMMA ThroughBegins ==
  ASSUME NEW t \in Nat, NEW s, IsStore(s, t), Intact(s), NEW b0, NEW c, Reading(s, b0, c),
         NEW Q, ~ HasOp(Q, "put"), HasOp(Q, "journal"), NEW jr,
         \A op \in Q : op.do = "journal" => op.jr = jr,
         Saves(jr, c), jr # NoJournal, NEW w, \A p \in w : Saved(jr, p), NEW meta
  PROVE  Through(s, Q, b0, meta, c, w, c)
<1>1. Top(s, b0) /\ Plain(s, b0, c) /\ s.journal = NoJournal
  BY DEF Reading
<1>2. Good(s, b0, t) /\ b0 \in s.blocks
  BY <1>1, GoodTop DEF Top
<1>3. IsBlock(b0, t)
  BY <1>2 DEF IsStore
<1>4. Block0Is(b0, c)
  BY <1>1, <1>2, <1>3 DEF Block0Is, Plain, Good, Sound
<1>5. jr.size = b0.size /\ b0.size \in Nat
  BY <1>3, <1>4 DEF Saves, Block0Is, IsBlock
<1>6. \A p \in 1 .. Len(c) - 1 : At(s, b0.ver, p, c[p + 1])
  BY <1>1 DEF Plain
<1>7. PutsOf(Q, b0.ver, c, w) /\ \A op \in Q : op.do = "put" => Saved(jr, op.b.pos)
  BY DEF PutsOf, HasOp
<1>8. JournalIs(s, Q, jr)
  BY DEF JournalIs
<1>9. jr.size \in Nat /\ jr.size <= b0.size
  BY <1>5
<1>10. Direct(s, Q, jr, b0, meta, c, w)
  BY <1>1, <1>2, <1>4, <1>6, <1>7, <1>8, <1>9 DEF Direct
<1>11. Journaling(s, Q, c)
  BY <1>1, <1>2 DEF Journaling
<1> QED
  BY <1>10, <1>11 DEF Through

\* One page more is written: p of value v.
OnePage(Q, R, b0, b1, c, d, p, v, w) ==
    /\ Len(c) \in Nat /\ p \in Nat /\ p <= Len(c) /\ (p # 0 => Len(c) > 0) /\ v # Blank
    /\ Len(d) = (IF Len(c) < p + 1 THEN p + 1 ELSE Len(c)) /\ d[p + 1] = v
    /\ \A i \in 1 .. Len(c) : i # p + 1 => d[i] = c[i]
    /\ b1.ver = b0.ver /\ b1.size = Len(d) /\ b1.val = IF p = 0 THEN v ELSE b0.val
    /\ \A op \in Q : op.do = "put" => op.b.pos \in Nat
    /\ \A op \in R : op.do = "put" =>
          \/ op \in Q
          \/ p # 0 /\ op.b.pos = p /\ op.b.ver = b0.ver /\ op.b.val = v
    /\ p \in w /\ Block0Is(b0, c) /\ PutsOf(Q, b0.ver, c, w)

Further(Q, R, b0, b1, c, d, p, z) ==
    /\ Block0Is(b1, d) /\ PutsOf(R, b1.ver, d, z) /\ b1.ver = b0.ver
    /\ \A q \in 1 .. Len(d) - 1 : q = p \/ (q \in 1 .. Len(c) - 1 /\ d[q + 1] = c[q + 1])
    /\ (\A q : PutAt(Q, q) => PutAt(R, q)) /\ (p # 0 => PutAt(R, p))

LEMMA PageWritten ==
  ASSUME NEW Q, NEW R, NEW b0, NEW b1, NEW c, NEW d, NEW p, NEW v, NEW w,
         OnePage(Q, R, b0, b1, c, d, p, v, w),
         \A q : PutAt(Q, q) => PutAt(R, q), p # 0 => PutAt(R, p)
  PROVE  Further(Q, R, b0, b1, c, d, p, w \ {p})
<1> USE DEF OnePage
<1>1. Block0Is(b1, d)
  <2>1. CASE p = 0
    BY <2>1 DEF Block0Is
  <2>2. CASE p # 0
    <3>1. Len(c) > 0 /\ d[1] = c[1] /\ b0.size > 0 /\ b0.val = c[1] /\ b0.val # Blank /\ b1.val = b0.val
      BY <2>2 DEF Block0Is
    <3> QED
      BY <3>1 DEF Block0Is
  <2> QED
    BY <2>1, <2>2
<1>2. ASSUME NEW op \in R, op.do = "put"
      PROVE  /\ op.b.ver = b1.ver /\ op.b.pos < Len(d) /\ op.b.val = d[op.b.pos + 1]
             /\ op.b.pos \notin w \ {p}
  <2>1. CASE op \in Q
    <3>1. /\ op.b.ver = b0.ver /\ op.b.pos < Len(c) /\ op.b.val = c[op.b.pos + 1]
          /\ op.b.pos \notin w /\ op.b.pos \in Nat
      BY <1>2, <2>1 DEF PutsOf
    <3>2. op.b.pos # p /\ op.b.pos + 1 \in 1 .. Len(c) /\ op.b.pos + 1 # p + 1 /\ op.b.pos < Len(d)
      BY <3>1
    <3> QED
      BY <3>1, <3>2
  <2>2. CASE p # 0 /\ op.b.pos = p /\ op.b.ver = b0.ver /\ op.b.val = v
    BY <2>2
  <2> QED
    BY <1>2, <2>1, <2>2
<1>3. PutsOf(R, b1.ver, d, w \ {p})
  BY <1>2 DEF PutsOf
<1>4. ASSUME NEW q \in 1 .. Len(d) - 1, q # p
      PROVE  q \in 1 .. Len(c) - 1 /\ d[q + 1] = c[q + 1]
  <2>1. q \in 1 .. Len(c) - 1
    BY <1>4
  <2>2. q + 1 \in 1 .. Len(c) /\ q + 1 # p + 1
    BY <1>4, <2>1
  <2> QED
    BY <2>1, <2>2
<1> QED
  BY <1>1, <1>3, <1>4 DEF Further

LEMMA BatchGoesOn ==
  ASSUME NEW s, NEW Q, NEW b0, NEW c, NEW changed, NEW w, Batch(s, Q, b0, c, changed, w),
         NEW p, NEW R, NEW b1, NEW d, NEW changed1, changed1 \subseteq changed \cup {p}, NEW z,
         Further(Q, R, b0, b1, c, d, p, z), HasOp(R, "clear") <=> HasOp(Q, "clear")
  PROVE  Batch(s, R, b1, d, changed1, z)
<1> USE DEF Further
<1>1. ASSUME NEW q \in 1 .. Len(d) - 1
      PROVE  PutAt(R, q) \/ At(s, IF HasOp(R, "clear") THEN b1.ver + 1 ELSE b1.ver, q, d[q + 1])
  <2>1. CASE q = p
    BY <2>1
  <2>2. CASE q \in 1 .. Len(c) - 1 /\ d[q + 1] = c[q + 1]
    BY <2>2 DEF Batch
  <2> QED
    BY <2>1, <2>2
<1>2. ASSUME NEW q \in changed1 \ {0}
      PROVE  \/ PutAt(R, q)
             \/ ~ HasOp(R, "clear") /\ \E b \in s.blocks : b.pos = q /\ b.ver = b1.ver
  <2>1. q = p \/ q \in changed \ {0}
    OBVIOUS
  <2> QED
    BY <2>1 DEF Batch
<1>3. \E n \in s.blocks : Top(s, n) /\ n.ver = b1.ver + 1
  BY DEF Batch
<1> QED
  BY <1>1, <1>2, <1>3 DEF Batch

\* The functions that save a journal are the same.
SameJournals(Q, R) == \A op : op.do = "journal" => (op \in Q <=> op \in R)

LEMMA JournalsGoOn ==
  ASSUME NEW Q, NEW R, SameJournals(Q, R), NEW s
  PROVE  /\ \A jr : JournalIs(s, Q, jr) => JournalIs(s, R, jr)
         /\ \A end : Journaling(s, Q, end) => Journaling(s, R, end)
<1>1. HasOp(Q, "journal") <=> HasOp(R, "journal")
  BY DEF SameJournals, HasOp
<1> QED
  BY <1>1 DEF SameJournals, JournalIs, Journaling

LEMMA DirectGoesOn ==
  ASSUME NEW s, NEW Q, NEW jr, NEW b0, NEW meta, NEW c, NEW w, Direct(s, Q, jr, b0, meta, c, w),
         NEW p, p \in w, NEW R, NEW b1, NEW d, NEW meta1, NEW z, z \subseteq w,
         Further(Q, R, b0, b1, c, d, p, z), SameJournals(Q, R),
         jr.size <= b1.size,
         HasOp(R, "block0") \/ meta1 \/ (b1 = b0 /\ (HasOp(Q, "block0") => HasOp(R, "block0")) /\ (meta => meta1)),
         \A op \in R : op.do = "put" => op \in Q \/ op.b.pos = p
  PROVE  Direct(s, R, jr, b1, meta1, d, z)
<1> USE DEF Further
<1>1. ASSUME NEW q \in 1 .. Len(d) - 1
      PROVE  PutAt(R, q) \/ At(s, b1.ver, q, d[q + 1])
  <2>1. CASE q = p
    BY <2>1
  <2>2. CASE q \in 1 .. Len(c) - 1 /\ d[q + 1] = c[q + 1]
    BY <2>2 DEF Direct
  <2> QED
    BY <2>1, <2>2
<1>2. \E n \in s.blocks : Top(s, n) /\ n.ver = b1.ver /\ (n = b1 \/ HasOp(R, "block0") \/ meta1)
  BY DEF Direct
<1>3. (\A q \in z : Saved(jr, q)) /\ \A op \in R : op.do = "put" => Saved(jr, op.b.pos)
  BY DEF Direct
<1>4. JournalIs(s, R, jr)
  BY JournalsGoOn DEF Direct
<1> QED
  BY <1>1, <1>2, <1>3, <1>4 DEF Direct

LEMMA BatchEnds ==
  ASSUME NEW s, NEW Q, NEW b0, NEW c, NEW changed, NEW w, Batch(s, Q, b0, c, changed, w),
         ~ HasOp(Q, "commit"), NEW a, NEW R, R = Q \cup {a}
  PROVE  /\ a.do = "commit" /\ a.b = b0 /\ a.changed = changed /\ w = {} => Written(s, R, b0, c)
         /\ a.do = "undo" /\ a.ver = b0.ver + 1 /\ ~ HasOp(Q, "undo") => Rolling(s, R, b0)
<1>1. a.do \in {"commit", "undo"} =>
        /\ HasOp(R, "clear") <=> HasOp(Q, "clear")
        /\ \A p : PutAt(R, p) <=> PutAt(Q, p)
        /\ PutsOf(R, b0.ver, c, w)
  BY DEF HasOp, PutAt, PutsOf, Batch
<1>2. ASSUME a.do = "commit", a.b = b0, a.changed = changed, w = {}
      PROVE  Written(s, R, b0, c)
  <2>1. \A op \in R : op.do = "commit" => op = a
    BY DEF HasOp
  <2>2. Batch(s, R, b0, c, changed, {})
    BY <1>1, <1>2 DEF Batch
  <2>3. HasOp(R, "commit")
    BY <1>2 DEF HasOp
  <2> QED
    BY <1>2, <2>1, <2>2, <2>3 DEF Written
<1>3. ASSUME a.do = "undo", a.ver = b0.ver + 1, ~ HasOp(Q, "undo")
      PROVE  Rolling(s, R, b0)
  <2>1. \A op \in R : op.do = "undo" => op = a
    BY <1>3 DEF HasOp
  <2>2. \A op \in R : op.do = "put" => op \in Q
    BY <1>3
  <2> QED
    BY <1>3, <2>1, <2>2 DEF Rolling, Batch, PutsOf
<1> QED
  BY <1>2, <1>3

\* SQLITE_FCNTL_SYNC puts block 0 when the file grew.
LEMMA DirectEnds ==
  ASSUME NEW s, NEW Q, NEW jr, NEW b0, NEW meta, NEW c, Direct(s, Q, jr, b0, meta, c, {}),
         NEW R, Q \subseteq R, \A op \in R : op.do = "put" => op \in Q, SameJournals(Q, R),
         meta => HasOp(R, "block0")
  PROVE  Direct(s, R, jr, b0, FALSE, c, {})
<1>1. \A p : PutAt(Q, p) => PutAt(R, p)
  BY DEF PutAt
<1>2. HasOp(Q, "block0") => HasOp(R, "block0")
  BY DEF HasOp
<1>3. \E n \in s.blocks : Top(s, n) /\ n.ver = b0.ver /\ (n = b0 \/ HasOp(R, "block0") \/ FALSE)
  BY <1>2 DEF Direct
<1>4. PutsOf(R, b0.ver, c, {}) /\ \A op \in R : op.do = "put" => Saved(jr, op.b.pos)
  BY DEF PutsOf, Direct
<1>5. \A p \in 1 .. Len(c) - 1 : PutAt(R, p) \/ At(s, b0.ver, p, c[p + 1])
  BY <1>1 DEF Direct
<1>6. JournalIs(s, R, jr)
  BY JournalsGoOn DEF Direct
<1> QED
  BY <1>3, <1>4, <1>5, <1>6 DEF Direct

LEMMA ThroughEnds ==
  ASSUME NEW s, NEW Q, NEW b0, NEW meta, NEW c, NEW end, Through(s, Q, b0, meta, c, {}, end),
         NEW R, Q \subseteq R, \A op \in R : op.do = "put" => op \in Q, SameJournals(Q, R),
         meta => HasOp(R, "block0")
  PROVE  Through(s, R, b0, FALSE, c, {}, end)
<1>1. PICK jr : Direct(s, Q, jr, b0, meta, c, {})
  BY DEF Through
<1>2. Direct(s, R, jr, b0, FALSE, c, {})
  BY <1>1, DirectEnds
<1>3. Journaling(s, R, end)
  BY JournalsGoOn DEF Through
<1> QED
  BY <1>2, <1>3 DEF Through

LEMMA ReplayBegins ==
  ASSUME NEW t \in Nat, NEW s, IsStore(s, t), Intact(s), NEW n, n.pos = 0, IsBlock(n, t), Hot(s, n),
         NEW b0, b0 = Back0(n, s.journal),
         NEW Q, ~ HasOp(Q, "truncate"), ~ HasOp(Q, "put"),
         NEW P, Played(P, n, s.journal, b0.ver), NEW R, R = Q \cup P
  PROVE  Replaying(s, R, b0)
<1> DEFINE jr == s.journal
           cut == Cut(n, jr.size)
<1>1. Top(s, n) /\ jr # NoJournal /\ n \in s.blocks
  BY DEF Hot, Top
<1>2. Good(s, n, t) /\ IsJournal(jr, t)
  BY <1>1, GoodTop DEF IsStore
<1>3. /\ jr.size \in Nat /\ n.size \in Nat /\ jr.size <= n.size /\ jr.size \in 0 .. MaxPage
      /\ n.size > 0 => n.val # Blank
      /\ jr.size > 0 => 0 \in DOMAIN jr.page
  BY <1>1, <1>2 DEF Good, Sound, IsJournal, IsBlock
<1>4. /\ b0.ver = n.ver /\ b0.size = jr.size
      /\ jr.size # 0 => b0.val = jr.page[0]
      /\ jr.size = 0 => b0 = cut
  BY <1>2, PlayedFile
<1>5. /\ cut.ver = n.ver /\ cut.size = jr.size /\ (jr.size # 0 => cut.val = n.val)
      /\ jr.size = n.size => cut = n
  BY <1>3, CutIs
<1>6. Played(P, n, jr, b0.ver) /\ R = Q \cup P
  OBVIOUS
<1> HIDE DEF jr, cut
<1>7. jr.size > 0 => HasOp(R, "block0")
  BY <1>3, <1>6 DEF Played, HasOp
<1>8. n = b0 \/ HasOp(R, "truncate") \/ HasOp(R, "block0")
  <2>1. CASE jr.size < n.size
    BY <1>6, <2>1 DEF Played, HasOp
  <2>2. CASE jr.size = n.size
    BY <1>3, <1>4, <1>5, <1>7, <2>2
  <2> QED
    BY <1>3, <2>1, <2>2
<1>9. \A x \in P : \/ x.do = "truncate" /\ x.b = cut
                  \/ x.do \in {"block0", "sync"}
                  \/ \E p \in DOMAIN jr.page \ {0} : x = WriteBack(jr, b0.ver, p)
  BY <1>6 DEF Played, Op, cut
<1>10. \A p \in DOMAIN jr.page \ {0} :
         /\ WriteBack(jr, b0.ver, p).do = "put" /\ WriteBack(jr, b0.ver, p).b.ver = b0.ver
         /\ WriteBack(jr, b0.ver, p).b.pos = p /\ WriteBack(jr, b0.ver, p).b.val = jr.page[p]
  BY DEF WriteBack, Block
<1>11. Cuts(R, b0)
  <2> SUFFICES ASSUME NEW op \in R, op.do = "truncate"
               PROVE  /\ op.b.ver = b0.ver /\ op.b.size = b0.size /\ (b0.size > 0 => op.b.val # Blank)
                      /\ op.b = b0 \/ HasOp(R, "block0")
    BY DEF Cuts
  <2>1. op.b = cut
    BY <1>6, <1>9, <1>10 DEF HasOp
  <2> QED
    BY <1>3, <1>4, <1>5, <1>7, <2>1
<1>12. \A op \in R : op.do = "put" => /\ op.b.ver = b0.ver
                                      /\ op.b.pos \in DOMAIN jr.page
                                      /\ op.b.val = jr.page[op.b.pos]
  BY <1>6, <1>9, <1>10 DEF HasOp
<1>13. ASSUME NEW p \in DOMAIN jr.page \ {0}
       PROVE  PutAt(R, p)
  <2>1. WriteBack(jr, b0.ver, p) \in R
    BY <1>6 DEF Played
  <2> QED
    BY <1>10, <2>1 DEF PutAt
<1>14. b0.size > 0 => b0.val = jr.page[0]
  BY <1>3, <1>4
<1>15. \E m \in s.blocks :
         Top(s, m) /\ m.ver = b0.ver /\ (m = b0 \/ HasOp(R, "truncate") \/ HasOp(R, "block0"))
  BY <1>1, <1>4, <1>8
<1>16. \A p \in DOMAIN jr.page \ {0} : PutAt(R, p) \/ At(s, b0.ver, p, jr.page[p])
  BY <1>13
<1>17. jr # NoJournal /\ jr.size = b0.size /\ jr = s.journal
  BY <1>1, <1>4 DEF jr
<1> QED
  BY <1>11, <1>12, <1>14, <1>15, <1>16, <1>17 DEF Replaying

LEMMA ThroughSynced ==
  ASSUME NEW s, NEW b0, NEW c, NEW end, Through(s, {}, b0, FALSE, c, {}, end)
  PROVE  s.journal # NoJournal /\ b0 \in s.blocks /\ Top(s, b0) /\ Plain(s, b0, c)
<1>1. PICK jr : Direct(s, {}, jr, b0, FALSE, c, {})
  BY DEF Through
<1>2. b0 \in s.blocks /\ Top(s, b0) /\ s.journal # NoJournal
  BY <1>1 DEF Direct, JournalIs, HasOp
<1>3. \A p \in 1 .. Len(c) - 1 : At(s, b0.ver, p, c[p + 1])
  BY <1>1 DEF Direct, PutAt
<1>4. Len(c) = b0.size /\ (b0.size > 0 => c[1] = b0.val)
  BY <1>1 DEF Direct, Block0Is
<1> QED
  BY <1>2, <1>3, <1>4 DEF Plain

LEMMA ReplaySynced ==
  ASSUME NEW t \in Nat, NEW s, IsStore(s, t), NEW b0, Replaying(s, {}, b0), NEW c, Finds(s, c)
  PROVE  s.journal # NoJournal /\ b0 \in s.blocks /\ Top(s, b0) /\ Plain(s, b0, c)
<1> DEFINE jr == s.journal
<1>1. b0 \in s.blocks /\ Top(s, b0) /\ jr # NoJournal /\ jr.size = b0.size
  BY DEF Replaying, HasOp
<1>2. IsJournal(jr, t) /\ IsBlock(b0, t)
  BY <1>1 DEF IsStore
<1>3. Replayed(s, b0, c)
  <2>1. PICK n \in s.blocks : Top(s, n) /\ Replayed(s, n, c)
    BY <1>1 DEF Finds
  <2>2. n = b0
    BY <1>1, <2>1, TopUnique
  <2> QED
    BY <2>1, <2>2
<1>4. b0.size \in Nat
  BY <1>2 DEF IsBlock
<1>5. b0.size > 0 => c[1] = b0.val
  <2>1. SUFFICES ASSUME b0.size > 0 PROVE c[1] = b0.val
    OBVIOUS
  <2>2. 0 \in DOMAIN jr.page /\ 0 \in 0 .. jr.size - 1
    BY <1>1, <1>2, <1>4, <2>1 DEF IsJournal
  <2>3. c[0 + 1] = jr.page[0]
    BY <1>3, <2>2 DEF Replayed
  <2> QED
    BY <2>1, <2>3 DEF Replaying
<1>6. ASSUME NEW p \in 1 .. b0.size - 1
      PROVE  At(s, b0.ver, p, c[p + 1])
  <2>1. p \in 0 .. jr.size - 1 /\ p # 0
    BY <1>1, <1>4
  <2>2. CASE p \in DOMAIN jr.page
    <3>1. c[p + 1] = jr.page[p]
      BY <1>3, <2>1, <2>2 DEF Replayed
    <3>2. At(s, b0.ver, p, jr.page[p])
      BY <2>1, <2>2 DEF Replaying, PutAt
    <3> QED
      BY <3>1, <3>2
  <2>3. CASE p \notin DOMAIN jr.page
    BY <1>3, <2>1, <2>3 DEF Replayed
  <2> QED
    BY <2>2, <2>3
<1>7. Len(c) = b0.size
  BY <1>1, <1>3 DEF Replayed
<1> QED
  BY <1>1, <1>5, <1>6, <1>7 DEF Plain

\* Who finds no journal reads what was found.
LEMMA Locks ==
  ASSUME NEW t \in Nat, NEW s, IsStore(s, t), Intact(s), NEW b0, Top(s, b0), s.journal = NoJournal,
         NEW c, IsContent(c, t), Finds(s, c), NEW d, d = ReadFile(s, b0)
  PROVE  Reading(s, b0, d) /\ d = c
<1>1. Good(s, b0, t) /\ b0 \in s.blocks
  BY GoodTop DEF Top
<1>2. IsBlock(b0, t) /\ (b0.size > 0 => b0.val # Blank)
  BY <1>1 DEF IsStore, Good, Sound
<1>3. Plain(s, b0, d)
  BY <1>2, ReadsPlain
<1>4. IsContent(d, t)
  BY <1>2, ReadsContent
<1>5. Finds(s, d)
  BY <1>1, <1>3 DEF Finds
<1>6. d = c
  BY <1>4, <1>5, FindsUnique
<1> QED
  BY <1>3, <1>6 DEF Reading

LEMMA StampIs ==
  ASSUME NEW t \in Nat, NEW c, IsContent(c, t)
  PROVE  Stamp(c) \in 0 .. t /\ (c # << >> => Stamp(c) = c[1])
BY DEF Stamp, IsContent

--------------------------------------------------------------------------------
(* What SQLite does.                                                          *)

LEMMA BeginStep ==
  ASSUME Params, Chained, Queue, Types, Whole, BeginAtomic
  PROVE  Whole'
<1>1. /\ phase = "locked" /\ phase' = "batch" /\ txn' = txn + 1 /\ todo' \in WriteSets
      /\ file' = [file EXCEPT !.b0.ver = @ - 1, !.batch = TRUE, !.changed = {}]
      /\ runs' = runs \o <<Op("clear")>>
      /\ UNCHANGED <<disk, image, cache, hist>>
  BY DEF BeginAtomic, Enqueue, Rest
<1>2. /\ txn \in Nat /\ IsFile(file, txn) /\ IsStore(image, txn) /\ IsContent(Current, txn)
      /\ Intact(image) /\ Reading(image, file.b0, cache) /\ cache = Current
  BY <1>1, HasLast DEF Types, Opened, Whole, InPhase
<1>3. /\ file'.b0.ver = file.b0.ver - 1 /\ file'.b0.val = file.b0.val
      /\ file'.b0.size = file.b0.size /\ file'.changed = {}
  BY <1>1, <1>2, BatchFile
<1>4. /\ Ops(runs)' = Ops(runs) \cup {Op("clear")}
      /\ \A k : HasOp(Ops(runs)', k) <=> HasOp(Ops(runs), k) \/ k = "clear"
  BY <1>1, QueuedOne DEF Op
<1>5. ~ HasOp(Ops(runs), "put")
  BY <1>1, KindsIn DEF KindOK, Waiting
<1>6. Batch(image, Ops(runs)', file'.b0, cache, {}, todo')
  <2>1. HasOp(Ops(runs)', "clear") /\ ~ HasOp(Ops(runs)', "put")
    BY <1>4, <1>5
  <2>2. IsBlock(file.b0, txn)
    BY <1>2 DEF IsFile, IsBlock
  <2> DEFINE Q == Ops(runs)'
             g == file'.b0
             w == todo'
  <2>3. HasOp(Q, "clear") /\ ~ HasOp(Q, "put") /\ g.ver = file.b0.ver - 1 /\ g.size = file.b0.size
        /\ g.val = file.b0.val
    BY <1>3, <2>1
  <2> HIDE DEF Q, g, w
  <2>4. Batch(image, Q, g, cache, {}, w)
    BY <1>2, <2>2, <2>3, BatchBegins
  <2> QED
    BY <2>4 DEF Q, g, w
<1>7. InPhase'
  BY <1>1, <1>3, <1>6 DEF InPhase
<1>8. Stamps'
  <2>1. Stamp(Current) < txn + 1
    BY <1>2, StampIs
  <2>2. 0 \in todo'
    BY <1>1 DEF WriteSets
  <2>3. Current' = Current
    BY <1>1 DEF Current
  <2> QED
    BY <1>1, <2>1, <2>2, <2>3 DEF Stamps
<1>9. \A k \in {"commit", "unlink"} : HasOp(Ops(runs)', k) <=> HasOp(Ops(runs), k)
  BY <1>4
<1> QED
  BY <1>1, <1>7, <1>8, <1>9, Settled

LEMMA SpillStep ==
  ASSUME Params, Chained, Queue, Types, Whole, Spill
  PROVE  Whole'
<1>1. /\ phase = "locked" /\ phase' = "plain" /\ txn' = txn + 1
      /\ UNCHANGED <<disk, image, file, cache, hist>>
  BY DEF Spill, Rest
<1>2. PICK w \in WriteSets :
        /\ todo' = w
        /\ LET kept == {p \in w : p < Len(cache)}
               page == [p \in kept |-> cache[p + 1]]
           IN  runs' = runs \o <<[do |-> "journal", jr |-> [size |-> Len(cache), page |-> page]]>>
  BY DEF Spill, Enqueue
<1> DEFINE kept == {p \in w : p < Len(cache)}
           page == [p \in kept |-> cache[p + 1]]
           jr == [size |-> Len(cache), page |-> page]
           a == [do |-> "journal", jr |-> jr]
<1>3. /\ txn \in Nat /\ IsFile(file, txn) /\ IsStore(image, txn) /\ IsContent(Current, txn)
      /\ Intact(image) /\ Reading(image, file.b0, cache) /\ cache = Current
  BY <1>1, HasLast DEF Types, Opened, Whole, InPhase
<1>4. Saves(jr, cache) /\ \A p \in w : Saved(jr, p)
  <2>1. w \subseteq Page /\ Len(cache) \in Nat
    BY <1>3 DEF WriteSets, IsContent
  <2>2. \A p \in w : p \in kept \/ Len(cache) <= p
    <3>1. \A p \in Page : p \in Int
      BY DEF Page
    <3> QED
      BY <2>1, <3>1
  <2> QED
    BY <2>2 DEF Saves, Saved
<1>15. jr # NoJournal
  <2>1. jr.size \in Nat
    BY <1>3 DEF IsContent
  <2> QED
    BY <2>1 DEF NoJournal
<1>5. a.do = "journal" /\ a.jr = jr
  OBVIOUS
<1>6. runs' = runs \o <<a>>
  BY <1>2
<1> HIDE DEF jr, a
<1>8. /\ Ops(runs)' = Ops(runs) \cup {a}
      /\ \A k : HasOp(Ops(runs)', k) <=> HasOp(Ops(runs), k) \/ a.do = k
  BY <1>6, QueuedOne
<1>9. ~ HasOp(Ops(runs), "journal") /\ ~ HasOp(Ops(runs), "put")
  BY <1>1, KindsIn DEF KindOK, Waiting
<1>11. Current' = Current
  BY <1>1 DEF Current
<1>10. Through(image, Ops(runs)', file.b0, file.meta, cache, w, Current)
  <2> DEFINE Q == Ops(runs)'
  <2>1. HasOp(Q, "journal") /\ ~ HasOp(Q, "put") /\ \A op \in Q : op.do = "journal" => op.jr = jr
    BY <1>5, <1>8, <1>9 DEF HasOp
  <2> HIDE DEF Q
  <2>2. Through(image, Q, file.b0, file.meta, cache, w, cache)
    BY <1>3, <1>4, <1>15, <2>1, ThroughBegins
  <2> QED
    BY <1>3, <2>2 DEF Q
<1>12. InPhase'
  BY <1>1, <1>2, <1>10, <1>11 DEF InPhase
<1>13. Stamps'
  <2>1. Stamp(Current) < txn + 1
    BY <1>3, StampIs
  <2>2. 0 \in todo'
    BY <1>2 DEF WriteSets
  <2> QED
    BY <1>1, <1>11, <2>1, <2>2 DEF Stamps
<1>14. \A k \in {"commit", "unlink"} : HasOp(Ops(runs)', k) <=> HasOp(Ops(runs), k)
  BY <1>5, <1>8
<1> QED
  BY <1>1, <1>12, <1>13, <1>14, Settled

\* What a WritePage step does, of page p.
Wrote(p, v) ==
    /\ p \in todo /\ p \in Nat /\ p \in Page /\ v = txn /\ v # Blank
    /\ Len(cache) \in Nat /\ p <= Len(cache) /\ (p # 0 => Len(cache) > 0)
    /\ Len(cache) = file.b0.size
    /\ Len(cache') = (IF Len(cache) < p + 1 THEN p + 1 ELSE Len(cache)) /\ cache'[p + 1] = v
    /\ \A i \in 1 .. Len(cache) : i # p + 1 => cache'[i] = cache[i]
    /\ file'.b0.ver = file.b0.ver /\ file'.b0.size = Len(cache') /\ file'.b0.pos = 0
    /\ file'.b0.val = (IF p = 0 THEN v ELSE file.b0.val)
    /\ file'.meta = (p # 0 /\ (file.meta \/ file.b0.size < p + 1))
    /\ file'.changed \subseteq file.changed \cup {p}
    /\ todo' = todo \ {p}
    /\ phase' = phase /\ UNCHANGED <<disk, image, hist, txn>>

LEMMA Writes ==
  ASSUME Params, Types, Stamps, WritePage
  PROVE  /\ Wrote(Min(todo), txn)
         /\ runs' = IF Min(todo) # 0
                    THEN runs \o <<[do |-> "put", b |-> Block(Min(todo), file.b0.ver, txn, 0)]>>
                    ELSE IF phase = "batch" THEN runs ELSE runs \o <<Op("block0")>>
<1> DEFINE p == Min(todo)
<1>1. /\ phase \in {"batch", "plain"} /\ todo # {} /\ todo' = todo \ {p} /\ xWrite(txn, p)
      /\ cache' = [i \in 1 .. file'.b0.size |-> IF i = p + 1 THEN txn ELSE cache[i]]
      /\ phase' = phase /\ UNCHANGED <<disk, image, hist, txn>>
  BY DEF WritePage, Rest
<1>2. /\ todo \subseteq Page /\ txn \in Nat /\ IsFile(file, txn) /\ IsContent(cache, txn)
      /\ Len(cache) = file.b0.size /\ file.batch = (phase = "batch")
      /\ \A r \in todo : \A q \in file.b0.size .. r : q \in todo
  BY <1>1 DEF Types, Opened
<1>3. todo \subseteq Nat /\ MaxPage \in Nat
  BY <1>2 DEF Page, Params
<1>4. p \in todo /\ \A x \in todo : p <= x
  BY <1>1, <1>3, MinIsThere
<1> HIDE DEF p
<1>5. p \in Page /\ p \in Nat /\ txn \in 0 .. txn
  BY <1>2, <1>3, <1>4
<1>6. /\ IsFile(file', txn)
      /\ file'.b0.pos = 0 /\ file'.b0.ver = file.b0.ver
      /\ file'.b0.size = IF file.b0.size < p + 1 THEN p + 1 ELSE file.b0.size
      /\ file'.b0.val = IF p = 0 THEN txn ELSE file.b0.val
      /\ file'.meta = (p # 0 /\ (file.meta \/ file.b0.size < p + 1))
      /\ file'.changed = IF file.batch /\ ~ (file.b0.size < p + 1) THEN file.changed \cup {p}
                         ELSE file.changed
      /\ runs' = IF p # 0
                 THEN runs \o <<[do |-> "put", b |-> Block(p, file.b0.ver, txn, 0)]>>
                 ELSE IF file.batch THEN runs ELSE runs \o <<Op("block0")>>
  BY <1>1, <1>2, <1>3, <1>5, WriteFile
<1>7. Len(cache) \in Nat
  BY <1>2 DEF IsContent
<1>8. p <= Len(cache)
  <2>1. SUFFICES ASSUME p > Len(cache) PROVE FALSE
    BY <1>5, <1>7
  <2>2. Len(cache) \in file.b0.size .. p
    BY <1>2, <1>5, <1>7, <2>1
  <2>3. Len(cache) \in todo
    BY <1>2, <1>4, <2>2
  <2> QED
    BY <1>4, <1>5, <1>7, <2>1, <2>3
<1>9. p # 0 => Len(cache) > 0
  BY <1>5, <1>7, <1>8
<1>10. txn # Blank
  <2>1. Stamp(Current) < txn
    BY <1>1 DEF Stamps
  <2>2. Stamp(Current) \in Nat
    BY StampIs, HasLast
  <2> QED
    BY <2>1, <2>2, <1>2 DEF Blank
<1>11. /\ Len(cache') = (IF Len(cache) < p + 1 THEN p + 1 ELSE Len(cache)) /\ cache'[p + 1] = txn
       /\ \A i \in 1 .. Len(cache) : i # p + 1 => cache'[i] = cache[i]
  <2> DEFINE k == file'.b0.size
  <2>1. k \in Nat /\ k = (IF Len(cache) < p + 1 THEN p + 1 ELSE Len(cache))
    BY <1>2, <1>5, <1>6, <1>7
  <2>2. cache' = [i \in 1 .. k |-> IF i = p + 1 THEN txn ELSE cache[i]]
    BY <1>1
  <2> HIDE DEF k
  <2>3. Len(cache') = k
    BY <2>1, <2>2
  <2>4. p + 1 \in 1 .. k /\ \A i \in 1 .. Len(cache) : i \in 1 .. k
    BY <1>5, <1>7, <2>1
  <2> QED
    BY <2>1, <2>2, <2>3, <2>4
<1>12. file'.b0.size = Len(cache')
  BY <1>2, <1>6, <1>11
<1>13. file'.changed \subseteq file.changed \cup {p}
  BY <1>6
<1>14. Wrote(p, txn)
  BY <1>1, <1>2, <1>4, <1>5, <1>6, <1>7, <1>8, <1>9, <1>10, <1>11, <1>12, <1>13 DEF Wrote
<1> QED
  BY <1>1, <1>2, <1>6, <1>14 DEF p

LEMMA WriteStep ==
  ASSUME Params, Chained, Queue, Types, Whole, WritePage
  PROVE  Whole'
<1> DEFINE p == Min(todo)
           Q == Ops(runs)
           R == Ops(runs)'
           c == cache
           d == cache'
<1>1. /\ Wrote(p, txn) /\ phase \in {"batch", "plain"} /\ Stamps
      /\ runs' = IF p # 0
                 THEN runs \o <<[do |-> "put", b |-> Block(p, file.b0.ver, txn, 0)]>>
                 ELSE IF phase = "batch" THEN runs ELSE runs \o <<Op("block0")>>
  BY Writes DEF Whole, WritePage
<1> HIDE DEF p
<1>2. /\ p \in todo /\ p \in Nat /\ txn # Blank
      /\ Len(c) \in Nat /\ p <= Len(c) /\ (p # 0 => Len(c) > 0) /\ Len(c) = file.b0.size
      /\ Len(d) = (IF Len(c) < p + 1 THEN p + 1 ELSE Len(c)) /\ d[p + 1] = txn
      /\ \A i \in 1 .. Len(c) : i # p + 1 => d[i] = c[i]
      /\ file'.b0.ver = file.b0.ver /\ file'.b0.size = Len(d) /\ file'.b0.pos = 0
      /\ file'.b0.val = (IF p = 0 THEN txn ELSE file.b0.val)
      /\ file'.meta = (p # 0 /\ (file.meta \/ file.b0.size < p + 1))
      /\ file'.changed \in SUBSET (file.changed \cup {p})
      /\ todo' = todo \ {p}
      /\ phase' = phase /\ UNCHANGED <<disk, image, hist, txn>>
  BY <1>1 DEF Wrote
<1> DEFINE a == [do |-> "put", b |-> Block(p, file.b0.ver, txn, 0)]
<1>3. a.do = "put" /\ a.b.pos = p /\ a.b.ver = file.b0.ver /\ a.b.val = txn
  BY DEF Block
<1>4. p # 0 => /\ R = Q \cup {a}
               /\ \A k : HasOp(R, k) <=> HasOp(Q, k) \/ k = "put"
               /\ \A q : PutAt(R, q) <=> PutAt(Q, q) \/ q = p
  <2>1. p # 0 => runs' = runs \o <<a>>
    BY <1>1
  <2> HIDE DEF a
  <2> QED
    BY <1>3, <2>1, QueuedOne
<1> HIDE DEF a
<1>5. p = 0 /\ phase = "batch" => R = Q
  BY <1>1
<1>6. p = 0 /\ phase = "plain" =>
         /\ R = Q \cup {Op("block0")}
         /\ \A k : HasOp(R, k) <=> HasOp(Q, k) \/ k = "block0"
         /\ \A q : PutAt(R, q) <=> PutAt(Q, q)
  BY <1>1, QueuedOne DEF Op
<1>7. /\ \A op \in R : op.do = "put" =>
            \/ op \in Q
            \/ p # 0 /\ op.b.pos = p /\ op.b.ver = file.b0.ver /\ op.b.val = txn
      /\ \A k \in {"clear", "commit", "unlink"} : HasOp(R, k) <=> HasOp(Q, k)
      /\ \A q : PutAt(Q, q) => PutAt(R, q)
      /\ p # 0 => PutAt(R, p)
  <2>1. CASE p # 0
    BY <1>3, <1>4, <2>1
  <2>2. CASE p = 0 /\ phase = "batch"
    BY <1>5, <2>2
  <2>3. CASE p = 0 /\ phase = "plain"
    BY <1>6, <2>3 DEF Op
  <2> QED
    BY <1>1, <2>1, <2>2, <2>3
<1>8. \A op \in Q : op.do = "put" => op.b.pos \in Nat
  BY DEF Queue, IsOp, IsBlock, Page
<1> HIDE DEF Q, R, c, d
<1>9. ASSUME Block0Is(file.b0, c), PutsOf(Q, file.b0.ver, c, todo)
      PROVE  Further(Q, R, file.b0, file'.b0, c, d, p, todo \ {p})
  <2>1. OnePage(Q, R, file.b0, file'.b0, c, d, p, txn, todo)
    BY <1>2, <1>7, <1>8, <1>9 DEF OnePage
  <2> QED
    BY <1>7, <2>1, PageWritten
<1>10. ASSUME phase = "batch"
       PROVE  InPhase'
  <2> DEFINE b0 == file.b0
             b1 == file'.b0
             z == todo'
             g == file.changed
             h == file'.changed
  <2>1. Batch(image, Q, b0, c, g, todo)
    BY <1>10 DEF Whole, InPhase, Q, c
  <2>2. Block0Is(b0, c) /\ PutsOf(Q, b0.ver, c, todo)
    BY <2>1 DEF Batch
  <2>3. Further(Q, R, b0, b1, c, d, p, z) /\ h \subseteq g \cup {p}
    BY <1>2, <1>9, <2>2
  <2> HIDE DEF b0, b1, z, g, h
  <2>4. Batch(image, R, b1, d, h, z)
    BY <1>7, <2>1, <2>3, BatchGoesOn
  <2> QED
    BY <1>2, <1>10, <2>4 DEF b1, z, h, InPhase, R, d
<1>11. ASSUME phase = "plain"
       PROVE  InPhase'
  <2> DEFINE b0 == file.b0
             b1 == file'.b0
             z == todo'
             meta == file.meta
             meta1 == file'.meta
  <2>0. Through(image, Q, b0, meta, c, todo, Current)
    BY <1>11 DEF Whole, InPhase, Q, c
  <2>1. PICK jr : Direct(image, Q, jr, b0, meta, c, todo)
    BY <2>0 DEF Through
  <2>2. Block0Is(b0, c) /\ PutsOf(Q, b0.ver, c, todo)
    BY <2>1 DEF Direct
  <2>3. Further(Q, R, b0, b1, c, d, p, z) /\ z \subseteq todo /\ p \in todo
    BY <1>2, <1>9, <2>2
  <2>4. \/ HasOp(R, "block0") \/ meta1
        \/ b1 = b0 /\ (HasOp(Q, "block0") => HasOp(R, "block0")) /\ (meta => meta1)
    <3>1. CASE p = 0
      BY <1>6, <1>11, <3>1 DEF Q, R
    <3>2. CASE p # 0 /\ file.b0.size < p + 1
      BY <1>2, <3>2
    <3>3. CASE p # 0 /\ ~ (file.b0.size < p + 1)
      <4>1. b1.size = b0.size /\ b1.val = b0.val /\ b1.ver = b0.ver /\ b1.pos = 0
        BY <1>2, <3>3
      <4>2. b0.pos = 0 /\ IsFile(file, txn)
        BY DEF Types, Opened, IsFile
      <4>3. IsFile(file', txn')
        BY TypesStep DEF Types, Opened, Next
      <4>4. b1 = b0
        <5>1. /\ b0 = [pos |-> b0.pos, ver |-> b0.ver, val |-> b0.val, size |-> b0.size]
              /\ b1 = [pos |-> b1.pos, ver |-> b1.ver, val |-> b1.val, size |-> b1.size]
          BY <4>2, <4>3 DEF IsFile
        <5> QED
          BY <4>1, <4>2, <5>1
      <4>5. meta => meta1
        BY <1>2, <3>3
      <4> QED
        BY <1>4, <3>3, <4>4, <4>5 DEF Q, R
    <3> QED
      BY <3>1, <3>2, <3>3
  <2>5. jr.size <= b1.size
    <3>1. jr.size <= b0.size /\ jr.size \in Nat
      BY <2>1 DEF Direct
    <3>2. b0.size \in Nat /\ b1.size \in Nat /\ b0.size <= b1.size
      BY <1>2
    <3> QED
      BY <3>1, <3>2
  <2> HIDE DEF b0, b1, z, meta, meta1
  <2>6. \A op \in R : op.do = "put" => op \in Q \/ op.b.pos = p
    BY <1>7
  <2>8. SameJournals(Q, R)
    <3>1. CASE p = 0
      BY <1>6, <1>11, <3>1 DEF Q, R, SameJournals, Op
    <3>2. CASE p # 0
      BY <1>3, <1>4, <3>2 DEF Q, R, SameJournals
    <3> QED
      BY <3>1, <3>2
  <2>7. Direct(image, R, jr, b1, meta1, d, z)
    BY <1>7, <2>1, <2>3, <2>4, <2>5, <2>6, <2>8, DirectGoesOn
  <2>9. Through(image, R, b1, meta1, d, z, Current)
    BY <2>0, <2>7, <2>8, JournalsGoOn DEF Through
  <2>10. Current' = Current
    BY <1>2 DEF Current
  <2> QED
    BY <1>2, <1>11, <2>9, <2>10 DEF b1, z, meta1, InPhase, R, d
<1>12. InPhase'
  BY <1>1, <1>10, <1>11
<1>13. Stamps'
  <2>1. Current' = Current
    BY <1>2 DEF Current
  <2>2. 0 \in todo \/ (c # << >> /\ c[1] = txn)
    BY <1>1 DEF Stamps, c
  <2>3. 0 \in todo' \/ (d # << >> /\ d[1] = txn)
    <3>1. Len(d) > 0
      BY <1>2
    <3>2. CASE p = 0
      BY <1>2, <3>1, <3>2
    <3>3. CASE p # 0
      <4>1. c # << >> /\ c[1] = txn => d[1] = txn
        BY <1>2, <3>3
      <4>2. 0 \in todo => 0 \in todo'
        BY <1>2, <3>3
      <4> QED
        BY <2>2, <3>1, <4>1, <4>2
    <3> QED
      BY <3>2, <3>3
  <2> QED
    BY <1>1, <1>2, <2>1, <2>3 DEF Stamps, d
<1>14. \A k \in {"commit", "unlink"} : HasOp(Ops(runs)', k) <=> HasOp(Ops(runs), k)
  BY <1>7 DEF Q, R
<1> QED
  BY <1>2, <1>12, <1>13, <1>14, Settled

LEMMA HistGrows ==
  ASSUME Types, Queue, Whole, hist' = Append(hist, cache), UNCHANGED <<disk, image>>,
         phase \in {"batch", "flushing"}, Stamp(Current) < Stamp(cache),
         HasOp(Ops(runs)', "commit") \/ HasOp(Ops(runs)', "unlink")
  PROVE  Current' = cache /\ Ordered' /\ OnDisk' /\ Intact(disk)' /\ Intact(image)'
<1>1. cache \in Content \/ cache \notin Content
  OBVIOUS
<1> DEFINE n == Len(hist)
           S == Content \cup {cache}
<1>2. /\ n \in Nat /\ n >= 1 /\ hist \in Seq(S) /\ cache \in S
      /\ \A i \in 1 .. n : IsContent(hist[i], txn)
  BY HasLast DEF Types
<1> HIDE DEF S
<1>3. /\ Len(hist') = n + 1 /\ hist'[n + 1] = cache
      /\ \A i \in 1 .. n : hist'[i] = hist[i]
  BY <1>2, AppendIs
<1>4. Current' = cache
  BY <1>3 DEF Current
<1>5. Stamp(hist[n]) < Stamp(cache) /\ Stamp(hist[n]) \in Int /\ Stamp(cache) \in Int
  <2>1. IsContent(cache, txn) /\ txn \in Nat
    BY DEF Types, Opened
  <2>2. IsContent(Current, txn)
    BY HasLast
  <2> QED
    BY <2>1, <2>2, StampIs DEF Current
<1>6. Ordered'
  <2>1. ASSUME NEW i \in 1 .. Len(hist'), NEW j \in 1 .. Len(hist'), i < j
        PROVE  Stamp(hist'[i]) < Stamp(hist'[j])
    <3>1. i \in 1 .. n /\ hist'[i] = hist[i]
      BY <1>2, <1>3, <2>1
    <3>2. CASE j \in 1 .. n
      BY <1>3, <2>1, <3>1, <3>2 DEF Whole, Ordered
    <3>3. CASE j = n + 1
      <4>1. CASE i = n
        BY <1>3, <1>5, <3>1, <3>3, <4>1
      <4>2. CASE i # n
        <5>1. n \in 1 .. n /\ i < n
          BY <1>2, <3>1, <4>2
        <5>2. Stamp(hist[i]) < Stamp(hist[n])
          BY <3>1, <5>1 DEF Whole, Ordered
        <5>3. Stamp(hist[i]) \in Int
          BY <1>2, <3>1, StampIs, HasLast
        <5> QED
          BY <1>3, <1>5, <3>1, <3>3, <5>2, <5>3
      <4> QED
        BY <4>1, <4>2
    <3> QED
      BY <1>2, <1>3, <3>2, <3>3
  <2> QED
    BY <2>1 DEF Ordered
<1>7. OnDisk'
  <2>1. ~ HasOp(Ops(runs), "commit") /\ ~ HasOp(Ops(runs), "unlink")
    BY NoneFinish
  <2>2. PICK i, j \in 1 .. n : i <= j /\ Finds(disk, hist[i]) /\ Finds(image, hist[j]) /\ j = n
    BY <2>1 DEF Whole, OnDisk
  <2>3. /\ i \in 1 .. Len(hist') /\ j \in 1 .. Len(hist') /\ j = Len(hist') - 1
        /\ Finds(disk', hist'[i]) /\ Finds(image', hist'[j])
    BY <1>2, <1>3, <2>2
  <2> QED
    BY <2>2, <2>3 DEF OnDisk
<1> QED
  BY <1>4, <1>6, <1>7 DEF Whole

LEMMA CommitStep ==
  ASSUME Params, Chained, Queue, Types, Whole, CommitAtomic
  PROVE  Whole'
<1> DEFINE a == [do |-> "commit", b |-> file.b0, changed |-> file.changed]
<1>1. /\ phase = "batch" /\ todo = {} /\ phase' = "written" /\ hist' = Append(hist, cache)
      /\ runs' = runs \o <<a>>
      /\ UNCHANGED <<disk, image, cache, todo, txn>>
  BY DEF CommitAtomic, Enqueue, Rest
<1>2. file' = [file EXCEPT !.batch = FALSE, !.changed = {}, !.meta = FALSE]
  BY DEF CommitAtomic
<1>3. file'.b0 = file.b0
  <2>1. txn \in Nat /\ IsFile(file, txn)
    BY DEF Types, Opened
  <2> QED
    BY <1>2, <2>1, EndFile
<1>4. a.do = "commit" /\ a.b = file.b0 /\ a.changed = file.changed
  OBVIOUS
<1> HIDE DEF a
<1>5. Ops(runs)' = Ops(runs) \cup {a} /\ HasOp(Ops(runs)', "commit") /\ ~ HasOp(Ops(runs)', "unlink")
  <2>1. ~ HasOp(Ops(runs), "unlink")
    BY <1>1, NoneFinish
  <2> QED
    BY <1>1, <1>4, <2>1, QueuedOne
<1>6. ~ HasOp(Ops(runs), "commit") /\ Batch(image, Ops(runs), file.b0, cache, file.changed, {})
  BY <1>1, NoneFinish DEF Whole, InPhase
<1>7. Written(image, Ops(runs)', file.b0, cache)
  <2> DEFINE R == Ops(runs)'
  <2>1. R = Ops(runs) \cup {a}
    BY <1>5
  <2> HIDE DEF R
  <2>2. Written(image, R, file.b0, cache)
    BY <1>4, <1>6, <2>1, BatchEnds
  <2> QED
    BY <2>2 DEF R
<1>8. Stamp(Current) < Stamp(cache)
  <2>1. Stamp(Current) < txn /\ cache # << >> /\ cache[1] = txn
    BY <1>1 DEF Whole, Stamps
  <2> QED
    BY <2>1 DEF Stamp
<1>9. Current' = cache /\ Ordered' /\ OnDisk' /\ Intact(disk)' /\ Intact(image)'
  BY <1>1, <1>5, <1>8, HistGrows
<1>10. InPhase'
  BY <1>1, <1>3, <1>7, <1>9 DEF InPhase
<1>11. Stamps' /\ Leaving'
  BY <1>1, <1>5 DEF Stamps, Leaving, Unlinking
<1> QED
  BY <1>9, <1>10, <1>11 DEF Whole

LEMMA RollbackStep ==
  ASSUME Params, Chained, Queue, Types, Whole, RollbackAtomic
  PROVE  Whole'
<1> DEFINE a == [do |-> "undo", ver |-> file.b0.ver + 1]
<1>1. /\ phase = "batch" /\ phase' = "rolling"
      /\ runs' = runs \o <<a>>
      /\ UNCHANGED <<disk, image, hist>>
  BY DEF RollbackAtomic, Enqueue, Rest
<1>2. file' = [file EXCEPT !.batch = FALSE, !.changed = {}, !.meta = FALSE]
  BY DEF RollbackAtomic
<1>3. file'.b0 = file.b0
  <2>1. txn \in Nat /\ IsFile(file, txn)
    BY DEF Types, Opened
  <2> QED
    BY <1>2, <2>1, EndFile
<1>4. a.do = "undo" /\ a.ver = file.b0.ver + 1
  OBVIOUS
<1> HIDE DEF a
<1>5. Ops(runs)' = Ops(runs) \cup {a} /\ \A k : HasOp(Ops(runs)', k) <=> HasOp(Ops(runs), k) \/ k = "undo"
  BY <1>1, <1>4, QueuedOne
<1>6. ~ HasOp(Ops(runs), "commit") /\ ~ HasOp(Ops(runs), "undo")
      /\ Batch(image, Ops(runs), file.b0, cache, file.changed, todo)
  BY <1>1, KindsIn DEF Whole, InPhase, KindOK, Waiting
<1>7. Rolling(image, Ops(runs)', file.b0)
  <2> DEFINE R == Ops(runs)'
  <2>1. R = Ops(runs) \cup {a}
    BY <1>5
  <2> HIDE DEF R
  <2>2. Rolling(image, R, file.b0)
    BY <1>4, <1>6, <2>1, BatchEnds
  <2> QED
    BY <2>2 DEF R
<1>10. InPhase'
  BY <1>1, <1>3, <1>7 DEF InPhase
<1>11. Stamps'
  BY <1>1 DEF Stamps
<1>12. \A k \in {"commit", "unlink"} : HasOp(Ops(runs)', k) <=> HasOp(Ops(runs), k)
  BY <1>5
<1> QED
  BY <1>1, <1>10, <1>11, <1>12, Settled

LEMMA SyncStep ==
  ASSUME Params, Chained, Queue, Types, Whole, xSync
  PROVE  Whole'
<1> DEFINE Q == Ops(runs)
           R == Ops(runs)'
<1>1. /\ \/ phase = "written" /\ phase' = "syncing"
         \/ phase = "plain" /\ phase' = "flushing" /\ todo = {}
      /\ runs' = runs \o ((IF file.meta THEN <<Op("block0")>> ELSE << >>) \o <<Op("sync")>>)
      /\ file' = [file EXCEPT !.meta = FALSE]
      /\ UNCHANGED <<disk, image, hist, cache, todo, txn>>
  BY DEF xSync, Sync, Enqueue, Rest
<1>2. file'.b0 = file.b0 /\ (phase = "written" => ~ file.meta) /\ file.meta \in BOOLEAN
  <2>1. txn \in Nat /\ IsFile(file, txn) /\ (phase = "written" => ~ file.meta)
    BY DEF Types, Opened
  <2>2. file.meta \in BOOLEAN
    BY <2>1 DEF IsFile
  <2>3. file'.b0 = file.b0
    BY <1>1, <2>1, SyncFile
  <2> QED
    BY <2>1, <2>2, <2>3
<1>3. Op("sync").do = "sync" /\ Op("block0").do = "block0"
  BY DEF Op
<1>4. CASE file.meta
  <2>1. runs' = runs \o <<Op("block0"), Op("sync")>> /\ phase = "plain"
    BY <1>1, <1>2, <1>4
  <2>2. Before(Op("block0"), Op("sync"))
    BY DEF Op, Before, Rank
  <2>3. /\ R = Q \cup {Op("block0"), Op("sync")}
        /\ \A k : HasOp(R, k) <=> HasOp(Q, k) \/ Op("block0").do = k \/ Op("sync").do = k
    BY <2>1, <2>2, QueuedTwo
  <2>4. /\ Q \subseteq R /\ (\A op \in R : op.do = "put" => op \in Q) /\ HasOp(R, "block0")
        /\ \A k \in {"commit", "unlink"} : HasOp(R, k) <=> HasOp(Q, k)
    BY <1>3, <2>3
  <2>5. Through(image, Q, file.b0, file.meta, cache, {}, Current)
    BY <1>1, <2>1 DEF Whole, InPhase
  <2>9. SameJournals(Q, R)
    BY <1>3, <2>3 DEF SameJournals
  <2> HIDE DEF Q, R
  <2>6. Through(image, R, file.b0, FALSE, cache, {}, Current)
    BY <2>4, <2>5, <2>9, ThroughEnds
  <2>7. InPhase'
    BY <1>1, <1>2, <2>1, <2>6 DEF InPhase, R, Current
  <2>8. Stamps'
    BY <1>1, <2>1 DEF Whole, Stamps, Current
  <2> QED
    BY <1>1, <2>4, <2>7, <2>8, Settled DEF Q, R
<1>5. CASE ~ file.meta
  <2>1. runs' = runs \o <<Op("sync")>>
    <3>1. << >> \o <<Op("sync")>> = <<Op("sync")>>
      OBVIOUS
    <3> QED
      BY <1>1, <1>5, <3>1
  <2>3. /\ R = Q \cup {Op("sync")}
        /\ \A k : HasOp(R, k) <=> HasOp(Q, k) \/ Op("sync").do = k
    BY <2>1, QueuedOne
  <2>4. /\ Q \subseteq R /\ (\A op \in R : op.do = "put" => op \in Q) /\ SameOps(Q, R)
        /\ \A k \in {"commit", "unlink"} : HasOp(R, k) <=> HasOp(Q, k)
    BY <1>3, <2>3 DEF SameOps
  <2>5. /\ phase = "written" => Written(image, Q, file.b0, Current)
        /\ phase = "plain" => Through(image, Q, file.b0, file.meta, cache, {}, Current)
    BY <1>1 DEF Whole, InPhase
  <2>10. SameJournals(Q, R)
    BY <1>3, <2>3 DEF SameJournals
  <2> HIDE DEF Q, R
  <2>6. phase = "plain" => Through(image, R, file.b0, FALSE, cache, {}, Current)
    <3>1. file.meta = FALSE
      BY <1>2, <1>5
    <3>2. phase = "plain" => Through(image, Q, file.b0, FALSE, cache, {}, Current)
      BY <2>5, <3>1
    <3> QED
      BY <2>4, <2>10, <3>2, ThroughEnds
  <2>7. phase = "written" => Written(image, R, file.b0, Current)
    BY <2>4, <2>5, SameWritten
  <2>8. InPhase'
    BY <1>1, <1>2, <2>6, <2>7 DEF InPhase, R, Current
  <2>9. Stamps'
    BY <1>1 DEF Whole, Stamps, Current
  <2> QED
    BY <1>1, <2>4, <2>8, <2>9, Settled DEF Q, R
<1> QED
  BY <1>2, <1>4, <1>5

LEMMA PlayStep ==
  ASSUME Params, Chained, Queue, Types, Whole, PlayBack
  PROVE  Whole'
<1> DEFINE jr == image.journal
           b0 == Back0(file.b0, jr)
           Q == Ops(runs)
           R == Ops(runs)'
<1>1. phase = "hot" /\ UNCHANGED <<disk, image, hist, todo, txn>> /\ View = image
  BY ViewIs DEF PlayBack, Rest
<1>2. /\ Hot(image, file.b0) /\ IsFile(file, txn) /\ IsStore(image, txn) /\ Intact(image) /\ txn \in Nat
  BY <1>1 DEF Whole, InPhase, Types, Opened
<1>3. jr # NoJournal /\ jr = View.journal /\ IsJournal(jr, txn)
  BY <1>1, <1>2 DEF Hot, IsStore
<1>4. IsBlock(file.b0, txn) /\ file.b0.pos = 0
  BY <1>2 DEF IsFile, IsBlock
<1>6. b0 = Back0(file.b0, jr) /\ jr = image.journal
  OBVIOUS
<1> HIDE DEF jr, b0
<1>5. IsBlock(b0, txn) /\ b0.pos = 0
  BY <1>2, <1>3, <1>4, <1>6, PlayedFile
<1>7. /\ phase' = "replaying" /\ Rewrites(file, b0, file')
      /\ Queues(runs, runs', file.b0, jr, file.meta)
  <2> HIDE DEF Q, R
  <2>0. PlayBack /\ jr = View.journal /\ jr # NoJournal /\ b0 = Back0(file.b0, jr)
    BY <1>3, <1>6
  <2>1. phase' = "replaying"
    BY <2>0, PlaysIt, Zenon
  <2>2. Rewrites(file, b0, file')
    BY <2>0, PlaysIt, Zenon
  <2>3. Queues(runs, runs', file.b0, jr, file.meta)
    BY <2>0, PlaysIt, Zenon
  <2> QED
    BY <2>1, <2>2, <2>3, Zenon
<1>8. file'.b0 = b0
  BY <1>2, <1>5, <1>7, CutFile
<1>9. PICK P : R = Q \cup P /\ Played(P, file.b0, jr, b0.ver)
  <2>1. PICK order \in SetToSeqs(DOMAIN jr.page) :
          runs' = runs \o PlayOps(file.b0, jr, file.meta, b0.ver, order)
    BY <1>6, <1>7, Zenon DEF Queues
  <2> DEFINE q == PlayOps(file.b0, jr, file.meta, b0.ver, order)
  <2>2. Lined(q) /\ Played(Ops(q), file.b0, jr, b0.ver)
    BY <1>3, PlaysBack DEF Params
  <2>3. q \in Seq(Ops(q)) /\ runs \in Seq(Ops(runs)) /\ runs' = runs \o q
    BY <2>1, <2>2 DEF Lined, Queue
  <2> HIDE DEF q
  <2>4. Ops(runs \o q) = Ops(runs) \cup Ops(q)
    BY <2>3, OpsOf
  <2> QED
    BY <2>2, <2>3, <2>4
<1>10. ~ HasOp(Q, "truncate") /\ ~ HasOp(Q, "put") /\ ~ HasOp(Q, "commit") /\ ~ HasOp(Q, "unlink")
  BY <1>1, KindsIn DEF KindOK, Waiting
<1> HIDE DEF Q, R
<1>11. Replaying(image, R, b0)
  BY <1>2, <1>4, <1>6, <1>9, <1>10, ReplayBegins
<1>12. ~ HasOp(R, "commit") /\ ~ HasOp(R, "unlink")
  <2>1. \A x \in P : x.do \notin {"commit", "unlink"}
    BY <1>9 DEF Played, WriteBack, Op
  <2> QED
    BY <1>9, <1>10, <2>1 DEF HasOp
<1>13. InPhase'
  BY <1>1, <1>7, <1>8, <1>11 DEF InPhase, R
<1>14. Stamps'
  BY <1>7 DEF Stamps
<1> QED
  BY <1>1, <1>10, <1>12, <1>13, <1>14, Settled DEF Q, R

LEMMA LockStep ==
  ASSUME Params, Chained, Queue, Types, Whole, xOpen \/ xClose \/ xLock \/ xUnlock
  PROVE  Whole'
<1>1. /\ phase' \in {"opening", "closed", "locking", "unlocked"}
      /\ UNCHANGED <<disk, image, hist>>
      /\ \/ runs' = runs
         \/ runs' = runs \o <<Op("open")>>
         \/ runs' = runs \o <<Op("reload")>>
  BY DEF xOpen, xClose, xLock, xUnlock, Rest, Enqueue
<1>2. \A k \in {"commit", "unlink"} : HasOp(Ops(runs)', k) <=> HasOp(Ops(runs), k)
  <2>1. CASE runs' = runs
    BY <2>1
  <2>2. ASSUME NEW x \in {"open", "reload"}, runs' = runs \o <<Op(x)>>
        PROVE  \A k \in {"commit", "unlink"} : HasOp(Ops(runs)', k) <=> HasOp(Ops(runs), k)
    <3>1. Op(x).do = x
      BY DEF Op
    <3>2. \A k : HasOp(Ops(runs)', k) <=> HasOp(Ops(runs), k) \/ Op(x).do = k
      BY <2>2, QueuedOne
    <3> QED
      BY <2>2, <3>1, <3>2
  <2> QED
    BY <1>1, <2>1, <2>2
<1>3. InPhase' /\ Stamps'
  BY <1>1 DEF InPhase, Stamps
<1> QED
  BY <1>1, <1>2, <1>3, Settled

--------------------------------------------------------------------------------
(* What the functions on #runChain do.                                        *)

LEMMA Taking ==
  ASSUME Queue, runs # << >>, runs' = Tail(runs)
  PROVE  /\ Ops(runs) = {runs[1]} \cup Ops(runs)'
         /\ Ahead(runs[1], Ops(runs)')
         /\ KindOK(phase, runs[1].do) /\ IsOp(runs[1], txn)
         /\ \A k : HasOp(Ops(runs), k) <=> runs[1].do = k \/ HasOp(Ops(runs)', k)
         /\ runs[1].do # "purge" => ~ HasOp(Ops(runs)', "unlink")
<1>1. Lined(runs)
  BY DEF Queue
<1>2. /\ Ops(runs) = {runs[1]} \cup Ops(Tail(runs))
      /\ \A op \in Ops(Tail(runs)) : Before(runs[1], op)
  BY <1>1, TailOps
<1>3. runs[1] \in Ops(runs)
  BY <1>2
<1>4. KindOK(phase, runs[1].do) /\ IsOp(runs[1], txn)
  BY <1>3 DEF Queue
<1>5. \A k : HasOp(Ops(runs), k) <=> runs[1].do = k \/ HasOp(Ops(Tail(runs)), k)
  BY <1>2 DEF HasOp
<1>6. runs[1].do # "purge" => ~ HasOp(Ops(Tail(runs)), "unlink")
  BY <1>2 DEF HasOp, Before, Rank
<1> QED
  BY <1>2, <1>4, <1>5, <1>6 DEF Ahead

LEMMA Moves ==
  ASSUME Whole, UNCHANGED <<disk, hist>>, Types,
         \/ Finds(image', Current)
         \/ /\ Keeps(image, image')
            /\ \A k \in {"commit", "unlink"} : HasOp(Ops(runs), k) => HasOp(Ops(runs)', k)
  PROVE  Ordered' /\ OnDisk' /\ Intact(disk)' /\ Current' = Current
<1>1. Ordered' /\ Intact(disk)' /\ Current' = Current
  BY DEF Whole, Ordered, Current
<1>2. PICK i, j \in 1 .. Len(hist) :
        /\ i <= j /\ Finds(disk, hist[i]) /\ Finds(image, hist[j])
        /\ \/ j = Len(hist)
           \/ j = Len(hist) - 1 /\ (HasOp(Ops(runs), "commit") \/ HasOp(Ops(runs), "unlink"))
  BY DEF Whole, OnDisk
<1>3. ASSUME Finds(image', Current)
      PROVE  OnDisk'
  <2>1. Len(hist) \in 1 .. Len(hist) /\ i <= Len(hist)
    BY HasLast
  <2> QED
    BY <1>2, <1>3, <2>1 DEF OnDisk, Current
<1>4. ASSUME Keeps(image, image'),
             \A k \in {"commit", "unlink"} : HasOp(Ops(runs), k) => HasOp(Ops(runs)', k)
      PROVE  OnDisk'
  <2>1. Finds(image', hist[j])
    BY <1>2, <1>4 DEF Keeps
  <2> QED
    BY <1>2, <1>4, <2>1 DEF OnDisk
<1> QED
  BY <1>1, <1>3, <1>4

LEMMA OpenStep ==
  ASSUME Params, Chained, Queue, Types, Whole, RunOpen
  PROVE  Whole'
<1>1. /\ runs # << >> /\ runs[1].do = "open" /\ runs' = Tail(runs) /\ phase' = "unlocked"
      /\ image' = IF Block0s(image) = {} THEN Put(image, NoFile.b0) ELSE image
      /\ UNCHANGED <<disk, hist>>
  BY ViewIs DEF RunOpen, Ran, NextRun
<1>3. ~ HasOp(Ops(runs)', "unlink") /\ \A k : HasOp(Ops(runs), k) <=> k = "open" \/ HasOp(Ops(runs)', k)
  BY <1>1, Taking
<1>4. Intact(image') /\ Keeps(image, image')
  <2>1. CASE Block0s(image) = {}
    <3>1. image = EmptyStore
      BY <2>1 DEF Whole, Intact, Top, Block0s
    <3>2. image' = Put(EmptyStore, NoFile.b0)
      BY <1>1, <2>1, <3>1
    <3>3. txn \in Nat /\ MaxPage \in Nat \ {0}
      BY DEF Types, Opened, Params
    <3>4. Good(image', NoFile.b0, txn) /\ Keeps(image, image')
      BY <3>1, <3>2, <3>3, OpenShows
    <3> QED
      BY <3>4, GoodIntact
  <2>2. CASE Block0s(image) # {}
    BY <1>1, <2>2 DEF Whole, Keeps
  <2> QED
    BY <2>1, <2>2
<1>5. Ordered' /\ OnDisk' /\ Intact(disk)'
  BY <1>1, <1>3, <1>4, Moves
<1>6. InPhase' /\ Stamps' /\ Leaving'
  BY <1>1, <1>3 DEF InPhase, Stamps, Leaving, Unlinking
<1> QED
  BY <1>4, <1>5, <1>6 DEF Whole

LEMMA ReloadStep ==
  ASSUME Params, Chained, Queue, Types, Whole, RunReload
  PROVE  Whole'
<1>1. /\ runs # << >> /\ runs[1].do = "reload" /\ runs' = Tail(runs)
      /\ UNCHANGED <<disk, image, hist, todo, txn>>
      /\ IF Block0s(image) = {} THEN phase' = "failed"
         ELSE /\ file' = [file EXCEPT !.b0 = Newest(Block0s(image))]
              /\ cache' = ReadFile(image, file'.b0)
              /\ phase' = IF image.journal = NoJournal THEN "locked" ELSE "hot"
  BY ViewIs DEF RunReload, NextRun, Rest
<1>2. /\ KindOK(phase, runs[1].do) /\ ~ HasOp(Ops(runs)', "unlink")
      /\ \A k : HasOp(Ops(runs), k) <=> k = "reload" \/ HasOp(Ops(runs)', k)
  BY <1>1, Taking
<1>3. \A k \in {"commit", "unlink"} : ~ HasOp(Ops(runs), k) /\ ~ HasOp(Ops(runs)', k)
  <2>1. phase = "locking"
    BY <1>1, <1>2 DEF KindOK
  <2>2. ~ HasOp(Ops(runs), "commit")
    BY <2>1, KindsIn DEF KindOK, Waiting
  <2> QED
    BY <1>2, <2>2
<1>4. txn \in Nat /\ IsFile(file, txn) /\ IsStore(image, txn) /\ Intact(image) /\ IsContent(Current, txn)
  BY HasLast DEF Types, Opened, Whole
<1>5. Finds(image, Current)
  BY <1>3, FindsLast DEF Whole
<1>6. InPhase'
  <2>1. CASE Block0s(image) = {}
    BY <1>1, <2>1 DEF InPhase
  <2>2. CASE Block0s(image) # {}
    <3> DEFINE n == Newest(Block0s(image))
    <3>1. Top(image, n)
      BY <1>4, <2>2, TopExists
    <3> HIDE DEF n
    <3>2. IsBlock(n, txn) /\ n.pos = 0
      BY <1>4, <3>1 DEF Top, IsStore
    <3>3. file'.b0 = n
      <4>1. file' = [file EXCEPT !.b0 = n]
        BY <1>1, <2>2 DEF n
      <4> QED
        BY <1>4, <3>2, <4>1, Block0File
    <3>4. cache' = ReadFile(image, n) /\ phase' = IF image.journal = NoJournal THEN "locked" ELSE "hot"
      BY <1>1, <2>2, <3>3
    <3>5. image.journal = NoJournal => Reading(image, n, cache') /\ cache' = Current
      <4> DEFINE d == cache'
      <4>1. d = ReadFile(image, n)
        BY <3>4
      <4> HIDE DEF d
      <4>2. image.journal = NoJournal => Reading(image, n, d) /\ d = Current
        BY <1>4, <1>5, <3>1, <4>1, Locks
      <4> QED
        BY <4>2 DEF d
    <3>6. Current' = Current
      BY <1>1 DEF Current
    <3> QED
      BY <1>1, <3>1, <3>3, <3>4, <3>5, <3>6 DEF InPhase, Hot
  <2> QED
    BY <2>1, <2>2
<1>7. Stamps'
  BY <1>1 DEF Stamps
<1> QED
  BY <1>1, <1>3, <1>6, <1>7, Settled

LEMMA UndoStep ==
  ASSUME Params, Chained, Queue, Types, Whole, RunUndo
  PROVE  Whole'
<1> DEFINE was == {b \in Block0s(image) : b.ver = runs[1].ver}
           n == CHOOSE b \in was : TRUE
<1>1. /\ runs # << >> /\ runs[1].do = "undo" /\ runs' = Tail(runs)
      /\ UNCHANGED <<disk, image, hist, todo, txn>>
      /\ IF was = {} THEN phase' = "failed"
         ELSE /\ file' = [file EXCEPT !.b0 = n]
              /\ cache' = ReadFile(image, file'.b0)
              /\ phase' = "locked"
  BY ViewIs DEF RunUndo, NextRun, Rest
<1>2. Ops(runs) = {runs[1]} \cup Ops(runs)' /\ KindOK(phase, runs[1].do)
  BY <1>1, Taking
<1>3. phase = "rolling"
  BY <1>1, <1>2 DEF KindOK
<1>4. \A k \in {"commit", "unlink"} : ~ HasOp(Ops(runs), k) /\ ~ HasOp(Ops(runs)', k)
  BY <1>2, <1>3, NoneFinish DEF HasOp
<1>5. txn \in Nat /\ IsFile(file, txn) /\ IsStore(image, txn) /\ Intact(image) /\ IsContent(Current, txn)
  BY HasLast DEF Types, Opened, Whole
<1>6. Finds(image, Current)
  BY <1>4, FindsLast DEF Whole
<1>7. Rolling(image, Ops(runs), file.b0)
  BY <1>3 DEF Whole, InPhase
<1>8. image.journal = NoJournal /\ \E m \in image.blocks : Top(image, m) /\ m.ver = runs[1].ver
  BY <1>1, <1>2, <1>7 DEF Rolling
<1>9. PICK m \in image.blocks : Top(image, m) /\ m.ver = runs[1].ver
  BY <1>8
<1>10. was = {m}
  BY <1>5, <1>9 DEF Top, Block0s, IsStore
<1>11. n = m
  BY <1>10
<1> HIDE DEF was, n
<1>12. IsBlock(m, txn) /\ m.pos = 0
  BY <1>5, <1>9 DEF Top, IsStore
<1>13. file' = [file EXCEPT !.b0 = m] /\ cache' = ReadFile(image, file'.b0) /\ phase' = "locked"
  BY <1>1, <1>10, <1>11
<1>14. file'.b0 = m
  BY <1>5, <1>12, <1>13, Block0File
<1>15. Reading(image, m, cache') /\ cache' = Current
  <2> DEFINE d == cache'
  <2>1. d = ReadFile(image, m)
    BY <1>13, <1>14
  <2> HIDE DEF d
  <2>2. Reading(image, m, d) /\ d = Current
    BY <1>5, <1>6, <1>8, <1>9, <2>1, Locks
  <2> QED
    BY <2>2 DEF d
<1>16. InPhase'
  <2>1. Current' = Current
    BY <1>1 DEF Current
  <2> QED
    BY <1>1, <1>13, <1>14, <1>15, <2>1 DEF InPhase
<1>17. Stamps'
  BY <1>13 DEF Stamps
<1> QED
  BY <1>1, <1>4, <1>16, <1>17, Settled

\* The queue changed by nothing but a purge or sync()'s own entry.
LEMMA SamePhase ==
  ASSUME Whole, SameOps(Ops(runs), Ops(runs)'),
         UNCHANGED <<phase, image, file, cache, todo, txn, hist>>
  PROVE  InPhase' /\ Stamps' /\ Current' = Current
         /\ \A k \in {"commit", "unlink"} : HasOp(Ops(runs)', k) <=> HasOp(Ops(runs), k)
<1> DEFINE Q == Ops(runs)
           R == Ops(runs)'
<1>1. Current' = Current
  BY DEF Current
<1>2. SameOps(Q, R)
  OBVIOUS
<1>3. /\ phase = "batch" => Batch(image, Q, file.b0, cache, file.changed, todo)
      /\ phase \in {"written", "syncing"} => Written(image, Q, file.b0, Current)
      /\ phase = "rolling" => Rolling(image, Q, file.b0)
      /\ phase = "plain" => Through(image, Q, file.b0, file.meta, cache, todo, Current)
      /\ phase = "flushing" => Through(image, Q, file.b0, FALSE, cache, {}, Current)
      /\ phase = "replaying" => Replaying(image, Q, file.b0)
  BY DEF Whole, InPhase
<1> HIDE DEF Q, R
<1>4. phase = "batch" => Batch(image, R, file.b0, cache, file.changed, todo)
  BY <1>2, <1>3, SameBatch
<1>5. phase \in {"written", "syncing"} => Written(image, R, file.b0, Current)
  BY <1>2, <1>3, SameWritten
<1>6. phase = "rolling" => Rolling(image, R, file.b0)
  BY <1>2, <1>3, SameRolling
<1>8. phase = "plain" => Through(image, R, file.b0, file.meta, cache, todo, Current)
  BY <1>2, <1>3, SameThrough
<1>9. phase = "flushing" => Through(image, R, file.b0, FALSE, cache, {}, Current)
  BY <1>2, <1>3, SameThrough
<1>10. phase = "replaying" => Replaying(image, R, file.b0)
  BY <1>2, <1>3, SameReplaying
<1>11. InPhase'
  BY <1>1, <1>4, <1>5, <1>6, <1>8, <1>9, <1>10 DEF Whole, InPhase, R
<1>12. Stamps'
  BY <1>1 DEF Whole, Stamps
<1>13. \A k \in {"commit", "unlink"} : HasOp(R, k) <=> HasOp(Q, k)
  BY <1>2, SameHas
<1> QED
  BY <1>1, <1>11, <1>12, <1>13 DEF Q, R

LEMMA ChainStep ==
  ASSUME Params, Chained, Queue, Types, Whole,
         IdlePurge \/ Replaced \/ (Committing /\ UNCHANGED Outside) \/ Drained \/ UNCHANGED vars
  PROVE  Whole'
<1>1. /\ UNCHANGED <<phase, file, cache, todo, txn, hist, disk, image>>
      /\ \/ runs' = runs
         \/ runs' = runs \o <<Op("purge")>>
         \/ runs # << >> /\ runs[1].do = "sync" /\ runs' = Tail(runs)
  BY DEF IdlePurge, Replaced, NewTransaction, Committing, Drained, SyncRuns, Enqueue, Rest, Outside,
         sqlite, vars, idb
<1>2. SameOps(Ops(runs), Ops(runs)')
  <2>1. CASE runs' = runs
    BY <2>1 DEF SameOps
  <2>2. CASE runs' = runs \o <<Op("purge")>>
    <3>1. Op("purge").do = "purge" /\ Ops(runs)' = Ops(runs) \cup {Op("purge")}
      BY <2>2, QueuedOne DEF Op
    <3> QED
      BY <3>1 DEF SameOps
  <2>3. CASE runs # << >> /\ runs[1].do = "sync" /\ runs' = Tail(runs)
    <3>1. Ops(runs) = {runs[1]} \cup Ops(runs)'
      BY <2>3, Taking
    <3> QED
      BY <2>3, <3>1 DEF SameOps
  <2> QED
    BY <1>1, <2>1, <2>2, <2>3
<1>3. InPhase' /\ Stamps' /\ \A k \in {"commit", "unlink"} : HasOp(Ops(runs)', k) <=> HasOp(Ops(runs), k)
  BY <1>1, <1>2, SamePhase
<1> QED
  BY <1>1, <1>3, Settled

LEMMA CompleteStep ==
  ASSUME Params, Types, Whole, Complete, UNCHANGED Outside
  PROVE  Whole'
<1>1. /\ UNCHANGED <<phase, file, cache, todo, txn, hist, image, runs>> /\ disk' = image
  BY DEF Complete, Outside, sqlite
<1>2. PICK i, j \in 1 .. Len(hist) :
        /\ i <= j /\ Finds(disk, hist[i]) /\ Finds(image, hist[j])
        /\ \/ j = Len(hist)
           \/ j = Len(hist) - 1 /\ (HasOp(Ops(runs), "commit") \/ HasOp(Ops(runs), "unlink"))
  BY DEF Whole, OnDisk
<1>3. j <= j
  BY HasLast
<1>4. OnDisk'
  BY <1>1, <1>2, <1>3 DEF OnDisk
<1>5. Ordered' /\ Current' = Current
  BY <1>1 DEF Whole, Ordered, Current
<1>6. Stamps'
  BY <1>1, <1>5 DEF Whole, Stamps
<1>7. InPhase'
  BY <1>1, <1>5 DEF Whole, InPhase
<1>8. Leaving' /\ Intact(disk)' /\ Intact(image)'
  BY <1>1, <1>5 DEF Whole, Leaving
<1> QED
  BY <1>4, <1>5, <1>6, <1>7, <1>8 DEF Whole

LEMMA CrashStep ==
  ASSUME Params, Types, Whole, Crash
  PROVE  Whole'
<1>1. /\ disk' = disk /\ image' = disk /\ runs' = << >> /\ phase' = "closed"
      /\ hist' = <<Recovered(disk)>>
  BY DEF Crash, IdbReset
<1>2. txn \in Nat /\ IsStore(disk, txn) /\ Intact(disk)
  BY DEF Types, Opened, Whole
<1>3. Finds(disk, Recovered(disk))
  BY <1>2, FindsRecovered
<1>4. Len(hist') = 1 /\ hist'[1] = Recovered(disk)
  BY <1>1
<1>5. Ops(runs)' = {}
  BY <1>1 DEF Ops
<1>6. Ordered'
  BY <1>4 DEF Ordered
<1>7. OnDisk'
  <2>1. 1 \in 1 .. Len(hist') /\ 1 <= 1 /\ 1 = Len(hist')
    BY <1>4
  <2>2. Finds(disk', hist'[1]) /\ Finds(image', hist'[1])
    BY <1>1, <1>3, <1>4
  <2> QED
    BY <2>1, <2>2 DEF OnDisk
<1>8. Stamps' /\ InPhase' /\ Leaving'
  BY <1>1, <1>5 DEF Stamps, InPhase, Leaving, Unlinking, HasOp
<1> QED
  BY <1>1, <1>2, <1>6, <1>7, <1>8 DEF Whole

LEMMA SyncOKStep ==
  ASSUME Params, Chained, Queue, Types, Whole, SyncOK
  PROVE  Whole'
<1>1. /\ syncing
      /\ \/ phase = "syncing" /\ phase' = "unlocked" /\ runs' = runs /\ hist' = hist
         \/ phase = "flushing" /\ phase' = "unlocked" /\ runs' = runs \o <<Op("unlink")>>
            /\ hist' = Append(hist, cache)
         \/ phase = "replaying" /\ phase' = "locking" /\ runs' = runs \o <<Op("unlink"), Op("reload")>>
            /\ hist' = hist
      /\ UNCHANGED <<disk, image, cache, todo, txn, file>>
  BY DEF SyncOK, SyncReturns, Enqueue
<1>2. runs = << >>
  BY <1>1 DEF Chained
<1>3. Ops(runs) = {}
  BY <1>2 DEF Ops
<1>4. txn \in Nat /\ IsFile(file, txn) /\ IsStore(image, txn) /\ Intact(image)
  BY DEF Types, Opened, Whole
<1>5. CASE phase = "syncing"
  <2>1. InPhase' /\ Stamps'
    BY <1>1, <1>5 DEF InPhase, Stamps
  <2>2. runs' = runs /\ hist' = hist
    BY <1>1, <1>5
  <2> QED
    BY <1>1, <2>1, <2>2, Settled
<1>7. CASE phase = "flushing"
  <2>1. phase' = "unlocked" /\ runs' = runs \o <<Op("unlink")>> /\ hist' = Append(hist, cache)
    BY <1>1, <1>7
  <2>2. Through(image, {}, file.b0, FALSE, cache, {}, Current)
    BY <1>3, <1>7 DEF Whole, InPhase
  <2>3. /\ image.journal # NoJournal /\ file.b0 \in image.blocks
        /\ Top(image, file.b0) /\ Plain(image, file.b0, cache)
    BY <2>2, ThroughSynced
  <2>4. HasOp(Ops(runs)', "unlink")
    BY <2>1, QueuedOne DEF Op
  <2>5. Stamp(Current) < Stamp(cache)
    <3>1. Stamp(Current) < txn /\ cache # << >> /\ cache[1] = txn
      BY <1>7 DEF Whole, Stamps
    <3> QED
      BY <3>1 DEF Stamp
  <2>6. Current' = cache /\ Ordered' /\ OnDisk' /\ Intact(disk)' /\ Intact(image)'
    BY <1>1, <1>7, <2>1, <2>4, <2>5, HistGrows
  <2>7. Leaving'
    BY <1>1, <2>3, <2>6 DEF Leaving, Unlinking
  <2>8. InPhase' /\ Stamps'
    BY <2>1 DEF InPhase, Stamps
  <2> QED
    BY <2>6, <2>7, <2>8 DEF Whole
<1>8. CASE phase = "replaying"
  <2>1. phase' = "locking" /\ runs' = runs \o <<Op("unlink"), Op("reload")>> /\ hist' = hist
    BY <1>1, <1>8
  <2>2. Replaying(image, {}, file.b0)
    BY <1>3, <1>8 DEF Whole, InPhase
  <2>3. Finds(image, Current)
    BY <1>3, FindsLast DEF Whole, HasOp
  <2>4. /\ image.journal # NoJournal /\ file.b0 \in image.blocks
        /\ Top(image, file.b0) /\ Plain(image, file.b0, Current)
    BY <1>4, <2>2, <2>3, ReplaySynced
  <2>5. Ordered' /\ OnDisk' /\ Intact(disk)' /\ Current' = Current
    BY <1>1, <2>1, <2>3, Moves
  <2>6. Leaving'
    BY <1>1, <2>4, <2>5 DEF Leaving, Unlinking
  <2>7. InPhase' /\ Stamps'
    BY <2>1 DEF InPhase, Stamps
  <2> QED
    BY <1>1, <1>4, <2>5, <2>6, <2>7 DEF Whole
<1> QED
  BY <1>1, <1>5, <1>7, <1>8

\* Where SQLite is, for a store s and the functions Q that wait.
Where(s, Q) ==
    /\ phase = "locked" => Reading(s, file.b0, cache) /\ cache = Current
    /\ phase = "hot" => Hot(s, file.b0)
    /\ phase = "batch" => Batch(s, Q, file.b0, cache, file.changed, todo)
    /\ phase \in {"written", "syncing"} => Written(s, Q, file.b0, Current)
    /\ phase = "rolling" => Rolling(s, Q, file.b0)
    /\ phase = "plain" => Through(s, Q, file.b0, file.meta, cache, todo, Current)
    /\ phase = "flushing" => Through(s, Q, file.b0, FALSE, cache, {}, Current)
    /\ phase = "replaying" => Replaying(s, Q, file.b0)

LEMMA PurgeWrites ==
  ASSUME Types, Queue, NEW s, IsStore(s, txn), Intact(s), NEW a, NEW R, a.do = "purge",
         Where(s, {a} \cup R), Unlinking(s, {a} \cup R, Current)
  PROVE  /\ Intact(Purge(s)) /\ Keeps(s, Purge(s))
         /\ Where(Purge(s), R) /\ Unlinking(Purge(s), R, Current)
<1> DEFINE Q == {a} \cup R
           b0 == file.b0
<1>1. txn \in Nat /\ b0.ver \in Int
  BY DEF Types, Opened, IsFile
<1> HIDE DEF b0
<1>2. Intact(Purge(s)) /\ Keeps(s, Purge(s))
  BY <1>1, PurgeAmid
<1>3. Unlinking(Purge(s), R, Current)
  BY <1>1, UnlinkingPurge
<1>4. /\ phase = "locked" => Reading(s, b0, cache) /\ cache = Current
      /\ phase = "hot" => Hot(s, b0)
      /\ phase = "batch" => Batch(s, Q, b0, cache, file.changed, todo)
      /\ phase \in {"written", "syncing"} => Written(s, Q, b0, Current)
      /\ phase = "rolling" => Rolling(s, Q, b0)
      /\ phase = "plain" => Through(s, Q, b0, file.meta, cache, todo, Current)
      /\ phase = "flushing" => Through(s, Q, b0, FALSE, cache, {}, Current)
      /\ phase = "replaying" => Replaying(s, Q, b0)
  BY DEF Where, b0
<1>5. /\ phase = "locked" => Reading(Purge(s), b0, cache)
      /\ phase = "hot" => Hot(Purge(s), b0)
  BY <1>1, <1>4, ReadingPurge
<1>6. phase = "batch" => Batch(Purge(s), R, b0, cache, file.changed, todo)
  BY <1>1, <1>4, BatchPurge
<1>7. phase \in {"written", "syncing"} => Written(Purge(s), R, b0, Current)
  BY <1>1, <1>4, WrittenPurge
<1>8. phase = "rolling" => Rolling(Purge(s), R, b0)
  BY <1>1, <1>4, RollingPurge
<1>10. phase = "plain" => Through(Purge(s), R, b0, file.meta, cache, todo, Current)
  BY <1>1, <1>4, ThroughPurge
<1>11. phase = "flushing" => Through(Purge(s), R, b0, FALSE, cache, {}, Current)
  BY <1>1, <1>4, ThroughPurge
<1>12. phase = "replaying" => Replaying(Purge(s), R, b0)
  BY <1>1, <1>4, ReplayingPurge
<1>13. Where(Purge(s), R)
  BY <1>4, <1>5, <1>6, <1>7, <1>8, <1>10, <1>11, <1>12 DEF Where, b0
<1> QED
  BY <1>2, <1>3, <1>13

LEMMA PageWrites ==
  ASSUME Types, NEW s, IsStore(s, txn), Intact(s), NEW a, NEW R, Ahead(a, R), IsOp(a, txn),
         KindOK(phase, a.do), a.do = "put", Where(s, {a} \cup R)
  PROVE  Intact(Put(s, a.b)) /\ Keeps(s, Put(s, a.b)) /\ Where(Put(s, a.b), R)
<1> DEFINE Q == {a} \cup R
           b0 == file.b0
           u == Put(s, a.b)
<1>1. txn \in Nat /\ IsBlock(b0, txn) /\ b0.pos = 0
  BY DEF Types, Opened, IsFile, IsBlock
<1>2. phase \in {"batch", "written", "syncing", "rolling", "plain", "flushing", "replaying"}
  BY DEF KindOK, Waiting
<1> HIDE DEF b0
<1>4. /\ phase = "batch" => Batch(s, Q, b0, cache, file.changed, todo)
      /\ phase \in {"written", "syncing"} => Written(s, Q, b0, Current)
      /\ phase = "rolling" => Rolling(s, Q, b0)
      /\ phase = "plain" => Through(s, Q, b0, file.meta, cache, todo, Current)
      /\ phase = "flushing" => Through(s, Q, b0, FALSE, cache, {}, Current)
      /\ phase = "replaying" => Replaying(s, Q, b0)
  BY DEF Where, b0
<1>5. CASE phase = "batch"
  <2>1. Intact(u) /\ Keeps(s, u) /\ Batch(u, R, b0, cache, file.changed, todo)
    BY <1>1, <1>4, <1>5, BatchPut
  <2> QED
    BY <1>5, <2>1 DEF Where, b0
<1>6. CASE phase \in {"written", "syncing"}
  <2>1. Intact(u) /\ Keeps(s, u) /\ Written(u, R, b0, Current)
    BY <1>1, <1>4, <1>6, WrittenPut
  <2> QED
    BY <1>6, <2>1 DEF Where, b0
<1>7. CASE phase = "rolling"
  <2>1. Intact(u) /\ Keeps(s, u) /\ Rolling(u, R, b0)
    BY <1>1, <1>4, <1>7, RollingPut
  <2> QED
    BY <1>7, <2>1 DEF Where, b0
<1>8. CASE phase = "plain"
  <2>1. Intact(u) /\ Keeps(s, u) /\ Through(u, R, b0, file.meta, cache, todo, Current)
    BY <1>1, <1>4, <1>8, ThroughPut
  <2> QED
    BY <1>8, <2>1 DEF Where, b0
<1>9. CASE phase = "flushing"
  <2>1. Intact(u) /\ Keeps(s, u) /\ Through(u, R, b0, FALSE, cache, {}, Current)
    BY <1>1, <1>4, <1>9, ThroughPut
  <2> QED
    BY <1>9, <2>1 DEF Where, b0
<1>10. CASE phase = "replaying"
  <2>1. Intact(u) /\ Keeps(s, u) /\ Replaying(u, R, b0)
    BY <1>1, <1>4, <1>10, ReplayingPut
  <2> QED
    BY <1>10, <2>1 DEF Where, b0
<1> QED
  BY <1>2, <1>5, <1>6, <1>7, <1>8, <1>9, <1>10

LEMMA ClearWrites ==
  ASSUME Types, NEW s, IsStore(s, txn), Intact(s), NEW a, NEW R, Ahead(a, R),
         KindOK(phase, a.do), a.do = "clear", Where(s, {a} \cup R)
  PROVE  /\ Intact(ClearAbandoned(s, file)) /\ Keeps(s, ClearAbandoned(s, file))
         /\ Where(ClearAbandoned(s, file), R)
<1> DEFINE Q == {a} \cup R
           u == ClearAbandoned(s, file)
<1>1. txn \in Nat /\ IsBlock(file.b0, txn)
  BY DEF Types, Opened, IsFile, IsBlock
<1>2. phase \in {"batch", "written", "syncing", "rolling"}
  BY DEF KindOK, Waiting
<1>5. CASE phase = "batch"
  <2>0. Batch(s, Q, file.b0, cache, file.changed, todo)
    BY <1>5 DEF Where
  <2>1. Intact(u) /\ Keeps(s, u) /\ Batch(u, R, file.b0, cache, file.changed, todo)
    BY <1>1, <2>0, BatchClear
  <2> QED
    BY <1>5, <2>1 DEF Where
<1>6. CASE phase \in {"written", "syncing"}
  <2>0. Written(s, Q, file.b0, Current)
    BY <1>6 DEF Where
  <2>1. Intact(u) /\ Keeps(s, u) /\ Written(u, R, file.b0, Current)
    BY <1>1, <2>0, WrittenClear
  <2> QED
    BY <1>6, <2>1 DEF Where
<1>7. CASE phase = "rolling"
  <2>0. Rolling(s, Q, file.b0)
    BY <1>7 DEF Where
  <2>1. Intact(u) /\ Keeps(s, u) /\ Rolling(u, R, file.b0)
    BY <1>1, <2>0, RollingClear
  <2> QED
    BY <1>7, <2>1 DEF Where
<1> QED
  BY <1>2, <1>5, <1>6, <1>7

LEMMA Block0Writes ==
  ASSUME Types, NEW s, IsStore(s, txn), Intact(s), NEW a, NEW R, Ahead(a, R), IsOp(a, txn),
         KindOK(phase, a.do), a.do = "block0", Where(s, {a} \cup R)
  PROVE  Intact(Put(s, file.b0)) /\ Keeps(s, Put(s, file.b0)) /\ Where(Put(s, file.b0), R)
<1> DEFINE Q == {a} \cup R
           b0 == file.b0
           u == Put(s, b0)
<1>1. txn \in Nat /\ IsBlock(b0, txn) /\ b0.pos = 0
  BY DEF Types, Opened, IsFile, IsBlock
<1>2. phase \in {"plain", "flushing", "replaying"}
  BY DEF KindOK, Waiting
<1> HIDE DEF b0
<1>5. CASE phase = "plain"
  <2>0. Through(s, Q, b0, file.meta, cache, todo, Current)
    BY <1>5 DEF Where, b0
  <2>1. Intact(u) /\ Keeps(s, u) /\ Through(u, R, b0, file.meta, cache, todo, Current)
    BY <1>1, <2>0, ThroughPut
  <2> QED
    BY <1>5, <2>1 DEF Where, b0
<1>6. CASE phase = "flushing"
  <2>0. Through(s, Q, b0, FALSE, cache, {}, Current)
    BY <1>6 DEF Where, b0
  <2>1. Intact(u) /\ Keeps(s, u) /\ Through(u, R, b0, FALSE, cache, {}, Current)
    BY <1>1, <2>0, ThroughPut
  <2> QED
    BY <1>6, <2>1 DEF Where, b0
<1>7. CASE phase = "replaying"
  <2>0. Replaying(s, Q, b0)
    BY <1>7 DEF Where, b0
  <2>1. Intact(u) /\ Keeps(s, u) /\ Replaying(u, R, b0)
    BY <1>1, <2>0, ReplayingBlock0
  <2> QED
    BY <1>7, <2>1 DEF Where, b0
<1> QED
  BY <1>2, <1>5, <1>6, <1>7

LEMMA OtherWrites ==
  ASSUME Types, NEW s, IsStore(s, txn), Intact(s), NEW a, NEW R, Ahead(a, R), IsOp(a, txn),
         KindOK(phase, a.do), Where(s, {a} \cup R), Unlinking(s, {a} \cup R, Current), NEW u,
         \/ a.do = "commit" /\ u = CommitBatch(s, a.b, a.changed)
         \/ a.do = "journal" /\ u = [s EXCEPT !.journal = a.jr]
         \/ a.do = "truncate" /\ u = Truncate(s, a.b)
         \/ a.do = "unlink" /\ u = [s EXCEPT !.journal = NoJournal]
  PROVE  /\ Intact(u) /\ Where(u, R)
         /\ a.do # "truncate" => Finds(u, Current)
         /\ a.do = "truncate" => Keeps(s, u)
<1> DEFINE Q == {a} \cup R
           b0 == file.b0
<1>1. txn \in Nat /\ IsBlock(b0, txn) /\ b0.pos = 0
  BY DEF Types, Opened, IsFile, IsBlock
<1> HIDE DEF b0
<1>4. /\ phase \in {"written", "syncing"} => Written(s, Q, b0, Current)
      /\ phase = "plain" => Through(s, Q, b0, file.meta, cache, todo, Current)
      /\ phase = "flushing" => Through(s, Q, b0, FALSE, cache, {}, Current)
      /\ phase = "replaying" => Replaying(s, Q, b0)
  BY DEF Where, b0
<1>5. CASE a.do = "commit" /\ u = CommitBatch(s, a.b, a.changed)
  <2>1. phase \in {"written", "syncing"}
    BY <1>5 DEF KindOK, Waiting
  <2>2. Intact(u) /\ Finds(u, Current) /\ Written(u, R, b0, Current)
    BY <1>1, <1>4, <1>5, <2>1, WrittenCommit
  <2> QED
    BY <1>5, <2>1, <2>2 DEF Where, b0
<1>6. CASE a.do = "journal" /\ u = [s EXCEPT !.journal = a.jr]
  <2>1. phase \in {"plain", "flushing"}
    BY <1>6 DEF KindOK, Waiting
  <2>2. CASE phase = "plain"
    <3>1. Intact(u) /\ Finds(u, Current) /\ Through(u, R, b0, file.meta, cache, todo, Current)
      BY <1>1, <1>4, <1>6, <2>2, JournalWritten
    <3> QED
      BY <1>6, <2>2, <3>1 DEF Where, b0
  <2>3. CASE phase = "flushing"
    <3>1. Intact(u) /\ Finds(u, Current) /\ Through(u, R, b0, FALSE, cache, {}, Current)
      BY <1>1, <1>4, <1>6, <2>3, JournalWritten
    <3> QED
      BY <1>6, <2>3, <3>1 DEF Where, b0
  <2> QED
    BY <2>1, <2>2, <2>3
<1>7. CASE a.do = "truncate" /\ u = Truncate(s, a.b)
  <2>1. phase = "replaying"
    BY <1>7 DEF KindOK, Waiting
  <2>2. Intact(u) /\ Keeps(s, u) /\ Replaying(u, R, b0)
    BY <1>1, <1>4, <1>7, <2>1, ReplayingTruncate
  <2> QED
    BY <1>7, <2>1, <2>2 DEF Where, b0
<1>8. CASE a.do = "unlink" /\ u = [s EXCEPT !.journal = NoJournal]
  <2>1. phase \in {"closed", "unlocked", "opening", "locking"}
    BY <1>8 DEF KindOK, Waiting
  <2>2. Intact(u) /\ Finds(u, Current)
    BY <1>1, <1>8, Unlinked
  <2> QED
    BY <1>8, <2>1, <2>2 DEF Where
<1> QED
  BY <1>5, <1>6, <1>7, <1>8

LEMMA RunWriteStep ==
  ASSUME Params, Chained, Queue, Types, Whole, RunWrite
  PROVE  Whole'
<1> DEFINE a == runs[1]
           R == Ops(runs)'
           s == image
           u == image'
<1>1. /\ runs # << >> /\ a.do \in Writing /\ runs' = Tail(runs) /\ u = Effect(a, s)
      /\ UNCHANGED <<disk, phase, cache, todo, txn, hist, file>>
  BY ViewIs DEF RunWrite, Ran, NextRun, sqlite
<1>2. /\ Ops(runs) = {a} \cup R
      /\ Ahead(a, R)
      /\ KindOK(phase, a.do) /\ IsOp(a, txn)
      /\ \A k : HasOp(Ops(runs), k) <=> a.do = k \/ HasOp(R, k)
      /\ a.do # "purge" => ~ HasOp(R, "unlink")
  BY <1>1, Taking
<1>3. Where(s, {a} \cup R) /\ Unlinking(s, {a} \cup R, Current) /\ IsStore(s, txn) /\ Intact(s)
  BY <1>2 DEF Whole, InPhase, Where, Leaving, Types
<1> HIDE DEF a, R, s, u
<1>4. /\ Intact(u) /\ Where(u, R) /\ (HasOp(R, "unlink") => Unlinking(u, R, Current))
      /\ \/ Finds(u, Current)
         \/ Keeps(s, u) /\ a.do \notin {"commit", "unlink"}
  <2>1. CASE a.do = "purge"
    <3>1. u = Purge(s)
      BY <1>1, <2>1 DEF Effect
    <3> QED
      BY <1>3, <2>1, <3>1, PurgeWrites
  <2>2. CASE a.do = "put"
    <3>1. u = Put(s, a.b)
      BY <1>1, <2>2 DEF Effect
    <3> QED
      BY <1>2, <1>3, <2>2, <3>1, PageWrites
  <2>3. CASE a.do = "clear"
    <3>1. u = ClearAbandoned(s, file)
      BY <1>1, <2>3 DEF Effect
    <3> QED
      BY <1>2, <1>3, <2>3, <3>1, ClearWrites
  <2>4. CASE a.do = "block0"
    <3>1. u = Put(s, file.b0)
      BY <1>1, <2>4 DEF Effect
    <3> QED
      BY <1>2, <1>3, <2>4, <3>1, Block0Writes
  <2>5. CASE a.do \in {"commit", "journal", "truncate", "unlink"}
    <3>1. \/ a.do = "commit" /\ u = CommitBatch(s, a.b, a.changed)
          \/ a.do = "journal" /\ u = [s EXCEPT !.journal = a.jr]
          \/ a.do = "truncate" /\ u = Truncate(s, a.b)
          \/ a.do = "unlink" /\ u = [s EXCEPT !.journal = NoJournal]
      BY <1>1, <2>5 DEF Effect
    <3>2. /\ Intact(u) /\ Where(u, R)
          /\ a.do # "truncate" => Finds(u, Current)
          /\ a.do = "truncate" => Keeps(s, u)
      BY <1>2, <1>3, <3>1, OtherWrites
    <3> QED
      BY <1>2, <2>5, <3>2
  <2> QED
    BY <1>1, <2>1, <2>2, <2>3, <2>4, <2>5 DEF Writing
<1>5. Ordered' /\ OnDisk' /\ Intact(disk)' /\ Current' = Current
  <2>1. \/ Finds(image', Current)
        \/ /\ Keeps(image, image')
           /\ \A k \in {"commit", "unlink"} : HasOp(Ops(runs), k) => HasOp(Ops(runs)', k)
    BY <1>2, <1>4 DEF s, u, R
  <2> QED
    BY <1>1, <2>1, Moves
<1>6. InPhase'
  BY <1>1, <1>4, <1>5 DEF Where, InPhase, u, R
<1>7. Stamps'
  BY <1>1, <1>5 DEF Whole, Stamps
<1>8. Leaving'
  BY <1>4, <1>5 DEF Leaving, Unlinking, u, R
<1> QED
  BY <1>4, <1>5, <1>6, <1>7, <1>8 DEF Whole, u

LEMMA WholeStarts ==
  ASSUME Params, Init
  PROVE  Whole
<1>1. /\ disk = EmptyStore /\ image = EmptyStore /\ runs = << >> /\ phase = "closed"
      /\ hist = << << >> >>
  BY DEF Init, IdbInit
<1>2. Intact(EmptyStore) /\ Finds(EmptyStore, << >>)
  BY EmptyIs
<1>3. Len(hist) = 1 /\ hist[1] = << >>
  BY <1>1
<1>4. Ops(runs) = {}
  BY <1>1 DEF Ops
<1>5. Ordered
  BY <1>3 DEF Ordered
<1>6. OnDisk
  <2>1. 1 \in 1 .. Len(hist) /\ 1 <= 1 /\ 1 = Len(hist)
    BY <1>3
  <2>2. Finds(disk, hist[1]) /\ Finds(image, hist[1])
    BY <1>1, <1>2, <1>3
  <2> QED
    BY <2>1, <2>2 DEF OnDisk
<1>7. Stamps /\ InPhase /\ Leaving
  BY <1>1, <1>4 DEF Stamps, InPhase, Leaving, Unlinking, HasOp
<1> QED
  BY <1>1, <1>2, <1>5, <1>6, <1>7 DEF Whole

\* Once writes were lost that is not forgotten, and sync() fails for that only.
LEMMA LostStays ==
  ASSUME [Next]_vars
  PROVE  \/ lost' = lost
         \/ Aborted
BY DEF Next, vars, idb, Rest, xOpen, xClose, xLock, xUnlock, BeginAtomic, Spill, WritePage, CommitAtomic,
   RollbackAtomic, xSync, Sync, PlayBack, RunWrite, RunOpen, RunReload, RunUndo, Ran, SyncOK, SyncReturns,
   SyncFails, SyncThrows, IdlePurgeForgets, IdlePurge, Replaced, NewTransaction, Committed, Committing,
   Complete, Drained, SyncRuns, Crash, IdbReset

LEMMA WholeStep ==
  ASSUME Params, Chained, Queue, Types, ~ lost => Whole, [Next]_vars, ~ lost'
  PROVE  Whole'
<1>1. ~ Aborted
  BY DEF Aborted, Abort
<1>2. lost' = lost
  BY <1>1, LostStays
<1>3. Whole
  BY <1>2
<1>4. ~ SyncFails
  BY <1>2 DEF SyncFails, SyncThrows, Chained
<1>5. CASE BeginAtomic
  BY <1>3, <1>5, BeginStep
<1>6. CASE Spill
  BY <1>3, <1>6, SpillStep
<1>7. CASE WritePage
  BY <1>3, <1>7, WriteStep
<1>8. CASE CommitAtomic
  BY <1>3, <1>8, CommitStep
<1>9. CASE RollbackAtomic
  BY <1>3, <1>9, RollbackStep
<1>10. CASE xSync
  BY <1>3, <1>10, SyncStep
<1>11. CASE PlayBack
  BY <1>3, <1>11, PlayStep
<1>12. CASE xOpen \/ xClose \/ xLock \/ xUnlock
  BY <1>3, <1>12, LockStep
<1>13. CASE RunOpen
  BY <1>3, <1>13, OpenStep
<1>14. CASE RunReload
  BY <1>3, <1>14, ReloadStep
<1>15. CASE RunUndo
  BY <1>3, <1>15, UndoStep
<1>16. CASE SyncOK
  BY <1>3, <1>16, SyncOKStep
<1>17. CASE IdlePurge \/ Replaced \/ (Committing /\ UNCHANGED Outside) \/ Drained \/ UNCHANGED vars
  BY <1>3, <1>17, ChainStep
<1>18. CASE Complete /\ UNCHANGED Outside
  BY <1>3, <1>18, CompleteStep
<1>19. CASE Crash
  BY <1>3, <1>19, CrashStep
<1>20. CASE RunWrite
  BY <1>3, <1>20, RunWriteStep
<1> QED
  BY <1>1, <1>4, <1>5, <1>6, <1>7, <1>8, <1>9, <1>10, <1>11, <1>12, <1>13, <1>14, <1>15, <1>16, <1>17,
     <1>18, <1>19, <1>20, Zenon DEF Next, Committed

\* The inductive invariant.  Types and the order of the queue hold whatever
\* happens; nothing is promised of the store once a transaction was aborted.
IInv == Chained /\ Queue /\ Types /\ (~ lost => Whole)

LEMMA IInvStarts ==
  ASSUME Params, Init
  PROVE  IInv
BY Starts, WholeStarts DEF IInv

LEMMA IInvStep ==
  ASSUME Params, ~ PurgeDuringSync, IInv, [Next]_vars
  PROVE  IInv'
<1>1. Chained /\ Queue /\ Types /\ (~ lost => Whole)
  BY DEF IInv
<1>2. Chained'
  BY <1>1, ChainedStep
<1>3. Queue'
  BY <1>1, QueueStep
<1>4. Types'
  BY <1>1, TypesStep
<1>5. ~ lost' => Whole'
  BY <1>1, WholeStep
<1> QED
  BY <1>2, <1>3, <1>4, <1>5 DEF IInv

LEMMA IInvHolds ==
  ASSUME Params, ~ PurgeDuringSync
  PROVE  Spec => []IInv
<1>1. Init => IInv
  BY IInvStarts
<1>2. IInv /\ [Next]_vars => IInv'
  BY IInvStep
<1> QED
  BY <1>1, <1>2, PTL DEF Spec

--------------------------------------------------------------------------------
(* What a crash would leave, and the refinement.                               *)

StoredIn(h, d) == Max({0} \cup {i \in 1 .. Len(h) : h[i] = Recovered(d)})

\* A history whose contents can be told apart by their stamps.
IsHistory(h, t) ==
    /\ Len(h) \in Nat
    /\ \A i \in 1 .. Len(h) : IsContent(h[i], t)
    /\ \A i, j \in 1 .. Len(h) : i < j => Stamp(h[i]) < Stamp(h[j])

\* It is the committed content that a new connection finds.
LEMMA StoredFound ==
  ASSUME NEW t \in Nat, MaxPage \in Nat, NEW d, IsStore(d, t), Intact(d), NEW h, IsHistory(h, t),
         NEW i \in 1 .. Len(h), Finds(d, h[i])
  PROVE  StoredIn(h, d) = i /\ h[i] = Recovered(d)
<1> DEFINE T == {k \in 1 .. Len(h) : h[k] = Recovered(d)}
<1>0. Len(h) \in Nat /\ i \in Nat /\ IsContent(h[i], t)
  BY DEF IsHistory
<1>1. IsContent(Recovered(d), t) /\ Finds(d, Recovered(d))
  BY RecoveredIs, FindsRecovered
<1>2. h[i] = Recovered(d)
  BY <1>0, <1>1, FindsUnique
<1>3. ASSUME NEW k \in T PROVE k = i
  <2>1. k \in 1 .. Len(h) /\ h[k] = h[i]
    BY <1>2
  <2>2. Stamp(h[k]) = Stamp(h[i]) /\ Stamp(h[i]) \in Int
    BY <1>0, <2>1, StampIs
  <2>3. ~ k < i /\ ~ i < k
    BY <2>1, <2>2 DEF IsHistory
  <2> QED
    BY <1>0, <2>1, <2>3
<1>4. {0} \cup T = {0, i}
  BY <1>2, <1>3
<1>5. Max({0, i}) = i
  <2>1. i >= 0 /\ i >= i /\ i # 0
    BY <1>0
  <2> QED
    BY <2>1 DEF Max
<1> QED
  BY <1>2, <1>4, <1>5 DEF StoredIn

LEMMA History ==
  ASSUME Types, Whole
  PROVE  IsHistory(hist, txn) /\ txn \in Nat /\ IsStore(disk, txn) /\ Intact(disk)
<1>1. Len(hist) \in Nat /\ txn \in Nat
  BY HasLast
<1> QED
  BY <1>1 DEF Types, Whole, Ordered, IsHistory

LEMMA StoredIs == Stored = StoredIn(hist, disk)
BY DEF Stored, StoredIn

LEMMA StoredStays ==
  ASSUME UNCHANGED <<hist, disk>>
  PROVE  Stored' = Stored
BY DEF Stored

\* Which of the committed contents is on disk.
LEMMA OnDiskIs ==
  ASSUME Params, Types, Whole
  PROVE  \E i, j \in 1 .. Len(hist) :
            /\ i <= j /\ Stored = i /\ hist[i] = Recovered(disk)
            /\ Finds(disk, hist[i]) /\ Finds(image, hist[j])
            /\ \/ j = Len(hist)
               \/ HasOp(Ops(runs), "commit") \/ HasOp(Ops(runs), "unlink")
<1>1. PICK i, j \in 1 .. Len(hist) :
        /\ i <= j /\ Finds(disk, hist[i]) /\ Finds(image, hist[j])
        /\ \/ j = Len(hist)
           \/ HasOp(Ops(runs), "commit") \/ HasOp(Ops(runs), "unlink")
  BY DEF Whole, OnDisk
<1>2. MaxPage \in Nat
  BY DEF Params
<1>3. StoredIn(hist, disk) = i /\ hist[i] = Recovered(disk)
  BY <1>1, <1>2, History, StoredFound
<1> QED
  BY <1>1, <1>3, StoredIs

\* The same after a step.
LEMMA StoredNext ==
  ASSUME Params, Types', Whole', NEW i \in 1 .. Len(hist'), Finds(disk', hist'[i])
  PROVE  Stored' = i
<1> DEFINE h == hist'
           d == disk'
           t == txn'
<1>1. IsHistory(h, t) /\ t \in Nat /\ IsStore(d, t) /\ Intact(d)
  <2>1. t \in Nat
    BY DEF Types, Opened
  <2>2. Len(h) \in Nat
    BY DEF Types
  <2> QED
    BY <2>1, <2>2 DEF Types, Whole, Ordered, IsHistory
<1>2. i \in 1 .. Len(h) /\ Finds(d, h[i]) /\ MaxPage \in Nat
  BY DEF Params
<1>3. Stored' = StoredIn(h, d)
  BY DEF Stored, StoredIn
<1> HIDE DEF h, d, t
<1>4. StoredIn(h, d) = i
  BY <1>1, <1>2, StoredFound
<1> QED
  BY <1>3, <1>4

\* What the abstract file has as stored.
Kept == IF lost THEN 0 ELSE Stored

\* SQLite's transaction ends.
LEMMA CommitRefines ==
  ASSUME Params, IInv, IInv', hist' = Append(hist, cache), UNCHANGED <<disk, acked, lost>>
  PROVE  File!Commit
<1>1. cache \in Content
  <2>1. IsContent(cache, txn) /\ txn \in Nat /\ txn <= MaxTxn
    BY DEF IInv, Types, Opened, Params
  <2> QED
    BY <2>1, InContent
<1>2. Kept' = Kept
  <2>1. CASE lost
    BY <2>1 DEF Kept
  <2>2. CASE ~ lost
    <3>1. Types /\ Whole /\ Types' /\ Whole'
      BY <2>2 DEF IInv
    <3>2. PICK i \in 1 .. Len(hist) : Stored = i /\ Finds(disk, hist[i])
      BY <3>1, OnDiskIs
    <3>3. i \in 1 .. Len(hist') /\ hist'[i] = hist[i]
      <4>1. hist \in Seq(Content)
        BY <3>1 DEF Types
      <4> QED
        BY <1>1, <4>1
    <3>4. Stored' = i
      BY <3>1, <3>2, <3>3, StoredNext
    <3> QED
      BY <3>2, <3>4 DEF Kept
  <2> QED
    BY <2>1, <2>2
<1> QED
  BY <1>1, <1>2 DEF File!Commit, Kept

\* A transaction of IndexedDB completes.
LEMMA StoreRefines ==
  ASSUME Params, IInv, IInv', Complete, UNCHANGED Outside
  PROVE  File!Store \/ UNCHANGED <<hist, Kept, acked, lost>>
<1>1. disk' = image /\ UNCHANGED <<hist, acked, lost>>
  BY DEF Complete, Outside, sqlite
<1>2. CASE lost
  BY <1>1, <1>2 DEF Kept
<1>3. CASE ~ lost
  <2>1. Types /\ Whole /\ Types' /\ Whole'
    BY <1>1, <1>3 DEF IInv
  <2>2. PICK i, j \in 1 .. Len(hist) : i <= j /\ Stored = i /\ Finds(image, hist[j])
    BY <2>1, OnDiskIs
  <2>3. j \in 1 .. Len(hist') /\ Finds(disk', hist'[j])
    BY <1>1, <2>2
  <2>4. Stored' = j
    BY <2>1, <2>3, StoredNext
  <2>5. i = j \/ j \in i + 1 .. Len(hist)
    BY <2>1, <2>2, HasLast
  <2> QED
    BY <1>1, <1>3, <2>2, <2>4, <2>5 DEF File!Store, Kept
<1> QED
  BY <1>2, <1>3

\* xSync answers: the transactions it waited for are those there were.
LEMMA AcknowledgeRefines ==
  ASSUME Params, IInv, IInv', SyncOK, acked' = Len(hist), UNCHANGED hist
  PROVE  File!Acknowledge
<1>1. /\ syncing /\ UNCHANGED <<disk, image, lost>>
      /\ \A i \in DOMAIN txs : ~ txs[i].awaited
  BY DEF SyncOK, SyncReturns
<1>2. /\ runs = << >> /\ txs \in Seq(Tx)
      /\ \A i \in 1 .. Len(txs) : txs[i].awaited
      /\ txs = << >> => image = disk
  BY <1>1 DEF IInv, Chained
<1>3. image = disk
  BY <1>1, <1>2
<1>4. Kept' = Kept
  BY <1>1, StoredStays DEF Kept
<1>5. CASE lost
  BY <1>1, <1>4, <1>5 DEF File!Acknowledge, Kept
<1>6. CASE ~ lost
  <2>1. Types /\ Whole
    BY <1>6 DEF IInv
  <2>2. Ops(runs) = {}
    BY <1>2 DEF Ops
  <2>3. PICK i, j \in 1 .. Len(hist) :
            /\ i <= j /\ Stored = i /\ hist[i] = Recovered(disk)
            /\ Finds(disk, hist[i]) /\ Finds(image, hist[j])
            /\ \/ j = Len(hist)
               \/ HasOp(Ops(runs), "commit") \/ HasOp(Ops(runs), "unlink")
    BY <2>1, OnDiskIs
  <2>4. j = Len(hist)
    BY <2>2, <2>3 DEF HasOp
  <2>5. StoredIn(hist, disk) = j
    <3>1. MaxPage \in Nat
      BY DEF Params
    <3> QED
      BY <1>3, <2>1, <2>3, <3>1, History, StoredFound
  <2>6. Stored = Len(hist)
    BY <2>4, <2>5, StoredIs
  <2> QED
    BY <1>1, <1>4, <1>6, <2>6 DEF File!Acknowledge, Kept
<1> QED
  BY <1>5, <1>6

\* The page is reloaded.
LEMMA CrashRefines ==
  ASSUME Params, IInv, IInv', Crash
  PROVE  File!Crash
<1>1. hist' = <<Recovered(disk)>> /\ acked' = 1 /\ UNCHANGED <<disk, lost>>
  BY DEF Crash, IdbReset
<1>2. CASE lost
  <2>1. Recovered(disk) \in Content
    <3>1. txn \in Nat /\ txn <= MaxTxn /\ IsStore(disk, txn) /\ MaxPage \in Nat
      BY DEF IInv, Types, Opened, Params
    <3>2. IsContent(Recovered(disk), txn)
      BY <3>1, RecoveredIs
    <3> QED
      BY <3>1, <3>2, InContent
  <2> QED
    BY <1>1, <1>2, <2>1 DEF File!Crash
<1>3. CASE ~ lost
  <2>1. Types /\ Whole /\ Types' /\ Whole'
    BY <1>1, <1>3 DEF IInv
  <2>2. PICK i \in 1 .. Len(hist) : Stored = i /\ hist[i] = Recovered(disk) /\ Finds(disk, hist[i])
    BY <2>1, OnDiskIs
  <2>3. 1 \in 1 .. Len(hist') /\ hist'[1] = hist[i]
    BY <1>1, <2>2
  <2>4. Stored' = 1
    BY <1>1, <2>1, <2>2, <2>3, StoredNext
  <2> QED
    BY <1>1, <1>3, <2>2, <2>4 DEF File!Crash
<1> QED
  BY <1>2, <1>3

LEMMA FileStarts ==
  ASSUME Params, Init
  PROVE  File!Init
<1>1. disk = EmptyStore /\ lost = FALSE /\ hist = << << >> >> /\ acked = 1
  BY DEF Init, IdbInit
<1>2. Types /\ Whole
  BY Starts, WholeStarts
<1>3. PICK i \in 1 .. Len(hist) : Stored = i
  BY <1>2, OnDiskIs
<1>4. Stored = 1 /\ hist[1] = << >>
  BY <1>1, <1>3
<1>5. << >> \in Content
  <2>1. hist \in Seq(Content) /\ 1 \in 1 .. Len(hist)
    BY <1>1, <1>2 DEF Types
  <2> QED
    BY <1>4, <2>1
<1> QED
  BY <1>1, <1>4, <1>5 DEF File!Init

LEMMA FileStep ==
  ASSUME Params, IInv, IInv', [Next]_vars
  PROVE  [File!Next]_(File!vars)
<1>1. CASE UNCHANGED <<disk, hist, acked, lost>>
  BY <1>1, StoredStays DEF File!vars
<1>2. CASE CommitAtomic
  <2>1. hist' = Append(hist, cache) /\ UNCHANGED <<disk, acked, lost>>
    BY <1>2 DEF CommitAtomic, Rest
  <2> QED
    BY <2>1, CommitRefines DEF File!Next
<1>3. CASE SyncOK
  <2>1. /\ UNCHANGED <<disk, lost>>
        /\ \/ hist' = hist /\ acked' = Len(hist)
           \/ hist' = hist /\ acked' = acked
           \/ hist' = Append(hist, cache) /\ acked' = acked
    BY <1>3 DEF SyncOK, SyncReturns
  <2>2. CASE hist' = hist /\ acked' = Len(hist)
    BY <1>3, <2>2, AcknowledgeRefines DEF File!Next
  <2>3. CASE hist' = hist /\ acked' = acked
    BY <1>1, <2>1, <2>3
  <2>4. CASE hist' = Append(hist, cache) /\ acked' = acked
    BY <2>1, <2>4, CommitRefines DEF File!Next
  <2> QED
    BY <2>1, <2>2, <2>3, <2>4
<1>4. CASE Complete /\ UNCHANGED Outside
  <2>1. File!Store \/ UNCHANGED <<hist, Kept, acked, lost>>
    BY <1>4, StoreRefines
  <2> QED
    BY <2>1 DEF File!Next, File!vars, Kept
<1>5. CASE Aborted
  <2>1. lost' = TRUE /\ UNCHANGED <<hist, acked>>
    BY <1>5 DEF Aborted, Abort, Outside, sqlite
  <2> QED
    BY <2>1 DEF File!Next, File!Lose
<1>6. CASE Crash
  BY <1>6, CrashRefines DEF File!Next
<1>7. \/ UNCHANGED <<disk, hist, acked, lost>>
      \/ CommitAtomic \/ SyncOK \/ (Complete /\ UNCHANGED Outside) \/ Aborted \/ Crash
  BY DEF Next, vars, idb, sqlite, Rest, xOpen, xClose, xLock, xUnlock, BeginAtomic, Spill, WritePage,
     RollbackAtomic, xSync, Sync, PlayBack, RunWrite, RunOpen, RunReload, RunUndo, Ran, SyncFails, SyncThrows,
     IdlePurgeForgets, IdlePurge, Replaced, NewTransaction, Committed, Committing, Drained, SyncRuns, Outside
<1> QED
  BY <1>1, <1>2, <1>3, <1>4, <1>5, <1>6, <1>7

--------------------------------------------------------------------------------
(* The theorems.  The purge task does not start while sync() waits: when it    *)
(* does xSync may answer too early, as the run vfs_ack shows.                  *)

\* IdbVfs keeps to its types: transactions and versions within bounds, at most
\* two transactions of IndexedDB at a time.
THEOREM TypeCorrect ==
  ASSUME Params, ~ PurgeDuringSync
  PROVE  Spec => []TypeOK
<1>1. IInv => TypeOK
  <2> SUFFICES ASSUME IInv PROVE TypeOK
    OBVIOUS
  <2>1. /\ txs \in Seq(Tx) /\ Len(txs) <= 2
        /\ {rejected, syncing, lost, pending} \subseteq BOOLEAN
    BY DEF IInv, Chained
  <2>2. /\ txn \in 0 .. MaxTxn /\ IsFile(file, txn) /\ IsContent(cache, txn) /\ todo \subseteq Page
        /\ hist \in Seq(Content) /\ acked \in 1 .. Len(hist)
    BY DEF IInv, Types, Opened
  <2>3. file.b0.ver \in -MaxTxn .. 0 /\ file.b0.size \in 0 .. MaxPage
    BY <2>2 DEF IsFile, Params
  <2>4. cache \in Content
    BY <2>2, InContent DEF Params
  <2> QED
    BY <2>1, <2>2, <2>3, <2>4 DEF TypeOK
<1> QED
  BY <1>1, IInvHolds, PTL

\* "SQLITE_IOCAP_BATCH_ATOMIC" (EncryptedIDBVFS.js:471): the file system is an
\* atomic file.  Whatever is written in a batch or plainly, abandoned, rolled
\* back, played back or purged, and wherever IndexedDB commits or the page is
\* reloaded, the store holds one committed content whole, they reach it in order,
\* and xSync answers SQLITE_OK for what is in it.
THEOREM ImplementsFile ==
  ASSUME Params, ~ PurgeDuringSync
  PROVE  Spec => Implements
<1>1. Init => File!Init
  BY FileStarts
<1>2. IInv /\ IInv' /\ [Next]_vars => [File!Next]_(File!vars)
  BY FileStep
<1> QED
  BY <1>1, <1>2, IInvHolds, PTL DEF Spec, Implements, File!Spec

\* A connection that takes the lock reads the pages of the transaction that was
\* committed last (EncryptedIDBVFS.js xLock, xRead), whatever was abandoned or
\* rolled back before, and whatever the purge task deleted.
THEOREM LocksReadCommitted ==
  ASSUME Params, ~ PurgeDuringSync
  PROVE  Spec => []ReadsCommitted
<1>1. IInv => ReadsCommitted
  BY DEF IInv, Whole, InPhase, ReadsCommitted, Current
<1> QED
  BY <1>1, IInvHolds, PTL

\* What follows of an atomic file: neither the content a crash would leave nor
\* the one acknowledged is beyond the end of the history.
LEMMA FilePromises == File!Init => File!TypeOK /\ File!AckedIsStored
<1> SUFFICES ASSUME File!Init PROVE File!TypeOK /\ File!AckedIsStored
  OBVIOUS
<1>1. PICK c \in Content : hist = <<c>>
  BY DEF File!Init
<1>2. hist \in Seq(Content) /\ Len(hist) = 1 /\ hist # << >>
  BY <1>1
<1>3. Kept = 1 /\ acked = 1 /\ lost = FALSE
  BY DEF File!Init, Kept
<1>4. lost \in BOOLEAN
  BY <1>3, Zenon
<1> QED
  BY <1>2, <1>3, <1>4 DEF File!TypeOK, File!AckedIsStored, Kept

LEMMA FileKeeps ==
  File!TypeOK /\ File!AckedIsStored /\ [File!Next]_(File!vars) => (File!TypeOK /\ File!AckedIsStored)'
<1> SUFFICES ASSUME File!TypeOK, File!AckedIsStored, [File!Next]_(File!vars)
             PROVE  (File!TypeOK /\ File!AckedIsStored)'
  OBVIOUS
<1>0. /\ hist \in Seq(Content) /\ hist # << >> /\ Kept \in Nat
      /\ acked \in 0 .. Len(hist) /\ lost \in BOOLEAN
      /\ ~ lost => acked <= Kept /\ Kept \in 1 .. Len(hist)
  BY DEF File!TypeOK, File!AckedIsStored, Kept
<1>a. \/ (\E c \in Content : hist' = Append(hist, c)) /\ UNCHANGED <<Kept, acked, lost>>
      \/ ~ lost /\ Kept' \in Kept + 1 .. Len(hist) /\ UNCHANGED <<hist, acked, lost>>
      \/ (lost \/ Kept = Len(hist)) /\ acked' = Len(hist) /\ UNCHANGED <<hist, Kept, lost>>
      \/ lost' = TRUE /\ Kept' = 0 /\ UNCHANGED <<hist, acked>>
      \/ /\ \/ ~ lost /\ hist' = <<hist[Kept]>> /\ Kept' = 1
            \/ lost /\ hist' \in {<<c>> : c \in Content} /\ Kept' = 0
         /\ acked' = 1 /\ lost' = lost
      \/ UNCHANGED <<hist, Kept, acked, lost>>
  BY Zenon DEF File!Next, File!vars, File!Commit, File!Store, File!Acknowledge, File!Lose, File!Crash, Kept
<1>b. SUFFICES /\ hist' \in Seq(Content) /\ hist' # << >> /\ Kept' \in Nat
               /\ acked' \in 0 .. Len(hist') /\ lost' \in BOOLEAN
               /\ ~ lost' => acked' <= Kept' /\ Kept' \in 1 .. Len(hist')
  BY DEF File!TypeOK, File!AckedIsStored, Kept
<1>1. CASE (\E c \in Content : hist' = Append(hist, c)) /\ UNCHANGED <<Kept, acked, lost>>
  <2>1. PICK c \in Content : hist' = Append(hist, c)
    BY <1>1
  <2>2. hist' \in Seq(Content) /\ Len(hist') = Len(hist) + 1 /\ hist' # << >>
    BY <1>0, <2>1
  <2> QED
    BY <1>0, <1>1, <2>2
<1>2. CASE ~ lost /\ Kept' \in Kept + 1 .. Len(hist) /\ UNCHANGED <<hist, acked, lost>>
  BY <1>0, <1>2
<1>3. CASE (lost \/ Kept = Len(hist)) /\ acked' = Len(hist) /\ UNCHANGED <<hist, Kept, lost>>
  BY <1>0, <1>3
<1>4. CASE lost' = TRUE /\ Kept' = 0 /\ UNCHANGED <<hist, acked>>
  BY <1>0, <1>4
<1>5. CASE /\ \/ ~ lost /\ hist' = <<hist[Kept]>> /\ Kept' = 1
              \/ lost /\ hist' \in {<<c>> : c \in Content} /\ Kept' = 0
           /\ acked' = 1 /\ lost' = lost
  <2>1. PICK c \in Content : hist' = <<c>>
    BY <1>0, <1>5
  <2>2. hist' \in Seq(Content) /\ Len(hist') = 1 /\ hist' # << >>
    BY <2>1
  <2> QED
    BY <1>0, <1>5, <2>2
<1>6. CASE UNCHANGED <<hist, Kept, acked, lost>>
  BY <1>0, <1>6
<1> QED
  BY <1>a, <1>1, <1>2, <1>3, <1>4, <1>5, <1>6

LEMMA PromisesHold ==
  ASSUME Params, ~ PurgeDuringSync
  PROVE  Spec => [](File!TypeOK /\ File!AckedIsStored)
<1>1. Spec => File!Init /\ [][File!Next]_(File!vars)
  BY ImplementsFile DEF Implements, File!Spec
<1>2. File!Init => File!TypeOK /\ File!AckedIsStored
  BY FilePromises
<1>3. File!TypeOK /\ File!AckedIsStored /\ [File!Next]_(File!vars) => (File!TypeOK /\ File!AckedIsStored)'
  BY FileKeeps
<1> QED
  BY <1>1, <1>2, <1>3, PTL

\* "Wait until all transactions since the previous sync have committed"
\* (EncryptingIDBContext.js:163): what xSync answered SQLITE_OK for is on disk.
THEOREM AcknowledgedOnDisk ==
  ASSUME Params, ~ PurgeDuringSync
  PROVE  Spec => []AcknowledgedIsDurable
<1>1. File!AckedIsStored => AcknowledgedIsDurable
  BY DEF File!AckedIsStored, AcknowledgedIsDurable
<1> QED
  BY <1>1, PromisesHold, PTL

\* A reload takes nothing back: unless IndexedDB dropped writes, the file starts
\* again as it was after the transaction acknowledged last or after a later one.
THEOREM ReloadKeepsAcknowledged ==
  ASSUME Params, ~ PurgeDuringSync
  PROVE  Spec => [][Crash /\ ~ lost => \E i \in acked .. Len(hist) : hist' = <<hist[i]>>]_vars
<1>1. IInv /\ File!TypeOK /\ File!AckedIsStored =>
          (Crash /\ ~ lost => \E i \in acked .. Len(hist) : hist' = <<hist[i]>>)
  <2> SUFFICES ASSUME IInv, File!TypeOK, File!AckedIsStored, Crash, ~ lost
               PROVE  \E i \in acked .. Len(hist) : hist' = <<hist[i]>>
    OBVIOUS
  <2>1. PICK i \in 1 .. Len(hist) : Stored = i /\ hist[i] = Recovered(disk)
    BY OnDiskIs DEF IInv
  <2>2. hist' = <<hist[i]>>
    BY <2>1 DEF Crash
  <2>3. i \in acked .. Len(hist)
    BY <2>1 DEF File!TypeOK, File!AckedIsStored
  <2> QED
    BY <2>2, <2>3
<1> QED
  BY <1>1, IInvHolds, PromisesHold, PTL

================================================================================
