--------------------------------- MODULE Chain ---------------------------------
(* consensus/chain.ts: verbs over a set of checkpoints.  A checkpoint is a    *)
(* record with hash, epoch and parent; the parent of a first one is Root.     *)
EXTENDS Integers, Sequences, FiniteSets, FiniteSetsExt, SequencesExt

Root == << >>       \* the parent '' of a first checkpoint, and "none" as a hash

ByHash(cps, h) == CHOOSE c \in cps : c.hash = h

\* Where the walk goes on from a hash; nowhere if it is unknown.
Parent(cps, h) ==
    IF \E c \in cps : c.hash = h THEN ByHash(cps, h).parent ELSE Root

\* The walk over the parent links, as many steps as there are checkpoints.
Walk(cps, hash) ==
    LET up[n \in 1 .. Cardinality(cps) + 1] ==
            IF n = 1 THEN hash ELSE Parent(cps, up[n - 1])
    IN  up

\* From a hash to the root by parent links, newest first; empty if unknown.
chainFrom(cps, hash) ==
    LET up    == SubSeq(Walk(cps, hash), 1, Cardinality(cps) + 1)
        known == {c.hash : c \in cps}
    IN  SubSeq(up, 1, Cardinality({n \in DOMAIN up : up[n] \in known}))

\* The checkpoints of highest epoch.  tip is the first of them in the order the
\* database lists the rows, which no ORDER BY fixes.
Tips(cps) ==
    IF cps = {} THEN {Root}
    ELSE {c.hash : c \in {x \in cps : \A y \in cps : y.epoch <= x.epoch}}

\* The places in chain a of what chain b has too.
Common(a, b) == LET inB == ToSet(b) IN {i \in DOMAIN a : a[i] \in inB}

\* Mutant: the chains are searched from the root.
mergeBaseOldest(cps, hashA, hashB) ==
    LET a == chainFrom(cps, hashA)
        common == Common(a, chainFrom(cps, hashB))
    IN  IF common = {} THEN Root ELSE a[Max(common)]

\* The most recent checkpoint on both chains, Root if there is none.
mergeBase(cps, hashA, hashB) ==
    LET a == chainFrom(cps, hashA)
        common == Common(a, chainFrom(cps, hashB))
    IN  IF common = {} THEN Root ELSE a[Min(common)]

isDescendant(cps, hash, ancestor) == ancestor \in ToSet(chainFrom(cps, hash))

================================================================================
