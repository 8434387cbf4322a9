----------------------------- MODULE MCReplication -----------------------------
(* Replication for TLC: up to three devices, and orders on contents, keys and *)
(* signatures that disagree, as those of random ciphertexts and signatures.   *)
EXTENDS Replication, TLC

CONSTANTS d1, d2, d3

\* Ranks are injective: the author decides, then the version, then what it says.
Rank(author) == [x \in Write |->
    100 * author[x.by] + 10 * x.ver
        + (CASE x.says = "text" -> 1 [] x.says = "writer" -> 2 [] x.says = "revoked" -> 3)]

MCTextOrder == Rank(d1 :> 1 @@ d2 :> 2 @@ d3 :> 3)
MCSigOrder  == Rank(d1 :> 3 @@ d2 :> 1 @@ d3 :> 2)
MCKeyOrder  == [d \in Device |-> (d1 :> 2 @@ d2 :> 3 @@ d3 :> 1)[d]]

Symmetry == Permutations(File)

================================================================================
