------------------------------- MODULE MCRebuild -------------------------------
(* The consensus loop with one member, who may read every record. *)
EXTENDS Rebuild

CONSTANTS m1, r1, r2

MCReadable == [m \in {m1} |-> {r1, r2}]
================================================================================
