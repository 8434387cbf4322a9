----------------------------- MODULE MCKeyRotation -----------------------------
(* KeyRotation for TLC.  Subjects are interchangeable, and so are the slots   *)
(* calls run in: no definition names one of them.                             *)
EXTENDS KeyRotation, TLC

Symmetry == Permutations(Subject) \cup Permutations(Call)

================================================================================
