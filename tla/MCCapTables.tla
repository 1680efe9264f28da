---------------------------- MODULE MCCapTables ----------------------------
(* CapTables for safety checking: the objects but the main one, and the      *)
(* questions, are interchangeable.                                           *)
EXTENDS CapTables, TLC

CapSymmetry == Permutations(Objs \ {Main}) \cup Permutations(Questions)
=============================================================================
