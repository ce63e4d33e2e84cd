--------------------------- MODULE MCOrangeProblem ---------------------------
(* Lab 12 on small instances; its threads are interchangeable.             *)
EXTENDS OrangeProblem, TLC

Symmetry == Permutations(Threads)
==============================================================================
