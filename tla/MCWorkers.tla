------------------------------ MODULE MCWorkers ------------------------------
(* Instances of Workers for TLC.                                            *)
EXTENDS Workers, TLC

Symmetry == Permutations(Workers) \cup Permutations(Names) \cup Permutations(Handlers)
==============================================================================
