------------------------------ MODULE MCInfoPool ------------------------------
(* Constants for checking InfoPool with TLC.                               *)
EXTENDS InfoPool, TLC

Symmetry == Permutations(Model) \cup Permutations(InfoId) \cup Permutations(User)
===============================================================================
