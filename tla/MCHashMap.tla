----------------------------- MODULE MCHashMap ------------------------------
(* HashMap for TLC: the keys and the values are interchangeable, since Init *)
(* takes every hash function.                                               *)
EXTENDS HashMap, TLC

Symmetry == Permutations(Keys) \cup Permutations(Values)
=============================================================================
