----------------------------- MODULE MCNprcPool -----------------------------
(***************************************************************************)
(* A small instance of NprcPool.                                           *)
(***************************************************************************)
EXTENDS NprcPool, TLC

Symmetry == Permutations(Macs)
=============================================================================
