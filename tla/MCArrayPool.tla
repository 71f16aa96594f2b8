---------------------------- MODULE MCArrayPool -----------------------------
(***************************************************************************)
(* Small instances of ArrayPool.                                           *)
(***************************************************************************)
EXTENDS ArrayPool, TLC

Symmetry == Permutations(Macs)
=============================================================================
