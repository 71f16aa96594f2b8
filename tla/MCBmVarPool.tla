---------------------------- MODULE MCBmVarPool -----------------------------
(***************************************************************************)
(* Small instances of BmVarPool.                                           *)
(***************************************************************************)
EXTENDS BmVarPool, TLC

Symmetry == Permutations(Macs)
=============================================================================
