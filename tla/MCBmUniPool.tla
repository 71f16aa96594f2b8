---------------------------- MODULE MCBmUniPool -----------------------------
(***************************************************************************)
(* Small instances of BmUniPool.                                           *)
(***************************************************************************)
EXTENDS BmUniPool, TLC

Symmetry == Permutations(Macs)
=============================================================================
