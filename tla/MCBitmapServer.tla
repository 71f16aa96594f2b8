--------------------------- MODULE MCBitmapServer ---------------------------
(***************************************************************************)
(* Small instances of BitmapServer.                                        *)
(***************************************************************************)
EXTENDS BitmapServer, TLC

Symmetry == Permutations(Macs)
=============================================================================
