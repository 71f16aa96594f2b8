------------------------------ MODULE MCCQueue ------------------------------
(* CQueue for TLC. *)
EXTENDS CQueue
=============================================================================
