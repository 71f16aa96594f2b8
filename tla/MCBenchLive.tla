----------------------------- MODULE MCBenchLive -----------------------------
(***************************************************************************)
(* A small instance of BenchLive.                                          *)
(***************************************************************************)
EXTENDS BenchLive, TLC

CONSTANTS m1, m2

MCClients == <<m1, m2>>

\* Two clients draw xids of their own, or the same one.
MCDraws == {(m1 :> 1 @@ m2 :> 2), (m1 :> 1 @@ m2 :> 1)}
=============================================================================
