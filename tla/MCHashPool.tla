----------------------------- MODULE MCHashPool -----------------------------
(* HashPool for TLC: hash functions under which all clients collide, round  *)
(* the end of the table, and two of three addresses do.  The clients are    *)
(* interchangeable because their hashes are equal.                          *)
EXTENDS HashPool, TLC

MCMacHash == [m \in Macs |-> HASH_N - 1]

MCIpHash == [ip \in Pool |-> IF ip = PoolEnd THEN 0 ELSE HASH_N - 1]

Symmetry == Permutations(Macs)
=============================================================================
