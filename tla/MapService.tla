----------------------------- MODULE MapService -----------------------------
(***************************************************************************)
(* What the hash table promises its users: a finite map with room for      *)
(* Capacity keys.  An insertion into a full map fails, even of a key that  *)
(* is there; a replacement or a deletion fails for a key that is not.      *)
(***************************************************************************)
EXTENDS Naturals, FiniteSets

CONSTANTS Keys, Values, NoValue, Capacity

VARIABLES
  map,     \* the value of each key, or NoValue
  result   \* what the last call returned

Present == {k \in Keys : map[k] # NoValue}

Init ==
  /\ map = [k \in Keys |-> NoValue]
  /\ result = TRUE

Insert(k, v) ==
  LET room == Cardinality(Present) < Capacity
  IN  /\ map' = IF room THEN [map EXCEPT ![k] = v] ELSE map
      /\ result' = room

Replace(k, v) ==
  /\ map' = IF k \in Present THEN [map EXCEPT ![k] = v] ELSE map
  /\ result' = (k \in Present)

Delete(k) ==
  /\ map' = [map EXCEPT ![k] = NoValue]
  /\ result' = (k \in Present)

Find(k) ==
  /\ result' = map[k]
  /\ UNCHANGED map

Clear ==
  /\ map' = [k \in Keys |-> NoValue]
  /\ result' = TRUE

Next ==
  \/ Clear
  \/ \E k \in Keys : Delete(k) \/ Find(k)
  \/ \E k \in Keys, v \in Values : Insert(k, v) \/ Replace(k, v)

Spec == Init /\ [][Next]_<<map, result>>
=============================================================================
