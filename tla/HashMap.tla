------------------------------ MODULE HashMap -------------------------------
(***************************************************************************)
(* A hash table of ds-lib under any sequence of calls, with any hash       *)
(* function: it implements MapService.                                     *)
(***************************************************************************)
EXTENDS HashTable

CONSTANTS Keys, Values, NoValue

VARIABLES
  tab,     \* struct hash_tab
  result   \* what the last call returned

mapVars == <<tab, result>>

Elem == [key : Keys, val : Values]

ASSUME MapAssumption == Empty \notin Elem /\ NoValue \notin Values

MapInit ==
  /\ \E h \in [Keys -> Buckets] : tab = hash_clear(h)
  /\ result = TRUE

Insert(e) ==
  /\ tab' = hash_insert(tab, e)
  /\ result' = InsertSucceeds(tab, e)

Replace(e) ==
  /\ tab' = hash_replace(tab, e)
  /\ result' = (hash_find(tab, e.key) # Empty)

Delete(k) ==
  /\ tab' = hash_delete(tab, k)
  /\ result' = (hash_find(tab, k) # Empty)

Find(k) ==
  LET e == hash_find(tab, k)
  IN  /\ result' = IF e = Empty THEN NoValue ELSE e.val
      /\ UNCHANGED tab

Clear ==
  /\ tab' = hash_clear(tab.hash)
  /\ result' = TRUE

MapNext ==
  \/ Clear
  \/ \E k \in Keys : Delete(k) \/ Find(k)
  \/ \E e \in Elem : Insert(e) \/ Replace(e)

MapSpec == MapInit /\ [][MapNext]_mapVars

-----------------------------------------------------------------------------
(***************************************************************************)
(* Every element is where a probe for its key stops, so there is no free   *)
(* bucket between the one it hashes to and its own, whatever was deleted   *)
(* before, and elem_cnt is the number of elements (hash_delete moves       *)
(* elements back to keep this).                                            *)
(***************************************************************************)
ElementsReachable ==
  LET used == {i \in Buckets : Occupied(tab, i)}
  IN  /\ \A i \in used : StopsAt(tab, tab.bucket[i].key) = i
      /\ tab.elem_cnt = Cardinality(used)

\* The values in the buckets, wherever they are.
Contents ==
  [k \in Keys |->
     LET mine == {i \in Buckets : Occupied(tab, i) /\ tab.bucket[i].key = k}
     IN  IF mine = {} THEN NoValue ELSE tab.bucket[Min(mine)].val]

Map == INSTANCE MapService WITH map <- Contents, Capacity <- HASH_N

(***************************************************************************)
(* The table is a map with room for HASH_N keys: every call changes the    *)
(* contents and returns what the promise says (hash_insert, hash_replace,  *)
(* hash_delete, hash_find and hash_clear).                                 *)
(***************************************************************************)
ImplementsMap == Map!Spec
=============================================================================
