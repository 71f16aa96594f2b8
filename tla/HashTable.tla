----------------------------- MODULE HashTable ------------------------------
(***************************************************************************)
(* The open-addressing hash table of ds-lib (hash.c), as operators on a    *)
(* table: a record of its hash function, its buckets and its hand-kept     *)
(* number of elements.  An element has a key, which hash and comp look at, *)
(* and a value, the rest of its bytes.                                     *)
(***************************************************************************)
EXTENDS Integers, FiniteSetsExt

CONSTANTS
  HASH_N,    \* the number of buckets
  Empty      \* a bucket that is not occupied

ASSUME HashAssumption == HASH_N \in Nat \ {0}

Buckets == 0 .. (HASH_N - 1)

\* The bucket n steps after i, and the steps from i to j, round the end.
After(i, n) == (i + n) % HASH_N

Steps(i, j) == (j - i) % HASH_N

\* hash_init and hash_clear.
hash_clear(h) == [hash |-> h, bucket |-> [i \in Buckets |-> Empty], elem_cnt |-> 0]

Occupied(t, i) == t.bucket[i] # Empty

-----------------------------------------------------------------------------
\* The steps at which a probe for key stops: a free bucket, or its element.
Stops(t, key) ==
  {n \in Buckets : LET i == After(t.hash[key], n)
                   IN  ~Occupied(t, i) \/ t.bucket[i].key = key}

StopsAt(t, key) == After(t.hash[key], Min(Stops(t, key)))

\* The element with this key, or Empty.
hash_find(t, key) == IF Stops(t, key) = {} THEN Empty ELSE t.bucket[StopsAt(t, key)]

InsertSucceeds(t, e) == t.elem_cnt # HASH_N /\ Stops(t, e.key) # {}

hash_insert(t, e) ==
  IF ~InsertSucceeds(t, e) THEN t
  ELSE LET i == StopsAt(t, e.key)
       IN  [t EXCEPT !.bucket[i] = e,
                     !.elem_cnt = IF Occupied(t, i) THEN @ ELSE @ + 1]

hash_replace(t, e) ==
  IF hash_find(t, e.key) = Empty THEN t ELSE [t EXCEPT !.bucket[StopsAt(t, e.key)] = e]

-----------------------------------------------------------------------------
\* Mutant: an element moves to a free bucket wherever its probe starts.
MoveAnywhere(t, i) ==
  LET holes == {n \in Buckets : ~Occupied(t, After(i, n))}
  IN  IF holes = {} THEN t
      ELSE [t EXCEPT !.bucket[After(i, Max(holes))] = t.bucket[i], !.bucket[i] = Empty]

\* Mutant: only an element right behind the hole moves.
MoveNeighbour(t, i) ==
  LET home == t.hash[t.bucket[i].key]
      hole == After(i, HASH_N - 1)
  IN  IF home = i \/ Occupied(t, hole) THEN t
      ELSE [t EXCEPT !.bucket[hole] = t.bucket[i], !.bucket[i] = Empty]

(***************************************************************************)
(* One turn of the second loop of hash_delete: the element of bucket i     *)
(* moves to the first free bucket between the one it hashes to and i.      *)
(***************************************************************************)
MoveBack(t, i) ==
  LET home == t.hash[t.bucket[i].key]
      holes == {n \in Buckets : n < Steps(home, i) /\ ~Occupied(t, After(home, n))}
  IN  IF holes = {} THEN t
      ELSE [t EXCEPT !.bucket[After(home, Min(holes))] = t.bucket[i], !.bucket[i] = Empty]

\* The loop goes on from bucket i to the first free bucket, at most once round.
Closed(t, i) ==
  LET turn[n \in Buckets] ==
        IF n = 0 THEN [tab |-> t, on |-> TRUE]
        ELSE LET last == turn[n - 1]
                 j == After(i, n)
             IN  IF last.on /\ Occupied(last.tab, j)
                 THEN [last EXCEPT !.tab = MoveBack(last.tab, j)]
                 ELSE [last EXCEPT !.on = FALSE]
  IN  turn[HASH_N - 1].tab

hash_delete(t, key) ==
  IF hash_find(t, key) = Empty THEN t
  ELSE LET i == StopsAt(t, key)
       IN  Closed([t EXCEPT !.bucket[i] = Empty, !.elem_cnt = @ - 1], i)
=============================================================================
