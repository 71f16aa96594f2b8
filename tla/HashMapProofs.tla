--------------------------- MODULE HashMapProofs ----------------------------
(***************************************************************************)
(* Proofs about the hash table of ds-lib, for any number of buckets, any   *)
(* hash function and any keys: the calls keep every element where a probe  *)
(* for it ends, and the table is a map.                                    *)
(***************************************************************************)
EXTENDS HashMap, FiniteSetTheorems, WellFoundedInduction, TLAPS

-----------------------------------------------------------------------------
(***************************************************************************)
(* A non-empty set of naturals has a least element, which is its Min: the  *)
(* probes of hash.c stop at the first bucket that will do.  Inductions are *)
(* arguments about the least counterexample.                               *)
(***************************************************************************)
LEMMA LeastStep ==
  ASSUME NEW S \in SUBSET Nat, S # {}
  PROVE  Min(S) \in S /\ \A y \in S : Min(S) <= y
<1> DEFINE Below == {p \in Nat \X Nat : p[1] < p[2]}
<1>1. IsWellFoundedOn(Below, Nat)
  BY NatLessThanWellFounded DEF OpToRel
<1>2. PICK x \in S : \A y \in S : ~(<<y, x>> \in Below)
  BY <1>1, WFMin
<1>3. \A y \in S : x <= y
  <2> SUFFICES ASSUME NEW y \in S, ~(x <= y) PROVE FALSE
    OBVIOUS
  <2>1. <<y, x>> \in Below
    OBVIOUS
  <2>2. QED
    BY <1>2, <2>1
<1>4. QED
  BY <1>3 DEF Min

\* f[0] .. f[m] are m steps of F from x.
Iterates(f, S, F, x, m) ==
  f \in [0 .. m -> S] /\ f[0] = x /\ \A n \in 1 .. m : f[n] = F[<<f[n - 1], n>>]

(***************************************************************************)
(* A sequence of m steps of a function F on S from a start in S exists:    *)
(* the loops of the model are recursive functions of this form.            *)
(***************************************************************************)
LEMMA Iteration ==
  ASSUME NEW S, NEW F \in [S \X Nat -> S], NEW x \in S, NEW m \in Nat
  PROVE  \E f : Iterates(f, S, F, x, m)
<1> USE DEF Iterates
<1> DEFINE Runs(f, k) == Iterates(f, S, F, x, k)
           Bad == {k \in Nat : ~\E f : Runs(f, k)}
<1>1. SUFFICES Bad = {}
  BY <1>1
<1>2. SUFFICES ASSUME Bad # {} PROVE FALSE
  OBVIOUS
<1>3. PICK k \in Bad : \A y \in Bad : k <= y
  BY <1>2, LeastStep
<1>4. k # 0
  <2>1. Runs([n \in 0 .. 0 |-> x], 0)
    OBVIOUS
  <2>2. QED
    BY <2>1
<1>5. k - 1 \in Nat /\ k - 1 \notin Bad
  BY <1>3, <1>4
<1>6. PICK g : Runs(g, k - 1)
  BY <1>5
<1> DEFINE h == [n \in 0 .. k |-> IF n = k THEN F[<<g[k - 1], k>>] ELSE g[n]]
<1>7. \A n \in 0 .. (k - 1) : h[n] = g[n] /\ g[n] \in S
  BY <1>5, <1>6
<1>8. h[k] = F[<<g[k - 1], k>>] /\ h[k] \in S
  BY <1>5, <1>6
<1>9. h \in [0 .. k -> S] /\ h[0] = x
  BY <1>5, <1>6, <1>7, <1>8
<1> HIDE DEF h
<1>10. ASSUME NEW n \in 1 .. k PROVE h[n] = F[<<h[n - 1], n>>]
  <2>1. CASE n = k
    <3>1. k - 1 \in 0 .. (k - 1)
      BY <1>5
    <3>2. h[k - 1] = g[k - 1]
      BY <1>7, <3>1
    <3>3. QED
      BY <1>8, <2>1, <3>2
  <2>2. CASE n # k
    <3>1. n \in 1 .. (k - 1) /\ n \in 0 .. (k - 1) /\ n - 1 \in 0 .. (k - 1)
      BY <2>2
    <3>2. QED
      BY <1>6, <1>7, <3>1
  <2>3. QED
    BY <2>1, <2>2
<1>11. Runs(h, k)
  BY <1>9, <1>10
<1>12. QED
  BY <1>11

-----------------------------------------------------------------------------
(***************************************************************************)
(* Buckets without remainders.  Seen from a bucket b, the table starts at  *)
(* the bucket after b and ends with b: Rank(b, i) is where i is in it.     *)
(***************************************************************************)
Rank(b, i) == IF b < i THEN i - b - 1 ELSE i - b - 1 + HASH_N

\* The remainders the table takes: of at least -n and less than 2n.
LEMMA SmallRemainders ==
  ASSUME NEW n \in Nat \ {0}, NEW x \in (-n) .. (2 * n - 1)
  PROVE  x % n = IF x < 0 THEN x + n ELSE IF x < n THEN x ELSE x - n
<1>1. CASE x \in 0 .. (n - 1)
  BY <1>1
<1>2. CASE x >= n
  <2>1. PICK y \in 0 .. (n - 1) : x = y + n
    <3>1. x - n \in 0 .. (n - 1) /\ x = (x - n) + n
      BY <1>2
    <3>2. QED
      BY <3>1
  <2>2. (y + n) % n = y
    BY <2>1
  <2>3. QED
    BY <2>1, <2>2, <1>2
<1>3. CASE x < 0
  <2>1. PICK y \in 0 .. (n - 1) : x = y - n
    <3>1. x + n \in 0 .. (n - 1) /\ x = (x + n) - n
      BY <1>3
    <3>2. QED
      BY <3>1
  <2>2. (y - n) % n = y
    BY <2>1
  <2>3. QED
    BY <2>1, <2>2, <1>3
<1>4. QED
  BY <1>1, <1>2, <1>3

\* After and Steps without the remainder: at most one turn around the table.
LEMMA PlainSteps ==
  /\ \A i, n \in Buckets : After(i, n) = IF i + n < HASH_N THEN i + n ELSE i + n - HASH_N
  /\ \A i, j \in Buckets : Steps(i, j) = IF i <= j THEN j - i ELSE j - i + HASH_N
<1>1. ASSUME NEW i \in Buckets, NEW n \in Buckets
      PROVE  After(i, n) = IF i + n < HASH_N THEN i + n ELSE i + n - HASH_N
  <2> DEFINE x == i + n
  <2>1. x \in (-HASH_N) .. (2 * HASH_N - 1) /\ x >= 0
    BY HashAssumption DEF Buckets
  <2> HIDE DEF x
  <2>2. x % HASH_N = IF x < 0 THEN x + HASH_N ELSE IF x < HASH_N THEN x ELSE x - HASH_N
    BY <2>1, HashAssumption, SmallRemainders
  <2>3. x % HASH_N = IF x < HASH_N THEN x ELSE x - HASH_N
    BY <2>1, <2>2
  <2>4. After(i, n) = x % HASH_N
    BY DEF x, After
  <2>5. QED
    BY <2>3, <2>4, HashAssumption DEF x, Buckets
<1>2. ASSUME NEW i \in Buckets, NEW j \in Buckets
      PROVE  Steps(i, j) = IF i <= j THEN j - i ELSE j - i + HASH_N
  <2> DEFINE x == j - i
  <2>1. x \in (-HASH_N) .. (2 * HASH_N - 1) /\ x < HASH_N /\ (x < 0 <=> ~(i <= j))
    BY HashAssumption DEF Buckets
  <2> HIDE DEF x
  <2>2. x % HASH_N = IF x < 0 THEN x + HASH_N ELSE IF x < HASH_N THEN x ELSE x - HASH_N
    BY <2>1, HashAssumption, SmallRemainders
  <2>3. x % HASH_N = IF i <= j THEN x ELSE x + HASH_N
    BY <2>1, <2>2
  <2>4. QED
    BY <2>3 DEF x, Steps
<1>3. QED
  BY <1>1, <1>2

\* Seen from b, every bucket has a rank of its own, and b has the last one.
LEMMA Ranks ==
  ASSUME NEW b \in Buckets
  PROVE  /\ \A i \in Buckets : Rank(b, i) \in Buckets
         /\ \A i, j \in Buckets : Rank(b, i) = Rank(b, j) => i = j
         /\ Rank(b, b) = HASH_N - 1
BY HashAssumption DEF Buckets, Rank

\* Seen from b, steps go up by one each and start again behind b.
LEMMA RankAfter ==
  ASSUME NEW b \in Buckets, NEW i \in Buckets, NEW n \in Buckets
  PROVE  /\ After(i, n) \in Buckets
         /\ Rank(b, After(i, n)) = IF Rank(b, i) + n < HASH_N THEN Rank(b, i) + n
                                   ELSE Rank(b, i) + n - HASH_N
BY HashAssumption, PlainSteps DEF Buckets, Rank

\* The steps between two buckets lead from one to the other.
LEMMA StepsBetween ==
  ASSUME NEW i \in Buckets, NEW j \in Buckets
  PROVE  Steps(i, j) \in Buckets /\ After(i, Steps(i, j)) = j
<1>1. Steps(i, j) = IF i <= j THEN j - i ELSE j - i + HASH_N
  BY PlainSteps
<1>2. Steps(i, j) \in Buckets
  BY <1>1, HashAssumption DEF Buckets
<1>3. QED
  BY <1>1, <1>2, PlainSteps, HashAssumption DEF Buckets

\* Up to the end of the table as seen from b, the steps are the difference of the ranks.
LEMMA StepsUp ==
  ASSUME NEW b \in Buckets, NEW i \in Buckets, NEW j \in Buckets, Rank(b, i) <= Rank(b, j)
  PROVE  Steps(i, j) = Rank(b, j) - Rank(b, i)
<1>1. Steps(i, j) = IF i <= j THEN j - i ELSE j - i + HASH_N
  BY PlainSteps
<1>2. QED
  BY <1>1, HashAssumption DEF Buckets, Rank

-----------------------------------------------------------------------------
(***************************************************************************)
(* Tables of elements E with keys K.                                       *)
(***************************************************************************)
Storable(K, E) == Empty \notin E /\ \A e \in E : e.key \in K

Tables(K, E) == [hash : [K -> Buckets], bucket : [Buckets -> E \cup {Empty}], elem_cnt : Nat]

Used(t) == {i \in Buckets : Occupied(t, i)}

Elements(t) == {t.bucket[i] : i \in Used(t)}

Home(t, i) == t.hash[t.bucket[i].key]

OneEach(t) == \A i, j \in Used(t) : t.bucket[i].key = t.bucket[j].key => i = j

(***************************************************************************)
(* Seen from b, no probe runs over the end of the table, and there is no   *)
(* free bucket between an element and the bucket it hashes to.             *)
(***************************************************************************)
Packed(t, b) ==
  \A i \in Used(t) :
    /\ Rank(b, Home(t, i)) <= Rank(b, i)
    /\ \A p \in Buckets : Rank(b, Home(t, i)) <= Rank(b, p) /\ Rank(b, p) < Rank(b, i) => p \in Used(t)

(***************************************************************************)
(* What the calls preserve.  That every element is reachable is not enough *)
(* for a full table: two elements could each be in the way of the other,   *)
(* and a deletion would lose one of them.  In the tables that come up      *)
(* there is a bucket over which no probe for another element goes: one     *)
(* that is free, or the one that was filled last.                          *)
(***************************************************************************)
Sound(t) ==
  /\ OneEach(t)
  /\ \E b \in Buckets : Packed(t, b)
  /\ t.elem_cnt = Cardinality(Used(t))

-----------------------------------------------------------------------------
\* What is in a bucket of a table.
LEMMA BucketTypes ==
  ASSUME NEW K, NEW E, Storable(K, E), NEW t \in Tables(K, E)
  PROVE  /\ t.hash \in [K -> Buckets] /\ t.bucket \in [Buckets -> E \cup {Empty}] /\ t.elem_cnt \in Nat
         /\ \A i \in Used(t) : /\ i \in Buckets /\ t.bucket[i] \in E /\ t.bucket[i].key \in K
                               /\ Home(t, i) \in Buckets
         /\ \A i \in Buckets : i \notin Used(t) <=> t.bucket[i] = Empty
<1>1. t.hash \in [K -> Buckets] /\ t.bucket \in [Buckets -> E \cup {Empty}] /\ t.elem_cnt \in Nat
  BY DEF Tables
<1>2. ASSUME NEW i \in Used(t)
      PROVE  i \in Buckets /\ t.bucket[i] \in E /\ t.bucket[i].key \in K /\ Home(t, i) \in Buckets
  <2>1. i \in Buckets /\ t.bucket[i] # Empty
    BY DEF Used, Occupied
  <2>2. t.bucket[i] \in E /\ t.bucket[i].key \in K
    BY <1>1, <2>1 DEF Storable
  <2>3. QED
    BY <1>1, <2>1, <2>2 DEF Home
<1>3. QED
  BY <1>1, <1>2 DEF Used, Occupied

\* A probe stops at the element it looks for.
LEMMA FoundElement ==
  ASSUME NEW K, NEW E, Storable(K, E), NEW t \in Tables(K, E), Sound(t), NEW i \in Used(t)
  PROVE  /\ Stops(t, t.bucket[i].key) # {}
         /\ StopsAt(t, t.bucket[i].key) = i
         /\ hash_find(t, t.bucket[i].key) = t.bucket[i]
<1> DEFINE k == t.bucket[i].key
           home == Home(t, i)
           d == Steps(home, i)
<1>1. PICK b \in Buckets : Packed(t, b)
  BY DEF Sound
<1>2. i \in Buckets /\ home \in Buckets /\ home = t.hash[k] /\ t.bucket[i] # Empty
  BY BucketTypes DEF Home, Used, Occupied
<1>3. Rank(b, home) <= Rank(b, i) /\ Rank(b, i) \in Buckets /\ Rank(b, home) \in Buckets
  BY <1>1, <1>2, Ranks DEF Packed
<1>4. d \in Buckets /\ After(home, d) = i /\ d = Rank(b, i) - Rank(b, home)
  BY <1>2, <1>3, StepsBetween, StepsUp
<1>5. d \in Stops(t, k)
  BY <1>2, <1>4 DEF Stops
<1> HIDE DEF home, d
<1>6. ASSUME NEW n \in Stops(t, k), n < d PROVE FALSE
  <2> DEFINE p == After(home, n)
  <2>1. n \in Buckets /\ (p \notin Used(t) \/ t.bucket[p].key = k)
    BY <1>2, RankAfter DEF Stops, Used
  <2>2. p \in Buckets /\ Rank(b, p) = IF Rank(b, home) + n < HASH_N THEN Rank(b, home) + n
                                      ELSE Rank(b, home) + n - HASH_N
    BY <1>2, <2>1, RankAfter
  <2>3. Rank(b, home) <= Rank(b, p) /\ Rank(b, p) < Rank(b, i)
    BY <1>3, <1>4, <1>6, <2>1, <2>2, HashAssumption DEF Buckets
  <2>4. p \in Used(t)
    BY <1>1, <2>2, <2>3 DEF Packed, home
  <2>5. p = i
    BY <2>1, <2>4 DEF Sound, OneEach
  <2>6. QED
    BY <1>3, <2>3, <2>5, HashAssumption DEF Buckets
<1>7. Stops(t, k) \in SUBSET Nat /\ d \in Nat
  BY <1>4, HashAssumption DEF Stops, Buckets
<1>8. Min(Stops(t, k)) = d
  <2>1. Min(Stops(t, k)) \in Stops(t, k) /\ Min(Stops(t, k)) <= d
    BY <1>5, <1>7, LeastStep
  <2>2. QED
    BY <1>6, <1>7, <2>1
<1>9. QED
  BY <1>2, <1>4, <1>5, <1>8 DEF StopsAt, hash_find

\* A probe for a key that is not there stops at the first free bucket, if there is one.
LEMMA FoundNothing ==
  ASSUME NEW K, NEW E, Storable(K, E), NEW t \in Tables(K, E), NEW k \in K,
         \A i \in Used(t) : t.bucket[i].key # k
  PROVE  /\ hash_find(t, k) = Empty
         /\ Used(t) # Buckets => Stops(t, k) # {}
         /\ Stops(t, k) # {} =>
              /\ Min(Stops(t, k)) \in Buckets
              /\ StopsAt(t, k) \in Buckets \ Used(t)
              /\ \A n \in Buckets : n < Min(Stops(t, k)) => After(t.hash[k], n) \in Used(t)
<1>1. t.hash[k] \in Buckets
  BY BucketTypes
<1>2. \A n \in Buckets : After(t.hash[k], n) \in Buckets
  BY <1>1, RankAfter
<1>3. \A n \in Buckets : n \in Stops(t, k) <=> After(t.hash[k], n) \notin Used(t)
  BY <1>2 DEF Stops, Used
<1>4. Used(t) # Buckets => Stops(t, k) # {}
  <2>1. SUFFICES ASSUME NEW i \in Buckets \ Used(t) PROVE Stops(t, k) # {}
    BY DEF Used
  <2>2. Steps(t.hash[k], i) \in Buckets /\ After(t.hash[k], Steps(t.hash[k], i)) = i
    BY <1>1, StepsBetween
  <2>3. QED
    BY <1>3, <2>2
<1>5. ASSUME Stops(t, k) # {}
      PROVE  /\ Min(Stops(t, k)) \in Buckets
             /\ StopsAt(t, k) \in Buckets \ Used(t)
             /\ \A n \in Buckets : n < Min(Stops(t, k)) => After(t.hash[k], n) \in Used(t)
  <2>1. Stops(t, k) \in SUBSET Nat /\ Stops(t, k) \subseteq Buckets
    BY HashAssumption DEF Stops, Buckets
  <2>2. Min(Stops(t, k)) \in Stops(t, k) /\ \A n \in Stops(t, k) : Min(Stops(t, k)) <= n
    BY <1>5, <2>1, LeastStep
  <2>3. \A n \in Buckets : n < Min(Stops(t, k)) => n \notin Stops(t, k)
    BY <2>1, <2>2, HashAssumption DEF Buckets
  <2>4. QED
    BY <1>2, <1>3, <2>1, <2>2, <2>3 DEF StopsAt
<1>6. hash_find(t, k) = Empty
  BY <1>5 DEF hash_find, Used, Occupied
<1>7. QED
  BY <1>4, <1>5, <1>6

-----------------------------------------------------------------------------
\* The buckets are finitely many, and a table whose count is below HASH_N has a free one.
LEMMA Counting ==
  /\ IsFiniteSet(Buckets) /\ Cardinality(Buckets) = HASH_N
  /\ \A t : IsFiniteSet(Used(t)) /\ Cardinality(Used(t)) \in 0 .. HASH_N
  /\ \A t : Cardinality(Used(t)) = HASH_N <=> Used(t) = Buckets
<1>1. IsFiniteSet(Buckets) /\ Cardinality(Buckets) = HASH_N
  BY FS_Interval, HashAssumption DEF Buckets
<1>2. ASSUME NEW t
      PROVE  /\ IsFiniteSet(Used(t)) /\ Cardinality(Used(t)) \in 0 .. HASH_N
             /\ Cardinality(Used(t)) = HASH_N <=> Used(t) = Buckets
  <2>1. Used(t) \in SUBSET Buckets
    BY DEF Used
  <2>2. IsFiniteSet(Used(t)) /\ Cardinality(Used(t)) <= HASH_N
        /\ (Cardinality(Used(t)) = HASH_N => Used(t) = Buckets)
    BY <1>1, <2>1, FS_Subset
  <2>3. Cardinality(Used(t)) \in Nat
    BY <2>2, FS_CardinalityType
  <2>4. QED
    BY <1>1, <2>2, <2>3, HashAssumption
<1>3. QED
  BY <1>1, <1>2

\* A table with one bucket and the count set anew.
With(t, i, x, c) == [t EXCEPT !.bucket[i] = x, !.elem_cnt = c]

\* With is a table that differs in that bucket and that count alone.
LEMMA WithEffect ==
  ASSUME NEW K, NEW E, NEW t \in Tables(K, E), NEW i \in Buckets, NEW x \in E \cup {Empty}, NEW c \in Nat
  PROVE  /\ With(t, i, x, c) \in Tables(K, E)
         /\ With(t, i, x, c).hash = t.hash
         /\ \A j \in Buckets : With(t, i, x, c).bucket[j] = IF j = i THEN x ELSE t.bucket[j]
         /\ With(t, i, x, c).elem_cnt = c
<1> DEFINE f == [t.bucket EXCEPT ![i] = x]
           u == [t EXCEPT !.bucket = f, !.elem_cnt = c]
<1>1. t.bucket \in [Buckets -> E \cup {Empty}] /\ t.hash \in [K -> Buckets]
  BY DEF Tables
<1>2. f \in [Buckets -> E \cup {Empty}] /\ \A j \in Buckets : f[j] = IF j = i THEN x ELSE t.bucket[j]
  BY <1>1
<1>3. u = With(t, i, x, c)
  BY DEF With
<1> HIDE DEF f
<1>4. u \in Tables(K, E) /\ u.hash = t.hash /\ u.bucket = f /\ u.elem_cnt = c
  BY <1>1, <1>2 DEF Tables
<1> HIDE DEF u
<1>5. QED
  BY <1>2, <1>3, <1>4

\* The table after a store of an element in bucket i.
LEMMA StoreEffect ==
  ASSUME NEW K, NEW E, Storable(K, E), NEW t \in Tables(K, E), NEW i \in Buckets, NEW e \in E,
         NEW c \in Nat
  PROVE  LET u == With(t, i, e, c)
         IN  /\ u \in Tables(K, E) /\ u.hash = t.hash /\ u.elem_cnt = c
             /\ Used(u) = Used(t) \cup {i}
             /\ u.bucket[i] = e
             /\ \A j \in Buckets : j # i => u.bucket[j] = t.bucket[j] /\ Home(u, j) = Home(t, j)
             /\ Home(u, i) = t.hash[e.key]
<1> DEFINE u == With(t, i, e, c)
<1>1. u \in Tables(K, E) /\ u.hash = t.hash /\ u.elem_cnt = c
      /\ \A j \in Buckets : u.bucket[j] = IF j = i THEN e ELSE t.bucket[j]
  BY WithEffect
<1>2. e # Empty
  BY DEF Storable
<1> HIDE DEF u
<1>3. /\ Used(u) = Used(t) \cup {i}
      /\ u.bucket[i] = e
      /\ \A j \in Buckets : j # i => u.bucket[j] = t.bucket[j] /\ Home(u, j) = Home(t, j)
      /\ Home(u, i) = t.hash[e.key]
  BY <1>1, <1>2 DEF Used, Occupied, Home
<1>4. QED
  BY <1>1, <1>3 DEF u

(***************************************************************************)
(* A new element goes to the first free bucket of its probe, over which no *)
(* probe for another element goes.                                         *)
(***************************************************************************)
LEMMA InsertNew ==
  ASSUME NEW K, NEW E, Storable(K, E), NEW t \in Tables(K, E), Sound(t), NEW e \in E,
         \A i \in Used(t) : t.bucket[i].key # e.key, t.elem_cnt # HASH_N
  PROVE  /\ InsertSucceeds(t, e)
         /\ hash_insert(t, e) \in Tables(K, E)
         /\ hash_insert(t, e).hash = t.hash
         /\ hash_insert(t, e).elem_cnt = t.elem_cnt + 1
         /\ Elements(hash_insert(t, e)) = Elements(t) \cup {e}
         /\ Sound(hash_insert(t, e))
<1> USE Zenon, SMTT(15)
<1> DEFINE k == e.key
           i == StopsAt(t, k)
           n == Min(Stops(t, k))
           u == hash_insert(t, e)
<1>1. k \in K /\ t.hash[k] \in Buckets /\ Used(t) # Buckets
  BY BucketTypes, Counting DEF Storable, Sound
<1>2. Stops(t, k) # {} /\ n \in Buckets /\ i \in Buckets \ Used(t) /\ i = After(t.hash[k], n)
      /\ \A m \in Buckets : m < n => After(t.hash[k], m) \in Used(t)
  BY <1>1, FoundNothing DEF StopsAt
<1>3. InsertSucceeds(t, e)
  BY <1>2 DEF InsertSucceeds
<1>4. u = With(t, i, e, t.elem_cnt + 1)
  BY <1>2, <1>3 DEF hash_insert, Used, With
<1> HIDE DEF i, n, u
<1>5. i \in Buckets /\ t.elem_cnt + 1 \in Nat
  BY <1>2, BucketTypes
<1>6. /\ u \in Tables(K, E) /\ u.hash = t.hash /\ u.elem_cnt = t.elem_cnt + 1
      /\ Used(u) = Used(t) \cup {i}
      /\ u.bucket[i] = e
      /\ \A j \in Buckets : j # i => u.bucket[j] = t.bucket[j] /\ Home(u, j) = Home(t, j)
      /\ Home(u, i) = t.hash[k]
  BY <1>4, <1>5, StoreEffect
<1>7. Elements(u) = Elements(t) \cup {e}
  BY <1>2, <1>6 DEF Elements, Used
<1>8. OneEach(u)
  BY <1>2, <1>6 DEF OneEach, Sound, Used
<1>9. Packed(u, i)
  <2> SUFFICES ASSUME NEW j \in Used(u)
               PROVE  /\ Rank(i, Home(u, j)) <= Rank(i, j)
                      /\ \A p \in Buckets : Rank(i, Home(u, j)) <= Rank(i, p) /\ Rank(i, p) < Rank(i, j)
                                              => p \in Used(u)
    BY DEF Packed
  <2>1. j \in Buckets /\ Home(u, j) \in Buckets /\ i \in Buckets
    BY <1>2, <1>6, BucketTypes
  <2>2. CASE j = i
    <3>1. Home(u, j) = t.hash[k] /\ Rank(i, i) = HASH_N - 1 /\ Rank(i, t.hash[k]) \in Buckets
      BY <1>1, <1>2, <1>6, <2>2, Ranks
    <3>2. n = HASH_N - 1 - Rank(i, t.hash[k])
      <4>1. Rank(i, i) = IF Rank(i, t.hash[k]) + n < HASH_N THEN Rank(i, t.hash[k]) + n
                         ELSE Rank(i, t.hash[k]) + n - HASH_N
        BY <1>1, <1>2, RankAfter
      <4>2. QED
        BY <1>2, <3>1, <4>1, HashAssumption DEF Buckets
    <3>3. ASSUME NEW p \in Buckets, Rank(i, t.hash[k]) <= Rank(i, p), Rank(i, p) < Rank(i, i)
          PROVE  p \in Used(t)
      <4>1. Steps(t.hash[k], p) = Rank(i, p) - Rank(i, t.hash[k])
        BY <1>1, <1>2, <3>3, StepsUp
      <4>2. Steps(t.hash[k], p) \in Buckets /\ After(t.hash[k], Steps(t.hash[k], p)) = p
        BY <1>1, StepsBetween
      <4>3. Rank(i, p) \in Buckets
        BY <1>2, Ranks
      <4>4. Steps(t.hash[k], p) < n
        BY <3>1, <3>2, <3>3, <4>1, <4>3, HashAssumption DEF Buckets
      <4>5. QED
        BY <1>2, <4>2, <4>4
    <3>4. QED
      BY <1>6, <2>2, <3>1, <3>3, HashAssumption DEF Buckets
  <2>3. CASE j # i
    <3>1. j \in Used(t) /\ Home(u, j) = Home(t, j)
      BY <1>6, <2>1, <2>3
    <3>2. PICK b \in Buckets : Packed(t, b)
      BY DEF Sound
    <3>3. /\ Rank(b, Home(t, j)) <= Rank(b, j)
          /\ \A p \in Buckets : Rank(b, Home(t, j)) <= Rank(b, p) /\ Rank(b, p) < Rank(b, j) => p \in Used(t)
      BY <3>1, <3>2 DEF Packed
    <3>4. ~(Rank(b, Home(t, j)) <= Rank(b, i) /\ Rank(b, i) <= Rank(b, j))
      <4>1. Rank(b, i) # Rank(b, j)
        BY <2>1, <2>3, <3>2, Ranks
      <4>2. Rank(b, i) \in Buckets /\ Rank(b, j) \in Buckets
        BY <2>1, <3>2, Ranks
      <4>3. QED
        BY <1>2, <3>3, <4>1, <4>2, HashAssumption DEF Buckets
    <3>5. QED
      <4> DEFINE home == Home(t, j)
      <4>1. home \in Buckets
        BY <2>1, <3>1
      <4> HIDE DEF home
      <4>2. Rank(b, home) <= Rank(b, j) /\ ~(Rank(b, home) <= Rank(b, i) /\ Rank(b, i) <= Rank(b, j))
        BY <3>3, <3>4 DEF home
      <4>3. Rank(i, home) <= Rank(i, j)
        BY <2>1, <3>2, <4>1, <4>2, HashAssumption DEF Buckets, Rank
      <4>4. \A p \in Buckets : Rank(i, home) <= Rank(i, p) /\ Rank(i, p) < Rank(i, j)
                                 => Rank(b, home) <= Rank(b, p) /\ Rank(b, p) < Rank(b, j)
        BY <2>1, <3>2, <4>1, <4>2, HashAssumption DEF Buckets, Rank
      <4>5. QED
        BY <1>6, <3>1, <3>3, <4>3, <4>4 DEF home
  <2>4. QED
    BY <2>2, <2>3
<1>10. u.elem_cnt = Cardinality(Used(u))
  <2>1. Cardinality(Used(t) \cup {i}) = Cardinality(Used(t)) + 1
    BY <1>2, Counting, FS_AddElement
  <2>2. QED
    BY <1>6, <2>1 DEF Sound
<1>11. Sound(u)
  BY <1>2, <1>8, <1>9, <1>10 DEF Sound
<1>12. QED
  BY <1>3, <1>6, <1>7, <1>11 DEF u

(***************************************************************************)
(* An element that takes the place of one with its key (replace_elem).     *)
(***************************************************************************)
LEMMA StoreOld ==
  ASSUME NEW K, NEW E, Storable(K, E), NEW t \in Tables(K, E), Sound(t), NEW i \in Used(t), NEW e \in E,
         e.key = t.bucket[i].key
  PROVE  LET u == With(t, i, e, t.elem_cnt)
         IN  /\ u = [t EXCEPT !.bucket[i] = e]
             /\ u \in Tables(K, E) /\ u.hash = t.hash /\ u.elem_cnt = t.elem_cnt
             /\ Elements(u) = (Elements(t) \ {t.bucket[i]}) \cup {e}
             /\ Sound(u)
<1> USE Zenon, SMTT(15)
<1> DEFINE u == With(t, i, e, t.elem_cnt)
<1>1. i \in Buckets /\ t.elem_cnt \in Nat
  BY BucketTypes
<1>2. u = [t EXCEPT !.bucket[i] = e]
  BY DEF With, Tables
<1>3. /\ u \in Tables(K, E) /\ u.hash = t.hash /\ u.elem_cnt = t.elem_cnt
      /\ Used(u) = Used(t) \cup {i}
      /\ u.bucket[i] = e
      /\ \A j \in Buckets : j # i => u.bucket[j] = t.bucket[j] /\ Home(u, j) = Home(t, j)
      /\ Home(u, i) = t.hash[e.key]
  BY <1>1, StoreEffect
<1> HIDE DEF u
<1>4. Used(u) = Used(t) /\ Used(t) \subseteq Buckets
  BY <1>3 DEF Used
<1>5. \A j \in Used(t) : u.bucket[j].key = t.bucket[j].key /\ Home(u, j) = Home(t, j)
  BY <1>3, <1>4 DEF Home
<1>6. OneEach(u)
  BY <1>4, <1>5 DEF OneEach, Sound
<1>7. \A b \in Buckets : Packed(t, b) => Packed(u, b)
  BY <1>4, <1>5 DEF Packed
<1>8. Sound(u)
  BY <1>3, <1>4, <1>6, <1>7 DEF Sound
<1>9. Elements(u) = (Elements(t) \ {t.bucket[i]}) \cup {e}
  <2>1. \A j \in Used(t) : t.bucket[j] = t.bucket[i] => j = i
    BY DEF Sound, OneEach
  <2>2. QED
    BY <1>3, <1>4, <2>1 DEF Elements
<1>10. QED
  BY <1>2, <1>3, <1>8, <1>9 DEF u

\* The table after bucket i was cleared.
LEMMA EraseEffect ==
  ASSUME NEW K, NEW E, Storable(K, E), NEW t \in Tables(K, E), NEW i \in Buckets, NEW c \in Nat
  PROVE  LET u == With(t, i, Empty, c)
         IN  /\ u \in Tables(K, E) /\ u.hash = t.hash /\ u.elem_cnt = c
             /\ Used(u) = Used(t) \ {i}
             /\ \A j \in Used(u) : u.bucket[j] = t.bucket[j] /\ Home(u, j) = Home(t, j)
<1> DEFINE u == With(t, i, Empty, c)
<1>1. PICK x \in E \cup {Empty} : x = Empty
  OBVIOUS
<1>2. /\ With(t, i, x, c) \in Tables(K, E)
      /\ With(t, i, x, c).hash = t.hash
      /\ \A j \in Buckets : With(t, i, x, c).bucket[j] = IF j = i THEN x ELSE t.bucket[j]
      /\ With(t, i, x, c).elem_cnt = c
  BY WithEffect
<1>3. With(t, i, x, c) = u
  BY <1>1
<1> HIDE DEF u
<1>4. u \in Tables(K, E) /\ u.hash = t.hash /\ u.elem_cnt = c
      /\ \A j \in Buckets : u.bucket[j] = IF j = i THEN Empty ELSE t.bucket[j]
  BY <1>1, <1>2, <1>3
<1>5. /\ Used(u) = Used(t) \ {i}
      /\ \A j \in Used(u) : u.bucket[j] = t.bucket[j] /\ Home(u, j) = Home(t, j)
  BY <1>4 DEF Used, Occupied, Home
<1>6. QED
  BY <1>4, <1>5 DEF u

\* The element of bucket j moved to bucket h.
Moved(t, j, h) == [t EXCEPT !.bucket[h] = t.bucket[j], !.bucket[j] = Empty]

\* A move to an empty bucket keeps the elements, and every other bucket.
LEMMA MovedEffect ==
  ASSUME NEW K, NEW E, Storable(K, E), NEW t \in Tables(K, E), NEW j \in Used(t), NEW h \in Buckets \ Used(t)
  PROVE  LET u == Moved(t, j, h)
         IN  /\ u \in Tables(K, E) /\ u.hash = t.hash /\ u.elem_cnt = t.elem_cnt
             /\ Used(u) = (Used(t) \cup {h}) \ {j}
             /\ u.bucket[h] = t.bucket[j] /\ Home(u, h) = Home(t, j)
             /\ \A i \in Used(u) : i # h => i \in Used(t) /\ u.bucket[i] = t.bucket[i] /\ Home(u, i) = Home(t, i)
             /\ Elements(u) = Elements(t)
<1> USE Zenon, SMTT(15)
<1> DEFINE x == t.bucket[j]
           c == t.elem_cnt
           v == With(t, h, x, c)
           u == With(v, j, Empty, c)
<1>1. j \in Buckets /\ h \in Buckets /\ j # h /\ x \in E /\ c \in Nat
  BY BucketTypes
<1>2. u = Moved(t, j, h)
  BY <1>1 DEF With, Moved, Tables
<1> HIDE DEF x, c
<1>3. v \in Tables(K, E) /\ v.hash = t.hash
      /\ \A i \in Buckets : v.bucket[i] = IF i = h THEN x ELSE t.bucket[i]
  BY <1>1, WithEffect
<1> HIDE DEF v
<1>4. u \in Tables(K, E) /\ u.hash = t.hash /\ u.elem_cnt = c
      /\ \A i \in Buckets : u.bucket[i] = IF i = j THEN Empty ELSE v.bucket[i]
  <2>1. v \in Tables(K, E) /\ j \in Buckets /\ Empty \in E \cup {Empty} /\ c \in Nat
    BY <1>1, <1>3
  <2>2. u \in Tables(K, E) /\ u.hash = v.hash /\ u.elem_cnt = c
        /\ \A i \in Buckets : u.bucket[i] = IF i = j THEN Empty ELSE v.bucket[i]
    BY <2>1, WithEffect
  <2>3. QED
    BY <1>3, <2>2
<1> HIDE DEF u
<1>5. \A i \in Buckets : u.bucket[i] = IF i = j THEN Empty ELSE IF i = h THEN t.bucket[j] ELSE t.bucket[i]
  BY <1>3, <1>4 DEF x
<1>6. Used(u) = (Used(t) \cup {h}) \ {j}
  BY <1>1, <1>5 DEF Used, Occupied, Storable, x
<1>7. u.bucket[h] = t.bucket[j] /\ Home(u, h) = Home(t, j)
  BY <1>1, <1>4, <1>5 DEF Home
<1>8. \A i \in Used(u) : i # h => i \in Used(t) /\ u.bucket[i] = t.bucket[i] /\ Home(u, i) = Home(t, i)
  BY <1>4, <1>5, <1>6 DEF Home, Used
<1>9. Elements(u) = Elements(t)
  <2>1. ASSUME NEW e \in Elements(u) PROVE e \in Elements(t)
    <3>1. PICK i \in Used(u) : e = u.bucket[i]
      BY <2>1 DEF Elements
    <3>2. QED
      BY <1>7, <1>8, <3>1 DEF Elements
  <2>2. ASSUME NEW e \in Elements(t) PROVE e \in Elements(u)
    <3>1. PICK i \in Used(t) : e = t.bucket[i]
      BY <2>2 DEF Elements
    <3>2. CASE i = j
      BY <1>1, <1>6, <1>7, <3>1, <3>2 DEF Elements
    <3>3. CASE i # j
      BY <1>6, <1>8, <3>1, <3>3 DEF Elements
    <3>4. QED
      BY <3>2, <3>3
  <2>3. QED
    BY <2>1, <2>2
<1>10. QED
  BY <1>2, <1>4, <1>6, <1>7, <1>8, <1>9 DEF c

-----------------------------------------------------------------------------
(***************************************************************************)
(* The second loop of hash_delete.                                         *)
(***************************************************************************)
\* An element stays, or moves to a free bucket on its way from the one it hashes to.
LEMMA MoveBackCases ==
  ASSUME NEW K, NEW E, Storable(K, E), NEW t \in Tables(K, E), NEW j \in Used(t)
  PROVE  \/ /\ MoveBack(t, j) = t
            /\ \A n \in Buckets : n < Steps(Home(t, j), j) => After(Home(t, j), n) \in Used(t)
         \/ \E n \in Buckets :
              /\ n < Steps(Home(t, j), j)
              /\ After(Home(t, j), n) \in Buckets \ Used(t)
              /\ MoveBack(t, j) = Moved(t, j, After(Home(t, j), n))
<1> DEFINE holes == {n \in Buckets : n < Steps(Home(t, j), j) /\ ~Occupied(t, After(Home(t, j), n))}
<1>1. Home(t, j) \in Buckets
  BY BucketTypes
<1>2. \A n \in Buckets : After(Home(t, j), n) \in Buckets
  BY <1>1, RankAfter
<1>3. MoveBack(t, j) = IF holes = {} THEN t ELSE Moved(t, j, After(Home(t, j), Min(holes)))
  BY DEF MoveBack, Moved, Home
<1>4. CASE holes = {}
  BY <1>2, <1>3, <1>4 DEF Used
<1>5. CASE holes # {}
  <2>1. holes \in SUBSET Nat
    BY HashAssumption DEF Buckets
  <2> HIDE DEF holes
  <2>2. Min(holes) \in holes
    BY <1>5, <2>1, LeastStep
  <2>3. Min(holes) \in Buckets /\ Min(holes) < Steps(Home(t, j), j)
        /\ ~Occupied(t, After(Home(t, j), Min(holes)))
    BY <2>2 DEF holes
  <2>4. QED
    BY <1>2, <1>3, <1>5, <2>3 DEF Used
<1>6. QED
  BY <1>4, <1>5

\* One turn, at the bucket n steps after i.
Turn(s, i, n) ==
  IF s.on /\ Occupied(s.tab, After(i, n))
  THEN [s EXCEPT !.tab = MoveBack(s.tab, After(i, n))]
  ELSE [s EXCEPT !.on = FALSE]

\* A turn moves the element it meets back, and an empty bucket ends the loop.
LEMMA TurnEffect ==
  ASSUME NEW K, NEW E, Storable(K, E), NEW s \in [tab : Tables(K, E), on : BOOLEAN],
         NEW i \in Buckets, NEW n \in Buckets
  PROVE  /\ Turn(s, i, n) \in [tab : Tables(K, E), on : BOOLEAN]
         /\ s.on /\ After(i, n) \in Used(s.tab) =>
              Turn(s, i, n).tab = MoveBack(s.tab, After(i, n)) /\ Turn(s, i, n).on
         /\ ~(s.on /\ After(i, n) \in Used(s.tab)) =>
              Turn(s, i, n).tab = s.tab /\ ~Turn(s, i, n).on
<1> DEFINE j == After(i, n)
<1>1. j \in Buckets /\ (Occupied(s.tab, j) <=> j \in Used(s.tab))
  BY RankAfter DEF Used
<1>2. ASSUME j \in Used(s.tab) PROVE MoveBack(s.tab, j) \in Tables(K, E)
  BY <1>2, MoveBackCases, MovedEffect
<1>3. CASE s.on /\ j \in Used(s.tab)
  BY <1>1, <1>2, <1>3 DEF Turn
<1>4. CASE ~(s.on /\ j \in Used(s.tab))
  BY <1>1, <1>4 DEF Turn
<1>5. QED
  BY <1>3, <1>4

\* The loop is a sequence of turns.
LEMMA ClosedByTurns ==
  ASSUME NEW K, NEW E, Storable(K, E), NEW t \in Tables(K, E), NEW i \in Buckets
  PROVE  \E f : /\ f[0] = [tab |-> t, on |-> TRUE]
                /\ \A n \in 1 .. (HASH_N - 1) : f[n] = Turn(f[n - 1], i, n)
                /\ Closed(t, i) = f[HASH_N - 1].tab
<1> DEFINE S == [tab : Tables(K, E), on : BOOLEAN]
           F == [p \in S \X Nat |-> IF p[2] \in Buckets THEN Turn(p[1], i, p[2]) ELSE p[1]]
           start == [tab |-> t, on |-> TRUE]
           Loop(f) == [n \in Buckets |-> IF n = 0 THEN start ELSE Turn(f[n - 1], i, n)]
           g == CHOOSE f : f = Loop(f)
<1>1. start \in S
  OBVIOUS
<1>2. F \in [S \X Nat -> S]
  <2>1. \A s \in S, n \in Nat : n \in Buckets => Turn(s, i, n) \in S
    BY TurnEffect
  <2>2. QED
    BY <2>1
<1>3. \A s \in S, n \in Buckets : F[<<s, n>>] = Turn(s, i, n)
  BY HashAssumption DEF Buckets
<1> HIDE DEF S, F, start
<1>4. PICK f : Iterates(f, S, F, start, HASH_N - 1)
  <2>1. HASH_N - 1 \in Nat
    BY HashAssumption
  <2>2. QED
    BY <1>1, <1>2, <2>1, Iteration
<1>5. f = Loop(f)
  <2>1. ASSUME NEW n \in Buckets, n # 0 PROVE f[n] = Turn(f[n - 1], i, n)
    <3>1. n \in 1 .. (HASH_N - 1) /\ n - 1 \in 0 .. (HASH_N - 1)
      BY <2>1, HashAssumption DEF Buckets
    <3>2. QED
      BY <1>3, <1>4, <3>1 DEF Iterates
  <2>2. f \in [Buckets -> S] /\ f[0] = start
    BY <1>4 DEF Buckets, Iterates
  <2>3. QED
    BY <2>1, <2>2
<1>6. g = Loop(g)
  BY <1>5
<1>7. Closed(t, i) = g[HASH_N - 1].tab
  BY DEF Closed, Turn, start
<1> HIDE DEF g
<1>8. g[0] = start /\ \A n \in 1 .. (HASH_N - 1) : g[n] = Turn(g[n - 1], i, n)
  <2>1. 0 \in Buckets /\ \A n \in 1 .. (HASH_N - 1) : n \in Buckets /\ n # 0
    BY HashAssumption DEF Buckets
  <2>2. QED
    BY <1>6, <2>1
<1>9. QED
  BY <1>7, <1>8 DEF start

(***************************************************************************)
(* After n turns on table t without the element of bucket i: there is one  *)
(* hole h that was not there before.  Only for elements the loop has still *)
(* to come to does the probe go over it.                                   *)
(***************************************************************************)
Pending(s, i, b, n, k) == s.on /\ Rank(b, k) > Rank(b, i) + n

Reaches(s, i, b, n, h, k) ==
  /\ Rank(b, Home(s.tab, k)) <= Rank(b, k)
  /\ \A p \in Buckets : Rank(b, Home(s.tab, k)) <= Rank(b, p) /\ Rank(b, p) < Rank(b, k)
        => p \in Used(s.tab) \/ (p = h /\ Pending(s, i, b, n, k))

Mending(t, i, b, n, s, h) ==
  /\ h \in Used(t) /\ Rank(b, i) <= Rank(b, h) /\ Rank(b, h) <= Rank(b, i) + n
  /\ s.tab.hash = t.hash /\ s.tab.elem_cnt = t.elem_cnt - 1
  /\ Used(s.tab) = Used(t) \ {h}
  /\ Elements(s.tab) = Elements(t) \ {t.bucket[i]}
  /\ OneEach(s.tab)
  /\ \A k \in Used(s.tab) : Reaches(s, i, b, n, h, k)

\* The element at which the loop is may have moved into the hole, and left another one.
LEMMA MendingMove ==
  ASSUME NEW K, NEW E, Storable(K, E), NEW t \in Tables(K, E), NEW i \in Buckets, NEW b \in Buckets,
         NEW s \in [tab : Tables(K, E), on : BOOLEAN], NEW n \in 1 .. (HASH_N - 1), NEW h,
         Mending(t, i, b, n - 1, s, h), s.on, After(i, n) \in Used(s.tab)
  PROVE  \E g : Mending(t, i, b, n, Turn(s, i, n), g)
<1> USE Zenon, SMTT(15)
<1> DEFINE j == After(i, n)
           T == s.tab
           u == Turn(s, i, n)
           home == Home(T, j)
<1>1. n \in Buckets /\ n \in Nat /\ HASH_N \in Nat
  BY HashAssumption DEF Buckets
<1>2. h \in Buckets /\ j \in Buckets /\ home \in Buckets /\ T \in Tables(K, E)
  BY <1>1, BucketTypes DEF Mending
<1>3. \A k \in Buckets : Rank(b, k) \in Nat /\ Rank(b, k) < HASH_N
  <2>1. \A r \in Buckets : r \in Nat /\ r < HASH_N
    BY HashAssumption DEF Buckets
  <2>2. QED
    BY <2>1, Ranks
<1>4. \A k, m \in Buckets : Rank(b, k) = Rank(b, m) => k = m
  BY Ranks
<1>5. Rank(b, j) = IF Rank(b, i) + n < HASH_N THEN Rank(b, i) + n ELSE Rank(b, i) + n - HASH_N
  BY <1>1, RankAfter
<1>6. u.tab = MoveBack(T, j) /\ u.on /\ u \in [tab : Tables(K, E), on : BOOLEAN]
  BY <1>1, TurnEffect
<1>7. Used(T) \subseteq Buckets /\ \A k \in Used(T) : Reaches(s, i, b, n - 1, h, k)
  BY DEF Mending, Used
<1> HIDE DEF j, T, u, home
<1>8. CASE /\ MoveBack(T, j) = T
           /\ \A m \in Buckets : m < Steps(home, j) => After(home, m) \in Used(T)
  <2>1. ASSUME NEW k \in Used(T), NEW p \in Buckets,
               Rank(b, Home(T, k)) <= Rank(b, p), Rank(b, p) < Rank(b, k)
        PROVE  p \in Used(T) \/ (p = h /\ Rank(b, k) > Rank(b, i) + n)
    <3>1. p \in Used(T) \/ (p = h /\ Rank(b, k) > Rank(b, i) + (n - 1))
      BY <1>7, <2>1 DEF Reaches, Pending, T
    <3>2. CASE Rank(b, k) = Rank(b, i) + n
      <4>1. k = j
        BY <1>1, <1>2, <1>3, <1>4, <1>5, <1>7, <3>2
      <4>2. Rank(b, home) <= Rank(b, p) /\ Rank(b, home) <= Rank(b, j)
        BY <1>2, <1>3, <2>1, <4>1 DEF home
      <4>3. Steps(home, p) = Rank(b, p) - Rank(b, home) /\ Steps(home, j) = Rank(b, j) - Rank(b, home)
        BY <1>2, <4>2, StepsUp
      <4>4. Steps(home, p) \in Buckets /\ After(home, Steps(home, p)) = p
        BY <1>2, StepsBetween
      <4>5. Steps(home, p) < Steps(home, j)
        BY <1>2, <1>3, <2>1, <4>1, <4>3
      <4>6. QED
        BY <1>8, <4>4, <4>5
    <3>3. CASE Rank(b, k) # Rank(b, i) + n
      <4>1. Rank(b, k) \in Nat /\ Rank(b, i) \in Nat
        BY <1>3, <1>7
      <4>2. Rank(b, k) > Rank(b, i) + (n - 1) => Rank(b, k) > Rank(b, i) + n
        BY <1>1, <3>3, <4>1
      <4>3. QED
        BY <3>1, <4>2
    <3>4. QED
      BY <3>2, <3>3
  <2>2. \A k \in Used(T) : Reaches(u, i, b, n, h, k)
    BY <1>6, <1>7, <1>8, <2>1 DEF Reaches, Pending, T
  <2>3. Rank(b, h) <= Rank(b, i) + n
    <3>1. Rank(b, h) <= Rank(b, i) + (n - 1)
      BY DEF Mending
    <3>2. Rank(b, h) \in Nat /\ Rank(b, i) \in Nat
      BY <1>2, <1>3
    <3>3. QED
      BY <1>1, <3>1, <3>2
  <2>4. Mending(t, i, b, n, u, h)
    BY <1>6, <1>8, <2>2, <2>3 DEF Mending, T
  <2>5. QED
    BY <2>4 DEF u
<1>9. CASE \E m \in Buckets : /\ m < Steps(home, j)
                              /\ After(home, m) \in Buckets \ Used(T)
                              /\ MoveBack(T, j) = Moved(T, j, After(home, m))
  <2>1. PICK m \in Buckets : /\ m < Steps(home, j)
                             /\ After(home, m) \in Buckets \ Used(T)
                             /\ MoveBack(T, j) = Moved(T, j, After(home, m))
    BY <1>9
  <2> DEFINE q == After(home, m)
  <2>2. j \in Used(T) /\ Reaches(s, i, b, n - 1, h, j)
    BY <1>7 DEF j, T
  <2>3. Rank(b, home) <= Rank(b, j)
    BY <2>2 DEF Reaches, home, T
  <2>4. Steps(home, j) = Rank(b, j) - Rank(b, home)
    BY <1>2, <2>3, StepsUp
  <2>5. Rank(b, q) = Rank(b, home) + m /\ Rank(b, q) < Rank(b, j)
    <3>1. Rank(b, q) = IF Rank(b, home) + m < HASH_N THEN Rank(b, home) + m
                       ELSE Rank(b, home) + m - HASH_N
      BY <1>2, <2>1, RankAfter
    <3>2. m \in Nat
      BY <2>1, HashAssumption DEF Buckets
    <3>3. QED
      BY <1>1, <1>2, <1>3, <2>1, <2>4, <3>1, <3>2
  <2>6. q = h /\ Rank(b, j) > Rank(b, i) + (n - 1) /\ Rank(b, home) <= Rank(b, h)
    <3>1. m \in Nat /\ q \in Buckets \ Used(T) /\ Rank(b, home) <= Rank(b, q)
      BY <1>2, <1>3, <2>1, <2>5, HashAssumption DEF Buckets
    <3> HIDE DEF q
    <3>2. q = h /\ Pending(s, i, b, n - 1, j)
      BY <2>2, <2>5, <3>1 DEF Reaches, home, T
    <3>3. QED
      BY <3>1, <3>2 DEF Pending
  <2>7. Rank(b, j) = Rank(b, i) + n
    BY <1>1, <1>2, <1>3, <1>5, <2>6
  <2>8. h \in Buckets \ Used(T) /\ u.tab = Moved(T, j, h) /\ h # j
    BY <1>6, <2>1, <2>2, <2>6
  <2>9. /\ u.tab.hash = T.hash /\ u.tab.elem_cnt = T.elem_cnt
        /\ Used(u.tab) = (Used(T) \cup {h}) \ {j}
        /\ u.tab.bucket[h] = T.bucket[j] /\ Home(u.tab, h) = home
        /\ \A k \in Used(u.tab) : k # h => /\ k \in Used(T) /\ u.tab.bucket[k] = T.bucket[k]
                                           /\ Home(u.tab, k) = Home(T, k)
        /\ Elements(u.tab) = Elements(T)
    BY <1>2, <2>2, <2>8, MovedEffect DEF home
  <2>10. Used(u.tab) = Used(t) \ {j} /\ j \in Used(t)
    BY <2>2, <2>8, <2>9 DEF Mending, T
  <2>11. OneEach(u.tab)
    <3>1. OneEach(T)
      BY DEF Mending, T
    <3>2. QED
      BY <2>2, <2>8, <2>9, <3>1 DEF OneEach
  <2>12. ASSUME NEW k \in Used(u.tab) PROVE Reaches(u, i, b, n, j, k)
    <3>1. CASE k = h
      <4>1. ASSUME NEW p \in Buckets, Rank(b, home) <= Rank(b, p), Rank(b, p) < Rank(b, h)
            PROVE  p \in Used(u.tab)
        <5>1. Rank(b, p) < Rank(b, j) /\ p # h /\ p # j
          BY <1>2, <1>3, <2>5, <2>6, <4>1
        <5>2. p \in Used(T)
          BY <2>2, <4>1, <5>1 DEF Reaches, home, T
        <5>3. QED
          BY <2>9, <5>1, <5>2
      <4>2. QED
        BY <2>6, <2>9, <3>1, <4>1 DEF Reaches
    <3>2. CASE k # h
      <4>1. k \in Used(T) /\ Home(u.tab, k) = Home(T, k) /\ Reaches(s, i, b, n - 1, h, k)
        BY <1>7, <2>9, <3>2
      <4>2. ASSUME NEW p \in Buckets, Rank(b, Home(T, k)) <= Rank(b, p), Rank(b, p) < Rank(b, k)
            PROVE  p \in Used(u.tab) \/ (p = j /\ Rank(b, k) > Rank(b, i) + n)
        <5>1. p \in Used(T) \/ p = h
          BY <4>1, <4>2 DEF Reaches, T
        <5>2. QED
          BY <1>2, <1>3, <2>7, <2>8, <2>9, <4>2, <5>1
      <4>3. QED
        BY <1>6, <4>1, <4>2 DEF Reaches, Pending, T
    <3>3. QED
      BY <3>1, <3>2
  <2>13. Rank(b, i) <= Rank(b, j) /\ Rank(b, j) <= Rank(b, i) + n
    BY <1>1, <1>3, <2>7
  <2>14. Mending(t, i, b, n, u, j)
    BY <2>9, <2>10, <2>11, <2>12, <2>13 DEF Mending, T
  <2>15. QED
    BY <2>14 DEF u
<1>10. QED
  BY <1>2, <1>8, <1>9, MoveBackCases DEF j, T, home

\* Once the loop is at a free bucket no probe goes over the hole.
LEMMA MendingStop ==
  ASSUME NEW K, NEW E, Storable(K, E), NEW t \in Tables(K, E), NEW i \in Buckets, NEW b \in Buckets,
         NEW s \in [tab : Tables(K, E), on : BOOLEAN], NEW n \in 1 .. (HASH_N - 1), NEW h,
         Mending(t, i, b, n - 1, s, h), ~(s.on /\ After(i, n) \in Used(s.tab))
  PROVE  Mending(t, i, b, n, Turn(s, i, n), h)
<1> USE Zenon, SMTT(15)
<1> DEFINE j == After(i, n)
           T == s.tab
           u == Turn(s, i, n)
<1>1. n \in Buckets /\ n \in Nat /\ HASH_N \in Nat
  BY HashAssumption DEF Buckets
<1>2. h \in Buckets /\ j \in Buckets /\ T \in Tables(K, E)
  BY <1>1, BucketTypes, RankAfter DEF Mending
<1>3. \A k \in Buckets : Rank(b, k) \in Nat /\ Rank(b, k) < HASH_N
  <2>1. \A r \in Buckets : r \in Nat /\ r < HASH_N
    BY HashAssumption DEF Buckets
  <2>2. QED
    BY <2>1, Ranks
<1>4. \A k, m \in Buckets : Rank(b, k) = Rank(b, m) => k = m
  BY Ranks
<1>5. Rank(b, j) = IF Rank(b, i) + n < HASH_N THEN Rank(b, i) + n ELSE Rank(b, i) + n - HASH_N
  BY <1>1, RankAfter
<1>6. u.tab = T /\ ~u.on
  BY <1>1, TurnEffect
<1>7. Used(T) \subseteq Buckets /\ \A k \in Used(T) : Reaches(s, i, b, n - 1, h, k)
  BY DEF Mending, Used
<1>8. Rank(b, h) <= Rank(b, i) + (n - 1)
  BY DEF Mending
<1>9. s.on => j \notin Used(T)
  OBVIOUS
<1> HIDE DEF j, T, u
<1>10. ASSUME NEW k \in Used(T), NEW p \in Buckets,
              Rank(b, Home(T, k)) <= Rank(b, p), Rank(b, p) < Rank(b, k)
       PROVE  p \in Used(T)
  <2>1. SUFFICES ASSUME p = h, s.on, Rank(b, k) > Rank(b, i) + (n - 1)
                 PROVE  FALSE
    BY <1>7, <1>10 DEF Reaches, Pending, T
  <2>2. k \in Buckets /\ k # j /\ Home(T, k) \in Buckets
    BY <1>2, <1>9, <2>1, BucketTypes
  <2>3. Rank(b, j) = Rank(b, i) + n
    BY <1>1, <1>3, <1>5, <2>1, <2>2
  <2>4. Rank(b, j) # Rank(b, k)
    BY <1>2, <1>4, <2>2
  <2>5. Rank(b, j) < Rank(b, k) /\ Rank(b, h) < Rank(b, j)
    BY <1>1, <1>2, <1>3, <1>8, <2>1, <2>2, <2>3, <2>4
  <2>6. Rank(b, Home(T, k)) <= Rank(b, j) /\ j # h
    BY <1>2, <1>3, <1>10, <2>1, <2>2, <2>5
  <2>7. QED
    BY <1>2, <1>7, <1>9, <2>1, <2>5, <2>6 DEF Reaches, T
<1>11. \A k \in Used(T) : Reaches(u, i, b, n, h, k)
  BY <1>6, <1>7, <1>10 DEF Reaches, T
<1>12. Rank(b, h) <= Rank(b, i) + n
  BY <1>1, <1>2, <1>3, <1>8
<1>13. Mending(t, i, b, n, u, h)
  BY <1>6, <1>11, <1>12 DEF Mending, T
<1>14. QED
  BY <1>13 DEF u

\* Right after the element of bucket i was cleared, bucket i is the hole.
LEMMA MendingStart ==
  ASSUME NEW K, NEW E, Storable(K, E), NEW t \in Tables(K, E), NEW i \in Used(t), NEW b \in Buckets,
         OneEach(t), Packed(t, b), t.elem_cnt \in Nat \ {0}
  PROVE  Mending(t, i, b, 0, [tab |-> With(t, i, Empty, t.elem_cnt - 1), on |-> TRUE], i)
<1> USE Zenon, SMTT(15)
<1> DEFINE u == With(t, i, Empty, t.elem_cnt - 1)
           s == [tab |-> u, on |-> TRUE]
<1>1. i \in Buckets /\ t.elem_cnt - 1 \in Nat
  BY BucketTypes
<1>2. /\ u \in Tables(K, E) /\ u.hash = t.hash /\ u.elem_cnt = t.elem_cnt - 1
      /\ Used(u) = Used(t) \ {i}
      /\ \A j \in Used(u) : u.bucket[j] = t.bucket[j] /\ Home(u, j) = Home(t, j)
  BY <1>1, EraseEffect
<1> HIDE DEF u
<1>3. Elements(u) = Elements(t) \ {t.bucket[i]}
  <2>1. \A j \in Used(t) : t.bucket[j] = t.bucket[i] => j = i
    BY DEF OneEach
  <2>2. QED
    BY <1>2, <2>1 DEF Elements
<1>4. OneEach(u)
  BY <1>2 DEF OneEach
<1>5. \A k \in Buckets : Rank(b, k) \in Nat
  <2>1. Buckets \subseteq Nat
    BY HashAssumption DEF Buckets
  <2>2. QED
    BY <2>1, Ranks
<1>6. ASSUME NEW k \in Used(u) PROVE Reaches(s, i, b, 0, i, k)
  <2>1. k \in Used(t) /\ k \in Buckets /\ Home(u, k) = Home(t, k)
    BY <1>2 DEF Used
  <2>2. Rank(b, Home(u, k)) <= Rank(b, k)
    BY <2>1 DEF Packed
  <2>3. ASSUME NEW p \in Buckets, Rank(b, Home(u, k)) <= Rank(b, p), Rank(b, p) < Rank(b, k)
        PROVE  p \in Used(u) \/ (p = i /\ Rank(b, k) > Rank(b, i) + 0)
    <3>1. p \in Used(t)
      BY <2>1, <2>3 DEF Packed
    <3>2. QED
      BY <1>1, <1>2, <1>5, <2>1, <2>3, <3>1
  <2>4. QED
    BY <2>2, <2>3 DEF Reaches, Pending
<1>7. Rank(b, i) <= Rank(b, i) /\ Rank(b, i) <= Rank(b, i) + 0
  BY <1>1, <1>5
<1>8. Mending(t, i, b, 0, s, i)
  BY <1>2, <1>3, <1>4, <1>6, <1>7 DEF Mending
<1>9. QED
  BY <1>8 DEF u

\* The loop restores what the calls preserve.
LEMMA ClosedSound ==
  ASSUME NEW K, NEW E, Storable(K, E), NEW t \in Tables(K, E), Sound(t), NEW i \in Used(t)
  PROVE  LET u == Closed(With(t, i, Empty, t.elem_cnt - 1), i)
         IN  /\ u \in Tables(K, E) /\ u.hash = t.hash /\ u.elem_cnt = t.elem_cnt - 1
             /\ Elements(u) = Elements(t) \ {t.bucket[i]}
             /\ Sound(u)
<1> USE Zenon, SMTT(15)
<1> DEFINE v == With(t, i, Empty, t.elem_cnt - 1)
           S == [tab : Tables(K, E), on : BOOLEAN]
<1>1. PICK b \in Buckets : Packed(t, b)
  BY DEF Sound
<1>2. i \in Buckets /\ OneEach(t) /\ t.elem_cnt \in Nat \ {0} /\ IsFiniteSet(Used(t))
  <2>1. IsFiniteSet(Used(t)) /\ Cardinality(Used(t)) # 0 /\ Cardinality(Used(t)) \in Nat
    BY Counting, FS_EmptySet, FS_CardinalityType
  <2>2. QED
    BY <2>1, BucketTypes DEF Sound
<1>3. Mending(t, i, b, 0, [tab |-> v, on |-> TRUE], i)
  BY <1>1, <1>2, MendingStart
<1>4. v \in Tables(K, E)
  <2>1. t.elem_cnt - 1 \in Nat
    BY <1>2
  <2>2. QED
    BY <1>2, <2>1, EraseEffect
<1> HIDE DEF v
<1>5. PICK f : /\ f[0] = [tab |-> v, on |-> TRUE]
               /\ \A n \in 1 .. (HASH_N - 1) : f[n] = Turn(f[n - 1], i, n)
               /\ Closed(v, i) = f[HASH_N - 1].tab
  BY <1>2, <1>4, ClosedByTurns
<1> DEFINE Good(n) == f[n] \in S /\ \E h : Mending(t, i, b, n, f[n], h)
<1>6. Good(0)
  BY <1>3, <1>4, <1>5
<1>7. ASSUME NEW n \in 1 .. (HASH_N - 1), Good(n - 1) PROVE Good(n)
  <2>1. n \in Buckets /\ f[n] = Turn(f[n - 1], i, n)
    BY <1>5, HashAssumption DEF Buckets
  <2>2. f[n] \in S
    BY <1>2, <1>7, <2>1, TurnEffect
  <2>3. PICK h : Mending(t, i, b, n - 1, f[n - 1], h)
    BY <1>7
  <2>4. \E g : Mending(t, i, b, n, Turn(f[n - 1], i, n), g)
    BY <1>2, <1>7, <2>3, MendingMove, MendingStop
  <2>5. QED
    BY <2>1, <2>2, <2>4
<1> HIDE DEF Good
<1>8. Good(HASH_N - 1)
  <2> DEFINE Bad == {n \in Buckets : ~Good(n)}
  <2>1. SUFFICES ASSUME Bad # {} PROVE FALSE
    BY HashAssumption DEF Buckets
  <2>2. Bad \in SUBSET Nat
    BY HashAssumption DEF Buckets
  <2>3. PICK m \in Bad : \A n \in Bad : m <= n
    <3> HIDE DEF Bad
    <3>1. QED
      BY <2>1, <2>2, LeastStep
  <2>4. m \in 1 .. (HASH_N - 1) /\ m - 1 \in Buckets
    BY <1>6, <2>3, HashAssumption DEF Buckets
  <2>5. m - 1 \notin Bad
    BY <2>3, <2>4
  <2>6. QED
    BY <1>7, <2>3, <2>4, <2>5
<1> DEFINE w == f[HASH_N - 1]
           T == w.tab
<1>9. w \in S /\ T \in Tables(K, E)
  BY <1>8 DEF Good
<1>10. PICK h : Mending(t, i, b, HASH_N - 1, w, h)
  BY <1>8 DEF Good
<1> HIDE DEF w
<1>11. Packed(T, b)
  <2>1. ASSUME NEW k \in Used(T), Pending(w, i, b, HASH_N - 1, k) PROVE FALSE
    <3>1. k \in Buckets
      BY DEF Used
    <3>2. Rank(b, k) \in Buckets /\ Rank(b, i) \in Buckets
      BY <1>2, <3>1, Ranks
    <3>3. QED
      BY <2>1, <3>2, HashAssumption DEF Pending, Buckets
  <2>2. QED
    BY <1>10, <2>1 DEF Packed, Mending, Reaches
<1>12. T.elem_cnt = Cardinality(Used(T))
  <2>1. h \in Used(t) /\ Used(T) = Used(t) \ {h} /\ T.elem_cnt = t.elem_cnt - 1
    BY <1>10 DEF Mending
  <2>2. Cardinality(Used(t) \ {h}) = Cardinality(Used(t)) - 1
    BY <1>2, <2>1, FS_RemoveElement
  <2>3. QED
    BY <2>1, <2>2 DEF Sound
<1>13. Sound(T)
  BY <1>10, <1>11, <1>12 DEF Sound, Mending
<1>14. Closed(v, i) = T
  BY <1>5 DEF w
<1>15. QED
  BY <1>9, <1>10, <1>13, <1>14 DEF Mending, v

-----------------------------------------------------------------------------
(***************************************************************************)
(* The calls, in terms of the elements of the table.                       *)
(***************************************************************************)
Others(t, k) == {e \in Elements(t) : e.key # k}

\* The elements have keys of their own, and elem_cnt is their number.
LEMMA ElementsOf ==
  ASSUME NEW K, NEW E, Storable(K, E), NEW t \in Tables(K, E), Sound(t)
  PROVE  /\ Elements(t) \subseteq E
         /\ \A e \in Elements(t) : e # Empty /\ e.key \in K
         /\ \A e, x \in Elements(t) : e.key = x.key => e = x
         /\ IsFiniteSet(Elements(t)) /\ Cardinality(Elements(t)) = t.elem_cnt
         /\ t.elem_cnt \in 0 .. HASH_N
<1> USE Zenon, SMTT(15)
<1>1. Elements(t) \subseteq E
  BY BucketTypes DEF Elements
<1>2. \A e \in Elements(t) : e # Empty /\ e.key \in K
  BY <1>1 DEF Storable
<1>3. \A e, x \in Elements(t) : e.key = x.key => e = x
  BY DEF Elements, Sound, OneEach
<1>4. IsFiniteSet(Used(t)) /\ Cardinality(Used(t)) \in 0 .. HASH_N
  BY Counting
<1>5. ExistsBijection(Used(t), Elements(t))
  <2> DEFINE f == [i \in Used(t) |-> t.bucket[i]]
  <2>1. f \in [Used(t) -> Elements(t)]
    BY DEF Elements
  <2>2. \A i, j \in Used(t) : f[i] = f[j] => i = j
    BY DEF Sound, OneEach
  <2>3. \A e \in Elements(t) : \E i \in Used(t) : f[i] = e
    BY DEF Elements
  <2> HIDE DEF f
  <2>4. f \in Bijection(Used(t), Elements(t))
    BY <2>1, <2>2, <2>3 DEF Bijection, Injection, Surjection, IsInjective
  <2>5. QED
    BY <2>4 DEF ExistsBijection
<1>6. IsFiniteSet(Elements(t)) /\ Cardinality(Elements(t)) = Cardinality(Used(t))
  BY <1>4, <1>5, FS_Bijection
<1>7. QED
  BY <1>1, <1>2, <1>3, <1>4, <1>6 DEF Sound

\* hash_find returns the element with the key, and Empty when there is none.
LEMMA FindSpec ==
  ASSUME NEW K, NEW E, Storable(K, E), NEW t \in Tables(K, E), Sound(t), NEW k \in K
  PROVE  \/ /\ hash_find(t, k) = Empty
            /\ \A e \in Elements(t) : e.key # k
         \/ /\ hash_find(t, k) # Empty
            /\ hash_find(t, k) \in Elements(t)
            /\ hash_find(t, k).key = k
            /\ StopsAt(t, k) \in Used(t)
            /\ t.bucket[StopsAt(t, k)] = hash_find(t, k)
<1> USE Zenon, SMTT(15)
<1>1. CASE \E i \in Used(t) : t.bucket[i].key = k
  <2>1. PICK i \in Used(t) : t.bucket[i].key = k
    BY <1>1
  <2>2. hash_find(t, k) = t.bucket[i] /\ StopsAt(t, k) = i
    BY <2>1, FoundElement
  <2>3. t.bucket[i] # Empty /\ t.bucket[i] \in Elements(t)
    BY <2>1 DEF Used, Occupied, Elements
  <2>4. QED
    BY <2>1, <2>2, <2>3
<1>2. CASE \A i \in Used(t) : t.bucket[i].key # k
  BY <1>2, FoundNothing DEF Elements
<1>3. QED
  BY <1>1, <1>2

\* An insertion fails in a full table; otherwise it leaves the element, and no other of its key.
LEMMA InsertSpec ==
  ASSUME NEW K, NEW E, Storable(K, E), NEW t \in Tables(K, E), Sound(t), NEW e \in E
  PROVE  /\ InsertSucceeds(t, e) <=> t.elem_cnt # HASH_N
         /\ hash_insert(t, e) \in Tables(K, E) /\ Sound(hash_insert(t, e))
         /\ hash_insert(t, e).hash = t.hash
         /\ t.elem_cnt = HASH_N => hash_insert(t, e) = t
         /\ t.elem_cnt # HASH_N => Elements(hash_insert(t, e)) = Others(t, e.key) \cup {e}
         /\ t.elem_cnt # HASH_N /\ (\A x \in Elements(t) : x.key # e.key) =>
              hash_insert(t, e).elem_cnt = t.elem_cnt + 1
<1> USE Zenon, SMTT(15)
<1>1. CASE t.elem_cnt = HASH_N
  BY <1>1 DEF InsertSucceeds, hash_insert
<1>2. CASE t.elem_cnt # HASH_N /\ \A i \in Used(t) : t.bucket[i].key # e.key
  <2>1. Others(t, e.key) = Elements(t)
    BY <1>2 DEF Others, Elements
  <2>2. QED
    BY <1>2, <2>1, InsertNew
<1>3. CASE t.elem_cnt # HASH_N /\ \E i \in Used(t) : t.bucket[i].key = e.key
  <2>1. PICK i \in Used(t) : e.key = t.bucket[i].key
    BY <1>3
  <2>2. Stops(t, e.key) # {} /\ StopsAt(t, e.key) = i
    BY <2>1, FoundElement
  <2>3. InsertSucceeds(t, e)
    BY <1>3, <2>2 DEF InsertSucceeds
  <2>4. hash_insert(t, e) = With(t, i, e, t.elem_cnt)
    BY <2>2, <2>3 DEF hash_insert, With, Used
  <2>5. LET u == With(t, i, e, t.elem_cnt)
        IN  /\ u = [t EXCEPT !.bucket[i] = e]
            /\ u \in Tables(K, E) /\ u.hash = t.hash
            /\ Elements(u) = (Elements(t) \ {t.bucket[i]}) \cup {e}
            /\ Sound(u)
    BY <2>1, StoreOld
  <2>6. Others(t, e.key) = Elements(t) \ {t.bucket[i]} /\ t.bucket[i] \in Elements(t)
    <3>1. t.bucket[i] \in Elements(t)
      BY <2>1 DEF Elements
    <3>2. QED
      BY <2>1, <3>1, ElementsOf DEF Others
  <2>7. QED
    BY <1>3, <2>1, <2>3, <2>4, <2>5, <2>6
<1>4. QED
  BY <1>1, <1>2, <1>3

\* A replacement changes the element with the key, if there is one.
LEMMA ReplaceSpec ==
  ASSUME NEW K, NEW E, Storable(K, E), NEW t \in Tables(K, E), Sound(t), NEW e \in E
  PROVE  /\ hash_replace(t, e) \in Tables(K, E) /\ Sound(hash_replace(t, e))
         /\ hash_replace(t, e).hash = t.hash
         /\ hash_find(t, e.key) = Empty => hash_replace(t, e) = t
         /\ hash_find(t, e.key) # Empty =>
              Elements(hash_replace(t, e)) = Others(t, e.key) \cup {e}
<1> USE Zenon, SMTT(15)
<1>1. CASE hash_find(t, e.key) = Empty
  BY <1>1 DEF hash_replace
<1>2. CASE hash_find(t, e.key) # Empty
  <2> DEFINE i == StopsAt(t, e.key)
  <2>1. e.key \in K
    BY DEF Storable
  <2>2. i \in Used(t) /\ t.bucket[i].key = e.key
    BY <1>2, <2>1, FindSpec
  <2>3. hash_replace(t, e) = [t EXCEPT !.bucket[i] = e]
    BY <1>2 DEF hash_replace
  <2> HIDE DEF i
  <2>4. LET u == With(t, i, e, t.elem_cnt)
        IN  /\ u = [t EXCEPT !.bucket[i] = e]
            /\ u \in Tables(K, E) /\ u.hash = t.hash
            /\ Elements(u) = (Elements(t) \ {t.bucket[i]}) \cup {e}
            /\ Sound(u)
    BY <2>2, StoreOld
  <2>5. Others(t, e.key) = Elements(t) \ {t.bucket[i]}
    <3>1. t.bucket[i] \in Elements(t)
      BY <2>2 DEF Elements
    <3>2. QED
      BY <2>2, <3>1, ElementsOf DEF Others
  <2>6. QED
    BY <1>2, <2>3, <2>4, <2>5
<1>3. QED
  BY <1>1, <1>2

\* A deletion takes the element with the key away, and no other.
LEMMA DeleteSpec ==
  ASSUME NEW K, NEW E, Storable(K, E), NEW t \in Tables(K, E), Sound(t), NEW k \in K
  PROVE  /\ hash_delete(t, k) \in Tables(K, E) /\ Sound(hash_delete(t, k))
         /\ hash_delete(t, k).hash = t.hash
         /\ Elements(hash_delete(t, k)) = Others(t, k)
         /\ hash_find(t, k) = Empty => hash_delete(t, k) = t
         /\ hash_find(t, k) # Empty => hash_delete(t, k).elem_cnt = t.elem_cnt - 1
<1> USE Zenon, SMTT(15)
<1>1. CASE hash_find(t, k) = Empty
  <2>1. \A e \in Elements(t) : e.key # k
    BY <1>1, FindSpec
  <2>2. Others(t, k) = Elements(t)
    BY <2>1 DEF Others
  <2>3. QED
    BY <1>1, <2>2 DEF hash_delete
<1>2. CASE hash_find(t, k) # Empty
  <2> DEFINE i == StopsAt(t, k)
  <2>1. i \in Used(t) /\ t.bucket[i].key = k
    BY <1>2, FindSpec
  <2>2. hash_delete(t, k) = Closed(With(t, i, Empty, t.elem_cnt - 1), i)
    BY <1>2 DEF hash_delete, With
  <2> HIDE DEF i
  <2>3. LET u == Closed(With(t, i, Empty, t.elem_cnt - 1), i)
        IN  /\ u \in Tables(K, E) /\ u.hash = t.hash /\ u.elem_cnt = t.elem_cnt - 1
            /\ Elements(u) = Elements(t) \ {t.bucket[i]}
            /\ Sound(u)
    BY <2>1, ClosedSound
  <2>4. Others(t, k) = Elements(t) \ {t.bucket[i]}
    <3>1. t.bucket[i] \in Elements(t)
      BY <2>1 DEF Elements
    <3>2. QED
      BY <2>1, <3>1, ElementsOf DEF Others
  <2>5. QED
    BY <1>2, <2>2, <2>3, <2>4
<1>3. QED
  BY <1>1, <1>2

\* A table right after hash_init or hash_clear.
LEMMA ClearSpec ==
  ASSUME NEW K, NEW E, NEW h \in [K -> Buckets]
  PROVE  /\ hash_clear(h) \in Tables(K, E) /\ Sound(hash_clear(h))
         /\ Elements(hash_clear(h)) = {} /\ hash_clear(h).elem_cnt = 0
         /\ hash_clear(h).hash = h
<1> USE Zenon, SMTT(15)
<1>1. hash_clear(h) \in Tables(K, E) /\ hash_clear(h).elem_cnt = 0 /\ hash_clear(h).hash = h
  BY DEF hash_clear, Tables
<1>2. Used(hash_clear(h)) = {}
  BY DEF hash_clear, Used, Occupied
<1>3. 0 \in Buckets
  BY HashAssumption DEF Buckets
<1>4. QED
  BY <1>1, <1>2, <1>3, FS_EmptySet DEF Sound, OneEach, Packed, Elements

-----------------------------------------------------------------------------
(***************************************************************************)
(* A table under any sequence of calls: the inductive invariant, and what  *)
(* follows from it.                                                        *)
(***************************************************************************)
MapInv == tab \in Tables(Keys, Elem) /\ Sound(tab)

\* The elements of the map are elements of a table.
LEMMA MapElements == Storable(Keys, Elem)
BY MapAssumption DEF Storable, Elem

\* Every call leaves a sound table.
LEMMA MapInvariance == MapSpec => []MapInv
<1>1. MapInit => MapInv
  BY ClearSpec DEF MapInit, MapInv
<1>2. MapInv /\ [MapNext]_mapVars => MapInv'
  <2> SUFFICES ASSUME MapInv, [MapNext]_mapVars PROVE MapInv'
    OBVIOUS
  <2>1. CASE Clear
    <3>1. tab.hash \in [Keys -> Buckets]
      BY DEF MapInv, Tables
    <3>2. QED
      BY <2>1, <3>1, ClearSpec DEF Clear, MapInv
  <2>2. ASSUME NEW k \in Keys, Delete(k) PROVE MapInv'
    BY <2>2, MapElements, DeleteSpec DEF Delete, MapInv
  <2>3. ASSUME NEW k \in Keys, Find(k) PROVE MapInv'
    BY <2>3 DEF Find, MapInv
  <2>4. ASSUME NEW e \in Elem, Insert(e) PROVE MapInv'
    BY <2>4, MapElements, InsertSpec DEF Insert, MapInv
  <2>5. ASSUME NEW e \in Elem, Replace(e) PROVE MapInv'
    BY <2>5, MapElements, ReplaceSpec DEF Replace, MapInv
  <2>6. CASE UNCHANGED mapVars
    BY <2>6 DEF mapVars, MapInv
  <2>7. QED
    BY <2>1, <2>2, <2>3, <2>4, <2>5, <2>6 DEF MapNext
<1>3. QED
  BY <1>1, <1>2, PTL DEF MapSpec

(***************************************************************************)
(* Whatever was inserted, replaced and deleted before, with any hash       *)
(* function and any number of buckets, a probe for the key of an element   *)
(* stops at the element, and elem_cnt is the number of elements            *)
(* (hash_delete's second loop).                                            *)
(***************************************************************************)
THEOREM Reachability == MapSpec => []ElementsReachable
<1>1. MapInv => ElementsReachable
  <2> SUFFICES ASSUME MapInv PROVE ElementsReachable
    OBVIOUS
  <2>1. \A i \in Used(tab) : StopsAt(tab, tab.bucket[i].key) = i
    BY MapElements, FoundElement DEF MapInv
  <2>2. QED
    BY <2>1 DEF ElementsReachable, MapInv, Sound, Used
<1>2. QED
  BY <1>1, MapInvariance, PTL

\* What a table says of every key.
ValuesIn(t) ==
  [k \in Keys |->
     LET mine == {i \in Buckets : Occupied(t, i) /\ t.bucket[i].key = k}
     IN  IF mine = {} THEN NoValue ELSE t.bucket[Min(mine)].val]

\* The contents of a sound table are the values of its elements.
LEMMA ContentsOf ==
  ASSUME NEW t \in Tables(Keys, Elem), Sound(t)
  PROVE  /\ ValuesIn(t) = [k \in Keys |-> ValuesIn(t)[k]]
         /\ \A e \in Elements(t) : ValuesIn(t)[e.key] = e.val /\ e.val \in Values /\ e.key \in Keys
         /\ \A k \in Keys : (\A e \in Elements(t) : e.key # k) => ValuesIn(t)[k] = NoValue
         /\ Cardinality({k \in Keys : ValuesIn(t)[k] # NoValue}) = t.elem_cnt
<1> USE Zenon, SMTT(15)
<1> DEFINE mine(k) == {i \in Buckets : Occupied(t, i) /\ t.bucket[i].key = k}
<1>1. ValuesIn(t) = [k \in Keys |-> ValuesIn(t)[k]]
  BY DEF ValuesIn
<1>2. \A k \in Keys : mine(k) = {} => ValuesIn(t)[k] = NoValue
  BY DEF ValuesIn
<1>3. \A k \in Keys : mine(k) # {} => ValuesIn(t)[k] = t.bucket[Min(mine(k))].val
  BY DEF ValuesIn
<1>4. \A e \in Elements(t) : e \in Elem /\ e.val \in Values /\ e.key \in Keys
  <2>1. Elements(t) \subseteq Elem
    BY MapElements, ElementsOf
  <2>2. QED
    BY <2>1 DEF Elem
<1>5. ASSUME NEW i \in Used(t) PROVE ValuesIn(t)[t.bucket[i].key] = t.bucket[i].val
  <2> DEFINE k == t.bucket[i].key
  <2>1. k \in Keys
    BY <1>4 DEF Elements
  <2>2. mine(k) = {i}
    BY DEF Sound, OneEach, Used
  <2>3. {i} \in SUBSET Nat /\ {i} # {}
    BY HashAssumption DEF Used, Buckets
  <2>4. Min({i}) = i
    BY <2>3, LeastStep
  <2>5. QED
    BY <1>3, <2>1, <2>2, <2>4
<1>6. \A k \in Keys : (\A e \in Elements(t) : e.key # k) => mine(k) = {}
  BY DEF Elements, Used
<1> HIDE DEF mine
<1>7. \A e \in Elements(t) : ValuesIn(t)[e.key] = e.val
  BY <1>5 DEF Elements
<1>8. \A k \in Keys : (\A e \in Elements(t) : e.key # k) => ValuesIn(t)[k] = NoValue
  BY <1>2, <1>6
<1> DEFINE Here == {k \in Keys : ValuesIn(t)[k] # NoValue}
<1>9. Cardinality(Here) = t.elem_cnt
  <2> DEFINE f == [e \in Elements(t) |-> e.key]
  <2>1. f \in [Elements(t) -> Here]
    BY <1>4, <1>7, MapAssumption
  <2>2. \A e, x \in Elements(t) : f[e] = f[x] => e = x
    BY MapElements, ElementsOf
  <2>3. \A k \in Here : \E e \in Elements(t) : f[e] = k
    BY <1>8
  <2> HIDE DEF f, Here
  <2>4. f \in Bijection(Elements(t), Here)
    BY <2>1, <2>2, <2>3 DEF Bijection, Injection, Surjection, IsInjective
  <2>5. ExistsBijection(Elements(t), Here)
    BY <2>4 DEF ExistsBijection
  <2>6. IsFiniteSet(Elements(t)) /\ Cardinality(Elements(t)) = t.elem_cnt
    BY MapElements, ElementsOf
  <2>7. QED
    BY <2>5, <2>6, FS_Bijection
<1>10. QED
  BY <1>1, <1>4, <1>7, <1>8, <1>9

(***************************************************************************)
(* The table implements MapService, step by step: it is a map with room    *)
(* for HASH_N keys, whatever hash function the users of ds-lib give it.    *)
(***************************************************************************)
THEOREM MapRefinement == MapSpec => ImplementsMap
<1> DEFINE Has(k) == \E e \in Elements(tab) : e.key = k
<1>1. MapInit => Map!Init
  <2> USE Zenon, SMTT(15)
  <2> SUFFICES ASSUME MapInit PROVE Map!Init
    OBVIOUS
  <2>1. tab \in Tables(Keys, Elem) /\ Sound(tab) /\ Elements(tab) = {}
    BY ClearSpec DEF MapInit
  <2>2. Contents = ValuesIn(tab)
    BY DEF Contents, ValuesIn
  <2>3. Contents = [k \in Keys |-> NoValue]
    BY <2>1, <2>2, ContentsOf
  <2>4. QED
    BY <2>3 DEF MapInit, Map!Init
<1>2. MapInv /\ MapInv' /\ [MapNext]_mapVars => [Map!Next]_<<Contents, result>>
  <2> USE Zenon, SMTT(15)
  <2> SUFFICES ASSUME MapInv, MapInv', [MapNext]_mapVars
               PROVE  [Map!Next]_<<Contents, result>>
    OBVIOUS
  <2>1. Contents = ValuesIn(tab) /\ Contents' = ValuesIn(tab')
    BY DEF Contents, ValuesIn
  <2>2. tab \in Tables(Keys, Elem) /\ Sound(tab) /\ tab' \in Tables(Keys, Elem) /\ Sound(tab')
    BY DEF MapInv
  <2>3. /\ Contents = [k \in Keys |-> Contents[k]]
        /\ \A e \in Elements(tab) : Contents[e.key] = e.val /\ e.val # NoValue /\ e.key \in Keys
        /\ \A k \in Keys : ~Has(k) => Contents[k] = NoValue
        /\ Cardinality(Map!Present) = tab.elem_cnt
    BY <2>1, <2>2, ContentsOf, MapAssumption DEF Map!Present
  <2>4. /\ Contents' = [k \in Keys |-> Contents'[k]]
        /\ \A e \in Elements(tab') : Contents'[e.key] = e.val /\ e.key \in Keys
        /\ \A k \in Keys : (\A e \in Elements(tab') : e.key # k) => Contents'[k] = NoValue
    BY <2>1, <2>2, ContentsOf
  <2>5. tab.elem_cnt \in 0 .. HASH_N /\ Map!Cardinality(Map!Present) = tab.elem_cnt
    <3>1. Map!Cardinality(Map!Present) = Cardinality(Map!Present)
      BY DEF Cardinality, Map!Cardinality
    <3>2. QED
      BY <2>2, <2>3, <3>1, MapElements, ElementsOf
  <2>6. \A k \in Keys : hash_find(tab, k) # Empty <=> k \in Map!Present
    BY <2>2, <2>3, MapElements, FindSpec DEF Map!Present
  <2>7. CASE Clear
    <3>1. tab.hash \in [Keys -> Buckets]
      BY <2>2 DEF Tables
    <3>2. Elements(tab') = {}
      BY <2>7, <3>1, ClearSpec DEF Clear
    <3>3. Contents' = [k \in Keys |-> NoValue]
      BY <2>4, <3>2
    <3>4. QED
      BY <2>7, <3>3 DEF Clear, Map!Next, Map!Clear
  <2>8. ASSUME NEW k \in Keys, Delete(k) PROVE Map!Next
    <3>1. Elements(tab') = Others(tab, k)
      BY <2>2, <2>8, MapElements, DeleteSpec DEF Delete
    <3>2. ASSUME NEW l \in Keys PROVE Contents'[l] = IF l = k THEN NoValue ELSE Contents[l]
      BY <2>3, <2>4, <3>1 DEF Others
    <3>3. Contents' = [Contents EXCEPT ![k] = NoValue]
      BY <2>3, <2>4, <3>2
    <3>4. Map!Delete(k)
      BY <2>6, <2>8, <3>3 DEF Delete, Map!Delete
    <3>5. QED
      BY <3>4 DEF Map!Next
  <2>9. ASSUME NEW k \in Keys, Find(k) PROVE Map!Next
    <3>1. hash_find(tab, k) = Empty => Contents[k] = NoValue
      BY <2>2, <2>3, MapElements, FindSpec
    <3>2. hash_find(tab, k) # Empty => Contents[k] = hash_find(tab, k).val
      BY <2>2, <2>3, MapElements, FindSpec
    <3>3. Contents' = Contents
      BY <2>1, <2>9 DEF Find
    <3>4. Map!Find(k)
      BY <2>9, <3>1, <3>2, <3>3 DEF Find, Map!Find
    <3>5. QED
      BY <3>4 DEF Map!Next
  <2>10. ASSUME NEW e \in Elem, Elements(tab') = Others(tab, e.key) \cup {e}
         PROVE  Contents' = [Contents EXCEPT ![e.key] = e.val]
    <3>1. e.key \in Keys
      BY DEF Elem
    <3>2. ASSUME NEW l \in Keys PROVE Contents'[l] = IF l = e.key THEN e.val ELSE Contents[l]
      BY <2>3, <2>4, <2>10 DEF Others
    <3>3. QED
      BY <2>3, <2>4, <3>1, <3>2
  <2>11. ASSUME NEW e \in Elem, Insert(e) PROVE Map!Next
    <3>1. e.key \in Keys /\ e.val \in Values
      BY DEF Elem
    <3>2. Map!Insert(e.key, e.val)
      <4>1. CASE tab.elem_cnt = HASH_N
        <5>1. tab' = tab /\ result' = FALSE
          BY <2>11, <4>1 DEF Insert, hash_insert, InsertSucceeds
        <5>2. (Map!Cardinality(Map!Present) < HASH_N) = FALSE /\ Contents' = Contents
          BY <2>1, <2>5, <4>1, <5>1, HashAssumption
        <5>3. QED
          BY <5>1, <5>2 DEF Map!Insert
      <4>2. CASE tab.elem_cnt # HASH_N
        <5>1. Elements(tab') = Others(tab, e.key) \cup {e} /\ InsertSucceeds(tab, e)
          BY <2>2, <2>11, <4>2, MapElements, InsertSpec DEF Insert
        <5>2. Map!Cardinality(Map!Present) < HASH_N
          BY <2>5, <4>2, HashAssumption
        <5>3. Contents' = [Contents EXCEPT ![e.key] = e.val]
          BY <2>10, <5>1
        <5>4. QED
          BY <2>11, <5>1, <5>2, <5>3 DEF Insert, Map!Insert
      <4>3. QED
        BY <4>1, <4>2
    <3>3. QED
      BY <3>1, <3>2 DEF Map!Next
  <2>12. ASSUME NEW e \in Elem, Replace(e) PROVE Map!Next
    <3>1. e.key \in Keys /\ e.val \in Values
      BY DEF Elem
    <3>2. Map!Replace(e.key, e.val)
      <4>1. CASE hash_find(tab, e.key) = Empty
        <5>1. Contents' = Contents
          BY <2>1, <2>2, <2>12, <4>1, MapElements, ReplaceSpec DEF Replace
        <5>2. QED
          BY <2>6, <2>12, <3>1, <4>1, <5>1 DEF Replace, Map!Replace
      <4>2. CASE hash_find(tab, e.key) # Empty
        <5>1. Elements(tab') = Others(tab, e.key) \cup {e}
          BY <2>2, <2>12, <4>2, MapElements, ReplaceSpec DEF Replace
        <5>2. Contents' = [Contents EXCEPT ![e.key] = e.val]
          BY <2>10, <5>1
        <5>3. QED
          BY <2>6, <2>12, <3>1, <4>2, <5>2 DEF Replace, Map!Replace
      <4>3. QED
        BY <4>1, <4>2
    <3>3. QED
      BY <3>1, <3>2 DEF Map!Next
  <2>13. CASE UNCHANGED mapVars
    BY <2>1, <2>13 DEF mapVars
  <2>14. QED
    BY <2>7, <2>8, <2>9, <2>11, <2>12, <2>13 DEF MapNext
<1>3. QED
  BY <1>1, <1>2, MapInvariance, PTL DEF MapSpec, ImplementsMap, Map!Spec
=============================================================================
