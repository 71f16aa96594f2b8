--------------------------- MODULE HashPoolProofs ---------------------------
(***************************************************************************)
(* Proofs about the HASHMAP back end, for every number of clients,         *)
(* addresses, buckets and leases, and for every pair of hash functions.    *)
(* They rest on what HashMapProofs shows of one table: here a table is the *)
(* set of its elements.                                                    *)
(*                                                                         *)
(* Most steps are first-order, and Zenon is the quicker of the two provers *)
(* in a context as long as this one: the proofs try it before SMT.         *)
(***************************************************************************)
EXTENDS HashPool, HashMapProofs

-----------------------------------------------------------------------------
\* Min and Max of a singleton are its element.
LEMMA SingletonExtremes ==
  ASSUME NEW n \in Int
  PROVE  Min({n}) = n /\ Max({n}) = n
BY DEF Min, Max

\* The time left to the clients is a number of seconds, also after a second.
LEMMA ElapsedType ==
  ASSUME left \in [Macs -> [Pool -> Nat]]
  PROVE  /\ Elapsed \in [Macs -> [Pool -> Nat]]
         /\ \A m \in Macs, ip \in Pool :
              Elapsed[m][ip] > 0 => left[m][ip] > 0 /\ Elapsed[m][ip] = left[m][ip] - 1
<1>1. \A m \in Macs : \A ip \in Pool : left[m][ip] \in Nat
  OBVIOUS
<1>2. ASSUME NEW m \in Macs PROVE Elapsed[m] \in [Pool -> Nat]
  <2>1. Elapsed[m] = [ip \in Pool |-> IF left[m][ip] = 0 THEN 0 ELSE left[m][ip] - 1]
    BY DEF Elapsed
  <2>2. \A ip \in Pool : (IF left[m][ip] = 0 THEN 0 ELSE left[m][ip] - 1) \in Nat
    BY <1>1
  <2>3. QED
    BY <2>1, <2>2
<1>3. QED
  BY <1>1, <1>2 DEF Elapsed

\* The adapter's clock stays below its period and gains at most one second.
LEMMA NextSecondBound ==
  ASSUME clk \in 0 .. (ClockWrap - 1)
  PROVE  NextSecond \in 0 .. (ClockWrap - 1) /\ NextSecond <= clk + 1
BY ServerAssumption DEF NextSecond

\* After an ACK for ip the requester's time on ip is n; the rest is unchanged.
LEMMA GrantEffect ==
  ASSUME left \in [Macs -> [Pool -> Nat]], NEW m \in Macs, NEW ip \in Pool, NEW n \in Nat,
         Grant(m, ip, n)
  PROVE  /\ left' \in [Macs -> [Pool -> Nat]]
         /\ left'[m][ip] = n
         /\ \A k \in Macs, a \in Pool : <<k, a>> # <<m, ip>> => left'[k][a] = left[k][a]
<1>1. left' = [left EXCEPT ![m] = [left[m] EXCEPT ![ip] = n]]
  BY DEF Grant
<1>2. [left[m] EXCEPT ![ip] = n] \in [Pool -> Nat]
  OBVIOUS
<1>3. QED
  BY <1>1, <1>2

-----------------------------------------------------------------------------
\* The leases and the addresses are elements of a table.
LEMMA PoolElements == Storable(Macs, Lease) /\ Storable(Pool, Address)
BY HashPoolAssumption DEF Storable, Lease, Address

\* The room of the pool.
LEMMA LeaseRoom == max_leases \in Nat \ {0} /\ max_leases <= HASH_N /\ HASH_N \in Nat \ {0}
BY HashPoolAssumption, HashAssumption DEF max_leases

-----------------------------------------------------------------------------
(***************************************************************************)
(* Two tables in step: the addresses of the leases l are the elements of   *)
(* s, and no two leases have the same one.                                 *)
(***************************************************************************)
AddressesOf(l) == {e.ip_address : e \in Elements(l)}

InStep(l, s) ==
  /\ l \in Tables(Macs, Lease) /\ Sound(l) /\ l.hash = MacHash
  /\ s \in Tables(Pool, Address) /\ Sound(s) /\ s.hash = IpHash
  /\ \A e, x \in Elements(l) : e.ip_address = x.ip_address => e = x
  /\ Elements(s) = {[key |-> ip] : ip \in AddressesOf(l)}

\* The fields of a lease in a table.
LEMMA LeaseFields ==
  ASSUME NEW l, NEW s, InStep(l, s), NEW e \in Elements(l)
  PROVE  /\ e \in Lease /\ e # Empty /\ e.key \in Macs /\ e.ip_address \in Pool /\ e.expire_time \in Nat
         /\ hash_find(l, e.key) = e
         /\ \A x \in Elements(l) : x.key = e.key => x = e
<1> USE Zenon, SMTT(15)
<1>1. l \in Tables(Macs, Lease) /\ Sound(l)
  BY DEF InStep
<1>2. e \in Lease /\ e # Empty /\ e.key \in Macs /\ \A x \in Elements(l) : x.key = e.key => x = e
  BY <1>1, PoolElements, ElementsOf
<1>3. hash_find(l, e.key) = e
  BY <1>1, <1>2, PoolElements, FindSpec
<1>4. QED
  BY <1>2, <1>3 DEF Lease

\* What a search in either table finds.
LEMMA FoundInStep ==
  ASSUME NEW l, NEW s, InStep(l, s)
  PROVE  /\ \A m \in Macs : hash_find(l, m) # Empty =>
              hash_find(l, m) \in Elements(l) /\ hash_find(l, m).key = m
         /\ \A m \in Macs : hash_find(l, m) = Empty => \A e \in Elements(l) : e.key # m
         /\ \A ip \in Pool : hash_find(s, ip) # Empty <=> ip \in AddressesOf(l)
<1> USE Zenon, SMTT(15)
<1>1. /\ l \in Tables(Macs, Lease) /\ Sound(l)
      /\ s \in Tables(Pool, Address) /\ Sound(s)
      /\ Elements(s) = {[key |-> ip] : ip \in AddressesOf(l)}
  BY DEF InStep
<1>2. \A m \in Macs : /\ hash_find(l, m) # Empty => hash_find(l, m) \in Elements(l) /\ hash_find(l, m).key = m
                      /\ hash_find(l, m) = Empty => \A e \in Elements(l) : e.key # m
  BY <1>1, PoolElements, FindSpec
<1>3. \A ip \in Pool : hash_find(s, ip) # Empty <=> \E e \in Elements(s) : e.key = ip
  BY <1>1, PoolElements, FindSpec
<1>4. \A ip : (\E e \in Elements(s) : e.key = ip) <=> ip \in AddressesOf(l)
  <2>1. \A e \in Elements(s) : e.key \in AddressesOf(l)
    BY <1>1
  <2>2. ASSUME NEW ip \in AddressesOf(l) PROVE \E e \in Elements(s) : e.key = ip
    <3>1. [key |-> ip] \in Elements(s) /\ [key |-> ip].key = ip
      BY <1>1
    <3>2. QED
      BY <3>1
  <2>3. QED
    BY <2>1, <2>2
<1>5. QED
  BY <1>2, <1>3, <1>4

\* Tables in step have equal counts, the number of leases.
LEMMA EqualCounts ==
  ASSUME NEW l, NEW s, InStep(l, s)
  PROVE  /\ IsFiniteSet(Elements(l)) /\ l.elem_cnt = Cardinality(Elements(l)) /\ l.elem_cnt \in Nat
         /\ IsFiniteSet(AddressesOf(l)) /\ Cardinality(AddressesOf(l)) = l.elem_cnt
         /\ s.elem_cnt = l.elem_cnt
<1> USE Zenon, SMTT(15)
<1>1. /\ l \in Tables(Macs, Lease) /\ Sound(l)
      /\ s \in Tables(Pool, Address) /\ Sound(s)
      /\ \A e, x \in Elements(l) : e.ip_address = x.ip_address => e = x
      /\ Elements(s) = {[key |-> ip] : ip \in AddressesOf(l)}
  BY DEF InStep
<1>2. IsFiniteSet(Elements(l)) /\ Cardinality(Elements(l)) = l.elem_cnt /\ l.elem_cnt \in 0 .. HASH_N
  BY <1>1, PoolElements, ElementsOf
<1>3. Cardinality(Elements(s)) = s.elem_cnt
  BY <1>1, PoolElements, ElementsOf
<1>4. ExistsBijection(Elements(l), AddressesOf(l))
  <2> DEFINE f == [e \in Elements(l) |-> e.ip_address]
  <2>1. f \in [Elements(l) -> AddressesOf(l)] /\ \A a \in AddressesOf(l) : \E e \in Elements(l) : f[e] = a
    BY DEF AddressesOf
  <2>2. \A e, x \in Elements(l) : f[e] = f[x] => e = x
    BY <1>1
  <2> HIDE DEF f
  <2>3. f \in Bijection(Elements(l), AddressesOf(l))
    BY <2>1, <2>2 DEF Bijection, Injection, Surjection, IsInjective
  <2>4. QED
    BY <2>3 DEF ExistsBijection
<1>5. ExistsBijection(AddressesOf(l), Elements(s))
  <2> DEFINE A == AddressesOf(l)
             f == [a \in A |-> [key |-> a]]
  <2>1. f \in [A -> Elements(s)] /\ \A e \in Elements(s) : \E a \in A : f[a] = e
    BY <1>1
  <2>2. \A a, c \in A : f[a] = f[c] => a = c
    OBVIOUS
  <2> HIDE DEF f, A
  <2>3. f \in Bijection(A, Elements(s))
    BY <2>1, <2>2 DEF Bijection, Injection, Surjection, IsInjective
  <2>4. QED
    BY <2>3 DEF ExistsBijection, A
<1>6. IsFiniteSet(AddressesOf(l)) /\ Cardinality(AddressesOf(l)) = Cardinality(Elements(l))
  BY <1>2, <1>4, FS_Bijection
<1>7. Cardinality(Elements(s)) = Cardinality(AddressesOf(l))
  BY <1>5, <1>6, FS_Bijection
<1>8. QED
  BY <1>2, <1>3, <1>6, <1>7

-----------------------------------------------------------------------------
\* A deletion of a lease from both tables.
LEMMA DropInStep ==
  ASSUME NEW l, NEW s, InStep(l, s), NEW e \in Elements(l)
  PROVE  LET d == Drop(l, s, e)
         IN  InStep(d.leases, d.ip_set) /\ Elements(d.leases) = Elements(l) \ {e}
<1> USE Zenon, SMTT(15)
<1> DEFINE u == hash_delete(l, e.key)
           v == hash_delete(s, e.ip_address)
<1>1. /\ l \in Tables(Macs, Lease) /\ Sound(l) /\ l.hash = MacHash
      /\ s \in Tables(Pool, Address) /\ Sound(s) /\ s.hash = IpHash
      /\ \A x, y \in Elements(l) : x.ip_address = y.ip_address => x = y
      /\ Elements(s) = {[key |-> ip] : ip \in AddressesOf(l)}
  BY DEF InStep
<1>2. e.key \in Macs /\ e.ip_address \in Pool /\ \A x \in Elements(l) : x.key = e.key => x = e
  BY LeaseFields
<1>3. u \in Tables(Macs, Lease) /\ Sound(u) /\ u.hash = MacHash /\ Elements(u) = Others(l, e.key)
  BY <1>1, <1>2, PoolElements, DeleteSpec
<1>4. v \in Tables(Pool, Address) /\ Sound(v) /\ v.hash = IpHash /\ Elements(v) = Others(s, e.ip_address)
  BY <1>1, <1>2, PoolElements, DeleteSpec
<1> HIDE DEF u, v
<1>5. Elements(u) = Elements(l) \ {e}
  BY <1>2, <1>3 DEF Others
<1>6. AddressesOf(u) = AddressesOf(l) \ {e.ip_address}
  BY <1>1, <1>5 DEF AddressesOf
<1>7. Elements(v) = {[key |-> ip] : ip \in AddressesOf(u)}
  <2>1. Elements(v) = {x \in {[key |-> ip] : ip \in AddressesOf(l)} : x.key # e.ip_address}
    BY <1>1, <1>4 DEF Others
  <2>2. QED
    BY <1>6, <2>1
<1>8. InStep(u, v)
  BY <1>1, <1>3, <1>4, <1>5, <1>7 DEF InStep
<1>9. Drop(l, s, e).leases = u /\ Drop(l, s, e).ip_set = v
  BY DEF Drop, u, v
<1>10. QED
  BY <1>5, <1>8, <1>9

\* An insertion of a new lease on a free address into both tables.
LEMMA InsertInStep ==
  ASSUME NEW l, NEW s, InStep(l, s), NEW e \in Lease, l.elem_cnt < max_leases,
         \A x \in Elements(l) : x.key # e.key, e.ip_address \notin AddressesOf(l)
  PROVE  /\ InsertSucceeds(l, e) /\ InsertSucceeds(s, [key |-> e.ip_address])
         /\ InStep(hash_insert(l, e), hash_insert(s, [key |-> e.ip_address]))
         /\ Elements(hash_insert(l, e)) = Elements(l) \cup {e}
         /\ hash_insert(l, e).elem_cnt = l.elem_cnt + 1
<1> USE Zenon, SMTT(15)
<1> DEFINE a == [key |-> e.ip_address]
           u == hash_insert(l, e)
           v == hash_insert(s, a)
<1>1. /\ l \in Tables(Macs, Lease) /\ Sound(l) /\ l.hash = MacHash
      /\ s \in Tables(Pool, Address) /\ Sound(s) /\ s.hash = IpHash
      /\ \A x, y \in Elements(l) : x.ip_address = y.ip_address => x = y
      /\ Elements(s) = {[key |-> ip] : ip \in AddressesOf(l)}
  BY DEF InStep
<1>2. l.elem_cnt # HASH_N /\ s.elem_cnt # HASH_N
  BY EqualCounts, LeaseRoom
<1>3. a \in Address /\ a.key = e.ip_address
  BY DEF Lease, Address
<1>4. \A x \in Elements(s) : x.key # a.key
  BY <1>1, <1>3
<1>5. /\ InsertSucceeds(l, e) /\ u \in Tables(Macs, Lease) /\ Sound(u) /\ u.hash = MacHash
      /\ Elements(u) = Others(l, e.key) \cup {e} /\ u.elem_cnt = l.elem_cnt + 1
  BY <1>1, <1>2, PoolElements, InsertSpec
<1> HIDE DEF a
<1>6. /\ InsertSucceeds(s, a) /\ v \in Tables(Pool, Address) /\ Sound(v) /\ v.hash = IpHash
      /\ Elements(v) = Others(s, a.key) \cup {a}
  BY <1>1, <1>2, <1>3, PoolElements, InsertSpec
<1> HIDE DEF u, v
<1>7. Others(l, e.key) = Elements(l) /\ Others(s, a.key) = Elements(s)
  BY <1>4 DEF Others
<1>8. \A x, y \in Elements(u) : x.ip_address = y.ip_address => x = y
  BY <1>1, <1>5, <1>7 DEF AddressesOf
<1>9. AddressesOf(u) = AddressesOf(l) \cup {e.ip_address}
  BY <1>5, <1>7 DEF AddressesOf
<1>10. Elements(v) = {[key |-> ip] : ip \in AddressesOf(u)}
  BY <1>1, <1>6, <1>7, <1>9 DEF a
<1>11. InStep(u, v)
  BY <1>5, <1>6, <1>8, <1>10 DEF InStep
<1>12. QED
  BY <1>5, <1>6, <1>7, <1>11 DEF a, u, v

\* A lease of m that is extended where it is.
Extended(l, m, x) == [l EXCEPT !.bucket[StopsAt(l, m)].expire_time = x]

\* An extension leaves the tables in step.
LEMMA ExtendInStep ==
  ASSUME NEW l, NEW s, InStep(l, s), NEW m \in Macs, hash_find(l, m) # Empty, NEW x \in Nat
  PROVE  LET e == hash_find(l, m)
             y == [key |-> m, ip_address |-> e.ip_address, expire_time |-> x]
             u == Extended(l, m, x)
         IN  /\ InStep(u, s) /\ u.elem_cnt = l.elem_cnt
             /\ Elements(u) = (Elements(l) \ {e}) \cup {y}
<1> USE Zenon, SMTT(15)
<1> DEFINE e == hash_find(l, m)
           y == [key |-> m, ip_address |-> e.ip_address, expire_time |-> x]
           u == Extended(l, m, x)
           i == StopsAt(l, m)
<1>1. /\ l \in Tables(Macs, Lease) /\ Sound(l) /\ l.hash = MacHash
      /\ s \in Tables(Pool, Address) /\ Sound(s) /\ s.hash = IpHash
      /\ \A f, g \in Elements(l) : f.ip_address = g.ip_address => f = g
      /\ Elements(s) = {[key |-> ip] : ip \in AddressesOf(l)}
  BY DEF InStep
<1>2. e \in Elements(l) /\ e.key = m /\ i \in Used(l) /\ l.bucket[i] = e
  BY <1>1, PoolElements, FindSpec
<1>3. e \in Lease /\ e.ip_address \in Pool /\ y \in Lease
  BY <1>2, LeaseFields DEF Lease
<1>4. [e EXCEPT !.expire_time = x] = y
  BY <1>2, <1>3 DEF Lease
<1>5. l.bucket \in [Buckets -> Lease \cup {Empty}] /\ i \in Buckets
  BY <1>1, <1>2, PoolElements, BucketTypes
<1>6. u = [l EXCEPT !.bucket[i] = y]
  BY <1>1, <1>2, <1>4, <1>5 DEF Extended
<1> HIDE DEF e, i
<1>7. LET w == With(l, i, y, l.elem_cnt)
      IN  /\ w = [l EXCEPT !.bucket[i] = y]
          /\ w \in Tables(Macs, Lease) /\ w.hash = l.hash /\ w.elem_cnt = l.elem_cnt
          /\ Elements(w) = (Elements(l) \ {l.bucket[i]}) \cup {y}
          /\ Sound(w)
  <2>1. y.key = l.bucket[i].key
    BY <1>2
  <2> HIDE DEF y
  <2>2. QED
    BY <1>1, <1>2, <1>3, <2>1, PoolElements, StoreOld
<1>8. /\ u \in Tables(Macs, Lease) /\ Sound(u) /\ u.hash = MacHash /\ u.elem_cnt = l.elem_cnt
      /\ Elements(u) = (Elements(l) \ {e}) \cup {y}
  BY <1>1, <1>2, <1>6, <1>7
<1> HIDE DEF u
<1>9. y.ip_address = e.ip_address
  OBVIOUS
<1> HIDE DEF y
<1>10. AddressesOf(u) = AddressesOf(l) /\ \A f, g \in Elements(u) : f.ip_address = g.ip_address => f = g
  BY <1>1, <1>2, <1>8, <1>9 DEF AddressesOf
<1>11. InStep(u, s)
  BY <1>1, <1>8, <1>10 DEF InStep
<1>12. QED
  BY <1>8, <1>11 DEF e, y, u

-----------------------------------------------------------------------------
(***************************************************************************)
(* The sweep.                                                              *)
(***************************************************************************)
Tabs == [leases : {l \in Tables(Macs, Lease) : Sound(l)}, ip_set : {s \in Tables(Pool, Address) : Sound(s)}]

\* One turn of the sweep's second loop, at bucket n - 1.
Sweeping(t, n) == IF n - 1 \in Swept THEN Drop(t.leases, t.ip_set, leases.bucket[n - 1]) ELSE t

\* What the sweep takes: leases in the table, whose time has passed.
LEMMA SweptLeases ==
  ASSUME InStep(leases, ip_set), NEW i \in Swept
  PROVE  /\ i \in Used(leases) /\ leases.bucket[i] \in Elements(leases)
         /\ leases.bucket[i].key \in Macs /\ leases.bucket[i].ip_address \in Pool
         /\ leases.bucket[i].expire_time <= clk
         /\ Full(leases)
<1> USE Zenon, SMTT(15)
<1>1. i \in Expired /\ Full(leases)
  BY DEF Swept
<1>2. i \in Used(leases) /\ leases.bucket[i].expire_time <= clk
  BY <1>1 DEF Expired, Used
<1>3. leases.bucket[i] \in Elements(leases)
  BY <1>2 DEF Elements
<1>4. QED
  BY <1>1, <1>2, <1>3, LeaseFields

\* The sweep is a sequence of turns.
LEMMA SweepByTurns ==
  ASSUME InStep(leases, ip_set)
  PROVE  \E f : /\ f[0] = [leases |-> leases, ip_set |-> ip_set]
                /\ \A n \in 1 .. HASH_N : f[n] = Sweeping(f[n - 1], n)
                /\ SweptTables = f[HASH_N]
<1> USE Zenon, SMTT(15)
<1> DEFINE F == [p \in Tabs \X Nat |-> Sweeping(p[1], p[2])]
           start == [leases |-> leases, ip_set |-> ip_set]
           Loop(f) == [n \in 0 .. HASH_N |-> IF n = 0 THEN start ELSE Sweeping(f[n - 1], n)]
           g == CHOOSE f : f = Loop(f)
<1>1. start \in Tabs
  BY DEF Tabs, InStep
<1>2. F \in [Tabs \X Nat -> Tabs]
  <2>1. ASSUME NEW t \in Tabs, NEW n \in Nat PROVE Sweeping(t, n) \in Tabs
    <3>1. CASE n - 1 \in Swept
      <4> DEFINE e == leases.bucket[n - 1]
      <4>1. e.key \in Macs /\ e.ip_address \in Pool
        BY <3>1, SweptLeases
      <4> HIDE DEF e
      <4>2. t.leases \in Tables(Macs, Lease) /\ Sound(t.leases)
            /\ t.ip_set \in Tables(Pool, Address) /\ Sound(t.ip_set)
        BY DEF Tabs
      <4>3. /\ hash_delete(t.leases, e.key) \in Tables(Macs, Lease)
            /\ Sound(hash_delete(t.leases, e.key))
        BY <4>1, <4>2, PoolElements, DeleteSpec
      <4>4. /\ hash_delete(t.ip_set, e.ip_address) \in Tables(Pool, Address)
            /\ Sound(hash_delete(t.ip_set, e.ip_address))
        BY <4>1, <4>2, PoolElements, DeleteSpec
      <4>5. Drop(t.leases, t.ip_set, e) \in Tabs
        BY <4>3, <4>4 DEF Drop, Tabs
      <4>6. QED
        BY <3>1, <4>5 DEF Sweeping, e
    <3>2. CASE n - 1 \notin Swept
      BY <3>2 DEF Sweeping
    <3>3. QED
      BY <3>1, <3>2
  <2>2. QED
    BY <2>1
<1>3. \A t \in Tabs, n \in Nat : F[<<t, n>>] = Sweeping(t, n)
  OBVIOUS
<1> HIDE DEF F, start
<1>4. PICK f : Iterates(f, Tabs, F, start, HASH_N)
  BY <1>1, <1>2, HashAssumption, Iteration
<1>5. f = Loop(f)
  <2>1. ASSUME NEW n \in 0 .. HASH_N, n # 0 PROVE f[n] = Sweeping(f[n - 1], n)
    <3>1. n \in 1 .. HASH_N /\ n - 1 \in 0 .. HASH_N /\ n \in Nat
      BY <2>1, HashAssumption
    <3>2. QED
      BY <1>3, <1>4, <3>1 DEF Iterates
  <2>2. f \in [0 .. HASH_N -> Tabs] /\ f[0] = start
    BY <1>4 DEF Iterates
  <2>3. QED
    BY <2>1, <2>2
<1>6. g = Loop(g)
  BY <1>5
<1>7. SweptTables = g[HASH_N]
  BY DEF SweptTables, Sweeping, start
<1> HIDE DEF g
<1>8. g[0] = start /\ \A n \in 1 .. HASH_N : g[n] = Sweeping(g[n - 1], n)
  <2>1. 0 \in 0 .. HASH_N /\ \A n \in 1 .. HASH_N : n \in 0 .. HASH_N /\ n # 0
    BY HashAssumption
  <2>2. QED
    BY <1>6, <2>1
<1>9. QED
  BY <1>7, <1>8 DEF start

\* The leases the sweep has taken before it comes to bucket n.
Taken(n) == {leases.bucket[i] : i \in {j \in Swept : j < n}}

\* The sweep takes the leases it noted, all of them run out, and leaves the tables in step.
LEMMA SweepEffect ==
  ASSUME InStep(leases, ip_set)
  PROVE  /\ InStep(SweptTables.leases, SweptTables.ip_set)
         /\ Elements(SweptTables.leases) = Elements(leases) \ {leases.bucket[i] : i \in Swept}
         /\ \A e \in Elements(leases) \ Elements(SweptTables.leases) : e.expire_time <= clk
         /\ Swept = {} => Elements(SweptTables.leases) = Elements(leases)
<1> USE Zenon, SMTT(15)
<1>1. PICK f : /\ f[0] = [leases |-> leases, ip_set |-> ip_set]
               /\ \A n \in 1 .. HASH_N : f[n] = Sweeping(f[n - 1], n)
               /\ SweptTables = f[HASH_N]
  BY SweepByTurns
<1> DEFINE Good(n) == InStep(f[n].leases, f[n].ip_set) /\ Elements(f[n].leases) = Elements(leases) \ Taken(n)
<1>2. Swept \subseteq Buckets /\ Buckets \subseteq Nat /\ \A i \in Buckets : i < HASH_N
  <2>1. Swept \subseteq Buckets
    BY DEF Swept, Expired
  <2>2. QED
    BY <2>1, HashAssumption DEF Buckets
<1>3. Good(0)
  <2>1. \A j \in Swept : ~(j < 0)
    <3>1. \A j \in Nat : ~(j < 0)
      OBVIOUS
    <3>2. QED
      BY <1>2, <3>1
  <2>2. {j \in Swept : j < 0} = {}
    BY <2>1
  <2>3. Taken(0) = {}
    BY <2>2 DEF Taken
  <2>4. QED
    BY <1>1, <2>3
<1>4. ASSUME NEW n \in 1 .. HASH_N, Good(n - 1) PROVE Good(n)
  <2>1. n \in Nat /\ f[n] = Sweeping(f[n - 1], n)
    BY <1>1, HashAssumption
  <2>2. \A j \in Swept : j < n <=> j < n - 1 \/ j = n - 1
    <3>1. \A j \in Nat : j < n <=> j < n - 1 \/ j = n - 1
      BY <2>1
    <3>2. QED
      BY <1>2, <3>1
  <2>3. n - 1 < n
    BY <2>1
  <2>4. CASE n - 1 \notin Swept
    <3>1. {j \in Swept : j < n} = {j \in Swept : j < n - 1}
      BY <2>2, <2>4
    <3>2. QED
      BY <1>4, <2>1, <2>4, <3>1 DEF Sweeping, Taken
  <2>5. CASE n - 1 \in Swept
    <3> DEFINE e == leases.bucket[n - 1]
    <3>1. {j \in Swept : j < n} = {j \in Swept : j < n - 1} \cup {n - 1}
      BY <2>2, <2>3, <2>5
    <3>2. Taken(n) = Taken(n - 1) \cup {e}
      BY <3>1 DEF Taken
    <3>3. e \in Elements(leases)
      BY <2>5, SweptLeases
    <3>4. e \notin Taken(n - 1)
      <4>1. ASSUME NEW j \in Swept, j < n - 1, leases.bucket[j] = e PROVE FALSE
        <5>1. j \in Used(leases) /\ n - 1 \in Used(leases)
          BY <2>5, <4>1, SweptLeases
        <5>2. j = n - 1
          BY <4>1, <5>1 DEF InStep, Sound, OneEach
        <5>3. QED
          BY <2>1, <4>1, <5>2
      <4>2. QED
        BY <4>1 DEF Taken
    <3>5. e \in Elements(f[n - 1].leases)
      BY <1>4, <3>3, <3>4
    <3>6. f[n] = Drop(f[n - 1].leases, f[n - 1].ip_set, e)
      BY <2>1, <2>5 DEF Sweeping
    <3> HIDE DEF e
    <3>7. InStep(f[n].leases, f[n].ip_set) /\ Elements(f[n].leases) = Elements(f[n - 1].leases) \ {e}
      BY <1>4, <3>5, <3>6, DropInStep
    <3>8. QED
      BY <1>4, <3>2, <3>7
  <2>6. QED
    BY <2>4, <2>5
<1> HIDE DEF Good
<1>5. Good(HASH_N)
  <2> DEFINE Bad == {n \in 0 .. HASH_N : ~Good(n)}
  <2>1. SUFFICES ASSUME Bad # {} PROVE FALSE
    BY HashAssumption
  <2>2. Bad \in SUBSET Nat
    BY HashAssumption
  <2>3. PICK m \in Bad : \A n \in Bad : m <= n
    <3> HIDE DEF Bad
    <3>1. QED
      BY <2>1, <2>2, LeastStep
  <2>4. m \in 1 .. HASH_N /\ m - 1 \in 0 .. HASH_N
    BY <1>3, <2>3, HashAssumption
  <2>5. m - 1 \notin Bad
    BY <2>3, <2>4
  <2>6. QED
    BY <1>4, <2>3, <2>4, <2>5
<1>6. Taken(HASH_N) = {leases.bucket[i] : i \in Swept}
  <2>1. {j \in Swept : j < HASH_N} = Swept
    BY <1>2
  <2>2. QED
    BY <2>1 DEF Taken
<1>7. \A e \in Taken(HASH_N) : e.expire_time <= clk
  BY <1>6, SweptLeases
<1>8. QED
  BY <1>1, <1>5, <1>6, <1>7 DEF Good

\* The sweep makes the tables no larger.
LEMMA SweepCount ==
  ASSUME InStep(leases, ip_set)
  PROVE  /\ SweptTables.leases.elem_cnt \in Nat
         /\ SweptTables.leases.elem_cnt <= leases.elem_cnt
         /\ Swept # {} => SweptTables.leases.elem_cnt < leases.elem_cnt
<1> USE Zenon, SMTT(15)
<1> DEFINE t == SweptTables
<1>1. InStep(t.leases, t.ip_set) /\ Elements(t.leases) = Elements(leases) \ {leases.bucket[i] : i \in Swept}
  BY SweepEffect
<1>2. /\ IsFiniteSet(Elements(leases)) /\ leases.elem_cnt = Cardinality(Elements(leases))
      /\ t.leases.elem_cnt = Cardinality(Elements(t.leases)) /\ t.leases.elem_cnt \in Nat
      /\ leases.elem_cnt \in Nat
  BY <1>1, EqualCounts
<1>3. Swept # {} => Elements(t.leases) # Elements(leases)
  BY <1>1, SweptLeases
<1> HIDE DEF t
<1>4. Elements(t.leases) \in SUBSET Elements(leases)
  BY <1>1
<1>5. QED
  BY <1>2, <1>3, <1>4, FS_Subset DEF t

-----------------------------------------------------------------------------
(***************************************************************************)
(* The inductive invariant.  The time a client has left is covered by its  *)
(* lease; until the clock turns a lease lasts no longer than that either.  *)
(***************************************************************************)
Covers(L, now, time) ==
  \A m \in Macs, ip \in Pool : time[m][ip] > 0 =>
    \E e \in L : e.key = m /\ e.ip_address = ip /\ e.expire_time >= now + time[m][ip]

NoLonger(L, now, time) == \A e \in L : e.expire_time <= now + time[e.key][e.ip_address]

IInv ==
  /\ ServerTypeOK
  /\ next_ip \in Pool
  /\ InStep(leases, ip_set)
  /\ leases.elem_cnt <= max_leases
  /\ Covers(Elements(leases), clk, left)
  /\ turned = 0 => NoLonger(Elements(leases), clk, left)
  /\ OfferUnheld

\* The invariant holds of the empty tables.
LEMMA InvInit == Init => IInv
<1> USE Zenon, SMTT(15)
<1> SUFFICES ASSUME Init PROVE IInv
  OBVIOUS
<1>1. /\ leases \in Tables(Macs, Lease) /\ Sound(leases) /\ leases.hash = MacHash
      /\ Elements(leases) = {} /\ leases.elem_cnt = 0
  BY HashPoolAssumption, ClearSpec DEF Init
<1>2. /\ ip_set \in Tables(Pool, Address) /\ Sound(ip_set) /\ ip_set.hash = IpHash
      /\ Elements(ip_set) = {}
  BY HashPoolAssumption, ClearSpec DEF Init
<1>3. InStep(leases, ip_set)
  BY <1>1, <1>2 DEF InStep, AddressesOf
<1>4. ServerTypeOK /\ next_ip \in Pool
  BY ServerAssumption DEF Init, ServerInit, ServerTypeOK, NoReply, Replies, Pool
<1>5. Covers(Elements(leases), clk, left) /\ NoLonger(Elements(leases), clk, left)
  BY <1>1 DEF Covers, NoLonger, Init, ServerInit
<1>6. OfferUnheld
  BY DEF OfferUnheld, Init, ServerInit, NoReply
<1>7. QED
  BY <1>1, <1>3, <1>4, <1>5, <1>6, LeaseRoom DEF IInv

\* The sweep takes no lease that still runs for a client.
LEMMA SweptInv ==
  ASSUME IInv
  PROVE  LET t == SweptTables
         IN  /\ InStep(t.leases, t.ip_set)
             /\ t.leases.elem_cnt \in Nat /\ t.leases.elem_cnt <= max_leases
             /\ Covers(Elements(t.leases), clk, left)
             /\ turned = 0 => NoLonger(Elements(t.leases), clk, left)
             /\ Elements(t.leases) \subseteq Elements(leases)
<1> USE Zenon, SMTT(15)
<1> DEFINE t == SweptTables
<1>1. /\ InStep(t.leases, t.ip_set)
      /\ Elements(t.leases) \subseteq Elements(leases)
      /\ \A e \in Elements(leases) \ Elements(t.leases) : e.expire_time <= clk
  BY SweepEffect DEF IInv
<1>2. t.leases.elem_cnt \in Nat /\ t.leases.elem_cnt <= max_leases
  <2>1. t.leases.elem_cnt \in Nat /\ t.leases.elem_cnt <= leases.elem_cnt
    BY SweepCount DEF IInv
  <2>2. leases.elem_cnt \in Nat /\ leases.elem_cnt <= max_leases
    BY EqualCounts DEF IInv
  <2>3. QED
    BY <2>1, <2>2, LeaseRoom
<1> HIDE DEF t
<1>3. ASSUME NEW m \in Macs, NEW ip \in Pool, left[m][ip] > 0
      PROVE  \E e \in Elements(t.leases) : e.key = m /\ e.ip_address = ip /\ e.expire_time >= clk + left[m][ip]
  <2>1. PICK e \in Elements(leases) : e.key = m /\ e.ip_address = ip /\ e.expire_time >= clk + left[m][ip]
    BY <1>3 DEF IInv, Covers
  <2>2. e.expire_time \in Nat /\ clk \in Nat /\ left[m][ip] \in Nat
    BY <2>1, LeaseFields, ServerAssumption DEF IInv, ServerTypeOK
  <2>3. ~(e.expire_time <= clk)
    BY <1>3, <2>1, <2>2
  <2>4. QED
    BY <1>1, <2>1, <2>3
<1>4. turned = 0 => NoLonger(Elements(t.leases), clk, left)
  BY <1>1 DEF IInv, NoLonger
<1>5. QED
  BY <1>1, <1>2, <1>3, <1>4 DEF Covers, t

\* A probe is in the pool.
LEMMA ProbeInPool ==
  ASSUME next_ip \in Pool, NEW k \in Nat
  PROVE  Probe(k) \in Pool
<1> USE Zenon, SMTT(15)
<1>1. RangeSize \in Nat \ {0} /\ next_ip - PoolStart + k \in Int
  BY ServerAssumption DEF RangeSize, Pool
<1>2. ((next_ip - PoolStart + k) % RangeSize) \in 0 .. (RangeSize - 1)
  BY <1>1
<1>3. QED
  BY <1>2, ServerAssumption DEF Probe, Pool, RangeSize

\* A client is only offered an address that no other client may still use.
LEMMA UnheldByOthers ==
  ASSUME NEW L, NEW m \in Macs, NEW ip \in Pool,
         Covers(L, clk, left), \A e \in L : e.ip_address = ip => e.key = m
  PROVE  \A k \in Macs \ {m} : ~(left[k][ip] > 0)
BY DEF Covers

\* DISCOVER keeps the invariant.
LEMMA DiscoverInv ==
  ASSUME IInv, NEW m \in Macs, Discover(m)
  PROVE  IInv'
<1> USE Zenon, SMTT(15)
<1> DEFINE t == SweptTables
<1>1. /\ InStep(t.leases, t.ip_set)
      /\ t.leases.elem_cnt \in Nat /\ t.leases.elem_cnt <= max_leases
      /\ Covers(Elements(t.leases), clk, left)
      /\ turned = 0 => NoLonger(Elements(t.leases), clk, left)
  BY SweptInv
<1>2. leases' = t.leases /\ ip_set' = t.ip_set /\ clk' = clk /\ turned' = turned /\ left' = left
  BY DEF Discover
<1>3. OfferOwn(t, m) \/ OfferNext(t, m) \/ OfferNothing(t, m)
  BY DEF Discover
<1> HIDE DEF t
<1>4. resp' \in Replies /\ next_ip' \in Pool /\ OfferUnheld'
  <2>1. CASE OfferOwn(t, m)
    <3> DEFINE e == hash_find(t.leases, m)
    <3>1. e \in Elements(t.leases) /\ e.key = m
      BY <1>1, <2>1, FoundInStep DEF OfferOwn
    <3>2. e.ip_address \in Pool
      BY <1>1, <3>1, LeaseFields
    <3>3. \A x \in Elements(t.leases) : x.ip_address = e.ip_address => x.key = m
      BY <1>1, <3>1 DEF InStep
    <3>4. resp' = Offer(m, e.ip_address, LeaseTime) /\ next_ip' = next_ip
      BY <2>1 DEF OfferOwn
    <3> HIDE DEF e
    <3>5. \A k \in Macs \ {m} : ~(left[k][e.ip_address] > 0)
      BY <1>1, <3>2, <3>3, UnheldByOthers
    <3>6. QED
      BY <1>2, <3>2, <3>4, <3>5, ServerAssumption DEF IInv, Offer, Replies, OfferUnheld, Live
  <2>2. CASE OfferNext(t, m)
    <3> DEFINE k == Min(FreeSteps(t.ip_set))
               ip == Probe(k)
    <3>1. FreeSteps(t.ip_set) \in SUBSET Nat /\ FreeSteps(t.ip_set) # {}
      BY <2>2, ServerAssumption DEF FreeSteps, OfferNext, RangeSize
    <3>2. k \in FreeSteps(t.ip_set) /\ k \in Nat
      BY <3>1, LeastStep
    <3>3. hash_find(t.ip_set, ip) = Empty
      BY <3>2 DEF FreeSteps
    <3>4. resp' = Offer(m, ip, LeaseTime) /\ next_ip' = Probe(k + 1)
      BY <2>2 DEF OfferNext
    <3> HIDE DEF k
    <3>5. ip \in Pool /\ next_ip' \in Pool
      BY <3>2, <3>4, ProbeInPool DEF IInv
    <3> HIDE DEF ip
    <3>6. \A e \in Elements(t.leases) : e.ip_address # ip
      BY <1>1, <3>3, <3>5, FoundInStep DEF AddressesOf
    <3>7. \A j \in Macs \ {m} : ~(left[j][ip] > 0)
      BY <1>1, <3>5, <3>6, UnheldByOthers
    <3>8. QED
      BY <1>2, <3>4, <3>5, <3>7, ServerAssumption DEF Offer, Replies, OfferUnheld, Live
  <2>3. CASE OfferNothing(t, m)
    BY <2>3 DEF OfferNothing, NoReply, Replies, OfferUnheld, IInv
  <2>4. QED
    BY <1>3, <2>1, <2>2, <2>3
<1>5. QED
  BY <1>1, <1>2, <1>4 DEF IInv, ServerTypeOK, InStep, AddressesOf

\* An ACK and the lease it stands for.
LEMMA GrantCovers ==
  ASSUME left \in [Macs -> [Pool -> Nat]], clk \in Nat, NEW m \in Macs, NEW ip \in Pool,
         Grant(m, ip, LeaseTime), NEW L, \A x \in L : x.key \in Macs /\ x.ip_address \in Pool,
         \A x \in L : x.key = m => x.ip_address = ip,
         NEW M, M = {x \in L : x.key # m} \cup {[key |-> m, ip_address |-> ip, expire_time |-> clk + LeaseTime]}
  PROVE  /\ left' \in [Macs -> [Pool -> Nat]]
         /\ Covers(L, clk, left) => Covers(M, clk, left')
         /\ NoLonger(L, clk, left) => NoLonger(M, clk, left')
<1> USE Zenon, SMTT(15)
<1> DEFINE y == [key |-> m, ip_address |-> ip, expire_time |-> clk + LeaseTime]
<1>1. LeaseTime \in Nat
  BY ServerAssumption
<1>2. /\ left' \in [Macs -> [Pool -> Nat]]
      /\ left'[m][ip] = LeaseTime
      /\ \A k \in Macs, a \in Pool : <<k, a>> # <<m, ip>> => left'[k][a] = left[k][a]
  BY <1>1, GrantEffect
<1>3. y.key = m /\ y.ip_address = ip /\ y.expire_time = clk + LeaseTime /\ y \in M
  OBVIOUS
<1>4. \A x \in M : x = y \/ (x \in L /\ x.key # m)
  OBVIOUS
<1>5. \A x \in L : x.key # m => x \in M
  OBVIOUS
<1> HIDE DEF y
<1>6. ASSUME Covers(L, clk, left), NEW k \in Macs, NEW a \in Pool, left'[k][a] > 0
      PROVE  \E e \in M : e.key = k /\ e.ip_address = a /\ e.expire_time >= clk + left'[k][a]
  <2>1. CASE k = m /\ a = ip
    BY <1>1, <1>2, <1>3, <2>1
  <2>2. CASE ~(k = m /\ a = ip)
    <3>1. left'[k][a] = left[k][a]
      BY <1>2, <2>2
    <3>2. PICK e \in L : e.key = k /\ e.ip_address = a /\ e.expire_time >= clk + left[k][a]
      BY <1>6, <3>1 DEF Covers
    <3>3. e.key # m
      BY <2>2, <3>2
    <3>4. QED
      BY <1>5, <3>1, <3>2, <3>3
  <2>3. QED
    BY <2>1, <2>2
<1>7. ASSUME NoLonger(L, clk, left), NEW e \in M
      PROVE  e.expire_time <= clk + left'[e.key][e.ip_address]
  <2>1. CASE e = y
    BY <1>1, <1>2, <1>3, <2>1
  <2>2. CASE e # y
    <3>1. e \in L /\ e.key # m
      BY <1>4, <2>2
    <3>2. e.key \in Macs /\ e.ip_address \in Pool
      BY <3>1
    <3>3. left'[e.key][e.ip_address] = left[e.key][e.ip_address]
      BY <1>2, <3>1, <3>2
    <3>4. QED
      BY <1>7, <3>1, <3>3 DEF NoLonger
  <2>3. QED
    BY <2>1, <2>2
<1>8. QED
  BY <1>2, <1>6, <1>7 DEF Covers, NoLonger

\* What a REQUEST for an address of the pool does to the leases.
LEMMA RequestEffect ==
  ASSUME IInv, NEW m \in Macs, NEW ip \in Pool, InPool(m, ip)
  PROVE  LET t == SweptTables
             new == [key |-> m, ip_address |-> ip, expire_time |-> clk + LeaseTime]
         IN  \/ /\ Renew(t, m, ip) \/ Allocate(t, m, ip)
                /\ InStep(leases', ip_set')
                /\ leases'.elem_cnt \in Nat /\ leases'.elem_cnt <= max_leases
                /\ Elements(leases') = {x \in Elements(t.leases) : x.key # m} \cup {new}
                /\ \A x \in Elements(t.leases) : x.key = m => x.ip_address = ip
                /\ (\A x \in Elements(t.leases) : x.key # m) => ip \notin AddressesOf(t.leases)
                /\ resp' = Ack(m, ip, LeaseTime) /\ Grant(m, ip, LeaseTime)
             \/ /\ leases' = t.leases /\ ip_set' = t.ip_set
                /\ \A x \in Elements(t.leases) : x.key = m => x.ip_address # ip
                /\ resp' = Nak(m) /\ UNCHANGED left
<1> USE Zenon, SMTT(15)
<1> DEFINE t == SweptTables
           mine == hash_find(t.leases, m)
           x == clk + LeaseTime
           new == [key |-> m, ip_address |-> ip, expire_time |-> x]
<1>1. InStep(t.leases, t.ip_set) /\ t.leases.elem_cnt \in Nat /\ t.leases.elem_cnt <= max_leases
  BY SweptInv
<1>2. x \in Nat
  BY ServerAssumption DEF IInv, ServerTypeOK
<1>3. new \in Lease /\ new.key = m /\ new.ip_address = ip /\ new = NewLease(m, ip)
  BY <1>2 DEF Lease, NewLease
<1>4. /\ mine # Empty => mine \in Elements(t.leases) /\ mine.key = m
      /\ mine = Empty => \A e \in Elements(t.leases) : e.key # m
      /\ hash_find(t.ip_set, ip) # Empty <=> ip \in AddressesOf(t.leases)
  BY <1>1, FoundInStep
<1>5. mine # Empty => \A e \in Elements(t.leases) : e.key = m => e = mine
  BY <1>1, <1>4, LeaseFields
<1>6. Renew(t, m, ip) \/ Allocate(t, m, ip) \/ Refuse(t, m, ip)
  BY DEF InPool
<1>7. CASE Renew(t, m, ip)
  <2>1. mine # Empty /\ mine.ip_address = ip /\ leases' = Extended(t.leases, m, x) /\ ip_set' = t.ip_set
        /\ resp' = Ack(m, ip, LeaseTime) /\ Grant(m, ip, LeaseTime)
    BY <1>7 DEF Renew, Extended
  <2> HIDE DEF t
  <2>2. /\ InStep(Extended(t.leases, m, x), t.ip_set)
        /\ Extended(t.leases, m, x).elem_cnt = t.leases.elem_cnt
        /\ Elements(Extended(t.leases, m, x)) = (Elements(t.leases) \ {mine}) \cup {new}
    <3> HIDE DEF x
    <3>1. QED
      BY <1>1, <1>2, <2>1, ExtendInStep
  <2> HIDE DEF mine, new
  <2>3. Elements(t.leases) \ {mine} = {e \in Elements(t.leases) : e.key # m}
    BY <1>4, <1>5, <2>1
  <2>4. QED
    BY <1>1, <1>4, <1>5, <1>7, <2>1, <2>2, <2>3 DEF t, new
<1>8. CASE Allocate(t, m, ip)
  <2>1. mine = Empty /\ hash_find(t.ip_set, ip) = Empty /\ ~Full(t.leases)
        /\ leases' = hash_insert(t.leases, new) /\ ip_set' = hash_insert(t.ip_set, [key |-> ip])
        /\ resp' = Ack(m, ip, LeaseTime) /\ Grant(m, ip, LeaseTime)
    BY <1>3, <1>8 DEF Allocate, MayAllocate
  <2> HIDE DEF t, mine, new
  <2>2. t.leases.elem_cnt < max_leases
    BY <1>1, <2>1, LeaseRoom DEF Full
  <2>3. \A e \in Elements(t.leases) : e.key # m
    BY <1>4, <2>1
  <2>4. /\ InStep(leases', ip_set') /\ Elements(leases') = Elements(t.leases) \cup {new}
        /\ leases'.elem_cnt = t.leases.elem_cnt + 1
    BY <1>1, <1>3, <1>4, <2>1, <2>2, <2>3, InsertInStep
  <2>5. leases'.elem_cnt \in Nat /\ leases'.elem_cnt <= max_leases
    BY <1>1, <2>2, <2>4, LeaseRoom
  <2>6. Elements(t.leases) = {e \in Elements(t.leases) : e.key # m}
    BY <2>3
  <2>7. ip \notin AddressesOf(t.leases)
    BY <1>4, <2>1
  <2>8. QED
    BY <1>8, <2>1, <2>3, <2>4, <2>5, <2>6, <2>7 DEF t, new
<1>9. CASE Refuse(t, m, ip)
  <2>1. /\ mine # Empty => mine.ip_address # ip
        /\ MayAllocate(t, m, ip) => \/ ~InsertSucceeds(t.leases, new)
                                    \/ ~InsertSucceeds(t.ip_set, [key |-> ip])
        /\ leases' = RolledBack(t, m, ip) /\ ip_set' = t.ip_set
        /\ resp' = Nak(m) /\ UNCHANGED left
    BY <1>3, <1>9 DEF Refuse
  <2> HIDE DEF t, new
  <2>2. ~MayAllocate(t, m, ip)
    <3> SUFFICES ASSUME MayAllocate(t, m, ip) PROVE FALSE
      OBVIOUS
    <3>1. mine = Empty /\ hash_find(t.ip_set, ip) = Empty /\ ~Full(t.leases)
      BY DEF MayAllocate
    <3> HIDE DEF mine
    <3>2. t.leases.elem_cnt < max_leases
      BY <1>1, <3>1, LeaseRoom DEF Full
    <3>3. \A e \in Elements(t.leases) : e.key # m
      BY <1>4, <3>1
    <3>4. ip \notin AddressesOf(t.leases)
      BY <1>4, <3>1
    <3>5. InsertSucceeds(t.leases, new) /\ InsertSucceeds(t.ip_set, [key |-> ip])
      BY <1>1, <1>3, <3>2, <3>3, <3>4, InsertInStep
    <3>6. QED
      BY <2>1, <3>5
  <2>3. leases' = t.leases
    BY <2>1, <2>2 DEF RolledBack
  <2>4. \A e \in Elements(t.leases) : e.key = m => e.ip_address # ip
    <3> HIDE DEF mine
    <3>1. QED
      BY <1>4, <1>5, <2>1
  <2>5. QED
    BY <2>1, <2>3, <2>4 DEF t
<1>10. QED
  BY <1>6, <1>7, <1>8, <1>9

\* REQUEST keeps the invariant.
LEMMA RequestInv ==
  ASSUME IInv, NEW m \in Macs, NEW ip \in Requested, Request(m, ip)
  PROVE  IInv'
<1> USE Zenon, SMTT(15)
<1> DEFINE t == SweptTables
           new == [key |-> m, ip_address |-> ip, expire_time |-> clk + LeaseTime]
<1>1. clk' = clk /\ turned' = turned /\ next_ip' = next_ip
  BY DEF Request
<1>2. CASE ip \notin Pool
  <2>1. leases' = leases /\ ip_set' = ip_set /\ left' = left /\ resp' = Nak(m)
    BY <1>2 DEF Request, OutsidePool
  <2>2. resp' \in Replies /\ OfferUnheld'
    BY <2>1 DEF Nak, Replies, OfferUnheld
  <2>3. QED
    BY <1>1, <2>1, <2>2 DEF IInv, ServerTypeOK, InStep, AddressesOf
<1>3. CASE ip \in Pool
  <2>1. InPool(m, ip)
    BY <1>3 DEF Request
  <2>2. /\ InStep(t.leases, t.ip_set)
        /\ t.leases.elem_cnt <= max_leases
        /\ Covers(Elements(t.leases), clk, left)
        /\ turned = 0 => NoLonger(Elements(t.leases), clk, left)
    BY SweptInv
  <2>3. CASE /\ leases' = t.leases /\ ip_set' = t.ip_set
             /\ resp' = Nak(m) /\ UNCHANGED left
    <3>1. resp' \in Replies /\ OfferUnheld'
      BY <2>3 DEF Nak, Replies, OfferUnheld
    <3> HIDE DEF t
    <3>2. QED
      BY <1>1, <2>2, <2>3, <3>1 DEF IInv, ServerTypeOK, InStep, AddressesOf
  <2>4. CASE /\ InStep(leases', ip_set')
             /\ leases'.elem_cnt \in Nat /\ leases'.elem_cnt <= max_leases
             /\ Elements(leases') = {x \in Elements(t.leases) : x.key # m} \cup {new}
             /\ \A x \in Elements(t.leases) : x.key = m => x.ip_address = ip
             /\ resp' = Ack(m, ip, LeaseTime) /\ Grant(m, ip, LeaseTime)
    <3>1. resp' \in Replies /\ OfferUnheld'
      BY <1>3, <2>4, ServerAssumption DEF Ack, Replies, OfferUnheld
    <3>2. left \in [Macs -> [Pool -> Nat]] /\ clk \in Nat
      BY DEF IInv, ServerTypeOK
    <3> HIDE DEF t
    <3>3. \A x \in Elements(t.leases) : x.key \in Macs /\ x.ip_address \in Pool
      BY <2>2, LeaseFields
    <3>4. /\ left' \in [Macs -> [Pool -> Nat]]
          /\ Covers(Elements(t.leases), clk, left) => Covers(Elements(leases'), clk, left')
          /\ NoLonger(Elements(t.leases), clk, left) => NoLonger(Elements(leases'), clk, left')
      BY <1>3, <2>4, <3>2, <3>3, GrantCovers
    <3> HIDE DEF new
    <3>5. InStep(leases, ip_set)'
      BY <2>4 DEF InStep, AddressesOf
    <3>6. QED
      BY <1>1, <2>2, <2>4, <3>1, <3>4, <3>5 DEF IInv, ServerTypeOK, Elements, Used, Occupied
  <2>5. QED
    BY <1>3, <2>1, <2>3, <2>4, RequestEffect
<1>4. QED
  BY <1>2, <1>3

\* What a DECLINE does to the leases.
LEMMA DeclineEffect ==
  ASSUME IInv, NEW m \in Macs, Decline(m)
  PROVE  /\ InStep(leases', ip_set')
         /\ leases'.elem_cnt <= max_leases
         /\ Elements(leases') = {x \in Elements(leases) : x.key # m}
<1> USE Zenon, SMTT(15)
<1> DEFINE mine == hash_find(leases, m)
<1>1. InStep(leases, ip_set) /\ leases.elem_cnt <= max_leases
  BY DEF IInv
<1>2. CASE mine = Empty
  <2>1. leases' = leases /\ ip_set' = ip_set
    BY <1>2 DEF Decline
  <2>2. \A e \in Elements(leases) : e.key # m
    BY <1>1, <1>2, FoundInStep
  <2>3. QED
    BY <1>1, <2>1, <2>2
<1>3. CASE mine # Empty
  <2> DEFINE d == Drop(leases, ip_set, mine)
  <2>1. leases' = d.leases /\ ip_set' = d.ip_set
    BY <1>3 DEF Decline
  <2>2. mine \in Elements(leases) /\ mine.key = m
    BY <1>1, <1>3, FoundInStep
  <2>3. \A e \in Elements(leases) : e.key = m => e = mine
    BY <1>1, <2>2, LeaseFields
  <2> HIDE DEF mine
  <2>4. InStep(d.leases, d.ip_set) /\ Elements(d.leases) = Elements(leases) \ {mine}
    BY <1>1, <2>2, DropInStep
  <2> HIDE DEF d
  <2>5. d.leases.elem_cnt <= max_leases
    <3>1. /\ IsFiniteSet(Elements(leases)) /\ leases.elem_cnt = Cardinality(Elements(leases))
          /\ d.leases.elem_cnt = Cardinality(Elements(d.leases)) /\ d.leases.elem_cnt \in Nat
          /\ leases.elem_cnt \in Nat
      BY <1>1, <2>4, EqualCounts
    <3>2. Elements(d.leases) \in SUBSET Elements(leases)
      BY <2>4
    <3>3. d.leases.elem_cnt <= leases.elem_cnt
      BY <3>1, <3>2, FS_Subset
    <3>4. QED
      BY <1>1, <3>1, <3>3, LeaseRoom
  <2>6. Elements(leases) \ {mine} = {x \in Elements(leases) : x.key # m}
    BY <2>2, <2>3
  <2>7. QED
    BY <2>1, <2>4, <2>5, <2>6
<1>4. QED
  BY <1>2, <1>3

\* DECLINE keeps the invariant.
LEMMA DeclineInv ==
  ASSUME IInv, NEW m \in Macs, Decline(m)
  PROVE  IInv'
<1> USE Zenon, SMTT(15)
<1>1. /\ InStep(leases', ip_set')
      /\ leases'.elem_cnt <= max_leases
      /\ Elements(leases') = {x \in Elements(leases) : x.key # m}
  BY DeclineEffect
<1>2. clk' = clk /\ turned' = turned /\ next_ip' = next_ip /\ resp' = NoReply
  BY DEF Decline
<1>3. left' = [left EXCEPT ![m] = [ip \in Pool |-> 0]]
  BY DEF Decline, GiveUp
<1>4. left \in [Macs -> [Pool -> Nat]]
  BY DEF IInv, ServerTypeOK
<1>5. /\ left' \in [Macs -> [Pool -> Nat]]
      /\ \A ip \in Pool : left'[m][ip] = 0
      /\ \A k \in Macs : k # m => left'[k] = left[k]
  BY <1>3, <1>4
<1>6. Covers(Elements(leases'), clk, left')
  BY <1>1, <1>5 DEF IInv, Covers
<1>7. turned = 0 => NoLonger(Elements(leases'), clk, left')
  <2>1. \A e \in Elements(leases) : e.key \in Macs
    BY LeaseFields DEF IInv
  <2>2. QED
    BY <1>1, <1>5, <2>1 DEF IInv, NoLonger
<1>8. resp' \in Replies /\ OfferUnheld'
  BY <1>2 DEF NoReply, Replies, OfferUnheld
<1>9. InStep(leases, ip_set)'
  BY <1>1 DEF InStep, AddressesOf
<1>10. QED
  BY <1>1, <1>2, <1>5, <1>6, <1>7, <1>8, <1>9 DEF IInv, ServerTypeOK, Elements, Used, Occupied

\* So does a second that passes.
LEMMA TickInv ==
  ASSUME IInv, Tick
  PROVE  IInv'
<1> USE Zenon, SMTT(15)
<1>1. /\ leases' = leases /\ ip_set' = ip_set /\ next_ip' = next_ip /\ resp' = NoReply
      /\ clk' = NextSecond /\ left' = Elapsed /\ turned' = IF NextSecond = 0 THEN 1 ELSE turned
  BY DEF Tick, poolVars, Second
<1>2. left \in [Macs -> [Pool -> Nat]] /\ clk \in 0 .. (ClockWrap - 1) /\ clk \in Nat
  BY ServerAssumption DEF IInv, ServerTypeOK
<1>3. /\ Elapsed \in [Macs -> [Pool -> Nat]]
      /\ \A m \in Macs, ip \in Pool :
           Elapsed[m][ip] > 0 => left[m][ip] > 0 /\ Elapsed[m][ip] = left[m][ip] - 1
  BY <1>2, ElapsedType
<1>4. NextSecond \in 0 .. (ClockWrap - 1) /\ NextSecond \in Nat /\ NextSecond <= clk + 1
  BY <1>2, NextSecondBound, ServerAssumption
<1>5. \A e \in Elements(leases) : e.key \in Macs /\ e.ip_address \in Pool /\ e.expire_time \in Nat
  BY LeaseFields DEF IInv
<1>6. ASSUME NEW m \in Macs, NEW ip \in Pool, Elapsed[m][ip] > 0
      PROVE  \E e \in Elements(leases) : /\ e.key = m /\ e.ip_address = ip
                                         /\ e.expire_time >= NextSecond + Elapsed[m][ip]
  <2>1. left[m][ip] > 0 /\ Elapsed[m][ip] = left[m][ip] - 1 /\ left[m][ip] \in Nat
    BY <1>2, <1>3, <1>6
  <2>2. PICK e \in Elements(leases) : e.key = m /\ e.ip_address = ip /\ e.expire_time >= clk + left[m][ip]
    BY <2>1 DEF IInv, Covers
  <2>3. e.expire_time >= NextSecond + Elapsed[m][ip]
    BY <1>2, <1>4, <1>5, <2>1, <2>2
  <2>4. QED
    BY <2>2, <2>3
<1>7. ASSUME turned' = 0, NEW e \in Elements(leases)
      PROVE  e.expire_time <= NextSecond + Elapsed[e.key][e.ip_address]
  <2>1. turned = 0 /\ NextSecond = clk + 1
    BY <1>1, <1>7 DEF NextSecond
  <2>2. e.expire_time <= clk + left[e.key][e.ip_address]
    BY <2>1 DEF IInv, NoLonger
  <2>3. Elapsed[e.key][e.ip_address] = IF left[e.key][e.ip_address] = 0 THEN 0
                                       ELSE left[e.key][e.ip_address] - 1
    BY <1>5 DEF Elapsed
  <2>4. left[e.key][e.ip_address] \in Nat /\ e.expire_time \in Nat
    BY <1>2, <1>5
  <2>5. QED
    BY <1>2, <2>1, <2>2, <2>3, <2>4
<1>8. Covers(Elements(leases), clk', left') /\ (turned' = 0 => NoLonger(Elements(leases), clk', left'))
  BY <1>1, <1>6, <1>7 DEF Covers, NoLonger
<1>9. ServerTypeOK' /\ OfferUnheld'
  BY <1>1, <1>3, <1>4 DEF IInv, ServerTypeOK, NoReply, Replies, OfferUnheld
<1>10. QED
  BY <1>1, <1>8, <1>9 DEF IInv, InStep, AddressesOf

\* Every step keeps the invariant.
LEMMA Invariance == Spec => []IInv
<1>1. IInv /\ [Next]_vars => IInv'
  <2> USE Zenon, SMTT(15)
  <2> SUFFICES ASSUME IInv, [Next]_vars PROVE IInv'
    OBVIOUS
  <2>1. CASE Tick
    BY <2>1, TickInv
  <2>2. CASE Ignore
    <3>1. resp' = NoReply /\ UNCHANGED <<clk, turned, left, leases, ip_set, next_ip>>
      BY <2>2 DEF Ignore
    <3>2. resp' \in Replies /\ OfferUnheld'
      BY <3>1 DEF NoReply, Replies, OfferUnheld
    <3>3. QED
      BY <3>1, <3>2 DEF IInv, ServerTypeOK, InStep, AddressesOf
  <2>3. ASSUME NEW m \in Macs, Discover(m) PROVE IInv'
    BY <2>3, DiscoverInv
  <2>4. ASSUME NEW m \in Macs, Decline(m) PROVE IInv'
    BY <2>4, DeclineInv
  <2>5. ASSUME NEW m \in Macs, NEW ip \in Requested, Request(m, ip) PROVE IInv'
    BY <2>5, RequestInv
  <2>6. CASE UNCHANGED vars
    BY <2>6 DEF vars, IInv, ServerTypeOK, OfferUnheld, Live, InStep, AddressesOf
  <2>7. QED
    BY <2>1, <2>2, <2>3, <2>4, <2>5, <2>6 DEF Next
<1>2. QED
  BY <1>1, InvInit, PTL DEF Spec

-----------------------------------------------------------------------------
(***************************************************************************)
(* The variables have their types; both counts stay within max_leases      *)
(* (dhcp_hashpool_alloc_lease).                                            *)
(***************************************************************************)
THEOREM TypeCorrect == Spec => []TypeOK
<1>1. IInv => TypeOK
  <2> USE Zenon, SMTT(15)
  <2> SUFFICES ASSUME IInv PROVE TypeOK
    OBVIOUS
  <2>1. InStep(leases, ip_set) /\ leases.elem_cnt <= max_leases
    BY DEF IInv
  <2>2. leases.elem_cnt \in 0 .. max_leases /\ ip_set.elem_cnt \in 0 .. max_leases
    BY <2>1, EqualCounts, LeaseRoom
  <2>3. leases \in Tables(Macs, Lease) /\ leases.hash = MacHash
        /\ ip_set \in Tables(Pool, Address) /\ ip_set.hash = IpHash
    BY <2>1 DEF InStep
  <2>4. QED
    BY <2>2, <2>3 DEF TypeOK, IInv, Tables
<1>2. QED
  BY <1>1, Invariance, PTL

(***************************************************************************)
(* The two tables agree after every operation, so a rollback is never      *)
(* needed, and each lease is found by its MAC whatever was deleted         *)
(* (alloc_lease, decline_lease and cleanup_expire_lease).                  *)
(***************************************************************************)
THEOREM Agreement == Spec => []TablesAgree
<1>1. IInv => TablesAgree
  <2> USE Zenon, SMTT(15)
  <2> SUFFICES ASSUME IInv PROVE TablesAgree
    OBVIOUS
  <2>1. InStep(leases, ip_set)
    BY DEF IInv
  <2>2. InUse = Elements(leases)
    BY DEF InUse, Elements, Used
  <2>3. \A l \in Elements(leases) : hash_find(leases, l.key) = l /\ l.ip_address \in Pool
    BY <2>1, LeaseFields
  <2>4. \A l, k \in Elements(leases) : l.ip_address = k.ip_address => l = k
    BY <2>1 DEF InStep
  <2>5. {ip \in Pool : hash_find(ip_set, ip) # Empty} = {l.ip_address : l \in Elements(leases)}
    <3>1. AddressesOf(leases) \subseteq Pool
      BY <2>3 DEF AddressesOf
    <3>2. \A ip \in Pool : hash_find(ip_set, ip) # Empty <=> ip \in AddressesOf(leases)
      BY <2>1, FoundInStep
    <3>3. QED
      BY <3>1, <3>2 DEF AddressesOf
  <2>6. leases.elem_cnt = Cardinality(Elements(leases)) /\ ip_set.elem_cnt = leases.elem_cnt
    BY <2>1, EqualCounts
  <2>7. QED
    BY <2>2, <2>3, <2>4, <2>5, <2>6 DEF TablesAgree
<1>2. QED
  BY <1>1, Invariance, PTL

(***************************************************************************)
(* A lease that still runs is found in the table and is recorded for at    *)
(* least the time its client has left (cleanup_expire_lease and            *)
(* alloc_lease), also after turns of the clock.                            *)
(***************************************************************************)
THEOREM RunningKept == Spec => []RunningLeaseKept
<1>1. IInv => RunningLeaseKept
  <2> USE Zenon, SMTT(15)
  <2> SUFFICES ASSUME IInv, NEW m \in Macs, NEW ip \in Pool, Live(m, ip)
               PROVE  /\ hash_find(leases, m) # Empty
                      /\ hash_find(leases, m).ip_address = ip
                      /\ hash_find(leases, m).expire_time >= clk + left[m][ip]
    BY DEF RunningLeaseKept
  <2>1. PICK e \in Elements(leases) : e.key = m /\ e.ip_address = ip /\ e.expire_time >= clk + left[m][ip]
    BY DEF IInv, Covers, Live
  <2>2. hash_find(leases, m) = e /\ e # Empty
    BY <2>1, LeaseFields DEF IInv
  <2>3. QED
    BY <2>1, <2>2
<1>2. QED
  BY <1>1, Invariance, PTL

(***************************************************************************)
(* No address is in the hands of two clients whose leases both run         *)
(* (dhcp_process_message_hashmap), whatever the hash functions are.        *)
(***************************************************************************)
THEOREM SingleGrant == Spec => []NoDoubleGrant
<1>1. IInv => NoDoubleGrant
  <2> USE Zenon, SMTT(15)
  <2> SUFFICES ASSUME IInv, NEW m \in Macs, NEW k \in Macs, NEW ip \in Pool, Live(m, ip), Live(k, ip)
               PROVE  m = k
    BY DEF NoDoubleGrant
  <2>1. PICK e \in Elements(leases) : e.key = m /\ e.ip_address = ip
    BY DEF IInv, Covers, Live
  <2>2. PICK x \in Elements(leases) : x.key = k /\ x.ip_address = ip
    BY DEF IInv, Covers, Live
  <2>3. QED
    BY <2>1, <2>2 DEF IInv, InStep
<1>2. QED
  BY <1>1, Invariance, PTL

(***************************************************************************)
(* No OFFER proposes an address on which another client's lease runs       *)
(* (dhcp_hashpool_find_available_ip).                                      *)
(***************************************************************************)
THEOREM OffersUnheld == Spec => []OfferUnheld
<1>1. IInv => OfferUnheld
  BY DEF IInv
<1>2. QED
  BY <1>1, Invariance, PTL

-----------------------------------------------------------------------------
(***************************************************************************)
(* Room for new clients.                                                   *)
(***************************************************************************)
\* The search goes over the whole pool.
LEMMA ProbesAll ==
  ASSUME next_ip \in Pool, NEW ip \in Pool
  PROVE  \E k \in 0 .. (RangeSize - 1) : Probe(k) = ip
<1> USE Zenon, SMTT(15)
<1> DEFINE a == next_ip - PoolStart
           c == ip - PoolStart
           k == IF c < a THEN c - a + RangeSize ELSE c - a
<1>1. RangeSize \in Nat \ {0} /\ a \in 0 .. (RangeSize - 1) /\ c \in 0 .. (RangeSize - 1)
      /\ PoolStart \in Nat /\ ip = PoolStart + c
  BY ServerAssumption DEF RangeSize, Pool
<1> HIDE DEF a, c
<1>2. k \in 0 .. (RangeSize - 1) /\ a + k \in 0 .. (2 * RangeSize - 1)
      /\ (a + k = c \/ a + k = c + RangeSize)
  BY <1>1
<1> DEFINE x == a + k
<1>3. x \in (-RangeSize) .. (2 * RangeSize - 1) /\ x \in Nat /\ (x = c \/ x = c + RangeSize)
  BY <1>1, <1>2
<1> HIDE DEF k, x
<1>4. x % RangeSize = IF x < 0 THEN x + RangeSize ELSE IF x < RangeSize THEN x ELSE x - RangeSize
  BY <1>1, <1>3, SmallRemainders
<1>5. x % RangeSize = c
  BY <1>1, <1>3, <1>4
<1>6. Probe(k) = ip
  BY <1>1, <1>5 DEF Probe, a, x
<1>7. QED
  BY <1>2, <1>6

\* A search fails only if there are as many leases as addresses.
LEMMA NoneFree ==
  ASSUME next_ip \in Pool, NEW l, NEW s, InStep(l, s), FreeSteps(s) = {}
  PROVE  l.elem_cnt = RangeSize
<1> USE Zenon, SMTT(15)
<1>1. \A ip \in Pool : hash_find(s, ip) # Empty
  BY ProbesAll DEF FreeSteps
<1>2. AddressesOf(l) \subseteq Pool
  BY LeaseFields DEF AddressesOf
<1>3. AddressesOf(l) = Pool
  BY <1>1, <1>2, FoundInStep
<1>4. Cardinality(Pool) = RangeSize
  BY FS_Interval, ServerAssumption DEF Pool, RangeSize
<1>5. QED
  BY <1>3, <1>4, EqualCounts

\* A full table with a lease that has run out is swept.
LEMMA SweepStarts ==
  ASSUME Full(leases), Expired # {}
  PROVE  Swept # {}
<1> USE Zenon, SMTT(15)
<1> DEFINE i == Min(Expired)
<1>1. Expired \in SUBSET Nat
  BY HashAssumption DEF Expired, Buckets
<1>2. i \in Expired /\ \A j \in Expired : i <= j
  BY <1>1, LeastStep
<1> HIDE DEF i
<1>3. {j \in Expired : j < i} = {}
  <2>1. \A j \in Nat : i \in Nat /\ i <= j => ~(j < i)
    OBVIOUS
  <2>2. QED
    BY <1>1, <1>2, <2>1
<1>4. Cardinality({j \in Expired : j < i}) < SweepMax
  BY <1>3, FS_EmptySet, HashPoolAssumption
<1>5. QED
  BY <1>2, <1>4 DEF Swept

(***************************************************************************)
(* A DISCOVER goes unanswered only if every lease in the table still runs  *)
(* (the bounded sweep of cleanup_expire_lease and the search that follows  *)
(* it), up to the first turn of the clock.                                 *)
(***************************************************************************)
THEOREM RoomMade == Spec => RunOutLeaseMakesRoom
<1> DEFINE Room == \A m \in Macs : Discover(m) /\ resp' = NoReply /\ turned = 0 /\ max_leases <= RangeSize =>
                     \A l \in InUse : Live(l.key, l.ip_address)
<1>1. ASSUME IInv PROVE Room
  <2> USE Zenon, SMTT(15)
  <2> SUFFICES ASSUME NEW m \in Macs, Discover(m), resp' = NoReply, turned = 0, max_leases <= RangeSize,
                      NEW l \in Elements(leases)
               PROVE  Live(l.key, l.ip_address)
    BY DEF InUse, Elements, Used
  <2> DEFINE t == SweptTables
  <2>1. InStep(leases, ip_set) /\ next_ip \in Pool /\ leases.elem_cnt <= max_leases
        /\ l.expire_time <= clk + left[l.key][l.ip_address]
    BY <1>1 DEF IInv, NoLonger
  <2>2. InStep(t.leases, t.ip_set) /\ t.leases.elem_cnt \in Nat /\ t.leases.elem_cnt <= max_leases
    BY <1>1, SweptInv
  <2>3. Full(t.leases) \/ FreeSteps(t.ip_set) = {}
    BY DEF Discover, OfferOwn, OfferNext, OfferNothing, Offer, NoReply
  <2>4. /\ t.leases.elem_cnt <= leases.elem_cnt
        /\ Swept # {} => t.leases.elem_cnt < leases.elem_cnt
        /\ leases.elem_cnt \in Nat
    BY <2>1, SweepCount, EqualCounts
  <2> HIDE DEF t
  <2>5. t.leases.elem_cnt >= max_leases
    <3>1. CASE FreeSteps(t.ip_set) = {}
      BY <2>1, <2>2, <3>1, NoneFree
    <3>2. CASE Full(t.leases)
      BY <3>2 DEF Full
    <3>3. QED
      BY <2>3, <3>1, <3>2
  <2>6. Full(leases) /\ Swept = {}
    BY <2>1, <2>2, <2>4, <2>5, LeaseRoom DEF Full
  <2>7. Expired = {}
    BY <2>6, SweepStarts
  <2>8. ~(l.expire_time <= clk)
    BY <2>7 DEF Expired, Elements, Used
  <2>9. /\ l.expire_time \in Nat /\ clk \in Nat /\ left[l.key][l.ip_address] \in Nat
    BY <1>1, <2>1, LeaseFields DEF IInv, ServerTypeOK
  <2>10. QED
    BY <2>1, <2>8, <2>9 DEF Live
<1>2. IInv /\ [Next]_vars => [Room]_vars
  BY <1>1
<1>3. QED
  BY <1>2, Invariance, PTL DEF Spec, RunOutLeaseMakesRoom

-----------------------------------------------------------------------------
(***************************************************************************)
(* The refinement of LeaseService.                                         *)
(***************************************************************************)
NoLease == [ip |-> 0, expire |-> 0]

Brief(e) == [ip |-> e.ip_address, expire |-> e.expire_time]

\* The leases by client that a table stands for.
ByClient(t) ==
  [m \in Macs |->
     LET mine == {i \in Buckets : Occupied(t, i) /\ t.bucket[i].key = m}
     IN  IF mine = {} THEN NoLease
         ELSE [ip |-> t.bucket[Min(mine)].ip_address, expire |-> t.bucket[Min(mine)].expire_time]]

\* The function g says of every client what the leases L say.
Says(g, L) ==
  /\ g = [m \in Macs |-> g[m]]
  /\ \A e \in L : g[e.key] = Brief(e)
  /\ \A m \in Macs : (\A e \in L : e.key # m) => g[m] = NoLease

\* The refinement mapping says what the leases in the table say.
LEMMA ByClientSays ==
  ASSUME NEW l, NEW s, InStep(l, s)
  PROVE  Says(ByClient(l), Elements(l))
<1> USE Zenon, SMTT(15)
<1> DEFINE mine(m) == {i \in Buckets : Occupied(l, i) /\ l.bucket[i].key = m}
<1>1. ByClient(l) = [m \in Macs |-> ByClient(l)[m]]
  BY DEF ByClient
<1>2. \A m \in Macs : mine(m) = {} => ByClient(l)[m] = NoLease
  BY DEF ByClient
<1>3. \A m \in Macs : mine(m) # {} => ByClient(l)[m] = Brief(l.bucket[Min(mine(m))])
  BY DEF ByClient, Brief
<1>4. ASSUME NEW i \in Used(l) PROVE ByClient(l)[l.bucket[i].key] = Brief(l.bucket[i])
  <2> DEFINE m == l.bucket[i].key
  <2>1. m \in Macs
    <3>1. l.bucket[i] \in Elements(l)
      BY DEF Elements
    <3>2. QED
      BY <3>1, LeaseFields
  <2>2. mine(m) = {i}
    BY DEF InStep, Sound, OneEach, Used
  <2>3. i \in Int
    BY HashAssumption DEF Used, Buckets
  <2>4. Min({i}) = i
    BY <2>3, SingletonExtremes
  <2>5. QED
    BY <1>3, <2>1, <2>2, <2>4
<1>5. \A m \in Macs : (\A e \in Elements(l) : e.key # m) => mine(m) = {}
  BY DEF Elements, Used
<1> HIDE DEF mine
<1>6. QED
  BY <1>1, <1>2, <1>4, <1>5 DEF Says, Elements

\* The mapping before and after a step, and the words of the service.
LEMMA Mapping ==
  /\ LeaseOf = ByClient(leases)
  /\ LeaseOf' = ByClient(leases')
  /\ Service!NoLease = NoLease
  /\ \A t, ip : Service!Held(t, ip) <=> \E m \in Macs : t[m].ip = ip
BY DEF LeaseOf, ByClient, NoLease, Service!NoLease, Service!Held

\* What the mapping says of a client and of an address.
LEMMA SaysOf ==
  ASSUME NEW l, NEW s, InStep(l, s), NEW m \in Macs
  PROVE  /\ ByClient(l)[m] # NoLease => \E e \in Elements(l) : e.key = m
         /\ \A ip \in Pool : ByClient(l)[m].ip = ip =>
              \E e \in Elements(l) : e.key = m /\ e.ip_address = ip
         /\ \A e \in Elements(l) : e.key = m => /\ ByClient(l)[m] # NoLease
                                                /\ ByClient(l)[m].ip = e.ip_address
                                                /\ ByClient(l)[m].expire = e.expire_time
<1> USE Zenon, SMTT(15)
<1>1. Says(ByClient(l), Elements(l))
  BY ByClientSays
<1>2. \A ip \in Pool : ip # 0
  BY ServerAssumption DEF Pool
<1>3. \A e \in Elements(l) : e.ip_address \in Pool
  BY LeaseFields
<1>4. ASSUME NEW e \in Elements(l), e.key = m
      PROVE  /\ ByClient(l)[m] # NoLease
             /\ ByClient(l)[m].ip = e.ip_address
             /\ ByClient(l)[m].expire = e.expire_time
  <2>1. ByClient(l)[m] = Brief(e)
    BY <1>1, <1>4 DEF Says
  <2>2. Brief(e).ip = e.ip_address /\ Brief(e).expire = e.expire_time /\ NoLease.ip = 0
    BY DEF Brief, NoLease
  <2>3. QED
    BY <1>2, <1>3, <2>1, <2>2
<1>5. ByClient(l)[m] # NoLease => \E e \in Elements(l) : e.key = m
  BY <1>1 DEF Says
<1>6. ASSUME NEW ip \in Pool, ByClient(l)[m].ip = ip
      PROVE  \E e \in Elements(l) : e.key = m /\ e.ip_address = ip
  <2>1. ByClient(l)[m] # NoLease
    BY <1>2, <1>6 DEF NoLease
  <2>2. QED
    BY <1>4, <1>5, <1>6, <2>1
<1>7. QED
  BY <1>4, <1>5, <1>6

\* The leases L are the leases N but for clients gone, whose leases are now new.
Differ(L, N, gone, new) ==
  \A m \in Macs : \/ m \in gone /\ new[m] = NoLease /\ \A e \in L : e.key # m
                  \/ m \in gone /\ \E e \in L : e.key = m /\ new[m] = Brief(e)
                  \/ m \notin gone /\ \A e \in L \cup N : e.key = m => e \in L /\ e \in N

\* Then the mapping differs for these clients only.
LEMMA SaysSame ==
  ASSUME NEW f, NEW g, NEW L, NEW N, Says(f, L), Says(g, N), NEW gone, NEW new, Differ(L, N, gone, new)
  PROVE  f = [m \in Macs |-> IF m \in gone THEN new[m] ELSE g[m]]
<1> USE Zenon, SMTT(15)
<1>1. ASSUME NEW m \in Macs PROVE f[m] = IF m \in gone THEN new[m] ELSE g[m]
  <2>1. CASE m \in gone /\ new[m] = NoLease /\ \A e \in L : e.key # m
    BY <2>1 DEF Says
  <2>2. CASE m \in gone /\ \E e \in L : e.key = m /\ new[m] = Brief(e)
    BY <2>2 DEF Says
  <2>3. CASE m \notin gone /\ \A e \in L \cup N : e.key = m => e \in L /\ e \in N
    <3>1. CASE \E e \in L : e.key = m
      <4>1. PICK e \in L : e.key = m
        BY <3>1
      <4>2. e \in N
        BY <2>3, <4>1
      <4>3. f[m] = Brief(e) /\ g[m] = Brief(e)
        BY <4>1, <4>2 DEF Says
      <4>4. QED
        BY <2>3, <4>3
    <3>2. CASE \A e \in L : e.key # m
      BY <2>3, <3>2 DEF Says
    <3>3. QED
      BY <3>1, <3>2
  <2>4. QED
    BY <2>1, <2>2, <2>3 DEF Differ
<1>2. QED
  BY <1>1 DEF Says

\* The sweep drops leases that have run out.
LEMMA SweepReclaims ==
  ASSUME IInv
  PROVE  ByClient(SweptTables.leases) \in Service!Reclaimed
<1> USE Zenon, SMTT(15)
<1> DEFINE t == SweptTables
           old == {m \in Macs : LeaseOf[m] # Service!NoLease /\ LeaseOf[m].expire <= clk}
           gone == {m \in Macs : \E e \in Elements(leases) \ Elements(t.leases) : e.key = m}
           new == [m \in Macs |-> NoLease]
<1>1. InStep(leases, ip_set) /\ InStep(t.leases, t.ip_set)
      /\ Elements(t.leases) \subseteq Elements(leases)
      /\ \A e \in Elements(leases) \ Elements(t.leases) : e.expire_time <= clk
  BY SweepEffect DEF IInv
<1> HIDE DEF t
<1>2. \A e \in Elements(leases) : e.key \in Macs /\ \A x \in Elements(leases) : x.key = e.key => x = e
  BY <1>1, LeaseFields
<1>3. gone \in SUBSET old
  BY <1>1, SaysOf, Mapping
<1>4. Says(ByClient(t.leases), Elements(t.leases)) /\ Says(ByClient(leases), Elements(leases))
  BY <1>1, ByClientSays
<1>5. Differ(Elements(t.leases), Elements(leases), gone, new)
  <2>1. ASSUME NEW m \in Macs
        PROVE  \/ m \in gone /\ new[m] = NoLease /\ \A e \in Elements(t.leases) : e.key # m
               \/ m \notin gone /\ \A e \in Elements(t.leases) \cup Elements(leases) :
                                     e.key = m => e \in Elements(t.leases) /\ e \in Elements(leases)
    BY <1>1, <1>2
  <2> HIDE DEF gone, new
  <2>2. QED
    BY <2>1 DEF Differ
<1> HIDE DEF gone, new
<1>6. ByClient(t.leases) = [m \in Macs |-> IF m \in gone THEN new[m] ELSE ByClient(leases)[m]]
  BY <1>4, <1>5, SaysSame
<1>7. ByClient(t.leases) = [m \in Macs |-> IF m \in gone THEN Service!NoLease ELSE LeaseOf[m]]
  BY <1>6, Mapping DEF new
<1> HIDE DEF old
<1>8. ByClient(t.leases) \in Service!Reclaimed
  BY <1>3, <1>7 DEF Service!Reclaimed, old
<1>9. QED
  BY <1>8 DEF t

\* Dropping nothing is a way to reclaim.
LEMMA NothingReclaimed == LeaseOf \in Service!Reclaimed
<1> USE Zenon, SMTT(15)
<1> DEFINE gone == {}
<1>1. \A m \in Macs : LeaseOf[m] = IF m \in gone THEN Service!NoLease ELSE LeaseOf[m]
  OBVIOUS
<1>2. gone \in SUBSET {m \in Macs : LeaseOf[m] # Service!NoLease /\ LeaseOf[m].expire <= clk}
  OBVIOUS
<1> HIDE DEF gone
<1>3. LeaseOf = [m \in Macs |-> IF m \in gone THEN Service!NoLease ELSE LeaseOf[m]]
  BY <1>1 DEF LeaseOf
<1>4. QED
  BY <1>2, <1>3 DEF Service!Reclaimed

\* A DISCOVER is answered as the service answers it.
LEMMA DiscoverMaps ==
  ASSUME IInv, NEW m \in Macs, Discover(m)
  PROVE  Service!Discover(m)
<1> USE Zenon, SMTT(15)
<1> DEFINE t == SweptTables
           g == ByClient(t.leases)
<1>1. InStep(t.leases, t.ip_set) /\ g \in Service!Reclaimed /\ next_ip \in Pool
  BY SweptInv, SweepReclaims DEF IInv
<1>2. /\ leases' = t.leases /\ UNCHANGED <<clk, turned, left>>
      /\ OfferOwn(t, m) \/ OfferNext(t, m) \/ OfferNothing(t, m)
  BY DEF Discover
<1> HIDE DEF t
<1>3. LeaseOf' = g
  BY <1>2, Mapping
<1>4. hash_find(t.leases, m) = Empty => g[m] = NoLease
  BY <1>1, FoundInStep, SaysOf
<1>5. SUFFICES \/ resp' = NoReply /\ g[m] = NoLease
               \/ \E ip \in Pool :
                     /\ resp' = Offer(m, ip, LeaseTime)
                     /\ g[m].ip = ip \/ (g[m] = NoLease /\ ~\E n \in Macs : g[n].ip = ip)
  BY <1>1, <1>2, <1>3, Mapping DEF Service!Discover, Service!Offer, Service!NoReply, Service!Pool,
     Offer, NoReply, Pool
<1>6. CASE OfferOwn(t, m)
  <2> DEFINE e == hash_find(t.leases, m)
  <2>1. e \in Elements(t.leases) /\ e.key = m
    BY <1>1, <1>6, FoundInStep DEF OfferOwn
  <2>2. resp' = Offer(m, e.ip_address, LeaseTime)
    BY <1>6 DEF OfferOwn
  <2> HIDE DEF e
  <2>3. e.ip_address \in Pool /\ g[m].ip = e.ip_address
    BY <1>1, <2>1, LeaseFields, SaysOf
  <2>4. QED
    BY <2>2, <2>3
<1>7. CASE OfferNext(t, m)
  <2> DEFINE k == Min(FreeSteps(t.ip_set))
             ip == Probe(k)
  <2>1. FreeSteps(t.ip_set) \in SUBSET Nat /\ FreeSteps(t.ip_set) # {}
    BY <1>7, ServerAssumption DEF FreeSteps, OfferNext, RangeSize
  <2>2. k \in FreeSteps(t.ip_set) /\ k \in Nat
    BY <2>1, LeastStep
  <2>3. hash_find(t.ip_set, ip) = Empty
    BY <2>2 DEF FreeSteps
  <2>4. resp' = Offer(m, ip, LeaseTime) /\ g[m] = NoLease
    BY <1>4, <1>7 DEF OfferNext
  <2> HIDE DEF k
  <2>5. ip \in Pool
    BY <1>1, <2>2, ProbeInPool
  <2> HIDE DEF ip
  <2>6. \A e \in Elements(t.leases) : e.ip_address # ip
    BY <1>1, <2>3, <2>5, FoundInStep DEF AddressesOf
  <2>7. ~\E n \in Macs : g[n].ip = ip
    BY <1>1, <2>5, <2>6, SaysOf
  <2>8. QED
    BY <2>4, <2>5, <2>7
<1>8. CASE OfferNothing(t, m)
  BY <1>4, <1>8 DEF OfferNothing
<1>9. QED
  BY <1>2, <1>6, <1>7, <1>8

\* A REQUEST for an address of the pool is answered as the service answers it.
LEMMA RequestMaps ==
  ASSUME IInv, NEW m \in Macs, NEW ip \in Pool, InPool(m, ip), UNCHANGED <<clk, turned>>
  PROVE  Service!Accept(m, ip) \/ Service!Reject(m, ip)
<1> USE Zenon, SMTT(15)
<1> DEFINE t == SweptTables
           g == ByClient(t.leases)
           new == [key |-> m, ip_address |-> ip, expire_time |-> clk + LeaseTime]
<1>1. InStep(t.leases, t.ip_set) /\ g \in Service!Reclaimed
  BY SweptInv, SweepReclaims
<1>2. ASSUME NEW n \in Macs
      PROVE  /\ g[n] # NoLease => \E x \in Elements(t.leases) : x.key = n
             /\ g[n].ip = ip => \E x \in Elements(t.leases) : x.key = n /\ x.ip_address = ip
             /\ \A x \in Elements(t.leases) : x.key = n => g[n].ip = x.ip_address
  <2> HIDE DEF t
  <2>1. QED
    BY <1>1, SaysOf
<1>3. CASE /\ leases' = t.leases /\ ip_set' = t.ip_set
           /\ \A x \in Elements(t.leases) : x.key = m => x.ip_address # ip
           /\ resp' = Nak(m) /\ UNCHANGED left
  <2>1. g[m].ip # ip
    <3> HIDE DEF t, g
    <3>1. QED
      BY <1>3, <1>2
  <2>2. LeaseOf' = g
    BY <1>3, Mapping
  <2> HIDE DEF g
  <2>3. QED
    BY <1>1, <1>3, <2>1, <2>2 DEF Service!Reject, Service!Nak, Nak
<1>4. CASE /\ InStep(leases', ip_set')
           /\ Elements(leases') = {x \in Elements(t.leases) : x.key # m} \cup {new}
           /\ \A x \in Elements(t.leases) : x.key = m => x.ip_address = ip
           /\ (\A x \in Elements(t.leases) : x.key # m) => ip \notin AddressesOf(t.leases)
           /\ resp' = Ack(m, ip, LeaseTime) /\ Grant(m, ip, LeaseTime)
  <2> HIDE DEF t
  <2>1. g[m].ip = ip \/ (g[m] = NoLease /\ ~\E n \in Macs : g[n].ip = ip)
    <3> HIDE DEF g, new
    <3>1. CASE \E x \in Elements(t.leases) : x.key = m
      <4>1. PICK x \in Elements(t.leases) : x.key = m
        BY <3>1
      <4>2. x.ip_address = ip
        BY <1>4, <4>1
      <4>3. g[m].ip = x.ip_address
        BY <1>2, <4>1
      <4>4. QED
        BY <4>2, <4>3
    <3>2. CASE \A x \in Elements(t.leases) : x.key # m
      <4>1. g[m] = NoLease
        BY <1>2, <3>2
      <4>2. \A x \in Elements(t.leases) : x.ip_address # ip
        BY <1>4, <3>2 DEF AddressesOf
      <4>3. ~\E n \in Macs : g[n].ip = ip
        BY <1>2, <4>2
      <4>4. QED
        BY <4>1, <4>3
    <3>3. QED
      BY <3>1, <3>2
  <2>2. ByClient(leases') = [g EXCEPT ![m] = [ip |-> ip, expire |-> clk + LeaseTime]]
    <3> DEFINE who == {m}
               put == [k \in who |-> Brief(new)]
               L == Elements(leases')
               N == Elements(t.leases)
    <3>1. Says(ByClient(leases'), L) /\ Says(g, N)
      BY <1>1, <1>4, ByClientSays
    <3>2. new \in L /\ new.key = m /\ put[m] = Brief(new)
      BY <1>4
    <3>3. L = {x \in N : x.key # m} \cup {new}
      BY <1>4
    <3> HIDE DEF put, L, N, new, g
    <3>4. ASSUME NEW k \in Macs
          PROVE  \/ k \in who /\ \E e \in L : e.key = k /\ put[k] = Brief(e)
                 \/ k \notin who /\ \A e \in L \cup N : e.key = k => e \in L /\ e \in N
      BY <3>2, <3>3
    <3> HIDE DEF who
    <3>5. Differ(L, N, who, put)
      BY <3>4 DEF Differ
    <3>6. ByClient(leases') = [k \in Macs |-> IF k \in who THEN put[k] ELSE g[k]]
      BY <3>1, <3>5, SaysSame
    <3>7. ByClient(leases') = [g EXCEPT ![m] = put[m]]
      BY <3>1, <3>6 DEF Says, who
    <3>8. QED
      BY <3>2, <3>7 DEF Brief, new
  <2>3. LeaseOf' = [g EXCEPT ![m] = [ip |-> ip, expire |-> clk + LeaseTime]]
    BY <2>2, Mapping
  <2> HIDE DEF g
  <2>4. QED
    BY <1>1, <1>4, <2>1, <2>3, Mapping DEF Service!Accept, Service!Ack, Service!Grant, Service!Pool,
       Ack, Grant, Pool
<1>5. QED
  BY <1>3, <1>4, RequestEffect

\* A DECLINE takes the lease of the client and no other.
LEMMA DeclineMaps ==
  ASSUME IInv, NEW m \in Macs, Decline(m)
  PROVE  Service!Decline(m)
<1> USE Zenon, SMTT(15)
<1> DEFINE L == Elements(leases')
           N == Elements(leases)
           who == {m}
           none == [k \in who |-> NoLease]
<1>1. InStep(leases, ip_set) /\ InStep(leases', ip_set') /\ L = {x \in N : x.key # m}
  BY DeclineEffect DEF IInv
<1>2. resp' = NoReply /\ GiveUp(m) /\ UNCHANGED <<clk, turned>>
  BY DEF Decline
<1>3. Says(ByClient(leases'), L) /\ Says(ByClient(leases), N)
  BY <1>1, ByClientSays
<1>4. ASSUME NEW k \in Macs
      PROVE  \/ k \in who /\ none[k] = NoLease /\ \A e \in L : e.key # k
             \/ k \notin who /\ \A e \in L \cup N : e.key = k => e \in L /\ e \in N
  BY <1>1
<1>5. none[m] = NoLease
  OBVIOUS
<1> HIDE DEF L, N, none, who
<1>6. Differ(L, N, who, none)
  BY <1>4 DEF Differ
<1>7. ByClient(leases') = [k \in Macs |-> IF k \in who THEN none[k] ELSE ByClient(leases)[k]]
  BY <1>3, <1>6, SaysSame
<1>8. ByClient(leases') = [ByClient(leases) EXCEPT ![m] = NoLease]
  BY <1>3, <1>5, <1>7 DEF Says, who
<1>9. QED
  BY <1>2, <1>8, Mapping DEF Service!Decline, Service!NoReply, Service!GiveUp, NoReply, GiveUp,
     Service!Pool, Pool

\* Every step of the hash back end is a step of the service, or changes nothing of it.
LEMMA StepMaps ==
  ASSUME IInv, [Next]_vars
  PROVE  [Service!Next]_<<clk, turned, left, resp, LeaseOf>>
<1> USE Zenon, SMTT(15)
<1>1. CASE Tick
  <2>1. UNCHANGED LeaseOf /\ Second
    BY <1>1, Mapping DEF Tick, poolVars
  <2>2. QED
    BY <2>1 DEF Service!Next, Service!Tick, Service!Second, Second, Service!NextSecond, NextSecond,
       Service!NoReply, NoReply, Service!Elapsed, Elapsed, Service!Pool, Pool
<1>2. CASE Ignore
  <2>1. UNCHANGED LeaseOf
    BY <1>2, Mapping DEF Ignore
  <2>2. QED
    BY <1>2, <2>1 DEF Ignore, Service!Next, Service!Ignore, Service!NoReply, NoReply
<1>3. ASSUME NEW m \in Macs, Discover(m) PROVE Service!Next
  BY <1>3, DiscoverMaps DEF Service!Next
<1>4. ASSUME NEW m \in Macs, Decline(m) PROVE Service!Next
  BY <1>4, DeclineMaps DEF Service!Next
<1>5. ASSUME NEW m \in Macs, NEW ip \in Requested, Request(m, ip) PROVE Service!Next
  <2>1. UNCHANGED <<clk, turned>>
    BY <1>5 DEF Request
  <2>2. SUFFICES Service!Accept(m, ip) \/ Service!Reject(m, ip)
    BY DEF Service!Next, Service!Requested, Requested, Service!Pool, Pool
  <2>3. CASE ip \in Pool /\ InPool(m, ip)
    BY <2>1, <2>3, RequestMaps
  <2>4. CASE ip \notin Pool /\ OutsidePool(m, ip)
    <3>1. LeaseOf' = LeaseOf /\ resp' = Nak(m) /\ UNCHANGED left
      BY <2>4, Mapping DEF OutsidePool
    <3>2. LeaseOf' \in Service!Reclaimed
      BY <3>1, NothingReclaimed
    <3>3. QED
      BY <2>1, <2>4, <3>1, <3>2 DEF Service!Reject, Service!Nak, Nak, Service!Pool, Pool
  <2>5. QED
    BY <1>5, <2>3, <2>4 DEF Request
<1>6. CASE UNCHANGED vars
  BY <1>6, Mapping DEF vars
<1>7. QED
  BY <1>1, <1>2, <1>3, <1>4, <1>5, <1>6 DEF Next

\* The empty tables are the table without leases.
LEMMA InitMaps == Init => Service!Init
<1> USE Zenon, SMTT(15)
<1> SUFFICES ASSUME Init PROVE Service!Init
  OBVIOUS
<1>1. \A i \in Buckets : ~Occupied(leases, i)
  BY DEF Init, hash_clear, Occupied
<1>2. LeaseOf = [m \in Macs |-> Service!NoLease]
  BY <1>1 DEF LeaseOf, Service!NoLease
<1>3. ServerInit
  BY DEF Init
<1>4. QED
  BY <1>2, <1>3 DEF Service!Init, Service!ServerInit, ServerInit, Service!NoReply, NoReply,
     Service!Pool, Pool

(***************************************************************************)
(* The two hash tables with their bounded sweep and their rollback act as  *)
(* a table of one lease per client would (every handler of                 *)
(* dhcp_process_message_hashmap), for any pool, any number of buckets and  *)
(* any pair of hash functions.                                             *)
(***************************************************************************)
THEOREM HashIsLeaseService == Spec => ImplementsLeases
<1>1. IInv /\ [Next]_vars => [Service!Next]_<<clk, turned, left, resp, LeaseOf>>
  BY StepMaps
<1>2. QED
  BY <1>1, InitMaps, Invariance, PTL DEF Spec, ImplementsLeases, Service!Spec
=============================================================================
