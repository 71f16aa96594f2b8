--------------------------- MODULE ArrayPoolProofs --------------------------
(***************************************************************************)
(* Proofs about ArrayPool for every pool, table size, lease time and clock *)
(* period.  The inductive invariant is the type invariant together with    *)
(* TableConsistent and RunningLeaseKept; the theorems follow from it, the  *)
(* one about room with Fresh besides, the refinement on the same invariant.*)
(*                                                                         *)
(* The steps are shown for the invariant with some leases left out of      *)
(* RunningLeaseKept, those that the table no longer answers for: here      *)
(* there are none, in the kernel there are those that a late DECLINE frees.*)
(***************************************************************************)
EXTENDS ArrayPool, FiniteSetTheorems, WellFoundedInduction, TLAPS

-----------------------------------------------------------------------------
(***************************************************************************)
(* Min of a non-empty set of naturals is its least element: the C loops    *)
(* that stop at the first hit are modelled with Min.                       *)
(***************************************************************************)
LEMMA LeastNat ==
  ASSUME NEW S \in SUBSET Nat, S # {}
  PROVE  Min(S) \in S /\ \A y \in S : Min(S) <= y
<1> DEFINE Below == {p \in Nat \X Nat : p[1] < p[2]}
<1>1. IsWellFoundedOn(Below, Nat)
  BY NatLessThanWellFounded DEF OpToRel
<1>2. PICK x \in S : \A y \in S : ~(<<y, x>> \in Below)
  BY <1>1, WFMin
<1>3. \A y \in S : x <= y
  <2> SUFFICES ASSUME NEW y \in S, ~(x <= y) PROVE FALSE
    OBVIOUS
  <2>1. x \in Nat /\ y \in Nat /\ y < x
    OBVIOUS
  <2>2. <<y, x>> \in Below
    BY <2>1
  <2>3. QED
    BY <1>2, <2>2
<1>4. QED
  BY <1>3 DEF Min

\* Min and Max of a singleton are its element.
LEMMA SingletonExtremes ==
  ASSUME NEW n \in Int
  PROVE  Min({n}) = n /\ Max({n}) = n
BY DEF Min, Max

\* The time left to the clients is a number of seconds, also after a second.
LEMMA ElapsedType ==
  ASSUME left \in [Macs -> [Pool -> Nat]]
  PROVE  /\ Elapsed \in [Macs -> [Pool -> Nat]]
         /\ \A m \in Macs, ip \in Pool :
              Elapsed[m][ip] > 0 => left[m][ip] > 0 /\ Elapsed[m][ip] = left[m][ip] - 1
<1>1. \A m \in Macs : \A ip \in Pool : left[m][ip] \in Nat
  OBVIOUS
<1>2. ASSUME NEW m \in Macs PROVE Elapsed[m] \in [Pool -> Nat]
  <2>1. Elapsed[m] = [ip \in Pool |-> IF left[m][ip] = 0 THEN 0 ELSE left[m][ip] - 1]
    BY DEF Elapsed
  <2>2. \A ip \in Pool : (IF left[m][ip] = 0 THEN 0 ELSE left[m][ip] - 1) \in Nat
    BY <1>1
  <2>3. QED
    BY <2>1, <2>2
<1>3. QED
  BY <1>1, <1>2 DEF Elapsed

\* The adapter's clock stays below its period and gains at most one second.
LEMMA NextSecondBound ==
  ASSUME clk \in 0 .. (ClockWrap - 1)
  PROVE  NextSecond \in 0 .. (ClockWrap - 1) /\ NextSecond <= clk + 1
BY ServerAssumption DEF NextSecond

\* After an ACK for ip the requester's time on ip is n; the rest is unchanged.
LEMMA GrantEffect ==
  ASSUME left \in [Macs -> [Pool -> Nat]], NEW m \in Macs, NEW ip \in Pool, NEW n \in Nat,
         Grant(m, ip, n)
  PROVE  /\ left' \in [Macs -> [Pool -> Nat]]
         /\ left'[m][ip] = n
         /\ \A k \in Macs, a \in Pool : <<k, a>> # <<m, ip>> => left'[k][a] = left[k][a]
<1>1. left' = [left EXCEPT ![m] = [left[m] EXCEPT ![ip] = n]]
  BY DEF Grant
<1>2. [left[m] EXCEPT ![ip] = n] \in [Pool -> Nat]
  OBVIOUS
<1>3. QED
  BY <1>1, <1>2

-----------------------------------------------------------------------------
\* The conjuncts of TableConsistent and RunningLeaseKept for any table t.
UsedIn(t) == {i \in Slots : t[i].in_use}

OneToOne(t) ==
  \A i, j \in UsedIn(t) :
    t[i].mac_address = t[j].mac_address \/ t[i].ip_address = t[j].ip_address => i = j

PoolOnly(t) == \A i \in UsedIn(t) : t[i].ip_address \in Pool

Keeps(t) ==
  \A m \in Macs, ip \in Pool : Live(m, ip) =>
    \E i \in UsedIn(t) : /\ t[i].mac_address = m
                         /\ t[i].ip_address = ip
                         /\ t[i].expire_time >= clk + left[m][ip]

IInv == TypeOK /\ TableConsistent /\ RunningLeaseKept

\* The same without the leases <<m, ip>> in lost.
KeepsBut(t, lost) ==
  \A m \in Macs, ip \in Pool : Live(m, ip) /\ <<m, ip>> \notin lost =>
    \E i \in UsedIn(t) : /\ t[i].mac_address = m
                         /\ t[i].ip_address = ip
                         /\ t[i].expire_time >= clk + left[m][ip]

InvBut(lost) ==
  /\ TypeOK
  /\ OneToOne(leases) /\ PoolOnly(leases) /\ KeepsBut(leases, lost)
  /\ lease_count = Cardinality(UsedIn(leases))

\* IInv read as the conjuncts above about the table in the state.
LEMMA IInvParts ==
  IInv <=> /\ TypeOK
           /\ OneToOne(leases) /\ PoolOnly(leases) /\ Keeps(leases)
           /\ lease_count = Cardinality(UsedIn(leases))
BY DEF IInv, TableConsistent, RunningLeaseKept, InUse, UsedIn, OneToOne, PoolOnly, Keeps

\* In the back end alone no lease is left out.
LEMMA NoneLost == (IInv <=> InvBut({})) /\ \A t : Keeps(t) <=> KeepsBut(t, {})
<1>1. \A t : Keeps(t) <=> KeepsBut(t, {})
  BY DEF Keeps, KeepsBut
<1>2. QED
  BY <1>1, IInvParts DEF InvBut

\* A probe of the search is an address of the pool.
LEMMA ProbeInPool ==
  ASSUME next_ip \in Pool, NEW k \in Nat
  PROVE  Probe(k) \in Pool
<1>1. RangeSize \in Nat \ {0} /\ next_ip - PoolStart + k \in Nat
  BY ServerAssumption DEF RangeSize, Pool
<1>2. ((next_ip - PoolStart + k) % RangeSize) \in 0 .. (RangeSize - 1)
  BY <1>1
<1>3. QED
  BY <1>2, ServerAssumption DEF Probe, RangeSize, Pool

\* The slots in use are finitely many, at most MaxLeases.
LEMMA UsedFinite ==
  ASSUME NEW t
  PROVE  /\ IsFiniteSet(UsedIn(t))
         /\ Cardinality(UsedIn(t)) \in 0 .. MaxLeases
<1>1. IsFiniteSet(Slots) /\ Cardinality(Slots) = MaxLeases
  BY FS_Interval, MaxLeasesAssumption DEF Slots
<1>2. UsedIn(t) \in SUBSET Slots
  BY DEF UsedIn
<1>3. IsFiniteSet(UsedIn(t)) /\ Cardinality(UsedIn(t)) <= MaxLeases
  BY <1>1, <1>2, FS_Subset
<1>4. Cardinality(UsedIn(t)) \in Nat
  BY <1>3, FS_CardinalityType
<1>5. QED
  BY <1>3, <1>4, MaxLeasesAssumption

(***************************************************************************)
(* The sweep (dhcp_arraypool_cleanup_expire_lease) keeps every conjunct of *)
(* the invariant: it only removes leases whose expire_time the clock has   *)
(* reached, and none of these runs.                                        *)
(***************************************************************************)
LEMMA SweepSafeBut ==
  ASSUME NEW lost, InvBut(lost)
  PROVE  /\ SweptTable \in [Slots -> Lease]
         /\ OneToOne(SweptTable)
         /\ PoolOnly(SweptTable)
         /\ KeepsBut(SweptTable, lost)
         /\ SweptCount = Cardinality(UsedIn(SweptTable))
         /\ SweptCount \in 0 .. MaxLeases
<1> DEFINE t == SweptTable
<1>1. TypeOK /\ OneToOne(leases) /\ PoolOnly(leases) /\ KeepsBut(leases, lost)
  BY DEF InvBut
<1>2. lease_count = Cardinality(UsedIn(leases))
  BY DEF InvBut
<1>3. t \in [Slots -> Lease]
  BY <1>1 DEF TypeOK, SweptTable, Lease, FreeSlot
<1>4. \A i \in Slots : t[i].in_use => t[i] = leases[i] /\ leases[i].in_use
  BY DEF SweptTable, FreeSlot
<1>5. OneToOne(t) /\ PoolOnly(t)
  BY <1>1, <1>4 DEF OneToOne, PoolOnly, UsedIn
<1>6. KeepsBut(t, lost)
  <2> SUFFICES ASSUME NEW m \in Macs, NEW ip \in Pool, Live(m, ip), <<m, ip>> \notin lost
               PROVE  \E i \in UsedIn(t) : /\ t[i].mac_address = m
                                           /\ t[i].ip_address = ip
                                           /\ t[i].expire_time >= clk + left[m][ip]
    BY DEF KeepsBut
  <2>1. PICK i \in UsedIn(leases) : /\ leases[i].mac_address = m
                                    /\ leases[i].ip_address = ip
                                    /\ leases[i].expire_time >= clk + left[m][ip]
    BY <1>1 DEF KeepsBut
  <2>2. clk \in Nat /\ left[m][ip] \in Nat /\ left[m][ip] > 0
    BY <1>1, ServerAssumption DEF TypeOK, ServerTypeOK, Live
  <2>3. leases[i].expire_time \in Nat
    BY <1>1, <2>1 DEF TypeOK, Lease, UsedIn
  <2>4. i \in Slots /\ i \notin Swept
    BY <2>1, <2>2, <2>3 DEF Swept, Expired, UsedIn
  <2>5. t[i] = leases[i]
    BY <2>4 DEF SweptTable
  <2>6. QED
    BY <2>1, <2>4, <2>5 DEF UsedIn
<1>7. SweptCount = Cardinality(UsedIn(t))
  <2>1. Swept \subseteq UsedIn(leases) /\ UsedIn(t) = UsedIn(leases) \ Swept
    BY DEF Swept, Expired, UsedIn, SweptTable, FreeSlot
  <2>2. UsedIn(leases) \cap Swept = Swept
    BY <2>1
  <2>3. Cardinality(UsedIn(t)) = Cardinality(UsedIn(leases)) - Cardinality(Swept)
    BY <2>1, <2>2, UsedFinite, FS_Difference
  <2>4. QED
    BY <1>2, <2>3 DEF SweptCount
<1>8. QED
  BY <1>3, <1>5, <1>6, <1>7, UsedFinite

\* So it does with none left out.
LEMMA SweepSafe ==
  ASSUME IInv
  PROVE  /\ SweptTable \in [Slots -> Lease]
         /\ OneToOne(SweptTable)
         /\ PoolOnly(SweptTable)
         /\ Keeps(SweptTable)
         /\ SweptCount = Cardinality(UsedIn(SweptTable))
         /\ SweptCount \in 0 .. MaxLeases
<1>1. InvBut({})
  BY NoneLost
<1>2. QED
  BY <1>1, SweepSafeBut, NoneLost

-----------------------------------------------------------------------------
\* In a one-to-one table a MAC has one slot, so first and last match agree.
LEMMA OwnSlot ==
  ASSUME NEW t \in [Slots -> Lease], OneToOne(t), NEW i \in UsedIn(t), NEW m,
         t[i].mac_address = m
  PROVE  SlotsOf(t, m) = {i} /\ Min(SlotsOf(t, m)) = i
<1>1. SlotsOf(t, m) = {i}
  BY DEF SlotsOf, OneToOne, UsedIn
<1>2. i \in Int
  BY DEF UsedIn, Slots
<1>3. QED
  BY <1>1, <1>2, SingletonExtremes

\* The early exit of the allocation loop hides no match: if it has seen none,
\* there is none.
LEMMA NoneVisitedNoneThere ==
  ASSUME NEW t, NEW m, NEW ip, MacMatch(t, m, ip) = {}, IpMatch(t, m, ip) = {}
  PROVE  \A i \in Slots : ~Matches(t[i], m, ip)
<1> DEFINE Hits == {i \in Slots : Matches(t[i], m, ip)}
<1> SUFFICES ASSUME Hits # {} PROVE FALSE
  OBVIOUS
<1>1. Hits \in SUBSET Nat
  BY DEF Slots
<1>2. Min(Hits) \in Hits /\ \A y \in Hits : Min(Hits) <= y
  BY <1>1, LeastNat
<1>3. ASSUME NEW j \in Slots, j < Min(Hits) PROVE ~Breaks(t, m, ip, j)
  <2>1. \A i \in Slots : i <= j => i \notin Hits
    BY <1>1, <1>2, <1>3 DEF Slots
  <2>2. QED
    BY <2>1 DEF Breaks
<1>4. Min(Hits) \in Visited(t, m, ip)
  BY <1>2, <1>3 DEF Visited
<1>5. QED
  BY <1>2, <1>4 DEF Matches, MacMatch, IpMatch

\* Nor does it hide a lease of the requesting MAC on the requested address.
LEMMA OwnLeaseVisited ==
  ASSUME NEW t \in [Slots -> Lease], OneToOne(t), NEW i \in UsedIn(t),
         NEW m, NEW ip, t[i].mac_address = m, t[i].ip_address = ip
  PROVE  MacMatch(t, m, ip) = {i} /\ Max(MacMatch(t, m, ip)) = i
<1>1. \A k \in Slots : Matches(t[k], m, ip) => k = i
  BY DEF Matches, OneToOne, UsedIn
<1>2. \A j \in Slots : j < i => ~Breaks(t, m, ip, j)
  BY <1>1 DEF Breaks, UsedIn, Slots
<1>3. MacMatch(t, m, ip) = {i}
  BY <1>1, <1>2 DEF MacMatch, Visited, Matches, UsedIn
<1>4. i \in Int
  BY DEF UsedIn, Slots
<1>5. QED
  BY <1>3, <1>4, SingletonExtremes

\* A lease found for the MAC is the only one it has.
LEMMA FoundIsOwn ==
  ASSUME NEW t \in [Slots -> Lease], OneToOne(t), NEW m, NEW ip,
         MacMatch(t, m, ip) # {}
  PROVE  \E i \in UsedIn(t) : /\ t[i].mac_address = m
                              /\ Max(MacMatch(t, m, ip)) = i
<1>1. PICK i \in MacMatch(t, m, ip) : TRUE
  OBVIOUS
<1>2. i \in UsedIn(t) /\ t[i].mac_address = m
  BY <1>1 DEF MacMatch, Visited, UsedIn
<1>3. MacMatch(t, m, ip) = {i}
  BY <1>1, <1>2 DEF MacMatch, Visited, OneToOne, UsedIn
<1>4. i \in Int
  BY <1>2 DEF UsedIn, Slots
<1>5. QED
  BY <1>2, <1>3, <1>4, SingletonExtremes
-----------------------------------------------------------------------------
\* What a step has to establish, conjunct by conjunct.
KeepsNext(after) ==
  \A m \in Macs, ip \in Pool : Live(m, ip)' /\ <<m, ip>> \notin after =>
    \E i \in UsedIn(leases') : /\ leases'[i].mac_address = m
                               /\ leases'[i].ip_address = ip
                               /\ leases'[i].expire_time >= clk' + left'[m][ip]

PartsNext(after) ==
  /\ TypeOK'
  /\ OneToOne(leases') /\ PoolOnly(leases') /\ KeepsNext(after)
  /\ lease_count' = Cardinality(UsedIn(leases'))

\* The conjuncts shown one by one make up the invariant after the step.
LEMMA PartsSuffice == PartsNext({}) => IInv'
BY DEF PartsNext, KeepsNext, IInv, TableConsistent, RunningLeaseKept, InUse, UsedIn, OneToOne,
       PoolOnly

\* A step neither extends a lease nor brings back one of the lost ones.
Spared(lost, after) ==
  /\ left' \in [Macs -> [Pool -> Nat]]
  /\ \A m \in Macs, ip \in Pool : Live(m, ip)' /\ <<m, ip>> \notin after =>
       Live(m, ip) /\ <<m, ip>> \notin lost /\ left'[m][ip] = left[m][ip]

\* Where the time left is the same and nothing is lost, none is.
LEMMA SparedSame ==
  ASSUME left \in [Macs -> [Pool -> Nat]], UNCHANGED left, NEW lost
  PROVE  Spared(lost, lost)
BY DEF Spared, Live

\* A second passes: a client has one less left and the clock is at most one later.
LEMMA TickStep ==
  ASSUME NEW lost, NEW after, InvBut(lost), Tick,
         \A m \in Macs, ip \in Pool : Live(m, ip)' /\ <<m, ip>> \notin after => <<m, ip>> \notin lost
  PROVE  PartsNext(after)
<1>1. TypeOK /\ OneToOne(leases) /\ PoolOnly(leases) /\ KeepsBut(leases, lost)
      /\ lease_count = Cardinality(UsedIn(leases))
  BY DEF InvBut
<1>2. /\ UNCHANGED poolVars /\ clk' = NextSecond /\ turned' \in {0, 1}
      /\ left' = Elapsed /\ resp' = NoReply
  BY <1>1 DEF Tick, Second, TypeOK, ServerTypeOK
<1>3. clk \in Nat /\ clk' \in 0 .. (ClockWrap - 1) /\ clk' <= clk + 1
  BY <1>1, <1>2, NextSecondBound DEF TypeOK, ServerTypeOK
<1>4. left' \in [Macs -> [Pool -> Nat]]
  BY <1>1, <1>2, ElapsedType DEF TypeOK, ServerTypeOK
<1>5. TypeOK'
  BY <1>1, <1>2, <1>3, <1>4 DEF TypeOK, ServerTypeOK, poolVars, NoReply, Replies
<1>6. KeepsNext(after)
  <2> SUFFICES ASSUME NEW m \in Macs, NEW ip \in Pool, Live(m, ip)', <<m, ip>> \notin after
               PROVE  \E i \in UsedIn(leases) : /\ leases[i].mac_address = m
                                                /\ leases[i].ip_address = ip
                                                /\ leases[i].expire_time >= clk' + left'[m][ip]
    BY <1>2 DEF KeepsNext, UsedIn, poolVars
  <2>1. left[m][ip] \in Nat
    BY <1>1 DEF TypeOK, ServerTypeOK
  <2>2. left[m][ip] > 0 /\ left'[m][ip] = left[m][ip] - 1
    BY <1>1, <1>2, ElapsedType DEF Live, TypeOK, ServerTypeOK
  <2>3. PICK i \in UsedIn(leases) : /\ leases[i].mac_address = m
                                    /\ leases[i].ip_address = ip
                                    /\ leases[i].expire_time >= clk + left[m][ip]
    BY <1>1, <2>2 DEF KeepsBut, Live
  <2>4. leases[i].expire_time \in Nat
    BY <1>1, <2>3 DEF TypeOK, Lease, UsedIn
  <2>5. QED
    BY <1>3, <2>1, <2>2, <2>3, <2>4
<1>7. QED
  BY <1>1, <1>2, <1>5, <1>6 DEF PartsNext, poolVars

\* A DISCOVER, with the sweep of a full table, keeps the invariant.
LEMMA DiscoverStep ==
  ASSUME NEW lost, InvBut(lost), NEW m \in Macs, Discover(m)
  PROVE  PartsNext(lost)
<1> DEFINE t == SweptTable
<1>1. TypeOK /\ t \in [Slots -> Lease] /\ OneToOne(t) /\ PoolOnly(t) /\ KeepsBut(t, lost)
      /\ SweptCount = Cardinality(UsedIn(t)) /\ SweptCount \in 0 .. MaxLeases
  BY SweepSafeBut DEF InvBut
<1>2. leases' = t /\ lease_count' = SweptCount /\ clk' = clk /\ turned' = turned /\ left' = left
  BY DEF Discover
<1>3. resp' \in Replies /\ next_ip' \in Pool
  <2>1. CASE OfferOwn(t, m)
    <3>1. PICK i \in UsedIn(t) : t[i].mac_address = m
      BY <2>1 DEF OfferOwn, SlotsOf, UsedIn
    <3>2. Min(SlotsOf(t, m)) = i
      BY <1>1, <3>1, OwnSlot
    <3>3. QED
      BY <1>1, <2>1, <3>1, <3>2, ServerAssumption
         DEF OfferOwn, PoolOnly, Replies, Offer, TypeOK
  <2>2. CASE OfferNext(t, m)
    <3>1. FreeSteps(t) \in SUBSET Nat /\ FreeSteps(t) # {}
      BY <2>2 DEF OfferNext, FreeSteps
    <3>2. Min(FreeSteps(t)) \in Nat
      BY <3>1, LeastNat
    <3>3. Probe(Min(FreeSteps(t))) \in Pool /\ Probe(Min(FreeSteps(t)) + 1) \in Pool
      BY <1>1, <3>2, ProbeInPool DEF TypeOK
    <3>4. QED
      BY <2>2, <3>3, ServerAssumption DEF OfferNext, Replies, Offer
  <2>3. CASE OfferNothing(t, m)
    BY <1>1, <2>3 DEF OfferNothing, Replies, NoReply, TypeOK
  <2>4. QED
    BY <2>1, <2>2, <2>3 DEF Discover
<1>4. TypeOK'
  BY <1>1, <1>2, <1>3 DEF TypeOK, ServerTypeOK
<1>5. KeepsNext(lost)
  BY <1>1, <1>2 DEF KeepsBut, KeepsNext, Live
<1>6. QED
  BY <1>1, <1>2, <1>4, <1>5 DEF PartsNext
\* A DECLINE frees at most one slot and keeps the invariant.
LEMMA DeclineStep ==
  ASSUME NEW lost, NEW after, InvBut(lost), NEW m \in Macs, DeclineLease(m), Spared(lost, after),
         \A ip \in Pool : Live(m, ip)' => <<m, ip>> \in after
  PROVE  PartsNext(after)
<1>1. TypeOK /\ OneToOne(leases) /\ PoolOnly(leases) /\ KeepsBut(leases, lost)
      /\ lease_count = Cardinality(UsedIn(leases))
  BY DEF InvBut
<1>2. clk' = clk /\ turned' = turned /\ next_ip' = next_ip /\ resp' = NoReply
  BY DEF DeclineLease
<1>3. left' \in [Macs -> [Pool -> Nat]]
  BY DEF Spared
<1>4. \A n \in Macs, ip \in Pool : Live(n, ip)' /\ <<n, ip>> \notin after =>
        n # m /\ Live(n, ip) /\ <<n, ip>> \notin lost /\ left'[n][ip] = left[n][ip]
  BY DEF Spared
<1>5. CASE SlotsOf(leases, m) = {}
  <2>1. leases' = leases /\ lease_count' = lease_count
    BY <1>5 DEF DeclineLease
  <2>2. TypeOK'
    BY <1>1, <1>2, <1>3, <2>1 DEF TypeOK, ServerTypeOK, NoReply, Replies
  <2>3. KeepsNext(after)
    BY <1>1, <1>2, <1>4, <2>1 DEF KeepsBut, KeepsNext
  <2>4. QED
    BY <1>1, <2>1, <2>2, <2>3 DEF PartsNext
<1>6. CASE SlotsOf(leases, m) # {}
  <2>1. PICK s \in UsedIn(leases) : leases[s].mac_address = m
    BY <1>6 DEF SlotsOf, UsedIn
  <2>2. Min(SlotsOf(leases, m)) = s
    BY <1>1, <2>1, OwnSlot DEF TypeOK
  <2>3. leases' = [leases EXCEPT ![s] = FreeSlot] /\ lease_count' = lease_count - 1
    BY <1>6, <2>2 DEF DeclineLease
  <2>4. leases' \in [Slots -> Lease]
    BY <1>1, <2>3 DEF TypeOK, Lease, FreeSlot
  <2>5. \A i \in Slots : i # s => leases'[i] = leases[i]
    BY <1>1, <2>3 DEF TypeOK
  <2>6. UsedIn(leases') = UsedIn(leases) \ {s}
    BY <1>1, <2>1, <2>3, <2>5 DEF TypeOK, UsedIn, FreeSlot
  <2>7. lease_count' = Cardinality(UsedIn(leases'))
    BY <1>1, <2>1, <2>3, <2>6, UsedFinite, FS_RemoveElement
  <2>8. TypeOK'
    BY <1>1, <1>2, <1>3, <2>4, <2>7, UsedFinite DEF TypeOK, ServerTypeOK, NoReply, Replies
  <2>9. OneToOne(leases') /\ PoolOnly(leases')
    BY <1>1, <2>5, <2>6 DEF OneToOne, PoolOnly, UsedIn
  <2>10. KeepsNext(after)
    <3> SUFFICES ASSUME NEW n \in Macs, NEW ip \in Pool, Live(n, ip)', <<n, ip>> \notin after
                 PROVE  \E i \in UsedIn(leases') : /\ leases'[i].mac_address = n
                                                   /\ leases'[i].ip_address = ip
                                                   /\ leases'[i].expire_time >= clk' + left'[n][ip]
      BY DEF KeepsNext
    <3>1. PICK i \in UsedIn(leases) : /\ leases[i].mac_address = n
                                      /\ leases[i].ip_address = ip
                                      /\ leases[i].expire_time >= clk + left[n][ip]
      BY <1>1, <1>4 DEF KeepsBut
    <3>2. i # s
      BY <1>4, <2>1, <3>1
    <3>3. QED
      BY <1>2, <1>4, <2>5, <2>6, <3>1, <3>2 DEF UsedIn
  <2>11. QED
    BY <2>7, <2>8, <2>9, <2>10 DEF PartsNext
<1>7. QED
  BY <1>5, <1>6
\* A renewal writes the slot of this client and address and keeps the invariant.
LEMMA RenewStep ==
  ASSUME NEW lost, InvBut(lost), NEW m \in Macs, NEW ip \in Pool, Renew(SweptTable, m, ip),
         UNCHANGED <<clk, turned, next_ip>>
  PROVE  PartsNext(lost \ {<<m, ip>>})
<1> DEFINE t == SweptTable
<1>1. TypeOK /\ t \in [Slots -> Lease] /\ OneToOne(t) /\ PoolOnly(t) /\ KeepsBut(t, lost)
      /\ SweptCount = Cardinality(UsedIn(t)) /\ SweptCount \in 0 .. MaxLeases
  BY SweepSafeBut DEF InvBut
<1>2. PICK s \in UsedIn(t) : t[s].mac_address = m /\ Max(MacMatch(t, m, ip)) = s
  BY <1>1, FoundIsOwn DEF Renew
<1>3. t[s].ip_address = ip /\ leases' = [t EXCEPT ![s].expire_time = clk + LeaseTime]
      /\ lease_count' = SweptCount /\ resp' = Ack(m, ip, LeaseTime)
  BY <1>2 DEF Renew
<1>4. /\ left' \in [Macs -> [Pool -> Nat]]
      /\ left'[m][ip] = LeaseTime
      /\ \A n \in Macs, a \in Pool : <<n, a>> # <<m, ip>> => left'[n][a] = left[n][a]
  BY <1>1, GrantEffect, ServerAssumption DEF Renew, TypeOK, ServerTypeOK
<1>5. clk \in Nat /\ LeaseTime \in Nat
  BY <1>1, ServerAssumption DEF TypeOK, ServerTypeOK
<1>6. s \in Slots /\ t[s] \in Lease /\ t[s].in_use
  BY <1>1, <1>2 DEF UsedIn
<1> DEFINE r == [t[s] EXCEPT !.expire_time = clk + LeaseTime]
<1>7. leases' = [t EXCEPT ![s] = r]
  BY <1>1, <1>3, <1>6
<1>8. /\ r \in Lease /\ r.in_use /\ r.mac_address = m /\ r.ip_address = ip
      /\ r.expire_time = clk + LeaseTime
  BY <1>2, <1>3, <1>5, <1>6 DEF Lease
<1> HIDE DEF r
<1>9. leases'[s] = r /\ \A i \in Slots : i # s => leases'[i] = t[i]
  BY <1>1, <1>6, <1>7
<1>10. leases' \in [Slots -> Lease]
  BY <1>1, <1>6, <1>7, <1>8
<1>11. UsedIn(leases') = UsedIn(t)
  BY <1>6, <1>8, <1>9 DEF UsedIn
<1>12. OneToOne(leases') /\ PoolOnly(leases')
  <2>1. \A i \in Slots : /\ leases'[i].mac_address = t[i].mac_address
                         /\ leases'[i].ip_address = t[i].ip_address
    BY <1>2, <1>3, <1>8, <1>9
  <2>2. QED
    BY <1>1, <1>11, <2>1 DEF OneToOne, PoolOnly, UsedIn
<1>13. TypeOK'
  BY <1>1, <1>3, <1>4, <1>10, ServerAssumption DEF TypeOK, ServerTypeOK, Ack, Replies
<1>14. KeepsNext(lost \ {<<m, ip>>})
  <2> SUFFICES ASSUME NEW n \in Macs, NEW a \in Pool, Live(n, a)', <<n, a>> \notin lost \ {<<m, ip>>}
               PROVE  \E i \in UsedIn(leases') : /\ leases'[i].mac_address = n
                                                 /\ leases'[i].ip_address = a
                                                 /\ leases'[i].expire_time >= clk' + left'[n][a]
    BY DEF KeepsNext
  <2>1. CASE n = m /\ a = ip
    BY <1>2, <1>4, <1>5, <1>8, <1>9, <1>11, <2>1
  <2>2. CASE ~(n = m /\ a = ip)
    <3>1. left'[n][a] = left[n][a] /\ Live(n, a) /\ <<n, a>> \notin lost
      BY <1>4, <2>2 DEF Live
    <3>2. PICK i \in UsedIn(t) : /\ t[i].mac_address = n
                                 /\ t[i].ip_address = a
                                 /\ t[i].expire_time >= clk + left[n][a]
      BY <1>1, <3>1 DEF KeepsBut
    <3>3. i # s
      BY <1>2, <1>3, <2>2, <3>2
    <3>4. QED
      BY <1>9, <1>11, <3>1, <3>2, <3>3 DEF UsedIn
  <2>3. QED
    BY <2>1, <2>2
<1>15. QED
  BY <1>1, <1>3, <1>11, <1>12, <1>13, <1>14 DEF PartsNext

\* An allocation takes a free slot for an unused address and keeps the invariant.
LEMMA AllocateStep ==
  ASSUME NEW lost, InvBut(lost), NEW m \in Macs, NEW ip \in Pool, Allocate(SweptTable, m, ip),
         UNCHANGED <<clk, turned, next_ip>>
  PROVE  PartsNext(lost \ {<<m, ip>>})
<1> DEFINE t == SweptTable
           s == Min(FreeMatch(t, m, ip))
<1>1. TypeOK /\ t \in [Slots -> Lease] /\ OneToOne(t) /\ PoolOnly(t) /\ KeepsBut(t, lost)
      /\ SweptCount = Cardinality(UsedIn(t)) /\ SweptCount \in 0 .. MaxLeases
  BY SweepSafeBut DEF InvBut
<1>2. \A i \in UsedIn(t) : t[i].mac_address # m /\ t[i].ip_address # ip
  BY NoneVisitedNoneThere DEF Allocate, Matches, UsedIn
<1>3. s \in Slots /\ ~t[s].in_use
  <2>1. FreeMatch(t, m, ip) \in SUBSET Nat /\ FreeMatch(t, m, ip) # {}
    BY DEF Allocate, FreeMatch, Visited, Slots
  <2>2. s \in FreeMatch(t, m, ip)
    BY <2>1, LeastNat
  <2>3. QED
    BY <2>2 DEF FreeMatch, Visited
<1> HIDE DEF s
<1>4. leases' = [t EXCEPT ![s] = NewLease(m, ip)] /\ lease_count' = SweptCount + 1
      /\ resp' = Ack(m, ip, LeaseTime)
  BY DEF Allocate, s
<1>5. /\ left' \in [Macs -> [Pool -> Nat]]
      /\ left'[m][ip] = LeaseTime
      /\ \A n \in Macs, a \in Pool : <<n, a>> # <<m, ip>> => left'[n][a] = left[n][a]
  BY <1>1, GrantEffect, ServerAssumption DEF Allocate, TypeOK, ServerTypeOK
<1>6. clk \in Nat /\ LeaseTime \in Nat
  BY <1>1, ServerAssumption DEF TypeOK, ServerTypeOK
<1>7. leases'[s] = NewLease(m, ip) /\ \A i \in Slots : i # s => leases'[i] = t[i]
  BY <1>1, <1>3, <1>4
<1>8. NewLease(m, ip) \in Lease
  BY <1>6 DEF NewLease, Lease
<1>9. leases' \in [Slots -> Lease]
  BY <1>1, <1>3, <1>4, <1>8
<1>10. UsedIn(leases') = UsedIn(t) \cup {s} /\ s \notin UsedIn(t)
  BY <1>3, <1>7 DEF UsedIn, NewLease
<1>11. lease_count' = Cardinality(UsedIn(leases'))
  BY <1>1, <1>4, <1>10, UsedFinite, FS_AddElement
<1>12. OneToOne(leases') /\ PoolOnly(leases')
  <2>1. \A i \in UsedIn(leases') : i = s \/ (i \in UsedIn(t) /\ leases'[i] = t[i])
    BY <1>7, <1>10 DEF UsedIn
  <2>2. leases'[s].mac_address = m /\ leases'[s].ip_address = ip
    BY <1>7 DEF NewLease
  <2>3. OneToOne(leases')
    BY <1>1, <1>2, <2>1, <2>2 DEF OneToOne
  <2>4. PoolOnly(leases')
    BY <1>1, <2>1, <2>2 DEF PoolOnly
  <2>5. QED
    BY <2>3, <2>4
<1>13. TypeOK'
  BY <1>1, <1>4, <1>5, <1>9, <1>11, UsedFinite, ServerAssumption
     DEF TypeOK, ServerTypeOK, Ack, Replies
<1>14. KeepsNext(lost \ {<<m, ip>>})
  <2> SUFFICES ASSUME NEW n \in Macs, NEW a \in Pool, Live(n, a)', <<n, a>> \notin lost \ {<<m, ip>>}
               PROVE  \E i \in UsedIn(leases') : /\ leases'[i].mac_address = n
                                                 /\ leases'[i].ip_address = a
                                                 /\ leases'[i].expire_time >= clk' + left'[n][a]
    BY DEF KeepsNext
  <2>1. CASE n = m /\ a = ip
    BY <1>5, <1>6, <1>7, <1>10, <2>1 DEF NewLease
  <2>2. CASE ~(n = m /\ a = ip)
    <3>1. left'[n][a] = left[n][a] /\ Live(n, a) /\ <<n, a>> \notin lost
      BY <1>5, <2>2 DEF Live
    <3>2. PICK i \in UsedIn(t) : /\ t[i].mac_address = n
                                 /\ t[i].ip_address = a
                                 /\ t[i].expire_time >= clk + left[n][a]
      BY <1>1, <3>1 DEF KeepsBut
    <3>3. QED
      BY <1>7, <1>10, <3>1, <3>2 DEF UsedIn
  <2>3. QED
    BY <2>1, <2>2
<1>15. QED
  BY <1>11, <1>12, <1>13, <1>14 DEF PartsNext
\* A REQUEST, whichever way it is answered, keeps the invariant.
LEMMA RequestStep ==
  ASSUME NEW lost, InvBut(lost), NEW m \in Macs, NEW ip, Request(m, ip)
  PROVE  PartsNext(IF resp'.type = "ACK" THEN lost \ {<<m, ip>>} ELSE lost)
<1> DEFINE after == IF resp'.type = "ACK" THEN lost \ {<<m, ip>>} ELSE lost
<1> SUFFICES PartsNext(after)
  OBVIOUS
<1>1. UNCHANGED <<clk, turned, next_ip>>
  BY DEF Request
<1>a. resp' = Ack(m, ip, LeaseTime) => after = lost \ {<<m, ip>>}
  BY DEF Ack
<1>b. resp' = Nak(m) => after = lost
  BY DEF Nak
<1> HIDE DEF after
<1>2. CASE ip \in Pool /\ Renew(SweptTable, m, ip)
  <2>1. PartsNext(lost \ {<<m, ip>>})
    BY <1>1, <1>2, RenewStep
  <2>2. resp' = Ack(m, ip, LeaseTime)
    BY <1>2, Zenon DEF Renew
  <2>3. QED
    BY <1>a, <2>1, <2>2, Zenon
<1>3. CASE ip \in Pool /\ Allocate(SweptTable, m, ip)
  <2>1. PartsNext(lost \ {<<m, ip>>})
    BY <1>1, <1>3, AllocateStep
  <2>2. resp' = Ack(m, ip, LeaseTime)
    BY <1>3, Zenon DEF Allocate
  <2>3. QED
    BY <1>a, <2>1, <2>2, Zenon
<1>4. CASE ip \in Pool /\ Refuse(SweptTable, m, ip)
  <2>1. leases' = SweptTable /\ lease_count' = SweptCount /\ left' = left /\ resp' = Nak(m)
    BY <1>4 DEF Refuse
  <2>2. TypeOK'
    BY <1>1, <2>1, SweepSafeBut DEF InvBut, TypeOK, ServerTypeOK, Nak, Replies
  <2>3. KeepsNext(after)
    BY <1>1, <1>b, <2>1, SweepSafeBut DEF KeepsBut, KeepsNext, Live
  <2>4. QED
    BY <2>1, <2>2, <2>3, SweepSafeBut DEF PartsNext
<1>5. CASE ip \notin Pool /\ OutsidePool(m, ip)
  <2>1. leases' = leases /\ lease_count' = lease_count /\ left' = left /\ resp' = Nak(m)
    BY <1>5 DEF OutsidePool
  <2>2. TypeOK'
    BY <1>1, <2>1 DEF InvBut, TypeOK, ServerTypeOK, Nak, Replies
  <2>3. KeepsNext(after)
    BY <1>1, <1>b, <2>1 DEF InvBut, KeepsBut, KeepsNext, Live
  <2>4. QED
    BY <2>1, <2>2, <2>3 DEF InvBut, PartsNext
<1>6. QED
  BY <1>2, <1>3, <1>4, <1>5 DEF Request, InPool

\* A message that is ignored, and a stuttering step, leave the table alone.
LEMMA IdleStep ==
  ASSUME NEW lost, NEW after, InvBut(lost), UNCHANGED <<clk, turned, leases, lease_count, next_ip>>,
         Spared(lost, after), resp' = NoReply \/ resp' = resp
  PROVE  PartsNext(after)
<1>1. TypeOK'
  BY DEF InvBut, TypeOK, ServerTypeOK, NoReply, Replies, Spared
<1>2. KeepsNext(after)
  BY DEF InvBut, KeepsBut, KeepsNext, Spared
<1>3. QED
  BY <1>1, <1>2 DEF InvBut, PartsNext

\* The empty table satisfies the invariant.
LEMMA InitIInv == Init => IInv
<1> SUFFICES ASSUME Init PROVE IInv
  OBVIOUS
<1>1. TypeOK
  BY ServerAssumption, MaxLeasesAssumption
     DEF Init, ServerInit, TypeOK, ServerTypeOK, Lease, FreeSlot, Replies, NoReply, Pool
<1>2. UsedIn(leases) = {}
  BY DEF Init, UsedIn, FreeSlot
<1>3. \A m \in Macs, ip \in Pool : ~Live(m, ip)
  BY DEF Init, ServerInit, Live
<1>4. QED
  BY <1>1, <1>2, <1>3, IInvParts, FS_EmptySet DEF Init, OneToOne, PoolOnly, Keeps

\* Every step of the server and of the clock keeps the invariant.
LEMMA NextIInv == IInv /\ [Next]_vars => IInv'
<1> SUFFICES ASSUME IInv, [Next]_vars PROVE PartsNext({})
  BY PartsSuffice
<1>1. InvBut({}) /\ left \in [Macs -> [Pool -> Nat]]
  BY NoneLost DEF IInv, TypeOK, ServerTypeOK
<1>2. \A x : {} \ {x} = {} /\ x \notin {}
  OBVIOUS
<1>3. CASE Tick
  BY <1>1, <1>2, <1>3, TickStep
<1>4. CASE Ignore
  BY <1>1, <1>4, SparedSame, IdleStep DEF Ignore
<1>5. CASE \E m \in Macs : Discover(m)
  BY <1>1, <1>5, DiscoverStep
<1>6. ASSUME NEW m \in Macs, Decline(m) PROVE PartsNext({})
  <2>1. DeclineLease(m) /\ left' = [left EXCEPT ![m] = [ip \in Pool |-> 0]]
    BY <1>6 DEF Decline, GiveUp
  <2>2. Spared({}, {}) /\ \A ip \in Pool : ~Live(m, ip)'
    BY <1>1, <2>1 DEF Spared, Live
  <2>3. QED
    BY <1>1, <2>1, <2>2, DeclineStep
<1>7. CASE \E m \in Macs, ip \in Requested : Request(m, ip)
  BY <1>1, <1>2, <1>7, RequestStep
<1>8. CASE UNCHANGED vars
  BY <1>1, <1>8, SparedSame, IdleStep DEF vars
<1>9. QED
  BY <1>3, <1>4, <1>5, <1>6, <1>7, <1>8 DEF Next

\* Hence the invariant always holds.
LEMMA IInvAlways == Spec => []IInv
BY InitIInv, NextIInv, PTL DEF Spec
-----------------------------------------------------------------------------
\* The types of dhcp_arraypool_t are kept: lease_count stays within 0 .. max_leases
\* and next_ip inside the pool.
THEOREM TypeCorrect == Spec => []TypeOK
BY IInvAlways, PTL DEF IInv

\* The lease table is one-to-one and its hand-kept count exact, whatever messages arrive.
THEOREM TableAlwaysConsistent == Spec => []TableConsistent
BY IInvAlways, PTL DEF IInv

\* The sweep of dhcp_array.c takes no lease that still runs, across clock wraps.
THEOREM RunningLeaseAlwaysKept == Spec => []RunningLeaseKept
BY IInvAlways, PTL DEF IInv

\* No two clients are ever left with running leases on one address.
THEOREM NeverGrantedTwice == Spec => []NoDoubleGrant
<1>1. IInv => NoDoubleGrant
  BY IInvParts DEF NoDoubleGrant, OneToOne, Keeps
<1>2. QED
  BY <1>1, IInvAlways, PTL

\* An address found by the search is not the one of a running lease of another client.
LEMMA OfferStep ==
  ASSUME IInv, NEW m \in Macs, Discover(m)
  PROVE  OfferUnheld'
<1> DEFINE t == SweptTable
<1>1. t \in [Slots -> Lease] /\ OneToOne(t) /\ Keeps(t) /\ TypeOK
  BY SweepSafe DEF IInv
<1>2. left' = left
  BY DEF Discover
<1>3. \A n \in Macs, ip \in Pool : Live(n, ip) =>
        \E i \in UsedIn(t) : t[i].mac_address = n /\ t[i].ip_address = ip
  BY <1>1 DEF Keeps
<1>4. CASE OfferOwn(t, m)
  <2>1. PICK i \in UsedIn(t) : t[i].mac_address = m
    BY <1>4 DEF OfferOwn, SlotsOf, UsedIn
  <2>2. resp'.mac = m /\ resp'.ip = t[i].ip_address
    BY <1>1, <1>4, <2>1, OwnSlot DEF OfferOwn, Offer
  <2>3. t[i].ip_address \in Pool
    BY <2>1, SweepSafe DEF PoolOnly
  <2>4. QED
    BY <1>1, <1>2, <1>3, <2>1, <2>2, <2>3 DEF OfferUnheld, Live, OneToOne
<1>5. CASE OfferNext(t, m)
  <2> DEFINE k == Min(FreeSteps(t))
  <2>1. FreeSteps(t) \in SUBSET Nat /\ FreeSteps(t) # {}
    BY <1>5 DEF OfferNext, FreeSteps
  <2>2. k \in Nat /\ k \in FreeSteps(t)
    BY <2>1, LeastNat
  <2>3. Probe(k) \in Pool /\ ~Holds(t, Probe(k)) /\ resp'.mac = m /\ resp'.ip = Probe(k)
    BY <1>1, <1>5, <2>2, ProbeInPool DEF TypeOK, FreeSteps, OfferNext, Offer
  <2>4. QED
    BY <1>2, <1>3, <2>3 DEF OfferUnheld, Live, Holds, UsedIn
<1>6. CASE OfferNothing(t, m)
  BY <1>6 DEF OfferNothing, OfferUnheld, NoReply
<1>7. QED
  BY <1>4, <1>5, <1>6 DEF Discover

\* An OFFER never proposes an address on which another client's lease runs.
THEOREM OffersUnheld == Spec => []OfferUnheld
<1>1. Init => OfferUnheld
  <2>1. Init => resp.type = "NONE"
    BY DEF Init, ServerInit, NoReply
  <2>2. QED
    BY <2>1 DEF OfferUnheld
<1>2. IInv /\ OfferUnheld /\ [Next]_vars => OfferUnheld'
  <2> SUFFICES ASSUME IInv, OfferUnheld, [Next]_vars PROVE OfferUnheld'
    OBVIOUS
  <2>1. ASSUME resp'.type # "OFFER" PROVE OfferUnheld'
    BY <2>1 DEF OfferUnheld
  <2>2. CASE Tick \/ Ignore \/ \E m \in Macs : Decline(m)
    BY <2>1, <2>2 DEF Tick, Second, Ignore, Decline, DeclineLease, NoReply
  <2>3. CASE \E m \in Macs : Discover(m)
    BY <2>3, OfferStep
  <2>4. CASE \E m \in Macs, ip \in Requested : Request(m, ip)
    BY <2>1, <2>4 DEF Request, InPool, Renew, Allocate, Refuse, OutsidePool, Ack, Nak
  <2>5. CASE UNCHANGED vars
    BY <2>5 DEF vars, OfferUnheld, Live
  <2>6. QED
    BY <2>2, <2>3, <2>4, <2>5 DEF Next
<1>3. QED
  BY <1>1, <1>2, IInvAlways, PTL DEF Spec

\* A client whose lease runs gets its own address offered and its REQUEST for it
\* acknowledged, so retransmitting after a lost reply is safe.
THEOREM HolderAlwaysServed == Spec => HolderServed
<1>1. ASSUME IInv, NEW m \in Macs, NEW ip \in Pool, Live(m, ip)
      PROVE  /\ Discover(m) => resp' = Offer(m, ip, LeaseTime)
             /\ Request(m, ip) => resp' = Ack(m, ip, LeaseTime)
  <2> DEFINE t == SweptTable
  <2>1. t \in [Slots -> Lease] /\ OneToOne(t)
    BY <1>1, SweepSafe
  <2>2. PICK i \in UsedIn(t) : t[i].mac_address = m /\ t[i].ip_address = ip
    BY <1>1, SweepSafe DEF Keeps
  <2>3. SlotsOf(t, m) = {i} /\ Min(SlotsOf(t, m)) = i
    BY <2>1, <2>2, OwnSlot
  <2>4. MacMatch(t, m, ip) = {i} /\ Max(MacMatch(t, m, ip)) = i
    BY <2>1, <2>2, OwnLeaseVisited
  <2>5. Discover(m) => resp' = Offer(m, ip, LeaseTime)
    BY <2>2, <2>3 DEF Discover, OfferOwn, OfferNext, OfferNothing
  <2>6. Request(m, ip) => resp' = Ack(m, ip, LeaseTime)
    BY <2>2, <2>4 DEF Request, InPool, Renew, Allocate, Refuse
  <2>7. QED
    BY <2>5, <2>6
<1>2. IInv => \A m \in Macs, ip \in Pool : Live(m, ip) =>
                /\ Discover(m) => resp' = Offer(m, ip, LeaseTime)
                /\ Request(m, ip) => resp' = Ack(m, ip, LeaseTime)
  BY <1>1
<1>3. QED
  BY <1>2, IInvAlways, PTL DEF HolderServed

-----------------------------------------------------------------------------
(***************************************************************************)
(* The array back end turns a client away only if every lease in its table *)
(* still runs, up to the first turn of the clock.                          *)
(***************************************************************************)

\* No lease of table t is recorded for longer than its client was given it.
Due(t) ==
  \A i \in UsedIn(t) :
    /\ t[i].mac_address \in Macs
    /\ t[i].expire_time <= clk + left[t[i].mac_address][t[i].ip_address]

\* With the other half, RunningLeaseKept, the two times are equal.
Fresh == turned = 0 => Due(leases)

-----------------------------------------------------------------------------
\* The search goes past every address of the pool.
LEMMA ProbesCover ==
  ASSUME next_ip \in Pool, NEW ip \in Pool
  PROVE  \E k \in 0 .. (RangeSize - 1) : Probe(k) = ip
<1>1. /\ RangeSize \in Nat \ {0} /\ next_ip \in Int /\ ip \in Int /\ PoolStart \in Int
      /\ ip - PoolStart \in 0 .. (RangeSize - 1)
      /\ next_ip - PoolStart \in 0 .. (RangeSize - 1)
  BY ServerAssumption DEF RangeSize, Pool
<1>2. CASE ip >= next_ip
  <2> DEFINE k == ip - next_ip
  <2>1. k \in 0 .. (RangeSize - 1) /\ next_ip - PoolStart + k = ip - PoolStart
    BY <1>1, <1>2
  <2>2. (ip - PoolStart) % RangeSize = ip - PoolStart
    BY <1>1
  <2>3. Probe(k) = PoolStart + (ip - PoolStart)
    BY <2>1, <2>2 DEF Probe
  <2>4. QED
    BY <1>1, <2>1, <2>3
<1>3. CASE ip < next_ip
  <2> DEFINE k == ip - next_ip + RangeSize
  <2>1. /\ k \in 0 .. (RangeSize - 1)
        /\ next_ip - PoolStart + k = (ip - PoolStart) + RangeSize
    BY <1>1, <1>3
  <2>2. ((ip - PoolStart) + RangeSize) % RangeSize = ip - PoolStart
    BY <1>1
  <2>3. Probe(k) = PoolStart + (ip - PoolStart)
    BY <2>1, <2>2 DEF Probe
  <2>4. QED
    BY <1>1, <2>1, <2>3
<1>4. QED
  BY <1>1, <1>2, <1>3

\* A table with fewer leases than the pool has addresses leaves one free.
LEMMA SomeStepFree ==
  ASSUME next_ip \in Pool, NEW t, Cardinality(UsedIn(t)) < RangeSize
  PROVE  FreeSteps(t) # {}
<1> SUFFICES ASSUME FreeSteps(t) = {} PROVE FALSE
  OBVIOUS
<1>1. \A ip \in Pool : \E i \in UsedIn(t) : t[i].ip_address = ip
  BY ProbesCover DEF FreeSteps, Holds, UsedIn
<1> DEFINE f == [ip \in Pool |-> CHOOSE i \in UsedIn(t) : t[i].ip_address = ip]
<1>2. f \in [Pool -> UsedIn(t)] /\ \A ip \in Pool : t[f[ip]].ip_address = ip
  BY <1>1
<1>3. IsFiniteSet(Pool) /\ Cardinality(Pool) = RangeSize
  BY FS_Interval, ServerAssumption DEF Pool, RangeSize
<1>4. IsFiniteSet(UsedIn(t))
  BY UsedFinite
<1> HIDE DEF f
<1>5. \E x, y \in Pool : x # y /\ f[x] = f[y]
  BY <1>2, <1>3, <1>4, FS_PigeonHole
<1>6. QED
  BY <1>2, <1>5

-----------------------------------------------------------------------------
\* The sweep only removes leases.
LEMMA SweepDue ==
  ASSUME Due(leases)
  PROVE  Due(SweptTable)
BY DEF Due, UsedIn, SweptTable, FreeSlot

\* The empty table records nothing.
LEMMA InitFresh == Init => Fresh
BY DEF Init, Fresh, Due, UsedIn, FreeSlot

\* While the clock does not turn it advances by what the clients lose.
LEMMA TickFresh ==
  ASSUME IInv, Fresh, Tick
  PROVE  Fresh'
<1> SUFFICES ASSUME turned' = 0, NEW i \in UsedIn(leases)
             PROVE  /\ leases[i].mac_address \in Macs
                    /\ leases[i].expire_time
                         <= clk' + left'[leases[i].mac_address][leases[i].ip_address]
  BY DEF Fresh, Due, UsedIn, Tick, poolVars
<1> DEFINE m == leases[i].mac_address
           ip == leases[i].ip_address
<1>1. turned = 0 /\ clk' = clk + 1 /\ left' = Elapsed
  BY DEF Tick, Second, NextSecond
<1>2. m \in Macs /\ leases[i].expire_time <= clk + left[m][ip]
  BY <1>1 DEF Fresh, Due
<1>3. ip \in Pool
  BY IInvParts DEF PoolOnly
<1>4. clk \in Nat /\ left[m][ip] \in Nat /\ leases[i].expire_time \in Nat
  BY <1>2, <1>3 DEF IInv, TypeOK, ServerTypeOK, Lease, UsedIn
<1>5. left'[m][ip] = IF left[m][ip] = 0 THEN 0 ELSE left[m][ip] - 1
  BY <1>1, <1>2, <1>3 DEF Elapsed
<1> HIDE DEF m, ip
<1>6. leases[i].expire_time <= clk' + left'[m][ip]
  BY <1>1, <1>2, <1>4, <1>5
<1>7. QED
  BY <1>2, <1>6 DEF m, ip

\* A lease that is written lasts as long as the ACK says.
LEMMA WriteFresh ==
  ASSUME IInv, Due(leases), NEW m \in Macs, NEW ip \in Pool, UNCHANGED clk,
         Renew(SweptTable, m, ip) \/ Allocate(SweptTable, m, ip)
  PROVE  Due(leases)'
<1> DEFINE t == SweptTable
<1>1. t \in [Slots -> Lease] /\ OneToOne(t) /\ PoolOnly(t) /\ Due(t)
  BY SweepSafe, SweepDue
<1>2. /\ left'[m][ip] = LeaseTime
      /\ \A n \in Macs, a \in Pool : <<n, a>> # <<m, ip>> => left'[n][a] = left[n][a]
  BY GrantEffect, ServerAssumption DEF Renew, Allocate, IInv, TypeOK, ServerTypeOK
<1>3. clk \in Nat /\ LeaseTime \in Nat
  BY ServerAssumption DEF IInv, TypeOK, ServerTypeOK
<1>4. \E s \in Slots :
        /\ \A i \in Slots : i # s => leases'[i] = t[i]
        /\ \A i \in UsedIn(t) : i # s => t[i].mac_address # m
        /\ leases'[s].mac_address = m /\ leases'[s].ip_address = ip
        /\ leases'[s].expire_time = clk + LeaseTime
  <2>1. CASE Renew(t, m, ip)
    <3> HIDE DEF t
    <3>1. PICK s \in UsedIn(t) : t[s].mac_address = m /\ Max(MacMatch(t, m, ip)) = s
      BY <1>1, <2>1, FoundIsOwn DEF Renew
    <3>2. t[s].ip_address = ip /\ leases' = [t EXCEPT ![s].expire_time = clk + LeaseTime]
      BY <2>1, <3>1 DEF Renew
    <3>3. s \in Slots /\ t[s] \in Lease
      BY <1>1, <3>1 DEF UsedIn
    <3>4. /\ \A i \in Slots : i # s => leases'[i] = t[i]
          /\ leases'[s] = [t[s] EXCEPT !.expire_time = clk + LeaseTime]
      BY <1>1, <3>2, <3>3
    <3>5. \A i \in UsedIn(t) : i # s => t[i].mac_address # m
      BY <1>1, <3>1 DEF OneToOne
    <3>6. /\ leases'[s].mac_address = m /\ leases'[s].ip_address = ip
          /\ leases'[s].expire_time = clk + LeaseTime
      BY <3>1, <3>2, <3>3, <3>4 DEF Lease
    <3>7. QED
      BY <3>3, <3>4, <3>5, <3>6
  <2>2. CASE Allocate(t, m, ip)
    <3> DEFINE s == Min(FreeMatch(t, m, ip))
    <3>1. \A i \in UsedIn(t) : t[i].mac_address # m
      BY <2>2, NoneVisitedNoneThere DEF Allocate, Matches, UsedIn
    <3>2. FreeMatch(t, m, ip) \subseteq Nat /\ FreeMatch(t, m, ip) # {}
      BY <2>2 DEF Allocate, FreeMatch, Visited, Slots
    <3>3. s \in Slots
      BY <3>2, LeastNat DEF FreeMatch, Visited
    <3>4. leases' = [t EXCEPT ![s] = NewLease(m, ip)]
      BY <2>2 DEF Allocate
    <3> HIDE DEF s, t
    <3>5. (\A i \in Slots : i # s => leases'[i] = t[i]) /\ leases'[s] = NewLease(m, ip)
      BY <1>1, <3>3, <3>4
    <3>6. QED
      BY <3>1, <3>3, <3>5 DEF NewLease
  <2>3. QED
    BY <2>1, <2>2
<1> HIDE DEF t
<1>5. PICK s \in Slots :
        /\ \A i \in Slots : i # s => leases'[i] = t[i]
        /\ \A i \in UsedIn(t) : i # s => t[i].mac_address # m
        /\ leases'[s].mac_address = m /\ leases'[s].ip_address = ip
        /\ leases'[s].expire_time = clk + LeaseTime
  BY <1>4
<1>6. ASSUME NEW i \in UsedIn(leases')
      PROVE  /\ leases'[i].mac_address \in Macs
             /\ leases'[i].expire_time
                  <= clk + left'[leases'[i].mac_address][leases'[i].ip_address]
  <2>1. CASE i = s
    BY <1>2, <1>3, <1>5, <2>1
  <2>2. CASE i # s
    <3>1. leases'[i] = t[i] /\ i \in UsedIn(t) /\ t[i].mac_address # m
      BY <1>5, <1>6, <2>2 DEF UsedIn
    <3>2. t[i].mac_address \in Macs /\ t[i].ip_address \in Pool
      BY <1>1, <3>1 DEF Due, PoolOnly
    <3>3. left'[t[i].mac_address][t[i].ip_address] = left[t[i].mac_address][t[i].ip_address]
      BY <1>2, <3>1, <3>2
    <3>4. t[i].expire_time <= clk + left[t[i].mac_address][t[i].ip_address]
      BY <1>1, <3>1 DEF Due
    <3>5. QED
      BY <3>1, <3>2, <3>3, <3>4
  <2>3. QED
    BY <2>1, <2>2
<1>7. QED
  BY <1>6 DEF Due, UsedIn

\* A DECLINE takes the lease of the client whose time it ends.
LEMMA DeclineFresh ==
  ASSUME IInv, Due(leases), NEW m \in Macs, Decline(m)
  PROVE  Due(leases)'
<1>1. leases \in [Slots -> Lease] /\ OneToOne(leases) /\ PoolOnly(leases)
  BY IInvParts DEF TypeOK
<1>2. clk' = clk /\ left' = [left EXCEPT ![m] = [ip \in Pool |-> 0]]
  BY DEF Decline, DeclineLease, GiveUp
<1>3. left \in [Macs -> [Pool -> Nat]]
  BY DEF IInv, TypeOK, ServerTypeOK
<1>4. \A i \in UsedIn(leases') : /\ i \in UsedIn(leases) /\ leases'[i] = leases[i]
                                 /\ leases[i].mac_address # m
  <2>1. CASE SlotsOf(leases, m) = {}
    BY <2>1 DEF Decline, DeclineLease, SlotsOf, UsedIn
  <2>2. CASE SlotsOf(leases, m) # {}
    <3>1. PICK s \in UsedIn(leases) : leases[s].mac_address = m
      BY <2>2 DEF SlotsOf, UsedIn
    <3>2. Min(SlotsOf(leases, m)) = s
      BY <1>1, <3>1, OwnSlot
    <3>3. leases' = [leases EXCEPT ![s] = FreeSlot]
      BY <2>2, <3>2 DEF Decline, DeclineLease
    <3>4. QED
      BY <1>1, <3>1, <3>3 DEF UsedIn, FreeSlot, OneToOne
  <2>3. QED
    BY <2>1, <2>2
<1>5. ASSUME NEW i \in UsedIn(leases')
      PROVE  /\ leases'[i].mac_address \in Macs
             /\ leases'[i].expire_time
                  <= clk + left'[leases'[i].mac_address][leases'[i].ip_address]
  BY <1>2, <1>3, <1>4, <1>5 DEF Due
<1>6. QED
  BY <1>2, <1>5 DEF Due, UsedIn

\* Every step keeps the recorded times due.
LEMMA NextFresh == IInv /\ Fresh /\ [Next]_vars => Fresh'
<1> SUFFICES ASSUME IInv, Fresh, [Next]_vars PROVE Fresh'
  OBVIOUS
<1>1. CASE Tick
  BY <1>1, TickFresh
<1>2. CASE Ignore \/ UNCHANGED vars
  BY <1>2 DEF Ignore, vars, Fresh, Due, UsedIn
<1>3. ASSUME NEW m \in Macs, Discover(m) PROVE Fresh'
  <2>1. leases' = SweptTable /\ UNCHANGED <<clk, turned, left>>
    BY <1>3 DEF Discover
  <2>2. turned = 0 => Due(SweptTable)
    BY SweepDue DEF Fresh
  <2>3. QED
    BY <2>1, <2>2 DEF Fresh, Due, UsedIn
<1>4. ASSUME NEW m \in Macs, Decline(m) PROVE Fresh'
  BY <1>4, DeclineFresh DEF Fresh, Decline, DeclineLease
<1>5. ASSUME NEW m \in Macs, NEW ip \in Requested, Request(m, ip) PROVE Fresh'
  <2>1. UNCHANGED <<clk, turned>>
    BY <1>5 DEF Request
  <2>2. CASE ip \in Pool /\ (Renew(SweptTable, m, ip) \/ Allocate(SweptTable, m, ip))
    BY <2>1, <2>2, WriteFresh DEF Fresh
  <2>3. CASE Refuse(SweptTable, m, ip)
    <3>1. leases' = SweptTable /\ UNCHANGED left
      BY <2>3 DEF Refuse
    <3>2. turned = 0 => Due(SweptTable)
      BY SweepDue DEF Fresh
    <3>3. QED
      BY <2>1, <3>1, <3>2 DEF Fresh, Due, UsedIn
  <2>4. CASE OutsidePool(m, ip)
    BY <2>1, <2>4 DEF OutsidePool, Fresh, Due, UsedIn
  <2>5. QED
    BY <1>5, <2>2, <2>3, <2>4 DEF Request, InPool
<1>6. QED
  BY <1>1, <1>2, <1>3, <1>4, <1>5 DEF Next

-----------------------------------------------------------------------------
\* A DISCOVER that is not answered meets a full table in which nothing has run out.
LEMMA UnansweredMeetsLive ==
  ASSUME IInv, Fresh, turned = 0, MaxLeases <= RangeSize,
         NEW m \in Macs, Discover(m), resp' = NoReply, NEW i \in InUse
  PROVE  Live(leases[i].mac_address, leases[i].ip_address)
<1> DEFINE t == SweptTable
<1>1. OfferNothing(t, m)
  BY DEF Discover, OfferOwn, OfferNext, Offer, NoReply
<1>2. /\ SweptCount = Cardinality(UsedIn(t)) /\ SweptCount \in 0 .. MaxLeases
      /\ next_ip \in Pool /\ lease_count \in 0 .. MaxLeases
  BY SweepSafe DEF IInv, TypeOK
<1>3. RangeSize \in Nat /\ MaxLeases \in Nat
  BY ServerAssumption, MaxLeasesAssumption DEF RangeSize
<1>4. Full(SweptCount)
  <2> HIDE DEF t
  <2>1. ~Full(SweptCount) => Cardinality(UsedIn(t)) < RangeSize
    BY <1>2, <1>3 DEF Full
  <2>2. ~Full(SweptCount) => FreeSteps(t) # {}
    BY <1>2, <2>1, SomeStepFree
  <2>3. QED
    BY <1>1, <2>2 DEF OfferNothing
<1>5. IsFiniteSet(Swept) /\ Cardinality(Swept) \in Nat
  <2>1. Swept \in SUBSET UsedIn(leases)
    BY DEF Swept, Expired, UsedIn
  <2>2. QED
    BY <2>1, UsedFinite, FS_Subset, FS_CardinalityType
<1>6. Cardinality(Swept) = 0 /\ Full(lease_count)
  BY <1>2, <1>3, <1>4, <1>5 DEF SweptCount, Full
<1>7. Expired = {}
  BY <1>5, <1>6, FS_EmptySet DEF Swept
<1>8. i \in UsedIn(leases) /\ ~(leases[i].expire_time <= clk)
  BY <1>7 DEF InUse, UsedIn, Expired
<1>9. /\ leases[i].mac_address \in Macs
      /\ leases[i].expire_time <= clk + left[leases[i].mac_address][leases[i].ip_address]
  BY <1>8 DEF Fresh, Due
<1>10. leases[i].ip_address \in Pool
  BY <1>8, IInvParts DEF PoolOnly
<1>11. /\ left[leases[i].mac_address][leases[i].ip_address] \in Nat
       /\ clk \in Nat /\ leases[i].expire_time \in Nat
  BY <1>8, <1>9, <1>10 DEF IInv, TypeOK, ServerTypeOK, Lease, UsedIn
<1>12. QED
  BY <1>8, <1>9, <1>11 DEF Live

(***************************************************************************)
(* A client goes without an answer only while every lease in the table     *)
(* runs, whatever the size of table and pool: the sweep of a full table    *)
(* and the search round the pool miss no lease that has run out and no     *)
(* address that is free (dhcp_arraypool_find_available_ip).                *)
(***************************************************************************)
THEOREM RunOutLeaseAlwaysMakesRoom == Spec => RunOutLeaseMakesRoom
<1>1. IInv /\ Fresh /\ [Next]_vars =>
        [\A m \in Macs : Discover(m) /\ resp' = NoReply /\ turned = 0 /\ MaxLeases <= RangeSize =>
           \A i \in InUse : Live(leases[i].mac_address, leases[i].ip_address)]_vars
  BY UnansweredMeetsLive
<1>2. Spec => []Fresh
  BY InitFresh, NextFresh, IInvAlways, PTL DEF Spec
<1>3. QED
  BY <1>1, <1>2, IInvAlways, PTL DEF Spec, RunOutLeaseMakesRoom

-----------------------------------------------------------------------------
(***************************************************************************)
(* The array back end implements the abstract lease service, for every     *)
(* number of clients, addresses and slots.                                 *)
(***************************************************************************)

NoLease == [ip |-> 0, expire |-> 0]

\* The leases by client that a table t stands for.
ByClient(t) ==
  [m \in Macs |->
     IF SlotsOf(t, m) = {} THEN NoLease
     ELSE [ip |-> t[Min(SlotsOf(t, m))].ip_address, expire |-> t[Min(SlotsOf(t, m))].expire_time]]

Good(t) == t \in [Slots -> Lease] /\ OneToOne(t) /\ PoolOnly(t)

\* The table in the state is one-to-one and inside the pool.
LEMMA TableGood == IInv => Good(leases)
BY IInvParts DEF Good, TypeOK

\* So is the table after a step, whose variables are primed.
LEMMA NextTableGood == IInv' => Good(leases')
<1>1. IInv' => Good(leases)'
  BY TableGood, PTL
<1>2. Good(leases)' <=> Good(leases')
  BY DEF Good, OneToOne, PoolOnly, UsedIn
<1>3. QED
  BY <1>1, <1>2

\* An address of the pool is not the 0 of a missing lease.
LEMMA PoolNotZero == \A ip \in Pool : ip # 0
BY ServerAssumption DEF Pool

\* The abstract lease of a client is the one in its slot.
LEMMA LeaseInSlot ==
  ASSUME NEW t, Good(t), NEW m \in Macs, NEW i \in UsedIn(t), t[i].mac_address = m
  PROVE  /\ ByClient(t)[m] = [ip |-> t[i].ip_address, expire |-> t[i].expire_time]
         /\ ByClient(t)[m] # NoLease
<1>1. SlotsOf(t, m) = {i} /\ Min(SlotsOf(t, m)) = i
  BY OwnSlot DEF Good
<1>2. ByClient(t)[m] = [ip |-> t[i].ip_address, expire |-> t[i].expire_time]
  BY <1>1 DEF ByClient
<1>3. t[i].ip_address # 0
  BY PoolNotZero DEF Good, PoolOnly
<1>4. QED
  BY <1>2, <1>3 DEF NoLease

\* A client without a slot has no lease, and a client with a lease has a slot.
LEMMA SlotOfLease ==
  ASSUME NEW t, Good(t), NEW m \in Macs
  PROVE  /\ SlotsOf(t, m) = {} => ByClient(t)[m] = NoLease
         /\ SlotsOf(t, m) # {} => \E i \in UsedIn(t) : t[i].mac_address = m
         /\ \A ip \in Pool : ByClient(t)[m].ip = ip =>
              \E i \in UsedIn(t) : t[i].mac_address = m /\ t[i].ip_address = ip
<1>1. SlotsOf(t, m) = {} => ByClient(t)[m] = NoLease
  BY DEF ByClient
<1>2. SlotsOf(t, m) # {} => \E i \in UsedIn(t) : t[i].mac_address = m
  BY DEF SlotsOf, UsedIn
<1>3. ASSUME NEW ip \in Pool, ByClient(t)[m].ip = ip
      PROVE  \E i \in UsedIn(t) : t[i].mac_address = m /\ t[i].ip_address = ip
  <2>1. SlotsOf(t, m) # {}
    BY <1>1, <1>3, PoolNotZero, SMTT(15), ZenonT(20) DEF NoLease
  <2>2. PICK i \in UsedIn(t) : t[i].mac_address = m
    BY <1>2, <2>1
  <2>3. ByClient(t)[m] = [ip |-> t[i].ip_address, expire |-> t[i].expire_time]
    BY <2>2, LeaseInSlot
  <2>4. t[i].ip_address = ip
    BY <1>3, <2>3
  <2>5. QED
    BY <2>2, <2>4
<1>4. QED
  BY <1>1, <1>2, <1>3

\* The refinement mapping of ArrayPool, and the abstract "held".
LEMMA Mapping ==
  /\ LeaseOf = ByClient(leases)
  /\ LeaseOf' = ByClient(leases')
  /\ Service!NoLease = NoLease
  /\ \A t, ip : Service!Held(t, ip) <=> \E m \in Macs : t[m].ip = ip
BY DEF LeaseOf, ByClient, NoLease, Service!NoLease, Service!Held

\* Dropping nothing is a way to reclaim.
LEMMA NothingReclaimed == LeaseOf \in Service!Reclaimed
<1> DEFINE gone == {}
<1>1. \A m \in Macs : LeaseOf[m] = IF m \in gone THEN Service!NoLease ELSE LeaseOf[m]
  OBVIOUS
<1>2. gone \in SUBSET {m \in Macs : LeaseOf[m] # Service!NoLease /\ LeaseOf[m].expire <= clk}
  OBVIOUS
<1> HIDE DEF gone
<1>3. LeaseOf = [m \in Macs |-> IF m \in gone THEN Service!NoLease ELSE LeaseOf[m]]
  BY <1>1 DEF LeaseOf
<1>4. QED
  BY <1>2, <1>3 DEF Service!Reclaimed

\* The sweep drops only leases that have run out.
LEMMA SweepReclaims ==
  ASSUME IInv
  PROVE  Good(SweptTable) /\ ByClient(SweptTable) \in Service!Reclaimed
<1> USE Zenon, SMTT(15)
<1> DEFINE t == SweptTable
           old == {m \in Macs : LeaseOf[m] # Service!NoLease /\ LeaseOf[m].expire <= clk}
           gone == {m \in Macs : SlotsOf(leases, m) # {} /\ SlotsOf(t, m) = {}}
<1>1. Good(t) /\ Good(leases)
  BY SweepSafe, IInvParts DEF Good, TypeOK
<1>2. \A i \in Slots : i \notin Swept => t[i] = leases[i]
  BY DEF SweptTable
<1>3. \A i \in Slots : i \in Swept => ~t[i].in_use
  BY DEF SweptTable, FreeSlot
<1>4. ASSUME NEW m \in gone PROVE m \in old
  <2>1. PICK i \in UsedIn(leases) : leases[i].mac_address = m
    BY <1>1, <1>4, SlotOfLease
  <2>2. i \in Slots /\ leases[i].in_use
    BY <2>1 DEF UsedIn
  <2>3. i \in Swept
    BY <1>2, <1>4, <2>1, <2>2 DEF SlotsOf
  <2>4. leases[i].expire_time <= clk
    BY <2>3 DEF Swept, Expired
  <2>5. LeaseOf[m] = [ip |-> leases[i].ip_address, expire |-> leases[i].expire_time]
        /\ LeaseOf[m] # NoLease
    BY <1>1, <1>4, <2>1, LeaseInSlot, Mapping
  <2>6. QED
    BY <1>4, <2>4, <2>5, Mapping
<1>5. ASSUME NEW m \in Macs
      PROVE  ByClient(t)[m] = IF m \in gone THEN Service!NoLease ELSE LeaseOf[m]
  <2>1. CASE SlotsOf(t, m) # {}
    <3>1. PICK i \in UsedIn(t) : t[i].mac_address = m
      BY <1>1, <2>1, SlotOfLease
    <3>2. i \in Slots /\ t[i] = leases[i] /\ i \in UsedIn(leases)
      BY <1>2, <1>3, <3>1 DEF UsedIn
    <3>3. ByClient(t)[m] = [ip |-> t[i].ip_address, expire |-> t[i].expire_time]
      BY <1>1, <3>1, LeaseInSlot
    <3>4. leases[i].mac_address = m
      BY <3>1, <3>2
    <3>5. ByClient(leases)[m] = [ip |-> leases[i].ip_address, expire |-> leases[i].expire_time]
      BY <1>1, <3>2, <3>4, LeaseInSlot
    <3>6. ByClient(t)[m] = ByClient(leases)[m]
      BY <3>2, <3>3, <3>5
    <3>7. QED
      BY <2>1, <3>6, Mapping
  <2>2. CASE SlotsOf(t, m) = {} /\ SlotsOf(leases, m) # {}
    BY <1>1, <2>2, SlotOfLease, Mapping
  <2>3. CASE SlotsOf(t, m) = {} /\ SlotsOf(leases, m) = {}
    BY <1>1, <2>3, SlotOfLease, Mapping
  <2>4. QED
    BY <2>1, <2>2, <2>3
<1>6. gone \in SUBSET old
  BY <1>4
<1> HIDE DEF gone, old, t
<1>7. ByClient(t) = [m \in Macs |-> IF m \in gone THEN Service!NoLease ELSE LeaseOf[m]]
  BY <1>5 DEF ByClient
<1>8. ByClient(t) \in Service!Reclaimed
  BY <1>6, <1>7 DEF Service!Reclaimed, old
<1>9. QED
  BY <1>1, <1>8 DEF t

-----------------------------------------------------------------------------
\* A DISCOVER is answered as the service answers it.
LEMMA DiscoverMaps ==
  ASSUME IInv, NEW m \in Macs, Discover(m)
  PROVE  Service!Discover(m)
<1> USE Zenon, SMTT(15)
<1> DEFINE t == SweptTable
<1>1. Good(t) /\ ByClient(t) \in Service!Reclaimed
  BY SweepReclaims
<1>2. /\ leases' = t /\ UNCHANGED <<clk, turned, left>>
      /\ OfferOwn(t, m) \/ OfferNext(t, m) \/ OfferNothing(t, m)
  BY DEF Discover
<1>3. LeaseOf' = ByClient(t)
  BY <1>2, Mapping
<1>4. next_ip \in Pool
  BY DEF IInv, TypeOK
<1> HIDE DEF t
<1>5. SUFFICES \/ resp' = NoReply /\ ByClient(t)[m] = NoLease
               \/ \E ip \in Pool :
                     /\ resp' = Offer(m, ip, LeaseTime)
                     /\ \/ ByClient(t)[m].ip = ip
                        \/ /\ ByClient(t)[m] = NoLease
                           /\ ~\E n \in Macs : ByClient(t)[n].ip = ip
  BY <1>1, <1>2, <1>3, Mapping DEF Service!Discover, Service!Offer, Service!NoReply, Service!Pool,
     Offer, NoReply, Pool
<1>6. CASE OfferOwn(t, m)
  <2>1. PICK i \in UsedIn(t) : t[i].mac_address = m
    BY <1>1, <1>6, SlotOfLease DEF OfferOwn
  <2>2. Min(SlotsOf(t, m)) = i
    BY <1>1, <2>1, OwnSlot DEF Good
  <2>3. resp' = Offer(m, t[i].ip_address, LeaseTime)
    BY <1>6, <2>2 DEF OfferOwn
  <2>4. ByClient(t)[m].ip = t[i].ip_address
    <3>1. ByClient(t)[m] = [ip |-> t[i].ip_address, expire |-> t[i].expire_time]
      BY <1>1, <2>1, LeaseInSlot
    <3>2. QED
      BY <3>1
  <2>5. t[i].ip_address \in Pool
    BY <1>1, <2>1 DEF Good, PoolOnly
  <2>6. QED
    BY <2>3, <2>4, <2>5
<1>7. CASE OfferNext(t, m)
  <2> DEFINE k == Min(FreeSteps(t))
             ip == Probe(k)
  <2>1. FreeSteps(t) \subseteq Nat /\ FreeSteps(t) # {}
    BY <1>7 DEF OfferNext, FreeSteps
  <2>2. k \in FreeSteps(t)
    BY <2>1, LeastNat
  <2>3. k \in Nat /\ ~Holds(t, ip)
    BY <2>1, <2>2 DEF FreeSteps
  <2>4. ip \in Pool
    BY <1>4, <2>3, ProbeInPool
  <2>5. resp' = Offer(m, ip, LeaseTime) /\ SlotsOf(t, m) = {}
    BY <1>7 DEF OfferNext
  <2> HIDE DEF k, ip
  <2>6. ~\E n \in Macs : ByClient(t)[n].ip = ip
    BY <1>1, <2>3, <2>4, SlotOfLease DEF Holds, UsedIn
  <2>7. ByClient(t)[m] = NoLease
    BY <1>1, <2>5, SlotOfLease
  <2>8. QED
    BY <2>4, <2>5, <2>6, <2>7
<1>8. CASE OfferNothing(t, m)
  BY <1>1, <1>8, SlotOfLease, SMTT(15) DEF OfferNothing
<1>9. QED
  BY <1>2, <1>6, <1>7, <1>8

\* Table u is table t with the lease of m on ip until e in slot s, which no
\* other client held.
Writes(t, u, s, m, ip, e) ==
  /\ \A i \in Slots : i # s => u[i] = t[i]
  /\ u[s].in_use /\ u[s].mac_address = m /\ u[s].ip_address = ip /\ u[s].expire_time = e
  /\ t[s].in_use => t[s].mac_address = m

\* The leases of table u are those of table t but for the one of m.
Leased(t, u, m, ip, e) ==
  ByClient(u) = [ByClient(t) EXCEPT ![m] = [ip |-> ip, expire |-> e]]

\* Writing the lease of m on ip into slot s of a table, where it is the only
\* lease of m and the only one on ip, changes the lease of m and no other.
LEMMA WriteOne ==
  ASSUME NEW t, Good(t), NEW u, Good(u), NEW m \in Macs, NEW ip \in Pool, NEW e, NEW s \in Slots,
         Writes(t, u, s, m, ip, e)
  PROVE  Leased(t, u, m, ip, e)
<1> USE DEF Writes
<1>1. ByClient(u)[m] = [ip |-> ip, expire |-> e]
  <2>1. s \in UsedIn(u)
    BY DEF UsedIn
  <2>2. QED
    BY <2>1, LeaseInSlot
<1>2. ASSUME NEW n \in Macs, n # m
      PROVE  ByClient(u)[n] = ByClient(t)[n]
  <2>1. SlotsOf(u, n) = SlotsOf(t, n)
    BY <1>2 DEF SlotsOf
  <2>2. CASE SlotsOf(t, n) = {}
    BY <2>1, <2>2, SlotOfLease
  <2>3. CASE SlotsOf(t, n) # {}
    <3>1. PICK i \in UsedIn(t) : t[i].mac_address = n
      BY <2>3, SlotOfLease
    <3>2. i \in Slots /\ i # s /\ t[i].in_use
      BY <1>2, <3>1 DEF UsedIn
    <3>3. u[i] = t[i] /\ i \in UsedIn(u)
      BY <3>2 DEF UsedIn
    <3>4. u[i].mac_address = n
      BY <3>1, <3>3
    <3>5. ByClient(u)[n] = [ip |-> u[i].ip_address, expire |-> u[i].expire_time]
      BY <3>3, <3>4, LeaseInSlot
    <3>6. ByClient(t)[n] = [ip |-> t[i].ip_address, expire |-> t[i].expire_time]
      BY <3>1, LeaseInSlot
    <3>7. QED
      BY <3>3, <3>5, <3>6
  <2>4. QED
    BY <2>2, <2>3
<1> DEFINE new == [ip |-> ip, expire |-> e]
<1>3. \A n \in Macs : ByClient(u)[n] = IF n = m THEN new ELSE ByClient(t)[n]
  BY <1>1, <1>2
<1>4. /\ ByClient(u) = [n \in Macs |-> ByClient(u)[n]]
      /\ ByClient(t) = [n \in Macs |-> ByClient(t)[n]]
  BY DEF ByClient
<1> HIDE DEF new
<1>5. ByClient(u) = [ByClient(t) EXCEPT ![m] = new]
  BY <1>3, <1>4
<1>6. QED
  BY <1>5 DEF new, Leased

\* A lease written by alloc_lease is the one the service writes.
LEMMA AcceptMaps ==
  ASSUME IInv, IInv', NEW m \in Macs, NEW ip \in Pool,
         Renew(SweptTable, m, ip) \/ Allocate(SweptTable, m, ip),
         UNCHANGED <<clk, turned>>
  PROVE  Service!Accept(m, ip)
<1> USE Zenon, SMTT(15)
<1> DEFINE t == SweptTable
<1>1. Good(t) /\ ByClient(t) \in Service!Reclaimed
  BY SweepReclaims
<1>2. Good(leases')
  BY NextTableGood
<1>3. resp' = Ack(m, ip, LeaseTime) /\ Grant(m, ip, LeaseTime)
  BY DEF Renew, Allocate
<1>4. LeaseOf' = ByClient(leases')
  BY Mapping
<1>5. SUFFICES /\ \/ ByClient(t)[m].ip = ip
                  \/ ByClient(t)[m] = NoLease /\ ~\E n \in Macs : ByClient(t)[n].ip = ip
               /\ ByClient(leases') = [ByClient(t) EXCEPT ![m] = [ip |-> ip, expire |-> clk + LeaseTime]]
  <2> HIDE DEF t
  <2> QED
    BY <1>1, <1>3, <1>4, Mapping DEF Service!Accept, Service!Ack, Service!Grant, Service!Pool,
       Ack, Grant, Pool
<1>6. CASE Renew(t, m, ip)
  <2> HIDE DEF t
  <2>1. PICK s \in UsedIn(t) : t[s].mac_address = m /\ Max(MacMatch(t, m, ip)) = s
    BY <1>1, <1>6, FoundIsOwn DEF Renew, Good
  <2>2. t[s].ip_address = ip /\ leases' = [t EXCEPT ![s].expire_time = clk + LeaseTime]
    BY <1>6, <2>1 DEF Renew
  <2>3. ByClient(t)[m] = [ip |-> t[s].ip_address, expire |-> t[s].expire_time]
    BY <1>1, <2>1, LeaseInSlot
  <2>4. s \in Slots /\ t[s].in_use /\ t \in [Slots -> Lease] /\ t[s] \in Lease
    BY <1>1, <2>1 DEF UsedIn, Good
  <2>5. /\ \A i \in Slots : i # s => leases'[i] = t[i]
        /\ leases'[s] = [t[s] EXCEPT !.expire_time = clk + LeaseTime]
    BY <2>2, <2>4
  <2>6. /\ leases'[s].in_use /\ leases'[s].mac_address = m /\ leases'[s].ip_address = ip
        /\ leases'[s].expire_time = clk + LeaseTime
    BY <2>1, <2>2, <2>4, <2>5 DEF Lease
  <2>7. ByClient(leases') = [ByClient(t) EXCEPT ![m] = [ip |-> ip, expire |-> clk + LeaseTime]]
    <3>1. \A i \in Slots : i # s => leases'[i] = t[i]
      BY <2>5
    <3>2. Writes(t, leases', s, m, ip, clk + LeaseTime)
      BY <2>1, <2>6, <3>1 DEF Writes
    <3>3. Leased(t, leases', m, ip, clk + LeaseTime)
      BY <1>1, <1>2, <2>4, <3>2, WriteOne
    <3>4. QED
      BY <3>3 DEF Leased
  <2>8. QED
    BY <2>2, <2>3, <2>7
<1>7. CASE Allocate(t, m, ip)
  <2> DEFINE s == Min(FreeMatch(t, m, ip))
  <2>1. \A i \in UsedIn(t) : t[i].mac_address # m /\ t[i].ip_address # ip
    BY <1>7, NoneVisitedNoneThere DEF Allocate, Matches, UsedIn
  <2>2. FreeMatch(t, m, ip) \subseteq Nat /\ FreeMatch(t, m, ip) # {}
    BY <1>7 DEF Allocate, FreeMatch, Visited, Slots
  <2>3. s \in FreeMatch(t, m, ip)
    BY <2>2, LeastNat
  <2>4. s \in Slots /\ ~t[s].in_use
    BY <2>3 DEF FreeMatch, Visited
  <2>5. leases' = [t EXCEPT ![s] = NewLease(m, ip)]
    BY <1>7 DEF Allocate
  <2> HIDE DEF t, s
  <2>6. /\ \A i \in Slots : i # s => leases'[i] = t[i]
        /\ leases'[s] = NewLease(m, ip)
    BY <1>1, <2>4, <2>5 DEF Good
  <2>7. /\ leases'[s].in_use /\ leases'[s].mac_address = m /\ leases'[s].ip_address = ip
        /\ leases'[s].expire_time = clk + LeaseTime
    BY <2>6 DEF NewLease
  <2>8. ByClient(leases') = [ByClient(t) EXCEPT ![m] = [ip |-> ip, expire |-> clk + LeaseTime]]
    <3>1. \A i \in Slots : i # s => leases'[i] = t[i]
      BY <2>6
    <3>2. Writes(t, leases', s, m, ip, clk + LeaseTime)
      BY <2>4, <2>7, <3>1 DEF Writes
    <3>3. Leased(t, leases', m, ip, clk + LeaseTime)
      BY <1>1, <1>2, <2>4, <3>2, WriteOne
    <3>4. QED
      BY <3>3 DEF Leased
  <2>9. SlotsOf(t, m) = {}
    BY <2>1 DEF SlotsOf, UsedIn
  <2>10. ByClient(t)[m] = NoLease
    BY <1>1, <2>9, SlotOfLease
  <2>11. ~\E n \in Macs : ByClient(t)[n].ip = ip
    BY <1>1, <2>1, SlotOfLease
  <2>12. QED
    BY <2>8, <2>10, <2>11
<1>8. QED
  BY <1>6, <1>7

\* A client that asks for the address it has is not refused.
LEMMA RefuseMaps ==
  ASSUME IInv, NEW m \in Macs, NEW ip \in Pool, Refuse(SweptTable, m, ip),
         UNCHANGED <<clk, turned>>
  PROVE  Service!Reject(m, ip)
<1> USE Zenon, SMTT(15)
<1> DEFINE t == SweptTable
<1>1. Good(t) /\ ByClient(t) \in Service!Reclaimed
  BY SweepReclaims
<1>2. leases' = t /\ resp' = Nak(m) /\ UNCHANGED left
  BY DEF Refuse
<1>3. LeaseOf' = ByClient(t)
  BY <1>2, Mapping
<1>4. ASSUME ByClient(t)[m].ip = ip PROVE FALSE
  <2>1. PICK i \in UsedIn(t) : t[i].mac_address = m /\ t[i].ip_address = ip
    BY <1>1, <1>4, SlotOfLease
  <2>2. MacMatch(t, m, ip) = {i} /\ Max(MacMatch(t, m, ip)) = i
    BY <1>1, <2>1, OwnLeaseVisited DEF Good
  <2>3. QED
    BY <2>1, <2>2 DEF Refuse
<1> HIDE DEF t
<1>5. QED
  BY <1>1, <1>2, <1>3, <1>4 DEF Service!Reject, Service!Nak, Nak

\* A DECLINE takes the lease of the client and no other.
LEMMA DeclineMaps ==
  ASSUME IInv, IInv', NEW m \in Macs, Decline(m)
  PROVE  Service!Decline(m)
<1>1. Good(leases) /\ Good(leases')
  BY TableGood, NextTableGood
<1>2. resp' = NoReply /\ GiveUp(m) /\ UNCHANGED <<clk, turned>>
  BY DEF Decline, DeclineLease
<1>3. \A i \in Slots : leases'[i] = IF i \in SlotsOf(leases, m) THEN FreeSlot ELSE leases[i]
  <2>1. CASE SlotsOf(leases, m) = {}
    BY <2>1 DEF Decline, DeclineLease
  <2>2. CASE SlotsOf(leases, m) # {}
    <3>1. PICK s \in UsedIn(leases) : leases[s].mac_address = m
      BY <1>1, <2>2, SlotOfLease
    <3>2. SlotsOf(leases, m) = {s} /\ Min(SlotsOf(leases, m)) = s
      BY <1>1, <3>1, OwnSlot DEF Good
    <3>3. leases' = [leases EXCEPT ![s] = FreeSlot]
      BY <2>2, <3>2 DEF Decline, DeclineLease
    <3>4. QED
      BY <1>1, <3>1, <3>2, <3>3 DEF Good, UsedIn
  <2>3. QED
    BY <2>1, <2>2
<1>4. \A n \in Macs : SlotsOf(leases', n) = IF n = m THEN {} ELSE SlotsOf(leases, n)
  BY <1>3 DEF SlotsOf, FreeSlot
<1>5. ASSUME NEW n \in Macs
      PROVE  ByClient(leases')[n] = IF n = m THEN NoLease ELSE ByClient(leases)[n]
  <2>1. CASE SlotsOf(leases', n) = {}
    BY <1>1, <1>4, <2>1, SlotOfLease
  <2>2. CASE SlotsOf(leases', n) # {}
    <3>1. PICK i \in UsedIn(leases') : leases'[i].mac_address = n
      BY <1>1, <2>2, SlotOfLease
    <3>2. i \in Slots /\ leases'[i] = leases[i] /\ i \in UsedIn(leases) /\ n # m
      BY <1>3, <1>4, <2>2, <3>1 DEF UsedIn, FreeSlot
    <3>3. leases[i].mac_address = n
      BY <3>1, <3>2
    <3>4. ByClient(leases')[n] = [ip |-> leases'[i].ip_address, expire |-> leases'[i].expire_time]
      BY <1>1, <3>1, LeaseInSlot
    <3>5. ByClient(leases)[n] = [ip |-> leases[i].ip_address, expire |-> leases[i].expire_time]
      BY <1>1, <3>2, <3>3, LeaseInSlot
    <3>6. QED
      BY <3>2, <3>4, <3>5
  <2>3. QED
    BY <2>1, <2>2
<1>6. /\ ByClient(leases') = [n \in Macs |-> ByClient(leases')[n]]
      /\ ByClient(leases) = [n \in Macs |-> ByClient(leases)[n]]
  BY DEF ByClient
<1>7. ByClient(leases') = [ByClient(leases) EXCEPT ![m] = NoLease]
  BY <1>5, <1>6
<1>8. QED
  BY <1>2, <1>7, Mapping DEF Service!Decline, Service!NoReply, Service!GiveUp, NoReply, GiveUp,
     Service!Pool, Pool

\* Every step of the array back end is a step of the service, or changes nothing of it.
LEMMA StepMaps ==
  ASSUME IInv, IInv', [Next]_vars
  PROVE  [Service!Next]_<<clk, turned, left, resp, LeaseOf>>
<1>1. CASE Tick
  <2>1. UNCHANGED LeaseOf /\ Second
    BY <1>1, Mapping DEF Tick, poolVars
  <2>2. QED
    BY <2>1 DEF Service!Next, Service!Tick, Service!Second, Second, Service!NextSecond, NextSecond, Service!NoReply, NoReply,
       Service!Elapsed, Elapsed, Service!Pool, Pool
<1>2. CASE Ignore
  <2>1. UNCHANGED LeaseOf
    BY <1>2, Mapping DEF Ignore
  <2>2. QED
    BY <1>2, <2>1 DEF Ignore, Service!Next, Service!Ignore, Service!NoReply, NoReply
<1>3. ASSUME NEW m \in Macs, Discover(m) PROVE Service!Next
  BY <1>3, DiscoverMaps DEF Service!Next
<1>4. ASSUME NEW m \in Macs, Decline(m) PROVE Service!Next
  BY <1>4, DeclineMaps DEF Service!Next
<1>5. ASSUME NEW m \in Macs, NEW ip \in Requested, Request(m, ip) PROVE Service!Next
  <2>1. UNCHANGED <<clk, turned>>
    BY <1>5 DEF Request
  <2>2. SUFFICES Service!Accept(m, ip) \/ Service!Reject(m, ip)
    BY DEF Service!Next, Service!Requested, Requested, Service!Pool, Pool
  <2>3. CASE ip \in Pool /\ InPool(m, ip)
    BY <2>1, <2>3, AcceptMaps, RefuseMaps DEF InPool
  <2>4. CASE ip \notin Pool /\ OutsidePool(m, ip)
    <3>1. LeaseOf' = LeaseOf /\ resp' = Nak(m) /\ UNCHANGED left
      BY <2>4, Mapping DEF OutsidePool
    <3>2. LeaseOf' \in Service!Reclaimed
      BY <3>1, NothingReclaimed
    <3>3. QED
      BY <2>1, <2>4, <3>1, <3>2 DEF Service!Reject, Service!Nak, Nak, Service!Pool, Pool
  <2>5. QED
    BY <1>5, <2>3, <2>4 DEF Request
<1>6. CASE UNCHANGED vars
  BY <1>6, Mapping DEF vars
<1>7. QED
  BY <1>1, <1>2, <1>3, <1>4, <1>5, <1>6 DEF Next

\* The empty table is the table without leases.
LEMMA InitMaps == Init => Service!Init
<1> SUFFICES ASSUME Init PROVE Service!Init
  OBVIOUS
<1>1. \A m \in Macs : SlotsOf(leases, m) = {}
  BY DEF Init, SlotsOf, FreeSlot
<1>2. LeaseOf = [m \in Macs |-> Service!NoLease]
  BY <1>1 DEF LeaseOf, Service!NoLease
<1>3. ServerInit
  BY DEF Init
<1>4. QED
  BY <1>2, <1>3 DEF Service!Init, Service!ServerInit, ServerInit, Service!NoReply, NoReply,
     Service!Pool, Pool

(***************************************************************************)
(* Every handler of dhcp_process_message_array, with the sweep, the count  *)
(* and the early exit of the allocation loop, acts as a table of one lease *)
(* per client would, for any pool, any array and any number of clients.    *)
(***************************************************************************)
THEOREM ArrayIsLeaseService == Spec => ImplementsLeases
<1>1. IInv /\ IInv' /\ [Next]_vars => [Service!Next]_<<clk, turned, left, resp, LeaseOf>>
  BY StepMaps
<1>2. QED
  BY <1>1, InitMaps, IInvAlways, PTL DEF Spec, ImplementsLeases, Service!Spec
=============================================================================
