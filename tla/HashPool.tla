------------------------------ MODULE HashPool ------------------------------
(***************************************************************************)
(* The HASHMAP back end (dhcp_hashmap.c) under                             *)
(* dhcp_process_message_hashmap: a hash table of leases keyed by MAC and a *)
(* second one of the addresses in use, which every operation has to keep   *)
(* in step with the first.                                                 *)
(***************************************************************************)
EXTENDS DhcpServer, HashTable

CONSTANTS
  MaxLeases,   \* the max_leases the caller asks for
  SweepMax,    \* 32, the most leases one sweep removes
  MacHash,     \* dhcp_mac_hash, for the clients
  IpHash       \* dhcp_ip_hash, for the addresses

\* dhcp_hash_elem, and the element of ip_set, which is its key alone.
Lease == [key : Macs, ip_address : Pool, expire_time : Nat]

Address == [key : Pool]

ASSUME HashPoolAssumption ==
  /\ MaxLeases \in Nat \ {0}
  /\ SweepMax \in Nat \ {0}
  /\ MacHash \in [Macs -> Buckets]
  /\ IpHash \in [Pool -> Buckets]
  /\ Empty \notin Lease /\ Empty \notin Address

VARIABLES
  leases,    \* hash_tab_mac
  ip_set,    \* hash_tab_ip
  next_ip    \* where the next search starts

poolVars == <<leases, ip_set, next_ip>>

vars == <<clk, turned, left, resp, leases, ip_set, next_ip>>

max_leases == IF HASH_N < MaxLeases THEN HASH_N ELSE MaxLeases

NewLease(m, ip) == [key |-> m, ip_address |-> ip, expire_time |-> clk + LeaseTime]

Init ==
  /\ ServerInit
  /\ leases = hash_clear(MacHash)
  /\ ip_set = hash_clear(IpHash)
  /\ next_ip = PoolStart

-----------------------------------------------------------------------------
(***************************************************************************)
(* dhcp_hashpool_cleanup_expire_lease, run by both searches when the table *)
(* is full: notes up to SweepMax leases that have run out, in the order of *)
(* the buckets, then deletes them from both tables.                        *)
(***************************************************************************)
Full(t) == t.elem_cnt >= max_leases

\* Mutant: the sweep takes a lease in its last second.
ExpiredEarly == {i \in Buckets : Occupied(leases, i) /\ leases.bucket[i].expire_time <= clk + 1}

\* Mutant: the sweep spares a lease in the second in which it runs out.
ExpiredLate == {i \in Buckets : Occupied(leases, i) /\ leases.bucket[i].expire_time < clk}

Expired == {i \in Buckets : Occupied(leases, i) /\ leases.bucket[i].expire_time <= clk}

Swept == IF Full(leases)
         THEN {i \in Expired : Cardinality({j \in Expired : j < i}) < SweepMax}
         ELSE {}

\* Mutant: the sweep deletes from the table of leases only.
DropMacOnly(l, s, e) == [leases |-> hash_delete(l, e.key), ip_set |-> s]

Drop(l, s, e) == [leases |-> hash_delete(l, e.key), ip_set |-> hash_delete(s, e.ip_address)]

\* Both tables after the sweep.
SweptTables ==
  LET upTo[n \in 0 .. HASH_N] ==
        IF n = 0 THEN [leases |-> leases, ip_set |-> ip_set]
        ELSE LET t == upTo[n - 1]
             IN  IF n - 1 \in Swept THEN Drop(t.leases, t.ip_set, leases.bucket[n - 1]) ELSE t
  IN  upTo[HASH_N]

-----------------------------------------------------------------------------
(***************************************************************************)
(* DISCOVER: dhcp_hashpool_find_available_ip.                              *)
(***************************************************************************)
\* The address k steps after next_ip, going round the pool.
Probe(k) == PoolStart + ((next_ip - PoolStart + k) % RangeSize)

\* Mutant: the search takes the next address without a look at ip_set.
AnyStep(s) == 0 .. (RangeSize - 1)

FreeSteps(s) == {k \in 0 .. (RangeSize - 1) : hash_find(s, Probe(k)) = Empty}

OfferOwn(t, m) ==
  LET mine == hash_find(t.leases, m)
  IN  /\ mine # Empty
      /\ resp' = Offer(m, mine.ip_address, LeaseTime)
      /\ UNCHANGED next_ip

\* Mutant: next_ip does not return to the start of the pool.
OfferNextUnwrapped(t, m) ==
  LET steps == FreeSteps(t.ip_set)
  IN  /\ hash_find(t.leases, m) = Empty
      /\ ~Full(t.leases)
      /\ steps # {}
      /\ resp' = Offer(m, Probe(Min(steps)), LeaseTime)
      /\ next_ip' = Probe(Min(steps)) + 1

OfferNext(t, m) ==
  LET steps == FreeSteps(t.ip_set)
  IN  /\ hash_find(t.leases, m) = Empty
      /\ ~Full(t.leases)
      /\ steps # {}
      /\ resp' = Offer(m, Probe(Min(steps)), LeaseTime)
      /\ next_ip' = Probe(Min(steps) + 1)

\* A fruitless search goes once round the pool and leaves next_ip where it was.
OfferNothing(t, m) ==
  /\ hash_find(t.leases, m) = Empty
  /\ Full(t.leases) \/ FreeSteps(t.ip_set) = {}
  /\ resp' = NoReply
  /\ UNCHANGED next_ip

Discover(m) ==
  LET t == SweptTables
  IN  /\ UNCHANGED <<clk, turned, left>>
      /\ leases' = t.leases
      /\ ip_set' = t.ip_set
      /\ OfferOwn(t, m) \/ OfferNext(t, m) \/ OfferNothing(t, m)

-----------------------------------------------------------------------------
(***************************************************************************)
(* REQUEST: dhcp_hashpool_alloc_lease.                                     *)
(***************************************************************************)
\* Mutant: a renewal is acknowledged and the stored lease is not extended.
RenewNotStored(t, m, ip) ==
  LET mine == hash_find(t.leases, m)
  IN  /\ mine # Empty
      /\ mine.ip_address = ip
      /\ leases' = t.leases
      /\ ip_set' = t.ip_set
      /\ resp' = Ack(m, ip, LeaseTime)
      /\ Grant(m, ip, LeaseTime)

Renew(t, m, ip) ==
  LET mine == hash_find(t.leases, m)
  IN  /\ mine # Empty
      /\ mine.ip_address = ip
      /\ leases' = [t.leases EXCEPT !.bucket[StopsAt(t.leases, m)].expire_time = clk + LeaseTime]
      /\ ip_set' = t.ip_set
      /\ resp' = Ack(m, ip, LeaseTime)
      /\ Grant(m, ip, LeaseTime)

\* Mutant: a lease is made for an address that is in use.
MayAllocateHeld(t, m, ip) == hash_find(t.leases, m) = Empty /\ ~Full(t.leases)

MayAllocate(t, m, ip) ==
  /\ hash_find(t.leases, m) = Empty
  /\ hash_find(t.ip_set, ip) = Empty
  /\ ~Full(t.leases)

Allocate(t, m, ip) ==
  /\ MayAllocate(t, m, ip)
  /\ InsertSucceeds(t.leases, NewLease(m, ip))
  /\ InsertSucceeds(t.ip_set, [key |-> ip])
  /\ leases' = hash_insert(t.leases, NewLease(m, ip))
  /\ ip_set' = hash_insert(t.ip_set, [key |-> ip])
  /\ resp' = Ack(m, ip, LeaseTime)
  /\ Grant(m, ip, LeaseTime)

\* The table of leases after an insertion that ip_set did not follow.
RolledBack(t, m, ip) ==
  IF MayAllocate(t, m, ip) /\ InsertSucceeds(t.leases, NewLease(m, ip))
  THEN hash_delete(hash_insert(t.leases, NewLease(m, ip)), m)
  ELSE t.leases

Refuse(t, m, ip) ==
  LET mine == hash_find(t.leases, m)
  IN  /\ mine # Empty => mine.ip_address # ip
      /\ MayAllocate(t, m, ip) => \/ ~InsertSucceeds(t.leases, NewLease(m, ip))
                                  \/ ~InsertSucceeds(t.ip_set, [key |-> ip])
      /\ leases' = RolledBack(t, m, ip)
      /\ ip_set' = t.ip_set
      /\ resp' = Nak(m)
      /\ UNCHANGED left

InPool(m, ip) ==
  LET t == SweptTables
  IN  Renew(t, m, ip) \/ Allocate(t, m, ip) \/ Refuse(t, m, ip)

OutsidePool(m, ip) ==
  /\ resp' = Nak(m)
  /\ UNCHANGED <<leases, ip_set, left>>

Request(m, ip) ==
  /\ UNCHANGED <<clk, turned, next_ip>>
  /\ \/ ip \in Pool /\ InPool(m, ip)
     \/ ip \notin Pool /\ OutsidePool(m, ip)

-----------------------------------------------------------------------------
\* DECLINE: dhcp_hashpool_decline_lease.
Decline(m) ==
  LET mine == hash_find(leases, m)
      t == IF mine = Empty THEN [leases |-> leases, ip_set |-> ip_set]
           ELSE Drop(leases, ip_set, mine)
  IN  /\ leases' = t.leases
      /\ ip_set' = t.ip_set
      /\ GiveUp(m)
      /\ resp' = NoReply
      /\ UNCHANGED <<clk, turned, next_ip>>

\* A message of another type, or a REQUEST without the Requested IP option.
Ignore ==
  /\ resp' = NoReply
  /\ UNCHANGED <<clk, turned, left, leases, ip_set, next_ip>>

Tick ==
  /\ Second
  /\ UNCHANGED poolVars

Next ==
  \/ Tick
  \/ Ignore
  \/ \E m \in Macs : Discover(m) \/ Decline(m)
  \/ \E m \in Macs, ip \in Requested : Request(m, ip)

Spec == Init /\ [][Next]_vars

-----------------------------------------------------------------------------
TypeOK ==
  /\ ServerTypeOK
  /\ leases \in [hash : {MacHash}, bucket : [Buckets -> Lease \cup {Empty}], elem_cnt : 0 .. max_leases]
  /\ ip_set \in [hash : {IpHash}, bucket : [Buckets -> Address \cup {Empty}], elem_cnt : 0 .. max_leases]
  /\ next_ip \in Pool

InUse == {leases.bucket[i] : i \in {j \in Buckets : Occupied(leases, j)}}

(***************************************************************************)
(* The two tables agree: each lease is found by its MAC, no two leases     *)
(* share an address, and ip_set finds exactly the addresses of the leases  *)
(* (the sweep and decline_lease delete from both, alloc_lease inserts into *)
(* both).                                                                  *)
(***************************************************************************)
TablesAgree ==
  /\ \A l \in InUse : hash_find(leases, l.key) = l
  /\ \A l, k \in InUse : l.ip_address = k.ip_address => l = k
  /\ {ip \in Pool : hash_find(ip_set, ip) # Empty} = {l.ip_address : l \in InUse}
  /\ leases.elem_cnt = Cardinality(InUse)
  /\ ip_set.elem_cnt = Cardinality(InUse)

(***************************************************************************)
(* A lease that still runs is found in the table, and the clock has to run *)
(* for at least the time the client has left before a sweep may take it.   *)
(***************************************************************************)
RunningLeaseKept ==
  \A m \in Macs, ip \in Pool : Live(m, ip) =>
    LET l == hash_find(leases, m)
    IN  /\ l # Empty
        /\ l.ip_address = ip
        /\ l.expire_time >= clk + left[m][ip]

(***************************************************************************)
(* Although a sweep removes at most SweepMax leases, one that has run out  *)
(* makes room: up to the first turn of the clock, and with at least as     *)
(* many addresses as leases, a DISCOVER goes unanswered only if every      *)
(* lease in the table still runs.                                          *)
(***************************************************************************)
RunOutLeaseMakesRoom ==
  [][\A m \in Macs : Discover(m) /\ resp' = NoReply /\ turned = 0 /\ max_leases <= RangeSize =>
       \A l \in InUse : Live(l.key, l.ip_address)]_vars

-----------------------------------------------------------------------------
\* The lease of each client, wherever its bucket is.
LeaseOf ==
  [m \in Macs |->
     LET mine == {i \in Buckets : Occupied(leases, i) /\ leases.bucket[i].key = m}
     IN  IF mine = {} THEN [ip |-> 0, expire |-> 0]
         ELSE [ip |-> leases.bucket[Min(mine)].ip_address,
               expire |-> leases.bucket[Min(mine)].expire_time]]

Service == INSTANCE LeaseService WITH lease <- LeaseOf

(***************************************************************************)
(* The two hash tables with their bounded sweep and their rollback behave  *)
(* as a table of one lease per client (every handler of                    *)
(* dhcp_process_message_hashmap).                                          *)
(***************************************************************************)
ImplementsLeases == Service!Spec
=============================================================================
