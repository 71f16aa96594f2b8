----------------------------- MODULE ArrayPool ------------------------------
(***************************************************************************)
(* The ARRAY back end (dhcp_array.c) under dhcp_process_message_array:     *)
(* a flat table of leases keyed by MAC, with a round-robin search for the  *)
(* next address to offer.  Expired leases are swept only when the table is *)
(* full.                                                                   *)
(***************************************************************************)
EXTENDS DhcpServer, FiniteSetsExt

CONSTANT MaxLeases    \* max_leases, the length of the caller's array

ASSUME MaxLeasesAssumption == MaxLeases \in Nat \ {0}

VARIABLES
  leases,        \* the array, indexed from 0
  lease_count,   \* the number of leases in use, kept by hand
  next_ip        \* where the next search starts

poolVars == <<leases, lease_count, next_ip>>

vars == <<clk, turned, left, resp, leases, lease_count, next_ip>>

Slots == 0 .. (MaxLeases - 1)

Lease == [in_use : BOOLEAN, ip_address : Pool \cup {0},
          mac_address : Macs \cup {NoMac}, expire_time : Nat]

\* The other fields of a slot that is not in use are never read.
FreeSlot == [in_use |-> FALSE, ip_address |-> 0, mac_address |-> NoMac, expire_time |-> 0]

Init ==
  /\ ServerInit
  /\ leases = [i \in Slots |-> FreeSlot]
  /\ lease_count = 0
  /\ next_ip = PoolStart

-----------------------------------------------------------------------------
(***************************************************************************)
(* dhcp_arraypool_cleanup_expire_lease, run by both searches when the      *)
(* table is full: the table and the count the rest of the handler sees.    *)
(***************************************************************************)
Full(count) == count >= MaxLeases

\* Mutant: the sweep takes a lease in its last second.
ExpiredEarly == {i \in Slots : leases[i].in_use /\ leases[i].expire_time <= clk + 1}

\* Mutant: the sweep spares a lease in the second in which it runs out.
ExpiredLate == {i \in Slots : leases[i].in_use /\ leases[i].expire_time < clk}

Expired == {i \in Slots : leases[i].in_use /\ leases[i].expire_time <= clk}

Swept == IF Full(lease_count) THEN Expired ELSE {}

SweptTable == [i \in Slots |-> IF i \in Swept THEN FreeSlot ELSE leases[i]]

SweptCount == lease_count - Cardinality(Swept)

\* Mutant: find_lease compares the MACs of the slots that are not in use.
SlotsOfUnused(t, m) == {i \in Slots : ~t[i].in_use /\ t[i].mac_address = m}

\* dhcp_arraypool_find_lease: the slots of m in table t.
SlotsOf(t, m) == {i \in Slots : t[i].in_use /\ t[i].mac_address = m}

Holds(t, ip) == \E i \in Slots : t[i].in_use /\ t[i].ip_address = ip

-----------------------------------------------------------------------------
(***************************************************************************)
(* DISCOVER: dhcp_arraypool_find_available_ip.                             *)
(***************************************************************************)
\* The address k steps after next_ip, going round the pool.
Probe(k) == PoolStart + ((next_ip - PoolStart + k) % RangeSize)

\* Mutant: the search takes the next address without a look at the table.
AnyStep(t) == 0 .. (RangeSize - 1)

\* The number of steps to the addresses that no lease of t holds.
FreeSteps(t) == {k \in 0 .. (RangeSize - 1) : ~Holds(t, Probe(k))}

OfferOwn(t, m) ==
  LET mine == SlotsOf(t, m)
  IN  /\ mine # {}
      /\ resp' = Offer(m, t[Min(mine)].ip_address, LeaseTime)
      /\ UNCHANGED next_ip

OfferNext(t, m) ==
  LET steps == FreeSteps(t)
  IN  /\ SlotsOf(t, m) = {}
      /\ ~Full(SweptCount)
      /\ steps # {}
      /\ resp' = Offer(m, Probe(Min(steps)), LeaseTime)
      /\ next_ip' = Probe(Min(steps) + 1)

\* A fruitless search goes once round the pool and leaves next_ip where it was.
OfferNothing(t, m) ==
  /\ SlotsOf(t, m) = {}
  /\ Full(SweptCount) \/ FreeSteps(t) = {}
  /\ resp' = NoReply
  /\ UNCHANGED next_ip

Discover(m) ==
  LET t == SweptTable
  IN  /\ UNCHANGED <<clk, turned, left>>
      /\ leases' = t
      /\ lease_count' = SweptCount
      /\ OfferOwn(t, m) \/ OfferNext(t, m) \/ OfferNothing(t, m)

-----------------------------------------------------------------------------
(***************************************************************************)
(* REQUEST: dhcp_arraypool_alloc_lease.  Its loop leaves early, after an   *)
(* occupied slot, once it has met a match and a free slot; only the slots  *)
(* it has visited count.                                                   *)
(***************************************************************************)
Matches(l, m, ip) == l.in_use /\ (l.mac_address = m \/ l.ip_address = ip)

\* Mutant: the loop stops at an occupied slot once it has a free slot.
BreaksWithoutMatch(t, m, ip, j) ==
  /\ t[j].in_use
  /\ \E i \in Slots : i <= j /\ ~t[i].in_use

Breaks(t, m, ip, j) ==
  /\ t[j].in_use
  /\ \E i \in Slots : i <= j /\ Matches(t[i], m, ip)
  /\ \E i \in Slots : i <= j /\ ~t[i].in_use

Visited(t, m, ip) == {i \in Slots : \A j \in Slots : j < i => ~Breaks(t, m, ip, j)}

MacMatch(t, m, ip) == {i \in Visited(t, m, ip) : t[i].in_use /\ t[i].mac_address = m}

\* Mutant: alloc_lease does not look for another holder of the address.
IpUnchecked(t, m, ip) == {}

IpMatch(t, m, ip) == {i \in Visited(t, m, ip) : t[i].in_use /\ t[i].ip_address = ip}

FreeMatch(t, m, ip) == {i \in Visited(t, m, ip) : ~t[i].in_use}

NewLease(m, ip) == [in_use |-> TRUE, ip_address |-> ip, mac_address |-> m,
                    expire_time |-> clk + LeaseTime]

\* Mutant: a renewal is acknowledged and the stored lease is not extended.
RenewNotStored(t, m, ip) ==
  LET mine == MacMatch(t, m, ip)
  IN  /\ mine # {}
      /\ t[Max(mine)].ip_address = ip
      /\ leases' = t
      /\ lease_count' = SweptCount
      /\ resp' = Ack(m, ip, LeaseTime)
      /\ Grant(m, ip, LeaseTime)

\* The MAC has a lease on this address: it is extended.  The last match counts.
Renew(t, m, ip) ==
  LET mine == MacMatch(t, m, ip)
  IN  /\ mine # {}
      /\ t[Max(mine)].ip_address = ip
      /\ leases' = [t EXCEPT ![Max(mine)].expire_time = clk + LeaseTime]
      /\ lease_count' = SweptCount
      /\ resp' = Ack(m, ip, LeaseTime)
      /\ Grant(m, ip, LeaseTime)

\* The MAC and the address are new and there is a slot.
Allocate(t, m, ip) ==
  LET free == FreeMatch(t, m, ip)
  IN  /\ MacMatch(t, m, ip) = {}
      /\ IpMatch(t, m, ip) = {}
      /\ free # {}
      /\ leases' = [t EXCEPT ![Min(free)] = NewLease(m, ip)]
      /\ lease_count' = SweptCount + 1
      /\ resp' = Ack(m, ip, LeaseTime)
      /\ Grant(m, ip, LeaseTime)

\* The MAC has another address, or the address another MAC, or the table is full.
Refuse(t, m, ip) ==
  LET mine == MacMatch(t, m, ip)
  IN  /\ \/ mine # {} /\ t[Max(mine)].ip_address # ip
         \/ mine = {} /\ IpMatch(t, m, ip) # {}
         \/ mine = {} /\ FreeMatch(t, m, ip) = {}
      /\ leases' = t
      /\ lease_count' = SweptCount
      /\ resp' = Nak(m)
      /\ UNCHANGED left

InPool(m, ip) ==
  LET t == SweptTable
  IN  Renew(t, m, ip) \/ Allocate(t, m, ip) \/ Refuse(t, m, ip)

OutsidePool(m, ip) ==
  /\ resp' = Nak(m)
  /\ UNCHANGED <<leases, lease_count, left>>

Request(m, ip) ==
  /\ UNCHANGED <<clk, turned, next_ip>>
  /\ \/ ip \in Pool /\ InPool(m, ip)
     \/ ip \notin Pool /\ OutsidePool(m, ip)

-----------------------------------------------------------------------------
(***************************************************************************)
(* DECLINE: dhcp_arraypool_decline_lease frees the lease of the MAC; the   *)
(* address is not remembered as declined.                                  *)
(***************************************************************************)
\* Mutant: lease_count is decremented although the MAC has no lease.
DeclineLeaseUncounted(m) ==
  LET mine == SlotsOf(leases, m)
  IN  /\ leases' = IF mine = {} THEN leases ELSE [leases EXCEPT ![Min(mine)] = FreeSlot]
      /\ lease_count' = lease_count - 1
      /\ resp' = NoReply
      /\ UNCHANGED <<clk, turned, next_ip>>

\* Mutant: the first lease in the table is freed, whoever has it.
DeclineLeaseFirst(m) ==
  LET used == {i \in Slots : leases[i].in_use}
  IN  /\ IF used = {}
         THEN UNCHANGED <<leases, lease_count>>
         ELSE /\ leases' = [leases EXCEPT ![Min(used)] = FreeSlot]
              /\ lease_count' = lease_count - 1
      /\ resp' = NoReply
      /\ UNCHANGED <<clk, turned, next_ip>>

DeclineLease(m) ==
  LET mine == SlotsOf(leases, m)
  IN  /\ IF mine = {}
         THEN UNCHANGED <<leases, lease_count>>
         ELSE /\ leases' = [leases EXCEPT ![Min(mine)] = FreeSlot]
              /\ lease_count' = lease_count - 1
      /\ resp' = NoReply
      /\ UNCHANGED <<clk, turned, next_ip>>

\* A client that declines has stopped using its address, and asks for another afterwards.
Decline(m) == DeclineLease(m) /\ GiveUp(m)

\* A message of another type, or a REQUEST without the Requested IP option.
Ignore ==
  /\ resp' = NoReply
  /\ UNCHANGED <<clk, turned, left, leases, lease_count, next_ip>>

Tick ==
  /\ Second
  /\ UNCHANGED poolVars

Next ==
  \/ Tick
  \/ Ignore
  \/ \E m \in Macs : Discover(m) \/ Decline(m)
  \/ \E m \in Macs, ip \in Requested : Request(m, ip)

Spec == Init /\ [][Next]_vars

-----------------------------------------------------------------------------
TypeOK ==
  /\ ServerTypeOK
  /\ leases \in [Slots -> Lease]
  /\ lease_count \in 0 .. MaxLeases
  /\ next_ip \in Pool

InUse == {i \in Slots : leases[i].in_use}

(***************************************************************************)
(* The table is one-to-one: no MAC and no address is in two leases, every  *)
(* lease is on an address of the pool, and lease_count, adjusted by hand   *)
(* in three places of dhcp_array.c, is the number of slots in use (the     *)
(* sweep and the refusals depend on it).                                   *)
(***************************************************************************)
TableConsistent ==
  /\ \A i, j \in InUse :
        \/ leases[i].mac_address = leases[j].mac_address
        \/ leases[i].ip_address = leases[j].ip_address
        => i = j
  /\ \A i \in InUse : leases[i].ip_address \in Pool
  /\ lease_count = Cardinality(InUse)

(***************************************************************************)
(* A lease that still runs is in the table, and the clock has to run for   *)
(* at least the time the client has left before the sweep may take it,     *)
(* whether or not the clock starts again from 0 in between.                *)
(***************************************************************************)
RunningLeaseKept ==
  \A m \in Macs, ip \in Pool : Live(m, ip) =>
    \E i \in InUse : /\ leases[i].mac_address = m
                     /\ leases[i].ip_address = ip
                     /\ leases[i].expire_time >= clk + left[m][ip]

(***************************************************************************)
(* A client whose lease still runs is offered the same address again and   *)
(* has its REQUEST for it acknowledged, so a retry after a lost OFFER or   *)
(* ACK succeeds (the existing-lease branches of both searches).            *)
(***************************************************************************)
HolderServed ==
  [][\A m \in Macs, ip \in Pool : Live(m, ip) =>
       /\ Discover(m) => resp' = Offer(m, ip, LeaseTime)
       /\ Request(m, ip) => resp' = Ack(m, ip, LeaseTime)]_vars

(***************************************************************************)
(* Per-lease expiry, up to the first turn of the clock and with at least   *)
(* as many addresses as slots: a DISCOVER goes unanswered only if every    *)
(* lease in the table still runs, since one that has run out makes room.   *)
(***************************************************************************)
RunOutLeaseMakesRoom ==
  [][\A m \in Macs : Discover(m) /\ resp' = NoReply /\ turned = 0 /\ MaxLeases <= RangeSize =>
       \A i \in InUse : Live(leases[i].mac_address, leases[i].ip_address)]_vars

(***************************************************************************)
(* The same for any table and any time: an expire_time is "absolute", so a *)
(* lease that has run out never keeps a client from an address.            *)
(***************************************************************************)
ExpiryIsAbsolute ==
  [][\A m \in Macs : Discover(m) /\ resp' = NoReply =>
       \A i \in InUse : Live(leases[i].mac_address, leases[i].ip_address)]_vars

-----------------------------------------------------------------------------
\* The lease of each client, wherever its slot is.
LeaseOf ==
  [m \in Macs |->
     LET mine == SlotsOf(leases, m)
     IN  IF mine = {} THEN [ip |-> 0, expire |-> 0]
         ELSE [ip |-> leases[Min(mine)].ip_address, expire |-> leases[Min(mine)].expire_time]]

Service == INSTANCE LeaseService WITH lease <- LeaseOf

(***************************************************************************)
(* The array with its sweep, its count and its search with an early exit   *)
(* behaves as a table of one lease per client (every handler of            *)
(* dhcp_process_message_array).                                            *)
(***************************************************************************)
ImplementsLeases == Service!Spec
=============================================================================
