---------------------------- MODULE LeaseService ----------------------------
(***************************************************************************)
(* What the two back ends that know their clients promise, ARRAY and       *)
(* HASHMAP: at most one lease per client, on an address no other client    *)
(* has.  How leases are stored, when those that have run out are dropped   *)
(* and which free address is offered is left open.                         *)
(***************************************************************************)
EXTENDS DhcpServer

VARIABLE lease    \* lease[m]: the lease of m, or NoLease

NoLease == [ip |-> 0, expire |-> 0]

Held(t, ip) == \E m \in Macs : t[m].ip = ip

\* The tables that dropping some leases that have run out can leave.
Reclaimed ==
  LET old == {m \in Macs : lease[m] # NoLease /\ lease[m].expire <= clk}
  IN  {[m \in Macs |-> IF m \in gone THEN NoLease ELSE lease[m]] : gone \in SUBSET old}

Init ==
  /\ ServerInit
  /\ lease = [m \in Macs |-> NoLease]

\* A holder is offered its own address, another client a free one or nothing.
Discover(m) ==
  /\ \/ resp' = NoReply /\ lease'[m] = NoLease
     \/ \E ip \in Pool :
           /\ resp' = Offer(m, ip, LeaseTime)
           /\ lease'[m].ip = ip \/ (lease'[m] = NoLease /\ ~Held(lease', ip))
  /\ lease' \in Reclaimed
  /\ UNCHANGED <<clk, turned, left>>

\* A holder's lease is extended, another client gets a lease on a free address.
Accept(m, ip) ==
  /\ ip \in Pool
  /\ resp' = Ack(m, ip, LeaseTime)
  /\ Grant(m, ip, LeaseTime)
  /\ \E t \in Reclaimed :
        /\ t[m].ip = ip \/ (t[m] = NoLease /\ ~Held(t, ip))
        /\ lease' = [t EXCEPT ![m] = [ip |-> ip, expire |-> clk + LeaseTime]]
  /\ UNCHANGED <<clk, turned>>

\* Never to a client that asks for the address it has.
Reject(m, ip) ==
  /\ resp' = Nak(m)
  /\ ip \in Pool => lease'[m].ip # ip
  /\ lease' \in Reclaimed
  /\ UNCHANGED <<clk, turned, left>>

Decline(m) ==
  /\ resp' = NoReply
  /\ GiveUp(m)
  /\ lease' = [lease EXCEPT ![m] = NoLease]
  /\ UNCHANGED <<clk, turned>>

Ignore ==
  /\ resp' = NoReply
  /\ UNCHANGED <<clk, turned, left, lease>>

Tick ==
  /\ Second
  /\ UNCHANGED lease

Next ==
  \/ Tick
  \/ Ignore
  \/ \E m \in Macs : Discover(m) \/ Decline(m)
  \/ \E m \in Macs, ip \in Requested : Accept(m, ip) \/ Reject(m, ip)

Spec == Init /\ [][Next]_<<clk, turned, left, resp, lease>>
=============================================================================
