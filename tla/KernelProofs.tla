---------------------------- MODULE KernelProofs ----------------------------
(***************************************************************************)
(* Proofs about the kernel's polling loop, for any clients, addresses,     *)
(* table, frames and length of the options area.  By WireProofs the back   *)
(* end does what the sender of a frame asks for; by ArrayPoolProofs its    *)
(* table then answers for the leases that no late DECLINE has freed.       *)
(***************************************************************************)
EXTENDS WireProofs, ArrayPoolProofs

-----------------------------------------------------------------------------
(***************************************************************************)
(* The inductive invariant: the types, the job done for the last frame is  *)
(* the one its sender asked for, and the table answers for the leases that *)
(* no late DECLINE has freed.                                              *)
(***************************************************************************)
KInv == KernelTypeOK /\ ActsOnOwnFrame /\ InvBut(late)

\* What ArrayPoolProofs shows of a step is the table's part of the invariant.
LEMMA TableNext == PartsNext(late') => InvBut(late)' /\ TypeOK'
BY DEF PartsNext, KeepsNext, InvBut, KeepsBut, OneToOne, PoolOnly, UsedIn

\* The invariant holds at the start.
LEMMA InitKInv == KernelInit => KInv
<1> SUFFICES ASSUME KernelInit PROVE KInv
  OBVIOUS
<1>1. Init /\ late = {} /\ declines = {} /\ meant = NoJob /\ handled = NoJob /\ FrameBuffer \in Noise
  BY Zenon DEF KernelInit
<1>2. InvBut({}) /\ TypeOK
  BY <1>1, InitIInv, NoneLost, Zenon DEF IInv
<1>3. FrameBuffer \in [Places -> Bytes]
  BY <1>1, KernelAssumption, Zenon
<1>4. NoJob \in Jobs
  BY DEF NoJob, Job, Jobs
<1>5. QED
  BY <1>1, <1>2, <1>3, <1>4, Zenon DEF KInv, KernelTypeOK, ActsOnOwnFrame

\* The parts of the invariant that the steps start from.
LEMMA KInvParts ==
  ASSUME KInv
  PROVE  /\ left \in [Macs -> [Pool -> Nat]] /\ InvBut(late) /\ FrameBuffer \in Areas
         /\ meant = handled /\ meant \in Jobs /\ declines \subseteq Macs /\ late \subseteq Macs \X Pool
BY Zenon DEF KInv, KernelTypeOK, ActsOnOwnFrame, TypeOK, ServerTypeOK, Areas

\* The parts that a step in which a frame is handled establishes.
LEMMA FramePartsSuffice ==
  ASSUME NEW job \in Jobs, FrameBuffer' \in Areas, meant' = job, handled' = job,
         PartsNext(late'), declines' \subseteq Macs, late' \subseteq Macs \X Pool
  PROVE  KInv'
<1>1. TypeOK' /\ InvBut(late)'
  BY TableNext, Zenon
<1>2. KernelTypeOK'
  BY <1>1, Zenon DEF KernelTypeOK, Areas
<1>3. ActsOnOwnFrame'
  BY Zenon DEF ActsOnOwnFrame
<1>4. QED
  BY <1>1, <1>2, <1>3, Zenon DEF KInv

-----------------------------------------------------------------------------
\* After an ACK the lease is in the table, whatever has freed it before.
Counted == late' = IF resp'.type = "ACK" THEN late \ {<<resp'.mac, resp'.ip>>} ELSE late

\* A REQUEST for whatever address keeps the table's part.
LEMMA RequestKept ==
  ASSUME InvBut(late), NEW m \in Macs, NEW ip, Request(m, ip), Counted
  PROVE  PartsNext(late')
<1>1. PartsNext(IF resp'.type = "ACK" THEN late \ {<<m, ip>>} ELSE late)
  BY RequestStep, Zenon
<1>2. resp' = Ack(m, ip, LeaseTime) \/ resp' = Nak(m)
  BY Zenon DEF Request, InPool, OutsidePool, Renew, Allocate, Refuse
<1>3. resp'.type = "ACK" => resp'.mac = m /\ resp'.ip = ip
  BY <1>2 DEF Ack, Nak
<1>4. late' = IF resp'.type = "ACK" THEN late \ {<<m, ip>>} ELSE late
  BY <1>3, Zenon DEF Counted
<1>5. QED
  BY <1>1, <1>4, Zenon

\* A DISCOVER keeps it.
LEMMA DiscoverKept ==
  ASSUME InvBut(late), NEW m \in Macs, Discover(m), Counted
  PROVE  PartsNext(late')
<1>1. resp'.type # "ACK"
  <2>1. resp' = NoReply \/ \E ip : resp' = Offer(m, ip, LeaseTime)
    BY Zenon DEF Discover, OfferOwn, OfferNext, OfferNothing
  <2>2. QED
    BY <2>1 DEF NoReply, Offer
<1>2. late' = late
  BY <1>1, Zenon DEF Counted
<1>3. QED
  BY <1>2, DiscoverStep, Zenon

\* So does what is not answered.
LEMMA IgnoreKept ==
  ASSUME InvBut(late), left \in [Macs -> [Pool -> Nat]], Ignore, Counted
  PROVE  PartsNext(late')
<1>1. UNCHANGED <<clk, turned, leases, lease_count, next_ip>> /\ left' = left /\ resp' = NoReply
  BY Zenon DEF Ignore
<1>2. resp'.type # "ACK"
  BY <1>1 DEF NoReply
<1>3. late' = late
  BY <1>2, Zenon DEF Counted
<1>4. Spared(late, late)
  BY <1>1, SparedSame
<1>5. QED
  BY <1>1, <1>3, <1>4, IdleStep, Zenon

\* A DECLINE that is handled: whatever its sender has by then is lost.
LEMMA DeclineKept ==
  ASSUME InvBut(late), left \in [Macs -> [Pool -> Nat]], NEW m \in Macs, DeclineLease(m),
         UNCHANGED left, late' = late \cup {l \in {m} \X Pool : Live(l[1], l[2])}
  PROVE  PartsNext(late')
<1> DEFINE after == late \cup {l \in {m} \X Pool : Live(l[1], l[2])}
<1>1. \A ip \in Pool : Live(m, ip) => <<m, ip>> \in after
  OBVIOUS
<1>2. late \subseteq after
  OBVIOUS
<1> HIDE DEF after
<1>3. \A n, ip : Live(n, ip)' <=> Live(n, ip)
  BY Zenon DEF Live
<1>4. Spared(late, after)
  BY <1>2, <1>3 DEF Spared
<1>5. PartsNext(after)
  BY <1>1, <1>3, <1>4, DeclineStep, Zenon
<1>6. QED
  BY <1>5, Zenon DEF after

\* A client that gives up its addresses has none that is kept for it.
LEMMA SendDeclineKept ==
  ASSUME InvBut(late), left \in [Macs -> [Pool -> Nat]], NEW m \in Macs, SendDecline(m)
  PROVE  PartsNext(late')
<1>1. /\ left' = [left EXCEPT ![m] = [ip \in Pool |-> 0]] /\ late' = {l \in late : l[1] # m}
      /\ UNCHANGED <<clk, turned, resp, leases, lease_count, next_ip>>
  BY Zenon DEF SendDecline, GiveUp, poolVars
<1> DEFINE after == {l \in late : l[1] # m}
<1>2. \A n, ip : <<n, ip>> \notin after /\ n # m => <<n, ip>> \notin late
  OBVIOUS
<1> HIDE DEF after
<1>3. left' \in [Macs -> [Pool -> Nat]]
  BY <1>1
<1>4. \A n \in Macs, ip \in Pool : Live(n, ip)' => n # m /\ left'[n][ip] = left[n][ip]
  BY <1>1 DEF Live
<1>5. Spared(late, after)
  BY <1>2, <1>3, <1>4 DEF Spared, Live
<1>6. PartsNext(after)
  BY <1>1, <1>5, IdleStep, Zenon
<1>7. QED
  BY <1>1, <1>6, Zenon DEF after

\* A second passes.
LEMMA TickKept ==
  ASSUME InvBut(late), Tick, late' = {l \in late : Elapsed[l[1]][l[2]] > 0}
  PROVE  PartsNext(late')
<1> DEFINE after == {l \in late : Elapsed[l[1]][l[2]] > 0}
<1>1. left' = Elapsed
  BY Zenon DEF Tick, Second
<1>2. \A n, ip : Elapsed[n][ip] > 0 /\ <<n, ip>> \notin after => <<n, ip>> \notin late
  OBVIOUS
<1> HIDE DEF after
<1>3. \A n \in Macs, ip \in Pool : Live(n, ip)' /\ <<n, ip>> \notin after => <<n, ip>> \notin late
  BY <1>1, <1>2, Zenon DEF Live
<1>4. PartsNext(after)
  BY <1>3, TickStep, Zenon
<1>5. QED
  BY <1>4, Zenon DEF after

\* What a sender asks for is a job for one of the clients.
LEMMA JobAsked ==
  ASSUME NEW f \in Frames, NEW type \in {DHCP_DISCOVER, DHCP_REQUEST, DHCP_DECLINE}, NEW ip \in Nat,
         Asks(f) = Job(type, f.chaddr, ip)
  PROVE  Asks(f) \in Jobs /\ f.chaddr \in Macs /\ Asks(f).type = type
<1>1. type # 0
  BY DEF DHCP_DISCOVER, DHCP_REQUEST, DHCP_DECLINE
<1>2. Asks(f).type = type /\ NoJob.type = 0
  BY DEF Job, NoJob
<1>3. f.chaddr \in Macs
  BY <1>1, <1>2, FrameAssumption, Zenon
<1>4. QED
  BY <1>2, <1>3 DEF Jobs, Job

\* A frame puts bytes into the buffer, and its sender is served.
LEMMA FrameHandled ==
  ASSUME KInv, NEW f \in Frames, Receive(f)
  PROVE  FrameBuffer' \in Areas /\ meant' = Asks(f) /\ handled' = Asks(f) /\ Served(f)
<1>1. FrameBuffer \in Areas
  BY Zenon DEF KInv, KernelTypeOK, Areas
<1>2. FrameBuffer' = ReceiveFrame(f) /\ Dispatch(f, FrameBuffer') /\ meant' = Asks(f)
  BY Zenon DEF Receive
<1>3. ReceiveFrame(f) \in Areas /\ Arrived(f, ReceiveFrame(f))
  BY <1>1, ReceivedArea, Zenon
<1>4. FrameBuffer' \in Areas /\ Arrived(f, FrameBuffer')
  BY <1>2, <1>3, Zenon
<1>5. QED
  BY <1>2, <1>4, SenderServed, Zenon

\* A frame that is no DECLINE keeps the invariant.
LEMMA ReceiveAnyStep ==
  ASSUME KInv, NEW f \in Frames, ReceiveAny(f)
  PROVE  KInv'
<1>1. Receive(f) /\ Counted /\ declines' = declines /\ Asks(f).type # DHCP_DECLINE
  BY Zenon DEF ReceiveAny, Counted
<1>2. FrameBuffer' \in Areas /\ meant' = Asks(f) /\ handled' = Asks(f) /\ Served(f)
  BY <1>1, FrameHandled, Zenon
<1>3. late' \subseteq Macs \X Pool
  <2>1. late' \subseteq late
    BY <1>1, Zenon DEF Counted
  <2>2. QED
    BY <2>1, KInvParts, Zenon
<1>4. Asks(f) \in Jobs /\ PartsNext(late')
  <2>1. CASE Asks(f) = NoJob /\ Ignore
    <3>1. NoJob \in Jobs
      BY DEF NoJob, Job, Jobs
    <3>2. QED
      BY <3>1, <2>1, <1>1, KInvParts, IgnoreKept, Zenon
  <2>2. CASE Asks(f) = Job(DHCP_DISCOVER, f.chaddr, 0) /\ Discover(f.chaddr)
    <3>1. 0 \in Nat
      OBVIOUS
    <3>2. Asks(f) \in Jobs /\ f.chaddr \in Macs
      BY <3>1, <2>2, JobAsked, Zenon
    <3>3. QED
      BY <3>2, <2>2, <1>1, KInvParts, DiscoverKept, Zenon
  <2>3. CASE \E ip \in Nat : Asks(f) = Job(DHCP_REQUEST, f.chaddr, ip) /\ Request(f.chaddr, ip)
    <3>1. PICK ip \in Nat : Asks(f) = Job(DHCP_REQUEST, f.chaddr, ip) /\ Request(f.chaddr, ip)
      BY <2>3, Zenon
    <3>2. Asks(f) \in Jobs /\ f.chaddr \in Macs
      BY <3>1, JobAsked, Zenon
    <3>3. QED
      BY <3>1, <3>2, <1>1, KInvParts, RequestKept, Zenon
  <2>4. CASE Asks(f) = Job(DHCP_DECLINE, f.chaddr, 0)
    <3>1. 0 \in Nat
      OBVIOUS
    <3>2. Asks(f).type = DHCP_DECLINE
      BY <3>1, <2>4, JobAsked, Zenon
    <3>3. QED
      BY <3>2, <1>1, Zenon
  <2>5. QED
    BY <2>1, <2>2, <2>3, <2>4, <1>2, Zenon DEF Served
<1>5. QED
  BY <1>1, <1>2, <1>3, <1>4, KInvParts, FramePartsSuffice, Zenon

\* A DECLINE keeps it, in time or late.
LEMMA ReceiveDeclineStep ==
  ASSUME KInv, NEW f \in Frames, ReceiveDecline(f)
  PROVE  KInv'
<1>1. /\ Receive(f) /\ Asks(f).type = DHCP_DECLINE
      /\ declines' \subseteq declines
      /\ late' = late \cup {l \in {f.chaddr} \X Pool : Live(l[1], l[2])}
  BY Zenon DEF ReceiveDecline
<1>2. FrameBuffer' \in Areas /\ meant' = Asks(f) /\ handled' = Asks(f) /\ Served(f)
  BY <1>1, FrameHandled, Zenon
<1>3. DHCP_DECLINE # 0 /\ DHCP_DECLINE # DHCP_DISCOVER /\ DHCP_DECLINE # DHCP_REQUEST /\ 0 \in Nat
  BY DEF DHCP_DISCOVER, DHCP_REQUEST, DHCP_DECLINE
<1>4. Asks(f) = Job(DHCP_DECLINE, f.chaddr, 0) /\ DeclineLease(f.chaddr) /\ UNCHANGED left
  <2>1. Asks(f) # NoJob
    <3>1. NoJob.type = 0
      BY DEF NoJob, Job
    <3>2. QED
      BY <3>1, <1>1, <1>3, Zenon
  <2>2. Asks(f) # Job(DHCP_DISCOVER, f.chaddr, 0)
    BY <1>1, <1>3, JobAsked, Zenon
  <2>3. \A ip \in Nat : Asks(f) # Job(DHCP_REQUEST, f.chaddr, ip)
    BY <1>1, <1>3, JobAsked, Zenon
  <2>4. QED
    BY <2>1, <2>2, <2>3, <1>2, Zenon DEF Served
<1>5. Asks(f) \in Jobs /\ f.chaddr \in Macs
  BY <1>3, <1>4, JobAsked, Zenon
<1>6. PartsNext(late')
  BY <1>1, <1>4, <1>5, KInvParts, DeclineKept, Zenon
<1>7. late' \subseteq Macs \X Pool
  <2>1. {f.chaddr} \X Pool \subseteq Macs \X Pool
    BY <1>5
  <2>2. QED
    BY <2>1, <1>1, KInvParts, Zenon
<1>8. declines' \subseteq Macs
  BY <1>1, KInvParts, Zenon
<1>9. QED
  BY <1>2, <1>5, <1>6, <1>7, <1>8, FramePartsSuffice, Zenon

\* A client that gives up its addresses keeps it.
LEMMA SendDeclineStep ==
  ASSUME KInv, NEW m \in Macs, SendDecline(m)
  PROVE  KInv'
<1>1. PartsNext(late')
  BY KInvParts, SendDeclineKept, Zenon
<1>2. /\ declines' = declines \cup {m} /\ late' = {l \in late : l[1] # m}
      /\ FrameBuffer' = FrameBuffer /\ meant' = meant /\ handled' = handled
  BY Zenon DEF SendDecline
<1>3. late' \subseteq Macs \X Pool /\ declines' \subseteq Macs
  BY <1>2, KInvParts, Zenon
<1>4. FrameBuffer' \in Areas /\ meant \in Jobs /\ meant' = meant /\ handled' = meant
  BY <1>2, KInvParts, Zenon
<1>5. QED
  BY <1>1, <1>3, <1>4, FramePartsSuffice, Zenon

\* A second keeps it.
LEMMA KernelTickStep ==
  ASSUME KInv, KernelTick
  PROVE  KInv'
<1>1. /\ Tick /\ late' = {l \in late : Elapsed[l[1]][l[2]] > 0}
      /\ handled' = NoJob /\ meant' = NoJob /\ FrameBuffer' = FrameBuffer /\ declines' = declines
  BY Zenon DEF KernelTick, Handle
<1>2. PartsNext(late')
  BY <1>1, KInvParts, TickKept, Zenon
<1>3. NoJob \in Jobs
  BY DEF NoJob, Job, Jobs
<1>4. late' \subseteq Macs \X Pool
  <2>1. late' \subseteq late
    BY <1>1, Zenon
  <2>2. QED
    BY <2>1, KInvParts, Zenon
<1>5. FrameBuffer' \in Areas /\ declines' \subseteq Macs
  BY <1>1, KInvParts, Zenon
<1>6. QED
  BY <1>1, <1>2, <1>3, <1>4, <1>5, FramePartsSuffice, Zenon

\* Every step of the kernel keeps the invariant.
LEMMA NextKInv == KInv /\ [KernelNext]_kernelVars => KInv'
<1> SUFFICES ASSUME KInv, [KernelNext]_kernelVars PROVE KInv'
  OBVIOUS
<1>1. CASE KernelTick
  BY <1>1, KernelTickStep, Zenon
<1>2. ASSUME NEW m \in Macs, SendDecline(m) PROVE KInv'
  BY <1>2, SendDeclineStep, Zenon
<1>3. ASSUME NEW f \in Frames, ReceiveAny(f) \/ ReceiveDecline(f) PROVE KInv'
  BY <1>3, ReceiveAnyStep, ReceiveDeclineStep, Zenon
<1>4. CASE UNCHANGED kernelVars
  <2>1. /\ UNCHANGED <<clk, turned, left, resp, leases, lease_count, next_ip>>
        /\ UNCHANGED <<FrameBuffer, meant, handled, declines, late>>
    BY <1>4, Zenon DEF kernelVars, vars
  <2>2. Spared(late, late)
    BY <2>1, KInvParts, SparedSame
  <2>3. PartsNext(late)
    BY <2>1, <2>2, KInvParts, IdleStep, Zenon
  <2>4. PartsNext(late')
    BY <2>1, <2>3, Zenon
  <2>5. /\ FrameBuffer' \in Areas /\ meant \in Jobs /\ meant' = meant
        /\ handled' = meant /\ declines' \subseteq Macs /\ late' \subseteq Macs \X Pool
    BY <2>1, KInvParts, Zenon
  <2>6. QED
    BY <2>4, <2>5, FramePartsSuffice, Zenon
<1>5. QED
  BY <1>1, <1>2, <1>3, <1>4, Zenon DEF KernelNext

\* The invariant holds throughout.
LEMMA KInvAlways == KernelSpec => []KInv
BY InitKInv, NextKInv, PTL DEF KernelSpec

(***************************************************************************)
(* The variables keep their types for any frames that senders encode as    *)
(* they should (the assumption on Frames).                                 *)
(***************************************************************************)
THEOREM KernelTypeCorrect == KernelSpec => []KernelTypeOK
<1>1. KInv => KernelTypeOK
  BY Zenon DEF KInv
<1>2. QED
  BY <1>1, KInvAlways, PTL

(***************************************************************************)
(* Whatever an earlier frame has left in the buffer and in whatever order  *)
(* the options come, the back end acts on the message that the sender      *)
(* encoded, for a receive buffer of any length (CKernel::Run, hdrToMsg,    *)
(* dhcp_get_option).                                                       *)
(***************************************************************************)
THEOREM AlwaysActsOnOwnFrame == KernelSpec => []ActsOnOwnFrame
<1>1. KInv => ActsOnOwnFrame
  BY Zenon DEF KInv
<1>2. QED
  BY <1>1, KInvAlways, PTL

(***************************************************************************)
(* If two clients may use an address, a DECLINE that came late has freed   *)
(* the lease of one of them (dhcp_arraypool_decline_lease).                *)
(***************************************************************************)
THEOREM OnlyLateDeclinesHarm == KernelSpec => []OnlyLateDeclineHarms
<1>1. ASSUME KInv, NEW m1 \in Macs, NEW m2 \in Macs, NEW ip \in Pool, Live(m1, ip), Live(m2, ip),
             <<m1, ip>> \notin late, <<m2, ip>> \notin late
      PROVE  m1 = m2
  <2>1. KeepsBut(leases, late) /\ OneToOne(leases)
    BY <1>1, Zenon DEF KInv, InvBut
  <2>2. PICK i \in UsedIn(leases) : leases[i].mac_address = m1 /\ leases[i].ip_address = ip
    BY <1>1, <2>1 DEF KeepsBut
  <2>3. PICK j \in UsedIn(leases) : leases[j].mac_address = m2 /\ leases[j].ip_address = ip
    BY <1>1, <2>1 DEF KeepsBut
  <2>4. i = j
    BY <2>1, <2>2, <2>3, Zenon DEF OneToOne
  <2>5. QED
    BY <2>2, <2>3, <2>4, Zenon
<1>2. \A x, y : {x, y} \cap late = {} => x \notin late /\ y \notin late
  OBVIOUS
<1>3. KInv => OnlyLateDeclineHarms
  BY <1>1, <1>2, Zenon DEF OnlyLateDeclineHarms
<1>4. QED
  BY <1>3, KInvAlways, PTL

\* Every step leaves a reply that is as it should be.
LEMMA ReplyStep == KInv /\ ReplyProper /\ [KernelNext]_kernelVars => ReplyProper'
<1> SUFFICES ASSUME KInv, ReplyProper, [KernelNext]_kernelVars PROVE ReplyProper'
  OBVIOUS
<1>1. CASE KernelTick
  BY <1>1, Zenon DEF KernelTick, Tick, Second, ReplyProper
<1>2. ASSUME NEW m \in Macs, SendDecline(m) PROVE ReplyProper'
  <2>1. resp' = resp
    BY <1>2, Zenon DEF SendDecline
  <2>2. QED
    BY <2>1, Zenon DEF ReplyProper
<1>3. ASSUME NEW f \in Frames, ReceiveAny(f) \/ ReceiveDecline(f) PROVE ReplyProper'
  <2>1. Receive(f)
    BY <1>3, Zenon DEF ReceiveAny, ReceiveDecline
  <2>2. Served(f)
    BY <2>1, FrameHandled, Zenon
  <2>3. QED
    BY <2>2, ServedReply, Zenon
<1>4. CASE UNCHANGED kernelVars
  <2>1. resp' = resp
    BY <1>4, Zenon DEF kernelVars, vars
  <2>2. QED
    BY <2>1, Zenon DEF ReplyProper
<1>5. QED
  BY <1>1, <1>2, <1>3, <1>4, Zenon DEF KernelNext

(***************************************************************************)
(* The benchmark client reads from the bytes of every reply the type, the  *)
(* address and the server that the back end answered with, for a reply     *)
(* area of any length that has room for the options, any lease time and    *)
(* any mask, gateway and DNS server: what a byte that is 255 cuts off is   *)
(* behind the type and the server's address (dhcp_add_option, msgToHdr,    *)
(* parse_frame).                                                           *)
(***************************************************************************)
THEOREM RepliesUnderstood == KernelSpec => []ReplyUnderstood
<1>1. KernelInit => ReplyProper
  BY Zenon DEF KernelInit, Init, ServerInit, ReplyProper
<1>2. KernelSpec => []ReplyProper
  BY <1>1, KInvAlways, ReplyStep, PTL DEF KernelSpec
<1>3. KInv /\ ReplyProper => ReplyUnderstood
  <2>1. KInv => resp \in Replies
    BY Zenon DEF KInv, KernelTypeOK, TypeOK, ServerTypeOK
  <2>2. resp \in Replies => resp.lease \in Nat
    BY DEF Replies
  <2>3. QED
    BY <2>1, <2>2, ProperUnderstood, Zenon
<1>4. QED
  BY <1>2, <1>3, KInvAlways, PTL
=============================================================================
