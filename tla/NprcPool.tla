------------------------------ MODULE NprcPool ------------------------------
(***************************************************************************)
(* The NPRC back end (dhcp_nprc.c) under dhcp_process_message_nprc: a      *)
(* window of BitmapSize addresses slides over the pool.  Addresses are     *)
(* offered in order and never again; a bit of the window tells whether the *)
(* address has been acknowledged.  No client and no expiry is recorded.    *)
(***************************************************************************)
EXTENDS DhcpServer, FiniteSetsExt

CONSTANT BitmapSize    \* BITMAP_SIZE, the bits of an unsigned long

ASSUME BitmapAssumption == BitmapSize \in Nat \ {0} /\ BitmapSize % 4 = 0

VARIABLES
  cache_base,   \* offset in the pool of bit 0 of the window
  offer_next,   \* the bit of the next address to offer
  ack_bitmap,   \* the bits that are set
  offered,      \* history: every address ever offered
  acked         \* history: every address ever acknowledged

vars == <<clk, turned, left, resp, cache_base, offer_next, ack_bitmap, offered, acked>>

BitmapFlush == BitmapSize \div 4

\* Mutant: the base moves and the bitmap does not.
ShiftNothing(bits, n) == bits

\* A bitmap shifted right by n.
ShiftRight(bits, n) == {b - n : b \in {c \in bits : c >= n}}

Init ==
  /\ ServerInit
  /\ cache_base = 0
  /\ offer_next = 0
  /\ ack_bitmap = {}
  /\ offered = {}
  /\ acked = {}

-----------------------------------------------------------------------------
\* Mutant: the flush comes one offer too late.
FlushedLate == IF offer_next > BitmapSize THEN BitmapFlush ELSE 0

\* Mutant: the flush empties the window.
FlushedAll == IF offer_next >= BitmapSize THEN BitmapSize ELSE 0

\* dhcp_nprc_find_available_ip: the bits dropped to make room in a full window.
Flushed == IF offer_next >= BitmapSize THEN BitmapFlush ELSE 0

\* Mutant: the address is computed from the base before the flush.
CandidateOldBase == PoolStart + cache_base + (offer_next - Flushed)

\* The sum of base and bit, hence the address, is the same after a flush.
Candidate == PoolStart + (cache_base + Flushed) + (offer_next - Flushed)

Discover(m) ==
  /\ cache_base' = cache_base + Flushed
  /\ ack_bitmap' = ShiftRight(ack_bitmap, Flushed)
  /\ \/ /\ Candidate > PoolEnd
        /\ offer_next' = offer_next - Flushed
        /\ resp' = NoReply
        /\ UNCHANGED offered
     \/ /\ Candidate <= PoolEnd
        /\ offer_next' = offer_next - Flushed + 1
        /\ resp' = Offer(m, Candidate, LeaseTime)
        /\ offered' = offered \cup {Candidate}
  /\ UNCHANGED <<clk, turned, left, acked>>

-----------------------------------------------------------------------------
\* dhcp_nprc_commit_ip.
LowerBound == PoolStart + cache_base

UpperBound == IF PoolStart + cache_base + offer_next - 1 > PoolEnd
              THEN PoolEnd ELSE PoolStart + cache_base + offer_next - 1

Offset(ip) == ip - PoolStart - cache_base

\* Mutant: commit does not test the bit.
CommittableAgain(ip) ==
  /\ ip >= LowerBound
  /\ ip <= UpperBound
  /\ Offset(ip) < BitmapSize

\* Mutant: commit accepts the address after the last one offered.
CommittableAhead(ip) ==
  /\ ip >= LowerBound
  /\ ip <= UpperBound + 1
  /\ Offset(ip) < BitmapSize
  /\ Offset(ip) \notin ack_bitmap

Committable(ip) ==
  /\ ip >= LowerBound
  /\ ip <= UpperBound
  /\ Offset(ip) < BitmapSize
  /\ Offset(ip) \notin ack_bitmap

\* The loop shifts out the run of set bits at the low end, while bits are in use.
Run(bits) == Min({n \in 0 .. offer_next : n \notin bits \/ n = offer_next})

Commit(m, ip) ==
  LET bits == ack_bitmap \cup {Offset(ip)}
      run == Run(bits)
  IN  /\ Committable(ip)
      /\ ack_bitmap' = ShiftRight(bits, run)
      /\ cache_base' = cache_base + run
      /\ offer_next' = offer_next - run
      /\ acked' = acked \cup {ip}
      /\ resp' = Ack(m, ip, LeaseTime)
      /\ Grant(m, ip, LeaseTime)

Refuse(m, ip) ==
  /\ ~Committable(ip)
  /\ resp' = Nak(m)
  /\ UNCHANGED <<left, cache_base, offer_next, ack_bitmap, acked>>

Request(m, ip) ==
  /\ Commit(m, ip) \/ Refuse(m, ip)
  /\ UNCHANGED <<clk, turned, offered>>

\* DECLINE and every other message type fall into the default branch.
Ignore ==
  /\ resp' = NoReply
  /\ UNCHANGED <<clk, turned, left, cache_base, offer_next, ack_bitmap, offered, acked>>

Tick ==
  /\ Second
  /\ UNCHANGED <<cache_base, offer_next, ack_bitmap, offered, acked>>

Next ==
  \/ Tick
  \/ Ignore
  \/ \E m \in Macs : Discover(m)
  \/ \E m \in Macs, ip \in Requested : Request(m, ip)

Spec == Init /\ [][Next]_vars

-----------------------------------------------------------------------------
TypeOK ==
  /\ ServerTypeOK
  /\ cache_base \in Nat
  /\ offer_next \in 0 .. BitmapSize
  /\ ack_bitmap \subseteq 0 .. (BitmapSize - 1)
  /\ offered \subseteq Pool
  /\ acked \subseteq Pool

(***************************************************************************)
(* The window stands for the history: what was offered is the stretch of   *)
(* the pool below the next candidate, and from the base of the window on   *)
(* the set bits are exactly the acknowledged addresses, although a flush   *)
(* and the clean-up loop of a commit move base, bit and bitmap together.   *)
(***************************************************************************)
WindowExact ==
  /\ offered = PoolStart .. (PoolStart + cache_base + offer_next - 1)
  /\ ack_bitmap = {b \in 0 .. (offer_next - 1) : PoolStart + cache_base + b \in acked}

(***************************************************************************)
(* An address is acknowledged at most once in the life of the server and   *)
(* only after it was offered: commit tests the bit before it answers.      *)
(***************************************************************************)
AckedOnce ==
  [][\A m \in Macs, ip \in Requested :
       Request(m, ip) /\ resp'.type = "ACK" => ip \in offered /\ ip \notin acked]_vars

(***************************************************************************)
(* No address is offered twice, and a DISCOVER stays without an OFFER only *)
(* when the whole pool has been offered.                                   *)
(***************************************************************************)
OfferedOnce ==
  [][\A m \in Macs : Discover(m) =>
       IF resp' = NoReply THEN offered = Pool ELSE resp'.ip \in Pool \ offered]_vars

(***************************************************************************)
(* A flush forgets only old offers: a REQUEST for one of the last          *)
(* BITMAP_SIZE - BITMAP_FLUSH offered addresses that is not acknowledged   *)
(* yet is always acknowledged.                                             *)
(***************************************************************************)
RecentOfferHonoured ==
  [][\A m \in Macs, ip \in offered \ acked :
       /\ Request(m, ip)
       /\ PoolStart + cache_base + offer_next - ip <= BitmapSize - BitmapFlush
       => resp' = Ack(m, ip, LeaseTime)]_vars
=============================================================================
