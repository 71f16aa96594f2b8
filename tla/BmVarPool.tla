----------------------------- MODULE BmVarPool ------------------------------
(***************************************************************************)
(* The BITMAP_VARTIME back end (dhcp_bitmap_vartime.c) under               *)
(* dhcp_process_message_bmvar: one range of addresses from the start of    *)
(* the pool on, a bit per address.  The range's timer starts with its      *)
(* first offer; a DISCOVER that finds it run out clears the range.  An ACK *)
(* carries what remains of the timer, which the handler leaves in          *)
(* config.lease_time.                                                      *)
(***************************************************************************)
EXTENDS DhcpServer, FiniteSetsExt

CONSTANTS
  Word,       \* 2^32: times are uint32_t and a difference wraps
  VarLen      \* range_size: the addresses of the range

VARIABLES
  ips,           \* range->ips: the bits that are set
  expire_time,   \* range->expire_time, 0 while the timer is not running
  counter,       \* the offset of the next address to try
  lease_time,    \* config.lease_time, as replies carry it
  age,           \* history: seconds since the timer was started, up to LeaseTime
  late           \* history: running leases <<m, ip>> that were requested late

vars == <<clk, turned, left, resp, ips, expire_time, counter, lease_time, age, late>>

Bits == 0 .. (VarLen - 1)

Bit(ip) == ip - PoolStart

Init ==
  /\ ServerInit
  /\ ips = {}
  /\ expire_time = 0
  /\ counter = 0
  /\ lease_time = LeaseTime
  /\ age = 0
  /\ late = {}

-----------------------------------------------------------------------------
(***************************************************************************)
(* DISCOVER: dhcp_bmpool_var_peek on the range with bits s, timer e and    *)
(* counter c, which are the recycled ones if the timer has run out.        *)
(***************************************************************************)
RunOut == expire_time > 0 /\ expire_time <= clk

Started(e) == IF e = 0 THEN clk + LeaseTime ELSE e

\* Mutant: the search runs one bit past the range.
UntriedPast(s, c) == {b \in 0 .. VarLen : b >= c /\ b \notin s}

Untried(s, c) == {b \in Bits : b >= c /\ b \notin s}

Propose(m, s, c) ==
  /\ Untried(s, c) # {}
  /\ counter' = Min(Untried(s, c)) + 1
  /\ resp' = Offer(m, PoolStart + Min(Untried(s, c)), lease_time)

\* The counter runs to the end of the range.
FindNothing(s, c) ==
  /\ Untried(s, c) = {}
  /\ counter' = VarLen
  /\ resp' = NoReply

Peek(m, s, e, c) ==
  /\ Propose(m, s, c) \/ FindNothing(s, c)
  /\ ips' = s
  /\ expire_time' = Started(e)
  /\ age' = IF e = 0 THEN 0 ELSE age

\* Mutant: a full range is turned away before its timer is looked at.
DiscoverFullFirst(m) ==
  /\ \/ /\ expire_time > 0 /\ counter >= VarLen
        /\ FindNothing(ips, counter)
        /\ UNCHANGED <<ips, expire_time, age>>
     \/ /\ expire_time = 0 \/ counter < VarLen
        /\ IF RunOut THEN Peek(m, {}, 0, 0) ELSE Peek(m, ips, expire_time, counter)
  /\ UNCHANGED <<clk, turned, left, lease_time, late>>

Discover(m) ==
  /\ IF RunOut THEN Peek(m, {}, 0, 0) ELSE Peek(m, ips, expire_time, counter)
  /\ UNCHANGED <<clk, turned, left, lease_time, late>>

-----------------------------------------------------------------------------
(***************************************************************************)
(* REQUEST: dhcp_bmpool_var_commit_ip, and the time left for the ACK.  The *)
(* code does not look at the timer, which may have run out or not have     *)
(* started: the difference then wraps.  Such a REQUEST is late.            *)
(***************************************************************************)
Remaining == (expire_time - clk) % Word

LateRequest == expire_time <= clk

Available(ip) == Bit(ip) \in Bits \ ips

Commit(m, ip) ==
  /\ ip \in Pool
  /\ Available(ip)
  /\ ips' = ips \cup {Bit(ip)}
  /\ lease_time' = Remaining
  /\ resp' = Ack(m, ip, Remaining)
  /\ Grant(m, ip, Remaining)
  /\ late' = IF LateRequest THEN late \cup {<<m, ip>>} ELSE late \ {<<m, ip>>}

Refuse(m, ip) ==
  /\ ip \notin Pool \/ ~Available(ip)
  /\ resp' = Nak(m)
  /\ UNCHANGED <<left, ips, lease_time, late>>

Request(m, ip) ==
  /\ Commit(m, ip) \/ Refuse(m, ip)
  /\ UNCHANGED <<clk, turned, expire_time, counter, age>>

\* DECLINE and every other message type fall into the default branch.
Ignore ==
  /\ resp' = NoReply
  /\ UNCHANGED <<clk, turned, left, ips, expire_time, counter, lease_time, age, late>>

Tick ==
  /\ Second
  /\ age' = IF expire_time > 0 /\ age < LeaseTime THEN age + 1 ELSE age
  /\ late' = {x \in late : Elapsed[x[1]][x[2]] > 0}
  /\ UNCHANGED <<ips, expire_time, counter, lease_time>>

Next ==
  \/ Tick
  \/ Ignore
  \/ \E m \in Macs : Discover(m)
  \/ \E m \in Macs, ip \in Requested : Request(m, ip)

Spec == Init /\ [][Next]_vars

-----------------------------------------------------------------------------
TypeOK ==
  /\ ServerTypeOK
  /\ ips \subseteq Bits
  /\ expire_time \in 0 .. (ClockWrap + LeaseTime)
  /\ counter \in 0 .. VarLen
  /\ lease_time \in 0 .. (Word - 1)
  /\ age \in 0 .. LeaseTime
  /\ late \subseteq Macs \X Pool

(***************************************************************************)
(* What keeps BITMAP_VARTIME safe without a record of clients: a running   *)
(* lease that was not requested late has its bit set and ends before the   *)
(* timer does, so the recycling in dhcp_bmpool_var_peek never clears it.   *)
(***************************************************************************)
LeaseWithinTimer ==
  \A m \in Macs, ip \in Pool : Live(m, ip) /\ <<m, ip>> \notin late =>
    Bit(ip) \in ips /\ clk + left[m][ip] <= expire_time

(***************************************************************************)
(* "The lease time of each offered IP is the remaining time of the range": *)
(* until the clock turns, no ACK grants more than the range runs for.      *)
(***************************************************************************)
AckWithinRangeTime == resp.type = "ACK" /\ turned = 0 => resp.lease <= LeaseTime
=============================================================================
