----------------------------- MODULE BmUniPool ------------------------------
(***************************************************************************)
(* The BITMAP_UNITIME back end (dhcp_bitmap_unitime.c) under               *)
(* dhcp_process_message_bmuni: the pool is cut into ranges that are used   *)
(* in turn.  A range's timer starts when its last address is offered; the  *)
(* server moves on to the next range if that one is fresh or its timer has *)
(* run out, and clears it then.  Every lease is for the full LeaseTime.    *)
(***************************************************************************)
EXTENDS DhcpServer, FiniteSetsExt

CONSTANTS
  NumRanges,      \* num_ranges
  BootCounters    \* what counter may hold at start: dhcp_bmpool_uni_init leaves it

VARIABLES
  ips,           \* ips[r]: the bits of range r that are set
  expire_time,   \* expire_time[r], 0 while the timer of r is not running
  cur_range,     \* the range in use
  counter,       \* the offset in it of the next address to try
  age,           \* history: age[r], seconds since the timer of r started, up to LeaseTime
  late           \* history: running leases <<m, ip>> that were requested late

vars == <<clk, turned, left, resp, ips, expire_time, cur_range, counter, age, late>>

Ranges == 0 .. (NumRanges - 1)

RangeLen == RangeSize \div NumRanges    \* range_size

Bits == 0 .. (RangeLen - 1)

range_base(r) == PoolStart + r * RangeLen

Init ==
  /\ ServerInit
  /\ ips = [r \in Ranges |-> {}]
  /\ expire_time = [r \in Ranges |-> 0]
  /\ cur_range = 0
  /\ counter \in BootCounters
  /\ age = [r \in Ranges |-> 0]
  /\ late = {}

-----------------------------------------------------------------------------
(***************************************************************************)
(* DISCOVER: dhcp_bmpool_uni_peek.  Peek is the search in range r, whose   *)
(* bits are s and timer e, from offset c on.                               *)
(***************************************************************************)
\* Mutant: the search does not test the bit.
UntriedOrUsed(s, c) == {b \in Bits : b >= c}

Untried(s, c) == {b \in Bits : b >= c /\ b \notin s}

Propose(m, r, s, e, c) ==
  LET b == Min(Untried(s, c))
      starts == e = 0 /\ b + 1 >= RangeLen
  IN  /\ Untried(s, c) # {}
      /\ counter' = b + 1
      /\ resp' = Offer(m, range_base(r) + b, LeaseTime)
      /\ expire_time' = [expire_time EXCEPT ![r] = IF starts THEN clk + LeaseTime ELSE e]
      /\ age' = [age EXCEPT ![r] = IF e = 0 THEN 0 ELSE @]

\* The search runs to the end of the range and starts no timer.
FindNothing(r, s, e, c) ==
  /\ Untried(s, c) = {}
  /\ counter' = RangeLen
  /\ resp' = NoReply
  /\ expire_time' = [expire_time EXCEPT ![r] = e]
  /\ age' = [age EXCEPT ![r] = IF e = 0 THEN 0 ELSE @]

Peek(m, r, s, e, c) ==
  /\ Propose(m, r, s, e, c) \/ FindNothing(r, s, e, c)
  /\ ips' = [ips EXCEPT ![r] = s]
  /\ cur_range' = r

AtEnd == counter >= RangeLen

NextRange == (cur_range + 1) % NumRanges

\* Mutant: the range is recycled in the last second of its timer.
RunOutEarly(r) == expire_time[r] > 0 /\ expire_time[r] <= clk + 1

\* Mutant: the range is recycled one second after its timer.
RunOutLate(r) == expire_time[r] > 0 /\ expire_time[r] < clk

RunOut(r) == expire_time[r] > 0 /\ expire_time[r] <= clk

Discover(m) ==
  /\ \/ ~AtEnd /\ Peek(m, cur_range, ips[cur_range], expire_time[cur_range], counter)
     \/ AtEnd /\ RunOut(NextRange) /\ Peek(m, NextRange, {}, 0, 0)
     \/ AtEnd /\ expire_time[NextRange] = 0 /\ Peek(m, NextRange, ips[NextRange], 0, 0)
     \/ /\ AtEnd
        /\ expire_time[NextRange] # 0 /\ ~RunOut(NextRange)
        /\ resp' = NoReply
        /\ UNCHANGED <<ips, expire_time, cur_range, counter, age>>
  /\ UNCHANGED <<clk, turned, left, late>>

-----------------------------------------------------------------------------
(***************************************************************************)
(* REQUEST: dhcp_bmpool_uni_commit_ip looks at the current range only, and *)
(* not at its timer.  A REQUEST is late if that was started in an earlier  *)
(* second, by the OFFER of the last address of the range.                  *)
(***************************************************************************)
LateRequest == expire_time[cur_range] > 0 /\ age[cur_range] > 0

Bit(ip) == ip - range_base(cur_range)

\* Mutant: commit does not test the bit.
AvailableAgain(ip) == Bit(ip) \in Bits

Available(ip) == Bit(ip) \in Bits \ ips[cur_range]

Commit(m, ip) ==
  /\ ip \in Pool
  /\ Available(ip)
  /\ ips' = [ips EXCEPT ![cur_range] = @ \cup {Bit(ip)}]
  /\ resp' = Ack(m, ip, LeaseTime)
  /\ Grant(m, ip, LeaseTime)
  /\ late' = IF LateRequest THEN late \cup {<<m, ip>>} ELSE late \ {<<m, ip>>}

Refuse(m, ip) ==
  /\ ip \notin Pool \/ ~Available(ip)
  /\ resp' = Nak(m)
  /\ UNCHANGED <<left, ips, late>>

Request(m, ip) ==
  /\ Commit(m, ip) \/ Refuse(m, ip)
  /\ UNCHANGED <<clk, turned, expire_time, cur_range, counter, age>>

\* DECLINE and every other message type fall into the default branch.
Ignore ==
  /\ resp' = NoReply
  /\ UNCHANGED <<clk, turned, left, ips, expire_time, cur_range, counter, age, late>>

Tick ==
  /\ Second
  /\ age' = [r \in Ranges |-> IF expire_time[r] > 0 /\ age[r] < LeaseTime THEN age[r] + 1 ELSE age[r]]
  /\ late' = {x \in late : Elapsed[x[1]][x[2]] > 0}
  /\ UNCHANGED <<ips, expire_time, cur_range, counter>>

Next ==
  \/ Tick
  \/ Ignore
  \/ \E m \in Macs : Discover(m)
  \/ \E m \in Macs, ip \in Requested : Request(m, ip)

Spec == Init /\ [][Next]_vars

-----------------------------------------------------------------------------
TypeOK ==
  /\ ServerTypeOK
  /\ ips \in [Ranges -> SUBSET Bits]
  /\ expire_time \in [Ranges -> 0 .. (ClockWrap + LeaseTime)]
  /\ cur_range \in Ranges
  /\ counter \in 0 .. RangeLen \cup BootCounters
  /\ age \in [Ranges -> 0 .. LeaseTime]
  /\ late \subseteq Macs \X Pool

\* The running leases of range r not requested late, as pairs of client and bit.
Running(r) ==
  {x \in Macs \X Bits : /\ Live(x[1], range_base(r) + x[2])
                        /\ <<x[1], range_base(r) + x[2]>> \notin late}

(***************************************************************************)
(* What keeps BITMAP_UNITIME safe without a record of clients: a running   *)
(* lease that was not requested late has its bit set, and the timer of its *)
(* range has not started or ends no earlier than the lease, so that the    *)
(* recycling in dhcp_bmpool_uni_peek never clears it.                      *)
(***************************************************************************)
LeaseWithinTimer ==
  \A r \in Ranges : \A x \in Running(r) :
    /\ x[2] \in ips[r]
    /\ expire_time[r] > 0 => clk + left[x[1]][range_base(r) + x[2]] <= expire_time[r]

(***************************************************************************)
(* "the expiration timer starts only when the range is full", so a range   *)
(* that the server leaves behind has its timer running and can be cleared. *)
(***************************************************************************)
LeftRangeIsTimed ==
  [][cur_range' # cur_range => expire_time[cur_range] > 0]_vars
=============================================================================
