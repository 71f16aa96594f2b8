---------------------------- MODULE BitmapServer ----------------------------
(***************************************************************************)
(* The server built for one of the two back ends that keep a range of bits *)
(* and a timer instead of client records: ALLOC_MODE is BITMAP_VARTIME or  *)
(* BITMAP_UNITIME, and the pool of dhcp_server_t is the one or the other.  *)
(* The mode is a choice of the build: it is made once and never changes.   *)
(***************************************************************************)
EXTENDS DhcpServer

CONSTANTS Word, VarLen, NumRanges, BootCounters

ASSUME RangesAssumption ==
  /\ Word \in Nat /\ ClockWrap + LeaseTime < Word
  /\ VarLen \in 1 .. RangeSize
  /\ NumRanges \in Nat /\ NumRanges >= 2
  /\ RangeSize \div NumRanges >= 1
  /\ BootCounters \subseteq Nat

VARIABLES mode, ips, expire_time, cur_range, counter, lease_time, age, late

vars ==
  <<clk, turned, left, resp, mode, ips, expire_time, cur_range, counter, lease_time, age, late>>

Var == INSTANCE BmVarPool

Uni == INSTANCE BmUniPool

VarTime == mode = "BITMAP_VARTIME"

UniTime == mode = "BITMAP_UNITIME"

\* cur_range is a field of the unitime pool only, and only vartime alters lease_time.
Init ==
  /\ mode \in {"BITMAP_VARTIME", "BITMAP_UNITIME"}
  /\ VarTime => Var!Init /\ cur_range = 0
  /\ UniTime => Uni!Init /\ lease_time = LeaseTime

Next ==
  /\ UNCHANGED mode
  /\ \/ VarTime /\ Var!Next /\ UNCHANGED cur_range
     \/ UniTime /\ Uni!Next /\ UNCHANGED lease_time

Spec == Init /\ [][Next]_vars

-----------------------------------------------------------------------------
TypeOK ==
  /\ VarTime => Var!TypeOK
  /\ UniTime => Uni!TypeOK

(***************************************************************************)
(* What keeps both back ends safe without a record of clients: a running   *)
(* lease has its bit set and ends no later than the timer of its range     *)
(* (which in unitime mode may not have started), so that the recycling in  *)
(* dhcp_bmpool_var_peek and dhcp_bmpool_uni_peek does not take its address *)
(* away.  The exception are leases that were requested late: after the     *)
(* timer has run out or before it has started (vartime), or in a later     *)
(* second than the one in which it started (unitime).  The handlers of     *)
(* REQUEST do not look at the timer and grant them all the same.           *)
(***************************************************************************)
LeaseWithinTimer ==
  /\ VarTime => Var!LeaseWithinTimer
  /\ UniTime => Uni!LeaseWithinTimer

(***************************************************************************)
(* Two clients hold the same address only if one of them requested it      *)
(* late.  Its bit is cleared with the range while it still uses the        *)
(* address, and dhcp_bmpool_var_commit_ip or dhcp_bmpool_uni_commit_ip     *)
(* gives the address out again.                                            *)
(***************************************************************************)
OnlyLateRequestHarms ==
  \A m1, m2 \in Macs, ip \in Pool :
    Live(m1, ip) /\ Live(m2, ip) /\ m1 # m2 => <<m1, ip>> \in late \/ <<m2, ip>> \in late

(***************************************************************************)
(* It is the late client's own lease that suffers: an OFFER or an ACK      *)
(* names an address on which another client's lease runs only if that      *)
(* other client had requested it late, also when the one who is answered   *)
(* is late (dhcp_build_offer and dhcp_build_ack after peek and commit_ip). *)
(***************************************************************************)
ReplyOnlyOverLate ==
  resp.type \in {"OFFER", "ACK"} =>
    \A m \in Macs \ {resp.mac} : Live(m, resp.ip) => <<m, resp.ip>> \in late

(***************************************************************************)
(* BITMAP_VARTIME: up to the first turn of the clock, a DISCOVER is        *)
(* answered once the timer of the range is LeaseTime seconds old, also if  *)
(* the range is full: dhcp_bmpool_var_peek looks at the timer before it    *)
(* looks at the counter, and clears both.                                  *)
(***************************************************************************)
RangeResets ==
  [][\A m \in Macs :
       VarTime /\ turned = 0 /\ age = LeaseTime /\ Var!Discover(m) => resp'.type = "OFFER"]_vars

(***************************************************************************)
(* BITMAP_UNITIME: rotation, up to the first turn of the clock.  A server  *)
(* at the end of its range answers a DISCOVER from the next one once the   *)
(* timer of that range is LeaseTime seconds old (dhcp_bmpool_uni_peek).    *)
(***************************************************************************)
OldRangeServesAgain ==
  [][\A m \in Macs :
       /\ UniTime /\ turned = 0 /\ Uni!AtEnd
       /\ expire_time[Uni!NextRange] > 0 /\ age[Uni!NextRange] = LeaseTime
       /\ Uni!Discover(m)
       => resp'.type = "OFFER"]_vars
=============================================================================
