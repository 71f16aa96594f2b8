----------------------------- MODULE DhcpServer -----------------------------
(***************************************************************************)
(* What the five lease back ends of dhcp-lib share: the address pool, the  *)
(* clock the Circle adapter hands to them, the replies they build, and the *)
(* leases that clients hold as a result of the ACKs they were sent.        *)
(*                                                                         *)
(* The server is a polling loop on one core: a message is handled to       *)
(* completion before the next one is read, so a handler is one action.     *)
(***************************************************************************)
EXTENDS Integers

CONSTANTS
  Macs,        \* clients, by hardware address
  NoMac,       \* stands for "no client" in an unused record
  PoolStart,   \* config.pool_start, host order; 0 is the library's "no address"
  PoolEnd,     \* config.pool_end
  LeaseTime,   \* config.lease_time, in seconds
  ClockWrap    \* the adapter's seconds run 0 .. ClockWrap-1 and start again

ASSUME ServerAssumption ==
  /\ NoMac \notin Macs
  /\ PoolStart \in Nat \ {0}
  /\ PoolEnd \in Nat
  /\ PoolStart <= PoolEnd
  /\ LeaseTime \in Nat \ {0}
  /\ ClockWrap \in Nat \ {0}

VARIABLES
  clk,    \* cur_time as the handlers see it
  turned, \* history: 1 once clk has started again from 0
  left,   \* left[m][ip]: seconds that m may still use ip, by the last ACK it got
  resp    \* the reply to the message handled last

Pool == PoolStart .. PoolEnd

RangeSize == PoolEnd - PoolStart + 1

\* Values of the Requested IP option: the pool and an address on each side of it.
Requested == (PoolStart - 1) .. (PoolEnd + 1)

-----------------------------------------------------------------------------
(***************************************************************************)
(* Replies.  An OFFER and an ACK carry config.lease_time; a reply whose op *)
(* stays 0 is not sent.                                                    *)
(***************************************************************************)
Offer(m, ip, lease) == [type |-> "OFFER", mac |-> m, ip |-> ip, lease |-> lease]

Ack(m, ip, lease) == [type |-> "ACK", mac |-> m, ip |-> ip, lease |-> lease]

Nak(m) == [type |-> "NAK", mac |-> m, ip |-> 0, lease |-> 0]

NoReply == [type |-> "NONE", mac |-> NoMac, ip |-> 0, lease |-> 0]

Replies == [type : {"OFFER", "ACK", "NAK", "NONE"}, mac : Macs \cup {NoMac},
            ip : Pool \cup {0}, lease : Nat]

-----------------------------------------------------------------------------
(***************************************************************************)
(* Time.  The adapter divides a 32-bit microsecond counter by 10^6, so the *)
(* seconds return to 0 about every 72 minutes; the time left to a client   *)
(* runs on the client's side and does not.                                 *)
(***************************************************************************)
NextSecond == IF clk + 1 = ClockWrap THEN 0 ELSE clk + 1

Elapsed == [m \in Macs |-> [ip \in Pool |-> IF left[m][ip] = 0 THEN 0 ELSE left[m][ip] - 1]]

Second ==
  /\ clk' = NextSecond
  /\ turned' = IF NextSecond = 0 THEN 1 ELSE turned
  /\ left' = Elapsed
  /\ resp' = NoReply

Live(m, ip) == left[m][ip] > 0

\* The ACK just sent lets m use ip for n seconds from now.
Grant(m, ip, n) == left' = [left EXCEPT ![m][ip] = n]

\* A client that declines stops using what it was given.
GiveUp(m) == left' = [left EXCEPT ![m] = [ip \in Pool |-> 0]]

ServerInit ==
  /\ clk = 0
  /\ turned = 0
  /\ left = [m \in Macs |-> [ip \in Pool |-> 0]]
  /\ resp = NoReply

ServerTypeOK ==
  /\ clk \in 0 .. (ClockWrap - 1)
  /\ turned \in {0, 1}
  /\ left \in [Macs -> [Pool -> Nat]]
  /\ resp \in Replies

-----------------------------------------------------------------------------
(***************************************************************************)
(* The promise of a DHCP server: no address is in the hands of two clients *)
(* whose leases both still run.  Each back end has to earn it with its own *)
(* bookkeeping in its dhcp_process_message function.                       *)
(***************************************************************************)
NoDoubleGrant ==
  \A m1, m2 \in Macs, ip \in Pool : Live(m1, ip) /\ Live(m2, ip) => m1 = m2

(***************************************************************************)
(* No OFFER proposes to a client an address on which another client's      *)
(* lease still runs (dhcp_build_offer after the back end's search).        *)
(***************************************************************************)
OfferUnheld ==
  resp.type = "OFFER" => \A m \in Macs \ {resp.mac} : ~Live(m, resp.ip)
=============================================================================
