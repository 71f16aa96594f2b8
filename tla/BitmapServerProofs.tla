------------------------- MODULE BitmapServerProofs -------------------------
(***************************************************************************)
(* Proofs about the two back ends with ranges and timers, for any number   *)
(* of clients, addresses and ranges.  Neither keeps a record of clients:   *)
(* the argument is that a lease which was not requested late never         *)
(* outlives the timer of its range.                                        *)
(***************************************************************************)
EXTENDS BitmapServer, FiniteSetsExt, WellFoundedInduction, TLAPS

\* The provers get more time than they do by default: some steps have many facts.
USE SMTT(15), ZenonT(20)

-----------------------------------------------------------------------------
(***************************************************************************)
(* Min of a non-empty set of naturals is its least element: the C loops    *)
(* that stop at the first hit are modelled with Min.                       *)
(***************************************************************************)
LEMMA LeastNat ==
  ASSUME NEW S \in SUBSET Nat, S # {}
  PROVE  Min(S) \in S /\ \A y \in S : Min(S) <= y
<1> DEFINE Below == {p \in Nat \X Nat : p[1] < p[2]}
<1>1. IsWellFoundedOn(Below, Nat)
  BY NatLessThanWellFounded DEF OpToRel
<1>2. PICK x \in S : \A y \in S : ~(<<y, x>> \in Below)
  BY <1>1, WFMin
<1>3. \A y \in S : x <= y
  <2> SUFFICES ASSUME NEW y \in S, ~(x <= y) PROVE FALSE
    OBVIOUS
  <2>1. x \in Nat /\ y \in Nat /\ y < x
    OBVIOUS
  <2>2. <<y, x>> \in Below
    BY <2>1
  <2>3. QED
    BY <1>2, <2>2
<1>4. QED
  BY <1>3 DEF Min

\* The time left to the clients is a number of seconds, also after a second.
LEMMA ElapsedType ==
  ASSUME left \in [Macs -> [Pool -> Nat]]
  PROVE  /\ Elapsed \in [Macs -> [Pool -> Nat]]
         /\ \A m \in Macs, ip \in Pool :
              Elapsed[m][ip] > 0 => left[m][ip] > 0 /\ Elapsed[m][ip] = left[m][ip] - 1
<1>1. \A m \in Macs : \A ip \in Pool : left[m][ip] \in Nat
  OBVIOUS
<1>2. ASSUME NEW m \in Macs PROVE Elapsed[m] \in [Pool -> Nat]
  <2>1. Elapsed[m] = [ip \in Pool |-> IF left[m][ip] = 0 THEN 0 ELSE left[m][ip] - 1]
    BY DEF Elapsed
  <2>2. \A ip \in Pool : (IF left[m][ip] = 0 THEN 0 ELSE left[m][ip] - 1) \in Nat
    BY <1>1
  <2>3. QED
    BY <2>1, <2>2
<1>3. QED
  BY <1>1, <1>2 DEF Elapsed

\* The adapter's clock stays below its period and gains at most one second.
LEMMA NextSecondBound ==
  ASSUME clk \in 0 .. (ClockWrap - 1)
  PROVE  NextSecond \in 0 .. (ClockWrap - 1) /\ NextSecond <= clk + 1
BY ServerAssumption DEF NextSecond

\* After an ACK for ip the requester's time on ip is n; the rest is unchanged.
LEMMA GrantEffect ==
  ASSUME left \in [Macs -> [Pool -> Nat]], NEW m \in Macs, NEW ip \in Pool, NEW n \in Nat,
         Grant(m, ip, n)
  PROVE  /\ left' \in [Macs -> [Pool -> Nat]]
         /\ left'[m][ip] = n
         /\ \A k \in Macs, a \in Pool : <<k, a>> # <<m, ip>> => left'[k][a] = left[k][a]
<1>1. left' = [left EXCEPT ![m] = [left[m] EXCEPT ![ip] = n]]
  BY DEF Grant
<1>2. [left[m] EXCEPT ![ip] = n] \in [Pool -> Nat]
  OBVIOUS
<1>3. QED
  BY <1>1, <1>2

-----------------------------------------------------------------------------
(***************************************************************************)
(* The inductive invariant, about leases that run and were not requested   *)
(* late.  In vartime mode the timer is also tied to the seconds since its  *)
(* start; in unitime mode a lease is moreover no longer than LeaseTime,    *)
(* only addresses of some range are granted at all, and a timer that       *)
(* started in this second has all of LeaseTime to run.                     *)
(***************************************************************************)
Held(m, ip) == Live(m, ip) /\ <<m, ip>> \notin late

VarInv ==
  /\ Var!TypeOK
  /\ Var!LeaseWithinTimer
  /\ expire_time = 0 => age = 0
  /\ expire_time > 0 /\ turned = 0 => expire_time + age <= clk + LeaseTime

InRange(m, ip, r) ==
  /\ ip - Uni!range_base(r) \in Uni!Bits
  /\ ip - Uni!range_base(r) \in ips[r]
  /\ expire_time[r] > 0 => clk + left[m][ip] <= expire_time[r]

UniInv ==
  /\ Uni!TypeOK
  /\ \A m \in Macs, ip \in Pool : left[m][ip] <= LeaseTime
  /\ \A m \in Macs, ip \in Pool : Held(m, ip) => \E r \in Uni!Ranges : InRange(m, ip, r)
  /\ \A r \in Uni!Ranges :
       expire_time[r] > 0 /\ turned = 0 => expire_time[r] + age[r] <= clk + LeaseTime
  /\ \A r \in Uni!Ranges :
       expire_time[r] > 0 /\ age[r] = 0 => expire_time[r] = clk + LeaseTime

IInv ==
  /\ mode \in {"BITMAP_VARTIME", "BITMAP_UNITIME"}
  /\ OnlyLateRequestHarms
  /\ VarTime => VarInv
  /\ UniTime => UniInv

-----------------------------------------------------------------------------
(***************************************************************************)
(* BITMAP_VARTIME.                                                         *)
(***************************************************************************)
\* What the invariant says, in the terms of the server.
LEMMA VarParts ==
  ASSUME VarInv
  PROVE  /\ clk \in 0 .. (ClockWrap - 1) /\ turned \in {0, 1}
         /\ left \in [Macs -> [Pool -> Nat]] /\ resp \in Replies
         /\ ips \subseteq 0 .. (VarLen - 1)
         /\ expire_time \in 0 .. (ClockWrap + LeaseTime)
         /\ counter \in 0 .. VarLen
         /\ lease_time \in 0 .. (Word - 1)
         /\ age \in 0 .. LeaseTime
         /\ late \subseteq Macs \X Pool
         /\ \A m \in Macs, ip \in Pool : Held(m, ip) =>
              ip - PoolStart \in ips /\ clk + left[m][ip] <= expire_time
BY DEF VarInv, Var!TypeOK, Var!ServerTypeOK, Var!LeaseWithinTimer, Var!Live, Live, Held, Var!Bit,
       Var!Bits, Var!Pool, Pool, Var!Replies, Replies

\* The same for the next state, from its parts.
VarNext ==
  /\ clk' \in 0 .. (ClockWrap - 1) /\ turned' \in {0, 1}
  /\ left' \in [Macs -> [Pool -> Nat]] /\ resp' \in Replies
  /\ ips' \subseteq 0 .. (VarLen - 1)
  /\ expire_time' \in 0 .. (ClockWrap + LeaseTime)
  /\ counter' \in 0 .. VarLen
  /\ lease_time' \in 0 .. (Word - 1)
  /\ age' \in 0 .. LeaseTime
  /\ late' \subseteq Macs \X Pool
  /\ \A m \in Macs, ip \in Pool : Held(m, ip)' =>
       ip - PoolStart \in ips' /\ clk' + left'[m][ip] <= expire_time'
  /\ expire_time' = 0 => age' = 0
  /\ expire_time' > 0 /\ turned' = 0 => expire_time' + age' <= clk' + LeaseTime

\* The parts of the invariant after a step make the invariant of BITMAP_VARTIME.
LEMMA VarNextParts == VarNext => VarInv'
BY DEF VarNext, VarInv, Var!TypeOK, Var!ServerTypeOK, Var!LeaseWithinTimer, Var!Live, Live, Held, Var!Bit,
       Var!Bits, Var!Pool, Pool, Var!Replies, Replies

\* Where no lease has begun, or only late ones, no lease meets another that is not late.
LEMMA NoNewLease ==
  ASSUME OnlyLateRequestHarms,
         \A m \in Macs, ip \in Pool : Held(m, ip)' => Held(m, ip)
  PROVE  OnlyLateRequestHarms'
BY DEF OnlyLateRequestHarms, Live, Held

\* A reply is over no lease but late ones if it names an address that nobody else holds in time.
LEMMA NoneHeld ==
  ASSUME resp'.type # "NONE" => \A n \in Macs : ~Held(n, resp.ip)'
  PROVE  ReplyOnlyOverLate'
<1>1. resp'.type \in {"OFFER", "ACK"} => resp'.type # "NONE"
  OBVIOUS
<1>2. \A n \in Macs : ~Held(n, resp.ip)' => (left'[n][resp'.ip] > 0 => <<n, resp'.ip>> \in late')
  BY DEF Held, Live
<1>3. QED
  BY <1>1, <1>2 DEF ReplyOnlyOverLate, Live

\* A second passes: a lease comes one nearer to its end, the clock at most to the timer's.
LEMMA VarTick ==
  ASSUME IInv, VarTime, Var!Tick
  PROVE  VarInv' /\ OnlyLateRequestHarms'
<1>1. VarInv /\ OnlyLateRequestHarms
  BY DEF IInv
<1>2. /\ clk' = NextSecond
      /\ turned' = IF NextSecond = 0 THEN 1 ELSE turned
      /\ left' = Elapsed /\ resp' = NoReply
  BY DEF Var!Tick, Var!Second, Var!NextSecond, NextSecond, Var!Elapsed, Elapsed, Var!NoReply,
         NoReply, Var!Pool, Pool
<1>3. /\ age' = IF expire_time > 0 /\ age < LeaseTime THEN age + 1 ELSE age
      /\ late' = {x \in late : Elapsed[x[1]][x[2]] > 0}
      /\ UNCHANGED <<ips, expire_time, counter, lease_time>>
  BY DEF Var!Tick, Var!Elapsed, Elapsed, Var!Pool, Pool
<1>4. NextSecond \in 0 .. (ClockWrap - 1) /\ NextSecond <= clk + 1
  BY <1>1, VarParts, NextSecondBound
<1>5. /\ Elapsed \in [Macs -> [Pool -> Nat]]
      /\ \A m \in Macs, ip \in Pool :
           Elapsed[m][ip] > 0 => left[m][ip] > 0 /\ Elapsed[m][ip] = left[m][ip] - 1
  BY <1>1, VarParts, ElapsedType
<1>6. age' \in 0 .. LeaseTime
  BY <1>1, <1>3, VarParts, ServerAssumption
<1>7. ASSUME NEW m \in Macs, NEW ip \in Pool, Held(m, ip)'
      PROVE  /\ Held(m, ip)
             /\ ip - PoolStart \in ips' /\ clk' + left'[m][ip] <= expire_time'
  <2>1. left[m][ip] \in Nat /\ left[m][ip] > 0 /\ left'[m][ip] = left[m][ip] - 1
    BY <1>1, <1>2, <1>5, <1>7, VarParts DEF Held, Live
  <2>2. <<m, ip>> \notin late
    BY <1>2, <1>3, <1>7 DEF Held, Live
  <2>3. Held(m, ip)
    BY <2>1, <2>2 DEF Held, Live
  <2>4. QED
    BY <1>1, <1>2, <1>3, <1>4, <2>1, <2>3, VarParts, ServerAssumption
<1>8. ASSUME expire_time' > 0, turned' = 0
      PROVE  expire_time' + age' <= clk' + LeaseTime
  <2>1. turned = 0 /\ clk' = clk + 1
    BY <1>2, <1>8 DEF NextSecond
  <2>2. age' <= age + 1
    BY <1>1, <1>3, VarParts
  <2>3. QED
    BY <1>1, <1>3, <1>6, <1>8, <2>1, <2>2, VarParts, ServerAssumption DEF VarInv
<1>9. turned' \in {0, 1} /\ resp' \in Replies /\ late' \subseteq Macs \X Pool
  BY <1>1, <1>2, <1>3, VarParts DEF NoReply, Replies
<1>10. expire_time' = 0 => age' = 0
  BY <1>1, <1>3 DEF VarInv
<1>11. VarNext
  BY <1>1, <1>2, <1>3, <1>4, <1>5, <1>6, <1>7, <1>8, <1>9, <1>10, VarParts DEF VarNext
<1>12. OnlyLateRequestHarms'
  BY <1>1, <1>7, NoNewLease
<1>13. QED
  BY <1>11, <1>12, VarNextParts

\* The default branch only clears the reply.
LEMMA VarIgnore ==
  ASSUME IInv, VarTime, Var!Ignore
  PROVE  VarInv' /\ OnlyLateRequestHarms'
<1>1. VarInv /\ OnlyLateRequestHarms
  BY DEF IInv
<1>2. /\ resp' = NoReply
      /\ UNCHANGED <<clk, turned, left, ips, expire_time, counter, lease_time, age, late>>
  BY DEF Var!Ignore, Var!NoReply, NoReply
<1>3. VarNext
  BY <1>1, <1>2, VarParts DEF VarNext, VarInv, Held, Live, NoReply, Replies
<1>4. QED
  BY <1>1, <1>2, <1>3, VarNextParts DEF OnlyLateRequestHarms, Live

(***************************************************************************)
(* DISCOVER.  The search in a range with bits s and timer e that covers    *)
(* the leases keeps them covered, and finds an address that only clients   *)
(* who requested late may have.                                            *)
(***************************************************************************)
LEMMA VarPeek ==
  ASSUME VarInv, OnlyLateRequestHarms, NEW m \in Macs,
         NEW s \in SUBSET (0 .. (VarLen - 1)),
         NEW e \in 0 .. (ClockWrap + LeaseTime), NEW c \in 0 .. VarLen,
         \A n \in Macs, ip \in Pool : Held(n, ip) => ip - PoolStart \in s /\ clk + left[n][ip] <= e,
         e > 0 => e = expire_time,
         Var!Peek(m, s, e, c), UNCHANGED <<clk, turned, left, lease_time, late>>
  PROVE  VarInv' /\ OnlyLateRequestHarms' /\ ReplyOnlyOverLate'
<1>1. /\ clk \in 0 .. (ClockWrap - 1) /\ left \in [Macs -> [Pool -> Nat]]
      /\ age \in 0 .. LeaseTime /\ lease_time \in 0 .. (Word - 1)
  BY VarParts
<1>2. /\ ips' = s
      /\ expire_time' = IF e = 0 THEN clk + LeaseTime ELSE e
      /\ age' = IF e = 0 THEN 0 ELSE age
  BY DEF Var!Peek, Var!Started
<1>3. /\ counter' \in 0 .. VarLen
      /\ resp' \in Replies
      /\ resp'.type # "NONE" => resp'.ip \in Pool /\ resp'.ip - PoolStart \notin s
  <2> DEFINE U == Var!Untried(s, c)
             b == Var!Min(U)
  <2>1. U \subseteq (0 .. (VarLen - 1)) \ s /\ U \in SUBSET Nat
    BY RangesAssumption DEF Var!Untried, Var!Bits
  <2>2. CASE Var!Propose(m, s, c)
    <3>1. U # {} /\ counter' = b + 1 /\ resp' = Offer(m, PoolStart + b, lease_time)
      BY <2>2 DEF Var!Propose, Var!Offer, Offer
    <3>2. b = Min(U)
      BY DEF Var!Min, Min
    <3>3. b \in U
      BY <2>1, <3>1, <3>2, LeastNat
    <3>4. b \in 0 .. (VarLen - 1) /\ b \notin s
      BY <2>1, <3>3
    <3>5. PoolStart + b \in Pool /\ (PoolStart + b) - PoolStart = b
      BY <3>4, ServerAssumption, RangesAssumption DEF RangeSize, Pool
    <3>6. lease_time \in Nat
      BY <1>1, RangesAssumption
    <3> HIDE DEF b, U
    <3>7. QED
      BY <3>1, <3>4, <3>5, <3>6, RangesAssumption DEF Offer, Replies
  <2>3. CASE Var!FindNothing(s, c)
    BY <2>3, RangesAssumption DEF Var!FindNothing, Var!NoReply, NoReply, Replies
  <2>4. QED
    BY <2>2, <2>3 DEF Var!Peek
<1>4. e = 0 => \A n \in Macs, ip \in Pool : ~Held(n, ip)
  <2> SUFFICES ASSUME e = 0, NEW n \in Macs, NEW ip \in Pool, Held(n, ip) PROVE FALSE
    OBVIOUS
  <2>1. left[n][ip] \in Nat /\ left[n][ip] > 0
    BY <1>1 DEF Held, Live
  <2>2. clk + left[n][ip] <= e
    OBVIOUS
  <2>3. QED
    BY <1>1, <2>1, <2>2
<1>5. \A n \in Macs, ip \in Pool : Held(n, ip)' <=> Held(n, ip)
  BY DEF Held, Live
<1>6. \A n \in Macs, ip \in Pool : Held(n, ip)' =>
        ip - PoolStart \in ips' /\ clk' + left'[n][ip] <= expire_time'
  BY <1>2, <1>4, <1>5
<1>7. expire_time' \in 1 .. (ClockWrap + LeaseTime) /\ age' \in 0 .. LeaseTime
  BY <1>1, <1>2, ServerAssumption
<1>8. turned' = 0 => expire_time' + age' <= clk' + LeaseTime
  <2>1. CASE e = 0
    BY <1>1, <1>2, <2>1, ServerAssumption
  <2>2. CASE e > 0
    BY <1>2, <2>2 DEF VarInv
  <2>3. QED
    BY <2>1, <2>2
<1>9. VarNext
  BY <1>1, <1>2, <1>3, <1>6, <1>7, <1>8, VarParts DEF VarNext
<1>10. ReplyOnlyOverLate'
  <2> SUFFICES ASSUME resp'.type # "NONE", NEW n \in Macs, Held(n, resp.ip)' PROVE FALSE
    BY NoneHeld
  <2>1. PICK ip \in Pool : ip = resp'.ip
    BY <1>3
  <2>2. ip - PoolStart \notin s /\ Held(n, ip)'
    BY <1>3, <2>1 DEF Held, Live
  <2>3. QED
    BY <1>2, <1>6, <2>2
<1>11. QED
  BY <1>9, <1>10, <1>5, VarNextParts, NoNewLease

\* In a range that has run out only late leases run, so clearing it harms no other.
LEMMA VarDiscover ==
  ASSUME IInv, VarTime, NEW m \in Macs, Var!Discover(m)
  PROVE  VarInv' /\ OnlyLateRequestHarms' /\ ReplyOnlyOverLate'
<1>1. VarInv /\ OnlyLateRequestHarms
  BY DEF IInv
<1>2. UNCHANGED <<clk, turned, left, lease_time, late>>
  BY DEF Var!Discover
<1>3. CASE Var!RunOut
  <2>1. Var!Peek(m, {}, 0, 0)
    BY <1>3 DEF Var!Discover
  <2>2. ASSUME NEW n \in Macs, NEW ip \in Pool, Held(n, ip) PROVE FALSE
    <3>1. left[n][ip] \in Nat /\ left[n][ip] > 0
      BY <1>1, <2>2, VarParts DEF Held, Live
    <3>2. clk + left[n][ip] <= expire_time
      BY <1>1, <2>2, VarParts
    <3>3. expire_time <= clk /\ clk \in Nat /\ expire_time \in Nat
      BY <1>1, <1>3, VarParts, ServerAssumption DEF Var!RunOut
    <3>4. QED
      BY <3>1, <3>2, <3>3
  <2>3. 0 \in 0 .. (ClockWrap + LeaseTime) /\ 0 \in 0 .. VarLen
    BY ServerAssumption, RangesAssumption
  <2>4. QED
    BY <1>1, <1>2, <2>1, <2>2, <2>3, VarPeek
<1>4. CASE ~Var!RunOut
  <2>1. Var!Peek(m, ips, expire_time, counter)
    BY <1>4 DEF Var!Discover
  <2>2. QED
    BY <1>1, <1>2, <2>1, VarPeek, VarParts
<1>5. QED
  BY <1>3, <1>4

(***************************************************************************)
(* REQUEST.  The bit that was clear shows that only clients who requested  *)
(* late may have the address.  While the timer runs the ACK is for exactly *)
(* what remains of it; otherwise the new lease is a late one itself.       *)
(***************************************************************************)
LEMMA VarRequest ==
  ASSUME IInv, VarTime, NEW m \in Macs, NEW ip \in Requested, Var!Request(m, ip)
  PROVE  VarInv' /\ OnlyLateRequestHarms' /\ ReplyOnlyOverLate'
<1>1. VarInv /\ OnlyLateRequestHarms
  BY DEF IInv
<1>2. UNCHANGED <<clk, turned, expire_time, counter, age>>
  BY DEF Var!Request
<1>3. CASE Var!Commit(m, ip)
  <2> DEFINE n == Var!Remaining
  <2>1. /\ ip \in Pool /\ ip - PoolStart \in 0 .. (VarLen - 1) /\ ip - PoolStart \notin ips
        /\ ips' = ips \cup {ip - PoolStart}
    BY <1>3 DEF Var!Commit, Var!Available, Var!Bits, Var!Pool, Pool, Var!Bit
  <2>2. /\ clk \in Nat /\ expire_time \in Nat /\ expire_time < Word /\ Word \in Nat \ {0}
    BY <1>1, VarParts, RangesAssumption, ServerAssumption
  <2>3. n \in 0 .. (Word - 1) /\ (expire_time > clk => n = expire_time - clk)
    <3>1. n = (expire_time - clk) % Word /\ expire_time - clk \in Int
      BY <2>2 DEF Var!Remaining
    <3>2. \A i \in Int, w \in Nat \ {0} : i % w \in 0 .. (w - 1)
      OBVIOUS
    <3>3. expire_time > clk => expire_time - clk \in 0 .. (Word - 1)
      BY <2>2
    <3>4. \A w \in Nat \ {0} : \A i \in 0 .. (w - 1) : i % w = i
      OBVIOUS
    <3> HIDE DEF n
    <3>5. QED
      BY <2>2, <3>1, <3>2, <3>3, <3>4
  <2>4. /\ lease_time' = n /\ resp' = Ack(m, ip, n) /\ Grant(m, ip, n)
        /\ late' = IF expire_time <= clk THEN late \cup {<<m, ip>>} ELSE late \ {<<m, ip>>}
    BY <1>3 DEF Var!Commit, Var!LateRequest, Var!Ack, Ack, Var!Grant, Grant
  <2> HIDE DEF n
  <2>5. /\ left' \in [Macs -> [Pool -> Nat]]
        /\ left'[m][ip] = n
        /\ \A k \in Macs, a \in Pool : <<k, a>> # <<m, ip>> => left'[k][a] = left[k][a]
    <3>1. n \in Nat
      BY <2>3
    <3>2. QED
      BY <1>1, <2>1, <2>4, <3>1, VarParts, GrantEffect
  <2>6. ASSUME NEW k \in Macs, NEW a \in Pool, <<k, a>> # <<m, ip>>, Held(k, a)'
        PROVE  Held(k, a)
    BY <2>4, <2>5, <2>6 DEF Held, Live
  <2>7. Held(m, ip)' => expire_time > clk
    BY <2>2, <2>4 DEF Held
  <2>8. ASSUME NEW k \in Macs, NEW a \in Pool, Held(k, a)'
        PROVE  a - PoolStart \in ips' /\ clk' + left'[k][a] <= expire_time'
    <3>1. CASE <<k, a>> = <<m, ip>>
      <4>1. k = m /\ a = ip
        BY <3>1
      <4>2. left'[k][a] = expire_time - clk
        BY <2>3, <2>5, <2>7, <2>8, <4>1
      <4>3. QED
        BY <1>2, <2>1, <2>2, <4>1, <4>2
    <3>2. CASE <<k, a>> # <<m, ip>>
      <4>1. a - PoolStart \in ips /\ clk + left[k][a] <= expire_time
        BY <1>1, <2>6, <2>8, <3>2, VarParts
      <4>2. QED
        BY <1>2, <2>1, <2>5, <3>2, <4>1
    <3>3. QED
      BY <3>1, <3>2
  <2>9. \A k \in Macs \ {m} : ~Held(k, ip)'
    BY <1>1, <2>1, <2>6, VarParts
  <2>10. OnlyLateRequestHarms'
    <3> SUFFICES ASSUME NEW k1 \in Macs, NEW k2 \in Macs, NEW a \in Pool, k1 # k2,
                        Held(k1, a)', Held(k2, a)'
                 PROVE  FALSE
      BY DEF OnlyLateRequestHarms, Held, Live
    <3>1. a # ip
      BY <2>9
    <3>2. Held(k1, a) /\ Held(k2, a)
      BY <2>6, <3>1
    <3>3. QED
      BY <1>1, <3>2 DEF OnlyLateRequestHarms, Held
  <2>11. resp' \in Replies /\ resp'.ip = ip /\ resp'.mac = m
    BY <2>1, <2>3, <2>4 DEF Ack, Replies
  <2>12. ReplyOnlyOverLate'
    BY <2>9, <2>11 DEF ReplyOnlyOverLate, Held, Live
  <2>13. ips' \subseteq 0 .. (VarLen - 1) /\ late' \subseteq Macs \X Pool
    BY <1>1, <2>1, <2>4, VarParts
  <2>14. lease_time' \in 0 .. (Word - 1)
    BY <2>3, <2>4
  <2>15. VarNext
    BY <1>1, <1>2, <2>5, <2>8, <2>11, <2>13, <2>14, VarParts DEF VarNext, VarInv
  <2>16. QED
    BY <2>10, <2>12, <2>15, VarNextParts
<1>4. CASE Var!Refuse(m, ip)
  <2>1. resp' = Nak(m) /\ UNCHANGED <<left, ips, lease_time, late>>
    BY <1>4 DEF Var!Refuse, Var!Nak, Nak
  <2>2. resp' \in Replies /\ ReplyOnlyOverLate'
    BY <2>1 DEF Nak, Replies, ReplyOnlyOverLate
  <2>3. VarNext
    BY <1>1, <1>2, <2>1, <2>2, VarParts DEF VarNext, VarInv, Held, Live
  <2>4. QED
    BY <1>1, <2>1, <2>2, <2>3, VarNextParts DEF OnlyLateRequestHarms, Live
<1>5. QED
  BY <1>3, <1>4 DEF Var!Request

-----------------------------------------------------------------------------
(***************************************************************************)
(* BITMAP_UNITIME.  Ranges are disjoint and lie in the pool.               *)
(***************************************************************************)
LEMMA BlocksDisjoint ==
  ASSUME NEW L \in Nat \ {0}, NEW q \in Nat, NEW r \in Nat,
         NEW a \in 0 .. (L - 1), NEW b \in 0 .. (L - 1), q * L + a = r * L + b
  PROVE  q = r
<1>1. ASSUME NEW i \in Nat, NEW j \in Nat, i < j PROVE i * L + L <= j * L
  <2>1. PICK k \in Nat : j = i + 1 + k
    <3>1. j - i - 1 \in Nat /\ j = i + 1 + (j - i - 1)
      BY <1>1
    <3>2. QED
      BY <3>1
  <2>2. j * L = i * L + L + k * L
    BY <2>1
  <2>3. k * L \in Nat /\ i * L \in Nat
    OBVIOUS
  <2>4. QED
    BY <2>2, <2>3
<1>2. q * L \in Nat /\ r * L \in Nat
  OBVIOUS
<1>3. ~(q < r)
  BY <1>1, <1>2
<1>4. ~(r < q)
  BY <1>1, <1>2
<1>5. QED
  BY <1>3, <1>4

\* The ranges are not empty and lie in the pool.
LEMMA RangeLenFacts ==
  /\ Uni!RangeLen \in Nat \ {0}
  /\ NumRanges * Uni!RangeLen <= RangeSize
<1>1. RangeSize \in Nat \ {0} /\ NumRanges \in Nat \ {0}
  BY ServerAssumption, RangesAssumption DEF RangeSize
<1>2. \A i \in Nat, n \in Nat \ {0} : i \div n \in Nat /\ n * (i \div n) <= i
  OBVIOUS
<1>3. Uni!RangeLen = RangeSize \div NumRanges
  BY DEF Uni!RangeLen, Uni!RangeSize, RangeSize
<1>4. QED
  BY <1>1, <1>2, <1>3, RangesAssumption

\* An address of the pool is in at most one range.
LEMMA OneRange ==
  ASSUME NEW ip \in Int, NEW q \in Uni!Ranges, NEW r \in Uni!Ranges,
         ip - Uni!range_base(q) \in Uni!Bits, ip - Uni!range_base(r) \in Uni!Bits
  PROVE  q = r
<1> DEFINE L == Uni!RangeLen
           a == ip - Uni!range_base(q)
           b == ip - Uni!range_base(r)
<1>1. L \in Nat \ {0} /\ q \in Nat /\ r \in Nat
  BY RangeLenFacts, RangesAssumption DEF Uni!Ranges
<1>2. a \in 0 .. (L - 1) /\ b \in 0 .. (L - 1)
  BY DEF Uni!Bits
<1>3. a = ip - (PoolStart + q * L) /\ b = ip - (PoolStart + r * L)
  BY DEF Uni!range_base
<1>4. q * L \in Nat /\ r * L \in Nat
  BY <1>1
<1> HIDE DEF a, b, L
<1>5. q * L + a = r * L + b
  BY <1>3, <1>4, ServerAssumption
<1>6. QED
  BY <1>1, <1>2, <1>5, BlocksDisjoint

\* Bit b of range r is an address of the pool.
LEMMA RangeInPool ==
  ASSUME NEW r \in Uni!Ranges, NEW b \in Uni!Bits
  PROVE  /\ Uni!range_base(r) + b \in Pool
         /\ (Uni!range_base(r) + b) - Uni!range_base(r) = b
<1> DEFINE L == Uni!RangeLen
<1>1. /\ L \in Nat \ {0} /\ NumRanges * L <= RangeSize
      /\ r \in Nat /\ r + 1 <= NumRanges /\ b \in 0 .. (L - 1)
  BY RangeLenFacts, RangesAssumption DEF Uni!Ranges, Uni!Bits
<1>2. Uni!range_base(r) = PoolStart + r * L
  BY DEF Uni!range_base
<1>3. PICK k \in Nat : NumRanges = r + 1 + k
  <2>1. NumRanges - r - 1 \in Nat /\ NumRanges = r + 1 + (NumRanges - r - 1)
    BY <1>1, RangesAssumption
  <2>2. QED
    BY <2>1
<1> HIDE DEF L
<1>4. NumRanges * L = r * L + L + k * L
  BY <1>1, <1>3
<1>5. k * L \in Nat /\ r * L \in Nat
  BY <1>1
<1>6. QED
  BY <1>1, <1>2, <1>4, <1>5, ServerAssumption DEF Pool, RangeSize

\* What the invariant says, in the terms of the server.
LEMMA UniParts ==
  ASSUME UniInv
  PROVE  /\ clk \in 0 .. (ClockWrap - 1) /\ turned \in {0, 1}
         /\ left \in [Macs -> [Pool -> Nat]] /\ resp \in Replies
         /\ ips \in [Uni!Ranges -> SUBSET Uni!Bits]
         /\ expire_time \in [Uni!Ranges -> 0 .. (ClockWrap + LeaseTime)]
         /\ cur_range \in Uni!Ranges
         /\ counter \in 0 .. Uni!RangeLen \cup BootCounters
         /\ age \in [Uni!Ranges -> 0 .. LeaseTime]
         /\ late \subseteq Macs \X Pool
BY DEF UniInv, Uni!TypeOK, Uni!ServerTypeOK, Uni!Pool, Pool, Uni!Replies, Replies

UniNext ==
  /\ clk' \in 0 .. (ClockWrap - 1) /\ turned' \in {0, 1}
  /\ left' \in [Macs -> [Pool -> Nat]] /\ resp' \in Replies
  /\ ips' \in [Uni!Ranges -> SUBSET Uni!Bits]
  /\ expire_time' \in [Uni!Ranges -> 0 .. (ClockWrap + LeaseTime)]
  /\ cur_range' \in Uni!Ranges
  /\ counter' \in 0 .. Uni!RangeLen \cup BootCounters
  /\ age' \in [Uni!Ranges -> 0 .. LeaseTime]
  /\ late' \subseteq Macs \X Pool
  /\ \A m \in Macs, ip \in Pool : left'[m][ip] <= LeaseTime
  /\ \A m \in Macs, ip \in Pool : Held(m, ip)' => \E r \in Uni!Ranges : InRange(m, ip, r)'
  /\ \A r \in Uni!Ranges :
       expire_time'[r] > 0 /\ turned' = 0 => expire_time'[r] + age'[r] <= clk' + LeaseTime
  /\ \A r \in Uni!Ranges :
       expire_time'[r] > 0 /\ age'[r] = 0 => expire_time'[r] = clk' + LeaseTime

\* The parts of the invariant after a step make the invariant of BITMAP_UNITIME.
LEMMA UniNextParts == UniNext => UniInv'
<1> SUFFICES ASSUME UniNext PROVE UniInv'
  OBVIOUS
<1>1. Uni!TypeOK'
  BY DEF UniNext, Uni!TypeOK, Uni!ServerTypeOK, Uni!Pool, Pool, Uni!Replies, Replies
<1>2. QED
  BY <1>1 DEF UniNext, UniInv

\* A second passes: leases and timers keep their distance, or the lease gains.
LEMMA UniTick ==
  ASSUME IInv, UniTime, Uni!Tick
  PROVE  UniInv' /\ OnlyLateRequestHarms'
<1>1. UniInv /\ OnlyLateRequestHarms
  BY DEF IInv
<1>2. /\ clk' = NextSecond
      /\ turned' = IF NextSecond = 0 THEN 1 ELSE turned
      /\ left' = Elapsed /\ resp' = NoReply
  BY DEF Uni!Tick, Uni!Second, Uni!NextSecond, NextSecond, Uni!Elapsed, Elapsed, Uni!NoReply,
         NoReply, Uni!Pool, Pool
<1>3. /\ age' = [r \in Uni!Ranges |-> IF expire_time[r] > 0 /\ age[r] < LeaseTime
                                      THEN age[r] + 1 ELSE age[r]]
      /\ late' = {x \in late : Elapsed[x[1]][x[2]] > 0}
      /\ UNCHANGED <<ips, expire_time, cur_range, counter>>
  BY DEF Uni!Tick, Uni!Elapsed, Elapsed, Uni!Pool, Pool
<1>4. NextSecond \in 0 .. (ClockWrap - 1) /\ NextSecond <= clk + 1
  BY <1>1, UniParts, NextSecondBound
<1>5. /\ Elapsed \in [Macs -> [Pool -> Nat]]
      /\ \A m \in Macs, ip \in Pool :
           Elapsed[m][ip] > 0 => left[m][ip] > 0 /\ Elapsed[m][ip] = left[m][ip] - 1
  BY <1>1, UniParts, ElapsedType
<1>6. age' \in [Uni!Ranges -> 0 .. LeaseTime]
  <2>1. \A r \in Uni!Ranges : age[r] \in 0 .. LeaseTime
    BY <1>1, UniParts
  <2>2. QED
    BY <1>3, <2>1, ServerAssumption
<1>7. \A m \in Macs, ip \in Pool : left'[m][ip] <= LeaseTime
  <2> SUFFICES ASSUME NEW m \in Macs, NEW ip \in Pool PROVE left'[m][ip] <= LeaseTime
    OBVIOUS
  <2>1. left'[m][ip] \in Nat /\ left[m][ip] \in Nat /\ left[m][ip] <= LeaseTime
    BY <1>1, <1>2, <1>5, UniParts DEF UniInv
  <2>2. QED
    BY <1>2, <1>5, <2>1, ServerAssumption
<1>8. ASSUME NEW m \in Macs, NEW ip \in Pool, Held(m, ip)'
      PROVE  Held(m, ip) /\ \E r \in Uni!Ranges : InRange(m, ip, r)'
  <2>1. left[m][ip] \in Nat /\ left[m][ip] > 0 /\ left'[m][ip] = left[m][ip] - 1
    BY <1>1, <1>2, <1>5, <1>8, UniParts DEF Held, Live
  <2>2. <<m, ip>> \notin late
    BY <1>2, <1>3, <1>8 DEF Held, Live
  <2>3. Held(m, ip)
    BY <2>1, <2>2 DEF Held, Live
  <2>4. PICK r \in Uni!Ranges : InRange(m, ip, r)
    BY <1>1, <2>3 DEF UniInv
  <2>5. expire_time[r] \in 0 .. (ClockWrap + LeaseTime) /\ clk \in 0 .. (ClockWrap - 1)
    BY <1>1, UniParts
  <2>6. InRange(m, ip, r)'
    BY <1>2, <1>3, <1>4, <2>1, <2>4, <2>5, ServerAssumption DEF InRange
  <2>7. QED
    BY <2>6, <2>3
<1>9. ASSUME NEW r \in Uni!Ranges, expire_time'[r] > 0, turned' = 0
      PROVE  expire_time'[r] + age'[r] <= clk' + LeaseTime
  <2>1. turned = 0 /\ clk' = clk + 1
    BY <1>2, <1>9 DEF NextSecond
  <2>2. /\ expire_time[r] \in Nat /\ age[r] \in 0 .. LeaseTime /\ age'[r] \in 0 .. LeaseTime
        /\ clk \in Nat
    BY <1>1, <1>6, UniParts, ServerAssumption
  <2>3. age'[r] <= age[r] + 1
    BY <1>3, <2>2
  <2>4. expire_time[r] + age[r] <= clk + LeaseTime
    BY <1>1, <1>3, <1>9, <2>1 DEF UniInv
  <2>5. QED
    BY <1>3, <2>1, <2>2, <2>3, <2>4, ServerAssumption
<1>10. ASSUME NEW r \in Uni!Ranges PROVE ~(expire_time'[r] > 0 /\ age'[r] = 0)
  <2>1. age[r] \in 0 .. LeaseTime
    BY <1>1, UniParts
  <2>2. QED
    BY <1>3, <2>1, ServerAssumption
<1>11. turned' \in {0, 1} /\ resp' \in Replies /\ late' \subseteq Macs \X Pool
  BY <1>1, <1>2, <1>3, UniParts DEF NoReply, Replies
<1>12. UniNext
  BY <1>1, <1>2, <1>3, <1>4, <1>5, <1>6, <1>7, <1>8, <1>9, <1>10, <1>11, UniParts DEF UniNext
<1>13. OnlyLateRequestHarms'
  BY <1>1, <1>8, NoNewLease
<1>14. QED
  BY <1>12, <1>13, UniNextParts

\* The default branch only clears the reply.
LEMMA UniIgnore ==
  ASSUME IInv, UniTime, Uni!Ignore
  PROVE  UniInv' /\ OnlyLateRequestHarms'
<1>1. UniInv /\ OnlyLateRequestHarms
  BY DEF IInv
<1>2. /\ resp' = NoReply
      /\ UNCHANGED <<clk, turned, left, ips, expire_time, cur_range, counter, age, late>>
  BY DEF Uni!Ignore, Uni!NoReply, NoReply
<1>3. resp' \in Replies
  BY <1>2 DEF NoReply, Replies
<1>4. UniNext
  BY <1>1, <1>2, <1>3, UniParts DEF UniNext, UniInv, Held, Live, InRange
<1>5. QED
  BY <1>1, <1>2, <1>4, UniNextParts DEF OnlyLateRequestHarms, Live

(***************************************************************************)
(* DISCOVER.  The search in range r with bits s and timer e that covers    *)
(* the leases of r keeps them covered, also when it starts the timer, and  *)
(* finds an address that only clients who requested late may have.         *)
(***************************************************************************)
LEMMA UniPeek ==
  ASSUME UniInv, OnlyLateRequestHarms, NEW m \in Macs, NEW r \in Uni!Ranges,
         NEW s \in SUBSET Uni!Bits, NEW e \in 0 .. (ClockWrap + LeaseTime), NEW c \in Nat,
         \A n \in Macs, ip \in Pool : Held(n, ip) /\ InRange(n, ip, r) =>
            ip - Uni!range_base(r) \in s /\ (e > 0 => clk + left[n][ip] <= e),
         e > 0 => e = expire_time[r],
         Uni!Peek(m, r, s, e, c), UNCHANGED <<clk, turned, left, late>>
  PROVE  UniInv' /\ OnlyLateRequestHarms' /\ ReplyOnlyOverLate'
<1>1. /\ clk \in 0 .. (ClockWrap - 1) /\ left \in [Macs -> [Pool -> Nat]]
      /\ ips \in [Uni!Ranges -> SUBSET Uni!Bits]
      /\ expire_time \in [Uni!Ranges -> 0 .. (ClockWrap + LeaseTime)]
      /\ age \in [Uni!Ranges -> 0 .. LeaseTime]
  BY UniParts
<1>2. ips' = [ips EXCEPT ![r] = s] /\ cur_range' = r
  BY DEF Uni!Peek
<1> DEFINE E == expire_time'[r]
           A == age'[r]
<1>3. /\ expire_time' = [expire_time EXCEPT ![r] = E]
      /\ age' = [age EXCEPT ![r] = A]
      /\ \/ e > 0 /\ E = e /\ A = age[r]
         \/ e = 0 /\ E = 0 /\ A = 0
         \/ e = 0 /\ E = clk + LeaseTime /\ A = 0
  <2>1. CASE Uni!Propose(m, r, s, e, c)
    BY <1>1, <2>1 DEF Uni!Propose
  <2>2. CASE Uni!FindNothing(r, s, e, c)
    BY <1>1, <2>2 DEF Uni!FindNothing
  <2>3. QED
    BY <2>1, <2>2 DEF Uni!Peek
<1>4. E \in 0 .. (ClockWrap + LeaseTime) /\ A \in 0 .. LeaseTime
  BY <1>1, <1>3, ServerAssumption
<1>5. /\ counter' \in 0 .. Uni!RangeLen
      /\ resp' \in Replies
      /\ resp'.type # "NONE" => /\ resp'.ip \in Pool
                                /\ resp'.ip - Uni!range_base(r) \in Uni!Bits \ s
  <2> DEFINE U == Uni!Untried(s, c)
             b == Uni!Min(U)
  <2>1. U \subseteq Uni!Bits \ s /\ U \in SUBSET Nat
    BY RangeLenFacts DEF Uni!Untried, Uni!Bits
  <2>2. CASE Uni!Propose(m, r, s, e, c)
    <3>1. U # {} /\ counter' = b + 1 /\ resp' = Offer(m, Uni!range_base(r) + b, LeaseTime)
      BY <2>2 DEF Uni!Propose, Uni!Offer, Offer
    <3>2. b = Min(U)
      BY DEF Uni!Min, Min
    <3>3. b \in U
      BY <2>1, <3>1, <3>2, LeastNat
    <3>4. b \in Uni!Bits \ s
      BY <2>1, <3>3
    <3>5. /\ Uni!range_base(r) + b \in Pool
          /\ (Uni!range_base(r) + b) - Uni!range_base(r) = b
      BY <3>4, RangeInPool
    <3>6. b \in 0 .. (Uni!RangeLen - 1)
      BY <3>4 DEF Uni!Bits
    <3> HIDE DEF b, U
    <3>7. QED
      BY <3>1, <3>4, <3>5, <3>6, RangeLenFacts, ServerAssumption DEF Offer, Replies
  <2>3. CASE Uni!FindNothing(r, s, e, c)
    <3>1. counter' = Uni!RangeLen /\ resp' = NoReply
      BY <2>3 DEF Uni!FindNothing, Uni!NoReply, NoReply
    <3>2. counter' \in 0 .. Uni!RangeLen
      BY <3>1, RangeLenFacts
    <3>3. resp' \in Replies /\ resp'.type = "NONE"
      BY <3>1 DEF NoReply, Replies
    <3>4. QED
      BY <3>2, <3>3
  <2>4. QED
    BY <2>2, <2>3 DEF Uni!Peek
<1> HIDE DEF E, A
<1>6. ASSUME NEW n \in Macs, NEW ip \in Pool, Held(n, ip)'
      PROVE  Held(n, ip) /\ \E q \in Uni!Ranges : InRange(n, ip, q)'
  <2>1. left[n][ip] \in Nat /\ Held(n, ip) /\ left[n][ip] <= LeaseTime
    BY <1>1, <1>6 DEF Held, Live, UniInv
  <2>2. PICK q \in Uni!Ranges : InRange(n, ip, q)
    BY <2>1 DEF UniInv
  <2>3. CASE q = r
    <3>1. ip - Uni!range_base(r) \in s /\ (e > 0 => clk + left[n][ip] <= e)
      BY <2>1, <2>2, <2>3
    <3>2. ips'[r] = s /\ expire_time'[r] = E
      BY <1>1, <1>2, <1>3
    <3>3. E > 0 => clk + left[n][ip] <= E
      BY <1>1, <1>3, <2>1, <3>1, ServerAssumption
    <3>4. InRange(n, ip, r)'
      BY <2>2, <2>3, <3>1, <3>2, <3>3 DEF InRange
    <3>5. QED
      BY <2>1, <3>4
  <2>4. CASE q # r
    <3>1. ips'[q] = ips[q] /\ expire_time'[q] = expire_time[q]
      BY <1>1, <1>2, <1>3, <2>4
    <3>2. InRange(n, ip, q)'
      BY <2>2, <3>1 DEF InRange
    <3>3. QED
      BY <2>1, <3>2
  <2>5. QED
    BY <2>3, <2>4
<1>7. ASSUME NEW q \in Uni!Ranges, expire_time'[q] > 0, turned' = 0
      PROVE  expire_time'[q] + age'[q] <= clk' + LeaseTime
  <2>1. CASE q # r
    BY <1>1, <1>3, <1>7, <2>1 DEF UniInv
  <2>2. CASE q = r
    <3>1. expire_time'[r] = E /\ age'[r] = A
      BY DEF E, A
    <3>2. CASE e > 0 /\ E = e /\ A = age[r]
      BY <1>7, <2>2, <3>1, <3>2 DEF UniInv
    <3>3. CASE E = clk + LeaseTime /\ A = 0
      BY <1>1, <2>2, <3>1, <3>3, ServerAssumption
    <3>4. QED
      BY <1>3, <1>7, <2>2, <3>1, <3>2, <3>3
  <2>3. QED
    BY <2>1, <2>2
<1>8. ASSUME NEW q \in Uni!Ranges, expire_time'[q] > 0, age'[q] = 0
      PROVE  expire_time'[q] = clk' + LeaseTime
  <2>1. CASE q # r
    BY <1>1, <1>3, <1>8, <2>1 DEF UniInv
  <2>2. CASE q = r
    <3>1. expire_time'[r] = E /\ age'[r] = A
      BY DEF E, A
    <3>2. CASE e > 0 /\ E = e /\ A = age[r]
      BY <1>8, <2>2, <3>1, <3>2 DEF UniInv
    <3>3. CASE E = clk + LeaseTime /\ A = 0
      BY <2>2, <3>1, <3>3
    <3>4. QED
      BY <1>3, <1>8, <2>2, <3>1, <3>2, <3>3
  <2>3. QED
    BY <2>1, <2>2
<1>9. /\ ips' \in [Uni!Ranges -> SUBSET Uni!Bits]
      /\ expire_time' \in [Uni!Ranges -> 0 .. (ClockWrap + LeaseTime)]
      /\ age' \in [Uni!Ranges -> 0 .. LeaseTime]
  BY <1>1, <1>2, <1>3, <1>4
<1>10. UniNext
  BY <1>1, <1>2, <1>5, <1>6, <1>7, <1>8, <1>9, UniParts DEF UniNext, UniInv
<1>11. ReplyOnlyOverLate'
  <2> SUFFICES ASSUME resp'.type # "NONE", NEW n \in Macs, Held(n, resp.ip)' PROVE FALSE
    BY NoneHeld
  <2>1. PICK ip \in Pool : ip = resp'.ip
    BY <1>5
  <2>2. Held(n, ip)' /\ ip \in Int
    BY <2>1, ServerAssumption DEF Held, Live, Pool
  <2>3. ip - Uni!range_base(r) \in Uni!Bits \ s /\ Held(n, ip) /\ ip \in Int
    BY <1>5, <1>6, <2>1, <2>2
  <2>4. PICK q \in Uni!Ranges : InRange(n, ip, q)
    BY <2>3 DEF UniInv
  <2>5. q = r
    BY <2>3, <2>4, OneRange DEF InRange
  <2>6. QED
    BY <2>3, <2>4, <2>5
<1>12. QED
  BY <1>6, <1>10, <1>11, UniNextParts, NoNewLease

\* The next range is cleared only when its timer, hence every lease in it but late ones, has ended.
LEMMA UniDiscover ==
  ASSUME IInv, UniTime, NEW m \in Macs, Uni!Discover(m)
  PROVE  UniInv' /\ OnlyLateRequestHarms' /\ ReplyOnlyOverLate'
<1>1. UniInv /\ OnlyLateRequestHarms
  BY DEF IInv
<1>2. UNCHANGED <<clk, turned, left, late>>
  BY DEF Uni!Discover
<1>3. /\ cur_range \in Uni!Ranges /\ counter \in Nat
      /\ ips \in [Uni!Ranges -> SUBSET Uni!Bits]
      /\ expire_time \in [Uni!Ranges -> 0 .. (ClockWrap + LeaseTime)]
  <2>1. BootCounters \subseteq Nat
    BY RangesAssumption
  <2>2. Uni!RangeLen \in Nat
    BY RangeLenFacts
  <2>3. counter \in 0 .. Uni!RangeLen \/ counter \in BootCounters
    BY <1>1, UniParts
  <2>4. counter \in Nat
    <3>1. CASE counter \in 0 .. Uni!RangeLen
      BY <2>2, <3>1
    <3>2. CASE counter \in BootCounters
      BY <2>1, <3>2
    <3>3. QED
      BY <2>3, <3>1, <3>2
  <2>5. QED
    BY <1>1, <2>4, UniParts
<1>4. Uni!NextRange \in Uni!Ranges
  BY <1>3, RangesAssumption DEF Uni!NextRange, Uni!Ranges
<1>5. PICK r \in Uni!Ranges : r = Uni!NextRange
  BY <1>4
<1>6. 0 \in 0 .. (ClockWrap + LeaseTime)
  BY ServerAssumption
<1>7. CASE Uni!Peek(m, cur_range, ips[cur_range], expire_time[cur_range], counter)
  <2>1. PICK q \in Uni!Ranges : q = cur_range
    BY <1>3
  <2>2. /\ ips[q] \in SUBSET Uni!Bits /\ expire_time[q] \in 0 .. (ClockWrap + LeaseTime)
        /\ Uni!Peek(m, q, ips[q], expire_time[q], counter)
    BY <1>3, <1>7, <2>1
  <2>3. \A n \in Macs, ip \in Pool : Held(n, ip) /\ InRange(n, ip, q) =>
          ip - Uni!range_base(q) \in ips[q] /\ (expire_time[q] > 0 => clk + left[n][ip] <= expire_time[q])
    BY DEF InRange
  <2>4. QED
    BY <1>1, <1>2, <1>3, <2>2, <2>3, UniPeek
<1>8. CASE Uni!RunOut(r) /\ Uni!Peek(m, r, {}, 0, 0)
  <2>1. \A n \in Macs, ip \in Pool : ~(Held(n, ip) /\ InRange(n, ip, r))
    <3> SUFFICES ASSUME NEW n \in Macs, NEW ip \in Pool, Held(n, ip), InRange(n, ip, r) PROVE FALSE
      OBVIOUS
    <3>1. left[n][ip] \in Nat /\ clk \in Nat /\ expire_time[r] \in Nat
      BY <1>1, UniParts, ServerAssumption
    <3>2. QED
      BY <1>8, <3>1 DEF Uni!RunOut, Held, Live, InRange
  <2>2. QED
    BY <1>1, <1>2, <1>6, <1>8, <2>1, UniPeek
<1>9. CASE expire_time[r] = 0 /\ Uni!Peek(m, r, ips[r], 0, 0)
  <2>1. ips[r] \in SUBSET Uni!Bits
    BY <1>3
  <2>2. \A n \in Macs, ip \in Pool : InRange(n, ip, r) => ip - Uni!range_base(r) \in ips[r]
    BY DEF InRange
  <2>3. QED
    BY <1>1, <1>2, <1>6, <1>9, <2>1, <2>2, UniPeek
<1>10. CASE resp' = Uni!NoReply /\ UNCHANGED <<ips, expire_time, cur_range, counter, age>>
  <2>1. resp' = NoReply /\ resp' \in Replies
    BY <1>10 DEF Uni!NoReply, NoReply, Replies
  <2>2. UniNext
    BY <1>1, <1>2, <1>10, <2>1, UniParts DEF UniNext, UniInv, Held, Live, InRange
  <2>3. QED
    BY <1>1, <1>2, <2>1, <2>2, UniNextParts, NoNewLease DEF ReplyOnlyOverLate, NoReply, Held, Live
<1>11. QED
  BY <1>5, <1>7, <1>8, <1>9, <1>10 DEF Uni!Discover

(***************************************************************************)
(* REQUEST.  The clear bit shows that only clients who requested late may  *)
(* have the address.  The new lease ends no later than the timer, if that  *)
(* has started at all, or is a late one itself.                            *)
(***************************************************************************)
LEMMA UniRequest ==
  ASSUME IInv, UniTime, NEW m \in Macs, NEW ip \in Requested, Uni!Request(m, ip)
  PROVE  UniInv' /\ OnlyLateRequestHarms' /\ ReplyOnlyOverLate'
<1>1. UniInv /\ OnlyLateRequestHarms
  BY DEF IInv
<1>2. UNCHANGED <<clk, turned, expire_time, cur_range, counter, age>>
  BY DEF Uni!Request
<1>3. CASE Uni!Commit(m, ip)
  <2>1. PICK r \in Uni!Ranges : r = cur_range
    BY <1>1, UniParts
  <2> DEFINE b == ip - Uni!range_base(r)
  <2>2. ip \in Pool /\ b \in Uni!Bits \ ips[r] /\ ips' = [ips EXCEPT ![r] = ips[r] \cup {b}]
    BY <1>3, <2>1 DEF Uni!Commit, Uni!Available, Uni!Bit, Uni!Pool, Pool
  <2>3. resp' = Ack(m, ip, LeaseTime) /\ Grant(m, ip, LeaseTime)
    BY <1>3 DEF Uni!Commit, Uni!Ack, Ack, Uni!Grant, Grant
  <2>4. LeaseTime \in Nat \ {0} /\ ip \in Int
    BY <2>2, ServerAssumption DEF Pool
  <2>5. /\ left' \in [Macs -> [Pool -> Nat]]
        /\ left'[m][ip] = LeaseTime
        /\ \A k \in Macs, a \in Pool : <<k, a>> # <<m, ip>> => left'[k][a] = left[k][a]
    BY <1>1, <2>2, <2>3, <2>4, UniParts, GrantEffect
  <2>6. /\ ips' \in [Uni!Ranges -> SUBSET Uni!Bits]
        /\ b \in ips'[r] /\ \A q \in Uni!Ranges : ips[q] \subseteq ips'[q]
    BY <1>1, <2>2, UniParts
  <2>7. late' = IF Uni!LateRequest THEN late \cup {<<m, ip>>} ELSE late \ {<<m, ip>>}
    BY <1>3 DEF Uni!Commit
  <2>8. ASSUME NEW k \in Macs, NEW a \in Pool, <<k, a>> # <<m, ip>>, Held(k, a)'
         PROVE  Held(k, a)
    BY <2>5, <2>7, <2>8 DEF Held, Live
  <2>9. ASSUME NEW k \in Macs \ {m} PROVE ~Held(k, ip)'
    <3> SUFFICES ASSUME Held(k, ip) PROVE FALSE
      BY <2>2, <2>8
    <3>1. PICK q \in Uni!Ranges : InRange(k, ip, q)
      BY <1>1, <2>2 DEF UniInv
    <3>2. q = r
      BY <2>2, <2>4, <3>1, OneRange DEF InRange
    <3>3. QED
      BY <2>2, <3>1, <3>2 DEF InRange
  <2>10. ASSUME NEW k \in Macs, NEW a \in Pool, Held(k, a)'
        PROVE  \E q \in Uni!Ranges : InRange(k, a, q)'
    <3>1. CASE <<k, a>> = <<m, ip>>
      <4>1. k = m /\ a = ip
        BY <3>1
      <4>2. ~(expire_time[r] > 0 /\ age[r] > 0)
        BY <2>1, <2>10, <2>7, <4>1 DEF Uni!LateRequest, Held
      <4>3. age[r] \in Nat /\ expire_time[r] \in Nat
        BY <1>1, UniParts
      <4>4. expire_time[r] > 0 => expire_time[r] = clk + LeaseTime
        BY <1>1, <4>2, <4>3 DEF UniInv
      <4>5. expire_time'[r] > 0 => clk' + left'[k][a] <= expire_time'[r]
        BY <1>2, <2>4, <2>5, <4>1, <4>3, <4>4
      <4>6. InRange(k, a, r)'
        BY <2>2, <2>6, <4>1, <4>5 DEF InRange
      <4>7. QED
        BY <4>6
    <3>2. CASE <<k, a>> # <<m, ip>>
      <4>1. left'[k][a] = left[k][a] /\ Held(k, a)
        BY <2>5, <2>10, <2>8, <3>2
      <4>2. PICK q \in Uni!Ranges : InRange(k, a, q)
        BY <1>1, <4>1 DEF UniInv
      <4>3. InRange(k, a, q)'
        BY <1>2, <2>6, <4>1, <4>2 DEF InRange
      <4>4. QED
        BY <4>3
    <3>3. QED
      BY <3>1, <3>2
  <2>11. \A k \in Macs, a \in Pool : left'[k][a] <= LeaseTime
    <3> SUFFICES ASSUME NEW k \in Macs, NEW a \in Pool PROVE left'[k][a] <= LeaseTime
      OBVIOUS
    <3>1. CASE <<k, a>> = <<m, ip>>
      BY <2>4, <2>5, <3>1
    <3>2. CASE <<k, a>> # <<m, ip>>
      BY <1>1, <2>5, <3>2 DEF UniInv
    <3>3. QED
      BY <3>1, <3>2
  <2>12. OnlyLateRequestHarms'
    <3> SUFFICES ASSUME NEW k1 \in Macs, NEW k2 \in Macs, NEW a \in Pool, k1 # k2,
                        Held(k1, a)', Held(k2, a)'
                 PROVE  FALSE
      BY DEF OnlyLateRequestHarms, Held, Live
    <3>1. a # ip
      BY <2>9
    <3>2. Held(k1, a) /\ Held(k2, a)
      BY <2>8, <3>1
    <3>3. QED
      BY <1>1, <3>2 DEF OnlyLateRequestHarms, Held
  <2>13. resp' \in Replies /\ resp'.ip = ip /\ resp'.mac = m
    BY <2>2, <2>3, <2>4 DEF Ack, Replies
  <2>14. ReplyOnlyOverLate'
    BY <2>9, <2>13 DEF ReplyOnlyOverLate, Held, Live
  <2>15. late' \subseteq Macs \X Pool
    BY <1>1, <2>2, <2>7, UniParts
  <2>16. UniNext
    <3>1. /\ clk' \in 0 .. (ClockWrap - 1) /\ turned' \in {0, 1}
          /\ expire_time' \in [Uni!Ranges -> 0 .. (ClockWrap + LeaseTime)]
          /\ cur_range' \in Uni!Ranges
          /\ counter' \in 0 .. Uni!RangeLen \cup BootCounters
          /\ age' \in [Uni!Ranges -> 0 .. LeaseTime]
      BY <1>1, <1>2, UniParts
    <3>2. /\ \A q \in Uni!Ranges :
               expire_time'[q] > 0 /\ turned' = 0 => expire_time'[q] + age'[q] <= clk' + LeaseTime
          /\ \A q \in Uni!Ranges :
               expire_time'[q] > 0 /\ age'[q] = 0 => expire_time'[q] = clk' + LeaseTime
      BY <1>1, <1>2 DEF UniInv
    <3>3. QED
      BY <2>5, <2>6, <2>10, <2>11, <2>13, <2>15, <3>1, <3>2 DEF UniNext
  <2>17. QED
    BY <2>12, <2>16, <2>14, UniNextParts
<1>4. CASE Uni!Refuse(m, ip)
  <2>1. resp' = Nak(m) /\ UNCHANGED <<left, ips, late>>
    BY <1>4 DEF Uni!Refuse, Uni!Nak, Nak
  <2>2. resp' \in Replies /\ ReplyOnlyOverLate'
    BY <2>1 DEF Nak, Replies, ReplyOnlyOverLate
  <2>3. UniNext
    BY <1>1, <1>2, <2>1, <2>2, UniParts DEF UniNext, UniInv, Held, Live, InRange
  <2>4. QED
    BY <1>1, <2>1, <2>2, <2>3, UniNextParts DEF OnlyLateRequestHarms, Live
<1>5. QED
  BY <1>3, <1>4 DEF Uni!Request

-----------------------------------------------------------------------------
(***************************************************************************)
(* Both modes together.                                                    *)
(***************************************************************************)
LEMMA InitIInv == Init => IInv
<1> SUFFICES ASSUME Init PROVE IInv
  OBVIOUS
<1>1. mode \in {"BITMAP_VARTIME", "BITMAP_UNITIME"}
  BY DEF Init
<1>2. Var!ServerInit
  BY <1>1 DEF Init, VarTime, UniTime, Var!Init, Uni!Init, Var!ServerInit, Uni!ServerInit,
              Var!Pool, Uni!Pool, Var!NoReply, Uni!NoReply
<1>3. /\ clk = 0 /\ turned = 0 /\ left = [m \in Macs |-> [ip \in Pool |-> 0]] /\ resp = NoReply
  BY <1>2 DEF Var!ServerInit, Var!Pool, Pool, Var!NoReply, NoReply
<1>4. /\ clk \in 0 .. (ClockWrap - 1) /\ turned \in {0, 1}
      /\ left \in [Macs -> [Pool -> Nat]] /\ resp \in Replies
      /\ \A m \in Macs, ip \in Pool : left[m][ip] = 0
  BY <1>3, ServerAssumption DEF NoReply, Replies
<1>5. OnlyLateRequestHarms
  BY <1>4 DEF OnlyLateRequestHarms, Live
<1>6. ASSUME VarTime PROVE VarInv
  <2>1. /\ ips = {} /\ expire_time = 0 /\ counter = 0 /\ lease_time = LeaseTime /\ age = 0
        /\ late = {}
    BY <1>6 DEF Init, Var!Init
  <2>2. lease_time \in 0 .. (Word - 1) /\ counter \in 0 .. VarLen
    BY <2>1, ServerAssumption, RangesAssumption
  <2>3. QED
    BY <1>4, <2>1, <2>2, ServerAssumption
       DEF VarInv, Var!TypeOK, Var!ServerTypeOK, Var!LeaseWithinTimer, Var!Live, Var!Bits,
           Var!Pool, Pool, Var!Replies, Replies
<1>7. ASSUME UniTime PROVE UniInv
  <2>1. /\ ips = [r \in Uni!Ranges |-> {}] /\ expire_time = [r \in Uni!Ranges |-> 0]
        /\ cur_range = 0 /\ counter \in BootCounters /\ age = [r \in Uni!Ranges |-> 0]
        /\ late = {}
    BY <1>7 DEF Init, Uni!Init
  <2>2. cur_range \in Uni!Ranges
    BY <2>1, RangesAssumption DEF Uni!Ranges
  <2>3. Uni!TypeOK
    BY <1>4, <2>1, <2>2, ServerAssumption
       DEF Uni!TypeOK, Uni!ServerTypeOK, Uni!Pool, Pool, Uni!Replies, Replies
  <2>4. QED
    BY <1>4, <2>1, <2>3, ServerAssumption DEF UniInv, Held, Live
<1>8. QED
  BY <1>1, <1>5, <1>6, <1>7 DEF IInv

\* ReplyOnlyOverLate needs the invariant and is kept by every step on top of it.
LEMMA NextIInv ==
  ASSUME IInv, ReplyOnlyOverLate, [Next]_vars
  PROVE  IInv' /\ ReplyOnlyOverLate'
<1>1. CASE UNCHANGED vars
  <2>1. UNCHANGED <<clk, turned, left, resp, mode, ips, expire_time, cur_range, counter,
                    lease_time, age, late>>
    BY <1>1 DEF vars
  <2>2. IInv'
    <3>1. OnlyLateRequestHarms' <=> OnlyLateRequestHarms
      BY <2>1 DEF OnlyLateRequestHarms, Live
    <3>2. VarInv' <=> VarInv
      BY <2>1 DEF VarInv, Var!TypeOK, Var!ServerTypeOK, Var!LeaseWithinTimer, Var!Live
    <3>3. Uni!TypeOK' <=> Uni!TypeOK
      BY <2>1 DEF Uni!TypeOK, Uni!ServerTypeOK
    <3>4. UniInv' <=> UniInv
      BY <2>1, <3>3 DEF UniInv, Held, Live, InRange
    <3>5. mode' = mode /\ (VarTime' <=> VarTime) /\ (UniTime' <=> UniTime)
      BY <2>1 DEF VarTime, UniTime
    <3>6. QED
      BY <3>1, <3>2, <3>4, <3>5 DEF IInv
  <2>3. ReplyOnlyOverLate'
    BY <2>1 DEF ReplyOnlyOverLate, Live
  <2>4. QED
    BY <2>2, <2>3
<1>2. ASSUME Next, VarTime PROVE VarInv' /\ OnlyLateRequestHarms' /\ ReplyOnlyOverLate'
  <2>1. Var!Next
    BY <1>2 DEF Next, VarTime, UniTime
  <2>2. resp'.type = "NONE" => ReplyOnlyOverLate'
    BY DEF ReplyOnlyOverLate
  <2>3. CASE Var!Tick
    BY <1>2, <2>2, <2>3, VarTick DEF Var!Tick, Var!Second, Var!NoReply
  <2>4. CASE Var!Ignore
    BY <1>2, <2>2, <2>4, VarIgnore DEF Var!Ignore, Var!NoReply
  <2>5. CASE \E m \in Macs : Var!Discover(m)
    BY <1>2, <2>5, VarDiscover
  <2>6. CASE \E m \in Macs, ip \in Requested : Var!Request(m, ip)
    BY <1>2, <2>6, VarRequest
  <2>7. QED
    BY <2>1, <2>3, <2>4, <2>5, <2>6 DEF Var!Next, Var!Requested, Requested
<1>3. ASSUME Next, UniTime PROVE UniInv' /\ OnlyLateRequestHarms' /\ ReplyOnlyOverLate'
  <2>1. Uni!Next
    BY <1>3 DEF Next, VarTime, UniTime
  <2>2. resp'.type = "NONE" => ReplyOnlyOverLate'
    BY DEF ReplyOnlyOverLate
  <2>3. CASE Uni!Tick
    BY <1>3, <2>2, <2>3, UniTick DEF Uni!Tick, Uni!Second, Uni!NoReply
  <2>4. CASE Uni!Ignore
    BY <1>3, <2>2, <2>4, UniIgnore DEF Uni!Ignore, Uni!NoReply
  <2>5. CASE \E m \in Macs : Uni!Discover(m)
    BY <1>3, <2>5, UniDiscover
  <2>6. CASE \E m \in Macs, ip \in Requested : Uni!Request(m, ip)
    BY <1>3, <2>6, UniRequest
  <2>7. QED
    BY <2>1, <2>3, <2>4, <2>5, <2>6 DEF Uni!Next, Uni!Requested, Requested
<1>4. CASE Next
  <2>1. mode' = mode
    BY <1>4 DEF Next
  <2>2. VarTime \/ UniTime
    BY DEF IInv, VarTime, UniTime
  <2>3. (VarTime' <=> VarTime) /\ (UniTime' <=> UniTime) /\ ~(VarTime /\ UniTime)
    BY <2>1 DEF VarTime, UniTime
  <2>4. mode' \in {"BITMAP_VARTIME", "BITMAP_UNITIME"}
    BY <2>1 DEF IInv
  <2>5. QED
    BY <1>2, <1>3, <1>4, <2>2, <2>3, <2>4 DEF IInv
<1>5. QED
  BY <1>1, <1>4

\* The inductive invariant holds, and with it no reply is over a lease that was not late.
LEMMA IInvAlways == Spec => [](IInv /\ ReplyOnlyOverLate)
<1>1. Init => ReplyOnlyOverLate
  <2>1. Init => resp.type = "NONE"
    BY DEF Init, VarTime, UniTime, Var!Init, Uni!Init, Var!ServerInit, Uni!ServerInit,
           Var!NoReply, Uni!NoReply
  <2>2. QED
    BY <2>1 DEF ReplyOnlyOverLate
<1>2. QED
  BY InitIInv, NextIInv, <1>1, PTL DEF Spec

(***************************************************************************)
(* Type correctness of both back ends: in particular counter never runs    *)
(* past its range, whatever dhcp_bmpool_uni_init found in it.              *)
(***************************************************************************)
THEOREM TypeCorrect == Spec => []TypeOK
<1>1. IInv => TypeOK
  BY DEF IInv, VarInv, UniInv, TypeOK
<1>2. QED
  BY IInvAlways, <1>1, PTL

(***************************************************************************)
(* A running lease that was not requested late has its bit set and does    *)
(* not outlive the timer of its range: recycling a range never hits one.   *)
(***************************************************************************)
THEOREM LeaseAlwaysWithinTimer == Spec => []LeaseWithinTimer
<1>1. ASSUME UniInv, NEW r \in Uni!Ranges, NEW x \in Uni!Running(r)
      PROVE  /\ x[2] \in ips[r]
             /\ expire_time[r] > 0 =>
                  clk + left[x[1]][Uni!range_base(r) + x[2]] <= expire_time[r]
  <2>1. x[1] \in Macs /\ x[2] \in Uni!Bits /\ Held(x[1], Uni!range_base(r) + x[2])
    BY DEF Uni!Running, Uni!Live, Held, Live
  <2>2. PICK ip \in Pool : ip = Uni!range_base(r) + x[2] /\ ip - Uni!range_base(r) = x[2]
    BY <2>1, RangeInPool
  <2>3. PICK q \in Uni!Ranges : InRange(x[1], ip, q)
    BY <1>1, <2>1, <2>2 DEF UniInv
  <2>4. q = r
    <3>1. ip \in Int
      BY <2>2, ServerAssumption DEF Pool
    <3>2. QED
      BY <2>1, <2>2, <2>3, <3>1, OneRange DEF InRange
  <2>5. QED
    BY <2>2, <2>3, <2>4 DEF InRange
<1>2. IInv => LeaseWithinTimer
  BY <1>1 DEF IInv, VarInv, LeaseWithinTimer, Uni!LeaseWithinTimer
<1>3. QED
  BY IInvAlways, <1>2, PTL

(***************************************************************************)
(* With any number of clients who request when they please, two of them    *)
(* hold an address of a back end that knows no clients only if one of them *)
(* requested it late.                                                      *)
(***************************************************************************)
THEOREM OnlyLateRequestsHarm == Spec => []OnlyLateRequestHarms
<1>1. IInv => OnlyLateRequestHarms
  BY DEF IInv
<1>2. QED
  BY IInvAlways, <1>1, PTL

(***************************************************************************)
(* Whoever is answered, in time or late, the OFFER or ACK names an address *)
(* on which no other client's lease runs, but for one requested late.      *)
(***************************************************************************)
THEOREM RepliesOnlyOverLate == Spec => []ReplyOnlyOverLate
BY IInvAlways, PTL

(***************************************************************************)
(* Until the clock turns, the one range of vartime mode, full or not,      *)
(* answers as soon as its timer has run for LeaseTime seconds.             *)
(***************************************************************************)
THEOREM RangeAlwaysResets == Spec => RangeResets
<1> DEFINE Step == \A m \in Macs :
             VarTime /\ turned = 0 /\ age = LeaseTime /\ Var!Discover(m) => resp'.type = "OFFER"
<1>1. ASSUME IInv PROVE Step
  <2> SUFFICES ASSUME NEW m \in Macs, VarTime, turned = 0, age = LeaseTime, Var!Discover(m)
               PROVE  resp'.type = "OFFER"
    OBVIOUS
  <2>1. VarInv
    BY <1>1 DEF IInv
  <2>2. expire_time \in Nat /\ clk \in Nat
    BY <2>1, VarParts, ServerAssumption
  <2>3. Var!RunOut
    BY <2>1, <2>2, ServerAssumption DEF Var!RunOut, VarInv
  <2>4. Var!Peek(m, {}, 0, 0)
    BY <2>3 DEF Var!Discover
  <2>5. 0 \in Var!Untried({}, 0)
    BY RangesAssumption DEF Var!Untried, Var!Bits
  <2>6. Var!Propose(m, {}, 0)
    BY <2>4, <2>5 DEF Var!Peek, Var!FindNothing
  <2>7. QED
    BY <2>6 DEF Var!Propose, Var!Offer
<1>2. IInv => [Step]_vars
  BY <1>1
<1>3. QED
  BY IInvAlways, <1>2, PTL DEF RangeResets

(***************************************************************************)
(* Until the clock turns, the rotation of unitime mode serves from the     *)
(* next range as soon as its timer has run for LeaseTime seconds.          *)
(***************************************************************************)
THEOREM OldRangeAlwaysServes == Spec => OldRangeServesAgain
<1> DEFINE Step == \A m \in Macs :
             /\ UniTime /\ turned = 0 /\ Uni!AtEnd
             /\ expire_time[Uni!NextRange] > 0 /\ age[Uni!NextRange] = LeaseTime
             /\ Uni!Discover(m)
             => resp'.type = "OFFER"
<1>1. ASSUME IInv PROVE Step
  <2> SUFFICES ASSUME NEW m \in Macs, UniTime, turned = 0, Uni!AtEnd,
                      expire_time[Uni!NextRange] > 0, age[Uni!NextRange] = LeaseTime,
                      Uni!Discover(m)
               PROVE  resp'.type = "OFFER"
    OBVIOUS
  <2>1. UniInv
    BY <1>1 DEF IInv
  <2>2. PICK r \in Uni!Ranges : r = Uni!NextRange
    <3>1. cur_range \in Uni!Ranges
      BY <2>1, UniParts
    <3>2. QED
      BY <3>1, RangesAssumption DEF Uni!NextRange, Uni!Ranges
  <2>3. expire_time[r] \in Nat /\ clk \in Nat
    BY <2>1, UniParts, ServerAssumption
  <2>4. Uni!RunOut(r)
    BY <2>1, <2>2, <2>3, ServerAssumption DEF UniInv, Uni!RunOut
  <2>5. Uni!Peek(m, r, {}, 0, 0)
    BY <2>2, <2>4 DEF Uni!Discover
  <2>6. 0 \in Uni!Untried({}, 0)
    BY RangeLenFacts DEF Uni!Untried, Uni!Bits
  <2>7. Uni!Propose(m, r, {}, 0, 0)
    BY <2>5, <2>6 DEF Uni!Peek, Uni!FindNothing
  <2>8. QED
    BY <2>7 DEF Uni!Propose, Uni!Offer
<1>2. IInv => [Step]_vars
  BY <1>1
<1>3. QED
  BY IInvAlways, <1>2, PTL DEF OldRangeServesAgain
=============================================================================
