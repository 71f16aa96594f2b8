--------------------------- MODULE BenchLiveProofs --------------------------
(***************************************************************************)
(* Theorems about the NPRC server and about the asynchronous benchmark     *)
(* that runs against it, for any number of workers, clients, xids,         *)
(* retries, addresses and frames under way.                                *)
(***************************************************************************)
EXTENDS BenchLive, WellFoundedInduction, TLAPS

-----------------------------------------------------------------------------
(***************************************************************************)
(* The server behind the benchmark, for every pool, window size and lease  *)
(* time.  The inductive invariant ties the sliding window to the history   *)
(* of offers and acknowledgements, which the server itself does not keep.  *)
(***************************************************************************)

(***************************************************************************)
(* Min of a non-empty set of naturals is its least element: the C loops    *)
(* that stop at the first hit are modelled with Min.                       *)
(***************************************************************************)
LEMMA LeastNat ==
  ASSUME NEW S \in SUBSET Nat, S # {}
  PROVE  Min(S) \in S /\ \A y \in S : Min(S) <= y
<1> DEFINE Below == {p \in Nat \X Nat : p[1] < p[2]}
<1>1. IsWellFoundedOn(Below, Nat)
  BY NatLessThanWellFounded DEF OpToRel
<1>2. PICK x \in S : \A y \in S : ~(<<y, x>> \in Below)
  BY <1>1, WFMin
<1>3. \A y \in S : x <= y
  <2> SUFFICES ASSUME NEW y \in S, ~(x <= y) PROVE FALSE
    OBVIOUS
  <2>1. x \in Nat /\ y \in Nat /\ y < x
    OBVIOUS
  <2>2. <<y, x>> \in Below
    BY <2>1
  <2>3. QED
    BY <1>2, <2>2
<1>4. QED
  BY <1>3 DEF Min

\* The time left to the clients is a number of seconds, also after a second.
LEMMA ElapsedType ==
  ASSUME left \in [Macs -> [Pool -> Nat]]
  PROVE  /\ Elapsed \in [Macs -> [Pool -> Nat]]
         /\ \A m \in Macs, ip \in Pool :
              Elapsed[m][ip] > 0 => left[m][ip] > 0 /\ Elapsed[m][ip] = left[m][ip] - 1
<1>1. \A m \in Macs : \A ip \in Pool : left[m][ip] \in Nat
  OBVIOUS
<1>2. ASSUME NEW m \in Macs PROVE Elapsed[m] \in [Pool -> Nat]
  <2>1. Elapsed[m] = [ip \in Pool |-> IF left[m][ip] = 0 THEN 0 ELSE left[m][ip] - 1]
    BY DEF Elapsed
  <2>2. \A ip \in Pool : (IF left[m][ip] = 0 THEN 0 ELSE left[m][ip] - 1) \in Nat
    BY <1>1
  <2>3. QED
    BY <2>1, <2>2
<1>3. QED
  BY <1>1, <1>2 DEF Elapsed

\* The adapter's clock stays below its period and gains at most one second.
LEMMA NextSecondBound ==
  ASSUME clk \in 0 .. (ClockWrap - 1)
  PROVE  NextSecond \in 0 .. (ClockWrap - 1) /\ NextSecond <= clk + 1
BY ServerAssumption DEF NextSecond

\* After an ACK for ip the requester's time on ip is n; the rest is unchanged.
LEMMA GrantEffect ==
  ASSUME left \in [Macs -> [Pool -> Nat]], NEW m \in Macs, NEW ip \in Pool, NEW n \in Nat,
         Grant(m, ip, n)
  PROVE  /\ left' \in [Macs -> [Pool -> Nat]]
         /\ left'[m][ip] = n
         /\ \A k \in Macs, a \in Pool : <<k, a>> # <<m, ip>> => left'[k][a] = left[k][a]
<1>1. left' = [left EXCEPT ![m] = [left[m] EXCEPT ![ip] = n]]
  BY DEF Grant
<1>2. [left[m] EXCEPT ![ip] = n] \in [Pool -> Nat]
  OBVIOUS
<1>3. QED
  BY <1>1, <1>2

-----------------------------------------------------------------------------
\* The set bits of a window at base with next bits in use, when the addresses
\* of A have been acknowledged.
Window(base, next, A) == {b \in 0 .. (next - 1) : PoolStart + base + b \in A}

\* A lease runs only on an address that was acknowledged, hence offered.
HistoryCovers ==
  /\ acked \subseteq offered
  /\ \A m \in Macs, ip \in Pool : Live(m, ip) => ip \in acked

ServerInv == TypeOK /\ WindowExact /\ HistoryCovers /\ NoDoubleGrant

\* Shifting the bitmap by n and moving the base by n describes the same addresses.
LEMMA ShiftKeepsWindow ==
  ASSUME NEW base \in Nat, NEW next \in Nat, NEW n \in 0 .. next, NEW A
  PROVE  ShiftRight(Window(base, next, A), n) = Window(base + n, next - n, A)
<1>1. ASSUME NEW x \in ShiftRight(Window(base, next, A), n)
      PROVE  x \in Window(base + n, next - n, A)
  <2>1. PICK b \in Window(base, next, A) : b >= n /\ x = b - n
    BY <1>1 DEF ShiftRight
  <2>2. b \in 0 .. (next - 1) /\ PoolStart + base + b \in A
    BY <2>1 DEF Window
  <2>3. x \in 0 .. (next - n - 1)
    BY <2>1, <2>2
  <2>4. PoolStart + (base + n) + x = PoolStart + base + b
    BY <2>1, <2>2, ServerAssumption
  <2>5. QED
    BY <2>2, <2>3, <2>4 DEF Window
<1>2. ASSUME NEW x \in Window(base + n, next - n, A)
      PROVE  x \in ShiftRight(Window(base, next, A), n)
  <2>1. x \in 0 .. (next - n - 1) /\ PoolStart + (base + n) + x \in A
    BY <1>2 DEF Window
  <2>2. x + n \in 0 .. (next - 1) /\ x + n >= n /\ x = (x + n) - n
    BY <2>1
  <2>3. PoolStart + base + (x + n) = PoolStart + (base + n) + x
    BY <2>1, ServerAssumption
  <2>4. x + n \in Window(base, next, A)
    BY <2>1, <2>2, <2>3 DEF Window
  <2>5. QED
    BY <2>2, <2>4 DEF ShiftRight
<1>3. QED
  BY <1>1, <1>2

\* What a flush drops is part of the window.
LEMMA FlushedBound ==
  ASSUME TypeOK
  PROVE  Flushed \in 0 .. offer_next /\ BitmapFlush \in Nat /\ BitmapFlush <= BitmapSize
BY BitmapAssumption DEF Flushed, BitmapFlush, TypeOK

\* Consequences of the invariant that the steps below use.
LEMMA Frontier ==
  ASSUME ServerInv
  PROVE  /\ PoolStart + cache_base + offer_next <= PoolEnd + 1
         /\ Candidate = PoolStart + cache_base + offer_next
         /\ cache_base \in Nat /\ offer_next \in 0 .. BitmapSize /\ BitmapSize \in Nat
         /\ ack_bitmap = Window(cache_base, offer_next, acked)
<1>1. cache_base \in Nat /\ offer_next \in 0 .. BitmapSize /\ BitmapSize \in Nat
  BY BitmapAssumption DEF ServerInv, TypeOK
<1>2. PoolStart + cache_base + offer_next <= PoolEnd + 1
  <2> DEFINE last == PoolStart + cache_base + offer_next - 1
  <2>1. last \in Int /\ (last >= PoolStart => last \in PoolStart .. last)
    BY <1>1, ServerAssumption
  <2>2. last >= PoolStart => last \in Pool
    BY <2>1 DEF ServerInv, TypeOK, WindowExact
  <2>3. QED
    BY <1>1, <2>1, <2>2, ServerAssumption DEF Pool
<1>3. Candidate = PoolStart + cache_base + offer_next
  BY <1>1, FlushedBound, ServerAssumption DEF Candidate, ServerInv
<1>4. QED
  BY <1>1, <1>2, <1>3 DEF ServerInv, WindowExact, Window

\* A window is in place when its base and its bits fit the histories.
LEMMA WindowTypes ==
  ASSUME NEW base \in Nat, NEW next \in 0 .. BitmapSize, NEW A
  PROVE  Window(base, next, A) \subseteq 0 .. (BitmapSize - 1)
BY BitmapAssumption DEF Window

\* Initially nothing was offered and the window is empty.
LEMMA InitServerInv == Init => ServerInv
<1> SUFFICES ASSUME Init PROVE ServerInv
  OBVIOUS
<1>1. TypeOK
  BY ServerAssumption, BitmapAssumption
     DEF Init, ServerInit, TypeOK, ServerTypeOK, Replies, NoReply
<1>2. WindowExact
  BY ServerAssumption DEF Init, WindowExact
<1>3. HistoryCovers /\ NoDoubleGrant
  BY DEF Init, ServerInit, HistoryCovers, NoDoubleGrant, Live
<1>4. QED
  BY <1>1, <1>2, <1>3 DEF ServerInv

\* DISCOVER moves the window, and at most one address from fresh to offered.
LEMMA DiscoverStep ==
  ASSUME ServerInv, NEW m \in Macs, Discover(m)
  PROVE  ServerInv'
<1> DEFINE front == PoolStart + cache_base + offer_next
<1> USE DEF ServerInv
<1>1. /\ cache_base \in Nat /\ offer_next \in 0 .. BitmapSize /\ BitmapSize \in Nat
      /\ front <= PoolEnd + 1 /\ Candidate = front /\ front \in Nat
      /\ ack_bitmap = Window(cache_base, offer_next, acked)
  BY Frontier, ServerAssumption
<1>2. Flushed \in 0 .. offer_next /\ offer_next - Flushed + 1 \in 0 .. BitmapSize
  BY <1>1, FlushedBound, BitmapAssumption DEF Flushed, BitmapFlush
<1>3. /\ cache_base' = cache_base + Flushed
      /\ ack_bitmap' = Window(cache_base + Flushed, offer_next - Flushed, acked)
      /\ acked' = acked /\ left' = left /\ clk' = clk /\ turned' = turned
  BY <1>1, <1>2, ShiftKeepsWindow DEF Discover
<1>4. offered = PoolStart .. (front - 1) /\ front \notin acked /\ acked \subseteq Pool
  BY <1>1, ServerAssumption DEF WindowExact, HistoryCovers, TypeOK
<1>5. CASE Candidate > PoolEnd
  <2>1. offer_next' = offer_next - Flushed /\ resp' = NoReply /\ offered' = offered
    BY <1>5, <1>1, ServerAssumption DEF Discover
  <2>2. PoolStart + cache_base' + offer_next' = front
    BY <1>1, <1>2, <1>3, <2>1, ServerAssumption
  <2>3. ack_bitmap' = Window(cache_base', offer_next', acked')
    BY <1>3, <2>1
  <2>4. cache_base' \in Nat /\ offer_next' \in 0 .. BitmapSize
    BY <1>1, <1>2, <1>3, <2>1
  <2>5. ack_bitmap' \subseteq 0 .. (BitmapSize - 1)
    BY <2>3, <2>4, WindowTypes
  <2>6. TypeOK'
    BY <1>3, <2>1, <2>4, <2>5 DEF TypeOK, ServerTypeOK, Replies, NoReply
  <2>7. WindowExact'
    <3>1. PoolStart + cache_base' + offer_next' - 1 = front - 1
      <4>1. PoolStart + cache_base' + offer_next' - 1 = (PoolStart + cache_base' + offer_next') - 1
        BY <1>1, <2>4, ServerAssumption
      <4>2. QED
        BY <1>1, <2>2, <4>1
    <3>2. offered' = PoolStart .. (PoolStart + cache_base' + offer_next' - 1)
      BY <1>4, <2>1, <3>1
    <3>3. QED
      BY <2>3, <3>2 DEF WindowExact, Window
  <2>8. QED
    BY <1>3, <2>1, <2>6, <2>7 DEF HistoryCovers, NoDoubleGrant, Live
<1>6. CASE Candidate <= PoolEnd
  <2>1. /\ offer_next' = offer_next - Flushed + 1 /\ resp' = Offer(m, front, LeaseTime)
        /\ offered' = offered \cup {front}
    BY <1>6, <1>1, ServerAssumption DEF Discover
  <2>2. PoolStart + cache_base' + offer_next' = front + 1 /\ front \in Pool
    BY <1>1, <1>2, <1>3, <1>6, <2>1, ServerAssumption DEF Pool
  <2>3. Window(cache_base', offer_next', acked) = Window(cache_base', offer_next - Flushed, acked)
    <3>1. PoolStart + cache_base' + (offer_next - Flushed) = front
      BY <1>1, <1>2, <1>3, ServerAssumption
    <3>2. 0 .. (offer_next' - 1) = (0 .. (offer_next - Flushed - 1)) \cup {offer_next - Flushed}
      BY <1>2, <2>1, <1>1
    <3>3. QED
      BY <1>4, <3>1, <3>2 DEF Window
  <2>4. cache_base' \in Nat /\ offer_next' \in 0 .. BitmapSize
    BY <1>1, <1>2, <1>3, <2>1
  <2>5. ack_bitmap' = Window(cache_base', offer_next', acked')
    BY <1>3, <2>3
  <2>6. ack_bitmap' \subseteq 0 .. (BitmapSize - 1)
    BY <2>4, <2>5, WindowTypes
  <2>7. resp' \in Replies
    BY <2>1, <2>2, ServerAssumption DEF Replies, Offer
  <2>8. TypeOK'
    BY <1>3, <2>1, <2>2, <2>4, <2>6, <2>7 DEF TypeOK, ServerTypeOK
  <2>9. WindowExact'
    <3>1. PoolStart + cache_base' + offer_next' - 1 = front
      <4>1. PoolStart + cache_base' + offer_next' - 1 = (PoolStart + cache_base' + offer_next') - 1
        BY <1>1, <2>4, ServerAssumption
      <4>2. QED
        BY <1>1, <2>2, <4>1
    <3>2. (PoolStart .. (front - 1)) \cup {front} = PoolStart .. front
      <4> HIDE DEF front
      <4>1. PoolStart <= front
        BY <2>2 DEF Pool
      <4> QED
        BY <1>1, <4>1, ServerAssumption
    <3>3. offered' = PoolStart .. (PoolStart + cache_base' + offer_next' - 1)
      BY <1>4, <2>1, <3>1, <3>2
    <3>4. QED
      BY <2>5, <3>3 DEF WindowExact, Window
  <2>10. QED
    BY <1>3, <2>1, <2>8, <2>9 DEF HistoryCovers, NoDoubleGrant, Live
<1>7. QED
  BY <1>1, <1>5, <1>6, ServerAssumption

\* An address that commit accepts lies in the window and was never acknowledged.
LEMMA CommittableMeans ==
  ASSUME ServerInv, NEW ip \in Requested
  PROVE  /\ Committable(ip) => /\ ip \in Pool
                               /\ Offset(ip) \in 0 .. (offer_next - 1)
                               /\ ip = PoolStart + cache_base + Offset(ip)
                               /\ ip \in offered
                               /\ ip \notin acked
<1> SUFFICES ASSUME Committable(ip)
             PROVE  /\ ip \in Pool /\ Offset(ip) \in 0 .. (offer_next - 1)
                    /\ ip = PoolStart + cache_base + Offset(ip)
                    /\ ip \in offered /\ ip \notin acked
  OBVIOUS
<1>1. /\ cache_base \in Nat /\ offer_next \in Nat /\ ip \in Int
      /\ ack_bitmap = Window(cache_base, offer_next, acked)
  BY Frontier, ServerAssumption DEF Requested
<1>2. ip >= PoolStart + cache_base /\ ip <= PoolStart + cache_base + offer_next - 1 /\ ip <= PoolEnd
  BY <1>1, ServerAssumption DEF Committable, LowerBound, UpperBound
<1>3. /\ ip \in Pool /\ Offset(ip) \in 0 .. (offer_next - 1)
      /\ ip = PoolStart + cache_base + Offset(ip)
  BY <1>1, <1>2, ServerAssumption DEF Offset, Pool
<1>4. ip \in offered
  BY <1>1, <1>2, ServerAssumption DEF ServerInv, WindowExact
<1>5. ip \notin acked
  BY <1>1, <1>3 DEF Committable, Window
<1>6. QED
  BY <1>3, <1>4, <1>5

\* The run shifted out by a commit is part of the window.
LEMMA RunBound ==
  ASSUME ServerInv, NEW bits
  PROVE  Run(bits) \in 0 .. offer_next
<1> DEFINE S == {n \in 0 .. offer_next : n \notin bits \/ n = offer_next}
<1>1. offer_next \in Nat
  BY Frontier
<1>2. S \in SUBSET Nat /\ offer_next \in S
  BY <1>1
<1>3. Min(S) \in S
  BY <1>2, LeastNat
<1>4. QED
  BY <1>3 DEF Run

\* A commit sets one bit, acknowledges one new address and slides the window.
LEMMA CommitStep ==
  ASSUME ServerInv, NEW m \in Macs, NEW ip \in Requested, Commit(m, ip),
         UNCHANGED <<clk, turned, offered>>
  PROVE  ServerInv'
<1> DEFINE bits == ack_bitmap \cup {Offset(ip)}
           run == Run(bits)
<1>1. /\ cache_base \in Nat /\ offer_next \in 0 .. BitmapSize /\ BitmapSize \in Nat
      /\ ack_bitmap = Window(cache_base, offer_next, acked)
  BY Frontier
<1>2. /\ ip \in Pool /\ Offset(ip) \in 0 .. (offer_next - 1)
      /\ ip \in offered /\ ip \notin acked
      /\ ip = PoolStart + cache_base + Offset(ip)
  BY CommittableMeans DEF Commit
<1>3. /\ ack_bitmap' = ShiftRight(bits, run) /\ cache_base' = cache_base + run
      /\ offer_next' = offer_next - run /\ acked' = acked \cup {ip}
      /\ resp' = Ack(m, ip, LeaseTime) /\ Grant(m, ip, LeaseTime)
      /\ clk' = clk /\ turned' = turned /\ offered' = offered
  BY DEF Commit
<1>4. run \in 0 .. offer_next
  BY RunBound
<1>5. bits = Window(cache_base, offer_next, acked \cup {ip})
  <2>1. \A b \in 0 .. (offer_next - 1) : PoolStart + cache_base + b = ip <=> b = Offset(ip)
    BY <1>1, <1>2, ServerAssumption
  <2>2. QED
    BY <1>1, <1>2, <2>1 DEF Window
<1> HIDE DEF bits, run
<1>6. ack_bitmap' = Window(cache_base', offer_next', acked')
  BY <1>1, <1>3, <1>4, <1>5, ShiftKeepsWindow
<1>7. cache_base' \in Nat /\ offer_next' \in 0 .. BitmapSize
  BY <1>1, <1>3, <1>4
<1>8. ack_bitmap' \subseteq 0 .. (BitmapSize - 1)
  BY <1>6, <1>7, WindowTypes
<1>9. /\ left' \in [Macs -> [Pool -> Nat]]
      /\ \A k \in Macs, a \in Pool : <<k, a>> # <<m, ip>> => left'[k][a] = left[k][a]
  BY <1>2, <1>3, GrantEffect, ServerAssumption DEF ServerInv, TypeOK, ServerTypeOK
<1>10. TypeOK'
  <2>1. resp' \in Replies
    BY <1>2, <1>3, ServerAssumption DEF Ack, Replies
  <2>2. QED
    BY <1>2, <1>3, <1>7, <1>8, <1>9, <2>1 DEF ServerInv, TypeOK, ServerTypeOK
<1>11. WindowExact'
  <2>1. PoolStart + cache_base' + offer_next' - 1 = PoolStart + cache_base + offer_next - 1
    BY <1>1, <1>3, <1>4, ServerAssumption
  <2>2. QED
    BY <1>3, <1>6, <2>1 DEF ServerInv, WindowExact, Window
<1>12. HistoryCovers'
  BY <1>2, <1>3, <1>9 DEF ServerInv, HistoryCovers, Live
<1>13. NoDoubleGrant'
  <2> SUFFICES ASSUME NEW m1 \in Macs, NEW m2 \in Macs, NEW a \in Pool, Live(m1, a)', Live(m2, a)'
               PROVE  m1 = m2
    BY DEF NoDoubleGrant
  <2>1. CASE a = ip
    <3>1. \A k \in Macs : ~Live(k, ip)
      BY <1>2 DEF ServerInv, HistoryCovers
    <3>2. QED
      BY <1>2, <1>9, <2>1, <3>1 DEF Live
  <2>2. CASE a # ip
    BY <1>9, <2>2 DEF ServerInv, NoDoubleGrant, Live
  <2>3. QED
    BY <2>1, <2>2
<1>14. QED
  BY <1>10, <1>11, <1>12, <1>13 DEF ServerInv

\* A second and an ignored or refused message leave the window alone.
LEMMA IdleStep ==
  ASSUME ServerInv, UNCHANGED <<cache_base, offer_next, ack_bitmap, offered, acked>>,
         clk' \in 0 .. (ClockWrap - 1), turned' \in {0, 1}, resp' \in Replies,
         left' \in [Macs -> [Pool -> Nat]],
         \A m \in Macs, ip \in Pool : left'[m][ip] > 0 => left[m][ip] > 0
  PROVE  ServerInv'
BY DEF ServerInv, TypeOK, ServerTypeOK, WindowExact, HistoryCovers, NoDoubleGrant, Live

\* Every step of the server preserves the invariant.
LEMMA NextServerInv == ServerInv /\ [Next]_vars => ServerInv'
<1> SUFFICES ASSUME ServerInv, [Next]_vars PROVE ServerInv'
  OBVIOUS
<1>0. /\ clk \in 0 .. (ClockWrap - 1) /\ turned \in {0, 1} /\ resp \in Replies
      /\ left \in [Macs -> [Pool -> Nat]]
      /\ NoReply \in Replies /\ \A m \in Macs : Nak(m) \in Replies
  BY DEF ServerInv, TypeOK, ServerTypeOK, NoReply, Nak, Replies
<1>1. CASE Tick
  BY <1>0, <1>1, ElapsedType, NextSecondBound, IdleStep DEF Tick, Second
<1>2. CASE Ignore
  BY <1>0, <1>2, IdleStep DEF Ignore
<1>3. ASSUME NEW m \in Macs, Discover(m) PROVE ServerInv'
  BY <1>3, DiscoverStep
<1>4. ASSUME NEW m \in Macs, NEW ip \in Requested, Request(m, ip) PROVE ServerInv'
  <2>1. CASE Commit(m, ip)
    BY <1>4, <2>1, CommitStep DEF Request
  <2>2. CASE Refuse(m, ip)
    BY <1>0, <1>4, <2>2, IdleStep DEF Request, Refuse
  <2>3. QED
    BY <1>4, <2>1, <2>2 DEF Request
<1>5. CASE UNCHANGED vars
  BY <1>0, <1>5, IdleStep DEF vars
<1>6. QED
  BY <1>1, <1>2, <1>3, <1>4, <1>5 DEF Next

\* The invariant holds throughout every execution.
LEMMA ServerInvAlways == Spec => []ServerInv
BY InitServerInv, NextServerInv, PTL DEF Spec

\* Every variable of the NPRC server keeps its type: the window never outgrows
\* the bitmap and the histories stay within the pool.
THEOREM TypeCorrect == Spec => []TypeOK
<1>1. ServerInv => TypeOK
  BY DEF ServerInv
<1>2. QED
  BY ServerInvAlways, <1>1, PTL

\* The sliding bitmap of dhcp_nprc.c says exactly what was acknowledged above
\* its base, and the next candidate bounds what was offered.
THEOREM WindowAlwaysExact == Spec => []WindowExact
<1>1. ServerInv => WindowExact
  BY DEF ServerInv
<1>2. QED
  BY ServerInvAlways, <1>1, PTL

\* Although dhcp_nprc.c records neither client nor expiry, no address is ever
\* in the hands of two clients.
THEOREM NeverGrantedTwice == Spec => []NoDoubleGrant
<1>1. ServerInv => NoDoubleGrant
  BY DEF ServerInv
<1>2. QED
  BY ServerInvAlways, <1>1, PTL

\* dhcp_nprc_commit_ip acknowledges an address only once, after its offer.
THEOREM NeverAckedTwice == Spec => AckedOnce
<1>1. ServerInv => \A m \in Macs, ip \in Requested :
                Request(m, ip) /\ resp'.type = "ACK" => ip \in offered /\ ip \notin acked
  <2> SUFFICES ASSUME ServerInv, NEW m \in Macs, NEW ip \in Requested,
                      Request(m, ip), resp'.type = "ACK"
               PROVE  ip \in offered /\ ip \notin acked
    OBVIOUS
  <2>1. ~Refuse(m, ip)
    BY DEF Refuse, Nak
  <2>2. QED
    BY <2>1, CommittableMeans DEF Request, Commit
<1>2. QED
  BY ServerInvAlways, <1>1, PTL DEF AckedOnce

\* dhcp_nprc_find_available_ip walks the pool once, without repetition or gap.
THEOREM NeverOfferedTwice == Spec => OfferedOnce
<1>1. ServerInv => \A m \in Macs : Discover(m) =>
                IF resp' = NoReply THEN offered = Pool ELSE resp'.ip \in Pool \ offered
  <2> SUFFICES ASSUME ServerInv, NEW m \in Macs, Discover(m)
               PROVE  IF resp' = NoReply THEN offered = Pool ELSE resp'.ip \in Pool \ offered
    OBVIOUS
  <2> DEFINE front == PoolStart + cache_base + offer_next
  <2>1. /\ front <= PoolEnd + 1 /\ Candidate = front /\ front \in Nat
        /\ PoolStart + cache_base + offer_next - 1 = front - 1 /\ front >= PoolStart
    BY Frontier, ServerAssumption
  <2>2. offered = PoolStart .. (front - 1)
    BY <2>1 DEF ServerInv, WindowExact
  <2> HIDE DEF front
  <2>3. CASE Candidate > PoolEnd
    <3>1. front - 1 = PoolEnd /\ ~(Candidate <= PoolEnd)
      BY <2>1, <2>3, ServerAssumption
    <3>2. offered = Pool /\ resp' = NoReply
      BY <2>2, <2>3, <3>1 DEF Pool, Discover
    <3>3. QED
      BY <3>2
  <2>4. CASE Candidate <= PoolEnd
    <3>1. front \in Pool \ offered /\ ~(Candidate > PoolEnd)
      BY <2>1, <2>2, <2>4, ServerAssumption DEF Pool
    <3>2. resp' = Offer(m, front, LeaseTime)
      BY <2>1, <3>1 DEF Discover
    <3>3. resp' # NoReply /\ resp'.ip = front
      BY <3>2 DEF Offer, NoReply
    <3>4. QED
      BY <3>1, <3>3
  <2>5. QED
    BY <2>1, <2>3, <2>4, ServerAssumption
<1>2. QED
  BY ServerInvAlways, <1>1, PTL DEF OfferedOnce

-----------------------------------------------------------------------------
\* An open offer that has fallen out of the window is an old one.
ForgottenIsOld ==
  \A ip \in offered \ acked : ip < PoolStart + cache_base =>
    PoolStart + cache_base + offer_next - ip > BitmapSize - BitmapFlush

\* A flush drops the oldest quarter of a full window; the offer that follows
\* only makes the dropped addresses older.
LEMMA DiscoverForgets ==
  ASSUME ServerInv, ForgottenIsOld, NEW m \in Macs, Discover(m)
  PROVE  ForgottenIsOld'
<1> SUFFICES ASSUME NEW ip \in (offered \ acked)', ip < PoolStart + cache_base'
             PROVE  PoolStart + cache_base' + offer_next' - ip > BitmapSize - BitmapFlush
  BY DEF ForgottenIsOld
<1>1. /\ cache_base \in Nat /\ offer_next \in 0 .. BitmapSize /\ BitmapSize \in Nat
      /\ Candidate = PoolStart + cache_base + offer_next
      /\ Flushed \in 0 .. offer_next /\ BitmapFlush \in Nat
  BY Frontier, FlushedBound DEF ServerInv
<1>2. /\ cache_base' = cache_base + Flushed /\ acked' = acked
      /\ \/ offer_next' = offer_next - Flushed /\ offered' = offered
         \/ offer_next' = (offer_next - Flushed) + 1 /\ offered' = offered \cup {Candidate}
  BY DEF Discover
<1>3. ip \in Nat
  <2>1. Candidate \in Nat /\ offered \subseteq Nat
    BY <1>1, ServerAssumption DEF ServerInv, TypeOK, Pool
  <2>2. QED
    BY <1>2, <2>1
<1>4. ip # Candidate
  BY <1>1, <1>2, <1>3, ServerAssumption
<1>5. ip \in offered \ acked
  BY <1>2, <1>4
<1>6. PoolStart + cache_base + offer_next - ip > BitmapSize - BitmapFlush
  <2>1. CASE ip < PoolStart + cache_base
    BY <1>5, <2>1 DEF ForgottenIsOld
  <2>2. CASE ~(ip < PoolStart + cache_base)
    <3>1. Flushed = BitmapFlush /\ offer_next = BitmapSize
      BY <1>1, <1>2, <1>3, <2>2, ServerAssumption DEF Flushed
    <3>2. QED
      BY <1>1, <1>2, <1>3, <3>1, ServerAssumption
  <2>3. QED
    BY <2>1, <2>2
<1>7. cache_base' + offer_next' >= cache_base + offer_next /\ offer_next' \in Nat /\ cache_base' \in Nat
  BY <1>1, <1>2
<1>8. PoolStart + cache_base' + offer_next' - ip = (cache_base' + offer_next') + (PoolStart - ip)
  BY <1>3, <1>7, ServerAssumption
<1>9. PoolStart + cache_base + offer_next - ip = (cache_base + offer_next) + (PoolStart - ip)
  BY <1>1, <1>3, ServerAssumption
<1>10. /\ cache_base' + offer_next' \in Int /\ cache_base + offer_next \in Int
       /\ PoolStart - ip \in Int /\ BitmapSize - BitmapFlush \in Int
  BY <1>1, <1>3, <1>7, ServerAssumption
<1>11. (cache_base + offer_next) + (PoolStart - ip) > BitmapSize - BitmapFlush
  BY <1>6, <1>9
<1>12. \A x, y, z, k \in Int : x >= y /\ y + z > k => x + z > k
  OBVIOUS
<1>13. (cache_base' + offer_next') + (PoolStart - ip) > BitmapSize - BitmapFlush
  BY <1>7, <1>10, <1>11, <1>12, Zenon
<1>14. QED
  BY <1>8, <1>13

\* The clean-up loop of a commit shifts out acknowledged addresses only.
LEMMA CommitForgets ==
  ASSUME ServerInv, ForgottenIsOld, NEW m \in Macs, NEW a \in Requested, Commit(m, a),
         UNCHANGED <<clk, turned, offered>>
  PROVE  ForgottenIsOld'
<1> DEFINE bits == ack_bitmap \cup {Offset(a)}
           run == Run(bits)
           S == {n \in 0 .. offer_next : n \notin bits \/ n = offer_next}
<1> SUFFICES ASSUME NEW ip \in (offered \ acked)', ip < PoolStart + cache_base'
             PROVE  PoolStart + cache_base' + offer_next' - ip > BitmapSize - BitmapFlush
  BY DEF ForgottenIsOld
<1>1. /\ cache_base \in Nat /\ offer_next \in Nat
      /\ ack_bitmap = Window(cache_base, offer_next, acked)
      /\ a = PoolStart + cache_base + Offset(a) /\ Offset(a) \in 0 .. (offer_next - 1)
  BY Frontier, CommittableMeans DEF Commit
<1>2. /\ cache_base' = cache_base + run /\ offer_next' = offer_next - run
      /\ acked' = acked \cup {a} /\ offered' = offered
  BY DEF Commit
<1>3. run \in 0 .. offer_next
  BY RunBound
<1>4. \A n \in 0 .. (run - 1) : n \in bits
  <2>1. S \in SUBSET Nat /\ offer_next \in S
    BY <1>1
  <2>2. \A n \in S : run <= n
    BY <2>1, LeastNat DEF Run
  <2> HIDE DEF run
  <2>3. ASSUME NEW n \in 0 .. (run - 1) PROVE n \in bits
    <3>1. n \in 0 .. offer_next /\ n # offer_next /\ ~(run <= n)
      BY <1>1, <1>3
    <3>2. QED
      BY <2>2, <3>1
  <2>4. QED
    BY <2>3
<1>5. ip \in Nat /\ ip \in offered \ acked /\ ip # a
  BY <1>2, ServerAssumption DEF ServerInv, TypeOK, Pool
<1> HIDE DEF bits, run, S
<1>6. ip < PoolStart + cache_base
  <2> SUFFICES ASSUME ~(ip < PoolStart + cache_base) PROVE FALSE
    OBVIOUS
  <2> DEFINE b == ip - PoolStart - cache_base
  <2>1. b \in 0 .. (run - 1) /\ PoolStart + cache_base + b = ip
    BY <1>1, <1>2, <1>3, <1>5, ServerAssumption
  <2>2. b \in ack_bitmap \/ b = Offset(a)
    BY <1>4, <2>1 DEF bits
  <2>3. b # Offset(a)
    BY <1>1, <1>5, <2>1
  <2>4. ip \in acked
    BY <1>1, <2>1, <2>2, <2>3 DEF Window
  <2>5. QED
    BY <1>5, <2>4
<1>7. PoolStart + cache_base' + offer_next' - ip = PoolStart + cache_base + offer_next - ip
  BY <1>1, <1>2, <1>3, <1>5, ServerAssumption
<1>8. QED
  BY <1>5, <1>6, <1>7 DEF ForgottenIsOld

\* Every step keeps open offers in the window until they are old.
LEMMA ForgottenAlwaysOld == Spec => []ForgottenIsOld
<1>1. Init => ForgottenIsOld
  BY DEF Init, ForgottenIsOld
<1>2. ServerInv /\ ForgottenIsOld /\ [Next]_vars => ForgottenIsOld'
  <2> SUFFICES ASSUME ServerInv, ForgottenIsOld, [Next]_vars PROVE ForgottenIsOld'
    OBVIOUS
  <2>1. CASE Tick \/ Ignore \/ UNCHANGED vars
    BY <2>1 DEF Tick, Ignore, vars, ForgottenIsOld
  <2>2. ASSUME NEW m \in Macs, Discover(m) PROVE ForgottenIsOld'
    BY <2>2, DiscoverForgets
  <2>3. ASSUME NEW m \in Macs, NEW ip \in Requested, Request(m, ip) PROVE ForgottenIsOld'
    <3>1. CASE Commit(m, ip)
      BY <2>3, <3>1, CommitForgets DEF Request
    <3>2. CASE Refuse(m, ip)
      BY <2>3, <3>2 DEF Request, Refuse, ForgottenIsOld
    <3>3. QED
      BY <2>3, <3>1, <3>2 DEF Request
  <2>4. QED
    BY <2>1, <2>2, <2>3 DEF Next
<1>3. QED
  BY ServerInvAlways, <1>1, <1>2, PTL DEF Spec

\* A client that answers one of the last BITMAP_SIZE - BITMAP_FLUSH offers gets
\* its ACK from dhcp_nprc_commit_ip, whatever was flushed and committed between.
THEOREM RecentOfferAlwaysHonoured == Spec => RecentOfferHonoured
<1>1. ServerInv /\ ForgottenIsOld =>
        \A m \in Macs, ip \in offered \ acked :
          /\ Request(m, ip)
          /\ PoolStart + cache_base + offer_next - ip <= BitmapSize - BitmapFlush
          => resp' = Ack(m, ip, LeaseTime)
  <2> SUFFICES ASSUME ServerInv, ForgottenIsOld, NEW m \in Macs, NEW ip \in offered \ acked,
                      Request(m, ip),
                      PoolStart + cache_base + offer_next - ip <= BitmapSize - BitmapFlush
               PROVE  resp' = Ack(m, ip, LeaseTime)
    OBVIOUS
  <2>1. /\ cache_base \in Nat /\ offer_next \in 0 .. BitmapSize /\ BitmapSize \in Nat
        /\ ack_bitmap = Window(cache_base, offer_next, acked) /\ BitmapFlush \in Nat
    BY Frontier, FlushedBound DEF ServerInv
  <2>2. ip \in Nat /\ ip <= PoolEnd
    BY ServerAssumption DEF ServerInv, TypeOK, Pool
  <2>3. ip >= PoolStart + cache_base
    BY <2>1, <2>2, ServerAssumption DEF ForgottenIsOld
  <2>4. ip <= PoolStart + cache_base + offer_next - 1
    BY <2>1, <2>2, ServerAssumption DEF ServerInv, WindowExact
  <2>5. Offset(ip) \in 0 .. (offer_next - 1) /\ PoolStart + cache_base + Offset(ip) = ip
    BY <2>1, <2>2, <2>3, <2>4, ServerAssumption DEF Offset
  <2>6. Offset(ip) \notin ack_bitmap
    BY <2>1, <2>5 DEF Window
  <2>7. Committable(ip)
    BY <2>1, <2>2, <2>3, <2>4, <2>5, <2>6, ServerAssumption
    DEF Committable, LowerBound, UpperBound
  <2>8. QED
    BY <2>7 DEF Request, Refuse, Commit
<1>2. QED
  BY ServerInvAlways, ForgottenAlwaysOld, <1>1, PTL DEF RecentOfferHonoured

-----------------------------------------------------------------------------
(***************************************************************************)
(* The server as the workers meet it.                                      *)
(***************************************************************************)
Addresses == PoolStart .. PoolEnd

\* A DISCOVER and a REQUEST keep its invariant.
LEMMA ServerKeeps ==
  ASSUME ServerInv, NEW m \in Macs, NEW ip \in Addresses, Discover(m) \/ Request(m, ip)
  PROVE  ServerInv'
<1>1. ip \in Requested
  BY ServerAssumption, BitmapAssumption DEF Requested, Addresses
<1>2. Next
  BY <1>1 DEF Next
<1>3. QED
  BY <1>2, NextServerInv

\* What a DISCOVER or a REQUEST of m does to leases and to the reply.
LEMMA ServerEffect ==
  ASSUME ServerInv, NEW m \in Macs, NEW ip \in Addresses, Discover(m) \/ Request(m, ip)
  PROVE  /\ \A n \in Macs, a \in Addresses : left[n][a] > 0 => left'[n][a] > 0
         /\ resp' # NoReply =>
              /\ resp'.mac = m
              /\ resp'.type \in {"OFFER", "ACK", "NAK"}
              /\ resp'.ip \in Addresses \cup {0}
              /\ resp'.type # "NAK" => resp'.ip \in Addresses
              /\ resp'.type = "ACK" => left'[m][resp'.ip] > 0
<1>1. /\ left \in [Macs -> [Addresses -> Nat]]
      /\ cache_base \in Nat /\ offer_next \in Nat /\ BitmapSize \in Nat
  BY ServerAssumption, BitmapAssumption
     DEF ServerInv, TypeOK, ServerTypeOK, Pool, Addresses
<1>2. CASE Discover(m)
  <2>1. left' = left
    BY <1>2 DEF Discover
  <2>2. \/ resp' = NoReply
        \/ resp' = Offer(m, Candidate, LeaseTime) /\ Candidate <= PoolEnd
    BY <1>2 DEF Discover
  <2>3. Candidate >= PoolStart /\ Candidate \in Int
    <3>1. Flushed \in Int
      BY <1>1, ServerAssumption, BitmapAssumption DEF Flushed, BitmapFlush
    <3>2. QED
      BY <1>1, <3>1, ServerAssumption, BitmapAssumption DEF Candidate
  <2>4. Candidate <= PoolEnd => Candidate \in Addresses
    BY <2>3, ServerAssumption, BitmapAssumption DEF Addresses
  <2>5. QED
    BY <2>1, <2>2, <2>4 DEF Offer
<1>3. CASE Request(m, ip)
  <2>1. \/ resp' = Ack(m, ip, LeaseTime) /\ Grant(m, ip, LeaseTime)
        \/ resp' = Nak(m) /\ left' = left
    BY <1>3 DEF Request, Commit, Refuse
  <2>2. CASE resp' = Ack(m, ip, LeaseTime) /\ Grant(m, ip, LeaseTime)
    <3>1. left' = [left EXCEPT ![m] = [left[m] EXCEPT ![ip] = LeaseTime]]
      BY <2>2, <1>1 DEF Grant
    <3>2. \A n \in Macs, a \in Addresses :
            left'[n][a] = IF n = m /\ a = ip THEN LeaseTime ELSE left[n][a]
      BY <1>1, <3>1
    <3>3. LeaseTime > 0
      BY ServerAssumption, BitmapAssumption
    <3>4. QED
      BY <2>2, <3>2, <3>3 DEF Ack
  <2>3. CASE resp' = Nak(m) /\ left' = left
    BY <2>3 DEF Nak
  <2>4. QED
    BY <2>1, <2>2, <2>3
<1>4. QED
  BY <1>2, <1>3

-----------------------------------------------------------------------------
(***************************************************************************)
(* The inductive invariant.  x and l stand for xid and left.               *)
(***************************************************************************)
\* A reply: it carries the xid of the client it is for, and an ACK tells of a lease that runs.
Owed(f, x, l) ==
  /\ f \in [type : {"OFFER", "ACK", "NAK"}, xid : Xids, mac : Macs, ip : Addresses \cup {0}]
  /\ f.xid = x[f.mac]
  /\ f.type # "NAK" => f.ip \in Addresses
  /\ f.type = "ACK" => l[f.mac][f.ip] > 0

\* A message of a worker: it carries the xid of its client, and a REQUEST an address of the pool.
Asks(f, x) ==
  /\ f \in [type : {"DISCOVER", "REQUEST"}, xid : Xids, mac : Macs, ip : Addresses \cup {0}]
  /\ f.xid = x[f.mac]
  /\ f.type = "REQUEST" => f.ip \in Addresses

Net ==
  /\ \A f \in toClients : Owed(f, xid, left)
  /\ hand # NoHand => Owed(hand.frame, xid, left) /\ hand.to \in Macs
  /\ \A c \in Macs : mb[c] # NoFrame => Owed(mb[c], xid, left)
  /\ \A w \in Workers : built[w] # NoFrame => Asks(built[w], xid)

ActivePcs == {"discover", "check", "waiting", "out"}

Pcs == {"pop", "register", "exit"} \cup ActivePcs

ClientRecords == [state : {"NEW", "DISCOVER", "REQUEST", "DONE", "FAILED"},
                  retries : 0 .. MAX_RETRIES, assigned_ip : Addresses \cup {0}]

Types ==
  /\ queue \in Seq(Macs)
  /\ xid \in [Macs -> Xids]
  /\ xid_tab \in [Xids -> Macs \cup {NoMac}]
  /\ pc \in [Workers -> Pcs]
  /\ cur \in [Workers -> Macs \cup {NoMac}]
  /\ client \in [Macs -> ClientRecords]
  /\ mb \in [Macs -> Frames \cup {NoFrame}]
  /\ built \in [Workers -> Frames \cup {NoFrame}]
  /\ hand \in [frame : Frames, to : Macs] \cup {NoHand}

\* Workers are on clients, clients are queued once, and a client is out of
\* retries only when it has failed and its worker is about to leave it.
Work ==
  /\ \A w \in Workers : pc[w] \notin {"pop", "exit"} => cur[w] \in Macs
  /\ \A i, j \in 1 .. Len(queue) : queue[i] = queue[j] => i = j
  /\ \A c \in Macs : client[c].retries < MAX_RETRIES \/ client[c].state = "FAILED"
  /\ \A w \in Workers : pc[w] \notin {"pop", "exit", "out"} => client[cur[w]].state # "FAILED"
  /\ \A i \in 1 .. Len(queue) : client[queue[i]].state # "FAILED"

Served ==
  \A c \in Macs : client[c].state = "DONE" /\ OwnXid(c) =>
    client[c].assigned_ip \in Addresses /\ left[c][client[c].assigned_ip] > 0

BenchInv == Types /\ TableExact /\ Net /\ Work /\ Served /\ ServerInv

\* No step of the benchmark ends a lease.
Mono == \A n \in Macs, a \in Addresses : left[n][a] > 0 => left'[n][a] > 0

-----------------------------------------------------------------------------
\* Frames stay good while leases run on.
LEMMA OwedKept ==
  ASSUME Mono, UNCHANGED xid, NEW f, Owed(f, xid, left)
  PROVE  Owed(f, xid', left')
BY DEF Mono, Owed

\* Frames only move from the network to the hand and on to a mailbox.
LEMMA NetKept ==
  ASSUME Net, Mono, UNCHANGED xid,
         \A f \in toClients' : f \in toClients \/ Owed(f, xid', left'),
         hand' = hand \/ hand' = NoHand \/ (hand'.frame \in toClients /\ hand'.to \in Macs),
         \A c \in Macs : \/ mb'[c] = mb[c] \/ mb'[c] = NoFrame
                         \/ mb'[c] = hand.frame /\ hand # NoHand,
         \A w \in Workers : built'[w] = built[w] \/ built'[w] = NoFrame \/ Asks(built'[w], xid)
  PROVE  Net'
<1>1. \A f \in toClients' : Owed(f, xid', left')
  BY OwedKept DEF Net
<1>2. hand' # NoHand => Owed(hand'.frame, xid', left') /\ hand'.to \in Macs
  BY OwedKept DEF Net
<1>3. \A c \in Macs : mb'[c] # NoFrame => Owed(mb'[c], xid', left')
  BY OwedKept DEF Net
<1>4. \A w \in Workers : built'[w] # NoFrame => Asks(built'[w], xid')
  BY DEF Net
<1>5. QED
  BY <1>1, <1>2, <1>3, <1>4 DEF Net, NoHand, NoFrame, Frame

\* A step in which the server does nothing keeps its invariant.
LEMMA ServerIdle ==
  ASSUME ServerInv, UNCHANGED vars
  PROVE  ServerInv' /\ Mono
<1>1. ServerInv'
  BY NextServerInv
<1>2. QED
  BY <1>1 DEF Mono, vars

\* A worker's frame is lost, or the server handles it and its reply is under way.
LEMMA Sending ==
  ASSUME ServerInv, Net, UNCHANGED xid, NEW w \in Workers, NEW f, Asks(f, xid) \/ f = NoFrame,
         Send(w, f), xid \in [Macs -> Xids]
  PROVE  /\ ServerInv' /\ Mono
         /\ \A g \in toClients' : g \in toClients \/ Owed(g, xid', left')
         /\ built' = [built EXCEPT ![w] = f]
<1>1. built' = [built EXCEPT ![w] = f]
  BY DEF Send
<1>2. CASE UNCHANGED <<toClients, vars>>
  BY <1>1, <1>2, ServerIdle
<1>3. CASE Serve(f)
  <2>1. Asks(f, xid)
    BY <1>3 DEF Serve, NoFrame, Frame
  <2>2. f.mac \in Macs /\ f.xid = xid[f.mac] /\ f.xid \in Xids
    BY <2>1 DEF Asks
  <2>3. \E ip \in Addresses : Discover(f.mac) \/ Request(f.mac, ip)
    <3>1. PoolStart \in Addresses
      BY ServerAssumption, BitmapAssumption DEF Addresses
    <3>2. QED
      BY <1>3, <2>1, <3>1 DEF Serve, Asks
  <2>4. PICK ip \in Addresses : Discover(f.mac) \/ Request(f.mac, ip)
    BY <2>3
  <2>5. ServerInv'
    BY <2>2, <2>4, ServerKeeps
  <2>6. /\ Mono
        /\ resp' # NoReply =>
              /\ resp'.mac = f.mac
              /\ resp'.type \in {"OFFER", "ACK", "NAK"}
              /\ resp'.ip \in Addresses \cup {0}
              /\ resp'.type # "NAK" => resp'.ip \in Addresses
              /\ resp'.type = "ACK" => left'[f.mac][resp'.ip] > 0
    BY <2>2, <2>4, ServerEffect DEF Mono
  <2>7. resp' # NoReply => Owed(Frame(resp'.type, f.xid, resp'.mac, resp'.ip), xid', left')
    BY <2>2, <2>6 DEF Owed, Frame
  <2>8. \A g \in toClients' : g \in toClients \/ Owed(g, xid', left')
    BY <1>3, <2>7 DEF Serve
  <2>9. QED
    BY <1>1, <2>5, <2>6, <2>8
<1>4. QED
  BY <1>2, <1>3 DEF Send

-----------------------------------------------------------------------------
(***************************************************************************)
(* What a worker does between entering its client in the table and leaving *)
(* it: it moves on to place p, makes r of the client, may take the frame   *)
(* out of the mailbox, and sends f or nothing.                             *)
(***************************************************************************)
Inner(w, p, r) ==
  /\ pc' = [pc EXCEPT ![w] = p]
  /\ client' = [client EXCEPT ![cur[w]] = r]
  /\ mb' = mb \/ mb' = [mb EXCEPT ![cur[w]] = NoFrame]
  /\ UNCHANGED <<queue, xid, xid_tab, cur, hand>>

\* The place and the record that keep the invariant.
Allowed(c, p, r) ==
  /\ p \in ActivePcs
  /\ r \in ClientRecords
  /\ r.retries < MAX_RETRIES \/ r.state = "FAILED"
  /\ r.state = "FAILED" => p = "out"
  /\ r.state = "DONE" =>
       \/ client[c].state = "DONE" /\ r.assigned_ip = client[c].assigned_ip
       \/ OwnXid(c) => r.assigned_ip \in Addresses /\ left[c][r.assigned_ip] > 0

\* Such a step keeps the invariant.
LEMMA InnerStep ==
  ASSUME BenchInv, NEW w \in Workers, pc[w] \in {"discover", "check", "waiting"}, NEW p, NEW r,
         Inner(w, p, r), Allowed(cur[w], p, r),
         SendNothing \/ \E f : (Asks(f, xid) \/ f = NoFrame) /\ Send(w, f)
  PROVE  BenchInv'
<1>1. Types /\ TableExact /\ Net /\ Work /\ Served /\ ServerInv
  BY DEF BenchInv
<1>2. cur[w] \in Macs
  BY <1>1 DEF Work
<1>3. /\ UNCHANGED <<queue, xid, xid_tab, cur, hand>>
      /\ pc' = [pc EXCEPT ![w] = p] /\ client' = [client EXCEPT ![cur[w]] = r]
      /\ mb' = mb \/ mb' = [mb EXCEPT ![cur[w]] = NoFrame]
  BY DEF Inner
<1>4. /\ ServerInv' /\ Mono
      /\ \A g \in toClients' : g \in toClients \/ Owed(g, xid', left')
      /\ \/ built' = built
         \/ \E f : (Asks(f, xid) \/ f = NoFrame) /\ built' = [built EXCEPT ![w] = f]
  <2>1. CASE SendNothing
    BY <1>1, <2>1, ServerIdle DEF SendNothing
  <2>2. CASE \E f : (Asks(f, xid) \/ f = NoFrame) /\ Send(w, f)
    <3>1. PICK f : (Asks(f, xid) \/ f = NoFrame) /\ Send(w, f)
      BY <2>2
    <3>2. /\ ServerInv' /\ Mono
          /\ \A g \in toClients' : g \in toClients \/ Owed(g, xid', left')
          /\ built' = [built EXCEPT ![w] = f]
      BY <1>1, <1>3, <3>1, Sending DEF Types
    <3>3. QED
      BY <3>1, <3>2
  <2>3. QED
    BY <2>1, <2>2
<1>5. Types'
  <2>1. built' \in [Workers -> Frames \cup {NoFrame}]
    <3>1. \A f : Asks(f, xid) => f \in Frames
      BY DEF Asks, Frames, Addresses
    <3>2. QED
      BY <1>1, <1>4, <3>1 DEF Types
  <2>2. pc' \in [Workers -> Pcs] /\ client' \in [Macs -> ClientRecords]
    BY <1>1, <1>3 DEF Types, Allowed, Pcs
  <2>3. mb' \in [Macs -> Frames \cup {NoFrame}]
    BY <1>1, <1>3 DEF Types
  <2>4. QED
    BY <1>1, <1>3, <2>1, <2>2, <2>3 DEF Types
<1>6. TableExact'
  <2>1. \A v \in Workers : pc'[v] \in ActivePcs <=> pc[v] \in ActivePcs
    BY <1>1, <1>3 DEF Types, Allowed, ActivePcs
  <2>2. Active' = Active
    BY <1>3, <2>1 DEF Active, ActivePcs
  <2>3. QED
    BY <1>1, <1>3, <2>2 DEF TableExact, OwnXid
<1>7. Net'
  <2>1. \A c \in Macs : mb'[c] = mb[c] \/ mb'[c] = NoFrame
    BY <1>1, <1>3 DEF Types
  <2>2. \A v \in Workers : built'[v] = built[v] \/ built'[v] = NoFrame \/ Asks(built'[v], xid)
    BY <1>1, <1>4 DEF Types
  <2>3. QED
    BY <1>1, <1>3, <1>4, <2>1, <2>2, NetKept
<1>8. Work'
  <2>1. \A c \in Macs : client'[c] = IF c = cur[w] THEN r ELSE client[c]
    BY <1>1, <1>3 DEF Types
  <2>2. \A v \in Workers : pc'[v] = IF v = w THEN p ELSE pc[v]
    BY <1>1, <1>3 DEF Types
  <2>3. \A c \in Macs : client'[c].retries < MAX_RETRIES \/ client'[c].state = "FAILED"
    BY <1>1, <2>1 DEF Work, Allowed
  <2>4. \A v \in Workers : pc'[v] \notin {"pop", "exit"} => cur[v] \in Macs
    BY <1>1, <1>2, <2>2 DEF Work
  <2>5. ASSUME NEW v \in Workers, pc'[v] \notin {"pop", "exit", "out"}
        PROVE  client'[cur[v]].state # "FAILED"
    <3>1. CASE v = w
      BY <1>2, <2>1, <2>2, <2>5, <3>1 DEF Allowed
    <3>2. CASE v # w
      <4>1. cur[v] \in Macs /\ cur[v] # cur[w] /\ client[cur[v]].state # "FAILED"
        BY <1>1, <1>2, <2>2, <2>5, <3>2, ServerAssumption DEF Work, TableExact
      <4>2. QED
        BY <2>1, <4>1
    <3>3. QED
      BY <3>1, <3>2
  <2>6. ASSUME NEW i \in 1 .. Len(queue) PROVE client'[queue[i]].state # "FAILED"
    <3>1. queue[i] \in Macs /\ queue[i] # cur[w]
      BY <1>1, <1>2 DEF Types, TableExact
    <3>2. QED
      BY <1>1, <2>1, <3>1 DEF Work
  <2>7. QED
    BY <1>1, <1>3, <2>3, <2>4, <2>5, <2>6 DEF Work
<1>9. Served'
  <2> SUFFICES ASSUME NEW c \in Macs, client'[c].state = "DONE", OwnXid(c)'
               PROVE  client'[c].assigned_ip \in Addresses /\ left'[c][client'[c].assigned_ip] > 0
    BY DEF Served
  <2>1. OwnXid(c)
    BY <1>3 DEF OwnXid
  <2>2. client'[c] = IF c = cur[w] THEN r ELSE client[c]
    BY <1>1, <1>3 DEF Types
  <2>3. client'[c].assigned_ip \in Addresses /\ left[c][client'[c].assigned_ip] > 0
    BY <1>1, <2>1, <2>2 DEF Served, Allowed
  <2>4. QED
    BY <1>4, <2>3 DEF Mono
<1>10. QED
  BY <1>4, <1>5, <1>6, <1>7, <1>8, <1>9 DEF BenchInv

\* What is known of a worker between those two points.
LEMMA InnerFacts ==
  ASSUME BenchInv, NEW w \in Workers, pc[w] \in {"discover", "check", "waiting"}
  PROVE  /\ cur[w] \in Macs
         /\ client \in [Macs -> ClientRecords] /\ client[cur[w]] \in ClientRecords
         /\ client[cur[w]].state # "FAILED" /\ client[cur[w]].retries < MAX_RETRIES
         /\ xid[cur[w]] \in Xids /\ pc \in [Workers -> Pcs]
         /\ mb[cur[w]] # NoFrame => Owed(mb[cur[w]], xid, left)
BY DEF BenchInv, Types, Work, Net

\* The client stays as it is, and the worker goes on to another place.
LEMMA MoveStep ==
  ASSUME BenchInv, NEW w \in Workers, pc[w] \in {"discover", "check", "waiting"},
         NEW p \in ActivePcs, pc' = [pc EXCEPT ![w] = p], client' = client,
         mb' = mb \/ mb' = [mb EXCEPT ![cur[w]] = NoFrame],
         UNCHANGED <<queue, xid, xid_tab, cur, hand>>, SendNothing
  PROVE  BenchInv'
<1> DEFINE r == client[cur[w]]
<1>1. client' = [client EXCEPT ![cur[w]] = r]
  BY InnerFacts
<1>2. Allowed(cur[w], p, r)
  BY InnerFacts DEF Allowed
<1> HIDE DEF r
<1>3. Inner(w, p, r)
  BY <1>1 DEF Inner
<1>4. QED
  BY <1>2, <1>3, InnerStep

\* The first DISCOVER.
LEMMA SendDiscoverStep ==
  ASSUME BenchInv, NEW w \in Workers, SendDiscover(w)
  PROVE  BenchInv'
<1> DEFINE c == cur[w]
           r == [client[c] EXCEPT !.state = "DISCOVER"]
           f == Frame("DISCOVER", xid[c], c, 0)
<1>1. pc[w] = "discover" /\ UNCHANGED <<queue, xid, xid_tab, cur, mb, hand>>
  BY DEF SendDiscover
<1>2. CASE Send(w, f) /\ client' = [client EXCEPT ![c].state = "DISCOVER"] /\ Goto(w, "check")
  <2>1. Asks(f, xid)
    BY <1>1, InnerFacts DEF Asks, Frame
  <2>2. /\ r \in ClientRecords /\ r.state = "DISCOVER" /\ r.retries = client[c].retries
        /\ client' = [client EXCEPT ![c] = r]
    BY <1>1, <1>2, InnerFacts DEF ClientRecords
  <2>3. Allowed(c, "check", r)
    BY <1>1, <2>2, InnerFacts DEF Allowed, ActivePcs
  <2>4. Inner(w, "check", r)
    BY <1>1, <1>2, <2>2 DEF Inner, Goto
  <2>5. QED
    BY <1>1, <1>2, <2>1, <2>3, <2>4, InnerStep
<1>3. CASE Goto(w, "out") /\ SendNothing /\ UNCHANGED client
  BY <1>1, <1>3, MoveStep DEF Goto, ActivePcs
<1>4. QED
  BY <1>2, <1>3 DEF SendDiscover

\* Waiting and waking up change the place only.
LEMMA WaitStep ==
  ASSUME BenchInv, NEW w \in Workers, Wait(w) \/ Wake(w)
  PROVE  BenchInv'
<1>1. CASE Wait(w)
  BY <1>1, MoveStep DEF Wait, Goto, ActivePcs, SendNothing
<1>2. CASE Wake(w)
  BY <1>2, MoveStep DEF Wake, Goto, ActivePcs, SendNothing
<1>3. QED
  BY <1>1, <1>2

\* A time-out fails the client or sends the last frame again.
LEMMA TimeoutStep ==
  ASSUME BenchInv, NEW w \in Workers, Timeout(w)
  PROVE  BenchInv'
<1> DEFINE c == cur[w]
           n == client[c].retries + 1
<1>1. pc[w] = "waiting" /\ UNCHANGED <<queue, xid, xid_tab, cur, mb, hand>>
  BY DEF Timeout
<1>2. n \in 0 .. MAX_RETRIES
  <2>1. client[c] \in ClientRecords /\ client[c].retries < MAX_RETRIES
    BY <1>1, InnerFacts
  <2>2. MAX_RETRIES \in Nat
    BY BenchAssumption
  <2> HIDE DEF c
  <2>3. client[c].retries \in 0 .. MAX_RETRIES
    BY <2>1 DEF ClientRecords
  <2>4. QED
    BY <2>1, <2>2, <2>3
<1>3. CASE /\ client' = [client EXCEPT ![c].retries = @ + 1, ![c].state = "FAILED"]
           /\ Goto(w, "out") /\ SendNothing
  <2> DEFINE r == [client[c] EXCEPT !.retries = n, !.state = "FAILED"]
  <2>1. r \in ClientRecords /\ r.state = "FAILED" /\ client' = [client EXCEPT ![c] = r]
    BY <1>1, <1>2, <1>3, InnerFacts DEF ClientRecords
  <2>2. Allowed(c, "out", r)
    BY <2>1 DEF Allowed, ActivePcs
  <2>3. Inner(w, "out", r)
    BY <1>1, <1>3, <2>1 DEF Inner, Goto
  <2>4. QED
    BY <1>1, <1>3, <2>2, <2>3, InnerStep
<1>4. CASE /\ n < MAX_RETRIES /\ client' = [client EXCEPT ![c].retries = @ + 1]
           /\ Send(w, built[w]) /\ Goto(w, "check")
  <2> DEFINE r == [client[c] EXCEPT !.retries = n]
  <2>1. /\ r \in ClientRecords /\ r.state = client[c].state /\ r.retries = n
        /\ r.assigned_ip = client[c].assigned_ip /\ client' = [client EXCEPT ![c] = r]
    BY <1>1, <1>2, <1>4, InnerFacts DEF ClientRecords
  <2>2. Allowed(c, "check", r)
    BY <1>1, <1>4, <2>1, InnerFacts DEF Allowed, ActivePcs
  <2>3. Inner(w, "check", r)
    BY <1>1, <1>4, <2>1 DEF Inner, Goto
  <2>4. Asks(built[w], xid) \/ built[w] = NoFrame
    BY DEF BenchInv, Net
  <2>5. \E f : (Asks(f, xid) \/ f = NoFrame) /\ Send(w, f)
    BY <1>4, <2>4
  <2>6. QED
    BY <1>1, <2>2, <2>3, <2>5, InnerStep
<1>5. QED
  BY <1>3, <1>4 DEF Timeout

\* What a worker makes of a frame: a reply with the client's xid, or nothing of use.
LEMMA Parsed ==
  ASSUME BenchInv, NEW w \in Workers, Take(w), parse_frame(mb[cur[w]], cur[w]).type # "UNKNOWN"
  PROVE  /\ parse_frame(mb[cur[w]], cur[w]) = mb[cur[w]]
         /\ Owed(mb[cur[w]], xid, left)
         /\ OwnXid(cur[w]) => mb[cur[w]].mac = cur[w]
<1>1. pc[w] = "check" /\ mb[cur[w]] # NoFrame
  BY DEF Take
<1>2. Owed(mb[cur[w]], xid, left)
  BY <1>1, InnerFacts
<1>3. mb[cur[w]].xid = xid[cur[w]]
  BY DEF parse_frame, Frame
<1>4. QED
  BY <1>2, <1>3 DEF parse_frame, Owed, OwnXid

\* An OFFER is answered by a REQUEST for its address.
LEMMA TakeOfferStep ==
  ASSUME BenchInv, NEW w \in Workers, TakeOffer(w)
  PROVE  BenchInv'
<1> DEFINE c == cur[w]
           g == mb[c]
           r == [client[c] EXCEPT !.state = "REQUEST", !.retries = 0]
           f == Frame("REQUEST", xid[c], c, g.ip)
<1>1. /\ pc[w] = "check" /\ UNCHANGED <<queue, xid, xid_tab, cur, hand>>
      /\ mb' = [mb EXCEPT ![c] = NoFrame] /\ Take(w)
  BY DEF TakeOffer, Take
<1>2. parse_frame(mb[c], c).type = "OFFER"
  BY DEF TakeOffer
<1>3. parse_frame(mb[c], c) = g /\ g.type = "OFFER" /\ g.ip \in Addresses
  BY <1>1, <1>2, Parsed DEF Owed
<1>4. CASE Send(w, f) /\ client' = [client EXCEPT ![c].state = "REQUEST", ![c].retries = 0] /\ pc' = pc
  <2>1. Asks(f, xid)
    BY <1>1, <1>3, InnerFacts DEF Asks, Frame
  <2>2. /\ r \in ClientRecords /\ r.state = "REQUEST" /\ r.retries = 0
        /\ client' = [client EXCEPT ![c] = r]
    <3>1. 0 \in 0 .. MAX_RETRIES
      BY BenchAssumption
    <3>2. c \in Macs /\ client \in [Macs -> ClientRecords] /\ client[c] \in ClientRecords
      BY <1>1, InnerFacts
    <3>3. client' = [client EXCEPT ![c].state = "REQUEST", ![c].retries = 0]
      BY <1>4
    <3> HIDE DEF c
    <3>4. r \in ClientRecords /\ r.state = "REQUEST" /\ r.retries = 0
      BY <3>1, <3>2 DEF ClientRecords
    <3>5. client' = [client EXCEPT ![c] = r]
      BY <3>2, <3>3 DEF ClientRecords
    <3>6. QED
      BY <3>4, <3>5
  <2>3. Allowed(c, "check", r)
    BY <2>2, BenchAssumption DEF Allowed, ActivePcs
  <2>4. pc' = [pc EXCEPT ![w] = "check"]
    BY <1>1, <1>4, InnerFacts
  <2>5. Inner(w, "check", r)
    BY <1>1, <2>2, <2>4 DEF Inner
  <2>6. QED
    BY <1>1, <1>4, <2>1, <2>3, <2>5, InnerStep
<1>5. CASE Goto(w, "out") /\ SendNothing /\ UNCHANGED client
  BY <1>1, <1>5, MoveStep DEF Goto, ActivePcs
<1>6. QED
  BY <1>3, <1>4, <1>5 DEF TakeOffer

\* An ACK that reaches a client with an xid of its own is the client's.
LEMMA TakeAckStep ==
  ASSUME BenchInv, NEW w \in Workers, TakeAck(w)
  PROVE  BenchInv'
<1> DEFINE c == cur[w]
           g == mb[c]
           r == [client[c] EXCEPT !.state = "DONE", !.assigned_ip = g.ip]
<1>1. /\ pc[w] = "check" /\ UNCHANGED <<queue, xid, xid_tab, cur, hand>>
      /\ mb' = [mb EXCEPT ![c] = NoFrame] /\ Take(w) /\ Goto(w, "out") /\ SendNothing
  BY DEF TakeAck, Take
<1>2. parse_frame(mb[c], c).type = "ACK"
  BY DEF TakeAck
<1>3. /\ parse_frame(mb[c], c) = g /\ g.type = "ACK" /\ g.ip \in Addresses
      /\ left[g.mac][g.ip] > 0
      /\ OwnXid(c) => g.mac = c
  BY <1>1, <1>2, Parsed DEF Owed
<1>4. client' = [client EXCEPT ![c].state = "DONE", ![c].assigned_ip = g.ip]
  BY <1>3 DEF TakeAck
<1>5. /\ r \in ClientRecords /\ r.state = "DONE" /\ r.assigned_ip = g.ip
      /\ r.retries = client[c].retries /\ client' = [client EXCEPT ![c] = r]
  BY <1>1, <1>3, <1>4, InnerFacts DEF ClientRecords
<1>6. Allowed(c, "out", r)
  BY <1>1, <1>3, <1>5, InnerFacts DEF Allowed, ActivePcs
<1>7. Inner(w, "out", r)
  BY <1>1, <1>5 DEF Inner, Goto
<1>8. QED
  BY <1>1, <1>6, <1>7, InnerStep

\* A NAK fails the client.
LEMMA TakeNakStep ==
  ASSUME BenchInv, NEW w \in Workers, TakeNak(w)
  PROVE  BenchInv'
<1> DEFINE c == cur[w]
           r == [client[c] EXCEPT !.state = "FAILED"]
<1>1. /\ pc[w] = "check" /\ UNCHANGED <<queue, xid, xid_tab, cur, hand>>
      /\ mb' = [mb EXCEPT ![c] = NoFrame] /\ Goto(w, "out") /\ SendNothing
      /\ client' = [client EXCEPT ![c].state = "FAILED"]
  BY DEF TakeNak, Take
<1>2. r \in ClientRecords /\ r.state = "FAILED" /\ client' = [client EXCEPT ![c] = r]
  BY <1>1, InnerFacts DEF ClientRecords
<1>3. Allowed(c, "out", r)
  BY <1>2 DEF Allowed, ActivePcs
<1>4. Inner(w, "out", r)
  BY <1>1, <1>2 DEF Inner, Goto
<1>5. QED
  BY <1>1, <1>3, <1>4, InnerStep

\* Another frame is dropped.
LEMMA TakeOtherStep ==
  ASSUME BenchInv, NEW w \in Workers, TakeOther(w)
  PROVE  BenchInv'
<1>1. /\ pc[w] = "check" /\ UNCHANGED <<queue, xid, xid_tab, cur, hand, client>>
      /\ mb' = [mb EXCEPT ![cur[w]] = NoFrame] /\ SendNothing /\ pc' = pc
  BY DEF TakeOther, Take
<1>2. pc' = [pc EXCEPT ![w] = "check"]
  BY <1>1, InnerFacts
<1>3. QED
  BY <1>1, <1>2, MoveStep DEF ActivePcs

-----------------------------------------------------------------------------
\* Steps that leave leases, clients and the network's frames alone.
LEMMA QuietParts ==
  ASSUME BenchInv, UNCHANGED <<xid, client, toClients, vars>>,
         hand' = hand \/ hand' = NoHand,
         \A c \in Macs : mb'[c] = mb[c] \/ mb'[c] = NoFrame,
         \A w \in Workers : built'[w] = built[w] \/ built'[w] = NoFrame
  PROVE  Net' /\ Served' /\ ServerInv'
<1>1. Net /\ Served /\ ServerInv
  BY DEF BenchInv
<1>2. ServerInv' /\ Mono
  BY <1>1, ServerIdle
<1>3. Net'
  BY <1>1, <1>2, NetKept
<1>4. Served'
  BY <1>1 DEF Served, OwnXid, vars
<1>5. QED
  BY <1>2, <1>3, <1>4

\* A worker takes the first client of the queue, or leaves.
LEMMA PopStep ==
  ASSUME BenchInv, NEW w \in Workers, Pop(w)
  PROVE  BenchInv'
<1>1. Types /\ TableExact /\ Work
  BY DEF BenchInv
<1>2. /\ pc[w] = "pop"
      /\ UNCHANGED <<xid, xid_tab, built, client, mb, hand, toClients, vars>>
  BY DEF Pop
<1>3. Net' /\ Served' /\ ServerInv'
  BY <1>2, QuietParts
<1>4. CASE queue = <<>>
  <2>1. pc' = [pc EXCEPT ![w] = "exit"] /\ UNCHANGED <<queue, cur>>
    BY <1>4 DEF Pop, Goto
  <2>2. Types'
    BY <1>1, <1>2, <2>1 DEF Types, Pcs
  <2>3. \A v \in Workers : pc'[v] = IF v = w THEN "exit" ELSE pc[v]
    BY <1>1, <2>1 DEF Types
  <2>4. Active' = Active
    BY <1>2, <2>1, <2>3 DEF Active
  <2>5. TableExact'
    BY <1>1, <1>2, <2>1, <2>4 DEF TableExact, OwnXid
  <2>6. Work'
    BY <1>1, <1>2, <2>1, <2>3 DEF Work
  <2>7. QED
    BY <1>3, <2>2, <2>5, <2>6 DEF BenchInv
<1>5. CASE queue # <<>>
  <2>1. /\ queue' = Tail(queue) /\ cur' = [cur EXCEPT ![w] = Head(queue)]
        /\ pc' = [pc EXCEPT ![w] = "register"]
    BY <1>5 DEF Pop, Goto
  <2>2. /\ queue \in Seq(Macs) /\ Len(queue) \in Nat \ {0}
        /\ Head(queue) = queue[1] /\ queue[1] \in Macs
        /\ Tail(queue) \in Seq(Macs) /\ Len(Tail(queue)) = Len(queue) - 1
        /\ \A i \in 1 .. Len(Tail(queue)) : Tail(queue)[i] = queue[i + 1]
    BY <1>1, <1>5 DEF Types
  <2>3. /\ \A i \in 1 .. Len(queue') : i + 1 \in 1 .. Len(queue) /\ queue'[i] = queue[i + 1]
        /\ 1 \in 1 .. Len(queue)
    BY <2>1, <2>2
  <2>4. \A v \in Workers : /\ pc'[v] = IF v = w THEN "register" ELSE pc[v]
                           /\ cur'[v] = IF v = w THEN queue[1] ELSE cur[v]
    BY <1>1, <2>1, <2>2 DEF Types
  <2>5. Types'
    BY <1>1, <1>2, <2>1, <2>2 DEF Types, Pcs
  <2>6. Active' = Active
    BY <1>2, <2>4, ZenonT(60) DEF Active
  <2>7. TableExact'
    <3>1. \A v, u \in Workers : cur'[v] = cur'[u] /\ cur'[v] # NoMac => v = u
      <4>1. \A v, u \in Workers : cur[v] = cur[u] /\ cur[v] # NoMac => v = u
        BY <1>1 DEF TableExact
      <4>2. \A v \in Workers : cur[v] # queue[1]
        BY <1>1, <2>3 DEF TableExact
      <4>3. QED
        BY <2>4, <4>1, <4>2
    <3>2. \A v \in Workers, i \in 1 .. Len(queue') : cur'[v] # queue'[i]
      <4>1. \A i \in 1 .. Len(queue') : queue'[i] # queue[1]
        BY <1>1, <2>2, <2>3 DEF Work
      <4>2. \A v \in Workers, i \in 1 .. Len(queue') : cur[v] # queue[i + 1]
        BY <1>1, <2>3 DEF TableExact
      <4>3. QED
        BY <2>3, <2>4, <4>1, <4>2
    <3>3. QED
      BY <1>1, <1>2, <2>6, <3>1, <3>2 DEF TableExact, OwnXid
  <2>8. Work'
    <3>1. \A i, j \in 1 .. Len(queue') : queue'[i] = queue'[j] => i = j
      <4>1. \A i, j \in 1 .. Len(queue') : queue[i + 1] = queue[j + 1] => i + 1 = j + 1
        BY <1>1, <2>3 DEF Work
      <4>2. QED
        BY <2>3, <4>1
    <3>2. \A v \in Workers : pc'[v] \notin {"pop", "exit"} => cur'[v] \in Macs
      BY <1>1, <2>2, <2>4 DEF Work
    <3>3. \A v \in Workers : pc'[v] \notin {"pop", "exit", "out"} => client[cur'[v]].state # "FAILED"
      BY <1>1, <2>3, <2>4, SMTT(15), ZenonT(20) DEF Work
    <3>4. \A i \in 1 .. Len(queue') : client[queue'[i]].state # "FAILED"
      BY <1>1, <2>3 DEF Work
    <3>5. QED
      BY <1>1, <1>2, <3>1, <3>2, <3>3, <3>4 DEF Work
  <2>9. QED
    BY <1>3, <2>5, <2>7, <2>8 DEF BenchInv
<1>6. QED
  BY <1>4, <1>5

\* The client is entered in the table, perhaps in the place of another one.
LEMMA RegisterStep ==
  ASSUME BenchInv, NEW w \in Workers, Register(w)
  PROVE  BenchInv'
<1> DEFINE c == cur[w]
<1>1. Types /\ TableExact /\ Work
  BY DEF BenchInv
<1>2. /\ pc[w] = "register" /\ pc' = [pc EXCEPT ![w] = "discover"]
      /\ mb' = [mb EXCEPT ![c] = NoFrame] /\ xid_tab' = [xid_tab EXCEPT ![xid[c]] = c]
      /\ UNCHANGED <<queue, xid, cur, built, client, hand, toClients, vars>>
  BY DEF Register, Goto, xid_tab_insert
<1>3. c \in Macs /\ xid[c] \in Xids
  BY <1>1, <1>2 DEF Work, Types
<1>4. Net' /\ Served' /\ ServerInv'
  <2>1. \A d \in Macs : mb'[d] = mb[d] \/ mb'[d] = NoFrame
    BY <1>1, <1>2 DEF Types
  <2>2. QED
    BY <1>2, <2>1, QuietParts
<1>5. Types'
  BY <1>1, <1>2, <1>3 DEF Types, Pcs, ActivePcs
<1>6. \A v \in Workers : pc'[v] = IF v = w THEN "discover" ELSE pc[v]
  BY <1>1, <1>2 DEF Types
<1>7. Active' = Active \cup {c}
  BY <1>2, <1>6 DEF Active
<1>8. \A x \in Xids : xid_tab'[x] = IF x = xid[c] THEN c ELSE xid_tab[x]
  BY <1>1, <1>2 DEF Types
<1>9. TableExact'
  <2>1. \A x \in Xids : xid_tab'[x] # NoMac => xid_tab'[x] \in Active' /\ xid[xid_tab'[x]] = x
    BY <1>1, <1>7, <1>8 DEF TableExact
  <2>2. ASSUME NEW d \in Active', OwnXid(d) PROVE xid_tab'[xid[d]] = d
    <3>1. CASE d = c
      BY <1>3, <1>8, <3>1
    <3>2. CASE d # c
      <4>0. d \in Active
        BY <1>7, <2>2, <3>2
      <4>1. d \in Active /\ d \in Macs
        BY <1>1, <4>0 DEF Active, Work
      <4>2. xid[d] # xid[c] /\ xid[d] \in Xids
        BY <1>1, <1>3, <2>2, <3>2, <4>1 DEF OwnXid, Types
      <4>3. QED
        BY <1>1, <1>8, <2>2, <4>1, <4>2 DEF TableExact
    <3>3. QED
      BY <3>1, <3>2
  <2>3. \A d : OwnXid(d)' <=> OwnXid(d)
    BY <1>2 DEF OwnXid
  <2>4. xid' = xid /\ queue' = queue /\ cur' = cur
    BY <1>2
  <2>5. QED
    BY <1>1, <2>1, <2>2, <2>3, <2>4 DEF TableExact
<1>10. Work'
  BY <1>1, <1>2, <1>6 DEF Work
<1>11. QED
  BY <1>4, <1>5, <1>9, <1>10 DEF BenchInv

\* The worker leaves its client and takes whatever is under its xid out of the table.
LEMMA FinishStep ==
  ASSUME BenchInv, NEW w \in Workers, Finish(w)
  PROVE  BenchInv'
<1> DEFINE c == cur[w]
<1>1. Types /\ TableExact /\ Work
  BY DEF BenchInv
<1>2. /\ pc[w] = "out" /\ pc' = [pc EXCEPT ![w] = "pop"] /\ cur' = [cur EXCEPT ![w] = NoMac]
      /\ built' = [built EXCEPT ![w] = NoFrame] /\ xid_tab' = [xid_tab EXCEPT ![xid[c]] = NoMac]
      /\ UNCHANGED <<queue, xid, client, mb, hand, toClients, vars>>
  BY DEF Finish, Goto, xid_tab_remove
<1>3. c \in Macs /\ xid[c] \in Xids /\ NoMac \notin Macs
  BY <1>1, <1>2, ServerAssumption DEF Work, Types
<1>4. Net' /\ Served' /\ ServerInv'
  <2>1. \A v \in Workers : built'[v] = built[v] \/ built'[v] = NoFrame
    BY <1>1, <1>2 DEF Types
  <2>2. QED
    BY <1>2, <2>1, QuietParts
<1>5. Types'
  BY <1>1, <1>2, <1>3 DEF Types, Pcs
<1>6. \A v \in Workers : /\ pc'[v] = IF v = w THEN "pop" ELSE pc[v]
                         /\ cur'[v] = IF v = w THEN NoMac ELSE cur[v]
  BY <1>1, <1>2 DEF Types
<1>7. \A x \in Xids : xid_tab'[x] = IF x = xid[c] THEN NoMac ELSE xid_tab[x]
  BY <1>1, <1>2 DEF Types
<1>8. Active' = Active \ {c}
  <2>1. \A v \in Workers : pc[v] \in {"discover", "check", "waiting", "out"} /\ v # w => cur[v] # c
    BY <1>1, <1>3 DEF TableExact
  <2>2. ASSUME NEW d \in Active' PROVE d \in Active /\ d # c
    <3>1. PICK v \in Workers : pc'[v] \in ActivePcs /\ d = cur'[v]
      BY <2>2 DEF Active, ActivePcs
    <3>2. v # w /\ pc[v] \in ActivePcs /\ d = cur[v]
      BY <1>6, <3>1 DEF ActivePcs
    <3>3. QED
      BY <2>1, <3>2 DEF Active, ActivePcs
  <2>3. ASSUME NEW d \in Active, d # c PROVE d \in Active'
    <3>1. PICK v \in Workers : pc[v] \in ActivePcs /\ d = cur[v]
      BY DEF Active, ActivePcs
    <3>2. v # w /\ pc'[v] \in ActivePcs /\ d = cur'[v]
      BY <1>6, <2>3, <3>1
    <3>3. QED
      BY <3>2 DEF Active, ActivePcs
  <2>4. QED
    BY <2>2, <2>3
<1>9. TableExact'
  <2>1. ASSUME NEW x \in Xids, xid_tab'[x] # NoMac
        PROVE  xid_tab'[x] \in Active' /\ xid[xid_tab'[x]] = x
    <3>1. x # xid[c] /\ xid_tab'[x] = xid_tab[x]
      BY <1>7, <2>1
    <3>2. xid_tab[x] \in Active /\ xid[xid_tab[x]] = x
      BY <1>1, <2>1, <3>1 DEF TableExact
    <3>3. QED
      BY <1>8, <3>1, <3>2
  <2>2. ASSUME NEW d \in Active', OwnXid(d) PROVE xid_tab'[xid[d]] = d
    <3>1. d \in Active /\ d # c /\ d \in Macs
      BY <1>1, <1>8, SMTT(15), ZenonT(20) DEF Active, Work
    <3>2. xid[d] # xid[c] /\ xid[d] \in Xids
      BY <1>1, <1>3, <2>2, <3>1 DEF OwnXid, Types
    <3>3. QED
      BY <1>1, <1>7, <2>2, <3>1, <3>2 DEF TableExact
  <2>3. \A v, u \in Workers : cur'[v] = cur'[u] /\ cur'[v] # NoMac => v = u
    <3>1. \A v, u \in Workers : cur[v] = cur[u] /\ cur[v] # NoMac => v = u
      BY <1>1 DEF TableExact
    <3>2. QED
      BY <1>6, <3>1
  <2>4. \A v \in Workers, i \in 1 .. Len(queue) : cur'[v] # queue[i]
    <3>1. \A v \in Workers, i \in 1 .. Len(queue) : cur[v] # queue[i]
      BY <1>1 DEF TableExact
    <3>2. \A i \in 1 .. Len(queue) : queue[i] # NoMac
      BY <1>1, <1>3, SMTT(15), ZenonT(20) DEF Types
    <3>3. QED
      BY <1>6, <3>1, <3>2
  <2>5. \A d : OwnXid(d)' <=> OwnXid(d)
    BY <1>2 DEF OwnXid
  <2>6. xid' = xid /\ queue' = queue
    BY <1>2
  <2>7. QED
    BY <2>1, <2>2, <2>3, <2>4, <2>5, <2>6 DEF TableExact
<1>10. Work'
  <2>1. queue' = queue /\ client' = client
    BY <1>2
  <2>2. \A v \in Workers : pc'[v] # "pop" => pc'[v] = pc[v] /\ cur'[v] = cur[v]
    BY <1>6
  <2>3. QED
    BY <1>1, <2>1, <2>2 DEF Work
<1>11. QED
  BY <1>4, <1>5, <1>9, <1>10 DEF BenchInv

\* The receive manager finds a client for a frame, or puts the frame in a mailbox.
LEMMA ReceiveStep ==
  ASSUME BenchInv, (\E f \in toClients : Lookup(f)) \/ Deliver
  PROVE  BenchInv'
<1>1. Types /\ TableExact /\ Work /\ Net /\ Served /\ ServerInv
  BY DEF BenchInv
<1>2. UNCHANGED <<queue, xid, xid_tab, pc, cur, built, client, vars>>
  BY DEF Lookup, Deliver
<1>3. ServerInv' /\ Mono
  BY <1>1, <1>2, ServerIdle
<1>4. TableExact' /\ Work' /\ Served'
  <2>1. Active' = Active
    BY <1>2 DEF Active
  <2>2. TableExact'
    BY <1>1, <1>2, <2>1 DEF TableExact, OwnXid
  <2>3. Work'
    BY <1>1, <1>2 DEF Work
  <2>4. Served'
    BY <1>1, <1>2 DEF Served, OwnXid, vars
  <2>5. QED
    BY <2>2, <2>3, <2>4
<1>5. ASSUME NEW f \in toClients, Lookup(f) PROVE Net' /\ Types'
  <2>1. mb' = mb /\ toClients' = toClients \ {f}
    BY <1>5 DEF Lookup
  <2>2. /\ hand' = NoHand \/ (hand'.frame = f /\ hand'.to \in Macs)
        /\ hand' \in [frame : Frames, to : Macs] \cup {NoHand}
    <3>1. f.xid \in Xids /\ f \in Frames
      BY <1>1, <1>5 DEF Net, Owed, Frames, Addresses
    <3>2. xid_tab[f.xid] \in Macs \cup {NoMac}
      BY <1>1, <3>1 DEF Types
    <3>3. QED
      BY <1>5, <3>1, <3>2 DEF Lookup, xid_tab_lookup, parse_xid
  <2>3. Net'
    BY <1>1, <1>2, <1>3, <2>1, <2>2, NetKept
  <2>4. QED
    BY <1>1, <1>2, <2>1, <2>2, <2>3 DEF Types
<1>6. ASSUME Deliver PROVE Net' /\ Types'
  <2>1. /\ hand # NoHand /\ mb' = [mb EXCEPT ![hand.to] = hand.frame] /\ hand' = NoHand
        /\ toClients' = toClients
    BY <1>6 DEF Deliver
  <2>2. \A c \in Macs : mb'[c] = mb[c] \/ mb'[c] = hand.frame
    BY <1>1, <2>1 DEF Types
  <2>3. Net'
    BY <1>1, <1>2, <1>3, <2>1, <2>2, NetKept
  <2>4. hand.frame \in Frames
    BY <1>1, <2>1 DEF Net, Owed, Frames, Addresses
  <2>5. QED
    BY <1>1, <1>2, <2>1, <2>3, <2>4 DEF Types
<1>7. QED
  BY <1>3, <1>4, <1>5, <1>6 DEF BenchInv

-----------------------------------------------------------------------------
(***************************************************************************)
(* The invariant is inductive.                                             *)
(***************************************************************************)
\* No worker has started, no frame is under way, and every client is queued once.
LEMMA InitBenchInv == BenchInit => BenchInv
<1> SUFFICES ASSUME BenchInit PROVE BenchInv
  OBVIOUS
<1>1. /\ queue = Clients /\ xid \in Draws
      /\ xid_tab = [x \in Xids |-> NoMac]
      /\ pc = [w \in Workers |-> "pop"] /\ cur = [w \in Workers |-> NoMac]
      /\ built = [w \in Workers |-> NoFrame] /\ mb = [c \in Macs |-> NoFrame]
      /\ client = [c \in Macs |-> [state |-> "NEW", retries |-> 0, assigned_ip |-> 0]]
      /\ hand = NoHand /\ toClients = {} /\ Init
  BY DEF BenchInit
<1>2. ServerInv
  BY <1>1, InitServerInv
<1>3. 0 \in 0 .. MAX_RETRIES /\ 0 < MAX_RETRIES
  BY BenchAssumption
<1>4. \A c \in Macs : client[c] \in ClientRecords /\ client[c].state = "NEW" /\ client[c].retries = 0
  BY <1>1, <1>3 DEF ClientRecords
<1>5. Types
  BY <1>1, <1>4, BenchAssumption DEF Types, Pcs
<1>6. \A i \in 1 .. Len(queue) : queue[i] \in Macs
  BY <1>5 DEF Types
<1>7. Active = {}
  BY <1>1 DEF Active
<1>8. TableExact
  BY <1>1, <1>6, <1>7, ServerAssumption DEF TableExact
<1>9. Net
  BY <1>1 DEF Net
<1>10. Work
  BY <1>1, <1>3, <1>4, <1>6, BenchAssumption DEF Work
<1>11. Served
  BY <1>4 DEF Served
<1>12. QED
  BY <1>2, <1>5, <1>8, <1>9, <1>10, <1>11 DEF BenchInv

\* Every step of a worker or of the receive manager keeps it.
LEMMA NextBenchInv == BenchInv /\ [BenchNext]_benchVars => BenchInv'
<1> SUFFICES ASSUME BenchInv, [BenchNext]_benchVars PROVE BenchInv'
  OBVIOUS
<1>1. ASSUME NEW w \in Workers, Worker(w) PROVE BenchInv'
  BY <1>1, PopStep, RegisterStep, SendDiscoverStep, WaitStep, TimeoutStep, TakeOfferStep,
     TakeAckStep, TakeNakStep, TakeOtherStep, FinishStep DEF Worker
<1>2. CASE (\E f \in toClients : Lookup(f)) \/ Deliver
  BY <1>2, ReceiveStep
<1>3. CASE UNCHANGED benchVars
  <2>1. UNCHANGED <<queue, xid, xid_tab, pc, cur, built, client, mb, hand, toClients, vars>>
    BY <1>3 DEF benchVars
  <2>2. Net' /\ Served' /\ ServerInv'
    BY <2>1, QuietParts
  <2>3. Active' = Active
    BY <2>1 DEF Active
  <2>4. Types /\ TableExact /\ Work
    BY DEF BenchInv
  <2>5. Types'
    BY <2>1, <2>4 DEF Types
  <2>6. TableExact'
    BY <2>1, <2>3, <2>4 DEF TableExact, OwnXid
  <2>7. Work'
    BY <2>1, <2>4 DEF Work
  <2>8. QED
    BY <2>2, <2>5, <2>6, <2>7 DEF BenchInv
<1>4. QED
  BY <1>1, <1>2, <1>3 DEF BenchNext

\* The invariant holds in every reachable state.
LEMMA BenchInvAlways == BenchSpec => []BenchInv
BY InitBenchInv, NextBenchInv, PTL DEF BenchSpec

-----------------------------------------------------------------------------
(***************************************************************************)
(* The benchmark's state keeps its types: no client counts more than       *)
(* MAX_RETRIES timeouts, and only frames of the protocol are under way.    *)
(***************************************************************************)
THEOREM BenchTypeCorrect == BenchSpec => []BenchTypeOK
<1>1. BenchInv => BenchTypeOK
  <2> SUFFICES ASSUME BenchInv PROVE BenchTypeOK
    OBVIOUS
  <2>1. Types /\ Net /\ ServerInv
    BY DEF BenchInv
  <2>2. toClients \subseteq Frames
    BY <2>1 DEF Net, Owed, Frames, Addresses
  <2>3. TypeOK
    BY <2>1 DEF ServerInv
  <2>4. QED
    BY <2>1, <2>2, <2>3 DEF BenchTypeOK, Types, Pcs, ActivePcs, ClientRecords, Addresses
<1>2. QED
  BY <1>1, BenchInvAlways, PTL

(***************************************************************************)
(* The xid table and the workers agree, whatever xids the clients drew     *)
(* (xid_tab_insert, xid_tab_remove).                                       *)
(***************************************************************************)
THEOREM TableAlwaysExact == BenchSpec => []TableExact
<1>1. BenchInv => TableExact
  BY DEF BenchInv
<1>2. QED
  BY <1>1, BenchInvAlways, PTL

(***************************************************************************)
(* A client with an xid of its own that is counted as passed holds its     *)
(* address, and holds it alone (the DHCP_ACK case of worker_thread).       *)
(***************************************************************************)
THEOREM PassedAlwaysServed == BenchSpec => []PassedIsServed
<1>1. BenchInv => PassedIsServed
  <2> SUFFICES ASSUME BenchInv, NEW c \in Macs, client[c].state = "DONE", OwnXid(c)
               PROVE  {m \in Macs : Live(m, client[c].assigned_ip)} = {c}
    BY DEF PassedIsServed
  <2>1. client[c].assigned_ip \in Addresses /\ left[c][client[c].assigned_ip] > 0
    BY DEF BenchInv, Served
  <2>2. \A m, n \in Macs : Live(m, client[c].assigned_ip) /\ Live(n, client[c].assigned_ip) => m = n
    BY <2>1 DEF BenchInv, ServerInv, NoDoubleGrant, Live, Pool, Addresses
  <2>3. Live(c, client[c].assigned_ip)
    BY <2>1 DEF Live
  <2>4. QED
    BY <2>2, <2>3
<1>2. QED
  BY <1>1, BenchInvAlways, PTL
=============================================================================
