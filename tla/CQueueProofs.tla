---------------------------- MODULE CQueueProofs ----------------------------
(***************************************************************************)
(* Proofs about the circular queue for a buffer and items of any size: the *)
(* queue without a lock is a FIFO, and items arrive whole.                 *)
(***************************************************************************)
EXTENDS CQueue, TLAPS

\* The provers get more time than they do by default: some steps have many facts.
USE SMTT(15), ZenonT(20)

-----------------------------------------------------------------------------
(***************************************************************************)
(* Positions without the remainder: the number of bytes from t to h, and   *)
(* the place k bytes after t.                                              *)
(***************************************************************************)
Dist(h, t) == IF t <= h THEN h - t ELSE h - t + CQ_N

Place(t, k) == IF t + k < CQ_N THEN t + k ELSE t + k - CQ_N

\* A remainder of a number below twice the divisor.
LEMMA SmallRemainder ==
  ASSUME NEW n \in Nat \ {0}, NEW x \in 0 .. (2 * n - 1)
  PROVE  x % n = IF x < n THEN x ELSE x - n
<1>1. CASE x < n
  BY <1>1
<1>2. CASE x >= n
  <2>1. PICK y \in 0 .. (n - 1) : x = y + n
    <3>1. x - n \in 0 .. (n - 1) /\ x = (x - n) + n
      BY <1>2
    <3>2. QED
      BY <3>1
  <2>2. (y + n) % n = y
    BY <2>1
  <2>3. QED
    BY <2>1, <2>2, <1>2
<1>3. QED
  BY <1>1, <1>2

\* Items are numbered round.
LEMMA NextItem == \A k \in 0 .. (Items - 1) : (k + 1) % Items \in 0 .. (Items - 1)
<1>1. \A x \in Nat, n \in Nat \ {0} : x % n \in 0 .. (n - 1)
  OBVIOUS
<1>2. Items \in Nat \ {0} /\ \A k \in 0 .. (Items - 1) : k + 1 \in Nat
  BY CQueueAssumption
<1>3. QED
  BY <1>1, <1>2

\* The index arithmetic of cq_push, cq_pop and cq_nelem without remainders.
LEMMA Remainders ==
  /\ \A t \in Places, k \in 0 .. (CQ_N - 1) : (t + k) % CQ_N = Place(t, k)
  /\ \A h, t \in Places : (h - t + CQ_N) % CQ_N = Dist(h, t)
  /\ \A i \in Places : Succ(i) = Place(i, 1)
<1>0. CQ_N \in Nat \ {0}
  BY CQueueAssumption
<1>1. ASSUME NEW t \in Places, NEW k \in 0 .. (CQ_N - 1) PROVE (t + k) % CQ_N = Place(t, k)
  <2> DEFINE x == t + k
  <2>1. x \in 0 .. (2 * CQ_N - 1)
    BY <1>0 DEF Places
  <2>2. (IF x < CQ_N THEN x ELSE x - CQ_N) = Place(t, k)
    BY <1>0 DEF Place, Places
  <2> HIDE DEF x
  <2>3. x % CQ_N = IF x < CQ_N THEN x ELSE x - CQ_N
    BY <1>0, <2>1, SmallRemainder
  <2>4. QED
    BY <2>2, <2>3 DEF x
<1>2. ASSUME NEW h \in Places, NEW t \in Places PROVE (h - t + CQ_N) % CQ_N = Dist(h, t)
  <2> DEFINE x == h - t + CQ_N
  <2>1. x \in 0 .. (2 * CQ_N - 1)
    BY <1>0 DEF Places
  <2>2. (IF x < CQ_N THEN x ELSE x - CQ_N) = Dist(h, t)
    BY <1>0 DEF Dist, Places
  <2> HIDE DEF x
  <2>3. x % CQ_N = IF x < CQ_N THEN x ELSE x - CQ_N
    BY <1>0, <2>1, SmallRemainder
  <2>4. QED
    BY <2>2, <2>3 DEF x
<1>3. 1 \in 0 .. (CQ_N - 1)
  BY CQueueAssumption
<1>4. QED
  BY <1>1, <1>2, <1>3 DEF Succ

\* How places and distances move with the head and the tail.
LEMMA Geometry ==
  /\ \A t \in Places, k \in 0 .. (CQ_N - 1) : Place(t, k) \in Places
  /\ \A h, t \in Places : Dist(h, t) \in 0 .. (CQ_N - 1)
  /\ \A t \in Places : Place(t, 0) = t
  /\ \A h, t \in Places : Dist(h, t) = 0 <=> h = t
  /\ \A h, t \in Places : Place(t, Dist(h, t)) = h
  /\ \A h, t \in Places : Dist(h, t) < CQ_N - 1 => Dist(Place(h, 1), t) = Dist(h, t) + 1
  /\ \A h, t \in Places : Dist(h, t) > 0 => Dist(h, Place(t, 1)) = Dist(h, t) - 1
  /\ \A h, t \in Places : Place(h, 1) = t <=> Dist(h, t) = CQ_N - 1
  /\ \A t \in Places, k \in 0 .. (CQ_N - 2) : Place(Place(t, 1), k) = Place(t, k + 1)
  /\ \A h, t \in Places, k \in 0 .. (CQ_N - 1) : k < Dist(h, t) => Place(t, k) # h
BY CQueueAssumption DEF Places, Place, Dist

-----------------------------------------------------------------------------
(***************************************************************************)
(* The stream of items, byte by byte.                                      *)
(***************************************************************************)
NextByte(b) == IF b[2] < Size THEN <<b[1], b[2] + 1>> ELSE <<(b[1] + 1) % Items, 1>>

\* From t to h the buffer holds the stream from byte b up to what comes before byte p.
Stream(buf, h, p, t, b) ==
  /\ Dist(h, t) = 0 => b = p
  /\ Dist(h, t) > 0 => buf[t] = b /\ NextByte(buf[Place(t, Dist(h, t) - 1)]) = p
  /\ \A k \in 0 .. (Dist(h, t) - 1) : buf[Place(t, k)] \in Bytes
  /\ \A k \in 1 .. (Dist(h, t) - 1) : buf[Place(t, k)] = NextByte(buf[Place(t, k - 1)])

Buffers == [Places -> Bytes \cup {NoByte}]

\* A store at the head, before it moves, is outside the stretch.
LEMMA StreamStore ==
  ASSUME NEW buf \in Buffers, NEW h \in Places, NEW t \in Places, NEW p, NEW b, NEW x,
         Stream(buf, h, p, t, b)
  PROVE  Stream([buf EXCEPT ![h] = x], h, p, t, b)
<1> DEFINE new == [buf EXCEPT ![h] = x]
<1>1. \A k \in 0 .. (Dist(h, t) - 1) : new[Place(t, k)] = buf[Place(t, k)]
  <2> SUFFICES ASSUME NEW k \in 0 .. (Dist(h, t) - 1) PROVE new[Place(t, k)] = buf[Place(t, k)]
    OBVIOUS
  <2>1. k \in 0 .. (CQ_N - 1) /\ k < Dist(h, t)
    <3>1. Dist(h, t) \in 0 .. (CQ_N - 1)
      BY Geometry
    <3>2. QED
      BY <3>1, CQueueAssumption
  <2>2. Place(t, k) \in Places /\ Place(t, k) # h
    BY <2>1, Geometry
  <2>3. QED
    BY <2>2 DEF Buffers
<1>2. Dist(h, t) \in Nat /\ Place(t, 0) = t
  BY Geometry, CQueueAssumption
<1>3. Dist(h, t) > 0 => new[t] = buf[t]
  BY <1>1, <1>2
<1> HIDE DEF new
<1>4. Stream(new, h, p, t, b)
  BY <1>1, <1>2, <1>3 DEF Stream
<1>5. QED
  BY <1>4 DEF new

\* Moving the head over the next byte lengthens the stretch.
LEMMA StreamPush ==
  ASSUME NEW buf \in Buffers, NEW h \in Places, NEW t \in Places, NEW p \in Bytes, NEW b,
         Stream(buf, h, p, t, b), Dist(h, t) < CQ_N - 1, buf[h] = p
  PROVE  Stream(buf, Place(h, 1), NextByte(p), t, b)
<1> DEFINE d == Dist(h, t)
<1>1. /\ d \in Nat /\ Dist(Place(h, 1), t) = d + 1 /\ Place(t, d) = h /\ Place(t, 0) = t
      /\ (d = 0 <=> h = t)
  BY Geometry, CQueueAssumption
<1>2. buf[t] = b
  BY <1>1 DEF Stream
<1>3. ASSUME NEW k \in 0 .. d PROVE buf[Place(t, k)] \in Bytes
  BY <1>1 DEF Stream
<1>4. ASSUME NEW k \in 1 .. d PROVE buf[Place(t, k)] = NextByte(buf[Place(t, k - 1)])
  BY <1>1 DEF Stream
<1>5. NextByte(buf[Place(t, (d + 1) - 1)]) = NextByte(p)
  BY <1>1
<1> HIDE DEF d
<1>6. QED
  BY <1>1, <1>2, <1>3, <1>4, <1>5 DEF Stream

\* The byte at the tail is the next one, and moving the tail shortens the stretch.
LEMMA StreamPop ==
  ASSUME NEW buf \in Buffers, NEW h \in Places, NEW t \in Places, NEW p, NEW b,
         Stream(buf, h, p, t, b), Dist(h, t) > 0
  PROVE  Stream(buf, h, p, Place(t, 1), NextByte(b)) /\ buf[t] = b /\ b \in Bytes
<1> DEFINE d == Dist(h, t)
           u == Place(t, 1)
<1>1. /\ d \in 1 .. (CQ_N - 1) /\ Dist(h, u) = d - 1 /\ Place(t, 0) = t
      /\ \A k \in 0 .. (d - 1) : Place(u, k) = Place(t, k + 1)
      /\ u \in Places /\ Place(u, 0) = u
  <2>1. d \in 1 .. (CQ_N - 1) /\ Dist(h, u) = d - 1 /\ Place(t, 0) = t
    BY Geometry, CQueueAssumption
  <2>2. u \in Places /\ Place(u, 0) = u
    BY Geometry, CQueueAssumption
  <2>3. \A k \in 0 .. (CQ_N - 2) : Place(u, k) = Place(t, k + 1)
    BY Geometry
  <2>4. QED
    BY <2>1, <2>2, <2>3, CQueueAssumption
<1>2. /\ buf[t] = b /\ NextByte(buf[Place(t, d - 1)]) = p
      /\ \A k \in 0 .. (d - 1) : buf[Place(t, k)] \in Bytes
      /\ \A k \in 1 .. (d - 1) : buf[Place(t, k)] = NextByte(buf[Place(t, k - 1)])
  BY DEF Stream
<1> HIDE DEF d, u
<1>3. d - 1 = 0 => NextByte(b) = p
  BY <1>1, <1>2
<1>4. d - 1 > 0 => buf[u] = NextByte(b) /\ NextByte(buf[Place(u, (d - 1) - 1)]) = p
  <2> SUFFICES ASSUME d - 1 > 0
               PROVE  buf[u] = NextByte(b) /\ NextByte(buf[Place(u, (d - 1) - 1)]) = p
    OBVIOUS
  <2>1. buf[Place(t, 1)] = NextByte(buf[Place(t, 0)])
    BY <1>1, <1>2
  <2>2. Place(u, d - 2) = Place(t, d - 1) /\ (d - 1) - 1 = d - 2
    BY <1>1
  <2>3. QED
    BY <1>1, <1>2, <2>1, <2>2 DEF u
<1>5. \A k \in 0 .. ((d - 1) - 1) : buf[Place(u, k)] \in Bytes
  BY <1>1, <1>2
<1>6. \A k \in 1 .. ((d - 1) - 1) : buf[Place(u, k)] = NextByte(buf[Place(u, k - 1)])
  BY <1>1, <1>2
<1>7. buf[t] = b /\ b \in Bytes
  BY <1>1, <1>2
<1>8. Stream(buf, h, p, u, NextByte(b))
  BY <1>1, <1>3, <1>4, <1>5, <1>6 DEF Stream
<1>9. QED
  BY <1>7, <1>8 DEF u

-----------------------------------------------------------------------------
(***************************************************************************)
(* The inductive invariant.  A side that has made sure of its room or its  *)
(* bytes keeps them, whatever the other side does, and the buffer holds    *)
(* the stretch of the stream between what is popped and what is pushed     *)
(* next.  During a peek the same holds from the tail that is put back.     *)
(***************************************************************************)
ProdByte == <<prod.item, prod.i>>

ConsByte ==
  IF cons.pc = "idle" THEN <<expected, 1>>
  ELSE IF cons.pc = "done" THEN <<(expected + 1) % Items, 1>>
  ELSE <<expected, cons.i>>

\* The first n bytes of the item that comes next.
First(n) == [j \in 1 .. n |-> <<expected, j>>]

Types ==
  /\ c_buf \in Buffers
  /\ head \in Places /\ tail \in Places
  /\ prod \in [pc : {"idle", "test", "store", "advance"}, i : 1 .. Size, item : 0 .. (Items - 1)]
  /\ cons \in [pc : {"idle", "test", "load", "advance", "done"}, i : 1 .. Size,
               got : Seq(Bytes), saved : Places \cup {NoPlace}]
  /\ out \in Bytes \cup {NoByte}
  /\ expected \in 0 .. (Items - 1)

ProdInv ==
  /\ prod.pc = "idle" => prod.i = 1
  /\ prod.pc # "idle" => Dist(head, tail) + (Size - prod.i + 1) <= CQ_N - 1
  /\ prod.pc = "advance" => c_buf[head] = ProdByte

ConsInv ==
  /\ cons.pc \in {"test", "load", "advance"} => Dist(head, tail) >= Size - cons.i + 1
  /\ cons.pc \in {"test", "load"} => cons.got = First(cons.i - 1)
  /\ cons.pc = "advance" => cons.got = First(cons.i)
  /\ cons.pc = "done" => cons.got = First(Size)

PeekInv ==
  Peeking => /\ prod.pc = "idle" /\ cons.pc # "idle"
             /\ Stream(c_buf, head, ProdByte, cons.saved, <<expected, 1>>)

IInv ==
  /\ Types /\ ProdInv /\ ConsInv /\ PeekInv
  /\ Stream(c_buf, head, ProdByte, tail, ConsByte)

\* cq_init leaves an empty queue.
LEMMA InitIInv == Init => IInv
<1> SUFFICES ASSUME Init PROVE IInv
  OBVIOUS
<1>1. 0 \in Places /\ Dist(0, 0) = 0
  BY CQueueAssumption DEF Places, Dist
<1>2. Types
  BY <1>1, CQueueAssumption DEF Init, Types, Buffers, NoPlace
<1>3. ProdInv /\ ConsInv /\ PeekInv
  BY DEF Init, ProdInv, ConsInv, PeekInv, Peeking
<1>4. Stream(c_buf, head, ProdByte, tail, ConsByte)
  BY <1>1 DEF Init, Stream, ProdByte, ConsByte
<1>5. QED
  BY <1>2, <1>3, <1>4 DEF IInv

\* The types of the parts of the two sides.
LEMMA Parts ==
  ASSUME Types
  PROVE  /\ prod.i \in 1 .. Size /\ prod.item \in 0 .. (Items - 1)
         /\ prod.pc \in {"idle", "test", "store", "advance"}
         /\ cons.i \in 1 .. Size /\ cons.got \in Seq(Bytes) /\ cons.saved \in Places \cup {NoPlace}
         /\ cons.pc \in {"idle", "test", "load", "advance", "done"}
         /\ ProdByte \in Bytes
         /\ Size \in Nat /\ CQ_N \in Nat /\ Items \in Nat \ {0}
         /\ Dist(head, tail) \in 0 .. (CQ_N - 1)
BY CQueueAssumption, Geometry DEF Types, ProdByte, Bytes

\* The counts of the code are distances.
LEMMA Counts ==
  ASSUME Types
  PROVE  /\ cq_nelem = Dist(head, tail)
         /\ cq_full <=> Dist(head, tail) = CQ_N - 1
         /\ cq_empty <=> Dist(head, tail) = 0
<1>1. head \in Places /\ tail \in Places
  BY DEF Types
<1>2. cq_nelem = Dist(head, tail)
  BY <1>1, Remainders DEF cq_nelem
<1>3. cq_full <=> Dist(head, tail) = CQ_N - 1
  <2>1. Succ(head) = Place(head, 1)
    BY <1>1, Remainders
  <2>2. Place(head, 1) = tail <=> Dist(head, tail) = CQ_N - 1
    BY <1>1, Geometry
  <2>3. QED
    BY <2>1, <2>2 DEF cq_full
<1>4. cq_empty <=> Dist(head, tail) = 0
  BY <1>1, Geometry DEF cq_empty
<1>5. QED
  BY <1>2, <1>3, <1>4

\* The producer makes sure of the room for an item.
LEMMA PushStartStep ==
  ASSUME IInv, ~Peeking, PushStart
  PROVE  IInv'
<1>1. Types /\ prod.pc = "idle" /\ prod.i = 1
  BY DEF IInv, ProdInv, PushStart
<1>2. /\ prod' = [prod EXCEPT !.pc = "test"]
      /\ UNCHANGED <<c_buf, head, tail, cons, out, expected>>
  BY DEF PushStart
<1>3. prod'.pc = "test" /\ prod'.i = prod.i /\ prod'.item = prod.item
  BY <1>1, <1>2 DEF Types
<1>4. Types'
  BY <1>1, <1>2 DEF Types
<1>5. Dist(head, tail) + Size <= CQ_N - 1
  BY <1>1, Counts, Parts DEF PushStart, cq_nspace
<1>6. ProdInv'
  BY <1>1, <1>2, <1>3, <1>5, Parts DEF ProdInv
<1>7. ConsInv' /\ ~Peeking'
  BY <1>2 DEF IInv, ConsInv, First, Peeking
<1>8. Stream(c_buf, head, ProdByte, tail, ConsByte)'
  BY <1>2, <1>3 DEF IInv, Stream, ProdByte, ConsByte
<1>9. QED
  BY <1>4, <1>6, <1>7, <1>8 DEF IInv, PeekInv

\* The test of cq_push never fails: there is room for the rest of the item.
LEMMA PushTestStep ==
  ASSUME IInv, ~Peeking, PushTest
  PROVE  IInv'
<1>1. Types /\ prod.pc = "test" /\ Dist(head, tail) + (Size - prod.i + 1) <= CQ_N - 1
  BY DEF IInv, ProdInv, PushTest
<1>2. ~cq_full
  BY <1>1, Counts, Parts
<1>3. /\ prod' = [prod EXCEPT !.pc = "store"]
      /\ UNCHANGED <<c_buf, head, tail, cons, out, expected>>
  BY <1>2 DEF PushTest
<1>4. prod'.pc = "store" /\ prod'.i = prod.i /\ prod'.item = prod.item
  BY <1>1, <1>3 DEF Types
<1>5. Types'
  BY <1>1, <1>3 DEF Types
<1>6. ProdInv'
  BY <1>1, <1>3, <1>4 DEF ProdInv
<1>7. ConsInv' /\ ~Peeking'
  BY <1>3 DEF IInv, ConsInv, First, Peeking
<1>8. Stream(c_buf, head, ProdByte, tail, ConsByte)'
  BY <1>3, <1>4 DEF IInv, Stream, ProdByte, ConsByte
<1>9. QED
  BY <1>5, <1>6, <1>7, <1>8 DEF IInv, PeekInv

\* A byte is stored in room that the producer has made sure of.
LEMMA PushStoreStep ==
  ASSUME IInv, ~Peeking, PushStore
  PROVE  IInv'
<1>1. /\ Types /\ prod.pc = "store" /\ Dist(head, tail) + (Size - prod.i + 1) <= CQ_N - 1
      /\ Stream(c_buf, head, ProdByte, tail, ConsByte)
  BY DEF IInv, ProdInv, PushStore
<1>2. /\ c_buf' = [c_buf EXCEPT ![head] = ProdByte]
      /\ prod' = [prod EXCEPT !.pc = "advance"]
      /\ UNCHANGED <<head, tail, cons, out, expected>>
  BY DEF PushStore, ProdByte
<1>3. /\ prod'.pc = "advance" /\ prod'.i = prod.i /\ prod'.item = prod.item
      /\ c_buf' \in Buffers /\ c_buf'[head] = ProdByte
  BY <1>1, <1>2, Parts DEF Types, Buffers
<1>4. Types'
  BY <1>1, <1>2, <1>3 DEF Types
<1>5. ProdByte' = ProdByte /\ ConsByte' = ConsByte
  BY <1>2, <1>3 DEF ProdByte, ConsByte
<1>6. ProdInv'
  BY <1>1, <1>2, <1>3, <1>5 DEF ProdInv
<1>7. ConsInv' /\ ~Peeking'
  BY <1>2 DEF IInv, ConsInv, First, Peeking
<1>8. Stream(c_buf', head, ProdByte, tail, ConsByte)
  BY <1>1, <1>2, StreamStore DEF Types
<1>9. Stream(c_buf, head, ProdByte, tail, ConsByte)'
  BY <1>2, <1>5, <1>8 DEF Stream
<1>10. QED
  BY <1>4, <1>6, <1>7, <1>9 DEF IInv, PeekInv

\* The head moves on by a byte, and the producer to the next byte of the stream.
LEMMA PushAdvanceStep ==
  ASSUME IInv, ~Peeking, PushAdvance
  PROVE  /\ IInv'
         /\ head' = Place(head, 1) /\ Dist(head, tail) < CQ_N - 1 /\ c_buf[head] = ProdByte
<1>1. /\ Types /\ prod.pc = "advance" /\ Dist(head, tail) + (Size - prod.i + 1) <= CQ_N - 1
      /\ c_buf[head] = ProdByte /\ Stream(c_buf, head, ProdByte, tail, ConsByte)
  BY DEF IInv, ProdInv, PushAdvance
<1>2. head' = Place(head, 1) /\ prod' = BytePushed /\ UNCHANGED <<c_buf, tail, cons, out, expected>>
  BY <1>1, Remainders DEF PushAdvance, Types
<1>3. Dist(head, tail) < CQ_N - 1
  BY <1>1, Parts
<1>4. head' \in Places /\ Dist(head', tail) = Dist(head, tail) + 1
  <2>1. head \in Places /\ tail \in Places /\ 1 \in 0 .. (CQ_N - 1)
    BY <1>1, CQueueAssumption DEF Types
  <2>2. QED
    BY <1>2, <1>3, <2>1, Geometry
<1>5. ProdByte' = NextByte(ProdByte)
  <2>1. CASE prod.i < Size
    BY <1>1, <1>2, <2>1, Parts DEF BytePushed, ProdByte, NextByte, Types
  <2>2. CASE ~(prod.i < Size)
    BY <1>1, <1>2, <2>2, Parts DEF BytePushed, ProdByte, NextByte, Types
  <2>3. QED
    BY <2>1, <2>2
<1>6. prod' \in [pc : {"idle", "test", "store", "advance"}, i : 1 .. Size, item : 0 .. (Items - 1)]
  <2>1. CASE prod.i < Size
    <3>1. prod.i + 1 \in 1 .. Size
      BY <1>1, <2>1, Parts
    <3>2. QED
      BY <1>1, <1>2, <2>1, <3>1 DEF BytePushed, Types
  <2>2. CASE ~(prod.i < Size)
    <3>1. (prod.item + 1) % Items \in 0 .. (Items - 1)
      BY <1>1, Parts, NextItem
    <3>2. 1 \in 1 .. Size
      BY CQueueAssumption
    <3>3. QED
      BY <1>2, <2>2, <3>1, <3>2 DEF BytePushed
  <2>3. QED
    BY <2>1, <2>2
<1>7. Types'
  BY <1>1, <1>2, <1>4, <1>6 DEF Types
<1>8. ProdInv'
  <2>1. CASE prod.i < Size
    <3>1. prod'.pc = "test" /\ prod'.i = prod.i + 1
      BY <1>1, <1>2, <2>1 DEF BytePushed, Types
    <3>2. Dist(head', tail') = Dist(head, tail) + 1
      BY <1>2, <1>4
    <3>3. Dist(head, tail) \in Nat /\ prod.i \in Nat /\ Size \in Nat /\ CQ_N \in Nat
      BY <1>1, Parts
    <3>4. Dist(head', tail') + (Size - prod'.i + 1) <= CQ_N - 1
      BY <1>1, <3>1, <3>2, <3>3
    <3>5. QED
      BY <3>1, <3>4 DEF ProdInv
  <2>2. CASE ~(prod.i < Size)
    BY <1>2, <2>2 DEF BytePushed, ProdInv
  <2>3. QED
    BY <2>1, <2>2
<1>9. ConsInv' /\ ~Peeking'
  <2>1. ConsInv
    BY DEF IInv
  <2>2. QED
    BY <1>1, <1>2, <1>4, <2>1, Parts DEF ConsInv, First, Peeking
<1>10. Stream(c_buf, head', NextByte(ProdByte), tail, ConsByte)
  BY <1>1, <1>2, <1>3, StreamPush, Parts DEF Types
<1>11. Stream(c_buf, head, ProdByte, tail, ConsByte)'
  <2>1. ConsByte' = ConsByte
    BY <1>2 DEF ConsByte
  <2>2. QED
    BY <1>2, <1>5, <1>10, <2>1 DEF Stream
<1>12. QED
  BY <1>1, <1>2, <1>3, <1>7, <1>8, <1>9, <1>11 DEF IInv, PeekInv

-----------------------------------------------------------------------------
\* A call of cq_pop_n or cq_peek_n begins: the bytes of a whole item are there.
LEMMA PopStartStep ==
  ASSUME IInv, PopStart \/ (prod.pc = "idle" /\ PeekStart)
  PROVE  IInv'
<1>1. Types /\ cons.pc = "idle" /\ Stream(c_buf, head, ProdByte, tail, ConsByte) /\ ProdInv
  BY DEF IInv, PopStart, PeekStart
<1>2. /\ cons'.pc = "test" /\ cons'.i = 1 /\ cons'.got = <<>>
      /\ cons'.saved = NoPlace \/ (cons'.saved = tail /\ prod.pc = "idle")
      /\ UNCHANGED <<c_buf, head, tail, prod, out, expected>>
  BY DEF PopStart, PeekStart
<1>3. Types'
  <2>1. 1 \in 1 .. Size /\ tail \in Places
    BY <1>1, CQueueAssumption DEF Types
  <2>2. cons' \in [pc : {"idle", "test", "load", "advance", "done"}, i : 1 .. Size,
                   got : Seq(Bytes), saved : Places \cup {NoPlace}]
    <3>1. <<>> \in Seq(Bytes)
      OBVIOUS
    <3>2. CASE PopStart
      BY <2>1, <3>1, <3>2 DEF PopStart
    <3>3. CASE PeekStart
      BY <2>1, <3>1, <3>3 DEF PeekStart
    <3>4. QED
      BY <3>2, <3>3
  <2>3. QED
    BY <1>1, <1>2, <2>2 DEF Types
<1>4. Dist(head, tail) >= Size
  BY <1>1, Counts DEF PopStart, PeekStart
<1>5. ProdByte' = ProdByte /\ ConsByte = <<expected, 1>> /\ ConsByte' = <<expected, 1>>
  BY <1>1, <1>2 DEF ProdByte, ConsByte
<1>6. ProdInv'
  BY <1>1, <1>2, <1>5 DEF ProdInv
<1>7. ConsInv'
  <2>1. First(0)' = <<>>
    BY DEF First
  <2>2. QED
    BY <1>1, <1>2, <1>4, <2>1, Parts DEF ConsInv
<1>8. Stream(c_buf, head, ProdByte, tail, ConsByte)'
  BY <1>1, <1>2, <1>5 DEF Stream
<1>9. PeekInv'
  BY <1>1, <1>2, <1>5 DEF PeekInv, Peeking, Stream
<1>10. QED
  BY <1>3, <1>6, <1>7, <1>8, <1>9 DEF IInv

\* The test of cq_pop never fails: the rest of the item is there.
LEMMA PopTestStep ==
  ASSUME IInv, PopTest
  PROVE  IInv'
<1>1. /\ Types /\ cons.pc = "test" /\ Dist(head, tail) >= Size - cons.i + 1
      /\ cons.got = First(cons.i - 1)
      /\ ProdInv /\ PeekInv /\ Stream(c_buf, head, ProdByte, tail, ConsByte)
  BY DEF IInv, ConsInv, PopTest
<1>2. ~cq_empty
  BY <1>1, Counts, Parts
<1>3. cons' = [cons EXCEPT !.pc = "load"] /\ UNCHANGED <<c_buf, head, tail, prod, out, expected>>
  BY <1>2 DEF PopTest
<1>4. cons'.pc = "load" /\ cons'.i = cons.i /\ cons'.got = cons.got /\ cons'.saved = cons.saved
  BY <1>1, <1>3 DEF Types
<1>5. Types'
  BY <1>1, <1>3 DEF Types
<1>6. ProdByte' = ProdByte /\ ConsByte' = ConsByte
  BY <1>1, <1>3, <1>4 DEF ProdByte, ConsByte
<1>7. ProdInv' /\ ConsInv'
  BY <1>1, <1>3, <1>4, <1>6 DEF ProdInv, ConsInv, First
<1>8. Stream(c_buf, head, ProdByte, tail, ConsByte)' /\ PeekInv'
  BY <1>1, <1>3, <1>4, <1>6 DEF PeekInv, Peeking, Stream
<1>9. QED
  BY <1>5, <1>7, <1>8 DEF IInv

\* The byte at the tail is the next one of the item.
LEMMA PopLoadStep ==
  ASSUME IInv, PopLoad
  PROVE  IInv'
<1>1. /\ Types /\ cons.pc = "load" /\ Dist(head, tail) >= Size - cons.i + 1
      /\ cons.got = First(cons.i - 1)
      /\ ProdInv /\ PeekInv /\ Stream(c_buf, head, ProdByte, tail, ConsByte)
  BY DEF IInv, ConsInv, PopLoad
<1>2. /\ cons' = [cons EXCEPT !.pc = "advance", !.got = Append(cons.got, c_buf[tail])]
      /\ UNCHANGED <<c_buf, head, tail, prod, out, expected>>
  BY DEF PopLoad
<1>3. Dist(head, tail) > 0
  BY <1>1, Parts
<1>4. c_buf[tail] = <<expected, cons.i>> /\ c_buf[tail] \in Bytes
  <2>1. c_buf[tail] = ConsByte /\ ConsByte \in Bytes
    BY <1>1, <1>3, StreamPop DEF Types
  <2>2. QED
    BY <1>1, <2>1 DEF ConsByte
<1>5. /\ cons'.pc = "advance" /\ cons'.i = cons.i /\ cons'.saved = cons.saved
      /\ cons'.got = Append(cons.got, c_buf[tail])
  BY <1>1, <1>2 DEF Types
<1>6. Types'
  <2>1. Append(cons.got, c_buf[tail]) \in Seq(Bytes)
    BY <1>1, <1>4, Parts
  <2>2. QED
    BY <1>1, <1>2, <2>1 DEF Types
<1>7. cons'.got = First(cons.i)
  <2>1. cons.i \in Nat /\ cons.i >= 1
    BY <1>1, Parts
  <2>2. Append(First(cons.i - 1), <<expected, cons.i>>) = First(cons.i)
    BY <2>1 DEF First
  <2>3. QED
    BY <1>1, <1>4, <1>5, <2>2
<1>8. ProdByte' = ProdByte /\ ConsByte' = ConsByte
  BY <1>1, <1>2, <1>5 DEF ProdByte, ConsByte
<1>9. ProdInv' /\ ConsInv'
  BY <1>1, <1>2, <1>5, <1>7, <1>8 DEF ProdInv, ConsInv, First
<1>10. Stream(c_buf, head, ProdByte, tail, ConsByte)' /\ PeekInv'
  BY <1>1, <1>2, <1>5, <1>8 DEF PeekInv, Peeking, Stream
<1>11. QED
  BY <1>6, <1>9, <1>10 DEF IInv

\* The tail moves on by a byte, and the consumer to the next byte of the item.
LEMMA PopAdvanceStep ==
  ASSUME IInv, PopAdvance
  PROVE  /\ IInv'
         /\ tail' = Place(tail, 1) /\ Dist(head, tail) > 0 /\ cons'.saved = cons.saved
         /\ out' = IF Peeking THEN out ELSE c_buf[tail]
<1>1. /\ Types /\ cons.pc = "advance" /\ Dist(head, tail) >= Size - cons.i + 1
      /\ cons.got = First(cons.i)
      /\ ProdInv /\ PeekInv /\ Stream(c_buf, head, ProdByte, tail, ConsByte)
  BY DEF IInv, ConsInv, PopAdvance
<1>2. /\ tail' = Place(tail, 1) /\ cons' = ByteTaken
      /\ out' = IF Peeking THEN out ELSE cons.got[Len(cons.got)]
      /\ UNCHANGED <<c_buf, head, prod, expected>>
  BY <1>1, Remainders DEF PopAdvance, Types
<1>3. cons.i \in 1 .. Size /\ Size \in Nat /\ Dist(head, tail) \in Nat /\ CQ_N \in Nat
  BY <1>1, Parts
<1>4. Dist(head, tail) > 0
  BY <1>1, <1>3
<1>5. tail' \in Places /\ Dist(head, tail') = Dist(head, tail) - 1
  <2>1. head \in Places /\ tail \in Places /\ 1 \in 0 .. (CQ_N - 1)
    BY <1>1, CQueueAssumption DEF Types
  <2>2. QED
    BY <1>2, <1>4, <2>1, Geometry
<1>6. c_buf[tail] = <<expected, cons.i>> /\ c_buf[tail] \in Bytes /\ ConsByte = <<expected, cons.i>>
  <2>1. c_buf[tail] = ConsByte /\ ConsByte \in Bytes
    BY <1>1, <1>4, StreamPop DEF Types
  <2>2. QED
    BY <1>1, <2>1 DEF ConsByte
<1>7. out' = IF Peeking THEN out ELSE c_buf[tail]
  <2>1. Len(First(cons.i)) = cons.i /\ First(cons.i)[cons.i] = <<expected, cons.i>>
    BY <1>3 DEF First
  <2>2. QED
    BY <1>1, <1>2, <1>6, <2>1
<1>8. /\ cons'.saved = cons.saved /\ cons'.got = cons.got
      /\ \/ cons.i < Size /\ cons'.pc = "test" /\ cons'.i = cons.i + 1
         \/ cons.i = Size /\ cons'.pc = "done" /\ cons'.i = cons.i
      /\ cons' \in [pc : {"idle", "test", "load", "advance", "done"}, i : 1 .. Size,
                    got : Seq(Bytes), saved : Places \cup {NoPlace}]
  <2>1. CASE cons.i < Size
    <3>1. cons.i + 1 \in 1 .. Size
      BY <1>3, <2>1
    <3>2. QED
      BY <1>1, <1>2, <2>1, <3>1 DEF ByteTaken, Types
  <2>2. CASE ~(cons.i < Size)
    <3>1. cons.i = Size
      BY <1>3, <2>2
    <3>2. QED
      BY <1>1, <1>2, <2>2, <3>1 DEF ByteTaken, Types
  <2>3. QED
    BY <2>1, <2>2
<1>9. Types'
  BY <1>1, <1>2, <1>5, <1>6, <1>7, <1>8 DEF Types
<1>10. ProdByte' = ProdByte /\ ConsByte' = NextByte(ConsByte)
  BY <1>2, <1>3, <1>6, <1>8 DEF ProdByte, ConsByte, NextByte
<1>11. ProdInv'
  <2>1. prod.i \in Nat
    BY <1>1, Parts
  <2>2. prod.pc # "idle" => Dist(head', tail') + (Size - prod'.i + 1) <= CQ_N - 1
    BY <1>1, <1>2, <1>3, <1>5, <2>1 DEF ProdInv
  <2>3. QED
    BY <1>1, <1>2, <1>10, <2>2 DEF ProdInv
<1>12. ConsInv'
  <2>1. \A n : First(n)' = First(n)
    BY <1>2 DEF First
  <2>2. CASE cons.i < Size /\ cons'.pc = "test" /\ cons'.i = cons.i + 1
    <3>1. cons'.i - 1 = cons.i /\ Dist(head', tail') >= Size - cons'.i + 1
      BY <1>1, <1>2, <1>3, <1>5, <2>2
    <3>2. QED
      BY <1>1, <1>8, <2>1, <2>2, <3>1 DEF ConsInv
  <2>3. CASE cons.i = Size /\ cons'.pc = "done" /\ cons'.i = cons.i
    BY <1>1, <1>8, <2>1, <2>3 DEF ConsInv
  <2>4. QED
    BY <1>8, <2>2, <2>3
<1>13. Stream(c_buf, head, ProdByte, tail', NextByte(ConsByte))
  BY <1>1, <1>2, <1>4, StreamPop DEF Types
<1>14. Stream(c_buf, head, ProdByte, tail, ConsByte)'
  BY <1>2, <1>10, <1>13 DEF Stream
<1>15. PeekInv'
  BY <1>1, <1>2, <1>8, <1>10 DEF PeekInv, Peeking, Stream
<1>16. QED
  BY <1>2, <1>4, <1>7, <1>8, <1>9, <1>11, <1>12, <1>14, <1>15 DEF IInv

\* cq_pop_n returns and the consumer waits for the next item.
LEMMA PopReturnStep ==
  ASSUME IInv, PopReturn
  PROVE  IInv'
<1>1. /\ Types /\ cons.pc = "done" /\ ~Peeking
      /\ ProdInv /\ Stream(c_buf, head, ProdByte, tail, ConsByte)
  BY DEF IInv, PopReturn
<1>2. /\ cons' = [cons EXCEPT !.pc = "idle"] /\ expected' = (expected + 1) % Items
      /\ UNCHANGED <<c_buf, head, tail, prod, out>>
  BY DEF PopReturn
<1>3. cons'.pc = "idle" /\ cons'.saved = cons.saved
  BY <1>1, <1>2 DEF Types
<1>4. expected' \in 0 .. (Items - 1)
  BY <1>1, <1>2, NextItem DEF Types
<1>5. Types'
  BY <1>1, <1>2, <1>4 DEF Types
<1>6. ProdByte' = ProdByte /\ ConsByte' = ConsByte
  BY <1>1, <1>2, <1>3 DEF ProdByte, ConsByte
<1>7. ProdInv' /\ ConsInv' /\ PeekInv'
  BY <1>1, <1>2, <1>3, <1>6 DEF ProdInv, ConsInv, PeekInv, Peeking
<1>8. Stream(c_buf, head, ProdByte, tail, ConsByte)'
  BY <1>1, <1>2, <1>6 DEF Stream
<1>9. QED
  BY <1>5, <1>7, <1>8 DEF IInv

\* The tail goes back to where the stream still begins with the same item.
LEMMA PeekReturnStep ==
  ASSUME IInv, PeekReturn
  PROVE  IInv'
<1>1. /\ Types /\ Peeking /\ prod.pc = "idle" /\ ProdInv
      /\ Stream(c_buf, head, ProdByte, cons.saved, <<expected, 1>>)
  BY DEF IInv, PeekInv, PeekReturn
<1>2. /\ cons' = [cons EXCEPT !.pc = "idle", !.saved = NoPlace] /\ tail' = cons.saved
      /\ UNCHANGED <<c_buf, head, prod, out, expected>>
  BY DEF PeekReturn
<1>3. cons'.pc = "idle" /\ cons'.saved = NoPlace
  BY <1>1, <1>2 DEF Types
<1>4. tail' \in Places
  BY <1>1, <1>2, Parts DEF Peeking
<1>5. Types'
  BY <1>1, <1>2, <1>4 DEF Types
<1>6. ProdByte' = ProdByte /\ ConsByte' = <<expected, 1>>
  BY <1>2, <1>3 DEF ProdByte, ConsByte
<1>7. ProdInv' /\ ConsInv' /\ PeekInv'
  BY <1>1, <1>2, <1>3 DEF ProdInv, ConsInv, PeekInv, Peeking
<1>8. Stream(c_buf, head, ProdByte, tail, ConsByte)'
  BY <1>1, <1>2, <1>6 DEF Stream
<1>9. QED
  BY <1>5, <1>7, <1>8 DEF IInv

-----------------------------------------------------------------------------
\* The inductive invariant holds in every reachable state.
LEMMA IInvAlways == Spec => []IInv
<1>1. IInv /\ [Next]_vars => IInv'
  <2> SUFFICES ASSUME IInv, [Next]_vars PROVE IInv'
    OBVIOUS
  <2>1. CASE ~Peeking /\ Producer
    BY <2>1, PushStartStep, PushTestStep, PushStoreStep, PushAdvanceStep DEF Producer
  <2>2. CASE Consumer
    BY <2>2, PopStartStep, PopTestStep, PopLoadStep, PopAdvanceStep, PopReturnStep DEF Consumer
  <2>3. CASE prod.pc = "idle" /\ PeekStart
    BY <2>3, PopStartStep
  <2>4. CASE PeekReturn
    BY <2>4, PeekReturnStep
  <2>5. CASE UNCHANGED vars
    BY <2>5 DEF vars, IInv, Types, ProdInv, ConsInv, PeekInv, Peeking, First, Stream, ProdByte, ConsByte
  <2>6. QED
    BY <2>1, <2>2, <2>3, <2>4, <2>5 DEF Next
<1>2. QED
  BY InitIInv, <1>1, PTL DEF Spec

(***************************************************************************)
(* Type correctness of cq_t and its two users: head and tail stay in the   *)
(* buffer, and only bytes that were pushed are ever popped.                *)
(***************************************************************************)
THEOREM TypeCorrect == Spec => []TypeOK
<1>1. IInv => TypeOK
  BY DEF IInv, Types, TypeOK, Buffers
<1>2. QED
  BY IInvAlways, <1>1, PTL

(***************************************************************************)
(* For every buffer and item size cq_pop_n and cq_peek_n return the bytes  *)
(* of the next item that cq_push_n was given, without a lock.              *)
(***************************************************************************)
THEOREM ItemsAlwaysWhole == Spec => []ItemsWhole
<1>1. IInv => ItemsWhole
  BY DEF IInv, ConsInv, ItemsWhole, First
<1>2. QED
  BY IInvAlways, <1>1, PTL

-----------------------------------------------------------------------------
(***************************************************************************)
(* The refinement.  Content is the contents of the queue in terms of       *)
(* distances.                                                              *)
(***************************************************************************)
Content(buf, h, t) == [k \in 1 .. Dist(h, t) |-> buf[Place(t, k - 1)]]

\* A store at the head does not change the contents.
LEMMA ContentStore ==
  ASSUME NEW buf \in Buffers, NEW h \in Places, NEW t \in Places, NEW x
  PROVE  Content([buf EXCEPT ![h] = x], h, t) = Content(buf, h, t)
<1> SUFFICES ASSUME NEW k \in 1 .. Dist(h, t)
             PROVE  [buf EXCEPT ![h] = x][Place(t, k - 1)] = buf[Place(t, k - 1)]
  BY DEF Content
<1>1. Dist(h, t) \in 0 .. (CQ_N - 1) /\ CQ_N \in Nat
  BY Geometry, CQueueAssumption
<1>2. k - 1 \in 0 .. (CQ_N - 1) /\ k - 1 < Dist(h, t)
  BY <1>1
<1>3. Place(t, k - 1) \in Places /\ Place(t, k - 1) # h
  BY <1>2, Geometry
<1>4. QED
  BY <1>3 DEF Buffers

\* Moving the head appends a byte, and there is room for it.
LEMMA ContentPush ==
  ASSUME NEW buf \in Buffers, NEW h \in Places, NEW t \in Places, Dist(h, t) < CQ_N - 1
  PROVE  /\ Content(buf, Place(h, 1), t) = Append(Content(buf, h, t), buf[h])
         /\ Len(Content(buf, h, t)) < CQ_N - 1
<1>1. /\ Dist(h, t) \in Nat /\ Dist(Place(h, 1), t) = Dist(h, t) + 1
      /\ Place(t, Dist(h, t)) = h
  BY Geometry, CQueueAssumption
<1>2. Len(Content(buf, h, t)) = Dist(h, t)
  BY <1>1 DEF Content
<1>3. QED
  BY <1>1, <1>2 DEF Content

\* Moving the tail takes the first byte away.
LEMMA ContentPop ==
  ASSUME NEW buf \in Buffers, NEW h \in Places, NEW t \in Places, Dist(h, t) > 0
  PROVE  /\ Content(buf, h, Place(t, 1)) = Tail(Content(buf, h, t))
         /\ Content(buf, h, t) # <<>> /\ Head(Content(buf, h, t)) = buf[t]
<1> DEFINE d == Dist(h, t)
<1>1. d \in 1 .. (CQ_N - 1) /\ CQ_N \in Nat /\ Dist(h, Place(t, 1)) = d - 1 /\ Place(t, 0) = t
  BY Geometry, CQueueAssumption
<1>2. \A k \in 0 .. (CQ_N - 2) : Place(Place(t, 1), k) = Place(t, k + 1)
  BY Geometry
<1>3. \A k \in 1 .. (d - 1) : Place(Place(t, 1), k - 1) = Place(t, (k + 1) - 1)
  <2> SUFFICES ASSUME NEW k \in 1 .. (d - 1)
               PROVE  Place(Place(t, 1), k - 1) = Place(t, (k + 1) - 1)
    OBVIOUS
  <2>1. k - 1 \in 0 .. (CQ_N - 2) /\ (k - 1) + 1 = (k + 1) - 1
    BY <1>1
  <2>2. QED
    BY <1>2, <2>1
<1> DEFINE q == Content(buf, h, t)
<1>4. q = [k \in 1 .. d |-> buf[Place(t, k - 1)]]
  BY DEF Content
<1> HIDE DEF q, d
<1>5. Len(q) = d /\ q # <<>> /\ q[1] = buf[t]
  BY <1>1, <1>4
<1>6. Tail(q) = [k \in 1 .. (d - 1) |-> q[k + 1]]
  BY <1>5, <1>4, <1>1
<1>7. \A k \in 1 .. (d - 1) : q[k + 1] = buf[Place(t, (k + 1) - 1)]
  BY <1>1, <1>4
<1>8. Content(buf, h, Place(t, 1)) = [k \in 1 .. (d - 1) |-> buf[Place(Place(t, 1), k - 1)]]
  BY <1>1 DEF Content
<1>9. Content(buf, h, Place(t, 1)) = Tail(q)
  BY <1>3, <1>6, <1>7, <1>8
<1>10. Head(q) = buf[t]
  BY <1>5
<1>11. QED
  BY <1>5, <1>9, <1>10 DEF q

\* What the refinement mapping of CQueue computes.
Mapped == SettledTail \in Places /\ Contents = Content(c_buf, head, SettledTail)

\* The refinement mapping is the contents from the settled tail.
LEMMA ContentsAre == Types => Mapped
<1> SUFFICES ASSUME Types PROVE Mapped
  OBVIOUS
<1>1. SettledTail \in Places /\ head \in Places
  BY Parts DEF SettledTail, Peeking, Types
<1> DEFINE t == SettledTail
<1> HIDE DEF t
<1>2. t \in Places
  BY <1>1 DEF t
<1>3. (head - t + CQ_N) % CQ_N = Dist(head, t) /\ Dist(head, t) \in 0 .. (CQ_N - 1) /\ CQ_N \in Nat
  BY <1>1, <1>2, Remainders, Geometry, CQueueAssumption
<1>4. ASSUME NEW k \in 1 .. Dist(head, t)
      PROVE  (t + k - 1) % CQ_N = Place(t, k - 1)
  <2>1. k - 1 \in 0 .. (CQ_N - 1) /\ t + k - 1 = t + (k - 1)
    BY <1>2, <1>3 DEF Places
  <2>2. QED
    BY <1>2, <2>1, Remainders
<1>5. Contents = [k \in 1 .. Dist(head, t) |-> c_buf[(t + k - 1) % CQ_N]]
  BY <1>3 DEF Contents, t
<1>6. QED
  BY <1>1, <1>4, <1>5 DEF Mapped, Content, t

(***************************************************************************)
(* For every buffer size the lock-free queue implements the FIFO: a push   *)
(* is the step that moves the head, a pop the one that moves the tail, and *)
(* a peek, which moves the tail and puts it back, changes nothing.         *)
(***************************************************************************)
THEOREM QueueIsFifo == Spec => ImplementsFifo
<1>1. Init => Queue!Init
  <2> SUFFICES ASSUME Init PROVE Queue!Init
    OBVIOUS
  <2>1. Types /\ SettledTail = 0 /\ head = 0
    BY InitIInv DEF IInv, Init, SettledTail, Peeking
  <2>2. Dist(0, 0) = 0
    BY CQueueAssumption DEF Dist
  <2>3. Contents = <<>>
    BY <2>1, <2>2, ContentsAre DEF Mapped, Content
  <2>4. QED
    BY <2>3 DEF Queue!Init, Init
<1>2. IInv /\ IInv' /\ [Next]_vars => [Queue!Next]_<<Contents, out>>
  <2> SUFFICES ASSUME IInv, IInv', [Next]_vars PROVE [Queue!Next]_<<Contents, out>>
    OBVIOUS
  <2>1. /\ Types /\ SettledTail \in Places /\ Contents = Content(c_buf, head, SettledTail)
        /\ c_buf \in Buffers /\ head \in Places
    BY ContentsAre DEF IInv, Types, Mapped
  <2>2. SettledTail' \in Places /\ Contents' = Content(c_buf', head', SettledTail')
    <3>1. Types'
      BY DEF IInv
    <3>2. Mapped'
      BY <3>1, ContentsAre, PTL
    <3>3. QED
      BY <3>2 DEF Mapped
  <2>3. ASSUME c_buf' = c_buf, head' = head, SettledTail' = SettledTail, out' = out
        PROVE  UNCHANGED <<Contents, out>>
    BY <2>1, <2>2, <2>3
  <2>4. CASE PushStart \/ PushTest
    BY <2>3, <2>4 DEF PushStart, PushTest, SettledTail, Peeking
  <2>5. CASE PushStore
    <3>1. c_buf' = [c_buf EXCEPT ![head] = ProdByte] /\ UNCHANGED <<head, tail, cons, out>>
      BY <2>5 DEF PushStore, ProdByte
    <3>2. SettledTail' = SettledTail
      BY <3>1 DEF SettledTail, Peeking
    <3>3. Contents' = Contents
      <4>1. Content([c_buf EXCEPT ![head] = ProdByte], head, SettledTail) = Contents
        BY <2>1, ContentStore
      <4>2. Contents' = Content([c_buf EXCEPT ![head] = ProdByte], head, SettledTail)
        BY <2>2, <3>1, <3>2
      <4>3. QED
        BY <4>1, <4>2
    <3>4. QED
      BY <3>1, <3>3
  <2>6. CASE ~Peeking /\ PushAdvance
    <3>1. head' = Place(head, 1) /\ Dist(head, tail) < CQ_N - 1 /\ c_buf[head] = ProdByte
      BY <2>6, PushAdvanceStep
    <3>2. SettledTail = tail /\ SettledTail' = tail /\ c_buf' = c_buf /\ out' = out
      BY <2>6 DEF PushAdvance, SettledTail, Peeking
    <3>3. Contents' = Append(Contents, ProdByte) /\ Len(Contents) < CQ_N - 1
      BY <2>1, <2>2, <3>1, <3>2, ContentPush
    <3>4. ProdByte \in Bytes
      BY <2>1, Parts
    <3>5. PICK d \in Bytes : d = ProdByte
      BY <3>4
    <3>6. Queue!Push(d)
      BY <3>2, <3>3, <3>5 DEF Queue!Push
    <3>7. QED
      BY <3>6 DEF Queue!Next
  <2>7. CASE PopStart \/ PopTest \/ PopLoad \/ PopReturn
    <3>1. c_buf' = c_buf /\ head' = head /\ out' = out /\ tail' = tail
      BY <2>7 DEF PopStart, PopTest, PopLoad, PopReturn
    <3>2. SettledTail' = SettledTail
      <4>1. CASE PopStart
        <5>1. ~Peeking
          BY <4>1 DEF IInv, PeekInv, PopStart
        <5>2. QED
          BY <4>1, <5>1, <3>1 DEF PopStart, SettledTail, Peeking
      <4>2. CASE PopTest \/ PopLoad \/ PopReturn
        <5>1. cons'.saved = cons.saved
          BY <2>1, <4>2 DEF PopTest, PopLoad, PopReturn, ByteTaken, Types
        <5>2. QED
          BY <3>1, <5>1 DEF SettledTail, Peeking
      <4>3. QED
        BY <2>7, <4>1, <4>2
    <3>3. QED
      BY <2>3, <3>1, <3>2
  <2>8. CASE PopAdvance
    <3>1. /\ tail' = Place(tail, 1) /\ Dist(head, tail) > 0 /\ cons'.saved = cons.saved
          /\ out' = (IF Peeking THEN out ELSE c_buf[tail]) /\ c_buf' = c_buf /\ head' = head
      BY <2>8, PopAdvanceStep DEF PopAdvance
    <3>2. CASE Peeking
      <4>1. SettledTail' = SettledTail
        BY <3>1, <3>2 DEF SettledTail, Peeking
      <4>2. QED
        BY <2>3, <3>1, <3>2, <4>1
    <3>3. CASE ~Peeking
      <4>1. SettledTail = tail /\ SettledTail' = Place(tail, 1)
        BY <3>1, <3>3 DEF SettledTail, Peeking
      <4>2. /\ Contents' = Tail(Contents) /\ Contents # <<>> /\ Head(Contents) = c_buf[tail]
        BY <2>1, <2>2, <3>1, <4>1, ContentPop
      <4>3. Queue!Pop
        BY <3>1, <3>3, <4>2 DEF Queue!Pop
      <4>4. QED
        BY <4>3 DEF Queue!Next
    <3>4. QED
      BY <3>2, <3>3
  <2>9. CASE PeekStart
    <3>1. ~Peeking /\ cons'.saved = tail /\ UNCHANGED <<c_buf, head, tail, out>>
      BY <2>9 DEF IInv, PeekInv, PeekStart
    <3>2. SettledTail' = SettledTail
      BY <3>1 DEF SettledTail, Peeking
    <3>3. QED
      BY <2>3, <3>1, <3>2
  <2>10. CASE PeekReturn
    <3>1. /\ Peeking /\ tail' = cons.saved /\ cons'.saved = NoPlace
          /\ UNCHANGED <<c_buf, head, out>>
      BY <2>1, <2>10 DEF PeekReturn, Types
    <3>2. SettledTail' = SettledTail
      BY <3>1 DEF SettledTail, Peeking
    <3>3. QED
      BY <2>3, <3>1, <3>2
  <2>11. CASE UNCHANGED vars
    BY <2>3, <2>11 DEF vars, SettledTail, Peeking
  <2>12. QED
    BY <2>4, <2>5, <2>6, <2>7, <2>8, <2>9, <2>10, <2>11 DEF Next, Producer, Consumer
<1>3. QED
  BY IInvAlways, <1>1, <1>2, PTL DEF Spec, ImplementsFifo, Queue!Spec
=============================================================================
