------------------------------- MODULE CQueue -------------------------------
(***************************************************************************)
(* The circular queue of ds-lib (cqueue.c) between one producer and one    *)
(* consumer without a lock.  The producer pushes items of Size bytes with  *)
(* cq_push_n, the consumer takes them with cq_pop_n; every read and write  *)
(* of head, tail and the buffer is a step of its own, in program order.    *)
(***************************************************************************)
EXTENDS Integers, Sequences

CONSTANTS
  CQ_N,     \* the length of the buffer
  Size,     \* bytes of an item, the n of the calls
  Items,    \* items are numbered modulo Items
  NoByte    \* what the buffer holds at first

ASSUME CQueueAssumption ==
  /\ CQ_N \in Nat /\ CQ_N >= 2
  /\ Size \in 1 .. (CQ_N - 1)
  /\ Items \in Nat /\ Items >= 2

VARIABLES
  c_buf, head, tail,   \* cq_t
  prod,                \* the producer: where it is in the code, which byte of which item
  cons,                \* the consumer: where it is, which byte, what it has read so far
  out,                 \* history: the byte popped last
  expected             \* history: the item that comes next

vars == <<c_buf, head, tail, prod, cons, out, expected>>

Places == 0 .. (CQ_N - 1)

NoPlace == -1

\* Byte i of item k.
Bytes == (0 .. (Items - 1)) \X (1 .. Size)

\* Mutant: the index is not reduced at the end of the buffer.
SuccUnbounded(i) == i + 1

Succ(i) == (i + 1) % CQ_N

cq_empty == head = tail

cq_full == Succ(head) = tail

cq_nelem == (head - tail + CQ_N) % CQ_N

cq_nspace == (CQ_N - 1) - cq_nelem

Init ==
  /\ c_buf = [i \in Places |-> NoByte]
  /\ head = 0
  /\ tail = 0
  /\ prod = [pc |-> "idle", i |-> 1, item |-> 0]
  /\ cons = [pc |-> "idle", i |-> 1, got |-> <<>>, saved |-> NoPlace]
  /\ out = NoByte
  /\ expected = 0

-----------------------------------------------------------------------------
(***************************************************************************)
(* cq_push_n.  A call that finds too little room returns and changes       *)
(* nothing.  The result of each cq_push is ignored.                        *)
(***************************************************************************)
\* Mutant: push_n makes sure of one byte less than it needs.
PushStartShort ==
  /\ prod.pc = "idle"
  /\ cq_nspace >= Size - 1
  /\ prod' = [prod EXCEPT !.pc = "test"]
  /\ UNCHANGED <<c_buf, head, tail, cons, out, expected>>

PushStart ==
  /\ prod.pc = "idle"
  /\ cq_nspace >= Size
  /\ prod' = [prod EXCEPT !.pc = "test"]
  /\ UNCHANGED <<c_buf, head, tail, cons, out, expected>>

\* The producer turns to the next byte of the item or returns.
BytePushed ==
  IF prod.i < Size THEN [prod EXCEPT !.pc = "test", !.i = @ + 1]
  ELSE [pc |-> "idle", i |-> 1, item |-> (prod.item + 1) % Items]

PushTest ==
  /\ prod.pc = "test"
  /\ prod' = IF cq_full THEN BytePushed ELSE [prod EXCEPT !.pc = "store"]
  /\ UNCHANGED <<c_buf, head, tail, cons, out, expected>>

PushStore ==
  /\ prod.pc = "store"
  /\ c_buf' = [c_buf EXCEPT ![head] = <<prod.item, prod.i>>]
  /\ prod' = [prod EXCEPT !.pc = "advance"]
  /\ UNCHANGED <<head, tail, cons, out, expected>>

PushAdvance ==
  /\ prod.pc = "advance"
  /\ head' = Succ(head)
  /\ prod' = BytePushed
  /\ UNCHANGED <<c_buf, tail, cons, out, expected>>

-----------------------------------------------------------------------------
(***************************************************************************)
(* cq_pop_n, in the same way, and cq_peek_n, which pops and puts the tail  *)
(* back where it was.                                                      *)
(***************************************************************************)
Peeking == cons.saved # NoPlace

PopStart ==
  /\ cons.pc = "idle"
  /\ cq_nelem >= Size
  /\ cons' = [pc |-> "test", i |-> 1, got |-> <<>>, saved |-> NoPlace]
  /\ UNCHANGED <<c_buf, head, tail, prod, out, expected>>

PeekStart ==
  /\ cons.pc = "idle"
  /\ cq_nelem >= Size
  /\ cons' = [pc |-> "test", i |-> 1, got |-> <<>>, saved |-> tail]
  /\ UNCHANGED <<c_buf, head, tail, prod, out, expected>>

ByteTaken ==
  IF cons.i < Size THEN [cons EXCEPT !.pc = "test", !.i = @ + 1]
  ELSE [cons EXCEPT !.pc = "done"]

PopTest ==
  /\ cons.pc = "test"
  /\ cons' = IF cq_empty THEN ByteTaken ELSE [cons EXCEPT !.pc = "load"]
  /\ UNCHANGED <<c_buf, head, tail, prod, out, expected>>

PopLoad ==
  /\ cons.pc = "load"
  /\ cons' = [cons EXCEPT !.pc = "advance", !.got = Append(@, c_buf[tail])]
  /\ UNCHANGED <<c_buf, head, tail, prod, out, expected>>

PopAdvance ==
  /\ cons.pc = "advance"
  /\ tail' = Succ(tail)
  /\ cons' = ByteTaken
  /\ out' = IF Peeking THEN out ELSE cons.got[Len(cons.got)]
  /\ UNCHANGED <<c_buf, head, prod, expected>>

PopReturn ==
  /\ cons.pc = "done"
  /\ ~Peeking
  /\ cons' = [cons EXCEPT !.pc = "idle"]
  /\ expected' = (expected + 1) % Items
  /\ UNCHANGED <<c_buf, head, tail, prod, out>>

\* Mutant: the tail stays where the pops have left it.
PeekReturnMoved ==
  /\ cons.pc = "done"
  /\ Peeking
  /\ cons' = [cons EXCEPT !.pc = "idle", !.saved = NoPlace]
  /\ UNCHANGED <<c_buf, head, tail, prod, out, expected>>

PeekReturn ==
  /\ cons.pc = "done"
  /\ Peeking
  /\ tail' = cons.saved
  /\ cons' = [cons EXCEPT !.pc = "idle", !.saved = NoPlace]
  /\ UNCHANGED <<c_buf, head, prod, out, expected>>

Producer == PushStart \/ PushTest \/ PushStore \/ PushAdvance

Consumer == PopStart \/ PopTest \/ PopLoad \/ PopAdvance \/ PopReturn

(***************************************************************************)
(* Either side may stop calling.  Pushes and pops may meet anywhere, but   *)
(* pushes and peeks may not: a peek frees room for a while that it then    *)
(* takes back, so its callers have to keep the producer out of it.         *)
(***************************************************************************)
Next ==
  \/ ~Peeking /\ Producer
  \/ Consumer
  \/ prod.pc = "idle" /\ PeekStart
  \/ PeekReturn

Spec == Init /\ [][Next]_vars

-----------------------------------------------------------------------------
TypeOK ==
  /\ c_buf \in [Places -> Bytes \cup {NoByte}]
  /\ head \in Places
  /\ tail \in Places
  /\ prod \in [pc : {"idle", "test", "store", "advance"}, i : 1 .. Size, item : 0 .. (Items - 1)]
  /\ cons.pc \in {"idle", "test", "load", "advance", "done"}
  /\ cons.i \in 1 .. Size
  /\ cons.got \in Seq(Bytes)
  /\ cons.saved \in Places \cup {NoPlace}
  /\ out \in Bytes \cup {NoByte}
  /\ expected \in 0 .. (Items - 1)

(***************************************************************************)
(* Items arrive whole and in order: what cq_pop_n returns and cq_peek_n    *)
(* shows are the bytes of the next item that cq_push_n was given. During a *)
(* pop the producer may be anywhere in its call, and the inner pushes and  *)
(* pops ignore failures; during a peek the producer is kept out.           *)
(***************************************************************************)
ItemsWhole == cons.pc = "done" => cons.got = [i \in 1 .. Size |-> <<expected, i>>]

\* Where the tail is once a peek has returned.
SettledTail == IF Peeking THEN cons.saved ELSE tail

\* The bytes from there to the head.
Contents == [k \in 1 .. ((head - SettledTail + CQ_N) % CQ_N) |-> c_buf[(SettledTail + k - 1) % CQ_N]]

Queue == INSTANCE Fifo WITH Data <- Bytes, NoData <- NoByte, Capacity <- CQ_N - 1,
                            queue <- Contents

(***************************************************************************)
(* Without a lock the queue is a FIFO of at most CQ_N - 1 bytes: a push    *)
(* takes effect when it moves the head, a pop when it moves the tail, a    *)
(* peek not at all, and nothing else changes the contents (cq_push_n,      *)
(* cq_pop_n and cq_peek_n).                                                *)
(***************************************************************************)
ImplementsFifo == Queue!Spec
=============================================================================
