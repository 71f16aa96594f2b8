------------------------------- MODULE Fifo ---------------------------------
(***************************************************************************)
(* What the circular queue promises: a bounded first-in first-out queue    *)
(* whose push and pop each take effect at once.                            *)
(***************************************************************************)
EXTENDS Naturals, Sequences

CONSTANTS Data, NoData, Capacity

VARIABLES
  queue,   \* what is in the queue
  out      \* what the last pop returned

Init ==
  /\ queue = <<>>
  /\ out = NoData

Push(d) ==
  /\ Len(queue) < Capacity
  /\ queue' = Append(queue, d)
  /\ UNCHANGED out

Pop ==
  /\ queue # <<>>
  /\ out' = Head(queue)
  /\ queue' = Tail(queue)

Next == Pop \/ \E d \in Data : Push(d)

Spec == Init /\ [][Next]_<<queue, out>>
=============================================================================
