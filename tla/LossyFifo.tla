----------------------------- MODULE LossyFifo -----------------------------
(***************************************************************************)
(* What a device buffer promises its two users: a bounded queue between an *)
(* interrupt handler that never waits and one reader.  A put into a full   *)
(* queue drops the oldest element.  A get takes time: if the queue         *)
(* overflowed meanwhile, the get may deliver a mixture of elements and     *)
(* costs one element more; otherwise it delivers exactly the oldest one.   *)
(***************************************************************************)
EXTENDS Naturals, Sequences

CONSTANTS Capacities,   \* the capacities the queue can be given
          Bytes,        \* an element is copied in this many pieces
          MaxPuts       \* bound on the number of elements put

VARIABLES queue,        \* the elements, oldest first; the n-th put is n
          capacity,     \* the capacity in force, 0 when there is no memory
          puts,         \* the number of puts
          begun,        \* the element the get in progress began with, or 0
          overtaken,    \* the queue overflowed during the get in progress
          item          \* the last element delivered, piece by piece

vars == <<queue, capacity, puts, begun, overtaken, item>>

Init ==
  /\ queue = <<>>
  /\ capacity \in Capacities
  /\ puts = 0
  /\ begun = 0
  /\ overtaken = FALSE
  /\ item = [i \in 1 .. Bytes |-> 0]

Full == Len(queue) = capacity

Put ==
  /\ capacity > 0
  /\ puts < MaxPuts
  /\ puts' = puts + 1
  /\ queue' = Append(IF Full THEN Tail(queue) ELSE queue, puts + 1)
  /\ overtaken' = (overtaken \/ (Full /\ begun # 0))
  /\ UNCHANGED <<capacity, begun, item>>

BeginGet ==
  /\ begun = 0
  /\ queue # <<>>
  /\ begun' = Head(queue)
  /\ UNCHANGED <<queue, capacity, puts, overtaken, item>>

EndGet ==
  /\ begun # 0
  /\ item' \in [1 .. Bytes -> begun .. puts]
  /\ \lnot overtaken => item' = [i \in 1 .. Bytes |-> begun]
  /\ queue' = Tail(queue)
  /\ begun' = 0
  /\ overtaken' = FALSE
  /\ UNCHANGED <<capacity, puts>>

\* A new capacity, or none when there is no memory for it, and no elements.
Reset ==
  /\ begun = 0
  /\ capacity' \in Capacities \cup {0}
  /\ queue' = <<>>
  /\ UNCHANGED <<puts, begun, overtaken, item>>

Next == Put \/ BeginGet \/ EndGet \/ Reset

Spec == Init /\ [][Next]_vars

\* Elements are queued in the order they were put.
Ordered == \A i, j \in 1 .. Len(queue) : i < j => queue[i] < queue[j]
=============================================================================
