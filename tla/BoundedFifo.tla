---------------------------- MODULE BoundedFifo ----------------------------
(***************************************************************************)
(* What FixedRingBuffer promises its users: a first-in first-out queue of  *)
(* at most Capacity elements whose oldest element may be changed in place. *)
(***************************************************************************)
EXTENDS Integers, Sequences

CONSTANTS Values, Capacity

VARIABLE queue

Init == queue = <<>>

Push(v) == Len(queue) < Capacity /\ queue' = Append(queue, v)

Pop == queue # <<>> /\ queue' = Tail(queue)

ChangeFront(v) == queue # <<>> /\ queue' = [queue EXCEPT ![1] = v]

Next == (\E v \in Values : Push(v) \/ ChangeFront(v)) \/ Pop

Spec == Init /\ [][Next]_queue
=============================================================================
