-------------------------- MODULE FixedRingBuffer --------------------------
(***************************************************************************)
(* cpp_components::fixed_ring_buffer::FixedRingBuffer: a circular buffer   *)
(* with free-running positions.  Positions are unsigned and wrap at        *)
(* Modulus (2^64 in the code); the slot of a position is its low bits.     *)
(* Preconditions are the code's asserts.                                   *)
(***************************************************************************)
EXTENDS Integers, Sequences

CONSTANTS
    Values,   \* element values; a default-constructed element is one of them
    Capacity, \* a power of two
    Modulus   \* positions are counted modulo this larger power of two

ASSUME CapacityAssumption ==
    /\ Values # {}
    /\ Capacity \in Nat \ {0} /\ \E n \in 0..Capacity : Capacity = 2^n
    /\ \E k \in 2..Modulus : Modulus = k * Capacity

VARIABLES buffer, head, tail

vars == <<buffer, head, tail>>

get_index(pos) == pos % Capacity

next_pos(pos) == (pos + 1) % Modulus

get_size == (tail - head) % Modulus

is_empty == head = tail

\* Mutant: one element too many.
is_full_Late == get_size = Capacity + 1

is_full == get_size = Capacity

TypeOK ==
    /\ buffer \in [0..Capacity - 1 -> Values]
    /\ head \in 0..Modulus - 1 /\ tail \in 0..Modulus - 1

Init ==
    /\ \E v \in Values : buffer = [i \in 0..Capacity - 1 |-> v]
    /\ head = 0 /\ tail = 0

(***************************************************************************)
(* get_back_slot(): the caller fills the next free element in place.  It   *)
(* is not in the queue until push_back() commits it.                       *)
(***************************************************************************)
FillBackSlot(v) ==
    /\ ~is_full
    /\ buffer' = [buffer EXCEPT ![get_index(tail)] = v]
    /\ UNCHANGED <<head, tail>>

CommitBack ==
    /\ ~is_full
    /\ tail' = next_pos(tail)
    /\ UNCHANGED <<buffer, head>>

\* Mutant: the position is not truncated to its width.
PushBack_Wide(v) ==
    /\ ~is_full
    /\ buffer' = [buffer EXCEPT ![get_index(tail)] = v]
    /\ tail' = tail + 1
    /\ UNCHANGED head

(***************************************************************************)
(* push_back(const T &) and push_back(T &&).                               *)
(***************************************************************************)
PushBack(v) ==
    /\ ~is_full
    /\ buffer' = [buffer EXCEPT ![get_index(tail)] = v]
    /\ tail' = next_pos(tail)
    /\ UNCHANGED head

(***************************************************************************)
(* The caller writes through the reference get_front() returns.            *)
(***************************************************************************)
ChangeFront(v) ==
    /\ ~is_empty
    /\ buffer' = [buffer EXCEPT ![get_index(head)] = v]
    /\ UNCHANGED <<head, tail>>

PopFront ==
    /\ ~is_empty
    /\ head' = next_pos(head)
    /\ UNCHANGED <<buffer, tail>>

Next ==
    \/ \E v \in Values : FillBackSlot(v) \/ PushBack(v) \/ ChangeFront(v)
    \/ CommitBack \/ PopFront

Spec == Init /\ [][Next]_vars

(***************************************************************************)
(* The elements from head to tail, oldest first.                           *)
(***************************************************************************)
contents == [i \in 1..get_size |-> buffer[get_index(head + i - 1)]]

Fifo == INSTANCE BoundedFifo WITH queue <- contents

(***************************************************************************)
(* The ring buffer is a bounded FIFO queue, also when its positions wrap   *)
(* around and when a free slot is filled before it is pushed: a pop        *)
(* returns the oldest element, nothing queued moves or changes except the  *)
(* front through its reference, and no more than Capacity are queued.      *)
(***************************************************************************)
IsBoundedFifo == Fifo!Spec
=============================================================================
