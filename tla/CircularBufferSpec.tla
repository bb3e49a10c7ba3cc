------------------------- MODULE CircularBufferSpec -------------------------
(***************************************************************************)
(* circular_buffer as a state machine: any member function may be called   *)
(* next.  One thread owns the ring, as channel_buffer's lock guarantees.   *)
(***************************************************************************)
EXTENDS CircularBuffer

VARIABLES
  ring,  \* the object
  out    \* what the last call returned or threw

vars == <<ring, out>>

Init == ring = NewRing /\ out = "none"

(* push_back, and push and emplace_back that forward to it. *)
PushBack(item) ==
  /\ ~full(ring)
  /\ ring' = push_back(ring, item)
  /\ out' = "none"

PushThrows ==
  /\ full(ring)
  /\ out' = "out_of_range"
  /\ UNCHANGED ring

Pop ==
  /\ ~empty(ring)
  /\ ring' = pop(ring)
  /\ out' = "none"

PopFrontReadsBack ==
  /\ ~empty(ring)
  /\ out' = back(ring)
  /\ ring' = pop(ring)

PopFront ==
  /\ ~empty(ring)
  /\ out' = front(ring)
  /\ ring' = pop(ring)

Front ==
  /\ ~empty(ring)
  /\ out' = front(ring)
  /\ UNCHANGED ring

Back ==
  /\ ~empty(ring)
  /\ out' = back(ring)
  /\ UNCHANGED ring

(* front, back, pop and pop_front all throw on an empty ring. *)
ReadThrows ==
  /\ empty(ring)
  /\ out' = "out_of_range"
  /\ UNCHANGED ring

Next ==
  \/ \E item \in Item : PushBack(item)
  \/ PushThrows
  \/ Pop
  \/ PopFront
  \/ Front
  \/ Back
  \/ ReadThrows

Spec == Init /\ [][Next]_vars

-----------------------------------------------------------------------------
(* The ring stays well formed: end stays size slots ahead of front however
   often both wrap, and every live slot holds a pushed item (the pointer
   arithmetic of increment, push_back and pop). *)
RepresentationOK == RingOK(ring)

(* The ring, seen as the sequence it represents, is a bounded FIFO queue:
   no call reorders, loses, duplicates or invents an item, and a call that
   throws changes nothing. *)
Fifo == INSTANCE BoundedFifo WITH queue <- Contents(ring)
ImplementsFifo == Fifo!Spec
=============================================================================
