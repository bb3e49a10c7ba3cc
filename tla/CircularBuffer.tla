--------------------------- MODULE CircularBuffer ---------------------------
(***************************************************************************)
(* The ring of circular_buffer.hpp as a value: a record with the array,    *)
(* the two pointers (as indices into the array) and the element count.     *)
(* The operators are the member functions with the exceptions left out:    *)
(* the guards that throw are empty and full, and the state machines built  *)
(* on this module (CircularBufferSpec, ChannelBuffer) apply them.          *)
(***************************************************************************)
EXTENDS Naturals, Sequences

CONSTANTS
  buffer_size,  \* the template parameter: number of slots
  Item,         \* the values of type T that callers push
  Junk          \* an indeterminate T: a slot of new T[n], or a moved-out slot

ASSUME BufferSizeAssumption == buffer_size \in Nat \ {0}
ASSUME JunkAssumption == Junk \notin Item

Slot == 0 .. buffer_size - 1

(* A pointer steps to the next slot and wraps at the end of the array. *)
IncrementNoWrap(p) == IF p = buffer_size THEN 0 ELSE p + 1
increment(p) == IF p + 1 = buffer_size THEN 0 ELSE p + 1

NewRing == [buffer |-> [s \in Slot |-> Junk], front |-> 0, end |-> 0, size |-> 0]

empty(r) == r.size <= 0

FullOffByOne(r) == r.size = buffer_size + 1
full(r) == r.size = buffer_size

front(r) == r.buffer[r.front]

(* back() dereferences _end, the slot the next push writes. *)
back(r) == r.buffer[r.end]

push_back(r, item) ==
  [r EXCEPT !.buffer = [@ EXCEPT ![r.end] = item],
            !.end    = increment(@),
            !.size   = @ + 1]

PopForgetsFront(r) == [r EXCEPT !.size = @ - 1]
pop(r) == [r EXCEPT !.size = @ - 1, !.front = increment(@)]

(* std::swap(temp, front()): the slot receives the caller's temporary. *)
SwapFront(r, temp) == [r EXCEPT !.buffer = [@ EXCEPT ![r.front] = temp]]

-----------------------------------------------------------------------------
(* What a ring represents: the elements from front on, size of them. *)

Wrap(k) == IF k < buffer_size THEN k ELSE k - buffer_size

Contents(r) == [i \in 1 .. r.size |-> r.buffer[Wrap(r.front + i - 1)]]

RingType ==
  [buffer : [Slot -> Item \cup {Junk}], front : Slot, end : Slot, size : 0 .. buffer_size]

(* The representation invariant: end is size slots after front, and no live
   slot is indeterminate. *)
RingOK(r) ==
  /\ r \in RingType
  /\ r.end = Wrap(r.front + r.size)
  /\ \A i \in 0 .. buffer_size - 1 : i < r.size => r.buffer[Wrap(r.front + i)] \in Item
=============================================================================
