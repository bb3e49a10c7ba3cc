---------------------------- MODULE BoundedFifo -----------------------------
(***************************************************************************)
(* What circular_buffer promises its callers: a first-in first-out queue   *)
(* of at most buffer_size items whose operations throw instead of touching *)
(* the queue when there is no room, or nothing to read.                    *)
(***************************************************************************)
EXTENDS Naturals, Sequences

CONSTANTS buffer_size, Item, Junk

VARIABLES
  queue,  \* the items in the order they will be read
  out     \* what the last call returned or threw

vars == <<queue, out>>

Init == queue = <<>> /\ out = "none"

Push(item) ==
  /\ Len(queue) < buffer_size
  /\ queue' = Append(queue, item)
  /\ out' = "none"

Pop(result) ==
  /\ queue # <<>>
  /\ queue' = Tail(queue)
  /\ out' = result

Front ==
  /\ queue # <<>>
  /\ out' = Head(queue)
  /\ UNCHANGED queue

(* back() is only promised to leave the queue alone. *)
Back ==
  /\ queue # <<>>
  /\ out' \in Item \cup {Junk}
  /\ UNCHANGED queue

Throw ==
  /\ queue = <<>> \/ Len(queue) = buffer_size
  /\ out' = "out_of_range"
  /\ UNCHANGED queue

Next ==
  \/ \E item \in Item : Push(item)
  \/ Pop("none")
  \/ Pop(Head(queue))
  \/ Front
  \/ Back
  \/ Throw

Spec == Init /\ [][Next]_vars
=============================================================================
