------------------------------ MODULE Channel -------------------------------
(***************************************************************************)
(* What a channel promises: a bounded first-in first-out queue that can be *)
(* closed.  Only an open channel accepts a send, and a send it has         *)
(* accepted gets into the queue or is dropped because the channel was      *)
(* closed meanwhile.  A closed channel still hands out what it holds; a    *)
(* blocking receiver is told "no more" (the default value) only when       *)
(* nothing is left, a polling receiver as soon as the channel is closed.   *)
(***************************************************************************)
EXTENDS Naturals, Sequences

CONSTANTS
  buffer_size,
  Item,
  Default,  \* T{}, the answer of a closed channel
  Null,     \* the null pointer of try_get_next: nothing there yet
  Nothing,  \* no item: the sender has no send under way
  Senders,
  Getters,  \* threads that receive with get_next
  Pollers   \* threads that receive with try_get_next

VARIABLES
  queue,   \* items sent and not yet received
  closed,
  sending, \* sending[t]: the item the channel has accepted from t, not yet in
  ret      \* ret[t]: what thread t last received

vars == <<queue, closed, sending, ret>>

Init ==
  /\ queue = <<>>
  /\ closed = FALSE
  /\ sending = [t \in Senders |-> Nothing]
  /\ ret = [t \in Getters \cup Pollers |-> Null]

Accept(t, item) ==
  /\ ~closed
  /\ sending[t] = Nothing
  /\ sending' = [sending EXCEPT ![t] = item]
  /\ UNCHANGED <<queue, closed, ret>>

(* What was accepted before the close may still get through after it. *)
Send(t) ==
  /\ sending[t] # Nothing
  /\ Len(queue) < buffer_size
  /\ queue' = Append(queue, sending[t])
  /\ sending' = [sending EXCEPT ![t] = Nothing]
  /\ UNCHANGED <<closed, ret>>

Drop(t) ==
  /\ closed
  /\ sending[t] # Nothing
  /\ sending' = [sending EXCEPT ![t] = Nothing]
  /\ UNCHANGED <<queue, closed, ret>>

Receive(t) ==
  /\ queue # <<>>
  /\ queue' = Tail(queue)
  /\ ret' = [ret EXCEPT ![t] = Head(queue)]
  /\ UNCHANGED <<closed, sending>>

Exhausted(t) ==
  /\ closed
  /\ t \in Getters => queue = <<>>
  /\ ret' = [ret EXCEPT ![t] = Default]
  /\ UNCHANGED <<queue, closed, sending>>

NothingYet(t) ==
  /\ t \in Pollers
  /\ queue = <<>>
  /\ ret' = [ret EXCEPT ![t] = Null]
  /\ UNCHANGED <<queue, closed, sending>>

Close ==
  /\ closed' = TRUE
  /\ UNCHANGED <<queue, sending, ret>>

Next ==
  \/ \E t \in Senders : (\E item \in Item : Accept(t, item)) \/ Send(t) \/ Drop(t)
  \/ \E t \in Getters \cup Pollers : Receive(t) \/ Exhausted(t) \/ NothingYet(t)
  \/ Close

Spec == Init /\ [][Next]_vars
=============================================================================
