--------------------------- MODULE ChannelBuffer ----------------------------
(***************************************************************************)
(* channel_buffer.hpp: a ring guarded by a mutex, two condition variables  *)
(* and an atomic flag, used by any number of threads.                      *)
(*                                                                         *)
(* Granularity.  What a thread does while it holds buffer_lock is one      *)
(* step, together with taking and releasing the lock, because no other     *)
(* thread reads the ring without the lock.  What happens outside the lock  *)
(* is a step of its own: insert and try_get_next read is_closed before     *)
(* they lock, insert notifies after it unlocks, and close takes no lock at *)
(* all.  A wait is split where the lock does not protect it from close:    *)
(* the predicate is evaluated in one step and the thread blocks (releasing *)
(* the lock) in the next.                                                  *)
(***************************************************************************)
EXTENDS CircularBuffer, FiniteSets

CONSTANTS
  Default,    \* T{}, the answer of a closed channel
  Null,       \* the null unique_ptr of try_get_next
  NoThread,
  Getters,    \* threads that call get_next
  Pollers,    \* threads that call try_get_next
  Inserters,  \* threads that call insert
  Closers     \* threads that call close

Thread == Getters \cup Pollers \cup Inserters \cup Closers

ASSUME ThreadAssumption == IsFiniteSet(Thread) /\ NoThread \notin Thread
ASSUME RolesAssumption ==
  /\ Getters \cap (Pollers \cup Inserters \cup Closers) = {}
  /\ Pollers \cap (Inserters \cup Closers) = {}
  /\ Inserters \cap Closers = {}

(* A receiver can tell the end of the stream from a value and from "nothing
   there yet". *)
ASSUME DefaultAssumption == Default \notin Item \cup {Null}

VARIABLES
  ring,         \* buffer
  buffer_lock,  \* the thread that holds the mutex between two steps
  input_wait,   \* threads asleep until something is inserted
  output_wait,  \* threads asleep until something is removed
  is_closed,
  pc,           \* where each thread is
  in,           \* in[t]: the argument of t's insert
  ret           \* ret[t]: what t's last get_next or try_get_next returned

vars == <<ring, buffer_lock, input_wait, output_wait, is_closed, pc, in, ret>>

Init ==
  /\ ring = NewRing
  /\ buffer_lock = NoThread
  /\ input_wait = {}
  /\ output_wait = {}
  /\ is_closed = FALSE
  /\ pc = [t \in Thread |-> "idle"]
  /\ in = [t \in Inserters |-> Junk]
  /\ ret = [t \in Getters \cup Pollers |-> Null]

Goto(t, label) == pc' = [pc EXCEPT ![t] = label]

(* condition_variable::notify_one: wake one sleeper, if there is any. *)
NotifiedOne(sleepers, left) ==
  IF sleepers = {} THEN left = {} ELSE \E t \in sleepers : left = sleepers \ {t}

-----------------------------------------------------------------------------
(* get_next *)

Return(t, value) ==
  /\ ret' = [ret EXCEPT ![t] = value]
  /\ Goto(t, "idle")

TakeWithoutNotify(t) ==
  /\ Return(t, front(ring))
  /\ ring' = pop(SwapFront(ring, Junk))
  /\ UNCHANGED <<buffer_lock, input_wait, output_wait, is_closed, in>>

(* Move the front out, pop, wake one inserter, return. *)
Take(t) ==
  /\ Return(t, front(ring))
  /\ ring' = pop(SwapFront(ring, Junk))
  /\ NotifiedOne(output_wait, output_wait')
  /\ UNCHANGED <<buffer_lock, input_wait, is_closed, in>>

ReturnDefault(t) ==
  /\ Return(t, Default)
  /\ UNCHANGED <<ring, buffer_lock, input_wait, output_wait, is_closed, in>>

(* The wait's predicate came out false: the lock is kept until the thread
   blocks. *)
AboutToBlock(t, label) ==
  /\ buffer_lock' = t
  /\ Goto(t, label)
  /\ UNCHANGED <<ring, input_wait, output_wait, is_closed, in, ret>>

GetNextClosedFirst(t) ==
  \/ is_closed /\ ReturnDefault(t)
  \/ ~is_closed /\ ~empty(ring) /\ Take(t)
  \/ ~is_closed /\ empty(ring) /\ AboutToBlock(t, "get_blocking")

(* With the lock: the test before the wait and the wait's predicate lead to
   the same three outcomes. *)
GetNextLocked(t) ==
  \/ ~empty(ring) /\ Take(t)
  \/ empty(ring) /\ is_closed /\ ReturnDefault(t)
  \/ empty(ring) /\ ~is_closed /\ AboutToBlock(t, "get_blocking")

GetNext(t) ==
  /\ pc[t] = "idle"
  /\ buffer_lock = NoThread
  /\ GetNextLocked(t)

GetNextBlock(t) ==
  /\ pc[t] = "get_blocking"
  /\ buffer_lock' = NoThread
  /\ input_wait' = input_wait \cup {t}
  /\ Goto(t, "get_waiting")
  /\ UNCHANGED <<ring, output_wait, is_closed, in, ret>>

GetNextWoken(t) ==
  /\ pc[t] = "get_waiting"
  /\ t \notin input_wait
  /\ buffer_lock = NoThread
  /\ GetNextLocked(t)

-----------------------------------------------------------------------------
(* try_get_next *)

TryGetNextDrains(t) ==
  /\ pc[t] = "idle"
  /\ IF is_closed /\ empty(ring)
     THEN ReturnDefault(t)
     ELSE /\ Goto(t, "try_lock")
          /\ UNCHANGED <<ring, buffer_lock, input_wait, output_wait, is_closed, in, ret>>

(* The flag is read before the lock: a closed channel answers T{} whatever
   it still holds. *)
TryGetNext(t) ==
  /\ pc[t] = "idle"
  /\ IF is_closed
     THEN ReturnDefault(t)
     ELSE /\ Goto(t, "try_lock")
          /\ UNCHANGED <<ring, buffer_lock, input_wait, output_wait, is_closed, in, ret>>

(* The front is copied out, not swapped. *)
TryGetNextLocked(t) ==
  /\ pc[t] = "try_lock"
  /\ buffer_lock = NoThread
  /\ IF empty(ring)
     THEN /\ Return(t, Null)
          /\ UNCHANGED <<ring, output_wait>>
     ELSE /\ Return(t, front(ring))
          /\ ring' = pop(ring)
          /\ NotifiedOne(output_wait, output_wait')
  /\ UNCHANGED <<buffer_lock, input_wait, is_closed, in>>

-----------------------------------------------------------------------------
(* insert *)

InsertUnchecked(t, item) ==
  /\ pc[t] = "idle"
  /\ in' = [in EXCEPT ![t] = item]
  /\ Goto(t, "ins_lock")
  /\ UNCHANGED <<ring, buffer_lock, input_wait, output_wait, is_closed, ret>>

(* The flag is read before the lock; a closed channel swallows the item
   and the call changes nothing. *)
Insert(t, item) ==
  /\ pc[t] = "idle"
  /\ ~is_closed
  /\ in' = [in EXCEPT ![t] = item]
  /\ Goto(t, "ins_lock")
  /\ UNCHANGED <<ring, buffer_lock, input_wait, output_wait, is_closed, ret>>

Push(t) ==
  /\ ring' = push_back(ring, in[t])
  /\ in' = [in EXCEPT ![t] = Junk]
  /\ Goto(t, "ins_notify")
  /\ UNCHANGED <<buffer_lock, input_wait, output_wait, is_closed, ret>>

Discard(t) ==
  /\ in' = [in EXCEPT ![t] = Junk]
  /\ Goto(t, "idle")
  /\ UNCHANGED <<ring, buffer_lock, input_wait, output_wait, is_closed, ret>>

InsertWithoutLock(t) ==
  /\ pc[t] = "ins_lock"
  /\ \/ ~full(ring) /\ Push(t)
     \/ full(ring) /\ is_closed /\ Discard(t)
     \/ full(ring) /\ ~is_closed /\ AboutToBlock(t, "ins_blocking")

(* When there is room the flag is not read again. *)
InsertLocked(t) ==
  /\ pc[t] = "ins_lock"
  /\ buffer_lock = NoThread
  /\ \/ ~full(ring) /\ Push(t)
     \/ full(ring) /\ is_closed /\ Discard(t)
     \/ full(ring) /\ ~is_closed /\ AboutToBlock(t, "ins_blocking")

InsertBlock(t) ==
  /\ pc[t] = "ins_blocking"
  /\ buffer_lock' = NoThread
  /\ output_wait' = output_wait \cup {t}
  /\ Goto(t, "ins_waiting")
  /\ UNCHANGED <<ring, input_wait, is_closed, in, ret>>

InsertWokenPushes(t) ==
  /\ pc[t] = "ins_waiting"
  /\ t \notin output_wait
  /\ buffer_lock = NoThread
  /\ Push(t)

(* After the wait a closed channel discards the item even if there is room. *)
InsertWoken(t) ==
  /\ pc[t] = "ins_waiting"
  /\ t \notin output_wait
  /\ buffer_lock = NoThread
  /\ \/ is_closed /\ Discard(t)
     \/ ~is_closed /\ ~full(ring) /\ Push(t)
     \/ ~is_closed /\ full(ring) /\ AboutToBlock(t, "ins_blocking")

InsertNotifyForgotten(t) ==
  /\ pc[t] = "ins_notify"
  /\ Goto(t, "idle")
  /\ UNCHANGED <<ring, buffer_lock, input_wait, output_wait, is_closed, in, ret>>

InsertNotify(t) ==
  /\ pc[t] = "ins_notify"
  /\ NotifiedOne(input_wait, input_wait')
  /\ Goto(t, "idle")
  /\ UNCHANGED <<ring, buffer_lock, output_wait, is_closed, in, ret>>

-----------------------------------------------------------------------------
(* close: the flag, then the two notifications, none of them under the lock *)

Close(t) ==
  /\ pc[t] = "idle"
  /\ is_closed' = TRUE
  /\ Goto(t, "close_input")
  /\ UNCHANGED <<ring, buffer_lock, input_wait, output_wait, in, ret>>

CloseForgetsGetters(t) ==
  /\ pc[t] = "close_input"
  /\ Goto(t, "close_output")
  /\ UNCHANGED <<ring, buffer_lock, input_wait, output_wait, is_closed, in, ret>>

CloseNotifyInput(t) ==
  /\ pc[t] = "close_input"
  /\ NotifiedOne(input_wait, input_wait')
  /\ Goto(t, "close_output")
  /\ UNCHANGED <<ring, buffer_lock, output_wait, is_closed, in, ret>>

CloseNotifyOneInserter(t) ==
  /\ pc[t] = "close_output"
  /\ NotifiedOne(output_wait, output_wait')
  /\ Goto(t, "idle")
  /\ UNCHANGED <<ring, buffer_lock, input_wait, is_closed, in, ret>>

CloseNotifyOutput(t) ==
  /\ pc[t] = "close_output"
  /\ output_wait' = {}
  /\ Goto(t, "idle")
  /\ UNCHANGED <<ring, buffer_lock, input_wait, is_closed, in, ret>>

-----------------------------------------------------------------------------

(* A condition variable may wake a sleeper nobody notified. *)
SpuriousWakeup(t) ==
  /\ t \in input_wait \cup output_wait
  /\ input_wait' = input_wait \ {t}
  /\ output_wait' = output_wait \ {t}
  /\ UNCHANGED <<ring, buffer_lock, is_closed, pc, in, ret>>

Next ==
  \/ \E t \in Getters : GetNext(t) \/ GetNextBlock(t) \/ GetNextWoken(t)
  \/ \E t \in Pollers : TryGetNext(t) \/ TryGetNextLocked(t)
  \/ \E t \in Inserters : \E item \in Item : Insert(t, item)
  \/ \E t \in Inserters :
       InsertLocked(t) \/ InsertBlock(t) \/ InsertWoken(t) \/ InsertNotify(t)
  \/ \E t \in Closers : Close(t) \/ CloseNotifyInput(t) \/ CloseNotifyOutput(t)
  \/ \E t \in Getters \cup Inserters : SpuriousWakeup(t)

Spec == Init /\ [][Next]_vars

(* A call that has begun is carried on (the scheduler runs every runnable
   thread) and a thread that keeps asking for the mutex gets it (strong
   fairness: others may take it in between).  Nothing makes a thread begin a
   call, and nothing makes a spurious wakeup happen. *)
Fairness ==
  /\ \A t \in Getters : WF_vars(GetNextBlock(t)) /\ SF_vars(GetNextWoken(t))
  /\ \A t \in Pollers : SF_vars(TryGetNextLocked(t))
  /\ \A t \in Inserters :
       /\ SF_vars(InsertLocked(t)) /\ WF_vars(InsertBlock(t))
       /\ SF_vars(InsertWoken(t)) /\ WF_vars(InsertNotify(t))
  /\ \A t \in Closers : WF_vars(CloseNotifyInput(t)) /\ WF_vars(CloseNotifyOutput(t))

FairSpec == Spec /\ Fairness

-----------------------------------------------------------------------------

GetLabel    == {"idle", "get_blocking", "get_waiting"}
TryLabel    == {"idle", "try_lock"}
InsertLabel == {"idle", "ins_lock", "ins_blocking", "ins_waiting", "ins_notify"}
CloseLabel  == {"idle", "close_input", "close_output"}

(* Every variable has its type.  For the ring that includes the bounds the
   code leaves to the lock and to the wait loops: never more than
   buffer_size elements, never fewer than none. *)
TypeOK ==
  /\ ring \in RingType
  /\ buffer_lock \in Getters \cup Inserters \cup {NoThread}
  /\ input_wait \subseteq Getters
  /\ output_wait \subseteq Inserters
  /\ is_closed \in BOOLEAN
  /\ DOMAIN pc = Thread
  /\ \A t \in Getters : pc[t] \in GetLabel
  /\ \A t \in Pollers : pc[t] \in TryLabel
  /\ \A t \in Inserters : pc[t] \in InsertLabel
  /\ \A t \in Closers : pc[t] \in CloseLabel
  /\ in \in [Inserters -> Item \cup {Junk}]
  /\ ret \in [Getters \cup Pollers -> Item \cup {Default, Null}]

(* The lock makes the wait predicates last: the ring is well formed, a thread
   keeps the lock from its failed predicate until it sleeps, and meanwhile the
   ring stays empty (for a receiver) or full (for a sender); only threads
   inside a wait sleep, and a sender has an item in hand until it pushes. *)
LockDiscipline ==
  /\ RingOK(ring)
  /\ \A t \in Thread : buffer_lock = t <=> pc[t] \in {"get_blocking", "ins_blocking"}
  /\ \A t \in Getters : pc[t] = "get_blocking" => empty(ring)
  /\ \A t \in Inserters : pc[t] = "ins_blocking" => full(ring)
  /\ \A t \in input_wait : pc[t] = "get_waiting"
  /\ \A t \in output_wait : pc[t] = "ins_waiting"
  /\ \A t \in Inserters :
       in[t] \in Item <=> pc[t] \in {"ins_lock", "ins_blocking", "ins_waiting"}

(* Threads a wakeup is on its way to, and wakeups on their way. *)
AwakeGetters   == {t \in Getters : pc[t] = "get_waiting"} \ input_wait
AwakeInserters == {t \in Inserters : pc[t] = "ins_waiting"} \ output_wait
Notifying      == {t \in Inserters : pc[t] = "ins_notify"}

(* No stranded value: while some get_next sleeps, every value in the ring is
   covered by a get_next that has been woken or by an insert that is about
   to notify.  insert notifies one thread, after it has unlocked, and other
   receivers may take the value first: the count has to come out right in
   every interleaving. *)
NoValueStranded ==
  input_wait # {} => ring.size <= Cardinality(AwakeGetters) + Cardinality(Notifying)

(* No stranded room: in an open channel, while some insert sleeps, every
   free slot is covered by an insert that has been woken (get_next and
   try_get_next notify one). *)
NoRoomStranded ==
  ~is_closed /\ output_wait # {} =>
    buffer_size - ring.size <= Cardinality(AwakeInserters)

(* An insert that has seen the channel open and has not pushed yet. *)
Inserting == \E t \in Inserters : pc[t] \in {"ins_lock", "ins_blocking", "ins_waiting"}

EndOfStream == is_closed /\ empty(ring) /\ ~Inserting

(* The end of the stream is final: once the channel is closed and drained and
   no insert is under way, it stays so.  A get_next that answers the default
   value then answers it for ever; while an insert is still under way (it has
   read the flag of line 78, and not yet the lock) a value may follow. *)
EndOfStreamIsFinal == [][EndOfStream => EndOfStream']_vars

(* "cannot send to a closed channel" (the comment of insert): what a closed
   channel holds only gets less. *)
ClosedTakesNothing == [][is_closed => ring'.size <= ring.size]_vars

(* "if closed we always return the default initialisation of T" (the comment
   of try_get_next): a poller that has been told that the channel is at its
   end is never given a value again, although the ring may still hold values
   then, and an insert that is under way may add to them. *)
DefaultIsLast ==
  [][\A t \in Pollers : ret[t] = Default => ret'[t] = Default]_vars

(* The ring, seen as a sequence, with the flag, the items of the inserts under
   way and the results, behaves as a channel: first in first out, bounded,
   nothing lost, duplicated, reordered or indeterminate, no insert accepted
   once the channel is closed and none dropped before, and the default value
   from get_next only when the channel is closed and drained. *)
Chan == INSTANCE Channel WITH
  queue <- Contents(ring), closed <- is_closed, sending <- in,
  Nothing <- Junk, Senders <- Inserters
ImplementsChannel == Chan!Spec

(* close frees the sleeping inserters: an insert that is asleep when close is
   about to notify returns, however many there are (notify_all). *)
CloseFreesInserters ==
  \A t \in Inserters :
    (t \in output_wait /\ \E c \in Closers : pc[c] \in {"close_input", "close_output"})
      ~> pc[t] = "idle"

(* close frees a sleeping receiver: a get_next that is asleep when close is
   about to notify returns. *)
CloseFreesGetters ==
  \A t \in Getters :
    (t \in input_wait /\ \E c \in Closers : pc[c] = "close_input") ~> pc[t] = "idle"

(* A value does not wait for a receiver that waits for a value. *)
WaitingGetterServed ==
  \A t \in Getters : (pc[t] = "get_waiting" /\ ~empty(ring)) ~> (pc[t] = "idle" \/ empty(ring))

(* The comments of get_next: on a closed channel every call returns, with
   the default value if there was "more waiting then available value". *)
ClosedGetReturns ==
  \A t \in Getters : (is_closed /\ pc[t] # "idle") ~> pc[t] = "idle"
=============================================================================
