------------------------------ MODULE Channels ------------------------------
(***************************************************************************)
(* Several channels between several threads, for the modules of the        *)
(* channels' clients.  A channel is the sequence it holds and its flag.    *)
(* What a call does with buffer_lock held is one step, and so is a read of *)
(* the flag outside the lock; a thread that waits takes its step when it   *)
(* can.  How threads sleep and are woken is ChannelBuffer's.               *)
(***************************************************************************)
EXTENDS Naturals, Sequences

CONSTANTS
  Chan,
  buffer_size,
  Item,
  Receiver,  \* threads that receive
  Sender,    \* threads that send
  Default,   \* T{}
  Null       \* the null pointer of try_get_next

ASSUME ChannelsAssumption ==
  buffer_size \in Nat \ {0} /\ Default \notin Item /\ Null \notin Item \cup {Default}

VARIABLES
  queue,      \* queue[c]: what channel c holds
  is_closed,  \* is_closed[c]
  insertion,  \* insertion[t]: what t's insert is about, and how far it is
  ret         \* ret[c][t]: what thread t last received from channel c

chanVars == <<queue, is_closed, insertion, ret>>

NoInsertion == [at |-> "none"]
Insertion == [at : {"lock", "waits"}, chan : Chan, value : Item \cup {Default}]

ChannelsInit ==
  /\ queue = [c \in Chan |-> <<>>]
  /\ is_closed = [c \in Chan |-> FALSE]
  /\ insertion = [t \in Sender |-> NoInsertion]
  /\ ret = [c \in Chan |-> [t \in Receiver |-> Null]]

Empty(c) == queue[c] = <<>>
Full(c) == Len(queue[c]) = buffer_size

Answer(c, t, value) == ret' = [ret EXCEPT ![c][t] = value]

CopyFront(c, t) ==
  /\ ~Empty(c)
  /\ Answer(c, t, Head(queue[c]))
  /\ UNCHANGED <<queue, is_closed, insertion>>

TakeFront(c, t) ==
  /\ ~Empty(c)
  /\ Answer(c, t, Head(queue[c]))
  /\ queue' = [queue EXCEPT ![c] = Tail(@)]
  /\ UNCHANGED <<is_closed, insertion>>

AnswerDefault(c, t) ==
  /\ Answer(c, t, Default)
  /\ UNCHANGED <<queue, is_closed, insertion>>

get_next(c, t) ==
  \/ TakeFront(c, t)
  \/ Empty(c) /\ is_closed[c] /\ AnswerDefault(c, t)

(* try_get_next in the lock, entered when the flag was not set. *)
try_get_next_locked(c, t) ==
  \/ TakeFront(c, t)
  \/ Empty(c) /\ Answer(c, t, Null) /\ UNCHANGED <<queue, is_closed, insertion>>

(* insert first reads the flag: a closed channel swallows the value. *)
insert(t, c, value) ==
  /\ insertion[t] = NoInsertion
  /\ insertion' = IF is_closed[c] THEN insertion
                  ELSE [insertion EXCEPT ![t] = [at |-> "lock", chan |-> c, value |-> value]]
  /\ UNCHANGED <<queue, is_closed, ret>>

PushRegardless(t) ==
  /\ queue' = [queue EXCEPT ![insertion[t].chan] = Append(@, insertion[t].value)]
  /\ insertion' = [insertion EXCEPT ![t] = NoInsertion]

Push(t) ==
  LET c == insertion[t].chan IN
  /\ ~Full(c)
  /\ queue' = [queue EXCEPT ![c] = Append(@, insertion[t].value)]
  /\ insertion' = [insertion EXCEPT ![t] = NoInsertion]

Discard(t) ==
  /\ is_closed[insertion[t].chan]
  /\ insertion' = [insertion EXCEPT ![t] = NoInsertion]
  /\ UNCHANGED queue

(* With the lock: the flag counts only when the ring is full. *)
insert_locked(t) ==
  /\ insertion[t].at = "lock"
  /\ \/ Push(t)
     \/ Full(insertion[t].chan) /\ Discard(t)
     \/ /\ Full(insertion[t].chan) /\ ~is_closed[insertion[t].chan]
        /\ insertion' = [insertion EXCEPT ![t].at = "waits"]
        /\ UNCHANGED queue
  /\ UNCHANGED <<is_closed, ret>>

(* After the wait the flag counts before the room. *)
insert_woken(t) ==
  /\ insertion[t].at = "waits"
  /\ \/ Discard(t)
     \/ ~is_closed[insertion[t].chan] /\ Push(t)
  /\ UNCHANGED <<is_closed, ret>>

close(c) ==
  /\ is_closed' = [is_closed EXCEPT ![c] = TRUE]
  /\ UNCHANGED <<queue, insertion, ret>>
=============================================================================
