------------------------ MODULE ChannelBufferProofs -------------------------
(* channel_buffer for any number of threads, items and slots: type
   correctness and the lock discipline, and from them the properties of a
   channel. *)
EXTENDS ChannelBuffer, CircularBufferLemmas, FiniteSetTheorems

(* The inductive invariant. *)
Inv == TypeOK /\ LockDiscipline

(* What pushing does to the ring of a channel ... *)
LEMMA PushRing ==
  ASSUME Inv, NEW t \in Inserters, ~full(ring), Push(t),
         pc[t] \in {"ins_lock", "ins_blocking", "ins_waiting"}
  PROVE  /\ RingOK(ring') /\ ring' \in RingType
         /\ ring'.size = ring.size + 1
         /\ in[t] \in Item
         /\ Contents(ring') = Append(Contents(ring), in[t])
<1>1. RingOK(ring) /\ in[t] \in Item /\ ring' = push_back(ring, in[t])
  BY DEF Inv, LockDiscipline, Push
<1>2. /\ RingOK(ring') /\ ring'.size = ring.size + 1
      /\ Contents(ring') = Append(Contents(ring), in[t])
  BY <1>1, PushBackOK
<1> QED BY <1>1, <1>2, RingParts

(* ... and popping, with get_next's swap or try_get_next's copy. *)
LEMMA PopRing ==
  ASSUME Inv, ~empty(ring),
         ring' = pop(ring) \/ ring' = pop(SwapFront(ring, Junk))
  PROVE  /\ RingOK(ring') /\ ring' \in RingType
         /\ ring'.size = ring.size - 1
         /\ front(ring) \in Item
         /\ Contents(ring) # <<>>
         /\ front(ring) = Head(Contents(ring))
         /\ Contents(ring') = Tail(Contents(ring))
<1>1. RingOK(ring) /\ Junk \in Item \cup {Junk}
  BY DEF Inv, LockDiscipline
<1>2. /\ RingOK(ring') /\ ring'.size = ring.size - 1
      /\ front(ring) \in Item
      /\ Contents(ring) # <<>>
      /\ front(ring) = Head(Contents(ring))
      /\ Contents(ring') = Tail(Contents(ring))
  BY <1>1, PopOK
<1> QED BY <1>2, RingParts

(* The size of a ring is a natural number, at most buffer_size. *)
LEMMA SizeType ==
  ASSUME Inv
  PROVE  ring.size \in Nat /\ ring.size <= buffer_size
<1>1. ring.size \in 0 .. buffer_size
  BY DEF Inv, TypeOK, RingType
<1> QED BY <1>1, BufferSizeAssumption

(* notify_one removes at most one sleeper. *)
LEMMA NotifiedSubset ==
  ASSUME NEW sleepers, NEW left, NotifiedOne(sleepers, left)
  PROVE  left \subseteq sleepers
BY DEF NotifiedOne

-----------------------------------------------------------------------------

(* The constructor establishes the invariant. *)
LEMMA InvInit == Init => Inv
<1> SUFFICES ASSUME Init PROVE Inv
  OBVIOUS
<1>1. RingOK(ring) /\ ring \in RingType
  BY NewRingOK, RingParts DEF Init
<1>2. TypeOK
  BY <1>1 DEF Init, TypeOK, Thread, GetLabel, TryLabel, InsertLabel, CloseLabel
<1>3. LockDiscipline
  BY <1>1, ThreadAssumption, JunkAssumption DEF Init, LockDiscipline, Thread
<1> QED BY <1>2, <1>3 DEF Inv

(* The invariant is kept by the steps that take a value out of the ring. *)
LEMMA TakeInv ==
  ASSUME Inv, NEW t \in Getters \cup Pollers, ~empty(ring),
         buffer_lock = NoThread,
         pc[t] \in {"idle", "get_waiting", "try_lock"}, t \notin input_wait,
         ring' = pop(ring) \/ ring' = pop(SwapFront(ring, Junk)),
         Return(t, front(ring)),
         NotifiedOne(output_wait, output_wait'),
         UNCHANGED <<buffer_lock, input_wait, is_closed, in>>
  PROVE  Inv'
<1>1. RingOK(ring') /\ ring' \in RingType /\ front(ring) \in Item
  BY PopRing
<1>2. output_wait' \subseteq output_wait
  BY NotifiedSubset
<1>3. pc' = [pc EXCEPT ![t] = "idle"] /\ ret' = [ret EXCEPT ![t] = front(ring)]
  BY DEF Return, Goto
<1>4. TypeOK'
  BY <1>1, <1>2, <1>3, RolesAssumption
  DEF Inv, TypeOK, Thread, GetLabel, TryLabel, InsertLabel, CloseLabel
<1>5. LockDiscipline'
  BY <1>1, <1>2, <1>3, RolesAssumption, ThreadAssumption
  DEF Inv, TypeOK, LockDiscipline, Thread
<1> QED BY <1>4, <1>5 DEF Inv

(* The invariant is kept by the step that puts a value into the ring. *)
LEMMA PushInv ==
  ASSUME Inv, NEW t \in Inserters, ~full(ring), Push(t),
         pc[t] \in {"ins_lock", "ins_waiting"}, t \notin output_wait,
         buffer_lock = NoThread
  PROVE  Inv'
<1>1. RingOK(ring') /\ ring' \in RingType
  BY PushRing
<1>2. /\ pc' = [pc EXCEPT ![t] = "ins_notify"] /\ in' = [in EXCEPT ![t] = Junk]
      /\ UNCHANGED <<buffer_lock, input_wait, output_wait, is_closed, ret>>
  BY DEF Push, Goto
<1>3. TypeOK'
  BY <1>1, <1>2, RolesAssumption
  DEF Inv, TypeOK, Thread, GetLabel, TryLabel, InsertLabel, CloseLabel
<1>4. LockDiscipline'
  BY <1>1, <1>2, RolesAssumption, ThreadAssumption, JunkAssumption
  DEF Inv, TypeOK, LockDiscipline, Thread
<1> QED BY <1>3, <1>4 DEF Inv

(* get_next with the lock held, at first and after a wakeup. *)
LEMMA GetNextInv ==
  ASSUME Inv, NEW t \in Getters, pc[t] \in {"idle", "get_waiting"},
         t \notin input_wait, buffer_lock = NoThread, GetNextLocked(t)
  PROVE  Inv'
<1>1. CASE ~empty(ring) /\ Take(t)
  BY <1>1, TakeInv DEF Take
<1>2. CASE empty(ring) /\ is_closed /\ ReturnDefault(t)
  <2>1. TypeOK'
    BY <1>2, RolesAssumption
    DEF Inv, TypeOK, ReturnDefault, Return, Goto, Thread, GetLabel, TryLabel, InsertLabel, CloseLabel
  <2>2. LockDiscipline'
    BY <1>2, RolesAssumption, ThreadAssumption
    DEF Inv, TypeOK, LockDiscipline, ReturnDefault, Return, Goto, Thread
  <2> QED BY <2>1, <2>2 DEF Inv
<1>3. CASE empty(ring) /\ ~is_closed /\ AboutToBlock(t, "get_blocking")
  <2>1. TypeOK'
    BY <1>3, RolesAssumption
    DEF Inv, TypeOK, AboutToBlock, Goto, Thread, GetLabel, TryLabel, InsertLabel, CloseLabel
  <2>2. LockDiscipline'
    BY <1>3, RolesAssumption, ThreadAssumption
    DEF Inv, TypeOK, LockDiscipline, AboutToBlock, Goto, Thread
  <2> QED BY <2>1, <2>2 DEF Inv
<1> QED BY <1>1, <1>2, <1>3 DEF GetNextLocked

(* get_next keeps the invariant. *)
LEMMA GetterStep ==
  ASSUME Inv, NEW t \in Getters, GetNext(t) \/ GetNextBlock(t) \/ GetNextWoken(t)
  PROVE  Inv'
<1>1. CASE GetNext(t)
  <2>1. t \notin input_wait
    BY <1>1 DEF GetNext, Inv, LockDiscipline
  <2> QED BY <1>1, <2>1, GetNextInv DEF GetNext
<1>2. CASE GetNextBlock(t)
  <2>1. TypeOK'
    BY <1>2, RolesAssumption
    DEF GetNextBlock, Inv, TypeOK, Goto, Thread, GetLabel, TryLabel, InsertLabel, CloseLabel
  <2>2. LockDiscipline'
    BY <1>2, RolesAssumption, ThreadAssumption
    DEF GetNextBlock, Inv, TypeOK, LockDiscipline, Goto, Thread
  <2> QED BY <2>1, <2>2 DEF Inv
<1>3. CASE GetNextWoken(t)
  BY <1>3, GetNextInv DEF GetNextWoken
<1> QED BY <1>1, <1>2, <1>3

(* try_get_next keeps the invariant. *)
LEMMA PollerStep ==
  ASSUME Inv, NEW t \in Pollers, TryGetNext(t) \/ TryGetNextLocked(t)
  PROVE  Inv'
<1>1. t \notin input_wait
  BY RolesAssumption DEF Inv, TypeOK
<1>2. CASE TryGetNext(t)
  <2>1. TypeOK'
    BY <1>2, RolesAssumption
    DEF TryGetNext, ReturnDefault, Return, Inv, TypeOK, Goto, Thread,
        GetLabel, TryLabel, InsertLabel, CloseLabel
  <2>2. LockDiscipline'
    BY <1>2, RolesAssumption, ThreadAssumption
    DEF TryGetNext, ReturnDefault, Return, Inv, TypeOK, LockDiscipline, Goto, Thread
  <2> QED BY <2>1, <2>2 DEF Inv
<1>3. CASE TryGetNextLocked(t) /\ empty(ring)
  <2>1. TypeOK'
    BY <1>3, RolesAssumption
    DEF TryGetNextLocked, Return, Inv, TypeOK, Goto, Thread,
        GetLabel, TryLabel, InsertLabel, CloseLabel
  <2>2. LockDiscipline'
    BY <1>3, RolesAssumption, ThreadAssumption
    DEF TryGetNextLocked, Return, Inv, TypeOK, LockDiscipline, Goto, Thread
  <2> QED BY <2>1, <2>2 DEF Inv
<1>4. CASE TryGetNextLocked(t) /\ ~empty(ring)
  BY <1>1, <1>4, TakeInv DEF TryGetNextLocked
<1> QED BY <1>2, <1>3, <1>4

(* insert keeps the invariant. *)
LEMMA InserterStep ==
  ASSUME Inv, NEW t \in Inserters,
         \/ \E item \in Item : Insert(t, item)
         \/ InsertLocked(t) \/ InsertBlock(t) \/ InsertWoken(t) \/ InsertNotify(t)
  PROVE  Inv'
<1>1. ASSUME NEW item \in Item, Insert(t, item) PROVE Inv'
  <2>1. TypeOK'
    BY <1>1, RolesAssumption
    DEF Insert, Inv, TypeOK, Goto, Thread, GetLabel, TryLabel, InsertLabel, CloseLabel
  <2>2. LockDiscipline'
    BY <1>1, RolesAssumption, ThreadAssumption
    DEF Insert, Inv, TypeOK, LockDiscipline, Goto, Thread
  <2> QED BY <2>1, <2>2 DEF Inv
<1>2. ASSUME ~full(ring), Push(t), InsertLocked(t) \/ InsertWoken(t) PROVE Inv'
  <2>1. /\ pc[t] \in {"ins_lock", "ins_waiting"} /\ t \notin output_wait
        /\ buffer_lock = NoThread
    BY <1>2 DEF InsertLocked, InsertWoken, Inv, LockDiscipline
  <2> QED BY <1>2, <2>1, PushInv
<1>3. ASSUME Discard(t), InsertLocked(t) \/ InsertWoken(t) PROVE Inv'
  <2>1. /\ pc[t] \in {"ins_lock", "ins_waiting"} /\ t \notin output_wait
        /\ buffer_lock = NoThread
    BY <1>3 DEF InsertLocked, InsertWoken, Inv, LockDiscipline
  <2>2. TypeOK'
    BY <1>3, RolesAssumption
    DEF Discard, Inv, TypeOK, Goto, Thread, GetLabel, TryLabel, InsertLabel, CloseLabel
  <2>3. LockDiscipline'
    BY <1>3, <2>1, RolesAssumption, ThreadAssumption, JunkAssumption
    DEF Discard, Inv, TypeOK, LockDiscipline, Goto, Thread
  <2> QED BY <2>2, <2>3 DEF Inv
<1>4. ASSUME full(ring), AboutToBlock(t, "ins_blocking"), InsertLocked(t) \/ InsertWoken(t)
      PROVE  Inv'
  <2>1. /\ pc[t] \in {"ins_lock", "ins_waiting"} /\ t \notin output_wait
        /\ buffer_lock = NoThread
    BY <1>4 DEF InsertLocked, InsertWoken, Inv, LockDiscipline
  <2>2. TypeOK'
    BY <1>4, RolesAssumption
    DEF AboutToBlock, Inv, TypeOK, Goto, Thread, GetLabel, TryLabel, InsertLabel, CloseLabel
  <2>3. LockDiscipline'
    BY <1>4, <2>1, RolesAssumption, ThreadAssumption
    DEF AboutToBlock, Inv, TypeOK, LockDiscipline, Goto, Thread
  <2> QED BY <2>2, <2>3 DEF Inv
<1>5. CASE InsertBlock(t)
  <2>1. TypeOK'
    BY <1>5, RolesAssumption
    DEF InsertBlock, Inv, TypeOK, Goto, Thread, GetLabel, TryLabel, InsertLabel, CloseLabel
  <2>2. LockDiscipline'
    BY <1>5, RolesAssumption, ThreadAssumption
    DEF InsertBlock, Inv, TypeOK, LockDiscipline, Goto, Thread
  <2> QED BY <2>1, <2>2 DEF Inv
<1>6. CASE InsertNotify(t)
  <2>1. input_wait' \subseteq input_wait
    BY <1>6, NotifiedSubset DEF InsertNotify
  <2>2. TypeOK'
    BY <1>6, <2>1, RolesAssumption
    DEF InsertNotify, Inv, TypeOK, Goto, Thread, GetLabel, TryLabel, InsertLabel, CloseLabel
  <2>3. LockDiscipline'
    BY <1>6, <2>1, RolesAssumption, ThreadAssumption
    DEF InsertNotify, Inv, TypeOK, LockDiscipline, Goto, Thread
  <2> QED BY <2>2, <2>3 DEF Inv
<1> QED BY <1>1, <1>2, <1>3, <1>4, <1>5, <1>6 DEF InsertLocked, InsertWoken

(* close keeps the invariant: it only wakes threads and raises the flag. *)
LEMMA CloserStep ==
  ASSUME Inv, NEW t \in Closers, Close(t) \/ CloseNotifyInput(t) \/ CloseNotifyOutput(t)
  PROVE  Inv'
<1>1. /\ input_wait' \subseteq input_wait /\ output_wait' \subseteq output_wait
      /\ is_closed' \in BOOLEAN
      /\ UNCHANGED <<ring, buffer_lock, in, ret>>
      /\ \E label \in CloseLabel : pc' = [pc EXCEPT ![t] = label]
      /\ pc[t] \in CloseLabel
  BY NotifiedSubset
  DEF Close, CloseNotifyInput, CloseNotifyOutput, Goto, CloseLabel, Inv, TypeOK
<1>2. TypeOK'
  BY <1>1, RolesAssumption
  DEF Inv, TypeOK, Thread, GetLabel, TryLabel, InsertLabel, CloseLabel
<1>3. LockDiscipline'
  BY <1>1, RolesAssumption, ThreadAssumption
  DEF Inv, TypeOK, LockDiscipline, Thread, CloseLabel
<1> QED BY <1>2, <1>3 DEF Inv

(* Every step keeps the invariant. *)
LEMMA InvStep == Inv /\ [Next]_vars => Inv'
<1> SUFFICES ASSUME Inv, [Next]_vars PROVE Inv'
  OBVIOUS
<1>1. ASSUME NEW t \in Getters \cup Inserters, SpuriousWakeup(t) PROVE Inv'
  BY <1>1 DEF SpuriousWakeup, Inv, TypeOK, LockDiscipline
<1>2. CASE UNCHANGED vars
  BY <1>2 DEF vars, Inv, TypeOK, LockDiscipline
<1> QED BY <1>1, <1>2, GetterStep, PollerStep, InserterStep, CloserStep DEF Next

(* Types and the lock discipline hold in every reachable state: no ring
   operation ever meets the condition on which circular_buffer throws. *)
THEOREM InvHolds == Spec => []Inv
BY InvInit, InvStep, PTL DEF Spec

(* Every variable keeps its type; in particular the ring neither overflows in
   insert nor underflows in a receive. *)
THEOREM Typing == Spec => []TypeOK
<1>1. Inv => TypeOK
  BY DEF Inv
<1> QED BY <1>1, InvHolds, PTL

(* What a thread found under the lock before it decided to wait still holds
   when it falls asleep. *)
THEOREM LockDisciplineHolds == Spec => []LockDiscipline
<1>1. Inv => LockDiscipline
  BY DEF Inv
<1> QED BY <1>1, InvHolds, PTL

-----------------------------------------------------------------------------

(* Every step acts on the abstract channel as a send that is accepted, gets in
   or is dropped, a receive, an answer of a closed or empty channel, a close,
   or not at all. *)
LEMMA ChannelStep == Inv /\ [Next]_vars => [Chan!Next]_(Chan!vars)
<1> SUFFICES ASSUME Inv, [Next]_vars PROVE [Chan!Next]_(Chan!vars)
  OBVIOUS
<1>1. /\ Contents(ring) \in Seq(Item) /\ Len(Contents(ring)) = ring.size
      /\ empty(ring) <=> Contents(ring) = <<>>
  BY ContentsIsSeq DEF Inv, LockDiscipline
<1>2. ASSUME NEW t \in Getters \cup Pollers, ~empty(ring), Return(t, front(ring)),
             ring' = pop(ring) \/ ring' = pop(SwapFront(ring, Junk)),
             UNCHANGED <<is_closed, in>>
      PROVE  Chan!Receive(t)
  BY <1>2, PopRing DEF Return, Chan!Receive
<1>3. ASSUME NEW t \in Getters, GetNextLocked(t) PROVE [Chan!Next]_(Chan!vars)
  <2>1. CASE ~empty(ring) /\ Take(t)
    BY <1>2, <2>1 DEF Take, Chan!Next
  <2>2. CASE empty(ring) /\ is_closed /\ ReturnDefault(t)
    BY <1>1, <2>2 DEF ReturnDefault, Return, Chan!Next, Chan!Exhausted
  <2>3. CASE AboutToBlock(t, "get_blocking")
    BY <2>3 DEF AboutToBlock, Chan!vars
  <2> QED BY <1>3, <2>1, <2>2, <2>3 DEF GetNextLocked
<1>4. ASSUME NEW t \in Pollers, TryGetNext(t) PROVE [Chan!Next]_(Chan!vars)
  <2>1. t \notin Getters
    BY RolesAssumption
  <2>2. CASE is_closed
    BY <1>4, <2>1, <2>2 DEF TryGetNext, ReturnDefault, Return, Chan!Next, Chan!Exhausted
  <2>3. CASE ~is_closed
    BY <1>4, <2>3 DEF TryGetNext, Chan!vars
  <2> QED BY <2>2, <2>3
<1>5. ASSUME NEW t \in Pollers, TryGetNextLocked(t) PROVE [Chan!Next]_(Chan!vars)
  <2>1. CASE empty(ring)
    BY <1>1, <1>5, <2>1 DEF TryGetNextLocked, Return, Chan!Next, Chan!NothingYet
  <2>2. CASE ~empty(ring)
    BY <1>2, <1>5, <2>2 DEF TryGetNextLocked, Chan!Next
  <2> QED BY <2>1, <2>2
<1>6. ASSUME NEW t \in Inserters, InsertLocked(t) \/ InsertWoken(t)
      PROVE  [Chan!Next]_(Chan!vars)
  <2>1. CASE ~full(ring) /\ Push(t)
    <3>1. /\ pc[t] \in {"ins_lock", "ins_blocking", "ins_waiting"}
          /\ ring.size < buffer_size
      BY <1>6, <2>1, SizeType, BufferSizeAssumption DEF InsertLocked, InsertWoken, full
    <3>2. in[t] \in Item /\ Contents(ring') = Append(Contents(ring), in[t])
      BY <2>1, <3>1, PushRing
    <3>3. Chan!Send(t)
      BY <1>1, <2>1, <3>1, <3>2, JunkAssumption DEF Push, Chan!Send
    <3> QED BY <3>3 DEF Chan!Next
  <2>2. CASE is_closed /\ Discard(t)
    <3>1. in[t] \in Item
      BY <1>6 DEF InsertLocked, InsertWoken, Inv, LockDiscipline
    <3>2. Chan!Drop(t)
      BY <2>2, <3>1, JunkAssumption DEF Discard, Chan!Drop
    <3> QED BY <3>2 DEF Chan!Next
  <2>3. CASE AboutToBlock(t, "ins_blocking")
    BY <2>3 DEF AboutToBlock, Chan!vars
  <2> QED BY <1>6, <2>1, <2>2, <2>3 DEF InsertLocked, InsertWoken
<1>7. ASSUME NEW t \in Closers, Close(t) PROVE Chan!Close
  BY <1>7 DEF Close, Chan!Close
<1>8. ASSUME NEW t, \/ GetNextBlock(t) \/ InsertBlock(t) \/ InsertNotify(t)
                    \/ CloseNotifyInput(t) \/ CloseNotifyOutput(t) \/ SpuriousWakeup(t)
      PROVE  UNCHANGED Chan!vars
  BY <1>8 DEF GetNextBlock, InsertBlock, InsertNotify, CloseNotifyInput, CloseNotifyOutput,
              SpuriousWakeup, Chan!vars
<1>9. ASSUME NEW t \in Inserters, NEW item \in Item, Insert(t, item)
      PROVE  Chan!Accept(t, item)
  <2>1. in[t] \in Item \cup {Junk} /\ in[t] \notin Item
    BY <1>9, RolesAssumption DEF Insert, Inv, TypeOK, LockDiscipline
  <2> QED BY <1>9, <2>1 DEF Insert, Chan!Accept
<1>10. CASE UNCHANGED vars
  BY <1>10 DEF vars, Chan!vars
<1> QED
  BY <1>3, <1>4, <1>5, <1>6, <1>7, <1>8, <1>9, <1>10
  DEF Next, GetNext, GetNextWoken, Chan!Next

(* channel_buffer implements the abstract channel: first in first out,
   bounded, nothing lost, duplicated or invented, no insert accepted once the
   channel is closed and none dropped before, and a blocking receiver gets the
   default value only from a closed and drained channel. *)
THEOREM ChannelImplemented == Spec => ImplementsChannel
<1>1. Init => Chan!Init
  BY NewRingOK DEF Init, Chan!Init
<1>2. Spec => Chan!Spec
  BY <1>1, ChannelStep, InvHolds, PTL DEF Spec, Chan!Spec
<1> QED BY <1>2 DEF ImplementsChannel

-----------------------------------------------------------------------------

(* A closed and drained channel without an insert under way stays so. *)
LEMMA EndOfStreamStep == Inv /\ EndOfStream /\ [Next]_vars => EndOfStream'
<1> SUFFICES ASSUME Inv, EndOfStream, [Next]_vars PROVE EndOfStream'
  OBVIOUS
<1>1. /\ is_closed /\ empty(ring)
      /\ \A t \in Inserters : pc[t] \notin {"ins_lock", "ins_blocking", "ins_waiting"}
  BY DEF EndOfStream, Inserting
<1>2. ASSUME NEW t \in Getters, GetNext(t) \/ GetNextBlock(t) \/ GetNextWoken(t)
      PROVE  EndOfStream'
  BY <1>1, <1>2, RolesAssumption
  DEF GetNext, GetNextBlock, GetNextWoken, GetNextLocked, ReturnDefault, Return, Goto,
      EndOfStream, Inserting, Inv, TypeOK, Thread
<1>3. ASSUME NEW t \in Pollers, TryGetNext(t) \/ TryGetNextLocked(t) PROVE EndOfStream'
  BY <1>1, <1>3, RolesAssumption
  DEF TryGetNext, TryGetNextLocked, ReturnDefault, Return, Goto,
      EndOfStream, Inserting, Inv, TypeOK, Thread
<1>4. ASSUME NEW t \in Inserters,
             \/ \E item \in Item : Insert(t, item)
             \/ InsertLocked(t) \/ InsertBlock(t) \/ InsertWoken(t) \/ InsertNotify(t)
      PROVE  EndOfStream'
  BY <1>1, <1>4
  DEF Insert, InsertLocked, InsertBlock, InsertWoken, InsertNotify, Goto,
      EndOfStream, Inserting, Inv, TypeOK, Thread
<1>5. ASSUME NEW t \in Closers, Close(t) \/ CloseNotifyInput(t) \/ CloseNotifyOutput(t)
      PROVE  EndOfStream'
  BY <1>1, <1>5, RolesAssumption
  DEF Close, CloseNotifyInput, CloseNotifyOutput, Goto,
      EndOfStream, Inserting, Inv, TypeOK, Thread
<1>6. ASSUME NEW t, SpuriousWakeup(t) PROVE EndOfStream'
  BY <1>1, <1>6 DEF SpuriousWakeup, EndOfStream, Inserting
<1>7. CASE UNCHANGED vars
  BY <1>1, <1>7 DEF vars, EndOfStream, Inserting
<1> QED BY <1>2, <1>3, <1>4, <1>5, <1>6, <1>7 DEF Next

(* The end of the stream is final. *)
THEOREM EndOfStreamFinal == Spec => EndOfStreamIsFinal
<1>1. Inv /\ [Next]_vars => [EndOfStream => EndOfStream']_vars
  BY EndOfStreamStep
<1> QED BY <1>1, InvHolds, PTL DEF Spec, EndOfStreamIsFinal

-----------------------------------------------------------------------------

(* A poller that has been told that the channel is closed is right, and has no
   call under way that looked at the flag before. *)
ToldOK == \A t \in Pollers : ret[t] = Default => is_closed /\ pc[t] = "idle"

LEMMA ToldInit == Init => ToldOK
BY DefaultAssumption DEF Init, ToldOK

(* Every step keeps it so, and no step changes what such a poller was told. *)
LEMMA ToldStep ==
  ASSUME Inv, ToldOK, [Next]_vars
  PROVE  ToldOK' /\ \A t \in Pollers : ret[t] = Default => ret'[t] = Default
<1> USE DEF ToldOK
<1>1. ASSUME NEW t \in Getters, GetNext(t) \/ GetNextBlock(t) \/ GetNextWoken(t)
      PROVE  \A p \in Pollers : pc'[p] = pc[p] /\ ret'[p] = ret[p] /\ is_closed' = is_closed
  <2>1. \A p \in Pollers : p # t
    BY RolesAssumption
  <2>2. /\ UNCHANGED is_closed
        /\ \E label : pc' = [pc EXCEPT ![t] = label]
        /\ UNCHANGED ret \/ \E value : ret' = [ret EXCEPT ![t] = value]
    BY <1>1 DEF GetNext, GetNextBlock, GetNextWoken, GetNextLocked, Take, ReturnDefault,
                AboutToBlock, Return, Goto
  <2> QED BY <2>1, <2>2 DEF Inv, TypeOK, Thread
<1>2. ASSUME NEW t \in Pollers, TryGetNext(t) \/ TryGetNextLocked(t)
      PROVE  /\ \A p \in Pollers : p # t => pc'[p] = pc[p] /\ ret'[p] = ret[p]
             /\ UNCHANGED is_closed
  BY <1>2 DEF TryGetNext, TryGetNextLocked, ReturnDefault, Return, Goto, Inv, TypeOK, Thread
<1>3. ASSUME NEW t \in Pollers, TryGetNext(t)
      PROVE  /\ ret'[t] = Default => is_closed /\ pc'[t] = "idle"
             /\ ret[t] = Default => ret'[t] = Default
  BY <1>3 DEF TryGetNext, ReturnDefault, Return, Goto, Inv, TypeOK, Thread
<1>4. ASSUME NEW t \in Pollers, TryGetNextLocked(t)
      PROVE  ret[t] # Default /\ ret'[t] # Default
  <2>1. ret[t] # Default
    BY <1>4 DEF TryGetNextLocked
  <2>2. ~empty(ring) => front(ring) \in Item
    BY <1>4, PopRing DEF TryGetNextLocked
  <2>3. ret'[t] = Null \/ ret'[t] \in Item
    BY <1>4, <2>2 DEF TryGetNextLocked, Return, Inv, TypeOK
  <2> QED BY <2>1, <2>3, DefaultAssumption
<1>5. ASSUME NEW t \in Inserters \cup Closers,
             \/ \E item \in Item : Insert(t, item)
             \/ InsertLocked(t) \/ InsertBlock(t) \/ InsertWoken(t) \/ InsertNotify(t)
             \/ Close(t) \/ CloseNotifyInput(t) \/ CloseNotifyOutput(t)
      PROVE  /\ \A p \in Pollers : pc'[p] = pc[p]
             /\ UNCHANGED ret /\ (is_closed => is_closed')
  <2>1. \A p \in Pollers : p # t
    BY RolesAssumption
  <2>2. /\ UNCHANGED ret /\ (is_closed => is_closed')
        /\ \E label : pc' = [pc EXCEPT ![t] = label]
    BY <1>5 DEF Insert, InsertLocked, InsertBlock, InsertWoken, InsertNotify, Push, Discard,
                AboutToBlock, Close, CloseNotifyInput, CloseNotifyOutput, Goto
  <2> QED BY <2>1, <2>2 DEF Inv, TypeOK, Thread
<1>6. ASSUME NEW t, SpuriousWakeup(t) \/ UNCHANGED vars
      PROVE  UNCHANGED <<pc, ret, is_closed>>
  BY <1>6 DEF SpuriousWakeup, vars
<1> QED BY <1>1, <1>2, <1>3, <1>4, <1>5, <1>6 DEF Next

(* The default value is the last answer a poller gets. *)
THEOREM DefaultLast == Spec => DefaultIsLast
<1>1. Spec => []ToldOK
  BY ToldInit, ToldStep, InvHolds, PTL DEF Spec
<1>2. Inv /\ ToldOK /\ [Next]_vars =>
        [\A t \in Pollers : ret[t] = Default => ret'[t] = Default]_vars
  BY ToldStep
<1> QED BY <1>1, <1>2, InvHolds, PTL DEF Spec, DefaultIsLast

-----------------------------------------------------------------------------
(* The two counting invariants. *)

(* Sets of threads are finite and are counted one thread at a time. *)
LEMMA ThreadSets ==
  ASSUME NEW S, S \subseteq Thread
  PROVE  /\ IsFiniteSet(S) /\ Cardinality(S) \in Nat
         /\ \A t \in S : Cardinality(S \ {t}) = Cardinality(S) - 1
         /\ \A t : t \notin S => Cardinality(S \cup {t}) = Cardinality(S) + 1
         /\ \A T \in SUBSET S : Cardinality(T) <= Cardinality(S)
<1>1. IsFiniteSet(S) /\ Cardinality(S) \in Nat
  BY ThreadAssumption, FS_Subset, FS_CardinalityType
<1>2. \A t \in S : Cardinality(S \ {t}) = Cardinality(S) - 1
  BY <1>1, FS_RemoveElement
<1>3. \A t : t \notin S => Cardinality(S \cup {t}) = Cardinality(S) + 1
  BY <1>1, FS_AddElement
<1>4. \A T \in SUBSET S : Cardinality(T) <= Cardinality(S)
  BY <1>1, FS_Subset
<1> QED BY <1>1, <1>2, <1>3, <1>4

(* The sets that are counted are sets of threads. *)
LEMMA Counted ==
  /\ AwakeGetters \subseteq Thread /\ AwakeGetters' \subseteq Thread
  /\ AwakeInserters \subseteq Thread /\ AwakeInserters' \subseteq Thread
  /\ Notifying \subseteq Thread /\ Notifying' \subseteq Thread
BY DEF AwakeGetters, AwakeInserters, Notifying, Thread

(* A step that adds no value and takes no thread out of the cover keeps every
   value covered. *)
LEMMA ValueCoverKept ==
  ASSUME Inv, NoValueStranded, ring'.size \in Nat, ring'.size <= ring.size,
         input_wait' \subseteq input_wait,
         AwakeGetters \subseteq AwakeGetters', Notifying \subseteq Notifying'
  PROVE  NoValueStranded'
<1>1. /\ Cardinality(AwakeGetters) <= Cardinality(AwakeGetters')
      /\ Cardinality(Notifying) <= Cardinality(Notifying')
      /\ Cardinality(AwakeGetters) \in Nat /\ Cardinality(AwakeGetters') \in Nat
      /\ Cardinality(Notifying) \in Nat /\ Cardinality(Notifying') \in Nat
  BY Counted, ThreadSets
<1>2. ring.size \in Nat
  BY SizeType
<1>3. CASE input_wait' = {}
  BY <1>3 DEF NoValueStranded
<1>4. CASE input_wait' # {}
  <2>1. ring.size <= Cardinality(AwakeGetters) + Cardinality(Notifying)
    BY <1>4 DEF NoValueStranded
  <2>2. ring'.size <= Cardinality(AwakeGetters') + Cardinality(Notifying')
    BY <1>1, <1>2, <2>1
  <2> QED BY <2>2 DEF NoValueStranded
<1> QED BY <1>3, <1>4

(* No cover is needed while the ring is empty. *)
LEMMA NoValueNoCover ==
  ASSUME ring'.size = 0 PROVE NoValueStranded'
<1>1. Cardinality(AwakeGetters') \in Nat /\ Cardinality(Notifying') \in Nat
  BY Counted, ThreadSets
<1> QED BY <1>1 DEF NoValueStranded

(* empty is size zero. *)
LEMMA EmptySize ==
  ASSUME Inv PROVE empty(ring) <=> ring.size = 0
BY SizeType DEF empty

(* A receiver takes a value: the value leaves, and with it at most the
   receiver's own cover. *)
LEMMA GetNextCover ==
  ASSUME Inv, NoValueStranded, NEW t \in Getters, t \notin input_wait,
         pc[t] \in {"idle", "get_waiting"}, GetNextLocked(t)
  PROVE  NoValueStranded'
<1>1. CASE empty(ring)
  BY <1>1, EmptySize, NoValueNoCover
  DEF GetNextLocked, ReturnDefault, AboutToBlock
<1>2. CASE ~empty(ring)
  <2>1. /\ Take(t)
        /\ pc' = [pc EXCEPT ![t] = "idle"] /\ UNCHANGED input_wait
        /\ ring'.size = ring.size - 1
    BY <1>2, PopRing DEF GetNextLocked, Take, Return, Goto
  <2>2. ring.size \in Nat /\ ring.size # 0
    BY <1>2, EmptySize, SizeType
  <2>3. Notifying' = Notifying
    BY <2>1, RolesAssumption DEF Notifying, Inv, TypeOK, Thread
  <2>4. CASE pc[t] = "idle"
    <3>1. AwakeGetters' = AwakeGetters
      BY <2>1, <2>4 DEF AwakeGetters, Inv, TypeOK, Thread
    <3> QED BY <2>1, <2>2, <2>3, <3>1, ValueCoverKept
  <2>5. CASE pc[t] = "get_waiting"
    <3>1. t \in AwakeGetters /\ AwakeGetters' = AwakeGetters \ {t}
      BY <2>1, <2>5 DEF AwakeGetters, Inv, TypeOK, Thread
    <3>2. /\ Cardinality(AwakeGetters') = Cardinality(AwakeGetters) - 1
          /\ Cardinality(AwakeGetters) \in Nat /\ Cardinality(Notifying) \in Nat
      BY <3>1, Counted, ThreadSets
    <3> QED BY <2>1, <2>2, <2>3, <3>2 DEF NoValueStranded
  <2> QED BY <2>4, <2>5
<1> QED BY <1>1, <1>2

(* A sender puts a value in and owes its notification. *)
LEMMA PushCover ==
  ASSUME Inv, NoValueStranded, NEW t \in Inserters, ~full(ring), Push(t),
         pc[t] \in {"ins_lock", "ins_waiting"}
  PROVE  NoValueStranded'
<1>1. /\ pc' = [pc EXCEPT ![t] = "ins_notify"] /\ UNCHANGED input_wait
      /\ ring'.size = ring.size + 1
  BY PushRing DEF Push, Goto
<1>2. AwakeGetters' = AwakeGetters
  BY <1>1, RolesAssumption DEF AwakeGetters, Inv, TypeOK, Thread
<1>3. t \notin Notifying /\ Notifying' = Notifying \cup {t}
  BY <1>1 DEF Notifying, Inv, TypeOK, Thread
<1>4. /\ Cardinality(Notifying') = Cardinality(Notifying) + 1
      /\ Cardinality(AwakeGetters) \in Nat /\ Cardinality(Notifying) \in Nat
  BY <1>3, Counted, ThreadSets
<1> QED BY <1>1, <1>2, <1>4, SizeType DEF NoValueStranded

(* The sender hands its cover to the receiver it wakes, if there is one. *)
LEMMA NotifyCover ==
  ASSUME Inv, NoValueStranded, NEW t \in Inserters, InsertNotify(t)
  PROVE  NoValueStranded'
<1>1. /\ pc[t] = "ins_notify" /\ pc' = [pc EXCEPT ![t] = "idle"]
      /\ NotifiedOne(input_wait, input_wait') /\ UNCHANGED ring
  BY DEF InsertNotify, Goto
<1>2. t \in Notifying /\ Notifying' = Notifying \ {t}
  BY <1>1 DEF Notifying, Inv, TypeOK, Thread
<1>3. CASE input_wait = {}
  BY <1>1, <1>3 DEF NotifiedOne, NoValueStranded
<1>4. CASE input_wait # {}
  <2>1. PICK g \in input_wait : input_wait' = input_wait \ {g}
    BY <1>1, <1>4 DEF NotifiedOne
  <2>2. g \in Getters /\ pc[g] = "get_waiting"
    BY DEF Inv, TypeOK, LockDiscipline
  <2>3. g \notin AwakeGetters /\ AwakeGetters' = AwakeGetters \cup {g}
    BY <1>1, <2>1, <2>2, RolesAssumption DEF AwakeGetters, Inv, TypeOK, Thread
  <2>4. /\ Cardinality(AwakeGetters') = Cardinality(AwakeGetters) + 1
        /\ Cardinality(Notifying') = Cardinality(Notifying) - 1
        /\ Cardinality(AwakeGetters) \in Nat /\ Cardinality(Notifying) \in Nat
    BY <1>2, <2>3, Counted, ThreadSets
  <2> QED BY <1>1, <1>4, <2>4, SizeType DEF NoValueStranded
<1> QED BY <1>3, <1>4

(* Every step keeps every value covered. *)
LEMMA ValueStep == Inv /\ NoValueStranded /\ [Next]_vars => NoValueStranded'
<1> SUFFICES ASSUME Inv, NoValueStranded, [Next]_vars PROVE NoValueStranded'
  OBVIOUS
<1>1. ring.size \in Nat
  BY SizeType
<1>2. ASSUME NEW t \in Getters, GetNext(t) \/ GetNextWoken(t) PROVE NoValueStranded'
  <2>1. t \notin input_wait /\ pc[t] \in {"idle", "get_waiting"} /\ GetNextLocked(t)
    BY <1>2 DEF GetNext, GetNextWoken, Inv, LockDiscipline
  <2> QED BY <2>1, GetNextCover
<1>3. ASSUME NEW t \in Getters, GetNextBlock(t) PROVE NoValueStranded'
  BY <1>3, EmptySize, NoValueNoCover DEF GetNextBlock, Inv, LockDiscipline
<1>4. ASSUME NEW t \in Pollers, TryGetNext(t) \/ TryGetNextLocked(t)
      PROVE  NoValueStranded'
  <2>1. UNCHANGED input_wait /\ \E label : pc' = [pc EXCEPT ![t] = label]
    BY <1>4 DEF TryGetNext, TryGetNextLocked, ReturnDefault, Return, Goto
  <2>2. AwakeGetters' = AwakeGetters /\ Notifying' = Notifying
    BY <2>1, RolesAssumption DEF AwakeGetters, Notifying, Inv, TypeOK, Thread
  <2>3. UNCHANGED ring \/ (~empty(ring) /\ ring' = pop(ring))
    BY <1>4 DEF TryGetNext, TryGetNextLocked, ReturnDefault
  <2>4. ring'.size \in Nat /\ ring'.size <= ring.size
    <3>1. CASE UNCHANGED ring
      BY <1>1, <3>1
    <3>2. CASE ~empty(ring) /\ ring' = pop(ring)
      <4>1. ring'.size = ring.size - 1
        BY <3>2, PopRing
      <4> QED BY <1>1, <3>2, <4>1, EmptySize
    <3> QED BY <2>3, <3>1, <3>2
  <2> QED BY <2>1, <2>2, <2>4, ValueCoverKept
<1>5. ASSUME NEW t \in Inserters,
             \/ \E item \in Item : Insert(t, item)
             \/ Discard(t) /\ pc[t] # "ins_notify"
             \/ AboutToBlock(t, "ins_blocking") /\ pc[t] # "ins_notify"
             \/ InsertBlock(t)
      PROVE  NoValueStranded'
  <2>1. /\ UNCHANGED <<ring, input_wait>> /\ pc[t] # "ins_notify"
        /\ \E label \in {"idle", "ins_lock", "ins_blocking", "ins_waiting"} :
              pc' = [pc EXCEPT ![t] = label]
    BY <1>5 DEF Insert, Discard, AboutToBlock, InsertBlock, Goto
  <2>2. AwakeGetters' = AwakeGetters /\ Notifying' = Notifying
    BY <2>1, RolesAssumption DEF AwakeGetters, Notifying, Inv, TypeOK, Thread
  <2> QED BY <1>1, <2>1, <2>2, ValueCoverKept
<1>6. ASSUME NEW t \in Inserters, InsertLocked(t) \/ InsertWoken(t)
      PROVE  NoValueStranded'
  BY <1>5, <1>6, PushCover DEF InsertLocked, InsertWoken
<1>7. ASSUME NEW t \in Closers, Close(t) \/ CloseNotifyInput(t) \/ CloseNotifyOutput(t)
      PROVE  NoValueStranded'
  <2>1. /\ UNCHANGED ring /\ input_wait' \subseteq input_wait
        /\ \E label : pc' = [pc EXCEPT ![t] = label]
    BY <1>7, NotifiedSubset DEF Close, CloseNotifyInput, CloseNotifyOutput, Goto
  <2>2. AwakeGetters \subseteq AwakeGetters' /\ Notifying' = Notifying
    BY <2>1, RolesAssumption DEF AwakeGetters, Notifying, Inv, TypeOK, Thread
  <2> QED BY <1>1, <2>1, <2>2, ValueCoverKept
<1>8. ASSUME NEW t, SpuriousWakeup(t) PROVE NoValueStranded'
  <2>1. UNCHANGED <<ring, pc>> /\ input_wait' \subseteq input_wait
    BY <1>8 DEF SpuriousWakeup
  <2>2. AwakeGetters \subseteq AwakeGetters' /\ Notifying' = Notifying
    BY <2>1 DEF AwakeGetters, Notifying
  <2> QED BY <1>1, <2>1, <2>2, ValueCoverKept
<1>9. CASE UNCHANGED vars
  BY <1>1, <1>9, ValueCoverKept DEF vars, AwakeGetters, Notifying
<1> QED BY <1>2, <1>3, <1>4, <1>5, <1>6, <1>7, <1>8, <1>9, NotifyCover DEF Next

(* No value is stranded while receivers sleep. *)
THEOREM ValuesServed == Spec => []NoValueStranded
<1>1. Init => NoValueStranded
  BY DEF Init, NoValueStranded
<1> QED BY <1>1, ValueStep, InvHolds, PTL DEF Spec

-----------------------------------------------------------------------------
(* The same for free slots. *)

(* A step that frees no slot and takes no thread out of the cover keeps every
   free slot covered. *)
LEMMA RoomCoverKept ==
  ASSUME Inv, NoRoomStranded, ring'.size \in Nat, ring.size <= ring'.size,
         output_wait' \subseteq output_wait, is_closed => is_closed',
         AwakeInserters \subseteq AwakeInserters'
  PROVE  NoRoomStranded'
<1>1. /\ Cardinality(AwakeInserters) <= Cardinality(AwakeInserters')
      /\ Cardinality(AwakeInserters) \in Nat /\ Cardinality(AwakeInserters') \in Nat
  BY Counted, ThreadSets
<1>2. ring.size \in Nat /\ buffer_size \in Nat
  BY SizeType, BufferSizeAssumption
<1>3. CASE output_wait' = {} \/ is_closed'
  BY <1>3 DEF NoRoomStranded
<1>4. CASE output_wait' # {} /\ ~is_closed'
  <2>1. buffer_size - ring.size <= Cardinality(AwakeInserters)
    BY <1>4 DEF NoRoomStranded
  <2>2. buffer_size - ring'.size <= Cardinality(AwakeInserters')
    BY <1>1, <1>2, <2>1
  <2> QED BY <2>2 DEF NoRoomStranded
<1> QED BY <1>3, <1>4

(* No cover is needed while the ring is full. *)
LEMMA NoRoomNoCover ==
  ASSUME ring'.size = buffer_size PROVE NoRoomStranded'
<1>1. Cardinality(AwakeInserters') \in Nat
  BY Counted, ThreadSets
<1> QED BY <1>1, BufferSizeAssumption DEF NoRoomStranded

(* A receiver frees a slot and wakes a sender for it, if there is one. *)
LEMMA TakeRoom ==
  ASSUME Inv, NoRoomStranded, NEW t \in Getters \cup Pollers, ~empty(ring),
         ring' = pop(ring) \/ ring' = pop(SwapFront(ring, Junk)),
         pc' = [pc EXCEPT ![t] = "idle"], UNCHANGED is_closed,
         NotifiedOne(output_wait, output_wait')
  PROVE  NoRoomStranded'
<1>1. ring'.size = ring.size - 1
  BY PopRing
<1>2. CASE output_wait = {} \/ is_closed
  BY <1>2 DEF NotifiedOne, NoRoomStranded
<1>3. CASE output_wait # {} /\ ~is_closed
  <2>1. PICK g \in output_wait : output_wait' = output_wait \ {g}
    BY <1>3 DEF NotifiedOne
  <2>2. g \in Inserters /\ pc[g] = "ins_waiting"
    BY DEF Inv, TypeOK, LockDiscipline
  <2>3. g \notin AwakeInserters /\ AwakeInserters' = AwakeInserters \cup {g}
    BY <2>1, <2>2, RolesAssumption DEF AwakeInserters, Inv, TypeOK, Thread
  <2>4. /\ Cardinality(AwakeInserters') = Cardinality(AwakeInserters) + 1
        /\ Cardinality(AwakeInserters) \in Nat
    BY <2>3, Counted, ThreadSets
  <2>5. ring.size \in Nat /\ buffer_size \in Nat
    BY SizeType, BufferSizeAssumption
  <2>6. buffer_size - ring.size <= Cardinality(AwakeInserters)
    BY <1>3 DEF NoRoomStranded
  <2>7. buffer_size - ring'.size <= Cardinality(AwakeInserters')
    BY <1>1, <2>4, <2>5, <2>6
  <2> QED BY <2>7 DEF NoRoomStranded
<1> QED BY <1>2, <1>3

(* A sender fills a slot; if it had been woken, its cover goes with it. *)
LEMMA PushRoom ==
  ASSUME Inv, NoRoomStranded, NEW t \in Inserters, ~full(ring), Push(t),
         pc[t] \in {"ins_lock", "ins_waiting"}, t \notin output_wait
  PROVE  NoRoomStranded'
<1>1. /\ pc' = [pc EXCEPT ![t] = "ins_notify"] /\ UNCHANGED <<output_wait, is_closed>>
      /\ ring'.size = ring.size + 1
  BY PushRing DEF Push, Goto
<1>2. ring.size \in Nat /\ buffer_size \in Nat
  BY SizeType, BufferSizeAssumption
<1>3. CASE pc[t] = "ins_lock"
  <2>1. AwakeInserters' = AwakeInserters
    BY <1>1, <1>3 DEF AwakeInserters, Inv, TypeOK, Thread
  <2> QED BY <1>1, <1>2, <2>1, RoomCoverKept
<1>4. CASE pc[t] = "ins_waiting"
  <2>1. t \in AwakeInserters /\ AwakeInserters' = AwakeInserters \ {t}
    BY <1>1, <1>4 DEF AwakeInserters, Inv, TypeOK, Thread
  <2>2. /\ Cardinality(AwakeInserters') = Cardinality(AwakeInserters) - 1
        /\ Cardinality(AwakeInserters) \in Nat
    BY <2>1, Counted, ThreadSets
  <2> QED BY <1>1, <1>2, <2>2 DEF NoRoomStranded
<1> QED BY <1>3, <1>4

(* Every step keeps every free slot covered. *)
LEMMA RoomStep == Inv /\ NoRoomStranded /\ [Next]_vars => NoRoomStranded'
<1> SUFFICES ASSUME Inv, NoRoomStranded, [Next]_vars PROVE NoRoomStranded'
  OBVIOUS
<1>1. ring.size \in Nat
  BY SizeType
<1>2. ASSUME NEW t \in Getters \cup Pollers,
             UNCHANGED <<ring, output_wait, is_closed>>,
             NEW label, pc' = [pc EXCEPT ![t] = label]
      PROVE  NoRoomStranded'
  <2>1. AwakeInserters' = AwakeInserters
    BY <1>2, RolesAssumption DEF AwakeInserters, Inv, TypeOK, Thread
  <2> QED BY <1>1, <1>2, <2>1, RoomCoverKept
<1>3. ASSUME NEW t \in Getters, GetNext(t) \/ GetNextWoken(t) PROVE NoRoomStranded'
  <2>1. CASE ~empty(ring) /\ Take(t)
    BY <2>1, TakeRoom DEF Take, Return, Goto
  <2>2. CASE ReturnDefault(t) \/ AboutToBlock(t, "get_blocking")
    BY <1>2, <2>2 DEF ReturnDefault, AboutToBlock, Return, Goto
  <2> QED BY <1>3, <2>1, <2>2 DEF GetNext, GetNextWoken, GetNextLocked
<1>4. ASSUME NEW t \in Getters, GetNextBlock(t) PROVE NoRoomStranded'
  BY <1>2, <1>4 DEF GetNextBlock, Goto
<1>5. ASSUME NEW t \in Pollers, TryGetNext(t) PROVE NoRoomStranded'
  BY <1>2, <1>5 DEF TryGetNext, ReturnDefault, Return, Goto
<1>6. ASSUME NEW t \in Pollers, TryGetNextLocked(t) PROVE NoRoomStranded'
  <2>1. CASE empty(ring)
    BY <1>2, <1>6, <2>1 DEF TryGetNextLocked, Return, Goto
  <2>2. CASE ~empty(ring)
    BY <1>6, <2>2, TakeRoom DEF TryGetNextLocked, Return, Goto
  <2> QED BY <2>1, <2>2
<1>7. ASSUME NEW t \in Inserters, InsertNotify(t) \/ \E item \in Item : Insert(t, item)
      PROVE  NoRoomStranded'
  <2>1. /\ UNCHANGED <<ring, output_wait, is_closed>> /\ pc[t] # "ins_waiting"
        /\ \E label \in {"idle", "ins_lock"} : pc' = [pc EXCEPT ![t] = label]
    BY <1>7 DEF InsertNotify, Insert, Goto
  <2>2. AwakeInserters' = AwakeInserters
    BY <2>1 DEF AwakeInserters, Inv, TypeOK, Thread
  <2> QED BY <1>1, <2>1, <2>2, RoomCoverKept
<1>8. ASSUME NEW t \in Inserters, InsertLocked(t) \/ InsertWoken(t) PROVE NoRoomStranded'
  <2>1. pc[t] \in {"ins_lock", "ins_waiting"} /\ t \notin output_wait
    BY <1>8 DEF InsertLocked, InsertWoken, Inv, LockDiscipline
  <2>2. CASE ~full(ring) /\ Push(t)
    BY <2>1, <2>2, PushRoom
  <2>3. CASE is_closed /\ Discard(t)
    BY <2>3 DEF Discard, NoRoomStranded
  <2>4. CASE full(ring) /\ AboutToBlock(t, "ins_blocking")
    BY <2>4, NoRoomNoCover DEF full, AboutToBlock
  <2> QED BY <1>8, <2>2, <2>3, <2>4 DEF InsertLocked, InsertWoken
<1>9. ASSUME NEW t \in Inserters, InsertBlock(t) PROVE NoRoomStranded'
  BY <1>9, NoRoomNoCover DEF InsertBlock, full, Inv, LockDiscipline
<1>10. ASSUME NEW t \in Closers, Close(t) \/ CloseNotifyInput(t) \/ CloseNotifyOutput(t)
       PROVE  NoRoomStranded'
  <2>1. /\ UNCHANGED ring /\ output_wait' \subseteq output_wait
        /\ is_closed => is_closed'
        /\ \E label : pc' = [pc EXCEPT ![t] = label]
    BY <1>10 DEF Close, CloseNotifyInput, CloseNotifyOutput, Goto
  <2>2. AwakeInserters \subseteq AwakeInserters'
    BY <2>1, RolesAssumption DEF AwakeInserters, Inv, TypeOK, Thread
  <2> QED BY <1>1, <2>1, <2>2, RoomCoverKept
<1>11. ASSUME NEW t, SpuriousWakeup(t) PROVE NoRoomStranded'
  <2>1. UNCHANGED <<ring, pc, is_closed>> /\ output_wait' \subseteq output_wait
    BY <1>11 DEF SpuriousWakeup
  <2>2. AwakeInserters \subseteq AwakeInserters'
    BY <2>1 DEF AwakeInserters
  <2> QED BY <1>1, <2>1, <2>2, RoomCoverKept
<1>12. CASE UNCHANGED vars
  BY <1>1, <1>12, RoomCoverKept DEF vars, AwakeInserters
<1> QED
  BY <1>3, <1>4, <1>5, <1>6, <1>7, <1>8, <1>9, <1>10, <1>11, <1>12 DEF Next

(* No free slot is stranded while senders sleep on an open channel. *)
THEOREM RoomServed == Spec => []NoRoomStranded
<1>1. Init => NoRoomStranded
  BY DEF Init, NoRoomStranded
<1> QED BY <1>1, RoomStep, InvHolds, PTL DEF Spec
=============================================================================
