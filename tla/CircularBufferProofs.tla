------------------------ MODULE CircularBufferProofs ------------------------
(* circular_buffer is a bounded first-in first-out queue, for every
   buffer_size and every set of items. *)
EXTENDS CircularBufferSpec, CircularBufferLemmas

(* The ring stays well formed under every member function. *)
LEMMA RepresentationStep == RepresentationOK /\ [Next]_vars => RepresentationOK'
<1> SUFFICES ASSUME RingOK(ring), [Next]_vars PROVE RingOK(ring')
  BY DEF RepresentationOK
<1>1. ASSUME NEW item \in Item, PushBack(item) PROVE RingOK(ring')
  BY <1>1, PushBackOK DEF PushBack
<1>2. CASE Pop \/ PopFront
  <2>1. ~empty(ring) /\ ring' = pop(ring) /\ Junk \in Item \cup {Junk}
    BY <1>2 DEF Pop, PopFront
  <2> QED BY <2>1, PopOK
<1>3. CASE PushThrows \/ Front \/ Back \/ ReadThrows \/ UNCHANGED vars
  BY <1>3 DEF PushThrows, Front, Back, ReadThrows, vars
<1> QED BY <1>1, <1>2, <1>3 DEF Next

(* The representation invariant holds throughout: end is size slots after
   front and every live slot holds an item. *)
THEOREM RepresentationCorrect == Spec => []RepresentationOK
<1>1. Init => RepresentationOK
  BY NewRingOK DEF Init, RepresentationOK
<1> QED BY <1>1, RepresentationStep, PTL DEF Spec

(* What back() dereferences is a slot of the array. *)
LEMMA BackType ==
  ASSUME NEW r, RingOK(r)
  PROVE  back(r) \in Item \cup {Junk}
BY RingParts DEF back

(* Every member function acts on the represented sequence as the FIFO queue
   does: nothing is reordered, lost, duplicated or invented. *)
LEMMA FifoStep == RepresentationOK /\ [Next]_vars => [Fifo!Next]_(Fifo!vars)
<1> SUFFICES ASSUME RingOK(ring), [Next]_vars PROVE [Fifo!Next]_(Fifo!vars)
  BY DEF RepresentationOK
<1>1. /\ Contents(ring) \in Seq(Item) /\ Len(Contents(ring)) = ring.size
      /\ empty(ring) <=> Contents(ring) = <<>>
      /\ ring.size \in 0 .. buffer_size
  BY ContentsIsSeq, RingParts
<1>2. ASSUME NEW item \in Item, PushBack(item) PROVE Fifo!Push(item)
  <2>1. Contents(ring') = Append(Contents(ring), item)
    BY <1>2, PushBackOK DEF PushBack
  <2> QED BY <1>1, <1>2, <2>1, BufferSizeAssumption DEF PushBack, full, Fifo!Push
<1>3. ASSUME ~empty(ring), ring' = pop(ring)
      PROVE  /\ Contents(ring) # <<>> /\ Contents(ring') = Tail(Contents(ring))
             /\ front(ring) = Head(Contents(ring))
  <2>1. Junk \in Item \cup {Junk}
    OBVIOUS
  <2> QED BY <1>3, <2>1, PopOK
<1>4. CASE Pop
  BY <1>3, <1>4 DEF Pop, Fifo!Next, Fifo!Pop
<1>5. CASE PopFront
  BY <1>3, <1>5 DEF PopFront, Fifo!Next, Fifo!Pop
<1>6. CASE Front
  <2>1. front(ring) = Head(Contents(ring))
    <3>1. Junk \in Item \cup {Junk} /\ ~empty(ring)
      BY <1>6 DEF Front
    <3> QED BY <3>1, PopOK
  <2> QED BY <1>1, <1>6, <2>1 DEF Front, Fifo!Next, Fifo!Front
<1>7. CASE Back
  BY <1>1, <1>7, BackType DEF Back, Fifo!Next, Fifo!Back
<1>8. CASE PushThrows
  BY <1>1, <1>8 DEF PushThrows, full, Fifo!Next, Fifo!Throw
<1>9. CASE ReadThrows
  BY <1>1, <1>9 DEF ReadThrows, Fifo!Next, Fifo!Throw
<1>10. CASE UNCHANGED vars
  BY <1>10 DEF vars, Fifo!vars
<1> QED BY <1>2, <1>4, <1>5, <1>6, <1>7, <1>8, <1>9, <1>10 DEF Next, Fifo!Next

(* circular_buffer implements the bounded FIFO queue. *)
THEOREM FifoImplemented == Spec => ImplementsFifo
<1>1. Init => Fifo!Init
  BY NewRingOK DEF Init, Fifo!Init
<1>2. Spec => Fifo!Spec
  BY <1>1, FifoStep, RepresentationCorrect, PTL DEF Spec, Fifo!Spec
<1> QED BY <1>2 DEF ImplementsFifo
=============================================================================
