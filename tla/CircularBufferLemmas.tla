------------------------ MODULE CircularBufferLemmas ------------------------
(* What the ring operators do to a well-formed ring and to the sequence it
   represents, for every buffer_size. *)
EXTENDS CircularBuffer, TLAPS

(* The parts of a well-formed ring. *)
LEMMA RingParts ==
  ASSUME NEW r, RingOK(r)
  PROVE  /\ r \in RingType
         /\ r.buffer \in [Slot -> Item \cup {Junk}]
         /\ r.front \in Slot /\ r.end \in Slot
         /\ r.size \in 0 .. buffer_size
         /\ r.end = Wrap(r.front + r.size)
         /\ \A i \in 0 .. buffer_size - 1 : i < r.size => r.buffer[Wrap(r.front + i)] \in Item
BY DEF RingOK, RingType

(* Dropping the first slot leaves the end where it is. *)
LEMMA WrapIncrement ==
  ASSUME NEW p \in Slot, NEW k \in 1 .. buffer_size
  PROVE  Wrap(increment(p) + (k - 1)) = Wrap(p + k)
<1>1. CASE p + 1 = buffer_size
  BY <1>1, BufferSizeAssumption DEF Slot, Wrap, increment
<1>2. CASE p + 1 # buffer_size
  BY <1>2, BufferSizeAssumption DEF Slot, Wrap, increment
<1> QED BY <1>1, <1>2

(* The constructor makes a well-formed ring that represents <<>>. *)
LEMMA NewRingOK == RingOK(NewRing) /\ Contents(NewRing) = <<>>
<1>1. 0 \in Slot /\ 0 \in 0 .. buffer_size
  BY BufferSizeAssumption DEF Slot
<1>2. NewRing \in RingType
  BY <1>1 DEF NewRing, RingType
<1>3. RingOK(NewRing)
  BY <1>1, <1>2, BufferSizeAssumption DEF NewRing, RingOK, Wrap
<1>4. Contents(NewRing) = <<>>
  BY DEF NewRing, Contents
<1> QED BY <1>3, <1>4

(* The sequence a ring represents. *)
LEMMA ContentsIsSeq ==
  ASSUME NEW r, RingOK(r)
  PROVE  /\ Contents(r) \in Seq(Item)
         /\ Len(Contents(r)) = r.size
         /\ \A i \in 1 .. r.size : Contents(r)[i] = r.buffer[Wrap(r.front + i - 1)]
         /\ empty(r) <=> Contents(r) = <<>>
<1>1. r.size \in 0 .. buffer_size /\ r.front \in Slot
  BY RingParts
<1>2. \A i \in 1 .. r.size : r.buffer[Wrap(r.front + i - 1)] \in Item
  <2> TAKE i \in 1 .. r.size
  <2>1. /\ i - 1 \in 0 .. buffer_size - 1 /\ i - 1 < r.size
        /\ r.front + i - 1 = r.front + (i - 1)
    BY <1>1, BufferSizeAssumption DEF Slot
  <2> QED BY <2>1, RingParts
<1>3. Contents(r) \in [1 .. r.size -> Item]
  BY <1>2 DEF Contents
<1>4. r.size \in Nat
  BY <1>1, BufferSizeAssumption
<1>5. Contents(r) \in Seq(Item) /\ Len(Contents(r)) = r.size
  BY <1>3, <1>4
<1>6. empty(r) <=> Contents(r) = <<>>
  BY <1>4, <1>5 DEF empty
<1> QED BY <1>5, <1>6 DEF Contents

(* push_back on a ring that is not full appends. *)
LEMMA PushBackOK ==
  ASSUME NEW r, RingOK(r), ~full(r), NEW item \in Item,
         NEW q, q = push_back(r, item)
  PROVE  /\ RingOK(q)
         /\ Contents(q) = Append(Contents(r), item)
         /\ q.size = r.size + 1
<1>1. /\ r.buffer \in [Slot -> Item \cup {Junk}]
      /\ r.front \in Slot /\ r.end \in Slot
      /\ r.size \in 0 .. buffer_size - 1
      /\ r.end = Wrap(r.front + r.size)
  BY RingParts, BufferSizeAssumption DEF full
<1>2. /\ q.buffer = [r.buffer EXCEPT ![r.end] = item]
      /\ q.front = r.front /\ q.end = increment(r.end) /\ q.size = r.size + 1
  <2>1. r \in RingType
    BY RingParts
  <2> QED BY <2>1 DEF push_back, RingType
<1>3. increment(r.end) \in Slot /\ increment(r.end) = Wrap(r.front + (r.size + 1))
  BY <1>1, BufferSizeAssumption DEF Slot, Wrap, increment
<1>4. [r.buffer EXCEPT ![r.end] = item] \in [Slot -> Item \cup {Junk}]
  BY <1>1
<1>5. \A i \in 0 .. buffer_size - 1 : i < r.size =>
        /\ q.buffer[Wrap(r.front + i)] = r.buffer[Wrap(r.front + i)]
        /\ q.buffer[Wrap(r.front + i)] \in Item
  <2> SUFFICES ASSUME NEW i \in 0 .. buffer_size - 1, i < r.size
               PROVE  /\ q.buffer[Wrap(r.front + i)] = r.buffer[Wrap(r.front + i)]
                      /\ q.buffer[Wrap(r.front + i)] \in Item
    OBVIOUS
  <2>1. Wrap(r.front + i) \in Slot /\ Wrap(r.front + i) # r.end
    BY <1>1, BufferSizeAssumption DEF Slot, Wrap
  <2>2. r.buffer[Wrap(r.front + i)] \in Item
    BY RingParts
  <2> QED BY <1>1, <1>2, <2>1, <2>2
<1>6. q.buffer[Wrap(r.front + r.size)] = item
  BY <1>1, <1>2
<1>7. q \in RingType
  <2>1. r \in RingType /\ r.size + 1 \in 0 .. buffer_size
    BY <1>1, RingParts, BufferSizeAssumption
  <2> QED BY <1>3, <1>4, <2>1 DEF push_back, RingType
<1>8. \A i \in 0 .. buffer_size - 1 : i < r.size + 1 => q.buffer[Wrap(r.front + i)] \in Item
  <2> SUFFICES ASSUME NEW i \in 0 .. buffer_size - 1, i < r.size + 1
               PROVE  q.buffer[Wrap(r.front + i)] \in Item
    OBVIOUS
  <2>1. CASE i < r.size
    BY <2>1, <1>5
  <2>2. CASE i = r.size
    BY <2>2, <1>6
  <2> QED BY <2>1, <2>2, <1>1, BufferSizeAssumption
<1>9. RingOK(q)
  BY <1>2, <1>3, <1>7, <1>8 DEF RingOK
<1>10. Contents(q) = Append(Contents(r), item)
  <2>1. /\ Contents(q) \in Seq(Item) /\ Len(Contents(q)) = r.size + 1
        /\ \A i \in 1 .. r.size + 1 : Contents(q)[i] = q.buffer[Wrap(r.front + i - 1)]
    <3>1. /\ Contents(q) \in Seq(Item) /\ Len(Contents(q)) = q.size
          /\ \A i \in 1 .. q.size : Contents(q)[i] = q.buffer[Wrap(q.front + i - 1)]
      BY <1>9, ContentsIsSeq
    <3>2. q.front = r.front /\ q.size = r.size + 1
      BY <1>2
    <3> QED BY <3>1, <3>2
  <2>2. /\ Contents(r) \in Seq(Item) /\ Len(Contents(r)) = r.size
        /\ \A i \in 1 .. r.size : Contents(r)[i] = r.buffer[Wrap(r.front + i - 1)]
    BY ContentsIsSeq
  <2>3. ASSUME NEW i \in 1 .. r.size PROVE Contents(q)[i] = Contents(r)[i]
    <3>1. /\ i - 1 \in 0 .. buffer_size - 1 /\ i - 1 < r.size
          /\ r.front + i - 1 = r.front + (i - 1) /\ i \in 1 .. r.size + 1
      BY <1>1, BufferSizeAssumption DEF Slot
    <3> QED BY <3>1, <1>5, <2>1, <2>2
  <2>4. Contents(q)[r.size + 1] = item
    <3>1. r.size + 1 \in 1 .. r.size + 1 /\ r.front + (r.size + 1) - 1 = r.front + r.size
      BY <1>1, BufferSizeAssumption DEF Slot
    <3> QED BY <3>1, <1>6, <2>1
  <2> QED BY <2>1, <2>2, <2>3, <2>4, <1>1, BufferSizeAssumption
<1> QED BY <1>2, <1>9, <1>10

(* Whatever is written into the front slot, popping drops exactly the first
   element: pop on a ring that is not empty, with or without the swap of
   get_next before it. *)
LEMMA PopOK ==
  ASSUME NEW r, RingOK(r), ~empty(r), NEW temp \in Item \cup {Junk},
         NEW q, q = pop(r) \/ q = pop(SwapFront(r, temp))
  PROVE  /\ RingOK(q)
         /\ Contents(q) = Tail(Contents(r))
         /\ q.size = r.size - 1
         /\ Contents(r) # <<>>
         /\ front(r) = Head(Contents(r))
         /\ front(r) \in Item
<1>1. /\ r.buffer \in [Slot -> Item \cup {Junk}]
      /\ r.front \in Slot /\ r.end \in Slot
      /\ r.size \in 1 .. buffer_size
      /\ r.end = Wrap(r.front + r.size)
  BY RingParts, BufferSizeAssumption DEF empty
<1>2. PICK b : /\ q = [buffer |-> b, front |-> increment(r.front),
                       end |-> r.end, size |-> r.size - 1]
               /\ b \in [Slot -> Item \cup {Junk}]
               /\ \A s \in Slot : s # r.front => b[s] = r.buffer[s]
  <2>1. CASE q = pop(r)
    BY <1>1, <2>1, RingParts DEF pop, RingType
  <2>2. CASE q = pop(SwapFront(r, temp))
    <3> DEFINE b == [r.buffer EXCEPT ![r.front] = temp]
    <3>1. SwapFront(r, temp) = [buffer |-> b, front |-> r.front, end |-> r.end, size |-> r.size]
      BY RingParts DEF SwapFront, RingType
    <3> HIDE DEF b
    <3>2. q = [buffer |-> b, front |-> increment(r.front), end |-> r.end, size |-> r.size - 1]
      <4> DEFINE w == SwapFront(r, temp)
      <4>1. q = [w EXCEPT !.size = w.size - 1, !.front = increment(w.front)]
        BY <2>2 DEF pop
      <4>2. w = [buffer |-> b, front |-> r.front, end |-> r.end, size |-> r.size]
        BY <3>1
      <4> HIDE DEF w
      <4> QED BY <4>1, <4>2
    <3>3. b \in [Slot -> Item \cup {Junk}] /\ \A s \in Slot : s # r.front => b[s] = r.buffer[s]
      BY <1>1 DEF b
    <3> QED BY <3>2, <3>3
  <2> QED BY <2>1, <2>2
<1>3. increment(r.front) \in Slot
  BY <1>1, BufferSizeAssumption DEF Slot, increment
<1>4. \A i \in 0 .. buffer_size - 1 : i < r.size - 1 =>
        /\ Wrap(increment(r.front) + i) = Wrap(r.front + (i + 1))
        /\ b[Wrap(increment(r.front) + i)] = r.buffer[Wrap(r.front + (i + 1))]
        /\ b[Wrap(increment(r.front) + i)] \in Item
  <2> SUFFICES ASSUME NEW i \in 0 .. buffer_size - 1, i < r.size - 1
               PROVE  /\ Wrap(increment(r.front) + i) = Wrap(r.front + (i + 1))
                      /\ b[Wrap(increment(r.front) + i)] = r.buffer[Wrap(r.front + (i + 1))]
                      /\ b[Wrap(increment(r.front) + i)] \in Item
    OBVIOUS
  <2>1. i + 1 \in 0 .. buffer_size - 1 /\ i + 1 < r.size /\ 0 \in 0 .. buffer_size - 1
    BY <1>1, BufferSizeAssumption
  <2>2. Wrap(increment(r.front) + i) = Wrap(r.front + (i + 1))
    BY <1>1, BufferSizeAssumption DEF Slot, Wrap, increment
  <2>3. Wrap(r.front + (i + 1)) \in Slot /\ Wrap(r.front + (i + 1)) # r.front
    BY <1>1, <2>1, BufferSizeAssumption DEF Slot, Wrap
  <2>4. r.buffer[Wrap(r.front + (i + 1))] \in Item
    BY <2>1, RingParts
  <2> QED BY <1>2, <2>2, <2>3, <2>4
<1>5. q \in RingType
  BY <1>1, <1>2, <1>3, BufferSizeAssumption DEF RingType
<1>6. r.end = Wrap(increment(r.front) + (r.size - 1))
  BY <1>1, WrapIncrement
<1>7. RingOK(q)
  BY <1>2, <1>4, <1>5, <1>6 DEF RingOK
<1>8. /\ Contents(r) \in Seq(Item) /\ Len(Contents(r)) = r.size
      /\ \A i \in 1 .. r.size : Contents(r)[i] = r.buffer[Wrap(r.front + i - 1)]
  BY ContentsIsSeq
<1>9. /\ Contents(r) # <<>>
      /\ front(r) = Head(Contents(r))
      /\ front(r) \in Item
  <2>1. 1 \in 1 .. r.size /\ r.front + 1 - 1 = r.front
    BY <1>1, BufferSizeAssumption DEF Slot
  <2>2. Contents(r)[1] = r.buffer[r.front]
    BY <1>1, <1>8, <2>1, BufferSizeAssumption DEF Slot, Wrap
  <2> QED BY <1>8, <2>1, <2>2 DEF front
<1>10. Contents(q) = Tail(Contents(r))
  <2>1. /\ Contents(q) \in Seq(Item) /\ Len(Contents(q)) = r.size - 1
        /\ \A i \in 1 .. r.size - 1 : Contents(q)[i] = b[Wrap(increment(r.front) + i - 1)]
    BY <1>2, <1>7, ContentsIsSeq
  <2>2. /\ Tail(Contents(r)) \in Seq(Item) /\ Len(Tail(Contents(r))) = r.size - 1
        /\ \A i \in 1 .. r.size - 1 : Tail(Contents(r))[i] = Contents(r)[i + 1]
    BY <1>8, <1>9
  <2>3. ASSUME NEW i \in 1 .. r.size - 1 PROVE Contents(q)[i] = Contents(r)[i + 1]
    <3>1. /\ i - 1 \in 0 .. buffer_size - 1 /\ i - 1 < r.size - 1 /\ i + 1 \in 1 .. r.size
          /\ increment(r.front) + i - 1 = increment(r.front) + (i - 1)
          /\ r.front + (i + 1) - 1 = r.front + ((i - 1) + 1)
      BY <1>1, <1>3, BufferSizeAssumption DEF Slot
    <3> QED BY <3>1, <1>4, <1>8, <2>1
  <2> QED BY <2>1, <2>2, <2>3
<1> QED BY <1>2, <1>7, <1>9, <1>10
=============================================================================
