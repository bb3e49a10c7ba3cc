------------------------ MODULE ChannelClientsProofs ------------------------
(* What holds of the clients of two channels, for every number of values and
   every size of the channels. *)
EXTENDS ChannelClients, FiniteSetTheorems, FunctionTheorems, SequenceTheorems, TLAPS

(* The constants' parts that the proofs use. *)
LEMMA Constants ==
  /\ a \in Chan /\ b \in Chan /\ a # b /\ (\A c \in Chan : c = a \/ c = b)
  /\ sender \in Sender /\ relay \in Sender /\ sender # relay
  /\ (\A t \in Sender : t = sender \/ t = relay)
  /\ relay \in Receiver /\ ranger \in Receiver /\ selector \in Receiver
  /\ relay # ranger /\ relay # selector /\ ranger # selector
  /\ (\A t \in Receiver : t \in {relay, ranger, selector})
  /\ buffer_size \in Nat /\ buffer_size > 0 /\ NumValues \in Nat /\ Item = 1 .. NumValues
  /\ Default \notin Item /\ Null \notin Item \cup {Default}
BY ClientsAssumption, ChannelsAssumption

(* The values a channel may hold: a relay sends on T{} when it received it. *)
Value == Item \cup {Default}

ChanOK ==
  /\ queue \in [Chan -> Seq(Value)]
  /\ \A c \in Chan : Len(queue[c]) <= buffer_size
  /\ queue[a] \in Seq(Item)
  /\ is_closed \in [Chan -> BOOLEAN]
  /\ insertion \in [Sender -> Insertion \cup {NoInsertion}]
  /\ insertion[sender] # NoInsertion => insertion[sender].chan = a /\ insertion[sender].value \in Item
  /\ insertion[relay] # NoInsertion => insertion[relay].chan = b
  /\ ret \in [Chan -> [Receiver -> Value \cup {Null}]]

ClientOK ==
  /\ next \in 1 .. NumValues + 1
  /\ relaying \in BOOLEAN
  /\ relaying => ret[a][relay] # Null
  /\ loop \in {"fetch", "test", "over"}
  /\ loop = "test" => ret[a][ranger] \in Item \/ (is_closed[a] /\ ret[a][ranger] = Default)
  /\ body \in Seq(Item)
  /\ handled \in [Chan -> Seq(Item)]

-----------------------------------------------------------------------------
(* What the operations on a channel do. *)

(* An answer is the receiver's only. *)
LEMMA AnswerFacts ==
  ASSUME ChanOK, NEW c \in Chan, NEW t \in Receiver, NEW v \in Value \cup {Null},
         Answer(c, t, v)
  PROVE  /\ ret' \in [Chan -> [Receiver -> Value \cup {Null}]]
         /\ ret'[c][t] = v
         /\ \A d \in Chan, u \in Receiver : d # c \/ u # t => ret'[d][u] = ret[d][u]
         /\ \A d \in Chan : d # c => ret'[d] = ret[d]
         /\ ret'[c] = [ret[c] EXCEPT ![t] = v]
<1>1. /\ ret' = [ret EXCEPT ![c] = [ret[c] EXCEPT ![t] = v]]
      /\ ret \in [Chan -> [Receiver -> Value \cup {Null}]]
      /\ ret[c] \in [Receiver -> Value \cup {Null}]
  BY DEF Answer, ChanOK
<1> DEFINE f == [ret[c] EXCEPT ![t] = v]
<1>2. /\ f \in [Receiver -> Value \cup {Null}] /\ f[t] = v
      /\ \A u \in Receiver : u # t => f[u] = ret[c][u]
  BY <1>1
<1> HIDE DEF f
<1>3. ret' \in [Chan -> [Receiver -> Value \cup {Null}]] /\ ret'[c] = f
      /\ \A d \in Chan : d # c => ret'[d] = ret[d]
  BY <1>1, <1>2 DEF f
<1> QED BY <1>2, <1>3 DEF f

(* Taking the front. *)
LEMMA TakeFrontFacts ==
  ASSUME ChanOK, NEW c \in Chan, NEW t \in Receiver, TakeFront(c, t)
  PROVE  /\ ChanOK'
         /\ queue[c] # <<>> /\ Head(queue[c]) \in Value /\ (c = a => Head(queue[c]) \in Item)
         /\ queue'[c] = Tail(queue[c])
         /\ \A d \in Chan : d # c => queue'[d] = queue[d]
         /\ ret'[c][t] = Head(queue[c])
         /\ \A d \in Chan, u \in Receiver : d # c \/ u # t => ret'[d][u] = ret[d][u]
         /\ \A d \in Chan : d # c => ret'[d] = ret[d]
         /\ ret'[c] = [ret[c] EXCEPT ![t] = Head(queue[c])]
         /\ is_closed' = is_closed /\ insertion' = insertion
<1>1. /\ queue[c] # <<>> /\ queue[c] \in Seq(Value) /\ Len(queue[c]) <= buffer_size
      /\ queue' = [queue EXCEPT ![c] = Tail(queue[c])] /\ queue \in [Chan -> Seq(Value)]
      /\ is_closed' = is_closed /\ insertion' = insertion
      /\ Answer(c, t, Head(queue[c]))
  BY DEF ChanOK, TakeFront, Empty
<1>2. Head(queue[c]) \in Value /\ (c = a => Head(queue[c]) \in Item)
  <2>1. Head(queue[c]) \in Value
    BY <1>1
  <2>2. c = a => Head(queue[c]) \in Item
    BY <1>1 DEF ChanOK
  <2> QED BY <2>1, <2>2
<1>3. /\ Tail(queue[c]) \in Seq(Value) /\ Len(Tail(queue[c])) <= buffer_size
      /\ c = a => Tail(queue[c]) \in Seq(Item)
  <2>1. Tail(queue[c]) \in Seq(Value) /\ Len(Tail(queue[c])) <= buffer_size
    BY <1>1, Constants
  <2>2. c = a => Tail(queue[c]) \in Seq(Item)
    BY <1>1 DEF ChanOK
  <2> QED BY <2>1, <2>2
<1>4. /\ queue' \in [Chan -> Seq(Value)] /\ queue'[c] = Tail(queue[c])
      /\ \A d \in Chan : d # c => queue'[d] = queue[d]
  BY <1>1, <1>3
<1>5. /\ ret' \in [Chan -> [Receiver -> Value \cup {Null}]]
      /\ ret'[c][t] = Head(queue[c])
      /\ \A d \in Chan, u \in Receiver : d # c \/ u # t => ret'[d][u] = ret[d][u]
      /\ \A d \in Chan : d # c => ret'[d] = ret[d]
      /\ ret'[c] = [ret[c] EXCEPT ![t] = Head(queue[c])]
  <2>1. Head(queue[c]) \in Value \cup {Null}
    BY <1>2
  <2> QED BY <1>1, <2>1, AnswerFacts
<1>6. (\A d \in Chan : Len(queue'[d]) <= buffer_size) /\ queue'[a] \in Seq(Item)
  BY <1>3, <1>4, Constants DEF ChanOK
<1>7. ChanOK'
  BY <1>1, <1>4, <1>5, <1>6 DEF ChanOK
<1> QED BY <1>1, <1>2, <1>4, <1>5, <1>7

(* An answer that takes nothing. *)
LEMMA AnswerOnlyFacts ==
  ASSUME ChanOK, NEW c \in Chan, NEW t \in Receiver, NEW v \in Value \cup {Null},
         Answer(c, t, v), queue' = queue, is_closed' = is_closed, insertion' = insertion
  PROVE  /\ ChanOK'
         /\ ret'[c][t] = v
         /\ \A d \in Chan, u \in Receiver : d # c \/ u # t => ret'[d][u] = ret[d][u]
         /\ \A d \in Chan : d # c => ret'[d] = ret[d]
         /\ ret'[c] = [ret[c] EXCEPT ![t] = v]
<1>1. /\ ret' \in [Chan -> [Receiver -> Value \cup {Null}]]
      /\ ret'[c][t] = v
      /\ \A d \in Chan, u \in Receiver : d # c \/ u # t => ret'[d][u] = ret[d][u]
      /\ \A d \in Chan : d # c => ret'[d] = ret[d]
      /\ ret'[c] = [ret[c] EXCEPT ![t] = v]
  BY AnswerFacts
<1>2. queue' = queue /\ is_closed' = is_closed /\ insertion' = insertion
  OBVIOUS
<1>3. ChanOK'
  BY <1>1, <1>2 DEF ChanOK
<1> QED BY <1>1, <1>3

(* An insertion that begins or ends. *)
LEMMA InsertFacts ==
  ASSUME ChanOK, NEW t \in Sender, NEW i \in Insertion \cup {NoInsertion},
         i # NoInsertion => IF t = sender THEN i.chan = a /\ i.value \in Item ELSE i.chan = b,
         insertion' = [insertion EXCEPT ![t] = i]
  PROVE  /\ insertion' \in [Sender -> Insertion \cup {NoInsertion}]
         /\ insertion'[t] = i /\ \A u \in Sender : u # t => insertion'[u] = insertion[u]
         /\ insertion'[sender] # NoInsertion
              => insertion'[sender].chan = a /\ insertion'[sender].value \in Item
         /\ insertion'[relay] # NoInsertion => insertion'[relay].chan = b
<1>1. /\ insertion' \in [Sender -> Insertion \cup {NoInsertion}]
      /\ insertion'[t] = i /\ \A u \in Sender : u # t => insertion'[u] = insertion[u]
  BY DEF ChanOK
<1> QED BY <1>1, Constants DEF ChanOK

(* An insert that is not over is about a channel and a value. *)
LEMMA Inserting ==
  ASSUME ChanOK, NEW t \in Sender, insertion[t] # NoInsertion
  PROVE  /\ insertion[t] \in Insertion
         /\ insertion[t].chan = (IF t = sender THEN a ELSE b)
         /\ insertion[t].chan \in Chan /\ insertion[t].value \in Value
         /\ t = sender => insertion[t].value \in Item
<1>1. insertion[t] \in Insertion
  BY DEF ChanOK
<1>2. insertion[t].chan \in Chan /\ insertion[t].value \in Value
  BY <1>1 DEF Insertion, Value
<1> QED BY <1>1, <1>2, Constants DEF ChanOK

(* The end of an insert that pushes. *)
LEMMA PushFacts ==
  ASSUME ChanOK, NEW t \in Sender, insertion[t] # NoInsertion,
         Push(t), UNCHANGED <<is_closed, ret>>
  PROVE  /\ ChanOK'
         /\ Len(queue[insertion[t].chan]) < buffer_size
         /\ queue'[insertion[t].chan] = Append(queue[insertion[t].chan], insertion[t].value)
         /\ \A d \in Chan : d # insertion[t].chan => queue'[d] = queue[d]
         /\ insertion'[t] = NoInsertion
         /\ \A u \in Sender : u # t => insertion'[u] = insertion[u]
<1> DEFINE c == insertion[t].chan
<1> DEFINE v == insertion[t].value
<1>1. c \in Chan /\ v \in Value /\ (c = a => v \in Item)
  BY Inserting, Constants
<1>2. /\ Len(queue[c]) # buffer_size
      /\ queue' = [queue EXCEPT ![c] = Append(queue[c], v)]
      /\ insertion' = [insertion EXCEPT ![t] = NoInsertion]
      /\ is_closed' = is_closed /\ ret' = ret
  BY DEF Push, Full
<1> HIDE DEF c, v
<1>3. /\ queue \in [Chan -> Seq(Value)] /\ queue[c] \in Seq(Value)
      /\ Len(queue[c]) <= buffer_size /\ (c = a => queue[c] \in Seq(Item))
  BY <1>1 DEF ChanOK
<1>4. Len(queue[c]) < buffer_size
  BY <1>2, <1>3, Constants
<1>5. /\ Append(queue[c], v) \in Seq(Value)
      /\ Len(Append(queue[c], v)) = Len(queue[c]) + 1
  BY <1>1, <1>3
<1>6. c = a => Append(queue[c], v) \in Seq(Item)
  BY <1>1, <1>3
<1>7. /\ queue' \in [Chan -> Seq(Value)] /\ queue'[c] = Append(queue[c], v)
      /\ \A d \in Chan : d # c => queue'[d] = queue[d]
  BY <1>1, <1>2, <1>3, <1>5
<1>8. \A d \in Chan : Len(queue'[d]) <= buffer_size
  <2>1. Len(queue'[c]) <= buffer_size
    BY <1>3, <1>4, <1>5, <1>7, Constants
  <2> QED BY <2>1, <1>7 DEF ChanOK
<1>9. queue'[a] \in Seq(Item)
  BY <1>6, <1>7, Constants DEF ChanOK
<1>10. /\ insertion' \in [Sender -> Insertion \cup {NoInsertion}]
       /\ insertion'[t] = NoInsertion /\ \A u \in Sender : u # t => insertion'[u] = insertion[u]
       /\ insertion'[sender] # NoInsertion
              => insertion'[sender].chan = a /\ insertion'[sender].value \in Item
       /\ insertion'[relay] # NoInsertion => insertion'[relay].chan = b
  BY <1>2, InsertFacts
<1>11. ChanOK'
  BY <1>2, <1>7, <1>8, <1>9, <1>10 DEF ChanOK
<1> QED BY <1>4, <1>7, <1>10, <1>11 DEF c, v

(* The end of an insert that discards. *)
LEMMA DiscardFacts ==
  ASSUME ChanOK, NEW t \in Sender, insertion[t] # NoInsertion,
         Discard(t), UNCHANGED <<is_closed, ret>>
  PROVE  /\ ChanOK'
         /\ is_closed[insertion[t].chan] /\ queue' = queue
         /\ insertion'[t] = NoInsertion
         /\ \A u \in Sender : u # t => insertion'[u] = insertion[u]
<1>1. /\ insertion' = [insertion EXCEPT ![t] = NoInsertion]
      /\ is_closed' = is_closed /\ ret' = ret /\ queue' = queue
      /\ is_closed[insertion[t].chan]
  BY DEF Discard
<1>2. /\ insertion' \in [Sender -> Insertion \cup {NoInsertion}]
      /\ insertion'[t] = NoInsertion /\ \A u \in Sender : u # t => insertion'[u] = insertion[u]
      /\ insertion'[sender] # NoInsertion
              => insertion'[sender].chan = a /\ insertion'[sender].value \in Item
      /\ insertion'[relay] # NoInsertion => insertion'[relay].chan = b
  BY <1>1, InsertFacts
<1>3. ChanOK'
  BY <1>1, <1>2 DEF ChanOK
<1> QED BY <1>1, <1>2, <1>3

(* A step of an insert that is under way pushes, discards or begins to wait. *)
Kept(i, t) == (* everybody's insertion but t's, and t's chan and value *)
  /\ i[t] # NoInsertion /\ i[t].value = insertion[t].value
  /\ \A u \in Sender : u # t => i[u] = insertion[u]

LEMMA InsertSteps ==
  ASSUME ChanOK, NEW t \in Sender, insert_locked(t) \/ insert_woken(t)
  PROVE  /\ ChanOK' /\ insertion[t] # NoInsertion /\ UNCHANGED <<is_closed, ret>>
         /\ Push(t) \/ Discard(t) \/ (queue' = queue /\ Kept(insertion', t))
<1>1. insertion[t] # NoInsertion /\ UNCHANGED <<is_closed, ret>>
  BY DEF insert_locked, insert_woken, NoInsertion
<1>2. CASE Push(t)
  BY <1>1, <1>2, PushFacts
<1>3. CASE Discard(t)
  BY <1>1, <1>3, DiscardFacts
<1>4. CASE insertion' = [insertion EXCEPT ![t].at = "waits"] /\ queue' = queue
  <2> DEFINE i == [insertion[t] EXCEPT !.at = "waits"]
  <2>1. /\ insertion[t] \in Insertion /\ insertion[t].chan = (IF t = sender THEN a ELSE b)
        /\ t = sender => insertion[t].value \in Item
    BY <1>1, Inserting
  <2>2. /\ i \in Insertion /\ i.value = insertion[t].value /\ i.chan = insertion[t].chan
        /\ i # NoInsertion
    <3>1. i = [at |-> "waits", chan |-> insertion[t].chan, value |-> insertion[t].value]
      BY <2>1 DEF Insertion
    <3>2. i \in Insertion /\ i.value = insertion[t].value /\ i.chan = insertion[t].chan
      BY <2>1, <3>1 DEF Insertion
    <3>3. i.at = "waits" /\ NoInsertion.at = "none"
      BY <3>1 DEF NoInsertion
    <3>4. i # NoInsertion
      BY <3>3
    <3> QED BY <3>2, <3>4
  <2>3. insertion' = [insertion EXCEPT ![t] = i]
    BY <1>4
  <2> HIDE DEF i
  <2>4. i # NoInsertion => IF t = sender THEN i.chan = a /\ i.value \in Item ELSE i.chan = b
    BY <2>1, <2>2
  <2>5. /\ insertion' \in [Sender -> Insertion \cup {NoInsertion}]
        /\ insertion'[t] = i /\ \A u \in Sender : u # t => insertion'[u] = insertion[u]
        /\ insertion'[sender] # NoInsertion
              => insertion'[sender].chan = a /\ insertion'[sender].value \in Item
        /\ insertion'[relay] # NoInsertion => insertion'[relay].chan = b
    BY <2>2, <2>3, <2>4, InsertFacts
  <2>6. ChanOK'
    BY <1>1, <1>4, <2>5 DEF ChanOK
  <2> QED BY <1>1, <1>4, <2>2, <2>5, <2>6 DEF Kept
<1> QED BY <1>1, <1>2, <1>3, <1>4 DEF insert_locked, insert_woken

-----------------------------------------------------------------------------
(* select: what is true while one goes on, and when it is over. *)

SelOK ==
  /\ left \subseteq Case /\ at \in Chan \cup {"none"} /\ given \in BOOLEAN
  /\ ran \subseteq Case \cup {"default"}
  /\ watch = [held |-> watch.held, shut |-> watch.shut]
  /\ watch.held \subseteq Chan /\ watch.shut \subseteq Chan
  /\ \A c \in watch.shut : is_closed[c]

(* While a select goes on, a channel that has held a value ever since it began
   is yet to be tried, or about to be, and one that was closed then is yet to
   be tried: the first such channel to be tried ends the select. *)
GoesOn ==
  /\ ran \subseteq {SendCase} /\ (SendCase \in ran <=> SendCase \notin left)
  /\ watch.held \subseteq left \cup {at} /\ watch.shut \subseteq left

SelInv == SelOK /\ (Selecting => GoesOn) /\ SelectMissesNothing

LEMMA SelectConstants ==
  /\ SendCase \notin Chan /\ SendCase \notin {"none", "default"}
  /\ "none" \notin Chan /\ "default" \notin Chan
BY SelectAssumption

(* What Watched does. *)
LEMMA WatchedFacts ==
  ASSUME SelOK, Watched, \A c \in Chan : is_closed[c] => is_closed'[c]
  PROVE  /\ watch' = [held |-> watch'.held, shut |-> watch'.shut]
         /\ watch'.held = {c \in watch.held : queue'[c] # <<>>}
         /\ watch'.shut = watch.shut
         /\ \A c \in watch'.shut : is_closed'[c]
<1> DEFINE h == {c \in watch.held : queue'[c] # <<>>}
<1>1. watch = [held |-> watch.held, shut |-> watch.shut]
  BY DEF SelOK
<1>2. watch' = [watch EXCEPT !.held = h]
  BY DEF Watched
<1> HIDE DEF h
<1>3. watch' = [held |-> h, shut |-> watch.shut]
  BY <1>1, <1>2
<1>4. watch'.held = h /\ watch'.shut = watch.shut
  BY <1>3
<1> QED BY <1>3, <1>4 DEF SelOK, h

(* Other threads' steps. *)
LEMMA SelectUnchanged ==
  ASSUME SelInv, UNCHANGED selectVars, Watched, \A c \in Chan : is_closed[c] => is_closed'[c]
  PROVE  SelInv'
<1>1. /\ watch' = [held |-> watch'.held, shut |-> watch'.shut]
      /\ watch'.held \subseteq watch.held /\ watch'.shut = watch.shut
      /\ \A c \in watch'.shut : is_closed'[c]
  BY WatchedFacts DEF SelInv
<1>2. left' = left /\ at' = at /\ given' = given /\ ran' = ran
  BY DEF selectVars
<1>3. SelOK'
  BY <1>1, <1>2 DEF SelInv, SelOK, Case
<1>4. Selecting' => GoesOn'
  BY <1>1, <1>2 DEF SelInv, Selecting, GoesOn
<1>5. SelectMissesNothing'
  <2>1. SUFFICES ASSUME ~Selecting, ran # {},
                        ~\E c \in Chan : ran \cap (Chan \cup {"default"}) = {c}
                 PROVE  watch' = [held |-> {}, shut |-> {}]
    BY <1>2 DEF SelInv, SelectMissesNothing, Selecting
  <2>2. watch = [held |-> {}, shut |-> {}]
    BY <2>1 DEF SelInv, SelectMissesNothing
  <2>3. watch.held = {} /\ watch.shut = {}
    BY <2>2
  <2>4. watch'.held = {} /\ watch'.shut = {}
    BY <1>1, <2>3
  <2> QED BY <1>1, <2>4
<1> QED BY <1>3, <1>4, <1>5 DEF SelInv

LEMMA SelectBeginsInv ==
  ASSUME ChanOK, SelInv, SelectBegins
  PROVE  SelInv' /\ UNCHANGED chanVars
<1>1. /\ left' = Case /\ at' = "none" /\ given' \in BOOLEAN /\ ran' = {}
      /\ UNCHANGED chanVars
  BY DEF SelectBegins, Selecting, SelInv, SelOK
<1>2. /\ watch' = [held |-> {c \in Chan : ~Empty(c)}, shut |-> {c \in Chan : is_closed[c]}]
      /\ is_closed' = is_closed
  BY DEF SelectBegins, chanVars
<1> DEFINE h == {c \in Chan : ~Empty(c)}
<1> DEFINE s == {c \in Chan : is_closed[c]}
<1>3. h \subseteq Chan /\ s \subseteq Chan /\ \A c \in s : is_closed'[c]
  BY <1>2
<1>4. watch' = [held |-> h, shut |-> s]
  BY <1>2
<1> HIDE DEF h, s
<1>5. watch'.held = h /\ watch'.shut = s
  BY <1>4
<1>6. SelOK'
  BY <1>1, <1>3, <1>4, <1>5 DEF SelOK, Case
<1>7. GoesOn' /\ Selecting'
  BY <1>1, <1>3, <1>5 DEF GoesOn, Case, Selecting
<1> QED BY <1>1, <1>6, <1>7 DEF SelInv, SelectMissesNothing

(* A case that executes a receive ends the select, and is the one that did. *)
LEMMA ExecutedInv ==
  ASSUME SelInv, Selecting, NEW c \in Chan, Executed(c), at' = "none", given' = given,
         Watched, is_closed' = is_closed
  PROVE  SelInv'
<1>1. /\ watch' = [held |-> watch'.held, shut |-> watch'.shut]
      /\ watch'.held \subseteq watch.held /\ watch'.shut = watch.shut
      /\ \A d \in watch'.shut : is_closed'[d]
  BY WatchedFacts DEF SelInv
<1>2. left' = {} /\ ran' = ran \cup {c} /\ ran \subseteq {SendCase}
  BY DEF SelInv, GoesOn, Executed
<1>3. SelOK'
  BY <1>1, <1>2 DEF SelInv, SelOK, Case
<1>4. ~Selecting'
  BY <1>2 DEF Selecting
<1>5. ran' \cap (Chan \cup {"default"}) = {c}
  BY <1>2, SelectConstants
<1> QED BY <1>3, <1>4, <1>5 DEF SelInv, SelectMissesNothing

(* A case that was not executed leaves the rest to go on with, or, when it was
   the last, the default to be run. *)
LEMMA GoOnInv ==
  ASSUME SelInv, Selecting, NEW called, NEW rest, GoOn(called, rest),
         rest \subseteq Case, called \subseteq {SendCase}, SendCase \in called <=> SendCase \notin rest,
         at' = "none", given' = given, Watched, is_closed' = is_closed,
         watch'.held \subseteq rest, watch.shut \subseteq rest
  PROVE  SelInv'
<1>1. /\ watch' = [held |-> watch'.held, shut |-> watch'.shut]
      /\ watch'.held \subseteq watch.held /\ watch'.shut = watch.shut
      /\ \A d \in watch'.shut : is_closed'[d]
  BY WatchedFacts DEF SelInv
<1>2. left' = rest /\ ran' = called \cup (IF rest = {} /\ given THEN {"default"} ELSE {})
  BY DEF GoOn
<1>3. SelOK'
  BY <1>1, <1>2 DEF SelInv, SelOK, Case
<1>4. CASE rest # {}
  <2>1. ran' = called
    BY <1>2, <1>4
  <2>2. GoesOn' /\ Selecting'
    BY <1>1, <1>2, <1>4, <2>1 DEF GoesOn, Selecting
  <2> QED BY <1>3, <2>2 DEF SelInv, SelectMissesNothing
<1>5. CASE rest = {}
  <2>1. ~Selecting'
    BY <1>2, <1>5 DEF Selecting
  <2>2. called = {SendCase}
    BY <1>5
  <2>3. ran' = IF given' THEN {SendCase, "default"} ELSE {SendCase}
    BY <1>2, <1>5, <2>2
  <2>4. watch'.held = {} /\ watch'.shut = {}
    BY <1>1, <1>5
  <2>5. watch' = [held |-> {}, shut |-> {}]
    BY <1>1, <2>4
  <2> QED BY <1>3, <2>1, <2>3, <2>5 DEF SelInv, SelectMissesNothing
<1> QED BY <1>4, <1>5

LEMMA RunSendCaseInv ==
  ASSUME ChanOK, SelInv, RunSendCase, Watched
  PROVE  SelInv' /\ UNCHANGED chanVars
<1>1. /\ at = "none" /\ at' = "none" /\ SendCase \in left /\ given' = given
      /\ UNCHANGED chanVars /\ is_closed' = is_closed
      /\ GoOn(ran \cup {SendCase}, left \ {SendCase})
  BY DEF RunSendCase, chanVars
<1>2. Selecting /\ GoesOn
  BY <1>1 DEF Selecting, SelInv
<1>3. watch'.held \subseteq watch.held
  BY <1>1, WatchedFacts DEF SelInv
<1>4. /\ left \ {SendCase} \subseteq Case /\ ran \cup {SendCase} \subseteq {SendCase}
      /\ watch'.held \subseteq left \ {SendCase} /\ watch.shut \subseteq left \ {SendCase}
  BY <1>1, <1>2, <1>3, SelectConstants DEF SelInv, SelOK, GoesOn
<1>5. SendCase \in ran \cup {SendCase} <=> SendCase \notin left \ {SendCase}
  OBVIOUS
<1> QED BY <1>1, <1>2, <1>4, <1>5, GoOnInv

LEMMA TryCaseInv ==
  ASSUME ChanOK, SelInv, NEW c \in Chan, TryCase(c), Watched
  PROVE  SelInv'
<1>1. at = "none" /\ c \in left /\ is_closed' = is_closed
  BY DEF TryCase, AnswerDefault, chanVars
<1>2. Selecting /\ GoesOn
  BY <1>1 DEF Selecting, SelInv
<1>3. CASE is_closed[c]
  <2>1. Executed(c) /\ at' = "none" /\ given' = given
    BY <1>1, <1>3 DEF TryCase
  <2> QED BY <1>1, <1>2, <2>1, ExecutedInv
<1>4. CASE ~is_closed[c]
  <2>1. left' = left \ {c} /\ at' = c /\ given' = given /\ ran' = ran
    BY <1>4 DEF TryCase
  <2>2. /\ watch' = [held |-> watch'.held, shut |-> watch'.shut]
        /\ watch'.held \subseteq watch.held /\ watch'.shut = watch.shut
        /\ \A d \in watch'.shut : is_closed'[d]
    BY <1>1, WatchedFacts DEF SelInv
  <2>3. c \notin watch.shut
    BY <1>4 DEF SelInv, SelOK
  <2>4. SelOK'
    BY <2>1, <2>2 DEF SelInv, SelOK, Case
  <2>5. Selecting'
    BY <2>1, SelectConstants DEF Selecting
  <2>6. GoesOn'
    BY <1>1, <1>2, <2>1, <2>2, <2>3, SelectConstants DEF GoesOn, SelInv, SelOK
  <2> QED BY <2>4, <2>5, <2>6 DEF SelInv, SelectMissesNothing
<1> QED BY <1>3, <1>4

(* What try_get_next does in the lock. *)
LEMMA TryLockedFacts ==
  ASSUME ChanOK, NEW c \in Chan, TryLocked(c)
  PROVE  /\ ChanOK' /\ is_closed' = is_closed /\ insertion' = insertion
         /\ at = c /\ at' = "none" /\ given' = given
         /\ \/ /\ TakeFront(c, selector) /\ Executed(c)
            \/ /\ queue[c] = <<>> /\ queue' = queue
               /\ Answer(c, selector, Null) /\ ret'[c][selector] = Null
               /\ GoOn(ran, left)
<1>1. at = c /\ at' = "none" /\ given' = given /\ selector \in Receiver
  BY Constants DEF TryLocked
<1>2. CASE TakeFront(c, selector)
  <2>1. /\ ChanOK' /\ Head(queue[c]) \in Value /\ ret'[c][selector] = Head(queue[c])
        /\ is_closed' = is_closed /\ insertion' = insertion
    BY <1>1, <1>2, TakeFrontFacts
  <2>2. ret'[c][selector] # Null
    BY <2>1, Constants DEF Value
  <2>3. Executed(c)
    BY <2>2 DEF TryLocked
  <2> QED BY <1>1, <1>2, <2>1, <2>3
<1>3. CASE Empty(c) /\ Answer(c, selector, Null) /\ UNCHANGED <<queue, is_closed, insertion>>
  <2>1. queue[c] = <<>> /\ queue' = queue /\ is_closed' = is_closed /\ insertion' = insertion
    BY <1>3 DEF Empty
  <2>2. ChanOK' /\ ret'[c][selector] = Null
    <3>1. queue' = queue /\ is_closed' = is_closed /\ insertion' = insertion
      BY <2>1
    <3>2. ret'[c][selector] = Null
      BY <1>1, <1>3 DEF Answer, ChanOK
    <3>3. ChanOK'
      BY <1>1, <1>3, <3>1, AnswerOnlyFacts
    <3> QED BY <3>2, <3>3
  <2>3. GoOn(ran, left)
    BY <2>2 DEF TryLocked
  <2> QED BY <1>1, <1>3, <2>1, <2>2, <2>3
<1> QED BY <1>2, <1>3 DEF TryLocked, try_get_next_locked

LEMMA TryLockedInv ==
  ASSUME ChanOK, SelInv, NEW c \in Chan, TryLocked(c), Watched
  PROVE  SelInv'
<1>1. /\ at = c /\ at' = "none" /\ given' = given /\ is_closed' = is_closed
      /\ \/ Executed(c)
         \/ queue[c] = <<>> /\ queue' = queue /\ GoOn(ran, left)
  BY TryLockedFacts
<1>2. Selecting /\ GoesOn
  BY <1>1, SelectConstants DEF Selecting, SelInv
<1>3. CASE Executed(c)
  BY <1>1, <1>2, <1>3, ExecutedInv
<1>4. CASE queue[c] = <<>> /\ queue' = queue /\ GoOn(ran, left)
  <2>1. watch'.held = {d \in watch.held : queue'[d] # <<>>}
    BY <1>1, WatchedFacts DEF SelInv
  <2>2. c \notin watch'.held
    BY <1>4, <2>1
  <2>3. watch'.held \subseteq left /\ watch.shut \subseteq left
    BY <1>1, <1>2, <2>1, <2>2 DEF GoesOn
  <2>4. /\ left \subseteq Case /\ ran \subseteq {SendCase}
        /\ SendCase \in ran <=> SendCase \notin left
    BY <1>2 DEF GoesOn, SelInv, SelOK
  <2> QED BY <1>1, <1>2, <1>4, <2>3, <2>4, GoOnInv
<1> QED BY <1>1, <1>3, <1>4

-----------------------------------------------------------------------------
(* The clients' steps. *)

(* insert reads the flag: the value is swallowed, or in the sender's hand. *)
LEMMA BeginInsert ==
  ASSUME ChanOK, NEW t \in Sender, NEW v \in Value, NEW c \in Chan,
         c = (IF t = sender THEN a ELSE b), t = sender => v \in Item, insert(t, c, v)
  PROVE  /\ ChanOK' /\ queue' = queue /\ is_closed' = is_closed /\ ret' = ret
         /\ insertion[t] = NoInsertion
         /\ \/ is_closed[c] /\ insertion' = insertion
            \/ /\ insertion'[t] # NoInsertion /\ insertion'[t].value = v
               /\ \A u \in Sender : u # t => insertion'[u] = insertion[u]
<1>1. /\ insertion[t] = NoInsertion /\ queue' = queue /\ is_closed' = is_closed /\ ret' = ret
  BY DEF insert
<1>2. CASE is_closed[c]
  <2>1. insertion' = insertion
    BY <1>2 DEF insert
  <2> QED BY <1>1, <1>2, <2>1 DEF ChanOK
<1>3. CASE ~is_closed[c]
  <2> DEFINE i == [at |-> "lock", chan |-> c, value |-> v]
  <2>1. insertion' = [insertion EXCEPT ![t] = i]
    BY <1>3 DEF insert
  <2>2. i \in Insertion /\ i.value = v /\ i.chan = c /\ i # NoInsertion
    <3>1. i \in Insertion /\ i.value = v /\ i.chan = c /\ i.at = "lock"
      BY DEF Insertion, Value
    <3>2. NoInsertion.at = "none"
      BY DEF NoInsertion
    <3> QED BY <3>1, <3>2
  <2> HIDE DEF i
  <2>3. i # NoInsertion => IF t = sender THEN i.chan = a /\ i.value \in Item ELSE i.chan = b
    BY <2>2
  <2>4. /\ insertion' \in [Sender -> Insertion \cup {NoInsertion}]
        /\ insertion'[t] = i /\ \A u \in Sender : u # t => insertion'[u] = insertion[u]
        /\ insertion'[sender] # NoInsertion
              => insertion'[sender].chan = a /\ insertion'[sender].value \in Item
        /\ insertion'[relay] # NoInsertion => insertion'[relay].chan = b
    BY <2>1, <2>2, <2>3, InsertFacts
  <2>5. ChanOK'
    BY <1>1, <2>4 DEF ChanOK
  <2> QED BY <1>1, <2>2, <2>4, <2>5
<1> QED BY <1>2, <1>3

(* get_next answers with the front or, when the channel is closed and empty,
   with T{}. *)
LEMMA GetNextFacts ==
  ASSUME ChanOK, NEW c \in Chan, NEW t \in Receiver, get_next(c, t)
  PROVE  /\ ChanOK' /\ is_closed' = is_closed /\ insertion' = insertion
         /\ ret'[c][t] \in Value
         /\ \A d \in Chan, u \in Receiver : d # c \/ u # t => ret'[d][u] = ret[d][u]
         /\ \/ TakeFront(c, t) /\ ret'[c][t] = Head(queue[c])
            \/ /\ queue' = queue /\ queue[c] = <<>> /\ is_closed[c]
               /\ ret'[c][t] = Default /\ Answer(c, t, Default)
<1>1. CASE TakeFront(c, t)
  BY <1>1, TakeFrontFacts
<1>2. CASE Empty(c) /\ is_closed[c] /\ AnswerDefault(c, t)
  <2>1. /\ queue[c] = <<>> /\ is_closed[c] /\ Answer(c, t, Default)
        /\ queue' = queue /\ is_closed' = is_closed /\ insertion' = insertion
    BY <1>2 DEF Empty, AnswerDefault
  <2>2. Default \in Value /\ Default \in Value \cup {Null}
    BY DEF Value
  <2>3. /\ ChanOK'
        /\ \A d \in Chan, u \in Receiver : d # c \/ u # t => ret'[d][u] = ret[d][u]
    BY <2>1, <2>2, AnswerOnlyFacts
  <2>4. ret'[c][t] = Default
    BY <2>1 DEF Answer, ChanOK
  <2> QED BY <2>1, <2>2, <2>3, <2>4
<1> QED BY <1>1, <1>2 DEF get_next

(* A closed channel stays closed. *)
StayClosed == \A c \in Chan : is_closed[c] => is_closed'[c]

(* The front of a is a value that was sent. *)
LEMMA FetchFacts ==
  ASSUME ChanOK, ClientOK, Fetch
  PROVE  /\ ChanOK' /\ ClientOK' /\ StayClosed
         /\ loop = "fetch" /\ get_next(a, ranger)
<1>1. /\ loop = "fetch" /\ loop' = "test" /\ get_next(a, ranger)
      /\ next' = next /\ relaying' = relaying /\ body' = body /\ handled' = handled
      /\ a \in Chan /\ ranger \in Receiver /\ relay \in Receiver /\ relay # ranger
  BY Constants DEF Fetch
<1>2. /\ ChanOK' /\ is_closed' = is_closed
      /\ \A d \in Chan, u \in Receiver : d # a \/ u # ranger => ret'[d][u] = ret[d][u]
      /\ \/ TakeFront(a, ranger) /\ ret'[a][ranger] = Head(queue[a])
         \/ is_closed[a] /\ ret'[a][ranger] = Default
  BY <1>1, GetNextFacts
<1>3. TakeFront(a, ranger) => Head(queue[a]) \in Item
  BY <1>1, TakeFrontFacts
<1>4. ClientOK'
  BY <1>1, <1>2, <1>3 DEF ClientOK
<1> QED BY <1>1, <1>2, <1>4 DEF StayClosed

LEMMA RelayReceivesFacts ==
  ASSUME ChanOK, ClientOK, RelayReceives
  PROVE  /\ ChanOK' /\ ClientOK' /\ StayClosed
<1>1. /\ relaying' = TRUE /\ get_next(a, relay)
      /\ next' = next /\ loop' = loop /\ body' = body /\ handled' = handled
      /\ a \in Chan /\ ranger \in Receiver /\ relay \in Receiver /\ relay # ranger
  BY Constants DEF RelayReceives
<1>2. /\ ChanOK' /\ is_closed' = is_closed /\ ret'[a][relay] \in Value
      /\ \A d \in Chan, u \in Receiver : d # a \/ u # relay => ret'[d][u] = ret[d][u]
  BY <1>1, GetNextFacts
<1>3. ret'[a][relay] # Null /\ ret'[a][ranger] = ret[a][ranger]
  BY <1>1, <1>2, Constants DEF Value
<1>4. ClientOK'
  BY <1>1, <1>2, <1>3 DEF ClientOK
<1> QED BY <1>2, <1>4 DEF StayClosed

LEMMA SendFacts ==
  ASSUME ChanOK, ClientOK, Send
  PROVE  /\ ChanOK' /\ ClientOK' /\ StayClosed
         /\ next \in Item /\ insert(sender, a, next)
<1>1. /\ next <= NumValues /\ insert(sender, a, next) /\ next' = next + 1
      /\ relaying' = relaying /\ loop' = loop /\ body' = body /\ handled' = handled
  BY DEF Send
<1>2. next \in Item /\ next' \in 1 .. NumValues + 1
  BY <1>1, Constants DEF ClientOK
<1>3. next \in Value /\ a \in Chan /\ sender \in Sender
  BY <1>2, Constants DEF Value
<1>4. ChanOK' /\ is_closed' = is_closed /\ ret' = ret
  <2>1. PICK v \in Value : v = next
    BY <1>3
  <2>2. v \in Item /\ insert(sender, a, v) /\ a = (IF sender = sender THEN a ELSE b)
    BY <1>1, <1>2, <2>1
  <2> QED BY <1>3, <2>2, BeginInsert
<1>5. ClientOK'
  BY <1>1, <1>2, <1>4 DEF ClientOK
<1> QED BY <1>1, <1>2, <1>4, <1>5 DEF StayClosed

LEMMA RelaySendsFacts ==
  ASSUME ChanOK, ClientOK, RelaySends
  PROVE  /\ ChanOK' /\ ClientOK' /\ StayClosed
         /\ ret[a][relay] \in Value
<1>1. /\ relaying /\ insert(relay, b, ret[a][relay]) /\ relaying' = FALSE
      /\ next' = next /\ loop' = loop /\ body' = body /\ handled' = handled
  BY DEF RelaySends
<1>2. ret[a][relay] \in Value /\ b \in Chan /\ relay \in Sender /\ relay # sender
  BY <1>1, Constants DEF ChanOK, ClientOK
<1>3. ChanOK' /\ is_closed' = is_closed /\ ret' = ret
  <2>1. PICK v \in Value : v = ret[a][relay]
    BY <1>2
  <2>2. insert(relay, b, v) /\ b = (IF relay = sender THEN a ELSE b)
    BY <1>1, <1>2, <2>1
  <2> QED BY <1>2, <2>2, BeginInsert
<1>4. ClientOK'
  BY <1>1, <1>3 DEF ClientOK
<1> QED BY <1>2, <1>3, <1>4 DEF StayClosed

LEMMA InsertsFacts ==
  ASSUME ChanOK, ClientOK, Inserts
  PROVE  /\ ChanOK' /\ ClientOK' /\ StayClosed
<1>1. PICK t \in Sender : insert_locked(t) \/ insert_woken(t)
  BY DEF Inserts
<1>2. ChanOK' /\ is_closed' = is_closed /\ ret' = ret
  BY <1>1, InsertSteps
<1>3. UNCHANGED clientVars
  BY DEF Inserts
<1> QED BY <1>2, <1>3 DEF ClientOK, clientVars, StayClosed

LEMMA ClosesFacts ==
  ASSUME ChanOK, ClientOK, Closes
  PROVE  /\ ChanOK' /\ ClientOK' /\ StayClosed
<1>1. PICK c \in Chan : close(c)
  BY DEF Closes
<1>2. /\ is_closed' = [is_closed EXCEPT ![c] = TRUE]
      /\ queue' = queue /\ insertion' = insertion /\ ret' = ret
  BY <1>1 DEF close
<1>3. UNCHANGED clientVars
  BY DEF Closes
<1>4. ChanOK' /\ StayClosed
  BY <1>2 DEF ChanOK, StayClosed
<1>5. ClientOK'
  BY <1>2, <1>3, <1>4, Constants DEF ClientOK, clientVars, StayClosed
<1> QED BY <1>4, <1>5

(* Only an open channel's value reaches the body, and that is never T{}. *)
LEMMA TestFacts ==
  ASSUME ChanOK, ClientOK, Test
  PROVE  /\ ChanOK' /\ ClientOK' /\ StayClosed
         /\ loop = "test"
         /\ \/ is_closed[a] /\ body' = body /\ loop' = "over"
            \/ body' = Append(body, ret[a][ranger]) /\ ret[a][ranger] \in Item /\ loop' = "fetch"
<1>1. /\ loop = "test" /\ UNCHANGED chanVars
      /\ next' = next /\ relaying' = relaying /\ handled' = handled
  BY DEF Test
<1>2. /\ queue' = queue /\ is_closed' = is_closed /\ insertion' = insertion /\ ret' = ret
  BY <1>1 DEF chanVars
<1>3. ChanOK' /\ StayClosed
  BY <1>2 DEF ChanOK, StayClosed
<1>4. CASE is_closed[a]
  BY <1>1, <1>2, <1>3, <1>4 DEF Test, ClientOK
<1>5. CASE ~is_closed[a]
  <2>1. loop' = "fetch" /\ body' = Append(body, ret[a][ranger])
    BY <1>5 DEF Test
  <2>2. ret[a][ranger] \in Item /\ body \in Seq(Item)
    BY <1>1, <1>5 DEF ClientOK
  <2>3. body' \in Seq(Item)
    BY <2>1, <2>2
  <2> QED BY <1>1, <1>2, <1>3, <2>1, <2>2, <2>3 DEF ClientOK
<1> QED BY <1>4, <1>5

(* A step of select takes nothing and hands nothing to a function, or takes the
   front of the channel whose function then gets it. *)
Nothing == queue' = queue /\ handled' = handled
HandsOver(c) ==
  /\ TakeFront(c, selector)
  /\ \A d \in Chan : d # c => handled'[d] = handled[d]
  /\ IF Head(queue[c]) \in Item THEN handled'[c] = Append(handled[c], Head(queue[c]))
                                ELSE handled'[c] = handled[c]

LEMMA HandleNothing ==
  ASSUME ClientOK, Handle, \A c \in Chan : c \notin ran' \ ran \/ ret'[c][selector] \notin Item
  PROVE  handled' = handled
<1>1. handled' = [c \in Chan |-> handled[c]]
  BY DEF Handle
<1>2. handled = [c \in Chan |-> handled[c]]
  BY DEF ClientOK
<1> QED BY <1>1, <1>2

LEMMA SelectorTakes ==
  ASSUME ChanOK, ClientOK, SelInv, NEW c \in Chan, TryLocked(c), Handle
  PROVE  Nothing \/ (HandsOver(c) /\ handled' \in [Chan -> Seq(Item)])
<1>1. /\ at = c /\ selector \in Receiver
      /\ \/ TakeFront(c, selector) /\ Executed(c)
         \/ /\ queue' = queue /\ ret'[c][selector] = Null /\ GoOn(ran, left)
  BY TryLockedFacts, Constants
<1>2. ran \subseteq {SendCase}
  BY <1>1, SelectConstants DEF SelInv, Selecting, GoesOn
<1>3. CASE TakeFront(c, selector) /\ Executed(c)
  <2>1. ret'[c][selector] = Head(queue[c])
    BY <1>1, <1>3, TakeFrontFacts
  <2>2. ran' \ ran = {c}
    BY <1>2, <1>3, SelectConstants DEF Executed
  <2>3. handled' = [d \in Chan |-> IF d = c /\ ret'[c][selector] \in Item
                                   THEN Append(handled[c], ret'[c][selector]) ELSE handled[d]]
    BY <2>2 DEF Handle
  <2>4. handled \in [Chan -> Seq(Item)]
    BY DEF ClientOK
  <2>5. HandsOver(c)
    BY <1>3, <2>1, <2>3 DEF HandsOver
  <2>6. handled' \in [Chan -> Seq(Item)]
    <3>1. \A d \in Chan : handled[d] \in Seq(Item)
      BY <2>4
    <3>2. ret'[c][selector] \in Item => Append(handled[c], ret'[c][selector]) \in Seq(Item)
      BY <3>1
    <3> QED BY <2>3, <3>1, <3>2
  <2> QED BY <2>5, <2>6
<1>4. CASE queue' = queue /\ ret'[c][selector] = Null /\ GoOn(ran, left)
  <2>1. \A d \in Chan : d \notin ran' \ ran
    BY <1>4, SelectConstants DEF GoOn
  <2>2. handled' = handled
    BY <2>1, HandleNothing
  <2> QED BY <1>4, <2>2 DEF Nothing
<1> QED BY <1>1, <1>3, <1>4

LEMMA SelectorFacts ==
  ASSUME ChanOK, ClientOK, SelInv, SelectorGoesOn
  PROVE  /\ ChanOK' /\ ClientOK' /\ is_closed' = is_closed /\ insertion' = insertion
         /\ ret'[a][relay] = ret[a][relay] /\ ret'[a][ranger] = ret[a][ranger]
         /\ Nothing \/ \E c \in Chan : HandsOver(c)
<1>1. /\ SelectGoesOn /\ Handle
      /\ next' = next /\ relaying' = relaying /\ loop' = loop /\ body' = body
  BY DEF SelectorGoesOn
<1>2. /\ a \in Chan /\ selector \in Receiver /\ relay \in Receiver /\ ranger \in Receiver
      /\ relay # selector /\ ranger # selector
  BY Constants
<1>3. SUFFICES /\ ChanOK' /\ is_closed' = is_closed /\ insertion' = insertion
               /\ ret'[a][relay] = ret[a][relay] /\ ret'[a][ranger] = ret[a][ranger]
               /\ handled' \in [Chan -> Seq(Item)]
               /\ Nothing \/ \E c \in Chan : HandsOver(c)
  BY <1>1 DEF ClientOK
<1>4. handled \in [Chan -> Seq(Item)]
  BY DEF ClientOK
<1>5. CASE RunSendCase
  <2>1. queue' = queue /\ is_closed' = is_closed /\ insertion' = insertion /\ ret' = ret
    BY <1>5 DEF RunSendCase, chanVars
  <2>2. \A c \in Chan : c \notin ran' \ ran
    BY <1>5, SelectConstants DEF RunSendCase, GoOn
  <2>3. handled' = handled
    BY <1>1, <2>2, HandleNothing
  <2>4. ChanOK'
    BY <2>1 DEF ChanOK
  <2> QED BY <1>4, <2>1, <2>3, <2>4 DEF Nothing
<1>6. CASE \E c \in Chan : TryCase(c)
  <2>1. PICK c \in Chan : TryCase(c)
    BY <1>6
  <2>2. CASE is_closed[c]
    <3>1. /\ Answer(c, selector, Default) /\ Executed(c)
          /\ queue' = queue /\ is_closed' = is_closed /\ insertion' = insertion
      BY <2>1, <2>2 DEF TryCase, AnswerDefault
    <3>2. Default \in Value \cup {Null}
      BY DEF Value
    <3>3. /\ ChanOK'
          /\ \A d \in Chan, u \in Receiver : d # c \/ u # selector => ret'[d][u] = ret[d][u]
      BY <1>2, <3>1, <3>2, AnswerOnlyFacts
    <3>4. ret'[c][selector] = Default
      BY <1>2, <3>1 DEF Answer, ChanOK
    <3>5. \A d \in Chan : d \notin ran' \ ran \/ ret'[d][selector] \notin Item
      BY <3>1, <3>4, Constants DEF Executed
    <3>6. handled' = handled
      BY <1>1, <3>5, HandleNothing
    <3> QED BY <1>2, <1>4, <3>1, <3>3, <3>6 DEF Nothing
  <2>3. CASE ~is_closed[c]
    <3>1. /\ ran' = ran
          /\ queue' = queue /\ is_closed' = is_closed /\ insertion' = insertion /\ ret' = ret
      BY <2>1, <2>3 DEF TryCase, chanVars
    <3>2. \A d \in Chan : d \notin ran' \ ran
      BY <3>1
    <3>3. handled' = handled
      BY <1>1, <3>2, HandleNothing
    <3>4. ChanOK'
      BY <3>1 DEF ChanOK
    <3> QED BY <1>4, <3>1, <3>3, <3>4 DEF Nothing
  <2> QED BY <2>2, <2>3
<1>7. CASE \E c \in Chan : TryLocked(c)
  <2>1. PICK c \in Chan : TryLocked(c)
    BY <1>7
  <2>2. /\ ChanOK' /\ is_closed' = is_closed /\ insertion' = insertion
        /\ TakeFront(c, selector) \/ Answer(c, selector, Null)
    BY <2>1, TryLockedFacts
  <2>3. Nothing \/ (HandsOver(c) /\ handled' \in [Chan -> Seq(Item)])
    BY <1>1, <2>1, SelectorTakes
  <2>4. handled' \in [Chan -> Seq(Item)]
    BY <1>4, <2>3 DEF Nothing
  <2>5. ret'[a][relay] = ret[a][relay] /\ ret'[a][ranger] = ret[a][ranger]
    BY <1>2, <2>2 DEF TakeFront, Answer, ChanOK
  <2> QED BY <2>2, <2>3, <2>4, <2>5
<1> QED BY <1>1, <1>5, <1>6, <1>7 DEF SelectGoesOn

-----------------------------------------------------------------------------
(* The inductive invariant. *)

Inv == ChanOK /\ ClientOK /\ SelInv

LEMMA InitInv == Init => Inv
<1> SUFFICES ASSUME Init PROVE Inv
  OBVIOUS
<1>1. /\ queue = [c \in Chan |-> <<>>] /\ is_closed = [c \in Chan |-> FALSE]
      /\ insertion = [t \in Sender |-> NoInsertion]
      /\ ret = [c \in Chan |-> [t \in Receiver |-> Null]]
      /\ next = 1 /\ relaying = FALSE /\ loop = "fetch" /\ body = <<>>
      /\ handled = [c \in Chan |-> <<>>]
  BY DEF Init, ChannelsInit
<1>2. /\ left = {} /\ at = "none" /\ given = FALSE /\ ran = {}
      /\ watch = [held |-> {}, shut |-> {}]
  BY DEF Init, SelectInit
<1>3. <<>> \in Seq(Value) /\ <<>> \in Seq(Item) /\ Len(<<>>) = 0
  OBVIOUS
<1>4. ChanOK
  BY <1>1, <1>3, Constants DEF ChanOK
<1>5. ClientOK
  <2>1. next \in 1 .. NumValues + 1
    BY <1>1, Constants
  <2>2. handled \in [Chan -> Seq(Item)] /\ body \in Seq(Item)
    BY <1>1, <1>3
  <2>3. relaying \in BOOLEAN /\ ~relaying /\ loop \in {"fetch", "test", "over"} /\ loop # "test"
    BY <1>1
  <2> QED BY <2>1, <2>2, <2>3 DEF ClientOK
<1>6. SelInv
  BY <1>2 DEF SelInv, SelOK, GoesOn, Selecting, SelectMissesNothing
<1> QED BY <1>4, <1>5, <1>6 DEF Inv

LEMMA InvNext == Inv /\ [Next]_vars => Inv' /\ StayClosed
<1> SUFFICES ASSUME Inv, [Next]_vars PROVE Inv' /\ StayClosed
  OBVIOUS
<1> USE DEF Inv
<1>1. CASE UNCHANGED vars
  <2>1. /\ UNCHANGED chanVars /\ UNCHANGED selectVars /\ UNCHANGED clientVars /\ watch' = watch
    BY <1>1 DEF vars
  <2>2. ChanOK' /\ StayClosed
    BY <2>1 DEF ChanOK, chanVars, StayClosed
  <2>3. ClientOK'
    BY <2>1 DEF ClientOK, clientVars, chanVars
  <2>4. SelInv'
    BY <2>1 DEF SelInv, SelOK, GoesOn, Selecting, SelectMissesNothing, selectVars, chanVars
  <2> QED BY <2>2, <2>3, <2>4
<1>2. CASE SelectorBegins
  <2>1. SelectBegins /\ UNCHANGED clientVars
    BY <1>2 DEF SelectorBegins
  <2>2. SelInv' /\ UNCHANGED chanVars
    BY <2>1, SelectBeginsInv
  <2>3. ChanOK' /\ StayClosed
    BY <2>2 DEF ChanOK, chanVars, StayClosed
  <2>4. ClientOK'
    BY <2>1, <2>2 DEF ClientOK, clientVars, chanVars
  <2> QED BY <2>2, <2>3, <2>4
<1>3. CASE SelectorGoesOn /\ Watched
  <2>1. ChanOK' /\ ClientOK' /\ is_closed' = is_closed
    BY <1>3, SelectorFacts
  <2>2. SelectGoesOn
    BY <1>3 DEF SelectorGoesOn
  <2>3. SelInv'
    <3>1. CASE RunSendCase
      BY <1>3, <3>1, RunSendCaseInv
    <3>2. ASSUME NEW c \in Chan, TryCase(c) PROVE SelInv'
      BY <1>3, <3>2, TryCaseInv
    <3>3. ASSUME NEW c \in Chan, TryLocked(c) PROVE SelInv'
      BY <1>3, <3>3, TryLockedInv
    <3> QED BY <2>2, <3>1, <3>2, <3>3 DEF SelectGoesOn
  <2> QED BY <2>1, <2>3 DEF StayClosed
<1>4. CASE /\ Send \/ Inserts \/ RelayReceives \/ RelaySends \/ Fetch \/ Test \/ Closes
           /\ Watched
  <2>1. UNCHANGED selectVars
    BY <1>4 DEF Send, Inserts, RelayReceives, RelaySends, Fetch, Test, Closes
  <2>2. ChanOK' /\ ClientOK' /\ StayClosed
    BY <1>4, SendFacts, InsertsFacts, RelayReceivesFacts, RelaySendsFacts, FetchFacts,
       TestFacts, ClosesFacts
  <2>3. SelInv'
    BY <1>4, <2>1, <2>2, SelectUnchanged DEF StayClosed
  <2> QED BY <2>2, <2>3
<1> QED BY <1>1, <1>2, <1>3, <1>4 DEF Next, Step

LEMMA SpecInv == Spec => []Inv
<1>1. Inv /\ [Next]_vars => Inv'
  BY InvNext
<1> QED BY InitInv, <1>1, PTL DEF Spec

(* For every number of values and every size of the channels: every variable
   has its type, and no channel holds more than its size. *)
THEOREM TypeCorrect == Spec => []TypeOK
<1>1. Inv => TypeOK
  BY DEF Inv, ChanOK, ClientOK, SelInv, SelOK, TypeOK, SelectTypeOK, Value
<1> QED BY SpecInv, <1>1, PTL

(* The body of the range-based for loop never sees T{}: get_next returns it only
   once the channel is closed, and then the loop is over, whatever was sent late
   in between. *)
THEOREM LoopDropsDefault == Spec => []BodyNeverSeesDefault
<1>1. Inv => BodyNeverSeesDefault
  BY Constants DEF Inv, ClientOK, BodyNeverSeesDefault
<1> QED BY SpecInv, <1>1, PTL

(* A select that received nothing came to every channel and passed none over
   that held a value, or was closed, all the while. *)
THEOREM SelectPassesNoneOver == Spec => []SelectMissesNothing
<1>1. Inv => SelectMissesNothing
  BY DEF Inv, SelInv
<1> QED BY SpecInv, <1>1, PTL

-----------------------------------------------------------------------------
(* Counting the elements of a sequence. *)

(* How often v occurs in s. *)
Count(s, v) == Cardinality({k \in DOMAIN s : s[k] = v})

LEMMA CountFinite ==
  ASSUME NEW S, NEW s \in Seq(S), NEW v
  PROVE  /\ IsFiniteSet({k \in DOMAIN s : s[k] = v})
         /\ Count(s, v) \in Nat
<1>1. IsFiniteSet(1 .. Len(s)) /\ DOMAIN s = 1 .. Len(s)
  BY FS_Interval
<1>2. IsFiniteSet({k \in DOMAIN s : s[k] = v})
  BY <1>1, FS_Subset
<1> QED BY <1>2, FS_CardinalityType DEF Count

LEMMA CountEmpty == ASSUME NEW v PROVE Count(<<>>, v) = 0
<1>1. {k \in DOMAIN <<>> : <<>>[k] = v} = {}
  OBVIOUS
<1> QED BY <1>1, FS_EmptySet, Zenon DEF Count

(* One more element, unless it is there. *)
LEMMA AddIf ==
  ASSUME NEW S, IsFiniteSet(S), NEW c \in BOOLEAN, NEW x, c => x \notin S
  PROVE  /\ IsFiniteSet(S \cup (IF c THEN {x} ELSE {}))
         /\ Cardinality(S \cup (IF c THEN {x} ELSE {})) = Cardinality(S) + (IF c THEN 1 ELSE 0)
<1>1. CASE c
  BY <1>1, FS_AddElement
<1>2. CASE ~c
  <2>1. S \cup (IF c THEN {x} ELSE {}) = S
    BY <1>2
  <2>2. Cardinality(S) \in Nat
    BY FS_CardinalityType
  <2> QED BY <1>2, <2>1, <2>2
<1> QED BY <1>1, <1>2

LEMMA CountAppend ==
  ASSUME NEW S, NEW s \in Seq(S), NEW x \in S, NEW v
  PROVE  Count(Append(s, x), v) = Count(s, v) + (IF x = v THEN 1 ELSE 0)
<1> DEFINE K == {k \in DOMAIN s : s[k] = v}
<1> DEFINE n == Len(s) + 1
<1>1. IsFiniteSet(K)
  BY CountFinite
<1>2. {k \in DOMAIN Append(s, x) : Append(s, x)[k] = v} = K \cup (IF x = v THEN {n} ELSE {})
  <2>1. /\ DOMAIN s = 1 .. Len(s) /\ DOMAIN Append(s, x) = 1 .. n /\ Append(s, x)[n] = x
        /\ \A k \in 1 .. Len(s) : Append(s, x)[k] = s[k]
        /\ Len(s) \in Nat
    OBVIOUS
  <2>2. \A k : k \in 1 .. n <=> k \in 1 .. Len(s) \/ k = n
    BY <2>1
  <2> QED BY <2>1, <2>2
<1>3. n \notin K
  OBVIOUS
<1> HIDE DEF K, n
<1>4. Cardinality(K \cup (IF x = v THEN {n} ELSE {})) = Cardinality(K) + (IF x = v THEN 1 ELSE 0)
  BY <1>1, <1>3, AddIf
<1> QED BY <1>2, <1>4 DEF Count, K

(* Positions moved by m are as many. *)
LEMMA Moved ==
  ASSUME NEW K \in SUBSET Nat, IsFiniteSet(K), NEW m \in Nat
  PROVE  /\ IsFiniteSet({k + m : k \in K})
         /\ Cardinality({k + m : k \in K}) = Cardinality(K)
<1> DEFINE T == {k + m : k \in K}
<1> DEFINE f == [k \in K |-> k + m]
<1>1. f \in Bijection(K, T)
  <2>1. f \in [K -> T] /\ \A k \in K : f[k] = k + m
    OBVIOUS
  <2>2. \A j, k \in K : f[j] = f[k] => j = k
    BY <2>1
  <2>3. \A t \in T : \E k \in K : f[k] = t
    BY <2>1
  <2> HIDE DEF f, T
  <2> QED BY <2>1, <2>2, <2>3, Fun_IsBij
<1>2. ExistsBijection(K, T)
  BY <1>1 DEF ExistsBijection
<1> QED BY <1>2, FS_Bijection

LEMMA CountConcat ==
  ASSUME NEW S, NEW s \in Seq(S), NEW t \in Seq(S), NEW v
  PROVE  s \o t \in Seq(S) /\ Count(s \o t, v) = Count(s, v) + Count(t, v)
<1> DEFINE K == {k \in DOMAIN s : s[k] = v}
<1> DEFINE J == {k \in DOMAIN t : t[k] = v}
<1> DEFINE m == Len(s)
<1> DEFINE u == s \o t
<1> DEFINE M == {k + m : k \in J}
<1>1. /\ u \in Seq(S) /\ Len(u) = m + Len(t) /\ m \in Nat /\ Len(t) \in Nat
      /\ DOMAIN s = 1 .. m /\ DOMAIN t = 1 .. Len(t) /\ DOMAIN u = 1 .. m + Len(t)
      /\ \A k \in 1 .. m : u[k] = s[k]
      /\ \A k \in 1 .. Len(t) : u[k + m] = t[k]
  OBVIOUS
<1> HIDE DEF u, m
<1>2. {k \in DOMAIN u : u[k] = v} = K \cup M
  <2>1. ASSUME NEW k \in 1 .. m + Len(t), k \notin 1 .. m
        PROVE  \E j \in 1 .. Len(t) : k = j + m
    <3>1. k - m \in 1 .. Len(t) /\ k = (k - m) + m
      BY <1>1, <2>1
    <3> QED BY <3>1
  <2>2. ASSUME NEW k \in DOMAIN u, u[k] = v PROVE k \in K \cup M
    <3>1. CASE k \in 1 .. m
      BY <1>1, <2>2, <3>1
    <3>2. CASE k \notin 1 .. m
      <4>1. PICK j \in 1 .. Len(t) : k = j + m
        BY <1>1, <2>1, <2>2, <3>2
      <4>2. j \in J
        BY <1>1, <2>2, <4>1
      <4> QED BY <4>1, <4>2
    <3> QED BY <3>1, <3>2
  <2>3. ASSUME NEW k \in K PROVE k \in DOMAIN u /\ u[k] = v
    BY <1>1
  <2>4. ASSUME NEW k \in J PROVE k + m \in DOMAIN u /\ u[k + m] = v
    BY <1>1
  <2> QED BY <2>2, <2>3, <2>4
<1>3. IsFiniteSet(K) /\ IsFiniteSet(J) /\ J \in SUBSET Nat
  <2>1. IsFiniteSet(K)
    BY CountFinite
  <2>2. IsFiniteSet(J)
    BY CountFinite
  <2>3. J \in SUBSET Nat
    BY <1>1
  <2> QED BY <2>1, <2>2, <2>3
<1>4. IsFiniteSet(M) /\ Cardinality(M) = Cardinality(J)
  <2> HIDE DEF J
  <2> QED BY <1>1, <1>3, Moved
<1>5. K \cap M = {}
  BY <1>1
<1>6. Cardinality(K \cup M) = Cardinality(K) + Cardinality(M)
  <2> HIDE DEF K, M
  <2>1. /\ Cardinality(K \cap M) = 0
    BY <1>5, FS_EmptySet, Zenon
  <2>2. Cardinality(K \cup M) = Cardinality(K) + Cardinality(M) - Cardinality(K \cap M)
    BY <1>3, <1>4, FS_Union
  <2>3. Cardinality(K) \in Nat /\ Cardinality(M) \in Nat
    BY <1>3, <1>4, FS_CardinalityType
  <2> QED BY <2>1, <2>2, <2>3
<1> QED BY <1>1, <1>2, <1>4, <1>6 DEF Count, u, K, J

LEMMA CountOne == ASSUME NEW x, NEW v PROVE Count(<<x>>, v) = IF x = v THEN 1 ELSE 0
<1>1. PICK s \in Seq({x}) : s = <<>>
  <2>1. <<>> \in Seq({x})
    OBVIOUS
  <2> QED BY <2>1
<1>2. Append(s, x) = <<x>>
  BY <1>1
<1>3. Count(Append(s, x), v) = Count(s, v) + (IF x = v THEN 1 ELSE 0)
  BY CountAppend
<1>4. Count(s, v) = 0
  BY <1>1, CountEmpty
<1> QED BY <1>2, <1>3, <1>4

LEMMA CountTail ==
  ASSUME NEW S, NEW s \in Seq(S), s # <<>>, NEW v
  PROVE  Count(s, v) = Count(Tail(s), v) + (IF Head(s) = v THEN 1 ELSE 0)
<1> DEFINE h == <<Head(s)>>
<1> DEFINE t == Tail(s)
<1>1. h \in Seq(S) /\ t \in Seq(S) /\ Len(h) = 1 /\ h[1] = s[1]
  OBVIOUS
<1>2. h \o t = s
  <2>1. /\ Len(t) = Len(s) - 1 /\ Len(s) \in Nat /\ Len(s) > 0
        /\ \A k \in 1 .. Len(t) : t[k] = s[k + 1]
    OBVIOUS
  <2> HIDE DEF h, t
  <2>2. /\ h \o t \in Seq(S) /\ Len(h \o t) = Len(h) + Len(t)
        /\ \A k \in 1 .. Len(h) + Len(t) : (h \o t)[k] = IF k <= Len(h) THEN h[k] ELSE t[k - Len(h)]
    BY <1>1, ConcatProperties
  <2>3. \A k \in 1 .. Len(s) : (h \o t)[k] = s[k]
    BY <1>1, <2>1, <2>2
  <2> QED BY <1>1, <2>1, <2>2, <2>3, SeqEqual
<1>3. Count(h, v) = IF Head(s) = v THEN 1 ELSE 0
  BY CountOne
<1> HIDE DEF h, t
<1>4. Count(h \o t, v) = Count(h, v) + Count(t, v)
  BY <1>1, CountConcat
<1>5. Count(t, v) \in Nat
  BY <1>1, CountFinite
<1>6. Count(s, v) = Count(h, v) + Count(t, v)
  BY <1>2, <1>4
<1>7. Count(s, v) = Count(t, v) + (IF Head(s) = v THEN 1 ELSE 0)
  BY <1>3, <1>5, <1>6
<1> QED BY <1>7 DEF t

-----------------------------------------------------------------------------
(* Where the values are. *)

(* A value in each of the four hands. *)
InSender(v) == IF insertion[sender] # NoInsertion /\ insertion[sender].value = v THEN 1 ELSE 0
InRelay(v) == IF insertion[relay] # NoInsertion /\ insertion[relay].value = v THEN 1 ELSE 0
Relayed(v) == IF relaying /\ ret[a][relay] = v THEN 1 ELSE 0
Fetched(v) == IF loop = "test" /\ ret[a][ranger] = v THEN 1 ELSE 0

Held(v) ==
  Count(queue[a], v) + Count(queue[b], v)
    + Count(body, v) + Count(handled[a], v) + Count(handled[b], v)
    + InSender(v) + InRelay(v) + Relayed(v) + Fetched(v)

LEMMA HeldNatural ==
  ASSUME ChanOK, ClientOK, NEW v
  PROVE  /\ Count(queue[a], v) \in Nat /\ Count(queue[b], v) \in Nat /\ Count(body, v) \in Nat
         /\ Count(handled[a], v) \in Nat /\ Count(handled[b], v) \in Nat
         /\ InSender(v) \in 0 .. 1 /\ InRelay(v) \in 0 .. 1
         /\ Relayed(v) \in 0 .. 1 /\ Fetched(v) \in 0 .. 1
<1>1. /\ queue[a] \in Seq(Value) /\ queue[b] \in Seq(Value) /\ body \in Seq(Item)
      /\ handled[a] \in Seq(Item) /\ handled[b] \in Seq(Item)
  BY Constants DEF ChanOK, ClientOK
<1>2. /\ Count(queue[a], v) \in Nat /\ Count(queue[b], v) \in Nat /\ Count(body, v) \in Nat
      /\ Count(handled[a], v) \in Nat /\ Count(handled[b], v) \in Nat
  BY <1>1, CountFinite
<1> QED BY <1>2 DEF InSender, InRelay, Relayed, Fetched

(* A value handed to operator<<. *)
LEMMA SendHeld ==
  ASSUME ChanOK, ClientOK, Send, NEW v \in Item
  PROVE  /\ next' = next + 1
         /\ \/ Held(v)' = Held(v) + (IF v = next THEN 1 ELSE 0)
            \/ is_closed[a] /\ Held(v)' = Held(v)
<1>1. /\ next' = next + 1 /\ insert(sender, a, next) /\ next \in Item
      /\ relaying' = relaying /\ loop' = loop /\ body' = body /\ handled' = handled
  BY SendFacts DEF Send
<1>2. PICK n \in Value : n = next
  BY <1>1 DEF Value
<1>3. /\ queue' = queue /\ ret' = ret /\ insertion[sender] = NoInsertion
      /\ \/ is_closed[a] /\ insertion' = insertion
         \/ /\ insertion'[sender] # NoInsertion /\ insertion'[sender].value = n
            /\ \A u \in Sender : u # sender => insertion'[u] = insertion[u]
  BY <1>1, <1>2, BeginInsert, Constants
<1>4. relay \in Sender /\ relay # sender
  BY Constants
<1>5. CASE is_closed[a] /\ insertion' = insertion
  BY <1>1, <1>3, <1>5 DEF Held, InSender, InRelay, Relayed, Fetched
<1>6. CASE /\ insertion'[sender] # NoInsertion /\ insertion'[sender].value = n
           /\ \A u \in Sender : u # sender => insertion'[u] = insertion[u]
  <2>1. InSender(v) = 0 /\ InSender(v)' = IF v = next THEN 1 ELSE 0
    BY <1>2, <1>3, <1>6 DEF InSender
  <2>2. InRelay(v)' = InRelay(v) /\ Relayed(v)' = Relayed(v) /\ Fetched(v)' = Fetched(v)
    BY <1>1, <1>3, <1>4, <1>6 DEF InRelay, Relayed, Fetched
  <2>3. /\ Count(queue[a], v)' = Count(queue[a], v) /\ Count(queue[b], v)' = Count(queue[b], v)
        /\ Count(body, v)' = Count(body, v)
        /\ Count(handled[a], v)' = Count(handled[a], v)
        /\ Count(handled[b], v)' = Count(handled[b], v)
    BY <1>1, <1>3
  <2> QED BY <1>1, <2>1, <2>2, <2>3, HeldNatural DEF Held
<1> QED BY <1>1, <1>3, <1>5, <1>6

(* A value taken from a channel, and one pushed into it. *)
LEMMA TakenHeld ==
  ASSUME ChanOK, NEW c \in Chan, NEW t \in Receiver, TakeFront(c, t), NEW v
  PROVE  /\ Count(queue[a], v) + Count(queue[b], v)
              = Count(queue[a], v)' + Count(queue[b], v)' + (IF Head(queue[c]) = v THEN 1 ELSE 0)
         /\ Count(queue[a], v)' \in Nat /\ Count(queue[b], v)' \in Nat
<1>1. /\ ChanOK' /\ queue[c] # <<>> /\ queue'[c] = Tail(queue[c])
      /\ \A d \in Chan : d # c => queue'[d] = queue[d]
  BY TakeFrontFacts
<1>2. /\ queue[a] \in Seq(Value) /\ queue[b] \in Seq(Value) /\ queue[c] \in Seq(Value)
      /\ queue'[a] \in Seq(Value) /\ queue'[b] \in Seq(Value)
      /\ a # b /\ (c = a \/ c = b)
  BY <1>1, Constants DEF ChanOK
<1>3. Count(queue[c], v) = Count(queue'[c], v) + (IF Head(queue[c]) = v THEN 1 ELSE 0)
  BY <1>1, <1>2, CountTail
<1>4. /\ Count(queue[a], v) \in Nat /\ Count(queue[b], v) \in Nat
      /\ Count(queue'[a], v) \in Nat /\ Count(queue'[b], v) \in Nat
  BY <1>2, CountFinite
<1>5. CASE c = a
  <2>1. queue'[b] = queue[b]
    BY <1>1, <1>2, <1>5, Constants
  <2> QED BY <1>3, <1>4, <1>5, <2>1
<1>6. CASE c = b
  <2>1. queue'[a] = queue[a]
    BY <1>1, <1>2, <1>6, Constants
  <2> QED BY <1>3, <1>4, <1>6, <2>1
<1> QED BY <1>2, <1>5, <1>6

LEMMA PushedHeld ==
  ASSUME ChanOK, NEW t \in Sender, insertion[t] # NoInsertion, Push(t),
         UNCHANGED <<is_closed, ret>>, NEW v
  PROVE  /\ Count(queue[a], v)' + Count(queue[b], v)'
              = Count(queue[a], v) + Count(queue[b], v) + (IF insertion[t].value = v THEN 1 ELSE 0)
         /\ Count(queue[a], v)' \in Nat /\ Count(queue[b], v)' \in Nat
<1> DEFINE c == insertion[t].chan
<1> DEFINE x == insertion[t].value
<1>1. /\ ChanOK' /\ queue'[c] = Append(queue[c], x)
      /\ \A d \in Chan : d # c => queue'[d] = queue[d]
      /\ c \in Chan /\ x \in Value
  BY PushFacts, Inserting
<1> HIDE DEF c, x
<1>2. /\ queue[a] \in Seq(Value) /\ queue[b] \in Seq(Value) /\ queue[c] \in Seq(Value)
      /\ queue'[a] \in Seq(Value) /\ queue'[b] \in Seq(Value)
      /\ a # b /\ (c = a \/ c = b)
  BY <1>1, Constants DEF ChanOK
<1>3. Count(queue'[c], v) = Count(queue[c], v) + (IF x = v THEN 1 ELSE 0)
  BY <1>1, <1>2, CountAppend
<1>4. /\ Count(queue[a], v) \in Nat /\ Count(queue[b], v) \in Nat
      /\ Count(queue'[a], v) \in Nat /\ Count(queue'[b], v) \in Nat
  BY <1>2, CountFinite
<1>5. CASE c = a
  <2>1. queue'[b] = queue[b]
    BY <1>1, <1>2, <1>5, Constants
  <2> QED BY <1>3, <1>4, <1>5, <2>1 DEF x
<1>6. CASE c = b
  <2>1. queue'[a] = queue[a]
    BY <1>1, <1>2, <1>6, Constants
  <2> QED BY <1>3, <1>4, <1>6, <2>1 DEF x
<1> QED BY <1>2, <1>5, <1>6

(* A value moves on, or is lost in a closed channel. *)
Closed == \E c \in Chan : is_closed[c]
Moves(v) == Held(v)' = Held(v) \/ (Closed /\ Held(v)' \in 0 .. Held(v))

LEMMA RelaySendsHeld ==
  ASSUME ChanOK, ClientOK, RelaySends, NEW v \in Item
  PROVE  next' = next /\ Moves(v)
<1>1. /\ relaying /\ relaying' = FALSE /\ insert(relay, b, ret[a][relay])
      /\ next' = next /\ loop' = loop /\ body' = body /\ handled' = handled
      /\ relay \in Sender /\ sender \in Sender /\ relay # sender /\ b \in Chan
  BY Constants DEF RelaySends
<1>2. PICK x \in Value : x = ret[a][relay]
  BY RelaySendsFacts
<1>3. /\ queue' = queue /\ ret' = ret /\ insertion[relay] = NoInsertion
      /\ \/ is_closed[b] /\ insertion' = insertion
         \/ /\ insertion'[relay] # NoInsertion /\ insertion'[relay].value = x
            /\ \A u \in Sender : u # relay => insertion'[u] = insertion[u]
  BY <1>1, <1>2, BeginInsert
<1>4. /\ Count(queue[a], v)' = Count(queue[a], v) /\ Count(queue[b], v)' = Count(queue[b], v)
      /\ Count(body, v)' = Count(body, v)
      /\ Count(handled[a], v)' = Count(handled[a], v)
      /\ Count(handled[b], v)' = Count(handled[b], v)
      /\ Fetched(v)' = Fetched(v)
  BY <1>1, <1>3 DEF Fetched
<1>5. Relayed(v)' = 0 /\ Relayed(v) = IF x = v THEN 1 ELSE 0
  BY <1>1, <1>2 DEF Relayed
<1>6. CASE is_closed[b] /\ insertion' = insertion
  <2>1. InRelay(v)' = InRelay(v) /\ InSender(v)' = InSender(v) /\ Closed
    BY <1>1, <1>6 DEF InRelay, InSender, Closed
  <2> QED BY <1>1, <1>4, <1>5, <2>1, HeldNatural DEF Held, Moves
<1>7. CASE /\ insertion'[relay] # NoInsertion /\ insertion'[relay].value = x
           /\ \A u \in Sender : u # relay => insertion'[u] = insertion[u]
  <2>1. InRelay(v) = 0 /\ InRelay(v)' = IF x = v THEN 1 ELSE 0
    BY <1>3, <1>7 DEF InRelay
  <2>2. InSender(v)' = InSender(v)
    BY <1>1, <1>7 DEF InSender
  <2> QED BY <1>1, <1>4, <1>5, <2>1, <2>2, HeldNatural DEF Held, Moves
<1> QED BY <1>3, <1>6, <1>7

LEMMA InsertsHeld ==
  ASSUME ChanOK, ClientOK, Inserts, NEW v \in Item
  PROVE  next' = next /\ Moves(v)
<1>1. PICK t \in Sender : insert_locked(t) \/ insert_woken(t)
  BY DEF Inserts
<1>2. /\ insertion[t] # NoInsertion /\ UNCHANGED <<is_closed, ret>>
      /\ Push(t) \/ Discard(t) \/ (queue' = queue /\ Kept(insertion', t))
  BY <1>1, InsertSteps
<1>3. /\ next' = next /\ relaying' = relaying /\ loop' = loop /\ body' = body
      /\ handled' = handled /\ ret' = ret
  BY <1>2 DEF Inserts, clientVars
<1>4. /\ Count(body, v)' = Count(body, v)
      /\ Count(handled[a], v)' = Count(handled[a], v)
      /\ Count(handled[b], v)' = Count(handled[b], v)
      /\ Fetched(v)' = Fetched(v) /\ Relayed(v)' = Relayed(v)
  BY <1>3 DEF Fetched, Relayed
<1>5. t = sender \/ t = relay
  BY Constants
<1>6. sender # relay /\ sender \in Sender /\ relay \in Sender
  BY Constants
<1>7. ASSUME insertion'[t] = NoInsertion, \A u \in Sender : u # t => insertion'[u] = insertion[u]
      PROVE  InSender(v) + InRelay(v)
               = InSender(v)' + InRelay(v)' + (IF insertion[t].value = v THEN 1 ELSE 0)
  BY <1>2, <1>5, <1>6, <1>7 DEF InSender, InRelay
<1>8. InSender(v)' \in 0 .. 1 /\ InRelay(v)' \in 0 .. 1
  BY DEF InSender, InRelay
<1>9. CASE Push(t)
  <2>1. /\ insertion'[t] = NoInsertion /\ \A u \in Sender : u # t => insertion'[u] = insertion[u]
    BY <1>2, <1>9, PushFacts
  <2>2. /\ Count(queue[a], v)' + Count(queue[b], v)'
              = Count(queue[a], v) + Count(queue[b], v) + (IF insertion[t].value = v THEN 1 ELSE 0)
        /\ Count(queue[a], v)' \in Nat /\ Count(queue[b], v)' \in Nat
    BY <1>2, <1>9, PushedHeld
  <2> QED BY <1>3, <1>4, <1>7, <1>8, <2>1, <2>2, HeldNatural DEF Held, Moves
<1>10. CASE Discard(t)
  <2>1. /\ insertion'[t] = NoInsertion /\ \A u \in Sender : u # t => insertion'[u] = insertion[u]
        /\ is_closed[insertion[t].chan] /\ queue' = queue
    BY <1>2, <1>10, DiscardFacts
  <2>2. insertion[t].chan \in Chan
    BY <1>2, Inserting
  <2>3. Closed
    BY <2>1, <2>2 DEF Closed
  <2>4. Count(queue[a], v)' = Count(queue[a], v) /\ Count(queue[b], v)' = Count(queue[b], v)
    BY <2>1
  <2> QED BY <1>3, <1>4, <1>7, <1>8, <2>1, <2>3, <2>4, HeldNatural DEF Held, Moves
<1>11. CASE queue' = queue /\ Kept(insertion', t)
  <2>1. InSender(v)' = InSender(v) /\ InRelay(v)' = InRelay(v)
    BY <1>2, <1>5, <1>6, <1>11 DEF Kept, InSender, InRelay
  <2>2. Count(queue[a], v)' = Count(queue[a], v) /\ Count(queue[b], v)' = Count(queue[b], v)
    BY <1>11
  <2> QED BY <1>3, <1>4, <2>1, <2>2 DEF Held, Moves
<1> QED BY <1>2, <1>9, <1>10, <1>11

LEMMA RelayReceivesHeld ==
  ASSUME ChanOK, ClientOK, RelayReceives, NEW v \in Item
  PROVE  next' = next /\ Moves(v)
<1>1. /\ ~relaying /\ relaying' = TRUE /\ get_next(a, relay)
      /\ next' = next /\ loop' = loop /\ body' = body /\ handled' = handled
      /\ a \in Chan /\ relay \in Receiver /\ ranger \in Receiver /\ relay # ranger
      /\ Default # v
  BY Constants DEF RelayReceives
<1>2. /\ insertion' = insertion
      /\ \A d \in Chan, u \in Receiver : d # a \/ u # relay => ret'[d][u] = ret[d][u]
      /\ \/ TakeFront(a, relay) /\ ret'[a][relay] = Head(queue[a])
         \/ queue' = queue /\ ret'[a][relay] = Default
  BY <1>1, GetNextFacts
<1>3. ret'[a][ranger] = ret[a][ranger]
  BY <1>1, <1>2
<1>4. /\ Count(body, v)' = Count(body, v)
      /\ Count(handled[a], v)' = Count(handled[a], v)
      /\ Count(handled[b], v)' = Count(handled[b], v)
      /\ Fetched(v)' = Fetched(v) /\ InSender(v)' = InSender(v) /\ InRelay(v)' = InRelay(v)
  BY <1>1, <1>2, <1>3 DEF Fetched, InSender, InRelay
<1>5. Relayed(v) = 0 /\ Relayed(v)' = IF ret'[a][relay] = v THEN 1 ELSE 0
  BY <1>1 DEF Relayed
<1>6. CASE TakeFront(a, relay) /\ ret'[a][relay] = Head(queue[a])
  <2>1. /\ Count(queue[a], v) + Count(queue[b], v)
              = Count(queue[a], v)' + Count(queue[b], v)' + (IF Head(queue[a]) = v THEN 1 ELSE 0)
        /\ Count(queue[a], v)' \in Nat /\ Count(queue[b], v)' \in Nat
    BY <1>1, <1>6, TakenHeld
  <2> QED BY <1>1, <1>4, <1>5, <1>6, <2>1, HeldNatural DEF Held, Moves
<1>7. CASE queue' = queue /\ ret'[a][relay] = Default
  <2>1. Count(queue[a], v)' = Count(queue[a], v) /\ Count(queue[b], v)' = Count(queue[b], v)
    BY <1>7
  <2>2. Relayed(v)' = 0
    BY <1>1, <1>5, <1>7
  <2> QED BY <1>1, <1>4, <1>5, <2>1, <2>2 DEF Held, Moves
<1> QED BY <1>2, <1>6, <1>7

LEMMA FetchHeld ==
  ASSUME ChanOK, ClientOK, Fetch, NEW v \in Item
  PROVE  next' = next /\ Moves(v)
<1>1. /\ loop = "fetch" /\ loop' = "test" /\ get_next(a, ranger)
      /\ next' = next /\ relaying' = relaying /\ body' = body /\ handled' = handled
      /\ a \in Chan /\ relay \in Receiver /\ ranger \in Receiver /\ relay # ranger
      /\ Default # v
  BY Constants DEF Fetch
<1>2. /\ insertion' = insertion
      /\ \A d \in Chan, u \in Receiver : d # a \/ u # ranger => ret'[d][u] = ret[d][u]
      /\ \/ TakeFront(a, ranger) /\ ret'[a][ranger] = Head(queue[a])
         \/ queue' = queue /\ ret'[a][ranger] = Default
  BY <1>1, GetNextFacts
<1>3. ret'[a][relay] = ret[a][relay]
  BY <1>1, <1>2
<1>4. /\ Count(body, v)' = Count(body, v)
      /\ Count(handled[a], v)' = Count(handled[a], v)
      /\ Count(handled[b], v)' = Count(handled[b], v)
      /\ Relayed(v)' = Relayed(v) /\ InSender(v)' = InSender(v) /\ InRelay(v)' = InRelay(v)
  BY <1>1, <1>2, <1>3 DEF Relayed, InSender, InRelay
<1>5. Fetched(v) = 0 /\ Fetched(v)' = IF ret'[a][ranger] = v THEN 1 ELSE 0
  BY <1>1 DEF Fetched
<1>6. CASE TakeFront(a, ranger) /\ ret'[a][ranger] = Head(queue[a])
  <2>1. /\ Count(queue[a], v) + Count(queue[b], v)
              = Count(queue[a], v)' + Count(queue[b], v)' + (IF Head(queue[a]) = v THEN 1 ELSE 0)
        /\ Count(queue[a], v)' \in Nat /\ Count(queue[b], v)' \in Nat
    BY <1>1, <1>6, TakenHeld
  <2> QED BY <1>1, <1>4, <1>5, <1>6, <2>1, HeldNatural DEF Held, Moves
<1>7. CASE queue' = queue /\ ret'[a][ranger] = Default
  <2>1. Count(queue[a], v)' = Count(queue[a], v) /\ Count(queue[b], v)' = Count(queue[b], v)
    BY <1>7
  <2>2. Fetched(v)' = 0
    BY <1>1, <1>5, <1>7
  <2> QED BY <1>1, <1>4, <1>5, <2>1, <2>2 DEF Held, Moves
<1> QED BY <1>2, <1>6, <1>7

LEMMA TestHeld ==
  ASSUME ChanOK, ClientOK, Test, NEW v \in Item
  PROVE  next' = next /\ Moves(v)
<1>1. /\ loop = "test" /\ UNCHANGED chanVars
      /\ next' = next /\ relaying' = relaying /\ handled' = handled
  BY DEF Test
<1>2. /\ Count(queue[a], v)' = Count(queue[a], v) /\ Count(queue[b], v)' = Count(queue[b], v)
      /\ Count(handled[a], v)' = Count(handled[a], v)
      /\ Count(handled[b], v)' = Count(handled[b], v)
      /\ Relayed(v)' = Relayed(v) /\ InSender(v)' = InSender(v) /\ InRelay(v)' = InRelay(v)
  BY <1>1 DEF chanVars, Relayed, InSender, InRelay
<1>3. \/ is_closed[a] /\ body' = body /\ loop' = "over"
      \/ body' = Append(body, ret[a][ranger]) /\ ret[a][ranger] \in Item /\ loop' = "fetch"
  BY TestFacts
<1>4. Fetched(v)' = 0 /\ Fetched(v) = IF ret[a][ranger] = v THEN 1 ELSE 0
  BY <1>1, <1>3 DEF Fetched
<1>5. CASE is_closed[a] /\ body' = body
  <2>1. Closed /\ Count(body, v)' = Count(body, v)
    BY <1>5, Constants DEF Closed
  <2> QED BY <1>1, <1>2, <1>4, <2>1, HeldNatural DEF Held, Moves
<1>6. CASE body' = Append(body, ret[a][ranger]) /\ ret[a][ranger] \in Item
  <2>1. body \in Seq(Item)
    BY DEF ClientOK
  <2>2. Count(body, v)' = Count(body, v) + (IF ret[a][ranger] = v THEN 1 ELSE 0)
    BY <1>6, <2>1, CountAppend
  <2> QED BY <1>1, <1>2, <1>4, <2>2, HeldNatural DEF Held, Moves
<1> QED BY <1>3, <1>5, <1>6

LEMMA SelectorHeld ==
  ASSUME ChanOK, ClientOK, SelInv, SelectorGoesOn, NEW v \in Item
  PROVE  next' = next /\ Moves(v)
<1>1. next' = next /\ relaying' = relaying /\ loop' = loop /\ body' = body
  BY DEF SelectorGoesOn
<1>2. /\ insertion' = insertion
      /\ ret'[a][relay] = ret[a][relay] /\ ret'[a][ranger] = ret[a][ranger]
      /\ Nothing \/ \E c \in Chan : HandsOver(c)
  BY SelectorFacts
<1>3. /\ Count(body, v)' = Count(body, v)
      /\ Fetched(v)' = Fetched(v)
      /\ Relayed(v)' = Relayed(v) /\ InSender(v)' = InSender(v) /\ InRelay(v)' = InRelay(v)
  BY <1>1, <1>2 DEF Fetched, Relayed, InSender, InRelay
<1>4. CASE Nothing
  <2>1. /\ Count(queue[a], v)' = Count(queue[a], v) /\ Count(queue[b], v)' = Count(queue[b], v)
        /\ Count(handled[a], v)' = Count(handled[a], v)
        /\ Count(handled[b], v)' = Count(handled[b], v)
    BY <1>4 DEF Nothing
  <2> QED BY <1>1, <1>3, <2>1 DEF Held, Moves
<1>5. CASE \E c \in Chan : HandsOver(c)
  <2>1. PICK c \in Chan : HandsOver(c)
    BY <1>5
  <2>2. /\ TakeFront(c, selector) /\ selector \in Receiver
        /\ \A d \in Chan : d # c => handled'[d] = handled[d]
        /\ handled[a] \in Seq(Item) /\ handled[b] \in Seq(Item) /\ handled[c] \in Seq(Item)
        /\ a \in Chan /\ b \in Chan /\ a # b /\ (c = a \/ c = b)
    BY <2>1, Constants DEF HandsOver, ClientOK
  <2>3. /\ Count(queue[a], v) + Count(queue[b], v)
              = Count(queue[a], v)' + Count(queue[b], v)' + (IF Head(queue[c]) = v THEN 1 ELSE 0)
        /\ Count(queue[a], v)' \in Nat /\ Count(queue[b], v)' \in Nat
    BY <2>2, TakenHeld
  <2>4. Count(handled'[c], v) = Count(handled[c], v) + (IF Head(queue[c]) = v THEN 1 ELSE 0)
    <3>1. CASE Head(queue[c]) \in Item
      <4>1. handled'[c] = Append(handled[c], Head(queue[c]))
        BY <2>1, <3>1 DEF HandsOver
      <4> QED BY <2>2, <3>1, <4>1, CountAppend
    <3>2. CASE Head(queue[c]) \notin Item
      <4>1. handled'[c] = handled[c]
        BY <2>1, <3>2 DEF HandsOver
      <4>2. Count(handled[c], v) \in Nat
        BY <2>2, CountFinite
      <4> QED BY <3>2, <4>1, <4>2
    <3> QED BY <3>1, <3>2
  <2>5. Count(handled[a], v)' + Count(handled[b], v)'
          = Count(handled[a], v) + Count(handled[b], v) + (IF Head(queue[c]) = v THEN 1 ELSE 0)
    <3>1. CASE c = a
      BY <2>2, <2>4, <3>1, HeldNatural
    <3>2. CASE c = b
      BY <2>2, <2>4, <3>2, HeldNatural
    <3> QED BY <2>2, <3>1, <3>2
  <2>6. Count(handled[a], v)' \in Nat /\ Count(handled[b], v)' \in Nat
    <3>1. handled'[a] \in Seq(Item) /\ handled'[b] \in Seq(Item)
      BY SelectorFacts, Constants DEF ClientOK
    <3> QED BY <3>1, CountFinite
  <2> QED BY <1>1, <1>3, <2>3, <2>5, <2>6, HeldNatural DEF Held, Moves
<1> QED BY <1>2, <1>4, <1>5

-----------------------------------------------------------------------------
(* The invariant of the values: one sent is in one place, or lost in a closed
   channel; one not sent yet is nowhere. *)

Once ==
  \A v \in Item :
    /\ v >= next => Held(v) = 0
    /\ v < next => Held(v) = 1 \/ (Held(v) = 0 /\ Closed)

LEMMA ClosedStays == StayClosed /\ Closed => Closed'
BY DEF StayClosed, Closed

LEMMA OnceNext == Inv /\ Once /\ [Next]_vars => Once'
<1> SUFFICES ASSUME Inv, Once, [Next]_vars, NEW v \in Item
             PROVE  /\ v >= next' => Held(v)' = 0
                    /\ v < next' => Held(v)' = 1 \/ (Held(v)' = 0 /\ Closed')
  BY DEF Once
<1>1. Closed => Closed'
  BY InvNext, ClosedStays
<1>2. /\ v >= next => Held(v) = 0
      /\ v < next => Held(v) = 1 \/ (Held(v) = 0 /\ Closed)
      /\ v \in Int /\ next \in Int
  BY Constants DEF Once, Inv, ClientOK
<1>3. ASSUME next' = next, Moves(v)
      PROVE  /\ v >= next' => Held(v)' = 0
             /\ v < next' => Held(v)' = 1 \/ (Held(v)' = 0 /\ Closed')
  BY <1>1, <1>2, <1>3 DEF Moves
<1>4. CASE Send
  <2>1. /\ next' = next + 1
        /\ \/ Held(v)' = Held(v) + (IF v = next THEN 1 ELSE 0)
           \/ Closed /\ Held(v)' = Held(v)
    BY <1>4, SendHeld, Constants DEF Inv, Closed
  <2> QED BY <1>1, <1>2, <2>1
<1>5. CASE SelectorBegins \/ Closes \/ UNCHANGED vars
  <2>1. /\ queue' = queue /\ insertion' = insertion /\ ret' = ret /\ UNCHANGED clientVars
    BY <1>5 DEF SelectorBegins, SelectBegins, Closes, close, vars, chanVars
  <2>2. next' = next /\ Held(v)' = Held(v)
    BY <2>1 DEF clientVars, Held, InSender, InRelay, Relayed, Fetched
  <2> QED BY <1>3, <2>2 DEF Moves
<1>6. CASE Inserts
  BY <1>3, <1>6, InsertsHeld DEF Inv
<1>7. CASE RelayReceives
  BY <1>3, <1>7, RelayReceivesHeld DEF Inv
<1>8. CASE RelaySends
  BY <1>3, <1>8, RelaySendsHeld DEF Inv
<1>9. CASE Fetch
  BY <1>3, <1>9, FetchHeld DEF Inv
<1>10. CASE Test
  BY <1>3, <1>10, TestHeld DEF Inv
<1>11. CASE SelectorGoesOn
  BY <1>3, <1>11, SelectorHeld DEF Inv
<1> QED BY <1>4, <1>5, <1>6, <1>7, <1>8, <1>9, <1>10, <1>11 DEF Next, Step

LEMMA OnceInit == Init => Once
<1> SUFFICES ASSUME Init, NEW v \in Item PROVE Held(v) = 0 /\ ~(v < next)
  BY DEF Once
<1>1. /\ queue[a] = <<>> /\ queue[b] = <<>> /\ body = <<>>
      /\ handled[a] = <<>> /\ handled[b] = <<>>
      /\ insertion[sender] = NoInsertion /\ insertion[relay] = NoInsertion
      /\ relaying = FALSE /\ loop = "fetch" /\ next = 1
  BY Constants DEF Init, ChannelsInit
<1>2. InSender(v) = 0 /\ InRelay(v) = 0 /\ Relayed(v) = 0 /\ Fetched(v) = 0
  BY <1>1 DEF InSender, InRelay, Relayed, Fetched
<1>3. Count(<<>>, v) = 0
  BY CountEmpty
<1>4. Held(v) = 0
  BY <1>1, <1>2, <1>3 DEF Held
<1> QED BY <1>1, <1>4, Constants

(* What EachValueOnce counts is that sum: no two hands are the same. *)
LEMMA PlacesAreHeld ==
  ASSUME Inv, NEW v
  PROVE  Places(v) = Held(v)
<1>1. Count(Ended, v) = Count(queue[a], v) + Count(queue[b], v) + Count(body, v)
                          + Count(handled[a], v) + Count(handled[b], v)
  <2>1. /\ queue[a] \in Seq(Value) /\ queue[b] \in Seq(Value) /\ body \in Seq(Value)
        /\ handled[a] \in Seq(Value) /\ handled[b] \in Seq(Value)
    <3>1. /\ queue[a] \in Seq(Value) /\ queue[b] \in Seq(Value)
      BY Constants DEF Inv, ChanOK
    <3>2. /\ body \in Seq(Item) /\ handled[a] \in Seq(Item) /\ handled[b] \in Seq(Item)
      BY Constants DEF Inv, ClientOK
    <3>3. \A s \in Seq(Item) : s \in Seq(Value)
      BY DEF Value
    <3> QED BY <3>1, <3>2, <3>3
  <2> DEFINE s2 == queue[a] \o queue[b]
  <2> DEFINE s3 == s2 \o body
  <2> DEFINE s4 == s3 \o handled[a]
  <2>2. s2 \in Seq(Value) /\ Count(s2, v) = Count(queue[a], v) + Count(queue[b], v)
    BY <2>1, CountConcat
  <2> HIDE DEF s2
  <2>3. s3 \in Seq(Value) /\ Count(s3, v) = Count(s2, v) + Count(body, v)
    BY <2>1, <2>2, CountConcat
  <2> HIDE DEF s3
  <2>4. s4 \in Seq(Value) /\ Count(s4, v) = Count(s3, v) + Count(handled[a], v)
    BY <2>1, <2>3, CountConcat
  <2> HIDE DEF s4
  <2>5. Count(s4 \o handled[b], v) = Count(s4, v) + Count(handled[b], v)
    BY <2>1, <2>4, CountConcat
  <2> QED BY <2>2, <2>3, <2>4, <2>5 DEF Ended, s2, s3, s4
<1> DEFINE S1 == {} \cup (IF insertion[sender] # NoInsertion /\ insertion[sender].value = v
                          THEN {<<sender, v>>} ELSE {})
<1> DEFINE S2 == S1 \cup (IF insertion[relay] # NoInsertion /\ insertion[relay].value = v
                          THEN {<<relay, v>>} ELSE {})
<1> DEFINE S3 == S2 \cup (IF relaying /\ ret[a][relay] = v THEN {<<"relay", v>>} ELSE {})
<1> DEFINE S4 == S3 \cup (IF loop = "test" /\ ret[a][ranger] = v THEN {<<"loop", v>>} ELSE {})
<1>2. {h \in InHand : h[2] = v} = S4
  <2> DEFINE I == {<<t, insertion[t].value>> : t \in {u \in Sender : insertion[u] # NoInsertion}}
  <2>1. {h \in I : h[2] = v} = S2
    <3>1. \A t \in Sender : t = sender \/ t = relay
      BY Constants
    <3>2. sender \in Sender /\ relay \in Sender
      BY Constants
    <3>3. \A h : h \in I /\ h[2] = v
             <=> \E t \in Sender : insertion[t] # NoInsertion /\ insertion[t].value = v /\ h = <<t, v>>
      OBVIOUS
    <3>4. \A h : h \in S2
             <=> \E t \in Sender : insertion[t] # NoInsertion /\ insertion[t].value = v /\ h = <<t, v>>
      BY <3>1, <3>2
    <3> HIDE DEF I, S2
    <3> QED BY <3>3, <3>4
  <2>2. InHand = I \cup (IF relaying THEN {<<"relay", ret[a][relay]>>} ELSE {})
                   \cup (IF loop = "test" THEN {<<"loop", ret[a][ranger]>>} ELSE {})
    BY DEF InHand
  <2> HIDE DEF I, S2
  <2> QED BY <2>1, <2>2
<1>3. /\ sender # relay /\ sender \notin {"relay", "loop"} /\ relay \notin {"relay", "loop"}
      /\ relaying \in BOOLEAN
  BY Constants, ClientsAssumption DEF Inv, ClientOK
<1>4. Cardinality(S4) = InSender(v) + InRelay(v) + Relayed(v) + Fetched(v)
  <2> DEFINE c1 == insertion[sender] # NoInsertion /\ insertion[sender].value = v
  <2> DEFINE c2 == insertion[relay] # NoInsertion /\ insertion[relay].value = v
  <2> DEFINE c3 == relaying /\ ret[a][relay] = v
  <2> DEFINE c4 == loop = "test" /\ ret[a][ranger] = v
  <2>1. c1 \in BOOLEAN /\ c2 \in BOOLEAN /\ c3 \in BOOLEAN /\ c4 \in BOOLEAN
    BY <1>3
  <2>2. /\ S1 = {} \cup (IF c1 THEN {<<sender, v>>} ELSE {})
        /\ S2 = S1 \cup (IF c2 THEN {<<relay, v>>} ELSE {})
        /\ S3 = S2 \cup (IF c3 THEN {<<"relay", v>>} ELSE {})
        /\ S4 = S3 \cup (IF c4 THEN {<<"loop", v>>} ELSE {})
    OBVIOUS
  <2>3. /\ <<relay, v>> \notin S1 /\ <<"relay", v>> \notin S2 /\ <<"loop", v>> \notin S3
    BY <1>3
  <2>4. /\ InSender(v) = IF c1 THEN 1 ELSE 0
        /\ InRelay(v) = IF c2 THEN 1 ELSE 0
        /\ Relayed(v) = IF c3 THEN 1 ELSE 0
        /\ Fetched(v) = IF c4 THEN 1 ELSE 0
    BY DEF InSender, InRelay, Relayed, Fetched
  <2> HIDE DEF S1, S2, S3, S4, c1, c2, c3, c4
  <2>5. IsFiniteSet({}) /\ Cardinality({}) = 0
    BY FS_EmptySet, Zenon
  <2>6. IsFiniteSet(S1) /\ Cardinality(S1) = Cardinality({}) + (IF c1 THEN 1 ELSE 0)
    BY <2>1, <2>2, <2>5, AddIf
  <2>7. IsFiniteSet(S2) /\ Cardinality(S2) = Cardinality(S1) + (IF c2 THEN 1 ELSE 0)
    BY <2>1, <2>2, <2>3, <2>6, AddIf
  <2>8. IsFiniteSet(S3) /\ Cardinality(S3) = Cardinality(S2) + (IF c3 THEN 1 ELSE 0)
    BY <2>1, <2>2, <2>3, <2>7, AddIf
  <2>9. IsFiniteSet(S4) /\ Cardinality(S4) = Cardinality(S3) + (IF c4 THEN 1 ELSE 0)
    BY <2>1, <2>2, <2>3, <2>8, AddIf
  <2>10. Cardinality(S1) = IF c1 THEN 1 ELSE 0
    BY <2>5, <2>6
  <2> QED BY <2>4, <2>7, <2>8, <2>9, <2>10
<1>5. Places(v) = Count(Ended, v) + Cardinality(S4)
  BY <1>2 DEF Places, Count
<1>6. /\ Count(queue[a], v) \in Nat /\ Count(queue[b], v) \in Nat /\ Count(body, v) \in Nat
      /\ Count(handled[a], v) \in Nat /\ Count(handled[b], v) \in Nat
      /\ InSender(v) \in 0 .. 1 /\ InRelay(v) \in 0 .. 1
      /\ Relayed(v) \in 0 .. 1 /\ Fetched(v) \in 0 .. 1
  BY HeldNatural DEF Inv
<1> HIDE DEF S4
<1> QED BY <1>1, <1>4, <1>5, <1>6 DEF Held

(* A value handed to operator<< is in one place, whoever competes for it, and
   never delivered twice; it is in none only once a channel is closed. *)
THEOREM NeverDeliveredTwice == Spec => []EachValueOnce
<1>1. Inv /\ Once => EachValueOnce
  <2> SUFFICES ASSUME Inv, Once, NEW v \in 1 .. next - 1
               PROVE  Places(v) = 1 \/ (Places(v) = 0 /\ \E c \in Chan : is_closed[c])
    BY DEF EachValueOnce
  <2>1. v \in Item /\ v < next
    BY Constants DEF Inv, ClientOK
  <2> QED BY <2>1, PlacesAreHeld DEF Once, Closed
<1> QED BY InitInv, InvNext, OnceInit, OnceNext, SpecInv, <1>1, PTL DEF Spec

=============================================================================
