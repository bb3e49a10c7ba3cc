--------------------------- MODULE ChannelClients ---------------------------
(***************************************************************************)
(* The clients of channel.hpp and select.hpp on two channels: a thread     *)
(* sends 1, 2, ... into a with operator<<, a relay hands values on from a  *)
(* to b with out >> in, a range-based for loop reads a, a selector reads   *)
(* both, and somebody closes them at any time.                             *)
(***************************************************************************)
EXTENDS Select

CONSTANTS
  a, b,
  sender, relay, ranger,
  NumValues  \* values the sender sends

ASSUME ClientsAssumption ==
  /\ a # b /\ Chan = {a, b}
  /\ NumValues \in Nat /\ Item = 1 .. NumValues
  /\ sender # relay /\ Sender = {sender, relay}
  /\ relay # ranger /\ relay # selector /\ ranger # selector
  /\ Receiver = {relay, ranger, selector}
  /\ {"relay", "loop"} \cap Sender = {}

VARIABLES
  next,      \* the value the sender sends next
  relaying,  \* the relay has received a value and not yet called insert
  loop,      \* where the range-based for loop is
  body,      \* values the loop's body was run for
  handled    \* handled[c]: values, other than T{}, that case c's function got

clientVars == <<next, relaying, loop, body, handled>>
vars == <<chanVars, selectVars, watch, clientVars>>

Init ==
  /\ ChannelsInit
  /\ SelectInit
  /\ next = 1
  /\ relaying = FALSE
  /\ loop = "fetch"
  /\ body = <<>>
  /\ handled = [c \in Chan |-> <<>>]

-----------------------------------------------------------------------------
(* operator<< *)

Send ==
  /\ next <= NumValues
  /\ insert(sender, a, next)
  /\ next' = next + 1
  /\ UNCHANGED <<selectVars, relaying, loop, body, handled>>

Inserts ==
  /\ \E t \in Sender : insert_locked(t) \/ insert_woken(t)
  /\ UNCHANGED <<selectVars, clientVars>>

(* operator>>(out, in): get_next, then insert whatever it returned. *)
RelayReceives ==
  /\ ~relaying
  /\ insertion[relay] = NoInsertion
  /\ get_next(a, relay)
  /\ relaying' = TRUE
  /\ UNCHANGED <<selectVars, next, loop, body, handled>>

RelaySends ==
  /\ relaying
  /\ insert(relay, b, ret[a][relay])
  /\ relaying' = FALSE
  /\ UNCHANGED <<selectVars, next, loop, body, handled>>

-----------------------------------------------------------------------------
(* for (auto& val : a) *)

(* begin() and ++ fetch a value: operator++ is get_next. *)
Fetch ==
  /\ loop = "fetch"
  /\ get_next(a, ranger)
  /\ loop' = "test"
  /\ UNCHANGED <<selectVars, next, relaying, body, handled>>

TestAtEndOfData ==
  /\ loop = "test"
  /\ IF is_closed[a] /\ Empty(a)
     THEN loop' = "over" /\ UNCHANGED body
     ELSE loop' = "fetch" /\ body' = Append(body, ret[a][ranger])
  /\ UNCHANGED <<chanVars, selectVars, next, relaying, handled>>

(* it != end(): the iterators are equal once the channel is closed, and the
   value just fetched is dropped. *)
Test ==
  /\ loop = "test"
  /\ IF is_closed[a]
     THEN loop' = "over" /\ UNCHANGED body
     ELSE loop' = "fetch" /\ body' = Append(body, ret[a][ranger])
  /\ UNCHANGED <<chanVars, selectVars, next, relaying, handled>>

-----------------------------------------------------------------------------
(* A step of select, with what the case functions saw. *)

Handle ==
  handled' = [c \in Chan |-> IF c \in ran' \ ran /\ ret'[c][selector] \in Item
                             THEN Append(handled[c], ret'[c][selector])
                             ELSE handled[c]]

SelectorGoesOn == SelectGoesOn /\ Handle /\ UNCHANGED <<next, relaying, loop, body>>

SelectorBegins == SelectBegins /\ UNCHANGED clientVars

Closes ==
  /\ \E c \in Chan : close(c)
  /\ UNCHANGED <<selectVars, clientVars>>

Step ==
  \/ Send \/ Inserts \/ RelayReceives \/ RelaySends
  \/ Fetch \/ Test \/ SelectorGoesOn \/ Closes

Next == SelectorBegins \/ (Step /\ Watched)

Spec == Init /\ [][Next]_vars

(* The selector runs, and std::shuffle, seeded afresh for every select, does
   not leave a case out for ever when it comes to who is first. *)
Selector == SelectorBegins \/ (SelectorGoesOn /\ Watched)
TriesFirst(c) ==
  /\ FirstCase(c) /\ Handle /\ Watched
  /\ UNCHANGED <<next, relaying, loop, body>>

FairSpec == Spec /\ WF_vars(Selector) /\ \A c \in Chan : SF_vars(TriesFirst(c))

-----------------------------------------------------------------------------

(* Every variable has its type; no channel holds more than its size. *)
TypeOK ==
  /\ queue \in [Chan -> Seq(Item \cup {Default})]
  /\ \A c \in Chan : Len(queue[c]) <= buffer_size
  /\ is_closed \in [Chan -> BOOLEAN]
  /\ insertion \in [Sender -> Insertion \cup {NoInsertion}]
  /\ ret \in [Chan -> [Receiver -> Item \cup {Default, Null}]]
  /\ SelectTypeOK
  /\ next \in 1 .. NumValues + 1
  /\ relaying \in BOOLEAN
  /\ loop \in {"fetch", "test", "over"}
  /\ body \in Seq(Item)
  /\ handled \in [Chan -> Seq(Item)]

(* The values in a thread's hand: in an insert, received by the relay, fetched
   by the loop. *)
InHand ==
  {<<t, insertion[t].value>> : t \in {u \in Sender : insertion[u] # NoInsertion}}
    \cup (IF relaying THEN {<<"relay", ret[a][relay]>>} ELSE {})
    \cup (IF loop = "test" THEN {<<"loop", ret[a][ranger]>>} ELSE {})

Ended == queue[a] \o queue[b] \o body \o handled[a] \o handled[b]

Places(v) ==
  Cardinality({k \in DOMAIN Ended : Ended[k] = v}) + Cardinality({h \in InHand : h[2] = v})

(* A value handed to operator<< is in one place: a channel, a thread's hand,
   the loop's body or a case's function; with three competing receivers, one
   of which sends on, it is never delivered twice.  It is lost only once a
   channel is closed (by a send, by the loop's last fetch, by the relay). *)
EachValueOnce ==
  \A v \in 1 .. next - 1 :
    Places(v) = 1 \/ (Places(v) = 0 /\ \E c \in Chan : is_closed[c])

(* Whatever a late send does between the two, the value the loop fetches from a
   closed channel is never the body's: not the default value, which get_next
   returns when the channel is closed and empty. *)
BodyNeverSeesDefault == \A k \in DOMAIN body : body[k] # Default

(* A thread that selects again and again gets every value of an open channel,
   or somebody else does: also while another case, of a closed channel, is
   always ready. *)
NoCaseStarves ==
  \A c \in Chan : \A v \in Item :
    (\E k \in DOMAIN queue[c] : queue[c][k] = v)
      ~> (is_closed[c] \/ \A k \in DOMAIN queue[c] : queue[c][k] # v)
=============================================================================
