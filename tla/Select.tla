------------------------------- MODULE Select -------------------------------
(***************************************************************************)
(* select.hpp: one thread that runs select again and again over a receive  *)
(* case for each channel, a send case, and sometimes a default.            *)
(***************************************************************************)
EXTENDS Channels, FiniteSets

CONSTANTS
  selector,  \* the thread
  SendCase   \* the case made of an ichannel; Chan are the receive cases

ASSUME SelectAssumption ==
  SendCase \notin Chan /\ {"none", "default"} \cap (Chan \cup {SendCase}) = {}

VARIABLES
  left,   \* cases the shuffle has not come to yet
  at,     \* the channel whose try_get_next is about to lock, or "none"
  given,  \* this select has a default
  ran,    \* options whose function this select has called
  watch   \* history: channels that held a value ever since this select began,
          \* and channels that were closed when it began

selectVars == <<left, at, given, ran>>

Case == Chan \cup {SendCase}

Selecting == left # {} \/ at # "none"

SelectInit ==
  /\ left = {}
  /\ at = "none"
  /\ given = FALSE
  /\ ran = {}
  /\ watch = [held |-> {}, shut |-> {}]

(* random_exec shuffles the cases; here the next one is any that is left.
   A select that is over leaves its record until the next one begins. *)
SelectBegins ==
  /\ ~Selecting
  /\ left' = Case
  /\ given' \in BOOLEAN
  /\ ran' = {}
  /\ watch' = [held |-> {c \in Chan : ~Empty(c)}, shut |-> {c \in Chan : is_closed[c]}]
  /\ UNCHANGED <<at, chanVars>>

(* The history, kept by every other step of anybody. *)
Watched == watch' = [watch EXCEPT !.held = {c \in @ : queue'[c] # <<>>}]

(* The for loop ends when a case was executed, or after the last one; then
   the default runs, if there is one and no case was executed. *)
GoOn(called, rest) ==
  /\ left' = rest
  /\ ran' = called \cup (IF rest = {} /\ given THEN {"default"} ELSE {})

Executed(c) == left' = {} /\ ran' = ran \cup {c}

SendCaseEndsSelect ==
  /\ at = "none"
  /\ SendCase \in left
  /\ Executed(SendCase)
  /\ UNCHANGED <<at, given, chanVars>>

(* A send case calls its function, which may send, and counts as not
   executed. *)
RunSendCase ==
  /\ at = "none"
  /\ SendCase \in left
  /\ GoOn(ran \cup {SendCase}, left \ {SendCase})
  /\ UNCHANGED <<at, given, chanVars>>

TryCaseUnshuffled(c) ==
  /\ at = "none"
  /\ left \cap Chan # {} /\ c = CHOOSE d \in left \cap Chan : TRUE
  /\ IF is_closed[c]
     THEN AnswerDefault(c, selector) /\ Executed(c) /\ UNCHANGED <<at, given>>
     ELSE left' = left \ {c} /\ at' = c /\ UNCHANGED <<given, ran, chanVars>>

(* A receive case: try_get_next reads the flag ... *)
TryCase(c) ==
  /\ at = "none"
  /\ c \in left
  /\ IF is_closed[c]
     THEN /\ AnswerDefault(c, selector)
          /\ Executed(c)
          /\ UNCHANGED <<at, given>>
     ELSE /\ left' = left \ {c}
          /\ at' = c
          /\ UNCHANGED <<given, ran, chanVars>>

(* ... and then locks: an empty channel's case is not executed. *)
TryLocked(c) ==
  /\ at = c
  /\ try_get_next_locked(c, selector)
  /\ at' = "none"
  /\ IF ret'[c][selector] = Null THEN GoOn(ran, left) ELSE Executed(c)
  /\ UNCHANGED given

SelectGoesOn ==
  \/ RunSendCase
  \/ \E c \in Chan : TryCase(c) \/ TryLocked(c)

(* The shuffle brings c up first. *)
FirstCase(c) == left = Case /\ TryCase(c)

-----------------------------------------------------------------------------

SelectTypeOK ==
  /\ left \subseteq Case
  /\ at \in Chan \cup {"none"}
  /\ given \in BOOLEAN
  /\ ran \subseteq Case \cup {"default"}
  /\ watch.held \subseteq Chan /\ watch.shut \subseteq Chan

(* A select that is over and received nothing has run its send case, and its
   default exactly when it has one, and passed no channel over: each was open
   when it began and empty at some moment since. *)
SelectMissesNothing ==
  (~Selecting /\ ran # {}) =>
    \/ \E c \in Chan : ran \cap (Chan \cup {"default"}) = {c}
    \/ /\ ran = IF given THEN {SendCase, "default"} ELSE {SendCase}
       /\ watch = [held |-> {}, shut |-> {}]
=============================================================================
