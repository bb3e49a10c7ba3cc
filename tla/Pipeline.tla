------------------------------ MODULE Pipeline ------------------------------
(***************************************************************************)
(* pcap_stats.cpp as threads: main reads the frames of the file and hands  *)
(* them round robin to NumWorkers get_stats threads over one channel each, *)
(* closes the channels and joins the threads.                              *)
(*                                                                         *)
(* A Packet is a pair of pointers into the pcap handle, which has one      *)
(* buffer for the frame it read last: a worker reads whatever frame is in  *)
(* it by then.  A packet in a channel is modelled by the number of the     *)
(* frame it was made for, and what a worker reads by the number of the     *)
(* frame it reads from.                                                    *)
(*                                                                         *)
(* Each channel is a channel_buffer with one receiver and one sender, at   *)
(* the granularity of ChannelBuffer (ImplementsChannelBuffer below).       *)
(***************************************************************************)
EXTENDS CircularBuffer, Headers, FiniteSets

CONSTANTS
  NumWorkers,  \* 4 in the code
  NumFrames,   \* frames in the file
  TypeBytes,   \* TypeBytes[f]: bytes 12 and 13 of frame f
  Default,     \* Packet{}: both pointers null
  Null

ASSUME PipelineAssumption ==
  /\ NumWorkers \in Nat \ {0}
  /\ NumFrames \in Nat
  /\ Item = 1 .. NumFrames
  /\ Default # Junk
  /\ TypeBytes \in [Item -> [12 .. 13 -> Byte]]

Worker == 0 .. NumWorkers - 1

VARIABLES
  held,         \* the frame in the pcap handle's buffer, 0 before the first
  main,         \* where main is
  i,            \* main's loop index
  main_asleep,  \* main sleeps in output_wait of chan[i]
  ring,         \* ring[w]: the ring of chan[w]
  is_closed,    \* is_closed[w]
  asleep,       \* asleep[w]: worker w sleeps in input_wait of chan[w]
  pc,           \* pc[w]: where worker w is
  packet,       \* packet[w]: the packet worker w works on
  seen          \* seen[w]: the frames from which w read destination, source and type

mainVars == <<held, main, i>>
vars == <<held, main, i, main_asleep, ring, is_closed, asleep, pc, packet, seen>>

Init ==
  /\ held = 0
  /\ main = "next"
  /\ i = 0
  /\ main_asleep = FALSE
  /\ ring = [w \in Worker |-> NewRing]
  /\ is_closed = [w \in Worker |-> FALSE]
  /\ asleep = [w \in Worker |-> FALSE]
  /\ pc = [w \in Worker |-> "idle"]
  /\ packet = [w \in Worker |-> Junk]
  /\ seen = [w \in Worker |-> <<>>]

-----------------------------------------------------------------------------
(* main: read and distribute *)

(* pcap_next_ex delivers a frame; insert finds the channel open, because
   only main closes it. *)
ReadFrame ==
  /\ main = "next"
  /\ held < NumFrames
  /\ held' = held + 1
  /\ main' = "ins_lock"
  /\ UNCHANGED <<i, main_asleep, ring, is_closed, asleep, pc, packet, seen>>

(* -2 at the end of the file, -1 on a read error wherever it happens. *)
StopReading ==
  /\ main = "next"
  /\ main' = "close"
  /\ i' = 0
  /\ UNCHANGED <<held, main_asleep, ring, is_closed, asleep, pc, packet, seen>>

InsertsLock ==
  /\ \/ main = "ins_lock"
     \/ main = "ins_waiting" /\ ~main_asleep
  /\ pc[i] # "get_blocking"

PushHeld ==
  /\ ring' = [ring EXCEPT ![i] = push_back(@, held)]
  /\ main' = "ins_notify"

InsertWithoutWaiting ==
  /\ InsertsLock
  /\ PushHeld
  /\ UNCHANGED <<held, i, main_asleep, is_closed, asleep, pc, packet, seen>>

(* insert with the lock, at first and after a wakeup. *)
Insert ==
  /\ InsertsLock
  /\ \/ ~full(ring[i]) /\ PushHeld
     \/ full(ring[i]) /\ main' = "ins_blocking" /\ UNCHANGED ring
  /\ UNCHANGED <<held, i, main_asleep, is_closed, asleep, pc, packet, seen>>

InsertBlock ==
  /\ main = "ins_blocking"
  /\ main' = "ins_waiting"
  /\ main_asleep' = TRUE
  /\ UNCHANGED <<held, i, ring, is_closed, asleep, pc, packet, seen>>

InsertNotifySameChannel ==
  /\ main = "ins_notify"
  /\ asleep' = [asleep EXCEPT ![i] = FALSE]
  /\ main' = "next"
  /\ UNCHANGED <<held, i, main_asleep, ring, is_closed, pc, packet, seen>>

InsertForgetsReceiver ==
  /\ main = "ins_notify"
  /\ i' = (i + 1) % NumWorkers
  /\ main' = "next"
  /\ UNCHANGED <<held, main_asleep, ring, is_closed, asleep, pc, packet, seen>>

(* Wake the receiver and move on to the next channel. *)
InsertNotify ==
  /\ main = "ins_notify"
  /\ asleep' = [asleep EXCEPT ![i] = FALSE]
  /\ i' = (i + 1) % NumWorkers
  /\ main' = "next"
  /\ UNCHANGED <<held, main_asleep, ring, is_closed, pc, packet, seen>>

-----------------------------------------------------------------------------
(* main: close and join *)

Close ==
  /\ main = "close"
  /\ is_closed' = [is_closed EXCEPT ![i] = TRUE]
  /\ main' = "close_input"
  /\ UNCHANGED <<held, i, main_asleep, ring, asleep, pc, packet, seen>>

CloseNotifyInput ==
  /\ main = "close_input"
  /\ asleep' = [asleep EXCEPT ![i] = FALSE]
  /\ main' = "close_output"
  /\ UNCHANGED <<held, i, main_asleep, ring, is_closed, pc, packet, seen>>

(* The for loops over the channels and over the futures. *)
NextOr(label, last) ==
  IF i + 1 < NumWorkers
  THEN i' = i + 1 /\ main' = label
  ELSE i' = 0 /\ main' = last

(* Nobody sleeps in output_wait: main is the only sender. *)
CloseNotifyOutput ==
  /\ main = "close_output"
  /\ NextOr("close", "join")
  /\ UNCHANGED <<held, main_asleep, ring, is_closed, asleep, pc, packet, seen>>

JoinNobody ==
  /\ main = "join"
  /\ NextOr("join", "print")
  /\ UNCHANGED <<held, main_asleep, ring, is_closed, asleep, pc, packet, seen>>

(* future.get() returns when the worker has returned. *)
Join ==
  /\ main = "join"
  /\ pc[i] = "exit"
  /\ NextOr("join", "print")
  /\ UNCHANGED <<held, main_asleep, ring, is_closed, asleep, pc, packet, seen>>

-----------------------------------------------------------------------------
(* get_stats *)

(* A packet is taken; main is woken if it sleeps on this channel. *)
Take(w) ==
  /\ packet' = [packet EXCEPT ![w] = front(ring[w])]
  /\ ring' = [ring EXCEPT ![w] = pop(SwapFront(@, Junk))]
  /\ main_asleep' = (main_asleep /\ i # w)
  /\ pc' = [pc EXCEPT ![w] = "ether"]

ReturnDefault(w) ==
  /\ packet' = [packet EXCEPT ![w] = Default]
  /\ pc' = [pc EXCEPT ![w] = "exit"]
  /\ UNCHANGED <<ring, main_asleep>>

AboutToBlock(w) ==
  /\ pc' = [pc EXCEPT ![w] = "get_blocking"]
  /\ UNCHANGED <<ring, main_asleep, packet>>

GetsLock(w) ==
  /\ \/ pc[w] = "idle"
     \/ pc[w] = "get_waiting" /\ ~asleep[w]
  /\ ~(main = "ins_blocking" /\ i = w)

GetNextClosedFirst(w) ==
  /\ GetsLock(w)
  /\ \/ is_closed[w] /\ ReturnDefault(w)
     \/ ~is_closed[w] /\ ~empty(ring[w]) /\ Take(w)
     \/ ~is_closed[w] /\ empty(ring[w]) /\ AboutToBlock(w)
  /\ UNCHANGED <<mainVars, is_closed, asleep, seen>>

(* get_next with the lock, at first and after a wakeup.  The null packet of
   a closed channel ends the worker. *)
GetNext(w) ==
  /\ GetsLock(w)
  /\ \/ ~empty(ring[w]) /\ Take(w)
     \/ empty(ring[w]) /\ is_closed[w] /\ ReturnDefault(w)
     \/ empty(ring[w]) /\ ~is_closed[w] /\ AboutToBlock(w)
  /\ UNCHANGED <<mainVars, is_closed, asleep, seen>>

GetNextBlock(w) ==
  /\ pc[w] = "get_blocking"
  /\ pc' = [pc EXCEPT ![w] = "get_waiting"]
  /\ asleep' = [asleep EXCEPT ![w] = TRUE]
  /\ UNCHANGED <<mainVars, main_asleep, ring, is_closed, packet, seen>>

(* ethernet_header(packet.data) copies the destination, the source and the type
   one after the other out of the handle's buffer, which main may refill in
   between. *)
ReadField(w) ==
  /\ pc[w] = "ether"
  /\ seen' = [seen EXCEPT ![w] = Append(@, held)]
  /\ pc' = [pc EXCEPT ![w] = IF Len(seen'[w]) = 3 THEN "count" ELSE "ether"]
  /\ UNCHANGED <<mainVars, main_asleep, ring, is_closed, asleep, packet>>

(* The type test.  What follows it, the IP and TCP counts and the merge into
   the shared maps, has no action, because no worker gets to "ip" (theorem
   NoWorkerPastTypeTest): the type is read from one byte. *)
AfterTypeTest(w) ==
  IF ethernet_next_packet_type(ether_type(TypeBytes[seen[w][3]])) = "IP"
  THEN "ip" ELSE "idle"

(* setup_map with the caplen now in the handle, and the type test. *)
Count(w) ==
  /\ pc[w] = "count"
  /\ pc' = [pc EXCEPT ![w] = AfterTypeTest(w)]
  /\ seen' = [seen EXCEPT ![w] = <<>>]
  /\ UNCHANGED <<mainVars, main_asleep, ring, is_closed, asleep, packet>>

-----------------------------------------------------------------------------

SpuriousWakeup ==
  \/ /\ main_asleep
     /\ main_asleep' = FALSE
     /\ UNCHANGED <<mainVars, ring, is_closed, asleep, pc, packet, seen>>
  \/ \E w \in Worker :
       /\ asleep[w]
       /\ asleep' = [asleep EXCEPT ![w] = FALSE]
       /\ UNCHANGED <<mainVars, main_asleep, ring, is_closed, pc, packet, seen>>

Main ==
  \/ ReadFrame \/ StopReading \/ Insert \/ InsertBlock \/ InsertNotify
  \/ Close \/ CloseNotifyInput \/ CloseNotifyOutput \/ Join

GetStats(w) == GetNext(w) \/ GetNextBlock(w) \/ ReadField(w) \/ Count(w)

(* main prints the results and returns. *)
Printing == main = "print" /\ UNCHANGED vars

Next ==
  \/ Main
  \/ \E w \in Worker : GetStats(w)
  \/ SpuriousWakeup
  \/ Printing

Spec == Init /\ [][Next]_vars

(* Every thread runs, and a thread that keeps asking for a mutex gets it.
   Nothing makes a spurious wakeup happen. *)
FairSpec == Spec /\ SF_vars(Main) /\ \A w \in Worker : SF_vars(GetStats(w))

-----------------------------------------------------------------------------

Inserting == main \in {"ins_lock", "ins_blocking", "ins_waiting"}
Working(w) == pc[w] \in {"ether", "count"}

(* Every variable has its type; no ring outgrows its array. *)
TypeOK ==
  /\ held \in 0 .. NumFrames
  /\ main \in {"next", "ins_lock", "ins_blocking", "ins_waiting", "ins_notify",
               "close", "close_input", "close_output", "join", "print"}
  /\ i \in Worker
  /\ main_asleep \in BOOLEAN
  /\ ring \in [Worker -> RingType]
  /\ is_closed \in [Worker -> BOOLEAN]
  /\ asleep \in [Worker -> BOOLEAN]
  /\ pc \in [Worker -> {"idle", "get_blocking", "get_waiting", "ether", "count", "ip", "exit"}]
  /\ packet \in [Worker -> Item \cup {Junk, Default}]
  /\ seen \in [Worker -> Seq(Item)]
  /\ \A w \in Worker : Len(seen[w]) <= 3 /\ (Working(w) => packet[w] \in Item)

(* The newest frame dealt to worker w, if any, and the packets w still has to
   finish, oldest first. *)
Dealt == IF Inserting THEN held - 1 ELSE held
Newest(w) == Dealt - ((Dealt - 1 - w) % NumWorkers)
Line(w) == (IF Working(w) THEN <<packet[w]>> ELSE <<>>) \o Contents(ring[w])

(* Frames are dealt in turn and finished in order: what worker w has in hand
   and in its channel are the last frames of its share, every NumWorkers-th
   frame, without a gap (the cursor of main's loop against the order and the
   completeness of four queues). *)
DealtInTurn ==
  \A w \in Worker : \A k \in 1 .. Len(Line(w)) :
    Line(w)[k] = Newest(w) - (Len(Line(w)) - k) * NumWorkers

(* Backpressure bounds the staleness of a packet: while a worker reads through
   its packet's pointers, the handle's buffer holds the packet's own frame or
   one at most (buffer_size + 1) * NumWorkers frames younger, and so do the
   frames it has read its fields from. *)
ReadsNearby ==
  \A w \in Worker : Working(w) =>
    \A f \in {held} \cup {seen[w][k] : k \in 1 .. Len(seen[w])} :
      f \in packet[w] .. packet[w] + (buffer_size + 1) * NumWorkers

(* main prints only after every worker is done with every frame dealt to it:
   the default packet, on which a worker stops, never overtakes a frame. *)
NothingLeftBehind ==
  main = "print" => \A w \in Worker : pc[w] = "exit" /\ empty(ring[w])

(* Each channel, seen with its worker and with main as its inserter and as
   its closer, behaves as a channel_buffer. *)
Inserter == NumWorkers
Closer == NumWorkers + 1
Nobody == NumWorkers + 2

LockOf(w) ==
  IF pc[w] = "get_blocking" THEN w
  ELSE IF main = "ins_blocking" /\ i = w THEN Inserter ELSE Nobody
InputWait(w) == IF asleep[w] THEN {w} ELSE {}
OutputWait(w) == IF main_asleep /\ i = w THEN {Inserter} ELSE {}

GetterAt(w) == IF pc[w] \in {"get_blocking", "get_waiting"} THEN pc[w] ELSE "idle"
InserterAt(w) ==
  IF i = w /\ main \in {"ins_lock", "ins_blocking", "ins_waiting", "ins_notify"}
  THEN main ELSE "idle"
CloserAt(w) == IF i = w /\ main \in {"close_input", "close_output"} THEN main ELSE "idle"
At(w) == [t \in {w, Inserter, Closer} |->
            IF t = w THEN GetterAt(w) ELSE IF t = Inserter THEN InserterAt(w) ELSE CloserAt(w)]

InHand(w) == [t \in {Inserter} |-> IF Inserting /\ i = w THEN held ELSE Junk]
Received(w) == [t \in {w} |-> IF packet[w] = Junk THEN Null ELSE packet[w]]

Buffer(w) == INSTANCE ChannelBuffer WITH
  Getters <- {w}, Pollers <- {}, Inserters <- {Inserter}, Closers <- {Closer},
  NoThread <- Nobody,
  ring <- ring[w], is_closed <- is_closed[w], buffer_lock <- LockOf(w),
  input_wait <- InputWait(w), output_wait <- OutputWait(w),
  pc <- At(w), in <- InHand(w), ret <- Received(w)

ImplementsChannelBuffer ==
  /\ \A w \in Worker : Buffer(w)!Init
  /\ [][\A w \in Worker : [Buffer(w)!Next]_(Buffer(w)!vars)]_vars

(* Worker w went to sleep after close had set the flag and sent its wakeup. *)
MissedClose(w) ==
  /\ asleep[w]
  /\ is_closed[w]
  /\ ~(main = "close_input" /\ i = w)

(* The program gets to its output unless a worker missed the close of its
   channel: there is no other way for main and the workers to wait on each
   other, neither full channels nor the order of closing and joining. *)
PrintsUnlessCloseMissed == <>(main = "print") \/ <>(\E w \in Worker : MissedClose(w))
=============================================================================
