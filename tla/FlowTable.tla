----------------------------- MODULE FlowTable ------------------------------
(***************************************************************************)
(* The table a worker keeps per protocol (mac_stat, ip_stat, port_stat):   *)
(* one entry per ordered pair of addresses, updated by setup_map for every *)
(* packet.  An address is what to_string made of it; only equality counts. *)
(***************************************************************************)
EXTENDS Naturals, Sequences

CONSTANTS
  Address,
  Size,       \* the caplens of the packets
  MaxPackets  \* bound on the packets of a trace

ASSUME FlowAssumption == Size \subseteq Nat /\ MaxPackets \in Nat

Key == Address \X Address
reverse_key(key) == <<key[2], key[1]>>
Packet == [key : Key, bytes : Size]

VARIABLES
  ret,   \* the std::map
  trace  \* the packets so far, in order (history)

vars == <<ret, trace>>

Init == ret = [key \in {} |-> 0] /\ trace = <<>>

-----------------------------------------------------------------------------

Zero == [packet |-> 0, bytes |-> 0]

send_data == [tx |-> Zero, rx |-> Zero]

(* ret[key] as C++ reads it: a key that is not there is given zeros. *)
At(key) == IF key \in DOMAIN ret THEN ret[key] ELSE send_data

(* bytes += ..., packet += 1 *)
Plus(counter, bytes) == [packet |-> counter.packet + 1, bytes |-> counter.bytes + bytes]

(* ret[key] = entry, the key being there or not. *)
Store(key, entry) ==
  ret' = [k \in DOMAIN ret \cup {key} |-> IF k = key THEN entry ELSE ret[k]]

(* The first packet of an ordered pair. *)
Open(key, bytes) ==
  /\ key \notin DOMAIN ret
  /\ Store(key, [At(key) EXCEPT !.tx = Plus(@, bytes)])

RecordInOwnEntry(key, bytes) ==
  /\ key \in DOMAIN ret
  /\ reverse_key(key) \notin DOMAIN ret
  /\ Store(key, [At(key) EXCEPT !.rx = Plus(@, bytes)])

(* The pair is known and the opposite pair is not: the packet goes to the rx
   side of the opposite pair. *)
RecordInReverse(key, bytes) ==
  /\ key \in DOMAIN ret
  /\ reverse_key(key) \notin DOMAIN ret
  /\ Store(reverse_key(key), [At(reverse_key(key)) EXCEPT !.rx = Plus(@, bytes)])

RestartWithoutReset(key, bytes) ==
  /\ {key, reverse_key(key)} \subseteq DOMAIN ret
  /\ Store(key, [At(key) EXCEPT !.tx = Plus(@, bytes)])

(* Both are known: the entry is reset before the packet is added. *)
Restart(key, bytes) ==
  /\ {key, reverse_key(key)} \subseteq DOMAIN ret
  /\ Store(key, [send_data EXCEPT !.tx = Plus(@, bytes)])

setup_map(packet) ==
  /\ Len(trace) < MaxPackets
  /\ trace' = Append(trace, packet)
  /\ \/ Open(packet.key, packet.bytes)
     \/ RecordInReverse(packet.key, packet.bytes)
     \/ Restart(packet.key, packet.bytes)

Next == \E packet \in Packet : setup_map(packet)

Spec == Init /\ [][Next]_vars

-----------------------------------------------------------------------------

(* An rx entry is always the answer side of a pair that sent: the opposite
   entry exists and is a tx entry, although both are overwritten later. *)
ReverseOfRxIsTx ==
  \A key \in DOMAIN ret : ret[key].rx.packet > 0 =>
    /\ reverse_key(key) \in DOMAIN ret
    /\ ret[reverse_key(key)].tx.packet > 0

(* The table in closed form.  A packet is diverted to the opposite entry when
   it repeats the direction of the only packet before it between its two
   addresses.  An entry holds the last packet of its own direction that was
   not diverted, else the diverted one, else it is not there: the counters are
   added to, and never get past one packet. *)
Tx(bytes) == [tx |-> [packet |-> 1, bytes |-> bytes], rx |-> Zero]
Rx(bytes) == [tx |-> Zero, rx |-> [packet |-> 1, bytes |-> bytes]]

Between(key) == {n \in DOMAIN trace : trace[n].key \in {key, reverse_key(key)}}

Diverted(n) ==
  LET key == trace[n].key IN
  /\ key # reverse_key(key)
  /\ \E m \in Between(key) :
       /\ m < n /\ trace[m].key = key
       /\ \A l \in Between(key) : l < n => l = m

Own(key) == {n \in DOMAIN trace : trace[n].key = key /\ ~Diverted(n)}

DivertedTo(key) == {n \in DOMAIN trace : trace[n].key = reverse_key(key) /\ Diverted(n)}

TableIsClosedForm ==
  /\ DOMAIN ret = {key \in Key : Own(key) \cup DivertedTo(key) # {}}
  /\ \A key \in DOMAIN ret :
       \/ \E n \in Own(key) : (\A m \in Own(key) : m <= n) /\ ret[key] = Tx(trace[n].bytes)
       \/ Own(key) = {} /\ \E n \in DivertedTo(key) : ret[key] = Rx(trace[n].bytes)

Sent(key) == Len(SelectSeq(trace, LAMBDA p : p.key = key))

Counted(key) == ret[key].tx.packet + ret[key].rx.packet

(* Whichever columns are read, no packet is missing from both rows of a pair
   of addresses: the four counters add up to the packets between the two, or
   to more. *)
EveryPacketCounted ==
  \A key \in DOMAIN ret : reverse_key(key) \in DOMAIN ret \ {key} =>
    Sent(key) + Sent(reverse_key(key)) <= Counted(key) + Counted(reverse_key(key))
=============================================================================
