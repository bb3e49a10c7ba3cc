--------------------------- MODULE FlowTableProofs ---------------------------
(* What setup_map does to the table, for every set of addresses and sizes
   and traces of any length. *)
EXTENDS FlowTable, NumberLemmas

(* The invariant: what the map holds, and that no entry stands for more than one
   packet though setup_map adds to the counters. *)
Counter == [packet : Nat, bytes : Nat]

TypeOK ==
  /\ DOMAIN ret \subseteq Key
  /\ \A key \in DOMAIN ret : ret[key] \in [tx : Counter, rx : Counter]
  /\ trace \in Seq(Packet)

OnePacketPerEntry ==
  \A key \in DOMAIN ret : ret[key].tx.packet + ret[key].rx.packet = 1

(* The entries of one packet. *)
LEMMA EntryTypes ==
  ASSUME NEW bytes \in Nat
  PROVE  /\ Tx(bytes) \in [tx : Counter, rx : Counter]
         /\ Rx(bytes) \in [tx : Counter, rx : Counter]
         /\ Tx(bytes).tx.packet = 1 /\ Tx(bytes).rx.packet = 0
         /\ Rx(bytes).tx.packet = 0 /\ Rx(bytes).rx.packet = 1
BY DEF Tx, Rx, Zero, Counter

(* In every branch the counters that setup_map adds to are zeros. *)
LEMMA AddsToZero ==
  ASSUME NEW key, NEW bytes \in Nat
  PROVE  /\ Open(key, bytes) => Store(key, Tx(bytes))
         /\ RecordInReverse(key, bytes) => Store(reverse_key(key), Rx(bytes))
         /\ Restart(key, bytes) => Store(key, Tx(bytes))
<1>1. /\ [send_data EXCEPT !.tx = Plus(@, bytes)] = Tx(bytes)
      /\ [send_data EXCEPT !.rx = Plus(@, bytes)] = Rx(bytes)
  BY DEF send_data, Plus, Zero, Tx, Rx
<1>2. \A k : k \notin DOMAIN ret => At(k) = send_data
  BY DEF At
<1> QED BY <1>1, <1>2 DEF Open, RecordInReverse, Restart

(* Storing an entry sets it and leaves every other entry alone. *)
LEMMA StoreType ==
  ASSUME TypeOK, NEW key \in Key, NEW entry \in [tx : Counter, rx : Counter],
         Store(key, entry)
  PROVE  /\ DOMAIN ret' = DOMAIN ret \cup {key}
         /\ ret'[key] = entry
         /\ \A k \in DOMAIN ret : k # key => ret'[k] = ret[k]
BY DEF TypeOK, Store

(* Reversing a pair twice gives the pair. *)
LEMMA ReverseKey ==
  ASSUME NEW key \in Key
  PROVE  reverse_key(key) \in Key /\ reverse_key(reverse_key(key)) = key
BY DEF Key, reverse_key

(* Every variable keeps its type. *)
LEMMA Typing == Spec => []TypeOK
<1>1. Init => TypeOK
  BY DEF Init, TypeOK
<1>2. TypeOK /\ [Next]_vars => TypeOK'
  <2> SUFFICES ASSUME TypeOK, [Next]_vars PROVE TypeOK'
    OBVIOUS
  <2>1. CASE UNCHANGED vars
    BY <2>1 DEF vars, TypeOK
  <2>2. ASSUME NEW packet \in Packet, setup_map(packet) PROVE TypeOK'
    <3>1. trace' \in Seq(Packet)
      BY <2>2 DEF setup_map, TypeOK
    <3>2. packet.key \in Key /\ packet.bytes \in Nat
      BY FlowAssumption DEF Packet
    <3>3. PICK key \in Key, entry \in [tx : Counter, rx : Counter] : Store(key, entry)
      BY <2>2, <3>2, EntryTypes, AddsToZero, ReverseKey DEF setup_map
    <3>4. DOMAIN ret' \subseteq Key
      BY <3>3, StoreType DEF TypeOK
    <3>5. \A k \in DOMAIN ret' : ret'[k] \in [tx : Counter, rx : Counter]
      BY <3>3, StoreType DEF TypeOK
    <3> QED BY <3>1, <3>4, <3>5 DEF TypeOK
  <2> QED BY <2>1, <2>2 DEF Next
<1> QED BY <1>1, <1>2, PTL DEF Spec

(* No entry ever stands for more than one packet. *)
LEMMA OnePacket == Spec => []OnePacketPerEntry
<1>1. Init => OnePacketPerEntry
  BY DEF Init, OnePacketPerEntry
<1>2. TypeOK /\ OnePacketPerEntry /\ [Next]_vars => OnePacketPerEntry'
  <2> SUFFICES ASSUME TypeOK, OnePacketPerEntry, [Next]_vars PROVE OnePacketPerEntry'
    OBVIOUS
  <2>1. CASE UNCHANGED vars
    BY <2>1 DEF vars, OnePacketPerEntry
  <2>2. ASSUME NEW packet \in Packet, setup_map(packet) PROVE OnePacketPerEntry'
    <3>1. packet.key \in Key /\ packet.bytes \in Nat
      BY FlowAssumption DEF Packet
    <3>2. PICK key \in Key, entry \in [tx : Counter, rx : Counter] :
            Store(key, entry) /\ entry.tx.packet + entry.rx.packet = 1
      <4>1. /\ Tx(packet.bytes).tx.packet + Tx(packet.bytes).rx.packet = 1
            /\ Rx(packet.bytes).tx.packet + Rx(packet.bytes).rx.packet = 1
        BY <3>1, EntryTypes
      <4>2. PICK entry \in {Tx(packet.bytes), Rx(packet.bytes)} :
              Store(packet.key, entry) \/ Store(reverse_key(packet.key), entry)
        BY <2>2, <3>1, AddsToZero DEF setup_map
      <4>3. entry \in [tx : Counter, rx : Counter] /\ entry.tx.packet + entry.rx.packet = 1
        BY <3>1, <4>1, EntryTypes
      <4> QED BY <3>1, <4>2, <4>3, ReverseKey
    <3>3. /\ DOMAIN ret' = DOMAIN ret \cup {key}
          /\ ret'[key] = entry
          /\ \A k \in DOMAIN ret : k # key => ret'[k] = ret[k]
      BY <3>2, StoreType
    <3> QED BY <3>2, <3>3 DEF OnePacketPerEntry
  <2> QED BY <2>1, <2>2 DEF Next
<1> QED BY <1>1, <1>2, Typing, PTL DEF Spec

(* An rx entry always faces a tx entry. *)
THEOREM RxFacesTx == Spec => []ReverseOfRxIsTx
<1>1. Init => ReverseOfRxIsTx
  BY DEF Init, ReverseOfRxIsTx
<1>2. TypeOK /\ OnePacketPerEntry /\ ReverseOfRxIsTx /\ [Next]_vars => ReverseOfRxIsTx'
  <2> SUFFICES ASSUME TypeOK, OnePacketPerEntry, ReverseOfRxIsTx, [Next]_vars
               PROVE  ReverseOfRxIsTx'
    OBVIOUS
  <2>1. CASE UNCHANGED vars
    BY <2>1 DEF vars, ReverseOfRxIsTx
  <2>2. ASSUME NEW packet \in Packet, setup_map(packet) PROVE ReverseOfRxIsTx'
    <3> DEFINE key == packet.key
               bytes == packet.bytes
    <3>1. key \in Key /\ bytes \in Nat
      BY FlowAssumption DEF Packet
    <3>2. reverse_key(key) \in Key /\ reverse_key(reverse_key(key)) = key
      BY <3>1, ReverseKey
    <3>3. /\ Tx(bytes) \in [tx : Counter, rx : Counter]
          /\ Rx(bytes) \in [tx : Counter, rx : Counter]
          /\ Tx(bytes).tx.packet = 1 /\ Tx(bytes).rx.packet = 0
          /\ Rx(bytes).tx.packet = 0 /\ Rx(bytes).rx.packet = 1
      BY <3>1, EntryTypes
    <3>4. CASE Store(key, Tx(bytes))
      (* The entry written is a tx entry, and an rx entry facing it keeps
         facing a tx entry. *)
      <4>1. /\ DOMAIN ret' = DOMAIN ret \cup {key}
            /\ ret'[key] = Tx(bytes)
            /\ \A k \in DOMAIN ret : k # key => ret'[k] = ret[k]
        BY <3>1, <3>3, <3>4, StoreType
      <4> QED BY <3>3, <4>1 DEF ReverseOfRxIsTx
    <3>5. CASE RecordInReverse(key, bytes)
      (* The facing entry is there and, having no facing entry itself, is a
         tx entry. *)
      <4>1. /\ DOMAIN ret' = DOMAIN ret \cup {reverse_key(key)}
            /\ ret'[reverse_key(key)] = Rx(bytes)
            /\ \A k \in DOMAIN ret : k # reverse_key(key) => ret'[k] = ret[k]
        BY <3>1, <3>2, <3>3, <3>5, AddsToZero, StoreType
      <4>2. key \in DOMAIN ret /\ reverse_key(key) \notin DOMAIN ret
        BY <3>5 DEF RecordInReverse
      <4>3. ret[key].tx.packet > 0
        BY <4>2 DEF ReverseOfRxIsTx, OnePacketPerEntry, TypeOK, Counter
      <4>4. ASSUME NEW k \in DOMAIN ret, ret[k].rx.packet > 0
            PROVE  reverse_key(k) \in DOMAIN ret /\ ret[reverse_key(k)].tx.packet > 0
        BY <4>4 DEF ReverseOfRxIsTx
      <4>5. ASSUME NEW k \in DOMAIN ret', ret'[k].rx.packet > 0
            PROVE  reverse_key(k) \in DOMAIN ret' /\ ret'[reverse_key(k)].tx.packet > 0
        <5>1. CASE k = reverse_key(key)
          BY <3>2, <4>1, <4>2, <4>3, <5>1
        <5>2. CASE k # reverse_key(key)
          BY <4>1, <4>2, <4>4, <4>5, <5>2
        <5> QED BY <5>1, <5>2
      <4> QED BY <4>5 DEF ReverseOfRxIsTx
    <3> QED BY <2>2, <3>1, <3>4, <3>5, AddsToZero DEF setup_map
  <2> QED BY <2>1, <2>2 DEF Next
<1> QED BY <1>1, <1>2, Typing, OnePacket, PTL DEF Spec

-----------------------------------------------------------------------------
(* The closed form.  A packet more changes neither which of the earlier packets
   were diverted nor what they are. *)

LEMMA Earlier ==
  ASSUME TypeOK, NEW p \in Packet, trace' = Append(trace, p)
  PROVE  /\ Len(trace) \in Nat /\ DOMAIN trace = 1 .. Len(trace)
         /\ DOMAIN trace' = 1 .. Len(trace) + 1
         /\ \A n \in DOMAIN trace : trace[n] \in Packet /\ trace'[n] = trace[n]
         /\ trace'[Len(trace) + 1] = p
         /\ \A n \in DOMAIN trace : Diverted(n)' <=> Diverted(n)
<1>1. /\ Len(trace) \in Nat /\ DOMAIN trace = 1 .. Len(trace)
      /\ DOMAIN trace' = 1 .. Len(trace) + 1
      /\ \A n \in DOMAIN trace : trace[n] \in Packet /\ trace'[n] = trace[n]
      /\ trace'[Len(trace) + 1] = p
  BY DEF TypeOK
<1>2. ASSUME NEW n \in DOMAIN trace PROVE Diverted(n)' <=> Diverted(n)
  <2>1. trace'[n] = trace[n]
    BY <1>1
  <2> DEFINE key == trace[n].key
  <2>2. \A m : m < n => (m \in Between(key)' <=> m \in Between(key))
    BY <1>1, <1>2 DEF Between
  <2>3. \A m \in Between(key) : trace'[m] = trace[m]
    BY <1>1 DEF Between
  <2> QED BY <2>1, <2>2, <2>3 DEF Diverted
<1> QED BY <1>1, <1>2

(* The next packet is diverted when it repeats the one packet there is. *)
Repeats(key) ==
  /\ key # reverse_key(key)
  /\ \E m \in Between(key) : trace[m].key = key /\ \A l \in Between(key) : l = m

LEMMA NewDiverted ==
  ASSUME TypeOK, NEW p \in Packet, trace' = Append(trace, p), NEW n \in Nat, n = Len(trace) + 1
  PROVE  Diverted(n)' <=> Repeats(p.key)
<1>1. /\ DOMAIN trace = 1 .. Len(trace) /\ DOMAIN trace' = 1 .. Len(trace) + 1
      /\ trace'[n] = p
  BY Earlier
<1>2. \A m : m \in Between(p.key)' /\ m < n <=> m \in Between(p.key)
  BY <1>1, Earlier DEF Between
<1>3. \A m \in Between(p.key) : trace'[m] = trace[m]
  BY Earlier DEF Between
<1> QED BY <1>1, <1>2, <1>3 DEF Diverted, Repeats

(* The first packet between two addresses is its own direction's. *)
LEMMA FirstIsOwn ==
  ASSUME TypeOK, NEW key \in Key, Between(key) # {}
  PROVE  \E f \in Between(key) :
           /\ \A m \in Between(key) : f <= m
           /\ f \in Own(trace[f].key) /\ trace[f].key \in {key, reverse_key(key)}
<1> DEFINE B == Between(key)
<1>1. B \in SUBSET Nat
  BY DEF Between, TypeOK
<1>2. PICK f \in B : \A m \in B : f <= m
  <2> HIDE DEF B
  <2>1. B # {}
    BY DEF B
  <2> QED BY <1>1, <2>1, LeastNatural
<1>3. f \in DOMAIN trace /\ trace[f].key \in {key, reverse_key(key)}
  BY <1>2 DEF Between
<1>4. Between(trace[f].key) = B
  BY <1>3, ReverseKey DEF Between
<1>5. ~Diverted(f)
  BY <1>1, <1>2, <1>4 DEF Diverted
<1> QED BY <1>2, <1>3, <1>5 DEF Own

(* A pair that is not in the table has no first packet to repeat, and a pair is
   not both repeated and answered. *)
LEMMA RepeatsNeedsOwn ==
  ASSUME TypeOK, NEW key \in Key, Repeats(key)
  PROVE  Own(key) # {} /\ Own(reverse_key(key)) = {} /\ DivertedTo(reverse_key(key)) = {}
<1>1. PICK m \in Between(key) : trace[m].key = key /\ \A l \in Between(key) : l = m
  BY DEF Repeats
<1>2. PICK f \in Between(key) : f \in Own(trace[f].key)
  BY <1>1, FirstIsOwn
<1>3. Own(key) # {} /\ m \in Own(key)
  BY <1>1, <1>2
<1>4. /\ reverse_key(key) # key /\ reverse_key(reverse_key(key)) = key
      /\ Between(reverse_key(key)) = Between(key)
  BY ReverseKey DEF Between, Repeats
<1>5. Own(reverse_key(key)) = {}
  BY <1>1, <1>4 DEF Own, Between
<1>6. DivertedTo(reverse_key(key)) = {}
  <2>1. SUFFICES ASSUME NEW n \in DivertedTo(reverse_key(key)) PROVE FALSE
    OBVIOUS
  <2>2. n \in DOMAIN trace /\ trace[n].key = key /\ Diverted(n)
    BY <1>4, <2>1 DEF DivertedTo
  <2>3. n \in Between(key)
    BY <2>2 DEF Between
  <2>4. n = m
    BY <1>1, <2>3
  <2> QED BY <1>3, <2>2, <2>4 DEF Own
<1> QED BY <1>3, <1>5, <1>6

(* A pair in the table whose opposite is not stands for one packet. *)
LEMMA UnansweredRepeats ==
  ASSUME TypeOK, NEW key \in Key, Own(key) \cup DivertedTo(key) # {},
         Own(reverse_key(key)) = {}, DivertedTo(reverse_key(key)) = {}
  PROVE  Repeats(key)
<1> DEFINE B == Between(key)
<1>1. /\ reverse_key(reverse_key(key)) = key
      /\ Between(reverse_key(key)) = B
      /\ B \in SUBSET Nat
  BY ReverseKey DEF Between, TypeOK
<1>2. reverse_key(key) # key
  BY DEF Own
<1>3. B # {}
  BY DEF Own, DivertedTo, Between
<1>4. PICK f \in B : /\ \A m \in B : f <= m
                     /\ f \in Own(trace[f].key) /\ trace[f].key \in {key, reverse_key(key)}
  BY <1>3, FirstIsOwn
<1>5. trace[f].key = key
  BY <1>4
<1>6. \A l \in B : l = f
  <2>1. SUFFICES ASSUME B \ {f} # {} PROVE FALSE
    OBVIOUS
  <2> DEFINE C == B \ {f}
  <2>2. C \in SUBSET Nat /\ C # {}
    BY <1>1, <2>1
  <2>3. PICK g \in C : \A m \in C : g <= m
    <3> HIDE DEF C
    <3> QED BY <2>2, LeastNatural
  <2>4. /\ g \in DOMAIN trace /\ trace[g].key \in {key, reverse_key(key)}
        /\ g \in Nat /\ f \in Nat /\ f < g
    BY <1>1, <1>4, <2>3 DEF Between
  <2>5. \A l \in B : l < g => l = f
    BY <1>1, <2>3
  <2>6. CASE trace[g].key = key
    <3>1. Diverted(g)
      BY <1>2, <1>5, <2>4, <2>5, <2>6 DEF Diverted
    <3>2. g \in DivertedTo(reverse_key(key))
      BY <1>1, <2>4, <2>6, <3>1 DEF DivertedTo
    <3> QED BY <3>2
  <2>7. CASE trace[g].key = reverse_key(key)
    <3>1. ~Diverted(g)
      BY <1>1, <1>2, <1>5, <2>4, <2>5, <2>7 DEF Diverted
    <3>2. g \in Own(reverse_key(key))
      BY <2>4, <2>7, <3>1 DEF Own
    <3> QED BY <3>2
  <2> QED BY <2>4, <2>6, <2>7
<1> QED BY <1>2, <1>5, <1>6 DEF Repeats

(* What a packet more does to the packets of an entry. *)
LEMMA NewOwn ==
  ASSUME TypeOK, NEW p \in Packet, trace' = Append(trace, p), NEW n \in Nat, n = Len(trace) + 1,
         NEW key \in Key
  PROVE  /\ Own(key)' = Own(key) \cup (IF key = p.key /\ ~Repeats(p.key) THEN {n} ELSE {})
         /\ DivertedTo(key)' = DivertedTo(key)
                \cup (IF key = reverse_key(p.key) /\ Repeats(p.key) THEN {n} ELSE {})
<1>1. Diverted(n)' <=> Repeats(p.key)
  BY NewDiverted
<1>2. /\ Len(trace) \in Nat /\ DOMAIN trace = 1 .. Len(trace)
      /\ DOMAIN trace' = 1 .. Len(trace) + 1
      /\ \A m \in DOMAIN trace : trace'[m] = trace[m]
      /\ trace'[n] = p
      /\ \A m \in DOMAIN trace : Diverted(m)' <=> Diverted(m)
  BY Earlier
<1>3. /\ p.key \in Key /\ reverse_key(reverse_key(key)) = key
      /\ reverse_key(reverse_key(p.key)) = p.key
  BY ReverseKey DEF Packet
<1>4. \A m : m \in DOMAIN trace' <=> m \in DOMAIN trace \/ m = n
  BY <1>2
<1>5. Own(key)' = Own(key) \cup (IF key = p.key /\ ~Repeats(p.key) THEN {n} ELSE {})
  BY <1>1, <1>2, <1>4 DEF Own
<1>6. DivertedTo(key)' = DivertedTo(key)
                \cup (IF key = reverse_key(p.key) /\ Repeats(p.key) THEN {n} ELSE {})
  BY <1>1, <1>2, <1>3, <1>4 DEF DivertedTo
<1> QED BY <1>5, <1>6

(* An entry as the closed form has it. *)
Entry(key) ==
  \/ \E n \in Own(key) : (\A m \in Own(key) : m <= n) /\ ret[key] = Tx(trace[n].bytes)
  \/ Own(key) = {} /\ \E n \in DivertedTo(key) : ret[key] = Rx(trace[n].bytes)

LEMMA OtherEntries ==
  ASSUME TypeOK, NEW p \in Packet, trace' = Append(trace, p), NEW key \in Key,
         Entry(key), Own(key)' = Own(key), DivertedTo(key)' = DivertedTo(key), ret'[key] = ret[key]
  PROVE  Entry(key)'
<1>1. \A n \in Own(key) \cup DivertedTo(key) : trace'[n] = trace[n]
  BY Earlier DEF Own, DivertedTo
<1> QED BY <1>1 DEF Entry

(* The table, after a trace of any length, is a function of the last packet not
   diverted in each direction, and of the one diverted. *)
THEOREM ClosedForm == Spec => []TableIsClosedForm
<1>1. Init => TableIsClosedForm
  BY DEF Init, TableIsClosedForm, Own, DivertedTo
<1>2. TypeOK /\ TableIsClosedForm /\ [Next]_vars => TableIsClosedForm'
  <2> SUFFICES ASSUME TypeOK, TableIsClosedForm, [Next]_vars PROVE TableIsClosedForm'
    OBVIOUS
  <2>1. CASE UNCHANGED vars
    BY <2>1 DEF vars, TableIsClosedForm, Own, DivertedTo, Diverted, Between
  <2>2. ASSUME NEW packet \in Packet, setup_map(packet) PROVE TableIsClosedForm'
    <3>1. PICK key \in Key : key = packet.key
      BY DEF Packet
    <3>2. PICK rev \in Key : /\ rev = reverse_key(key) /\ reverse_key(rev) = key
                             /\ rev = reverse_key(packet.key)
      BY <3>1, ReverseKey
    <3>3. PICK n \in Nat : n = Len(trace) + 1
      BY DEF TypeOK
    <3>4. trace' = Append(trace, packet)
      BY <2>2 DEF setup_map
    <3>5. /\ \A m \in DOMAIN trace : m < n
          /\ trace'[n] = packet
      BY <3>3, <3>4, Earlier
    <3>6. /\ DOMAIN ret = {k \in Key : Own(k) \cup DivertedTo(k) # {}}
          /\ \A k \in DOMAIN ret : Entry(k)
      BY DEF TableIsClosedForm, Entry
    <3>7. /\ packet.bytes \in Nat
          /\ Tx(packet.bytes) \in [tx : Counter, rx : Counter]
          /\ Rx(packet.bytes) \in [tx : Counter, rx : Counter]
      BY EntryTypes, FlowAssumption DEF Packet
    <3>8. SUFFICES /\ DOMAIN ret' = {k \in Key : Own(k)' \cup DivertedTo(k)' # {}}
                   /\ \A k \in DOMAIN ret' : Entry(k)'
      BY DEF TableIsClosedForm, Entry
    <3>9. CASE Store(key, Tx(packet.bytes)) /\ ~Repeats(key)
      <4>1. \A k \in Key : /\ Own(k)' = Own(k) \cup (IF k = key THEN {n} ELSE {})
                           /\ DivertedTo(k)' = DivertedTo(k)
        <5>1. ~Repeats(packet.key)
          BY <3>1, <3>9
        <5>2. SUFFICES ASSUME NEW k \in Key
                       PROVE  /\ Own(k)' = Own(k) \cup (IF k = key THEN {n} ELSE {})
                              /\ DivertedTo(k)' = DivertedTo(k)
          OBVIOUS
        <5>3. /\ Own(k)' = Own(k) \cup (IF k = packet.key /\ ~Repeats(packet.key) THEN {n} ELSE {})
              /\ DivertedTo(k)' = DivertedTo(k)
                     \cup (IF k = reverse_key(packet.key) /\ Repeats(packet.key) THEN {n} ELSE {})
          BY <3>3, <3>4, NewOwn
        <5> QED BY <3>1, <5>1, <5>3
      <4>2. /\ DOMAIN ret' = DOMAIN ret \cup {key} /\ ret'[key] = Tx(packet.bytes)
            /\ \A k \in DOMAIN ret : k # key => ret'[k] = ret[k]
        BY <3>7, <3>9, StoreType
      <4>3. DOMAIN ret' = {k \in Key : Own(k)' \cup DivertedTo(k)' # {}}
        BY <3>6, <4>1, <4>2
      <4>4. Entry(key)'
        <5>1. \A m \in Own(key)' : m <= n
          BY <3>5, <4>1 DEF Own, TypeOK
        <5> QED BY <3>5, <4>1, <4>2, <5>1 DEF Entry
      <4>5. ASSUME NEW k \in DOMAIN ret, k # key PROVE Entry(k)'
        <5>1. /\ k \in Key /\ Own(k)' = Own(k) /\ DivertedTo(k)' = DivertedTo(k)
              /\ ret'[k] = ret[k] /\ Entry(k)
          BY <3>6, <4>1, <4>2, <4>5
        <5> QED BY <3>4, <5>1, OtherEntries
      <4> QED BY <4>2, <4>3, <4>4, <4>5
    <3>10. CASE /\ Store(rev, Rx(packet.bytes)) /\ Repeats(key)
                /\ Own(rev) = {} /\ DivertedTo(rev) = {}
      <4>1. \A k \in Key : /\ Own(k)' = Own(k)
                           /\ DivertedTo(k)' = DivertedTo(k) \cup (IF k = rev THEN {n} ELSE {})
        <5>1. Repeats(packet.key)
          BY <3>1, <3>10
        <5>2. SUFFICES ASSUME NEW k \in Key
                       PROVE  /\ Own(k)' = Own(k)
                              /\ DivertedTo(k)' = DivertedTo(k) \cup (IF k = rev THEN {n} ELSE {})
          OBVIOUS
        <5>3. /\ Own(k)' = Own(k) \cup (IF k = packet.key /\ ~Repeats(packet.key) THEN {n} ELSE {})
              /\ DivertedTo(k)' = DivertedTo(k)
                     \cup (IF k = reverse_key(packet.key) /\ Repeats(packet.key) THEN {n} ELSE {})
          BY <3>3, <3>4, NewOwn
        <5> QED BY <3>2, <5>1, <5>3
      <4>2. /\ DOMAIN ret' = DOMAIN ret \cup {rev} /\ ret'[rev] = Rx(packet.bytes)
            /\ \A k \in DOMAIN ret : k # rev => ret'[k] = ret[k]
        BY <3>7, <3>10, StoreType
      <4>3. DOMAIN ret' = {k \in Key : Own(k)' \cup DivertedTo(k)' # {}}
        BY <3>6, <4>1, <4>2
      <4>4. Entry(rev)'
        BY <3>5, <3>10, <4>1, <4>2 DEF Entry
      <4>5. ASSUME NEW k \in DOMAIN ret, k # rev PROVE Entry(k)'
        <5>1. /\ k \in Key /\ Own(k)' = Own(k) /\ DivertedTo(k)' = DivertedTo(k)
              /\ ret'[k] = ret[k] /\ Entry(k)
          BY <3>6, <4>1, <4>2, <4>5
        <5> QED BY <3>4, <5>1, OtherEntries
      <4> QED BY <4>2, <4>3, <4>4, <4>5
    <3>11. CASE Open(key, packet.bytes)
      <4>1. Own(key) = {} /\ Store(key, Tx(packet.bytes))
        BY <3>6, <3>7, <3>11, AddsToZero DEF Open
      <4>2. ~Repeats(key)
        BY <4>1, RepeatsNeedsOwn
      <4> QED BY <3>9, <4>1, <4>2
    <3>12. CASE Restart(key, packet.bytes)
      <4>1. Own(rev) \cup DivertedTo(rev) # {} /\ Store(key, Tx(packet.bytes))
        BY <3>2, <3>6, <3>7, <3>12, AddsToZero DEF Restart
      <4>2. ~Repeats(key)
        BY <3>2, <4>1, RepeatsNeedsOwn
      <4> QED BY <3>9, <4>1, <4>2
    <3>13. CASE RecordInReverse(key, packet.bytes)
      <4>1. /\ Own(key) \cup DivertedTo(key) # {}
            /\ Own(rev) = {} /\ DivertedTo(rev) = {}
        BY <3>2, <3>6, <3>13 DEF RecordInReverse
      <4>2. Repeats(key)
        BY <3>2, <4>1, UnansweredRepeats
      <4>3. Store(rev, Rx(packet.bytes))
        BY <3>2, <3>7, <3>13, AddsToZero
      <4> QED BY <3>10, <4>1, <4>2, <4>3
    <3> QED BY <2>2, <3>1, <3>11, <3>12, <3>13 DEF setup_map
  <2> QED BY <2>1, <2>2 DEF Next
<1> QED BY <1>1, <1>2, Typing, PTL DEF Spec
=============================================================================
