--------------------------- MODULE PipelineProofs ---------------------------
(* What the getters answer for a header taken from the bytes of a frame,
   against the fields of the wire format, for every content of the frame.
   Then the program, for any number of workers, frames and slots: type
   correctness, that no worker gets past the type test, that main prints only
   when every frame it dealt is counted, and the order of the frames: what a
   worker has in hand and in its channel are the last frames of its share,
   without a gap, and what it reads is not far from them.  Last, that each
   channel in the program is a ChannelBuffer. *)
EXTENDS Pipeline, CircularBufferLemmas

-----------------------------------------------------------------------------
(* Headers. *)

(* The 16-bit field at an offset, as it is on the wire. *)
Wire16(data, at) == data[at] * 256 + data[at + 1]

Frame == [Nat -> Byte]

(* Swapping exchanges the two bytes of a 16-bit value. *)
THEOREM Bswap16Exchanges ==
  ASSUME NEW high \in Byte, NEW low \in Byte
  PROVE  bswap16(high * 256 + low) = low * 256 + high
<1>1. (high * 256 + low) % 256 = low /\ (high * 256 + low) \div 256 = high
  BY SMT DEF Byte
<1>2. high % 256 = high
  BY SMT DEF Byte
<1> QED
  BY <1>1, <1>2, SMT DEF bswap16, Byte

(* The type field of an ethernet header is read from one byte, so that no
   frame counts as IP, ARP or RARP: get_stats never gets past the type test. *)
THEOREM NoFrameIsIP ==
  ASSUME NEW data \in Frame
  PROVE  ethernet_next_packet_type(ethernet_header(data).ether_type) = "UNKNOWN"
<1>1. ethernet_header(data).ether_type \in 0 .. 255
  BY DEF Frame, Byte, ethernet_header, ether_type
<1> QED
  BY <1>1 DEF ethernet_next_packet_type, ETHER_TYPE_IP, ETHER_TYPE_ARP, ETHER_TYPE_RARP

(* A header whose type was set, not read, is recognised. *)
THEOREM SetTypeIsRecognised ==
  ASSUME NEW data \in Frame
  PROVE  LET h == set_ether_type(ethernet_header(data), ETHER_TYPE_IP) IN
         ethernet_next_packet_type(h.ether_type) = "IP"
BY SMT DEF set_ether_type, ethernet_header, ethernet_next_packet_type,
  ETHER_TYPE_IP, ETHER_TYPE_ARP, ETHER_TYPE_RARP

(* The addresses of an ethernet header are those of the frame. *)
THEOREM MacAddressesAreTheFrames ==
  ASSUME NEW data \in Frame
  PROVE  LET h == ethernet_header_copy(ethernet_header(data)) IN
         \A j \in 0 .. 5 : h.destination[j] = data[j] /\ h.source[j] = data[6 + j]
BY DEF Frame, ethernet_header, ethernet_header_copy, mac_address, mac_address_copy

(* What a getter answers that swaps the bytes of a field read from one byte. *)
LEMMA SwappedHighByte ==
  ASSUME NEW high \in Byte, NEW low \in Byte
  PROVE  bswap16(high) = (high * 256 + low) - low
<1>1. high % 256 = high /\ high \div 256 = 0
  BY SMT DEF Byte
<1>2. bswap16(high) = high * 256
  BY <1>1, SMT DEF bswap16, Byte
<1> QED
  BY <1>2, SMT DEF Byte

(* Length, identification and checksum of an IP header, and the ports of a TCP
   header as get_stats prints them, are the wire's rounded down to a multiple
   of 256: the second byte is never read. *)
THEOREM LowByteIsLost ==
  ASSUME NEW data \in Frame
  PROVE  /\ get_length(ip_header(data)) = Wire16(data, 2) - data[3]
         /\ get_id(ip_header(data)) = Wire16(data, 4) - data[5]
         /\ get_checksum(ip_header(data)) = Wire16(data, 10) - data[11]
         /\ src_port_name(tcp_header(data)) = Wire16(data, 0) - data[1]
         /\ des_port_name(tcp_header(data)) = Wire16(data, 2) - data[3]
<1>1. \A j \in Nat : data[j] \in Byte
  BY SMT DEF Frame
<1>2. \A j \in Nat : bswap16(data[j]) = Wire16(data, j) - data[j + 1]
  BY <1>1, SwappedHighByte, SMT DEF Wire16
<1>3. /\ bswap16(data[0]) = Wire16(data, 0) - data[0 + 1]
      /\ bswap16(data[2]) = Wire16(data, 2) - data[2 + 1]
      /\ bswap16(data[4]) = Wire16(data, 4) - data[4 + 1]
      /\ bswap16(data[10]) = Wire16(data, 10) - data[10 + 1]
  BY <1>2
<1>4. 0 + 1 = 1 /\ 2 + 1 = 3 /\ 4 + 1 = 5 /\ 10 + 1 = 11
  BY SMT
<1>5. /\ ip_header(data).ip_length = data[2]
      /\ ip_header(data).ip_id = data[4]
      /\ ip_header(data).ip_check_sum = data[10]
      /\ tcp_header(data).src_port = data[0]
      /\ tcp_header(data).des_port = data[2]
  BY SMT DEF ip_header, tcp_header
<1> QED
  BY <1>3, <1>4, <1>5 DEF get_length, get_id, get_checksum, src_port_name, des_port_name

(* The fields that share a 16-bit word are taken from its first byte alone:
   fragment flags and TCP header length are always 0, the TCP flags are the
   low bits of the byte before the flags. *)
THEOREM SharedWordsAreMisread ==
  ASSUME NEW data \in Frame
  PROVE  /\ get_flag(ip_header(data)) = 0
         /\ get_frag_offset(ip_header(data)) = data[6]
         /\ tcp_header_length(tcp_header(data)) = 0
         /\ tcp_reserved(tcp_header(data)) = data[12] \div 64
         /\ tcp_flags(tcp_header(data)) = data[12] % 64
<1>1. data[6] \in 0 .. 255 /\ data[12] \in 0 .. 255
  BY DEF Frame, Byte
<1>2. \A b \in 0 .. 255 : b \div 8192 = 0 /\ b % 8192 = b /\ b \div 4096 = 0
  BY SMT
<1>3. \A b \in 0 .. 255 : (b \div 64) % 64 = b \div 64
  BY SMT
<1> QED
  BY <1>1, <1>2, <1>3, SMT DEF get_flag, get_frag_offset, tcp_header_length, tcp_reserved,
     tcp_flags, ip_header, tcp_header

(* The fields of one byte are the frame's: version and header length, time to
   live, and the protocol that tells TCP from UDP. *)
THEOREM ByteFieldsAreTheFrames ==
  ASSUME NEW data \in Frame
  PROVE  LET h == ip_header_copy(ip_header(data)) IN
         /\ get_version(h) = data[0] \div 16
         /\ get_header_length(h) = data[0] % 16
         /\ h.ip_ttl = data[8]
         /\ ip_next_packet_type(h) = "TCP" <=> data[9] = 6
         /\ ip_next_packet_type(h) = "UDP" <=> data[9] = 17
<1> DEFINE h == ip_header_copy(ip_header(data))
<1>1. /\ h.header_length_and_version = data[0]
      /\ h.ip_ttl = data[8] /\ h.ip_proto = data[9]
  BY SMT DEF ip_header, ip_header_copy
<1> HIDE DEF h
<1>2. /\ ip_next_packet_type(h) = "TCP" <=> data[9] = 6
      /\ ip_next_packet_type(h) = "UDP" <=> data[9] = 17
  BY <1>1, SMT DEF ip_next_packet_type, IP_PROTO_TCP, IP_PROTO_UDP
<1>3. get_version(h) = data[0] \div 16 /\ get_header_length(h) = data[0] % 16
  BY <1>1 DEF get_version, get_header_length
<1> QED BY <1>1, <1>2, <1>3 DEF h

(* Copying a TCP header changes no field. *)
THEOREM TcpCopyIsFaithful ==
  ASSUME NEW data \in Frame
  PROVE  tcp_header_copy(tcp_header(data)) = tcp_header(data)
BY SMT DEF tcp_header, tcp_header_copy

-----------------------------------------------------------------------------
(* The program. *)

Reading == {"next", "ins_lock", "ins_blocking", "ins_waiting", "ins_notify"}

(* The rings are well formed, and a frame number in a ring, in main's hand or
   in a worker's is that of a frame read: the handle is not empty then. *)
FramesOK ==
  /\ \A w \in Worker : RingOK(ring[w])
  /\ held = 0 => /\ ~Inserting
                 /\ \A w \in Worker : empty(ring[w]) /\ ~Working(w)

(* How many fields a worker has read, by where it is. *)
SeenOK ==
  \A w \in Worker :
    /\ pc[w] = "count" => Len(seen[w]) = 3
    /\ pc[w] = "ether" => Len(seen[w]) \in {0, 1, 2}
    /\ ~Working(w) => seen[w] = <<>>

(* A worker stops at an empty closed channel only, and a channel is closed
   only when main reads no more; main waits for the workers one by one. *)
PhasesOK ==
  /\ \A w \in Worker :
       /\ is_closed[w] => main \notin Reading
       /\ pc[w] = "exit" => is_closed[w] /\ empty(ring[w])
       /\ main = "join" /\ w < i => pc[w] = "exit"
       /\ main = "print" => pc[w] = "exit"

(* No worker is past the type test. *)
NoneAtIP == \A w \in Worker : pc[w] # "ip"

(* The inductive invariant. *)
Inv == TypeOK /\ FramesOK /\ SeenOK /\ NoneAtIP /\ PhasesOK

(* Whatever two bytes it takes the type from, the test of a worker that has
   read its fields fails. *)
LEMMA TestFails ==
  ASSUME NEW f \in Item
  PROVE  ethernet_next_packet_type(ether_type(TypeBytes[f])) # "IP"
<1>1. TypeBytes[f] \in [12 .. 13 -> Byte] /\ 12 \in 12 .. 13
  BY PipelineAssumption
<1>2. ether_type(TypeBytes[f]) \in 0 .. 255
  BY <1>1 DEF ether_type, Byte
<1> QED
  BY <1>2 DEF ethernet_next_packet_type, ETHER_TYPE_IP, ETHER_TYPE_ARP, ETHER_TYPE_RARP

(* The invariant holds at first. *)
LEMMA InvInit == Init => Inv
<1> SUFFICES ASSUME Init PROVE Inv
  OBVIOUS
<1>1. RingOK(NewRing) /\ NewRing \in RingType /\ empty(NewRing)
  BY NewRingOK, RingParts DEF NewRing, empty
<1>2. 0 \in Worker /\ 0 \in 0 .. NumFrames
  BY PipelineAssumption DEF Worker
<1>3. TypeOK
  BY <1>1, <1>2 DEF Init, TypeOK, Working
<1>4. FramesOK /\ NoneAtIP
  BY <1>1 DEF Init, FramesOK, NoneAtIP, Inserting, Working
<1>5. SeenOK
  BY DEF Init, SeenOK, Working
<1>6. PhasesOK
  BY DEF Init, PhasesOK
<1> QED BY <1>3, <1>4, <1>5, <1>6 DEF Inv

-----------------------------------------------------------------------------
(* The steps of main. *)

(* ReadFrame keeps the invariant: the handle holds a frame from then on. *)
LEMMA ReadFrameInv == Inv /\ ReadFrame => Inv'
<1> SUFFICES ASSUME Inv, ReadFrame PROVE Inv'
  OBVIOUS
<1>1. held' \in 1 .. NumFrames /\ held' # 0
  BY PipelineAssumption DEF Inv, TypeOK, ReadFrame
<1>2. TypeOK'
  BY <1>1 DEF Inv, TypeOK, ReadFrame, Working
<1>3. FramesOK'
  BY <1>1 DEF Inv, FramesOK, ReadFrame
<1>4. SeenOK' /\ NoneAtIP'
  BY DEF Inv, SeenOK, NoneAtIP, ReadFrame, Working
<1>5. PhasesOK'
  BY DEF Inv, PhasesOK, Reading, ReadFrame
<1> QED BY <1>2, <1>3, <1>4, <1>5 DEF Inv

(* Insert keeps the invariant: the frame pushed is the one in the handle, and
   no worker has stopped. *)
LEMMA InsertInv == Inv /\ Insert => Inv'
<1> SUFFICES ASSUME Inv, Insert PROVE Inv'
  OBVIOUS
<1>1. /\ i \in Worker /\ held \in Item /\ main \in Reading
      /\ ring \in [Worker -> RingType] /\ RingOK(ring[i])
  BY PipelineAssumption
  DEF Inv, TypeOK, FramesOK, Insert, InsertsLock, Inserting, Reading
<1>2. /\ ring' \in [Worker -> RingType]
      /\ \A w \in Worker : RingOK(ring'[w]) /\ (w # i => ring'[w] = ring[w])
      /\ main' \in {"ins_notify", "ins_blocking"}
  <2>1. CASE ~full(ring[i]) /\ PushHeld
    <3> DEFINE q == push_back(ring[i], held)
    <3>1. RingOK(q) /\ q \in RingType
      BY <1>1, <2>1, PushBackOK, RingParts
    <3>2. ring' = [ring EXCEPT ![i] = q] /\ main' = "ins_notify"
      BY <2>1 DEF PushHeld
    <3> HIDE DEF q
    <3> QED BY <1>1, <3>1, <3>2 DEF Inv, FramesOK
  <2>2. CASE full(ring[i]) /\ main' = "ins_blocking" /\ UNCHANGED ring
    BY <1>1, <2>2 DEF Inv, FramesOK
  <2> QED BY <2>1, <2>2 DEF Insert
<1>3. UNCHANGED <<held, i, main_asleep, is_closed, asleep, pc, packet, seen>>
  BY DEF Insert
<1>4. TypeOK'
  BY <1>2, <1>3 DEF Inv, TypeOK, Working
<1>5. FramesOK'
  BY <1>1, <1>2, <1>3, PipelineAssumption DEF FramesOK
<1>6. SeenOK' /\ NoneAtIP'
  BY <1>3 DEF Inv, SeenOK, NoneAtIP, Working
<1>7. \A w \in Worker : ~is_closed[w] /\ pc[w] # "exit"
  BY <1>1 DEF Inv, PhasesOK
<1>8. PhasesOK'
  BY <1>2, <1>3, <1>7 DEF PhasesOK
<1> QED BY <1>4, <1>5, <1>6, <1>8 DEF Inv

(* The steps of main that change no ring and touch no worker's hand. *)
LEMMA QuietMainInv ==
  ASSUME Inv,
         \/ StopReading \/ InsertBlock \/ InsertNotify
         \/ CloseNotifyInput \/ CloseNotifyOutput \/ Join
  PROVE  Inv'
<1>1. UNCHANGED <<held, ring, is_closed, pc, packet, seen>>
  BY DEF StopReading, InsertBlock, InsertNotify, CloseNotifyInput,
     CloseNotifyOutput, Join
<1>2. 0 \in Worker /\ (i + 1) % NumWorkers \in Worker
      /\ (i + 1 < NumWorkers => i + 1 \in Worker)
  BY PipelineAssumption DEF Inv, TypeOK, Worker
<1>3. TypeOK'
  BY <1>1, <1>2
  DEF Inv, TypeOK, Working, StopReading, InsertBlock, InsertNotify,
      CloseNotifyInput, CloseNotifyOutput, Join, NextOr
<1>4. FramesOK'
  BY <1>1
  DEF Inv, FramesOK, Working, Inserting, StopReading, InsertBlock, InsertNotify,
      CloseNotifyInput, CloseNotifyOutput, Join, NextOr
<1>5. SeenOK' /\ NoneAtIP'
  BY <1>1 DEF Inv, SeenOK, NoneAtIP, Working
<1>6. PhasesOK'
  <2>1. CASE StopReading \/ InsertBlock \/ InsertNotify \/ CloseNotifyInput
    BY <1>1, <2>1
    DEF Inv, PhasesOK, Reading, StopReading, InsertBlock, InsertNotify, CloseNotifyInput
  <2>2. CASE CloseNotifyOutput
    BY <1>1, <2>2
    DEF Inv, TypeOK, Worker, PhasesOK, Reading, CloseNotifyOutput, NextOr
  <2>3. CASE Join
    <3>1. /\ main = "join" /\ pc[i] = "exit" /\ main' \in {"join", "print"}
          /\ main' = "join" => i' = i + 1
          /\ main' = "print" => ~(i + 1 < NumWorkers)
      BY <2>3 DEF Join, NextOr
    <3>2. i \in Int /\ NumWorkers \in Int /\ \A w \in Worker : w \in Int /\ w < NumWorkers
      BY PipelineAssumption DEF Inv, TypeOK, Worker
    <3>3. \A w \in Worker : w <= i => pc[w] = "exit"
      BY <3>1, <3>2 DEF Inv, PhasesOK
    <3>4. \A w \in Worker : /\ main' = "join" /\ w < i' => pc[w] = "exit"
                            /\ main' = "print" => pc[w] = "exit"
      BY <3>1, <3>2, <3>3
    <3> QED BY <1>1, <3>1, <3>4 DEF Inv, PhasesOK, Reading
  <2> QED BY <2>1, <2>2, <2>3
<1> QED BY <1>3, <1>4, <1>5, <1>6 DEF Inv

(* Close keeps the invariant: main reads no more. *)
LEMMA CloseInv == Inv /\ Close => Inv'
<1> SUFFICES ASSUME Inv, Close PROVE Inv'
  OBVIOUS
<1>1. TypeOK'
  BY DEF Inv, TypeOK, Close, Working
<1>2. FramesOK' /\ SeenOK' /\ NoneAtIP'
  BY DEF Inv, FramesOK, SeenOK, NoneAtIP, Close, Working, Inserting
<1>3. PhasesOK'
  BY DEF Inv, TypeOK, PhasesOK, Reading, Close
<1> QED BY <1>1, <1>2, <1>3 DEF Inv

-----------------------------------------------------------------------------
(* The steps of a worker. *)

(* GetNext keeps the invariant: a packet taken is a frame's, and a worker
   stops only at a closed and empty channel. *)
LEMMA GetNextInv ==
  ASSUME Inv, NEW w \in Worker, GetNext(w)
  PROVE  Inv'
<1>1. /\ pc[w] \in {"idle", "get_waiting"} /\ RingOK(ring[w])
      /\ ring \in [Worker -> RingType]
      /\ ~Working(w) /\ seen[w] = <<>>
  BY DEF Inv, TypeOK, FramesOK, SeenOK, GetNext, GetsLock, Working
<1>2. UNCHANGED <<held, main, i, is_closed, asleep, seen>>
  BY DEF GetNext, mainVars
<1>3. CASE ~empty(ring[w]) /\ Take(w)
  <2> DEFINE q == pop(SwapFront(ring[w], Junk))
  <2>1. RingOK(q) /\ q \in RingType /\ front(ring[w]) \in Item
    BY <1>1, <1>3, PopOK, RingParts
  <2>2. /\ ring' = [ring EXCEPT ![w] = q]
        /\ packet' = [packet EXCEPT ![w] = front(ring[w])]
        /\ pc' = [pc EXCEPT ![w] = "ether"]
        /\ main_asleep' = (main_asleep /\ i # w)
    BY <1>3 DEF Take
  <2> HIDE DEF q
  <2>3. main_asleep' \in BOOLEAN
    BY <2>2
  <2>4. TypeOK'
    BY <1>2, <2>1, <2>2, <2>3 DEF Inv, TypeOK, Working
  <2>5. held # 0
    BY <1>3 DEF Inv, FramesOK
  <2>6. FramesOK'
    BY <1>1, <1>2, <2>1, <2>2, <2>5 DEF Inv, FramesOK
  <2>7. SeenOK' /\ NoneAtIP'
    BY <1>1, <1>2, <2>2 DEF Inv, SeenOK, NoneAtIP, Working
  <2>8. pc[w] # "exit" /\ main # "print" /\ ~(main = "join" /\ w < i)
    BY <1>1 DEF Inv, PhasesOK
  <2>9. PhasesOK'
    BY <1>1, <1>2, <2>2, <2>8 DEF Inv, PhasesOK
  <2> QED BY <2>4, <2>6, <2>7, <2>9 DEF Inv
<1>4. CASE empty(ring[w]) /\ is_closed[w] /\ ReturnDefault(w)
  <2>1. TypeOK'
    BY <1>2, <1>4 DEF Inv, TypeOK, Working, ReturnDefault
  <2>2. FramesOK'
    BY <1>1, <1>2, <1>4 DEF Inv, FramesOK, Inserting, Working, ReturnDefault
  <2>3. SeenOK' /\ NoneAtIP'
    BY <1>1, <1>2, <1>4 DEF Inv, SeenOK, NoneAtIP, Working, ReturnDefault
  <2>4. PhasesOK'
    BY <1>1, <1>2, <1>4 DEF Inv, PhasesOK, ReturnDefault
  <2> QED BY <2>1, <2>2, <2>3, <2>4 DEF Inv
<1>5. CASE empty(ring[w]) /\ ~is_closed[w] /\ AboutToBlock(w)
  <2>1. TypeOK'
    BY <1>2, <1>5 DEF Inv, TypeOK, Working, AboutToBlock
  <2>2. FramesOK'
    BY <1>1, <1>2, <1>5 DEF Inv, FramesOK, Inserting, Working, AboutToBlock
  <2>3. SeenOK' /\ NoneAtIP'
    BY <1>1, <1>2, <1>5 DEF Inv, SeenOK, NoneAtIP, Working, AboutToBlock
  <2>4. PhasesOK'
    BY <1>1, <1>2, <1>5 DEF Inv, PhasesOK, AboutToBlock
  <2> QED BY <2>1, <2>2, <2>3, <2>4 DEF Inv
<1> QED BY <1>3, <1>4, <1>5 DEF GetNext

(* GetNextBlock keeps the invariant. *)
LEMMA GetNextBlockInv ==
  ASSUME Inv, NEW w \in Worker, GetNextBlock(w)
  PROVE  Inv'
<1>1. TypeOK'
  BY DEF Inv, TypeOK, GetNextBlock, mainVars, Working
<1>2. FramesOK' /\ SeenOK' /\ NoneAtIP'
  BY DEF Inv, TypeOK, FramesOK, SeenOK, NoneAtIP, GetNextBlock, mainVars,
     Working, Inserting
<1>3. PhasesOK'
  BY DEF Inv, TypeOK, PhasesOK, GetNextBlock, mainVars
<1> QED BY <1>1, <1>2, <1>3 DEF Inv

(* ReadField keeps the invariant: there is a frame in the handle to read. *)
LEMMA ReadFieldInv ==
  ASSUME Inv, NEW w \in Worker, ReadField(w)
  PROVE  Inv'
<1> DEFINE read == Append(seen[w], held)
<1>1. /\ pc[w] = "ether" /\ held \in Item /\ seen[w] \in Seq(Item)
      /\ Len(seen[w]) \in {0, 1, 2} /\ packet[w] \in Item
  BY PipelineAssumption DEF Inv, TypeOK, FramesOK, SeenOK, ReadField, Working
<1>2. read \in Seq(Item) /\ Len(read) \in {1, 2, 3}
  <2>1. read \in Seq(Item)
    BY <1>1
  <2>2. Len(read) = Len(seen[w]) + 1
    BY <1>1
  <2>3. \A n \in {0, 1, 2} : n + 1 \in {1, 2, 3}
    OBVIOUS
  <2> QED BY <1>1, <2>1, <2>2, <2>3
<1>3. /\ seen' = [seen EXCEPT ![w] = read]
      /\ UNCHANGED <<held, main, i, main_asleep, ring, is_closed, asleep, packet>>
  BY DEF ReadField, mainVars
<1> HIDE DEF read
<1>4. seen'[w] = read
  BY <1>3 DEF Inv, TypeOK
<1>5. pc' = [pc EXCEPT ![w] = IF Len(read) = 3 THEN "count" ELSE "ether"]
  BY <1>4 DEF ReadField
<1>6. TypeOK'
  <2>1. seen' \in [Worker -> Seq(Item)] /\ \A v \in Worker : Len(seen'[v]) <= 3
    <3>1. \A v \in Worker : seen'[v] = IF v = w THEN read ELSE seen[v]
      BY <1>3 DEF Inv, TypeOK
    <3>2. seen' \in [Worker -> Seq(Item)]
      BY <1>2, <1>3 DEF Inv, TypeOK
    <3>3. Len(read) = 1 \/ Len(read) = 2 \/ Len(read) = 3
      BY <1>2, Zenon
    <3>4. \A v \in Worker : Len(seen[v]) <= 3
      BY DEF Inv, TypeOK
    <3>5. Len(read) <= 3
      <4>1. 1 <= 3 /\ 2 <= 3 /\ 3 <= 3
        OBVIOUS
      <4> QED BY <3>3, <4>1, Zenon
    <3>6. \A v \in Worker : Len(seen'[v]) <= 3
      <4> TAKE v \in Worker
      <4>1. CASE v = w
        BY <3>1, <3>5, <4>1
      <4>2. CASE v # w
        BY <3>1, <3>4, <4>2, Zenon
      <4> QED BY <4>1, <4>2
    <3> QED BY <3>2, <3>6
  <2>2. /\ pc' \in [Worker -> {"idle", "get_blocking", "get_waiting", "ether", "count",
                              "ip", "exit"}]
        /\ \A v \in Worker : Working(v)' => Working(v)
    BY <1>1, <1>5 DEF Inv, TypeOK, Working
  <2> QED BY <1>3, <2>1, <2>2 DEF Inv, TypeOK
<1>7. FramesOK'
  BY <1>1, <1>3, PipelineAssumption DEF Inv, FramesOK
<1>8. SeenOK' /\ NoneAtIP'
  BY <1>1, <1>2, <1>3, <1>5 DEF Inv, TypeOK, SeenOK, NoneAtIP, Working
<1>9. PhasesOK'
  BY <1>1, <1>3, <1>5 DEF Inv, TypeOK, PhasesOK
<1> QED BY <1>6, <1>7, <1>8, <1>9 DEF Inv

(* Count keeps the invariant: the worker goes back to its channel. *)
LEMMA CountInv ==
  ASSUME Inv, NEW w \in Worker, Count(w)
  PROVE  Inv'
<1>1. /\ pc[w] = "count" /\ seen[w] \in Seq(Item) /\ Len(seen[w]) = 3
  BY DEF Inv, TypeOK, SeenOK, Count
<1>2. seen[w][3] \in Item
  BY <1>1
<1>3. AfterTypeTest(w) = "idle"
  BY <1>2, TestFails DEF AfterTypeTest
<1>4. /\ pc' = [pc EXCEPT ![w] = "idle"]
      /\ seen' = [seen EXCEPT ![w] = <<>>]
      /\ UNCHANGED <<held, main, i, main_asleep, ring, is_closed, asleep, packet>>
  BY <1>3 DEF Count, mainVars
<1>5. TypeOK'
  BY <1>4 DEF Inv, TypeOK, Working
<1>6. FramesOK'
  BY <1>4 DEF Inv, TypeOK, FramesOK, Working, Inserting
<1>7. SeenOK' /\ NoneAtIP'
  BY <1>4 DEF Inv, TypeOK, SeenOK, NoneAtIP, Working
<1>8. PhasesOK'
  BY <1>1, <1>4 DEF Inv, TypeOK, PhasesOK
<1> QED BY <1>5, <1>6, <1>7, <1>8 DEF Inv

(* A spurious wakeup keeps the invariant. *)
LEMMA SpuriousWakeupInv == Inv /\ SpuriousWakeup => Inv'
<1> SUFFICES ASSUME Inv, SpuriousWakeup PROVE Inv'
  OBVIOUS
<1>1. UNCHANGED <<held, main, i, ring, is_closed, pc, packet, seen>>
  BY DEF SpuriousWakeup, mainVars
<1>2. TypeOK'
  BY <1>1 DEF Inv, TypeOK, SpuriousWakeup, Working
<1>3. FramesOK' /\ SeenOK' /\ NoneAtIP' /\ PhasesOK'
  BY <1>1 DEF Inv, FramesOK, SeenOK, NoneAtIP, PhasesOK, Working, Inserting
<1> QED BY <1>2, <1>3 DEF Inv

(* Every step keeps the invariant. *)
LEMMA InvNext == Inv /\ [Next]_vars => Inv'
<1> SUFFICES ASSUME Inv, [Next]_vars PROVE Inv'
  OBVIOUS
<1>1. CASE Main
  BY <1>1, ReadFrameInv, InsertInv, QuietMainInv, CloseInv DEF Main
<1>2. CASE \E w \in Worker : GetStats(w)
  BY <1>2, GetNextInv, GetNextBlockInv, ReadFieldInv, CountInv DEF GetStats
<1>3. CASE SpuriousWakeup
  BY <1>3, SpuriousWakeupInv
<1>4. CASE UNCHANGED vars
  BY <1>4
  DEF vars, Inv, TypeOK, FramesOK, SeenOK, NoneAtIP, PhasesOK, Working,
      Inserting
<1> QED BY <1>1, <1>2, <1>3, <1>4 DEF Next, Printing

(* The inductive invariant holds throughout. *)
LEMMA InvAlways == Spec => []Inv
BY InvInit, InvNext, PTL DEF Spec

(* Every variable keeps its type: no ring outgrows its array, whatever the
   speed of main and of the workers. *)
THEOREM PipelineTypeCorrect == Spec => []TypeOK
<1>1. Inv => TypeOK
  BY DEF Inv
<1> QED BY <1>1, InvAlways, PTL

(* No worker gets past the type test on any file, so that the model is right to
   have no actions for what is behind it: ether_type is read from one byte. *)
THEOREM NoWorkerPastTypeTest == Spec => []NoneAtIP
<1>1. Inv => NoneAtIP
  BY DEF Inv
<1> QED BY <1>1, InvAlways, PTL

(* main prints only after every worker is done with every frame dealt to it. *)
THEOREM NothingIsLeftBehind == Spec => []NothingLeftBehind
<1>1. Inv => NothingLeftBehind
  BY DEF Inv, PhasesOK, NothingLeftBehind
<1> QED BY <1>1, InvAlways, PTL

-----------------------------------------------------------------------------
(* The order of the frames. *)

(* The newest frame of w's share when d frames are dealt. *)
NewestOf(d, w) == d - ((d - 1 - w) % NumWorkers)

(* The packets of a line are every NumWorkers-th frame up to the newest. *)
InTurn(line, newest) ==
  \A k \in 1 .. Len(line) : line[k] = newest - (Len(line) - k) * NumWorkers

(* main's loop index is the number of frames dealt, modulo the number of
   workers, and goes on after the wakeup. *)
CursorOK ==
  /\ main \in Reading \ {"ins_notify"} => \E q \in Nat : Dealt = q * NumWorkers + i
  /\ main = "ins_notify" => \E q \in Nat : held = q * NumWorkers + i + 1

(* What a worker has read is not older than its packet. *)
SeenNearby ==
  \A w \in Worker : Working(w) =>
    \A k \in 1 .. Len(seen[w]) : seen[w][k] \in packet[w] .. held

(* With Inv, the inductive invariant. *)
OrderInv == DealtInTurn /\ CursorOK /\ SeenNearby

-----------------------------------------------------------------------------
(* Arithmetic. *)

(* A remainder is what is left of a multiple. *)
LEMMA Remainder ==
  ASSUME NEW n \in Nat, n > 0, NEW q \in Int, NEW r \in 0 .. n - 1
  PROVE  (q * n + r) % n = r
BY SMT

(* Remainders are below the divisor. *)
LEMMA RemainderBound ==
  ASSUME NEW n \in Nat, n > 0, NEW x \in Int
  PROVE  x % n \in 0 .. n - 1
BY SMT

(* When the frame after d is dealt to the cursor's worker, its share grows by
   that frame, NumWorkers after its last, and no other's does. *)
LEMMA NewestMoves ==
  ASSUME NEW q \in Nat, NEW c \in Worker, NEW d, d = q * NumWorkers + c
  PROVE  /\ NewestOf(d, c) = d + 1 - NumWorkers
         /\ NewestOf(d + 1, c) = d + 1
         /\ \A w \in Worker : w # c => NewestOf(d + 1, w) = NewestOf(d, w)
<1> DEFINE N == NumWorkers
<1>1. N \in Nat /\ N > 0 /\ c \in 0 .. N - 1
  BY PipelineAssumption DEF Worker
<1>2. q * N \in Int /\ (q - 1) * N = q * N - N /\ d \in Int
  BY <1>1
<1>3. ASSUME NEW r \in 0 .. N - 1
      PROVE  (q * N + r) % N = r /\ (q * N - N + r) % N = r
  BY <1>1, <1>2, Remainder
<1> HIDE DEF N
<1>4. (d - 1 - c) % N = N - 1
  <2>1. d - 1 - c = q * N - N + (N - 1) /\ N - 1 \in 0 .. N - 1
    BY <1>1, <1>2 DEF N
  <2> QED BY <1>3, <2>1
<1>5. ((d + 1) - 1 - c) % N = 0
  <2>1. (d + 1) - 1 - c = q * N + 0 /\ 0 \in 0 .. N - 1
    BY <1>1, <1>2 DEF N
  <2> QED BY <1>3, <2>1
<1>6. ASSUME NEW w \in Worker, w # c
      PROVE  ((d + 1) - 1 - w) % N = ((d - 1 - w) % N) + 1
  <2>1. w \in 0 .. N - 1
    BY DEF Worker, N
  <2>2. CASE w < c
    <3>1. /\ (d + 1) - 1 - w = q * N + (c - w) /\ c - w \in 0 .. N - 1
          /\ d - 1 - w = q * N + (c - w - 1) /\ c - w - 1 \in 0 .. N - 1
      BY <1>1, <1>2, <2>1, <2>2 DEF N
    <3>2. ((d + 1) - 1 - w) % N = c - w /\ (d - 1 - w) % N = c - w - 1
      BY <1>3, <3>1
    <3> QED BY <1>1, <2>1, <3>2
  <2>3. CASE w > c
    <3>1. /\ (d + 1) - 1 - w = q * N - N + (N + c - w) /\ N + c - w \in 0 .. N - 1
          /\ d - 1 - w = q * N - N + (N + c - w - 1) /\ N + c - w - 1 \in 0 .. N - 1
      BY <1>1, <1>2, <2>1, <2>3 DEF N
    <3>2. ((d + 1) - 1 - w) % N = N + c - w /\ (d - 1 - w) % N = N + c - w - 1
      BY <1>3, <3>1
    <3> QED BY <1>1, <2>1, <3>2
  <2> QED BY <1>1, <1>6, <2>1, <2>2, <2>3
<1>7. ASSUME NEW w \in Worker PROVE (d - 1 - w) % N \in Int
  BY <1>1, <1>2, RemainderBound DEF Worker
<1>8. \A w \in Worker : w # c => NewestOf(d + 1, w) = NewestOf(d, w)
  BY <1>2, <1>6, <1>7 DEF NewestOf, N
<1>9. NewestOf(d, c) = d - (N - 1) /\ NewestOf(d + 1, c) = d + 1 - 0
  BY <1>4, <1>5 DEF NewestOf, N
<1> QED BY <1>1, <1>2, <1>8, <1>9 DEF N

(* A line stays in turn when its first packet is done ... *)
LEMMA TailInTurn ==
  ASSUME NEW line \in Seq(Item), line # <<>>, NEW newest, InTurn(line, newest)
  PROVE  InTurn(Tail(line), newest)
<1>1. /\ Len(line) \in Nat /\ Len(Tail(line)) = Len(line) - 1
      /\ \A k \in 1 .. Len(line) - 1 : Tail(line)[k] = line[k + 1]
  OBVIOUS
<1>2. ASSUME NEW k \in 1 .. Len(line) - 1
      PROVE  Tail(line)[k] = newest - (Len(line) - (k + 1)) * NumWorkers
  BY <1>1 DEF InTurn
<1>3. ASSUME NEW k \in 1 .. Len(line) - 1
      PROVE  Len(line) - (k + 1) = (Len(line) - 1) - k
  BY <1>1
<1> QED BY <1>1, <1>2, <1>3 DEF InTurn

(* ... and when the next frame of its share is put at the end. *)
LEMMA AppendInTurn ==
  ASSUME NEW line \in Seq(Item), NEW f \in Int, InTurn(line, f - NumWorkers)
  PROVE  InTurn(Append(line, f), f)
<1> DEFINE n == Len(line)
<1>1. /\ n \in Nat /\ Len(Append(line, f)) = n + 1 /\ Append(line, f)[n + 1] = f
      /\ \A k \in 1 .. n : Append(line, f)[k] = line[k]
      /\ NumWorkers \in Nat
  BY PipelineAssumption
<1>2. \A k \in 1 .. n : line[k] = f - NumWorkers - (n - k) * NumWorkers
  BY DEF InTurn
<1> HIDE DEF n
<1>3. ASSUME NEW k \in 1 .. n
      PROVE  f - NumWorkers - (n - k) * NumWorkers = f - (n + 1 - k) * NumWorkers
  <2>1. (n + 1 - k) * NumWorkers = (n - k) * NumWorkers + NumWorkers
    BY <1>1
  <2> QED BY <1>1, <2>1
<1>4. f - (n + 1 - (n + 1)) * NumWorkers = f
  BY <1>1
<1>5. ASSUME NEW k \in 1 .. n + 1
      PROVE  Append(line, f)[k] = f - (n + 1 - k) * NumWorkers
  <2>1. k \in 1 .. n \/ k = n + 1
    BY <1>1
  <2> QED BY <1>1, <1>2, <1>3, <1>4, <2>1
<1> QED BY <1>1, <1>5 DEF InTurn

(* DealtInTurn in these words. *)
LEMMA InTurnIsDealtInTurn == DealtInTurn <=> \A w \in Worker : InTurn(Line(w), NewestOf(Dealt, w))
BY DEF DealtInTurn, InTurn, Newest, NewestOf

-----------------------------------------------------------------------------
(* The line of a worker. *)

(* What is known of a line. *)
LEMMA LineFacts ==
  ASSUME Inv, NEW w \in Worker
  PROVE  /\ RingOK(ring[w]) /\ Contents(ring[w]) \in Seq(Item)
         /\ Line(w) \in Seq(Item) /\ Len(Line(w)) \in 0 .. buffer_size + 1
         /\ Working(w) => /\ packet[w] \in Item /\ Len(Line(w)) >= 1
                          /\ Line(w)[1] = packet[w] /\ Tail(Line(w)) = Contents(ring[w])
         /\ ~Working(w) => Line(w) = Contents(ring[w])
         /\ held \in Nat
<1>1. RingOK(ring[w]) /\ ring[w].size \in 0 .. buffer_size
  BY RingParts DEF Inv, FramesOK
<1>2. Contents(ring[w]) \in Seq(Item) /\ Len(Contents(ring[w])) = ring[w].size
  BY <1>1, ContentsIsSeq
<1>3. Working(w) => packet[w] \in Item
  BY DEF Inv, TypeOK
<1>4. held \in Nat /\ buffer_size \in Nat
  BY PipelineAssumption, BufferSizeAssumption DEF Inv, TypeOK
<1> DEFINE q == Contents(ring[w])
<1> HIDE DEF q
<1>5. q \in Seq(Item) /\ Len(q) \in 0 .. buffer_size
  BY <1>1, <1>2 DEF q
<1>6. CASE Working(w)
  <2>1. packet[w] \in Item /\ Line(w) = <<packet[w]>> \o q
    BY <1>3, <1>6 DEF Line, q
  <2>2. /\ <<packet[w]>> \o q \in Seq(Item) /\ Len(<<packet[w]>> \o q) = 1 + Len(q)
        /\ (<<packet[w]>> \o q)[1] = packet[w] /\ Tail(<<packet[w]>> \o q) = q
    BY <1>5, <2>1
  <2>3. Len(Line(w)) \in 0 .. buffer_size + 1 /\ Len(Line(w)) >= 1
    BY <1>4, <1>5, <2>1, <2>2
  <2> QED BY <1>1, <1>2, <1>4, <1>6, <2>1, <2>2, <2>3 DEF q
<1>7. CASE ~Working(w)
  <2>1. Line(w) = <<>> \o q
    BY <1>7 DEF Line, q
  <2>2. Line(w) = q
    BY <1>5, <2>1
  <2> QED BY <1>1, <1>2, <1>4, <1>5, <1>7, <2>2 DEF q
<1> QED BY <1>6, <1>7

(* A step that moves no frame. *)
LEMMA NoFrameMoves ==
  ASSUME DealtInTurn, Dealt' = Dealt, \A w \in Worker : Line(w)' = Line(w)
  PROVE  DealtInTurn'
<1>1. \A w \in Worker : InTurn(Line(w)', NewestOf(Dealt', w))
  BY InTurnIsDealtInTurn
<1> QED BY <1>1 DEF DealtInTurn, InTurn, Newest, NewestOf

(* The lines stay while rings, packets and positions do. *)
LEMMA SameLines ==
  ASSUME UNCHANGED <<ring, pc, packet>> PROVE \A w \in Worker : Line(w)' = Line(w)
BY DEF Line, Working, Contents, Wrap

-----------------------------------------------------------------------------
(* The steps of main. *)

(* A frame that is read is not dealt yet. *)
LEMMA ReadFrameOrder ==
  ASSUME Inv, OrderInv, ReadFrame PROVE OrderInv'
<1>1. /\ UNCHANGED <<i, ring, pc, packet, seen>> /\ held' = held + 1 /\ held \in Nat
      /\ main = "next" /\ main' = "ins_lock"
  BY PipelineAssumption DEF Inv, TypeOK, ReadFrame
<1>2. Dealt' = Dealt
  BY <1>1 DEF Dealt, Inserting
<1>3. DealtInTurn'
  BY <1>1, <1>2, NoFrameMoves, SameLines DEF OrderInv
<1>4. CursorOK'
  BY <1>1, <1>2 DEF OrderInv, CursorOK, Reading
<1>5. SeenNearby'
  <2> SUFFICES ASSUME NEW w \in Worker, Working(w), NEW k \in 1 .. Len(seen[w])
               PROVE  seen[w][k] \in packet[w] .. held + 1
    BY <1>1 DEF SeenNearby, Working
  <2>1. seen[w][k] \in packet[w] .. held
    BY DEF OrderInv, SeenNearby
  <2>2. packet[w] \in Int
    BY PipelineAssumption, LineFacts
  <2> QED BY <1>1, <2>1, <2>2
<1> QED BY <1>3, <1>4, <1>5 DEF OrderInv

(* The frame pushed is the next of the share of the cursor's worker. *)
LEMMA InsertOrder ==
  ASSUME Inv, Inv', OrderInv, Insert PROVE OrderInv'
<1>1. /\ UNCHANGED <<held, i, pc, packet, seen>> /\ held \in Item /\ held \in Nat
      /\ main \in {"ins_lock", "ins_waiting"} /\ i \in Worker /\ ring \in [Worker -> RingType]
  BY PipelineAssumption DEF Inv, TypeOK, FramesOK, Insert, InsertsLock, Inserting
<1>2. Dealt = held - 1 /\ \E q \in Nat : Dealt = q * NumWorkers + i
  BY <1>1 DEF Dealt, Inserting, OrderInv, CursorOK, Reading
<1>3. SeenNearby'
  BY <1>1 DEF OrderInv, SeenNearby, Working
<1>4. CASE ~full(ring[i]) /\ PushHeld
  <2>1. main' = "ins_notify" /\ Dealt' = held
    BY <1>1, <1>4 DEF PushHeld, Dealt, Inserting
  <2>2. PICK q \in Nat : Dealt = q * NumWorkers + i
    BY <1>2
  <2>3. CursorOK'
    <3>1. held = Dealt + 1 /\ q * NumWorkers \in Int /\ i \in Int
      BY <1>1, <1>2, PipelineAssumption DEF Worker
    <3>2. held = q * NumWorkers + i + 1
      BY <2>2, <3>1
    <3> QED BY <1>1, <2>1, <3>2 DEF CursorOK
  <2>4. /\ NewestOf(Dealt, i) = held - NumWorkers /\ NewestOf(held, i) = held
        /\ \A w \in Worker : w # i => NewestOf(held, w) = NewestOf(Dealt, w)
    <3> DEFINE d == Dealt
    <3>1. d + 1 = held /\ d \in Int /\ NumWorkers \in Nat
      BY <1>1, <1>2, PipelineAssumption
    <3>2. d = q * NumWorkers + i
      BY <2>2
    <3> HIDE DEF d
    <3>3. /\ NewestOf(d, i) = d + 1 - NumWorkers /\ NewestOf(d + 1, i) = d + 1
          /\ \A w \in Worker : w # i => NewestOf(d + 1, w) = NewestOf(d, w)
      BY <1>1, <3>2, NewestMoves
    <3>4. NewestOf(d, i) = held - NumWorkers /\ NewestOf(held, i) = held
      <4>1. d + 1 - NumWorkers = held - NumWorkers
        BY <3>1
      <4> QED BY <3>1, <3>3, <4>1, Zenon
    <3>5. \A w \in Worker : w # i => NewestOf(held, w) = NewestOf(d, w)
      BY <3>1, <3>3, Zenon
    <3> QED BY <3>4, <3>5 DEF d
  <2>5. ASSUME NEW w \in Worker, w # i PROVE InTurn(Line(w)', NewestOf(held, w))
    <3>1. ring'[w] = ring[w]
      BY <1>1, <1>4, <2>5 DEF PushHeld
    <3>2. Line(w)' = Line(w)
      BY <1>1, <3>1 DEF Line, Working, Contents, Wrap
    <3> QED BY <2>4, <2>5, <3>2, InTurnIsDealtInTurn DEF OrderInv
  <2>6. InTurn(Line(i)', held)
    <3> DEFINE old == Contents(ring[i])
               new == Contents(ring'[i])
    <3>1. new = Append(old, held)
      <4>1. ring'[i] = push_back(ring[i], held)
        BY <1>1, <1>4 DEF PushHeld
      <4>2. RingOK(ring[i]) /\ ~full(ring[i])
        BY <1>1, <1>4, LineFacts
      <4> QED BY <1>1, <4>1, <4>2, PushBackOK
    <3>2. Line(i)' = Append(Line(i), held)
      <4>1. old \in Seq(Item)
        BY <1>1, LineFacts
      <4>2. CASE Working(i)
        <5>1. /\ Line(i) = <<packet[i]>> \o old /\ Line(i)' = <<packet[i]>> \o new
              /\ packet[i] \in Item
          BY <1>1, <4>2, LineFacts DEF Line, Working, Contents, Wrap
        <5> HIDE DEF old, new
        <5> QED BY <1>1, <3>1, <4>1, <5>1
      <4>3. CASE ~Working(i)
        <5>1. Line(i) = <<>> \o old /\ Line(i)' = <<>> \o new
          BY <1>1, <4>3 DEF Line, Working, Contents, Wrap
        <5> HIDE DEF old, new
        <5> QED BY <1>1, <3>1, <4>1, <5>1
      <4> QED BY <4>2, <4>3
    <3>3. InTurn(Line(i), held - NumWorkers)
      BY <1>1, <2>4, InTurnIsDealtInTurn DEF OrderInv
    <3> QED BY <1>1, <3>2, <3>3, AppendInTurn, LineFacts
  <2>7. \A w \in Worker : InTurn(Line(w)', NewestOf(Dealt', w))
    BY <1>1, <2>1, <2>4, <2>5, <2>6
  <2>8. DealtInTurn'
    BY <2>7 DEF DealtInTurn, InTurn, Newest, NewestOf
  <2> QED BY <1>3, <2>3, <2>8 DEF OrderInv
<1>5. CASE full(ring[i]) /\ main' = "ins_blocking" /\ UNCHANGED ring
  <2>1. Dealt' = Dealt
    BY <1>1, <1>5 DEF Dealt, Inserting
  <2>2. DealtInTurn'
    BY <1>1, <1>5, <2>1, NoFrameMoves, SameLines DEF OrderInv
  <2>3. CursorOK'
    BY <1>1, <1>2, <1>5, <2>1 DEF CursorOK
  <2> QED BY <1>3, <2>2, <2>3 DEF OrderInv
<1> QED BY <1>4, <1>5 DEF Insert

(* After the wakeup the cursor is the next worker's, or starts over. *)
LEMMA InsertNotifyOrder ==
  ASSUME Inv, OrderInv, InsertNotify PROVE OrderInv'
<1>1. /\ UNCHANGED <<held, ring, pc, packet, seen>> /\ main = "ins_notify" /\ main' = "next"
      /\ i' = (i + 1) % NumWorkers /\ i \in 0 .. NumWorkers - 1 /\ NumWorkers \in Nat
      /\ NumWorkers > 0
  BY PipelineAssumption DEF Inv, TypeOK, InsertNotify, Worker
<1>2. Dealt' = held /\ Dealt = held
  BY <1>1 DEF Dealt, Inserting
<1>3. PICK q \in Nat : held = q * NumWorkers + i + 1
  BY <1>1 DEF OrderInv, CursorOK
<1>4. \E p \in Nat : held = p * NumWorkers + i'
  <2>1. CASE i + 1 < NumWorkers
    <3>1. i + 1 = 0 * NumWorkers + (i + 1) /\ i + 1 \in 0 .. NumWorkers - 1
      BY <1>1, <2>1
    <3>2. i' = i + 1
      BY <1>1, <3>1, Remainder
    <3>3. q * NumWorkers \in Int
      BY <1>1
    <3>4. held = q * NumWorkers + i'
      BY <1>1, <1>3, <3>2, <3>3
    <3> QED BY <3>4
  <2>2. CASE i + 1 = NumWorkers
    <3>1. i + 1 = 1 * NumWorkers + 0 /\ 0 \in 0 .. NumWorkers - 1
      BY <1>1, <2>2
    <3>2. i' = 0
      BY <1>1, <3>1, Remainder
    <3>3. (q + 1) * NumWorkers = q * NumWorkers + NumWorkers /\ q * NumWorkers \in Int
      BY <1>1
    <3>4. held = (q + 1) * NumWorkers + i' /\ q + 1 \in Nat
      BY <1>1, <1>3, <2>2, <3>2, <3>3
    <3> QED BY <3>4
  <2> QED BY <1>1, <2>1, <2>2
<1>5. CursorOK'
  BY <1>1, <1>2, <1>4 DEF CursorOK, Reading
<1>6. DealtInTurn'
  BY <1>1, <1>2, NoFrameMoves, SameLines DEF OrderInv
<1>7. SeenNearby'
  BY <1>1 DEF OrderInv, SeenNearby, Working
<1> QED BY <1>5, <1>6, <1>7 DEF OrderInv

(* The other steps of main deal nothing. *)
LEMMA QuietMainOrder ==
  ASSUME Inv, OrderInv,
         \/ StopReading \/ InsertBlock \/ Close \/ CloseNotifyInput \/ CloseNotifyOutput \/ Join
  PROVE  OrderInv'
<1>1. UNCHANGED <<held, ring, pc, packet, seen>>
  BY DEF StopReading, InsertBlock, Close, CloseNotifyInput, CloseNotifyOutput, Join
<1>2. Dealt' = Dealt
  BY <1>1
  DEF Dealt, Inserting, StopReading, InsertBlock, Close, CloseNotifyInput, CloseNotifyOutput,
      Join, NextOr
<1>3. \/ main' \notin Reading
      \/ main = "ins_blocking" /\ main' = "ins_waiting" /\ i' = i
  BY DEF Reading, StopReading, InsertBlock, Close, CloseNotifyInput, CloseNotifyOutput, Join,
         NextOr
<1>4. CursorOK'
  BY <1>1, <1>2, <1>3 DEF OrderInv, CursorOK, Reading
<1>5. DealtInTurn'
  BY <1>1, <1>2, NoFrameMoves, SameLines DEF OrderInv
<1>6. SeenNearby'
  BY <1>1 DEF OrderInv, SeenNearby, Working
<1> QED BY <1>4, <1>5, <1>6 DEF OrderInv

-----------------------------------------------------------------------------
(* The steps of a worker. *)

(* Only the lines matter to a step that main has no part in. *)
LEMMA CursorStays ==
  ASSUME CursorOK, UNCHANGED <<held, main, i>> PROVE CursorOK' /\ Dealt' = Dealt
<1>1. Dealt' = Dealt
  BY DEF Dealt, Inserting
<1> QED BY <1>1 DEF CursorOK

(* The packet taken is the first of the line, and stays there. *)
LEMMA GetNextOrder ==
  ASSUME Inv, OrderInv, NEW w \in Worker, GetNext(w) PROVE OrderInv'
<1>1. /\ UNCHANGED <<held, main, i, seen>> /\ ~Working(w) /\ seen[w] = <<>>
      /\ ring \in [Worker -> RingType] /\ pc[w] \in {"idle", "get_waiting"}
      /\ DOMAIN pc = Worker /\ DOMAIN packet = Worker
  BY DEF Inv, TypeOK, SeenOK, GetNext, GetsLock, Working, mainVars
<1>2. /\ \A v \in Worker \ {w} : ring'[v] = ring[v] /\ pc'[v] = pc[v] /\ packet'[v] = packet[v]
  BY <1>1 DEF GetNext, Take, ReturnDefault, AboutToBlock
<1>3. \A v \in Worker \ {w} : Line(v)' = Line(v)
  BY <1>2 DEF Line, Working, Contents, Wrap
<1>4. Line(w)' = Line(w)
  <2>1. CASE ~empty(ring[w]) /\ Take(w)
    <3> DEFINE old == Contents(ring[w])
               new == Contents(ring'[w])
    <3>1. /\ ring'[w] = pop(SwapFront(ring[w], Junk)) /\ packet'[w] = front(ring[w])
          /\ pc'[w] = "ether"
      BY <1>1, <2>1 DEF Take
    <3>2. RingOK(ring[w]) /\ old \in Seq(Item)
      BY LineFacts
    <3>3. /\ new = Tail(old) /\ old # <<>> /\ packet'[w] = Head(old) /\ Head(old) \in Item
      BY <2>1, <3>1, <3>2, PopOK
    <3>4. Line(w)' = <<Head(old)>> \o new
      BY <3>1, <3>3 DEF Line, Working, Contents, Wrap
    <3>5. Line(w) = old
      BY <1>1, LineFacts
    <3> HIDE DEF old, new
    <3>6. <<Head(old)>> \o Tail(old) = old
      BY <3>2, <3>3
    <3> QED BY <3>3, <3>4, <3>5, <3>6
  <2>2. CASE (empty(ring[w]) /\ is_closed[w] /\ ReturnDefault(w))
             \/ (empty(ring[w]) /\ ~is_closed[w] /\ AboutToBlock(w))
    <3>1. ring'[w] = ring[w] /\ pc'[w] \in {"exit", "get_blocking"}
      BY <1>1, <2>2 DEF ReturnDefault, AboutToBlock
    <3> QED BY <1>1, <3>1 DEF Line, Working, Contents, Wrap
  <2> QED BY <2>1, <2>2 DEF GetNext
<1>5. CursorOK' /\ Dealt' = Dealt
  BY <1>1, CursorStays DEF OrderInv
<1>6. DealtInTurn'
  BY <1>3, <1>4, <1>5, NoFrameMoves DEF OrderInv
<1>7. SeenNearby'
  <2> SUFFICES ASSUME NEW v \in Worker, Working(v)', NEW k \in 1 .. Len(seen[v])
               PROVE  seen[v][k] \in packet'[v] .. held
    BY <1>1 DEF SeenNearby
  <2>1. v # w
    BY <1>1
  <2> QED BY <1>2, <2>1 DEF OrderInv, SeenNearby, Working
<1> QED BY <1>5, <1>6, <1>7 DEF OrderInv

(* A packet is not younger than the frame in the handle. *)
LEMMA PacketIsOld ==
  ASSUME Inv, OrderInv, NEW w \in Worker, Working(w)
  PROVE  packet[w] \in Nat /\ packet[w] <= held
         /\ held <= packet[w] + (buffer_size + 1) * NumWorkers
<1> DEFINE N == NumWorkers
           l == Len(Line(w)) - 1
           r == (Dealt - 1 - w) % N
<1>1. /\ N \in Nat /\ N > 0 /\ w \in Int /\ buffer_size \in Nat
      /\ packet[w] \in Item /\ held \in Nat
      /\ Len(Line(w)) >= 1 /\ Line(w)[1] = packet[w] /\ Len(Line(w)) \in 0 .. buffer_size + 1
  BY PipelineAssumption, BufferSizeAssumption, LineFacts DEF Worker
<1>2. packet[w] \in Nat
  BY <1>1, PipelineAssumption
<1>3. Dealt \in Int /\ Dealt <= held /\ held <= Dealt + 1
  BY <1>1 DEF Dealt
<1>4. r \in 0 .. N - 1
  <2>1. Dealt - 1 - w \in Int
    BY <1>1, <1>3
  <2> QED BY <1>1, <2>1, RemainderBound
<1>5. packet[w] = Dealt - r - l * N
  <2>1. InTurn(Line(w), NewestOf(Dealt, w))
    BY InTurnIsDealtInTurn DEF OrderInv
  <2>2. 1 \in 1 .. Len(Line(w))
    BY <1>1
  <2>3. Line(w)[1] = NewestOf(Dealt, w) - (Len(Line(w)) - 1) * NumWorkers
    BY <2>1, <2>2 DEF InTurn
  <2> QED BY <1>1, <2>3 DEF NewestOf
<1>6. l \in Nat /\ l <= buffer_size
  BY <1>1
<1> HIDE DEF l, r, N
<1>7. l * N \in Nat /\ l * N <= buffer_size * N
  BY <1>1, <1>6
<1>8. (buffer_size + 1) * N = buffer_size * N + N /\ buffer_size * N \in Nat
  BY <1>1
<1>9. packet[w] <= held /\ held <= packet[w] + (buffer_size + 1) * N
  BY <1>1, <1>2, <1>3, <1>4, <1>5, <1>7, <1>8
<1> QED BY <1>2, <1>9 DEF N

(* A field is read from the frame in the handle. *)
LEMMA ReadFieldOrder ==
  ASSUME Inv, OrderInv, NEW w \in Worker, ReadField(w) PROVE OrderInv'
<1>1. /\ UNCHANGED <<held, main, i, ring, packet>> /\ Working(w) /\ held \in Nat
      /\ DOMAIN pc = Worker /\ seen[w] \in Seq(Item) /\ seen \in [Worker -> Seq(Item)]
      /\ seen' = [seen EXCEPT ![w] = Append(@, held)]
  BY LineFacts DEF Inv, TypeOK, ReadField, Working, mainVars
<1>2. \A v \in Worker : Working(v)' = Working(v)
  BY <1>1 DEF ReadField, Working
<1>3. \A v \in Worker : Line(v)' = Line(v)
  BY <1>1, <1>2 DEF Line, Contents, Wrap
<1>4. CursorOK' /\ Dealt' = Dealt
  BY <1>1, CursorStays DEF OrderInv
<1>5. DealtInTurn'
  BY <1>3, <1>4, NoFrameMoves DEF OrderInv
<1>6. SeenNearby'
  <2> SUFFICES ASSUME NEW v \in Worker, Working(v), NEW k \in 1 .. Len(seen'[v])
               PROVE  seen'[v][k] \in packet[v] .. held
    BY <1>1, <1>2 DEF SeenNearby
  <2>1. CASE v # w
    BY <1>1, <2>1 DEF OrderInv, SeenNearby
  <2>2. CASE v = w
    <3>1. seen'[w] = Append(seen[w], held)
      BY <1>1
    <3>2. /\ Len(seen[w]) \in Nat /\ Len(seen'[w]) = Len(seen[w]) + 1
          /\ seen'[w][Len(seen[w]) + 1] = held
          /\ \A j \in 1 .. Len(seen[w]) : seen'[w][j] = seen[w][j]
      BY <1>1, <3>1
    <3>3. held \in packet[w] .. held
      BY <1>1, PacketIsOld
    <3>4. CASE k = Len(seen[w]) + 1
      BY <2>2, <3>2, <3>3, <3>4
    <3>5. CASE k # Len(seen[w]) + 1
      <4>1. k \in 1 .. Len(seen[w])
        BY <2>2, <3>2, <3>5
      <4> QED BY <1>1, <2>2, <3>2, <4>1 DEF OrderInv, SeenNearby
    <3> QED BY <3>4, <3>5
  <2> QED BY <2>1, <2>2
<1> QED BY <1>4, <1>5, <1>6 DEF OrderInv

(* A packet that is done leaves the line. *)
LEMMA CountOrder ==
  ASSUME Inv, OrderInv, NEW w \in Worker, Count(w) PROVE OrderInv'
<1>1. /\ UNCHANGED <<held, main, i, ring, packet>> /\ Working(w) /\ ~Working(w)'
      /\ \A v \in Worker \ {w} : Working(v)' = Working(v) /\ seen'[v] = seen[v]
  BY DEF Inv, TypeOK, Count, Working, mainVars, AfterTypeTest
<1>2. CursorOK' /\ Dealt' = Dealt
  BY <1>1, CursorStays DEF OrderInv
<1>3. ASSUME NEW v \in Worker PROVE InTurn(Line(v)', NewestOf(Dealt, v))
  <2>1. InTurn(Line(v), NewestOf(Dealt, v))
    BY InTurnIsDealtInTurn DEF OrderInv
  <2>2. CASE v # w
    <3>1. Line(v)' = Line(v)
      BY <1>1, <2>2 DEF Line, Contents, Wrap
    <3> QED BY <2>1, <3>1
  <2>3. CASE v = w
    <3>1. /\ Line(w) \in Seq(Item) /\ Line(w) # <<>> /\ Tail(Line(w)) = Contents(ring[w])
          /\ Contents(ring[w]) \in Seq(Item)
      BY <1>1, LineFacts
    <3>2. Line(w)' = <<>> \o Contents(ring[w])
      BY <1>1 DEF Line, Contents, Wrap
    <3>3. Line(w)' = Tail(Line(w))
      BY <3>1, <3>2
    <3> QED BY <2>1, <2>3, <3>1, <3>3, TailInTurn
  <2> QED BY <2>2, <2>3
<1>4. DealtInTurn'
  BY <1>2, <1>3 DEF DealtInTurn, InTurn, Newest, NewestOf
<1>5. SeenNearby'
  BY <1>1 DEF OrderInv, SeenNearby
<1> QED BY <1>2, <1>4, <1>5 DEF OrderInv

(* A step that only puts a worker to sleep or wakes somebody. *)
LEMMA SleepOrder ==
  ASSUME Inv, OrderInv, SpuriousWakeup \/ \E w \in Worker : GetNextBlock(w) PROVE OrderInv'
<1>1. UNCHANGED <<held, main, i, ring, packet, seen>> /\ \A v \in Worker : Working(v)' = Working(v)
  BY DEF Inv, TypeOK, SpuriousWakeup, GetNextBlock, Working, mainVars
<1>2. CursorOK' /\ Dealt' = Dealt
  BY <1>1, CursorStays DEF OrderInv
<1>3. \A v \in Worker : Line(v)' = Line(v)
  BY <1>1 DEF Line, Contents, Wrap
<1>4. DealtInTurn'
  BY <1>2, <1>3, NoFrameMoves DEF OrderInv
<1>5. SeenNearby'
  BY <1>1 DEF OrderInv, SeenNearby
<1> QED BY <1>2, <1>4, <1>5 DEF OrderInv

-----------------------------------------------------------------------------

(* Nothing is dealt at first. *)
LEMMA OrderInit == Init => OrderInv
<1> SUFFICES ASSUME Init PROVE OrderInv
  OBVIOUS
<1>1. \A w \in Worker : Line(w) = <<>> \o <<>>
  BY NewRingOK DEF Init, Line, Working
<1>2. \A w \in Worker : Len(Line(w)) = 0
  BY <1>1
<1>3. DealtInTurn
  BY <1>2 DEF DealtInTurn
<1>4. CursorOK
  <2>1. Dealt = 0 * NumWorkers + i /\ main # "ins_notify"
    BY PipelineAssumption DEF Init, Dealt, Inserting
  <2> QED BY <2>1 DEF CursorOK
<1>5. SeenNearby
  BY DEF Init, SeenNearby, Working
<1> QED BY <1>3, <1>4, <1>5 DEF OrderInv

(* Every step keeps the order. *)
LEMMA OrderNext == Inv /\ Inv' /\ OrderInv /\ [Next]_vars => OrderInv'
<1> SUFFICES ASSUME Inv, Inv', OrderInv, [Next]_vars PROVE OrderInv'
  OBVIOUS
<1>1. CASE Main
  BY <1>1, ReadFrameOrder, InsertOrder, InsertNotifyOrder, QuietMainOrder DEF Main
<1>2. CASE \E w \in Worker : GetStats(w)
  BY <1>2, GetNextOrder, ReadFieldOrder, CountOrder, SleepOrder DEF GetStats
<1>3. CASE SpuriousWakeup
  BY <1>3, SleepOrder
<1>4. CASE UNCHANGED vars
  <2>1. UNCHANGED <<held, main, i, ring, pc, packet, seen>>
    BY <1>4 DEF vars
  <2>2. CursorOK' /\ Dealt' = Dealt
    BY <2>1, CursorStays DEF OrderInv
  <2>3. DealtInTurn'
    BY <2>1, <2>2, NoFrameMoves, SameLines DEF OrderInv
  <2>4. SeenNearby'
    BY <2>1 DEF OrderInv, SeenNearby, Working
  <2> QED BY <2>2, <2>3, <2>4 DEF OrderInv
<1> QED BY <1>1, <1>2, <1>3, <1>4 DEF Next, Printing

(* The order holds throughout. *)
LEMMA OrderAlways == Spec => []OrderInv
BY OrderInit, OrderNext, InvAlways, PTL DEF Spec

(* Frames are dealt in turn and finished in order, by any number of workers. *)
THEOREM FramesInTurn == Spec => []DealtInTurn
<1>1. OrderInv => DealtInTurn
  BY DEF OrderInv
<1> QED BY <1>1, OrderAlways, PTL

(* What a worker reads through its packet's pointers is at most
   (buffer_size + 1) * NumWorkers frames younger than the packet, however
   slow the worker is. *)
THEOREM StalenessBounded == Spec => []ReadsNearby
<1>1. Inv /\ OrderInv => ReadsNearby
  <2> SUFFICES ASSUME Inv, OrderInv, NEW w \in Worker, Working(w),
                      NEW f \in {held} \cup {seen[w][k] : k \in 1 .. Len(seen[w])}
               PROVE  f \in packet[w] .. packet[w] + (buffer_size + 1) * NumWorkers
    BY DEF ReadsNearby
  <2> DEFINE bound == (buffer_size + 1) * NumWorkers
  <2>1. packet[w] \in Nat /\ packet[w] <= held /\ held <= packet[w] + bound /\ held \in Nat
    BY PacketIsOld, LineFacts
  <2>2. bound \in Nat
    BY PipelineAssumption, BufferSizeAssumption
  <2>3. f \in packet[w] .. held
    BY <2>1 DEF OrderInv, SeenNearby
  <2> HIDE DEF bound
  <2>4. f \in packet[w] .. packet[w] + bound
    BY <2>1, <2>2, <2>3
  <2> QED BY <2>4 DEF bound
<1> QED BY <1>1, InvAlways, OrderAlways, PTL

-----------------------------------------------------------------------------
(* The refinement: each channel, with its worker and with main, is a
   ChannelBuffer. *)

(* main and a worker never hold a channel's lock both, and main sleeps only
   while it waits. *)
SyncOK ==
  /\ main_asleep => main = "ins_waiting"
  /\ main = "ins_blocking" => pc[i] # "get_blocking"

LEMMA SyncInit == Init => SyncOK
BY DEF Init, SyncOK

LEMMA SyncNext == Inv /\ SyncOK /\ [Next]_vars => SyncOK'
<1> SUFFICES ASSUME Inv, SyncOK, [Next]_vars PROVE SyncOK'
  OBVIOUS
<1>1. pc \in [Worker -> {"idle", "get_blocking", "get_waiting", "ether", "count", "ip", "exit"}]
      /\ i \in Worker
  BY DEF Inv, TypeOK
<1>2. CASE Main
  BY <1>1, <1>2 DEF Main, SyncOK, ReadFrame, StopReading, Insert, InsertsLock, PushHeld, InsertBlock,
     InsertNotify, Close, CloseNotifyInput, CloseNotifyOutput, Join, NextOr
<1>3. ASSUME NEW w \in Worker, GetStats(w) PROVE SyncOK'
  <2>1. main' = main /\ i' = i
    BY <1>3 DEF GetStats, GetNext, GetNextBlock, ReadField, Count, mainVars
  <2>2. main_asleep' => main_asleep
    BY <1>3 DEF GetStats, GetNext, Take, ReturnDefault, AboutToBlock, GetNextBlock, ReadField, Count
  <2>3. CASE main = "ins_blocking"
    <3>1. CASE i # w
      <4>1. pc'[i] = pc[i]
        BY <1>1, <1>3, <3>1
        DEF GetStats, GetNext, Take, ReturnDefault, AboutToBlock, GetNextBlock, ReadField, Count
      <4> QED BY <2>1, <2>2, <4>1 DEF SyncOK
    <3>2. CASE i = w
      <4>1. ~GetNext(w)
        BY <2>3, <3>2 DEF GetNext, GetsLock
      <4>2. pc'[w] # "get_blocking"
        BY <1>1, <1>3, <4>1 DEF GetStats, GetNextBlock, ReadField, Count, AfterTypeTest
      <4> QED BY <2>1, <2>2, <3>2, <4>2 DEF SyncOK
    <3> QED BY <3>1, <3>2
  <2>4. CASE main # "ins_blocking"
    BY <2>1, <2>2, <2>4 DEF SyncOK
  <2> QED BY <2>3, <2>4
<1>4. CASE SpuriousWakeup
  BY <1>4 DEF SpuriousWakeup, SyncOK, mainVars
<1>5. CASE UNCHANGED vars
  BY <1>5 DEF vars, SyncOK
<1> QED BY <1>2, <1>3, <1>4, <1>5 DEF Next, Printing
(* A thread's name in a channel is its own, and nobody's name is no thread's. *)
LEMMA Names ==
  ASSUME NEW w \in Worker
  PROVE  /\ w # Inserter /\ w # Closer /\ w # Nobody
         /\ Inserter # Closer /\ Inserter # Nobody /\ Closer # Nobody
BY PipelineAssumption DEF Worker, Inserter, Closer, Nobody

(* Where a channel's threads are, when one of them moves. *)
LEMMA GetterMoves ==
  ASSUME NEW w \in Worker,
         InserterAt(w)' = InserterAt(w), CloserAt(w)' = CloserAt(w)
  PROVE  At(w)' = [At(w) EXCEPT ![w] = GetterAt(w)']
BY Names DEF At

LEMMA InserterMoves ==
  ASSUME NEW w \in Worker,
         GetterAt(w)' = GetterAt(w), CloserAt(w)' = CloserAt(w)
  PROVE  At(w)' = [At(w) EXCEPT ![Inserter] = InserterAt(w)']
BY Names DEF At

LEMMA CloserMoves ==
  ASSUME NEW w \in Worker,
         GetterAt(w)' = GetterAt(w), InserterAt(w)' = InserterAt(w)
  PROVE  At(w)' = [At(w) EXCEPT ![Closer] = CloserAt(w)']
BY Names DEF At

LEMMA AtIs ==
  ASSUME NEW w \in Worker
  PROVE  /\ At(w)[w] = GetterAt(w)
         /\ At(w)[Inserter] = InserterAt(w)
         /\ At(w)[Closer] = CloserAt(w)
BY Names DEF At

(* The ring of a channel is the program's. *)
LEMMA SameRing ==
  ASSUME NEW w \in Worker
  PROVE  /\ Buffer(w)!NewRing = NewRing
         /\ \A r : /\ Buffer(w)!empty(r) = empty(r)
                  /\ Buffer(w)!full(r) = full(r)
                  /\ Buffer(w)!front(r) = front(r)
                  /\ Buffer(w)!pop(Buffer(w)!SwapFront(r, Junk)) = pop(SwapFront(r, Junk))
                  /\ \A item : Buffer(w)!push_back(r, item) = push_back(r, item)
BY DEF Buffer!NewRing, NewRing, Buffer!Slot, Slot, Buffer!empty, empty, Buffer!full, full,
   Buffer!front, front, Buffer!pop, pop, Buffer!SwapFront, SwapFront, Buffer!increment, increment,
   Buffer!push_back, push_back

Buffered(w) == Buffer(w)!Next \/ UNCHANGED Buffer(w)!vars

(* Each channel starts as a ChannelBuffer does. *)
LEMMA BufferInit ==
  ASSUME Init, NEW w \in Worker
  PROVE  Buffer(w)!Init
<1>1. /\ ring[w] = NewRing /\ is_closed[w] = FALSE /\ ~asleep[w] /\ ~main_asleep
      /\ pc[w] = "idle" /\ main = "next" /\ packet[w] = Junk
  BY DEF Init
<1>2. LockOf(w) = Nobody /\ InputWait(w) = {} /\ OutputWait(w) = {}
  BY <1>1 DEF LockOf, InputWait, OutputWait
<1>3. At(w) = [t \in {w, Inserter, Closer} |-> "idle"]
  BY <1>1 DEF At, GetterAt, InserterAt, CloserAt
<1>4. InHand(w) = [t \in {Inserter} |-> Junk] /\ Received(w) = [t \in {w} |-> Null]
  BY <1>1 DEF InHand, Received, Inserting
<1>5. {w} \cup {} \cup {Inserter} \cup {Closer} = {w, Inserter, Closer} /\ {w} \cup {} = {w}
  OBVIOUS
<1> QED BY <1>1, <1>2, <1>3, <1>4, <1>5, SameRing DEF Buffer!Init, Buffer!Thread

(* A channel none of whose state changes. *)
LEMMA BufferQuiet ==
  ASSUME NEW w \in Worker,
         UNCHANGED <<ring[w], is_closed[w], LockOf(w), InputWait(w), OutputWait(w),
                     GetterAt(w), InserterAt(w), CloserAt(w), InHand(w), Received(w)>>
  PROVE  Buffered(w)
<1>1. At(w)' = At(w)
  BY DEF At
<1> QED BY <1>1 DEF Buffered, Buffer!vars

(* main's steps, for the channel main works on. *)
LEMMA ReadFrameBuffered ==
  ASSUME Inv, SyncOK, ReadFrame, NEW w \in Worker, i = w
  PROVE  Buffered(w)
<1>1. held + 1 \in Item /\ ~is_closed[w]
  BY PipelineAssumption DEF Inv, TypeOK, PhasesOK, Reading, ReadFrame
<1>2. UNCHANGED <<ring, is_closed, LockOf(w), InputWait(w), OutputWait(w), Received(w),
                  GetterAt(w), CloserAt(w)>>
  BY DEF ReadFrame, SyncOK, LockOf, InputWait, OutputWait, Received, GetterAt, CloserAt
<1>3. /\ InserterAt(w) = "idle" /\ InserterAt(w)' = "ins_lock"
      /\ InHand(w)' = [InHand(w) EXCEPT ![Inserter] = held + 1]
  BY DEF ReadFrame, InserterAt, InHand, Inserting
<1>4. At(w)' = [At(w) EXCEPT ![Inserter] = "ins_lock"] /\ At(w)[Inserter] = "idle"
  BY <1>2, <1>3, InserterMoves, AtIs
<1>5. Buffer(w)!Insert(Inserter, held + 1)
  BY <1>1, <1>2, <1>3, <1>4 DEF Buffer!Insert, Buffer!Goto
<1> QED BY <1>1, <1>5 DEF Buffered, Buffer!Next

LEMMA InsertBuffered ==
  ASSUME Inv, SyncOK, Insert, NEW w \in Worker, i = w
  PROVE  Buffered(w)
<1>1. /\ pc[w] # "get_blocking" /\ ~is_closed[w] /\ ~main_asleep
      /\ main \in {"ins_lock", "ins_waiting"}
      /\ ring \in [Worker -> RingType] /\ i' = w
  BY DEF Inv, TypeOK, PhasesOK, Reading, Insert, InsertsLock, SyncOK
<1>2. UNCHANGED <<is_closed, InputWait(w), OutputWait(w), Received(w), GetterAt(w), CloserAt(w)>>
  BY <1>1
  DEF Insert, PushHeld, InputWait, OutputWait, Received, GetterAt, CloserAt
<1>3. LockOf(w) = Nobody /\ InserterAt(w) = main /\ InHand(w) = [t \in {Inserter} |-> held]
  BY <1>1 DEF LockOf, InserterAt, InHand, Inserting
<1>4. At(w)' = [At(w) EXCEPT ![Inserter] = InserterAt(w)'] /\ At(w)[Inserter] = main
  BY <1>2, <1>3, InserterMoves, AtIs
<1>5. Inserter \notin OutputWait(w)
  BY <1>1 DEF OutputWait
<1>6. CASE ~full(ring[w]) /\ PushHeld
  <2>1. /\ ring'[w] = push_back(ring[w], InHand(w)[Inserter])
        /\ InHand(w)' = [InHand(w) EXCEPT ![Inserter] = Junk]
        /\ InserterAt(w)' = "ins_notify" /\ LockOf(w)' = LockOf(w)
    BY <1>1, <1>3, <1>6 DEF Insert, PushHeld, LockOf, InserterAt, InHand, Inserting
  <2>2. Buffer(w)!Push(Inserter)
    BY <1>2, <1>4, <2>1, SameRing DEF Buffer!Push, Buffer!Goto
  <2>3. Buffer(w)!InsertLocked(Inserter) \/ Buffer(w)!InsertWoken(Inserter)
    BY <1>1, <1>3, <1>4, <1>5, <1>6, <2>2, SameRing DEF Buffer!InsertLocked, Buffer!InsertWoken
  <2> QED BY <2>3 DEF Buffered, Buffer!Next
<1>7. CASE full(ring[w]) /\ main' = "ins_blocking" /\ UNCHANGED ring
  <2>1. /\ InHand(w)' = InHand(w) /\ InserterAt(w)' = "ins_blocking" /\ LockOf(w)' = Inserter
    BY <1>1, <1>3, <1>7 DEF Insert, LockOf, InserterAt, InHand, Inserting
  <2>2. Buffer(w)!AboutToBlock(Inserter, "ins_blocking")
    BY <1>2, <1>4, <1>7, <2>1 DEF Buffer!AboutToBlock, Buffer!Goto
  <2>3. Buffer(w)!InsertLocked(Inserter) \/ Buffer(w)!InsertWoken(Inserter)
    BY <1>1, <1>3, <1>4, <1>5, <1>7, <2>2, SameRing DEF Buffer!InsertLocked, Buffer!InsertWoken
  <2> QED BY <2>3 DEF Buffered, Buffer!Next
<1> QED BY <1>6, <1>7 DEF Insert

LEMMA InsertBlockBuffered ==
  ASSUME Inv, SyncOK, InsertBlock, NEW w \in Worker, i = w
  PROVE  Buffered(w)
<1>1. pc[w] # "get_blocking" /\ ~main_asleep /\ i' = w
  BY DEF SyncOK, InsertBlock
<1>2. UNCHANGED <<ring, is_closed, InputWait(w), Received(w), GetterAt(w), CloserAt(w), InHand(w)>>
  BY <1>1 DEF InsertBlock, InputWait, Received, GetterAt, CloserAt, InHand, Inserting
<1>3. /\ LockOf(w)' = Nobody /\ OutputWait(w)' = OutputWait(w) \cup {Inserter}
      /\ InserterAt(w) = "ins_blocking" /\ InserterAt(w)' = "ins_waiting"
  BY <1>1 DEF InsertBlock, LockOf, OutputWait, InserterAt
<1>4. At(w)' = [At(w) EXCEPT ![Inserter] = "ins_waiting"] /\ At(w)[Inserter] = "ins_blocking"
  BY <1>2, <1>3, InserterMoves, AtIs
<1>5. Buffer(w)!InsertBlock(Inserter)
  BY <1>2, <1>3, <1>4 DEF Buffer!InsertBlock, Buffer!Goto
<1> QED BY <1>5 DEF Buffered, Buffer!Next

LEMMA InsertNotifyBuffered ==
  ASSUME Inv, SyncOK, InsertNotify, NEW w \in Worker, i = w
  PROVE  Buffered(w)
<1>1. /\ main = "ins_notify" /\ main' = "next" /\ ~main_asleep
      /\ asleep \in [Worker -> BOOLEAN] /\ ~asleep'[w]
  BY DEF Inv, TypeOK, SyncOK, InsertNotify
<1>2. UNCHANGED <<ring, is_closed, LockOf(w), OutputWait(w), Received(w),
                  GetterAt(w), CloserAt(w), InHand(w)>>
  BY <1>1
  DEF InsertNotify, LockOf, OutputWait, Received, GetterAt, CloserAt, InHand, Inserting
<1>3. /\ InputWait(w) \in {{}, {w}} /\ InputWait(w)' = {}
      /\ InserterAt(w) = "ins_notify" /\ InserterAt(w)' = "idle"
  BY <1>1 DEF InputWait, InserterAt
<1>4. At(w)' = [At(w) EXCEPT ![Inserter] = "idle"] /\ At(w)[Inserter] = "ins_notify"
  BY <1>2, <1>3, InserterMoves, AtIs
<1>5. Buffer(w)!NotifiedOne(InputWait(w), InputWait(w)')
  BY <1>3 DEF Buffer!NotifiedOne
<1>6. Buffer(w)!InsertNotify(Inserter)
  BY <1>2, <1>4, <1>5 DEF Buffer!InsertNotify, Buffer!Goto
<1> QED BY <1>6 DEF Buffered, Buffer!Next

LEMMA CloseBuffered ==
  ASSUME Inv, SyncOK, Close, NEW w \in Worker, i = w
  PROVE  Buffered(w)
<1>1. is_closed'[w] = TRUE
  BY DEF Inv, TypeOK, Close
<1>2. UNCHANGED <<ring, LockOf(w), InputWait(w), OutputWait(w), Received(w),
                  GetterAt(w), InserterAt(w), InHand(w)>>
  BY DEF Close, LockOf, InputWait, OutputWait, Received, GetterAt, InserterAt, InHand, Inserting
<1>3. CloserAt(w) = "idle" /\ CloserAt(w)' = "close_input"
  BY DEF Close, CloserAt
<1>4. At(w)' = [At(w) EXCEPT ![Closer] = "close_input"] /\ At(w)[Closer] = "idle"
  BY <1>2, <1>3, CloserMoves, AtIs
<1>5. Buffer(w)!Close(Closer)
  BY <1>1, <1>2, <1>4 DEF Buffer!Close, Buffer!Goto
<1> QED BY <1>5 DEF Buffered, Buffer!Next

LEMMA CloseNotifyInputBuffered ==
  ASSUME Inv, SyncOK, CloseNotifyInput, NEW w \in Worker, i = w
  PROVE  Buffered(w)
<1>1. asleep \in [Worker -> BOOLEAN] /\ ~asleep'[w] /\ i' = w
  BY DEF Inv, TypeOK, CloseNotifyInput
<1>2. UNCHANGED <<ring, is_closed, LockOf(w), OutputWait(w), Received(w),
                  GetterAt(w), InserterAt(w), InHand(w)>>
  BY <1>1
  DEF CloseNotifyInput, LockOf, OutputWait, Received, GetterAt, InserterAt, InHand, Inserting
<1>3. /\ InputWait(w) \in {{}, {w}} /\ InputWait(w)' = {}
      /\ CloserAt(w) = "close_input" /\ CloserAt(w)' = "close_output"
  BY <1>1 DEF CloseNotifyInput, InputWait, CloserAt
<1>4. At(w)' = [At(w) EXCEPT ![Closer] = "close_output"] /\ At(w)[Closer] = "close_input"
  BY <1>2, <1>3, CloserMoves, AtIs
<1>5. Buffer(w)!NotifiedOne(InputWait(w), InputWait(w)')
  BY <1>3 DEF Buffer!NotifiedOne
<1>6. Buffer(w)!CloseNotifyInput(Closer)
  BY <1>2, <1>4, <1>5 DEF Buffer!CloseNotifyInput, Buffer!Goto
<1> QED BY <1>6 DEF Buffered, Buffer!Next

LEMMA CloseNotifyOutputBuffered ==
  ASSUME Inv, SyncOK, CloseNotifyOutput, NEW w \in Worker, i = w
  PROVE  Buffered(w)
<1>1. ~main_asleep /\ main' \in {"close", "join"}
  BY DEF SyncOK, CloseNotifyOutput, NextOr
<1>2. UNCHANGED <<ring, is_closed, LockOf(w), InputWait(w), Received(w),
                  GetterAt(w), InserterAt(w), InHand(w)>>
  BY <1>1
  DEF CloseNotifyOutput, LockOf, InputWait, Received, GetterAt, InserterAt, InHand, Inserting
<1>3. OutputWait(w)' = {} /\ CloserAt(w) = "close_output" /\ CloserAt(w)' = "idle"
  BY <1>1 DEF CloseNotifyOutput, OutputWait, CloserAt
<1>4. At(w)' = [At(w) EXCEPT ![Closer] = "idle"] /\ At(w)[Closer] = "close_output"
  BY <1>2, <1>3, CloserMoves, AtIs
<1>5. Buffer(w)!CloseNotifyOutput(Closer)
  BY <1>2, <1>3, <1>4 DEF Buffer!CloseNotifyOutput, Buffer!Goto
<1> QED BY <1>5 DEF Buffered, Buffer!Next

(* main's steps, for every channel. *)
LEMMA MainBuffered ==
  ASSUME Inv, SyncOK, Main, NEW w \in Worker
  PROVE  Buffered(w)
<1>1. CASE i = w /\ (ReadFrame \/ Insert \/ InsertBlock \/ InsertNotify)
  BY <1>1, ReadFrameBuffered, InsertBuffered, InsertBlockBuffered, InsertNotifyBuffered
<1>2. CASE i = w /\ (Close \/ CloseNotifyInput \/ CloseNotifyOutput)
  BY <1>2, CloseBuffered, CloseNotifyInputBuffered, CloseNotifyOutputBuffered
<1>3. ASSUME UNCHANGED <<ring[w], is_closed[w], asleep[w], pc, packet>>,
             OutputWait(w)' = OutputWait(w), InserterAt(w)' = InserterAt(w),
             CloserAt(w)' = CloserAt(w), InHand(w)' = InHand(w),
             (main' = "ins_blocking" /\ i' = w) = (main = "ins_blocking" /\ i = w)
      PROVE  Buffered(w)
  BY <1>3, BufferQuiet DEF LockOf, InputWait, GetterAt, Received
<1>4. CASE i # w /\ (ReadFrame \/ Insert \/ InsertBlock \/ Close \/ CloseNotifyInput)
  <2>1. i' = i /\ UNCHANGED <<pc, packet>>
    BY <1>4 DEF ReadFrame, Insert, InsertBlock, Close, CloseNotifyInput
  <2>2. UNCHANGED <<ring[w], is_closed[w], asleep[w]>>
    BY <1>4 DEF Inv, TypeOK, ReadFrame, Insert, PushHeld, InsertBlock, Close, CloseNotifyInput
  <2> QED BY <1>3, <1>4, <2>1, <2>2 DEF OutputWait, InserterAt, CloserAt, InHand
<1>5. CASE (i # w /\ (InsertNotify \/ CloseNotifyOutput)) \/ StopReading \/ Join
  <2>1. /\ main' \in {"next", "close", "join", "print"}
        /\ main \in {"next", "join"} \/ i # w
        /\ ~main_asleep /\ ~main_asleep'
        /\ main \notin {"ins_lock", "ins_blocking", "ins_waiting"}
        /\ UNCHANGED <<ring, is_closed, pc, packet>>
    BY <1>5 DEF SyncOK, InsertNotify, CloseNotifyOutput, StopReading, Join, NextOr
  <2>2. asleep'[w] = asleep[w]
    BY <1>5 DEF Inv, TypeOK, InsertNotify, CloseNotifyOutput, StopReading, Join
  <2> QED BY <1>3, <2>1, <2>2 DEF OutputWait, InserterAt, CloserAt, InHand, Inserting
<1> QED BY <1>1, <1>2, <1>4, <1>5 DEF Main

(* A worker's steps, for its own channel. *)
LEMMA GetNextBuffered ==
  ASSUME Inv, SyncOK, NEW w \in Worker, GetNext(w)
  PROVE  Buffered(w)
<1>1. /\ pc \in [Worker -> {"idle", "get_blocking", "get_waiting", "ether", "count", "ip", "exit"}]
      /\ ring \in [Worker -> RingType] /\ RingOK(ring[w]) /\ DOMAIN packet = Worker
      /\ main' = main /\ i' = i /\ UNCHANGED <<held, is_closed, asleep>>
      /\ pc[w] \in {"idle", "get_waiting"} /\ (pc[w] = "get_waiting" => ~asleep[w])
      /\ ~(main = "ins_blocking" /\ i = w)
  BY DEF Inv, TypeOK, FramesOK, GetNext, GetsLock, mainVars
<1>2. UNCHANGED <<is_closed, InputWait(w), InserterAt(w), CloserAt(w), InHand(w)>>
  BY <1>1 DEF InputWait, InserterAt, CloserAt, InHand, Inserting
<1>3. LockOf(w) = Nobody /\ GetterAt(w) = pc[w] /\ (pc[w] = "get_waiting" => w \notin InputWait(w))
  BY <1>1 DEF LockOf, GetterAt, InputWait
<1>4. At(w)' = [At(w) EXCEPT ![w] = GetterAt(w)'] /\ At(w)[w] = pc[w]
  BY <1>2, <1>3, GetterMoves, AtIs
<1>5. Buffer(w)!GetNextLocked(w)
  <2>1. CASE ~empty(ring[w]) /\ Take(w)
    <3>1. front(ring[w]) \in Item
      BY <1>1, <2>1, PopOK
    <3>2. front(ring[w]) # Junk
      BY <3>1, JunkAssumption
    <3>3. packet'[w] = front(ring[w])
      BY <1>1, <2>1 DEF Take
    <3>4. Received(w)' = [Received(w) EXCEPT ![w] = front(ring[w])]
      BY <3>2, <3>3 DEF Received
    <3>5. GetterAt(w)' = "idle" /\ LockOf(w)' = LockOf(w)
          /\ ring'[w] = pop(SwapFront(ring[w], Junk))
      BY <1>1, <2>1 DEF Take, GetterAt, LockOf
    <3>6. Buffer(w)!NotifiedOne(OutputWait(w), OutputWait(w)')
      BY <1>1, <2>1 DEF Take, OutputWait, Buffer!NotifiedOne
    <3>7. Buffer(w)!Take(w)
      BY <1>2, <1>4, <3>4, <3>5, <3>6, SameRing DEF Buffer!Take, Buffer!Return, Buffer!Goto
    <3> QED BY <2>1, <3>7, SameRing DEF Buffer!GetNextLocked
  <2>2. CASE empty(ring[w]) /\ is_closed[w] /\ ReturnDefault(w)
    <3>1. packet'[w] = Default /\ Default # Junk
      BY <1>1, <2>2, PipelineAssumption DEF ReturnDefault
    <3>2. Received(w)' = [Received(w) EXCEPT ![w] = Default]
      BY <3>1 DEF Received
    <3>3. /\ GetterAt(w)' = "idle" /\ LockOf(w)' = LockOf(w) /\ OutputWait(w)' = OutputWait(w)
          /\ ring' = ring
      BY <1>1, <2>2 DEF ReturnDefault, GetterAt, LockOf, OutputWait
    <3>4. Buffer(w)!ReturnDefault(w)
      BY <1>2, <1>4, <3>2, <3>3 DEF Buffer!ReturnDefault, Buffer!Return, Buffer!Goto
    <3> QED BY <2>2, <3>4, SameRing DEF Buffer!GetNextLocked
  <2>3. CASE empty(ring[w]) /\ ~is_closed[w] /\ AboutToBlock(w)
    <3>1. /\ GetterAt(w)' = "get_blocking" /\ LockOf(w)' = w /\ OutputWait(w)' = OutputWait(w)
          /\ ring' = ring /\ Received(w)' = Received(w)
      BY <1>1, <2>3 DEF AboutToBlock, GetterAt, LockOf, OutputWait, Received
    <3>2. Buffer(w)!AboutToBlock(w, "get_blocking")
      BY <1>2, <1>4, <3>1 DEF Buffer!AboutToBlock, Buffer!Goto
    <3> QED BY <2>3, <3>2, SameRing DEF Buffer!GetNextLocked
  <2> QED BY <2>1, <2>2, <2>3 DEF GetNext
<1>6. Buffer(w)!GetNext(w) \/ Buffer(w)!GetNextWoken(w)
  BY <1>1, <1>3, <1>4, <1>5 DEF Buffer!GetNext, Buffer!GetNextWoken
<1> QED BY <1>6 DEF Buffered, Buffer!Next

LEMMA GetNextBlockBuffered ==
  ASSUME Inv, SyncOK, NEW w \in Worker, GetNextBlock(w)
  PROVE  Buffered(w)
<1>1. /\ pc[w] = "get_blocking" /\ pc'[w] = "get_waiting" /\ asleep'[w]
      /\ ~(main = "ins_blocking" /\ i = w)
      /\ UNCHANGED <<main, i, held, main_asleep, ring, is_closed, packet>>
  BY DEF Inv, TypeOK, SyncOK, GetNextBlock, mainVars
<1>2. UNCHANGED <<OutputWait(w), InserterAt(w), CloserAt(w), InHand(w), Received(w)>>
  BY <1>1 DEF OutputWait, InserterAt, CloserAt, InHand, Inserting, Received
<1>3. /\ LockOf(w)' = Nobody /\ InputWait(w)' = InputWait(w) \cup {w}
      /\ GetterAt(w) = "get_blocking" /\ GetterAt(w)' = "get_waiting"
  BY <1>1 DEF LockOf, InputWait, GetterAt
<1>4. At(w)' = [At(w) EXCEPT ![w] = "get_waiting"] /\ At(w)[w] = "get_blocking"
  BY <1>2, <1>3, GetterMoves, AtIs
<1>5. Buffer(w)!GetNextBlock(w)
  BY <1>1, <1>2, <1>3, <1>4 DEF Buffer!GetNextBlock, Buffer!Goto
<1> QED BY <1>5 DEF Buffered, Buffer!Next

(* A worker's steps, for every channel. *)
LEMMA GetStatsBuffered ==
  ASSUME Inv, SyncOK, NEW v \in Worker, GetStats(v), NEW w \in Worker
  PROVE  Buffered(w)
<1>1. CASE v = w /\ (GetNext(v) \/ GetNextBlock(v))
  BY <1>1, GetNextBuffered, GetNextBlockBuffered
<1>2. ASSUME UNCHANGED <<main, i, held, is_closed, ring[w], asleep[w], packet[w]>>,
             OutputWait(w)' = OutputWait(w), GetterAt(w)' = GetterAt(w)
      PROVE  Buffered(w)
  <2>1. pc'[w] = "get_blocking" <=> pc[w] = "get_blocking"
    BY <1>2 DEF GetterAt
  <2> QED
    BY <1>2, <2>1, BufferQuiet
    DEF LockOf, InputWait, InserterAt, CloserAt, InHand, Inserting, Received
<1>3. UNCHANGED <<main, i, held, is_closed>>
  BY DEF GetStats, GetNext, GetNextBlock, ReadField, Count, mainVars
<1>4. CASE v # w
  <2>1. UNCHANGED <<ring[w], asleep[w], packet[w], pc[w]>>
    BY <1>4
    DEF Inv, TypeOK, GetStats, GetNext, Take, ReturnDefault, AboutToBlock, GetNextBlock,
        ReadField, Count
  <2>2. (main_asleep' => main_asleep) /\ (main_asleep /\ i # v => main_asleep')
    <3>1. CASE GetNext(v)
      <4>1. Take(v) \/ ReturnDefault(v) \/ AboutToBlock(v)
        BY <3>1 DEF GetNext
      <4>2. CASE Take(v)
        BY <4>2, Zenon DEF Take
      <4> QED BY <4>1, <4>2 DEF ReturnDefault, AboutToBlock
    <3>2. CASE GetNextBlock(v) \/ ReadField(v) \/ Count(v)
      BY <3>2 DEF GetNextBlock, ReadField, Count
    <3> QED BY <3>1, <3>2 DEF GetStats
  <2>3. OutputWait(w)' = OutputWait(w)
    BY <1>3, <1>4, <2>2 DEF OutputWait
  <2> QED BY <1>2, <1>3, <2>1, <2>3 DEF GetterAt
<1>5. CASE v = w /\ (ReadField(v) \/ Count(v))
  <2>1. UNCHANGED <<main_asleep, ring, asleep, packet>>
    BY <1>5 DEF ReadField, Count
  <2>2. pc[w] \in {"ether", "count"} /\ pc'[w] \in {"ether", "count", "ip", "idle"}
    BY <1>5 DEF Inv, TypeOK, ReadField, Count, AfterTypeTest
  <2> QED BY <1>2, <1>3, <2>1, <2>2 DEF OutputWait, GetterAt
<1> QED BY <1>1, <1>4, <1>5 DEF GetStats

(* A spurious wakeup of main or of a worker is one of its channel's. *)
LEMMA WakeupBuffered ==
  ASSUME Inv, SyncOK, SpuriousWakeup, NEW w \in Worker
  PROVE  Buffered(w)
<1>1. UNCHANGED <<main, i, held, ring, is_closed, pc, packet>>
  BY DEF SpuriousWakeup, mainVars
<1>2. UNCHANGED <<LockOf(w), GetterAt(w), InserterAt(w), CloserAt(w), InHand(w), Received(w)>>
  BY <1>1 DEF LockOf, GetterAt, InserterAt, CloserAt, InHand, Inserting, Received
<1>3. At(w)' = At(w)
  BY <1>2 DEF At
<1>4. ASSUME InputWait(w)' = InputWait(w), OutputWait(w)' = OutputWait(w) PROVE Buffered(w)
  BY <1>1, <1>2, <1>4, BufferQuiet
<1>5. ASSUME NEW t \in {w, Inserter}, t \in InputWait(w) \cup OutputWait(w),
             InputWait(w)' = InputWait(w) \ {t}, OutputWait(w)' = OutputWait(w) \ {t}
      PROVE  Buffered(w)
  <2>1. Buffer(w)!SpuriousWakeup(t)
    BY <1>1, <1>2, <1>3, <1>5 DEF Buffer!SpuriousWakeup
  <2> QED BY <2>1 DEF Buffered, Buffer!Next
<1>6. CASE main_asleep /\ main_asleep' = FALSE /\ UNCHANGED asleep
  <2>1. InputWait(w)' = InputWait(w)
    BY <1>6 DEF InputWait
  <2>2. CASE i = w
    <3>1. Inserter \in OutputWait(w) /\ OutputWait(w)' = OutputWait(w) \ {Inserter}
          /\ InputWait(w)' = InputWait(w) \ {Inserter}
      BY <1>1, <1>6, <2>1, <2>2, Names DEF InputWait, OutputWait
    <3> QED BY <1>5, <3>1
  <2>3. CASE i # w
    BY <1>1, <1>4, <2>1, <2>3 DEF OutputWait
  <2> QED BY <2>2, <2>3
<1>7. ASSUME NEW v \in Worker, asleep[v], asleep' = [asleep EXCEPT ![v] = FALSE],
             main_asleep' = main_asleep
      PROVE  Buffered(w)
  <2>1. OutputWait(w)' = OutputWait(w)
    BY <1>1, <1>7 DEF OutputWait
  <2>2. CASE v = w
    <3>1. asleep[w] /\ ~asleep'[w]
      BY <1>7, <2>2 DEF Inv, TypeOK
    <3>2. w \in InputWait(w) /\ InputWait(w)' = InputWait(w) \ {w}
          /\ OutputWait(w)' = OutputWait(w) \ {w}
      BY <2>1, <3>1, Names DEF InputWait, OutputWait
    <3> QED BY <1>5, <3>2
  <2>3. CASE v # w
    BY <1>4, <1>7, <2>1, <2>3 DEF InputWait
  <2> QED BY <2>2, <2>3
<1> QED BY <1>6, <1>7 DEF SpuriousWakeup

LEMMA NextBuffered ==
  ASSUME Inv, SyncOK, [Next]_vars, NEW w \in Worker
  PROVE  Buffered(w)
<1>1. CASE UNCHANGED vars
  BY <1>1, BufferQuiet
  DEF vars, LockOf, InputWait, OutputWait, GetterAt, InserterAt, CloserAt, InHand, Inserting, Received
<1> QED BY <1>1, MainBuffered, GetStatsBuffered, WakeupBuffered DEF Next, Printing

(* Each channel, with its worker as its only receiver and with main as its
   only sender and its closer, starts as a channel_buffer and takes only the
   steps of one, whatever main and the other workers do meanwhile. *)
THEOREM ChannelsAreBuffers == Spec => ImplementsChannelBuffer
<1> DEFINE A == \A w \in Worker : [Buffer(w)!Next]_(Buffer(w)!vars)
<1>1. Init => \A w \in Worker : Buffer(w)!Init
  BY BufferInit
<1>2. Inv /\ SyncOK /\ [Next]_vars => [A]_vars
  BY NextBuffered DEF Buffered
<1> HIDE DEF A
<1>3. Spec => []SyncOK
  BY SyncInit, SyncNext, InvAlways, PTL DEF Spec
<1>4. Spec => [][A]_vars
  BY <1>2, <1>3, InvAlways, PTL DEF Spec
<1> QED BY <1>1, <1>4 DEF Spec, ImplementsChannelBuffer, A
=============================================================================
