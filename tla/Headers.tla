------------------------------ MODULE Headers -------------------------------
(***************************************************************************)
(* The header classes of noname/network: what their constructors take from *)
(* the bytes of a frame, what copying does, and what the getters answer.   *)
(* `data' is a function from offsets to bytes; a header is a record of the *)
(* fields of the C++ struct.                                               *)
(*                                                                         *)
(* Every field wider than a byte is initialised from a single byte, data[i]*)
(* or *(data + i) of a const uint8_t*.                                     *)
(***************************************************************************)
EXTENDS Integers

Byte == 0 .. 255

-----------------------------------------------------------------------------
(* utils.hpp *)

bswap16(v) == ((v % 256) * 256) + ((v \div 256) % 256)

-----------------------------------------------------------------------------
(* ethernet.hpp *)

ETHER_TYPE_IP   == 2048   \* 0x0800
ETHER_TYPE_ARP  == 2054   \* 0x0806
ETHER_TYPE_RARP == 2101   \* 0x0835

mac_address(data, at) == [j \in 0 .. 5 |-> data[at + j]]

mac_address_copy(m) == [j \in 0 .. 5 |-> m[j]]

(* *(data + 2 * LEN) *)
ether_type(data) == data[12]

ethernet_header(data) ==
  [destination |-> mac_address(data, 0),
   source      |-> mac_address(data, 6),
   ether_type  |-> ether_type(data)]

ethernet_header_copy(e) ==
  [destination |-> mac_address_copy(e.destination),
   source      |-> mac_address_copy(e.source),
   ether_type  |-> e.ether_type]

set_ether_type(e, type) == [e EXCEPT !.ether_type = type]

ethernet_next_packet_type(type) ==
  CASE type = ETHER_TYPE_IP   -> "IP"
    [] type = ETHER_TYPE_ARP  -> "ARP"
    [] type = ETHER_TYPE_RARP -> "RARP"
    [] OTHER                  -> "UNKNOWN"

-----------------------------------------------------------------------------
(* ipv4.hpp *)

IP_PROTO_TCP == 6
IP_PROTO_UDP == 17

(* std::copy(address, address + 3, data) has source and target the wrong way
   round: nothing assigns to the address, which stays at the zeros it was
   initialised with.  (The call compiles only with a library that lets it write
   through the const pointer; it then zeroes three bytes of the frame, none of
   which is read again.) *)
ip_address(data, at) == [j \in 0 .. 3 |-> 0]

(* Likewise the copy constructor; the assignment does copy. *)
ip_address_copy(a) == [j \in 0 .. 3 |-> 0]

ip_address_assign(a) == [j \in 0 .. 3 |-> a[j]]

ip_header(data) ==
  [header_length_and_version |-> data[0],
   ip_type_of_serivce        |-> data[1],
   ip_length                 |-> data[2],
   ip_id                     |-> data[4],
   ip_flag_offset            |-> data[6],
   ip_ttl                    |-> data[8],
   ip_proto                  |-> data[9],
   ip_check_sum              |-> data[10],
   src_ip_addr               |-> ip_address(data, 12),
   des_ip_addr               |-> ip_address(data, 16)]

ip_header_copy(h) ==
  [h EXCEPT !.src_ip_addr = ip_address_copy(@), !.des_ip_addr = ip_address_copy(@)]

ip_header_assign(h) ==
  [h EXCEPT !.src_ip_addr = ip_address_assign(@), !.des_ip_addr = ip_address_assign(@)]

get_version(h) == h.header_length_and_version \div 16
get_header_length(h) == h.header_length_and_version % 16
get_length(h) == bswap16(h.ip_length)
get_id(h) == bswap16(h.ip_id)
get_flag(h) == h.ip_flag_offset \div 8192
get_frag_offset(h) == h.ip_flag_offset % 8192
get_checksum(h) == bswap16(h.ip_check_sum)

(* Returned by value, that is copied. *)
get_src_ip(h) == ip_address_copy(h.src_ip_addr)
get_des_ip(h) == ip_address_copy(h.des_ip_addr)

ip_next_packet_type(h) ==
  CASE h.ip_proto = IP_PROTO_TCP -> "TCP"
    [] h.ip_proto = IP_PROTO_UDP -> "UDP"
    [] OTHER                     -> "UNKNOWN"

-----------------------------------------------------------------------------
(* tcp.hpp *)

tcp_header(data) ==
  [src_port         |-> data[0],
   des_port         |-> data[2],
   seq_num          |-> data[4],
   ack_num          |-> data[8],
   header_len_flags |-> data[12],
   window_size      |-> data[14],
   check_sum        |-> data[16],
   urgent_ptr       |-> data[18]]

tcp_header_copy(t) ==
  [src_port         |-> t.src_port,
   des_port         |-> t.des_port,
   seq_num          |-> t.seq_num,
   ack_num          |-> t.ack_num,
   header_len_flags |-> t.header_len_flags,
   window_size      |-> t.window_size,
   check_sum        |-> t.check_sum,
   urgent_ptr       |-> t.urgent_ptr]

tcp_header_length(t) == t.header_len_flags \div 4096
tcp_reserved(t) == (t.header_len_flags \div 64) % 64
tcp_flags(t) == t.header_len_flags % 64

(* get_stats names a port by its byte-swapped field. *)
src_port_name(t) == bswap16(t.src_port)
des_port_name(t) == bswap16(t.des_port)
=============================================================================
