------------------------------ MODULE Headers ------------------------------
(***************************************************************************)
(* The header functions of testing_utils.cpp: from the bit vectors of the  *)
(* hardware to C structures, to packets on the wire with checksums, and    *)
(* back.  They are called one after the other on a segment; the model is   *)
(* that chain, with the two ways to begin it.                              *)
(*                                                                         *)
(* Everything is the bytes in memory of a little-endian host, so an        *)
(* integer is its bytes from the least significant one on, htons and htonl *)
(* reverse them, and the structures tcp_header, tcphdr and iphdr are 20    *)
(* bytes.  A bit vector of svBitVecVal words is its bytes, too.            *)
(***************************************************************************)
EXTENDS Integers, Sequences, Sums

CONSTANTS
    Vectors,     \* [tcp, ip, data, len]: header vectors and 64 bits of payload
                 \* from the hardware, and how many bytes of payload there are
    Fills        \* [seq, ack, syn, ackf]: arguments of fill_tcp_header

Byte == {x \in Nat : x < 256}
Bytes(n) == [1 .. n -> Byte]

(* tcp_hdr_assembler makes headers of five words with the reserved bits 0,   *)
(* and the IP header assemblers write version 4.                             *)
ASSUME HeadersAssumption ==
    /\ \A v \in Vectors : /\ v.tcp \in Bytes(20) /\ v.tcp[8] = 5 * 16
                          /\ v.ip \in Bytes(20) /\ v.ip[20] \div 16 = 4
                          /\ v.data \in Bytes(8) /\ v.len \in 0 .. 8
    /\ \A a \in Fills : /\ a.seq \in Bytes(4) /\ a.ack \in Bytes(4)
                        /\ a.syn \in 0 .. 1 /\ a.ackf \in 0 .. 1

Rev(s) == [i \in 1 .. Len(s) |-> s[Len(s) + 1 - i]]
Part(s, from, n) == SubSeq(s, from + 1, from + n)
Put(s, from, b) ==
    [i \in 1 .. Len(s) |-> IF i - from \in 1 .. Len(b) THEN b[i - from] ELSE s[i]]
Swap(s, from, n) == Put(s, from, Rev(Part(s, from, n)))

BE16(x) == <<x \div 256, x % 256>>
LE16(x) == <<x % 256, x \div 256>>
Word(b, i) == b[i] + 256 * (IF i < Len(b) THEN b[i + 1] ELSE 0)

(***************************************************************************)
(* Checksums.  Definitions whose names end in _bug are mutated forms of    *)
(* the definition that follows them; no specification uses them.           *)
(***************************************************************************)
Folded(sum) ==
    LET once == (sum \div 65536) + (sum % 65536)
    IN  (once + (once \div 65536)) % 65536

Words(b) == [i \in 1 .. Len(b) |-> IF i % 2 = 1 THEN Word(b, i) ELSE 0]
WordSum(b) == Total(Words(b))

csum(b) == LE16(65535 - Folded(WordSum(b)))

IPPROTO_TCP == 6

TCPChecksumHeader(src, dst, n) == src \o dst \o <<0, IPPROTO_TCP>> \o BE16(n)

TcpLen(seg, n) == 4 * (seg[13] \div 16) + n

add_tcp_checksum_stale_bug(seg, n, src, dst) ==
    LET len == TcpLen(seg, n)
    IN  Put(seg, 16, csum(TCPChecksumHeader(src, dst, len) \o Part(seg, 0, len)))

add_tcp_checksum(seg, n, src, dst) ==
    LET len == TcpLen(seg, n)
    IN  Put(seg, 16, csum(TCPChecksumHeader(src, dst, len)
                             \o Put(Part(seg, 0, len), 16, <<0, 0>>)))

IpLen(ip) == 4 * (ip[1] % 16)

add_ip_checksum(ip) == Put(ip, 10, csum(Part(ip, 0, IpLen(ip))))

(***************************************************************************)
(* Structures and the wire.                                                *)
(***************************************************************************)
Window == 5840

convert_tcp_header_to_external_no_ack_bug(h) ==
    Put(Swap(Swap(Swap(h, 0, 2), 2, 2), 4, 4), 14, BE16(Window))

convert_tcp_header_to_external(h) ==
    Put(Swap(Swap(Swap(Swap(h, 0, 2), 2, 2), 4, 4), 8, 4), 14, BE16(Window))

convert_ip_header_to_external(ip) == Swap(ip, 2, 2)

convert_external_to_tcp_header_window_bug(wire) ==
    Put(Swap(Swap(Swap(Swap(wire, 8, 4), 4, 4), 0, 2), 2, 2), 12, <<5 * 16>>)

convert_external_to_tcp_header(wire) ==
    Put(Swap(Swap(Swap(Swap(Swap(wire, 8, 4), 4, 4), 0, 2), 2, 2), 14, 2), 12, <<5 * 16>>)

(* htonl(54321) as a 16-bit field is 0.                                      *)
fill_ip_header_no_zero_bug(ip, n) ==
    add_ip_checksum(Put(ip, 0, <<4 * 16 + 5, 0>> \o BE16(40 + n) \o <<0, 0, 0, 0>>
                                  \o <<255, IPPROTO_TCP>>))

fill_ip_header(ip, n) ==
    add_ip_checksum(Put(ip, 0, <<4 * 16 + 5, 0>> \o BE16(40 + n) \o <<0, 0, 0, 0>>
                                  \o <<255, IPPROTO_TCP, 0, 0>>))

(* A segment without payload; sport and dport are sin_port of the addresses. *)
fill_tcp_header(a, sport, dport, src, dst) ==
    LET h == Rev(sport) \o Rev(dport) \o Rev(a.seq) \o Rev(a.ack)
                \o <<5 * 16, 2 * a.syn + 16 * a.ackf>> \o BE16(Window) \o <<0, 0, 0, 0>>
    IN  Put(h, 16, csum(TCPChecksumHeader(src, dst, 20) \o h))

(***************************************************************************)
(* Bit vectors.                                                            *)
(***************************************************************************)
bitvec_to_tcp_header(v) ==
    Part(v, 18, 2) \o Part(v, 16, 2) \o Part(v, 12, 4) \o Part(v, 8, 4)
        \o <<v[8], v[7]>> \o Part(v, 4, 2) \o Rev(Part(v, 2, 2)) \o Part(v, 0, 2)

bitvec_to_ip_header(v) ==
    <<16 * (v[20] % 16) + (v[20] \div 16), v[19]>> \o Part(v, 16, 2) \o Part(v, 14, 2)
        \o Part(v, 12, 2) \o <<v[12], v[11]>> \o Part(v, 8, 2)
        \o Rev(Part(v, 4, 4)) \o Rev(Part(v, 0, 4))

tcp_header_to_bitvec(h) ==
    Part(h, 18, 2) \o Part(h, 16, 2) \o Part(h, 14, 2) \o <<h[14], h[13]>>
        \o Part(h, 8, 4) \o Part(h, 4, 4) \o Part(h, 2, 2) \o Part(h, 0, 2)

data_swizzle_64_bitvec_to_c_buf(v) == Rev(Part(v, 4, 4)) \o Rev(Part(v, 0, 4))

data_swizzle_64_c_buf_to_dpi_longint(b) == [i \in 1 .. 8 |-> b[9 - i]]

(***************************************************************************)
(* The chain.                                                              *)
(***************************************************************************)
VARIABLES
    hw,          \* what the hardware gave
    stage,       \* how far the segment is
    filled,      \* the segment was made by fill_tcp_header
    ip, tcp,     \* the headers
    payload,     \* the C buffer of the payload
    vec, data    \* what the hardware gets back

vars == <<hw, stage, filled, ip, tcp, payload, vec, data>>

Init ==
    /\ hw \in Vectors
    /\ stage = "hw" /\ filled = FALSE
    /\ ip = <<>> /\ tcp = <<>> /\ payload = <<>> /\ vec = <<>> /\ data = <<>>

FromHw ==
    /\ stage = "hw" /\ stage' = "struct"
    /\ tcp' = bitvec_to_tcp_header(hw.tcp)
    /\ ip' = bitvec_to_ip_header(hw.ip)
    /\ payload' = data_swizzle_64_bitvec_to_c_buf(hw.data)
    /\ UNCHANGED <<hw, filled, vec, data>>

ToWire ==
    /\ stage = "struct" /\ stage' = "wire"
    /\ tcp' = convert_tcp_header_to_external(tcp)
    /\ ip' = convert_ip_header_to_external(ip)
    /\ UNCHANGED <<hw, filled, payload, vec, data>>

Src == Part(ip, 12, 4)
Dst == Part(ip, 16, 4)

(* The ports and addresses of the socket state are those of the headers.     *)
Fill(a) ==
    /\ stage = "wire" /\ stage' = "summed" /\ filled' = TRUE
    /\ ip' = fill_ip_header(ip, 0)
    /\ tcp' = fill_tcp_header(a, Rev(Part(tcp, 0, 2)), Rev(Part(tcp, 2, 2)), Src, Dst)
    /\ UNCHANGED <<hw, payload, vec, data>>

AddChecksums ==
    /\ stage = "wire" /\ stage' = "summed"
    /\ ip' = add_ip_checksum(ip)
    /\ tcp' = Part(add_tcp_checksum(tcp \o payload, hw.len, Src, Dst), 0, 20)
    /\ UNCHANGED <<hw, filled, payload, vec, data>>

ToStruct ==
    /\ stage = "summed" /\ stage' = "peer"
    /\ tcp' = convert_external_to_tcp_header(tcp)
    /\ UNCHANGED <<hw, filled, ip, payload, vec, data>>

ToHw ==
    /\ stage = "peer" /\ stage' = "back"
    /\ vec' = tcp_header_to_bitvec(tcp)
    /\ data' = data_swizzle_64_c_buf_to_dpi_longint(payload)
    /\ UNCHANGED <<hw, filled, ip, tcp, payload>>

Next ==
    \/ FromHw
    \/ ToWire
    \/ \E a \in Fills : Fill(a)
    \/ AddChecksums
    \/ ToStruct
    \/ ToHw

Spec == Init /\ [][Next]_vars

-----------------------------------------------------------------------------
(* What a receiver checks: the ones' complement sum of the 16-bit words in   *)
(* network byte order, padded with a zero byte, is all ones.                 *)
NetBytes(b) == [i \in 1 .. Len(b) |-> IF i % 2 = 1 THEN 256 * b[i] ELSE b[i]]
NetSum(b) == Total(NetBytes(b))

Verifies(b) == NetSum(b) > 0 /\ NetSum(b) % 65535 = 0

(* The checksum that add_tcp_checksum or fill_tcp_header puts into a segment *)
(* is the one a receiver computes in the other byte order, for odd payloads, *)
(* sums that carry and whatever the field held before.                       *)
TcpChecksumValid ==
    stage = "summed" =>
        LET n == IF filled THEN 0 ELSE hw.len
        IN  Verifies(TCPChecksumHeader(Src, Dst, 20 + n) \o tcp \o Part(payload, 0, n))

(* fill_ip_header makes a header that a receiver accepts, whatever the       *)
(* memory held; add_ip_checksum does so for the length the structure states, *)
(* if the checksum was 0 before.                                             *)
IpChecksumValid ==
    stage = "summed" /\ (filled \/ Part(hw.ip, 8, 2) = <<0, 0>>) =>
        Verifies(Part(ip, 0, IpLen(ip)))

(* On the wire ports, sequence and ACK number, window, checksum, total       *)
(* length and addresses are in network byte order, in the place that RFC 793 *)
(* and RFC 791 give them: the vectors of the hardware read from the other    *)
(* end.                                                                      *)
WireOrder ==
    stage = "wire" =>
        /\ Part(tcp, 0, 14) = Part(Rev(hw.tcp), 0, 14)
        /\ Part(tcp, 14, 2) = BE16(Window)
        /\ Part(tcp, 16, 2) = Part(Rev(hw.tcp), 16, 2)
        /\ Part(ip, 2, 2) = Part(Rev(hw.ip), 2, 2)
        /\ Part(ip, 12, 8) = Part(Rev(hw.ip), 12, 8)

(* A segment that comes back to the hardware has the ports, the sequence and *)
(* ACK number, the flags, the urgent pointer and the payload it left with,   *)
(* and the window that was advertised for it.                                *)
RoundTrip ==
    stage = "back" =>
        /\ data = hw.data
        /\ Part(vec, 16, 4) = Part(hw.tcp, 16, 4)
        /\ ~filled => /\ Part(vec, 6, 10) = Part(hw.tcp, 6, 10)
                      /\ Part(vec, 0, 2) = Part(hw.tcp, 0, 2)
        /\ Part(vec, 4, 2) = LE16(Window)
=============================================================================
