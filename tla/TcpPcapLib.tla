----------------------------- MODULE TcpPcapLib -----------------------------
(***************************************************************************)
(* TCPPcapTestingLib (tcp_pcap_trace_testing_lib.cpp): a backend that      *)
(* replays a trace flow by flow.  The packets of the trace that are        *)
(* addressed to the simulated interface are sent to the hardware, the      *)
(* others are what the hardware is expected to answer.                     *)
(*                                                                         *)
(* The object is a record.  Its methods are operators from the object to   *)
(* the results they may have, because the code reads the header length     *)
(* from a buffer that is not filled yet.                                   *)
(***************************************************************************)
EXTENDS PcapFile

CONSTANTS
    OurMac,      \* source_mac_addr of the simulated interface
    StaleIhls,   \* header lengths the unfilled buffer may seem to contain
    Radix        \* a 16-bit or 32-bit field is two digits of this radix

ASSUME TcpPcapAssumption == StaleIhls # {} /\ Radix \in Nat \ {0}

SYN == "SYN"
UNINIT == -1

(* What the host loads from a field in network byte order.                   *)
Load(x) == (x % Radix) * Radix + x \div Radix

TCPMimic(done) ==
    [handshake_done |-> done, my_seq |-> UNINIT, my_expected_ack |-> UNINIT,
     pkts_recved_buf |-> <<>>, pkts_to_recv |-> <<>>, pkts_to_send |-> <<>>]

Hdr(buf) == Info[buf[1].frame]

ForUs(buf) == Hdr(buf).dst_mac = OurMac

(* The ports are looked up behind an IP header of ihl words, where there are *)
(* other fields of the packet if that is not its length.                     *)
TCPFlowTuple(buf, ihl) ==
    LET p == Hdr(buf).ports[ihl]
    IN  IF ForUs(buf)
        THEN [my_ip |-> Hdr(buf).sip, their_ip |-> Hdr(buf).dip,
              my_port |-> p.src, their_port |-> p.dst]
        ELSE [my_ip |-> Hdr(buf).dip, their_ip |-> Hdr(buf).sip,
              my_port |-> p.dst, their_port |-> p.src]

(* Both lengths of headers are in words of 4 bytes; the total length is used *)
(* as it is loaded.                                                          *)
PayloadLen(buf) ==
    (Load(Hdr(buf).tot_len) - 4 * Hdr(buf).ihl - 4 * Hdr(buf).doff) % (Radix * Radix)

buf_process_helper(buf, ctx) ==
    [ctx EXCEPT
        !.my_seq = Load(Hdr(buf).seq),
        !.my_expected_ack =
            IF Hdr(buf).flags = SYN THEN (Load(Hdr(buf).seq) + 1) % (Radix * Radix)
            ELSE IF @ = UNINIT THEN UNINIT
            ELSE (@ + PayloadLen(buf)) % (Radix * Radix)]

(* compare_bufs of a list of pairs: what it reports, and whether it ends the *)
(* simulation.                                                               *)
Differ(pairs) == \E i \in DOMAIN pairs : Len(pairs[i].ref) # Len(pairs[i].test)

Pairs(refs, tests, n) == [i \in 1 .. n |-> [ref |-> refs[i], test |-> tests[i]]]

(***************************************************************************)
(* The object.  Three fields are history: right_key, whether every lookup  *)
(* used the packet's own ports; taken, the packets from the hardware that  *)
(* belong to a flow; compared, the pairs handed to compare_bufs.           *)
(***************************************************************************)
NewTcpPcap ==
    [kind |-> "TCP_TRACE", pos |-> 1, tcp_flows |-> <<>>, right_key |-> TRUE,
     taken |-> <<>>, compared |-> <<>>]

WithFlow(o, t, ctx) ==
    [o EXCEPT !.tcp_flows =
        [k \in DOMAIN @ \cup {t} |-> IF k = t THEN ctx ELSE @[k]]]

Result(buf, o) == [buf |-> buf, obj |-> o]

(* The packet just read belongs to an existing flow.                         *)
KnownFlow_drop_bug(o, t, buf) ==
    LET ctx == o.tcp_flows[t]
    IN  IF ~ForUs(buf)
        THEN Result(<<>>, WithFlow(o, t, [ctx EXCEPT !.pkts_to_recv = Append(@, buf)]))
        ELSE IF ctx.handshake_done
        THEN Result(buf, WithFlow(o, t, buf_process_helper(buf, ctx)))
        ELSE Result(<<>>, o)

KnownFlow(o, t, buf) ==
    LET ctx == o.tcp_flows[t]
        queued == Append(ctx.pkts_to_send, buf)
    IN  IF ~ForUs(buf)
        THEN Result(<<>>, WithFlow(o, t, [ctx EXCEPT !.pkts_to_recv = Append(@, buf)]))
        ELSE IF ctx.handshake_done
        THEN Result(Head(queued),
                    WithFlow(o, t, buf_process_helper(Head(queued),
                                       [ctx EXCEPT !.pkts_to_send = Tail(queued)])))
        ELSE Result(<<>>, WithFlow(o, t, [ctx EXCEPT !.pkts_to_send = queued]))

(* The first packet of a flow.                                               *)
NewFlow(o, t, buf) ==
    LET ctx == TCPMimic(FALSE)
    IN  IF ForUs(buf)
        THEN Result(buf, WithFlow(o, t, buf_process_helper(buf, ctx)))
        ELSE Result(<<>>, WithFlow(o, t, [ctx EXCEPT !.pkts_to_recv = <<buf>>]))

(* Nothing left to read: a packet that waits, of the first such flow in the  *)
(* order of the hash map.                                                    *)
Leftover_keep_bug(o) ==
    LET waiting == {t \in DOMAIN o.tcp_flows : o.tcp_flows[t].pkts_to_send # <<>>}
    IN  IF waiting = {} THEN {Result(<<>>, o)}
        ELSE {Result(Head(o.tcp_flows[t].pkts_to_send), o) : t \in waiting}

Leftover(o) ==
    LET waiting == {t \in DOMAIN o.tcp_flows : o.tcp_flows[t].pkts_to_send # <<>>}
    IN  IF waiting = {} THEN {Result(<<>>, o)}
        ELSE {LET ctx == o.tcp_flows[t]
              IN  Result(Head(ctx.pkts_to_send),
                         WithFlow(o, t, buf_process_helper(Head(ctx.pkts_to_send),
                                            [ctx EXCEPT !.pkts_to_send = Tail(@)])))
              : t \in waiting}

Keyed(o, r, ihl) ==
    [o EXCEPT !.pos = r.pos, !.right_key = @ /\ ihl = Hdr(r.buf).ihl]

TcpPcapGet(o, disk) ==
    UNION {IF r.buf = <<>> THEN Leftover([o EXCEPT !.pos = r.pos])
           ELSE {LET t == TCPFlowTuple(r.buf, ihl)
                 IN  IF t \in DOMAIN o.tcp_flows
                     THEN KnownFlow(Keyed(o, r, ihl), t, r.buf)
                     ELSE NewFlow(Keyed(o, r, ihl), t, r.buf)
                 : ihl \in StaleIhls}
           : r \in read_pcap_record(disk, o.pos)}

(* A packet from the hardware: compare what has been waiting on both sides,  *)
(* then this packet, or keep it.  Without an entry it is dropped.            *)
TcpPcapPut_no_catch_up_bug(o, buf) ==
    LET t == TCPFlowTuple(buf, Hdr(buf).ihl)
        ctx == o.tcp_flows[t]
        direct == ctx.pkts_to_recv # <<>>
        pairs == IF direct THEN <<[ref |-> Head(ctx.pkts_to_recv), test |-> buf]>> ELSE <<>>
        new == [ctx EXCEPT !.pkts_to_recv = IF direct THEN Tail(@) ELSE @,
                           !.pkts_recved_buf = IF direct THEN @ ELSE Append(@, buf)]
    IN  IF t \notin DOMAIN o.tcp_flows THEN [obj |-> o, finish |-> FALSE]
        ELSE [obj |-> [WithFlow(o, t, new) EXCEPT !.taken = Append(@, buf),
                                             !.compared = @ \o pairs],
              finish |-> Differ(pairs)]

TcpPcapPut(o, buf) ==
    LET t == TCPFlowTuple(buf, Hdr(buf).ihl)
        ctx == o.tcp_flows[t]
        n == Shorter(Len(ctx.pkts_to_recv), Len(ctx.pkts_recved_buf))
        refs == SubSeq(ctx.pkts_to_recv, n + 1, Len(ctx.pkts_to_recv))
        tests == SubSeq(ctx.pkts_recved_buf, n + 1, Len(ctx.pkts_recved_buf))
        direct == refs # <<>>
        pairs == Pairs(ctx.pkts_to_recv, ctx.pkts_recved_buf, n)
                    \o IF direct THEN <<[ref |-> Head(refs), test |-> buf]>> ELSE <<>>
        new == [ctx EXCEPT !.pkts_to_recv = IF direct THEN Tail(refs) ELSE refs,
                           !.pkts_recved_buf = IF direct THEN tests ELSE Append(tests, buf)]
    IN  IF t \notin DOMAIN o.tcp_flows THEN [obj |-> o, finish |-> FALSE]
        ELSE [obj |-> [WithFlow(o, t, new) EXCEPT !.taken = Append(@, buf),
                                             !.compared = @ \o pairs],
              finish |-> Differ(pairs)]
=============================================================================
