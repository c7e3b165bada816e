----------------------------- MODULE MCNetSide -----------------------------
(***************************************************************************)
(* Frames, traces and scripts for NetSide.  The addresses and ports are    *)
(* names.  Where a frame is parsed with the wrong header length, the ports *)
(* found are the first fields of the IP header.                            *)
(***************************************************************************)
EXTENDS NetSide

Ports(src, dst) == (5 :> [src |-> src, dst |-> dst]) @@ (0 :> [src |-> "4500", dst |-> "len"])

Ip(size, len, dst, sip, sport, dip, dport, seq, flags) ==
    [type |-> "IP", size |-> size, frame_len |-> len, dst_mac |-> dst, src_mac |-> "m",
     sip |-> sip, dip |-> dip, ports |-> Ports(sport, dport), ihl |-> 5, doff |-> 5,
     tot_len |-> 40 + len, seq |-> seq, flags |-> flags, arp |-> "none", reply |-> "none"]

ToUs(size, len, port, seq, flags) == Ip(size, len, "us", "B", port, "A", "80", seq, flags)
FromUs(size, port, seq, flags) == Ip(size, size, "m", "A", "80", "B", port, seq, flags)

(* An ARP packet, and the answer to one.  Read as IP it has no header.       *)
Arp(dst, kind, reply) ==
    [Ip(2, 2, dst, "arp", "-", "arp", "-", 0, "none") EXCEPT
        !.type = "ARP", !.ihl = 0, !.doff = 0, !.arp = kind, !.reply = reply]

(* Two flows to us, p and q, and what the hardware says on them: the answer  *)
(* the trace has, one with other contents, and one with another size.  The   *)
(* first frame of p has padding after its IP packet.                         *)
MCFrames == {"p_syn", "p_ack", "p_dat", "q_syn", "q_ack", "p_synack", "p_rsp", "p_long",
             "q_synack", "ask", "tell", "answer", "ipv6"}

MCInfo ==
    ("p_syn" :> ToUs(3, 2, "1", 255, "SYN"))
    @@ ("p_ack" :> ToUs(1, 1, "1", 256, "ACK"))
    @@ ("p_dat" :> ToUs(5, 5, "1", 256, "ACK"))
    @@ ("q_syn" :> ToUs(2, 2, "2", 7, "SYN"))
    @@ ("q_ack" :> ToUs(3, 3, "2", 8, "ACK"))
    @@ ("p_synack" :> FromUs(2, "1", 1, "SYN-ACK"))
    @@ ("p_rsp" :> FromUs(2, "1", 2, "ACK"))
    @@ ("p_long" :> FromUs(3, "1", 2, "ACK"))
    @@ ("q_synack" :> FromUs(2, "2", 1, "SYN-ACK"))
    @@ ("ask" :> Arp("all", "request for us", "answer"))
    @@ ("tell" :> Arp("all", "other", "answer"))
    @@ ("answer" :> Arp("m", "other", "none"))
    @@ ("ipv6" :> [Arp("us", "none", "none") EXCEPT !.type = "other"])

In(backend, trace, script, frames) ==
    [backend |-> backend, sticky |-> FALSE, header |-> TRUE, trace |-> trace,
     script |-> script, engine |-> frames]

(* Traces for the order in which packets of two flows are sent and for what  *)
(* is compared with what; a trace with a packet that is not IP; files in     *)
(* which a record is left from an earlier run; and what makes the simulation *)
(* end at once.                                                              *)
MCInputs ==
    {In("TCP_TRACE", <<"p_syn", "q_syn", "p_ack", "p_dat", "q_ack">>, <<>>, {}),
     In("TCP_TRACE", <<"p_syn", "p_synack", "p_rsp">>, <<>>, {"p_synack", "p_long"}),
     In("TCP_TRACE", <<"q_syn", "p_syn", "p_synack", "q_synack">>, <<>>,
        {"p_synack", "q_synack"}),
     In("TRACE", <<"p_syn", "p_synack", "ipv6", "p_dat", "p_rsp">>, <<>>, {"p_rsp", "p_long"}),
     In("FILE_IO", <<"q_syn">>, <<"p_syn", "ask">>, {"p_long"}),
     In("FILE_IO", <<>>, <<"tell", "p_dat", "p_ack">>, {}),
     [In("FILE_IO", <<>>, <<"p_ack">>, {}) EXCEPT !.sticky = TRUE],
     [In("TCP_TRACE", <<>>, <<>>, {}) EXCEPT !.header = FALSE],
     [In("TRACE", <<>>, <<>>, {}) EXCEPT !.header = FALSE],
     In("none", <<>>, <<>>, {})}

MCStaleIhls == {0, 5}
=============================================================================
