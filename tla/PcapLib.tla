------------------------------ MODULE PcapLib ------------------------------
(***************************************************************************)
(* PcapTestingLib (pcap_trace_testing_lib.cpp): a backend that reads a     *)
(* whole trace when it is created, sends the packets for the simulated     *)
(* interface as fast as they are asked for, expects the others from the    *)
(* hardware in the order of the trace, and ends the simulation with the    *)
(* last of them.                                                           *)
(***************************************************************************)
EXTENDS TcpPcapLib

(* The packets from a position of the file on, apart by direction.  The      *)
(* loop ends with the file, or with an empty record.                         *)
fill_pkt_vectors(disk) ==
    LET rest[pos \in 0 .. Len(disk)] ==
            LET r == CHOOSE r \in read_pcap_record(disk, pos) : TRUE
            IN  IF r.buf = <<>> THEN [send |-> <<>>, recv |-> <<>>]
                ELSE IF ForUs(r.buf)
                THEN [rest[r.pos] EXCEPT !.send = <<r.buf>> \o @]
                ELSE [rest[r.pos] EXCEPT !.recv = <<r.buf>> \o @]
    IN  rest[Shorter(1, Len(disk))]

NewPcap(disk) ==
    [kind |-> "TRACE", send_pkts |-> fill_pkt_vectors(disk).send,
     recv_pkts |-> fill_pkt_vectors(disk).recv, compared |-> <<>>]

PcapGet(o) ==
    IF o.send_pkts = <<>> THEN {Result(<<>>, o)}
    ELSE {Result(Head(o.send_pkts), [o EXCEPT !.send_pkts = Tail(@)])}

PcapPut_early_finish_bug(o, buf) ==
    LET pair == [ref |-> Head(o.recv_pkts), test |-> buf]
    IN  IF o.recv_pkts = <<>> THEN [obj |-> o, finish |-> FALSE]
        ELSE [obj |-> [o EXCEPT !.recv_pkts = Tail(@), !.compared = Append(@, pair)],
              finish |-> Differ(<<pair>>) \/ Len(o.recv_pkts) <= 2]

PcapPut(o, buf) ==
    LET pair == [ref |-> Head(o.recv_pkts), test |-> buf]
    IN  IF o.recv_pkts = <<>> THEN [obj |-> o, finish |-> FALSE]
        ELSE [obj |-> [o EXCEPT !.recv_pkts = Tail(@), !.compared = Append(@, pair)],
              finish |-> Differ(<<pair>>) \/ Len(o.recv_pkts) = 1]
=============================================================================
