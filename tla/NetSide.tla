------------------------------ MODULE NetSide ------------------------------
(***************************************************************************)
(* The simulated network interface of the engine:                          *)
(* sim_network_side_queue.sv, which moves one line of MAC_INTERFACE_W bits *)
(* per cycle in each direction, and sim_network_side_queue.cpp, which it   *)
(* calls through DPI to turn packets of a backend into lines and lines     *)
(* into packets; composed with the backends, with the process at the other *)
(* end of the files backend, and with the engine as any source and sink of *)
(* lines.                                                                  *)
(*                                                                         *)
(* At the falling edge of the clock two processes run, in either order:    *)
(* one asks for a line to receive unless the receive FIFO is full, the     *)
(* other hands on a line to send if the send FIFO has one.  At the rising  *)
(* edge the registers and FIFOs move.  The model starts after reset.  It   *)
(* ends with finish_simulation: what the calls in progress still do with   *)
(* the deleted backend is not modelled.                                    *)
(***************************************************************************)
EXTENDS FileIOLib, SequencesExt

CONSTANTS
    LineBytes,    \* MAC_INTERFACE_W / 8
    FifoEls,      \* els_p of both FIFOs
    Inputs,       \* [backend, sticky, header, trace, script, engine]: the backend
                  \* and its C library, the file it reads (whether it has a
                  \* header, and its frames), what another process will write
                  \* to that file, and the frames the engine may send
    MaxSent       \* bound: frames the engine sends

ASSUME NetSideAssumption ==
    /\ LineBytes \in Nat \ {0} /\ FifoEls \in Nat \ {0} /\ MaxSent \in Nat

VARIABLES
    input,        \* the member of Inputs
    sim,          \* "init", "running" or "finished"
    sim_backend,  \* the backend object
    file,         \* the file the backend reads: [disk, buf]
    sw,           \* the other process: what it has yet to write, and its step
    todo,         \* the processes that have yet to run at this falling edge
    rx_data_if,   \* the packet being received: [buffer, buffer_pos], empty
                  \* when all of it is driven and the buffer is freed
    dpi,          \* the line driven last: rx_val_dpi, rx_data_dpi, ...
    dpi_reg,      \* its registered copy
    rx_fifo,
    tx_fifo,
    tx_buf,       \* tx_data_if.buffer
    dest_mac,     \* instance_state.dest_mac_addr
    engine,       \* the frame the engine is sending: [frame, pos]
    handed,       \* history: packets the backend has handed out
    sent,         \* history: frames the engine has sent
    puts          \* history: packets handed to the backend for them

vars == <<input, sim, sim_backend, file, sw, todo, rx_data_if, dpi, dpi_reg,
          rx_fifo, tx_fifo, tx_buf, dest_mac, engine, handed, sent, puts>>

NoLine == [val |-> FALSE]
NoPacket == [buffer |-> <<>>, buffer_pos |-> 0]
NoFrame == "none"
NoMac == "none"
Zero == Byte(NoFrame, 0)

(* A file with or without a header.                                          *)
TraceFile(header, frames) ==
    FoldLeft(LAMBDA s, f : write_pcap_record(s, Bytes(f)),
             IF header THEN writePCAPHeader(EmptyStream) ELSE EmptyStream, frames)

Init ==
    /\ input \in Inputs
    /\ sim = "init"
    /\ sim_backend = [kind |-> "none"]
    /\ file = TraceFile(input.header, input.trace)
    /\ sw = [script |-> input.script, pc |-> "header"]
    /\ todo = {"get", "put"}
    /\ rx_data_if = NoPacket
    /\ dpi = NoLine /\ dpi_reg = NoLine
    /\ rx_fifo = <<>> /\ tx_fifo = <<>> /\ tx_buf = <<>>
    /\ dest_mac = NoMac
    /\ engine = [frame |-> NoFrame, pos |-> 0]
    /\ handed = <<>> /\ sent = <<>> /\ puts = <<>>

(***************************************************************************)
(* The methods every backend has.                                          *)
(***************************************************************************)
get_buf_fr_io(o) ==
    CASE o.kind = "TCP_TRACE" -> TcpPcapGet(o, file.disk)
      [] o.kind = "TRACE" -> PcapGet(o)
      [] o.kind = "FILE_IO" -> FileIOGet(o, file.disk)

put_buf_on_io(o, buf) ==
    CASE o.kind = "TCP_TRACE" -> TcpPcapPut(o, buf)
      [] o.kind = "TRACE" -> PcapPut(o, buf)
      [] o.kind = "FILE_IO" -> FileIOPut(o, buf)

After(r) ==
    /\ sim_backend' = r.obj
    /\ sim' = IF r.finish THEN "finished" ELSE sim

(***************************************************************************)
(* Initialization, before the first clock edge.  BACKEND selects the files *)
(* or TCPPcapTestingLib; PcapTestingLib, which it replaced, has the same   *)
(* interface and is composed here in its place.                            *)
(***************************************************************************)
init_network_side_state ==
    /\ sim = "init"
    /\ CASE input.backend = "FILE_IO" ->
                 /\ sim_backend' = NewFileIO(file.disk, input.sticky)
                 /\ file' = [file EXCEPT !.disk = Append(@, FileHeader)]
                 /\ sim' = "running"
         [] input.backend \in {"TCP_TRACE", "TRACE"} ->
                 /\ sim_backend' = IF input.backend = "TRACE" THEN NewPcap(file.disk)
                                   ELSE NewTcpPcap
                 /\ sim' = IF consumePCAPHeader(file.disk) < 0 THEN "finished" ELSE "running"
                 /\ file' = file
         [] OTHER -> sim' = "finished" /\ UNCHANGED <<sim_backend, file>>
    /\ UNCHANGED <<input, sw, todo, rx_data_if, dpi, dpi_reg, rx_fifo, tx_fifo,
                   tx_buf, dest_mac, engine, handed, sent, puts>>

(***************************************************************************)
(* Receive: from packets to lines.                                         *)
(***************************************************************************)
LineAt(b, pos) ==
    LET n == Shorter(LineBytes, Len(b) - pos)
    IN  [val |-> TRUE,
         data |-> SubSeq(b, pos + 1, pos + n) \o [i \in 1 .. LineBytes - n |-> Zero],
         last |-> pos + n = Len(b),
         padbytes |-> LineBytes - n]

(* The packet without the padding of its Ethernet frame.                     *)
Received(b) == SubSeq(b, 1, Hdr(b).frame_len)

DriveLine(b, pos) ==
    LET next == Shorter(pos + LineBytes, Len(b))
    IN  /\ dpi' = LineAt(b, pos)
        /\ rx_data_if' = IF next = Len(b) THEN NoPacket
                          ELSE [buffer |-> b, buffer_pos |-> next]

(* An ARP request for our address is answered through the backend; other ARP *)
(* packets are ignored.                                                      *)
handle_arp_any_bug(o, b) ==
    /\ dest_mac' = Hdr(b).src_mac
    /\ After(put_buf_on_io(o, Bytes(Hdr(b).reply)))

handle_arp(o, b) ==
    IF Hdr(b).arp = "request for us"
    THEN /\ dest_mac' = Hdr(b).src_mac
         /\ After(put_buf_on_io(o, Bytes(Hdr(b).reply)))
    ELSE /\ sim_backend' = o
         /\ UNCHANGED <<dest_mac, sim>>

recv_from_socket(r) ==
    CASE r.buf = <<>> \/ (r.buf # <<>> /\ Hdr(r.buf).type = "other") ->
             /\ dpi' = NoLine /\ sim_backend' = r.obj
             /\ UNCHANGED <<rx_data_if, dest_mac, sim>>
      [] r.buf # <<>> /\ Hdr(r.buf).type = "ARP" ->
             /\ dpi' = NoLine /\ handle_arp(r.obj, r.buf)
             /\ UNCHANGED rx_data_if
      [] r.buf # <<>> /\ Hdr(r.buf).type = "IP" ->
             /\ DriveLine(Received(r.buf), 0)
             /\ sim_backend' = r.obj
             /\ UNCHANGED <<dest_mac, sim>>

get_data ==
    IF rx_data_if.buffer_pos >= Len(rx_data_if.buffer)
    THEN \E r \in get_buf_fr_io(sim_backend) :
             /\ recv_from_socket(r)
             /\ handed' = IF r.buf = <<>> THEN handed ELSE Append(handed, r.buf)
    ELSE /\ DriveLine(rx_data_if.buffer, rx_data_if.buffer_pos)
         /\ UNCHANGED <<sim, sim_backend, dest_mac, handed>>

rx_fifo_enq_rdy == Len(rx_fifo) < FifoEls

GetData_always_bug ==
    /\ sim = "running" /\ "get" \in todo
    /\ todo' = todo \ {"get"}
    /\ get_data
    /\ UNCHANGED <<input, file, sw, dpi_reg, rx_fifo, tx_fifo, tx_buf, engine, sent, puts>>

GetData ==
    /\ sim = "running" /\ "get" \in todo
    /\ todo' = todo \ {"get"}
    /\ IF rx_fifo_enq_rdy THEN get_data
       ELSE UNCHANGED <<sim, sim_backend, rx_data_if, dpi, dest_mac, handed>>
    /\ UNCHANGED <<input, file, sw, dpi_reg, rx_fifo, tx_fifo, tx_buf, engine, sent, puts>>

(***************************************************************************)
(* Send: from lines to packets.                                            *)
(***************************************************************************)
send_on_socket(b) ==
    /\ After(put_buf_on_io(sim_backend, b))
    /\ tx_buf' = <<>> /\ puts' = Append(puts, b)

put_data_all_pad_bug(l) ==
    LET b == tx_buf \o SubSeq(l.data, 1, LineBytes - l.padbytes)
    IN  IF l.last THEN send_on_socket(b)
        ELSE tx_buf' = b /\ UNCHANGED <<sim, sim_backend, puts>>

put_data(l) ==
    LET b == tx_buf \o SubSeq(l.data, 1, LineBytes - (IF l.last THEN l.padbytes ELSE 0))
    IN  IF l.last THEN send_on_socket(b)
        ELSE tx_buf' = b /\ UNCHANGED <<sim, sim_backend, puts>>

PutData ==
    /\ sim = "running" /\ "put" \in todo
    /\ todo' = todo \ {"put"}
    /\ IF tx_fifo # <<>> THEN put_data(Head(tx_fifo))
       ELSE UNCHANGED <<sim, sim_backend, tx_buf, puts>>
    /\ UNCHANGED <<input, file, sw, rx_data_if, dpi, dpi_reg, rx_fifo, tx_fifo,
                   dest_mac, engine, handed, sent>>

(***************************************************************************)
(* The rising edge.  rdy: the engine takes a line.  The send FIFO is read  *)
(* in every cycle.  The engine may send a line, with any padbytes unless   *)
(* the line is the last of its frame.                                      *)
(***************************************************************************)
Deq(q, yes) == IF yes /\ q # <<>> THEN Tail(q) ELSE q

Enq_unchecked_bug(q, l) == IF l.val THEN <<l>> ELSE <<>>

Enq(q, l) == IF l.val /\ Len(q) < FifoEls THEN <<l>> ELSE <<>>

EngineLines(f, pos) ==
    LET l == LineAt(Bytes(f), pos)
    IN  IF l.last THEN {l} ELSE {[l EXCEPT !.padbytes = p] : p \in {0, LineBytes - 1}}

EngineFrames ==
    IF engine.frame # NoFrame THEN {engine.frame}
    ELSE IF Len(sent) < MaxSent THEN input.engine ELSE {}

EngineIdle ==
    /\ tx_fifo' = Deq(tx_fifo, TRUE)
    /\ UNCHANGED <<engine, sent>>

EngineSends ==
    \E f \in EngineFrames : \E l \in EngineLines(f, engine.pos) :
        /\ Len(tx_fifo) < FifoEls
        /\ tx_fifo' = Append(Deq(tx_fifo, TRUE), l)
        /\ engine' = IF l.last THEN [frame |-> NoFrame, pos |-> 0]
                     ELSE [frame |-> f, pos |-> engine.pos + LineBytes]
        /\ sent' = IF l.last THEN Append(sent, f) ELSE sent

Posedge(rdy) ==
    /\ sim = "running" /\ todo = {}
    /\ todo' = {"get", "put"}
    /\ dpi_reg' = dpi
    /\ rx_fifo' = Deq(rx_fifo, rdy) \o Enq(rx_fifo, dpi_reg)
    /\ EngineIdle \/ EngineSends
    /\ UNCHANGED <<input, sim, sim_backend, file, sw, rx_data_if, dpi, tx_buf,
                   dest_mac, handed, puts>>

(***************************************************************************)
(* The process that writes sw_to_hw.txt, with write_pcap_record.           *)
(***************************************************************************)
SwWrite ==
    /\ sw.script # <<>>
    /\ LET b == Bytes(Head(sw.script))
       IN  CASE sw.pc = "header" -> /\ file' = write_record_header(file, b)
                                    /\ sw' = [sw EXCEPT !.pc = "packet"]
             [] sw.pc = "packet" -> /\ file' = write_record_packet(file, b)
                                    /\ sw' = [sw EXCEPT !.pc = "flush"]
             [] sw.pc = "flush" -> /\ file' = fflush(file)
                                   /\ sw' = [script |-> Tail(sw.script), pc |-> "header"]
    /\ UNCHANGED <<input, sim, sim_backend, todo, rx_data_if, dpi, dpi_reg, rx_fifo,
                   tx_fifo, tx_buf, dest_mac, engine, handed, sent, puts>>

Simulate ==
    \/ init_network_side_state
    \/ GetData
    \/ PutData
    \/ \E rdy \in BOOLEAN : Posedge(rdy)

Next == Simulate \/ SwWrite

Spec == Init /\ [][Next]_vars

(* The simulator runs, the engine takes a line again and again, and the      *)
(* other process writes what it has to write.                                *)
FairSpec ==
    Spec /\ WF_vars(Simulate) /\ SF_vars(Posedge(TRUE)) /\ WF_vars(SwWrite)

-----------------------------------------------------------------------------
BackendKinds == {"none", "TCP_TRACE", "TRACE", "FILE_IO"}
EndMark == [unit |-> "end"]
IPFrames == {f \in Frames : Info[f].type = "IP"}

(* Every variable has its type; FIFOs hold valid lines and no more than they *)
(* have room for, and a packet is kept only while part of it is to be driven.*)
TypeOK ==
    /\ input \in Inputs /\ sim \in {"init", "running", "finished"}
    /\ sim_backend.kind \in BackendKinds
    /\ todo \subseteq {"get", "put"}
    /\ rx_data_if = NoPacket \/ rx_data_if.buffer_pos \in 1 .. Len(rx_data_if.buffer) - 1
    /\ \A q \in {rx_fifo, tx_fifo} :
          /\ Len(q) <= FifoEls
          /\ \A i \in DOMAIN q : q[i].val /\ Len(q[i].data) = LineBytes
                                /\ q[i].padbytes \in 0 .. LineBytes - 1

(***************************************************************************)
(* Refinement: the bytes between a backend and the engine.  A line that is *)
(* driven counts apart from its registered copy only after get_data was    *)
(* called in this cycle.                                                   *)
(***************************************************************************)
LineContent(l) ==
    IF ~l.val THEN <<>>
    ELSE SubSeq(l.data, 1, LineBytes - l.padbytes) \o IF l.last THEN <<EndMark>> ELSE <<>>

OnTheWay ==
    FlattenSeq([i \in 1 .. Len(rx_fifo) |-> LineContent(rx_fifo[i])])
        \o LineContent(dpi_reg)
        \o (IF "get" \notin todo /\ rx_fifo_enq_rdy THEN LineContent(dpi) ELSE <<>>)
        \o (IF rx_data_if = NoPacket THEN <<>>
            ELSE SubSeq(rx_data_if.buffer, rx_data_if.buffer_pos + 1, Len(rx_data_if.buffer))
                    \o <<EndMark>>)

Rx == INSTANCE ByteChannel WITH
          Packets <- {Received(Bytes(f)) : f \in IPFrames}, End <- EndMark, bytes <- OnTheWay

(* From get_data over the register and the FIFO to the engine no byte is     *)
(* lost, repeated or reordered, whenever the FIFO fills up or the engine     *)
(* holds it up, and packets end where they end.                              *)
RxChannel == Rx!Spec

(***************************************************************************)
(* The properties of the backends.                                         *)
(***************************************************************************)
RightTuple(b) == TCPFlowTuple(b, Hdr(b).ihl)
OfFlow(s, t) == SelectSeq(s, LAMBDA b : RightTuple(b) = t)
TraceBufs(n) == [i \in 1 .. n |-> Bytes(input.trace[i])]
ReadSoFar ==
    TraceBufs(Cardinality({j \in 1 .. sim_backend.pos : file.disk[j].unit = "record"}))
ToSend(s) == SelectSeq(s, ForUs)
ToReceive(s) == SelectSeq(s, LAMBDA b : ~ForUs(b))
Refs(pairs) == [i \in DOMAIN pairs |-> pairs[i].ref]
Tests(pairs) == [i \in DOMAIN pairs |-> pairs[i].test]
Records(bufs) == FlattenSeq([i \in DOMAIN bufs |-> <<RecHeader(Len(bufs[i]))>> \o bufs[i]])

(* What the hardware sends on a flow is compared packet by packet with what  *)
(* the trace has the hardware send on it, in order and leaving out none,     *)
(* whichever of the two comes first; for the flow-by-flow backend as long as *)
(* it has looked flows up under their own ports.                             *)
ComparedInOrder ==
    /\ sim_backend.kind = "TRACE" =>
          LET pairs == sim_backend.compared
          IN  /\ Refs(pairs) \o sim_backend.recv_pkts = ToReceive(TraceBufs(Len(input.trace)))
              /\ Tests(pairs) = SubSeq(puts, 1, Len(pairs))
    /\ sim_backend.kind = "TCP_TRACE" =>
          \A t \in DOMAIN sim_backend.tcp_flows :
             LET ctx == sim_backend.tcp_flows[t]
                 pairs == SelectSeq(sim_backend.compared, LAMBDA p : RightTuple(p.test) = t)
             IN  /\ Tests(pairs) \o ctx.pkts_recved_buf = OfFlow(sim_backend.taken, t)
                 /\ sim_backend.right_key =>
                       Refs(pairs) \o ctx.pkts_to_recv = OfFlow(ToReceive(ReadSoFar), t)

(* A packet of the trace is sent to the hardware at most once, and the       *)
(* packets of a flow in the order of the trace, although some of them wait   *)
(* in the flow's queue while others are read.                                *)
SendOrder ==
    sim_backend.kind \in {"TRACE", "TCP_TRACE"} =>
        /\ \A i, j \in DOMAIN handed : handed[i] = handed[j] => i = j
        /\ sim_backend.kind = "TRACE" \/ sim_backend.right_key =>
              \A i \in DOMAIN handed :
                 LET t == RightTuple(handed[i])
                 IN  IsPrefix(OfFlow(handed, t), OfFlow(ToSend(TraceBufs(Len(input.trace))), t))

(* The reader of sw_to_hw.txt takes whole records, in order: while another   *)
(* process is in the middle of a record it finds nothing, and it never       *)
(* starts to read inside a record.                                           *)
FileFifo ==
    sim_backend.kind = "FILE_IO" =>
        SubSeq(file.disk, sim_backend.start + 1, sim_backend.pos) = Records(handed)

(* The packets handed to the backend are the frames the engine sent, in      *)
(* order and byte by byte, with the padding of the last line cut off.        *)
TxWhole ==
    Len(puts) <= Len(sent) /\ \A i \in DOMAIN puts : puts[i] = Bytes(sent[i])

(* hw_to_sw.txt holds the frames the engine sent and the answers to the ARP  *)
(* requests for our address that were received, each kind in order, and no   *)
(* record is torn by another, though both halves of the interface write it.  *)
HwToSwRecords ==
    sim_backend.kind = "FILE_IO" =>
        LET disk == sim_backend.send_file.disk
            IsArp(u) == u.unit = "byte" /\ Info[u.frame].type = "ARP"
            IsOther(u) == u.unit = "byte" /\ ~IsArp(u)
            requests == SelectSeq(handed, LAMBDA b : Hdr(b).arp = "request for us")
        IN  /\ SelectSeq(disk, IsOther) = FlattenSeq(puts)
            /\ SelectSeq(disk, IsArp)
                   = FlattenSeq([i \in DOMAIN requests |-> Bytes(Hdr(requests[i]).reply)])
            /\ \A j \in DOMAIN disk : disk[j].unit = "record" =>
                   SubSeq(disk, j + 1, j + disk[j].len) = Bytes(disk[j + 1].frame)

(* The simulation ends only because there is nothing to run, because a       *)
(* packet has another size than the trace says, or because the last expected *)
(* packet has come.                                                          *)
EndsForReason ==
    sim = "finished" =>
        \/ input.backend = "none"
        \/ input.backend # "FILE_IO" /\ ~input.header
        \/ input.backend # "FILE_IO" /\ Differ(sim_backend.compared)
        \/ input.backend = "TRACE" /\ sim_backend.recv_pkts = <<>>

(* Every packet gets through in the end: those of the trace for us, or those *)
(* written to the file since the start, to the engine, and those the engine  *)
(* sent to the backend.  With a C library whose end of file is sticky this   *)
(* fails for the files backend, which polls the file.                        *)
AllHanded ==
    IF sim_backend.kind = "FILE_IO"
    THEN sw.script = <<>> /\ sim_backend.pos = Len(file.disk)
    ELSE Len(handed) = Len(ToSend(TraceBufs(Len(input.trace))))

AllDelivered ==
    input.sticky \/ <>[](sim = "finished"
                         \/ (sim = "running" /\ AllHanded /\ OnTheWay = <<>>
                               /\ Len(puts) = Len(sent)))

(* The comment in get_buf_fr_io: "we haven't received the SYN-ACK, so we     *)
(* just have to wait".  After the first packet of a flow no other is sent    *)
(* before the hardware has sent a SYN-ACK on it; stated for runs that looked *)
(* flows up under their own ports.                                           *)
WaitsForSynAck ==
    sim_backend.kind = "TCP_TRACE" /\ sim_backend.right_key =>
        \A i, j \in DOMAIN handed :
            i < j /\ RightTuple(handed[i]) = RightTuple(handed[j]) =>
                \E k \in DOMAIN sim_backend.taken :
                    /\ RightTuple(sim_backend.taken[k]) = RightTuple(handed[j])
                    /\ Hdr(sim_backend.taken[k]).flags = "SYN-ACK"
=============================================================================
