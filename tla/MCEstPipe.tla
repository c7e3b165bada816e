----------------------------- MODULE MCEstPipe -----------------------------
(* Instances of EstPipe: the packets that may arrive.                        *)
EXTENDS EstPipe

CONSTANTS f1, f2

TwoFlows == {f1, f2}

(* Nothing to send, and a byte to send on f2.                                *)
Idle == [f \in TwoFlows |-> 0]
Sending == [Idle EXCEPT ![f2] = 1]

(* Payload traffic: every sequence number and length on f1, so that payloads *)
(* arrive in order, early, late and repeated; an empty one on f2.  All carry   *)
(* the ACK number of an idle sender.                                         *)
RxPackets ==
    [flow : {f1}, seq : SeqNums, ack : {InitSeq}, len : 1 .. BufSize]
    \cup [flow : {f2}, seq : {InitAck}, ack : {InitSeq}, len : {0}]

(* A flow that keeps sending the same payload: every second one is in order. *)
OnePacket == {[flow |-> f1, seq |-> InitAck, ack |-> InitSeq, len |-> 1]}

(* Two payloads of f1, each of which may be repeated, come early or come     *)
(* late, and empty packets on f2.                                            *)
TwoPayloads ==
    [flow : {f1}, seq : {InitAck, (InitAck + 1) % SeqSpace}, ack : {InitSeq}, len : {1}]
    \cup [flow : {f2}, seq : {InitAck}, ack : {InitSeq}, len : {0}]

(* A payload of f1, and on f2 packets that acknowledge the first byte sent.  *)
WithAcks ==
    OnePacket \cup {[flow |-> f2, seq |-> InitAck, ack |-> InitSeq + 1, len |-> 0]}

Load(packets, window, spaced) ==
    [packets |-> packets, window |-> window, spaced |-> spaced]

AllLoads == {Load(TwoPayloads, Idle, FALSE), Load(WithAcks, Sending, FALSE),
             Load(RxPackets, Idle, TRUE)}
Unspaced == {Load(RxPackets, Idle, FALSE)}
Repeating == {Load(OnePacket, Idle, FALSE)}
=============================================================================
