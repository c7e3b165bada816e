------------------------------- MODULE EstSeq -------------------------------
(***************************************************************************)
(* What the established-flow pipeline promises: packets are processed one  *)
(* at a time, in the order they arrived, each exactly once and each on the *)
(* flow state its predecessor left behind.  There are no stages, no        *)
(* arbiter and no bypass here.  Whether a payload finds room in the        *)
(* receive buffer is left open.                                            *)
(***************************************************************************)
EXTENDS AckEngines, Sequences

CONSTANTS Flows, NONE, InitAck, InitSeq, Packets

VARIABLES
    inq,        \* packets taken in and not yet processed, oldest first
    rx_ack,     \* next byte expected on each flow
    tx_seq,     \* next byte to send
    tx_ack,     \* oldest byte not acknowledged
    tx_cnt,     \* duplicate ACKs seen
    outq,       \* payloads for the copy engine, oldest first
    up          \* flows set up

vars == <<inq, rx_ack, tx_seq, tx_ack, tx_cnt, outq, up>>

Init ==
    /\ inq = <<>> /\ outq = <<>> /\ up = {}
    /\ rx_ack = [f \in Flows |-> InitAck]
    /\ tx_seq = [f \in Flows |-> InitSeq]
    /\ tx_ack = [f \in Flows |-> InitSeq]
    /\ tx_cnt = [f \in Flows |-> 0]

(* The per-flow state after a step that sets up flow nf (NONE: no flow) and, *)
(* if proc, processes the oldest packet.                                     *)
After(mem, nf, init, proc, new) ==
    [f \in Flows |-> IF f = nf THEN init
                     ELSE IF proc /\ f = Head(inq).flow THEN new
                     ELSE mem[f]]

Process(nf, proc, room) ==
    LET p == Head(inq)
        ok == room /\ RxAccept(rx_ack[p.flow], p.seq, p.len)
        a == tx_ack[p.flow]
        s == tx_seq[p.flow]
    IN  /\ rx_ack' = After(rx_ack, nf, InitAck, proc,
                           IF ok THEN RxNextAck(rx_ack[p.flow], p.seq, p.len)
                           ELSE rx_ack[p.flow])
        /\ tx_ack' = After(tx_ack, nf, InitSeq, proc, TxNextAck(a, p.ack, s))
        /\ tx_cnt' = After(tx_cnt, nf, 0, proc, TxNextCnt(a, p.ack, s, tx_cnt[p.flow]))
        /\ \E deq \in BOOLEAN :
              /\ deq => outq # <<>>
              /\ outq' = (IF deq THEN Tail(outq) ELSE outq)
                         \o (IF proc /\ p.len > 0
                             THEN <<[flow |-> p.flow, accept |-> ok, len |-> p.len]>>
                             ELSE <<>>)

TakeIn(proc) ==
    LET rest == IF proc THEN Tail(inq) ELSE inq
    IN  \/ inq' = rest
        \/ \E p \in Packets : p.flow \in up /\ inq' = Append(rest, p)

Next ==
    \E nf \in (Flows \ up) \cup {NONE}, proc \in BOOLEAN, room \in BOOLEAN :
        /\ proc => inq # <<>>
        /\ up' = IF nf = NONE THEN up ELSE up \cup {nf}
        /\ TakeIn(proc)
        /\ Process(nf, proc, room)
        /\ \A f \in Flows : tx_seq'[f] \in SeqNums

Spec == Init /\ [][Next]_vars
=============================================================================
