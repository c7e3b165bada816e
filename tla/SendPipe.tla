------------------------------ MODULE SendPipe ------------------------------
(***************************************************************************)
(* The transmit path: protocol_logic_pipe.sv with the scheduling FIFO      *)
(* (scheduling_fifos.sv, fifo_2w.v), the retransmit flags                  *)
(* (rt_timeout_flag_store.sv), the transmit state (tx_state_store.sv) and, *)
(* composed with it, the half of est_pipe.sv that processes ACKs.          *)
(*                                                                         *)
(* Every flow is a token that circulates: from the scheduling FIFO through *)
(* the stages RT (read flags), N (number the segment) and W (write back),  *)
(* and into the FIFO again.  One step of Next is one clock cycle.  A       *)
(* memory read answered in a cycle returns the contents at the start of    *)
(* that cycle.                                                             *)
(***************************************************************************)
EXTENDS AckEngines, Sequences, FiniteSets

CONSTANTS
    Flows,        \* flow IDs
    NONE,         \* an empty stage, an idle input
    SchedEls,     \* elements fifo_2w takes: its depth, MAX_FLOW_CNT, minus one
    TxBuf,        \* 2 ^ TX_PAYLOAD_PTR_W, bytes of a flow's transmit buffer
    MaxSeg,       \* MAX_SEG_SIZE
    Align,        \* segments of at least Align bytes are a multiple of it (32)
    InitSeq,      \* tx_curr_seq_num of a new flow
    Loads         \* [flows, bytes, dup]: the flows that are set up, a bound on
                  \* the bytes an application writes on each, and whether the
                  \* peer may repeat the current ACK number

Ptrs == 0 .. 2 * TxBuf - 1

(* The contents of the stages N and W and of stage W of est_pipe.            *)
TxState == [seq : SeqNums, ack : SeqNums, armed : BOOLEAN, tail : Ptrs]
StageN == [flow : Flows, rt : BOOLEAN, data : TxState \cup {NONE}]
StageW == [flow : Flows, seq : SeqNums, ack : SeqNums, armed : BOOLEAN,
           gen : BOOLEAN, from : SeqNums, len : 0 .. MaxSeg]
StageEst == [flow : Flows, ack : SeqNums, cnt : 0 .. RT_ACK_THRESHOLD - 1, rt : BOOLEAN]

ASSUME SendPipeAssumption ==
    /\ NONE \notin Flows /\ IsFiniteSet(Flows)
    /\ NONE \notin BOOLEAN /\ NONE \notin TxState
    /\ NONE \notin StageN /\ NONE \notin StageW /\ NONE \notin StageEst
    /\ SchedEls \in Nat \ {0} /\ SchedEls >= Cardinality(Flows) - 1
    /\ TxBuf \in Nat \ {0} /\ MaxSeg \in 1 .. TxBuf /\ Align \in Nat \ {0}
    /\ SeqSpace % (2 * TxBuf) = 0
    /\ InitSeq \in SeqNums
    /\ \A l \in Loads : /\ l.flows \subseteq Flows /\ l.bytes \in 0 .. SeqSpace - 2
                         /\ l.dup \in BOOLEAN

VARIABLES
    load,       \* the member of Loads
    sched,      \* the scheduling FIFO, oldest first
    rt,         \* stage RT: the flow, or NONE
    flag_rd,    \* rt_timeout_flag_store: the flow whose flag is on its output
    saved,      \* RT's copy of the flag while it stalls (NONE: no copy)
    n,          \* stage N: [flow, rt, data] (data: copy made when N stalls)
    w,          \* stage W: what is written back and sent
    flags,      \* flows with rt_pending set
    tx_seq,     \* tx_state_store: tx_curr_seq_num of each flow
    armed,      \* tx_state_store: timer_armed
    tx_ack,     \* tx_state_store: tx_curr_ack_num
    tx_cnt,     \* tx_state_store: tx_curr_ack_cnt
    written,    \* bytes the application has put into the transmit buffer
    est,        \* stage W of est_pipe: [flow, ack, cnt, rt], or NONE
    sent,       \* history: how many bytes of the stream were ever sent
    up          \* flows that are set up

vars == <<load, sched, rt, flag_rd, saved, n, w, flags, tx_seq, armed, tx_ack, tx_cnt,
          written, est, sent, up>>

Init ==
    /\ load \in Loads
    /\ sched = <<>> /\ rt = NONE /\ flag_rd = NONE /\ saved = NONE
    /\ n = NONE /\ w = NONE /\ est = NONE
    /\ flags = {} /\ up = {}
    /\ tx_seq = [f \in Flows |-> InitSeq]
    /\ tx_ack = [f \in Flows |-> InitSeq]
    /\ tx_cnt = [f \in Flows |-> 0]
    /\ armed = [f \in Flows |-> FALSE]
    /\ written = [f \in Flows |-> 0]
    /\ sent = [f \in Flows |-> 0]

(* The position of a sequence number in the stream of its flow, and the      *)
(* buffer pointers (with wrap bit) that correspond to stream positions.      *)
Pos(s) == (s - InitSeq) % SeqSpace
PtrOf(s) == s % (2 * TxBuf)
TailPtr(f) == PtrOf(InitSeq + written[f])

(***************************************************************************)
(* Stage N.  Definitions whose names end in _bug are mutated forms of the  *)
(* definition that follows them; no specification uses them.               *)
(***************************************************************************)
SegSize_round_up_bug(trail, lead) ==
    LET buf == (lead - trail) % (2 * TxBuf)
    IN  IF buf > MaxSeg THEN MaxSeg ELSE ((buf + Align - 1) \div Align) * Align

SegSize(trail, lead) ==
    LET buf == (lead - trail) % (2 * TxBuf)
    IN  IF buf > MaxSeg THEN MaxSeg
        ELSE IF buf < Align THEN buf
        ELSE buf - (buf % Align)

ReadN ==
    IF n.data # NONE THEN n.data
    ELSE [seq |-> tx_seq[n.flow], ack |-> tx_ack[n.flow],
          armed |-> armed[n.flow], tail |-> TailPtr(n.flow)]

StateN ==
    IF w # NONE /\ w.flow = n.flow
    THEN [seq |-> w.seq, ack |-> w.ack, armed |-> w.armed, tail |-> ReadN.tail]
    ELSE ReadN

(* exp: the timer has expired.  A retransmission starts at the oldest        *)
(* unacknowledged byte and takes the sequence number back to its end.        *)
Number_skip_bug(exp) ==
    LET s == StateN
        from == IF n.rt THEN s.ack ELSE s.seq
        len == SegSize(PtrOf(from), s.tail)
        gen == n.rt \/ exp \/ len # 0
    IN  [flow |-> n.flow, seq |-> (s.seq + len) % SeqSpace, ack |-> s.ack,
         armed |-> s.armed \/ gen, gen |-> gen, from |-> from, len |-> len]

Number(exp) ==
    LET s == StateN
        from == IF n.rt THEN s.ack ELSE s.seq
        len == SegSize(PtrOf(from), s.tail)
        gen == n.rt \/ exp \/ len # 0
    IN  [flow |-> n.flow, seq |-> (from + len) % SeqSpace, ack |-> s.ack,
         armed |-> s.armed \/ gen, gen |-> gen, from |-> from, len |-> len]

(***************************************************************************)
(* Stalls.  nf is the flow being set up in this cycle (or NONE), rdy the   *)
(* header assembler's ready.                                               *)
(***************************************************************************)
stall_w(nf, rdy) == nf # NONE \/ ~rdy
stall_n(nf, rdy) == n # NONE /\ stall_w(nf, rdy)
stall_rt(nf, rdy) == rt # NONE /\ (stall_n(nf, rdy) \/ flag_rd = NONE)

(***************************************************************************)
(* The scheduling FIFO: two write ports, new flows first, and a read that  *)
(* sees what is written in the same cycle when the FIFO is empty.          *)
(***************************************************************************)
Requeue_drop_bug(nf, rdy) ==
    IF w # NONE /\ ~stall_w(nf, rdy) /\ w.gen THEN <<w.flow>> ELSE <<>>

Requeue(nf, rdy) ==
    IF w # NONE /\ ~stall_w(nf, rdy) /\ Len(sched) < SchedEls THEN <<w.flow>> ELSE <<>>

Avail(nf, rdy) ==
    LET writes == (IF nf # NONE THEN <<nf>> ELSE <<>>) \o Requeue(nf, rdy)
        room == SchedEls - Len(sched)
    IN  sched \o SubSeq(writes, 1, IF Len(writes) <= room THEN Len(writes) ELSE room)

Schedule_no_fall_through_bug(nf, rdy) ==
    LET head == IF sched # <<>> THEN Head(sched) ELSE NONE
    IN  /\ flag_rd' = head
        /\ rt' = IF stall_rt(nf, rdy) THEN rt ELSE head
        /\ sched' = IF sched # <<>> /\ ~stall_rt(nf, rdy) THEN Tail(Avail(nf, rdy))
                    ELSE Avail(nf, rdy)

Schedule(nf, rdy) ==
    LET avail == Avail(nf, rdy)
        head == IF avail # <<>> THEN Head(avail) ELSE NONE
    IN  /\ flag_rd' = head
        /\ rt' = IF stall_rt(nf, rdy) THEN rt ELSE head
        /\ sched' = IF avail # <<>> /\ ~stall_rt(nf, rdy) THEN Tail(avail) ELSE avail

(***************************************************************************)
(* The stages.                                                             *)
(***************************************************************************)
FlagRT == IF saved # NONE THEN saved ELSE flag_rd \in flags

NextRT_no_save_bug(nf, rdy) ==
    saved' = NONE

NextRT(nf, rdy) ==
    saved' = IF ~stall_rt(nf, rdy) THEN NONE
             ELSE IF saved = NONE /\ flag_rd # NONE THEN flag_rd \in flags
             ELSE saved

NextN(nf, rdy) ==
    n' = CASE stall_n(nf, rdy) -> [n EXCEPT !.data = ReadN]
           [] ~stall_n(nf, rdy) /\ rt # NONE /\ ~stall_rt(nf, rdy) ->
                 [flow |-> rt, rt |-> FlagRT, data |-> NONE]
           [] OTHER -> NONE

NextW(nf, rdy, exp) ==
    /\ exp => n # NONE /\ StateN.armed
    /\ w' = IF stall_w(nf, rdy) THEN w
            ELSE IF n # NONE THEN Number(exp) ELSE NONE

NextFlags(nf) ==
    flags' = ((flags \cup (IF est # NONE /\ est.rt THEN {est.flow} ELSE {}))
                \ (IF w # NONE /\ w.gen THEN {w.flow} ELSE {}))
                \ {nf}

(***************************************************************************)
(* The receive side: est_pipe processes the ACK number of a packet with    *)
(* the transmit state it reads, and writes ACK number and count one cycle  *)
(* later, again and again while it is held up (hold) by its payload queue. *)
(* The peer acknowledges bytes it was sent; its ACKs may be repeated and   *)
(* arrive in any order.                                                    *)
(***************************************************************************)
stall_est(nf, hold) == nf # NONE \/ hold

CurrAck(f) == IF est # NONE /\ est.flow = f THEN est.ack ELSE tx_ack[f]
CurrCnt(f) == IF est # NONE /\ est.flow = f THEN est.cnt ELSE tx_cnt[f]

ProcessAck(f, a) ==
    [flow |-> f,
     ack |-> TxNextAck(CurrAck(f), a, tx_seq[f]),
     cnt |-> TxNextCnt(CurrAck(f), a, tx_seq[f], CurrCnt(f)),
     rt |-> SetRtFlag(CurrAck(f), a, tx_seq[f], CurrCnt(f))]

PeerAcks(f) ==
    {a \in {(InitSeq + k) % SeqSpace : k \in 0 .. sent[f]} : load.dup \/ a # CurrAck(f)}

NextEst(nf, hold, af) ==
    /\ af # NONE => af \in up /\ ~stall_est(nf, hold)
    /\ \E a \in IF af = NONE THEN {NONE} ELSE PeerAcks(af) :
          est' = IF stall_est(nf, hold) THEN est
                 ELSE IF af = NONE THEN NONE ELSE ProcessAck(af, a)

(***************************************************************************)
(* The memories.  A flow that is set up takes every write port for that    *)
(* cycle; otherwise W writes sequence number and timer, est_pipe ACK       *)
(* number and count, and the application the tail pointer.  An application *)
(* leaves room for what is not acknowledged.                               *)
(***************************************************************************)
WriteBack(nf, rdy) ==
    IF nf # NONE
    THEN /\ tx_seq' = [tx_seq EXCEPT ![nf] = InitSeq]
         /\ armed' = [armed EXCEPT ![nf] = FALSE]
    ELSE IF w # NONE /\ ~stall_w(nf, rdy)
    THEN /\ tx_seq' = [tx_seq EXCEPT ![w.flow] = w.seq]
         /\ armed' = [armed EXCEPT ![w.flow] = w.armed]
    ELSE UNCHANGED <<tx_seq, armed>>

WriteAck(nf) ==
    IF nf # NONE
    THEN /\ tx_ack' = [tx_ack EXCEPT ![nf] = InitSeq]
         /\ tx_cnt' = [tx_cnt EXCEPT ![nf] = 0]
    ELSE IF est # NONE
    THEN /\ tx_ack' = [tx_ack EXCEPT ![est.flow] = est.ack]
         /\ tx_cnt' = [tx_cnt EXCEPT ![est.flow] = est.cnt]
    ELSE UNCHANGED <<tx_ack, tx_cnt>>

AppWrite(nf, wf) ==
    /\ wf # NONE => /\ wf \in up /\ nf = NONE
                    /\ written[wf] < load.bytes
                    /\ written[wf] - Pos(tx_ack[wf]) < TxBuf
    /\ written' = IF wf = NONE THEN written ELSE [written EXCEPT ![wf] = @ + 1]

(* History: the bytes handed to the header assembler.                        *)
Emitted(nf, rdy) ==
    sent' = IF w = NONE \/ stall_w(nf, rdy) \/ ~w.gen THEN sent
            ELSE [sent EXCEPT ![w.flow] =
                     IF Pos(w.from) + w.len > @ THEN Pos(w.from) + w.len ELSE @]

Cycle(nf, rdy, exp, hold, af, wf) ==
    /\ NextW(nf, rdy, exp)
    /\ AppWrite(nf, wf)
    /\ NextEst(nf, hold, af)
    /\ up' = up \cup ({nf} \ {NONE})
    /\ Schedule(nf, rdy)
    /\ NextRT(nf, rdy)
    /\ NextN(nf, rdy)
    /\ NextFlags(nf)
    /\ WriteBack(nf, rdy)
    /\ WriteAck(nf)
    /\ Emitted(nf, rdy)
    /\ UNCHANGED load

CycleWith(rdy) ==
    \E nf \in (load.flows \ up) \cup {NONE}, exp, hold \in BOOLEAN,
       af, wf \in load.flows \cup {NONE} : Cycle(nf, rdy, exp, hold, af, wf)

Next == \E rdy \in BOOLEAN : CycleWith(rdy)

Spec == Init /\ [][Next]_vars

(* The clock runs and the header assembler is ready again and again.         *)
FairSpec == Spec /\ WF_vars(Next) /\ WF_vars(CycleWith(TRUE))

-----------------------------------------------------------------------------
(* Every register and memory holds a value of its width.                     *)
TypeOK ==
    /\ load \in Loads
    /\ sched \in Seq(Flows) /\ Len(sched) <= SchedEls
    /\ rt \in Flows \cup {NONE} /\ flag_rd \in Flows \cup {NONE}
    /\ saved \in BOOLEAN \cup {NONE}
    /\ n \in StageN \cup {NONE} /\ w \in StageW \cup {NONE} /\ est \in StageEst \cup {NONE}
    /\ up \subseteq load.flows /\ flags \subseteq up
    /\ tx_seq \in [Flows -> SeqNums] /\ armed \in [Flows -> BOOLEAN]
    /\ tx_ack \in [Flows -> SeqNums] /\ tx_cnt \in [Flows -> 0 .. RT_ACK_THRESHOLD - 1]
    /\ written \in [Flows -> 0 .. load.bytes] /\ sent \in [Flows -> Nat]
    /\ est # NONE => est.flow \in up

(* How often a flow is found in the scheduling FIFO and in the three stages. *)
Tokens(f) ==
    Cardinality({i \in 1 .. Len(sched) : sched[i] = f})
        + (IF rt = f THEN 1 ELSE 0)
        + (IF n # NONE /\ n.flow = f THEN 1 ELSE 0)
        + (IF w # NONE /\ w.flow = f THEN 1 ELSE 0)

(* A flow that is set up is scheduled exactly once: it is never lost when    *)
(* the FIFO is nearly full, written at both ports or read as it is written,  *)
(* nor held by two stages (protocol_logic_pipe.sv, fifo_2w.v).               *)
TokenConserved == \A f \in Flows : Tokens(f) = IF f \in up THEN 1 ELSE 0

(* While the scheduling FIFO holds a flow, RT does, too: with depth          *)
(* MAX_FLOW_CNT the FIFO takes one flow less, and needs no more.             *)
FifoBehindRT == sched # <<>> => rt # NONE

(* The flag that RT passes on was read for the flow that is in RT, although  *)
(* the flag store answers for the next flow while RT stalls.                 *)
FlagIsForRT == rt # NONE /\ saved = NONE /\ flag_rd # NONE => flag_rd = rt

(* A segment on its way to the header assembler follows on what was sent,    *)
(* or repeats it, and holds only bytes the application has written: neither  *)
(* a stale tail pointer nor a stale transmit state makes the pipeline leave  *)
(* out bytes or send bytes that are not there.                               *)
SegmentInStream ==
    w # NONE => /\ Pos(w.from) <= sent[w.flow]
                /\ Pos(w.from) + w.len <= written[w.flow]

(* notes/tcp_hw.md on the pointers of the send buffer: the next byte to send *)
(* is between the first unacknowledged byte and the end of the data.         *)
SeqBetween ==
    \A f \in Flows : /\ Pos(tx_ack[f]) <= Pos(tx_seq[f])
                     /\ Pos(tx_seq[f]) <= written[f]

(* Without duplicate ACKs, and so without retransmissions asked for by the   *)
(* peer, the pointers stay in that order in spite of old ACKs and of ACKs    *)
(* that arrive while a segment is numbered (protocol_logic_pipe.sv).         *)
SeqBetweenNoLoss == ~load.dup => SeqBetween

(* Nor does the ACK number of a flow then ever go back, whatever sequence    *)
(* number est_pipe reads beside it (tx_ack_engine.sv).                       *)
AckMonotone ==
    [][~load.dup => \A f \in Flows : Pos(tx_ack'[f]) >= Pos(tx_ack[f])]_vars

(* The comment on the flag masks in rt_timeout_flag_store.sv: a flag that is *)
(* set and cleared in the same cycle is set.                                 *)
SetOverrides == [][est # NONE /\ est.rt => est.flow \in flags']_vars

(* Every flow that is set up comes through the pipeline again and again,     *)
(* however often the assembler and new flows stall it.                       *)
Scheduled == \A f \in Flows : f \in up ~> []<>(n # NONE /\ n.flow = f)

(* Every byte the application writes is sent, sooner or later.               *)
BytesSent == \A f \in Flows : <>[](sent[f] >= written[f])
=============================================================================
