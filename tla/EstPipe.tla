------------------------------ MODULE EstPipe ------------------------------
(***************************************************************************)
(* The receive pipeline for packets of established flows: est_pipe.sv,     *)
(* fsm_est_arbiter.sv, and the memories it works on (rx_state_store.sv,    *)
(* the ACK half of tx_state_store.sv, the head, tail and commit pointers   *)
(* of rx_payload_ptrs.sv) with the queue of payloads to copy               *)
(* (rx_store_buf_q in rx_pipe_wrap.sv).                                    *)
(*                                                                         *)
(* A packet passes the stages R (read state), C (compute), W (write back). *)
(* One step of Next is one clock cycle.  All state is a register or a      *)
(* memory; a memory read answered in a cycle returns the contents at the   *)
(* start of that cycle, because ram_*_sync_backpressure re-issues a held   *)
(* read every cycle and bypasses a simultaneous write.                     *)
(*                                                                         *)
(* The inputs of a cycle are what the neighbours do: a packet offered by   *)
(* the merger, the FSM pipe's state read and its new flow, the send pipe's *)
(* write of a sequence number, the application's write of a head pointer   *)
(* and the copy engine's commit of the oldest queued payload.              *)
(*                                                                         *)
(* The transmit head pointer that stage W writes always holds the low bits *)
(* of tx_curr_ack_num and is not a variable of its own.  The memories are  *)
(* not reset; a flow's entries are read only after it is set up, so they   *)
(* start with the values that set-up gives them.                           *)
(***************************************************************************)
EXTENDS AckEngines, Sequences, Sums

CONSTANTS
    Flows,        \* flow IDs
    NONE,         \* "nothing": an invalid stage, an idle input
    BufSize,      \* 2 ^ RX_PAYLOAD_PTR_W, bytes of a flow's receive buffer
    StoreQEls,    \* entries of rx_store_buf_q
    InitAck,      \* rx_curr_ack_num of a new flow (sequence number of the SYN + 1)
    InitSeq,      \* tx_curr_seq_num and tx_curr_ack_num of a new flow
    PayloadGap,   \* cycles between the arrivals of two packets with payload
    Loads         \* what the neighbours do, [packets, window, spaced]: the packets
                  \* [flow, seq, ack, len] that may arrive, how far the send pipe
                  \* may run ahead of each flow's ACK number, and whether the
                  \* next packet of a flow arrives only when the pipeline holds
                  \* none of that flow

Ptrs == 0 .. 2 * BufSize - 1

(* The contents of the stages and of an entry of the payload queue.          *)
StageR == [flow : Flows, seq : SeqNums, ack : SeqNums, len : 0 .. BufSize]
StageC == [flow : Flows, seq : SeqNums, ack : SeqNums, len : 0 .. BufSize,
           head : Ptrs, tail : Ptrs]
StageW == [flow : Flows, len : 0 .. BufSize, accept : BOOLEAN, rx_ack : SeqNums,
           rx_wnd : Ptrs, tail : Ptrs, tx_ack : SeqNums,
           tx_cnt : 0 .. RT_ACK_THRESHOLD - 1, rt : BOOLEAN]
Payload == [flow : Flows, accept : BOOLEAN, len : 1 .. BufSize]

ASSUME EstPipeAssumption ==
    /\ NONE \notin Flows /\ NONE \notin {"FSM", "EST"}
    /\ NONE \notin StageR /\ NONE \notin StageC /\ NONE \notin StageW
    /\ NONE \notin Payload
    /\ BufSize \in Nat \ {0}
    /\ SeqSpace % (2 * BufSize) = 0
    /\ StoreQEls \in Nat \ {0}
    /\ InitAck \in SeqNums /\ InitSeq \in SeqNums
    /\ PayloadGap \in Nat \ {0}
    /\ \A l \in Loads :
          /\ l.packets \subseteq StageR
          /\ l.window \in [Flows -> SeqNums]
          /\ l.spaced \in BOOLEAN

VARIABLES
    load,       \* the member of Loads
    r,          \* stage R: the packet, or NONE
    c,          \* stage C: the packet with the head and tail pointer read for it
    w,          \* stage W: what the packet changes
    arb,        \* fsm_est_arbiter: [state, decision, last] (last: last grant)
    fsm_req,    \* the FSM pipe waits for a read of the state memories
    rx_ack,     \* rx_state_store: rx_curr_ack_num of each flow
    rx_wnd,     \* rx_state_store: rx_curr_wnd_size
    tx_seq,     \* tx_state_store: tx_curr_seq_num
    tx_ack,     \* tx_state_store: tx_curr_ack_num
    tx_cnt,     \* tx_state_store: tx_curr_ack_cnt
    head,       \* rx_payload_ptrs
    tail,
    commit,
    store_q,    \* rx_store_buf_q, oldest first
    copy,       \* the payload the copy engine works on, or NONE
    up,         \* flows that the FSM pipe has brought up
    gap         \* cycles until the next packet with payload may arrive

vars == <<load, r, c, w, arb, fsm_req, rx_ack, rx_wnd, tx_seq, tx_ack, tx_cnt, head,
          tail, commit, store_q, copy, up, gap>>

PtrAdd(p, n) == (p + n) % (2 * BufSize)
PtrSub(p, q) == (p - q) % (2 * BufSize)

Init ==
    /\ load \in Loads
    /\ r = NONE /\ c = NONE /\ w = NONE
    /\ arb = [state |-> "READY", decision |-> NONE, last |-> "FSM"]
    /\ fsm_req = FALSE
    /\ rx_ack = [f \in Flows |-> InitAck]
    /\ rx_wnd = [f \in Flows |-> BufSize]
    /\ tx_seq = [f \in Flows |-> InitSeq]
    /\ tx_ack = [f \in Flows |-> InitSeq]
    /\ tx_cnt = [f \in Flows |-> 0]
    /\ head = [f \in Flows |-> 0]
    /\ tail = [f \in Flows |-> 0]
    /\ commit = [f \in Flows |-> 0]
    /\ store_q = <<>> /\ copy = NONE
    /\ up = {} /\ gap = 0

(***************************************************************************)
(* Compute stage.  Definitions whose names end in _bug are mutated forms   *)
(* of the definition that follows them; no specification uses them.        *)
(***************************************************************************)
byp_state_bug == FALSE

byp_state == c # NONE /\ w # NONE /\ c.flow = w.flow

curr_rx_ack == IF byp_state THEN w.rx_ack ELSE rx_ack[c.flow]
curr_tx_ack == IF byp_state THEN w.tx_ack ELSE tx_ack[c.flow]

curr_tx_cnt == IF byp_state THEN w.tx_cnt ELSE tx_cnt[c.flow]
curr_tail == IF byp_state THEN w.tail ELSE c.tail

space_left == (BufSize - PtrSub(curr_tail, c.head)) % (2 * BufSize)

accept_payload_space_bug == RxAccept(curr_rx_ack, c.seq, c.len)

accept_payload == RxAccept(curr_rx_ack, c.seq, c.len) /\ space_left >= c.len

Compute ==
    LET s == tx_seq[c.flow]
    IN  [flow |-> c.flow,
         len |-> c.len,
         accept |-> accept_payload,
         rx_ack |-> IF accept_payload
                    THEN RxNextAck(curr_rx_ack, c.seq, c.len)
                    ELSE curr_rx_ack,
         rx_wnd |-> space_left,
         tail |-> IF accept_payload THEN PtrAdd(curr_tail, c.len) ELSE curr_tail,
         tx_ack |-> TxNextAck(curr_tx_ack, c.ack, s),
         tx_cnt |-> TxNextCnt(curr_tx_ack, c.ack, s, curr_tx_cnt),
         rt |-> SetRtFlag(curr_tx_ack, c.ack, s, curr_tx_cnt)]

(***************************************************************************)
(* The arbiter: round robin between the FSM pipe and stage R, one read     *)
(* outstanding.                                                            *)
(***************************************************************************)
Grant_est_first_bug ==
    IF arb.state # "READY" THEN NONE
    ELSE IF r # NONE THEN "EST"
    ELSE IF fsm_req THEN "FSM"
    ELSE NONE

Grant ==
    IF arb.state # "READY" THEN NONE
    ELSE IF fsm_req /\ (arb.last = "EST" \/ r = NONE) THEN "FSM"
    ELSE IF r # NONE THEN "EST"
    ELSE NONE

est_resp_val == arb.state = "WAIT" /\ arb.decision = "EST"

(***************************************************************************)
(* Stalls.  A new flow takes the write port of every state memory.         *)
(***************************************************************************)
store_q_full == Len(store_q) = StoreQEls
stall_w(nf) == nf # NONE \/ store_q_full
stall_c(nf) == c # NONE /\ (stall_w(nf) \/ ~est_resp_val)
stall_r(nf) == r # NONE /\ (stall_c(nf) \/ Grant # "EST")

NextArb_drop_bug(nf) ==
    arb' = IF Grant # NONE
           THEN [state |-> "WAIT", decision |-> Grant, last |-> Grant]
           ELSE [arb EXCEPT !.state = "READY"]

NextArb_stuck_bug(nf) ==
    arb' = CASE Grant # NONE ->
                   [state |-> "WAIT", decision |-> Grant, last |-> Grant]
             [] est_resp_val /\ ~stall_c(nf) -> [arb EXCEPT !.state = "READY"]
             [] OTHER -> arb

NextArb(nf) ==
    arb' = CASE Grant # NONE ->
                   [state |-> "WAIT", decision |-> Grant, last |-> Grant]
             [] arb.state = "WAIT" /\ ~(est_resp_val /\ stall_c(nf)) ->
                   [arb EXCEPT !.state = "READY"]
             [] OTHER -> arb

NextStages(nf, pkt) ==
    /\ r' = IF stall_r(nf) THEN r ELSE pkt
    /\ c' = IF stall_c(nf) THEN c
            ELSE IF r # NONE /\ ~stall_r(nf)
                 THEN [flow |-> r.flow, seq |-> r.seq, ack |-> r.ack, len |-> r.len,
                       head |-> head[r.flow], tail |-> tail[r.flow]]
                 ELSE NONE
    /\ w' = IF stall_w(nf) THEN w
            ELSE IF c # NONE /\ ~stall_c(nf) THEN Compute ELSE NONE

(***************************************************************************)
(* Memory writes of a cycle.  A new flow has priority over every other     *)
(* write; whoever loses is told so by its rdy signal and tries again.      *)
(***************************************************************************)
Write(mem, nf, init, val, f, data) ==
    IF nf # NONE THEN [mem EXCEPT ![nf] = init]
    ELSE IF val THEN [mem EXCEPT ![f] = data]
    ELSE mem

WriteBack_no_tail_bug(nf) ==
    LET val == w # NONE
    IN  /\ rx_ack' = Write(rx_ack, nf, InitAck, val, w.flow, w.rx_ack)
        /\ rx_wnd' = Write(rx_wnd, nf, BufSize, val, w.flow, w.rx_wnd)
        /\ tx_ack' = Write(tx_ack, nf, InitSeq, val, w.flow, w.tx_ack)
        /\ tx_cnt' = Write(tx_cnt, nf, 0, val, w.flow, w.tx_cnt)
        /\ tail' = Write(tail, nf, 0, FALSE, w.flow, w.tail)

WriteBack(nf) ==
    LET val == w # NONE
    IN  /\ rx_ack' = Write(rx_ack, nf, InitAck, val, w.flow, w.rx_ack)
        /\ rx_wnd' = Write(rx_wnd, nf, BufSize, val, w.flow, w.rx_wnd)
        /\ tx_ack' = Write(tx_ack, nf, InitSeq, val, w.flow, w.tx_ack)
        /\ tx_cnt' = Write(tx_cnt, nf, 0, val, w.flow, w.tx_cnt)
        /\ tail' = Write(tail, nf, 0, val /\ w.accept, w.flow, w.tail)

QueueAndCopy_stall_bug(nf, step) ==
    LET enq == IF w # NONE /\ w.len > 0
               THEN <<[flow |-> w.flow, accept |-> w.accept, len |-> w.len]>>
               ELSE <<>>
        deq == step /\ copy = NONE
        done == step /\ copy # NONE /\ (copy.accept => nf = NONE)
    IN  /\ deq => store_q # <<>>
        /\ store_q' = (IF deq THEN Tail(store_q) ELSE store_q) \o enq
        /\ copy' = IF deq THEN Head(store_q) ELSE IF done THEN NONE ELSE copy
        /\ commit' = Write(commit, nf, 0, done /\ copy.accept, copy.flow,
                           PtrAdd(commit[copy.flow], copy.len))

(* The queue of payloads, accepted or not, and the copy engine that takes    *)
(* them out.  step is TRUE in the cycles in which the engine dequeues an     *)
(* entry, or is done with the one it has; a commit needs the write port of   *)
(* the commit pointers.                                                      *)
QueueAndCopy(nf, step) ==
    LET enq == IF w # NONE /\ ~stall_w(nf) /\ w.len > 0
               THEN <<[flow |-> w.flow, accept |-> w.accept, len |-> w.len]>>
               ELSE <<>>
        deq == step /\ copy = NONE
        done == step /\ copy # NONE /\ (copy.accept => nf = NONE)
    IN  /\ deq => store_q # <<>>
        /\ store_q' = (IF deq THEN Tail(store_q) ELSE store_q) \o enq
        /\ copy' = IF deq THEN Head(store_q) ELSE IF done THEN NONE ELSE copy
        /\ commit' = Write(commit, nf, 0, done /\ copy.accept, copy.flow,
                           PtrAdd(commit[copy.flow], copy.len))

(***************************************************************************)
(* The other writers.  The application consumes committed bytes; the send  *)
(* pipe sets the next sequence number to send (writes that change nothing  *)
(* are left out).                                                          *)
(***************************************************************************)
AppHead(nf, rd) ==
    /\ rd # NONE => rd \in up /\ nf = NONE
    /\ \E n \in IF rd = NONE THEN {0} ELSE 1 .. PtrSub(commit[rd], head[rd]) :
          head' = Write(head, nf, 0, rd # NONE, rd, PtrAdd(head[rd], n))

SendSeq(nf, sd) ==
    /\ sd # NONE => sd \in up /\ nf = NONE
    /\ \E n \in IF sd = NONE THEN {0} ELSE 0 .. load.window[sd] :
          /\ sd # NONE => (tx_ack[sd] + n) % SeqSpace # tx_seq[sd]
          /\ tx_seq' = Write(tx_seq, nf, InitSeq, sd # NONE, sd,
                             (tx_ack[sd] + n) % SeqSpace)

(***************************************************************************)
(* The neighbours on the receive side.                                     *)
(***************************************************************************)
FsmIdle == ~fsm_req /\ ~(arb.state = "WAIT" /\ arb.decision = "FSM")

(* init_state of the FSM pipe: a new flow, only while it reads no state.     *)
NewFlow(nf) ==
    /\ nf # NONE => FsmIdle
    /\ up' = IF nf = NONE THEN up ELSE up \cup {nf}

FsmRead(nf, req) ==
    /\ req => FsmIdle /\ nf = NONE
    /\ fsm_req' = (req \/ (fsm_req /\ Grant # "FSM"))

InPipe == {s.flow : s \in {r, c, w} \ {NONE}}

Arrives(nf, pkt) ==
    pkt # NONE => /\ ~stall_r(nf)
                  /\ pkt.flow \in up
                  /\ pkt.len > 0 => gap = 0
                  /\ load.spaced => pkt.flow \notin InPipe

Offered(nf, pkt) ==
    /\ Arrives(nf, pkt)
    /\ gap' = IF pkt # NONE /\ pkt.len > 0 THEN PayloadGap - 1
              ELSE IF gap > 0 THEN gap - 1 ELSE 0

Cycle(nf, pkt, req, rd, sd, step) ==
    /\ Offered(nf, pkt)
    /\ NewFlow(nf)
    /\ FsmRead(nf, req)
    /\ AppHead(nf, rd)
    /\ SendSeq(nf, sd)
    /\ QueueAndCopy(nf, step)
    /\ NextArb(nf)
    /\ NextStages(nf, pkt)
    /\ WriteBack(nf)
    /\ UNCHANGED load

CycleWith(step) ==
    \E nf \in (Flows \ up) \cup {NONE}, pkt \in load.packets \cup {NONE} :
        /\ Arrives(nf, pkt)
        /\ \E req \in BOOLEAN, rd, sd \in (IF nf = NONE THEN up ELSE {}) \cup {NONE} :
              Cycle(nf, pkt, req, rd, sd, step)

Next == \E step \in BOOLEAN : CycleWith(step)

Spec == Init /\ [][Next]_vars

(* The clock never stops, and the copy engine finishes each payload.         *)
FairSpec == Spec /\ WF_vars(Next) /\ WF_vars(CycleWith(TRUE))

-----------------------------------------------------------------------------
(***************************************************************************)
(* Properties.                                                             *)
(***************************************************************************)

(* Every register and memory holds a value of its width, and the queue of    *)
(* payloads no more than it has room for.                                    *)
TypeOK ==
    /\ load \in Loads
    /\ r \in StageR \cup {NONE} /\ c \in StageC \cup {NONE} /\ w \in StageW \cup {NONE}
    /\ arb \in [state : {"READY", "WAIT"}, decision : {"FSM", "EST", NONE},
                last : {"FSM", "EST"}]
    /\ fsm_req \in BOOLEAN
    /\ rx_ack \in [Flows -> SeqNums] /\ rx_wnd \in [Flows -> Ptrs]
    /\ tx_seq \in [Flows -> SeqNums] /\ tx_ack \in [Flows -> SeqNums]
    /\ tx_cnt \in [Flows -> 0 .. RT_ACK_THRESHOLD - 1]
    /\ head \in [Flows -> Ptrs] /\ tail \in [Flows -> Ptrs]
    /\ commit \in [Flows -> Ptrs]
    /\ store_q \in Seq(Payload) /\ Len(store_q) <= StoreQEls
    /\ copy \in Payload \cup {NONE}
    /\ up \subseteq Flows /\ gap \in 0 .. PayloadGap - 1

(* The state of flow f once the packet in stage W is written back.           *)
Settled(mem, f, new) == IF w # NONE /\ w.flow = f THEN new ELSE mem[f]
SettledAck(f) == Settled(rx_ack, f, w.rx_ack)
SettledTail(f) == Settled(tail, f, w.tail)

Waiting ==
    store_q \o (IF w # NONE /\ w.len > 0
                THEN <<[flow |-> w.flow, accept |-> w.accept, len |-> w.len]>>
                ELSE <<>>)

Bytes(p, f) == IF p # NONE /\ p.flow = f /\ p.accept THEN p.len ELSE 0

(* Accepted bytes of flow f on their way to the receive buffer.              *)
BytesOf(q, f) == [i \in 1 .. Len(q) |-> Bytes(q[i], f)]
InFlight(f) == Bytes(copy, f) + Total(BytesOf(Waiting, f))

Received(f) == (SettledAck(f) - InitAck) % (2 * BufSize)

(* An acknowledged byte is a byte that was, or will be, committed to the     *)
(* receive buffer exactly once: the ACK number that est_pipe advances and    *)
(* the commit pointer that the copy engine advances differ by the payloads   *)
(* accepted and still in the queue between them.                             *)
CommitMatchesAck ==
    \A f \in up : PtrAdd(commit[f], InFlight(f)) = Received(f)

(* The tail pointer and the ACK number of a flow, kept in different memories *)
(* and read in different stages, advance together.                           *)
TailMatchesAck == \A f \in up : SettledTail(f) = Received(f)

(* They do so as long as the pipeline holds one packet of a flow at a time.  *)
TailMatchesAckSpaced == load.spaced => TailMatchesAck

(* est_pipe never acknowledges more than the receive buffer holds: what is   *)
(* acknowledged and not consumed fits, so no unread byte is overwritten, and *)
(* the advertised window is never larger than the buffer, as long as the     *)
(* pipeline holds one packet of a flow at a time.                            *)
NoOverrun ==
    load.spaced => \A f \in up : /\ PtrSub(Received(f), head[f]) <= BufSize
                                 /\ rx_wnd[f] <= BufSize

(* Stage C never waits for a response that the arbiter gives to the FSM      *)
(* pipe: a packet is in C exactly while the outstanding read is its own.     *)
ResponseForC == (c # NONE) <=> est_resp_val

(* The pipeline with its stages, arbiter, stalls and bypasses processes the  *)
(* packets as if one at a time, in order and atomically (EstSeq): a packet   *)
(* takes effect when it enters W.                                            *)
PacketIn(s) ==
    IF s = NONE THEN <<>>
    ELSE <<[flow |-> s.flow, seq |-> s.seq, ack |-> s.ack, len |-> s.len]>>

Seqn == INSTANCE EstSeq WITH
    Packets <- UNION {l.packets : l \in Loads},
    inq <- PacketIn(c) \o PacketIn(r),
    rx_ack <- [f \in Flows |-> SettledAck(f)],
    tx_ack <- [f \in Flows |-> Settled(tx_ack, f, w.tx_ack)],
    tx_cnt <- [f \in Flows |-> Settled(tx_cnt, f, w.tx_cnt)],
    outq <- Waiting

Sequential == Seqn!Spec

(* The FSM pipe cannot starve established flows, nor they the FSM pipe: the  *)
(* arbiter serves stage R, and it serves a waiting FSM read, although a full *)
(* payload queue or a new flow may hold stages C and W.                      *)
EstServed == r # NONE ~> Grant = "EST"
FsmServed == fsm_req ~> ~fsm_req
=============================================================================
