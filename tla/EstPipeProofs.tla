---------------------------- MODULE EstPipeProofs ----------------------------
(* Theorems about the established-flow pipeline for every set of flows,      *)
(* every width of sequence numbers, every size of buffer and queue, and      *)
(* every load.                                                               *)
EXTENDS EstPipe, Arithmetic, TLAPS

LEMMA PtrType ==
    ASSUME NEW p \in Int, NEW n \in Int
    PROVE  /\ PtrAdd(p, n) \in Ptrs /\ PtrSub(p, n) \in Ptrs
           /\ (p - n) % (2 * BufSize) \in Ptrs
<1>1. 2 * BufSize \in Nat \ {0}
  BY EstPipeAssumption
<1>2. p + n \in Int /\ p - n \in Int
  OBVIOUS
<1> QED
  BY <1>1, <1>2, ModType, ZenonT(30) DEF PtrAdd, PtrSub, Ptrs

LEMMA SeqType ==
    ASSUME NEW a \in Int, NEW n \in Int
    PROVE  (a + n) % SeqSpace \in SeqNums
  BY AckEnginesAssumption, ModType DEF SeqNums

(* Lengths and pointers are integers.                                        *)
LEMMA IntTypes == SeqNums \subseteq Int /\ Ptrs \subseteq Int /\ 0 .. BufSize \subseteq Int
  BY AckEnginesAssumption, EstPipeAssumption DEF SeqNums, Ptrs

LEMMA BufPositive == BufSize \in Nat /\ BufSize # 0
  BY EstPipeAssumption

(* The packet in stage C.                                                    *)
LEMMA InC ==
    ASSUME TypeOK, c # NONE
    PROVE  /\ c.flow \in Flows /\ c.len \in Int /\ c.head \in Int /\ c.tail \in Int
<1>1. c \in StageC
  BY ZenonT(30) DEF TypeOK
<1>2. c.flow \in Flows /\ c.len \in 0 .. BufSize /\ c.head \in Ptrs /\ c.tail \in Ptrs
  BY <1>1, ZenonT(30) DEF StageC
<1> QED
  BY <1>2, IntTypes, ZenonT(30)

(* A write of a cycle keeps the type of a memory.                            *)
LEMMA WriteType ==
    ASSUME NEW S, NEW mem \in [Flows -> S], NEW nf \in Flows \cup {NONE},
           NEW init \in S, NEW val, NEW f, NEW data,
           val => f \in Flows /\ data \in S
    PROVE  Write(mem, nf, init, val, f, data) \in [Flows -> S]
  BY DEF Write

(* What stage C computes is what stage W takes.                              *)
LEMMA ComputeType ==
    ASSUME TypeOK, c # NONE
    PROVE  Compute \in StageW
<1>1. c \in StageC
  BY DEF TypeOK
<1>2. c.flow \in Flows /\ c.seq \in SeqNums /\ c.ack \in SeqNums /\ c.len \in 0 .. BufSize
      /\ c.head \in Ptrs /\ c.tail \in Ptrs
  BY <1>1 DEF StageC
<1>3. w # NONE => /\ w.rx_ack \in SeqNums /\ w.tx_ack \in SeqNums /\ w.tail \in Ptrs
                  /\ w.tx_cnt \in 0 .. RT_ACK_THRESHOLD - 1
  BY DEF TypeOK, StageW
<1>4. /\ curr_rx_ack \in SeqNums /\ curr_tx_ack \in SeqNums /\ curr_tail \in Ptrs
      /\ curr_tx_cnt \in 0 .. RT_ACK_THRESHOLD - 1
  BY <1>2, <1>3 DEF TypeOK, curr_rx_ack, curr_tx_ack, curr_tail, curr_tx_cnt, byp_state
<1>5. space_left \in Ptrs
  <2>1. PtrSub(curr_tail, c.head) \in Int
    BY <1>2, <1>4, IntTypes, PtrType, ZenonT(30)
  <2> QED
    BY <2>1, PtrType, EstPipeAssumption, SMTT(30) DEF space_left
<1>6. PtrAdd(curr_tail, c.len) \in Ptrs
  BY <1>2, <1>4, IntTypes, PtrType, ZenonT(30)
<1>7. RxNextAck(curr_rx_ack, c.seq, c.len) \in SeqNums
  <2>1. (c.seq + c.len) % SeqSpace \in SeqNums
    BY <1>2, IntTypes, SeqType, ZenonT(30)
  <2> QED
    BY <2>1, <1>4 DEF RxNextAck
<1>8. tx_seq[c.flow] \in SeqNums
  BY <1>2 DEF TypeOK
<1>9. TxNextAck(curr_tx_ack, c.ack, tx_seq[c.flow]) \in SeqNums
  BY <1>2, <1>4 DEF TxNextAck
<1>10. TxNextCnt(curr_tx_ack, c.ack, tx_seq[c.flow], curr_tx_cnt) \in 0 .. RT_ACK_THRESHOLD - 1
  BY <1>4, AckEnginesAssumption DEF TxNextCnt, SetRtFlag, DupCount
<1>11. accept_payload \in BOOLEAN
  BY DEF accept_payload, RxAccept
<1>12. SetRtFlag(curr_tx_ack, c.ack, tx_seq[c.flow], curr_tx_cnt) \in BOOLEAN
  BY DEF SetRtFlag
<1> QED
  BY <1>2, <1>4, <1>5, <1>6, <1>7, <1>9, <1>10, <1>11, <1>12, SMTT(30) DEF Compute, StageW

(* The choices of a cycle.                                                   *)
InputsOK(nf, pkt, rd, sd) ==
    /\ nf \in (Flows \ up) \cup {NONE} /\ pkt \in load.packets \cup {NONE}
    /\ rd \in Flows \cup {NONE} /\ sd \in Flows \cup {NONE}

LEMMA CycleType ==
    ASSUME TypeOK, NEW nf, NEW pkt, NEW req \in BOOLEAN, NEW rd, NEW sd,
           NEW step \in BOOLEAN, InputsOK(nf, pkt, rd, sd),
           Cycle(nf, pkt, req, rd, sd, step)
    PROVE  TypeOK'
<1> USE DEF Cycle
<1>0. nf \in Flows \cup {NONE} /\ rd \in Flows \cup {NONE} /\ sd \in Flows \cup {NONE}
  BY DEF InputsOK
<1>1. load' \in Loads /\ pkt \in StageR \cup {NONE}
  BY EstPipeAssumption DEF TypeOK, InputsOK
<1>2. r' \in StageR \cup {NONE}
  BY <1>1 DEF TypeOK, NextStages
<1>3. c' \in StageC \cup {NONE}
  <2>1. r # NONE => [flow |-> r.flow, seq |-> r.seq, ack |-> r.ack, len |-> r.len,
                     head |-> head[r.flow], tail |-> tail[r.flow]] \in StageC
    BY DEF TypeOK, StageR, StageC
  <2> QED
    BY <2>1 DEF TypeOK, NextStages
<1>4. w' \in StageW \cup {NONE}
  BY ComputeType DEF TypeOK, NextStages
<1>5. arb' \in [state : {"READY", "WAIT"}, decision : {"FSM", "EST", NONE},
                last : {"FSM", "EST"}]
  BY ZenonT(30) DEF TypeOK, NextArb, Grant
<1>6. fsm_req' \in BOOLEAN
  BY DEF TypeOK, FsmRead
<1>7. w # NONE => /\ w.flow \in Flows /\ w.rx_ack \in SeqNums /\ w.rx_wnd \in Ptrs
                  /\ w.tail \in Ptrs /\ w.tx_ack \in SeqNums
                  /\ w.tx_cnt \in 0 .. RT_ACK_THRESHOLD - 1
                  /\ w.len \in 0 .. BufSize /\ w.accept \in BOOLEAN
  BY DEF TypeOK, StageW
<1>8. 0 \in Ptrs /\ BufSize \in Ptrs /\ 0 \in 0 .. RT_ACK_THRESHOLD - 1
  BY EstPipeAssumption, AckEnginesAssumption DEF Ptrs
<1>9. rx_ack' \in [Flows -> SeqNums]
  BY <1>0, <1>7, WriteType, EstPipeAssumption, ZenonT(30) DEF TypeOK, WriteBack
<1>10. rx_wnd' \in [Flows -> Ptrs]
  BY <1>0, <1>7, <1>8, WriteType, ZenonT(30) DEF TypeOK, WriteBack
<1>11. tx_ack' \in [Flows -> SeqNums]
  BY <1>0, <1>7, WriteType, EstPipeAssumption, ZenonT(30) DEF TypeOK, WriteBack
<1>12. tx_cnt' \in [Flows -> 0 .. RT_ACK_THRESHOLD - 1]
  BY <1>0, <1>7, <1>8, WriteType, ZenonT(30) DEF TypeOK, WriteBack
<1>13. tail' \in [Flows -> Ptrs]
  BY <1>0, <1>7, <1>8, WriteType, ZenonT(30) DEF TypeOK, WriteBack
<1>14. head' \in [Flows -> Ptrs]
  <2>1. PICK n \in IF rd = NONE THEN {0} ELSE 1 .. PtrSub(commit[rd], head[rd]) :
           head' = Write(head, nf, 0, rd # NONE, rd, PtrAdd(head[rd], n))
    BY DEF AppHead
  <2>2. rd # NONE => PtrAdd(head[rd], n) \in Ptrs
    <3> SUFFICES ASSUME rd # NONE PROVE PtrAdd(head[rd], n) \in Ptrs
      OBVIOUS
    <3>1. head[rd] \in Int /\ commit[rd] \in Int
      BY <1>0, IntTypes, ZenonT(30) DEF TypeOK
    <3>2. PtrSub(commit[rd], head[rd]) \in Int
      BY <3>1, PtrType, IntTypes, ZenonT(30)
    <3>3. n \in 1 .. PtrSub(commit[rd], head[rd])
      BY <2>1
    <3>4. n \in Int
      BY <3>2, <3>3, SMTT(30)
    <3> QED
      BY <3>1, <3>4, PtrType, ZenonT(30)
  <2> QED
    BY <1>0, <1>8, <2>1, <2>2, WriteType, ZenonT(30) DEF TypeOK
<1>15. tx_seq' \in [Flows -> SeqNums]
  <2>1. PICK n \in IF sd = NONE THEN {0} ELSE 0 .. load.window[sd] :
           tx_seq' = Write(tx_seq, nf, InitSeq, sd # NONE, sd, (tx_ack[sd] + n) % SeqSpace)
    BY DEF SendSeq
  <2>2. sd # NONE => (tx_ack[sd] + n) % SeqSpace \in SeqNums
    <3> SUFFICES ASSUME sd # NONE PROVE (tx_ack[sd] + n) % SeqSpace \in SeqNums
      OBVIOUS
    <3>1. tx_ack[sd] \in Int /\ load.window[sd] \in Int
      BY <1>0, IntTypes, EstPipeAssumption, ZenonT(30) DEF TypeOK
    <3>2. n \in 0 .. load.window[sd]
      BY <2>1
    <3>3. n \in Int
      BY <3>1, <3>2
    <3> QED
      BY <3>1, <3>3, SeqType
  <2> QED
    BY <1>0, <2>1, <2>2, WriteType, EstPipeAssumption, ZenonT(30) DEF TypeOK
<1>16. copy' \in Payload \cup {NONE} /\ store_q' \in Seq(Payload) /\ Len(store_q') <= StoreQEls
  <2> DEFINE enq == IF w # NONE /\ ~stall_w(nf) /\ w.len > 0
                    THEN <<[flow |-> w.flow, accept |-> w.accept, len |-> w.len]>>
                    ELSE <<>>
             deq == step /\ copy = NONE
             rest == IF deq THEN Tail(store_q) ELSE store_q
  <2>1. store_q \in Seq(Payload) /\ Len(store_q) <= StoreQEls /\ StoreQEls \in Nat
    BY EstPipeAssumption DEF TypeOK
  <2>2. enq \in Seq(Payload) /\ Len(enq) <= 1 /\ (enq # <<>> => Len(store_q) # StoreQEls)
    <3>1. w # NONE /\ w.len > 0 => [flow |-> w.flow, accept |-> w.accept, len |-> w.len] \in Payload
      BY <1>7, EstPipeAssumption, SMTT(30) DEF Payload
    <3> QED
      BY <3>1, SMTT(30) DEF stall_w, store_q_full
  <2>3. deq => store_q # <<>>
    BY DEF QueueAndCopy
  <2>4. rest \in Seq(Payload) /\ Len(rest) <= Len(store_q)
    BY <2>1, <2>3, SMTT(30)
  <2>5. store_q' = rest \o enq
    BY DEF QueueAndCopy
  <2>6. deq => Head(store_q) \in Payload
    BY <2>1, <2>3
  <2>7. copy' \in Payload \cup {NONE}
    BY <2>6 DEF QueueAndCopy, TypeOK
  <2> HIDE DEF enq, rest
  <2>8. Len(store_q') = Len(rest) + Len(enq) /\ store_q' \in Seq(Payload)
    BY <2>2, <2>4, <2>5
  <2>9. Len(enq) = 0 \/ Len(store_q) < StoreQEls
    BY <2>1, <2>2, SMTT(30)
  <2> QED
    BY <2>1, <2>2, <2>4, <2>7, <2>8, <2>9
<1>17. commit' \in [Flows -> Ptrs]
  <2>1. copy # NONE => copy.flow \in Flows /\ PtrAdd(commit[copy.flow], copy.len) \in Ptrs
    <3> SUFFICES ASSUME copy # NONE
                 PROVE  copy.flow \in Flows /\ PtrAdd(commit[copy.flow], copy.len) \in Ptrs
      BY SMTT(30)
    <3>1. copy.flow \in Flows /\ copy.len \in Int
      BY EstPipeAssumption DEF TypeOK, Payload
    <3>2. commit[copy.flow] \in Int
      BY <3>1, IntTypes, ZenonT(30) DEF TypeOK
    <3> QED
      BY <3>1, <3>2, PtrType, ZenonT(30)
  <2> QED
    BY <1>0, <1>8, <2>1, WriteType, ZenonT(30) DEF TypeOK, QueueAndCopy
<1>18. up' \subseteq Flows
  BY DEF TypeOK, NewFlow, InputsOK
<1>19. gap' \in 0 .. PayloadGap - 1
  BY EstPipeAssumption DEF TypeOK, Offered
<1> QED
  BY <1>1, <1>2, <1>3, <1>4, <1>5, <1>6, <1>9, <1>10, <1>11, <1>12, <1>13, <1>14, <1>15,
     <1>16, <1>17, <1>18, <1>19, SMTT(30) DEF TypeOK

LEMMA NextIsCycle ==
    ASSUME TypeOK, Next
    PROVE  \E nf \in (Flows \ up) \cup {NONE}, pkt \in load.packets \cup {NONE},
              req \in BOOLEAN, rd \in Flows \cup {NONE}, sd \in Flows \cup {NONE},
              step \in BOOLEAN :
                 InputsOK(nf, pkt, rd, sd) /\ Cycle(nf, pkt, req, rd, sd, step)
<1>1. PICK step \in BOOLEAN : CycleWith(step)
  BY DEF Next
<1>2. PICK nf \in (Flows \ up) \cup {NONE}, pkt \in load.packets \cup {NONE} :
         \E req \in BOOLEAN, rd, sd \in (IF nf = NONE THEN up ELSE {}) \cup {NONE} :
            Cycle(nf, pkt, req, rd, sd, step)
  BY <1>1 DEF CycleWith
<1>3. PICK req \in BOOLEAN, rd \in (IF nf = NONE THEN up ELSE {}) \cup {NONE},
           sd \in (IF nf = NONE THEN up ELSE {}) \cup {NONE} :
         Cycle(nf, pkt, req, rd, sd, step)
  BY <1>2
<1>4. rd \in Flows \cup {NONE} /\ sd \in Flows \cup {NONE}
  BY DEF TypeOK
<1> QED
  BY <1>3, <1>4, ZenonT(30) DEF InputsOK

(* The stages, queues and memories of est_pipe keep the types of their       *)
(* registers, and rx_store_buf_q is never written when it is full.           *)
THEOREM TypeCorrect == Spec => []TypeOK
<1>1. Init => TypeOK
  <2> SUFFICES ASSUME Init PROVE TypeOK
    OBVIOUS
  <2>1. 0 \in Ptrs /\ BufSize \in Ptrs /\ 0 \in 0 .. RT_ACK_THRESHOLD - 1
        /\ 0 \in 0 .. PayloadGap - 1 /\ 0 <= StoreQEls
    BY AckEnginesAssumption, EstPipeAssumption DEF Ptrs
  <2>2. InitAck \in SeqNums /\ InitSeq \in SeqNums
    BY EstPipeAssumption
  <2>3. arb \in [state : {"READY", "WAIT"}, decision : {"FSM", "EST", NONE},
                 last : {"FSM", "EST"}]
    BY DEF Init
  <2>4. store_q \in Seq(Payload) /\ Len(store_q) <= StoreQEls
    BY <2>1 DEF Init
  <2> QED
    BY <2>1, <2>2, <2>3, <2>4, ZenonT(30) DEF Init, TypeOK
<1>2. TypeOK /\ [Next]_vars => TypeOK'
  <2> SUFFICES ASSUME TypeOK, [Next]_vars PROVE TypeOK'
    OBVIOUS
  <2>1. CASE UNCHANGED vars
    BY <2>1 DEF TypeOK, vars
  <2>2. CASE Next
    BY <2>2, NextIsCycle, CycleType
  <2> QED
    BY <2>1, <2>2
<1> QED
  BY <1>1, <1>2, PTL DEF Spec

(* A read response of the arbiter goes to stage C exactly when C holds the   *)
(* packet it was made for: R moves on only with the grant, C only with the   *)
(* response, and the arbiter holds the response while C is stalled.          *)
THEOREM ResponseAlwaysForC == Spec => []ResponseForC
<1>1. Init => ResponseForC
  BY DEF Init, ResponseForC, est_resp_val
<1>2. TypeOK /\ ResponseForC /\ [Next]_vars => ResponseForC'
  <2> SUFFICES ASSUME TypeOK, ResponseForC, [Next]_vars PROVE ResponseForC'
    OBVIOUS
  <2>1. CASE UNCHANGED vars
    BY <2>1 DEF ResponseForC, est_resp_val, vars
  <2>2. CASE Next
    <3>1. PICK nf, pkt : NextArb(nf) /\ NextStages(nf, pkt)
      BY <2>2, NextIsCycle DEF Cycle
    <3>2. r # NONE => [flow |-> r.flow, seq |-> r.seq, ack |-> r.ack, len |-> r.len,
                       head |-> head[r.flow], tail |-> tail[r.flow]] # NONE
      BY EstPipeAssumption DEF TypeOK, StageR, StageC
    <3>3. CASE stall_c(nf)
      BY <3>1, <3>3, EstPipeAssumption
      DEF ResponseForC, est_resp_val, NextArb, NextStages, stall_c, Grant, TypeOK
    <3>4. CASE ~stall_c(nf) /\ Grant = "EST"
      BY <3>1, <3>2, <3>4, EstPipeAssumption
      DEF ResponseForC, est_resp_val, NextArb, NextStages, stall_c, stall_r, Grant, TypeOK
    <3>5. CASE ~stall_c(nf) /\ Grant # "EST"
      BY <3>1, <3>5, EstPipeAssumption
      DEF ResponseForC, est_resp_val, NextArb, NextStages, stall_c, stall_r, Grant, TypeOK
    <3> QED
      BY <3>3, <3>4, <3>5, SMTT(30)
  <2> QED
    BY <2>1, <2>2
<1> QED
  BY <1>1, <1>2, TypeCorrect, PTL DEF Spec

(***************************************************************************)
(* What a cycle does to the settled state of a flow and to the payloads    *)
(* on their way.                                                           *)
(***************************************************************************)
(* Packets in the pipeline belong to flows that are up.                      *)
PipeUp == InPipe \subseteq up

(* Sequences with and without their first element.                           *)
LEMMA SeqFacts ==
    ASSUME NEW S, NEW a \in S, NEW s \in Seq(S)
    PROVE  /\ <<a>> \o s # <<>> /\ Head(<<a>> \o s) = a /\ Tail(<<a>> \o s) = s
           /\ <<>> \o s = s /\ s \o <<>> = s
           /\ s \o <<a>> = Append(s, a)
  OBVIOUS

LEMMA TailCat ==
    ASSUME NEW S, NEW s \in Seq(S), s # <<>>, NEW t \in Seq(S)
    PROVE  Tail(s) \o t = Tail(s \o t) /\ s \o t # <<>> /\ Head(s \o t) = Head(s)
  OBVIOUS

(* Through the bypass stage C sees the state its predecessor leaves behind.  *)
LEMMA Bypass ==
    ASSUME c # NONE
    PROVE  /\ curr_rx_ack = SettledAck(c.flow)
           /\ curr_tx_ack = Settled(tx_ack, c.flow, w.tx_ack)
           /\ curr_tx_cnt = Settled(tx_cnt, c.flow, w.tx_cnt)
  BY DEF curr_rx_ack, curr_tx_ack, curr_tx_cnt, byp_state, SettledAck, Settled

LEMMA PipeUpStep ==
    ASSUME TypeOK, PipeUp, [Next]_vars
    PROVE  PipeUp'
<1>1. CASE UNCHANGED vars
  BY <1>1 DEF PipeUp, InPipe, vars
<1>2. CASE Next
  <2>1. PICK nf \in (Flows \ up) \cup {NONE}, pkt \in load.packets \cup {NONE} :
           Offered(nf, pkt) /\ NewFlow(nf) /\ NextStages(nf, pkt)
    BY <1>2, NextIsCycle DEF Cycle
  <2>2. up \subseteq up'
    BY <2>1 DEF NewFlow
  <2>3. /\ r # NONE => r.flow \in up
        /\ c # NONE => c.flow \in up
        /\ w # NONE => w.flow \in up
    BY SMTT(30) DEF PipeUp, InPipe
  <2>4. r' # NONE => r'.flow \in up'
    BY <2>1, <2>2, <2>3 DEF NextStages, Offered, Arrives
  <2>5. c' # NONE => c'.flow \in up'
    BY <2>1, <2>2, <2>3, SMTT(30) DEF NextStages
  <2>6. w' # NONE => w'.flow \in up'
    BY <2>1, <2>2, <2>3, ZenonT(30) DEF NextStages, Compute
  <2> QED
    BY <2>4, <2>5, <2>6 DEF PipeUp, InPipe
<1> QED
  BY <1>1, <1>2

LEMMA SettledStep ==
    ASSUME TypeOK, PipeUp, NEW nf \in (Flows \ up) \cup {NONE}, NEW pkt,
           NextStages(nf, pkt), WriteBack(nf), NEW f \in Flows
    PROVE  LET proc == c # NONE /\ ~stall_c(nf)
           IN  /\ SettledAck(f)' = IF f = nf THEN InitAck
                                   ELSE IF proc /\ f = c.flow THEN Compute.rx_ack
                                   ELSE SettledAck(f)
               /\ Settled(tx_ack, f, w.tx_ack)' = IF f = nf THEN InitSeq
                                   ELSE IF proc /\ f = c.flow THEN Compute.tx_ack
                                   ELSE Settled(tx_ack, f, w.tx_ack)
               /\ Settled(tx_cnt, f, w.tx_cnt)' = IF f = nf THEN 0
                                   ELSE IF proc /\ f = c.flow THEN Compute.tx_cnt
                                   ELSE Settled(tx_cnt, f, w.tx_cnt)
<1> DEFINE proc == c # NONE /\ ~stall_c(nf)
<1>1. w # NONE => w.flow \in Flows /\ w.flow # nf
  BY EstPipeAssumption DEF PipeUp, InPipe, TypeOK
<1>2. nf # NONE => stall_w(nf)
  BY DEF stall_w
<1>3. proc => ~stall_w(nf)
  BY DEF stall_c
<1>4. w' = IF stall_w(nf) THEN w ELSE IF proc THEN Compute ELSE NONE
  BY DEF NextStages
<1>5. c # NONE => Compute # NONE /\ Compute.flow = c.flow
  BY ComputeType, EstPipeAssumption DEF Compute
<1>6. /\ rx_ack \in [Flows -> SeqNums] /\ tx_ack \in [Flows -> SeqNums]
      /\ DOMAIN tx_cnt = Flows
  BY DEF TypeOK
<1>7. nf # NONE => nf \in Flows
  OBVIOUS
<1> HIDE DEF proc
<1>8. SettledAck(f)' = IF f = nf THEN InitAck
                       ELSE IF proc /\ f = c.flow THEN Compute.rx_ack ELSE SettledAck(f)
  BY <1>1, <1>2, <1>3, <1>4, <1>5, <1>6, <1>7, EstPipeAssumption, SMTT(30)
  DEF SettledAck, Settled, WriteBack, Write, proc
<1>9. Settled(tx_ack, f, w.tx_ack)' = IF f = nf THEN InitSeq
                       ELSE IF proc /\ f = c.flow THEN Compute.tx_ack
                       ELSE Settled(tx_ack, f, w.tx_ack)
  BY <1>1, <1>2, <1>3, <1>4, <1>5, <1>6, <1>7, EstPipeAssumption, SMTT(30)
  DEF Settled, WriteBack, Write, proc
<1>10. Settled(tx_cnt, f, w.tx_cnt)' = IF f = nf THEN 0
                       ELSE IF proc /\ f = c.flow THEN Compute.tx_cnt
                       ELSE Settled(tx_cnt, f, w.tx_cnt)
  BY <1>1, <1>2, <1>3, <1>4, <1>5, <1>6, <1>7, EstPipeAssumption, SMTT(30)
  DEF Settled, WriteBack, Write, proc
<1> QED
  BY <1>8, <1>9, <1>10, SMTT(30) DEF proc

(* Stage C hands its packet on.                                              *)
Proc(nf) == c # NONE /\ ~stall_c(nf)

(* What a packet in W adds to the queue of payloads.                         *)
Entry(x) ==
    IF x # NONE /\ x.len > 0
    THEN <<[flow |-> x.flow, accept |-> x.accept, len |-> x.len]>> ELSE <<>>

LEMMA EntryType ==
    ASSUME NEW x \in StageW \cup {NONE}
    PROVE  Entry(x) \in Seq(Payload)
<1>1. x # NONE /\ x.len > 0 => [flow |-> x.flow, accept |-> x.accept, len |-> x.len] \in Payload
  BY EstPipeAssumption DEF StageW, Payload
<1> QED
  BY <1>1 DEF Entry

LEMMA OutqStep ==
    ASSUME TypeOK, NEW nf, NEW pkt, NEW step \in BOOLEAN,
           NextStages(nf, pkt), QueueAndCopy(nf, step)
    PROVE  LET deq == step /\ copy = NONE
           IN  /\ deq => Waiting # <<>> /\ Head(Waiting) = Head(store_q)
               /\ Waiting' = (IF deq THEN Tail(Waiting) ELSE Waiting)
                                \o Entry(IF Proc(nf) THEN Compute ELSE NONE)
<1> DEFINE deq == step /\ copy = NONE
           D(q) == IF deq THEN Tail(q) ELSE q
<1>1. Waiting = store_q \o Entry(w) /\ Waiting' = store_q' \o Entry(w')
  BY DEF Waiting, Entry
<1>2. store_q \in Seq(Payload) /\ Entry(w) \in Seq(Payload)
  BY EntryType DEF TypeOK
<1>3. deq => store_q # <<>>
  BY DEF QueueAndCopy
<1>4. D(store_q) \in Seq(Payload)
  BY <1>2, <1>3
<1>5. D(store_q) \o Entry(w) = D(Waiting) /\ (deq => Waiting # <<>>)
  BY <1>1, <1>2, <1>3, TailCat, SMTT(30)
<1>6. Waiting' = D(Waiting) \o Entry(IF Proc(nf) THEN Compute ELSE NONE)
  <2>1. Entry(NONE) = <<>>
    BY DEF Entry
  <2>2. CASE stall_w(nf)
    <3>1. w' = w /\ ~Proc(nf)
      BY <2>2 DEF NextStages, Proc, stall_c
    <3>2. store_q' = D(store_q) \o <<>>
      BY <2>2 DEF QueueAndCopy
    <3>3. Waiting' = D(Waiting)
      BY <1>1, <1>4, <1>5, <3>1, <3>2, SMTT(30)
    <3>4. D(store_q) \o Entry(w) \in Seq(Payload)
      <4> HIDE DEF D
      <4> QED
        BY <1>2, <1>4, SMTT(30)
    <3> QED
      BY <1>5, <2>1, <3>1, <3>3, <3>4
  <2>3. CASE ~stall_w(nf)
    <3>1. w' = IF Proc(nf) THEN Compute ELSE NONE
      BY <2>3 DEF NextStages, Proc
    <3>2. store_q' = D(store_q) \o Entry(w)
      BY <2>3, ZenonT(30) DEF QueueAndCopy, Entry
    <3> QED
      BY <1>1, <1>5, <3>1, <3>2, ZenonT(30)
  <2> QED
    BY <2>2, <2>3, ZenonT(30)
<1>7. deq => Head(Waiting) = Head(store_q)
  BY <1>1, <1>2, <1>3, TailCat
<1> QED
  BY <1>5, <1>6, <1>7

(***************************************************************************)
(* The bytes of a flow in a queue of payloads.                             *)
(***************************************************************************)
LEMMA BytesType ==
    ASSUME NEW p \in Payload \cup {NONE}, NEW f
    PROVE  Bytes(p, f) \in 0 .. BufSize
<1>1. p # NONE => p.len \in 1 .. BufSize
  BY DEF Payload
<1> QED
  BY <1>1, EstPipeAssumption DEF Bytes

LEMMA BytesOfType ==
    ASSUME NEW q \in Seq(Payload), NEW f
    PROVE  /\ BytesOf(q, f) \in Seq(Nat) /\ BytesOf(q, f) \in Seq(Int)
           /\ Total(BytesOf(q, f)) \in Nat
           /\ Len(BytesOf(q, f)) = Len(q)
           /\ \A i \in 1 .. Len(q) : BytesOf(q, f)[i] = Bytes(q[i], f)
<1>1. Len(q) \in Nat /\ \A i \in 1 .. Len(q) : q[i] \in Payload
  OBVIOUS
<1>2. 0 .. BufSize \subseteq Nat
  BY EstPipeAssumption
<1>3. \A i \in 1 .. Len(q) : Bytes(q[i], f) \in Nat
  BY <1>1, <1>2, BytesType
<1>4. BytesOf(q, f) \in Seq(Nat)
  BY <1>1, <1>3 DEF BytesOf
<1>5. BytesOf(q, f) \in Seq(Int)
  BY <1>1, <1>3 DEF BytesOf
<1>6. Len(BytesOf(q, f)) = Len(q)
  BY <1>1 DEF BytesOf
<1>7. \A i \in 1 .. Len(q) : BytesOf(q, f)[i] = Bytes(q[i], f)
  BY DEF BytesOf
<1> QED
  BY <1>4, <1>5, <1>6, <1>7, TotalNat

LEMMA SumTail ==
    ASSUME NEW q \in Seq(Payload), q # <<>>, NEW f
    PROVE  Total(BytesOf(q, f)) = Bytes(Head(q), f) + Total(BytesOf(Tail(q), f))
<1>1. Len(q) \in Nat \ {0} /\ Head(q) = q[1] /\ Len(Tail(q)) = Len(q) - 1
  OBVIOUS
<1>2. \A i \in 1 .. Len(q) - 1 : Tail(q)[i] = q[i + 1]
  OBVIOUS
<1> DEFINE b == BytesOf(q, f)
<1>3. b \in Seq(Int) /\ Len(b) = Len(q) /\ \A i \in 1 .. Len(q) : b[i] = Bytes(q[i], f)
  BY BytesOfType
<1> HIDE DEF b
<1>4. b # <<>> /\ Head(b) = Bytes(Head(q), f)
  BY <1>1, <1>3
<1>5. Tail(b) = BytesOf(Tail(q), f)
  <2> DEFINE u == Tail(q)
  <2>1. u \in Seq(Payload) /\ Len(u) = Len(q) - 1 /\ \A i \in 1 .. Len(q) - 1 : u[i] = q[i + 1]
    BY <1>1, <1>2
  <2> HIDE DEF u
  <2> DEFINE t == BytesOf(u, f)
  <2>2. t \in Seq(Int) /\ Len(t) = Len(q) - 1
        /\ \A i \in 1 .. Len(q) - 1 : t[i] = Bytes(q[i + 1], f)
    BY <2>1, BytesOfType
  <2> HIDE DEF t
  <2>3. Tail(b) \in Seq(Int) /\ Len(Tail(b)) = Len(q) - 1
        /\ \A i \in 1 .. Len(q) - 1 : Tail(b)[i] = b[i + 1]
    BY <1>3, <1>4, HeadTailProperties
  <2>4. \A i \in 1 .. Len(q) - 1 : Tail(b)[i] = t[i]
    BY <1>1, <1>3, <2>2, <2>3, SMTT(30)
  <2>5. Tail(b) = t
    BY <2>2, <2>3, <2>4, SeqEqual, ZenonT(30)
  <2> QED
    BY <2>5 DEF t, u
<1>6. Total(b) = Head(b) + Total(Tail(b))
  BY <1>3, <1>4, TotalTail
<1> QED
  BY <1>4, <1>5, <1>6, ZenonT(30) DEF b

LEMMA SumAppend ==
    ASSUME NEW q \in Seq(Payload), NEW p \in Payload, NEW f
    PROVE  Total(BytesOf(Append(q, p), f)) = Total(BytesOf(q, f)) + Bytes(p, f)
<1> DEFINE b == BytesOf(q, f)
           x == Bytes(p, f)
           a == Append(q, p)
<1>1. /\ Len(q) \in Nat /\ Len(a) = Len(q) + 1 /\ a[Len(q) + 1] = p
      /\ \A i \in 1 .. Len(q) : a[i] = q[i]
  BY AppendProperties
<1>2. x \in Int
  BY BytesType, EstPipeAssumption
<1>3. b \in Seq(Int) /\ Len(b) = Len(q) /\ \A i \in 1 .. Len(q) : b[i] = Bytes(q[i], f)
  BY BytesOfType
<1> HIDE DEF b, x, a
<1>4. a \in Seq(Payload)
  BY AppendProperties DEF a
<1> DEFINE t == BytesOf(a, f)
<1>5. t \in Seq(Int) /\ Len(t) = Len(a) /\ \A i \in 1 .. Len(a) : t[i] = Bytes(a[i], f)
  BY <1>4, BytesOfType
<1> HIDE DEF t
<1>6. t = Append(b, x)
  <2>1. /\ Append(b, x) \in Seq(Int) /\ Len(Append(b, x)) = Len(b) + 1
        /\ Append(b, x)[Len(b) + 1] = x /\ \A i \in 1 .. Len(b) : Append(b, x)[i] = b[i]
    BY <1>2, <1>3, AppendProperties
  <2>2. ASSUME NEW i \in 1 .. Len(q) + 1 PROVE t[i] = Append(b, x)[i]
    <3>1. CASE i = Len(q) + 1
      BY <1>1, <1>3, <1>5, <2>1, <3>1 DEF x
    <3>2. CASE i \in 1 .. Len(q)
      BY <1>1, <1>3, <1>5, <2>1, <3>2, SMTT(30)
    <3>3. i = Len(q) + 1 \/ i \in 1 .. Len(q)
      BY <1>1
    <3> QED
      BY <3>1, <3>2, <3>3, ZenonT(30)
  <2> QED
    BY <1>1, <1>3, <1>5, <2>1, <2>2, SeqEqual
<1>7. Total(Append(b, x)) = Total(b) + x
  BY <1>2, <1>3, TotalAppend
<1> QED
  BY <1>6, <1>7 DEF a, b, x, t

(* What the packet x handed to stage W adds to the bytes of flow f.          *)
NewBytes(x, f) == IF x # NONE /\ x.flow = f /\ x.accept THEN x.len ELSE 0

LEMMA SumEntry ==
    ASSUME NEW q \in Seq(Payload), NEW x \in StageW \cup {NONE}, NEW f
    PROVE  Total(BytesOf(q \o Entry(x), f)) = Total(BytesOf(q, f)) + NewBytes(x, f)
<1>1. Total(BytesOf(q, f)) \in Int
  BY BytesOfType
<1>2. CASE x # NONE /\ x.len > 0
  <2> DEFINE p == [flow |-> x.flow, accept |-> x.accept, len |-> x.len]
  <2>1. p \in Payload
    BY <1>2, EstPipeAssumption DEF StageW, Payload
  <2>2. p # NONE /\ p.flow = x.flow /\ p.accept = x.accept /\ p.len = x.len
    BY <2>1, EstPipeAssumption
  <2>3. Entry(x) = <<p>>
    BY <1>2 DEF Entry
  <2>4. Bytes(p, f) = NewBytes(x, f)
    BY <1>2, <2>2 DEF Bytes, NewBytes
  <2> HIDE DEF p
  <2>5. q \o Entry(x) = Append(q, p)
    BY <2>1, <2>3, SeqFacts
  <2> QED
    BY <2>1, <2>4, <2>5, SumAppend
<1>3. CASE ~(x # NONE /\ x.len > 0)
  <2>1. q \o Entry(x) = q
    BY <1>3 DEF Entry
  <2>2. x # NONE => x.len \in 0 .. BufSize
    BY DEF StageW
  <2>3. NewBytes(x, f) = 0
    BY <1>3, <2>2, EstPipeAssumption DEF NewBytes
  <2> QED
    BY <1>1, <2>1, <2>3
<1> QED
  BY <1>2, <1>3

LEMMA WaitingType ==
    ASSUME TypeOK
    PROVE  Waiting \in Seq(Payload)
<1>1. store_q \in Seq(Payload) /\ Entry(w) \in Seq(Payload)
  BY EntryType DEF TypeOK
<1>2. Waiting = store_q \o Entry(w)
  BY DEF Waiting, Entry
<1> QED
  BY <1>1, <1>2

LEMMA InFlightType ==
    ASSUME TypeOK, NEW f
    PROVE  InFlight(f) \in Nat
<1>1. Bytes(copy, f) \in Nat
  BY BytesType, EstPipeAssumption DEF TypeOK
<1>2. Total(BytesOf(Waiting, f)) \in Nat
  BY WaitingType, BytesOfType
<1> QED
  BY <1>1, <1>2 DEF InFlight

LEMMA PtrZero ==
    ASSUME NEW p \in Ptrs
    PROVE  PtrAdd(p, 0) = p
  BY ModSmall, EstPipeAssumption DEF PtrAdd, Ptrs

(* What stage C hands to stage W, if anything.                               *)
Handed(nf) == IF Proc(nf) THEN Compute ELSE NONE

LEMMA HandedType ==
    ASSUME TypeOK, NEW nf
    PROVE  Handed(nf) \in StageW \cup {NONE}
  BY ComputeType DEF Handed, Proc

LEMMA NewBytesType ==
    ASSUME TypeOK, NEW nf, NEW f
    PROVE  NewBytes(Handed(nf), f) \in Nat
<1> DEFINE x == Handed(nf)
<1>1. x # NONE => x.len \in 0 .. BufSize
  BY HandedType DEF StageW
<1> HIDE DEF x
<1> QED
  BY <1>1, BufPositive DEF NewBytes, x

LEMMA NewBytesOfCompute ==
    ASSUME TypeOK, c # NONE
    PROVE  /\ Compute # NONE /\ Compute.flow = c.flow
           /\ NewBytes(Compute, c.flow) = IF accept_payload THEN c.len ELSE 0
<1>1. Compute.flow = c.flow /\ Compute.len = c.len /\ Compute.accept = accept_payload
  BY ZenonT(30) DEF Compute
<1>2. Compute # NONE
  BY ComputeType, EstPipeAssumption, ZenonT(30)
<1> QED
  BY <1>1, <1>2, ZenonT(30) DEF NewBytes

(* In a cycle the copy engine moves bytes of a flow from those on their way  *)
(* to the committed ones, and stage C adds the payload it accepts.           *)
LEMMA InFlightStep ==
    ASSUME TypeOK, NEW nf \in Flows \cup {NONE}, NEW pkt, NEW step \in BOOLEAN,
           NextStages(nf, pkt), QueueAndCopy(nf, step), NEW f \in Flows
    PROVE  \E moved \in 0 .. InFlight(f) :
              /\ f # nf => commit'[f] = PtrAdd(commit[f], moved)
              /\ InFlight(f)' = (InFlight(f) - moved) + NewBytes(Handed(nf), f)
<1> DEFINE deq == step /\ copy = NONE
           done == step /\ copy # NONE /\ (copy.accept => nf = NONE)
           rest == IF deq THEN Tail(Waiting) ELSE Waiting
           sum == Total(BytesOf(Waiting, f))
           left == Total(BytesOf(rest, f))
           new == NewBytes(Handed(nf), f)
<1>1. /\ deq => Waiting # <<>> /\ Head(Waiting) = Head(store_q)
      /\ Waiting' = rest \o Entry(Handed(nf))
  BY OutqStep, ZenonT(30) DEF Handed
<1>2. Waiting \in Seq(Payload) /\ copy \in Payload \cup {NONE}
  BY WaitingType DEF TypeOK
<1>3. rest \in Seq(Payload)
  BY <1>1, <1>2
<1>4. commit[f] \in Ptrs /\ commit \in [Flows -> Ptrs]
  BY DEF TypeOK
<1>5. copy' = IF deq THEN Head(store_q) ELSE IF done THEN NONE ELSE copy
  BY DEF QueueAndCopy
<1>6. commit' = Write(commit, nf, 0, done /\ copy.accept, copy.flow,
                      PtrAdd(commit[copy.flow], copy.len))
  BY DEF QueueAndCopy
<1>7. sum = (IF deq THEN Bytes(Head(Waiting), f) ELSE 0) + left
  <2>1. CASE deq
    BY <1>1, <1>2, <2>1, SumTail
  <2>2. CASE ~deq
    <3>1. left = sum /\ left \in Nat
      BY <1>2, <2>2, BytesOfType
    <3> HIDE DEF left, sum, deq
    <3> QED
      BY <2>2, <3>1
  <2> QED
    BY <2>1, <2>2, ZenonT(30)
<1> HIDE DEF rest
<1>8. Total(BytesOf(Waiting, f))' = left + new
  BY <1>1, <1>3, SumEntry, HandedType
<1>9. new \in Nat
  BY NewBytesType
<1>10. left \in Nat /\ sum \in Nat
  BY <1>2, <1>3, BytesOfType
<1>11. Bytes(NONE, f) = 0 /\ Bytes(copy, f) \in Nat
  BY <1>2, BytesType, EstPipeAssumption DEF Bytes
<1>12. InFlight(f) = Bytes(copy, f) + sum
  BY DEF InFlight
<1>13. InFlight(f)' = Bytes(copy', f) + (left + new)
  BY <1>8 DEF InFlight
<1> HIDE DEF left, sum, new
<1>14. CASE done
  <2>1. ~deq
    BY <1>14
  <2>2. copy' = NONE
    BY <1>5, <1>14, <2>1
  <2>3. InFlight(f)' = (InFlight(f) - Bytes(copy, f)) + new
    BY <1>7, <1>9, <1>10, <1>11, <1>12, <1>13, <2>1, <2>2
  <2>4. Bytes(copy, f) \in 0 .. InFlight(f)
    BY <1>10, <1>11, <1>12
  <2>5. ASSUME f # nf PROVE commit'[f] = PtrAdd(commit[f], Bytes(copy, f))
    <3>1. CASE copy.accept /\ copy.flow = f
      <4>1. nf = NONE /\ Bytes(copy, f) = copy.len
        BY <1>14, <3>1 DEF Bytes
      <4>2. commit' = [commit EXCEPT ![f] = PtrAdd(commit[f], copy.len)]
        BY <1>6, <1>14, <3>1, <4>1 DEF Write
      <4> QED
        BY <1>4, <4>1, <4>2
    <3>2. CASE ~(copy.accept /\ copy.flow = f)
      <4>1. Bytes(copy, f) = 0
        BY <3>2 DEF Bytes
      <4>2. commit'[f] = commit[f]
        BY <1>4, <1>6, <2>5, <3>2, SMTT(30) DEF Write
      <4> QED
        BY <1>4, <4>1, <4>2, PtrZero
    <3> QED
      BY <3>1, <3>2
  <2> QED
    BY <2>3, <2>4, <2>5 DEF new
<1>15. CASE ~done
  <2>1. Bytes(copy', f) + left = Bytes(copy, f) + sum
    <3>1. CASE deq
      <4>1. copy = NONE /\ copy' = Head(Waiting)
        BY <1>1, <1>5, <3>1
      <4> HIDE DEF deq
      <4>2. sum = Bytes(copy', f) + left
        BY <1>7, <3>1, <4>1
      <4> QED
        BY <1>10, <1>11, <4>1, <4>2
    <3>2. CASE ~deq
      <4>1. copy' = copy
        BY <1>5, <1>15, <3>2, SMTT(30)
      <4> HIDE DEF deq
      <4> QED
        BY <1>7, <1>10, <1>11, <3>2, <4>1
    <3> QED
      BY <3>1, <3>2
  <2>2. Bytes(copy', f) \in Nat
    <3>1. deq => Head(Waiting) \in Payload
      BY <1>1, <1>2
    <3>2. copy' \in Payload \cup {NONE}
      BY <1>1, <1>2, <1>5, <3>1
    <3> QED
      BY <3>2, BytesType, EstPipeAssumption
  <2>3. InFlight(f)' = (InFlight(f) - 0) + new
    BY <1>9, <1>10, <1>11, <1>12, <1>13, <2>1, <2>2
  <2>4. 0 \in 0 .. InFlight(f)
    BY <1>10, <1>11, <1>12
  <2>5. f # nf => commit'[f] = commit[f]
    BY <1>4, <1>6, <1>15 DEF Write
  <2>6. f # nf => commit'[f] = PtrAdd(commit[f], 0)
    BY <1>4, <2>5, PtrZero
  <2> QED
    BY <2>3, <2>4, <2>6 DEF new
<1> QED
  BY <1>14, <1>15

(***************************************************************************)
(* The established pipe implements EstSeq for every set of flows, buffer   *)
(* size, sequence space and load: whatever the stages, the arbiter and the *)
(* payload queue do, packets take effect one at a time and in the order of *)
(* arrival, each on the state its predecessor left behind.  A step of the  *)
(* pipe maps to the processing of the packet that leaves C, to the taking  *)
(* in of a packet, to the set-up of a flow, or to several of them at once. *)
(***************************************************************************)

(* What a packet in a stage is for EstSeq.                                   *)
LEMMA PacketInC ==
    ASSUME NEW x \in StageC \cup {NONE}
    PROVE  /\ PacketIn(x) \in Seq(StageR)
           /\ x = NONE => PacketIn(x) = <<>>
           /\ x # NONE => /\ [flow |-> x.flow, seq |-> x.seq, ack |-> x.ack, len |-> x.len]
                                \in StageR
                          /\ PacketIn(x) = <<[flow |-> x.flow, seq |-> x.seq,
                                              ack |-> x.ack, len |-> x.len]>>
<1>1. x # NONE => [flow |-> x.flow, seq |-> x.seq, ack |-> x.ack, len |-> x.len] \in StageR
  BY DEF StageC, StageR
<1> QED
  BY <1>1 DEF PacketIn

LEMMA PacketInR ==
    ASSUME NEW x \in StageR \cup {NONE}
    PROVE  /\ PacketIn(x) \in Seq(StageR)
           /\ x = NONE => PacketIn(x) = <<>>
           /\ x # NONE => PacketIn(x) = <<x>>
<1>1. x # NONE => x \in StageR /\ x = [flow |-> x.flow, seq |-> x.seq, ack |-> x.ack, len |-> x.len]
  BY DEF StageR
<1> QED
  BY <1>1 DEF PacketIn

(* The packets of EstSeq with and without the one stage C hands on.          *)
Inq == PacketIn(c) \o PacketIn(r)
Rest(nf) == IF Proc(nf) THEN Tail(Inq) ELSE Inq

LEMMA InqStep ==
    ASSUME TypeOK, TypeOK', NEW nf, NEW pkt \in load.packets \cup {NONE},
           NextStages(nf, pkt), Offered(nf, pkt)
    PROVE  /\ Proc(nf) => /\ Inq # <<>>
                          /\ Head(Inq) = [flow |-> c.flow, seq |-> c.seq,
                                          ack |-> c.ack, len |-> c.len]
           /\ \/ Inq' = Rest(nf)
              \/ pkt # NONE /\ Inq' = Append(Rest(nf), pkt)
<1> DEFINE pc == PacketIn(c)
           pr == PacketIn(r)
           in_c == PacketIn(c')
           in_r == PacketIn(r')
           first == [flow |-> c.flow, seq |-> c.seq, ack |-> c.ack, len |-> c.len]
<1>1. /\ pc \in Seq(StageR) /\ (c = NONE => pc = <<>>)
      /\ c # NONE => first \in StageR /\ pc = <<first>>
  BY PacketInC, ZenonT(30) DEF TypeOK
<1>2. pr \in Seq(StageR) /\ (r = NONE => pr = <<>>)
  BY PacketInR, ZenonT(30) DEF TypeOK
<1>3. /\ in_c \in Seq(StageR) /\ (c' = NONE => in_c = <<>>)
      /\ in_r \in Seq(StageR) /\ (r' = NONE => in_r = <<>>) /\ (r' # NONE => in_r = <<r'>>)
  <2>1. c' \in StageC \cup {NONE} /\ r' \in StageR \cup {NONE}
    BY ZenonT(30) DEF TypeOK
  <2> QED
    BY <2>1, PacketInC, PacketInR, ZenonT(30)
<1>4. pkt # NONE => pkt \in StageR /\ ~stall_r(nf)
  BY EstPipeAssumption DEF TypeOK, Offered, Arrives
<1>5. /\ c' = c => in_c = pc
      /\ r' = r => in_r = pr
      /\ c' # NONE /\ r # NONE /\ c'.flow = r.flow /\ c'.seq = r.seq /\ c'.ack = r.ack
            /\ c'.len = r.len => in_c = pr
  BY ZenonT(30) DEF PacketIn
<1>6. Inq = pc \o pr /\ Inq' = in_c \o in_r
  BY ZenonT(30) DEF Inq
<1> HIDE DEF pc, pr, in_c, in_r, first
<1>7. c # NONE => Inq # <<>> /\ Tail(Inq) = pr /\ Head(Inq) = first
  <2>1. c # NONE => first \in StageR /\ Inq = <<first>> \o pr
    BY <1>1, <1>6, ZenonT(30)
  <2> QED
    BY <1>2, <2>1, SeqFacts, SMTT(30)
<1>8. stall_c(nf) => c # NONE
  BY DEF stall_c
<1>9. /\ stall_c(nf) => Rest(nf) = pc \o pr
      /\ ~stall_c(nf) => Rest(nf) = pr
  <2>1. c = NONE => pc \o pr = pr
    BY <1>1, <1>2
  <2> QED
    BY <1>6, <1>7, <1>8, <2>1, ZenonT(30) DEF Rest, Proc
<1>10. \/ Inq' = Rest(nf)
       \/ pkt # NONE /\ Inq' = Append(Rest(nf), pkt)
  <2>1. CASE stall_r(nf) /\ stall_c(nf)
    <3>1. c' = c /\ r' = r
      BY <2>1 DEF NextStages
    <3> QED
      BY <1>5, <1>6, <1>9, <2>1, <3>1, ZenonT(30)
  <2>2. CASE stall_r(nf) /\ ~stall_c(nf)
    <3>1. c' = NONE /\ r' = r
      BY <2>2 DEF NextStages
    <3>2. <<>> \o pr = pr
      BY <1>2
    <3> QED
      BY <1>3, <1>5, <1>6, <1>9, <2>2, <3>1, <3>2, ZenonT(30)
  <2>3. CASE ~stall_r(nf) /\ stall_c(nf)
    <3>1. r = NONE /\ c' = c /\ r' = pkt
      BY <2>3 DEF NextStages, stall_r
    <3>2. in_c = pc /\ pc \o pr = pc
      BY <1>1, <1>2, <1>5, <3>1
    <3>3. pc \o <<>> = pc /\ (pkt # NONE => pc \o <<pkt>> = Append(pc, pkt))
      BY <1>1, <1>4
    <3> QED
      BY <1>3, <1>6, <1>9, <2>3, <3>1, <3>2, <3>3, ZenonT(30)
  <2>4. CASE ~stall_r(nf) /\ ~stall_c(nf)
    <3>1. r' = pkt /\ Rest(nf) = pr
      BY <1>9, <2>4 DEF NextStages
    <3>2. in_c = pr
      <4>1. CASE r = NONE
        <5>1. c' = NONE
          BY <2>4, <4>1 DEF NextStages
        <5> QED
          BY <1>2, <1>3, <4>1, <5>1
      <4>2. CASE r # NONE
        <5>1. c' = [flow |-> r.flow, seq |-> r.seq, ack |-> r.ack, len |-> r.len,
                    head |-> head[r.flow], tail |-> tail[r.flow]]
          BY <2>4, <4>2, SMTT(30) DEF NextStages
        <5>2. c'.flow = r.flow /\ c'.seq = r.seq /\ c'.ack = r.ack /\ c'.len = r.len
          BY <5>1
        <5>3. c' # NONE
          <6>1. c' \in StageC
            BY <4>2, <5>1, SMTT(30) DEF TypeOK, StageR, StageC
          <6> QED
            BY <6>1, EstPipeAssumption, ZenonT(30)
        <5> QED
          BY <1>5, <4>2, <5>2, <5>3, ZenonT(30)
      <4> QED
        BY <4>1, <4>2
    <3>3. pr \o <<>> = pr /\ (pkt # NONE => pr \o <<pkt>> = Append(pr, pkt))
      BY <1>2, <1>4
    <3> QED
      BY <1>3, <1>6, <3>1, <3>2, <3>3, ZenonT(30)
  <2> QED
    BY <2>1, <2>2, <2>3, <2>4
<1> QED
  BY <1>7, <1>10, ZenonT(30) DEF first, Proc

(* EstSeq uses the same ACK engines.                                         *)
LEMMA SameEngines ==
    ASSUME NEW a, NEW p, NEW s, NEW n
    PROVE  /\ Seqn!SeqNums = SeqNums
           /\ Seqn!RxAccept(a, p, n) = RxAccept(a, p, n)
           /\ Seqn!RxNextAck(a, p, n) = RxNextAck(a, p, n)
           /\ Seqn!TxNextAck(a, p, s) = TxNextAck(a, p, s)
           /\ Seqn!TxNextCnt(a, p, s, n) = TxNextCnt(a, p, s, n)
<1>1. /\ Seqn!SeqNums = SeqNums
      /\ Seqn!RxAccept(a, p, n) = RxAccept(a, p, n)
      /\ Seqn!RxNextAck(a, p, n) = RxNextAck(a, p, n)
  BY DEF Seqn!SeqNums, SeqNums, Seqn!RxAccept, RxAccept, Seqn!RxNextAck, RxNextAck
<1>2. Seqn!TxNextAck(a, p, s) = TxNextAck(a, p, s)
  BY DEF Seqn!TxNextAck, TxNextAck, Seqn!TxAckValid, TxAckValid, Seqn!DataUnacked,
         DataUnacked, Seqn!PlusOne, PlusOne
<1>3. Seqn!TxNextCnt(a, p, s, n) = TxNextCnt(a, p, s, n)
  BY DEF Seqn!TxNextCnt, TxNextCnt, Seqn!SetRtFlag, SetRtFlag, Seqn!DupCount, DupCount,
         Seqn!DupAck, DupAck, Seqn!DataUnacked, DataUnacked
<1> QED
  BY <1>1, <1>2, <1>3

LEMMA RefineStep ==
    ASSUME TypeOK, TypeOK', PipeUp, Next
    PROVE  Seqn!Next
<1>1. PICK nf \in (Flows \ up) \cup {NONE}, pkt \in load.packets \cup {NONE},
           req \in BOOLEAN, rd \in Flows \cup {NONE}, sd \in Flows \cup {NONE},
           step \in BOOLEAN :
              InputsOK(nf, pkt, rd, sd) /\ Cycle(nf, pkt, req, rd, sd, step)
  BY NextIsCycle
<1>2. /\ Offered(nf, pkt) /\ NewFlow(nf) /\ QueueAndCopy(nf, step)
      /\ NextStages(nf, pkt) /\ WriteBack(nf)
  BY <1>1 DEF Cycle
<1> DEFINE proc == Proc(nf)
           room == space_left >= c.len
           ok == room /\ RxAccept(SettledAck(c.flow), c.seq, c.len)
<1>3. /\ proc => Inq # <<>>
      /\ proc => Head(Inq) = [flow |-> c.flow, seq |-> c.seq, ack |-> c.ack, len |-> c.len]
      /\ Inq' = Rest(nf) \/ (pkt # NONE /\ Inq' = Append(Rest(nf), pkt))
  BY <1>2, InqStep
<1>4. up' = IF nf = NONE THEN up ELSE up \cup {nf}
  BY <1>2 DEF NewFlow
<1>5. pkt # NONE => pkt \in UNION {l.packets : l \in Loads} /\ pkt.flow \in up
  BY <1>2, SMTT(30) DEF TypeOK, Offered, Arrives
<1>6. Seqn!TakeIn(proc)
  BY <1>3, <1>5, ZenonT(30) DEF Seqn!TakeIn, Rest, Inq
<1>7. proc => /\ c.flow \in Flows
              /\ Compute.accept = ok
              /\ Compute.rx_ack = IF ok THEN RxNextAck(SettledAck(c.flow), c.seq, c.len)
                                  ELSE SettledAck(c.flow)
              /\ Compute.tx_ack = TxNextAck(Settled(tx_ack, c.flow, w.tx_ack), c.ack,
                                            tx_seq[c.flow])
              /\ Compute.tx_cnt = TxNextCnt(Settled(tx_ack, c.flow, w.tx_ack), c.ack,
                                            tx_seq[c.flow],
                                            Settled(tx_cnt, c.flow, w.tx_cnt))
  BY Bypass, ZenonT(30) DEF Proc, Compute, accept_payload, TypeOK, StageC
<1>8. proc \in BOOLEAN /\ room \in BOOLEAN
  BY SMTT(30) DEF Proc
<1> HIDE DEF proc, room
<1>9. Seqn!Process(nf, proc, room)
  <2> DEFINE p == Head(Inq)
             A == [f \in Flows |-> SettledAck(f)]
             T == [f \in Flows |-> Settled(tx_ack, f, w.tx_ack)]
             N == [f \in Flows |-> Settled(tx_cnt, f, w.tx_cnt)]
             good == room /\ Seqn!RxAccept(A[p.flow], p.seq, p.len)
  <2>1. /\ Seqn!RxAccept(SettledAck(c.flow), c.seq, c.len)
              = RxAccept(SettledAck(c.flow), c.seq, c.len)
        /\ Seqn!RxNextAck(SettledAck(c.flow), c.seq, c.len)
              = RxNextAck(SettledAck(c.flow), c.seq, c.len)
        /\ Seqn!TxNextAck(Settled(tx_ack, c.flow, w.tx_ack), c.ack, tx_seq[c.flow])
              = TxNextAck(Settled(tx_ack, c.flow, w.tx_ack), c.ack, tx_seq[c.flow])
        /\ Seqn!TxNextCnt(Settled(tx_ack, c.flow, w.tx_ack), c.ack, tx_seq[c.flow],
                          Settled(tx_cnt, c.flow, w.tx_cnt))
              = TxNextCnt(Settled(tx_ack, c.flow, w.tx_ack), c.ack, tx_seq[c.flow],
                          Settled(tx_cnt, c.flow, w.tx_cnt))
    BY SameEngines, ZenonT(30)
  <2>2. proc => /\ p.flow = c.flow /\ p.seq = c.seq /\ p.ack = c.ack /\ p.len = c.len
                /\ A[p.flow] = SettledAck(c.flow) /\ good = ok
                /\ T[p.flow] = Settled(tx_ack, c.flow, w.tx_ack)
                /\ N[p.flow] = Settled(tx_cnt, c.flow, w.tx_cnt)
    <3>1. proc => p.flow = c.flow /\ p.seq = c.seq /\ p.ack = c.ack /\ p.len = c.len
      BY <1>3, SMTT(30)
    <3>2. proc => /\ A[c.flow] = SettledAck(c.flow)
                  /\ T[c.flow] = Settled(tx_ack, c.flow, w.tx_ack)
                  /\ N[c.flow] = Settled(tx_cnt, c.flow, w.tx_cnt)
      BY <1>7, ZenonT(30)
    <3> HIDE DEF p, A, T, N
    <3> QED
      BY <2>1, <3>1, <3>2, ZenonT(30)
  <2> HIDE DEF p
  <2> DEFINE Step(mem, init, new) ==
                 [f \in Flows |-> IF f = nf THEN init
                                  ELSE IF proc /\ f = p.flow THEN new ELSE mem[f]]
  <2>3. \A f \in Flows :
           /\ SettledAck(f)' = IF f = nf THEN InitAck
                               ELSE IF proc /\ f = c.flow THEN Compute.rx_ack
                               ELSE SettledAck(f)
           /\ Settled(tx_ack, f, w.tx_ack)' = IF f = nf THEN InitSeq
                               ELSE IF proc /\ f = c.flow THEN Compute.tx_ack
                               ELSE Settled(tx_ack, f, w.tx_ack)
           /\ Settled(tx_cnt, f, w.tx_cnt)' = IF f = nf THEN 0
                               ELSE IF proc /\ f = c.flow THEN Compute.tx_cnt
                               ELSE Settled(tx_cnt, f, w.tx_cnt)
    BY <1>2, SettledStep, SMTT(30) DEF proc, Proc
  <2> DEFINE newA == IF good THEN Seqn!RxNextAck(A[p.flow], p.seq, p.len) ELSE A[p.flow]
             newT == Seqn!TxNextAck(T[p.flow], p.ack, tx_seq[p.flow])
             newN == Seqn!TxNextCnt(T[p.flow], p.ack, tx_seq[p.flow], N[p.flow])
  <2> HIDE DEF A, T, N, good
  <2>4. proc => newA = Compute.rx_ack /\ newT = Compute.tx_ack /\ newN = Compute.tx_cnt
    BY <1>7, <2>1, <2>2, ZenonT(30)
  <2>5. proc => p.flow = c.flow
    BY <2>2, SMTT(30)
  <2> HIDE DEF newA, newT, newN
  <2>6. /\ A' = Step(A, InitAck, newA)
        /\ T' = Step(T, InitSeq, newT)
        /\ N' = Step(N, 0, newN)
    BY <2>3, <2>4, <2>5 DEF A, T, N
  <2>7. \E deq \in BOOLEAN :
           /\ deq => Waiting # <<>>
           /\ Waiting' = (IF deq THEN Tail(Waiting) ELSE Waiting)
                            \o (IF proc /\ p.len > 0
                                THEN <<[flow |-> p.flow, accept |-> good, len |-> p.len]>>
                                ELSE <<>>)
    <3>1. Entry(IF Proc(nf) THEN Compute ELSE NONE)
             = IF proc /\ p.len > 0
               THEN <<[flow |-> p.flow, accept |-> good, len |-> p.len]>> ELSE <<>>
      <4>1. proc => Compute # NONE /\ Compute.flow = c.flow /\ Compute.len = c.len
        BY ComputeType, EstPipeAssumption, ZenonT(30) DEF proc, Proc, Compute
      <4>2. proc => /\ Compute.accept = good /\ p.flow = c.flow /\ p.len = c.len
                    /\ Proc(nf)
        BY <1>7, <2>2, ZenonT(30) DEF proc
      <4>3. ~proc => ~Proc(nf)
        BY DEF proc
      <4> QED
        BY <4>1, <4>2, <4>3, ZenonT(30) DEF Entry
    <3> DEFINE deq == step /\ copy = NONE
    <3>2. deq \in BOOLEAN
      BY SMTT(30)
    <3>3. /\ deq => Waiting # <<>>
          /\ Waiting' = (IF deq THEN Tail(Waiting) ELSE Waiting)
                           \o Entry(IF Proc(nf) THEN Compute ELSE NONE)
      BY <1>2, OutqStep, ZenonT(30)
    <3> QED
      BY <3>1, <3>2, <3>3, ZenonT(30)
  <2> QED
    BY <2>6, <2>7, ZenonT(30)
    DEF Seqn!Process, Seqn!After, p, Inq, A, T, N, good, newA, newT, newN
<1>10. \A f \in Flows : tx_seq'[f] \in Seqn!SeqNums
  BY SameEngines, ZenonT(30) DEF TypeOK
<1>11. /\ proc => PacketIn(c) \o PacketIn(r) # <<>>
       /\ up' = IF nf = NONE THEN up ELSE up \cup {nf}
       /\ Seqn!TakeIn(proc)
       /\ Seqn!Process(nf, proc, room)
       /\ \A f \in Flows : tx_seq'[f] \in Seqn!SeqNums
  BY <1>3, <1>4, <1>6, <1>9, <1>10, ZenonT(30) DEF Inq, proc
<1>12. nf \in (Flows \ up) \cup {NONE}
  BY <1>1
<1> QED
  BY <1>8, <1>11, <1>12, ZenonT(30) DEF Seqn!Next

LEMMA RefineInit ==
    ASSUME Init
    PROVE  Seqn!Init /\ PipeUp
<1>1. PacketIn(NONE) = <<>>
  BY DEF PacketIn
<1>2. PacketIn(c) \o PacketIn(r) = <<>> /\ Waiting = <<>>
  BY <1>1 DEF Init, Waiting
<1> QED
  BY <1>2 DEF Init, Seqn!Init, PipeUp, InPipe, Settled, SettledAck

(* est_pipe.sv, pipelined and bypassed, implements the sequential            *)
(* specification EstSeq: this is the property Sequential of the est_pipe     *)
(* run, for every value of the constants.                                    *)
THEOREM ImplementsSequential == Spec => Sequential
<1>1. Init => Seqn!Init /\ PipeUp
  BY RefineInit
<1>2. TypeOK /\ PipeUp /\ [Next]_vars => PipeUp'
  BY PipeUpStep
<1>3. TypeOK /\ TypeOK' /\ PipeUp /\ [Next]_vars => [Seqn!Next]_(Seqn!vars)
  <2>1. UNCHANGED vars => UNCHANGED Seqn!vars
    BY DEF vars, Seqn!vars, Settled, SettledAck, PacketIn, Waiting
  <2> QED
    BY <2>1, RefineStep, SMTT(30)
<1> QED
  BY <1>1, <1>2, <1>3, TypeCorrect, PTL DEF Spec, Sequential, Seqn!Spec
=============================================================================
