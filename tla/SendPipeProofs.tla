--------------------------- MODULE SendPipeProofs ---------------------------
(* Theorems about the transmit path for every set of flows, every width of   *)
(* sequence numbers, every size of buffer, segment and FIFO, and every load. *)
EXTENDS SendPipe, Arithmetic, FiniteSetTheorems, SequenceTheorems, TLAPS

(* Arithmetic that the steps below use with the fields of packets.           *)
LEMMA LeqRefl == \A a \in Int : a <= a
  OBVIOUS

LEMMA LeqTrans == \A a, b, c \in Int : a <= b /\ b <= c => a <= c
  OBVIOUS

LEMMA NatNotNegative == 0 \in Int /\ \A a \in Nat : 0 <= a /\ a \in Int
  OBVIOUS

LEMMA OneMore == \A a \in Int : a <= a /\ a + 1 \in Int /\ a <= a + 1
  OBVIOUS

LEMMA NotLess == \A a \in Int, k \in Nat : a + k = a \/ a + k > a
  OBVIOUS

LEMMA FurthestSent ==
    ASSUME NEW p \in Int, NEW k \in Int, NEW s \in Int
    PROVE  /\ p + k \in Int /\ p + k <= p + k /\ p + 0 = p
           /\ p + k > s => s <= p + k
           /\ ~(p + k > s) => p + k <= s
  OBVIOUS

LEMMA InSeqSpace ==
    ASSUME NEW m \in Nat, NEW t \in 0 .. m - 2, NEW s \in Int, s <= t, NEW k \in 0 .. s
    PROVE  k \in 0 .. m - 1 /\ k \in Int /\ k <= s /\ s <= m - 2
  OBVIOUS

LEMMA InRangeUp ==
    ASSUME NEW s \in Int, NEW t \in Int, s <= t, NEW k \in 0 .. s
    PROVE  k \in 0 .. t
  OBVIOUS

(* The fields of the segment that N computes from a state s.                 *)
LEMMA NumberFields ==
    ASSUME NEW exp, NEW s, StateN = s
    PROVE  LET from == IF n.rt THEN s.ack ELSE s.seq
               len == SegSize(PtrOf(from), s.tail)
               gen == n.rt \/ exp \/ len # 0
           IN  /\ Number(exp).flow = n.flow /\ Number(exp).seq = (from + len) % SeqSpace
               /\ Number(exp).gen = gen /\ Number(exp).from = from /\ Number(exp).len = len
  BY DEF Number

(* An ACK with a new number is no duplicate and asks for no retransmission.  *)
LEMMA NewAckNoFlag ==
    ASSUME NEW c, NEW a, a # c, NEW s, NEW k \in 0 .. RT_ACK_THRESHOLD - 1
    PROVE  ~SetRtFlag(c, a, s, k)
  BY AckEnginesAssumption DEF SetRtFlag, DupCount, DupAck

(* The inputs of a cycle.                                                    *)
InputsOK(nf, rdy, exp, hold, af, wf) ==
    /\ nf \in (load.flows \ up) \cup {NONE}
    /\ rdy \in BOOLEAN /\ exp \in BOOLEAN /\ hold \in BOOLEAN
    /\ af \in load.flows \cup {NONE} /\ wf \in load.flows \cup {NONE}

LEMMA LoadType ==
    ASSUME TypeOK
    PROVE  /\ load.flows \subseteq Flows /\ up \subseteq Flows
           /\ load.bytes \in 0 .. SeqSpace - 2 /\ load.dup \in BOOLEAN
  BY SendPipeAssumption DEF TypeOK

(***************************************************************************)
(* The token ring: where a flow is.                                        *)
(***************************************************************************)
InFifo(f) == \E i \in 1 .. Len(sched) : sched[i] = f
InN(f) == n # NONE /\ n.flow = f
InW(f) == w # NONE /\ w.flow = f

(* A flow that is set up is in exactly one place, and once.                  *)
Once ==
    /\ \A i, j \in 1 .. Len(sched) : sched[i] = sched[j] => i = j
    /\ \A f \in Flows :
          /\ f \in up <=> InFifo(f) \/ rt = f \/ InN(f) \/ InW(f)
          /\ InFifo(f) => rt # f /\ ~InN(f) /\ ~InW(f)
          /\ rt = f => ~InN(f) /\ ~InW(f)
          /\ InN(f) => ~InW(f)

(* While RT holds a flow, the flag store has answered for it, or RT has kept *)
(* the answer.                                                               *)
FlagRead == rt # NONE /\ saved = NONE => flag_rd = rt

Ring == TypeOK /\ Once /\ FifoBehindRT /\ FlagRead

(* The FIFO has room for a flow that is neither in it nor in RT: with        *)
(* anything in the FIFO, RT holds another flow.                              *)
LEMMA Room ==
    ASSUME Ring, NEW g \in Flows, ~InFifo(g), rt # g
    PROVE  Len(sched) < SchedEls
<1>1. sched \in Seq(Flows) /\ Len(sched) \in Nat /\ rt \in Flows \cup {NONE}
  BY DEF Ring, TypeOK
<1>2. CASE sched = <<>>
  BY <1>2, SendPipeAssumption
<1>3. CASE sched # <<>>
  <2>1. rt \in Flows /\ rt # NONE
    BY <1>1, <1>3 DEF Ring, FifoBehindRT
  <2> DEFINE T == (Flows \ {rt}) \ {g}
  <2>2. /\ IsFiniteSet(Flows \ {rt}) /\ Cardinality(Flows \ {rt}) = Cardinality(Flows) - 1
        /\ Cardinality(Flows) \in Nat
    BY <2>1, SendPipeAssumption, FS_RemoveElement, FS_CardinalityType
  <2>3. IsFiniteSet(T) /\ Cardinality(T) = Cardinality(Flows) - 2
    <3>1. g \in Flows \ {rt}
      OBVIOUS
    <3>2. /\ IsFiniteSet((Flows \ {rt}) \ {g})
          /\ Cardinality((Flows \ {rt}) \ {g}) = Cardinality(Flows \ {rt}) - 1
      BY <2>2, <3>1, FS_RemoveElement
    <3> QED
      BY <2>2, <3>2
  <2>4. sched \in [1 .. Len(sched) -> T]
    <3>1. \A i \in 1 .. Len(sched) : sched[i] \in Flows
      BY <1>1
    <3>2. \A i \in 1 .. Len(sched) : sched[i] # rt /\ sched[i] # g
      BY <3>1 DEF Ring, Once, InFifo
    <3> QED
      BY <1>1, <3>1, <3>2
  <2>5. sched \in Injection(1 .. Len(sched), T)
    BY <2>4 DEF Injection, IsInjective, Ring, Once
  <2>6. Cardinality(1 .. Len(sched)) <= Cardinality(T)
    BY <2>3, <2>5, FS_Injection
  <2>7. Cardinality(1 .. Len(sched)) = Len(sched)
    <3> DEFINE len == Len(sched)
    <3>1. len \in Nat
      BY <1>1
    <3> HIDE DEF len
    <3>2. Cardinality(1 .. len) = IF 1 > len THEN 0 ELSE (len - 1) + 1
      BY <3>1, FS_Interval
    <3>3. Cardinality(1 .. len) = len
      BY <3>1, <3>2
    <3> QED
      BY <3>3 DEF len
  <2> QED
    BY <1>1, <2>2, <2>3, <2>6, <2>7, SendPipeAssumption
<1> QED
  BY <1>2, <1>3

(* At most one flow is written to the FIFO in a cycle, and it finds room.    *)
Incoming(nf, rdy) ==
    IF nf # NONE THEN nf
    ELSE IF w # NONE /\ ~stall_w(nf, rdy) THEN w.flow ELSE NONE

LEMMA IncomingType ==
    ASSUME Ring, NEW nf, NEW rdy, nf \in (load.flows \ up) \cup {NONE},
           Incoming(nf, rdy) # NONE
    PROVE  /\ Incoming(nf, rdy) \in Flows
           /\ ~InFifo(Incoming(nf, rdy)) /\ rt # Incoming(nf, rdy)
           /\ ~InN(Incoming(nf, rdy))
<1>1. CASE nf # NONE
  <2>1. nf \in Flows /\ nf \notin up
    BY <1>1, LoadType DEF Ring
  <2> QED
    BY <1>1, <2>1 DEF Ring, Once, Incoming
<1>2. CASE nf = NONE
  <2>1. w # NONE /\ Incoming(nf, rdy) = w.flow
    BY <1>2 DEF Incoming
  <2>2. w.flow \in Flows
    BY <2>1 DEF Ring, TypeOK, StageW
  <2> QED
    BY <2>1, <2>2 DEF Ring, Once, InW
<1> QED
  BY <1>1, <1>2

LEMMA AvailIs ==
    ASSUME Ring, NEW nf, NEW rdy, nf \in (load.flows \ up) \cup {NONE}
    PROVE  Avail(nf, rdy) = IF Incoming(nf, rdy) # NONE
                            THEN Append(sched, Incoming(nf, rdy)) ELSE sched
<1>1. sched \in Seq(Flows) /\ Len(sched) \in Nat /\ Len(sched) <= SchedEls
  BY DEF Ring, TypeOK
<1> DEFINE writes == (IF nf # NONE THEN <<nf>> ELSE <<>>) \o Requeue(nf, rdy)
           room == SchedEls - Len(sched)
<1>2. Avail(nf, rdy) = sched \o SubSeq(writes, 1, IF Len(writes) <= room THEN Len(writes) ELSE room)
  BY DEF Avail
<1>3. CASE Incoming(nf, rdy) = NONE
  <2>1. nf = NONE /\ Requeue(nf, rdy) = <<>>
    <3>1. nf = NONE
      BY <1>3, SendPipeAssumption, LoadType DEF Incoming, Ring
    <3>2. ~(w # NONE /\ ~stall_w(nf, rdy))
      BY <1>3, <3>1, SendPipeAssumption DEF Incoming, Ring, TypeOK, StageW
    <3> QED
      BY <3>1, <3>2 DEF Requeue
  <2>2. writes = <<>>
    BY <2>1
  <2> QED
    BY <1>1, <1>2, <1>3, <2>2, SendPipeAssumption
<1>4. CASE Incoming(nf, rdy) # NONE
  <2>1. Incoming(nf, rdy) \in Flows /\ Len(sched) < SchedEls
    BY <1>4, IncomingType, Room
  <2>2. writes = <<Incoming(nf, rdy)>>
    <3>1. CASE nf # NONE
      <4>1. Requeue(nf, rdy) = <<>>
        BY <3>1 DEF Requeue, stall_w
      <4> QED
        BY <3>1, <4>1 DEF Incoming
    <3>2. CASE nf = NONE
      BY <1>4, <2>1, <3>2 DEF Incoming, Requeue
    <3> QED
      BY <3>1, <3>2
  <2> HIDE DEF writes
  <2>3. Len(writes) = 1 /\ Len(writes) <= room /\ SubSeq(writes, 1, 1) = writes
    <3>1. writes \in Seq(Flows) /\ Len(writes) = 1
      BY <2>1, <2>2
    <3>2. SubSeq(writes, 1, 1) = writes
      BY <3>1, SubSeqFull
    <3> QED
      BY <1>1, <2>1, <3>1, <3>2, SendPipeAssumption
  <2>4. Avail(nf, rdy) = sched \o <<Incoming(nf, rdy)>>
    BY <1>2, <2>2, <2>3
  <2> QED
    BY <1>1, <1>4, <2>1, <2>4, AppendIsConcat
<1> QED
  BY <1>3, <1>4

(***************************************************************************)
(* Types.                                                                  *)
(***************************************************************************)
LEMMA SeqWidth ==
    ASSUME NEW a \in Int
    PROVE  a % SeqSpace \in SeqNums
  BY AckEnginesAssumption, ModType DEF SeqNums

LEMMA PtrWidth ==
    ASSUME NEW a \in Int
    PROVE  PtrOf(a) \in Ptrs
<1>1. 2 * TxBuf \in Nat \ {0}
  BY SendPipeAssumption
<1> QED
  BY <1>1, ModType, ZenonT(30) DEF PtrOf, Ptrs

LEMMA IntTypes == SeqNums \subseteq Int /\ Ptrs \subseteq Int /\ 0 .. MaxSeg \subseteq Int
  BY SendPipeAssumption, AckEnginesAssumption DEF SeqNums, Ptrs

(* A segment has at most MaxSeg bytes, and no more than the buffer holds.    *)
LEMMA SegSizeBound ==
    ASSUME NEW p \in Int, NEW q \in Int
    PROVE  /\ SegSize(p, q) \in 0 .. MaxSeg
           /\ SegSize(p, q) <= (q - p) % (2 * TxBuf)
<1> DEFINE buf == (q - p) % (2 * TxBuf)
<1>1. buf \in Nat
  BY ModType, SendPipeAssumption
<1>2. MaxSeg \in Nat /\ Align \in Nat \ {0}
  BY SendPipeAssumption
<1>3. SegSize(p, q) = IF buf > MaxSeg THEN MaxSeg
                      ELSE IF buf < Align THEN buf ELSE buf - (buf % Align)
  BY DEF SegSize
<1> HIDE DEF buf
<1>4. buf % Align \in 0 .. buf
  BY <1>1, <1>2
<1>5. SegSize(p, q) \in 0 .. MaxSeg /\ SegSize(p, q) <= buf
  BY <1>1, <1>2, <1>3, <1>4
<1> QED
  BY <1>5 DEF buf

LEMMA SegSizeType ==
    ASSUME NEW p \in Int, NEW q \in Int
    PROVE  SegSize(p, q) \in 0 .. MaxSeg
  BY SegSizeBound

LEMMA ReadNType ==
    ASSUME TypeOK, n # NONE
    PROVE  ReadN \in TxState /\ StateN \in TxState
<1>1. n \in StageN
  BY DEF TypeOK
<1>2. n.flow \in Flows /\ n.data \in TxState \cup {NONE}
  BY <1>1 DEF StageN
<1>3. written[n.flow] \in Int /\ InitSeq \in Int
  BY <1>2, LoadType, SendPipeAssumption, AckEnginesAssumption DEF TypeOK, SeqNums
<1>4. TailPtr(n.flow) \in Ptrs
  BY <1>3, PtrWidth DEF TailPtr
<1>5. ReadN \in TxState
  BY <1>2, <1>4 DEF ReadN, TypeOK, TxState
<1>6. w # NONE => w.seq \in SeqNums /\ w.ack \in SeqNums /\ w.armed \in BOOLEAN
  BY DEF TypeOK, StageW
<1>7. ReadN.tail \in Ptrs
  BY <1>5 DEF TxState
<1> QED
  BY <1>5, <1>6, <1>7 DEF StateN, TxState

LEMMA NumberType ==
    ASSUME TypeOK, n # NONE, NEW exp \in BOOLEAN
    PROVE  Number(exp) \in StageW
<1>1. n \in StageN
  BY DEF TypeOK
<1>2. n.flow \in Flows /\ n.rt \in BOOLEAN
  BY <1>1 DEF StageN
<1> DEFINE s == StateN
           from == IF n.rt THEN s.ack ELSE s.seq
           len == SegSize(PtrOf(from), s.tail)
           gen == n.rt \/ exp \/ len # 0
<1>3. s.seq \in SeqNums /\ s.ack \in SeqNums /\ s.armed \in BOOLEAN /\ s.tail \in Ptrs
  BY ReadNType DEF TxState
<1>4. from \in SeqNums
  BY <1>3
<1>5. Number(exp) = [flow |-> n.flow, seq |-> (from + len) % SeqSpace, ack |-> s.ack,
                     armed |-> s.armed \/ gen, gen |-> gen, from |-> from, len |-> len]
  BY DEF Number
<1>6. gen \in BOOLEAN /\ (s.armed \/ gen) \in BOOLEAN
  OBVIOUS
<1> HIDE DEF s, from, gen
<1>7. PtrOf(from) \in Int /\ s.tail \in Int /\ from \in Int
  <2>1. from \in Int
    BY <1>4, IntTypes
  <2> QED
    BY <1>3, <2>1, PtrWidth, IntTypes, ZenonT(30)
<1>8. len \in 0 .. MaxSeg /\ len \in Int
  BY <1>7, SegSizeType, IntTypes, ZenonT(30)
<1> HIDE DEF len
<1>9. (from + len) % SeqSpace \in SeqNums
  BY <1>7, <1>8, SeqWidth
<1> QED
  BY <1>2, <1>3, <1>4, <1>5, <1>6, <1>8, <1>9 DEF StageW

LEMMA ProcessAckType ==
    ASSUME TypeOK, NEW f \in Flows, NEW a \in SeqNums
    PROVE  ProcessAck(f, a) \in StageEst
<1>1. CurrAck(f) \in SeqNums /\ CurrCnt(f) \in 0 .. RT_ACK_THRESHOLD - 1
  BY DEF TypeOK, CurrAck, CurrCnt, StageEst
<1>2. tx_seq[f] \in SeqNums
  BY DEF TypeOK
<1>3. TxNextAck(CurrAck(f), a, tx_seq[f]) \in SeqNums
  BY <1>1 DEF TxNextAck
<1>4. TxNextCnt(CurrAck(f), a, tx_seq[f], CurrCnt(f)) \in 0 .. RT_ACK_THRESHOLD - 1
  BY <1>1, AckEnginesAssumption DEF TxNextCnt, SetRtFlag, DupCount
<1>5. SetRtFlag(CurrAck(f), a, tx_seq[f], CurrCnt(f)) \in BOOLEAN
  BY DEF SetRtFlag
<1> QED
  BY <1>3, <1>4, <1>5 DEF ProcessAck, StageEst

LEMMA PeerAcksType ==
    ASSUME TypeOK, NEW f \in Flows
    PROVE  PeerAcks(f) \subseteq SeqNums
<1>1. InitSeq \in Int /\ sent[f] \in Nat
  BY SendPipeAssumption, AckEnginesAssumption DEF SeqNums, TypeOK
<1>2. \A k \in 0 .. sent[f] : InitSeq + k \in Int
  BY <1>1
<1> QED
  BY <1>2, SeqWidth DEF PeerAcks

LEMMA FlagRTType ==
    ASSUME TypeOK
    PROVE  FlagRT \in BOOLEAN
<1>1. CASE saved # NONE
  BY <1>1 DEF TypeOK, FlagRT
<1>2. CASE saved = NONE
  BY <1>2 DEF FlagRT
<1> QED
  BY <1>1, <1>2

(* Every step of a cycle keeps registers and memories in their types.        *)
LEMMA CycleType ==
    ASSUME Ring, NEW nf, NEW rdy, NEW exp, NEW hold, NEW af, NEW wf,
           InputsOK(nf, rdy, exp, hold, af, wf), Cycle(nf, rdy, exp, hold, af, wf)
    PROVE  TypeOK'
<1> USE DEF InputsOK
<1>1. TypeOK /\ load' = load
  BY DEF Ring, Cycle
<1>2. nf \in Flows \cup {NONE} /\ af \in Flows \cup {NONE} /\ wf \in Flows \cup {NONE}
  BY <1>1, LoadType
<1>3. /\ sched' \in Seq(Flows) /\ Len(sched') <= SchedEls
      /\ rt' \in Flows \cup {NONE} /\ flag_rd' \in Flows \cup {NONE}
  <2> DEFINE avail == Avail(nf, rdy)
  <2>1. avail \in Seq(Flows) /\ Len(avail) <= SchedEls
    <3>1. avail = IF Incoming(nf, rdy) # NONE
                  THEN Append(sched, Incoming(nf, rdy)) ELSE sched
      BY AvailIs
    <3>2. CASE Incoming(nf, rdy) # NONE
      <4>1. Incoming(nf, rdy) \in Flows /\ Len(sched) < SchedEls
        BY <3>2, IncomingType, Room
      <4> HIDE DEF avail
      <4> QED
        BY <1>1, <3>1, <3>2, <4>1, SendPipeAssumption, SMTT(30) DEF TypeOK
    <3>3. CASE Incoming(nf, rdy) = NONE
      BY <1>1, <3>1, <3>3, SMTT(30) DEF TypeOK
    <3> QED
      BY <3>2, <3>3
  <2>2. /\ flag_rd' = IF avail # <<>> THEN Head(avail) ELSE NONE
        /\ rt' = IF stall_rt(nf, rdy) THEN rt ELSE flag_rd'
        /\ sched' = IF avail # <<>> /\ ~stall_rt(nf, rdy) THEN Tail(avail) ELSE avail
    BY DEF Cycle, Schedule
  <2> HIDE DEF avail
  <2>3. avail # <<>> => Head(avail) \in Flows /\ Tail(avail) \in Seq(Flows)
                        /\ Len(Tail(avail)) <= SchedEls
    BY <2>1, SendPipeAssumption
  <2> QED
    BY <1>1, <2>1, <2>2, <2>3, SMTT(30) DEF TypeOK
<1>4. saved' \in BOOLEAN \cup {NONE}
  BY <1>1 DEF Cycle, NextRT, TypeOK
<1>5. n' \in StageN \cup {NONE}
  <2>1. CASE stall_n(nf, rdy)
    <3>1. n \in StageN /\ ReadN \in TxState
      BY <1>1, <2>1, ReadNType DEF stall_n, TypeOK
    <3>2. n' = [n EXCEPT !.data = ReadN]
      BY <2>1 DEF Cycle, NextN
    <3> QED
      BY <3>1, <3>2 DEF StageN
  <2>2. CASE ~stall_n(nf, rdy) /\ rt # NONE /\ ~stall_rt(nf, rdy)
    <3>1. n' = [flow |-> rt, rt |-> FlagRT, data |-> NONE]
      BY <2>2 DEF Cycle, NextN
    <3>2. rt \in Flows
      BY <1>1, <2>2 DEF TypeOK
    <3>3. FlagRT \in BOOLEAN
      BY <1>1, FlagRTType
    <3> QED
      BY <3>1, <3>2, <3>3 DEF StageN
  <2>3. CASE ~stall_n(nf, rdy) /\ ~(rt # NONE /\ ~stall_rt(nf, rdy))
    BY <2>3, SMTT(30) DEF Cycle, NextN
  <2> QED
    BY <2>1, <2>2, <2>3
<1>6. w' \in StageW \cup {NONE}
  BY <1>1, NumberType DEF Cycle, NextW, TypeOK
<1>7. est' \in StageEst \cup {NONE} /\ (est' # NONE => est'.flow \in up')
  <2>1. CASE stall_est(nf, hold)
    <3>1. est' = est
      BY <2>1, SMTT(30) DEF Cycle, NextEst
    <3> QED
      BY <1>1, <3>1 DEF TypeOK, Cycle
  <2>2. CASE ~stall_est(nf, hold) /\ af = NONE
    BY <2>2 DEF Cycle, NextEst
  <2>3. CASE ~stall_est(nf, hold) /\ af # NONE
    <3>1. PICK a \in PeerAcks(af) : est' = ProcessAck(af, a)
      BY <2>3 DEF Cycle, NextEst
    <3>2. af \in up /\ af \in Flows
      BY <1>2, <2>3 DEF Cycle, NextEst
    <3>3. ProcessAck(af, a) \in StageEst
      BY <1>1, <3>2, PeerAcksType, ProcessAckType
    <3>4. ProcessAck(af, a).flow = af
      BY DEF ProcessAck
    <3> QED
      BY <3>1, <3>2, <3>3, <3>4, SMTT(30) DEF Cycle
  <2> QED
    BY <2>1, <2>2, <2>3, SMTT(30)
<1>8. up' \subseteq load'.flows /\ flags' \subseteq up'
  BY <1>1 DEF Cycle, NextFlags, TypeOK
<1>9. tx_seq' \in [Flows -> SeqNums] /\ armed' \in [Flows -> BOOLEAN]
  <2>1. w # NONE => w.flow \in Flows /\ w.seq \in SeqNums /\ w.armed \in BOOLEAN
    BY <1>1 DEF TypeOK, StageW
  <2>2. InitSeq \in SeqNums
    BY SendPipeAssumption
  <2>3. tx_seq \in [Flows -> SeqNums] /\ armed \in [Flows -> BOOLEAN]
    BY <1>1 DEF TypeOK
  <2>4. WriteBack(nf, rdy)
    BY DEF Cycle
  <2>5. CASE nf # NONE
    BY <1>2, <2>2, <2>3, <2>4, <2>5, ZenonT(30) DEF WriteBack
  <2>6. CASE nf = NONE /\ w # NONE /\ ~stall_w(nf, rdy)
    BY <2>1, <2>3, <2>4, <2>6 DEF WriteBack
  <2>7. CASE nf = NONE /\ ~(w # NONE /\ ~stall_w(nf, rdy))
    BY <2>3, <2>4, <2>7 DEF WriteBack
  <2> QED
    BY <2>5, <2>6, <2>7
<1>10. tx_ack' \in [Flows -> SeqNums] /\ tx_cnt' \in [Flows -> 0 .. RT_ACK_THRESHOLD - 1]
  <2>1. est # NONE => est.flow \in Flows /\ est.ack \in SeqNums
                      /\ est.cnt \in 0 .. RT_ACK_THRESHOLD - 1
    BY <1>1 DEF TypeOK, StageEst
  <2>2. 0 \in 0 .. RT_ACK_THRESHOLD - 1
    BY AckEnginesAssumption
  <2>3. InitSeq \in SeqNums
    BY SendPipeAssumption
  <2>4. tx_ack \in [Flows -> SeqNums] /\ tx_cnt \in [Flows -> 0 .. RT_ACK_THRESHOLD - 1]
    BY <1>1 DEF TypeOK
  <2>5. WriteAck(nf)
    BY DEF Cycle
  <2> QED
    BY <1>2, <2>1, <2>2, <2>3, <2>4, <2>5 DEF WriteAck
<1>11. written' \in [Flows -> 0 .. load'.bytes]
  <2>1. CASE wf = NONE
    BY <1>1, <2>1 DEF Cycle, AppWrite, TypeOK
  <2>2. CASE wf # NONE
    <3>1. load.bytes \in Nat
      BY <1>1, LoadType, AckEnginesAssumption, SMTT(30)
    <3>2. /\ wf \in Flows /\ written[wf] < load.bytes /\ written[wf] \in 0 .. load.bytes
          /\ written' = [written EXCEPT ![wf] = @ + 1]
      BY <1>1, <1>2, <2>2 DEF Cycle, AppWrite, TypeOK
    <3>3. written[wf] + 1 \in 0 .. load.bytes
      BY <3>1, <3>2
    <3> QED
      BY <1>1, <3>2, <3>3 DEF TypeOK
  <2> QED
    BY <2>1, <2>2, SMTT(30)
<1>12. sent' \in [Flows -> Nat]
  <2>1. CASE w = NONE \/ stall_w(nf, rdy) \/ ~w.gen
    BY <1>1, <2>1 DEF Cycle, Emitted, TypeOK
  <2>2. CASE ~(w = NONE \/ stall_w(nf, rdy) \/ ~w.gen)
    <3>1. w.flow \in Flows /\ w.from \in Int /\ w.len \in Nat
      <4>1. w.flow \in Flows /\ w.from \in SeqNums /\ w.len \in 0 .. MaxSeg
        BY <1>1, <2>2, SMTT(30) DEF TypeOK, StageW
      <4> QED
        BY <4>1, SendPipeAssumption, IntTypes
    <3>2. Pos(w.from) \in Nat
      <4>1. w.from - InitSeq \in Int
        BY <3>1, SendPipeAssumption, IntTypes, SMTT(30)
      <4> QED
        BY <4>1, SeqWidth, AckEnginesAssumption DEF Pos, SeqNums
    <3>3. sent' = [sent EXCEPT ![w.flow] =
                      IF Pos(w.from) + w.len > @ THEN Pos(w.from) + w.len ELSE @]
      BY <2>2 DEF Cycle, Emitted
    <3> QED
      BY <1>1, <3>1, <3>2, <3>3, SMTT(30) DEF TypeOK
  <2> QED
    BY <2>1, <2>2, SMTT(30)
<1> QED
  BY <1>1, <1>3, <1>4, <1>5, <1>6, <1>7, <1>8, <1>9, <1>10, <1>11, <1>12, ZenonT(30) DEF TypeOK

(***************************************************************************)
(* The tokens move.                                                        *)
(***************************************************************************)
Holds(q, f) == \E i \in 1 .. Len(q) : q[i] = f
Distinct(q) == \A i, j \in 1 .. Len(q) : q[i] = q[j] => i = j

LEMMA AppendHolds ==
    ASSUME NEW q \in Seq(Flows), Distinct(q), NEW g \in Flows, ~Holds(q, g)
    PROVE  /\ Distinct(Append(q, g))
           /\ \A f \in Flows : Holds(Append(q, g), f) <=> Holds(q, f) \/ f = g
<1> DEFINE a == Append(q, g)
<1>1. /\ Len(q) \in Nat /\ Len(a) = Len(q) + 1 /\ a[Len(q) + 1] = g
      /\ \A i \in 1 .. Len(q) : a[i] = q[i]
  BY AppendProperties
<1> HIDE DEF a
<1>2. Distinct(a)
  BY <1>1 DEF Distinct, Holds
<1>3. ASSUME NEW f \in Flows PROVE Holds(a, f) <=> Holds(q, f) \/ f = g
  <2>1. Holds(a, f) => Holds(q, f) \/ f = g
    BY <1>1 DEF Holds
  <2>2. Holds(q, f) => Holds(a, f)
    BY <1>1 DEF Holds
  <2>3. f = g => Holds(a, f)
    BY <1>1 DEF Holds
  <2> QED
    BY <2>1, <2>2, <2>3
<1> QED
  BY <1>2, <1>3 DEF a

LEMMA TailHolds ==
    ASSUME NEW q \in Seq(Flows), q # <<>>, Distinct(q)
    PROVE  /\ Distinct(Tail(q)) /\ ~Holds(Tail(q), Head(q))
           /\ \A f \in Flows : Holds(q, f) <=> Holds(Tail(q), f) \/ f = Head(q)
<1> DEFINE t == Tail(q)
<1>1. /\ Len(q) \in Nat \ {0} /\ Len(t) = Len(q) - 1 /\ Head(q) = q[1]
      /\ \A i \in 1 .. Len(t) : t[i] = q[i + 1]
  BY HeadTailProperties, EmptySeq
<1> HIDE DEF t
<1>2. Distinct(t)
  BY <1>1 DEF Distinct
<1>3. ~Holds(t, q[1])
  BY <1>1 DEF Distinct, Holds
<1>4. ASSUME NEW f \in Flows PROVE Holds(q, f) <=> Holds(t, f) \/ f = q[1]
  <2>1. Holds(t, f) => Holds(q, f)
    BY <1>1 DEF Holds
  <2>2. f = q[1] => Holds(q, f)
    BY <1>1 DEF Holds
  <2>3. ASSUME Holds(q, f), f # q[1] PROVE Holds(t, f)
    <3>1. PICK i \in 1 .. Len(q) : q[i] = f
      BY <2>3 DEF Holds
    <3>2. i - 1 \in 1 .. Len(t) /\ t[i - 1] = f
      BY <1>1, <2>3, <3>1
    <3> QED
      BY <3>2 DEF Holds
  <2> QED
    BY <2>1, <2>2, <2>3
<1> QED
  BY <1>1, <1>2, <1>3, <1>4 DEF t

(* What the FIFO holds when the read port looks at it.                       *)
LEMMA AvailHolds ==
    ASSUME Ring, NEW nf, NEW rdy, nf \in (load.flows \ up) \cup {NONE}
    PROVE  /\ Avail(nf, rdy) \in Seq(Flows) /\ Distinct(Avail(nf, rdy))
           /\ \A f \in Flows : Holds(Avail(nf, rdy), f) <=> InFifo(f) \/ f = Incoming(nf, rdy)
<1>1. sched \in Seq(Flows) /\ Distinct(sched)
  BY DEF Ring, TypeOK, Once, Distinct
<1>2. \A f : InFifo(f) <=> Holds(sched, f)
  BY DEF InFifo, Holds
<1>3. CASE Incoming(nf, rdy) = NONE
  BY <1>1, <1>2, <1>3, AvailIs, SendPipeAssumption, SMTT(30)
<1>4. CASE Incoming(nf, rdy) # NONE
  <2>1. Incoming(nf, rdy) \in Flows /\ ~Holds(sched, Incoming(nf, rdy))
    BY <1>2, <1>4, IncomingType
  <2>2. Avail(nf, rdy) = Append(sched, Incoming(nf, rdy))
    BY <1>4, AvailIs
  <2>3. Append(sched, Incoming(nf, rdy)) \in Seq(Flows)
    BY <1>1, <2>1, SMTT(30)
  <2> QED
    BY <1>1, <1>2, <2>1, <2>2, <2>3, AppendHolds, SMTT(30)
<1> QED
  BY <1>3, <1>4

(* FIFO and RT after a cycle.                                                *)
LEMMA ScheduleStep ==
    ASSUME Ring, NEW nf, NEW rdy, nf \in (load.flows \ up) \cup {NONE}, Schedule(nf, rdy)
    PROVE  /\ Distinct(sched') /\ (sched' # <<>> => rt' # NONE)
           /\ stall_rt(nf, rdy) => /\ rt' = rt
                                   /\ \A f \in Flows : InFifo(f)' <=> InFifo(f) \/ f = Incoming(nf, rdy)
           /\ ~stall_rt(nf, rdy) =>
                 /\ flag_rd' = rt'
                 /\ \A f \in Flows :
                       /\ InFifo(f)' \/ rt' = f <=> InFifo(f) \/ f = Incoming(nf, rdy)
                       /\ ~(InFifo(f)' /\ rt' = f)
<1> DEFINE avail == Avail(nf, rdy)
<1>1. /\ flag_rd' = IF avail # <<>> THEN Head(avail) ELSE NONE
      /\ rt' = IF stall_rt(nf, rdy) THEN rt ELSE flag_rd'
      /\ sched' = IF avail # <<>> /\ ~stall_rt(nf, rdy) THEN Tail(avail) ELSE avail
  BY DEF Schedule
<1>2. /\ avail \in Seq(Flows) /\ Distinct(avail)
      /\ \A f \in Flows : Holds(avail, f) <=> InFifo(f) \/ f = Incoming(nf, rdy)
  BY AvailHolds
<1> HIDE DEF avail
<1>3. \A f : InFifo(f)' <=> Holds(sched', f)
  BY DEF InFifo, Holds
<1>4. CASE stall_rt(nf, rdy)
  <2>1. rt' = rt /\ sched' = avail
    BY <1>1, <1>4
  <2>2. rt # NONE
    BY <1>4, SMTT(30) DEF stall_rt
  <2> QED
    BY <1>2, <1>3, <1>4, <2>1, <2>2
<1>5. CASE ~stall_rt(nf, rdy) /\ avail # <<>>
  <2>1. rt' = Head(avail) /\ flag_rd' = rt' /\ sched' = Tail(avail)
    BY <1>1, <1>5, SMTT(30)
  <2>2. rt' \in Flows
    BY <1>2, <1>5, <2>1
  <2>3. rt' # NONE
    BY <2>2, SendPipeAssumption
  <2>4. /\ Distinct(sched') /\ ~Holds(sched', rt')
        /\ \A f \in Flows : Holds(avail, f) <=> Holds(sched', f) \/ f = rt'
    BY <1>2, <1>5, <2>1, TailHolds, SMTT(30)
  <2> QED
    BY <1>2, <1>3, <1>5, <2>1, <2>3, <2>4, SMTT(30)
<1>6. CASE ~stall_rt(nf, rdy) /\ avail = <<>>
  <2>1. rt' = NONE /\ flag_rd' = rt' /\ sched' = <<>>
    BY <1>1, <1>6
  <2>2. \A f \in Flows : ~Holds(<<>>, f) /\ rt' # f
    BY <2>1, SendPipeAssumption DEF Holds
  <2> QED
    BY <1>2, <1>3, <1>6, <2>1, <2>2
<1> QED
  BY <1>4, <1>5, <1>6

(* N and W after a cycle.                                                    *)
LEMMA StageNStep ==
    ASSUME Ring, NEW nf, NEW rdy, NextN(nf, rdy), n' \in StageN \cup {NONE}, NEW f \in Flows
    PROVE  /\ stall_n(nf, rdy) => (InN(f)' <=> InN(f))
           /\ ~stall_n(nf, rdy) => (InN(f)' <=> rt = f /\ ~stall_rt(nf, rdy))
<1>0. NONE \notin Flows /\ NONE \notin StageN
  BY SendPipeAssumption
<1>1. CASE stall_n(nf, rdy)
  <2>1. n \in StageN /\ n # NONE
    BY <1>1 DEF stall_n, Ring, TypeOK
  <2>2. n' = [n EXCEPT !.data = ReadN]
    BY <1>1 DEF NextN
  <2>3. n' = [flow |-> n.flow, rt |-> n.rt, data |-> ReadN]
    BY <2>1, <2>2 DEF StageN
  <2>4. n.flow \in Flows /\ n.rt \in BOOLEAN /\ ReadN \in TxState
    BY <2>1, ReadNType DEF StageN, Ring
  <2>5. n' \in StageN /\ n'.flow = n.flow
    BY <2>3, <2>4 DEF StageN
  <2> QED
    BY <1>0, <1>1, <2>1, <2>5, SMTT(30) DEF InN
<1>2. CASE ~stall_n(nf, rdy) /\ rt # NONE /\ ~stall_rt(nf, rdy)
  <2>1. n' = [flow |-> rt, rt |-> FlagRT, data |-> NONE]
    BY <1>2 DEF NextN
  <2>2. rt \in Flows /\ FlagRT \in BOOLEAN
    BY <1>2, FlagRTType DEF Ring, TypeOK
  <2>3. n' \in StageN
    BY <2>1, <2>2 DEF StageN
  <2> QED
    BY <1>0, <1>2, <2>1, <2>3 DEF InN
<1>3. CASE ~stall_n(nf, rdy) /\ ~(rt # NONE /\ ~stall_rt(nf, rdy))
  <2>1. n' = NONE
    BY <1>3 DEF NextN
  <2> QED
    BY <1>0, <1>3, <2>1 DEF InN
<1> QED
  BY <1>1, <1>2, <1>3

LEMMA StageWStep ==
    ASSUME Ring, NEW nf, NEW rdy, NEW exp \in BOOLEAN, NextW(nf, rdy, exp), NEW f \in Flows
    PROVE  /\ stall_w(nf, rdy) => (InW(f)' <=> InW(f))
           /\ ~stall_w(nf, rdy) => (InW(f)' <=> InN(f))
<1>0. NONE \notin Flows /\ NONE \notin StageW
  BY SendPipeAssumption
<1>1. CASE stall_w(nf, rdy)
  BY <1>1 DEF NextW, InW
<1>2. CASE ~stall_w(nf, rdy) /\ n # NONE
  <2>1. w' = Number(exp)
    BY <1>2 DEF NextW
  <2>2. Number(exp) \in StageW
    BY <1>2, NumberType, SMTT(30) DEF Ring
  <2>3. Number(exp).flow = n.flow
    BY DEF Number
  <2> QED
    BY <1>0, <1>2, <2>1, <2>2, <2>3 DEF InW, InN
<1>3. CASE ~stall_w(nf, rdy) /\ n = NONE
  BY <1>3 DEF NextW, InW, InN
<1> QED
  BY <1>1, <1>2, <1>3

(* A cycle moves every token to one place.                                   *)
LEMMA CycleOnce ==
    ASSUME Ring, NEW nf, NEW rdy, NEW exp, NEW hold, NEW af, NEW wf,
           InputsOK(nf, rdy, exp, hold, af, wf), Cycle(nf, rdy, exp, hold, af, wf)
    PROVE  Once' /\ FifoBehindRT' /\ FlagRead'
<1> DEFINE in == Incoming(nf, rdy)
           srt == stall_rt(nf, rdy)
           sn == stall_n(nf, rdy)
           sw == stall_w(nf, rdy)
<1>1. /\ Distinct(sched') /\ (sched' # <<>> => rt' # NONE)
      /\ srt => /\ rt' = rt
                /\ \A f \in Flows : InFifo(f)' <=> InFifo(f) \/ f = in
      /\ ~srt => /\ flag_rd' = rt'
                 /\ \A f \in Flows : /\ InFifo(f)' \/ rt' = f <=> InFifo(f) \/ f = in
                                     /\ ~(InFifo(f)' /\ rt' = f)
  BY ScheduleStep, ZenonT(30) DEF InputsOK, Cycle
<1>2. n' \in StageN \cup {NONE}
  BY CycleType DEF TypeOK
<1>3. FifoBehindRT'
  BY <1>1 DEF FifoBehindRT
<1>4. FlagRead'
  <2>1. CASE ~srt
    BY <1>1, <2>1 DEF FlagRead
  <2>2. CASE srt
    <3>1. saved' = IF saved = NONE /\ flag_rd # NONE THEN flag_rd \in flags ELSE saved
      BY <2>2 DEF Cycle, NextRT
    <3>2. rt # NONE
      BY <2>2 DEF stall_rt
    <3>3. saved = NONE => flag_rd # NONE
      BY <3>2 DEF Ring, FlagRead
    <3>4. saved' # NONE
      <4>1. NONE \notin BOOLEAN
        BY SendPipeAssumption
      <4>4. (flag_rd \in flags) \in BOOLEAN
        OBVIOUS
      <4>2. CASE saved # NONE
        BY <3>1, <4>2
      <4>3. CASE saved = NONE
        <5>1. saved' = (flag_rd \in flags)
          BY <3>1, <3>3, <4>3
        <5> QED
          BY <4>1, <4>4, <5>1, ZenonT(30)
      <4> QED
        BY <4>2, <4>3
    <3> QED
      BY <3>4 DEF FlagRead
  <2> QED
    BY <2>1, <2>2
<1>5. ASSUME NEW f \in Flows
      PROVE  /\ f \in up' <=> InFifo(f)' \/ rt' = f \/ InN(f)' \/ InW(f)'
             /\ InFifo(f)' => rt' # f /\ ~InN(f)' /\ ~InW(f)'
             /\ rt' = f => ~InN(f)' /\ ~InW(f)'
             /\ InN(f)' => ~InW(f)'
  <2>1. /\ sn => (InN(f)' <=> InN(f))
        /\ ~sn => (InN(f)' <=> rt = f /\ ~srt)
    BY <1>2, StageNStep, SMTT(30) DEF Cycle
  <2>2. /\ sw => (InW(f)' <=> InW(f))
        /\ ~sw => (InW(f)' <=> InN(f))
    BY StageWStep DEF Cycle, InputsOK
  <2>3. /\ f \in up <=> InFifo(f) \/ rt = f \/ InN(f) \/ InW(f)
        /\ InFifo(f) => rt # f /\ ~InN(f) /\ ~InW(f)
        /\ rt = f => ~InN(f) /\ ~InW(f)
        /\ InN(f) => ~InW(f)
    BY SMTT(30) DEF Ring, Once
  <2>4. f \in up' <=> f \in up \/ f = nf
    BY SendPipeAssumption DEF Cycle
  <2>5. /\ f = in <=> f = nf \/ (~sw /\ InW(f))
        /\ f = nf => f \notin up /\ sw
    BY SendPipeAssumption DEF Incoming, InW, InputsOK, stall_w
  <2>6. /\ sn <=> n # NONE /\ sw
        /\ sn /\ rt = f => srt
        /\ ~sn /\ sw => ~InN(f)
    BY SendPipeAssumption DEF stall_n, stall_rt, InN
  <2>7. srt => /\ rt' = rt /\ (InFifo(f)' <=> InFifo(f) \/ f = in)
    BY <1>1
  <2>8. ~srt => /\ InFifo(f)' \/ rt' = f <=> InFifo(f) \/ f = in
                /\ ~(InFifo(f)' /\ rt' = f)
    BY <1>1
  <2> HIDE DEF in, srt, sn, sw
  <2> DEFINE F == InFifo(f)
             F1 == InFifo(f)'
             N == InN(f)
             N1 == InN(f)'
             W == InW(f)
             W1 == InW(f)'
  <2> HIDE DEF F, F1, N, N1, W, W1
  <2>9. /\ f \in up' <=> F1 \/ rt' = f \/ N1 \/ W1
        /\ F1 => rt' # f /\ ~N1 /\ ~W1
        /\ rt' = f => ~N1 /\ ~W1
        /\ N1 => ~W1
    BY <2>1, <2>2, <2>3, <2>4, <2>5, <2>6, <2>7, <2>8, SMTT(30) DEF F, F1, N, N1, W, W1
  <2> QED
    BY <2>9 DEF F, F1, N, N1, W, W1
<1>6. Once'
  BY <1>1, <1>5 DEF Once, Distinct
<1> QED
  BY <1>3, <1>4, <1>6, SMTT(30)

LEMMA InitRing ==
    ASSUME Init
    PROVE  Ring
<1>1. TypeOK
  BY SendPipeAssumption, AckEnginesAssumption DEF Init, TypeOK
<1>2. \A f \in Flows : ~InFifo(f) /\ rt # f /\ ~InN(f) /\ ~InW(f) /\ f \notin up
  BY SendPipeAssumption DEF Init, InFifo, InN, InW
<1>3. \A i, j \in 1 .. Len(sched) : sched[i] = sched[j] => i = j
  BY DEF Init
<1> QED
  BY <1>1, <1>2, <1>3, SMTT(30) DEF Ring, Once, FifoBehindRT, FlagRead, Init

LEMMA StutterRing ==
    ASSUME Ring, UNCHANGED vars
    PROVE  Ring'
<1>1. TypeOK'
  BY SMTT(30) DEF Ring, TypeOK, vars
<1>2. Once'
  BY SMTT(30) DEF Ring, Once, InFifo, InN, InW, vars
<1> QED
  BY <1>1, <1>2, SMTT(30) DEF Ring, FifoBehindRT, FlagRead, vars

LEMMA NextCycle ==
    ASSUME Next
    PROVE  \E nf, rdy, exp, hold, af, wf : /\ InputsOK(nf, rdy, exp, hold, af, wf)
                                           /\ Cycle(nf, rdy, exp, hold, af, wf)
  BY DEF Next, CycleWith, InputsOK

LEMMA NextRing ==
    ASSUME Ring, [Next]_vars
    PROVE  Ring'
<1>1. CASE Next
  <2>1. PICK nf, rdy, exp, hold, af, wf : /\ InputsOK(nf, rdy, exp, hold, af, wf)
                                          /\ Cycle(nf, rdy, exp, hold, af, wf)
    BY <1>1, NextCycle
  <2> QED
    BY <2>1, CycleType, CycleOnce DEF Ring
<1>2. CASE UNCHANGED vars
  BY <1>2, StutterRing
<1> QED
  BY <1>1, <1>2

(* The ring of tokens: the inductive invariant of the scheduling of flows    *)
(* (protocol_logic_pipe.sv, scheduling_fifos.sv).                            *)
THEOREM RingInvariant == Spec => []Ring
<1>1. Init => Ring
  BY InitRing
<1>2. Ring /\ [Next]_vars => Ring'
  BY NextRing
<1> QED
  BY <1>1, <1>2, PTL DEF Spec

(* Every register and memory of the transmit path holds a value of its       *)
(* width: no flow is dropped by the FIFO, no stage holds half a state, no    *)
(* length exceeds MAX_SEG_SIZE (protocol_logic_pipe.sv, tx_state_store.sv).  *)
THEOREM TypeCorrect == Spec => []TypeOK
<1>1. Ring => TypeOK
  BY DEF Ring
<1> QED
  BY <1>1, RingInvariant, PTL

(* Where the token of a flow is, counted.                                    *)
LEMMA OneToken ==
    ASSUME Ring
    PROVE  TokenConserved
<1> SUFFICES ASSUME NEW f \in Flows PROVE Tokens(f) = IF f \in up THEN 1 ELSE 0
  BY DEF TokenConserved
<1> DEFINE at == {i \in 1 .. Len(sched) : sched[i] = f}
<1>1. Cardinality(at) = IF InFifo(f) THEN 1 ELSE 0
  <2>1. CASE InFifo(f)
    <3>1. PICK i \in 1 .. Len(sched) : sched[i] = f
      BY <2>1 DEF InFifo
    <3>2. at = {i}
      BY <3>1 DEF Ring, Once
    <3> QED
      BY <2>1, <3>2, FS_Singleton, ZenonT(30)
  <2>2. CASE ~InFifo(f)
    <3>1. at = {}
      BY <2>2 DEF InFifo
    <3> QED
      BY <2>2, <3>1, FS_EmptySet
  <2> QED
    BY <2>1, <2>2
<1>2. Tokens(f) = Cardinality(at) + (IF rt = f THEN 1 ELSE 0)
                    + (IF InN(f) THEN 1 ELSE 0) + (IF InW(f) THEN 1 ELSE 0)
  BY DEF Tokens, InN, InW
<1>3. /\ f \in up <=> InFifo(f) \/ rt = f \/ InN(f) \/ InW(f)
      /\ InFifo(f) => rt # f /\ ~InN(f) /\ ~InW(f)
      /\ rt = f => ~InN(f) /\ ~InW(f)
      /\ InN(f) => ~InW(f)
  BY DEF Ring, Once
<1> QED
  BY <1>1, <1>2, <1>3

(* For every number of flows: a flow that is set up is in the scheduling     *)
(* FIFO or in one stage, and there once, although the FIFO has two write     *)
(* ports, takes one flow less than there are, and is read while it is        *)
(* written (protocol_logic_pipe.sv, fifo_2w.v).                              *)
THEOREM TokensConserved == Spec => []TokenConserved
<1>1. Ring => TokenConserved
  BY OneToken
<1> QED
  BY <1>1, RingInvariant, PTL

(* For every number of flows the FIFO of depth MAX_FLOW_CNT is deep enough,  *)
(* because RT holds a flow whenever the FIFO does (scheduling_fifos.sv).     *)
THEOREM FifoStaysBehindRT == Spec => []FifoBehindRT
<1>1. Ring => FifoBehindRT
  BY DEF Ring
<1> QED
  BY <1>1, RingInvariant, PTL

(* The retransmit flag RT passes on is the flag of the flow it holds, in     *)
(* every order of stalls (protocol_logic_pipe.sv, rt_timeout_flag_store.sv). *)
THEOREM FlagStaysForRT == Spec => []FlagIsForRT
<1>1. Ring => FlagIsForRT
  BY DEF Ring, FlagRead, FlagIsForRT
<1> QED
  BY <1>1, RingInvariant, PTL

(***************************************************************************)
(* The stream: positions of sequence numbers.                              *)
(***************************************************************************)
LEMMA PosType ==
    ASSUME NEW s \in Int
    PROVE  Pos(s) \in 0 .. SeqSpace - 1
<1>1. s - InitSeq \in Int /\ SeqSpace \in Nat \ {0}
  BY SendPipeAssumption, AckEnginesAssumption DEF SeqNums
<1> QED
  BY <1>1, ModType, ZenonT(30) DEF Pos

LEMMA PosInt == \A s \in Int : Pos(s) \in Int
<1>1. \A k \in 0 .. SeqSpace - 1 : k \in Int
  BY AckEnginesAssumption
<1> QED
  BY <1>1, PosType, ZenonT(30)

LEMMA PosCase ==
    ASSUME NEW s \in SeqNums
    PROVE  Pos(s) = IF s >= InitSeq THEN s - InitSeq ELSE s - InitSeq + SeqSpace
<1>1. /\ s \in 0 .. SeqSpace - 1 /\ InitSeq \in 0 .. SeqSpace - 1 /\ SeqSpace \in Nat \ {0}
      /\ s - InitSeq \in Int
  BY SendPipeAssumption, AckEnginesAssumption DEF SeqNums
<1>2. CASE s >= InitSeq
  <2>1. s - InitSeq \in 0 .. SeqSpace - 1
    BY <1>1, <1>2
  <2> QED
    BY <1>1, <1>2, <2>1, ModSmall, ZenonT(30) DEF Pos
<1>3. CASE ~(s >= InitSeq)
  <2>1. s - InitSeq \in -SeqSpace .. -1
    BY <1>1, <1>3
  <2>2. (s - InitSeq) % SeqSpace = (s - InitSeq) + SeqSpace
    BY <1>1, <2>1, ModSmall, ZenonT(30)
  <2> QED
    BY <1>3, <2>2 DEF Pos
<1> QED
  BY <1>2, <1>3

LEMMA PosAdd ==
    ASSUME NEW s \in Int, NEW len \in Int, Pos(s) + len \in 0 .. SeqSpace - 1
    PROVE  Pos((s + len) % SeqSpace) = Pos(s) + len
<1>1. InitSeq \in Int /\ SeqSpace \in Nat \ {0}
  BY SendPipeAssumption, AckEnginesAssumption DEF SeqNums
<1>2. s + len \in Int /\ -InitSeq \in Int /\ s - InitSeq \in Int
  BY <1>1
<1>3. (((s + len) % SeqSpace) + (-InitSeq)) % SeqSpace = ((s + len) + (-InitSeq)) % SeqSpace
  BY <1>1, <1>2, ModOfMod, ZenonT(30)
<1>4. (((s - InitSeq) % SeqSpace) + len) % SeqSpace = ((s - InitSeq) + len) % SeqSpace
  BY <1>1, <1>2, ModOfMod, ZenonT(30)
<1>5. (s + len) + (-InitSeq) = (s - InitSeq) + len
  BY <1>1
<1>6. (Pos(s) + len) % SeqSpace = Pos(s) + len
  <2>1. Pos(s) + len \in Int
    BY <1>1, PosType
  <2> QED
    BY <1>1, <2>1, ModSmall
<1>7. ((s + len) % SeqSpace) + (-InitSeq) = ((s + len) % SeqSpace) - InitSeq
  <2>1. (s + len) % SeqSpace \in Int
    BY <1>1, <1>2, ModType
  <2> QED
    BY <1>1, <2>1
<1>8. Pos((s + len) % SeqSpace) = (((s + len) % SeqSpace) + (-InitSeq)) % SeqSpace
  BY <1>7 DEF Pos
<1> QED
  BY <1>3, <1>4, <1>5, <1>6, <1>8 DEF Pos

LEMMA PosAt ==
    ASSUME NEW k \in 0 .. SeqSpace - 1
    PROVE  Pos((InitSeq + k) % SeqSpace) = k
<1>1. InitSeq \in Int /\ SeqSpace \in Nat \ {0} /\ InitSeq \in SeqNums
  BY SendPipeAssumption, AckEnginesAssumption DEF SeqNums
<1>2. Pos(InitSeq) = 0
  BY <1>1, PosCase
<1> QED
  BY <1>1, <1>2, PosAdd

LEMMA PosOf ==
    ASSUME NEW k \in 0 .. SeqSpace - 1, NEW a, a = (InitSeq + k) % SeqSpace
    PROVE  Pos(a) = k
  BY PosAt

(* A buffer pointer tells the position of its byte, modulo twice the buffer. *)
LEMMA PtrPos ==
    ASSUME NEW s \in SeqNums
    PROVE  PtrOf(s) = PtrOf(InitSeq + Pos(s))
<1>1. /\ InitSeq \in Int /\ SeqSpace \in Nat \ {0} /\ s \in Int /\ s \in 0 .. SeqSpace - 1
      /\ 2 * TxBuf \in Nat \ {0} /\ SeqSpace % (2 * TxBuf) = 0
  BY SendPipeAssumption, AckEnginesAssumption DEF SeqNums
<1>2. s - InitSeq \in Int /\ Pos(s) \in Int /\ InitSeq + Pos(s) \in Int
  BY <1>1, PosType
<1>3. (InitSeq + Pos(s)) % SeqSpace = s
  <2>1. (((s - InitSeq) % SeqSpace) + InitSeq) % SeqSpace = ((s - InitSeq) + InitSeq) % SeqSpace
    BY <1>1, <1>2, ModOfMod, ZenonT(30)
  <2>2. (s - InitSeq) + InitSeq = s /\ InitSeq + Pos(s) = Pos(s) + InitSeq
    BY <1>1, <1>2
  <2>3. s % SeqSpace = s
    BY <1>1, ModSmall
  <2> QED
    BY <2>1, <2>2, <2>3 DEF Pos
<1>4. ((InitSeq + Pos(s)) % SeqSpace) % (2 * TxBuf) = (InitSeq + Pos(s)) % (2 * TxBuf)
  BY <1>1, <1>2, ModNested, ZenonT(30)
<1> QED
  BY <1>3, <1>4 DEF PtrOf

(* A segment ends before the tail pointer it was cut with, however old that  *)
(* pointer is, as long as it is not behind the start of the segment.         *)
LEMMA SegFits ==
    ASSUME NEW s \in SeqNums, NEW t \in Nat, Pos(s) <= t
    PROVE  SegSize(PtrOf(s), PtrOf(InitSeq + t)) <= t - Pos(s)
<1> DEFINE m == 2 * TxBuf
           p == Pos(s)
           x == InitSeq + p
           y == InitSeq + t
<1>1. m \in Nat \ {0} /\ InitSeq \in Int /\ p \in Int
  BY SendPipeAssumption, AckEnginesAssumption, IntTypes, PosType
<1>2. x \in Int /\ y \in Int /\ t - p \in Nat /\ y - x = t - p
  BY <1>1
<1> HIDE DEF m, p, x, y
<1>3. ((y % m) - (x % m)) % m = (y - x) % m
  BY <1>1, <1>2, ModDiff, ZenonT(30)
<1>4. (y - x) % m <= t - p
  <2>1. ASSUME NEW d \in Nat PROVE d % m <= d
    BY <1>1, ModSmall
  <2> QED
    BY <1>2, <2>1
<1>5. PtrOf(s) = x % m /\ PtrOf(InitSeq + t) = y % m
  BY PtrPos DEF PtrOf, m, x, y, p
<1>6. x % m \in Int /\ y % m \in Int
  BY <1>1, <1>2, ModType
<1>7. SegSize(x % m, y % m) <= ((y % m) - (x % m)) % m
  <2>1. ASSUME NEW a \in Int, NEW b \in Int PROVE SegSize(a, b) <= (b - a) % m
    BY SegSizeBound DEF m
  <2> QED
    BY <1>6, <2>1
<1>8. SegSize(x % m, y % m) \in Int /\ (y - x) % m \in Int
  BY <1>1, <1>2, <1>6, SegSizeType, IntTypes, ModType, SMTT(30)
<1>9. SegSize(x % m, y % m) <= t - p
  BY <1>2, <1>3, <1>4, <1>7, <1>8, SMTT(30)
<1> QED
  BY <1>5, <1>9 DEF p

(***************************************************************************)
(* The stream: what is acknowledged, sent and written.                     *)
(***************************************************************************)
(* The memories are at most as far as what was sent, and that is not beyond  *)
(* what was written.                                                         *)
StreamOrder ==
    /\ \A f \in Flows : /\ sent[f] <= written[f]
                        /\ Pos(tx_ack[f]) <= sent[f] /\ Pos(tx_seq[f]) <= sent[f]
    /\ est # NONE => Pos(est.ack) <= sent[est.flow]

(* The copy N keeps while it stalls may be old, yet its tail pointer is not  *)
(* behind what was sent.                                                     *)
CopyInStream(s, f) ==
    /\ Pos(s.seq) <= sent[f] /\ Pos(s.ack) <= sent[f]
    /\ \E t \in 0 .. written[f] : sent[f] <= t /\ s.tail = PtrOf(InitSeq + t)

SegmentOK(s) ==
    /\ Pos(s.from) <= sent[s.flow]
    /\ Pos(s.from) + s.len <= written[s.flow]
    /\ Pos(s.seq) = Pos(s.from) + s.len
    /\ ~s.gen => s.len = 0

Stream ==
    /\ Ring /\ StreamOrder
    /\ n # NONE /\ n.data # NONE => CopyInStream(n.data, n.flow)
    /\ w # NONE => SegmentOK(w)

LEMMA StageTypes ==
    ASSUME TypeOK
    PROVE  /\ w # NONE => /\ w.flow \in Flows /\ w.from \in Int /\ w.seq \in Int
                          /\ w.len \in Int /\ w.len \in Nat
           /\ est # NONE => est.flow \in Flows /\ est.ack \in SeqNums /\ est.ack \in Int
           /\ n # NONE => n \in StageN /\ n.flow \in Flows
<1>1. w # NONE => w \in StageW
  BY ZenonT(30) DEF TypeOK
<1>2. est # NONE => est \in StageEst
  BY ZenonT(30) DEF TypeOK
<1>3. n # NONE => n \in StageN
  BY ZenonT(30) DEF TypeOK
<1>4. w # NONE => /\ w.flow \in Flows /\ w.from \in SeqNums /\ w.seq \in SeqNums
                  /\ w.len \in 0 .. MaxSeg
  BY <1>1, ZenonT(30) DEF StageW
<1>5. est # NONE => est.flow \in Flows /\ est.ack \in SeqNums
  BY <1>2, ZenonT(30) DEF StageEst
<1>6. n # NONE => n.flow \in Flows
  BY <1>3, ZenonT(30) DEF StageN
<1>7. 0 .. MaxSeg \subseteq Nat
  BY SendPipeAssumption
<1> QED
  BY <1>3, <1>4, <1>5, <1>6, <1>7, IntTypes, ZenonT(30)

LEMMA StreamTypes ==
    ASSUME TypeOK, NEW f \in Flows
    PROVE  /\ written[f] \in 0 .. SeqSpace - 2 /\ written[f] \in Int /\ sent[f] \in Int
           /\ Pos(tx_seq[f]) \in Int /\ Pos(tx_ack[f]) \in Int
           /\ SeqSpace \in Nat \ {0} /\ SeqNums \subseteq Int /\ InitSeq \in SeqNums
           /\ InitSeq \in Int /\ Pos(InitSeq) = 0
<1>1. load.bytes \in 0 .. SeqSpace - 2 /\ written[f] \in 0 .. load.bytes /\ sent[f] \in Nat
  BY LoadType DEF TypeOK
<1>2. SeqSpace \in Nat \ {0} /\ InitSeq \in SeqNums
  BY SendPipeAssumption, AckEnginesAssumption
<1>3. written[f] \in 0 .. SeqSpace - 2 /\ written[f] \in Int
  BY <1>1, <1>2
<1>4. tx_seq[f] \in Int /\ tx_ack[f] \in Int /\ InitSeq \in Int
  BY <1>2, IntTypes, ZenonT(30) DEF TypeOK
<1>5. Pos(tx_seq[f]) \in Int /\ Pos(tx_ack[f]) \in Int
  BY <1>2, <1>4, PosType
<1>6. Pos(InitSeq) = 0
  BY <1>2, <1>4, PosCase
<1> QED
  BY <1>1, <1>2, <1>3, <1>4, <1>5, <1>6, IntTypes, SMTT(30)

(* The state N works with: its copy or the memories, never the bypass of W,  *)
(* which holds another flow.                                                 *)
LEMMA ReadNInStream ==
    ASSUME Stream, n # NONE
    PROVE  n.flow \in Flows /\ StateN = ReadN /\ CopyInStream(ReadN, n.flow)
<1>1. n.flow \in Flows
  BY DEF Stream, Ring, TypeOK, StageN
<1>2. ~InW(n.flow)
  BY <1>1 DEF Stream, Ring, Once, InN
<1>3. StateN = ReadN
  BY <1>2, ZenonT(30) DEF StateN, InW
<1>4. CASE n.data # NONE
  BY <1>1, <1>3, <1>4, ZenonT(30) DEF ReadN, Stream
<1>5. CASE n.data = NONE
  <2>1. ReadN = [seq |-> tx_seq[n.flow], ack |-> tx_ack[n.flow],
                 armed |-> armed[n.flow], tail |-> PtrOf(InitSeq + written[n.flow])]
    BY <1>5, ZenonT(30) DEF ReadN, TailPtr
  <2>2. /\ sent[n.flow] <= written[n.flow]
        /\ Pos(tx_ack[n.flow]) <= sent[n.flow] /\ Pos(tx_seq[n.flow]) <= sent[n.flow]
    BY <1>1 DEF Stream, StreamOrder
  <2>3. written[n.flow] \in 0 .. written[n.flow]
    BY <1>1, StreamTypes, SMTT(30) DEF Stream, Ring
  <2> QED
    BY <1>1, <1>3, <2>1, <2>2, <2>3 DEF CopyInStream
<1> QED
  BY <1>4, <1>5

LEMMA NumberInStream ==
    ASSUME Stream, n # NONE, NEW exp \in BOOLEAN
    PROVE  SegmentOK(Number(exp)) /\ Number(exp).flow = n.flow
<1> DEFINE s == ReadN
           from == IF n.rt THEN s.ack ELSE s.seq
           len == SegSize(PtrOf(from), s.tail)
           gen == n.rt \/ exp \/ len # 0
<1>1. TypeOK /\ n.flow \in Flows /\ StateN = s /\ CopyInStream(s, n.flow)
  BY ReadNInStream DEF Stream, Ring
<1>2. s.seq \in SeqNums /\ s.ack \in SeqNums
  BY <1>1, ReadNType, ZenonT(30) DEF TxState
<1>3. /\ Number(exp).flow = n.flow /\ Number(exp).seq = (from + len) % SeqSpace
      /\ Number(exp).gen = gen /\ Number(exp).from = from /\ Number(exp).len = len
  BY <1>1, NumberFields, ZenonT(30)
<1>4. from \in SeqNums /\ Pos(from) <= sent[n.flow]
  BY <1>1, <1>2, ZenonT(30) DEF CopyInStream
<1>5. ~gen => len = 0
  OBVIOUS
<1>6. PICK t \in 0 .. written[n.flow] : sent[n.flow] <= t /\ s.tail = PtrOf(InitSeq + t)
  BY <1>1 DEF CopyInStream
<1> HIDE DEF s, from, gen
<1>7. t \in Nat /\ from \in Int /\ Pos(from) \in 0 .. SeqSpace - 1 /\ PtrOf(from) \in Int /\ s.tail \in Int
  <2>1. from \in Int /\ InitSeq + t \in Int /\ t \in Nat
    BY <1>1, <1>4, <1>6, StreamTypes
  <2> QED
    BY <1>6, <2>1, PosType, PtrWidth, IntTypes, ZenonT(30)
<1>8. Pos(from) <= t
  BY <1>1, <1>4, <1>6, <1>7, StreamTypes
<1>9. len <= t - Pos(from) /\ len \in 0 .. MaxSeg /\ len \in Int
  BY <1>4, <1>6, <1>7, <1>8, SegFits, SegSizeType, IntTypes, ZenonT(30)
<1> HIDE DEF len
<1>10. Pos(from) + len <= written[n.flow] /\ Pos(from) + len \in 0 .. SeqSpace - 1
  <2>1. written[n.flow] \in 0 .. SeqSpace - 2 /\ SeqSpace \in Nat
    BY <1>1, StreamTypes
  <2>2. len \in Nat
    BY <1>9, SendPipeAssumption
  <2> QED
    BY <1>6, <1>7, <1>8, <1>9, <2>1, <2>2, SMTT(30)
<1>11. Pos((from + len) % SeqSpace) = Pos(from) + len
  BY <1>7, <1>9, <1>10, PosAdd, ZenonT(30)
<1> QED
  BY <1>3, <1>4, <1>5, <1>10, <1>11, ZenonT(30) DEF SegmentOK

(* What a cycle does to the memories and the history of a flow.              *)
Leaves(f, nf, rdy) == InW(f) /\ ~stall_w(nf, rdy)

Remembers(f, nf, rdy, wf) ==
    /\ tx_seq'[f] = IF f = nf THEN InitSeq
                    ELSE IF Leaves(f, nf, rdy) THEN w.seq ELSE tx_seq[f]
    /\ tx_ack'[f] = IF f = nf THEN InitSeq
                    ELSE IF nf = NONE /\ est # NONE /\ est.flow = f THEN est.ack
                    ELSE tx_ack[f]
    /\ written'[f] = IF f = wf THEN written[f] + 1 ELSE written[f]
    /\ sent'[f] = IF Leaves(f, nf, rdy) /\ w.gen /\ Pos(w.from) + w.len > sent[f]
                  THEN Pos(w.from) + w.len ELSE sent[f]

LEMMA MemoryStep ==
    ASSUME TypeOK, NEW nf, NEW rdy, NEW exp, NEW hold, NEW af, NEW wf,
           InputsOK(nf, rdy, exp, hold, af, wf), Cycle(nf, rdy, exp, hold, af, wf),
           NEW f \in Flows
    PROVE  Remembers(f, nf, rdy, wf)
<1>1. tx_seq \in [Flows -> SeqNums] /\ tx_ack \in [Flows -> SeqNums]
      /\ written \in [Flows -> 0 .. load.bytes] /\ sent \in [Flows -> Nat]
  BY ZenonT(30) DEF TypeOK
<1>2. NONE \notin Flows
  BY SendPipeAssumption, ZenonT(30)
<1>3. (w # NONE => w.flow \in Flows) /\ (est # NONE => est.flow \in Flows)
  BY ZenonT(30) DEF TypeOK, StageW, StageEst
<1>4. tx_seq'[f] = IF f = nf THEN InitSeq
                   ELSE IF Leaves(f, nf, rdy) THEN w.seq ELSE tx_seq[f]
  <2>1. CASE nf # NONE
    <3>1. tx_seq' = [tx_seq EXCEPT ![nf] = InitSeq] /\ stall_w(nf, rdy)
      BY <2>1 DEF Cycle, WriteBack, stall_w
    <3> QED
      BY <1>1, <3>1, ZenonT(30) DEF Leaves
  <2>2. CASE nf = NONE /\ w # NONE /\ ~stall_w(nf, rdy)
    <3>1. tx_seq' = [tx_seq EXCEPT ![w.flow] = w.seq]
      BY <2>2, ZenonT(30) DEF Cycle, WriteBack
    <3> QED
      BY <1>1, <1>2, <2>2, <3>1, ZenonT(30) DEF Leaves, InW
  <2>3. CASE nf = NONE /\ ~(w # NONE /\ ~stall_w(nf, rdy))
    <3>1. tx_seq' = tx_seq
      BY <2>3, ZenonT(30) DEF Cycle, WriteBack
    <3> QED
      BY <1>2, <2>3, <3>1, ZenonT(30) DEF Leaves, InW
  <2> QED
    BY <2>1, <2>2, <2>3, ZenonT(30)
<1>5. tx_ack'[f] = IF f = nf THEN InitSeq
                   ELSE IF nf = NONE /\ est # NONE /\ est.flow = f THEN est.ack
                   ELSE tx_ack[f]
  <2>1. CASE nf # NONE
    <3>1. tx_ack' = [tx_ack EXCEPT ![nf] = InitSeq]
      BY <2>1 DEF Cycle, WriteAck
    <3> QED
      BY <1>1, <2>1, <3>1
  <2>2. CASE nf = NONE /\ est # NONE
    <3>1. tx_ack' = [tx_ack EXCEPT ![est.flow] = est.ack]
      BY <2>2, ZenonT(30) DEF Cycle, WriteAck
    <3> QED
      BY <1>1, <1>2, <2>2, <3>1, ZenonT(30)
  <2>3. CASE nf = NONE /\ est = NONE
    <3>1. tx_ack' = tx_ack
      BY <2>3 DEF Cycle, WriteAck
    <3> QED
      BY <1>2, <2>3, <3>1, ZenonT(30)
  <2> QED
    BY <2>1, <2>2, <2>3
<1>6. written'[f] = IF f = wf THEN written[f] + 1 ELSE written[f]
  <2>1. written' = IF wf = NONE THEN written ELSE [written EXCEPT ![wf] = @ + 1]
    BY ZenonT(30) DEF Cycle, AppWrite
  <2> QED
    BY <1>1, <1>2, <2>1, ZenonT(30)
<1>7. sent'[f] = IF Leaves(f, nf, rdy) /\ w.gen /\ Pos(w.from) + w.len > sent[f]
                 THEN Pos(w.from) + w.len ELSE sent[f]
  <2>1. CASE w = NONE \/ stall_w(nf, rdy) \/ ~w.gen
    <3>1. sent' = sent
      BY <2>1, ZenonT(30) DEF Cycle, Emitted
    <3> QED
      BY <2>1, <3>1, ZenonT(30) DEF Leaves, InW
  <2>2. CASE ~(w = NONE \/ stall_w(nf, rdy) \/ ~w.gen)
    <3>1. sent' = [sent EXCEPT ![w.flow] =
                     IF Pos(w.from) + w.len > @ THEN Pos(w.from) + w.len ELSE @]
      BY <2>2 DEF Cycle, Emitted
    <3>2. CASE f = w.flow
      BY <1>1, <2>2, <3>1, <3>2, ZenonT(30) DEF Leaves, InW
    <3>3. CASE f # w.flow
      BY <1>1, <3>1, <3>3, ZenonT(30) DEF Leaves, InW
    <3> QED
      BY <3>2, <3>3, ZenonT(30)
  <2> QED
    BY <2>1, <2>2, ZenonT(30)
<1> QED
  BY <1>4, <1>5, <1>6, <1>7, ZenonT(30) DEF Remembers

(* What was written and sent never goes back; it moves only when a segment   *)
(* of the flow leaves W, and then not beyond what is written.                *)
LEMMA SentStep ==
    ASSUME Stream, NEW nf, NEW rdy, NEW exp, NEW hold, NEW af, NEW wf,
           InputsOK(nf, rdy, exp, hold, af, wf), Cycle(nf, rdy, exp, hold, af, wf),
           NEW f \in Flows
    PROVE  /\ written'[f] \in Int /\ sent'[f] \in Int
           /\ written[f] <= written'[f] /\ sent[f] <= sent'[f] /\ sent'[f] <= written[f]
           /\ Leaves(f, nf, rdy) => Pos(w.seq) <= sent'[f]
           /\ ~Leaves(f, nf, rdy) => sent'[f] = sent[f]
<1>1. TypeOK
  BY ZenonT(30) DEF Stream, Ring
<1>2. written[f] \in Int /\ sent[f] \in Int /\ sent[f] <= written[f]
  BY <1>1, StreamTypes, ZenonT(30) DEF Stream, StreamOrder
<1>3. /\ written'[f] = IF f = wf THEN written[f] + 1 ELSE written[f]
      /\ sent'[f] = IF Leaves(f, nf, rdy) /\ w.gen /\ Pos(w.from) + w.len > sent[f]
                    THEN Pos(w.from) + w.len ELSE sent[f]
  <2>1. Remembers(f, nf, rdy, wf)
    BY <1>1, MemoryStep, ZenonT(30)
  <2> QED
    BY <2>1, ZenonT(30) DEF Remembers
<1>4. CASE ~Leaves(f, nf, rdy)
  BY <1>2, <1>3, <1>4, OneMore, ZenonT(30)
<1>5. CASE Leaves(f, nf, rdy)
  <2>1. w # NONE /\ w.flow = f /\ SegmentOK(w)
    BY <1>5, ZenonT(30) DEF Leaves, InW, Stream
  <2>2. w.from \in Int /\ w.len \in Int
    BY <1>1, <2>1, StageTypes, ZenonT(30)
  <2>3. Pos(w.from) \in Int
    BY <2>2, PosType, AckEnginesAssumption
  <2>4. /\ Pos(w.from) <= sent[f] /\ Pos(w.from) + w.len <= written[f]
        /\ Pos(w.seq) = Pos(w.from) + w.len /\ (~w.gen => w.len = 0)
    BY <2>1, ZenonT(30) DEF SegmentOK
  <2>5. written'[f] \in Int /\ written[f] <= written'[f]
    BY <1>2, <1>3, OneMore, ZenonT(30)
  <2> QED
    <3>1. sent'[f] = IF w.gen /\ Pos(w.from) + w.len > sent[f] THEN Pos(w.from) + w.len ELSE sent[f]
      BY <1>3, <1>5, ZenonT(30)
    <3>2. sent'[f] \in Int /\ sent[f] <= sent'[f] /\ sent'[f] <= written[f] /\ Pos(w.seq) <= sent'[f]
      <4>1. /\ Pos(w.from) + w.len \in Int /\ Pos(w.from) + w.len <= Pos(w.from) + w.len
            /\ Pos(w.from) + 0 = Pos(w.from) /\ sent[f] <= sent[f]
            /\ Pos(w.from) + w.len > sent[f] => sent[f] <= Pos(w.from) + w.len
            /\ ~(Pos(w.from) + w.len > sent[f]) => Pos(w.from) + w.len <= sent[f]
        BY <1>2, <2>2, <2>3, FurthestSent, LeqRefl, ZenonT(30)
      <4>2. CASE w.gen /\ Pos(w.from) + w.len > sent[f]
        BY <2>4, <3>1, <4>1, <4>2, ZenonT(30)
      <4>3. CASE ~(w.gen /\ Pos(w.from) + w.len > sent[f])
        <5>1. Pos(w.from) + w.len <= sent[f]
          BY <2>4, <4>1, <4>3, ZenonT(30)
        <5> QED
          BY <1>2, <2>4, <3>1, <4>1, <4>3, <5>1, ZenonT(30)
      <4> QED
        BY <4>2, <4>3, ZenonT(30)
    <3> QED
      BY <1>5, <2>5, <3>2, ZenonT(30)
<1> QED
  BY <1>4, <1>5, ZenonT(30)

LEMMA OrderStep ==
    ASSUME Stream, NEW nf, NEW rdy, NEW exp, NEW hold, NEW af, NEW wf,
           InputsOK(nf, rdy, exp, hold, af, wf), Cycle(nf, rdy, exp, hold, af, wf)
    PROVE  StreamOrder'
<1>1. TypeOK
  BY ZenonT(30) DEF Stream, Ring
<1>2. ASSUME NEW f \in Flows
      PROVE  /\ sent'[f] <= written'[f]
             /\ Pos(tx_ack'[f]) <= sent'[f] /\ Pos(tx_seq'[f]) <= sent'[f]
  <2>1. /\ written'[f] \in Int /\ sent'[f] \in Int /\ sent[f] \in Nat
        /\ written[f] <= written'[f] /\ sent[f] <= sent'[f] /\ sent'[f] <= written[f]
        /\ Leaves(f, nf, rdy) => Pos(w.seq) <= sent'[f]
    BY <1>1, SentStep, ZenonT(30) DEF TypeOK
  <2>2. /\ tx_seq'[f] = IF f = nf THEN InitSeq
                        ELSE IF Leaves(f, nf, rdy) THEN w.seq ELSE tx_seq[f]
        /\ tx_ack'[f] = IF f = nf THEN InitSeq
                        ELSE IF nf = NONE /\ est # NONE /\ est.flow = f THEN est.ack
                        ELSE tx_ack[f]
    <3>1. Remembers(f, nf, rdy, wf)
      BY <1>1, MemoryStep, ZenonT(30)
    <3> QED
      BY <3>1, ZenonT(30) DEF Remembers
  <2>3. /\ Pos(tx_ack[f]) <= sent[f] /\ Pos(tx_seq[f]) <= sent[f]
        /\ est # NONE /\ est.flow = f => Pos(est.ack) <= sent[f]
    BY ZenonT(30) DEF Stream, StreamOrder
  <2>4. /\ Pos(tx_ack[f]) \in Int /\ Pos(tx_seq[f]) \in Int /\ Pos(InitSeq) = 0
        /\ written[f] \in Int
    BY <1>1, StreamTypes
  <2>5. est # NONE => Pos(est.ack) \in Int
    <3>1. ASSUME est # NONE PROVE est.ack \in Int
      BY <1>1, <3>1, StageTypes, ZenonT(30)
    <3> QED
      BY <3>1, PosInt, ZenonT(30)
  <2>8. Pos(InitSeq) \in Int /\ Pos(InitSeq) <= sent[f] /\ sent[f] \in Int
    BY <2>1, <2>4, NatNotNegative, ZenonT(30)
  <2>6. Pos(tx_ack'[f]) <= sent'[f]
    <3>1. Pos(tx_ack'[f]) \in Int /\ Pos(tx_ack'[f]) <= sent[f]
      BY <2>2, <2>3, <2>4, <2>5, <2>8, ZenonT(30)
    <3> QED
      BY <2>1, <2>8, <3>1, LeqTrans, ZenonT(30)
  <2>7. Pos(tx_seq'[f]) <= sent'[f]
    <3>1. CASE f # nf /\ Leaves(f, nf, rdy)
      BY <2>1, <2>2, <3>1, ZenonT(30)
    <3>2. CASE f = nf \/ ~Leaves(f, nf, rdy)
      <4>1. Pos(tx_seq'[f]) \in Int /\ Pos(tx_seq'[f]) <= sent[f]
        BY <2>2, <2>3, <2>4, <2>8, <3>2, ZenonT(30)
      <4> QED
        BY <2>1, <2>8, <4>1, LeqTrans, ZenonT(30)
    <3> QED
      BY <3>1, <3>2, ZenonT(30)
  <2> QED
    BY <2>1, <2>4, <2>6, <2>7, LeqTrans, ZenonT(30)
<1>3. ASSUME est' # NONE PROVE Pos(est'.ack) <= sent'[est'.flow]
  <2>1. CASE stall_est(nf, hold)
    <3>1. est' = est /\ est # NONE
      BY <1>3, <2>1, ZenonT(30) DEF Cycle, NextEst
    <3>2. est.flow \in Flows /\ est.ack \in Int
      BY <1>1, <3>1, StageTypes, ZenonT(30)
    <3>3. Pos(est.ack) \in Int /\ Pos(est.ack) <= sent[est.flow]
      BY <3>1, <3>2, PosInt, ZenonT(30) DEF Stream, StreamOrder
    <3>4. sent[est.flow] <= sent'[est.flow] /\ sent'[est.flow] \in Int /\ sent[est.flow] \in Int
      BY <1>1, <3>2, SentStep, StreamTypes, ZenonT(30)
    <3> QED
      BY <3>1, <3>3, <3>4
  <2>2. CASE ~stall_est(nf, hold)
    <3>1. af # NONE
      BY <1>3, <2>2, ZenonT(30) DEF Cycle, NextEst
    <3>2. af \in Flows
      BY <1>1, <3>1, LoadType, ZenonT(30) DEF InputsOK
    <3>3. PICK a \in PeerAcks(af) : est' = ProcessAck(af, a)
      BY <2>2, <3>1, ZenonT(30) DEF Cycle, NextEst
    <3>4. est'.flow = af /\ (est'.ack = a \/ est'.ack = CurrAck(af))
      BY <3>3, ZenonT(30) DEF ProcessAck, TxNextAck
    <3>5. Pos(a) \in Int /\ Pos(a) <= sent[af]
      <4>1. PICK k \in 0 .. sent[af] : a = (InitSeq + k) % SeqSpace
        BY ZenonT(30) DEF PeerAcks
      <4>2. k \in 0 .. SeqSpace - 1 /\ k \in Int /\ k <= sent[af]
        <5>1. /\ sent[af] \in Int /\ written[af] \in 0 .. SeqSpace - 2 /\ SeqSpace \in Nat
            /\ sent[af] <= written[af]
          BY <1>1, <3>2, StreamTypes, ZenonT(30) DEF Stream, StreamOrder
        <5> QED
          BY <4>1, <5>1, InSeqSpace, ZenonT(30)
      <4>3. Pos(a) = k
        BY <4>1, <4>2, PosOf, ZenonT(30)
      <4> QED
        BY <4>2, <4>3, ZenonT(30)
    <3>6. Pos(CurrAck(af)) \in Int /\ Pos(CurrAck(af)) <= sent[af]
      <4>1. CurrAck(af) \in Int
        BY <1>1, <3>2, IntTypes, ZenonT(30) DEF CurrAck, TypeOK, StageEst
      <4>2. Pos(CurrAck(af)) <= sent[af]
        BY <3>2, ZenonT(30) DEF CurrAck, Stream, StreamOrder
      <4> QED
        BY <4>1, <4>2, PosInt, ZenonT(30)
    <3>7. sent[af] <= sent'[af] /\ sent'[af] \in Int /\ sent[af] \in Int
      BY <1>1, <3>2, SentStep, StreamTypes, ZenonT(30)
    <3>8. CASE est'.ack = a
      BY <3>4, <3>5, <3>7, <3>8, LeqTrans, ZenonT(30)
    <3>9. CASE est'.ack = CurrAck(af)
      BY <3>4, <3>6, <3>7, <3>9, LeqTrans, ZenonT(30)
    <3> QED
      BY <3>4, <3>8, <3>9
  <2> QED
    BY <2>1, <2>2, ZenonT(30)
<1> QED
  BY <1>2, <1>3 DEF StreamOrder

LEMMA CopyStep ==
    ASSUME Stream, NEW nf, NEW rdy, NEW exp, NEW hold, NEW af, NEW wf,
           InputsOK(nf, rdy, exp, hold, af, wf), Cycle(nf, rdy, exp, hold, af, wf),
           n' # NONE, n'.data # NONE
    PROVE  n # NONE /\ n' = [n EXCEPT !.data = ReadN] /\ CopyInStream(n.data, n.flow)'
<1>1. CASE stall_n(nf, rdy)
  <2>1. n # NONE /\ n' = [n EXCEPT !.data = ReadN]
    BY <1>1 DEF stall_n, Cycle, NextN
  <2>2. n \in StageN
    BY <2>1 DEF Stream, Ring, TypeOK
  <2>3. n'.flow = n.flow /\ n'.data = ReadN
    BY <2>1, <2>2 DEF StageN
  <2> DEFINE f == n.flow
  <2>4. f \in Flows /\ CopyInStream(ReadN, f)
    BY <2>1, ReadNInStream
  <2>5. ~Leaves(f, nf, rdy)
    BY <2>1, <2>4, ZenonT(30) DEF Stream, Ring, Once, InN, Leaves
  <2>6. sent'[f] = sent[f] /\ written[f] <= written'[f] /\ written[f] \in Int /\ written'[f] \in Int
    BY <2>4, <2>5, SentStep, StreamTypes, ZenonT(30) DEF Stream, Ring
  <2>7. PICK t \in 0 .. written[f] : sent[f] <= t /\ ReadN.tail = PtrOf(InitSeq + t)
    BY <2>4, ZenonT(30) DEF CopyInStream
  <2>8. t \in 0 .. written'[f]
    BY <2>6, <2>7, InRangeUp, ZenonT(30)
  <2>9. Pos(ReadN.seq) <= sent[f] /\ Pos(ReadN.ack) <= sent[f]
    BY <2>4, SMTT(30) DEF CopyInStream
  <2> HIDE DEF f
  <2>10. /\ Pos(n'.data.seq) <= sent'[n'.flow] /\ Pos(n'.data.ack) <= sent'[n'.flow]
         /\ sent'[n'.flow] <= t /\ n'.data.tail = PtrOf(InitSeq + t) /\ t \in 0 .. written'[n'.flow]
    BY <2>3, <2>6, <2>7, <2>8, <2>9, ZenonT(30) DEF f
  <2> QED
    BY <2>1, <2>10 DEF CopyInStream
<1>2. CASE ~stall_n(nf, rdy)
  BY <1>2, ZenonT(30) DEF Cycle, NextN
<1> QED
  BY <1>1, <1>2

LEMMA SegmentStep ==
    ASSUME Stream, NEW nf, NEW rdy, NEW exp, NEW hold, NEW af, NEW wf,
           InputsOK(nf, rdy, exp, hold, af, wf), Cycle(nf, rdy, exp, hold, af, wf),
           w' # NONE
    PROVE  SegmentOK(w)'
<1>1. TypeOK /\ TypeOK'
  BY CycleType, ZenonT(30) DEF Stream, Ring
<1>2. SegmentOK(w') /\ w'.flow \in Flows
  <2>1. CASE stall_w(nf, rdy)
    <3>1. w' = w
      BY <2>1, ZenonT(30) DEF Cycle, NextW
    <3> QED
      BY <1>1, <3>1, ZenonT(30) DEF Stream, TypeOK, StageW
  <2>2. CASE ~stall_w(nf, rdy)
    <3>1. n # NONE /\ w' = Number(exp)
      BY <2>2, ZenonT(30) DEF Cycle, NextW
    <3> QED
      BY <3>1, NumberInStream, ReadNInStream, ZenonT(30) DEF InputsOK
  <2> QED
    BY <2>1, <2>2, ZenonT(30)
<1> DEFINE f == w'.flow
<1>3. /\ sent[f] <= sent'[f] /\ written[f] <= written'[f] /\ sent[f] \in Int /\ written[f] \in Int
      /\ sent'[f] \in Int /\ written'[f] \in Int
  BY <1>1, <1>2, SentStep, StreamTypes, ZenonT(30)
<1>4. w'.from \in Int /\ w'.len \in Int
  BY <1>1, IntTypes, ZenonT(30) DEF TypeOK, StageW
<1>5. Pos(w'.from) \in Int
  BY <1>4, PosInt, ZenonT(30)
<1> QED
  <2>1. /\ Pos(w'.from) <= sent[f] /\ Pos(w'.from) + w'.len <= written[f]
        /\ Pos(w'.seq) = Pos(w'.from) + w'.len /\ (~w'.gen => w'.len = 0)
    BY <1>2, ZenonT(30) DEF SegmentOK
  <2>2. Pos(w'.from) + w'.len \in Int
    BY <1>3, <1>4, <1>5, FurthestSent, ZenonT(30)
  <2>3. Pos(w'.from) <= sent'[f] /\ Pos(w'.from) + w'.len <= written'[f]
    BY <1>3, <1>5, <2>1, <2>2, LeqTrans, ZenonT(30)
  <2> QED
    BY <2>1, <2>3, ZenonT(30) DEF SegmentOK

LEMMA InitStream ==
    ASSUME Init
    PROVE  Stream
<1>1. Ring
  BY InitRing, ZenonT(30)
<1>2. ASSUME NEW f \in Flows
      PROVE  /\ sent[f] <= written[f] /\ Pos(tx_ack[f]) <= sent[f] /\ Pos(tx_seq[f]) <= sent[f]
  <2>1. sent[f] = 0 /\ written[f] = 0 /\ tx_seq[f] = InitSeq /\ tx_ack[f] = InitSeq
    BY DEF Init
  <2>2. Pos(InitSeq) = 0
    BY <1>1, StreamTypes, ZenonT(30) DEF Ring
  <2> QED
    BY <2>1, <2>2
<1> QED
  BY <1>1, <1>2 DEF Stream, StreamOrder, Init

LEMMA StutterStream ==
    ASSUME Stream, UNCHANGED vars
    PROVE  Stream'
<1>1. Ring'
  BY StutterRing, ZenonT(30) DEF Stream
<1>2. StreamOrder'
  BY ZenonT(30) DEF Stream, StreamOrder, vars
<1>3. n' # NONE /\ n'.data # NONE => CopyInStream(n.data, n.flow)'
  BY ZenonT(30) DEF Stream, CopyInStream, vars
<1>4. w' # NONE => SegmentOK(w)'
  BY DEF Stream, SegmentOK, vars
<1> QED
  BY <1>1, <1>2, <1>3, <1>4, ZenonT(30) DEF Stream

(* The inductive invariant of the stream: sequence and ACK numbers, in the   *)
(* memories, in N's old copy and in W, are positions of bytes that exist     *)
(* (protocol_logic_pipe.sv, tx_state_store.sv, est_pipe.sv).                 *)
THEOREM StreamInvariant == Spec => []Stream
<1>1. Init => Stream
  BY InitStream
<1>2. ASSUME Stream, [Next]_vars PROVE Stream'
  <2>1. CASE Next
    <3>1. PICK nf, rdy, exp, hold, af, wf : /\ InputsOK(nf, rdy, exp, hold, af, wf)
                                            /\ Cycle(nf, rdy, exp, hold, af, wf)
      BY <2>1, NextCycle
    <3>2. Ring'
      BY <1>2, NextRing DEF Stream
    <3>3. StreamOrder'
      BY <1>2, <3>1, OrderStep
    <3>4. n' # NONE /\ n'.data # NONE => CopyInStream(n.data, n.flow)'
      BY <1>2, <3>1, CopyStep
    <3>5. w' # NONE => SegmentOK(w)'
      BY <1>2, <3>1, SegmentStep
    <3> QED
      BY <3>2, <3>3, <3>4, <3>5 DEF Stream
  <2>2. CASE UNCHANGED vars
    BY <1>2, <2>2, StutterStream, ZenonT(30)
  <2> QED
    BY <1>2, <2>1, <2>2, ZenonT(30)
<1> QED
  BY <1>1, <1>2, PTL DEF Spec

(* For every size of buffer, segment and sequence number: a segment starts   *)
(* at or before the end of what was sent and ends before the end of what was *)
(* written, although N numbers it with a tail pointer and a state that may   *)
(* be old by the time it leaves (protocol_logic_pipe.sv).                    *)
THEOREM SegmentsInStream == Spec => []SegmentInStream
<1>1. Stream => SegmentInStream
  BY DEF Stream, SegmentOK, SegmentInStream
<1> QED
  BY <1>1, StreamInvariant, PTL

(***************************************************************************)
(* Without duplicate ACKs.                                                 *)
(***************************************************************************)
(* No retransmission is asked for, the sequence number is the end of what    *)
(* was sent, and est_pipe does not take the ACK number back.                 *)
Forward ==
    /\ flags = {} /\ saved # TRUE /\ (n # NONE => ~n.rt)
    /\ \A f \in Flows : Pos(tx_seq[f]) = sent[f] /\ (f \notin up => sent[f] = 0)
    /\ n # NONE /\ n.data # NONE => n.data.seq = tx_seq[n.flow]
    /\ w # NONE => Pos(w.from) = sent[w.flow]
    /\ est # NONE => ~est.rt /\ Pos(tx_ack[est.flow]) <= Pos(est.ack)

(* tx_ack_engine takes no ACK that is behind the current one, given one that *)
(* is not beyond the sequence number.                                        *)
LEMMA AckForward ==
    ASSUME NEW curr \in SeqNums, NEW a \in SeqNums, NEW s \in SeqNums,
           Pos(curr) <= Pos(s), Pos(a) <= Pos(s), Pos(s) <= SeqSpace - 2
    PROVE  Pos(curr) <= Pos(TxNextAck(curr, a, s))
<1>1. /\ Pos(curr) = IF curr >= InitSeq THEN curr - InitSeq ELSE curr - InitSeq + SeqSpace
      /\ Pos(a) = IF a >= InitSeq THEN a - InitSeq ELSE a - InitSeq + SeqSpace
      /\ Pos(s) = IF s >= InitSeq THEN s - InitSeq ELSE s - InitSeq + SeqSpace
  BY PosCase
<1>2. SeqSpace \in Nat \ {0} /\ InitSeq \in 0 .. SeqSpace - 1
  BY SendPipeAssumption, AckEnginesAssumption DEF SeqNums
<1>3. CASE ~TxAckValid(curr, a, s)
  <2>1. TxNextAck(curr, a, s) = curr
    BY <1>3 DEF TxNextAck
  <2> QED
    BY <1>1, <1>2, <2>1 DEF SeqNums
<1>4. CASE TxAckValid(curr, a, s)
  <2>1. TxNextAck(curr, a, s) = a
    BY <1>4 DEF TxNextAck
  <2>2. Pos(curr) <= Pos(a)
    BY <1>1, <1>2, <1>4, SMTT(30) DEF TxAckValid, DataUnacked, PlusOne, SeqNums
  <2> QED
    BY <2>1, <2>2
<1> QED
  BY <1>3, <1>4

(* No flag is set, saved or passed on.                                       *)
LEMMA NoFlagStep ==
    ASSUME Stream, Forward, NEW nf, NEW rdy, NEW exp, NEW hold, NEW af, NEW wf,
           InputsOK(nf, rdy, exp, hold, af, wf), Cycle(nf, rdy, exp, hold, af, wf)
    PROVE  flags' = {} /\ saved' # TRUE /\ (n' # NONE => ~n'.rt)
<1>1. flags = {} /\ saved # TRUE /\ (n # NONE => ~n.rt) /\ (est # NONE => ~est.rt)
  BY ZenonT(30) DEF Forward
<1>2. flags' = {}
  BY <1>1 DEF Cycle, NextFlags
<1>3. saved' # TRUE
  <2>1. NONE # TRUE
    BY SendPipeAssumption, ZenonT(30)
  <2>2. ~(flag_rd \in flags)
    BY <1>1
  <2>3. saved' = NONE \/ saved' = saved \/ saved' = (flag_rd \in flags)
    BY DEF Cycle, NextRT
  <2>4. (flag_rd \in flags) = FALSE
    BY <2>2
  <2>5. saved' = NONE \/ saved' = saved \/ saved' = FALSE
    BY <2>3, <2>4, ZenonT(30)
  <2> QED
    BY <1>1, <2>1, <2>5, ZenonT(30)
<1>4. ASSUME n' # NONE PROVE ~n'.rt
  <2>1. CASE stall_n(nf, rdy)
    <3>1. n # NONE /\ n' = [n EXCEPT !.data = ReadN]
      BY <2>1 DEF stall_n, Cycle, NextN
    <3>2. n'.rt = n.rt
      BY <3>1 DEF Stream, Ring, TypeOK, StageN
    <3> QED
      BY <1>1, <3>1, <3>2
  <2>2. CASE ~stall_n(nf, rdy)
    <3>1. n' = [flow |-> rt, rt |-> FlagRT, data |-> NONE]
      BY <1>4, <2>2 DEF Cycle, NextN
    <3>2. ~FlagRT
      <4>1. CASE saved = NONE
        BY <1>1, <4>1 DEF FlagRT
      <4>2. CASE saved # NONE
        <5>1. saved = FALSE
          BY <1>1, <4>2, ZenonT(30) DEF Stream, Ring, TypeOK
        <5> QED
          BY <4>2, <5>1, ZenonT(30) DEF FlagRT
      <4> QED
        BY <4>1, <4>2
    <3> QED
      BY <3>1, <3>2
  <2> QED
    BY <2>1, <2>2
<1> QED
  BY <1>2, <1>3, <1>4, ZenonT(30)

LEMMA ForwardSeqStep ==
    ASSUME Stream, Forward, NEW nf, NEW rdy, NEW exp, NEW hold, NEW af, NEW wf,
           InputsOK(nf, rdy, exp, hold, af, wf), Cycle(nf, rdy, exp, hold, af, wf),
           NEW f \in Flows
    PROVE  Pos(tx_seq'[f]) = sent'[f] /\ (f \notin up' => sent'[f] = 0)
<1>1. TypeOK /\ Pos(tx_seq[f]) = sent[f] /\ (f \notin up => sent[f] = 0)
  BY ZenonT(30) DEF Stream, Ring, Forward
<1>2. /\ tx_seq'[f] = IF f = nf THEN InitSeq
                      ELSE IF Leaves(f, nf, rdy) THEN w.seq ELSE tx_seq[f]
      /\ sent'[f] = IF Leaves(f, nf, rdy) /\ w.gen /\ Pos(w.from) + w.len > sent[f]
                    THEN Pos(w.from) + w.len ELSE sent[f]
  <2>1. Remembers(f, nf, rdy, wf)
    BY <1>1, MemoryStep, ZenonT(30)
  <2> QED
    BY <2>1, ZenonT(30) DEF Remembers
<1>3. sent[f] \in Int /\ Pos(InitSeq) = 0
  BY <1>1, StreamTypes
<1>4. CASE f = nf
  <2>1. f \notin up /\ f # NONE
    BY <1>4, SendPipeAssumption, ZenonT(30) DEF InputsOK
  <2>2. ~Leaves(f, nf, rdy) /\ f \in up'
    BY <1>4, <2>1, ZenonT(30) DEF Leaves, stall_w, Cycle
  <2> QED
    BY <1>1, <1>2, <1>3, <1>4, <2>1, <2>2, ZenonT(30)
<1>5. CASE f # nf /\ Leaves(f, nf, rdy)
  <2>1. w # NONE /\ w.flow = f /\ SegmentOK(w) /\ Pos(w.from) = sent[f]
    BY <1>5, ZenonT(30) DEF Leaves, InW, Stream, Forward
  <2>2. w.len \in Nat
    BY <1>1, <2>1, StageTypes, ZenonT(30)
  <2>3. f \in up /\ up \subseteq up'
    BY <1>5, ZenonT(30) DEF Leaves, Stream, Ring, Once, Cycle
  <2>4. Pos(w.seq) = sent[f] + w.len /\ (~w.gen => w.len = 0)
    BY <2>1, ZenonT(30) DEF SegmentOK
  <2>5. sent'[f] = sent[f] + w.len
    <3>1. sent[f] + w.len = sent[f] \/ sent[f] + w.len > sent[f]
      BY <1>3, <2>2, NotLess, ZenonT(30)
    <3>2. sent[f] + 0 = sent[f]
      BY <1>3, FurthestSent, ZenonT(30)
    <3> QED
      BY <1>2, <1>5, <2>1, <2>4, <3>1, <3>2, ZenonT(30)
  <2> QED
    BY <1>2, <1>5, <2>3, <2>4, <2>5, ZenonT(30)
<1>6. CASE f # nf /\ ~Leaves(f, nf, rdy)
  BY <1>1, <1>2, <1>6, ZenonT(30) DEF Cycle
<1> QED
  BY <1>4, <1>5, <1>6, ZenonT(30)

(* The flow in N is set up and not in W.                                     *)
LEMMA FlowOfN ==
    ASSUME Stream, n # NONE, NEW nf, NEW rdy, nf \in (load.flows \ up) \cup {NONE}
    PROVE  n.flow \in Flows /\ n.flow # nf /\ ~Leaves(n.flow, nf, rdy)
<1>1. n.flow \in Flows
  BY ReadNInStream, ZenonT(30)
<1> QED
  BY <1>1, SendPipeAssumption, ZenonT(30) DEF Stream, Ring, Once, InN, Leaves

LEMMA ForwardCopyStep ==
    ASSUME Stream, Forward, NEW nf, NEW rdy, NEW exp, NEW hold, NEW af, NEW wf,
           InputsOK(nf, rdy, exp, hold, af, wf), Cycle(nf, rdy, exp, hold, af, wf)
    PROVE  /\ n' # NONE /\ n'.data # NONE => n'.data.seq = tx_seq'[n'.flow]
           /\ w' # NONE => Pos(w'.from) = sent'[w'.flow]
<1>1. TypeOK
  BY ZenonT(30) DEF Stream, Ring
<1>2. ASSUME n # NONE
      PROVE  /\ ReadN.seq = tx_seq[n.flow] /\ tx_seq'[n.flow] = tx_seq[n.flow]
             /\ n.flow \in Flows /\ sent'[n.flow] = sent[n.flow]
  <2>1. n.flow \in Flows /\ n.flow # nf /\ ~Leaves(n.flow, nf, rdy)
    BY <1>2, FlowOfN, ZenonT(30) DEF InputsOK
  <2>2. ReadN.seq = tx_seq[n.flow]
    BY <1>2 DEF ReadN, Forward
  <2>3. Remembers(n.flow, nf, rdy, wf)
    BY <1>1, <2>1, MemoryStep, ZenonT(30)
  <2> QED
    BY <2>1, <2>2, <2>3, ZenonT(30) DEF Remembers
<1>3. ASSUME n' # NONE, n'.data # NONE PROVE n'.data.seq = tx_seq'[n'.flow]
  <2>1. n # NONE /\ n' = [n EXCEPT !.data = ReadN]
    BY <1>3, CopyStep
  <2>2. n'.flow = n.flow /\ n'.data = ReadN
    BY <1>1, <2>1, StageTypes, ZenonT(30) DEF StageN
  <2> QED
    BY <1>2, <2>1, <2>2
<1>4. ASSUME w' # NONE PROVE Pos(w'.from) = sent'[w'.flow]
  <2>1. CASE stall_w(nf, rdy)
    <3>1. w' = w
      BY <2>1, ZenonT(30) DEF Cycle, NextW
    <3>2. w.flow \in Flows /\ ~Leaves(w.flow, nf, rdy)
      BY <1>1, <1>4, <2>1, <3>1, StageTypes, ZenonT(30) DEF Leaves
    <3>3. sent'[w.flow] = sent[w.flow]
      <4>1. Remembers(w.flow, nf, rdy, wf)
        BY <1>1, <3>2, MemoryStep, ZenonT(30)
      <4> QED
        BY <3>2, <4>1, ZenonT(30) DEF Remembers
    <3> QED
      BY <1>4, <3>1, <3>3, ZenonT(30) DEF Forward
  <2>2. CASE ~stall_w(nf, rdy)
    <3>1. n # NONE /\ w' = Number(exp)
      BY <1>4, <2>2, ZenonT(30) DEF Cycle, NextW
    <3>2. StateN = ReadN /\ ~n.rt
      BY <3>1, ReadNInStream, ZenonT(30) DEF Forward
    <3>3. w'.from = ReadN.seq /\ w'.flow = n.flow
      BY <3>1, <3>2, ZenonT(30) DEF Number
    <3>4. Pos(tx_seq[n.flow]) = sent[n.flow]
      BY <1>2, <3>1, ZenonT(30) DEF Forward
    <3> QED
      BY <1>2, <3>1, <3>3, <3>4
  <2> QED
    BY <2>1, <2>2, ZenonT(30)
<1> QED
  BY <1>3, <1>4, ZenonT(30)

(* est_pipe: the ACK number it is about to write is not behind.              *)
LEMMA ForwardEstStep ==
    ASSUME Stream, Forward, ~load.dup, NEW nf, NEW rdy, NEW exp, NEW hold, NEW af, NEW wf,
           InputsOK(nf, rdy, exp, hold, af, wf), Cycle(nf, rdy, exp, hold, af, wf),
           est' # NONE
    PROVE  ~est'.rt /\ Pos(tx_ack'[est'.flow]) <= Pos(est'.ack)
<1>1. TypeOK
  BY ZenonT(30) DEF Stream, Ring
<1>2. CASE stall_est(nf, hold)
  <2>1. est' = est /\ est # NONE
    BY <1>2, ZenonT(30) DEF Cycle, NextEst
  <2>2. est.flow \in Flows /\ est.flow \in up /\ est.ack \in Int
    BY <1>1, <2>1, IntTypes, ZenonT(30) DEF TypeOK, StageEst
  <2>3. est.flow # nf
    BY <2>2, SendPipeAssumption DEF InputsOK
  <2>4. tx_ack'[est.flow] = est.ack \/ tx_ack'[est.flow] = tx_ack[est.flow]
    <3>1. Remembers(est.flow, nf, rdy, wf)
      BY <1>1, <2>2, MemoryStep, ZenonT(30)
    <3> QED
      BY <2>3, <3>1, ZenonT(30) DEF Remembers
  <2>5. ~est.rt /\ Pos(tx_ack[est.flow]) <= Pos(est.ack)
    BY <2>1, ZenonT(30) DEF Forward
  <2>6. Pos(est.ack) \in Int
    BY <2>2, PosInt, ZenonT(30)
  <2>7. Pos(tx_ack'[est.flow]) <= Pos(est.ack)
    BY <2>4, <2>5, <2>6, LeqRefl, ZenonT(30)
  <2> QED
    BY <2>1, <2>5, <2>7
<1>3. CASE ~stall_est(nf, hold)
  <2>1. af # NONE /\ nf = NONE
    BY <1>3, ZenonT(30) DEF Cycle, NextEst, stall_est
  <2>2. af \in Flows
    BY <1>1, <2>1, LoadType, ZenonT(30) DEF InputsOK
  <2>3. PICK a \in PeerAcks(af) : est' = ProcessAck(af, a)
    BY <1>3, <2>1, ZenonT(30) DEF Cycle, NextEst
  <2> DEFINE curr == CurrAck(af)
             s == tx_seq[af]
  <2>4. a \in SeqNums /\ a # curr
    BY <1>1, <2>2, <2>3, PeerAcksType, ZenonT(30) DEF PeerAcks
  <2>5. curr \in SeqNums /\ s \in SeqNums /\ CurrCnt(af) \in 0 .. RT_ACK_THRESHOLD - 1
    BY <1>1, <2>2, ZenonT(30) DEF CurrAck, CurrCnt, TypeOK, StageEst
  <2>6. /\ est'.flow = af /\ est'.ack = TxNextAck(curr, a, s)
        /\ est'.rt = SetRtFlag(curr, a, s, CurrCnt(af))
    BY <2>3, ZenonT(30) DEF ProcessAck
  <2>7. ~SetRtFlag(curr, a, s, CurrCnt(af))
    BY <2>4, <2>5, NewAckNoFlag, ZenonT(30)
  <2>8. tx_ack'[af] = curr
    <3>1. Remembers(af, nf, rdy, wf) /\ af # nf
      BY <1>1, <2>1, <2>2, MemoryStep, ZenonT(30)
    <3> QED
      BY <2>1, <3>1, ZenonT(30) DEF Remembers, CurrAck
  <2>9. /\ Pos(curr) <= Pos(s) /\ Pos(a) <= Pos(s) /\ Pos(s) <= SeqSpace - 2
    <3>1. Pos(s) = sent[af]
      BY <2>2, ZenonT(30) DEF Forward
    <3>2. Pos(curr) <= sent[af]
      BY <2>2, ZenonT(30) DEF CurrAck, Stream, StreamOrder
    <3>3. sent[af] <= written[af] /\ written[af] \in 0 .. SeqSpace - 2
          /\ sent[af] \in Int /\ SeqSpace \in Nat
      BY <1>1, <2>2, StreamTypes, ZenonT(30) DEF Stream, StreamOrder, TypeOK
    <3>4. PICK k \in 0 .. sent[af] : a = (InitSeq + k) % SeqSpace
      BY ZenonT(30) DEF PeerAcks
    <3>5. k \in 0 .. SeqSpace - 1 /\ k <= sent[af] /\ sent[af] <= SeqSpace - 2
      BY <3>3, <3>4, InSeqSpace, ZenonT(30)
    <3>6. Pos(a) = k
      BY <3>4, <3>5, PosOf, ZenonT(30)
    <3> QED
      BY <3>1, <3>2, <3>5, <3>6, ZenonT(30)
  <2> HIDE DEF curr, s
  <2>10. Pos(curr) <= Pos(TxNextAck(curr, a, s))
    BY <2>4, <2>5, <2>9, AckForward, ZenonT(30)
  <2> QED
    BY <2>6, <2>7, <2>8, <2>10, ZenonT(30)
<1> QED
  BY <1>2, <1>3, ZenonT(30)

LEMMA ForwardStep ==
    ASSUME Stream, ~load.dup => Forward, [Next]_vars
    PROVE  (~load.dup => Forward)'
<1>1. CASE Next
  <2>1. PICK nf, rdy, exp, hold, af, wf : /\ InputsOK(nf, rdy, exp, hold, af, wf)
                                          /\ Cycle(nf, rdy, exp, hold, af, wf)
    BY <1>1, NextCycle
  <2>2. load' = load
    BY <2>1 DEF Cycle
  <2>3. SUFFICES ASSUME ~load.dup PROVE Forward'
    BY <2>2
  <2>4. Forward
    BY <2>3, ZenonT(30)
  <2>5. flags' = {} /\ saved' # TRUE /\ (n' # NONE => ~n'.rt)
    BY <2>1, <2>4, NoFlagStep, ZenonT(30)
  <2>6. \A f \in Flows : Pos(tx_seq'[f]) = sent'[f] /\ (f \notin up' => sent'[f] = 0)
    BY <2>1, <2>4, ForwardSeqStep
  <2>7. /\ n' # NONE /\ n'.data # NONE => n'.data.seq = tx_seq'[n'.flow]
        /\ w' # NONE => Pos(w'.from) = sent'[w'.flow]
    BY <2>1, <2>4, ForwardCopyStep, ZenonT(30)
  <2>8. est' # NONE => ~est'.rt /\ Pos(tx_ack'[est'.flow]) <= Pos(est'.ack)
    BY <2>1, <2>3, <2>4, ForwardEstStep, ZenonT(30)
  <2> QED
    BY <2>5, <2>6, <2>7, <2>8, ZenonT(30) DEF Forward
<1>2. CASE UNCHANGED vars
  BY <1>2, ZenonT(30) DEF Forward, vars
<1> QED
  BY <1>1, <1>2, ZenonT(30)

LEMMA ForwardInvariant == Spec => [](~load.dup => Forward)
<1>1. Init => Forward
  <2> SUFFICES ASSUME Init PROVE Forward
    OBVIOUS
  <2>1. \A f \in Flows : Pos(InitSeq) = 0
    BY InitRing, StreamTypes, ZenonT(30) DEF Ring
  <2>2. NONE # TRUE
    BY SendPipeAssumption, ZenonT(30)
  <2> QED
    BY <2>1, <2>2, ZenonT(30) DEF Init, Forward
<1>2. Stream /\ (~load.dup => Forward) /\ [Next]_vars => (~load.dup => Forward)'
  BY ForwardStep
<1> QED
  BY <1>1, <1>2, StreamInvariant, PTL DEF Spec

(* When the peer repeats no ACK, the next byte to send stays between the     *)
(* first unacknowledged byte and the end of the data, in every interleaving  *)
(* of the two pipelines (protocol_logic_pipe.sv, est_pipe.sv).               *)
THEOREM SeqBetweenWithoutLoss == Spec => []SeqBetweenNoLoss
<1>1. Stream /\ (~load.dup => Forward) => SeqBetweenNoLoss
  <2> SUFFICES ASSUME Stream, Forward, NEW f \in Flows
               PROVE  Pos(tx_ack[f]) <= Pos(tx_seq[f]) /\ Pos(tx_seq[f]) <= written[f]
    BY DEF SeqBetweenNoLoss, SeqBetween
  <2> QED
    BY ZenonT(30) DEF Stream, StreamOrder, Forward
<1> QED
  BY <1>1, StreamInvariant, ForwardInvariant, PTL

(* Nor does the ACK number of a flow go back then, whatever order old ACKs   *)
(* arrive in (tx_ack_engine.sv, est_pipe.sv).                                *)
THEOREM AckNeverBack == Spec => AckMonotone
<1>1. ASSUME Stream, ~load.dup => Forward, [Next]_vars
      PROVE  [~load.dup => \A f \in Flows : Pos(tx_ack'[f]) >= Pos(tx_ack[f])]_vars
  <2> SUFFICES ASSUME Forward, Next, NEW f \in Flows
               PROVE  Pos(tx_ack'[f]) >= Pos(tx_ack[f])
    BY <1>1, ZenonT(30)
  <2>1. PICK nf, rdy, exp, hold, af, wf : /\ InputsOK(nf, rdy, exp, hold, af, wf)
                                          /\ Cycle(nf, rdy, exp, hold, af, wf)
    BY NextCycle
  <2>2. TypeOK
    BY <1>1, ZenonT(30) DEF Stream, Ring
  <2>3. tx_ack'[f] = IF f = nf THEN InitSeq
                     ELSE IF nf = NONE /\ est # NONE /\ est.flow = f THEN est.ack
                     ELSE tx_ack[f]
    <3>1. Remembers(f, nf, rdy, wf)
      BY <2>1, <2>2, MemoryStep, ZenonT(30)
    <3> QED
      BY <3>1, ZenonT(30) DEF Remembers
  <2>4. Pos(tx_ack[f]) \in Int /\ Pos(InitSeq) = 0
    BY <2>2, StreamTypes
  <2>5. f = nf => Pos(tx_ack[f]) <= 0
    <3>1. f = nf => f \notin up
      BY <2>1, SendPipeAssumption, ZenonT(30) DEF InputsOK
    <3> QED
      BY <1>1, <3>1, ZenonT(30) DEF Forward, Stream, StreamOrder
  <2>6. est # NONE /\ est.flow = f => Pos(tx_ack[f]) <= Pos(est.ack) /\ Pos(est.ack) \in Int
    <3>1. est # NONE => est.ack \in Int
      BY <2>2, IntTypes, ZenonT(30) DEF TypeOK, StageEst
    <3> QED
      BY <3>1, PosInt, ZenonT(30) DEF Forward
  <2> QED
    BY <2>3, <2>4, <2>5, <2>6, LeqRefl, ZenonT(30)
<1> QED
  BY <1>1, StreamInvariant, ForwardInvariant, PTL DEF Spec, AckMonotone
=============================================================================
