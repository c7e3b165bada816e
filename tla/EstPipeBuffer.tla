---------------------------- MODULE EstPipeBuffer ----------------------------
(***************************************************************************)
(* The receive buffers of the established pipe: its pointers keep up with  *)
(* the ACK numbers and never overrun a buffer, for every set of flows,     *)
(* size of buffer and load.                                                *)
(***************************************************************************)
EXTENDS EstPipeProofs

(***************************************************************************)
(* The ACK number and the commit pointer.                                  *)
(***************************************************************************)
LEMMA Width ==
    /\ 2 * BufSize \in Nat \ {0} /\ SeqSpace \in Nat \ {0} /\ SeqSpace % (2 * BufSize) = 0
  BY EstPipeAssumption, AckEnginesAssumption

(* Moving j of k outstanding bytes to a pointer and adding n new ones.       *)
LEMMA PtrMove ==
    ASSUME NEW p \in Int, NEW j \in Int, NEW k \in Int, NEW n \in Int, NEW y \in Int,
           y = (k - j) + n
    PROVE  PtrAdd(PtrAdd(p, j), y) = PtrAdd(PtrAdd(p, k), n)
<1> DEFINE m == 2 * BufSize
           x == p + j
           z == p + k
<1>1. m \in Nat \ {0} /\ x \in Int /\ z \in Int /\ x + y = z + n
  BY Width
<1> HIDE DEF m, x, z
<1>2. ((x % m) + y) % m = (x + y) % m
  BY <1>1, ModOfMod, ZenonT(30)
<1>3. ((z % m) + n) % m = (z + n) % m
  BY <1>1, ModOfMod, ZenonT(30)
<1>4. ((x % m) + y) % m = ((z % m) + n) % m
  BY <1>1, <1>2, <1>3, ZenonT(30)
<1> QED
  BY <1>4 DEF x, z, m, PtrAdd

(* The ACK number counts modulo SeqSpace, a pointer modulo its own width,    *)
(* which divides SeqSpace: both advance alike.                               *)
LEMMA AckAdvance ==
    ASSUME NEW a \in Int, NEW n \in Int, NEW i \in Int, NEW z, z = (a + n) % SeqSpace
    PROVE  PtrSub(z, i) = PtrAdd(PtrSub(a, i), n)
<1> DEFINE m == 2 * BufSize
           y == a + n
           x == a - i
<1>1. /\ m \in Nat \ {0} /\ SeqSpace \in Nat \ {0} /\ SeqSpace % m = 0
      /\ y \in Int /\ x \in Int /\ x + n = y - i /\ z = y % SeqSpace
  BY Width
<1> HIDE DEF m, x, y
<1>2. z \in Int
  BY <1>1, ModType
<1>3. z % m = y % m
  <2>1. (y % SeqSpace) % m = y % m
    BY <1>1, ModNested, ZenonT(30)
  <2> QED
    BY <1>1, <2>1, ZenonT(30)
<1>4. ((z % m) - (i % m)) % m = (z - i) % m
  BY <1>1, <1>2, ModDiff, ZenonT(30)
<1>5. ((y % m) - (i % m)) % m = (y - i) % m
  BY <1>1, ModDiff, ZenonT(30)
<1>6. ((x % m) + n) % m = (x + n) % m
  BY <1>1, ModOfMod, ZenonT(30)
<1>7. (z - i) % m = ((x % m) + n) % m
  BY <1>1, <1>3, <1>4, <1>5, <1>6, ZenonT(30)
<1> QED
  BY <1>7 DEF x, m, PtrAdd, PtrSub

LEMMA SettledAckType ==
    ASSUME TypeOK, NEW f \in Flows
    PROVE  SettledAck(f) \in Int /\ Received(f) \in Ptrs
<1>1. SettledAck(f) \in SeqNums
  BY DEF TypeOK, SettledAck, Settled, StageW
<1>2. SettledAck(f) \in Int /\ InitAck \in Int
  BY <1>1, IntTypes, EstPipeAssumption, ZenonT(30)
<1> QED
  BY <1>2, PtrType DEF Received

LEMMA ReceivedStep ==
    ASSUME TypeOK, PipeUp, NEW nf \in (Flows \ up) \cup {NONE}, NEW pkt,
           NextStages(nf, pkt), WriteBack(nf), NEW f \in Flows
    PROVE  Received(f)' = IF f = nf THEN 0 ELSE PtrAdd(Received(f), NewBytes(Handed(nf), f))
<1> DEFINE a == SettledAck(f)
<1>1. a \in Int /\ InitAck \in Int /\ Received(f) \in Ptrs
  BY SettledAckType, IntTypes, EstPipeAssumption, ZenonT(30)
<1>2. Received(f)' = (a' - InitAck) % (2 * BufSize)
  BY DEF Received
<1>3. CASE f = nf
  <2>1. a' = InitAck
    BY <1>3, SettledStep
  <2>2. a' - InitAck = 0
    BY <1>1, <2>1
  <2>3. 0 % (2 * BufSize) = 0
    BY Width, ModSmall
  <2> QED
    BY <1>2, <1>3, <2>2, <2>3
<1>4. CASE f # nf /\ Proc(nf) /\ f = c.flow
  <2>0. c # NONE
    BY <1>4, SMTT(30) DEF Proc
  <2>1. c.len \in Int
    BY <2>0, InC
  <2>2. a' = Compute.rx_ack /\ curr_rx_ack = a
    BY <1>4, <2>0, SettledStep, Bypass, SMTT(30) DEF Proc
  <2>3. Handed(nf) = Compute /\ Compute # NONE
    BY <1>4, <2>0, ComputeType, EstPipeAssumption DEF Handed
  <2>4. CASE accept_payload
    <3>1. NewBytes(Handed(nf), f) = c.len
      BY <1>4, <2>0, <2>3, <2>4, NewBytesOfCompute, ZenonT(30)
    <3>2. c.seq = a /\ a' = (c.seq + c.len) % SeqSpace
      BY <2>2, <2>4, ZenonT(30) DEF accept_payload, RxAccept, RxNextAck, Compute
    <3>3. PtrSub(a', InitAck) = PtrAdd(PtrSub(a, InitAck), c.len)
      <4> DEFINE n == c.len
                 z == a'
      <4>1. a \in Int /\ n \in Int /\ InitAck \in Int /\ z = (a + n) % SeqSpace
        BY <1>1, <2>1, <3>2
      <4> HIDE DEF a, n, z
      <4>2. PtrSub(z, InitAck) = PtrAdd(PtrSub(a, InitAck), n)
        BY <4>1, AckAdvance
      <4> QED
        BY <4>2 DEF n, z
    <3>4. Received(f)' = PtrAdd(Received(f), c.len)
      BY <3>3, ZenonT(30) DEF Received, PtrSub
    <3> QED
      BY <1>4, <3>1, <3>4, ZenonT(30)
  <2>5. CASE ~accept_payload
    <3>1. NewBytes(Handed(nf), f) = 0
      BY <1>4, <2>0, <2>3, <2>5, NewBytesOfCompute, ZenonT(30)
    <3>2. a' = a
      BY <2>2, <2>5, ZenonT(30) DEF Compute
    <3>3. Received(f)' = Received(f) /\ PtrAdd(Received(f), 0) = Received(f)
      BY <1>1, <3>2, PtrZero, ZenonT(30) DEF Received
    <3> QED
      BY <1>4, <3>1, <3>3, ZenonT(30)
  <2> QED
    BY <2>4, <2>5
<1>5. CASE f # nf /\ ~(Proc(nf) /\ f = c.flow)
  <2>1. a' = a
    BY <1>5, SettledStep, SMTT(30) DEF Proc
  <2>2. NewBytes(Handed(nf), f) = 0
    BY <1>5, ZenonT(30) DEF NewBytes, Handed, Compute
  <2>3. Received(f)' = Received(f) /\ PtrAdd(Received(f), 0) = Received(f)
    BY <1>1, <2>1, PtrZero, ZenonT(30) DEF Received
  <2> QED
    BY <1>5, <2>2, <2>3, ZenonT(30)
<1> QED
  BY <1>3, <1>4, <1>5

(* No payload is on its way for a flow that is not up.                       *)
NoneForDown == \A f \in Flows \ up : InFlight(f) = 0

LEMMA DownStep ==
    ASSUME TypeOK, PipeUp, NoneForDown, NEW nf \in (Flows \ up) \cup {NONE}, NEW pkt,
           NEW step \in BOOLEAN, NextStages(nf, pkt), QueueAndCopy(nf, step),
           NEW f \in Flows \ up
    PROVE  InFlight(f)' = 0
<1>1. PICK moved \in 0 .. InFlight(f) :
         InFlight(f)' = (InFlight(f) - moved) + NewBytes(Handed(nf), f)
  BY InFlightStep, SMTT(30)
<1>2. InFlight(f) = 0
  BY DEF NoneForDown
<1>3. NewBytes(Handed(nf), f) = 0
  BY DEF NewBytes, Handed, Proc, Compute, PipeUp, InPipe
<1>4. moved = 0
  BY <1>2
<1>5. InFlight(f)' = (0 - 0) + 0
  BY <1>1, <1>2, <1>3, <1>4, ZenonT(30)
<1> QED
  BY <1>5, SMTT(30)

CommitInv == TypeOK /\ PipeUp /\ NoneForDown /\ CommitMatchesAck

LEMMA CommitStep ==
    ASSUME CommitInv, NEW nf, NEW pkt, NEW req \in BOOLEAN, NEW rd, NEW sd,
           NEW step \in BOOLEAN, InputsOK(nf, pkt, rd, sd),
           Cycle(nf, pkt, req, rd, sd, step)
    PROVE  NoneForDown' /\ CommitMatchesAck'
<1>0. /\ TypeOK /\ PipeUp /\ NoneForDown /\ CommitMatchesAck
      /\ nf \in (Flows \ up) \cup {NONE} /\ nf \in Flows \cup {NONE}
      /\ NextStages(nf, pkt) /\ QueueAndCopy(nf, step) /\ WriteBack(nf)
      /\ up' = IF nf = NONE THEN up ELSE up \cup {nf}
      /\ up \subseteq Flows
  BY DEF CommitInv, InputsOK, Cycle, NewFlow, TypeOK
<1>1. ASSUME NEW f \in Flows \ up PROVE InFlight(f)' = 0
  BY <1>0, DownStep
<1>2. NoneForDown'
  BY <1>0, <1>1 DEF NoneForDown
<1>3. ASSUME NEW f \in up', f = nf PROVE PtrAdd(commit'[f], InFlight(f)') = Received(f)'
  <2>1. f \in Flows \ up /\ nf # NONE
    BY <1>0, <1>3, EstPipeAssumption
  <2>2. InFlight(f)' = 0
    BY <1>1, <2>1, SMTT(30)
  <2>3. commit'[f] = 0
    BY <1>0, <1>3, <2>1, ZenonT(30) DEF QueueAndCopy, Write, TypeOK
  <2>4. Received(f)' = 0
    BY <1>0, <1>3, <2>1, ReceivedStep, SMTT(30)
  <2>5. 0 \in Ptrs
    BY BufPositive DEF Ptrs
  <2> QED
    BY <2>2, <2>3, <2>4, <2>5, PtrZero, SMTT(30)
<1>4. ASSUME NEW f \in up', f # nf PROVE PtrAdd(commit'[f], InFlight(f)') = Received(f)'
  <2>1. f \in up /\ f \in Flows
    BY <1>0, <1>4
  <2> DEFINE k == InFlight(f)
             n == NewBytes(Handed(nf), f)
             p == commit[f]
  <2>2. PICK moved \in 0 .. k : commit'[f] = PtrAdd(p, moved) /\ k' = (k - moved) + n
    BY <1>0, <1>4, <2>1, InFlightStep, ZenonT(30)
  <2>3. k \in Nat /\ p \in Int /\ n \in Int
    <3>1. n \in Nat
      BY <1>0, NewBytesType
    <3>2. k \in Nat
      BY <1>0, InFlightType, SMTT(30)
    <3>3. p \in Int
      BY <1>0, <2>1, IntTypes, ZenonT(30) DEF TypeOK
    <3> QED
      BY <3>1, <3>2, <3>3
  <2>4. Received(f) = PtrAdd(p, k) /\ Received(f)' = PtrAdd(Received(f), n)
    BY <1>0, <1>4, <2>1, ReceivedStep DEF CommitMatchesAck
  <2> HIDE DEF k, n, p
  <2>5. PtrAdd(PtrAdd(p, moved), (k - moved) + n) = PtrAdd(PtrAdd(p, k), n)
    BY <2>3, PtrMove
  <2> QED
    BY <2>2, <2>4, <2>5 DEF k
<1>5. CommitMatchesAck'
  BY <1>3, <1>4 DEF CommitMatchesAck
<1> QED
  BY <1>2, <1>5, SMTT(30)

LEMMA InitCommit ==
    ASSUME Init
    PROVE  PipeUp /\ NoneForDown /\ CommitMatchesAck
<1>1. PipeUp /\ CommitMatchesAck
  BY DEF Init, PipeUp, InPipe, CommitMatchesAck
<1>2. ASSUME NEW f \in Flows PROVE InFlight(f) = 0
  <2>1. Waiting = <<>> /\ Bytes(copy, f) = 0
    BY DEF Init, Waiting, Bytes
  <2>2. BytesOf(<<>>, f) = <<>>
    BY DEF BytesOf
  <2> QED
    BY <2>1, <2>2, TotalEmpty DEF InFlight
<1> QED
  BY <1>1, <1>2, SMTT(30) DEF NoneForDown

LEMMA CommitInvariant == Spec => []CommitInv
<1>1. Init => PipeUp /\ NoneForDown /\ CommitMatchesAck
  BY InitCommit
<1>2. CommitInv /\ [Next]_vars => (PipeUp /\ NoneForDown /\ CommitMatchesAck)'
  <2> SUFFICES ASSUME CommitInv, [Next]_vars
               PROVE  PipeUp' /\ NoneForDown' /\ CommitMatchesAck'
    OBVIOUS
  <2>1. PipeUp'
    BY PipeUpStep, SMTT(30) DEF CommitInv
  <2>2. CASE UNCHANGED vars
    BY <2>1, <2>2 DEF CommitInv, NoneForDown, CommitMatchesAck, InFlight, Waiting, Received,
                      SettledAck, Settled, vars
  <2>3. CASE Next
    <3>1. NoneForDown' /\ CommitMatchesAck'
      BY <2>3, NextIsCycle, CommitStep DEF CommitInv
    <3> QED
      BY <2>1, <3>1
  <2> QED
    BY <2>2, <2>3
<1> QED
  BY <1>1, <1>2, TypeCorrect, PTL DEF Spec, CommitInv

(* Every byte that est_pipe acknowledges is committed to the receive buffer  *)
(* exactly once: however packets, stalls, new flows and the copy engine      *)
(* interleave, the commit pointer is behind the ACK number by the accepted   *)
(* payloads in W, in rx_store_buf_q and in the copy engine.                  *)
THEOREM AckedIsCommitted == Spec => []CommitMatchesAck
<1>1. CommitInv => CommitMatchesAck
  BY DEF CommitInv
<1> QED
  BY <1>1, CommitInvariant, PTL

(***************************************************************************)
(* The tail pointer, when the pipeline holds one packet of a flow at a     *)
(* time.  It is read in R and written in W, so what a packet read stays    *)
(* true until it is written only if no other packet of the flow is in      *)
(* between.                                                                *)
(***************************************************************************)
Apart ==
    /\ r # NONE /\ c # NONE => r.flow # c.flow
    /\ r # NONE /\ w # NONE => r.flow # w.flow
    /\ c # NONE /\ w # NONE => c.flow # w.flow

TailFresh == c # NONE => c.tail = tail[c.flow]

(* A refused payload leaves the tail as it is.                               *)
TailKept == w # NONE /\ ~w.accept => w.tail = tail[w.flow]

LEMMA ApartStep ==
    ASSUME TypeOK, load.spaced, Apart, NEW nf, NEW pkt, NextStages(nf, pkt), Arrives(nf, pkt)
    PROVE  Apart'
<1>1. c # NONE => Compute.flow = c.flow
  BY SMTT(30) DEF Compute
<1>2. c' # NONE => \/ c' = c /\ stall_c(nf) /\ c # NONE
                   \/ r # NONE /\ c'.flow = r.flow /\ ~stall_r(nf) /\ ~stall_c(nf)
  BY ZenonT(30) DEF NextStages, stall_c
<1>3. w' # NONE => \/ w' = w /\ stall_w(nf)
                   \/ c # NONE /\ w'.flow = c.flow /\ ~stall_c(nf)
  BY <1>1, SMTT(30) DEF NextStages
<1>4. r' # NONE => \/ r' = r /\ stall_r(nf)
                   \/ /\ r # NONE => r'.flow # r.flow
                      /\ c # NONE => r'.flow # c.flow
                      /\ w # NONE => r'.flow # w.flow
  BY DEF NextStages, Arrives, InPipe
<1>5. r' # NONE /\ c' # NONE => r'.flow # c'.flow
  BY <1>2, <1>4 DEF Apart
<1>6. r' # NONE /\ w' # NONE => r'.flow # w'.flow
  BY <1>3, <1>4 DEF Apart
<1>7. c' # NONE /\ w' # NONE => c'.flow # w'.flow
  BY <1>2, <1>3 DEF Apart
<1> QED
  BY <1>5, <1>6, <1>7, SMTT(30) DEF Apart

LEMMA TailWrite ==
    ASSUME TypeOK, NEW nf \in Flows \cup {NONE}, WriteBack(nf), NEW f \in Flows
    PROVE  tail'[f] = IF f = nf THEN 0
                      ELSE IF nf = NONE /\ w # NONE /\ w.accept /\ w.flow = f THEN w.tail
                      ELSE tail[f]
<1>1. tail \in [Flows -> Ptrs] /\ (nf # NONE => nf \in Flows) /\ NONE \notin Flows
  BY EstPipeAssumption, SMTT(30) DEF TypeOK
<1>2. tail' = Write(tail, nf, 0, w # NONE /\ w.accept, w.flow, w.tail)
  BY DEF WriteBack
<1> QED
  BY <1>1, <1>2, SMTT(30) DEF Write

LEMMA FlowsUp ==
    ASSUME PipeUp, TypeOK, NEW nf \in (Flows \ up) \cup {NONE}
    PROVE  /\ r # NONE => r.flow \in Flows /\ r.flow # nf /\ r.flow \in up
           /\ c # NONE => c.flow \in Flows /\ c.flow # nf /\ c.flow \in up
           /\ w # NONE => w.flow \in Flows /\ w.flow # nf /\ w.flow \in up
<1>1. up \subseteq Flows /\ NONE \notin Flows
  BY EstPipeAssumption DEF TypeOK
<1>2. /\ r # NONE => r.flow \in up
      /\ c # NONE => c.flow \in up
      /\ w # NONE => w.flow \in up
  BY SMTT(30) DEF PipeUp, InPipe
<1> QED
  BY <1>1, <1>2, SMTT(30)

LEMMA TailFreshStep ==
    ASSUME TypeOK, PipeUp, Apart, TailFresh, NEW nf \in (Flows \ up) \cup {NONE}, NEW pkt,
           NextStages(nf, pkt), WriteBack(nf)
    PROVE  TailFresh'
<1> SUFFICES ASSUME c' # NONE PROVE c'.tail = tail'[c'.flow]
  BY DEF TailFresh
<1>1. CASE stall_c(nf)
  <2>1. c' = c /\ c # NONE
    BY <1>1 DEF NextStages, stall_c
  <2>2. tail'[c.flow] = tail[c.flow]
    BY <2>1, FlowsUp, TailWrite, SMTT(30) DEF Apart
  <2> QED
    BY <2>1, <2>2, SMTT(30) DEF TailFresh
<1>2. CASE ~stall_c(nf)
  <2>1. r # NONE /\ c'.flow = r.flow /\ c'.tail = tail[r.flow]
    BY <1>2 DEF NextStages
  <2>2. tail'[r.flow] = tail[r.flow]
    BY <2>1, FlowsUp, TailWrite DEF Apart
  <2> QED
    BY <2>1, <2>2, SMTT(30)
<1> QED
  BY <1>1, <1>2, SMTT(30)

(* Without a predecessor in W stage C works on the tail it read.             *)
LEMMA TailRead ==
    ASSUME Apart, TailFresh, c # NONE
    PROVE  curr_tail = tail[c.flow] /\ SettledTail(c.flow) = tail[c.flow]
  BY SMTT(30) DEF Apart, TailFresh, curr_tail, byp_state, SettledTail, Settled

LEMMA TailKeptStep ==
    ASSUME TypeOK, PipeUp, Apart, TailFresh, TailKept, NEW nf \in (Flows \ up) \cup {NONE},
           NEW pkt, NextStages(nf, pkt), WriteBack(nf)
    PROVE  TailKept'
<1> SUFFICES ASSUME w' # NONE, ~w'.accept PROVE w'.tail = tail'[w'.flow]
  BY DEF TailKept
<1>1. CASE stall_w(nf)
  <2>1. w' = w
    BY <1>1 DEF NextStages
  <2>2. tail'[w.flow] = tail[w.flow]
    BY <2>1, FlowsUp, TailWrite
  <2> QED
    BY <2>1, <2>2 DEF TailKept
<1>2. CASE ~stall_w(nf)
  <2>1. c # NONE /\ w' = Compute
    BY <1>2, SMTT(30) DEF NextStages
  <2>2. w'.flow = c.flow /\ w'.tail = tail[c.flow]
    BY <2>1, TailRead, ZenonT(30) DEF Compute
  <2>3. tail'[c.flow] = tail[c.flow]
    BY <2>1, FlowsUp, TailWrite, SMTT(30) DEF Apart
  <2> QED
    BY <2>2, <2>3
<1> QED
  BY <1>1, <1>2, SMTT(30)

LEMMA SettledTailStep ==
    ASSUME TypeOK, PipeUp, Apart, TailFresh, TailKept, NEW nf \in (Flows \ up) \cup {NONE},
           NEW pkt, NextStages(nf, pkt), WriteBack(nf), NEW f \in Flows
    PROVE  SettledTail(f)' = IF f = nf THEN 0
                             ELSE PtrAdd(SettledTail(f), NewBytes(Handed(nf), f))
<1>1. SettledTail(f) \in Ptrs
  BY DEF SettledTail, Settled, TypeOK, StageW
<1>2. SettledTail(f)' = IF w' # NONE /\ w'.flow = f THEN w'.tail ELSE tail'[f]
  BY DEF SettledTail, Settled
<1>3. SettledTail(f) = IF w # NONE /\ w.flow = f THEN w.tail ELSE tail[f]
  BY DEF SettledTail, Settled
<1>4. CASE f = nf
  <2>1. w' = w
    BY <1>4, EstPipeAssumption DEF NextStages, stall_w
  <2>2. tail'[f] = 0
    BY <1>4, TailWrite
  <2> QED
    BY <1>2, <1>4, <2>1, <2>2, FlowsUp, SMTT(30)
<1>5. CASE f # nf /\ Proc(nf) /\ f = c.flow
  <2>1. c # NONE /\ w' = Compute /\ Compute # NONE /\ Compute.flow = f
    BY <1>5, ComputeType, EstPipeAssumption, ZenonT(30) DEF Proc, NextStages, stall_c, Compute
  <2>2. SettledTail(f)' = Compute.tail /\ Handed(nf) = Compute
    BY <1>2, <1>5, <2>1, SMTT(30) DEF Handed
  <2>3. curr_tail = SettledTail(f)
    BY <1>5, <2>1, TailRead, SMTT(30)
  <2>4. CASE accept_payload
    <3>1. NewBytes(Handed(nf), f) = c.len
      BY <1>5, <2>1, <2>2, <2>4, NewBytesOfCompute, ZenonT(30)
    <3>2. Compute.tail = PtrAdd(curr_tail, c.len)
      BY <2>4, ZenonT(30) DEF Compute
    <3> QED
      BY <1>5, <2>2, <2>3, <3>1, <3>2, ZenonT(30)
  <2>5. CASE ~accept_payload
    <3>1. NewBytes(Handed(nf), f) = 0
      BY <1>5, <2>1, <2>2, <2>5, NewBytesOfCompute, ZenonT(30)
    <3>2. Compute.tail = SettledTail(f)
      BY <2>3, <2>5, ZenonT(30) DEF Compute
    <3>3. PtrAdd(SettledTail(f), 0) = SettledTail(f)
      BY <1>1, PtrZero, ZenonT(30)
    <3> QED
      BY <1>5, <2>2, <3>1, <3>2, <3>3, ZenonT(30)
  <2> QED
    BY <2>4, <2>5, SMTT(30)
<1>6. CASE f # nf /\ ~(Proc(nf) /\ f = c.flow)
  <2>1. NewBytes(Handed(nf), f) = 0
    BY <1>6, ZenonT(30) DEF NewBytes, Handed, Compute
  <2>2. SettledTail(f)' = SettledTail(f)
    <3>1. CASE stall_w(nf)
      <4>1. w' = w
        BY <3>1 DEF NextStages
      <4> QED
        BY <1>2, <1>3, <1>6, <4>1, TailWrite, SMTT(30)
    <3>2. CASE ~stall_w(nf)
      <4>1. nf = NONE /\ ~(w' # NONE /\ w'.flow = f)
        BY <1>6, <3>2, SMTT(30) DEF NextStages, Proc, stall_w, Compute
      <4>2. tail'[f] = IF w # NONE /\ w.accept /\ w.flow = f THEN w.tail ELSE tail[f]
        BY <1>6, <4>1, TailWrite, SMTT(30)
      <4> QED
        BY <1>2, <1>3, <4>1, <4>2, SMTT(30) DEF TailKept
    <3> QED
      BY <3>1, <3>2, SMTT(30)
  <2> QED
    BY <1>1, <1>6, <2>1, <2>2, PtrZero, ZenonT(30)
<1> QED
  BY <1>4, <1>5, <1>6, SMTT(30)

TailInv ==
    /\ TypeOK /\ PipeUp
    /\ load.spaced => Apart /\ TailFresh /\ TailKept /\ TailMatchesAck

LEMMA TailInvStep ==
    ASSUME TailInv, load.spaced, NEW nf, NEW pkt, NEW req \in BOOLEAN, NEW rd, NEW sd,
           NEW step \in BOOLEAN, InputsOK(nf, pkt, rd, sd),
           Cycle(nf, pkt, req, rd, sd, step)
    PROVE  Apart' /\ TailFresh' /\ TailKept' /\ TailMatchesAck'
<1>0. /\ TypeOK /\ PipeUp /\ Apart /\ TailFresh /\ TailKept /\ TailMatchesAck
      /\ nf \in (Flows \ up) \cup {NONE}
      /\ NextStages(nf, pkt) /\ WriteBack(nf) /\ Arrives(nf, pkt)
      /\ up' = IF nf = NONE THEN up ELSE up \cup {nf}
      /\ up \subseteq Flows
  BY ZenonT(30) DEF TailInv, InputsOK, Cycle, NewFlow, Offered, TypeOK
<1>1. ASSUME NEW f \in up' PROVE SettledTail(f)' = Received(f)'
  <2>1. f \in Flows /\ (f # nf => f \in up)
    BY <1>0
  <2>2. SettledTail(f)' = IF f = nf THEN 0
                          ELSE PtrAdd(SettledTail(f), NewBytes(Handed(nf), f))
    BY <1>0, <2>1, SettledTailStep, SMTT(30)
  <2>3. Received(f)' = IF f = nf THEN 0
                       ELSE PtrAdd(Received(f), NewBytes(Handed(nf), f))
    BY <1>0, <2>1, ReceivedStep
  <2>4. f # nf => SettledTail(f) = Received(f)
    BY <1>0, <2>1 DEF TailMatchesAck
  <2> QED
    BY <2>2, <2>3, <2>4
<1>2. TailMatchesAck'
  BY <1>1 DEF TailMatchesAck
<1> QED
  BY <1>0, <1>2, ApartStep, TailFreshStep, TailKeptStep, SMTT(30)

LEMMA TailInvariant == Spec => []TailInv
<1>1. Init => PipeUp /\ (load.spaced => Apart /\ TailFresh /\ TailKept /\ TailMatchesAck)
  BY DEF Init, PipeUp, InPipe, Apart, TailFresh, TailKept, TailMatchesAck
<1>2. TypeOK' /\ TailInv /\ [Next]_vars => TailInv'
  <2> SUFFICES ASSUME TypeOK', TailInv, [Next]_vars PROVE TailInv'
    OBVIOUS
  <2>1. PipeUp'
    BY PipeUpStep, SMTT(30) DEF TailInv
  <2>2. CASE UNCHANGED vars
    BY <2>1, <2>2 DEF TailInv, Apart, TailFresh, TailKept, TailMatchesAck, SettledTail,
                      Received, SettledAck, Settled, vars
  <2>3. CASE Next
    <3>1. load' = load
      BY <2>3, NextIsCycle, ZenonT(30) DEF TailInv, Cycle
    <3>2. load.spaced => Apart' /\ TailFresh' /\ TailKept' /\ TailMatchesAck'
      BY <2>3, NextIsCycle, TailInvStep, ZenonT(30) DEF TailInv
    <3> QED
      BY <2>1, <3>1, <3>2, SMTT(30) DEF TailInv
  <2> QED
    BY <2>2, <2>3
<1> QED
  BY <1>1, <1>2, TypeCorrect, PTL DEF Spec, TailInv

(* While the pipeline holds one packet of a flow at a time, the tail pointer *)
(* of the receive buffer, read in R and written in W, and the ACK number,    *)
(* read in C through a bypass and written in W, advance together.            *)
THEOREM TailKeepsUp == Spec => []TailMatchesAckSpaced
<1>1. TailInv => TailMatchesAckSpaced
  BY DEF TailInv, TailMatchesAckSpaced
<1> QED
  BY <1>1, TailInvariant, PTL

(***************************************************************************)
(* The receive buffer, when the pipeline holds one packet of a flow at a   *)
(* time.                                                                   *)
(***************************************************************************)
(* Distances between pointers.                                               *)
LEMMA PtrAhead ==
    ASSUME NEW p \in Int, NEW q \in Int, NEW j \in Int, NEW d, d = PtrSub(p, q),
           d + j \in 0 .. 2 * BufSize - 1
    PROVE  PtrSub(PtrAdd(p, j), q) = d + j
<1> DEFINE m == 2 * BufSize
           x == p + j
           y == p - q
<1>1. m \in Nat \ {0} /\ x \in Int /\ y \in Int /\ x - q = y + j
  BY Width
<1>2. d = y % m /\ d + j \in 0 .. m - 1
  BY DEF PtrSub
<1> HIDE DEF m, x, y
<1>3. d \in Int /\ x % m \in Int
  BY <1>1, <1>2, ModType
<1>4. (-q) \in Int /\ (x % m) + (-q) = (x % m) - q /\ x + (-q) = x - q
  BY <1>1, <1>3
<1>5. ((x % m) + (-q)) % m = (x + (-q)) % m
  BY <1>1, <1>4, ModOfMod, ZenonT(30)
<1>6. ((y % m) + j) % m = (y + j) % m
  BY <1>1, ModOfMod, ZenonT(30)
<1>7. (d + j) % m = d + j
  BY <1>1, <1>2, ModFits, ZenonT(30)
<1>8. ((x % m) - q) % m = d + j
  BY <1>1, <1>2, <1>4, <1>5, <1>6, <1>7, ZenonT(30)
<1> QED
  BY <1>8 DEF x, m, PtrAdd, PtrSub

LEMMA PtrBehind ==
    ASSUME NEW p \in Int, NEW q \in Int, NEW n \in Int, NEW d, d = PtrSub(p, q),
           d - n \in 0 .. 2 * BufSize - 1
    PROVE  PtrSub(p, PtrAdd(q, n)) = d - n
<1> DEFINE m == 2 * BufSize
           x == q + n
           y == p - q
           k == -n
<1>1. m \in Nat \ {0} /\ x \in Int /\ y \in Int /\ k \in Int /\ p - x = y + k
  BY Width
<1>2. d = y % m /\ d - n \in 0 .. m - 1
  BY DEF PtrSub
<1>3. d \in Int
  <2> HIDE DEF m, y
  <2> QED
    BY <1>1, <1>2, ModType
<1>4. d + k = d - n
  BY <1>3
<1> HIDE DEF m, x, y, k
<1>5. (p - (x % m)) % m = (p - x) % m
  BY <1>1, ModOfMod, ZenonT(30)
<1>6. ((y % m) + k) % m = (y + k) % m
  BY <1>1, ModOfMod, ZenonT(30)
<1>7. (d + k) % m = d + k
  BY <1>1, <1>2, <1>4, ModFits, ZenonT(30)
<1>8. (p - (x % m)) % m = d - n
  BY <1>1, <1>2, <1>4, <1>5, <1>6, <1>7, ZenonT(30)
<1> QED
  BY <1>8 DEF x, m, PtrAdd, PtrSub

LEMMA PtrSum ==
    ASSUME NEW p \in Int, NEW q \in Int, NEW s \in Int, NEW d, d = PtrSub(p, q),
           NEW e, e = PtrSub(q, s), e + d \in 0 .. 2 * BufSize - 1
    PROVE  PtrSub(p, s) = e + d
<1> DEFINE m == 2 * BufSize
           x == q - s
           y == p - q
<1>1. m \in Nat \ {0} /\ x \in Int /\ y \in Int /\ p - s = x + y /\ p - s = y + x
  BY Width
<1>2. e = x % m /\ d = y % m /\ e + d \in 0 .. m - 1
  BY DEF PtrSub
<1> HIDE DEF m, x, y
<1>3. e \in Int /\ d \in Int
  BY <1>1, <1>2, ModType
<1>4. ((x % m) + d) % m = (x + d) % m
  BY <1>1, <1>3, ModOfMod, ZenonT(30)
<1>5. ((y % m) + x) % m = (y + x) % m
  BY <1>1, ModOfMod, ZenonT(30)
<1>6. (e + d) % m = e + d
  BY <1>1, <1>2, ModFits, ZenonT(30)
<1>7. x + d = d + x
  BY <1>1, <1>3
<1>8. (p - s) % m = e + d
  BY <1>1, <1>2, <1>4, <1>5, <1>6, <1>7, ZenonT(30)
<1> QED
  BY <1>8 DEF m, PtrSub

LEMMA PtrSelf ==
    ASSUME NEW p \in Int
    PROVE  PtrSub(p, p) = 0
<1>1. p - p = 0
  OBVIOUS
<1>2. 0 % (2 * BufSize) = 0
  BY Width, ModSmall, SMTT(30)
<1> QED
  BY <1>1, <1>2 DEF PtrSub

(* Committed bytes that the application has not consumed.                    *)
Unread(f) == PtrSub(commit[f], head[f])

(* Bytes of the receive buffer that are in use or promised.                  *)
Occupied(f) == Unread(f) + InFlight(f)

Roomy == \A f \in up : Occupied(f) <= BufSize

(* The head pointer that the packet in C read may be old: the application    *)
(* has consumed bytes since.                                                 *)
HeadRead ==
    \A f \in Flows :
       c # NONE /\ c.flow = f => PtrSub(head[f], c.head) + Occupied(f) <= BufSize

WindowFits ==
    /\ w # NONE => w.rx_wnd <= BufSize
    /\ \A f \in Flows : rx_wnd[f] <= BufSize

LEMMA PtrsAreInts ==
    ASSUME TypeOK, NEW f \in Flows
    PROVE  /\ commit[f] \in Int /\ head[f] \in Int /\ Unread(f) \in Ptrs /\ Unread(f) \in Nat
           /\ Occupied(f) \in Nat
<1>1. commit[f] \in Int /\ head[f] \in Int
  BY IntTypes, ZenonT(30) DEF TypeOK
<1>2. Unread(f) \in Ptrs
  BY <1>1, PtrType, ZenonT(30) DEF Unread
<1>3. Unread(f) \in Nat
  BY <1>2, BufPositive DEF Ptrs
<1>4. InFlight(f) \in Nat
  BY InFlightType, SMTT(30)
<1> QED
  BY <1>1, <1>2, <1>3, <1>4, SMTT(30) DEF Occupied

LEMMA PtrsAreNats == Ptrs \subseteq Nat
  BY BufPositive DEF Ptrs

LEMMA BelowPtr ==
    ASSUME NEW u \in Ptrs, NEW n \in 0 .. u
    PROVE  n \in Ptrs
  BY BufPositive DEF Ptrs

(* The pointer h moves n bytes on: relative to itself, ...                   *)
LEMMA PtrOnward ==
    ASSUME NEW h \in Int, NEW n \in Ptrs
    PROVE  PtrSub(PtrAdd(h, n), h) = 0 + n
<1> DEFINE d == PtrSub(h, h)
<1>1. d = 0
  BY PtrSelf
<1>2. d + n \in 0 .. 2 * BufSize - 1 /\ n \in Int
  BY <1>1, BufPositive DEF Ptrs
<1>3. PtrSub(PtrAdd(h, n), h) = d + n
  BY <1>2, PtrAhead
<1> QED
  BY <1>1, <1>3

(* ... and relative to an older copy g of it.                                *)
LEMMA HeadMoves ==
    ASSUME NEW h \in Int, NEW g \in Int, NEW u \in Nat, NEW k \in Nat, NEW n \in 0 .. u,
           PtrSub(h, g) \in Nat, PtrSub(h, g) + (u + k) <= BufSize
    PROVE  /\ PtrSub(PtrAdd(h, n), g) = PtrSub(h, g) + n
           /\ (PtrSub(h, g) + n) + (((u + k) - n) + 0) <= BufSize
<1> DEFINE e == PtrSub(h, g)
<1>1. e \in Nat /\ e + (u + k) <= BufSize
  OBVIOUS
<1> HIDE DEF e
<1>2. /\ e + n \in 0 .. 2 * BufSize - 1 /\ n \in Int
      /\ (e + n) + (((u + k) - n) + 0) <= BufSize
  BY <1>1, BufPositive
<1>3. PtrSub(PtrAdd(h, n), g) = e + n
  BY <1>2, PtrAhead DEF e
<1> QED
  BY <1>2, <1>3 DEF e

LEMMA HeadStep ==
    ASSUME TypeOK, NEW nf \in Flows \cup {NONE}, NEW rd \in Flows \cup {NONE},
           AppHead(nf, rd), NEW f \in Flows, f # nf
    PROVE  \E n \in 0 .. Unread(f) : head'[f] = PtrAdd(head[f], n)
<1>1. PICK n \in IF rd = NONE THEN {0} ELSE 1 .. PtrSub(commit[rd], head[rd]) :
         head' = Write(head, nf, 0, rd # NONE, rd, PtrAdd(head[rd], n))
  BY SMTT(30) DEF AppHead
<1>2. head \in [Flows -> Ptrs] /\ head[f] \in Ptrs /\ NONE \notin Flows
  BY EstPipeAssumption, ZenonT(30) DEF TypeOK
<1>3. Unread(f) \in Nat
  BY PtrsAreInts, SMTT(30)
<1>4. CASE rd = f
  <2>1. nf = NONE /\ n \in 1 .. Unread(f)
    BY <1>1, <1>2, <1>4 DEF AppHead, Unread
  <2>2. head'[f] = PtrAdd(head[f], n)
    BY <1>1, <1>2, <1>4, <2>1, SMTT(30) DEF Write
  <2>3. n \in 0 .. Unread(f)
    BY <1>3, <2>1, SMTT(30)
  <2> QED
    BY <2>2, <2>3, SMTT(30)
<1>5. CASE rd # f
  <2>1. head'[f] = head[f]
    BY <1>1, <1>2, <1>5, SMTT(30) DEF Write
  <2>2. head'[f] = PtrAdd(head[f], 0)
    BY <1>2, <2>1, PtrZero, SMTT(30)
  <2>3. 0 \in 0 .. Unread(f)
    BY <1>3
  <2> QED
    BY <2>2, <2>3, SMTT(30)
<1> QED
  BY <1>4, <1>5, SMTT(30)

(* A cycle frees what the application consumes and takes what C accepts.     *)
LEMMA OccupiedStep ==
    ASSUME TypeOK, NEW nf \in Flows \cup {NONE}, NEW pkt, NEW step \in BOOLEAN,
           NEW rd \in Flows \cup {NONE}, AppHead(nf, rd), NextStages(nf, pkt),
           QueueAndCopy(nf, step), NEW f \in Flows, f # nf, Occupied(f) <= BufSize
    PROVE  \E n \in 0 .. Unread(f) :
              /\ head'[f] = PtrAdd(head[f], n)
              /\ Occupied(f)' = (Occupied(f) - n) + NewBytes(Handed(nf), f)
<1>1. PICK n \in 0 .. Unread(f) : head'[f] = PtrAdd(head[f], n)
  BY HeadStep, SMTT(30)
<1>2. PICK moved \in 0 .. InFlight(f) :
         /\ commit'[f] = PtrAdd(commit[f], moved)
         /\ InFlight(f)' = (InFlight(f) - moved) + NewBytes(Handed(nf), f)
  BY InFlightStep, ZenonT(30)
<1> DEFINE u == Unread(f)
           k == InFlight(f)
           b == NewBytes(Handed(nf), f)
<1>3. commit[f] \in Int /\ head[f] \in Int /\ u \in Nat /\ k \in Nat
  BY PtrsAreInts, InFlightType, ZenonT(30)
<1>4. b \in Nat
  BY NewBytesType
<1>5. u + k <= BufSize /\ n \in 0 .. u /\ moved \in 0 .. k
  BY DEF Occupied
<1>6. PtrSub(PtrAdd(commit[f], moved), head[f]) = u + moved
  <2>1. u + moved \in 0 .. 2 * BufSize - 1
    <3> HIDE DEF u, k
    <3> QED
      BY <1>3, <1>5, BufPositive
  <2>2. u = PtrSub(commit[f], head[f]) /\ moved \in Int
    BY <1>3, <1>5 DEF Unread
  <2> HIDE DEF u
  <2> QED
    BY <1>3, <2>1, <2>2, PtrAhead
<1>7. PtrAdd(commit[f], moved) \in Int
  <2>1. moved \in Int
    BY <1>3, <1>5
  <2>2. PtrAdd(commit[f], moved) \in Ptrs
    BY <1>3, <2>1, PtrType, ZenonT(30)
  <2> QED
    BY <2>2, IntTypes, ZenonT(30)
<1>8. PtrSub(PtrAdd(commit[f], moved), PtrAdd(head[f], n)) = (u + moved) - n
  <2> HIDE DEF u, k
  <2>1. (u + moved) - n \in 0 .. 2 * BufSize - 1 /\ n \in Int /\ u + moved \in Int
    BY <1>3, <1>5, BufPositive
  <2> QED
    BY <1>3, <1>6, <1>7, <2>1, PtrBehind, SMTT(30)
<1>9. Unread(f)' = (u + moved) - n
  BY <1>1, <1>2, <1>8, ZenonT(30) DEF Unread
<1>10. k' = (k - moved) + b
  BY <1>2
<1>11. Occupied(f)' = Unread(f)' + k' /\ Occupied(f) = u + k
  BY SMTT(30) DEF Occupied
<1>12. (((u + moved) - n) + ((k - moved) + b)) = ((u + k) - n) + b
  <2> HIDE DEF u, k, b
  <2> QED
    BY <1>3, <1>4, <1>5, SMTT(30)
<1> QED
  BY <1>1, <1>9, <1>10, <1>11, <1>12, ZenonT(30)

(* With what C read, the space it computes is what the buffer has left, or   *)
(* less by what the application consumed since.                              *)
LEMMA SpaceLeft ==
    ASSUME TypeOK, PipeUp, CommitMatchesAck, Apart, TailFresh, TailMatchesAck, HeadRead,
           c # NONE
    PROVE  /\ space_left \in 0 .. BufSize
           /\ space_left + Occupied(c.flow) <= BufSize
<1> DEFINE f == c.flow
           e == PtrSub(head[f], c.head)
           u == Unread(f)
           k == InFlight(f)
<1>1. f \in Flows /\ f \in up /\ c.head \in Ptrs
  <2>1. f \in up /\ up \subseteq Flows
    BY SMTT(30) DEF PipeUp, InPipe, TypeOK
  <2>2. c.head \in Ptrs
    BY SMTT(30) DEF TypeOK, StageC
  <2> QED
    BY <2>1, <2>2, SMTT(30)
<1>2. /\ commit[f] \in Int /\ head[f] \in Int /\ c.head \in Int
      /\ u \in Nat /\ k \in Nat /\ Occupied(f) = u + k
  BY <1>1, PtrsAreInts, InFlightType, IntTypes, SMTT(30) DEF Occupied
<1>3. e \in Ptrs
  BY <1>2, PtrType, ZenonT(30)
<1>4. e \in Nat /\ BufSize \in Nat
  BY <1>3, BufPositive DEF Ptrs
<1>5. e + (u + k) <= BufSize
  BY <1>1, <1>2, SMTT(30) DEF HeadRead
<1>6. curr_tail = PtrAdd(commit[f], k)
  <2>1. curr_tail = Received(f)
    BY <1>1, TailRead, SMTT(30) DEF TailMatchesAck
  <2> QED
    BY <1>1, <2>1, SMTT(30) DEF CommitMatchesAck
<1>7. PtrSub(commit[f], c.head) = e + u
  <2>1. u = PtrSub(commit[f], head[f]) /\ e = PtrSub(head[f], c.head)
    BY DEF Unread
  <2> HIDE DEF f, e, u, k
  <2>2. e + u \in 0 .. 2 * BufSize - 1
    BY <1>2, <1>4, <1>5, BufPositive
  <2> QED
    BY <1>2, <2>1, <2>2, PtrSum, SMTT(30)
<1>8. PtrSub(curr_tail, c.head) = (e + u) + k
  <2> HIDE DEF f, e, u, k
  <2>1. (e + u) + k \in 0 .. 2 * BufSize - 1 /\ k \in Int
    BY <1>2, <1>4, <1>5, BufPositive
  <2> QED
    BY <1>2, <1>6, <1>7, <2>1, PtrAhead, SMTT(30)
<1>9. space_left = BufSize - ((e + u) + k)
  <2> DEFINE z == BufSize - ((e + u) + k)
  <2>1. space_left = z % (2 * BufSize)
    BY <1>8, SMTT(30) DEF space_left
  <2>2. z \in 0 .. 2 * BufSize - 1
    <3> HIDE DEF f, e, u, k
    <3> QED
      BY <1>2, <1>4, <1>5, BufPositive
  <2> HIDE DEF z
  <2>3. z % (2 * BufSize) = z
    BY <2>2, Width, ModFits, SMTT(30)
  <2> QED
    BY <2>1, <2>3, SMTT(30) DEF z
<1> HIDE DEF e, u, k, f
<1>10. /\ BufSize - ((e + u) + k) \in 0 .. BufSize
       /\ (BufSize - ((e + u) + k)) + (u + k) <= BufSize
  BY <1>2, <1>4, <1>5
<1> QED
  BY <1>2, <1>9, <1>10 DEF f

RoomInv ==
    /\ CommitInv /\ TailInv
    /\ load.spaced => Roomy /\ HeadRead /\ WindowFits

LEMMA RoomInvStep ==
    ASSUME RoomInv, load.spaced, NEW nf, NEW pkt, NEW req \in BOOLEAN, NEW rd, NEW sd,
           NEW step \in BOOLEAN, InputsOK(nf, pkt, rd, sd),
           Cycle(nf, pkt, req, rd, sd, step)
    PROVE  Roomy' /\ HeadRead' /\ WindowFits'
<1>0. /\ TypeOK /\ PipeUp /\ NoneForDown /\ CommitMatchesAck
      /\ Apart /\ TailFresh /\ TailMatchesAck /\ Roomy /\ HeadRead /\ WindowFits
      /\ nf \in (Flows \ up) \cup {NONE} /\ nf \in Flows \cup {NONE}
      /\ rd \in Flows \cup {NONE}
      /\ NextStages(nf, pkt) /\ QueueAndCopy(nf, step) /\ WriteBack(nf) /\ AppHead(nf, rd)
      /\ up' = IF nf = NONE THEN up ELSE up \cup {nf}
      /\ up \subseteq Flows /\ BufSize \in Nat
  BY EstPipeAssumption, ZenonT(30) DEF RoomInv, CommitInv, TailInv, InputsOK, Cycle, NewFlow, TypeOK
<1>1. ASSUME NEW f \in up
      PROVE  \E n \in 0 .. Unread(f) :
                /\ f \in Flows /\ Unread(f) \in Nat /\ InFlight(f) \in Nat /\ n \in Nat
                /\ Occupied(f) \in Nat /\ NewBytes(Handed(nf), f) \in Nat
                /\ head'[f] = PtrAdd(head[f], n)
                /\ Occupied(f)' = (Occupied(f) - n) + NewBytes(Handed(nf), f)
  <2>1. f \in Flows /\ f # nf /\ Occupied(f) <= BufSize
    BY <1>0, EstPipeAssumption, ZenonT(30) DEF Roomy
  <2>2. Unread(f) \in Nat /\ Occupied(f) \in Nat /\ InFlight(f) \in Nat
    BY <1>0, <2>1, PtrsAreInts, InFlightType, ZenonT(30)
  <2>3. NewBytes(Handed(nf), f) \in Nat
    BY <1>0, NewBytesType
  <2>4. PICK n \in 0 .. Unread(f) :
           /\ head'[f] = PtrAdd(head[f], n)
           /\ Occupied(f)' = (Occupied(f) - n) + NewBytes(Handed(nf), f)
    BY <1>0, <2>1, OccupiedStep, ZenonT(30)
  <2>5. n \in Nat
    BY <2>2
  <2> QED
    BY <2>1, <2>2, <2>3, <2>4, <2>5, ZenonT(30)
<1>2. ASSUME NEW f \in up' PROVE Occupied(f)' <= BufSize
  <2>1. CASE f = nf
    <3>1. f \in Flows \ up /\ f \in Flows
      BY <1>0, <2>1, EstPipeAssumption, ZenonT(30)
    <3>2. InFlight(f)' = 0
      BY <1>0, <3>1, DownStep, SMTT(30)
    <3>3. commit'[f] = 0 /\ head'[f] = 0
      BY <1>0, <2>1, <3>1, EstPipeAssumption, ZenonT(30) DEF QueueAndCopy, AppHead, Write, TypeOK
    <3>4. Unread(f)' = 0
      BY <3>3, PtrSelf, SMTT(30) DEF Unread
    <3> QED
      BY <1>0, <3>2, <3>4, SMTT(30) DEF Occupied
  <2>2. CASE f # nf /\ ~(Proc(nf) /\ f = c.flow /\ accept_payload)
    <3>1. f \in up /\ NewBytes(Handed(nf), f) = 0
      BY <1>0, <2>2, ZenonT(30) DEF NewBytes, Handed, Compute
    <3>2. PICK n \in Nat : Occupied(f) \in Nat /\ Occupied(f)' = (Occupied(f) - n) + 0
      BY <1>1, <3>1, ZenonT(30)
    <3>3. Occupied(f) <= BufSize
      BY <1>0, <3>1, SMTT(30) DEF Roomy
    <3> QED
      BY <1>0, <3>2, <3>3, SMTT(30)
  <2>3. CASE f # nf /\ Proc(nf) /\ f = c.flow /\ accept_payload
    <3>1. f \in up /\ c # NONE
      BY <1>0, <2>3, ZenonT(30) DEF Proc
    <3>2. NewBytes(Handed(nf), f) = c.len
      BY <1>0, <2>3, <3>1, NewBytesOfCompute, ZenonT(30) DEF Handed
    <3>3. PICK n \in Nat : /\ Occupied(f) \in Nat /\ c.len \in Nat
                           /\ Occupied(f)' = (Occupied(f) - n) + c.len
      BY <1>1, <3>1, <3>2, ZenonT(30)
    <3>4. space_left >= c.len
      BY <2>3, SMTT(30) DEF accept_payload
    <3>5. space_left \in 0 .. BufSize /\ space_left + Occupied(f) <= BufSize
      BY <1>0, <2>3, <3>1, SpaceLeft, ZenonT(30)
    <3> QED
      BY <1>0, <3>3, <3>4, <3>5, SMTT(30)
  <2> QED
    BY <2>1, <2>2, <2>3
<1>3. Roomy'
  BY <1>2 DEF Roomy
<1>4. ASSUME NEW f \in Flows, c' # NONE, c'.flow = f
      PROVE  PtrSub(head'[f], c'.head) + Occupied(f)' <= BufSize
  <2>1. CASE stall_c(nf)
    <3> DEFINE e == PtrSub(head[f], c.head)
    <3>1. c' = c /\ c # NONE /\ f = c.flow /\ f \in up
      BY <1>0, <1>4, <2>1, ZenonT(30) DEF NextStages, stall_c, PipeUp, InPipe
    <3>2. NewBytes(Handed(nf), f) = 0
      BY <2>1, SMTT(30) DEF NewBytes, Handed, Proc
    <3>3. PICK n \in 0 .. Unread(f) :
             /\ Unread(f) \in Nat /\ InFlight(f) \in Nat /\ n \in Nat
             /\ head'[f] = PtrAdd(head[f], n) /\ Occupied(f)' = (Occupied(f) - n) + 0
      BY <1>1, <3>1, <3>2, ZenonT(30)
    <3>4. head[f] \in Int /\ c.head \in Int
      BY <1>0, <3>1, PtrsAreInts, InC, ZenonT(30)
    <3>5. e \in Nat
      <4>1. e \in Ptrs
        BY <3>4, PtrType, ZenonT(30)
      <4> HIDE DEF e
      <4> QED
        BY <4>1, PtrsAreNats
    <3>6. e + (Unread(f) + InFlight(f)) <= BufSize
      BY <1>0, <3>1, ZenonT(30) DEF HeadRead, Occupied
    <3>7. /\ PtrSub(PtrAdd(head[f], n), c.head) = e + n
          /\ (e + n) + (((Unread(f) + InFlight(f)) - n) + 0) <= BufSize
      BY <3>3, <3>4, <3>5, <3>6, HeadMoves, ZenonT(30)
    <3>8. c'.head = c.head /\ Occupied(f) = Unread(f) + InFlight(f)
      BY <3>1 DEF Occupied
    <3> QED
      BY <3>3, <3>7, <3>8, ZenonT(30)
  <2>2. CASE ~stall_c(nf)
    <3>1. r # NONE /\ r.flow = f /\ c'.head = head[f] /\ f \in up
      BY <1>0, <1>4, <2>2, ZenonT(30) DEF NextStages, PipeUp, InPipe
    <3>2. NewBytes(Handed(nf), f) = 0
      BY <1>0, <3>1, ZenonT(30) DEF NewBytes, Handed, Proc, Compute, Apart
    <3>3. PICK n \in 0 .. Unread(f) :
             /\ Unread(f) \in Nat /\ n \in Nat /\ Occupied(f) \in Nat
             /\ head'[f] = PtrAdd(head[f], n) /\ Occupied(f)' = (Occupied(f) - n) + 0
      BY <1>1, <3>1, <3>2, ZenonT(30)
    <3>4. head[f] \in Int /\ Unread(f) \in Ptrs
      BY <1>0, PtrsAreInts, ZenonT(30)
    <3>5. n \in Ptrs
      BY <3>3, <3>4, BelowPtr, ZenonT(30)
    <3>6. PtrSub(PtrAdd(head[f], n), head[f]) = 0 + n
      BY <3>4, <3>5, PtrOnward, ZenonT(30)
    <3>7. Occupied(f) <= BufSize
      BY <1>0, <3>1, SMTT(30) DEF Roomy
    <3>8. (0 + n) + ((Occupied(f) - n) + 0) <= BufSize
      BY <3>3, <3>7, BufPositive, SMTT(30)
    <3> QED
      BY <3>1, <3>3, <3>6, <3>8, ZenonT(30)
  <2> QED
    BY <2>1, <2>2
<1>5. HeadRead'
  BY <1>4 DEF HeadRead
<1>6. WindowFits'
  <2>1. c # NONE => Compute.rx_wnd <= BufSize
    <3> SUFFICES ASSUME c # NONE PROVE space_left <= BufSize
      BY ZenonT(30) DEF Compute
    <3>1. space_left \in 0 .. BufSize
      BY <1>0, SpaceLeft, SMTT(30)
    <3> QED
      BY <1>0, <3>1, SMTT(30)
  <2>2. w' # NONE => w'.rx_wnd <= BufSize
    <3>1. w' = w \/ (c # NONE /\ w' = Compute) \/ w' = NONE
      BY <1>0, ZenonT(30) DEF NextStages
    <3> QED
      BY <1>0, <2>1, <3>1, ZenonT(30) DEF WindowFits
  <2>3. ASSUME NEW f \in Flows PROVE rx_wnd'[f] <= BufSize
    <3>1. rx_wnd' = Write(rx_wnd, nf, BufSize, w # NONE, w.flow, w.rx_wnd)
      BY <1>0, ZenonT(30) DEF WriteBack
    <3>2. /\ rx_wnd \in [Flows -> Ptrs] /\ rx_wnd[f] <= BufSize
          /\ w # NONE => w.rx_wnd <= BufSize
      BY <1>0, ZenonT(30) DEF TypeOK, WindowFits
    <3>3. rx_wnd'[f] \in {rx_wnd[f], BufSize} \/ (w # NONE /\ rx_wnd'[f] = w.rx_wnd)
      BY <3>1, <3>2, SMTT(30) DEF Write
    <3> QED
      BY <3>2, <3>3, BufPositive
  <2> QED
    BY <2>2, <2>3, SMTT(30) DEF WindowFits
<1> QED
  BY <1>3, <1>5, <1>6, SMTT(30)

(* est_pipe never overruns a receive buffer: while the pipeline holds one    *)
(* packet of a flow at a time, what is acknowledged and not consumed fits    *)
(* the buffer, although the head pointer that a packet reads in R may be old *)
(* when C uses it, and the window that is advertised never exceeds it.       *)
THEOREM NeverOverrun == Spec => []NoOverrun
<1>1. Init => (load.spaced => Roomy /\ HeadRead /\ WindowFits)
  BY EstPipeAssumption DEF Init, Roomy, HeadRead, WindowFits
<1>2. CommitInv /\ CommitInv' /\ TailInv /\ TailInv'
      /\ (load.spaced => Roomy /\ HeadRead /\ WindowFits) /\ [Next]_vars
      => (load.spaced => Roomy /\ HeadRead /\ WindowFits)'
  <2> SUFFICES ASSUME RoomInv, [Next]_vars, load'.spaced
               PROVE  Roomy' /\ HeadRead' /\ WindowFits'
    BY SMTT(30) DEF RoomInv
  <2>1. CASE UNCHANGED vars
    BY <2>1, ZenonT(30) DEF RoomInv, Roomy, HeadRead, WindowFits, Occupied, Unread, InFlight, Waiting, vars
  <2>2. CASE Next
    <3>1. load' = load
      BY <2>2, NextIsCycle, SMTT(30) DEF RoomInv, TailInv, Cycle
    <3> QED
      BY <2>2, <3>1, NextIsCycle, RoomInvStep, ZenonT(30) DEF RoomInv, TailInv
  <2> QED
    BY <2>1, <2>2
<1>3. RoomInv => NoOverrun
  <2> SUFFICES ASSUME RoomInv, load.spaced, NEW f \in up
               PROVE  PtrSub(Received(f), head[f]) <= BufSize /\ rx_wnd[f] <= BufSize
    BY SMTT(30) DEF NoOverrun
  <2>1. TypeOK /\ CommitMatchesAck /\ Roomy /\ WindowFits /\ f \in Flows
    BY SMTT(30) DEF RoomInv, CommitInv, TypeOK
  <2> DEFINE u == Unread(f)
             k == InFlight(f)
  <2>2. /\ commit[f] \in Int /\ head[f] \in Int /\ u \in Nat /\ k \in Nat
        /\ u + k <= BufSize /\ u = PtrSub(commit[f], head[f])
        /\ Received(f) = PtrAdd(commit[f], k)
    BY <2>1, PtrsAreInts, InFlightType, SMTT(30) DEF CommitMatchesAck, Roomy, Occupied, Unread
  <2> HIDE DEF u, k
  <2>3. u + k \in 0 .. 2 * BufSize - 1 /\ k \in Int
    BY <2>2, BufPositive
  <2>4. PtrSub(PtrAdd(commit[f], k), head[f]) = u + k
    BY <2>2, <2>3, PtrAhead, SMTT(60)
  <2> QED
    BY <2>1, <2>2, <2>4 DEF WindowFits
<1> QED
  BY <1>1, <1>2, <1>3, CommitInvariant, TailInvariant, PTL DEF Spec, RoomInv
=============================================================================
