--------------------------- MODULE AckStreamProofs ---------------------------
(* Theorems about tx_ack_engine for every width of the sequence numbers.     *)
EXTENDS AckStream, TLAPS

(* Every register of AckStream keeps a value of its width; the count of      *)
(* duplicate ACKs stays below the threshold that clears it.                  *)
THEOREM TypeCorrect == Spec => []TypeOK
<1>1. Init => TypeOK
  BY AckEnginesAssumption DEF Init, TypeOK, SeqNums
<1>2. TypeOK /\ [Next]_vars => TypeOK'
  <2> SUFFICES ASSUME TypeOK, [Next]_vars PROVE TypeOK'
    OBVIOUS
  <2>1. CASE UNCHANGED vars
    BY <2>1 DEF TypeOK, vars
  <2>2. CASE Next
    <3>1. tx_curr_ack_num' \in SeqNums
      BY <2>2 DEF Next, TypeOK, TxNextAck
    <3>2. tx_curr_ack_cnt' \in 0 .. RT_ACK_THRESHOLD - 1
      BY <2>2, AckEnginesAssumption DEF Next, TypeOK, TxNextCnt, SetRtFlag, DupCount
    <3>3. tx_curr_seq_num' \in SeqNums
      BY <2>2, AckEnginesAssumption, AckStreamAssumption DEF Next, TypeOK, SeqAdd, SeqNums
    <3> QED
      BY <2>2, <3>1, <3>2, <3>3 DEF Next, TypeOK
  <2> QED
    BY <2>1, <2>2
<1> QED
  BY <1>1, <1>2, PTL DEF Spec

(* The two pairs of comparisons of tx_ack_engine take exactly the ACKs that  *)
(* are ahead of the last one and not beyond what was sent, for sequence      *)
(* numbers of any width and on both sides of the wrap, away from the largest *)
(* sequence number and from the ACK of the byte after the last one sent.     *)
THEOREM AckComparisonsCorrect == Spec => []TakesNewAcks
<1>1. TypeOK => TakesNewAcks
  <2> SUFFICES ASSUME TypeOK,
                      tx_curr_seq_num # SeqSpace - 1,
                      pkt # PlusOne(tx_curr_seq_num)
               PROVE  Taken <=> NewAck
    BY DEF TakesNewAcks
  <2>1. CASE tx_curr_seq_num < tx_curr_ack_num
    BY <2>1, AckEnginesAssumption
    DEF TypeOK, SeqNums, Taken, NewAck, Ahead, TxAckValid, DataUnacked, PlusOne
  <2>2. CASE ~(tx_curr_seq_num < tx_curr_ack_num)
    BY <2>2, AckEnginesAssumption
    DEF TypeOK, SeqNums, Taken, NewAck, Ahead, TxAckValid, DataUnacked, PlusOne
  <2> QED
    BY <2>1, <2>2
<1> QED
  BY <1>1, TypeCorrect, PTL

(* set_rt_flag is raised only by a duplicate ACK while data is outstanding,  *)
(* as the comment in tx_ack_engine claims: the count never rests at the      *)
(* threshold.                                                                *)
THEOREM RetransmitOnlyWhenOutstanding == Spec => []RtOnlyWhenOutstanding
<1>1. TypeOK => RtOnlyWhenOutstanding
  BY AckEnginesAssumption
  DEF TypeOK, RtOnlyWhenOutstanding, SetRtFlag, DupCount, DupAck
<1> QED
  BY <1>1, TypeCorrect, PTL
==============================================================================
