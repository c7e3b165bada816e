---------------------------- MODULE AckEngines ----------------------------
(***************************************************************************)
(* The combinational blocks that decide what an arriving packet does to a  *)
(* flow: rx_ack_engine.sv (is the payload the next in-order data?) and     *)
(* tx_ack_engine.sv (does the packet acknowledge data we sent, or is it a  *)
(* duplicate ACK?).  Sequence numbers are naturals modulo SeqSpace.          *)
(***************************************************************************)
EXTENDS Integers

CONSTANTS
    SeqSpace,             \* 2 ^ SEQ_NUM_W
    RT_ACK_THRESHOLD    \* duplicate ACKs that trigger a retransmission

ASSUME AckEnginesAssumption ==
    /\ SeqSpace \in Nat \ {0}
    /\ RT_ACK_THRESHOLD \in Nat \ {0}

SeqNums == 0 .. SeqSpace - 1

(* Definitions whose names end in _bug are mutated forms of the definition  *)
(* that follows them; no specification uses them.                           *)

(***************************************************************************)
(* rx_ack_engine.  packet_payload_val is driven as payload_len # 0.        *)
(***************************************************************************)
RxAccept(curr_ack_num, seq_num, len) ==
    len # 0 /\ seq_num = curr_ack_num

RxNextAck(curr_ack_num, seq_num, len) ==
    IF RxAccept(curr_ack_num, seq_num, len)
    THEN (seq_num + len) % SeqSpace
    ELSE curr_ack_num

(***************************************************************************)
(* tx_ack_engine.                                                          *)
(***************************************************************************)
DataUnacked(curr_ack_num, curr_seq_num) == curr_seq_num # curr_ack_num

DupAck(curr_ack_num, pkt_ack_num, curr_seq_num) ==
    curr_ack_num = pkt_ack_num /\ DataUnacked(curr_ack_num, curr_seq_num)

(* The 32-bit curr_seq_num + 1.                                              *)
PlusOne(curr_seq_num) == IF curr_seq_num = SeqSpace - 1 THEN 0 ELSE curr_seq_num + 1

(* Is pkt_ack_num taken as the new ACK number?                               *)
TxAckValid_nowrap_bug(curr_ack_num, pkt_ack_num, curr_seq_num) ==
    /\ DataUnacked(curr_ack_num, curr_seq_num)
    /\ pkt_ack_num > curr_ack_num
    /\ pkt_ack_num <= PlusOne(curr_seq_num)

TxAckValid_any_old_bug(curr_ack_num, pkt_ack_num, curr_seq_num) ==
    /\ DataUnacked(curr_ack_num, curr_seq_num)
    /\ IF curr_seq_num < curr_ack_num
       THEN pkt_ack_num > curr_ack_num \/ pkt_ack_num < PlusOne(curr_seq_num)
       ELSE pkt_ack_num <= PlusOne(curr_seq_num)

TxAckValid(curr_ack_num, pkt_ack_num, curr_seq_num) ==
    /\ DataUnacked(curr_ack_num, curr_seq_num)
    /\ IF curr_seq_num < curr_ack_num
       THEN pkt_ack_num > curr_ack_num \/ pkt_ack_num < PlusOne(curr_seq_num)
       ELSE pkt_ack_num > curr_ack_num /\ pkt_ack_num <= PlusOne(curr_seq_num)

TxNextAck(curr_ack_num, pkt_ack_num, curr_seq_num) ==
    IF TxAckValid(curr_ack_num, pkt_ack_num, curr_seq_num)
    THEN pkt_ack_num
    ELSE curr_ack_num

(* curr_ack_cnt + dup_ack.                                                   *)
DupCount(curr_ack_num, pkt_ack_num, curr_seq_num, cnt) ==
    IF DupAck(curr_ack_num, pkt_ack_num, curr_seq_num) THEN cnt + 1 ELSE cnt

SetRtFlag(curr_ack_num, pkt_ack_num, curr_seq_num, cnt) ==
    DupCount(curr_ack_num, pkt_ack_num, curr_seq_num, cnt) = RT_ACK_THRESHOLD

TxNextCnt_no_clear_bug(curr_ack_num, pkt_ack_num, curr_seq_num, cnt) ==
    IF \/ ~DataUnacked(curr_ack_num, curr_seq_num)
       \/ ~DupAck(curr_ack_num, pkt_ack_num, curr_seq_num)
    THEN 0
    ELSE DupCount(curr_ack_num, pkt_ack_num, curr_seq_num, cnt)

TxNextCnt(curr_ack_num, pkt_ack_num, curr_seq_num, cnt) ==
    IF \/ ~DataUnacked(curr_ack_num, curr_seq_num)
       \/ SetRtFlag(curr_ack_num, pkt_ack_num, curr_seq_num, cnt)
       \/ ~DupAck(curr_ack_num, pkt_ack_num, curr_seq_num)
    THEN 0
    ELSE DupCount(curr_ack_num, pkt_ack_num, curr_seq_num, cnt)
===========================================================================
