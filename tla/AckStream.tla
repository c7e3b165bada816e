----------------------------- MODULE AckStream -----------------------------
(***************************************************************************)
(* tx_ack_engine on a stream of packets: from the initial state of a flow, *)
(* packets with any ACK number arrive one after the other while the sender *)
(* moves the sequence number inside its transmit buffer.  Each step        *)
(* applies the engine to the packet in pkt, as est_pipe does; the sender   *)
(* works on the ACK number of before the step, as protocol_logic_pipe does.*)
(***************************************************************************)
EXTENDS AckEngines

CONSTANT TxBuf      \* bytes of a flow's transmit buffer

ASSUME AckStreamAssumption == TxBuf \in Nat /\ TxBuf < SeqSpace

VARIABLES
    tx_curr_seq_num,
    tx_curr_ack_num,
    tx_curr_ack_cnt,
    pkt                \* ACK number of the packet at the engine

vars == <<tx_curr_seq_num, tx_curr_ack_num, tx_curr_ack_cnt, pkt>>

SeqAdd(x, n) == IF x + n < SeqSpace THEN x + n ELSE x + n - SeqSpace

(* The initial sequence number of a flow may be any.                         *)
Init ==
    /\ tx_curr_seq_num \in SeqNums
    /\ tx_curr_ack_num = tx_curr_seq_num
    /\ tx_curr_ack_cnt = 0
    /\ pkt \in SeqNums

Next ==
    /\ tx_curr_ack_num' = TxNextAck(tx_curr_ack_num, pkt, tx_curr_seq_num)
    /\ tx_curr_ack_cnt' = TxNextCnt(tx_curr_ack_num, pkt, tx_curr_seq_num, tx_curr_ack_cnt)
    /\ \E n \in 0 .. TxBuf : tx_curr_seq_num' = SeqAdd(tx_curr_ack_num, n)
    /\ pkt' \in SeqNums

Spec == Init /\ [][Next]_vars

-----------------------------------------------------------------------------
(* The state memories hold sequence numbers, and the two-bit count of        *)
(* duplicate ACKs never stores the threshold itself.                         *)
TypeOK ==
    /\ tx_curr_seq_num \in SeqNums
    /\ tx_curr_ack_num \in SeqNums
    /\ tx_curr_ack_cnt \in 0 .. RT_ACK_THRESHOLD - 1
    /\ pkt \in SeqNums

(* The distance from the oldest unacknowledged byte on the circle of         *)
(* sequence numbers.                                                         *)
Ahead(x) ==
    IF x >= tx_curr_ack_num THEN x - tx_curr_ack_num
    ELSE x - tx_curr_ack_num + SeqSpace

(* The definition the two branches of the engine implement: an ACK is new    *)
(* when it lies ahead of the last one and not beyond what was sent.          *)
NewAck == 0 < Ahead(pkt) /\ Ahead(pkt) <= Ahead(tx_curr_seq_num)

Taken == TxAckValid(tx_curr_ack_num, pkt, tx_curr_seq_num)

(* The comparisons of tx_ack_engine, one pair for a wrapped and one for an   *)
(* unwrapped sequence number, take exactly the new ACKs, on both sides of    *)
(* the wrap, apart from two boundary cases of the unwrapped branch, which    *)
(* tests pkt_ack_num <= curr_seq_num + 1: an ACK of one byte more than was   *)
(* sent is taken, and at the largest sequence number, where the + 1 wraps to *)
(* 0, no ACK is.                                                             *)
TakesNewAcks ==
    (tx_curr_seq_num # SeqSpace - 1 /\ pkt # PlusOne(tx_curr_seq_num))
        => (Taken <=> NewAck)

(* A retransmission is requested only while data is outstanding, as the      *)
(* comment on set_rt_flag claims, and only by a duplicate ACK.               *)
RtOnlyWhenOutstanding ==
    SetRtFlag(tx_curr_ack_num, pkt, tx_curr_seq_num, tx_curr_ack_cnt)
        => /\ DataUnacked(tx_curr_ack_num, tx_curr_seq_num)
           /\ DupAck(tx_curr_ack_num, pkt, tx_curr_seq_num)
=============================================================================
