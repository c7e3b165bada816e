---------------------------- MODULE PacketFifo ----------------------------
(***************************************************************************)
(* What the packet queue promises (common/packet_queue/packet_queue_doc.md *)
(* and the comments of packet_queue.sv): a FIFO of lines into which frames *)
(* enter whole.  Lines of a frame that is still arriving are not visible   *)
(* to the reader; a frame may be thrown away, but never in part.           *)
(***************************************************************************)
EXTENDS Sequences

CONSTANT Lines   \* the lines that may arrive

VARIABLES
    ready,    \* lines of complete frames, oldest first
    partial   \* lines of the frame that is arriving

(* What the reader does to the lines that are ready. *)
AfterRead == {ready} \union (IF ready = <<>> THEN {} ELSE {Tail(ready)})

Init == ready = <<>> /\ partial = <<>>

(* No line of a frame is kept in this cycle: nothing arrives, or the frame *)
(* in progress is thrown away.                                             *)
Quiet ==
    /\ ready' \in AfterRead
    /\ partial' \in {partial, <<>>}

(* The first line of a frame; the unfinished frame before it is dropped.    *)
Start(line) ==
    /\ line.start /\ ~line.end
    /\ partial' = <<line>>
    /\ ready' \in AfterRead

Continue(line) ==
    /\ ~line.start /\ ~line.end
    /\ partial # <<>>
    /\ partial' = Append(partial, line)
    /\ ready' \in AfterRead

(* The last line makes the whole frame readable at once. *)
Complete(line) ==
    /\ line.end
    /\ line.start <=> partial = <<>>
    /\ partial' = <<>>
    /\ \E r \in AfterRead : ready' = r \o Append(partial, line)

Next ==
    \/ Quiet
    \/ \E line \in Lines : Start(line) \/ Continue(line) \/ Complete(line)

Spec == Init /\ [][Next]_<<ready, partial>>
===========================================================================
