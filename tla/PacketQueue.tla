---------------------------- MODULE PacketQueue ----------------------------
(***************************************************************************)
(* The packet queue and its controller                                     *)
(* (common/packet_queue/packet_queue.sv, packet_queue_controller.sv): a    *)
(* ring with read, commit and write pointers, a controller that commits a  *)
(* frame with its last line and dumps it when the ring fills up, and a     *)
(* queue with the size in bytes of every committed packet.                 *)
(*                                                                         *)
(* One step of Next is one clock cycle: at most one line arrives and the   *)
(* reader takes at most one line.                                          *)
(***************************************************************************)
EXTENDS Integers, Sequences

CONSTANTS
    Els,         \* 2 ^ log2_els_p, lines in the ring
    LineBytes,   \* 2 ^ NOC_DATA_BYTES_W, bytes in a line
    Lines,       \* the lines that may arrive, records with fields
                 \* start, end (start_frame, end_frame) and pad (end_padbytes)
    CutShort     \* whether a frame of a single line may arrive while the
                 \* frame before it has not ended

ASSUME PacketQueueAssumption ==
    /\ Els \in Nat \ {0}
    /\ LineBytes \in Nat \ {0}
    /\ CutShort \in BOOLEAN
    /\ \A line \in Lines : /\ line.start \in BOOLEAN
                           /\ line.end \in BOOLEAN
                           /\ line.pad \in 0 .. LineBytes - 1

VARIABLES
    state,       \* state_reg of the controller
    rd_ptr,      \* pointers into the ring, with a wrap bit: 0 .. 2 * Els - 1
    cm_ptr,
    wr_ptr,
    mem,         \* fifo_mem; NoLine where nothing has been written yet
    sizes        \* contents of pkt_size_queue, oldest first

vars == <<state, rd_ptr, cm_ptr, wr_ptr, mem, sizes>>

Ptrs == 0 .. 2 * Els - 1
NoLine == [start |-> FALSE, end |-> FALSE, pad |-> -1]

(***************************************************************************)
(* Pointer arithmetic modulo 2 * Els.  A definition whose name ends in     *)
(* _bug is a mutated form of the one that follows it; no specification     *)
(* uses it.                                                                *)
(***************************************************************************)

Inc(p) == IF p + 1 = 2 * Els THEN 0 ELSE p + 1
Slot(p) == IF p >= Els THEN p - Els ELSE p
Dist(p, q) == IF q >= p THEN q - p ELSE q + 2 * Els - p

empty == rd_ptr = cm_ptr

full_commit_bug == Slot(rd_ptr) = Slot(cm_ptr) /\ rd_ptr # cm_ptr

full == Slot(rd_ptr) = Slot(wr_ptr) /\ rd_ptr # wr_ptr
curr_pkt_els == Dist(cm_ptr, Inc(wr_ptr))

Init ==
    /\ state = "READY"
    /\ rd_ptr = 0 /\ cm_ptr = 0 /\ wr_ptr = 0
    /\ mem = [s \in 0 .. Els - 1 |-> NoLine]
    /\ sizes = <<>>

(***************************************************************************)
(* The ring: what wr_req, dump_packet and cmt_packet do to the write side. *)
(***************************************************************************)
Ring_dump_bug(line, wr, dump, cmt) ==
    LET at == wr_ptr
    IN  /\ mem' = IF wr THEN [mem EXCEPT ![Slot(at)] = line] ELSE mem
        /\ wr_ptr' = IF wr THEN Inc(at) ELSE at
        /\ cm_ptr' = IF cmt THEN Inc(wr_ptr) ELSE cm_ptr

Ring_commit_bug(line, wr, dump, cmt) ==
    LET at == IF dump THEN cm_ptr ELSE wr_ptr
    IN  /\ mem' = IF wr THEN [mem EXCEPT ![Slot(at)] = line] ELSE mem
        /\ wr_ptr' = IF wr THEN Inc(at) ELSE at
        /\ cm_ptr' = IF cmt THEN wr_ptr ELSE cm_ptr

Ring(line, wr, dump, cmt) ==
    LET at == IF dump THEN cm_ptr ELSE wr_ptr
    IN  /\ mem' = IF wr THEN [mem EXCEPT ![Slot(at)] = line] ELSE mem
        /\ wr_ptr' = IF wr THEN Inc(at) ELSE at
        /\ cm_ptr' = IF cmt THEN Inc(wr_ptr) ELSE cm_ptr

(***************************************************************************)
(* The read side.  The user of the queue (packet_queue_doc.md, "Using the  *)
(* size queue") reads only when the queue is not empty and takes a size    *)
(* from the size queue together with the last line of a packet.            *)
(***************************************************************************)
Line(p) == mem[Slot(p)]
TakesSize(rd) == rd /\ Line(rd_ptr).end
AfterRead(rd) == IF TakesSize(rd) /\ sizes # <<>> THEN Tail(sizes) ELSE sizes

ReadSide(rd) ==
    /\ rd => ~empty
    /\ rd_ptr' = IF rd THEN Inc(rd_ptr) ELSE rd_ptr

(* The bytes in els lines of a packet that ends with the line, and the size *)
(* of the packet that the line being written completes.                     *)
BytesIn(els, line) == els * LineBytes - line.pad
PacketBytes(line) == BytesIn(curr_pkt_els, line)

KeepSizes(rd) == sizes' = AfterRead(rd)
AddSize(rd, line) == sizes' = Append(AfterRead(rd), PacketBytes(line))

(***************************************************************************)
(* The controller, one action per branch that a line can take.             *)
(***************************************************************************)
NoWrite(rd) ==
    /\ KeepSizes(rd)
    /\ UNCHANGED <<state, cm_ptr, wr_ptr, mem>>
    /\ ReadSide(rd)

(* READY: a line is ignored unless it starts a frame and there is room. *)
Ignore(rd, line) ==
    /\ state = "READY"
    /\ full \/ ~line.start
    /\ NoWrite(rd)

StartFrame(rd, line) ==
    /\ state = "READY" /\ ~full /\ line.start
    /\ Ring(line, TRUE, FALSE, line.end)
    /\ state' = IF line.end THEN "READY" ELSE "WRITING_FRAME"
    /\ IF line.end THEN AddSize(rd, line) ELSE KeepSizes(rd)
    /\ ReadSide(rd)

(* WRITING_FRAME and the ring is full: the frame is dumped and the rest of *)
(* it is swallowed.                                                        *)
DumpFrame(rd, line) ==
    /\ state = "WRITING_FRAME" /\ full
    /\ Ring(line, FALSE, TRUE, FALSE)
    /\ state' = IF line.end THEN "READY" ELSE "PASS_FRAME"
    /\ KeepSizes(rd)
    /\ ReadSide(rd)

EndFrame_size_bug(rd, line) ==
    /\ state = "WRITING_FRAME" /\ ~full /\ line.end
    /\ Ring(line, TRUE, FALSE, TRUE)
    /\ state' = "READY"
    /\ KeepSizes(rd)
    /\ ReadSide(rd)

EndFrame(rd, line) ==
    /\ state = "WRITING_FRAME" /\ ~full /\ line.end
    /\ Ring(line, TRUE, FALSE, TRUE)
    /\ state' = "READY"
    /\ AddSize(rd, line)
    /\ ReadSide(rd)

(* A new frame starts although the last one has not ended. *)
RestartFrame(rd, line) ==
    /\ state = "WRITING_FRAME" /\ ~full /\ ~line.end /\ line.start
    /\ Ring(line, TRUE, TRUE, FALSE)
    /\ KeepSizes(rd)
    /\ UNCHANGED state
    /\ ReadSide(rd)

MiddleOfFrame(rd, line) ==
    /\ state = "WRITING_FRAME" /\ ~full /\ ~line.end /\ ~line.start
    /\ Ring(line, TRUE, FALSE, FALSE)
    /\ KeepSizes(rd)
    /\ UNCHANGED state
    /\ ReadSide(rd)

PassFrame(rd, line) ==
    /\ state = "PASS_FRAME"
    /\ state' = IF line.end THEN "READY" ELSE "PASS_FRAME"
    /\ KeepSizes(rd)
    /\ UNCHANGED <<cm_ptr, wr_ptr, mem>>
    /\ ReadSide(rd)

(* The source of the lines. *)
Arriving ==
    IF CutShort \/ state # "WRITING_FRAME"
    THEN Lines
    ELSE {line \in Lines : ~(line.start /\ line.end)}

Next ==
    \E rd \in BOOLEAN :
        \/ NoWrite(rd)
        \/ \E line \in Arriving :
              \/ Ignore(rd, line)
              \/ StartFrame(rd, line)
              \/ DumpFrame(rd, line)
              \/ EndFrame(rd, line)
              \/ RestartFrame(rd, line)
              \/ MiddleOfFrame(rd, line)
              \/ PassFrame(rd, line)

Spec == Init /\ [][Next]_vars

-----------------------------------------------------------------------------
(* Type invariant.                                                          *)
TypeOK ==
    /\ state \in {"READY", "WRITING_FRAME", "PASS_FRAME"}
    /\ rd_ptr \in Ptrs /\ cm_ptr \in Ptrs /\ wr_ptr \in Ptrs
    /\ mem \in [0 .. Els - 1 -> Lines \union {NoLine}]
    /\ sizes \in Seq(Int)

(* The invariant of packet_queue_doc.md, rd_ptr <= cm_ptr <= wr_ptr, read   *)
(* around the ring: the commit pointer lies between the read and the write  *)
(* pointer, and the writer is never more than a ring ahead of the reader.   *)
PointerOrder ==
    /\ Dist(rd_ptr, cm_ptr) + Dist(cm_ptr, wr_ptr) = Dist(rd_ptr, wr_ptr)
    /\ Dist(rd_ptr, wr_ptr) <= Els

(* Outside WRITING_FRAME no line is written and not committed, and in it    *)
(* at least one is, so a frame cannot lose its first line.                  *)
UncommittedOnlyWhileWriting ==
    (state = "WRITING_FRAME") <=> (cm_ptr # wr_ptr)

(* The lines from p up to q. *)
From(p, q) == [i \in 1 .. Dist(p, q) |-> mem[Slot(Slot(p) + i - 1)]]

(* The committed, unread lines.                                             *)
Unread == From(rd_ptr, cm_ptr)

(* The queue of sizes sz describes the lines u, in which the n-th packet    *)
(* ends at e[n]: every packet has its size, no other line ends one, the     *)
(* last line does.  Some of the first packet's lines may be gone already.   *)
Describes(sz, u, e) ==
    /\ {e[n] : n \in 1 .. Len(sz)} = {i \in 1 .. Len(u) : u[i].end}
    /\ \A n \in 1 .. Len(sz) - 1 : e[n] < e[n + 1]
    /\ u # <<>> => u[Len(u)].end
    /\ sz # <<>> => sz[1] >= BytesIn(e[1], u[e[1]])
    /\ \A n \in 1 .. Len(sz) - 1 : sz[n + 1] = BytesIn(e[n + 1] - e[n], u[e[n + 1]])

(* "It is very important the size queue is kept in sync with the data       *)
(* queue" (packet_queue_doc.md): there is one size for every unread packet, *)
(* in order, and it is the number of bytes of that packet.                  *)
SizesInSync ==
    \E e \in [1 .. Len(sizes) -> 1 .. Len(Unread)] : Describes(sizes, Unread, e)

(* The controller writes the size queue without looking at its full flag:   *)
(* it can never have more entries than the ring has lines.                  *)
SizeQueueFits == Len(sizes) <= Els

(* Every frame the reader sees is one frame as it arrived: lines enter the  *)
(* readable part only as a complete frame (PacketFifo).  It needs ~CutShort:*)
(* WRITING_FRAME tests end_frame before start_frame, so a frame of one line *)
(* is appended to the frame it cuts short and committed together with it.   *)
PF == INSTANCE PacketFifo WITH ready <- Unread, partial <- From(cm_ptr, wr_ptr)
WholeFrames == PF!Spec
=============================================================================
