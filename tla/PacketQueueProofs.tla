------------------------- MODULE PacketQueueProofs -------------------------
(* Proofs about the packet queue, for rings of any size and any lines.     *)
EXTENDS PacketQueue, Arithmetic, TLAPS

(* Pointer arithmetic stays in range, and moving one end of a stretch of    *)
(* the ring by one changes its length by one.                               *)
LEMMA PtrArith ==
    ASSUME NEW p \in Ptrs, NEW q \in Ptrs
    PROVE  /\ Inc(p) \in Ptrs
           /\ Slot(p) \in 0 .. Els - 1
           /\ Dist(p, q) \in 0 .. 2 * Els - 1
           /\ Dist(p, q) = 0 <=> p = q
           /\ Dist(p, q) # 2 * Els - 1 => Dist(p, Inc(q)) = Dist(p, q) + 1
           /\ p # q => Dist(Inc(p), q) = Dist(p, q) - 1
           /\ (Slot(p) = Slot(q) /\ p # q) <=> Dist(p, q) = Els
BY PacketQueueAssumption DEF Ptrs, Inc, Slot, Dist

(* The inductive invariant.  The last conjunct is needed for RestartFrame:  *)
(* because a line of the old frame is in the ring, dumping it makes room    *)
(* for the new frame's first line.                                          *)
IInv == TypeOK /\ PointerOrder /\ UncommittedOnlyWhileWriting

(* After reset the ring is empty and the controller READY.                  *)
LEMMA InitIInv == Init => IInv
<1> SUFFICES ASSUME Init PROVE IInv
  OBVIOUS
<1>1. TypeOK
  BY PacketQueueAssumption DEF Init, TypeOK, Ptrs
<1>2. PointerOrder
  BY PacketQueueAssumption DEF Init, PointerOrder, Dist
<1>3. UncommittedOnlyWhileWriting
  BY DEF Init, UncommittedOnlyWhileWriting
<1> QED BY <1>1, <1>2, <1>3 DEF IInv

(* The size queue keeps its type, whatever the reader and the controller do.*)
LEMMA SizesType ==
    ASSUME TypeOK, NEW rd \in BOOLEAN, NEW line \in Lines,
           KeepSizes(rd) \/ AddSize(rd, line)
    PROVE  sizes' \in Seq(Int)
<1>1. AfterRead(rd) \in Seq(Int)
  BY DEF TypeOK, AfterRead
<1>2. PacketBytes(line) \in Int
  <2>1. curr_pkt_els \in Int
    BY PtrArith, SMTT(30) DEF TypeOK, curr_pkt_els, Ptrs
  <2> QED BY <2>1, PacketQueueAssumption DEF PacketBytes, BytesIn
<1> QED BY <1>1, <1>2 DEF KeepSizes, AddSize

(* Moving the read pointer keeps the order of the pointers. *)
LEMMA ReadKeepsOrder ==
    ASSUME TypeOK, NEW rd \in BOOLEAN, ReadSide(rd), PointerOrder,
           NEW c \in Ptrs, NEW w \in Ptrs,
           Dist(rd_ptr, c) + Dist(c, w) = Dist(rd_ptr, w),
           Dist(rd_ptr, w) <= Els,
           Dist(rd_ptr, cm_ptr) <= Dist(rd_ptr, c)
    PROVE  /\ rd_ptr' \in Ptrs
           /\ Dist(rd_ptr', c) + Dist(c, w) = Dist(rd_ptr', w)
           /\ Dist(rd_ptr', w) <= Els
<1>1. CASE ~rd
  BY <1>1 DEF ReadSide, TypeOK
<1>2. CASE rd
  <2>1. rd_ptr' = Inc(rd_ptr) /\ rd_ptr # cm_ptr /\ rd_ptr \in Ptrs /\ cm_ptr \in Ptrs
    BY <1>2 DEF ReadSide, empty, TypeOK
  <2> QED BY <2>1, PacketQueueAssumption DEF Ptrs, Inc, Dist
<1> QED BY <1>1, <1>2

(* What is left to show of an action once its write side is known: the new  *)
(* commit and write pointers are in order with the old read pointer.        *)
LEMMA WriteStep ==
    ASSUME TypeOK, PointerOrder, NEW rd \in BOOLEAN, ReadSide(rd),
           sizes' \in Seq(Int),
           state' \in {"READY", "WRITING_FRAME", "PASS_FRAME"},
           mem' \in [0 .. Els - 1 -> Lines \union {NoLine}],
           cm_ptr' \in Ptrs, wr_ptr' \in Ptrs,
           Dist(rd_ptr, cm_ptr') + Dist(cm_ptr', wr_ptr') = Dist(rd_ptr, wr_ptr'),
           Dist(rd_ptr, wr_ptr') <= Els,
           Dist(rd_ptr, cm_ptr) <= Dist(rd_ptr, cm_ptr')
    PROVE  TypeOK' /\ PointerOrder'
<1>1. /\ rd_ptr' \in Ptrs
      /\ Dist(rd_ptr', cm_ptr') + Dist(cm_ptr', wr_ptr') = Dist(rd_ptr', wr_ptr')
      /\ Dist(rd_ptr', wr_ptr') <= Els
  BY ReadKeepsOrder
<1> QED BY <1>1 DEF TypeOK, PointerOrder, Dist

(* The ring's write side: where the pointers go for each use the controller *)
(* makes of it.                                                             *)
LEMMA RingStep ==
    ASSUME IInv, NEW line \in Lines, NEW wr \in BOOLEAN, NEW dump \in BOOLEAN,
           NEW cmt \in BOOLEAN, Ring(line, wr, dump, cmt),
           wr => ~full,
           dump => state = "WRITING_FRAME",
           cmt => wr /\ ~dump
    PROVE  /\ mem' \in [0 .. Els - 1 -> Lines \union {NoLine}]
           /\ cm_ptr' \in Ptrs /\ wr_ptr' \in Ptrs
           /\ Dist(rd_ptr, cm_ptr') + Dist(cm_ptr', wr_ptr') = Dist(rd_ptr, wr_ptr')
           /\ Dist(rd_ptr, wr_ptr') <= Els
           /\ Dist(rd_ptr, cm_ptr) <= Dist(rd_ptr, cm_ptr')
           /\ (cm_ptr' # wr_ptr') <=> (~cmt /\ (wr \/ (~dump /\ cm_ptr # wr_ptr)))
<1> DEFINE at == IF dump THEN cm_ptr ELSE wr_ptr
<1>1. rd_ptr \in Ptrs /\ cm_ptr \in Ptrs /\ wr_ptr \in Ptrs /\ at \in Ptrs
  BY DEF IInv, TypeOK
<1>2. /\ wr_ptr' = IF wr THEN Inc(at) ELSE at
      /\ cm_ptr' = IF cmt THEN Inc(wr_ptr) ELSE cm_ptr
      /\ mem' = IF wr THEN [mem EXCEPT ![Slot(at)] = line] ELSE mem
  BY DEF Ring
<1>3. mem' \in [0 .. Els - 1 -> Lines \union {NoLine}]
  <2>1. Slot(at) \in 0 .. Els - 1
    BY <1>1, PtrArith
  <2> HIDE DEF at
  <2> QED BY <1>2, <2>1 DEF IInv, TypeOK
<1>4. cm_ptr' \in Ptrs /\ wr_ptr' \in Ptrs
  <2>1. Inc(at) \in Ptrs /\ Inc(wr_ptr) \in Ptrs
    BY <1>1, PtrArith
  <2> HIDE DEF at
  <2> QED BY <1>1, <1>2, <2>1
<1>5. wr => Dist(rd_ptr, wr_ptr) < Els
  BY <1>1, PtrArith, PacketQueueAssumption DEF IInv, PointerOrder, full
<1>6. dump => cm_ptr # wr_ptr
  BY DEF IInv, UncommittedOnlyWhileWriting
<1>7. /\ Dist(rd_ptr, cm_ptr) + Dist(cm_ptr, wr_ptr) = Dist(rd_ptr, wr_ptr)
      /\ Dist(rd_ptr, wr_ptr) <= Els
  BY DEF IInv, PointerOrder
<1>8. CASE ~wr /\ ~dump
  <2>1. cm_ptr' = cm_ptr /\ wr_ptr' = wr_ptr /\ ~cmt
    BY <1>2, <1>8
  <2>2. Dist(rd_ptr, cm_ptr) <= Dist(rd_ptr, cm_ptr)
    BY <1>1, PacketQueueAssumption DEF Ptrs, Dist
  <2> QED BY <1>3, <1>4, <1>7, <1>8, <2>1, <2>2
<1>9. CASE ~wr /\ dump
  BY <1>1, <1>2, <1>7, <1>9, <1>3, <1>4, PacketQueueAssumption DEF Ptrs, Dist
<1>10. CASE wr /\ dump
  BY <1>1, <1>2, <1>6, <1>7, <1>10, <1>3, <1>4, PacketQueueAssumption DEF Ptrs, Dist, Inc
<1>11. CASE wr /\ ~dump /\ cmt
  BY <1>1, <1>2, <1>5, <1>7, <1>11, <1>3, <1>4, PacketQueueAssumption DEF Ptrs, Dist, Inc
<1>12. CASE wr /\ ~dump /\ ~cmt
  BY <1>1, <1>2, <1>5, <1>7, <1>12, <1>3, <1>4, PacketQueueAssumption DEF Ptrs, Dist, Inc
<1> QED BY <1>8, <1>9, <1>10, <1>11, <1>12

(* Every branch of the controller, with or without a read in the same       *)
(* cycle, keeps the invariant.                                              *)
LEMMA NextIInv == IInv /\ [Next]_vars => IInv'
<1> SUFFICES ASSUME IInv, [Next]_vars PROVE IInv'
  OBVIOUS
<1>0. TypeOK /\ PointerOrder /\ UncommittedOnlyWhileWriting
  BY DEF IInv
<1>1. CASE UNCHANGED vars
  BY <1>1 DEF vars, IInv, TypeOK, PointerOrder, UncommittedOnlyWhileWriting, Dist
<1>2. ASSUME NEW rd \in BOOLEAN, NoWrite(rd) PROVE IInv'
  <2>1. sizes' \in Seq(Int)
    BY <1>0, <1>2 DEF TypeOK, NoWrite, KeepSizes, AfterRead
  <2>2. Dist(rd_ptr, cm_ptr) <= Dist(rd_ptr, cm_ptr)
    BY <1>0, PacketQueueAssumption DEF TypeOK, Ptrs, Dist
  <2>3. TypeOK' /\ PointerOrder'
    BY <1>0, <1>2, <2>1, <2>2, WriteStep DEF NoWrite, TypeOK, PointerOrder
  <2>4. UncommittedOnlyWhileWriting'
    BY <1>0, <1>2 DEF NoWrite, UncommittedOnlyWhileWriting
  <2> QED BY <2>3, <2>4 DEF IInv
<1>3. ASSUME NEW rd \in BOOLEAN, NEW line \in Lines,
             \/ StartFrame(rd, line)
             \/ DumpFrame(rd, line)
             \/ EndFrame(rd, line)
             \/ RestartFrame(rd, line)
             \/ MiddleOfFrame(rd, line)
             \/ PassFrame(rd, line)
      PROVE  IInv'
  <2>0. line.start \in BOOLEAN /\ line.end \in BOOLEAN
    BY <1>3, PacketQueueAssumption
  <2>1. sizes' \in Seq(Int) /\ ReadSide(rd)
    BY <1>0, <1>3, SizesType, ZenonT(30)
       DEF StartFrame, DumpFrame, EndFrame, RestartFrame, MiddleOfFrame, PassFrame
  <2>2. CASE StartFrame(rd, line)
    <3>1. Ring(line, TRUE, FALSE, line.end) /\ ~full /\ state = "READY"
      BY <2>2, ZenonT(30) DEF StartFrame
    <3>2. state' = IF line.end THEN "READY" ELSE "WRITING_FRAME"
      BY <2>2 DEF StartFrame
    <3> QED BY <1>0, <2>0, <2>1, <3>1, <3>2, RingStep, WriteStep, ZenonT(30)
            DEF IInv, UncommittedOnlyWhileWriting
  <2>3. CASE DumpFrame(rd, line)
    <3>1. Ring(line, FALSE, TRUE, FALSE) /\ state = "WRITING_FRAME"
      BY <2>3, ZenonT(30) DEF DumpFrame
    <3>2. state' = IF line.end THEN "READY" ELSE "PASS_FRAME"
      BY <2>3 DEF DumpFrame
    <3> QED BY <1>0, <2>1, <3>1, <3>2, RingStep, WriteStep, ZenonT(30)
            DEF IInv, UncommittedOnlyWhileWriting
  <2>4. CASE EndFrame(rd, line)
    <3>1. Ring(line, TRUE, FALSE, TRUE) /\ ~full /\ state' = "READY"
      BY <2>4, ZenonT(30) DEF EndFrame
    <3> QED BY <1>0, <2>1, <3>1, RingStep, WriteStep, ZenonT(30)
            DEF IInv, UncommittedOnlyWhileWriting
  <2>5. CASE RestartFrame(rd, line)
    <3>1. /\ Ring(line, TRUE, TRUE, FALSE) /\ ~full
          /\ state = "WRITING_FRAME" /\ state' = state
      BY <2>5, ZenonT(30) DEF RestartFrame
    <3> QED BY <1>0, <2>1, <3>1, RingStep, WriteStep, ZenonT(30)
            DEF IInv, UncommittedOnlyWhileWriting
  <2>6. CASE MiddleOfFrame(rd, line)
    <3>1. /\ Ring(line, TRUE, FALSE, FALSE) /\ ~full
          /\ state = "WRITING_FRAME" /\ state' = state
      BY <2>6, ZenonT(30) DEF MiddleOfFrame
    <3> QED BY <1>0, <2>1, <3>1, RingStep, WriteStep, ZenonT(30)
            DEF IInv, UncommittedOnlyWhileWriting
  <2>7. CASE PassFrame(rd, line)
    <3>1. /\ UNCHANGED <<cm_ptr, wr_ptr, mem>> /\ state = "PASS_FRAME"
          /\ state' \in {"READY", "PASS_FRAME"}
      BY <2>7 DEF PassFrame
    <3>2. Dist(rd_ptr, cm_ptr) <= Dist(rd_ptr, cm_ptr)
      BY <1>0, PacketQueueAssumption DEF TypeOK, Ptrs, Dist
    <3>3. TypeOK' /\ PointerOrder'
      BY <1>0, <2>1, <3>1, <3>2, WriteStep DEF TypeOK, PointerOrder
    <3> QED BY <1>0, <3>1, <3>3 DEF IInv, UncommittedOnlyWhileWriting
  <2> QED BY <1>3, <2>2, <2>3, <2>4, <2>5, <2>6, <2>7
<1> QED BY <1>1, <1>2, <1>3 DEF Next, Arriving, Ignore

(* For rings of any size, the controller's state and the pointers keep      *)
(* their types.                                                             *)
THEOREM TypeCorrect == Spec => []TypeOK
<1>1. IInv => TypeOK
  BY DEF IInv
<1> QED BY <1>1, InitIInv, NextIInv, PTL DEF Spec

(* The documented pointer invariant holds for rings of any size, whatever   *)
(* lines arrive and whenever the reader reads.                              *)
THEOREM PointersOrdered == Spec => []PointerOrder
<1>1. IInv => PointerOrder
  BY DEF IInv
<1> QED BY <1>1, InitIInv, NextIInv, PTL DEF Spec

(* Uncommitted lines are in the ring exactly while a frame is being         *)
(* written, for rings of any size.                                          *)
THEOREM UncommittedExactlyWhileWriting == Spec => []UncommittedOnlyWhileWriting
<1>1. IInv => UncommittedOnlyWhileWriting
  BY DEF IInv
<1> QED BY <1>1, InitIInv, NextIInv, PTL DEF Spec

(***************************************************************************)
(* The lines in the ring.                                                  *)
(***************************************************************************)
(* The lines of memory m from p up to q.                                    *)
FromIn(m, p, q) == [i \in 1 .. Dist(p, q) |-> m[Slot(Slot(p) + i - 1)]]

(* The place of the i-th line from p.                                       *)
LEMMA Places ==
    ASSUME NEW p \in Ptrs, NEW q \in Ptrs
    PROVE  /\ \A i \in 1 .. Els : Slot(Slot(p) + i - 1) \in 0 .. Els - 1
           /\ \A i \in 1 .. Els - 1 : Slot(Slot(Inc(p)) + i - 1) = Slot(Slot(p) + (i + 1) - 1)
           /\ Slot(Slot(p) + 1 - 1) = Slot(p)
           /\ Dist(p, q) < Els => Slot(Slot(p) + (Dist(p, q) + 1) - 1) = Slot(q)
           /\ \A i \in 1 .. Els : Dist(p, q) < Els /\ i # Dist(p, q) + 1
                                    => Slot(Slot(p) + i - 1) # Slot(q)
           /\ \A i \in 1 .. Els : Dist(p, q) + i <= Els
                 => Slot(Slot(q) + i - 1) = Slot(Slot(p) + (Dist(p, q) + i) - 1)
<1> USE PacketQueueAssumption DEF Ptrs, Inc, Slot, Dist
<1>1. \A i \in 1 .. Els : Slot(Slot(p) + i - 1) \in 0 .. Els - 1
  OBVIOUS
<1>2. \A i \in 1 .. Els - 1 : Slot(Slot(Inc(p)) + i - 1) = Slot(Slot(p) + (i + 1) - 1)
  OBVIOUS
<1>3. Slot(Slot(p) + 1 - 1) = Slot(p)
  OBVIOUS
<1>4. Dist(p, q) < Els => Slot(Slot(p) + (Dist(p, q) + 1) - 1) = Slot(q)
  OBVIOUS
<1>5. ASSUME NEW i \in 1 .. Els, Dist(p, q) < Els, i # Dist(p, q) + 1
      PROVE  Slot(Slot(p) + i - 1) # Slot(q)
  BY <1>5
<1>6. ASSUME NEW i \in 1 .. Els, Dist(p, q) + i <= Els
      PROVE  Slot(Slot(q) + i - 1) = Slot(Slot(p) + (Dist(p, q) + i) - 1)
  BY <1>6
<1> QED
  BY <1>1, <1>2, <1>3, <1>4, <1>5, <1>6

Cells == Lines \union {NoLine}

LEMMA DistNat ==
    ASSUME NEW p \in Ptrs, NEW q \in Ptrs
    PROVE  /\ Els \in Nat /\ Dist(p, q) \in Nat /\ Inc(q) \in Ptrs
           /\ Dist(p, q) < Els => Dist(p, Inc(q)) = Dist(p, q) + 1
BY PacketQueueAssumption DEF Ptrs, Inc, Dist

LEMMA FromInType ==
    ASSUME NEW m \in [0 .. Els - 1 -> Cells], NEW p \in Ptrs, NEW q \in Ptrs,
           Dist(p, q) <= Els
    PROVE  /\ FromIn(m, p, q) \in Seq(Cells)
           /\ Len(FromIn(m, p, q)) = Dist(p, q)
           /\ Dist(p, q) \in Nat
           /\ \A i \in 1 .. Dist(p, q) : FromIn(m, p, q)[i] = m[Slot(Slot(p) + i - 1)]
<1> DEFINE k == Dist(p, q)
           at(i) == m[Slot(Slot(p) + i - 1)]
<1>1. k \in Nat /\ k <= Els
  BY DistNat
<1>2. \A i \in 1 .. Els : Slot(Slot(p) + i - 1) \in 0 .. Els - 1
  BY Places
<1>3. \A i \in 1 .. k : i \in 1 .. Els
  BY <1>1, PacketQueueAssumption
<1>4. \A i \in 1 .. k : at(i) \in Cells
  BY <1>2, <1>3
<1> HIDE DEF at, k
<1>5. [i \in 1 .. k |-> at(i)] \in Seq(Cells) /\ Len([i \in 1 .. k |-> at(i)]) = k
  BY <1>1, <1>4
<1>6. FromIn(m, p, q) = [i \in 1 .. k |-> at(i)]
  BY DEF FromIn, k, at
<1> QED
  BY <1>1, <1>5, <1>6 DEF k, at

LEMMA FromEmpty ==
    ASSUME NEW m, NEW p \in Ptrs
    PROVE  FromIn(m, p, p) = <<>>
<1>1. Dist(p, p) = 0
  BY PtrArith
<1> QED
  BY <1>1 DEF FromIn

(* The reader takes the first line.                                         *)
LEMMA FromTail ==
    ASSUME NEW m \in [0 .. Els - 1 -> Cells], NEW p \in Ptrs, NEW q \in Ptrs,
           Dist(p, q) <= Els, p # q
    PROVE  /\ FromIn(m, p, q) # <<>> /\ FromIn(m, Inc(p), q) = Tail(FromIn(m, p, q))
           /\ FromIn(m, p, q)[1] = m[Slot(p)]
<1> DEFINE s == FromIn(m, p, q)
           t == FromIn(m, Inc(p), q)
           k == Dist(p, q)
<1>1. k \in Nat \ {0} /\ Dist(Inc(p), q) = k - 1 /\ Inc(p) \in Ptrs
  BY PtrArith, PacketQueueAssumption
<1>2. /\ s \in Seq(Cells) /\ Len(s) = k
      /\ \A i \in 1 .. k : s[i] = m[Slot(Slot(p) + i - 1)]
  BY FromInType, ZenonT(30)
<1>3. /\ t \in Seq(Cells) /\ Len(t) = k - 1
      /\ \A i \in 1 .. k - 1 : t[i] = m[Slot(Slot(Inc(p)) + i - 1)]
  <2>1. Dist(Inc(p), q) <= Els
    BY <1>1, PacketQueueAssumption
  <2>2. /\ t \in Seq(Cells) /\ Len(t) = Dist(Inc(p), q)
        /\ \A i \in 1 .. Dist(Inc(p), q) : t[i] = m[Slot(Slot(Inc(p)) + i - 1)]
    BY <1>1, <2>1, FromInType, ZenonT(30)
  <2> QED
    BY <1>1, <2>2, ZenonT(30)
<1>4. \A i \in 1 .. Els - 1 : Slot(Slot(Inc(p)) + i - 1) = Slot(Slot(p) + (i + 1) - 1)
  BY Places
<1> HIDE DEF s, t, k
<1>5. s # <<>> /\ Tail(s) \in Seq(Cells) /\ Len(Tail(s)) = k - 1
      /\ \A i \in 1 .. k - 1 : Tail(s)[i] = s[i + 1]
  <2>1. s # <<>>
    BY <1>1, <1>2
  <2> QED
    BY <1>2, <2>1, HeadTailProperties
<1>6. ASSUME NEW i \in 1 .. k - 1 PROVE t[i] = Tail(s)[i]
  <2>1. i \in 1 .. Els - 1 /\ i + 1 \in 1 .. k
    BY <1>1, PacketQueueAssumption DEF k
  <2> QED
    BY <1>2, <1>3, <1>4, <1>5, <2>1, SMTT(30)
<1>7. t = Tail(s)
  BY <1>3, <1>5, <1>6, SeqEqual
<1>8. s[1] = m[Slot(p)]
  <2>1. 1 \in 1 .. k /\ Slot(Slot(p) + 1 - 1) = Slot(p)
    BY <1>1, Places
  <2> QED
    BY <1>2, <2>1
<1> QED
  BY <1>5, <1>7, <1>8 DEF s, t

(* Memory n is memory m with a line written at q.                           *)
Wrote(m, n, q, line) ==
    /\ n \in [0 .. Els - 1 -> Cells]
    /\ \A s \in 0 .. Els - 1 : n[s] = IF s = Slot(q) THEN line ELSE m[s]

(* A line written at q, outside the stretch from p to r, and appended to    *)
(* the stretch from p to q.                                                 *)
LEMMA FromWrite ==
    ASSUME NEW m \in [0 .. Els - 1 -> Cells], NEW p \in Ptrs, NEW q \in Ptrs, NEW r \in Ptrs,
           NEW line \in Lines, Dist(p, q) < Els, Dist(p, r) <= Dist(p, q),
           NEW n, Wrote(m, n, q, line)
    PROVE  /\ FromIn(n, p, r) = FromIn(m, p, r)
           /\ FromIn(n, p, Inc(q)) = Append(FromIn(m, p, q), line)
<1>0. /\ n \in [0 .. Els - 1 -> Cells]
      /\ \A s \in 0 .. Els - 1 : n[s] = IF s = Slot(q) THEN line ELSE m[s]
  BY DEF Wrote
<1> DEFINE k == Dist(p, q)
           j == Dist(p, r)
<1>1. /\ k \in Nat /\ j \in Nat /\ k < Els /\ j <= k /\ Els \in Nat
      /\ Dist(p, Inc(q)) = k + 1 /\ Inc(q) \in Ptrs
  BY DistNat
<1>2. /\ \A i \in 1 .. Els : Slot(Slot(p) + i - 1) \in 0 .. Els - 1
      /\ \A i \in 1 .. Els : i # k + 1 => Slot(Slot(p) + i - 1) # Slot(q)
      /\ Slot(Slot(p) + (k + 1) - 1) = Slot(q) /\ Slot(q) \in 0 .. Els - 1
  <2>1. Slot(q) \in 0 .. Els - 1
    BY PtrArith, ZenonT(30)
  <2>2. \A i \in 1 .. Els : Slot(Slot(p) + i - 1) \in 0 .. Els - 1
    BY Places
  <2>3. Slot(Slot(p) + (k + 1) - 1) = Slot(q)
    BY Places
  <2>4. \A i \in 1 .. Els : i # k + 1 => Slot(Slot(p) + i - 1) # Slot(q)
    BY Places
  <2> QED
    BY <2>1, <2>2, <2>3, <2>4
<1>3. line \in Cells
  BY DEF Cells
<1>4. \A i \in 1 .. Els : i # k + 1 => n[Slot(Slot(p) + i - 1)] = m[Slot(Slot(p) + i - 1)]
  BY <1>0, <1>2
<1>5. n[Slot(Slot(p) + (k + 1) - 1)] = line
  BY <1>0, <1>2
<1>6. FromIn(n, p, r) = FromIn(m, p, r)
  <2>1. \A i \in 1 .. j : i \in 1 .. Els /\ i # k + 1
    BY <1>1
  <2> QED
    BY <1>4, <2>1 DEF FromIn
<1>7. FromIn(n, p, Inc(q)) = Append(FromIn(m, p, q), line)
  <2> DEFINE s == FromIn(m, p, q)
             t == FromIn(n, p, Inc(q))
             a == Append(s, line)
  <2>1. /\ s \in Seq(Cells) /\ Len(s) = k
        /\ \A i \in 1 .. k : s[i] = m[Slot(Slot(p) + i - 1)]
    BY <1>1, FromInType
  <2>2. /\ t \in Seq(Cells) /\ Len(t) = k + 1
        /\ \A i \in 1 .. k + 1 : t[i] = n[Slot(Slot(p) + i - 1)]
    <3>1. Dist(p, Inc(q)) <= Els
      BY <1>1
    <3>2. /\ t \in Seq(Cells) /\ Len(t) = Dist(p, Inc(q))
          /\ \A i \in 1 .. Dist(p, Inc(q)) : t[i] = n[Slot(Slot(p) + i - 1)]
      BY <1>0, <1>1, <3>1, FromInType, ZenonT(30)
    <3> QED
      BY <1>1, <3>2, ZenonT(30)
  <2> HIDE DEF s, t
  <2>3. /\ a \in Seq(Cells) /\ Len(a) = k + 1 /\ a[k + 1] = line
        /\ \A i \in 1 .. k : a[i] = s[i]
    BY <1>3, <2>1, AppendProperties
  <2> HIDE DEF a, k
  <2>4. ASSUME NEW i \in 1 .. k + 1 PROVE t[i] = a[i]
    <3>1. CASE i = k + 1
      BY <1>5, <2>2, <2>3, <3>1
    <3>2. CASE i # k + 1
      <4>1. i \in 1 .. k /\ i \in 1 .. Els
        BY <1>1, <3>2
      <4> QED
        BY <1>4, <2>1, <2>2, <2>3, <3>2, <4>1, ZenonT(30)
    <3> QED
      BY <3>1, <3>2
  <2>5. t = a
    BY <2>2, <2>3, <2>4, SeqEqual
  <2> QED
    BY <2>5 DEF s, t, a
<1> QED
  BY <1>6, <1>7

LEMMA FromCat ==
    ASSUME NEW m \in [0 .. Els - 1 -> Cells], NEW p \in Ptrs, NEW q \in Ptrs, NEW r \in Ptrs,
           Dist(p, q) + Dist(q, r) = Dist(p, r), Dist(p, r) <= Els
    PROVE  FromIn(m, p, r) = FromIn(m, p, q) \o FromIn(m, q, r)
<1> DEFINE j == Dist(p, q)
           k == Dist(q, r)
           s == FromIn(m, p, q)
           t == FromIn(m, q, r)
           u == FromIn(m, p, r)
<1>1. j \in Nat /\ k \in Nat /\ Els \in Nat /\ Dist(p, r) = j + k /\ j + k <= Els
  BY DistNat
<1>2. /\ s \in Seq(Cells) /\ Len(s) = j
      /\ \A i \in 1 .. j : s[i] = m[Slot(Slot(p) + i - 1)]
  <2>1. Dist(p, q) <= Els
    BY <1>1
  <2> QED
    BY <2>1, FromInType, ZenonT(30)
<1>3. /\ t \in Seq(Cells) /\ Len(t) = k
      /\ \A i \in 1 .. k : t[i] = m[Slot(Slot(q) + i - 1)]
  <2>1. Dist(q, r) <= Els
    BY <1>1
  <2> QED
    BY <2>1, FromInType, ZenonT(30)
<1>4. /\ u \in Seq(Cells) /\ Len(u) = j + k
      /\ \A i \in 1 .. j + k : u[i] = m[Slot(Slot(p) + i - 1)]
  BY <1>1, FromInType
<1>5. \A i \in 1 .. Els : j + i <= Els => Slot(Slot(q) + i - 1) = Slot(Slot(p) + (j + i) - 1)
  BY Places
<1> HIDE DEF j, k, s, t, u
<1>6. /\ s \o t \in Seq(Cells) /\ Len(s \o t) = j + k
      /\ \A i \in 1 .. j + k : (s \o t)[i] = IF i <= j THEN s[i] ELSE t[i - j]
  BY <1>1, <1>2, <1>3, ConcatProperties
<1>7. ASSUME NEW i \in 1 .. j + k PROVE u[i] = (s \o t)[i]
  <2>1. CASE i <= j
    <3>1. i \in 1 .. j
      BY <1>1, <2>1
    <3> QED
      BY <1>2, <1>4, <1>6, <2>1, <3>1, ZenonT(30)
  <2>2. CASE ~(i <= j)
    <3>1. i - j \in 1 .. k /\ i - j \in 1 .. Els /\ j + (i - j) = i /\ j + (i - j) <= Els
      BY <1>1, <2>2
    <3>2. Slot(Slot(q) + (i - j) - 1) = Slot(Slot(p) + i - 1)
      BY <1>5, <3>1
    <3> QED
      BY <1>3, <1>4, <1>6, <2>2, <3>1, <3>2
  <2> QED
    BY <2>1, <2>2, ZenonT(30)
<1>8. u = s \o t
  BY <1>4, <1>6, <1>7, SeqEqual
<1> QED
  BY <1>8 DEF s, t, u

(***************************************************************************)
(* What a cycle does to the lines.                                         *)
(***************************************************************************)
(* The lines of the frame being written, and the committed lines once the   *)
(* reader has had its turn.                                                 *)
Partial == From(cm_ptr, wr_ptr)
Taken(rd) == IF rd THEN Tail(Unread) ELSE Unread

LEMMA Stretches ==
    /\ Unread = FromIn(mem, rd_ptr, cm_ptr) /\ Partial = FromIn(mem, cm_ptr, wr_ptr)
    /\ Unread' = FromIn(mem', rd_ptr', cm_ptr') /\ Partial' = FromIn(mem', cm_ptr', wr_ptr')
BY DEF Unread, Partial, From, FromIn, Dist, Slot

LEMMA LinesType ==
    ASSUME IInv
    PROVE  /\ rd_ptr \in Ptrs /\ cm_ptr \in Ptrs /\ wr_ptr \in Ptrs
           /\ mem \in [0 .. Els - 1 -> Cells]
           /\ Unread \in Seq(Cells) /\ Len(Unread) = Dist(rd_ptr, cm_ptr) /\ Len(Unread) <= Els
           /\ Partial \in Seq(Cells) /\ Len(Partial) = Dist(cm_ptr, wr_ptr)
           /\ Partial = <<>> <=> state # "WRITING_FRAME"
<1>1. /\ rd_ptr \in Ptrs /\ cm_ptr \in Ptrs /\ wr_ptr \in Ptrs
      /\ mem \in [0 .. Els - 1 -> Cells]
  BY DEF IInv, TypeOK, Cells
<1>2. /\ Dist(rd_ptr, cm_ptr) \in Nat /\ Dist(cm_ptr, wr_ptr) \in Nat /\ Els \in Nat
      /\ Dist(rd_ptr, wr_ptr) \in Nat
  BY <1>1, DistNat
<1>3. Dist(rd_ptr, cm_ptr) <= Els /\ Dist(cm_ptr, wr_ptr) <= Els
  BY <1>2 DEF IInv, PointerOrder
<1>4. Unread \in Seq(Cells) /\ Len(Unread) = Dist(rd_ptr, cm_ptr)
  BY <1>1, <1>3, FromInType, Stretches
<1>5. Partial \in Seq(Cells) /\ Len(Partial) = Dist(cm_ptr, wr_ptr)
  BY <1>1, <1>3, FromInType, Stretches
<1>6. Dist(cm_ptr, wr_ptr) = 0 <=> cm_ptr = wr_ptr
  BY <1>1, PtrArith, ZenonT(30)
<1>7. Partial = <<>> <=> Len(Partial) = 0
  BY <1>5
<1>8. Partial = <<>> <=> state # "WRITING_FRAME"
  BY <1>5, <1>6, <1>7 DEF IInv, UncommittedOnlyWhileWriting
<1> QED
  BY <1>1, <1>3, <1>4, <1>5, <1>8

(* The reader takes the first committed line, or none.                      *)
LEMMA ReadLines ==
    ASSUME IInv, NEW rd \in BOOLEAN, ReadSide(rd)
    PROVE  /\ FromIn(mem, rd_ptr', cm_ptr) = Taken(rd)
           /\ rd => Unread # <<>> /\ Unread[1] = Line(rd_ptr)
           /\ rd_ptr' \in Ptrs
           /\ Dist(rd_ptr', cm_ptr) + Dist(cm_ptr, wr_ptr) = Dist(rd_ptr', wr_ptr)
           /\ Dist(rd_ptr', wr_ptr) <= Dist(rd_ptr, wr_ptr)
<1>1. /\ rd_ptr \in Ptrs /\ cm_ptr \in Ptrs /\ wr_ptr \in Ptrs
      /\ mem \in [0 .. Els - 1 -> Cells] /\ Dist(rd_ptr, cm_ptr) <= Els
  BY LinesType
<1>2. /\ Dist(rd_ptr, cm_ptr) + Dist(cm_ptr, wr_ptr) = Dist(rd_ptr, wr_ptr)
      /\ Dist(rd_ptr, wr_ptr) <= Els
  BY DEF IInv, PointerOrder
<1>3. CASE ~rd
  <2>1. rd_ptr' = rd_ptr
    BY <1>3 DEF ReadSide
  <2>2. Dist(rd_ptr, wr_ptr) <= Dist(rd_ptr, wr_ptr)
    BY <1>1, DistNat
  <2> QED
    BY <1>1, <1>2, <1>3, <2>1, <2>2, Stretches DEF Taken
<1>4. CASE rd
  <2>1. rd_ptr' = Inc(rd_ptr) /\ rd_ptr # cm_ptr
    BY <1>4 DEF ReadSide, empty
  <2>2. /\ FromIn(mem, rd_ptr, cm_ptr) # <<>>
        /\ FromIn(mem, Inc(rd_ptr), cm_ptr) = Tail(FromIn(mem, rd_ptr, cm_ptr))
        /\ FromIn(mem, rd_ptr, cm_ptr)[1] = mem[Slot(rd_ptr)]
    BY <1>1, <2>1, FromTail, ZenonT(30)
  <2>3. /\ Inc(rd_ptr) \in Ptrs
        /\ Dist(Inc(rd_ptr), cm_ptr) + Dist(cm_ptr, wr_ptr) = Dist(Inc(rd_ptr), wr_ptr)
        /\ Dist(Inc(rd_ptr), wr_ptr) <= Dist(rd_ptr, wr_ptr)
    BY <1>1, <1>2, <2>1, PacketQueueAssumption DEF Ptrs, Inc, Dist
  <2> QED
    BY <1>4, <2>1, <2>2, <2>3, Stretches DEF Taken, Line
<1> QED
  BY <1>3, <1>4

LEMMA CatAppend ==
    ASSUME NEW a \in Seq(Cells), NEW b \in Seq(Cells), NEW x \in Cells
    PROVE  Append(a \o b, x) = a \o Append(b, x)
<1>1. a \o b \in Seq(Cells) /\ <<x>> \in Seq(Cells)
  BY ConcatProperties
<1>2. Append(a \o b, x) = (a \o b) \o <<x>> /\ Append(b, x) = b \o <<x>>
  BY <1>1, AppendIsConcat
<1>3. (a \o b) \o <<x>> = a \o (b \o <<x>>)
  BY <1>1, ConcatAssociative
<1> QED
  BY <1>2, <1>3

(* A line is written: after the frame so far, in place of it, or as the     *)
(* line that commits it.                                                    *)
LEMMA RingLines ==
    ASSUME IInv, NEW rd \in BOOLEAN, ReadSide(rd), NEW line \in Lines,
           NEW dump \in BOOLEAN, NEW cmt \in BOOLEAN, Ring(line, TRUE, dump, cmt), ~full,
           dump => state = "WRITING_FRAME", cmt => ~dump
    PROVE  /\ cmt => Unread' = Taken(rd) \o Append(Partial, line) /\ Partial' = <<>>
           /\ ~cmt => Unread' = Taken(rd)
           /\ ~cmt /\ ~dump => Partial' = Append(Partial, line)
           /\ dump => Partial' = <<line>>
<1> DEFINE at == IF dump THEN cm_ptr ELSE wr_ptr
           r == rd_ptr'
           m == mem'
<1>1. /\ rd_ptr \in Ptrs /\ cm_ptr \in Ptrs /\ wr_ptr \in Ptrs /\ at \in Ptrs
      /\ mem \in [0 .. Els - 1 -> Cells]
      /\ Partial = FromIn(mem, cm_ptr, wr_ptr)
  BY LinesType, Stretches
<1>2. /\ wr_ptr' = Inc(at) /\ cm_ptr' = (IF cmt THEN Inc(wr_ptr) ELSE cm_ptr)
      /\ m = [mem EXCEPT ![Slot(at)] = line]
  BY DEF Ring
<1>3. /\ r \in Ptrs /\ FromIn(mem, r, cm_ptr) = Taken(rd)
      /\ Dist(r, cm_ptr) + Dist(cm_ptr, wr_ptr) = Dist(r, wr_ptr)
      /\ Dist(r, wr_ptr) <= Dist(rd_ptr, wr_ptr)
  BY ReadLines
<1>4. /\ Dist(rd_ptr, wr_ptr) \in Nat /\ Dist(r, cm_ptr) \in Nat /\ Dist(cm_ptr, wr_ptr) \in Nat
      /\ Dist(r, wr_ptr) \in Nat /\ Els \in Nat /\ Inc(at) \in Ptrs
  BY <1>1, <1>3, DistNat, SMTT(30)
<1>5. Dist(rd_ptr, wr_ptr) < Els
  <2>1. Dist(rd_ptr, wr_ptr) # Els
    BY <1>1, PtrArith DEF full
  <2> QED
    BY <1>4, <2>1 DEF IInv, PointerOrder
<1>6. /\ Dist(r, at) < Els /\ Dist(r, cm_ptr) <= Dist(r, at)
      /\ Dist(cm_ptr, at) < Els /\ Dist(cm_ptr, cm_ptr) <= Dist(cm_ptr, at)
      /\ Dist(r, wr_ptr) <= Els
  <2>1. Dist(cm_ptr, cm_ptr) = 0
    BY <1>1, PtrArith, ZenonT(30)
  <2> QED
    BY <1>3, <1>4, <1>5, <2>1
<1>7. Wrote(mem, m, at, line)
  <2>1. line \in Cells
    BY DEF Cells
  <2> HIDE DEF at
  <2> QED
    BY <1>1, <1>2, <2>1, ZenonT(30) DEF Wrote
<1> HIDE DEF at, r, m
<1>8. /\ FromIn(m, r, cm_ptr) = FromIn(mem, r, cm_ptr)
      /\ FromIn(m, r, Inc(at)) = Append(FromIn(mem, r, at), line)
  BY <1>1, <1>3, <1>6, <1>7, FromWrite
<1>9. FromIn(m, cm_ptr, Inc(at)) = Append(FromIn(mem, cm_ptr, at), line)
  BY <1>1, <1>6, <1>7, FromWrite
<1>10. CASE cmt
  <2>1. at = wr_ptr /\ wr_ptr' = Inc(wr_ptr) /\ cm_ptr' = Inc(wr_ptr)
    BY <1>2, <1>10 DEF at
  <2>2. FromIn(mem, r, wr_ptr) = Taken(rd) \o Partial
    BY <1>1, <1>3, <1>6, FromCat
  <2>3. Append(Taken(rd) \o Partial, line) = Taken(rd) \o Append(Partial, line)
    <3>1. /\ Taken(rd) \in Seq(Cells) /\ Partial \in Seq(Cells) /\ line \in Cells
          /\ Dist(r, cm_ptr) <= Els
      <4>1. Dist(r, cm_ptr) <= Els
        BY <1>3, <1>4, <1>6
      <4>2. FromIn(mem, r, cm_ptr) \in Seq(Cells)
        BY <1>1, <1>3, <4>1, FromInType
      <4> QED
        BY <1>3, <4>1, <4>2, LinesType DEF Cells
    <3> DEFINE a == Taken(rd)
               b == Partial
    <3>2. a \in Seq(Cells) /\ b \in Seq(Cells) /\ line \in Cells
      BY <3>1
    <3> HIDE DEF a, b
    <3>3. Append(a \o b, line) = a \o Append(b, line)
      BY <3>2, CatAppend, ZenonT(30)
    <3> QED
      BY <3>3 DEF a, b
  <2>4. Unread' = Taken(rd) \o Append(Partial, line)
    BY <1>8, <2>1, <2>2, <2>3, Stretches DEF r, m
  <2>5. Partial' = <<>>
    BY <1>1, <1>4, <2>1, FromEmpty, Stretches DEF m
  <2> QED
    BY <1>10, <2>4, <2>5
<1>11. CASE ~cmt /\ ~dump
  BY <1>1, <1>2, <1>3, <1>8, <1>9, <1>11, Stretches, ZenonT(30) DEF r, m, at
<1>12. CASE dump
  <2>1. at = cm_ptr /\ wr_ptr' = Inc(cm_ptr) /\ cm_ptr' = cm_ptr
    BY <1>2, <1>12 DEF at
  <2>2. FromIn(mem, cm_ptr, cm_ptr) = <<>>
    BY <1>1, FromEmpty
  <2>3. Append(<<>>, line) = <<line>>
    OBVIOUS
  <2> QED
    BY <1>3, <1>8, <1>9, <1>12, <2>1, <2>2, <2>3, Stretches DEF r, m
<1> QED
  BY <1>10, <1>11, <1>12

(* One cycle as the reader and the writer see it: no line is kept, a line   *)
(* begins a frame, continues it, or completes it and commits it together    *)
(* with its size.                                                           *)
Kept(rd) == Unread' = Taken(rd) /\ Partial' \in {Partial, <<>>} /\ KeepSizes(rd)

Begun(rd, line) ==
    /\ line.start /\ ~line.end
    /\ Unread' = Taken(rd) /\ Partial' = <<line>> /\ KeepSizes(rd)

Continued(rd, line) ==
    /\ ~line.start /\ ~line.end /\ Partial # <<>>
    /\ Unread' = Taken(rd) /\ Partial' = Append(Partial, line) /\ KeepSizes(rd)

Completed(rd, line) ==
    /\ line.end
    /\ Partial = <<>> => line.start
    /\ ~CutShort /\ line.start => Partial = <<>>
    /\ Unread' = Taken(rd) \o Append(Partial, line) /\ Partial' = <<>>
    /\ sizes' = Append(AfterRead(rd), BytesIn(Len(Partial) + 1, line))

LEMMA CycleStep ==
    ASSUME IInv, Next
    PROVE  \E rd \in BOOLEAN :
              /\ rd => Unread # <<>> /\ Unread[1] = Line(rd_ptr)
              /\ \/ Kept(rd)
                 \/ \E line \in Lines : Begun(rd, line) \/ Continued(rd, line) \/ Completed(rd, line)
<1>1. PICK rd \in BOOLEAN : \/ NoWrite(rd)
                            \/ \E line \in Arriving : \/ Ignore(rd, line)
                                                      \/ StartFrame(rd, line)
                                                      \/ DumpFrame(rd, line)
                                                      \/ EndFrame(rd, line)
                                                      \/ RestartFrame(rd, line)
                                                      \/ MiddleOfFrame(rd, line)
                                                      \/ PassFrame(rd, line)
  BY DEF Next
<1>2. ReadSide(rd)
  BY <1>1, ZenonT(30) DEF NoWrite, Ignore, StartFrame, DumpFrame, EndFrame, RestartFrame,
              MiddleOfFrame, PassFrame
<1>3. rd => Unread # <<>> /\ Unread[1] = Line(rd_ptr)
  BY <1>2, ReadLines, ZenonT(30)
<1>4. FromIn(mem, rd_ptr', cm_ptr) = Taken(rd) /\ FromIn(mem, cm_ptr, wr_ptr) = Partial
  BY <1>2, ReadLines, Stretches
<1>5. cm_ptr \in Ptrs /\ wr_ptr \in Ptrs /\ (Partial = <<>> <=> state # "WRITING_FRAME")
  BY LinesType
<1>6. \A line \in Arriving :
         /\ line \in Lines /\ line.start \in BOOLEAN /\ line.end \in BOOLEAN
         /\ ~CutShort /\ state = "WRITING_FRAME" => ~(line.start /\ line.end)
  BY PacketQueueAssumption DEF Arriving
<1>7. ASSUME UNCHANGED <<cm_ptr, wr_ptr, mem>>, KeepSizes(rd) PROVE Kept(rd)
  BY <1>4, <1>7, Stretches DEF Kept
<1>8. ASSUME NEW line \in Lines, ~full
      PROVE  PacketBytes(line) = BytesIn(Len(Partial) + 1, line)
  <2>1. Dist(cm_ptr, wr_ptr) < Els
    <3>1. rd_ptr \in Ptrs /\ Dist(rd_ptr, wr_ptr) # Els
      BY <1>5, <1>8, PtrArith, LinesType DEF full
    <3>2. Dist(rd_ptr, cm_ptr) \in Nat /\ Dist(cm_ptr, wr_ptr) \in Nat /\ Els \in Nat
          /\ Dist(rd_ptr, wr_ptr) \in Nat
      BY <1>5, <3>1, DistNat
    <3> QED
      BY <3>1, <3>2 DEF IInv, PointerOrder
  <2>2. curr_pkt_els = Dist(cm_ptr, wr_ptr) + 1
    BY <1>5, <2>1, DistNat DEF curr_pkt_els
  <2>3. Len(Partial) = Dist(cm_ptr, wr_ptr)
    BY LinesType
  <2> QED
    BY <2>2, <2>3 DEF PacketBytes
<1>9. CASE NoWrite(rd)
  BY <1>3, <1>7, <1>9 DEF NoWrite
<1>10. ASSUME NEW line \in Arriving,
              \/ Ignore(rd, line) \/ StartFrame(rd, line) \/ DumpFrame(rd, line)
              \/ EndFrame(rd, line) \/ RestartFrame(rd, line) \/ MiddleOfFrame(rd, line)
              \/ PassFrame(rd, line)
       PROVE  Kept(rd) \/ Begun(rd, line) \/ Continued(rd, line) \/ Completed(rd, line)
  <2>1. /\ line \in Lines /\ line.start \in BOOLEAN /\ line.end \in BOOLEAN
        /\ ~CutShort /\ state = "WRITING_FRAME" => ~(line.start /\ line.end)
    BY <1>6
  <2>2. CASE Ignore(rd, line) \/ PassFrame(rd, line)
    BY <1>7, <2>2 DEF Ignore, NoWrite, PassFrame
  <2>3. CASE StartFrame(rd, line)
    <3>1. /\ Ring(line, TRUE, FALSE, line.end) /\ ~full /\ line.start /\ Partial = <<>>
          /\ line.end => AddSize(rd, line)
          /\ ~line.end => KeepSizes(rd)
      BY <1>5, <2>3, ZenonT(30) DEF StartFrame
    <3>2. Append(<<>>, line) = <<line>>
      OBVIOUS
    <3>3. CASE line.end
      <4>1. Unread' = Taken(rd) \o Append(Partial, line) /\ Partial' = <<>>
        BY <1>2, <2>1, <3>1, <3>3, RingLines, ZenonT(30)
      <4> QED
        BY <1>8, <2>1, <3>1, <3>3, <4>1 DEF Completed, AddSize
    <3>4. CASE ~line.end
      <4>1. Unread' = Taken(rd) /\ Partial' = Append(Partial, line)
        BY <1>2, <2>1, <3>1, <3>4, RingLines, ZenonT(30)
      <4> QED
        BY <3>1, <3>2, <3>4, <4>1 DEF Begun
    <3> QED
      BY <3>3, <3>4
  <2>4. CASE DumpFrame(rd, line)
    <3>1. wr_ptr' = cm_ptr /\ cm_ptr' = cm_ptr /\ mem' = mem /\ KeepSizes(rd)
      BY <2>4 DEF DumpFrame, Ring
    <3>2. FromIn(mem, cm_ptr, cm_ptr) = <<>>
      BY <1>5, FromEmpty
    <3> QED
      BY <1>4, <3>1, <3>2, Stretches DEF Kept
  <2>5. CASE EndFrame(rd, line)
    <3>1. /\ Ring(line, TRUE, FALSE, TRUE) /\ ~full /\ line.end /\ Partial # <<>>
          /\ AddSize(rd, line) /\ state = "WRITING_FRAME"
      BY <1>5, <2>5, ZenonT(30) DEF EndFrame
    <3>2. Unread' = Taken(rd) \o Append(Partial, line) /\ Partial' = <<>>
      BY <1>2, <2>1, <3>1, RingLines, ZenonT(30)
    <3>3. ~CutShort /\ line.start => Partial = <<>>
      BY <2>1, <3>1
    <3> QED
      BY <1>8, <2>1, <3>1, <3>2, <3>3 DEF Completed, AddSize
  <2>6. CASE RestartFrame(rd, line)
    <3>1. /\ Ring(line, TRUE, TRUE, FALSE) /\ ~full /\ ~line.end /\ line.start
          /\ KeepSizes(rd) /\ state = "WRITING_FRAME"
      BY <2>6, ZenonT(30) DEF RestartFrame
    <3>2. Unread' = Taken(rd) /\ Partial' = <<line>>
      BY <1>2, <2>1, <3>1, RingLines, ZenonT(30)
    <3> QED
      BY <3>1, <3>2 DEF Begun
  <2>7. CASE MiddleOfFrame(rd, line)
    <3>1. /\ Ring(line, TRUE, FALSE, FALSE) /\ ~full /\ ~line.end /\ ~line.start
          /\ KeepSizes(rd) /\ Partial # <<>>
      BY <1>5, <2>7, ZenonT(30) DEF MiddleOfFrame
    <3>2. Unread' = Taken(rd) /\ Partial' = Append(Partial, line)
      BY <1>2, <2>1, <3>1, RingLines, ZenonT(30)
    <3> QED
      BY <3>1, <3>2 DEF Continued
  <2> QED
    BY <1>10, <2>2, <2>3, <2>4, <2>5, <2>6, <2>7
<1> QED
  BY <1>1, <1>3, <1>6, <1>9, <1>10

(***************************************************************************)
(* The queue implements a FIFO of whole frames.                            *)
(***************************************************************************)
LEMMA FramesStep ==
    ASSUME IInv, [Next]_vars, ~CutShort
    PROVE  [PF!Next]_<<Unread, From(cm_ptr, wr_ptr)>>
<1>1. CASE UNCHANGED vars
  <2>1. Unread' = Unread /\ Partial' = Partial
    BY <1>1, Stretches DEF vars
  <2> QED
    BY <2>1 DEF Partial
<1>2. CASE Next
  <2>1. PICK rd \in BOOLEAN :
              /\ rd => Unread # <<>> /\ Unread[1] = Line(rd_ptr)
              /\ \/ Kept(rd)
                 \/ \E line \in Lines : Begun(rd, line) \/ Continued(rd, line) \/ Completed(rd, line)
    BY <1>2, CycleStep
  <2>2. Taken(rd) \in PF!AfterRead
    BY <2>1 DEF Taken, PF!AfterRead
  <2>3. CASE Kept(rd)
    BY <2>2, <2>3 DEF Kept, Partial, PF!Next, PF!Quiet
  <2>4. ASSUME NEW line \in Lines, Begun(rd, line) \/ Continued(rd, line) \/ Completed(rd, line)
        PROVE  PF!Next
    <3>1. CASE Begun(rd, line)
      BY <2>2, <3>1 DEF Begun, Partial, PF!Next, PF!Start
    <3>2. CASE Continued(rd, line)
      BY <2>2, <3>2 DEF Continued, Partial, PF!Next, PF!Continue
    <3>3. CASE Completed(rd, line)
      <4>1. line.start \in BOOLEAN
        BY PacketQueueAssumption
      <4> QED
        BY <2>2, <3>3, <4>1, ZenonT(30) DEF Completed, Partial, PF!Next, PF!Complete
    <3> QED
      BY <2>4, <3>1, <3>2, <3>3
  <2> QED
    BY <2>1, <2>3, <2>4
<1> QED
  BY <1>1, <1>2

(* As long as no frame of a single line cuts another frame short, the queue *)
(* implements PacketFifo for rings of any size: the reader sees the lines   *)
(* of whole frames only, each frame at once and in order, however the       *)
(* controller dumps, restarts and swallows frames.                          *)
THEOREM ImplementsFrames ==
    ASSUME ~CutShort
    PROVE  Spec => WholeFrames
<1>1. Init => PF!Init
  <2> SUFFICES ASSUME Init PROVE PF!Init
    OBVIOUS
  <2>1. rd_ptr \in Ptrs /\ rd_ptr = cm_ptr /\ wr_ptr = cm_ptr
    BY PacketQueueAssumption DEF Init, Ptrs
  <2>2. Unread = <<>> /\ Partial = <<>>
    BY <2>1, FromEmpty, Stretches
  <2> QED
    BY <2>2 DEF PF!Init, Partial
<1>2. IInv /\ [Next]_vars => [PF!Next]_<<Unread, From(cm_ptr, wr_ptr)>>
  BY FramesStep
<1> QED
  BY <1>1, <1>2, InitIInv, NextIInv, PTL DEF Spec, WholeFrames, PF!Spec

(***************************************************************************)
(* The sizes and the lines.                                                *)
(***************************************************************************)
LEMMA BytesInStep ==
    ASSUME NEW c \in Cells, NEW x \in Int
    PROVE  BytesIn(x, c) \in Int /\ BytesIn(x, c) <= BytesIn(x + 1, c)
<1> DEFINE pad == c.pad
<1>1. pad \in Int
  <2>1. CASE c \in Lines
    BY <2>1, PacketQueueAssumption
  <2>2. CASE c = NoLine
    BY <2>2 DEF NoLine
  <2> QED
    BY <2>1, <2>2 DEF Cells
<1> HIDE DEF pad
<1>2. x * LineBytes - pad \in Int /\ x * LineBytes - pad <= (x + 1) * LineBytes - pad
  BY <1>1, PacketQueueAssumption
<1> QED
  BY <1>2 DEF BytesIn, pad

(* What Describes says of z sizes and k lines, element by element.          *)
Ordered(sz, u, e, z, k) ==
    /\ \A n \in 1 .. z : u[e[n]].end
    /\ \A i \in 1 .. k : u[i].end => \E n \in 1 .. z : e[n] = i
    /\ \A n \in 1 .. z - 1 : e[n] < e[n + 1]
    /\ u # <<>> => u[k].end
    /\ sz # <<>> => sz[1] >= BytesIn(e[1], u[e[1]])
    /\ \A n \in 1 .. z - 1 : sz[n + 1] = BytesIn(e[n + 1] - e[n], u[e[n + 1]])

LEMMA DescribesIff ==
    ASSUME NEW sz, NEW u, NEW z, NEW k, Len(sz) = z, Len(u) = k,
           NEW e \in [1 .. z -> 1 .. k]
    PROVE  Describes(sz, u, e) <=> Ordered(sz, u, e, z, k)
<1>1. {e[n] : n \in 1 .. z} = {i \in 1 .. k : u[i].end} <=>
         /\ \A n \in 1 .. z : u[e[n]].end
         /\ \A i \in 1 .. k : u[i].end => \E n \in 1 .. z : e[n] = i
  BY SMTT(30)
<1> QED
  BY <1>1, ZenonT(30) DEF Describes, Ordered

(* The reader takes a line: the last of a packet together with its size, or *)
(* one before that.                                                         *)
LEMMA DescribesEnd ==
    ASSUME NEW sz \in Seq(Int), NEW u \in Seq(Cells), u # <<>>, u[1].end,
           NEW e \in [1 .. Len(sz) -> 1 .. Len(u)], Describes(sz, u, e)
    PROVE  /\ sz # <<>>
           /\ \E d \in [1 .. Len(Tail(sz)) -> 1 .. Len(Tail(u))] : Describes(Tail(sz), Tail(u), d)
<1> DEFINE z == Len(sz)
           k == Len(u)
           tz == Tail(sz)
           tu == Tail(u)
<1>1. /\ \A n \in 1 .. z : u[e[n]].end
      /\ \A i \in 1 .. k : u[i].end => \E n \in 1 .. z : e[n] = i
      /\ \A n \in 1 .. z - 1 : e[n] < e[n + 1]
      /\ u[k].end
      /\ \A n \in 1 .. z - 1 : sz[n + 1] = BytesIn(e[n + 1] - e[n], u[e[n + 1]])
  <2>1. Ordered(sz, u, e, Len(sz), Len(u))
    BY DescribesIff, ZenonT(30)
  <2> QED
    BY <2>1 DEF Ordered
<1>2. z \in Nat /\ k \in Nat /\ k >= 1
  BY EmptySeq
<1>3. \A n \in 1 .. z : e[n] \in 1 .. k
  OBVIOUS
<1>4. z >= 1 /\ e[1] = 1
  <2>1. PICK n \in 1 .. z : e[n] = 1
    BY <1>1, <1>2
  <2>2. CASE n = 1
    BY <1>2, <2>1, <2>2
  <2>3. CASE n # 1
    <3>1. n - 1 \in 1 .. z - 1 /\ n - 1 \in 1 .. z /\ (n - 1) + 1 = n
      BY <1>2, <2>3
    <3>2. e[n - 1] < 1 /\ e[n - 1] \in 1 .. k
      BY <1>1, <1>3, <2>1, <3>1, ZenonT(30)
    <3> QED
      BY <1>2, <3>2
  <2> QED
    BY <2>2, <2>3
<1>5. sz # <<>>
  BY <1>4
<1>6. /\ tz \in Seq(Int) /\ Len(tz) = z - 1 /\ \A n \in 1 .. z - 1 : tz[n] = sz[n + 1]
      /\ tu \in Seq(Cells) /\ Len(tu) = k - 1 /\ \A i \in 1 .. k - 1 : tu[i] = u[i + 1]
  BY <1>5, HeadTailProperties
<1> DEFINE d == [n \in 1 .. z - 1 |-> e[n + 1] - 1]
<1> HIDE DEF z, k, tz, tu
<1>7. ASSUME NEW n \in 1 .. z - 1
      PROVE  d[n] = e[n + 1] - 1 /\ d[n] \in 1 .. k - 1 /\ e[n + 1] = d[n] + 1 /\ n + 1 \in 1 .. z
  <2>1. n \in 1 .. z /\ n + 1 \in 1 .. z
    BY <1>2
  <2>2. e[n] \in 1 .. k /\ e[n + 1] \in 1 .. k /\ e[n] < e[n + 1]
    BY <1>1, <1>3, <2>1
  <2>3. d[n] = e[n + 1] - 1
    OBVIOUS
  <2> DEFINE x == e[n + 1]
             y == e[n]
  <2> HIDE DEF d, x, y
  <2>4. x \in 1 .. k /\ y \in 1 .. k /\ y < x
    BY <2>2 DEF x, y
  <2>5. x - 1 \in 1 .. k - 1 /\ x = (x - 1) + 1
    BY <1>2, <2>4
  <2> QED
    BY <2>1, <2>3, <2>5 DEF x
<1>8. d \in [1 .. z - 1 -> 1 .. k - 1]
  BY <1>7
<1> HIDE DEF d
<1>9. \A n \in 1 .. z - 1 : tu[d[n]] = u[e[n + 1]]
  BY <1>6, <1>7, SMTT(30)
<1>10. \A n \in 1 .. z - 1 : tu[d[n]].end
  BY <1>1, <1>7, <1>9, SMTT(30)
<1>11. ASSUME NEW i \in 1 .. k - 1, tu[i].end PROVE \E n \in 1 .. z - 1 : d[n] = i
  <2>1. i + 1 \in 1 .. k /\ u[i + 1].end
    BY <1>2, <1>6, <1>11
  <2>2. PICK n \in 1 .. z : e[n] = i + 1
    BY <1>1, <2>1
  <2>3. n # 1
    BY <1>2, <1>4, <2>2
  <2>4. n - 1 \in 1 .. z - 1 /\ (n - 1) + 1 = n
    BY <1>2, <2>3
  <2>5. d[n - 1] = i
    BY <1>2, <1>7, <2>2, <2>4, SMTT(30)
  <2> QED
    BY <2>4, <2>5
<1>12. ASSUME NEW n \in 1 .. (z - 1) - 1
       PROVE  /\ d[n] < d[n + 1]
              /\ tz[n + 1] = BytesIn(d[n + 1] - d[n], tu[d[n + 1]])
  <2>1. n \in 1 .. z - 1 /\ n + 1 \in 1 .. z - 1 /\ n + 1 \in 1 .. z
    BY <1>2
  <2>2. /\ d[n] \in Int /\ d[n + 1] \in Int
        /\ e[n + 1] = d[n] + 1 /\ e[(n + 1) + 1] = d[n + 1] + 1
    BY <1>2, <1>7, <2>1, SMTT(30)
  <2>3. e[n + 1] < e[(n + 1) + 1]
    BY <1>1, <2>1
  <2>4. e[(n + 1) + 1] - e[n + 1] = d[n + 1] - d[n]
    BY <2>2
  <2>5. sz[(n + 1) + 1] = BytesIn(e[(n + 1) + 1] - e[n + 1], u[e[(n + 1) + 1]])
    BY <1>1, <2>1
  <2>6. d[n] < d[n + 1]
    BY <2>2, <2>3
  <2>7. tz[n + 1] = sz[(n + 1) + 1] /\ tu[d[n + 1]] = u[e[(n + 1) + 1]]
    BY <1>6, <1>9, <2>1, ZenonT(30)
  <2> QED
    BY <2>4, <2>5, <2>6, <2>7, ZenonT(30)
<1>13. tu # <<>> => tu[k - 1].end
  <2>1. tu # <<>> => k - 1 \in 1 .. k - 1 /\ (k - 1) + 1 = k
    BY <1>2, <1>6, EmptySeq, SMTT(60)
  <2> QED
    BY <1>1, <1>6, <2>1
<1>14. tz # <<>> => tz[1] >= BytesIn(d[1], tu[d[1]])
  <2> SUFFICES ASSUME tz # <<>> PROVE tz[1] >= BytesIn(d[1], tu[d[1]])
    OBVIOUS
  <2>1. 1 \in 1 .. z - 1
    BY <1>2, <1>6, EmptySeq
  <2>2. e[1 + 1] - e[1] = d[1] /\ d[1] \in 1 .. k - 1
    BY <1>2, <1>4, <1>7, <2>1
  <2>3. tz[1] = BytesIn(d[1], tu[d[1]])
    BY <1>1, <1>6, <1>9, <2>1, <2>2, ZenonT(30)
  <2>4. tz[1] \in Int
    BY <1>6, <2>1
  <2> QED
    BY <2>3, <2>4
<1>15. Ordered(tz, tu, d, z - 1, k - 1)
  BY <1>10, <1>11, <1>12, <1>13, <1>14 DEF Ordered
<1>16. Describes(tz, tu, d)
  BY <1>6, <1>8, <1>15, DescribesIff
<1> QED
  BY <1>5, <1>6, <1>8, <1>16 DEF tz, tu

LEMMA DescribesMiddle ==
    ASSUME NEW sz \in Seq(Int), NEW u \in Seq(Cells), u # <<>>, ~u[1].end,
           NEW e \in [1 .. Len(sz) -> 1 .. Len(u)], Describes(sz, u, e)
    PROVE  \E d \in [1 .. Len(sz) -> 1 .. Len(Tail(u))] : Describes(sz, Tail(u), d)
<1> DEFINE z == Len(sz)
           k == Len(u)
           tu == Tail(u)
<1>1. /\ \A n \in 1 .. z : u[e[n]].end
      /\ \A i \in 1 .. k : u[i].end => \E n \in 1 .. z : e[n] = i
      /\ \A n \in 1 .. z - 1 : e[n] < e[n + 1]
      /\ u[k].end
      /\ sz # <<>> => sz[1] >= BytesIn(e[1], u[e[1]])
      /\ \A n \in 1 .. z - 1 : sz[n + 1] = BytesIn(e[n + 1] - e[n], u[e[n + 1]])
  <2>1. Ordered(sz, u, e, Len(sz), Len(u))
    BY DescribesIff, ZenonT(30)
  <2> QED
    BY <2>1 DEF Ordered
<1>2. z \in Nat /\ k \in Nat /\ k >= 1
  BY EmptySeq
<1>3. \A n \in 1 .. z : e[n] \in 1 .. k /\ e[n] # 1
  BY <1>1, ZenonT(30)
<1>6. tu \in Seq(Cells) /\ Len(tu) = k - 1 /\ \A i \in 1 .. k - 1 : tu[i] = u[i + 1]
  BY HeadTailProperties
<1> DEFINE d == [n \in 1 .. z |-> e[n] - 1]
<1> HIDE DEF z, k, tu
<1>7. \A n \in 1 .. z : d[n] = e[n] - 1 /\ d[n] \in 1 .. k - 1 /\ e[n] = d[n] + 1
  BY <1>2, <1>3
<1>8. d \in [1 .. z -> 1 .. k - 1]
  BY <1>7
<1> HIDE DEF d
<1>9. \A n \in 1 .. z : tu[d[n]] = u[e[n]]
  BY <1>6, <1>7
<1>10. \A n \in 1 .. z : tu[d[n]].end
  BY <1>1, <1>9
<1>11. ASSUME NEW i \in 1 .. k - 1, tu[i].end PROVE \E n \in 1 .. z : d[n] = i
  <2>1. i + 1 \in 1 .. k /\ u[i + 1].end
    BY <1>2, <1>6, <1>11
  <2>2. PICK n \in 1 .. z : e[n] = i + 1
    BY <1>1, <2>1
  <2>3. d[n] = i
    BY <1>2, <1>7, <2>2, SMTT(30)
  <2> QED
    BY <2>3
<1>12. ASSUME NEW n \in 1 .. z - 1
       PROVE  /\ d[n] < d[n + 1]
              /\ sz[n + 1] = BytesIn(d[n + 1] - d[n], tu[d[n + 1]])
  <2>1. n \in 1 .. z /\ n + 1 \in 1 .. z
    BY <1>2
  <2>2. d[n] \in Int /\ d[n + 1] \in Int /\ e[n] = d[n] + 1 /\ e[n + 1] = d[n + 1] + 1
    BY <1>2, <1>7, <2>1
  <2>3. e[n] < e[n + 1]
    BY <1>1
  <2>4. d[n] < d[n + 1] /\ e[n + 1] - e[n] = d[n + 1] - d[n]
    BY <2>2, <2>3, SMTT(30)
  <2>5. sz[n + 1] = BytesIn(e[n + 1] - e[n], u[e[n + 1]]) /\ tu[d[n + 1]] = u[e[n + 1]]
    BY <1>1, <1>9, <2>1
  <2> QED
    BY <2>4, <2>5, ZenonT(30)
<1>13. tu # <<>> => tu[k - 1].end
  <2>1. tu # <<>> => k - 1 \in 1 .. k - 1 /\ (k - 1) + 1 = k
    BY <1>2, <1>6, EmptySeq
  <2> QED
    BY <1>1, <1>6, <2>1
<1>14. sz # <<>> => sz[1] >= BytesIn(d[1], tu[d[1]])
  <2> SUFFICES ASSUME sz # <<>> PROVE sz[1] >= BytesIn(d[1], tu[d[1]])
    OBVIOUS
  <2>1. 1 \in 1 .. z
    BY <1>2, EmptySeq DEF z
  <2>2. e[1] = d[1] + 1 /\ d[1] \in 1 .. k - 1 /\ tu[d[1]] = u[e[1]]
    BY <1>7, <1>9, <2>1, SMTT(30)
  <2>3. sz[1] >= BytesIn(d[1] + 1, tu[d[1]])
    BY <1>1, <2>2
  <2>4. /\ BytesIn(d[1], tu[d[1]]) \in Int /\ BytesIn(d[1] + 1, tu[d[1]]) \in Int
        /\ BytesIn(d[1], tu[d[1]]) <= BytesIn(d[1] + 1, tu[d[1]])
    <3>1. d[1] \in Int /\ d[1] + 1 \in Int /\ tu[d[1]] \in Cells
      BY <1>2, <1>6, <2>2, SMTT(60)
    <3> QED
      BY <3>1, BytesInStep, ZenonT(30)
  <2>5. sz[1] \in Int
    BY <2>1 DEF z
  <2> QED
    BY <2>3, <2>4, <2>5
<1>15. Ordered(sz, tu, d, z, k - 1)
  BY <1>10, <1>11, <1>12, <1>13, <1>14 DEF Ordered
<1>16. Len(sz) = z
  BY DEF z
<1>17. Describes(sz, tu, d)
  BY <1>6, <1>8, <1>15, <1>16, DescribesIff
<1> QED
  BY <1>6, <1>8, <1>16, <1>17 DEF tu

(* The lines v and l, of which only l ends a packet, are committed together *)
(* with the size of the packet.                                             *)
LEMMA DescribesPacket ==
    ASSUME NEW sz \in Seq(Int), NEW u \in Seq(Cells),
           NEW e \in [1 .. Len(sz) -> 1 .. Len(u)], Describes(sz, u, e),
           NEW v \in Seq(Cells), \A i \in 1 .. Len(v) : ~v[i].end, NEW l \in Cells, l.end,
           NEW tz, tz = Append(sz, BytesIn(Len(v) + 1, l)),
           NEW w, w = u \o Append(v, l)
    PROVE  \E d \in [1 .. Len(tz) -> 1 .. Len(w)] : Describes(tz, w, d)
<1> DEFINE z == Len(sz)
           k == Len(u)
           j == Len(v)
           b == BytesIn(j + 1, l)
           m == k + (j + 1)
<1>1. /\ \A n \in 1 .. z : u[e[n]].end
      /\ \A i \in 1 .. k : u[i].end => \E n \in 1 .. z : e[n] = i
      /\ \A n \in 1 .. z - 1 : e[n] < e[n + 1]
      /\ u # <<>> => u[k].end
      /\ sz # <<>> => sz[1] >= BytesIn(e[1], u[e[1]])
      /\ \A n \in 1 .. z - 1 : sz[n + 1] = BytesIn(e[n + 1] - e[n], u[e[n + 1]])
  <2>1. Ordered(sz, u, e, Len(sz), Len(u))
    BY DescribesIff, ZenonT(30)
  <2> QED
    BY <2>1 DEF Ordered
<1>2. z \in Nat /\ k \in Nat /\ j \in Nat
  OBVIOUS
<1>3. \A n \in 1 .. z : e[n] \in 1 .. k
  BY ZenonT(30)
<1>4. b \in Int
  BY <1>2, BytesInStep
<1>5. /\ Len(tz) = z + 1 /\ tz # <<>> /\ tz[z + 1] = b
      /\ \A n \in 1 .. z : tz[n] = sz[n]
  BY <1>2, <1>4, AppendProperties, SMTT(30)
<1>6. /\ Append(v, l) \in Seq(Cells) /\ Len(Append(v, l)) = j + 1 /\ Append(v, l)[j + 1] = l
      /\ \A i \in 1 .. j : Append(v, l)[i] = v[i]
  BY AppendProperties
<1>7. /\ Len(w) = m
      /\ \A i \in 1 .. m : w[i] = IF i <= k THEN u[i] ELSE Append(v, l)[i - k]
  BY <1>6, ConcatProperties
<1>8. z = 0 => k = 0
  <2> SUFFICES ASSUME z = 0, k # 0 PROVE FALSE
    OBVIOUS
  <2>1. u # <<>> /\ k \in 1 .. k
    BY <1>2
  <2>2. PICK n \in 1 .. z : e[n] = k
    BY <1>1, <2>1
  <2> QED
    BY <2>2
<1>9. z # 0 => e[z] = k
  <2> SUFFICES ASSUME z # 0 PROVE e[z] = k
    OBVIOUS
  <2>1. z \in 1 .. z /\ e[z] \in 1 .. k
    BY <1>2, <1>3
  <2>2. u # <<>> /\ k \in 1 .. k
    BY <1>2, <2>1
  <2>3. PICK n \in 1 .. z : e[n] = k
    BY <1>1, <2>2, ZenonT(30)
  <2>4. n = z
    <3> SUFFICES ASSUME n # z PROVE FALSE
      OBVIOUS
    <3>1. n \in 1 .. z - 1 /\ n + 1 \in 1 .. z
      BY <1>2
    <3>2. k < e[n + 1] /\ e[n + 1] \in 1 .. k
      BY <1>1, <1>3, <2>3, <3>1
    <3> QED
      BY <1>2, <3>2
  <2> QED
    BY <2>3, <2>4
<1> HIDE DEF z, k, j, b, m
<1>10. m \in Nat /\ m = k + (j + 1) /\ m \in 1 .. m /\ ~(m <= k) /\ m - k = j + 1
  BY <1>2 DEF m
<1>11. w[m] = l
  BY <1>6, <1>7, <1>10
<1>12. \A i \in 1 .. k : i \in 1 .. m /\ w[i] = u[i]
  BY <1>2, <1>7, <1>10
<1>13. ASSUME NEW i \in 1 .. m, i # m, ~(i <= k) PROVE ~w[i].end
  <2>1. i - k \in 1 .. j
    BY <1>2, <1>10, <1>13
  <2> QED
    BY <1>6, <1>7, <1>13, <2>1, ZenonT(30) DEF j
<1> DEFINE d == [n \in 1 .. z + 1 |-> IF n = z + 1 THEN m ELSE e[n]]
<1>14. /\ \A n \in 1 .. z : n \in 1 .. z + 1 /\ n # z + 1 /\ d[n] = e[n]
       /\ d[z + 1] = m /\ z + 1 \in 1 .. z + 1
  BY <1>2
<1>15. d \in [1 .. z + 1 -> 1 .. m]
  <2>1. \A n \in 1 .. z + 1 : n = z + 1 \/ n \in 1 .. z
    BY <1>2
  <2> QED
    BY <1>3, <1>10, <1>12, <2>1
<1> HIDE DEF d
<1>16. ASSUME NEW n \in 1 .. z + 1 PROVE w[d[n]].end
  <2>1. CASE n = z + 1
    BY <1>11, <1>14, <2>1, ZenonT(30)
  <2>2. CASE n # z + 1
    <3>1. n \in 1 .. z
      BY <1>2, <2>2
    <3>2. d[n] = e[n] /\ w[e[n]] = u[e[n]] /\ u[e[n]].end
      BY <1>1, <1>3, <1>12, <1>14, <3>1, ZenonT(30)
    <3> QED
      BY <3>2, ZenonT(30)
  <2> QED
    BY <2>1, <2>2, ZenonT(30)
<1>17. ASSUME NEW i \in 1 .. m, w[i].end PROVE \E n \in 1 .. z + 1 : d[n] = i
  <2>1. CASE i = m
    BY <1>14, <2>1
  <2>2. CASE i # m
    <3>1. i \in 1 .. k
      <4>1. i <= k
        BY <1>13, <1>17, <2>2, ZenonT(30)
      <4> QED
        BY <1>2, <1>10, <4>1
    <3>2. PICK n \in 1 .. z : e[n] = i
      BY <1>1, <1>12, <1>17, <3>1, ZenonT(30)
    <3> QED
      BY <1>14, <3>2, ZenonT(30)
  <2> QED
    BY <2>1, <2>2
<1>18. ASSUME NEW n \in 1 .. (z + 1) - 1
       PROVE  d[n] < d[n + 1] /\ tz[n + 1] = BytesIn(d[n + 1] - d[n], w[d[n + 1]])
  <2>1. CASE n = z
    <3>1. z # 0 /\ z \in 1 .. z
      BY <1>2, <2>1
    <3>2. d[n] = k /\ d[n + 1] = m
      BY <1>9, <1>14, <2>1, <3>1, SMTT(30)
    <3>3. k < m /\ m - k = j + 1
      BY <1>2, <1>10
    <3>4. tz[n + 1] = BytesIn(j + 1, l)
      BY <1>5, <2>1 DEF b
    <3> QED
      BY <1>11, <3>2, <3>3, <3>4, ZenonT(30)
  <2>2. CASE n # z
    <3>1. n \in 1 .. z - 1 /\ n \in 1 .. z /\ n + 1 \in 1 .. z
      BY <1>2, <2>2
    <3>2. d[n] = e[n] /\ d[n + 1] = e[n + 1] /\ e[n + 1] \in 1 .. k
      BY <1>3, <1>14, <3>1
    <3>3. tz[n + 1] = sz[n + 1] /\ w[e[n + 1]] = u[e[n + 1]]
      BY <1>5, <1>12, <3>1, <3>2, ZenonT(30)
    <3> QED
      BY <1>1, <3>1, <3>2, <3>3, ZenonT(30)
  <2> QED
    BY <2>1, <2>2, ZenonT(30)
<1>19. tz[1] >= BytesIn(d[1], w[d[1]])
  <2>1. CASE z = 0
    <3>1. d[1] = m /\ m = j + 1
      BY <1>2, <1>8, <1>10, <1>14, <2>1
    <3>2. tz[1] = b
      BY <1>5, <2>1
    <3>3. BytesIn(d[1], w[d[1]]) = b
      BY <1>11, <3>1, ZenonT(30) DEF b
    <3> QED
      BY <1>4, <3>2, <3>3
  <2>2. CASE z # 0
    <3>1. 1 \in 1 .. z /\ sz # <<>>
      BY <1>2, <2>2 DEF z
    <3>2. d[1] = e[1] /\ tz[1] = sz[1] /\ e[1] \in 1 .. k
      BY <1>3, <1>5, <1>14, <3>1
    <3>3. w[e[1]] = u[e[1]]
      BY <1>12, <3>2, ZenonT(30)
    <3> QED
      BY <1>1, <3>1, <3>2, <3>3, ZenonT(30)
  <2> QED
    BY <2>1, <2>2, ZenonT(30)
<1>20. Ordered(tz, w, d, z + 1, m)
  <2>1. w[m].end
    BY <1>11
  <2> QED
    BY <1>16, <1>17, <1>18, <1>19, <2>1, ZenonT(30) DEF Ordered
<1>21. Describes(tz, w, d)
  BY <1>5, <1>7, <1>15, <1>20, DescribesIff, ZenonT(30)
<1> QED
  BY <1>5, <1>7, <1>15, <1>21

(* There are no more sizes than lines.                                      *)
LEMMA DescribesFits ==
    ASSUME NEW sz \in Seq(Int), NEW u \in Seq(Cells),
           NEW e \in [1 .. Len(sz) -> 1 .. Len(u)], Describes(sz, u, e)
    PROVE  Len(sz) <= Len(u)
<1> DEFINE z == Len(sz)
           k == Len(u)
           S == {n \in Nat : n \in 1 .. z => n <= e[n]}
<1>1. z \in Nat /\ k \in Nat
  OBVIOUS
<1>2. \A n \in 1 .. z : e[n] \in 1 .. k
  OBVIOUS
<1>3. \A n \in 1 .. z - 1 : e[n] < e[n + 1]
  <2>1. Ordered(sz, u, e, Len(sz), Len(u))
    BY DescribesIff, ZenonT(30)
  <2> QED
    BY <2>1 DEF Ordered
<1> HIDE DEF z, k
<1>4. 0 \in S
  OBVIOUS
<1>5. ASSUME NEW n \in Nat, n \in S PROVE n + 1 \in S
  <2> SUFFICES ASSUME n + 1 \in 1 .. z PROVE n + 1 <= e[n + 1]
    OBVIOUS
  <2> DEFINE y == e[n + 1]
  <2>1. y \in 1 .. k
    BY <1>2
  <2>2. CASE n = 0
    BY <1>1, <2>1, <2>2
  <2>3. CASE n # 0
    <3>1. n \in 1 .. z - 1 /\ n \in 1 .. z
      BY <1>1, <2>3
    <3> DEFINE x == e[n]
    <3>2. n <= x /\ x < y /\ x \in 1 .. k
      BY <1>2, <1>3, <1>5, <3>1
    <3> HIDE DEF x, y
    <3>3. n + 1 <= y
      BY <1>1, <2>1, <3>2
    <3> QED
      BY <3>3 DEF y
  <2> QED
    BY <2>2, <2>3
<1> HIDE DEF S
<1>6. Nat \subseteq S
  BY <1>4, <1>5, SetInduction, ZenonT(30)
<1>7. CASE z = 0
  BY <1>1, <1>7 DEF z, k
<1>8. CASE z # 0
  <2> DEFINE y == e[z]
  <2>1. z \in 1 .. z
    BY <1>1, <1>8
  <2>2. z <= y /\ y \in 1 .. k
    <3>1. z \in S
      BY <1>1, <1>6
    <3> QED
      BY <1>2, <2>1, <3>1 DEF S
  <2> HIDE DEF y
  <2>3. z <= k
    BY <1>1, <2>2
  <2> QED
    BY <2>3 DEF z, k
<1> QED
  BY <1>7, <1>8

(* The frame being written has no end yet; the sizes fit the lines.         *)
PartialOpen == \A i \in 1 .. Len(Partial) : ~Partial[i].end
SyncInv == SizesInSync /\ PartialOpen

LEMMA ReadSync ==
    ASSUME IInv, SizesInSync, NEW rd \in BOOLEAN,
           rd => Unread # <<>> /\ Unread[1] = Line(rd_ptr)
    PROVE  /\ AfterRead(rd) \in Seq(Int) /\ Taken(rd) \in Seq(Cells)
           /\ \E e \in [1 .. Len(AfterRead(rd)) -> 1 .. Len(Taken(rd))] :
                 Describes(AfterRead(rd), Taken(rd), e)
<1>1. sizes \in Seq(Int) /\ Unread \in Seq(Cells)
  BY LinesType DEF IInv, TypeOK
<1>2. PICK e \in [1 .. Len(sizes) -> 1 .. Len(Unread)] : Describes(sizes, Unread, e)
  BY DEF SizesInSync
<1>3. CASE ~rd
  <2>1. AfterRead(rd) = sizes /\ Taken(rd) = Unread
    BY <1>3 DEF AfterRead, TakesSize, Taken
  <2> QED
    BY <1>1, <1>2, <2>1
<1>4. CASE rd
  <2>1. Unread # <<>> /\ Unread[1] = Line(rd_ptr) /\ Taken(rd) = Tail(Unread)
    BY <1>4 DEF Taken
  <2>2. Tail(Unread) \in Seq(Cells)
    BY <1>1, <2>1, HeadTailProperties
  <2>3. CASE Unread[1].end
    <3>1. /\ sizes # <<>>
          /\ \E d \in [1 .. Len(Tail(sizes)) -> 1 .. Len(Tail(Unread))] :
                Describes(Tail(sizes), Tail(Unread), d)
      BY <1>1, <1>2, <2>1, <2>3, DescribesEnd
    <3>2. AfterRead(rd) = Tail(sizes)
      BY <1>4, <2>1, <2>3, <3>1 DEF AfterRead, TakesSize
    <3>3. Tail(sizes) \in Seq(Int)
      BY <1>1, <3>1, HeadTailProperties
    <3> QED
      BY <2>1, <2>2, <3>1, <3>2, <3>3
  <2>4. CASE ~Unread[1].end
    <3>1. \E d \in [1 .. Len(sizes) -> 1 .. Len(Tail(Unread))] :
             Describes(sizes, Tail(Unread), d)
      BY <1>1, <1>2, <2>1, <2>4, DescribesMiddle
    <3>2. AfterRead(rd) = sizes
      BY <2>1, <2>4 DEF AfterRead, TakesSize
    <3> QED
      BY <1>1, <2>1, <2>2, <3>1, <3>2
  <2> QED
    BY <2>3, <2>4
<1> QED
  BY <1>3, <1>4

(* Every cycle keeps the sizes and the lines in step.                       *)
LEMMA NextSync == IInv /\ SyncInv /\ [Next]_vars => SyncInv'
<1> SUFFICES ASSUME IInv, SyncInv, [Next]_vars PROVE SyncInv'
  OBVIOUS
<1>1. CASE UNCHANGED vars
  <2>1. Unread' = Unread /\ Partial' = Partial /\ sizes' = sizes
    BY <1>1, Stretches DEF vars
  <2> QED
    BY <2>1, SMTT(30) DEF SyncInv, SizesInSync, PartialOpen, Describes, BytesIn
<1>2. CASE Next
  <2>1. PICK rd \in BOOLEAN :
              /\ rd => Unread # <<>> /\ Unread[1] = Line(rd_ptr)
              /\ \/ Kept(rd)
                 \/ \E line \in Lines : Begun(rd, line) \/ Continued(rd, line) \/ Completed(rd, line)
    BY <1>2, CycleStep
  <2>2. /\ AfterRead(rd) \in Seq(Int) /\ Taken(rd) \in Seq(Cells)
        /\ \E e \in [1 .. Len(AfterRead(rd)) -> 1 .. Len(Taken(rd))] :
              Describes(AfterRead(rd), Taken(rd), e)
    BY <2>1, ReadSync, SMTT(30) DEF SyncInv
  <2>3. ASSUME sizes' = AfterRead(rd), Unread' = Taken(rd) PROVE SizesInSync'
    BY <2>2, <2>3, ZenonT(30) DEF SizesInSync, Describes, BytesIn
  <2>4. Partial \in Seq(Cells) /\ PartialOpen
    BY LinesType DEF SyncInv
  <2>5. ASSUME Partial' = <<>> PROVE PartialOpen'
    BY <2>5 DEF PartialOpen
  <2>6. CASE Kept(rd)
    <3>1. SizesInSync'
      BY <2>3, <2>6 DEF Kept, KeepSizes
    <3>2. PartialOpen'
      BY <2>4, <2>5, <2>6 DEF Kept, PartialOpen
    <3> QED
      BY <3>1, <3>2 DEF SyncInv
  <2>7. ASSUME NEW line \in Lines, Begun(rd, line) PROVE SyncInv'
    <3>1. SizesInSync'
      BY <2>3, <2>7 DEF Begun, KeepSizes
    <3>2. PartialOpen'
      BY <2>7 DEF Begun, PartialOpen
    <3> QED
      BY <3>1, <3>2 DEF SyncInv
  <2>8. ASSUME NEW line \in Lines, Continued(rd, line) PROVE SyncInv'
    <3>1. SizesInSync'
      BY <2>3, <2>8 DEF Continued, KeepSizes
    <3>2. PartialOpen'
      <4>1. Partial' = Append(Partial, line) /\ ~line.end /\ line \in Cells
        BY <2>8 DEF Continued, Cells
      <4> DEFINE p == Partial
                 q == Partial'
      <4>2. p \in Seq(Cells) /\ q = Append(p, line) /\ \A i \in 1 .. Len(p) : ~p[i].end
        BY <2>4, <4>1 DEF PartialOpen
      <4> HIDE DEF p, q
      <4>3. /\ Len(q) = Len(p) + 1 /\ q[Len(p) + 1] = line
            /\ \A i \in 1 .. Len(p) : q[i] = p[i]
        BY <4>1, <4>2, AppendProperties
      <4>4. ASSUME NEW i \in 1 .. Len(q) PROVE ~q[i].end
        <5>1. Len(p) \in Nat
          BY <4>2
        <5>2. CASE i = Len(p) + 1
          BY <4>1, <4>3, <5>2
        <5>3. CASE i # Len(p) + 1
          <6>1. i \in 1 .. Len(p)
            BY <4>3, <5>1, <5>3
          <6> QED
            BY <4>2, <4>3, <6>1
        <5> QED
          BY <5>2, <5>3
      <4> QED
        BY <4>4 DEF PartialOpen, q
    <3> QED
      BY <3>1, <3>2 DEF SyncInv
  <2>9. ASSUME NEW line \in Lines, Completed(rd, line) PROVE SyncInv'
    <3>1. /\ line.end /\ line \in Cells /\ Partial' = <<>>
          /\ sizes' = Append(AfterRead(rd), BytesIn(Len(Partial) + 1, line))
          /\ Unread' = Taken(rd) \o Append(Partial, line)
      BY <2>9 DEF Completed, Cells
    <3>2. \E d \in [1 .. Len(sizes') -> 1 .. Len(Unread')] : Describes(sizes', Unread', d)
      BY <2>2, <2>4, <3>1, DescribesPacket, ZenonT(30) DEF PartialOpen
    <3>3. SizesInSync'
      BY <3>2 DEF SizesInSync, Describes, BytesIn
    <3> QED
      BY <2>5, <3>1, <3>3 DEF SyncInv
  <2> QED
    BY <2>1, <2>6, <2>7, <2>8, <2>9
<1> QED
  BY <1>1, <1>2

LEMMA SyncInvariant == Spec => [](IInv /\ SyncInv)
<1>1. Init => SyncInv
  <2> SUFFICES ASSUME Init PROVE SyncInv
    OBVIOUS
  <2>1. rd_ptr \in Ptrs /\ rd_ptr = cm_ptr /\ wr_ptr = cm_ptr /\ sizes = <<>>
    BY PacketQueueAssumption DEF Init, Ptrs
  <2>2. Unread = <<>> /\ Partial = <<>>
    BY <2>1, FromEmpty, Stretches
  <2> DEFINE e == [n \in 1 .. 0 |-> 1]
  <2>3. e \in [1 .. 0 -> 1 .. 0]
    OBVIOUS
  <2> HIDE DEF e
  <2>4. Ordered(<<>>, <<>>, e, 0, 0)
    BY DEF Ordered
  <2>5. Len(<<>>) = 0
    OBVIOUS
  <2>6. Describes(<<>>, <<>>, e)
    BY <2>3, <2>4, <2>5, DescribesIff, ZenonT(30)
  <2>7. SizesInSync
    BY <2>1, <2>2, <2>3, <2>5, <2>6, ZenonT(30) DEF SizesInSync
  <2>8. PartialOpen
    BY <2>2 DEF PartialOpen
  <2> QED
    BY <2>7, <2>8 DEF SyncInv
<1> QED
  BY <1>1, InitIInv, NextIInv, NextSync, PTL DEF Spec

(* "It is very important the size queue is kept in sync with the data       *)
(* queue" (packet_queue_doc.md): it is, for rings of any size, whatever     *)
(* lines arrive, as long as the user takes a size with the last line of     *)
(* every packet.  Every unread packet has its size, in order.               *)
THEOREM SizesStayInSync == Spec => []SizesInSync
<1>1. SyncInv => SizesInSync
  BY DEF SyncInv
<1> QED
  BY <1>1, SyncInvariant, PTL

(* The size queue cannot overflow although the controller never looks at    *)
(* its full flag: for rings of any size it holds at most one size per line. *)
THEOREM SizeQueueNeverOverflows == Spec => []SizeQueueFits
<1>1. IInv /\ SyncInv => SizeQueueFits
  <2> SUFFICES ASSUME IInv, SyncInv PROVE SizeQueueFits
    OBVIOUS
  <2>1. sizes \in Seq(Int) /\ Unread \in Seq(Cells) /\ Len(Unread) <= Els
    BY LinesType DEF IInv, TypeOK
  <2>2. Len(sizes) <= Len(Unread)
    BY <2>1, DescribesFits DEF SyncInv, SizesInSync
  <2> QED
    BY <2>1, <2>2, PacketQueueAssumption DEF SizeQueueFits
<1> QED
  BY <1>1, SyncInvariant, PTL
=============================================================================
