-------------------------- MODULE SlabAllocProofs --------------------------
(* Proofs about the slab allocator, for any number of slabs.               *)
EXTENDS SlabAlloc, FiniteSetTheorems, TLAPS

Img(s) == {s[i] : i \in 1 .. Len(s)}
Distinct(s) == \A i, j \in 1 .. Len(s) : s[i] = s[j] => i = j

(* Appending a new element to a sequence of distinct elements.             *)
LEMMA AppendDistinct ==
    ASSUME NEW S, NEW s \in Seq(S), NEW e \in S, Distinct(s), e \notin Img(s)
    PROVE  /\ Append(s, e) \in Seq(S)
           /\ Img(Append(s, e)) = Img(s) \union {e}
           /\ Distinct(Append(s, e))
<1> DEFINE t == Append(s, e)
<1>1. /\ t \in Seq(S)
      /\ Len(t) = Len(s) + 1
      /\ Len(s) \in Nat
      /\ \A i \in 1 .. Len(s) : t[i] = s[i]
      /\ t[Len(s) + 1] = e
  OBVIOUS
<1> HIDE DEF t
<1>2. Img(t) = Img(s) \union {e}
  <2>1. ASSUME NEW x \in Img(t) PROVE x \in Img(s) \union {e}
    BY <1>1 DEF Img
  <2>2. ASSUME NEW x \in Img(s) \union {e} PROVE x \in Img(t)
    <3>1. CASE x \in Img(s)
      <4>1. PICK i \in 1 .. Len(s) : x = s[i]
        BY <3>1 DEF Img
      <4>2. i \in 1 .. Len(t) /\ x = t[i]
        BY <1>1, <4>1
      <4> QED BY <4>2 DEF Img
    <3>2. CASE x = e
      <4>1. Len(s) + 1 \in 1 .. Len(t) /\ x = t[Len(s) + 1]
        BY <1>1, <3>2
      <4> QED BY <4>1 DEF Img
    <3> QED BY <2>2, <3>1, <3>2
  <2> QED BY <2>1, <2>2
<1>3. Distinct(t)
  BY <1>1 DEF Distinct, Img
<1> QED BY <1>1, <1>2, <1>3 DEF t

(* Removing the first element of a sequence of distinct elements.          *)
LEMMA TailDistinct ==
    ASSUME NEW S, NEW s \in Seq(S), Distinct(s), s # <<>>
    PROVE  /\ Tail(s) \in Seq(S)
           /\ Head(s) \in Img(s)
           /\ Img(Tail(s)) = Img(s) \ {Head(s)}
           /\ Distinct(Tail(s))
<1> DEFINE t == Tail(s)
<1>1. /\ t \in Seq(S)
      /\ Len(s) \in Nat /\ Len(s) > 0
      /\ Len(t) = Len(s) - 1
      /\ \A i \in 1 .. Len(t) : t[i] = s[i + 1]
      /\ Head(s) = s[1]
  OBVIOUS
<1> HIDE DEF t
<1>2. Img(t) = Img(s) \ {Head(s)}
  <2>1. ASSUME NEW x \in Img(t) PROVE x \in Img(s) \ {Head(s)}
    <3>1. PICK i \in 1 .. Len(t) : x = t[i]
      BY <2>1 DEF Img
    <3>2. i + 1 \in 1 .. Len(s) /\ x = s[i + 1] /\ i + 1 # 1
      BY <1>1, <3>1
    <3> QED BY <1>1, <3>2 DEF Img, Distinct
  <2>2. ASSUME NEW x \in Img(s) \ {Head(s)} PROVE x \in Img(t)
    <3>1. PICK i \in 1 .. Len(s) : x = s[i]
      BY <2>2 DEF Img
    <3>2. i - 1 \in 1 .. Len(t) /\ x = t[i - 1]
      BY <1>1, <2>2, <3>1
    <3> QED BY <3>2 DEF Img
  <2> QED BY <2>1, <2>2
<1>3. Distinct(t)
  BY <1>1 DEF Distinct
<1>4. Head(s) \in Img(s)
  BY <1>1 DEF Img
<1> QED BY <1>1, <1>2, <1>3, <1>4 DEF t

-----------------------------------------------------------------------------
(* The inductive invariant: the types, and the partition of the slabs among *)
(* clients, FIFO and counter.                                               *)
IInv == TypeOK /\ Partition

(* The slabs in the FIFO are the elements of the sequence.                 *)
LEMMA FreedIsImg == Freed = Img(fifo)
BY DEF Freed, Img

(* After reset the counter has every slab.                                 *)
LEMMA InitIInv == Init => IInv
<1> SUFFICES ASSUME Init PROVE IInv
  OBVIOUS
<1>1. TypeOK
  <2>1. use_fifo \in BOOLEAN
    BY ZenonT(30) DEF Init
  <2>2. init_slab \in 0 .. FifoEls - 1
    BY SlabAssumption DEF Init
  <2>3. fifo \in Seq(Slabs) /\ held \subseteq Slabs
    BY DEF Init
  <2> QED BY <2>1, <2>2, <2>3 DEF TypeOK
<1>2. Freed = {} /\ Len(fifo) = 0
  BY DEF Init, Freed
<1>3. Partition
  BY <1>2, SlabAssumption DEF Init, Partition, Unused, Slabs
<1> QED BY <1>1, <1>3 DEF IInv

(* Consuming the offer: what the counter, the FIFO before the free, and the *)
(* set of held slabs become.                                                *)
LEMMA ConsumeStep ==
    ASSUME IInv, NEW consume \in BOOLEAN, NextCounter(consume)
    PROVE  LET f == AfterConsume(consume)
               h == held \union (IF consume /\ ~resp_error THEN {resp_addr} ELSE {})
           IN  /\ use_fifo' \in BOOLEAN
               /\ init_slab' \in 0 .. FifoEls - 1
               /\ f \in Seq(Slabs)
               /\ h \subseteq Slabs
               /\ ~use_fifo' => init_slab' < NUM_SLABS
               /\ Slabs = h \union Img(f) \union Unused'
               /\ h \intersect Img(f) = {}
               /\ h \intersect Unused' = {}
               /\ Img(f) \intersect Unused' = {}
               /\ Distinct(f)
               /\ held \subseteq h
<1> DEFINE f == AfterConsume(consume)
           h == held \union (IF consume /\ ~resp_error THEN {resp_addr} ELSE {})
<1>0. /\ TypeOK /\ Distinct(fifo)
      /\ ~use_fifo => init_slab < NUM_SLABS
      /\ Slabs = held \union Img(fifo) \union Unused
      /\ held \intersect Img(fifo) = {}
      /\ held \intersect Unused = {}
      /\ Img(fifo) \intersect Unused = {}
  BY FreedIsImg DEF IInv, Partition, Distinct
<1>1. CASE ~use_fifo /\ consume
  <2>1. f = fifo /\ h = held \union {init_slab}
    BY <1>1 DEF AfterConsume, resp_error, resp_addr
  <2>2. /\ use_fifo' = (init_slab = NUM_SLABS - 1)
        /\ init_slab' = IF init_slab + 1 = FifoEls THEN 0 ELSE init_slab + 1
    BY <1>1 DEF NextCounter
  <2>3. /\ init_slab \in 0 .. FifoEls - 1
        /\ init_slab < NUM_SLABS
        /\ Unused = init_slab .. NUM_SLABS - 1
    BY <1>0, <1>1 DEF Unused, TypeOK
  <2>4. CASE init_slab = NUM_SLABS - 1
    <3>1. use_fifo' = TRUE /\ Unused' = {}
      BY <2>2, <2>4, ZenonT(30) DEF Unused
    <3>2. init_slab' \in 0 .. FifoEls - 1
      BY <2>2, <2>3, SlabAssumption
    <3>3. Unused = {init_slab}
      BY <2>3, <2>4, SlabAssumption
    <3> QED BY <1>0, <2>1, <3>1, <3>2, <3>3 DEF TypeOK
  <2>5. CASE init_slab # NUM_SLABS - 1
    <3>1. use_fifo' = FALSE /\ Unused' = init_slab' .. NUM_SLABS - 1
      BY <2>2, <2>5, ZenonT(30) DEF Unused
    <3>2. init_slab' = init_slab + 1 /\ init_slab' < NUM_SLABS
      BY <2>2, <2>3, <2>5, SlabAssumption
    <3>3. Unused = {init_slab} \union Unused' /\ init_slab \notin Unused'
      BY <2>3, <3>1, <3>2, SlabAssumption
    <3>4. init_slab' \in 0 .. FifoEls - 1
      BY <2>3, <3>2, SlabAssumption
    <3>5. init_slab \in Slabs /\ init_slab \notin held /\ init_slab \notin Img(fifo)
      BY <1>0, <3>3
    <3>6. /\ h \subseteq Slabs /\ held \subseteq h
          /\ Slabs = h \union Img(f) \union Unused'
          /\ h \intersect Img(f) = {}
          /\ h \intersect Unused' = {}
          /\ Img(f) \intersect Unused' = {}
      <4> HIDE DEF f, h
      <4> QED BY <1>0, <2>1, <3>3, <3>5 DEF TypeOK
    <3>7. f \in Seq(Slabs) /\ Distinct(f)
      BY <1>0, <2>1 DEF TypeOK
    <3> QED BY <3>1, <3>2, <3>4, <3>6, <3>7, ZenonT(30)
  <2> QED BY <2>4, <2>5
<1>2. CASE use_fifo /\ consume /\ fifo # <<>>
  <2>1. f = Tail(fifo) /\ h = held \union {Head(fifo)}
    BY <1>2 DEF AfterConsume, resp_error, resp_addr, fifo_empty
  <2>2. UNCHANGED <<use_fifo, init_slab>>
    BY <1>2 DEF NextCounter
  <2>3. Unused' = Unused
    BY <2>2 DEF Unused
  <2>4. /\ f \in Seq(Slabs)
        /\ Head(fifo) \in Img(fifo)
        /\ Img(f) = Img(fifo) \ {Head(fifo)}
        /\ Distinct(f)
    <3>1. fifo \in Seq(Slabs)
      BY <1>0 DEF TypeOK
    <3> HIDE DEF f
    <3> QED BY <1>0, <1>2, <2>1, <3>1, TailDistinct
  <2> QED BY <1>0, <2>1, <2>2, <2>3, <2>4 DEF TypeOK
<1>3. CASE ~consume \/ (use_fifo /\ fifo = <<>>)
  <2>1. f = fifo /\ h = held
    BY <1>3 DEF AfterConsume, resp_error, fifo_empty
  <2>2. UNCHANGED <<use_fifo, init_slab>>
    BY <1>3 DEF NextCounter
  <2>3. Unused' = Unused
    BY <2>2 DEF Unused
  <2> QED BY <1>0, <2>1, <2>2, <2>3 DEF TypeOK
<1> QED BY <1>1, <1>2, <1>3

(* A cycle, with or without a consume and a free, keeps the partition.     *)
LEMMA NextIInv == IInv /\ [Next]_vars => IInv'
<1> SUFFICES ASSUME IInv, [Next]_vars PROVE IInv'
  OBVIOUS
<1>1. CASE UNCHANGED vars
  BY <1>1 DEF vars, IInv, TypeOK, Partition, Freed, Unused
<1>2. CASE Next
  <2>1. PICK consume \in BOOLEAN, free \in held \union {NoSlab} : Cycle(consume, free)
    BY <1>2 DEF Next
  <2> DEFINE f == AfterConsume(consume)
             h == held \union (IF consume /\ ~resp_error THEN {resp_addr} ELSE {})
  <2>2. /\ use_fifo' \in BOOLEAN
        /\ init_slab' \in 0 .. FifoEls - 1
        /\ f \in Seq(Slabs)
        /\ h \subseteq Slabs
        /\ ~use_fifo' => init_slab' < NUM_SLABS
        /\ Slabs = h \union Img(f) \union Unused'
        /\ h \intersect Img(f) = {}
        /\ h \intersect Unused' = {}
        /\ Img(f) \intersect Unused' = {}
        /\ Distinct(f)
        /\ held \subseteq h
    BY <2>1, ConsumeStep DEF Cycle
  <2>3. SUFFICES /\ fifo' \in Seq(Slabs)
                 /\ held' \subseteq Slabs
                 /\ Slabs = held' \union Img(fifo') \union Unused'
                 /\ held' \intersect Img(fifo') = {}
                 /\ held' \intersect Unused' = {}
                 /\ Img(fifo') \intersect Unused' = {}
                 /\ Distinct(fifo')
    <3>1. Freed' = Img(fifo')
      BY DEF Freed, Img
    <3> QED BY <2>2, <3>1 DEF IInv, TypeOK, Partition, Distinct
  <2>4. CASE free # NoSlab /\ ~fifo_full
    <3>1. fifo' = Append(f, free) /\ held' = h \ {free}
      BY <2>1, <2>4 DEF Cycle, NextFifo, NextHeld, free_rdy
    <3>2. free \in h /\ free \in Slabs /\ free \notin Img(f)
      BY <2>2, <2>4
    <3>3. /\ fifo' \in Seq(Slabs)
          /\ Img(fifo') = Img(f) \union {free}
          /\ Distinct(fifo')
      <4> HIDE DEF f
      <4> QED BY <2>2, <3>1, <3>2, AppendDistinct
    <3> HIDE DEF f, h
    <3> QED BY <2>2, <3>1, <3>2, <3>3
  <2>5. CASE free = NoSlab \/ fifo_full
    <3>1. fifo' = f /\ held' = h
      BY <2>1, <2>5 DEF Cycle, NextFifo, NextHeld, free_rdy
    <3> HIDE DEF f, h
    <3> QED BY <2>2, <3>1
  <2> QED BY <2>4, <2>5
<1> QED BY <1>1, <1>2 DEF Next

(* The inductive invariant holds in every cycle.                           *)
THEOREM IInvAlways == Spec => []IInv
<1> QED BY InitIInv, NextIInv, PTL DEF Spec

(* For any number of slabs, each is in exactly one place: with a client,   *)
(* in the FIFO of freed slabs, or not yet reached by the counter.          *)
THEOREM PartitionInvariant == Spec => []Partition
<1>1. IInv => Partition
  BY DEF IInv
<1> QED BY <1>1, IInvAlways, PTL

(* Type correctness of the allocator's registers, FIFO and clients.        *)
THEOREM TypeCorrect == Spec => []TypeOK
<1>1. IInv => TypeOK
  BY DEF IInv
<1> QED BY <1>1, IInvAlways, PTL

(* For any number of slabs, a slab that a client holds is never offered.   *)
THEOREM NeverDoubleAllocated == Spec => []NoDoubleAlloc
<1>1. IInv => NoDoubleAlloc
  <2> SUFFICES ASSUME IInv, ~resp_error PROVE resp_addr \in Slabs \ held
    BY DEF NoDoubleAlloc
  <2>1. CASE ~use_fifo
    BY <2>1, SlabAssumption DEF IInv, TypeOK, Partition, Unused, resp_addr, Slabs
  <2>2. CASE use_fifo
    <3>1. fifo # <<>> /\ resp_addr = Head(fifo)
      BY <2>2 DEF resp_error, fifo_empty, resp_addr
    <3>2. Head(fifo) \in Img(fifo)
      BY <3>1, TailDistinct DEF IInv, TypeOK, Partition, Distinct
    <3> QED BY <3>1, <3>2, FreedIsImg DEF IInv, Partition
  <2> QED BY <2>1, <2>2 DEF IInv, TypeOK
<1> QED BY <1>1, IInvAlways, PTL

(* For any number of slabs, the error bit means that all are with clients. *)
THEOREM NeverLeaked == Spec => []NoLeak
<1>1. IInv => NoLeak
  BY DEF IInv, Partition, NoLeak, resp_error, fifo_empty, Freed, Unused
<1> QED BY <1>1, IInvAlways, PTL

(* For any number of slabs, a client that holds one can free it at once.   *)
THEOREM FreeAlwaysAccepted == Spec => []FreeNeverRefused
<1>1. IInv => FreeNeverRefused
  <2> SUFFICES ASSUME IInv, held # {}, Len(fifo) = FifoEls PROVE FALSE
    BY DEF FreeNeverRefused, free_rdy, fifo_full
  <2>1. PICK x \in Slabs : x \in held
    BY DEF IInv, TypeOK
  <2>2. /\ IsFiniteSet(Slabs) /\ Cardinality(Slabs) = NUM_SLABS
    BY FS_Interval, SlabAssumption DEF Slabs
  <2>3. /\ IsFiniteSet(Slabs \ {x})
        /\ Cardinality(Slabs \ {x}) = NUM_SLABS - 1
    BY <2>1, <2>2, FS_RemoveElement
  <2>4. /\ IsFiniteSet(1 .. FifoEls)
        /\ Cardinality(1 .. FifoEls) = FifoEls
    BY FS_Interval, SlabAssumption
  <2>5. fifo \in [1 .. FifoEls -> Slabs \ {x}]
    <3>1. \A i \in 1 .. Len(fifo) : fifo[i] \in Freed
      BY DEF Freed
    <3> QED BY <2>1, <3>1 DEF IInv, TypeOK, Partition
  <2>6. Cardinality(Slabs \ {x}) < Cardinality(1 .. FifoEls)
    BY <2>3, <2>4, SlabAssumption
  <2>7. \E i, j \in 1 .. FifoEls : i # j /\ fifo[i] = fifo[j]
    BY <2>3, <2>4, <2>5, <2>6, FS_PigeonHole
  <2> QED BY <2>7 DEF IInv, Partition
<1> QED BY <1>1, IInvAlways, PTL
=============================================================================
