----------------------------- MODULE SlabAlloc -----------------------------
(***************************************************************************)
(* The slab allocator of the temporary receive buffer                      *)
(* (common/mem_allocator/slab_alloc_tracker.sv).                           *)
(*                                                                         *)
(* The allocator always offers an address.  Until every slab has been      *)
(* handed out once the offer comes from a counter; after that it comes     *)
(* from the FIFO of freed slabs.  A client takes the offer by raising      *)
(* src_alloc_slab_consume_val and may free a slab in the same cycle.       *)
(*                                                                         *)
(* An address is a multiple of SLAB_BYTES and is represented by its slab   *)
(* number.  One step of Next is one clock cycle.                           *)
(***************************************************************************)
EXTENDS Integers, Sequences, FiniteSets

CONSTANTS
    NUM_SLABS,   \* number of slabs
    FifoEls      \* 2 ^ clog2(NUM_SLABS): entries of the FIFO of freed slabs,
                 \* and the number of values of the slab number register

ASSUME SlabAssumption ==
    /\ NUM_SLABS \in Nat \ {0}
    /\ FifoEls \in Nat
    /\ NUM_SLABS <= FifoEls

VARIABLES
    use_fifo,    \* use_fifo_reg
    init_slab,   \* init_slab_addr_reg, as a slab number
    fifo,        \* contents of freed_slab_fifo, oldest first
    held         \* slabs clients have taken and not yet given back

vars == <<use_fifo, init_slab, fifo, held>>

Slabs == 0 .. NUM_SLABS - 1
NoSlab == -1

(***************************************************************************)
(* Definitions whose names end in _bug are mutated forms of the definition *)
(* that follows them; no specification uses them.                          *)
(***************************************************************************)

(* The interface, as a client sees it during a cycle. *)
fifo_empty == fifo = <<>>
fifo_full == Len(fifo) = FifoEls
resp_error == use_fifo /\ fifo_empty
resp_addr == IF use_fifo THEN Head(fifo) ELSE init_slab
free_rdy == ~fifo_full

Init ==
    /\ use_fifo = FALSE
    /\ init_slab = 0
    /\ fifo = <<>>
    /\ held = {}

(* What is left of the FIFO once the offer is consumed: it is read only in  *)
(* FIFO mode and only when it holds something.                              *)
AfterConsume_no_read_bug(consume) == fifo

AfterConsume(consume) ==
    IF use_fifo /\ consume /\ ~fifo_empty THEN Tail(fifo) ELSE fifo

NextCounter_never_fifo_bug(consume) ==
    IF ~use_fifo /\ consume
    THEN /\ use_fifo' = FALSE
         /\ init_slab' = IF init_slab + 1 = FifoEls THEN 0 ELSE init_slab + 1
    ELSE UNCHANGED <<use_fifo, init_slab>>

NextCounter(consume) ==
    IF ~use_fifo /\ consume
    THEN /\ use_fifo' = (init_slab = NUM_SLABS - 1)
         /\ init_slab' = IF init_slab + 1 = FifoEls THEN 0 ELSE init_slab + 1
    ELSE UNCHANGED <<use_fifo, init_slab>>

NextFifo_drop_bug(consume, free) ==
    fifo' = IF free # NoSlab /\ ~fifo_full /\ ~consume
            THEN Append(AfterConsume(consume), free)
            ELSE AfterConsume(consume)

(* A freed slab enters the FIFO unless the FIFO is full. *)
NextFifo(consume, free) ==
    fifo' = IF free # NoSlab /\ ~fifo_full
            THEN Append(AfterConsume(consume), free)
            ELSE AfterConsume(consume)

(* The clients' side: a consumed offer is theirs, a free that was accepted  *)
(* is not any more.                                                         *)
NextHeld(consume, free) ==
    held' = (held \union (IF consume /\ ~resp_error THEN {resp_addr} ELSE {}))
              \ (IF free # NoSlab /\ free_rdy THEN {free} ELSE {})

(* One cycle.  Clients free only slabs they hold.                           *)
Cycle(consume, free) ==
    /\ NextCounter(consume)
    /\ NextFifo(consume, free)
    /\ NextHeld(consume, free)

Next == \E consume \in BOOLEAN, free \in held \union {NoSlab} : Cycle(consume, free)

Spec == Init /\ [][Next]_vars

-----------------------------------------------------------------------------
(* Type invariant.                                                          *)
TypeOK ==
    /\ use_fifo \in BOOLEAN
    /\ init_slab \in 0 .. FifoEls - 1
    /\ fifo \in Seq(Slabs)
    /\ held \subseteq Slabs

(* The address on offer is never one that some client still holds, so two   *)
(* payloads are never stored in one slab (resp_error clear means the offer  *)
(* is good).                                                                *)
NoDoubleAlloc == ~resp_error => resp_addr \in Slabs \ held

(* The error bit is raised only when every slab is with a client: no slab   *)
(* is lost by the switch from the counter to the FIFO or by a free that     *)
(* meets a consume in the same cycle.                                       *)
NoLeak == resp_error => held = Slabs

(* A client that holds a slab can always give it back: the FIFO of freed    *)
(* slabs is never full while a slab is out (free_slab_src_req_rdy).         *)
FreeNeverRefused == held # {} => free_rdy

(* Every slab is in exactly one place: with a client, in the FIFO, or not   *)
(* yet reached by the counter; and the FIFO holds none twice.  This is what *)
(* makes the three properties above inductive.                              *)
Unused == IF use_fifo THEN {} ELSE init_slab .. NUM_SLABS - 1
Freed == {fifo[i] : i \in 1 .. Len(fifo)}
Partition ==
    /\ ~use_fifo => init_slab < NUM_SLABS
    /\ Slabs = held \union Freed \union Unused
    /\ held \intersect Freed = {}
    /\ held \intersect Unused = {}
    /\ Freed \intersect Unused = {}
    /\ \A i, j \in 1 .. Len(fifo) : fifo[i] = fifo[j] => i = j
=============================================================================
