----------------------------- MODULE MCSendPipe -----------------------------
(***************************************************************************)
(* Values of the constants of SendPipe for TLC.                            *)
(***************************************************************************)
EXTENDS SendPipe

CONSTANTS f1, f2, f3

ThreeFlows == {f1, f2, f3}

(* Segments of one flow with and without duplicate ACKs; and three flows     *)
(* that have nothing to send, for the scheduling.                            *)
AllLoads ==
    {[flows |-> {f1}, bytes |-> 4, dup |-> TRUE],
     [flows |-> {f1}, bytes |-> 6, dup |-> FALSE],
     [flows |-> ThreeFlows, bytes |-> 0, dup |-> TRUE]}

Duplicates == {[flows |-> {f1}, bytes |-> 4, dup |-> TRUE]}
=============================================================================
