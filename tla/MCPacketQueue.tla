--------------------------- MODULE MCPacketQueue ---------------------------
(* Instances of PacketQueue for TLC.                                       *)
EXTENDS PacketQueue

L(s, e, p) == [start |-> s, end |-> e, pad |-> p]

(* Every combination of start and end that can be on the wires; padding     *)
(* only matters on a last line.                                             *)
AllLines == {L(TRUE, FALSE, 0), L(FALSE, FALSE, 0), L(FALSE, TRUE, 0),
             L(FALSE, TRUE, 1), L(TRUE, TRUE, 1)}

============================================================================
