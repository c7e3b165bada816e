---------------------------- MODULE ByteChannel ----------------------------
(***************************************************************************)
(* What the receive side of the simulated network interface promises: a    *)
(* packet enters as a whole, and the engine takes its bytes in order, each *)
(* once, at most a line at a time, and is told where the packet ends.      *)
(***************************************************************************)
EXTENDS Integers, Sequences

CONSTANTS
    Packets,      \* the packets that may enter, as sequences of bytes
    LineBytes,    \* bytes of a line
    End           \* marks the end of a packet

VARIABLE bytes    \* bytes on their way to the engine, oldest first

Init == bytes = <<>>

Enter == \E p \in Packets : bytes' = bytes \o p \o <<End>>

(* A line: LineBytes bytes of a packet that goes on or ends there, or the    *)
(* shorter rest of a packet; with the mark if the packet ends.               *)
Take ==
    \E n \in 1 .. Len(bytes) :
        LET body == SubSeq(bytes, 1, n)
            ends == body[n] = End
        IN  /\ \A i \in 1 .. n - 1 : body[i] # End
            /\ IF ends THEN n <= LineBytes + 1
               ELSE n = LineBytes /\ bytes[n + 1] # End
            /\ bytes' = SubSeq(bytes, n + 1, Len(bytes))

Next == Enter \/ Take

Spec == Init /\ [][Next]_bytes
=============================================================================
