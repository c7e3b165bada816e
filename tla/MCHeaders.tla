----------------------------- MODULE MCHeaders -----------------------------
(***************************************************************************)
(* Vectors for Headers.  A vector is written from its most significant     *)
(* byte on, as the hardware's packed structures are.                       *)
(***************************************************************************)
EXTENDS Headers

(* Ports, sequence number, ACK number, flags and checksum vary.  The ports   *)
(* are such that some sums carry again when the carry is added.              *)
TcpVector(port, seq, ack, flags, check) ==
    Rev(port \o <<31, 144>> \o seq \o ack \o <<80, flags, 1, 2>> \o check \o <<0, 3>>)

IpVector(len, check, src) ==
    Rev(<<69, 0>> \o len \o <<0, 1, 64, 0, 64, 6>> \o check \o src \o <<10, 0, 0, 9>>)

TcpVectors ==
    {TcpVector(p, s, a, f, c) : p \in {<<95, 115>>, <<115, 109>>},
                                s \in {<<0, 0, 0, 0>>, <<255, 255, 255, 254>>},
                                a \in {<<1, 2, 3, 4>>, <<255, 255, 255, 255>>},
                                f \in {2, 16}, c \in {<<0, 0>>, <<171, 205>>}}

IpVectors ==
    {IpVector(<<0, 41>>, c, s) : c \in {<<0, 0>>, <<18, 52>>},
                                 s \in {<<10, 0, 0, 1>>, <<255, 255, 255, 255>>}}

MCVectors ==
    [tcp : TcpVectors, ip : IpVectors, len : 0 .. 3,
     data : {<<0, 0, 0, 0, 0, 255, 254, 253>>, <<1, 2, 3, 4, 5, 6, 7, 8>>}]

MCFills ==
    [seq : {<<1, 2, 3, 4>>}, ack : {<<0, 0, 0, 0>>, <<255, 0, 255, 0>>},
     syn : {0, 1}, ackf : {0, 1}]
=============================================================================
