------------------------------ MODULE PcapFile ------------------------------
(***************************************************************************)
(* Packet capture files as pcap_helpers.cpp reads and writes them.  A file *)
(* is a sequence of units: the file header, record headers and bytes.      *)
(* Both processes that share a file go through C streams, so that what a   *)
(* writer puts into its stream is on disk only after a flush, or when the  *)
(* buffer of the stream overflows.                                         *)
(*                                                                         *)
(* A frame is a name; Info gives the fields of its headers that the        *)
(* simulation library looks at.  Lengths count units.                      *)
(***************************************************************************)
EXTENDS Integers, Sequences

CONSTANTS
    Frames,      \* names of the frames that occur
    Info,        \* their header fields, and size: the length on the wire
    StdioBuf     \* units the buffer of an output stream holds

ASSUME PcapFileAssumption ==
    /\ \A f \in Frames : Info[f].size \in Nat \ {0}
    /\ StdioBuf \in Nat
    \* 16 bytes of header and at most 2048 of packet, against 4096
    /\ \A f \in Frames : Info[f].size + 1 <= StdioBuf

Byte(f, i) == [unit |-> "byte", frame |-> f, i |-> i]
Bytes(f) == [i \in 1 .. Info[f].size |-> Byte(f, i)]

FileHeader == [unit |-> "file"]
RecHeader(n) == [unit |-> "record", len |-> n]

Shorter(m, n) == IF m < n THEN m ELSE n

(***************************************************************************)
(* An output stream: what is on disk, and what is in its buffer.           *)
(***************************************************************************)
fwrite(s, units) ==
    LET all == s.buf \o units
    IN  IF Len(all) > StdioBuf
        THEN [disk |-> s.disk \o all, buf |-> <<>>]
        ELSE [disk |-> s.disk, buf |-> all]

fflush(s) == [disk |-> s.disk \o s.buf, buf |-> <<>>]

writePCAPHeader(s) == fflush(fwrite(s, <<FileHeader>>))

(* The two writes of a record and the flush after them.  They are three      *)
(* steps for the process that reads the file.  Definitions whose names end   *)
(* in _bug are mutated forms of the definition that follows them; no         *)
(* specification uses them.                                                  *)
write_record_header_bug(s, b) == fflush(fwrite(s, <<RecHeader(Len(b))>>))

write_record_header(s, b) == fwrite(s, <<RecHeader(Len(b))>>)

write_record_packet(s, b) == fwrite(s, b)

write_pcap_record(s, b) ==
    fflush(write_record_packet(write_record_header(s, b), b))

(***************************************************************************)
(* Reading.  The results are the buffer that is filled and the position    *)
(* after it; a position that is not at a record header yields some length. *)
(* A record that ends early is returned as far as it goes.                 *)
(***************************************************************************)
consumePCAPHeader(disk) == IF disk = <<>> THEN -1 ELSE 0

LensAt(disk, pos) ==
    IF disk[pos + 1].unit = "record" THEN {disk[pos + 1].len} ELSE 0 .. StdioBuf

read_pcap_record(disk, pos) ==
    IF pos >= Len(disk) THEN {[buf |-> <<>>, pos |-> pos]}
    ELSE {[buf |-> SubSeq(disk, pos + 2, Shorter(pos + 1 + n, Len(disk))),
           pos |-> Shorter(pos + 1 + n, Len(disk))] : n \in LensAt(disk, pos)}
=============================================================================
