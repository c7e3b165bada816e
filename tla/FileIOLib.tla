----------------------------- MODULE FileIOLib -----------------------------
(***************************************************************************)
(* FileIOTestingLib (file_io_testing_lib.cpp): a backend that exchanges    *)
(* packets with another process through two files, hw_to_sw.txt and        *)
(* sw_to_hw.txt.  Both are opened for appending, and a header is appended  *)
(* to both; the read position of sw_to_hw.txt is then behind that header.  *)
(***************************************************************************)
EXTENDS PcapLib

EmptyStream == [disk |-> <<>>, buf |-> <<>>]

(* The object, given what is in sw_to_hw.txt.  sticky: the C library keeps   *)
(* the end-of-file condition of a stream (glibc from 2.28 on), so that a     *)
(* reader that once came to the end finds nothing more.  start is history:   *)
(* where reading began.                                                      *)
NewFileIO(disk, sticky) ==
    LET opened == writePCAPHeader([disk |-> disk, buf |-> <<>>])
    IN  [kind |-> "FILE_IO", send_file |-> writePCAPHeader(EmptyStream),
         pos |-> Len(opened.disk), start |-> Len(opened.disk),
         sticky |-> sticky, eof |-> FALSE]

FileIOGet(o, disk) ==
    IF o.sticky /\ o.eof THEN {Result(<<>>, o)}
    ELSE {Result(r.buf, [o EXCEPT !.pos = r.pos, !.eof = o.pos >= Len(disk)]) :
              r \in read_pcap_record(disk, o.pos)}

FileIOPut(o, buf) ==
    [obj |-> [o EXCEPT !.send_file = write_pcap_record(@, buf)], finish |-> FALSE]
=============================================================================
