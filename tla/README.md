# Verification of the TCP engine

TLA+ models of the hardware TCP engine in `src/` and of the C++ library that
connects it to packets in simulation (`src/sim_dpi/`), TLC runs on small instances,
and TLAPS proofs. `PROJECT.json` lists the runs, the source lines every
definition stands for, the hazards and the findings.

## The system

The engine is clocked SystemVerilog, the simulation library C++ that the
simulator calls through DPI. Their parts, their state and their operations:

| part | state | operations | hard behaviour |
|---|---|---|---|
| temporary receive buffer, slab allocator | slabs, FIFO of freed slabs | store payload, consume, free | consume and free in one cycle; leaks |
| packet queue | ring, three pointers, size queue, FSM | write line, commit, dump, read | ring fills up inside a frame |
| issue pipe, flow ID manager | flow CAM, free flow IDs | look up, allocate, steer | packets of a flow before its SYN is processed |
| FSM pipe | TCP state of each flow, control FSM | handshake, new flow, reinject | overtaking, shared state memories |
| established pipe | stages R, C, W, arbiter | process ACK and payload | bypasses, stalls, stale reads |
| payload copy engine | control FSM, commit pointers | copy, commit, free slab | several steps per payload |
| send pipe | scheduling FIFO, stages RT, N, W, flags | schedule, number, retransmit | races with ACKs |
| header assembler, frontend, applications, DRAM | pipelines, formatters | | mostly data layout |
| simulated network interface | packet being received, line registers, two FIFOs | `get_data`, `put_data`, clock edge | full FIFO against the register; order of two processes |
| backends: TCP trace, trace, files | flow contexts, packet queues, C streams | `get_buf_fr_io`, `put_buf_on_io` | answers early or late; a file shared with another process |
| header utilities | structures in memory | checksums, conversions | carries, byte order |

A packet enters the temporary buffer, is looked up by the issue pipe and goes to
the FSM pipe (connection set-up) or to the established pipe. That pipe updates
the ACK state and the tail pointer of the flow and queues the payload for the
copy engine, which moves it to the receive buffer and advances the commit
pointer. The send pipe takes flows from a FIFO in turn, cuts segments between
sequence number and tail pointer, and puts each flow back. Setting up a flow
takes the write port of every state memory for a cycle.

In simulation the engine's network side is `sim_network_side_queue.sv`. At each
falling edge it asks `get_data` for a line unless its receive FIFO is full, and
gives a line the engine sent to `put_data`. These turn packets of a backend
into lines and back. A trace backend replays the packets of a capture file that
are addressed to the interface and compares what the engine sends with the
others; the files backend exchanges packets with another process.

## How the system is modelled

One step of `Next` is one clock cycle; inputs of the cycle are chosen with
`\E`. Stages are records or `NONE`. The memories (`ram_*_sync_backpressure`)
re-issue a held read every cycle and bypass a simultaneous write, so a response
seen in a cycle is the content at its start. Sequence numbers are modulo
`SeqSpace` (2^32 in the code), buffer pointers modulo `2 * BufSize` or
`2 * TxBuf` (one wrap bit). Definitions ending in `_bug` are mutated forms of
the definition after them, used to see that a property can fail.

| module | models |
|---|---|
| `SlabAlloc` | `slab_alloc_tracker.sv`; `held` is what clients hold |
| `PacketQueue` | `packet_queue.sv`, `packet_queue_controller.sv`; one action per branch of the controller |
| `PacketFifo` | abstract: a FIFO into which frames enter whole |
| `AckEngines` | `rx_ack_engine.sv`, `tx_ack_engine.sv` as operators |
| `AckStream` | `tx_ack_engine.sv` under every stream of ACKs and every sender within its window |
| `EstPipe` | `est_pipe.sv`, `fsm_est_arbiter.sv`, `rx_state_store.sv`, `rx_payload_ptrs.sv`, `rx_store_buf_q`, and the neighbours that write the same memories |
| `EstSeq` | abstract: packets processed one at a time |
| `SendPipe` | `protocol_logic_pipe.sv`, `scheduling_fifos.sv`, `fifo_2w.v`, `rt_timeout_flag_store.sv`, `tx_state_store.sv`, `segment_calculator.sv`, composed with the ACK half of `est_pipe.sv` |
| `PcapFile` | `pcap_helpers.cpp` on C streams: a file on disk and a buffer not yet flushed |
| `TcpPcapLib` | `tcp_pcap_trace_testing_lib.cpp`: the object as a record, its methods as operators to the set of possible results |
| `PcapLib` | `pcap_trace_testing_lib.cpp`, in the same way |
| `FileIOLib` | `file_io_testing_lib.cpp`, in the same way |
| `NetSide` | `sim_network_side_queue.sv` and `.cpp`, `handle_arp`, composed with the backends, the other process and the engine |
| `ByteChannel` | abstract: packets enter whole, lines leave in order with an end mark |
| `Headers` | the checksum and conversion functions of `testing_utils.cpp`, byte by byte on a little-endian host |
| `MC*` | constants for TLC |
| `Sums` | the sum of a sequence |
| `*Proofs`, `EstPipeBuffer`, `Arithmetic` | theorems |

Abstractions. `EstPipe` has the copy engine as two steps (take an entry,
finish it), the FSM pipe as a reader of state and a source of new flows, the
send pipe as a writer of sequence numbers. `SendPipe` has the header assembler
as a ready signal, the timer as an expiry that may happen whenever it is armed,
an application that leaves room for unacknowledged bytes, and a peer that
acknowledges only bytes it was sent. Its ACKs may follow each other in every
cycle: packets pile up in the stages before `est_pipe` while it stalls.

In `NetSide` a step is one of the two processes at the falling edge, in either
order, the rising edge, or one of the three calls (header, packet, flush) with
which another process writes a record. A frame is a name with the header fields
the code reads; a line has `LineBytes` bytes. The header length that
`get_buf_fr_io` reads before the buffer is filled is any value the buffer may
seem to contain (`StaleIhls`), and with a wrong one the ports of the lookup are
other fields of the packet. The flows of a hash map are visited in any order.
Whether the C library remembers the end of a file is an input. The engine sends
any of its frames whenever the FIFO has room and takes lines when it likes. The
model stops at `finish_simulation`. `PcapTestingLib` is no longer created by
`init_network_side_state` and is composed in place of its successor.

`EstPipe`, `SendPipe` and `NetSide` choose their workload (`load`, `input`) in
the initial state from a constant set, so that one run covers several.

## Runs

| run | bounds | shows |
|---|---|---|
| `slab_alloc` | 7 slabs, FIFO of 8 | no slab offered twice, none lost, no free refused |
| `packet_queue` | ring of 4, every kind of line, no frame of one line inside another | pointer order, sizes in step with the data, size queue never overflows, refinement of `PacketFifo` |
| `ack_stream` | 8 sequence numbers, 3 in flight | ACK comparisons around the wrap; retransmit only with data outstanding |
| `est_pipe` | 2 flows, buffer 2, queue 1; loads: payloads on one flow; ACKs on a flow that sends; every sequence number and length with one packet of a flow in the pipe at a time | refinement of `EstSeq`, each acknowledged byte committed once; for the last load the tail follows the ACK number and the buffer is not overrun |
| `est_pipe_live` | 1 kind of packet | the arbiter starves nobody |
| `send_pipe` | buffer 4, segment 2; loads: 1 flow with 4 bytes and duplicate ACKs, with 6 bytes and none, both across the wrap; 3 flows and a FIFO of 2, no data | segments contiguous and in the buffer, every byte sent; each flow scheduled exactly once, and again and again; flag belongs to the flow; without duplicate ACKs ACK <= sequence number <= tail |
| `sim_net` | lines of 2 bytes, FIFOs of 2, frames of 1 to 5 bytes, 2 flows, traces of up to 5 packets, 2 frames sent by the engine, every backend | refinement of `ByteChannel`; packets sent and compared in trace order; whole records in both files; the simulation ends for a reason; everything is delivered |
| `sim_headers` | 16-bit fields at both ends of their range, sums that carry twice, 0 to 3 bytes of payload, checksum field zero or not | receiver accepts checksums, byte order on the wire, round trip |

The bounds are chosen so that pointers and sequence numbers wrap, queues fill,
two packets of a flow are in the pipeline together, and several segments are in
flight. Two flows suffice to tell "same flow" from "other flow" in bypasses;
three flows with a FIFO for two are the smallest instance in which both write
ports of the scheduling FIFO are used while it is nearly full. In `sim_net` a
FIFO of 2 is full with one line in the register and one driven, frames end with
a full line, with half a line and with their first line, and a frame has padding
behind its IP packet.

Fairness. `WF_vars(Next)`: the clock runs. `WF_vars(CycleWith(TRUE))`: in
`EstPipe` the copy engine finishes each payload, in `SendPipe` the header
assembler is ready again and again. Both drain into memories and links that do
not depend on the pipeline being waited for. In `NetSide` the simulator runs
(`WF_vars(Simulate)`), the engine is ready again and again
(`SF_vars(Posedge(TRUE))`), and the other process goes on with a record it has
begun (`WF_vars(SwWrite)`).

`sim_net` and `sim_headers` do not check deadlock: the simulation may end, and a
segment is converted once.

## Findings

Each is a run with expected result *violation*; `PROJECT.json` quotes the
comment or document concerned.

- `est_pipe_stale_tail`: when setting up another flow stalls W for a cycle, the
  next packet of a flow latches an old tail pointer that nothing bypasses.
- `send_pipe_go_back`: an ACK that arrives while a retransmission is between N
  and W leaves the sequence number behind the ACK number.
- `send_pipe_set_clear`: a flag set and cleared in one cycle is lost.
- `trace_handshake`: at the end of the trace the TCP trace backend sends the
  packets it holds back until the SYN-ACK, whether one has come or not. Nothing
  ever sets `handshake_done`, so that every packet after the first of a flow
  waits for the end of the trace.

`TailMatchesAckSpaced` and `NoOverrun` are therefore stated for loads with one
packet of a flow in the pipeline at a time, and `SeqBetweenNoLoss` and
`AckMonotone` for loads without duplicate ACKs (with them an old ACK
can be taken as new once the sequence number is behind the ACK number).

Places where code and comments differ and which bound what the properties say;
they have no run of their own:

- `packet_queue_controller.sv:115`: a one-line frame inside an unfinished frame
  is appended to it, while the comment at line 122 has it start afresh.
  `packet_queue` sets `CutShort` to FALSE; of the theorems only
  `ImplementsFrames` needs it.
- `tx_ack_engine.sv:42`: the comparison with `curr_seq_num + 1` takes the ACK of
  one byte more than was sent, and takes none at sequence number 2^32 - 1. The
  comment at line 39 gives the range as "greater than last received ACK, less
  than sent SEQ num + 1". `TakesNewAcks` excludes these two cases.
- `testing_utils.cpp:83`: `add_ip_checksum` includes the old checksum in the sum;
  `IpChecksumValid` asks for a field that is 0 there.
- `file_io_testing_lib.cpp:28`: a C library with a sticky end of file never sees
  later records; `AllDelivered` leaves it out.
- `tcp_pcap_trace_testing_lib.cpp:35`: lookups under the wrong ports;
  `ComparedInOrder` and the order in `SendOrder` are stated for runs without.

## Proofs

All for every value of the constants, from the named `ASSUME`s: every number of
flows, width of sequence numbers, size of buffers and queues, and every load.
The type invariants of `SlabAlloc`, `PacketQueue`, `AckStream` and `EstPipe` are
proved (`TypeCorrect`) and not repeated in the runs.

- `Arithmetic`. What the other modules need of `%` (`ModType`, `ModUnique` and
  the like) and of `Total`, the sum of a sequence in `Sums`. `Total` is defined
  by partial sums, so that facts about it need induction: `SetInduction` is
  induction over a set of naturals, which unlike the library's theorems has no
  operator as a parameter. `TotalIs` and through it `TotalAppend` and `TotalTail`
  rest on it.
- `SlabAllocProofs`. The four properties are not inductive by themselves: that
  the offer is not held needs that FIFO, clients and counter share no slab.
  `IInv` is `TypeOK` with `Partition`. A cycle is split into the consume
  (`ConsumeStep`) and the free; `AppendDistinct` and `TailDistinct` say what
  that does to the FIFO.
- `PacketQueueProofs`. `IInv` is `TypeOK`, `PointerOrder` and
  `UncommittedOnlyWhileWriting`: a restarted frame overwrites the old one
  without a look at the free space, which is sound only because a frame being
  written holds at least one line. `RingStep` treats the write side,
  `ReadKeepsOrder` the read side, `NextIInv` combines them per branch.
  `ImplementsFrames` is the refinement of `PacketFifo`. `RingLines` says what a
  write and a read do to the lines between two pointers, `CycleStep` and
  `FramesStep` read each branch as frame begun, continued, completed or dropped.
  It assumes `~CutShort`, as the run does: no one-line frame arrives inside an
  unfinished frame. `SizesStayInSync` and `SizeQueueNeverOverflows` hold
  without that assumption; `SyncInv` adds to `SizesInSync` that the lines of the
  unfinished frame hold no end of a frame. A size describes a stretch of unread
  lines; the witness, the ends of those stretches, grows with `DescribesPacket`
  and loses its first element with `ReadSync`. The size queue fits because every
  stretch has a line.
- `AckStreamProofs`. `TypeOK` bounds the duplicate count below the threshold,
  from which `RtOnlyWhenOutstanding` follows; `TakesNewAcks` is arithmetic on
  both sides of the wrap.
- `EstPipeProofs`. `TypeOK` is inductive: `CycleType` has one step per variable,
  `ComputeType` says what stage C may produce, `WriteType` what a memory write
  may. `ResponseForC` is preserved together with it, because a packet moves into
  C exactly in the cycle of its grant and leaves with its response.
  `ImplementsSequential`: every step of `EstPipe` is a step of `EstSeq` or leaves
  its variables alone, under the mapping in which a flow's state is what it will
  be when W has written back. `Bypass` says that C computes on that state,
  `SettledStep`, `InqStep` and `OutqStep` what a cycle does to the mapped state
  and queues, `RefineStep` puts them together. The invariant needed besides
  `TypeOK` is `PipeUp`: a flow with packets in the pipeline is set up, so that
  the set-up of a flow never collides with a write back.
- `EstPipeBuffer`, the receive buffers of the same pipe.
  `AckedIsCommitted` counts bytes: `InFlight` is the sum of a flow's accepted
  bytes in W, the queue and the copy engine, and an ACK number is the commit
  pointer plus these. `CommitInv` adds that a flow that is not set up has none
  (`NoneForDown`), without which its set-up would not start at zero, and
  `PipeUp`. `TailKeepsUp` needs `Apart` (at most one packet of a flow in the
  stages), `TailFresh` (C holds the tail in memory) and `TailKept` (a packet
  that was not accepted writes back the tail it read): what goes wrong in
  `est_pipe_stale_tail`. `NeverOverrun` rests on both: `RoomInv` adds `Roomy`,
  `HeadRead` (the head that C read may be old, but what the application consumed
  since and what is occupied fit in the buffer together) and `WindowFits` (no
  window is larger than the buffer).
- `SendPipeProofs`. `Ring` is `TypeOK`, `Once` (a flow that is set up is in one
  place, and there once), `FifoBehindRT` and `FlagRead`: the FIFO has
  one entry less than there are flows and never overflows, because RT holds a
  flow whenever the FIFO does (`Room`). `ScheduleStep`, `StageNStep` and
  `StageWStep` follow a flow from place to place. `Stream` gives the order
  acknowledged, sent, written for every flow in terms of positions from its
  first byte, the bound on the copies of these numbers in N and W
  (`CopyInStream`), and `SegmentOK`; `SegmentsInStream` follows. It holds for
  every load, with the going back that `send_pipe_go_back` shows. For loads
  without duplicate ACKs, `Forward` adds that no flag is set, that a sequence
  number is the end of what was sent and that `est_pipe` takes no ACK number
  back; `SeqBetweenWithoutLoss` and the action
  property `AckNeverBack` follow. `SendPipeAssumption` has `SchedEls` at least
  1, as the code has at least two flows, and loads of at most `SeqSpace` - 2
  bytes, so that a position is determined by its sequence number.
- `HeadersProofs`. `FoldCorrect`: adding the carries back twice, as `csum` does,
  gives the ones' complement sum of any total that fits in 32 bits. `Halves`
  adds up the bytes at odd and at even places, which the host and a receiver
  weight in opposite ways; `CsumVerifies` concludes that a receiver accepts any
  message of up to 2^16 bytes with `csum` put into a field of zeros at an even
  offset. `AddTcpChecksum`, `AddIpChecksum`, `FillTcpChecksum` and
  `FillIpChecksum` are that for the functions that call it, for every length of
  payload. `HInv` says what every byte of the headers is at every stage
  (`OnWire`, `Summed`, `AtPeer`), in terms of the vectors; the four properties
  of the run follow for all vectors of `HeadersAssumption`: TCP headers of five
  words with the reserved bits 0 (`tcp_hdr_assembler.sv:38`) and IP version 4
  (`ip_hdr_assembler_pipe_in.sv:118`).

Only model-checked: `NetSide` with its refinement of `ByteChannel`, and the
liveness properties (`EstServed`, `FsmServed`, `Scheduled`, `BytesSent`,
`AllDelivered`), because fairness and `ENABLED` are outside the prover's reach.

## Not modelled yet, and the plan

1. `FsmPipe` and `IssuePipe`: handshake, flow ID allocation, steering; `RxPipe`
   composes them with `EstPipe` (order of reinjected packets).
2. `TmpRxBuf` and `StoreBufCp` with `SlabAlloc`: slabs of dropped packets,
   waiting for slabs.
3. `Fifo1r1w` and the RAM bypass as refinements of a sequence and a function;
   `HdrAssembler`; `CircBuf` (requests split at the wrap).
4. Frontend controllers and the echo application.
5. Proofs: the safety properties of `NetSide` and its refinement of
   `ByteChannel`.

Left out for good: the earlier receive pipe that `tcp_engine_wrapper.sv` does
not instantiate, DRAM controllers, loggers, vendored files. Of the simulation
library: the functions that print headers; `recv_buf_helper` and the peer's half
of `TCPMimic`, which nothing calls; what `finish_simulation` leaves behind (a
deleted backend whose method is still running); and the files that
`build/top_sim.flist` comments out, `raw_testing_lib` (raw sockets),
`file_testing_lib` (an older copy of the files backend) and `sim_cpu`.
