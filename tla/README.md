# Verification of vcu

The program runs on an ARM64/FPGA board. It logs in to a camera (RTSP),
receives its video (RTP over UDP), decodes it in the VCU, lets the FPGA detect
objects in each picture and sends the boxes, with the aircraft's position and
attitude, to one TCP client. This directory holds TLA+ models of it, the TLC
configurations that check them and TLAPS proofs about them. The
build modelled is the ARM64 one with `VCU`, `YOLO`, `SENDBOX` and `_GPS`, asserts
on. Paths below are relative to `src/src`.

    tlc -config FpgaControl.cfg MCFpgaControl      # a run; PROJECT.json lists them
    tlapm FpgaControlProofs.tla                    # a proof module

## The system

| Component | State it keeps | Operations | Correct when |
|---|---|---|---|
| FPGA control (`fpgaControl.cpp`) | input queue, index counters, two semaphores, device slots | `input`, `output_thread`, `initIndex`, `stop`, destructor | each picture is answered once, in order, with its own result; no slot is read and written at once |
| RTP receive ring (`rtpDataManager.cpp`) | `vec_rtp`, `sem_buffer`, `index`, `times` | `receive_thread`, `parser_thread`, `start`, `stop` | reordered packets come out in order; packet memory has one owner |
| Frame pipeline (`main.cpp`, parser part of `rtpDataManager.cpp`, `vcuControl.cpp`) | `is_start`, `isfirst`, `que_timestamp`, `pic_queue`, the decoder | `parserRtpH26x`, `rtp_callback`, `vcu_callback`, `input_thread_fromvcu`, `clear` | each picture keeps its own timestamp, over any number of clients |
| Result server (`dataSend.cpp`, `socketbase.cpp`) | the connection, `can_send_box`, `is_send` | `receive_thread`, `sendBox`, `send_streamInfo` | whole pictures, only to who asked; the server survives its clients |
| Byte array (`byteArray.cpp`) | data, size, capacity | `append`, `remove`, `clear`, `expand`, `shrink` | data and its terminator fit |
| Aircraft parser (`aircraftDataParser.cpp`, `serialPort.cpp`) | `full_packet` | `parser` | messages come out whole and in order |
| RTP parsing (`rtpDataManager.cpp`) | `full_packet_data`, `is_start` | `parserRtpH264`, `parserRtpH265` | the decoder gets every NAL whole; marks and pictures stay together |
| RTSP client (`rtspDataManager.cpp`, `md5.cpp`) | login state, digest, SSRC/SEQ/SR time | `login`, `play`, TCP, report and receive threads | requests and answers stay in step; the answer to a challenge is that of its strings; reports carry what arrived |
| Detection post-processing (`yoloDetect.cpp`) | detections, `boxArr` | counting, filling, two suppressions, selection, correction | no overlapping pair of a class is sent, nothing is lost for no reason, the array holds the boxes |
| Picture conversion (`main.cpp`) | - | `yuv_to_rgb_scale`, `pad_data` | the planes fit, boxes come back to where the objects are |
| Start-up (`main.cpp`) | who is there already | `main`, the first clients | nothing is used before it is there |
| Configuration (`fileManager.cpp`, `common.cpp`) | sections of pairs | `parserCfgFile`, `initCfg` | each line reaches its parameter |
| Device access (`shm.cpp`, `xdma.cpp`, `dma_utils.c`) | descriptors, file position, start register | open, close, write, read, `read_reg` | a range is moved once and in order; the device starts on whole pictures |
| Raw receiver (`dataReceive.cpp`, `dataControl.cpp`) | block array, picture, queue | receive and parser threads, `send_res2`, the queue | the threads take turns; a picture that came whole is queued whole |
| Logging, tests, vendored code | - | - | - |

How they interact. Every arrow between threads is a queue and a mutex, a
semaphore, or a bare flag:

    camera --UDP--> receive_thread --ring, sem_buffer--> parser_thread
      --pushData--> decoder --vcu_callback--> pic_queue --> input_thread_fromvcu
      --semInput, device slots--> FPGA --register--> output_thread
      --fpga_callback, sendBox--> TCP client
    parser_thread --que_timestamp--> vcu_callback        (one per marked unit)
    DataSend::receive_thread --can_send_box--> parser, vcu_callback, sendBox
    DataSend::receive_thread --clear()--> decoder, pic_queue, que_timestamp
    login, play --requests--> camera --answers--> receive_tcp_thread
      --sem_tcpmsg--> login, play                         (one post per read)
    receive_thread --setSeq--> report thread <--LSR, SR_Time-- receive thread
    serial port --> AircraftDataParser --> gps_data, attitude_data --> sendBox

Hard behaviours: results read in place from device memory while the next
picture is being copied in; sequence numbers that wrap, packets lost, repeated
and reordered; a client that leaves and another that comes while each of five
threads is somewhere inside; `stop` and destructors that must wake who they
join; a buffer that grows and shrinks under arbitrary read lengths; a login that
takes any message for the answer it waits for; two passes over the network's
output that must agree; parts that are reached before `main` has made them.
`PROJECT.json` lists the hazards line by line, with the properties aimed at each
or the reason there is none.

## The modules

| Module | What it is |
|---|---|
| `FpgaControl` | `input()`, `output_thread`, `stop()`, the destructor and the device |
| `DetectFifo` | abstract: a bounded FIFO that answers each picture with its own result |
| `RtpBuffer` | the two RTP threads, the ring, `stop()` and the network |
| `FramePipeline` | parser gate, decoder, `vcu_callback`, `pic_queue`, the device, `clear()`, clients |
| `UnitParser` | packets to NALs: fragments, headers, marks, losses, for both codecs |
| `BoxSend` | `receive_thread`, `sendBox`, the TCP connection, the client |
| `ByteArray` | capacity arithmetic of the growing buffer |
| `AircraftParser` | MAVLink framing on top of `ByteArray` (instantiated as `Array`) |
| `RtspLogin` | `login`, `play`, `receive_tcp_thread` and the camera |
| `RtcpReports` | `setSeq`, the two RTCP threads |
| `Digest` | `calResponse` and MD5's blocks and padding |
| `Detection` | passes, suppressions and selection of `NetDetect` |
| `BoxOverlap` | IoU and DIoU as areas |
| `Letterbox` | scaling, padding and the way back of a box |
| `DeviceAccess` | both drivers over the kernel's descriptors |
| `RawReceive` | the raw receiver and its queue |
| `StartUp` | `main` against early clients |
| `ConfigLoad` | `parserCfgFile`, `initCfg` |
| `ModularArithmetic` | lemmas on `%` and `\div`, and induction over numbers, for the proofs |
| `FpgaControlProofs`, `RtpBufferProofs`, `FramePipelineProofs`, `BoxSendProofs` | theorems of the module of that name |
| `ParserProofs` | theorems of `AircraftParser`, `UnitParser`, `ConfigLoad` |
| `RtspProofs` | theorems of `RtspLogin`, `RtcpReports`, `Digest` |
| `HostProofs` | theorems of `StartUp`, `RawReceive`, `ByteArray`, `Detection`, `BoxOverlap`, `DeviceAccess`, `Letterbox` |
| `MCHostParts` | the parts of the host without shared state, side by side |
| `MC*` | constants of the runs |

A few conventions hold in all of them. Program counters (`inPc`, `rxPc`,
`servePc`, ...) name the place in the code a thread is at; a thread takes one
step between two accesses to shared state, and code under one lock is one step.
Variables keep the names of the code. Variables marked *history* are read by
properties only. A definition with an underscore and a suffix (`Poll_IgnoresStop`)
is a mutant: a plausible bug in the definition of that name, which makes one
property fail and so shows that the property says something about the code. No
`Next` uses one.

**FpgaControl.** Pictures are numbered as `input()` receives them. The 32-bit
counters are kept as the counts they stand for and each place that reads one
applies `U32`, so wrapping happens exactly where the code's arithmetic does. A
copy into a device slot is two steps, with a torn content between. The device is
external: it serves start commands in order, reads and writes the slot its own
completion count selects, and survives the process, so `initIndex` may find
`stale` commands outstanding.

**RtpBuffer.** Packets are numbered by the sender and carry their number modulo
`SEQS`; `PosOf` is the code's slot computation with `times`, whose update is
missed when the packet numbered 65535 is lost. A packet's memory block is named
by the reception that allocated it; `live` are the blocks not yet freed.

**FramePipeline.** A unit is what the packets of one NAL amount to: a parameter
set, or a picture, whose number is also its timestamp. The decoder is external:
nothing comes out before a parameter set, H.264 shows nothing for the first
marked unit (which is what `isfirst` compensates), pictures leave in order with
at most `DELAY` held back, and `close` waits for the callback that is running.
Pushing into the decoder between `delete` and `new` in `VCUControl::restart` is
undefined behaviour; the model takes the mildest outcome, the unit is lost.
`isfirst` is tested before `mutex_timestamp` is taken, and `clear()` sets it and then
pops `que_timestamp` one by one without that mutex, so both are steps of their own
and a straggler's timestamp may arrive between two of them (`FirstAgain`,
`DrainTimes`); a push and a pop that overlap are taken one after the other. The
device holds up to `HOLD` pictures and answers in order (`FpgaControl` and
`DetectFifo` show that); `Answer` is `fpga_callback`, which sends to whoever is
connected, so it meets pictures of the client before.

**UnitParser.** One level below: a NAL is one packet or `MaxParts` fragments, a
picture one or several NALs, and any packet may be lost. Some cameras put several
NALs in an aggregation packet, which the parsers refuse with a `FSERVO_CHECK` that
ends the process (`Checked`). The decoder's count of
pictures is external: a new picture where one begins.

**BoxSend.** `line` is the connection the shared descriptor refers to, so a
`sendBox` that started for one client can write to the next. One `write` is one
packet. A request arrives whole or in two halves, and a `read` takes what is there,
up to the length of a request: half of one, or the end of one and the beginning of
the next, whose bytes may look like any request. `accept` may fail, which nobody
tests; `setNoDelay` then asserts on a socket that is none, and the process ends
(`AcceptFails`).

**AircraftParser.** Bytes are real, in messages of a shortened head; every cut of
the line into reads is possible, and a read that finds more than `BUFFER_SIZE` bytes
fails the assert of `readData` (`readTooMuch`). Writing past the array, which `PacketFits`
shows to be possible, has no effect in the model beyond being found.

**RtspLogin.** The wire is a sequence of the words `parser()` looks for, a read is
any non-empty prefix of what has arrived, and the camera protects a suffix of the
requests. An answer cut in two, a message nobody asked for, a nonce given up
early are the environment's, each counted in `upset`; a property says which it
tolerates.

**The parts of the host.** `RtcpReports`, `DeviceAccess`, `RawReceive`, `StartUp`,
`ByteArray`, `Detection`, `BoxOverlap`, `Letterbox`, `Digest`, `ConfigLoad` and
`UnitParser` share no variable. `Digest`, `Detection`, `Letterbox`, `BoxOverlap`
and `ConfigLoad` are sequential algorithms: a state is an input and how far the
code has got with it, and the property compares with a definition that does not
follow the code. Bytes of a text are named by where they come from, boxes are sets
of cells, fractions are pairs. What the code does with an input it is not made for is
part of each model:

- `RtcpReports`: the report thread reads the wrap count, `SEQ`, `LSR`, the clock and
  `SR_Time` one after the other without a lock; a send the socket refuses ends the
  process.
- `DeviceAccess`: `read_reg` answers with a return code and a value. `shm.cpp` says so
  when it finds no register, `xdma.cpp` returns success and leaves the value as it was
  (`SaysNone`). `shm.cpp` also takes data or parameters out of a file
  (`FromDev`); only data starts the device.
- `RawReceive`: `send_res2` sends a packet of boxes and waits for a RES; the peer
  answers every packet, and answers lost, repeated or late are told apart from
  those (`answers`). A refused send ends the process.
- `ConfigLoad`: a setting that is missing ends the process by an exception nobody
  catches (`Incomplete`), and an `fservo.cfg` whose last section ends without a newline
  is read for ever (`EndsInLine`).
- `ByteArray` has the three users the program has: the RTP parser, which makes a unit
  longer than a new array of one packet and clears, the raw receiver, whose blocks
  are longer than a new array, and the serial port, whose parser removes.

## The runs

| Run | Question | Bounds |
|---|---|---|
| `fpga_safety` | can a slot be read and written at once, a freed picture be used, an empty queue be popped, a permit be lost? | 3 slots, 2 permits, counters modulo 6 that wrap, 5 pictures, 0 or 1 stale command, 3 polls |
| `fpga_fifo` | is it the FIFO of `DetectFifo`; is every picture answered; does the destructor's join return? | the same with an idle device |
| `rtp_ring` | who owns a block; how far does the parser trail; is order kept; does `stop()` wake the parser? | ring of 4, sequence numbers modulo 8, lag 1, 5 packets, 1 lost, 1 repeated |
| `frame_sessions` | do pictures keep their timestamps and their client over reconnections; does `clear()` get through? | 3 clients, 9 units, H.264 and H.265, decoder delay 1 |
| `frame_stamp` | does `vcu_callback` always find a timestamp, as it asserts? (no) | decoder without delay |
| `aircraft_framing` | are messages kept whole under every cut and noise? | 4 messages, 1 byte of noise, payloads that contain STX |
| `aircraft_limit` | does `full_packet` stay under the asserted limit? (no) | messages of 4 bytes, two to a read |
| `aircraft_fits` | does an append fit after removes shrank the array? (no) | 8 messages |
| `box_clients` | who gets which packets while clients come and go; is a request obeyed; does the server come back? | 2 clients, 2 requests, each in one part or two, any `accept` may fail, pictures of 0, 4, 5 boxes at 2 a packet |
| `box_sigpipe` | does the process survive a client that leaves? (no) | one picture of two packets |
| `rtsp_login` | do `login` and `play` stay in step with the camera, get the codec and end? | two cut answers, one unasked message, one nonce given up, every protected suffix |
| `host_parts` | the eleven parts above, one property or more for each | see `HostParts.cfg` and `MCHostParts` |

`host_parts` takes up one part per behaviour: `part` chooses it in the initial
state, the others stand still in one state of theirs, so the state space is the
sum of the parts, not their product, and a part is explored as if alone. Its
properties are those of the parts; a mutant of one part breaks its own.

Why the bounds suffice. The FPGA ring is the tightest the assumption `PERMITS <
SLOTS` allows; more slots only add distance, and the proofs cover every size. The
RTP ring is lapped, its numbers wrap, and one loss or repetition is enough to
move the parser. Three clients let state of the first reach the third. Pictures
with no box, with full packets only and with a broken last packet are the three
cases of the split; two requests are enough for a read across both and for one that
is obeyed after a cut. In `host_parts`: sequence numbers wrap in three arrivals; an
array of 8 bytes takes units of 12, blocks of 9 and reads of 8, so it has to grow for
one append and shrinks after removes; a result goes out in one packet or two, each
answered, with a block or a RES repeated; of the tables of registers one is empty;
two layers of two and one cells with one box
each are enough for three detections, of which the limit takes two; scaled sizes
are even, odd, tall, wide and smaller than the network's input; strings end
before, in and after the place where the padding needs another block, and carry
the count; the configuration gets every sequence of five lines over three headers, eight
pairs, comments and empty lines, with all, some or none of the other settings there;
indices of three bits lie across words of four. Counters are bounded by `MaxFrames`, `MaxSent`, `MaxUnits`,
`MaxSessions`, `MaxPics`, `MaxAsks`, `MaxFails`, `MaxLost`, `MaxDup`, `MaxNoise`, `MaxSize`,
`MaxUpset`, `MaxArrivals`, `MaxReports`, `MaxTime`, `MaxOpens`, `MaxPosition`,
`MaxBlocks`, `MaxResults`, `MaxRepeats`, `MaxGuests` and `MaxLines`, each tested in a guard of the environment's action. Deadlock is not
checked: every run ends when its bound is used up, and the threads of the program
may stop.

Type invariants are theorems: as properties of their own for `FpgaControl`,
`RtpBuffer`, `FramePipeline`, `BoxSend`, `RtcpReports` and `RawReceive`, as the
first part of the inductive invariant in the other modules. The
properties of `host_parts` are conjunctions of named parts, one for each thing a
part promises, and each of these parts has a mutant of its own.

**Histories in properties.** `stale`, `misfits`, `mixed`, `cuts`, `burst`, `upset`,
`early`, `raced`, `refused` record the
situations in which the code does not keep a promise, and the property is stated
outside them; the complement is not empty, so these are limits of the program:
a device not idle at start gives pictures the results of others; a packet further
ahead than the ring is delivered a lap late; a client that reconnects before
another packet is parsed finds `is_start` set, and a parser that passed the gate
before `clear()` feeds the new decoder, both of which shift timestamps against
pictures; a client that connects in the middle of a picture may get one packet of
it unasked, and the rest if it asks in time; a client whose request is cut by a
read is not obeyed until a read ends where a request does, and a read across two
may switch boxes on that nobody asked for; a login whose answers are cut goes on
before the camera has answered; a second client before `play()` ends the process;
after the first wrap the reported number stays at its maximum; a lost mark shifts
timestamps until the next client.

**Fairness.** Weak fairness of each thread's own steps: threads of the process
are scheduled, and mutexes are held for a few instructions. Nothing is assumed of
the network, the client, the camera or who calls `input`, `stop` or a destructor.
`Poll` is fair as part of `output_thread`; the device is fair in `fpga_fifo`, and a
picture it does not answer in `MaxPoll` polls ends the process, which
`EveryFrameAnswered` allows; in `frame_sessions` the device's answer is fair for
the same reason: `output_thread` waits `MaxPoll` polls at most. In `rtsp_login` the
camera answers while it is connected; what it does unasked is not fair. A thread in `recvfrom` or `accept` may wait for ever:
`ParserStops` speaks of the first join only, as the second needs a packet.

## Where code and comments disagree

- `frame_stamp`: `rtp_callback` (`main.cpp:723`) pushes a unit before it queues
  its timestamp; `vcu_callback` asserts that there is one. True only for a
  decoder that holds a picture back.
- `aircraft_limit`: `parser` takes one message per call, so two messages per read
  reach the limit it asserts (`aircraftDataParser.cpp:20`).
- `aircraft_fits`: `expand` (`byteArray.cpp:104`) may double to less than needed,
  when the addition lies between one and two capacities. `remove` shrinks
  `full_packet` that far.
- `box_sigpipe`: a failed send is to be reported (`dataSend.cpp:325`), but a
  `write` after the client's reset raises `SIGPIPE`, which nobody ignores.

Also seen, without a run: the destructor of `FPGAControl` joins a null thread
(`fpgaControl.cpp:75`, step `DtorJoin`); `FPGAInput::timestamp` is never set
(`main.cpp:591`) and reaches the client as `frameTime`; the reported sequence
number sticks after the first wrap (`rtspDataManager.h:42`, `SeqIsHighest` in
`ReportsFaithful`); the
text of a digest is hashed with the end of a longer one before it
(`rtspDataManager.cpp:548`, `SumOfItsString` in `SumsComputed`); `boxArr` is allocated before
`maxBoxNum` is read (`yoloDetect.cpp:180`, `BoxesFit` in `BoxesSound`); a camera that fragments
a NAL which does not end its picture ends the process (`rtpDataManager.cpp:193`,
`AbortsOnSlices` in `UnitsRebuilt`); after a new design, registers are searched with the old head
(`shm.cpp:255`, `RegisterFound` in `DeviceKept`); `xdma_read_reg` returns success for
a register the table does not have (`xdma.cpp:236`, `SaysNone`); a failed `accept` ends the process
(`socketbase.cpp:377`, `AcceptFails`); a camera that aggregates NALs ends it
(`rtpDataManager.cpp:216`, `:320`, `AbortsOnSlices`); so does a configuration without a
resolution, an output size, a user or a password (`common.cpp:83`, `:86`, `:115`), and
one whose last line has no newline is read for ever (`fileManager.cpp:138`,
`LivesIfComplete` in `ConfigAsWritten`). Each property states the condition under which
the code does keep its promise.

## The proofs

Every safety property that a passing run checks, invariant, action property or
refinement, is also a theorem: TLC shows it on a small instance, the theorem for
every value of the constants that satisfies the module's named assumption, which
TLC evaluates in each run. The assumptions say of the constants what the code says
or takes for granted: that a ring's size divides the range of its counters
(`ConstantsAssumption`, `RtcpConstants`, `DigestConstants`), that sizes are positive
(`RawConstants`, `EdgeAssumption`, `LetterboxConstants`), that a table of registers
stays within its address bits (`DeviceConstants`), that a string fits the
buffer it is copied to (`DigestConstants`; `calResponse` does not test it), that
pairs of a configuration are text (`ConfigConstants`). Two theorems assume more,
as said below: `OrderKept` and `NoAssert`.

**FpgaControlProofs.** `TypeCorrect`, `CallbackSafe`, `InputSafe`, `InDataSafe`,
`PopSafe`, `PermitsSafe`, `ImplementsFifo`. `CallbackSlotStable` is not inductive:
why the slot is stable depends on how far the device, the input thread and the
output thread can be apart. `CountInv` says it in counts (pictures written,
started, computed, announced and popped are ordered, and permits bound the
distance), `SlotInv` what the slots between those counts contain. Different counts
less than `SLOTS` apart use different slots (`SlotAtFacts`), which needs that
`SLOTS` divides 2^32, and the unsigned difference equals the real one
(`AheadIsDistance`). `ImplementsFifo` maps `CallbackReturn` to `Answer`,
`AcquirePermit` to `Accept`, the rest to stuttering; `PERMITS + 1` is the capacity
because the permit is given back before the callback.

**RtpBufferProofs.** `SlotOfPacket`: the slot depends on the distance to the first
packet alone, whatever `times` is, because `BUFFER_SIZE` divides 65536. `TypeCorrect`;
`OwnershipSafe`, from `OwnInv` (blocks in use were allocated before `received`);
`DistanceExact`, from `CountInv` (every packet sent is in flight, lost or received,
repetitions apart) and `TokenInv` (tokens posted are tokens waiting, in hand or
spent). `OrderKept` is the whole of `RingKeepsOrder`. `OrderInv`: as long as every
packet came within a ring of the parser, a slot that is taken holds the one packet
the parser will look for there, and the index is the distance of the packet in
hand. `SmoothInv`: with nothing lost or repeated, every packet before the index has
come, which follows from the token count because the lag makes up for the
reordering. That is the one assumption beyond the module's, `WINDOW <= LAG + 1`, and
`rtp_ring` satisfies it.

**FramePipelineProofs.** Eight theorems from an invariant in parts, one for each
thing that moves. `SessionInv`: in which phase of `receive_thread` which thread may
be inside the pipeline, and whose decoder and pictures there are then; it gives
`OnlyStragglers` and `OwnPictures`. `FlowInv`: sessions never decrease from the
last answer over the device and the queue to the decoder (`StrangersBefore`).
`FrameInv`: the same, strictly, for frames (`InOrder`). `EnoughInv`: pictures the
decoder holds or `vcu_callback` is at never outnumber timestamps queued or due
while a client wants boxes; its step needs `DELAY >= 1`, the one assumption beyond
the module's, without which the run `frame_stamp` finds the assert fail (`NoAssert`).
`StartInv` and `SyncInv`, as long as sessions do not overlap (`QuietInv`): every
session starts with a parameter set, `isfirst` leaves out exactly the picture the
decoder leaves out, and the i-th timestamp is that of the picture that will take it
(`ParamSetFirst`, `OwnTimes`).

**BoxSendProofs.** `PacketSplit`: packets announced and size of the last add up for
every number of boxes. `TypeCorrect`; `AskedServed`, from an invariant that ties
the flag to the session of the client that raised it: `RequestInv` says that reads
are out of step only after a cut of the client's own, and that nothing of an
earlier client's requests is left to read. `RunsInOrder` and `PictureIsWhole` need
to know what a client has received so far: `MineInv` says that while `sendBox` is at
a picture, the last `i` packets its client got are the first `i` of that picture;
`HereInv`, that whoever else is on the line then is mixed; `HistoryInv`, that in what
any other client got each packet follows on from the one before. The number of
boxes in a picture's packets is a sum over a sequence; it is reasoned about packet
by packet.

**ParserProofs.** `MessagesTaken`, for payloads of any length and any cut of the line:
`StreamInv` says where in the bytes still to be looked at each message still to be
taken stands, and that no STX is outside of them, although noise and payloads are
arbitrary; `TakenInv`, that what was taken had come in full, and outside `burst` that
nothing that has come in full is left. `UnitsAreRebuilt`, for units of any number of
fragments: `StartedInv` and `WholeInv` describe the NAL being put together, and
`MarksInv` bounds the difference between pictures begun and marks given by what was
lost, separately before, inside and after a NAL, which is why the bound as stated is
not inductive. `ConfigSafe`, for any lines: `KeptBy` describes the text without its
blanks character by character, so that what `parserCfg` makes of a line equals what a
reader sees (`NetSees`), and `BasicSees` says for which lines `parserBasicCfg` agrees;
`SoFarInv` relates the maps to the lines that count, at any point of a file.

**RtspProofs.** `RtcpReports`: `TypeCorrect`, `HighestOrLast`, `Cycles`, `ReportsTrue`,
for numbers of any width. `SetSeqInv` describes `setSeq` between its steps,
`StampInv` the pair of LSR and its time, `MakingInv` a report half made.
`RtspLogin`: `LoginStaysInStep`, for any bound on what may go wrong. `PostsInv` counts:
each post is for an answer that came, a cut or a message nobody asked for. Where
nothing was cut or unasked, `SmoothInv` says phase by phase of `login` and `play` what
is on the wire, what the parser has read and what `main` knows; `CodecInv`, that a
description comes with its codec. `Digest`: `SumsAreRight`, for any size of block, byte
and count. `Hashed` says what a context has taken in so far, for any text;
`UpdateHashes` that `MD5Update` keeps it so, although the place in the buffer is
read off a count that wraps; `PaddingIs` that padding ends a block.
`BufferInv` and `SumInv` follow the longest string so far through the one buffer.

**HostProofs.** `EarlyClientsSafe`, from `UpInv`: which of the objects `main` makes
exist at each place a client can be, so that outside `early` and `raced` nothing is
used before it is there. `RawDataSafe` is the
whole of `RawDataKept`, for any block size, queue length and number of boxes.
`HandInv` describes the hand-over of the block array between the two threads,
including the post that the destructor adds after `isStop`; `PicInv` and `WholeInv`
say that `pic` holds, in order, the blocks that came since a first one, `OrderInv`
that the numbers in the queue ascend and are below the next, and `BoxesInv` that
packets sent and boxes left add up, and a packet has its answer before the next.
`GrowingArrayFits`: what the three users append fits, until a remove has left
less than the first capacity: a unit or a block is shorter than twice a new array
(`ConstantsAssumption`), and one that does not find the array empty finds it
longer than itself (`GrowInv`);
`DoublingGap`: for every length between one and two capacities a nearly full array
overflows. `DetectionsSound`, for any layers, classes and scores: `DoneInv` says of
the classes dealt with that no two boxes left overlap and what was put out has
something as strong over it, `ProbInv` that the others are as they were scored.
`MeasuresSound`: areas of cut and hull of two boxes, on a grid of any size.
`DeviceSafe` and `DeviceStartsWhole`: `MoveInv` says of a transfer, chunk by chunk,
which bytes it has moved, `FilesInv` which descriptors are open in each state of each
driver, also after an `open` that was refused half-way, and `RegInv` that a register's
word and bit, by powers of two, are the index looked for. `PlacesSafe`, for pictures
and network inputs of any size: by quotients and remainders. Here the proof found
`PlanesFit` false as it stood: the scaled width is rounded, so a very narrow picture
can be scaled to its own width and a greater height (2 by 100 to 2 by 124), and has
its planes written beyond what it owns. No camera of this program sends such a
picture; the property now speaks of pictures no smaller than what they are scaled
to, in both directions.

**Induction over numbers.** What a loop or a recursive definition computes is proved
with sets of numbers: `AllNumbers` says that a set with 0 and with the successor of
each of its members has them all, and the set is `{n \in Nat : ...}` for the statement
at hand. `IteratesExist` gives the function that a recursion over numbers defines.
The definitions proved about use recursive functions only.

Only model-checked: liveness, which this prover does not reach: `EveryFrameAnswered`,
`DestructorJoins`, `ParsedAfterLag`, `ParserStops`, `NothingStuck`, `ServerServes`,
`LoginCompletes`. The properties that `aircraft_limit`, `aircraft_fits`, `frame_stamp`
and `box_sigpipe` refute are not theorems, of course; `DoublingGap` and `NoAssert`
say for which constants two of them fail and hold.

## Not modelled, and why

- Numbers and pixels: the quantised activation functions of `getYoloBox2`, the
  rounds of `MD5Transform`, the colour conversion. Pure arithmetic on values no
  property tells apart.
- Device and system I/O: memory maps, `poll`, the serial port's settings, socket
  options. What can fail there and goes unnoticed was read but is not modelled:
  binding and the connect time-out (`socketbase.cpp`), the sender of a datagram
  (`socketbase.cpp:93`), a map that fails (`shm.cpp`, `xdma.cpp`), the result of a
  read (`xdma.cpp:320`), a missing configuration file, the result of `initCfg`, a
  packet that cannot be forwarded (`rtpDataManager.cpp:449`), a serial port that
  does not open (`serialPortDataManager.cpp:58`), `fps = fps` in
  `vcuControl.cpp:26`.
- Code without a caller in this build: `reInit`, `calcuate_thread`,
  `process_thread_fromvcu`, `input_thread_frompic`, `getDecodeTable`,
  `picBufferManager`, `picProcess`, `paramManager`. `DataReceive` and `DataControl`
  have none either, but are two threads with a hand-over worth checking.
  `DataSend`'s destructor never runs.
- What the decoder shows for a damaged stream is not in this repository.
- The payload of `send_streamInfo`, telemetry fields, log lines, wording.

## Plan

Modelled in this order: `FpgaControl` with `DetectFifo`, `RtpBuffer`,
`FramePipeline`, `BoxSend`, `ByteArray`, `AircraftParser`; then `RtspLogin`,
`RtcpReports`, `StartUp`, `Detection`, `Letterbox`, `DeviceAccess`, `RawReceive`,
`Digest`, `ConfigLoad`, `UnitParser`, `BoxOverlap`. What is left, by worth:

1. `UnitParser` under `FramePipeline`: units made of packets, so that a lost mark
   meets reconnections.
2. Memory maps in `DeviceAccess`; the sender of a datagram in `RtcpReports`
   (`socketbase.cpp:93`).
3. Proofs: an abstract specification of what the ring of `RtpBuffer` promises (a
   channel that loses, repeats and, within a ring, reorders), and the refinement
   that would let `FramePipeline` rest on it as it rests on `DetectFifo`.
