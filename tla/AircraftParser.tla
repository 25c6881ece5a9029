--------------------------- MODULE AircraftParser ---------------------------
(***************************************************************************)
(* AircraftDataParser::parser (src/aircraftDataParser.cpp): MAVLink        *)
(* messages cut out of whatever chunks the serial port reads.              *)
(*                                                                         *)
(* A message is STX, its payload's length, the rest of the head, the       *)
(* payload and a checksum nobody looks at.  One call appends its chunk to  *)
(* full_packet, a ByteArray, and takes at most one message out.            *)
(***************************************************************************)
EXTENDS Integers, Sequences, FiniteSets, SequencesExt

CONSTANTS
  STX,       \* 0xFD
  HEAD_LEN,  \* MAVLINK_PACKET_HEAD_LEN, 10
  END_LEN,   \* MAVLINK_PACKET_END_LEN, 2
  READ,      \* bytes a read may find on the line, BUFFER_SIZE, 1024
  LIMIT,     \* what parser() asserts full_packet stays under, 1024
  INITIAL,   \* first capacity of full_packet, 1024
  Payloads,  \* payloads sent
  Noise,     \* bytes of line noise between messages
  MaxSent,   \* bound: messages sent
  MaxNoise   \* bound: bytes of noise

Byte == 0 .. 255

(* The length of a payload is sent as a byte, and noise is no STX.         *)
ASSUME ConstantsAssumption ==
  /\ STX \in Byte /\ HEAD_LEN \in Nat \ {0, 1} /\ END_LEN \in Nat
  /\ Payloads \subseteq Seq(Byte) /\ \A payload \in Payloads : Len(payload) \in Byte
  /\ Noise \subseteq Byte \ {STX}
  /\ READ \in Nat /\ LIMIT \in Nat /\ INITIAL \in Nat \ {0}
  /\ MaxSent \in Nat /\ MaxNoise \in Nat

VARIABLES
  sent,        \* messages sent, each with the length of the stream up to its end
  noise,       \* bytes of noise so far
  wire,        \* bytes on the line
  got,         \* bytes read so far
  full_packet,
  capacity,    \* of full_packet
  taken,       \* messages taken out
  last,        \* the last of them
  burst,       \* history: a read ended more than one message
  aborted      \* an assert failed, readData()'s or parser()'s

vars == <<sent, noise, wire, got, full_packet, capacity, taken, last, burst, aborted>>

Array == INSTANCE ByteArray WITH
  user <- "serial", dataSize <- Len(full_packet), low <- FALSE,
  UNIT <- 0, RECV <- 0, PORT <- READ, MaxSize <- LIMIT

Message(payload) ==
  <<STX, Len(payload)>> \o [i \in 1 .. HEAD_LEN - 2 |-> 0]
    \o payload \o [i \in 1 .. END_LEN |-> 0]

Init ==
  /\ sent = <<>> /\ noise = 0 /\ wire = <<>> /\ got = 0
  /\ full_packet = <<>> /\ capacity = INITIAL
  /\ taken = 0 /\ last = <<>> /\ burst = FALSE /\ aborted = FALSE

-----------------------------------------------------------------------------
(* The aircraft and its line.                                              *)

Send(payload) ==
  /\ Len(sent) < MaxSent
  /\ LET m == Message(payload)
     IN  /\ sent' = Append(sent, [bytes |-> m, end |-> got + Len(wire) + Len(m)])
         /\ wire' = wire \o m
  /\ UNCHANGED <<noise, got, full_packet, capacity, taken, last, burst, aborted>>

Disturb(byte) ==
  /\ noise < MaxNoise
  /\ noise' = noise + 1
  /\ wire' = Append(wire, byte)
  /\ UNCHANGED <<sent, got, full_packet, capacity, taken, last, burst, aborted>>

-----------------------------------------------------------------------------
(* The parser.                                                             *)

(* Mutant: the checksum is not waited for. *)
MessageIn_NoEnd(data) ==
  LET starts == {i \in DOMAIN data : data[i] = STX}
      start  == CHOOSE i \in starts : \A j \in starts : i <= j
      rest   == Len(data) - start + 1
  IN  IF starts = {} THEN [found |-> "nothing", at |-> 0, len |-> 0]
      ELSE IF rest < HEAD_LEN \/ rest < HEAD_LEN + data[start + 1]
      THEN [found |-> "part", at |-> start, len |-> 0]
      ELSE [found |-> "message", at |-> start,
            len |-> HEAD_LEN + data[start + 1]]

(* The first STX in the buffer and the message it heads, if it is all      *)
(* there.  The subtraction is unsigned, so a cut head counts as too short. *)
MessageIn(data) ==
  LET starts == {i \in DOMAIN data : data[i] = STX}
      start  == CHOOSE i \in starts : \A j \in starts : i <= j
      rest   == Len(data) - start + 1
  IN  IF starts = {} THEN [found |-> "nothing", at |-> 0, len |-> 0]
      ELSE IF rest < HEAD_LEN \/ rest < HEAD_LEN + data[start + 1] + END_LEN
      THEN [found |-> "part", at |-> start, len |-> 0]
      ELSE [found |-> "message", at |-> start,
            len |-> HEAD_LEN + data[start + 1] + END_LEN]

(* Mutant: one byte too many is removed. *)
Without_OneMore(data, m) ==
  SubSeq(data, 1, m.at - 1) \o SubSeq(data, m.at + m.len + 1, Len(data))

(* remove(start_pos, length): what lies before the message stays.          *)
Without(data, m) ==
  SubSeq(data, 1, m.at - 1) \o SubSeq(data, m.at + m.len, Len(data))

(* One message is copied to gps_data or attitude_data and removed.         *)
Take(data, cap) ==
  LET m == MessageIn(data)
  IN  /\ taken' = taken + 1
      /\ last' = SubSeq(data, m.at, m.at + m.len - 1)
      /\ full_packet' = Without(data, m)
      /\ capacity' = Array!AfterRemove(cap, Len(full_packet'))

(* A call with the first n bytes on the line.                              *)
parser(n) ==
  LET data == full_packet \o SubSeq(wire, 1, n)
      cap  == Array!AfterAppend(capacity, Len(full_packet), n)
      kind == MessageIn(data).found
  IN  IF Len(data) >= LIMIT
      THEN /\ aborted' = TRUE
           /\ full_packet' = data /\ capacity' = cap
           /\ UNCHANGED <<taken, last>>
      ELSE /\ IF Len(data) < HEAD_LEN \/ kind = "part"
              THEN full_packet' = data /\ capacity' = cap /\ UNCHANGED <<taken, last>>
              ELSE IF kind = "nothing"
              THEN full_packet' = <<>> /\ capacity' = cap /\ UNCHANGED <<taken, last>>
              ELSE Take(data, cap)
           /\ UNCHANGED aborted

EndedBy(bytes) == Cardinality({i \in DOMAIN sent : sent[i].end <= bytes})

(* SerialPort::readData, when n bytes have come: all are read in one call. *)
readData(n) ==
  /\ ~aborted /\ n <= READ
  /\ parser(n)
  /\ wire' = SubSeq(wire, n + 1, Len(wire))
  /\ got' = got + n
  /\ burst' = (burst \/ EndedBy(got + n) > EndedBy(got) + 1)
  /\ UNCHANGED <<sent, noise>>

(* More than its buffer holds: its assert ends the process.                *)
readTooMuch(n) ==
  /\ ~aborted /\ n > READ
  /\ aborted' = TRUE
  /\ UNCHANGED <<sent, noise, wire, got, full_packet, capacity, taken, last, burst>>

Next ==
  \/ \E payload \in Payloads : Send(payload)
  \/ \E byte \in Noise : Disturb(byte)
  \/ \E n \in 1 .. Len(wire) : readData(n) \/ readTooMuch(n)

Spec == Init /\ [][Next]_vars

-----------------------------------------------------------------------------
(* Properties.                                                             *)

(* However the line is cut into reads, whatever byte a payload holds, and  *)
(* with noise between messages that is not an STX, the i-th message taken  *)
(* out is the i-th sent.                                                   *)
FramingKept == taken > 0 => taken <= Len(sent) /\ last = sent[taken].bytes

(* A call takes one message.  While each read ends at most one, each is    *)
(* taken by the call that ends it, or the call aborts; messages that arrive *)
(* together leave a backlog that only reads without a message's end work   *)
(* off.                                                                    *)
KeepsUp ==
  /\ ~burst /\ ~aborted => taken = EndedBy(got)
  /\ taken <= EndedBy(got)

(* parser()'s assert: full_packet stays under its limit.                   *)
PacketUnderLimit == Len(full_packet) < LIMIT

(* expand makes room: what a call appends fits in full_packet.             *)
PacketFits ==
  [][LET n == got' - got
     IN  n > 0 => Len(full_packet) + n
                    < Array!AfterAppend(capacity, Len(full_packet), n)]_vars

(* parser() takes the messages of the line out whole, in turn, and none    *)
(* before its end has come.                                                *)
MessagesInTurn == FramingKept /\ KeepsUp
=============================================================================
