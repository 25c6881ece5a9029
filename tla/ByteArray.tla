----------------------------- MODULE ByteArray -----------------------------
(***************************************************************************)
(* src/byteArray.cpp, the growing buffer of the packet parsers: when it    *)
(* reallocates, and whether what is written then fits.  Contents are       *)
(* abstracted to their length.                                             *)
(*                                                                         *)
(* Every append writes a '\0' after the data, so an array is sound while   *)
(* its data is shorter than its capacity.                                  *)
(***************************************************************************)
EXTENDS Integers

CONSTANTS
  INITIAL,   \* capacity of a new array, 1024
  UNIT,      \* bytes the RTP parser makes of a packet at most, 1492
  RECV,      \* bytes of a block the raw receiver reads, some 1050
  PORT,      \* bytes of a read of the serial port, BUFFER_SIZE, 1024
  MaxSize    \* bound on the data

(* What is read in one piece may be longer than a new array, but not twice *)
(* as long.                                                                *)
ASSUME ConstantsAssumption ==
  /\ INITIAL \in Nat \ {0}
  /\ UNIT \in 0 .. 2 * INITIAL - 1 /\ RECV \in 0 .. 2 * INITIAL - 1
  /\ PORT \in 0 .. INITIAL
  /\ MaxSize \in Nat

VARIABLES
  user,      \* who uses the array: packet_data, arr or full_packet
  capacity,
  dataSize,
  low        \* history: remove left less than the first capacity

vars == <<user, capacity, dataSize, low>>

(* The capacity after expand(add).                                         *)
Expanded(cap, add) == IF add < cap * 2 THEN cap * 2 ELSE cap + add + 1

(* Mutant: the terminator is not counted. *)
AfterAppend_NoTerminator(cap, size, add) ==
  IF size + add > cap THEN Expanded(cap, add) ELSE cap

(* The capacity after appending add bytes to size bytes.                   *)
AfterAppend(cap, size, add) ==
  IF size + add >= cap THEN Expanded(cap, add) ELSE cap

(* Mutant: remove always shrinks. *)
AfterRemove_Always(cap, size) == cap \div 2

(* The capacity after remove has left size bytes: shrink halves it once.   *)
AfterRemove(cap, size) == IF cap \div 4 > size THEN cap \div 2 ELSE cap

(* The RTP parser appends a start code, the bytes of a header one by one  *)
(* and a payload, and clears the array before the next packet.  The raw    *)
(* receiver appends blocks, all full but the last of a picture, at which   *)
(* its parser clears.  The serial port's chunks are of any length; the     *)
(* aircraft parser also removes.                                           *)
MayAppend(len) ==
  \/ user = "rtp"    /\ dataSize + len <= UNIT
  \/ user = "blocks" /\ len <= RECV /\ (dataSize = 0 \/ dataSize >= RECV)
  \/ user = "serial" /\ len <= PORT

Init ==
  /\ user \in {"rtp", "blocks", "serial"}
  /\ capacity = INITIAL /\ dataSize = 0 /\ low = FALSE

append(len) ==
  /\ MayAppend(len) /\ dataSize + len <= MaxSize
  /\ capacity' = AfterAppend(capacity, dataSize, len)
  /\ dataSize' = dataSize + len
  /\ UNCHANGED <<user, low>>

remove(len) ==
  /\ user = "serial" /\ len <= dataSize
  /\ dataSize' = dataSize - len
  /\ capacity' = AfterRemove(capacity, dataSize - len)
  /\ low' = (low \/ capacity' < INITIAL)
  /\ UNCHANGED user

clear ==
  /\ dataSize' = 0
  /\ UNCHANGED <<user, capacity, low>>

Next ==
  \/ \E len \in 0 .. MaxSize : append(len)
  \/ \E len \in 0 .. dataSize : remove(len)
  \/ clear

Spec == Init /\ [][Next]_vars

-----------------------------------------------------------------------------
(* Properties.                                                             *)

TypeOK == capacity \in Nat \ {0} /\ dataSize \in Nat /\ low \in BOOLEAN

(* expand makes room: the data and its '\0' fit after every append, also   *)
(* when a packet is longer than the array is, until a remove has left a    *)
(* capacity below the first.  Then a chunk longer than the capacity and    *)
(* shorter than twice that may find too little room: see PacketFits.       *)
DataFits == ~low => dataSize < capacity

=============================================================================
