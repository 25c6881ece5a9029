----------------------------- MODULE UnitParser -----------------------------
(***************************************************************************)
(* parserRtpH264 and parserRtpH265: from the RTP packets the ring hands    *)
(* over, in order, to the bytes the decoder gets, packet by packet, and    *)
(* the marks that make rtp_callback queue a timestamp.  FramePipeline      *)
(* begins where this ends, with whole units.                               *)
(*                                                                         *)
(* The camera is external: it sends a parameter set before every GOP - 1   *)
(* pictures, cuts a NAL that is too long into fragments and marks the last *)
(* packet of a picture; some cameras send a NAL in an aggregation packet,  *)
(* with others.  Packets get lost, as the ring gives up on them.           *)
(***************************************************************************)
EXTENDS Integers, Sequences, FiniteSets

CONSTANTS
  GOP,
  MaxParts,     \* fragments of a NAL at most
  MaxUnits,     \* bound: NALs sent
  MaxLost       \* bound: packets lost

ASSUME UnitConstants == GOP \in Nat \ {0} /\ MaxParts \in Nat \ {0}

VARIABLES
  codec,        \* which of the two parsers is at work
  camera,       \* the slices it makes of a picture, the bits of its headers,
                \* whether it aggregates
  unit, piece, pieces,  \* the NAL being sent, its next packet, how many it has
  bundled,      \* it is sent in an aggregation packet
  wanted,       \* canSendBox()
  is_start,
  nals,       \* the NALs the decoder makes out of what it got
  marks,        \* the NALs whose mark came through to rtp_callback
  lost,         \* packets lost since is_start
  unitAborted   \* a FSERVO_CHECK failed

unitVars == <<codec, camera, unit, piece, pieces, bundled, wanted, is_start,
              nals, marks, lost, unitAborted>>

(* The first bytes of a NAL: what stands before the type in the first one, *)
(* the type, and what stands after it (of H.265's layer id the first bit). *)
ParamType   == IF codec = "H264" THEN 7 ELSE 32
FragType    == IF codec = "H264" THEN 28 ELSE 49
BundleType  == IF codec = "H264" THEN 24 ELSE 48
IsSet(u)    == u % GOP = 0
Closes(u)   == ~IsSet(u) /\ (camera.slices = 1 \/ IsSet(u + 1) \/ u % 2 = 0)
NalHeader(u) == [high |-> camera.high, low |-> camera.low,
                type |-> IF IsSet(u) THEN ParamType ELSE 1]

UnitInit ==
  /\ codec \in {"H264", "H265"}
  /\ camera \in [slices : {1, 2}, high : {0, 1, 3}, low : {0, 1}, bundles : BOOLEAN]
  /\ IF codec = "H264" THEN camera.high > 0 /\ camera.low = 0
                       ELSE camera.high = 0
  /\ unit = 0 /\ piece = 1 /\ pieces = 1
  /\ bundled \in BOOLEAN /\ (bundled => camera.bundles)
  /\ wanted = FALSE /\ is_start = FALSE
  /\ nals = <<>> /\ marks = <<>> /\ lost = 0 /\ unitAborted = FALSE

-----------------------------------------------------------------------------
(* A packet: of a fragment the key is that of the fragmentation unit, the  *)
(* type of the NAL stands in the fragment's own header; in an aggregation  *)
(* packet each NAL has a header of its own.                                *)
Packet ==
  [unit |-> unit, piece |-> piece, type |-> NalHeader(unit).type,
   key  |-> IF bundled THEN [NalHeader(unit) EXCEPT !.type = BundleType]
            ELSE IF pieces = 1 THEN NalHeader(unit)
            ELSE [NalHeader(unit) EXCEPT !.type = FragType],
   kind |-> IF bundled THEN "bundle"
            ELSE IF pieces = 1 THEN "single" ELSE IF piece = 1 THEN "start"
            ELSE IF piece = pieces THEN "end" ELSE "middle",
   mark |-> piece = pieces /\ Closes(unit)]

(* The camera goes on to the next packet.                                  *)
NextPacket ==
  /\ ~unitAborted /\ unit < MaxUnits
  /\ IF piece < pieces
     THEN piece' = piece + 1 /\ UNCHANGED <<unit, pieces, bundled>>
     ELSE /\ unit' = unit + 1 /\ piece' = 1
          /\ pieces' \in IF IsSet(unit + 1) THEN {1} ELSE 1 .. MaxParts
          /\ bundled' \in BOOLEAN /\ (bundled' => camera.bundles /\ pieces' = 1)
  /\ UNCHANGED <<codec, camera>>

(* 0x67 and 0x40, the whole first byte.                                    *)
StartKey == IF codec = "H264" THEN [high |-> 3, low |-> 0, type |-> 7]
                              ELSE [high |-> 0, low |-> 0, type |-> 32]

(* Mutant: the type of the fragmentation unit stays. *)
Rebuilt_Key(p) == p.key

(* nalu_header: H.265's parser leaves out the layer bit of the first byte. *)
Rebuilt(p) == [high |-> p.key.high, type |-> p.type,
               low  |-> IF codec = "H264" THEN p.key.low ELSE 0]

(* The start code begins a NAL; other bytes go on with the last one.       *)
BeginNal(header, p) == Append(nals, [header |-> header, unit |-> p.unit,
                                    body |-> <<<<p.unit, p.piece>>>>])
Continue(p) == [nals EXCEPT ![Len(nals)].body = Append(@, <<p.unit, p.piece>>)]

Pushed(p) == CASE p.kind = "single" -> BeginNal(p.key, p)
               [] p.kind = "start"  -> BeginNal(Rebuilt(p), p)
               [] OTHER             -> Continue(p)

(* Mutant: the fragment that begins a NAL must be marked too. *)
Checked_Start(p) ==
  /\ p.kind # "bundle"
  /\ p.kind \in {"start", "end"} => p.mark

(* The parsers' checks: they take no aggregation packet, and of fragments  *)
(* the last is marked but not the first.                                   *)
Checked(p) ==
  /\ p.kind # "bundle"
  /\ p.kind = "start" => ~p.mark
  /\ p.kind = "end"   => p.mark

(* Mutant: the mark is passed on with the fragment that begins a NAL too. *)
ParsePacket_EarlyMark ==
  /\ NextPacket
  /\ is_start' = (wanted /\ (is_start \/ Packet.key = StartKey))
  /\ IF is_start'
     THEN IF Checked(Packet)
          THEN /\ nals' = Pushed(Packet)
               /\ marks' = IF Packet.mark \/ Packet.kind = "start"
                           THEN Append(marks, unit) ELSE marks
               /\ UNCHANGED unitAborted
          ELSE unitAborted' = TRUE /\ UNCHANGED <<nals, marks>>
     ELSE UNCHANGED <<nals, marks, unitAborted>>
  /\ UNCHANGED <<wanted, lost>>

(* A packet reaches the parser; unless someone wants boxes and a parameter *)
(* set has come it goes no further.  What is appended to packet_data goes  *)
(* to rtp_callback at once, with the packet's own mark.                    *)
ParsePacket ==
  /\ NextPacket
  /\ is_start' = (wanted /\ (is_start \/ Packet.key = StartKey))
  /\ IF is_start'
     THEN IF Checked(Packet)
          THEN /\ nals' = Pushed(Packet)
               /\ marks' = IF Packet.mark THEN Append(marks, unit) ELSE marks
               /\ UNCHANGED unitAborted
          ELSE unitAborted' = TRUE /\ UNCHANGED <<nals, marks>>
     ELSE UNCHANGED <<nals, marks, unitAborted>>
  /\ UNCHANGED <<wanted, lost>>

LosePacket ==
  /\ NextPacket /\ is_start /\ lost < MaxLost
  /\ lost' = lost + 1
  /\ UNCHANGED <<wanted, is_start, nals, marks, unitAborted>>

(* A client asks for boxes, at any moment of the stream.                 *)
Want ==
  /\ ~wanted /\ wanted' = TRUE
  /\ UNCHANGED <<codec, camera, unit, piece, pieces, bundled, is_start, nals, marks,
                 lost, unitAborted>>

UnitNext == ParsePacket \/ LosePacket \/ Want
UnitSpec == UnitInit /\ [][UnitNext]_unitVars

-----------------------------------------------------------------------------
(* Without a loss the decoder gets every NAL from the first parameter set  *)
(* on, one after the other and none twice, fragments in order and the      *)
(* header put together again; for H.265 if the layer id is below 32.       *)
UnitsWhole ==
  lost = 0 =>
    \A i \in DOMAIN nals :
      /\ nals[i].unit = nals[1].unit + i - 1
      /\ \A k \in DOMAIN nals[i].body : nals[i].body[k] = <<nals[i].unit, k>>
      /\ camera.low = 0 => nals[i].header = NalHeader(nals[i].unit)

(* A decoder shows a picture for each that begins, vcu_callback takes a    *)
(* timestamp for each picture, and only marks bring timestamps: the two    *)
(* stay together without a loss, and every lost packet moves them apart by *)
(* one at most, for good (main.cpp:571).                                   *)
Begun == Cardinality({i \in DOMAIN nals : ~IsSet(nals[i].unit)})
MarksFollowPictures ==
  camera.slices = 1 /\ ~unitAborted =>
    Begun - Len(marks) \in -lost .. lost + (IF piece > 1 THEN 1 ELSE 0)

(* What ends the process is a fragmented NAL that does not end its picture *)
(* (rtpDataManager.cpp:193, 305) or an aggregation packet (:216, :320),    *)
(* never a loss.                                                           *)
AbortsOnSlices == unitAborted => camera.slices > 1 \/ camera.bundles

(* parserRtpH264 and parserRtpH265 (rtpDataManager.cpp) give the decoder   *)
(* the camera's units and their marks, over packets of one unit and        *)
(* fragments, lost ones among them.                                        *)
UnitsRebuilt == UnitsWhole /\ MarksFollowPictures /\ AbortsOnSlices
=============================================================================
