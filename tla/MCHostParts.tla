---------------------------- MODULE MCHostParts ----------------------------
(* The parts of the host that share no state with one another, each on a   *)
(* small instance: one run takes up one part, the others stand still.      *)
EXTENDS RtcpReports, DeviceAccess, RawReceive, StartUp, ByteArray, Detection,
        Letterbox, Digest, ConfigLoad, UnitParser, BoxOverlap

VARIABLE part

(* A word of four bits, so that indices of three lie across two words; the *)
(* last table is empty.                                                    *)
SmallTables == {[bits |-> 3, regs |-> <<5, 2, 7>>],
                [bits |-> 2, regs |-> <<3, 0>>], [bits |-> 2, regs |-> <<>>]}

TwoLayers   == <<[locs |-> 2, boxes |-> 1], [locs |-> 1, boxes |-> 1]>>
DetectSizes == {<<8, 8>>, <<8, 6>>}
SourceSizes == {<<20, 10>>, <<18, 10>>, <<10, 20>>, <<4, 4>>, <<11, 9>>,
                <<8, 8>>}
Ends        == {-6, -1, 0, 5, 12, 25}

(* A value in quotes, one without, one that is all comment, comments with  *)
(* and without blanks.                                                     *)
CfgPairs == {<<"q", "x", "q">>, <<"y">>, <<Hash, "y">>, <<"x", Blank, Hash, "y">>,
             <<"x", Hash, "y">>, <<"x", Hash, "y", Blank, "y">>,
             <<"x", Blank, "y">>, <<"x", Blank, "y", Blank, Hash, "x">>}

parts == <<rtcpVars, deviceVars, rawVars, upVars, vars, detectVars, boxVars,
           digestVars, loadVars, unitVars, overlapVars>>

(* A part that stands still has one initial state.                         *)
PartsInit ==
  /\ part \in {"rtcp", "device", "raw", "startup", "bytes", "boxes", "places",
              "digest", "config", "units", "overlap"}
  /\ RtcpInit /\ RawInit /\ OverlapInit
  /\ DeviceInit /\ (part # "device"  => driver = "shm" /\ Len(table.regs) = 2)
  /\ StartInit  /\ (part # "startup" => ~stream)
  /\ Init       /\ (part # "bytes"   => user = "serial")
  /\ DetectInit /\ (part # "boxes"   => hot = {} /\ maxBoxNum = DEFAULT_BOXES)
  /\ LetterInit /\ (part # "places"  => detect = <<8, 8>>)
  /\ DigestInit /\ (part # "digest"  => \A k \in 1 .. 3 : lengths[k] = 1)
  /\ LoadInit   /\ (part # "config"  => type = "Net" /\ others = "all")
  /\ UnitInit   /\ (part # "units"   =>
                     codec = "H265" /\ camera.slices = 1 /\ camera.low = 0
                       /\ ~camera.bundles)

PartsNext ==
  \/ /\ part = "rtcp" /\ RtcpNext
     /\ UNCHANGED <<part, deviceVars, rawVars, upVars, vars, detectVars,
                    boxVars, digestVars, loadVars, unitVars, overlapVars>>
  \/ /\ part = "device" /\ DeviceNext
     /\ UNCHANGED <<part, rtcpVars, rawVars, upVars, vars, detectVars,
                    boxVars, digestVars, loadVars, unitVars, overlapVars>>
  \/ /\ part = "raw" /\ RawNext
     /\ UNCHANGED <<part, rtcpVars, deviceVars, upVars, vars, detectVars,
                    boxVars, digestVars, loadVars, unitVars, overlapVars>>
  \/ /\ part = "startup" /\ StartNext
     /\ UNCHANGED <<part, rtcpVars, deviceVars, rawVars, vars, detectVars,
                    boxVars, digestVars, loadVars, unitVars, overlapVars>>
  \/ /\ part = "bytes" /\ Next
     /\ UNCHANGED <<part, rtcpVars, deviceVars, rawVars, upVars, detectVars,
                    boxVars, digestVars, loadVars, unitVars, overlapVars>>
  \/ /\ part = "boxes" /\ DetectNext
     /\ UNCHANGED <<part, rtcpVars, deviceVars, rawVars, upVars, vars,
                    boxVars, digestVars, loadVars, unitVars, overlapVars>>
  \/ /\ part = "places" /\ LetterNext
     /\ UNCHANGED <<part, rtcpVars, deviceVars, rawVars, upVars, vars,
                    detectVars, digestVars, loadVars, unitVars, overlapVars>>
  \/ /\ part = "digest" /\ DigestNext
     /\ UNCHANGED <<part, rtcpVars, deviceVars, rawVars, upVars, vars,
                    detectVars, boxVars, loadVars, unitVars, overlapVars>>
  \/ /\ part = "config" /\ LoadNext
     /\ UNCHANGED <<part, rtcpVars, deviceVars, rawVars, upVars, vars,
                    detectVars, boxVars, digestVars, unitVars, overlapVars>>
  \/ /\ part = "units" /\ UnitNext
     /\ UNCHANGED <<part, rtcpVars, deviceVars, rawVars, upVars, vars,
                    detectVars, boxVars, digestVars, loadVars, overlapVars>>
  \/ /\ part = "overlap" /\ OverlapNext
     /\ UNCHANGED <<part, rtcpVars, deviceVars, rawVars, upVars, vars,
                    detectVars, boxVars, digestVars, loadVars, unitVars>>

PartsSpec == PartsInit /\ [][PartsNext]_<<part, parts>>
=============================================================================
