--------------------------- MODULE FramePipeline ---------------------------
(***************************************************************************)
(* From a parsed video unit to a picture for the FPGA and the answer to a  *)
(* client, across client sessions: five threads and the state they share.  *)
(*                                                                         *)
(*   DataSend::receive_thread  serves one client at a time, switches       *)
(*                             can_send_box and, from the second client    *)
(*                             on, calls clear() of src/main.cpp           *)
(*   parser_thread             feeds the decoder and queues timestamps     *)
(*   the decoder's thread      shows pictures through vcu_callback         *)
(*   input_thread_fromvcu      hands pictures to FPGAControl::input        *)
(*   FPGAControl's output_thread  answers through fpga_callback, in order  *)
(*                                                                         *)
(* Units are numbered; a picture's number is also its RTP timestamp.       *)
(***************************************************************************)
EXTENDS Integers, Sequences, SequencesExt

CONSTANTS
  DELAY,       \* pictures the decoder holds back before it shows one
  HOLD,        \* pictures FPGAControl and its caller hold at most
  GOP,         \* every GOP-th unit is a parameter set (SPS or VPS)
  MaxUnits,    \* bound: units of the stream
  MaxSessions  \* bound: clients served

ASSUME ConstantsAssumption ==
  /\ DELAY \in Nat /\ HOLD \in Nat \ {0} /\ GOP \in Nat \ {0}
  /\ MaxUnits \in Nat /\ MaxSessions \in Nat

VARIABLES
  codecType,
  can_send_box,
  servePc,       \* where receive_thread is; "close" .. "pop" are in clear()
  session,       \* clients accepted so far
  unit,          \* next unit parser_thread takes from the ring
  parserPc,      \* where parser_thread is
  gate,          \* the session in which parser_thread last passed canSendBox
  is_start,
  isfirst,
  que_timestamp,
  decoder,       \* pAllegroVcu: the session it was opened in, what it holds
  showPc,        \* where the decoder's thread is in vcu_callback
  shown,         \* the FPGAInput vcu_callback is making
  pic_queue,
  handed,        \* the last FPGAInput given to FPGAControl::input
  device,        \* of each picture FPGAControl and its caller hold, pic.from
  answered,      \* the last answer: to which client, from whose picture
  aborted,       \* vcu_callback's assert failed, the process is over
  mixed          \* history: how sessions overlapped, see Mixing

serveVars  == <<can_send_box, servePc, session>>
parserVars == <<unit, parserPc, gate, is_start>>
showVars   == <<showPc, shown>>
outVars    == <<handed, device, answered>>
vars == <<codecType, serveVars, parserVars, isfirst, que_timestamp, decoder,
          showVars, pic_queue, outVars, aborted, mixed>>

IsParamSet(u) == u % GOP = 0
NoPic         == [frame |-> -1, pic_id |-> -1, from |-> -1]
NoAnswer      == [to |-> 0, from |-> -1]

(* A decoder just opened: no parameter sets, no picture yet.               *)
Opened(s) == [from |-> s, fed |-> FALSE, ready |-> FALSE, fresh |-> TRUE,
              pics |-> <<>>]
Closed    == [Opened(-1) EXCEPT !.fresh = FALSE]

Init ==
  /\ codecType \in {"H264", "H265"}
  /\ can_send_box = FALSE /\ servePc = "accept" /\ session = 0
  /\ unit = 0 /\ parserPc = "idle" /\ gate = 0 /\ is_start = FALSE
  /\ isfirst = TRUE /\ que_timestamp = <<>>
  /\ decoder = Opened(0)
  /\ showPc = "idle" /\ shown = NoPic
  /\ pic_queue = <<>> /\ handed = NoPic
  /\ device = <<>> /\ answered = NoAnswer
  /\ aborted = FALSE /\ mixed = {}

(* parser_thread is between its test of canSendBox and its next packet.    *)
ParserInside == parserPc # "idle"
Clearing     == servePc \in {"close", "open", "pics", "times", "pop"}

(* What a quiet reconnection does not meet: clear() runs over a parser     *)
(* that passed the test of canSendBox before the client left.              *)
Mixing == mixed' = mixed \cup {m \in {"straggler"} : ParserInside}

-----------------------------------------------------------------------------
(* DataSend::receive_thread and clear().                                   *)

(* waitBeConnected returns; only the first client finds everything new.    *)
Accept ==
  /\ ~aborted /\ servePc = "accept" /\ session < MaxSessions
  /\ servePc' = IF session > 0 THEN "close" ELSE "serve"
  /\ session' = session + 1
  /\ UNCHANGED <<codecType, can_send_box, parserVars, isfirst, que_timestamp,
                 decoder, showVars, pic_queue, outVars, aborted, mixed>>

(* A BOX request.  is_start is parser_thread's: it is stale here when no   *)
(* packet was parsed since the last client left.                           *)
BoxRequest ==
  /\ ~aborted /\ servePc = "serve"
  /\ can_send_box' = TRUE
  /\ mixed' = mixed \cup {m \in {"staleStart"} : ~can_send_box /\ is_start}
  /\ UNCHANGED <<codecType, servePc, session, parserVars, isfirst,
                 que_timestamp, decoder, showVars, pic_queue, outVars, aborted>>

(* Mutant: the flag is left up while the next client is awaited. *)
Disconnect_KeepsFlag ==
  /\ ~aborted /\ servePc = "serve"
  /\ servePc' = "accept"
  /\ can_send_box' = can_send_box
  /\ UNCHANGED <<codecType, session, parserVars, isfirst, que_timestamp,
                 decoder, showVars, pic_queue, outVars, aborted, mixed>>

(* read() fails; the flags fall at the head of the loop.                   *)
Disconnect ==
  /\ ~aborted /\ servePc = "serve"
  /\ servePc' = "accept"
  /\ can_send_box' = FALSE
  /\ UNCHANGED <<codecType, session, parserVars, isfirst, que_timestamp,
                 decoder, showVars, pic_queue, outVars, aborted, mixed>>

(* Mutant: close waits for every picture the decoder still holds. *)
RestartClose_Flushes ==
  /\ ~aborted /\ servePc = "close" /\ showPc = "idle" /\ decoder.pics = <<>>
  /\ decoder' = Closed
  /\ servePc' = "open"
  /\ Mixing
  /\ UNCHANGED <<codecType, can_send_box, session, parserVars, isfirst,
                 que_timestamp, showVars, pic_queue, outVars, aborted>>

(* VCUControl::restart: close waits for the callback under way, delete.    *)
RestartClose ==
  /\ ~aborted /\ servePc = "close" /\ showPc = "idle"
  /\ decoder' = Closed
  /\ servePc' = "open"
  /\ Mixing
  /\ UNCHANGED <<codecType, can_send_box, session, parserVars, isfirst,
                 que_timestamp, showVars, pic_queue, outVars, aborted>>

(* The new decoder is initialised and opened.                              *)
RestartOpen ==
  /\ ~aborted /\ servePc = "open"
  /\ decoder' = Opened(session)
  /\ servePc' = "pics"
  /\ Mixing
  /\ UNCHANGED <<codecType, can_send_box, session, parserVars, isfirst,
                 que_timestamp, showVars, pic_queue, outVars, aborted>>

(* Mutant: only the head of the queue is freed. *)
DrainPics_HeadOnly ==
  /\ ~aborted /\ servePc = "pics"
  /\ pic_queue' = IF pic_queue = <<>> THEN <<>> ELSE Tail(pic_queue)
  /\ servePc' = "times"
  /\ Mixing
  /\ UNCHANGED <<codecType, can_send_box, session, parserVars, isfirst,
                 que_timestamp, decoder, showVars, outVars, aborted>>

(* Under pic_mutex every waiting picture is freed.                         *)
DrainPics ==
  /\ ~aborted /\ servePc = "pics"
  /\ pic_queue' = <<>>
  /\ servePc' = "times"
  /\ Mixing
  /\ UNCHANGED <<codecType, can_send_box, session, parserVars, isfirst,
                 que_timestamp, decoder, showVars, outVars, aborted>>

(* Mutant: isfirst is not set again. *)
FirstAgain_Keeps ==
  /\ ~aborted /\ servePc = "times"
  /\ UNCHANGED isfirst
  /\ servePc' = "pop"
  /\ Mixing
  /\ UNCHANGED <<codecType, can_send_box, session, parserVars, que_timestamp,
                 decoder, showVars, pic_queue, outVars, aborted>>

(* isfirst is set, which parser_thread may be about to read or to clear.   *)
FirstAgain ==
  /\ ~aborted /\ servePc = "times"
  /\ isfirst' = TRUE
  /\ servePc' = "pop"
  /\ Mixing
  /\ UNCHANGED <<codecType, can_send_box, session, parserVars, que_timestamp,
                 decoder, showVars, pic_queue, outVars, aborted>>

(* One pass of the loop that empties que_timestamp without mutex_timestamp *)
(* (main.cpp:1178): a straggler may push between two passes.               *)
DrainTimes ==
  /\ ~aborted /\ servePc = "pop"
  /\ IF que_timestamp = <<>>
       THEN servePc' = "serve" /\ UNCHANGED que_timestamp
       ELSE que_timestamp' = Tail(que_timestamp) /\ UNCHANGED servePc
  /\ Mixing
  /\ UNCHANGED <<codecType, can_send_box, session, parserVars, isfirst, decoder,
                 showVars, pic_queue, outVars, aborted>>

-----------------------------------------------------------------------------
(* parser_thread: parserRtpH26x, then rtp_callback.                        *)

(* Mutant: the first packet of a session starts it, whatever it is. *)
Gate_NoParamSet ==
  /\ ~aborted /\ parserPc = "idle" /\ unit < MaxUnits
  /\ is_start' = can_send_box
  /\ IF is_start'
     THEN parserPc' = "push" /\ gate' = session /\ UNCHANGED unit
     ELSE unit' = unit + 1 /\ UNCHANGED <<parserPc, gate>>
  /\ UNCHANGED <<codecType, serveVars, isfirst, que_timestamp, decoder,
                 showVars, pic_queue, outVars, aborted, mixed>>

(* Nothing passes without a client that wants boxes, nor before the first  *)
(* parameter set.                                                          *)
Gate ==
  /\ ~aborted /\ parserPc = "idle" /\ unit < MaxUnits
  /\ is_start' = (can_send_box /\ (is_start \/ IsParamSet(unit)))
  /\ IF is_start'
     THEN parserPc' = "push" /\ gate' = session /\ UNCHANGED unit
     ELSE unit' = unit + 1 /\ UNCHANGED <<parserPc, gate>>
  /\ UNCHANGED <<codecType, serveVars, isfirst, que_timestamp, decoder,
                 showVars, pic_queue, outVars, aborted, mixed>>

(* VCUControl::pushData.  Without parameter sets the decoder drops its     *)
(* input; an H.264 decoder shows nothing for its first marked unit, which  *)
(* is what isfirst stands for.  A straggler that meets clear() between     *)
(* delete and new uses a dead object; here its unit is just lost.          *)
Push ==
  /\ ~aborted /\ parserPc = "push"
  /\ decoder' =
       IF decoder = Closed THEN Closed
       ELSE IF IsParamSet(unit)
       THEN [decoder EXCEPT !.ready = TRUE, !.fed = TRUE]
       ELSE LET shows == decoder.ready /\ ~(codecType = "H264" /\ decoder.fresh)
            IN  [decoder EXCEPT !.fed = TRUE,
                                !.fresh = @ /\ ~decoder.ready,
                                !.pics = IF shows THEN Append(@, unit) ELSE @]
  /\ parserPc' = "stamp"
  /\ UNCHANGED <<codecType, serveVars, unit, gate, is_start, isfirst,
                 que_timestamp, showVars, pic_queue, outVars, aborted, mixed>>

(* Does this unit's timestamp go into the queue?  Only that of a marked    *)
(* unit, the last of a picture, and not that of the first one of H.264.    *)
(* Mutant: the first marked unit is skipped for H.265 too. *)
TimeWanted_SkipsFirst == ~IsParamSet(unit) /\ ~isfirst
TimeWanted == ~IsParamSet(unit) /\ (~isfirst \/ codecType = "H265")

(* isfirst is tested before mutex_timestamp is taken (main.cpp:726).       *)
Stamp ==
  /\ ~aborted /\ parserPc = "stamp"
  /\ IF TimeWanted
       THEN parserPc' = "mark" /\ UNCHANGED <<unit, isfirst>>
       ELSE /\ isfirst' = (isfirst /\ IsParamSet(unit))
            /\ parserPc' = "idle" /\ unit' = unit + 1
  /\ UNCHANGED <<codecType, serveVars, gate, is_start, que_timestamp, decoder,
                 showVars, pic_queue, outVars, aborted, mixed>>

(* Under mutex_timestamp the timestamp is queued.                          *)
Mark ==
  /\ ~aborted /\ parserPc = "mark"
  /\ que_timestamp' = Append(que_timestamp, unit)
  /\ parserPc' = "idle" /\ unit' = unit + 1
  /\ UNCHANGED <<codecType, serveVars, gate, is_start, isfirst, decoder,
                 showVars, pic_queue, outVars, aborted, mixed>>

-----------------------------------------------------------------------------
(* The decoder's thread: vcu_callback.                                     *)

(* The decoder shows a picture; without a client it is ignored and its     *)
(* timestamp stays where it is.                                            *)
Show ==
  /\ ~aborted /\ showPc = "idle" /\ Len(decoder.pics) > DELAY
  /\ decoder' = [decoder EXCEPT !.pics = Tail(@)]
  /\ IF can_send_box
     THEN /\ shown' = [frame |-> Head(decoder.pics), pic_id |-> -1,
                       from |-> decoder.from]
          /\ showPc' = "time"
     ELSE UNCHANGED showVars
  /\ UNCHANGED <<codecType, serveVars, parserVars, isfirst, que_timestamp,
                 pic_queue, outVars, aborted, mixed>>

(* Under mutex_timestamp: assert that there is one, take the front.        *)
TakeTime ==
  /\ ~aborted /\ showPc = "time"
  /\ IF que_timestamp = <<>>
     THEN aborted' = TRUE /\ UNCHANGED <<que_timestamp, shown, showPc>>
     ELSE /\ shown' = [shown EXCEPT !.pic_id = Head(que_timestamp)]
          /\ que_timestamp' = Tail(que_timestamp)
          /\ showPc' = "queue"
          /\ UNCHANGED aborted
  /\ UNCHANGED <<codecType, serveVars, parserVars, isfirst, decoder,
                 pic_queue, outVars, mixed>>

(* Mutant: the new picture goes in front of the waiting one. *)
QueuePic_Lifo ==
  /\ ~aborted /\ showPc = "queue"
  /\ pic_queue' = <<shown>> \o (IF Len(pic_queue) > 1 THEN Tail(pic_queue) ELSE pic_queue)
  /\ showPc' = "idle" /\ shown' = NoPic
  /\ UNCHANGED <<codecType, serveVars, parserVars, isfirst, que_timestamp,
                 decoder, outVars, aborted, mixed>>

(* Under pic_mutex: a queue of two loses its oldest picture.               *)
QueuePic ==
  /\ ~aborted /\ showPc = "queue"
  /\ pic_queue' = Append(IF Len(pic_queue) > 1 THEN Tail(pic_queue) ELSE pic_queue, shown)
  /\ showPc' = "idle" /\ shown' = NoPic
  /\ UNCHANGED <<codecType, serveVars, parserVars, isfirst, que_timestamp,
                 decoder, outVars, aborted, mixed>>

(* Mutant: the last picture is left in the queue. *)
Input_KeepsOne ==
  /\ ~aborted /\ Len(pic_queue) > 1 /\ Len(device) < HOLD
  /\ handed' = Head(pic_queue)
  /\ pic_queue' = Tail(pic_queue)
  /\ device' = Append(device, handed'.from)
  /\ UNCHANGED <<codecType, serveVars, parserVars, isfirst, que_timestamp,
                 decoder, showVars, answered, aborted, mixed>>

(* input_thread_fromvcu: pop under pic_mutex, then FPGAControl::input,     *)
(* which blocks with the picture in hand while the device has its two.     *)
Input ==
  /\ ~aborted /\ pic_queue # <<>> /\ Len(device) < HOLD
  /\ handed' = Head(pic_queue)
  /\ pic_queue' = Tail(pic_queue)
  /\ device' = Append(device, handed'.from)
  /\ UNCHANGED <<codecType, serveVars, parserVars, isfirst, que_timestamp,
                 decoder, showVars, answered, aborted, mixed>>

(* Mutant: the newest picture is answered first. *)
Answer_Newest ==
  /\ ~aborted /\ device # <<>>
  /\ device' = SubSeq(device, 1, Len(device) - 1)
  /\ answered' = IF can_send_box THEN [to |-> session, from |-> Last(device)]
                                  ELSE answered
  /\ UNCHANGED <<codecType, serveVars, parserVars, isfirst, que_timestamp,
                 decoder, showVars, pic_queue, handed, aborted, mixed>>

(* fpga_callback: the boxes go to the client of the moment, whoever the    *)
(* picture was made for; without one that asked they are dropped.          *)
Answer ==
  /\ ~aborted /\ device # <<>>
  /\ device' = Tail(device)
  /\ answered' = IF can_send_box THEN [to |-> session, from |-> Head(device)]
                                  ELSE answered
  /\ UNCHANGED <<codecType, serveVars, parserVars, isfirst, que_timestamp,
                 decoder, showVars, pic_queue, handed, aborted, mixed>>

-----------------------------------------------------------------------------
Clear  == RestartClose \/ RestartOpen \/ DrainPics \/ FirstAgain \/ DrainTimes
Server == Accept \/ BoxRequest \/ Disconnect \/ Clear
Parser == Gate \/ Push \/ Stamp \/ Mark
Shower == Show \/ TakeTime \/ QueuePic

Next == Server \/ Parser \/ Shower \/ Input \/ Answer

Spec == Init /\ [][Next]_vars

(* Every thread runs; clients come, ask and leave as they like.  The FPGA  *)
(* answers: its output thread waits for the device no longer than MaxPoll  *)
(* polls, see FpgaControl.                                                 *)
FairSpec ==
  /\ Spec
  /\ WF_vars(Clear) /\ WF_vars(Parser) /\ WF_vars(Shower)
  /\ WF_vars(Input) /\ WF_vars(Answer)

-----------------------------------------------------------------------------
(* Properties.                                                             *)

Units == -1 .. MaxUnits - 1
Pic   == [frame : Units, pic_id : Units, from : -1 .. MaxSessions]

TypeOK ==
  /\ codecType \in {"H264", "H265"}
  /\ can_send_box \in BOOLEAN /\ is_start \in BOOLEAN /\ isfirst \in BOOLEAN
  /\ servePc \in {"accept", "serve", "close", "open", "pics", "times",
                  "pop"}
  /\ session \in 0 .. MaxSessions /\ gate \in 0 .. MaxSessions
  /\ unit \in 0 .. MaxUnits /\ parserPc \in {"idle", "push", "stamp", "mark"}
  /\ que_timestamp \in Seq(Units)
  /\ decoder \in [from : -1 .. MaxSessions, fed : BOOLEAN, ready : BOOLEAN,
                  fresh : BOOLEAN, pics : Seq(Units)]
  /\ showPc \in {"idle", "time", "queue"} /\ shown \in Pic
  /\ pic_queue \in Seq(Pic) /\ Len(pic_queue) <= 2 /\ handed \in Pic
  /\ device \in Seq(-1 .. MaxSessions) /\ Len(device) <= HOLD
  /\ answered \in [to : 0 .. MaxSessions, from : -1 .. MaxSessions]
  /\ aborted \in BOOLEAN /\ mixed \subseteq {"straggler", "staleStart"}

(* clear() restarts the decoder and empties que_timestamp without a lock.  *)
(* It needs none against new work: whatever thread it meets inside the     *)
(* pipeline passed canSendBox in an earlier session, and once the old      *)
(* decoder is closed no callback runs until the next request for boxes.    *)
ClearMeetsOnlyStragglers ==
  Clearing => /\ ParserInside => gate < session
              /\ servePc # "close" => showPc = "idle"

(* As long as no session overlapped the next, each picture made for the    *)
(* FPGA carries its own timestamp, over any number of clients.             *)
PicturesKeepTheirTime ==
  mixed = {} =>
    \A p \in Range(pic_queue) \cup {handed} : p.pic_id = p.frame

(* After clear() only pictures of this client's own decoder wait for the   *)
(* FPGA: the old decoder's last callback is over before the queue drains.  *)
NoPictureOfAnEarlierClient ==
  servePc = "serve" /\ session > 1 => \A p \in Range(pic_queue) : p.from = session

(* A decoder's input starts with a parameter set, unless is_start was      *)
(* stale or a straggler got in.                                            *)
DecoderStartsAtParamSet ==
  mixed = {} /\ decoder.fed => decoder.ready

(* The FPGA sees pictures in stream order, whatever is dropped.            *)
HandedInOrder == [][handed' # handed => handed'.frame > handed.frame]_vars

(* Pictures of an earlier client that are in the device when the next one  *)
(* asks are answered to that one (dataSend.cpp:205), but only before its   *)
(* own: once it has had an answer of its own none of an earlier client's   *)
(* follows.                                                                *)
StrangersOnlyFirst ==
  [][answered'.to = answered.to => answered'.from >= answered.from]_answered

(* vcu_callback always finds a timestamp: what its assert claims.  A       *)
(* reconnection only ever leaves timestamps too many; the assert depends   *)
(* on the decoder keeping a picture back.                                  *)
TimestampFound == ~aborted

(* A picture that waits is handed over, or a later one is, or clear()      *)
(* frees it.                                                               *)
WaitingPictureHanded ==
  \A u \in 0 .. MaxUnits - 1 :
    (\E p \in Range(pic_queue) : p.frame = u)
      ~> handed.frame >= u \/ Clearing \/ aborted

(* clear() gets through the restart, however the callback interleaves.     *)
ClearReturns == Clearing ~> servePc = "serve" \/ aborted

(* Neither of the two loops that wait for the other side is stuck: the     *)
(* thread that hands pictures to the FPGA (vcuControl.cpp), and clear(),   *)
(* which closes and opens the decoder with its callback still running.     *)
NothingStuck == WaitingPictureHanded /\ ClearReturns
=============================================================================
