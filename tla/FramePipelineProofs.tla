------------------------ MODULE FramePipelineProofs ------------------------
(***************************************************************************)
(* FramePipeline for every stream, any number of clients and any delay of  *)
(* the decoder.  The invariant has a part for each thing that moves: the   *)
(* session, the order of sessions in the device, the order of frames, the  *)
(* pairing of pictures with timestamps.                                    *)
(***************************************************************************)
EXTENDS FramePipeline, TLAPS

-----------------------------------------------------------------------------
(* Types.                                                                  *)

LEMMA ClosedRecord ==
  Closed = [from |-> -1, fed |-> FALSE, ready |-> FALSE, fresh |-> FALSE,
            pics |-> <<>>]
<1>1. Opened(-1) = [from |-> -1, fed |-> FALSE, ready |-> FALSE,
                    fresh |-> TRUE, pics |-> <<>>]
  BY DEF Opened
<1> DEFINE o == Opened(-1)
<1>2. Closed = [o EXCEPT !.fresh = FALSE]
  BY Zenon DEF Closed
<1> HIDE DEF o
<1>3. o = [from |-> -1, fed |-> FALSE, ready |-> FALSE, fresh |-> TRUE,
           pics |-> <<>>]
  BY <1>1 DEF o
<1>. QED BY <1>2, <1>3

(* A unit that passed the gate is one of the stream.                       *)
UnitInv == ParserInside => unit < MaxUnits

LEMMA InitType == Init => TypeOK /\ UnitInv
<1> SUFFICES ASSUME Init PROVE TypeOK /\ UnitInv
  OBVIOUS
<1> USE ConstantsAssumption DEF Init, NoPic, NoAnswer, Opened
<1>1. /\ -1 \in Units /\ 0 \in -1 .. MaxSessions /\ -1 \in -1 .. MaxSessions
      /\ 0 \in 0 .. MaxSessions
  BY DEF Units
<1>2. shown \in Pic /\ handed \in Pic
  BY <1>1 DEF Pic
<1>3. decoder \in [from : -1 .. MaxSessions, fed : BOOLEAN, ready : BOOLEAN,
                   fresh : BOOLEAN, pics : Seq(Units)]
  BY <1>1
<1>4. answered \in [to : 0 .. MaxSessions, from : -1 .. MaxSessions]
  BY <1>1
<1>5. /\ session \in 0 .. MaxSessions /\ gate \in 0 .. MaxSessions
      /\ unit \in 0 .. MaxUnits /\ Len(pic_queue) <= 2 /\ Len(device) <= HOLD
      /\ que_timestamp \in Seq(Units) /\ pic_queue \in Seq(Pic)
      /\ device \in Seq(-1 .. MaxSessions)
  BY <1>1
<1>6. /\ codecType \in {"H264", "H265"} /\ can_send_box \in BOOLEAN
      /\ is_start \in BOOLEAN /\ isfirst \in BOOLEAN /\ aborted \in BOOLEAN
      /\ mixed \subseteq {"straggler", "staleStart"}
  BY Zenon
<1>7. /\ servePc \in {"accept", "serve", "close", "open", "pics", "times", "pop"}
      /\ parserPc \in {"idle", "push", "stamp", "mark"}
      /\ showPc \in {"idle", "time", "queue"}
  BY Zenon
<1>. QED BY <1>2, <1>3, <1>4, <1>5, <1>6, <1>7
         DEF TypeOK, UnitInv, ParserInside

LEMMA ServerType == ASSUME TypeOK, UnitInv, Server PROVE TypeOK' /\ UnitInv'
<1> USE DEF Server, Clear, Accept, BoxRequest, Disconnect, RestartClose,
            RestartOpen, DrainPics, FirstAgain, DrainTimes, serveVars,
            parserVars, showVars, outVars
<1>1. decoder' \in [from : -1 .. MaxSessions, fed : BOOLEAN, ready : BOOLEAN,
                    fresh : BOOLEAN, pics : Seq(Units)]
  <2>1. CASE RestartClose
    <3>1. Closed = [from |-> -1, fed |-> FALSE, ready |-> FALSE,
                    fresh |-> FALSE, pics |-> <<>>]
      BY ClosedRecord
    <3>2. -1 \in -1 .. MaxSessions
      BY ConstantsAssumption
    <3>. QED BY <2>1, <3>1, <3>2
  <2>2. CASE RestartOpen
    BY <2>2, ConstantsAssumption DEF TypeOK, Opened
  <2>. QED BY <2>1, <2>2 DEF TypeOK
<1>2. mixed' \subseteq {"straggler", "staleStart"}
  BY DEF TypeOK, Mixing
<1>3. session' \in 0 .. MaxSessions
  BY ConstantsAssumption DEF TypeOK
<1>4. /\ servePc' \in {"accept", "serve", "close", "open", "pics", "times", "pop"}
      /\ can_send_box' \in BOOLEAN /\ isfirst' \in BOOLEAN
  BY DEF TypeOK
<1>5. /\ que_timestamp' \in Seq(Units)
      /\ pic_queue' \in Seq(Pic) /\ Len(pic_queue') <= 2
  <2>1. /\ \/ que_timestamp' = que_timestamp
           \/ que_timestamp # <<>> /\ que_timestamp' = Tail(que_timestamp)
        /\ pic_queue' \in {pic_queue, <<>>}
    <3>1. CASE DrainTimes
      BY <3>1 DEF DrainTimes
    <3>2. CASE ~DrainTimes
      BY <3>2 DEF Server, Clear
    <3>. QED BY <3>1, <3>2
  <2>2. /\ que_timestamp \in Seq(Units)
        /\ que_timestamp # <<>> => Tail(que_timestamp) \in Seq(Units)
        /\ pic_queue \in Seq(Pic) /\ Len(pic_queue) <= 2
        /\ <<>> \in Seq(Pic) /\ Len(<<>>) <= 2
    BY DEF TypeOK
  <2>. QED BY ONLY <2>1, <2>2, Zenon
<1>6. UNCHANGED <<codecType, parserVars, showVars, outVars, aborted>>
  OBVIOUS
<1>. QED BY ONLY TypeOK, UnitInv, <1>1, <1>2, <1>3, <1>4, <1>5, <1>6
         DEF TypeOK, UnitInv, ParserInside, parserVars, showVars, outVars

LEMMA ParserType == ASSUME TypeOK, UnitInv, Parser PROVE TypeOK' /\ UnitInv'
<1> USE ConstantsAssumption
<1>1. CASE Gate
  <2>1. /\ is_start' \in BOOLEAN /\ parserPc' \in {"idle", "push", "stamp", "mark"}
        /\ gate' \in 0 .. MaxSessions /\ unit' \in 0 .. MaxUnits
    <3>1. is_start' \in BOOLEAN
      BY <1>1, Zenon DEF Gate
    <3>2. /\ parserPc' \in {"idle", "push", "stamp", "mark"}
          /\ gate' \in {gate, session} /\ unit' \in {unit, unit + 1} /\ unit < MaxUnits
      BY <1>1 DEF Gate, TypeOK
    <3>3. /\ gate \in 0 .. MaxSessions /\ session \in 0 .. MaxSessions
          /\ unit \in 0 .. MaxUnits
      BY DEF TypeOK
    <3>. QED BY <3>1, <3>2, <3>3
  <2>2. UnitInv'
    BY <1>1 DEF Gate, TypeOK, UnitInv, ParserInside
  <2>3. UNCHANGED <<codecType, serveVars, isfirst, que_timestamp, decoder,
                    showVars, pic_queue, outVars, aborted, mixed>>
    BY <1>1 DEF Gate
  <2>. QED BY ONLY TypeOK, <2>1, <2>2, <2>3
           DEF TypeOK, serveVars, showVars, outVars
<1>2. CASE Push
  <2>1. unit \in Units
    BY <1>2 DEF Push, TypeOK, UnitInv, ParserInside, Units
  <2>2. decoder' \in [from : -1 .. MaxSessions, fed : BOOLEAN, ready : BOOLEAN,
                      fresh : BOOLEAN, pics : Seq(Units)]
    <3> DEFINE shows == decoder.ready /\ ~(codecType = "H264" /\ decoder.fresh)
    <3>1. /\ decoder.ready \in BOOLEAN /\ decoder.fresh \in BOOLEAN
          /\ decoder.pics \in Seq(Units)
      BY DEF TypeOK
    <3>2. (IF shows THEN Append(decoder.pics, unit) ELSE decoder.pics)
            \in Seq(Units)
      BY <2>1, <3>1
    <3>3. (decoder.fresh /\ ~decoder.ready) \in BOOLEAN
      BY Zenon
    <3> DEFINE p == IF shows THEN Append(decoder.pics, unit) ELSE decoder.pics
               f == decoder.fresh /\ ~decoder.ready
    <3>4. decoder' = IF decoder = Closed THEN Closed
                     ELSE IF IsParamSet(unit)
                     THEN [decoder EXCEPT !.ready = TRUE, !.fed = TRUE]
                     ELSE [decoder EXCEPT !.fed = TRUE, !.fresh = f, !.pics = p]
      BY <1>2 DEF Push
    <3> HIDE DEF p, f
    <3>5. p \in Seq(Units) /\ f \in BOOLEAN
      BY <3>2, <3>3 DEF p, f
    <3>. QED BY <3>4, <3>5 DEF TypeOK
  <2>3. parserPc' = "stamp" /\ parserPc = "push"
    BY <1>2 DEF Push
  <2>4. UNCHANGED <<codecType, serveVars, unit, gate, is_start, isfirst,
                    que_timestamp, showVars, pic_queue, outVars, aborted, mixed>>
    BY <1>2 DEF Push
  <2>. QED BY ONLY TypeOK, UnitInv, <2>2, <2>3, <2>4
           DEF TypeOK, UnitInv, ParserInside, serveVars, showVars, outVars
<1>3. CASE Stamp
  <2>1. /\ unit' \in 0 .. MaxUnits /\ parserPc' \in {"idle", "mark"}
        /\ parserPc' = "mark" => unit' = unit /\ unit < MaxUnits
    BY <1>3 DEF Stamp, TypeOK, UnitInv, ParserInside
  <2>2. isfirst' \in BOOLEAN
    BY <1>3 DEF Stamp, TypeOK
  <2>3. UNCHANGED <<codecType, serveVars, gate, is_start, que_timestamp, decoder,
                    showVars, pic_queue, outVars, aborted, mixed>>
    BY <1>3 DEF Stamp
  <2>. QED BY ONLY TypeOK, <2>1, <2>2, <2>3
           DEF TypeOK, UnitInv, ParserInside, serveVars, showVars, outVars
<1>4. CASE Mark
  <2>1. unit \in Units /\ unit + 1 \in 0 .. MaxUnits
    BY <1>4 DEF Mark, TypeOK, UnitInv, ParserInside, Units
  <2>2. que_timestamp' \in Seq(Units)
    BY <1>4, <2>1 DEF Mark, TypeOK
  <2>3. unit' = unit + 1 /\ parserPc' = "idle"
    BY <1>4 DEF Mark
  <2>4. UNCHANGED <<codecType, serveVars, gate, is_start, isfirst, decoder,
                    showVars, pic_queue, outVars, aborted, mixed>>
    BY <1>4 DEF Mark
  <2>. QED BY ONLY TypeOK, <2>1, <2>2, <2>3, <2>4
           DEF TypeOK, UnitInv, ParserInside, serveVars, showVars, outVars
<1>. QED BY <1>1, <1>2, <1>3, <1>4 DEF Parser

LEMMA ShowerType == ASSUME TypeOK, UnitInv, Shower PROVE TypeOK' /\ UnitInv'
<1> USE DEF serveVars, parserVars, outVars, showVars
<1>1. CASE Show
  <2>1. decoder.pics \in Seq(Units) /\ decoder.pics # <<>>
    BY <1>1, ConstantsAssumption DEF Show, TypeOK
  <2>2. Head(decoder.pics) \in Units /\ Tail(decoder.pics) \in Seq(Units)
    BY <2>1
  <2>3. decoder' \in [from : -1 .. MaxSessions, fed : BOOLEAN, ready : BOOLEAN,
                      fresh : BOOLEAN, pics : Seq(Units)]
    BY <1>1, <2>2 DEF Show, TypeOK
  <2>4. decoder.from \in -1 .. MaxSessions /\ -1 \in Units
    BY ConstantsAssumption DEF TypeOK, Units
  <2>5. shown' \in Pic /\ showPc' \in {"idle", "time", "queue"}
    BY <1>1, <2>2, <2>4 DEF Show, TypeOK, Pic
  <2>6. UNCHANGED <<codecType, serveVars, parserVars, isfirst, que_timestamp,
                    pic_queue, outVars, aborted, mixed>>
    BY <1>1 DEF Show
  <2>. QED BY ONLY TypeOK, UnitInv, <2>3, <2>5, <2>6
           DEF TypeOK, UnitInv, ParserInside, serveVars, parserVars, outVars
<1>2. CASE TakeTime
  <2>1. que_timestamp # <<>> =>
          /\ Head(que_timestamp) \in Units /\ Tail(que_timestamp) \in Seq(Units)
    BY DEF TypeOK
  <2>2. /\ shown' \in Pic /\ que_timestamp' \in Seq(Units)
        /\ showPc' \in {"idle", "time", "queue"} /\ aborted' \in BOOLEAN
    BY <1>2, <2>1 DEF TakeTime, TypeOK, Pic
  <2>3. UNCHANGED <<codecType, serveVars, parserVars, isfirst, decoder,
                    pic_queue, outVars, mixed>>
    BY <1>2 DEF TakeTime
  <2>. QED BY ONLY TypeOK, UnitInv, <2>2, <2>3
           DEF TypeOK, UnitInv, ParserInside, serveVars, parserVars, outVars
<1>3. CASE QueuePic
  <2>1. shown \in Pic /\ pic_queue \in Seq(Pic) /\ Len(pic_queue) <= 2
    BY DEF TypeOK
  <2>2. pic_queue' \in Seq(Pic) /\ Len(pic_queue') <= 2
    BY <1>3, <2>1 DEF QueuePic
  <2>3. shown' \in Pic /\ showPc' = "idle"
    BY <1>3, ConstantsAssumption DEF QueuePic, NoPic, Pic, Units
  <2>4. UNCHANGED <<codecType, serveVars, parserVars, isfirst, que_timestamp,
                    decoder, outVars, aborted, mixed>>
    BY <1>3 DEF QueuePic
  <2>. QED BY ONLY TypeOK, UnitInv, <2>2, <2>3, <2>4
           DEF TypeOK, UnitInv, ParserInside, serveVars, parserVars, outVars
<1>. QED BY <1>1, <1>2, <1>3 DEF Shower

LEMMA OutType == ASSUME TypeOK, UnitInv, Input \/ Answer PROVE TypeOK' /\ UnitInv'
<1>1. CASE Input
  <2>1. pic_queue \in Seq(Pic) /\ pic_queue # <<>> /\ Len(pic_queue) <= 2
    BY <1>1 DEF Input, TypeOK
  <2>2. Head(pic_queue) \in Pic /\ Tail(pic_queue) \in Seq(Pic)
          /\ Len(Tail(pic_queue)) <= 2
    BY <2>1
  <2>3. handed' \in Pic /\ pic_queue' \in Seq(Pic) /\ Len(pic_queue') <= 2
    BY <1>1, <2>2 DEF Input
  <2>4. handed'.from \in -1 .. MaxSessions
    BY <2>3 DEF Pic
  <2>5. device' \in Seq(-1 .. MaxSessions) /\ Len(device') <= HOLD
    <3>1. device' = Append(device, handed'.from) /\ Len(device) < HOLD
      BY <1>1 DEF Input
    <3>2. device \in Seq(-1 .. MaxSessions) /\ HOLD \in Nat
      BY ConstantsAssumption DEF TypeOK
    <3> DEFINE f == handed'.from
    <3>3. f \in -1 .. MaxSessions /\ device' = Append(device, f)
      BY <2>4, <3>1
    <3> HIDE DEF f
    <3>. QED BY <3>1, <3>2, <3>3
  <2>6. UNCHANGED <<codecType, serveVars, parserVars, isfirst, que_timestamp,
                    decoder, showVars, answered, aborted, mixed>>
    BY <1>1 DEF Input
  <2>. QED BY ONLY TypeOK, UnitInv, <2>3, <2>5, <2>6
           DEF TypeOK, UnitInv, ParserInside, serveVars, parserVars, showVars
<1>2. CASE Answer
  <2>1. device \in Seq(-1 .. MaxSessions) /\ device # <<>>
    BY <1>2 DEF Answer, TypeOK
  <2>2. Head(device) \in -1 .. MaxSessions /\ Tail(device) \in Seq(-1 .. MaxSessions)
          /\ Len(Tail(device)) <= Len(device)
    <3> DEFINE S == -1 .. MaxSessions
    <3>1. device \in Seq(S)
      BY <2>1
    <3> HIDE DEF S
    <3>2. Head(device) \in S /\ Tail(device) \in Seq(S)
            /\ Len(Tail(device)) <= Len(device)
      BY <2>1, <3>1
    <3>. QED BY <3>2 DEF S
  <2>3. device' \in Seq(-1 .. MaxSessions) /\ Len(device') <= HOLD
    BY <1>2, <2>1, <2>2, ConstantsAssumption DEF Answer, TypeOK
  <2>4. answered' \in [to : 0 .. MaxSessions, from : -1 .. MaxSessions]
    BY <1>2, <2>2 DEF Answer, TypeOK
  <2>5. UNCHANGED <<codecType, serveVars, parserVars, isfirst, que_timestamp,
                    decoder, showVars, pic_queue, handed, aborted, mixed>>
    BY <1>2 DEF Answer
  <2>. QED BY ONLY TypeOK, UnitInv, <2>3, <2>4, <2>5
           DEF TypeOK, UnitInv, ParserInside, serveVars, parserVars, showVars
<1>. QED BY <1>1, <1>2

LEMMA StutterType == ASSUME TypeOK, UnitInv, UNCHANGED vars PROVE TypeOK' /\ UnitInv'
BY DEF TypeOK, UnitInv, ParserInside, vars, serveVars, parserVars, showVars, outVars

LEMMA TypeInv == TypeOK /\ UnitInv /\ [Next]_vars => TypeOK' /\ UnitInv'
BY ServerType, ParserType, ShowerType, OutType, StutterType DEF Next

-----------------------------------------------------------------------------
(* Sessions.                                                               *)

(* The session of the decoder in use, once session s is over clear().      *)
Home(s) == IF s > 1 THEN s ELSE 0

(* Who may be inside the pipeline in which phase of receive_thread, and    *)
(* whose decoder and pictures there are then.                              *)
SessionInv ==
  /\ can_send_box => servePc = "serve"
  /\ servePc = "serve" => session > 0
  /\ gate <= session
  /\ Clearing => session > 1 /\ (ParserInside => gate < session)
  /\ servePc \in {"open", "pics", "times", "pop"} => showPc = "idle"
  /\ servePc = "open" => decoder = Closed
  /\ servePc \in {"accept", "serve"} => decoder.from = Home(session)
  /\ servePc = "close" => decoder.from = Home(session - 1)
  /\ servePc \in {"pics", "times", "pop"} => decoder.from = session
  /\ showPc # "idle" => shown.from = decoder.from
  /\ servePc \in {"times", "pop", "serve", "accept"} /\ session > 1 =>
       \A i \in DOMAIN pic_queue : pic_queue[i].from = session

LEMMA InitSession == Init => SessionInv
BY DEF Init, SessionInv, Clearing, Home, Opened, ParserInside

LEMMA ServerSession == ASSUME TypeOK, SessionInv, Server PROVE SessionInv'
<1> USE DEF serveVars, parserVars, showVars, outVars, Clearing, ParserInside
<1>0. session \in Nat /\ gate \in Nat
  BY DEF TypeOK
<1>1. CASE Accept
  BY <1>0, <1>1 DEF Accept, SessionInv, Home
<1>2. CASE BoxRequest \/ Disconnect
  BY <1>0, <1>2 DEF BoxRequest, Disconnect, SessionInv
<1>3. CASE RestartClose
  BY <1>0, <1>3 DEF RestartClose, SessionInv
<1>4. CASE RestartOpen
  BY <1>0, <1>4 DEF RestartOpen, SessionInv, Opened
<1>5. CASE DrainPics
  BY <1>0, <1>5 DEF DrainPics, SessionInv
<1>6. CASE FirstAgain \/ DrainTimes
  BY <1>0, <1>6 DEF FirstAgain, DrainTimes, SessionInv, Home
<1>. QED BY <1>1, <1>2, <1>3, <1>4, <1>5, <1>6 DEF Server, Clear

(* A push leaves the decoder whose it was, or closed.                      *)
LEMMA PushKeepsDecoder ==
  ASSUME TypeOK, Push
  PROVE  decoder'.from = decoder.from /\ (decoder = Closed => decoder' = Closed)
<1>1. CASE decoder = Closed
  BY <1>1 DEF Push
<1>2. CASE decoder # Closed
  BY <1>2 DEF Push, TypeOK
<1>. QED BY <1>1, <1>2

LEMMA ParserSession == ASSUME TypeOK, SessionInv, Parser PROVE SessionInv'
<1> USE DEF serveVars, parserVars, showVars, outVars, Clearing, ParserInside
<1>0. session \in Nat /\ gate \in Nat
  BY DEF TypeOK
<1>1. CASE Gate
  <2>1. UNCHANGED <<can_send_box, servePc, session, decoder, showPc, shown,
                    pic_queue>>
    BY <1>1 DEF Gate
  <2>2. parserPc = "idle" /\ (gate' = gate \/ gate' = session)
    BY <1>1 DEF Gate
  <2>3. Clearing => parserPc' = "idle"
    BY <1>1 DEF Gate, SessionInv
  <2>. QED BY ONLY SessionInv, <1>0, <2>1, <2>2, <2>3
           DEF SessionInv, Clearing, ParserInside
<1>2. CASE Push
  <2>1. decoder'.from = decoder.from /\ (decoder = Closed => decoder' = Closed)
    BY <1>2, PushKeepsDecoder
  <2>2. parserPc = "push" /\ parserPc' = "stamp"
        /\ UNCHANGED <<can_send_box, servePc, session, gate, showPc, shown, pic_queue>>
    BY <1>2 DEF Push
  <2>. QED BY ONLY SessionInv, <2>1, <2>2 DEF SessionInv, Clearing, ParserInside
<1>3. CASE Stamp \/ Mark
  BY <1>0, <1>3 DEF Stamp, Mark, SessionInv
<1>. QED BY <1>1, <1>2, <1>3 DEF Parser

LEMMA ShowerSession == ASSUME TypeOK, SessionInv, Shower PROVE SessionInv'
<1> USE DEF serveVars, parserVars, outVars, showVars, Clearing, ParserInside
<1>1. CASE Show
  <2>1. decoder'.from = decoder.from /\ decoder # Closed
    BY <1>1, ConstantsAssumption, ClosedRecord DEF Show, TypeOK
  <2>2. can_send_box => servePc = "serve"
    BY DEF SessionInv
  <2>. QED BY <1>1, <2>1, <2>2 DEF Show, SessionInv
<1>2. CASE TakeTime
  <2>1. shown'.from = shown.from /\ showPc = "time"
    BY <1>2 DEF TakeTime, TypeOK, Pic
  <2>2. UNCHANGED <<can_send_box, servePc, session, gate, parserPc, decoder,
                    pic_queue>>
    BY <1>2 DEF TakeTime
  <2>3. showPc # "idle" /\ servePc \notin {"open", "pics", "times", "pop"}
    BY <2>1 DEF SessionInv
  <2>. QED BY ONLY SessionInv, <2>1, <2>2, <2>3
           DEF SessionInv, Clearing, ParserInside
<1>3. CASE QueuePic
  <2>1. showPc = "queue" /\ showPc' = "idle"
        /\ UNCHANGED <<can_send_box, servePc, session, gate, parserPc, decoder>>
    BY <1>3 DEF QueuePic
  <2>2. ASSUME servePc \in {"times", "pop", "serve", "accept"}, session > 1
        PROVE  \A i \in DOMAIN pic_queue' : pic_queue'[i].from = session
    <3>1. shown.from = session
      BY <2>1, <2>2 DEF SessionInv, Home
    <3>2. \A i \in DOMAIN pic_queue : pic_queue[i].from = session
      BY <2>2 DEF SessionInv
    <3>3. pic_queue \in Seq(Pic) /\ shown \in Pic
      BY DEF TypeOK
    <3>4. pic_queue' = Append(IF Len(pic_queue) > 1 THEN Tail(pic_queue)
                                                    ELSE pic_queue, shown)
      BY <1>3 DEF QueuePic
    <3>. QED BY <3>1, <3>2, <3>3, <3>4
  <2>. QED BY ONLY SessionInv, <2>1, <2>2 DEF SessionInv, Clearing, ParserInside
<1>. QED BY <1>1, <1>2, <1>3 DEF Shower

LEMMA OutSession == ASSUME TypeOK, SessionInv, Input \/ Answer PROVE SessionInv'
<1>1. UNCHANGED <<can_send_box, servePc, session, gate, parserPc, decoder,
                  showPc, shown>>
  BY DEF Input, Answer, serveVars, parserVars, showVars
<1>2. ASSUME servePc \in {"times", "pop", "serve", "accept"}, session > 1
      PROVE  \A i \in DOMAIN pic_queue' : pic_queue'[i].from = session
  <2>1. pic_queue \in Seq(Pic) /\ \A i \in DOMAIN pic_queue : pic_queue[i].from = session
    BY <1>2 DEF SessionInv, TypeOK
  <2>2. pic_queue' = pic_queue \/ (pic_queue # <<>> /\ pic_queue' = Tail(pic_queue))
    BY DEF Input, Answer
  <2>. QED BY <2>1, <2>2
<1>. QED BY ONLY SessionInv, <1>1, <1>2 DEF SessionInv, Clearing, ParserInside

LEMMA SessionStep == TypeOK /\ SessionInv /\ [Next]_vars => SessionInv'
<1>1. ASSUME SessionInv, UNCHANGED vars PROVE SessionInv'
  BY <1>1 DEF SessionInv, Clearing, ParserInside, vars, serveVars, parserVars,
              showVars, outVars
<1>. QED BY <1>1, ServerSession, ParserSession, ShowerSession, OutSession DEF Next

-----------------------------------------------------------------------------
(* The order of the sessions in the device.                                *)

(* The session of the newest picture there may be.                         *)
Latest == IF servePc = "open" THEN session ELSE decoder.from

(* No picture is behind one of a later session: from the last answer over  *)
(* the device to the queue.                                                *)
FlowInv ==
  /\ answered.from <= Latest
  /\ \A i \in DOMAIN device : answered.from <= device[i] /\ device[i] <= Latest
  /\ \A i, j \in DOMAIN device : i <= j => device[i] <= device[j]
  /\ \A i \in DOMAIN pic_queue :
       /\ answered.from <= pic_queue[i].from /\ pic_queue[i].from <= Latest
       /\ \A j \in DOMAIN device : device[j] <= pic_queue[i].from
  /\ \A i, j \in DOMAIN pic_queue :
       i <= j => pic_queue[i].from <= pic_queue[j].from

LEMMA InitFlow == Init => FlowInv
BY DEF Init, FlowInv, Latest, Opened, NoAnswer

(* What FlowInv needs of the types.                                        *)
Owners == -1 .. MaxSessions
Flows  == /\ device \in Seq(Owners) /\ pic_queue \in Seq(Pic) /\ shown \in Pic
          /\ answered.from \in Int /\ Latest \in Int
          /\ \A s \in Owners : s \in Int
          /\ \A p \in Pic : p.from \in Owners

LEMMA FlowTypes == TypeOK => Flows
<1> SUFFICES ASSUME TypeOK PROVE Flows
  OBVIOUS
<1>1. \A s \in Owners : s \in Int
  BY DEF Owners
<1>2. /\ device \in Seq(Owners) /\ pic_queue \in Seq(Pic) /\ shown \in Pic
      /\ \A p \in Pic : p.from \in Owners
  BY DEF TypeOK, Owners, Pic
<1>3. answered.from \in Int /\ Latest \in Int
  BY ConstantsAssumption DEF TypeOK, Latest
<1>. QED BY <1>1, <1>2, <1>3 DEF Flows

LEMMA FlowTypesPrime == TypeOK' => Flows'
BY FlowTypes, PTL

LEMMA LatestGrows ==
  ASSUME TypeOK, SessionInv, Next PROVE Latest <= Latest'
<1> USE DEF serveVars
<1>0. session \in Nat /\ decoder.from \in Int
  BY ConstantsAssumption DEF TypeOK
<1>1. CASE RestartClose
  <2>1. Clearing => session > 1
    BY DEF SessionInv
  <2>. QED BY <1>0, <1>1, <2>1 DEF RestartClose, SessionInv, Latest, Home, Clearing
<1>2. CASE RestartOpen
  BY <1>0, <1>2 DEF RestartOpen, Latest, Opened
<1>3. CASE Push
  BY <1>0, <1>3, PushKeepsDecoder DEF Push, Latest
<1>4. CASE Show
  BY <1>0, <1>4 DEF Show, Latest, TypeOK
<1>5. CASE Accept \/ BoxRequest \/ Disconnect \/ DrainPics \/ FirstAgain \/ DrainTimes
  BY <1>0, <1>5 DEF Accept, BoxRequest, Disconnect, DrainPics, FirstAgain, DrainTimes,
                    Latest
<1>6. CASE Gate \/ Stamp \/ Mark \/ TakeTime \/ QueuePic \/ Input \/ Answer
  BY <1>0, <1>6 DEF Gate, Stamp, Mark, TakeTime, QueuePic, Input, Answer, Latest
<1>. QED BY <1>1, <1>2, <1>3, <1>4, <1>5, <1>6
         DEF Next, Server, Clear, Parser, Shower

LEMMA FlowStep == TypeOK /\ TypeOK' /\ SessionInv /\ FlowInv /\ [Next]_vars => FlowInv'
<1> SUFFICES ASSUME TypeOK, TypeOK', SessionInv, FlowInv, [Next]_vars
             PROVE  FlowInv'
  OBVIOUS
<1>0. Flows /\ Flows'
  BY FlowTypes, FlowTypesPrime
<1>1. Latest <= Latest'
  <2>1. CASE UNCHANGED vars
    BY <1>0, <2>1 DEF Flows, vars, serveVars, Latest
  <2>. QED BY <2>1, LatestGrows
<1>2. CASE UNCHANGED <<device, pic_queue, answered>>
  BY <1>0, <1>1, <1>2 DEF Flows, FlowInv
<1>3. CASE DrainPics
  <2>1. pic_queue' = <<>> /\ device' = device /\ answered' = answered
    BY <1>3 DEF DrainPics, outVars
  <2>. QED BY <1>0, <1>1, <2>1 DEF Flows, FlowInv
<1>4. CASE QueuePic
  <2>1. /\ showPc = "queue" /\ device' = device /\ answered' = answered
        /\ pic_queue' = Append(IF Len(pic_queue) > 1 THEN Tail(pic_queue)
                                                     ELSE pic_queue, shown)
    BY <1>4 DEF QueuePic, outVars
  <2>2. shown.from = Latest
    BY <2>1 DEF SessionInv, Latest
  <2> DEFINE kept == IF Len(pic_queue) > 1 THEN Tail(pic_queue) ELSE pic_queue
  <2>3. /\ kept \in Seq(Pic)
        /\ \A i \in DOMAIN kept :
             /\ answered.from <= kept[i].from /\ kept[i].from <= Latest
             /\ \A j \in DOMAIN device : device[j] <= kept[i].from
             /\ \A j \in DOMAIN kept : i <= j => kept[i].from <= kept[j].from
    <3>1. CASE Len(pic_queue) > 1
      <4>1. /\ kept \in Seq(Pic) /\ DOMAIN kept = 1 .. Len(pic_queue) - 1
            /\ \A i \in DOMAIN kept : /\ kept[i] = pic_queue[i + 1]
                                      /\ i + 1 \in DOMAIN pic_queue
        BY <1>0, <3>1 DEF Flows
      <4> HIDE DEF kept
      <4>. QED BY <4>1 DEF FlowInv
    <3>2. CASE ~(Len(pic_queue) > 1)
      BY <1>0, <3>2 DEF Flows, FlowInv
    <3>. QED BY <3>1, <3>2
  <2>4. pic_queue' = Append(kept, shown)
    BY <2>1
  <2> HIDE DEF kept
  <2>5. /\ DOMAIN pic_queue' = 1 .. Len(kept) + 1 /\ DOMAIN kept = 1 .. Len(kept)
        /\ \A i \in DOMAIN kept : pic_queue'[i] = kept[i]
        /\ pic_queue'[Len(kept) + 1] = shown
    BY <1>0, <2>3, <2>4 DEF Flows
  <2>6. \A i \in DOMAIN pic_queue' :
          /\ answered.from <= pic_queue'[i].from /\ pic_queue'[i].from <= Latest
          /\ \A j \in DOMAIN device : device[j] <= pic_queue'[i].from
    <3> TAKE i \in DOMAIN pic_queue'
    <3>1. CASE i \in DOMAIN kept
      BY <2>3, <2>5, <3>1
    <3>2. CASE i = Len(kept) + 1
      BY <1>0, <2>2, <2>5, <3>2 DEF Flows, FlowInv
    <3>. QED BY <2>3, <2>5, <3>1, <3>2
  <2>7. \A i, j \in DOMAIN pic_queue' :
          i <= j => pic_queue'[i].from <= pic_queue'[j].from
    <3> TAKE i, j \in DOMAIN pic_queue'
    <3> HAVE i <= j
    <3>1. CASE j \in DOMAIN kept
      <4>1. i \in DOMAIN kept
        BY <2>3, <2>5, <3>1
      <4>. QED BY <2>3, <2>5, <3>1, <4>1
    <3>2. CASE j = Len(kept) + 1 /\ i \in DOMAIN kept
      BY <2>2, <2>3, <2>5, <3>2
    <3>3. CASE j = Len(kept) + 1 /\ i = j
      BY <1>0, <2>5, <3>3 DEF Flows
    <3>. QED BY <2>3, <2>5, <3>1, <3>2, <3>3
  <2>. QED BY <1>0, <1>1, <2>1, <2>6, <2>7 DEF Flows, FlowInv
<1>5. CASE Input
  <2>1. /\ pic_queue # <<>> /\ answered' = answered
        /\ pic_queue' = Tail(pic_queue)
        /\ device' = Append(device, pic_queue[1].from)
    BY <1>5 DEF Input
  <2>2. /\ DOMAIN pic_queue = 1 .. Len(pic_queue) /\ 1 \in DOMAIN pic_queue
        /\ DOMAIN pic_queue' = 1 .. Len(pic_queue) - 1
        /\ \A i \in DOMAIN pic_queue' : /\ pic_queue'[i] = pic_queue[i + 1]
                                        /\ i + 1 \in DOMAIN pic_queue
        /\ pic_queue[1].from \in Int
    BY <1>0, <2>1 DEF Flows
  <2>3. /\ DOMAIN device = 1 .. Len(device)
        /\ DOMAIN device' = 1 .. Len(device) + 1
        /\ \A i \in DOMAIN device : device'[i] = device[i]
        /\ device'[Len(device) + 1] = pic_queue[1].from
    BY <1>0, <2>1, <2>2 DEF Flows
  <2> DEFINE first == pic_queue[1].from
             last  == Len(device) + 1
  <2>6. /\ answered.from <= first /\ first <= Latest
        /\ \A j \in DOMAIN device : device[j] <= first
        /\ \A j \in DOMAIN pic_queue' : first <= pic_queue'[j].from
    <3>1. \A j \in DOMAIN pic_queue : 1 <= j
      BY <2>2
    <3>. QED BY <2>2, <3>1 DEF FlowInv
  <2>4. \A i \in DOMAIN device' :
          /\ answered.from <= device'[i] /\ device'[i] <= Latest
          /\ \A j \in DOMAIN device' : i <= j => device'[i] <= device'[j]
          /\ \A j \in DOMAIN pic_queue' : device'[i] <= pic_queue'[j].from
    <3> TAKE i \in DOMAIN device'
    <3>1. CASE i \in DOMAIN device
      <4>1. answered.from <= device[i] /\ device[i] <= Latest /\ device'[i] = device[i]
        BY <2>3, <3>1 DEF FlowInv
      <4>2. \A j \in DOMAIN device : i <= j => device[i] <= device[j]
        BY <3>1 DEF FlowInv
      <4>3. \A j \in DOMAIN device' : i <= j => device[i] <= device'[j]
        BY <2>3, <2>6, <3>1, <4>2
      <4>4. \A j \in DOMAIN pic_queue' : device[i] <= pic_queue'[j].from
        BY <2>2, <3>1 DEF FlowInv
      <4>. QED BY <4>1, <4>3, <4>4
    <3>2. CASE i = last
      <4>1. \A j \in DOMAIN device' : i <= j => j = last
        BY <2>3, <3>2
      <4>2. device'[i] = first /\ first \in Int
        BY <2>2, <2>3, <3>2
      <4> HIDE DEF first, last
      <4>. QED BY <2>6, <3>2, <4>1, <4>2
    <3>. QED BY <2>3, <3>1, <3>2
  <2>5. \A i \in DOMAIN pic_queue' :
          /\ answered.from <= pic_queue'[i].from /\ pic_queue'[i].from <= Latest
          /\ \A j \in DOMAIN pic_queue' :
               i <= j => pic_queue'[i].from <= pic_queue'[j].from
    BY <2>2 DEF FlowInv
  <2>7. Latest' = Latest
    BY <1>5 DEF Input, Latest, serveVars
  <2>. QED BY ONLY FlowInv, <2>1, <2>4, <2>5, <2>7 DEF FlowInv
<1>6. CASE Answer
  <2>1. /\ device # <<>> /\ device' = Tail(device) /\ pic_queue' = pic_queue
        /\ answered'.from \in {device[1], answered.from}
    BY <1>6 DEF Answer
  <2>2. /\ 1 \in DOMAIN device /\ DOMAIN device = 1 .. Len(device)
        /\ DOMAIN device' = 1 .. Len(device) - 1
        /\ \A i \in DOMAIN device' : /\ device'[i] = device[i + 1]
                                     /\ i + 1 \in DOMAIN device
        /\ \A i \in DOMAIN device : 1 <= i /\ device[i] \in Int
    BY <1>0, <2>1 DEF Flows
  <2>3. /\ answered'.from <= Latest
        /\ \A i \in DOMAIN device : answered'.from <= device[i]
        /\ \A i \in DOMAIN pic_queue : answered'.from <= pic_queue[i].from
    BY <2>1, <2>2 DEF FlowInv
  <2>4. \A i \in DOMAIN device' :
          /\ answered'.from <= device'[i] /\ device'[i] <= Latest
          /\ \A j \in DOMAIN device' : i <= j => device'[i] <= device'[j]
          /\ \A j \in DOMAIN pic_queue : device'[i] <= pic_queue[j].from
    BY <2>2, <2>3 DEF FlowInv
  <2>5. Latest' = Latest
    BY <1>6 DEF Answer, Latest, serveVars
  <2>. QED BY <2>1, <2>3, <2>4, <2>5 DEF FlowInv
<1>7. CASE UNCHANGED vars
  BY <1>2, <1>7 DEF vars, outVars
<1>8. CASE \/ Accept \/ BoxRequest \/ Disconnect \/ RestartClose \/ RestartOpen
           \/ FirstAgain \/ DrainTimes \/ Parser \/ Show \/ TakeTime
  BY <1>2, <1>8 DEF Accept, BoxRequest, Disconnect, RestartClose, RestartOpen,
       FirstAgain, DrainTimes, Parser, Gate, Push, Stamp, Mark, Show, TakeTime,
       outVars
<1>. QED BY <1>3, <1>4, <1>5, <1>6, <1>7, <1>8 DEF Next, Server, Clear, Shower

-----------------------------------------------------------------------------
(* The order of the frames on their way to the FPGA.                       *)

(* The first frame the decoder has not been given yet.                     *)
Pushed == IF parserPc \in {"stamp", "mark"} THEN unit + 1 ELSE unit

(* handed, the queue, the picture being made, the decoder: frames rise.    *)
FrameInv ==
  /\ handed.frame < Pushed
  /\ \A i \in DOMAIN decoder.pics :
       /\ handed.frame < decoder.pics[i] /\ decoder.pics[i] < Pushed
       /\ \A j \in DOMAIN decoder.pics : i < j => decoder.pics[i] < decoder.pics[j]
       /\ \A j \in DOMAIN pic_queue : pic_queue[j].frame < decoder.pics[i]
       /\ showPc # "idle" => shown.frame < decoder.pics[i]
  /\ \A i \in DOMAIN pic_queue :
       /\ handed.frame < pic_queue[i].frame /\ pic_queue[i].frame < Pushed
       /\ \A j \in DOMAIN pic_queue : i < j => pic_queue[i].frame < pic_queue[j].frame
       /\ showPc # "idle" => pic_queue[i].frame < shown.frame
  /\ showPc # "idle" => handed.frame < shown.frame /\ shown.frame < Pushed

LEMMA InitFrame == Init => FrameInv
BY DEF Init, FrameInv, Pushed, Opened, NoPic

(* What FrameInv needs of the types.                                       *)
Frames == /\ decoder.pics \in Seq(Units) /\ pic_queue \in Seq(Pic)
          /\ handed \in Pic /\ shown \in Pic /\ unit \in Nat
          /\ \A u \in Units : u \in Int
          /\ \A p \in Pic : p.frame \in Units

LEMMA FrameTypes == TypeOK => Frames
<1>1. \A u \in Units : u \in Int
  BY DEF Units
<1>2. \A p \in Pic : p.frame \in Units
  BY DEF Pic
<1>. QED BY <1>1, <1>2 DEF TypeOK, Frames

(* The steps that only drop pictures or move the parser on.                *)
LEMMA FrameDrop ==
  ASSUME Frames, FrameInv, Pushed <= Pushed', Pushed' \in Int,
         decoder'.pics = decoder.pics \/ decoder'.pics = <<>>,
         pic_queue' = pic_queue \/ pic_queue' = <<>>,
         UNCHANGED <<handed, showPc>>, shown'.frame = shown.frame
  PROVE  FrameInv'
<1>1. Pushed \in Int
  BY DEF Frames, Pushed
<1>2. CASE decoder'.pics = decoder.pics /\ pic_queue' = pic_queue
  BY <1>1, <1>2 DEF Frames, FrameInv
<1>3. CASE decoder'.pics = <<>> /\ pic_queue' = pic_queue
  BY <1>1, <1>3 DEF Frames, FrameInv
<1>4. CASE decoder'.pics = decoder.pics /\ pic_queue' = <<>>
  BY <1>1, <1>4 DEF Frames, FrameInv
<1>5. CASE decoder'.pics = <<>> /\ pic_queue' = <<>>
  BY <1>1, <1>5 DEF Frames, FrameInv
<1>. QED BY <1>2, <1>3, <1>4, <1>5

LEMMA FrameStep == TypeOK /\ FrameInv /\ [Next]_vars => FrameInv'
<1> SUFFICES ASSUME TypeOK, FrameInv, [Next]_vars PROVE FrameInv'
  OBVIOUS
<1>0. Frames /\ Pushed \in Int
  BY FrameTypes DEF Frames, Pushed
<1>1. CASE Server \/ Gate \/ Stamp \/ Mark \/ TakeTime \/ Answer \/ UNCHANGED vars
  <2> USE DEF Server, Clear, Accept, BoxRequest, Disconnect, RestartClose,
              RestartOpen, DrainPics, FirstAgain, DrainTimes, Gate, Stamp, Mark,
              TakeTime, Answer, vars, parserVars, showVars, outVars
  <2>1. UNCHANGED <<handed, showPc>> \/ TakeTime
    BY <1>1
  <2>2. decoder'.pics = decoder.pics \/ decoder'.pics = <<>>
    BY <1>1, ClosedRecord DEF Opened
  <2>3. pic_queue' = pic_queue \/ pic_queue' = <<>>
    BY <1>1
  <2>4. Pushed <= Pushed' /\ Pushed' \in Int
    BY <1>0, <1>1 DEF Frames, Pushed
  <2>5. shown'.frame = shown.frame
    BY <1>0, <1>1 DEF Frames, Pic
  <2>6. CASE ~TakeTime
    BY ONLY <1>0, <2>1, <2>2, <2>3, <2>4, <2>5, <2>6, FrameInv, FrameDrop
  <2>7. CASE TakeTime
    <3>1. /\ showPc = "time" /\ decoder' = decoder /\ pic_queue' = pic_queue
          /\ handed' = handed /\ Pushed' = Pushed
      BY <2>7 DEF Pushed
    <3>. QED BY ONLY <2>5, <3>1, FrameInv DEF FrameInv
  <2>. QED BY <2>6, <2>7
<1>2. CASE Push
  <2>1. /\ decoder'.pics \in {decoder.pics, <<>>, Append(decoder.pics, unit)}
        /\ UNCHANGED <<handed, showPc, shown, pic_queue, unit>>
        /\ Pushed = unit /\ Pushed' = unit + 1
    BY <1>2, ClosedRecord DEF Push, TypeOK, showVars, outVars, Pushed
  <2>2. CASE decoder'.pics = decoder.pics \/ decoder'.pics = <<>>
    BY <1>0, <2>1, <2>2, FrameDrop DEF Frames
  <2>3. CASE decoder'.pics = Append(decoder.pics, unit)
    <3> DEFINE new == decoder'.pics
               old == decoder.pics
    <3>1. /\ DOMAIN old = 1 .. Len(old) /\ DOMAIN new = 1 .. Len(old) + 1
          /\ new[Len(old) + 1] = unit /\ \A i \in DOMAIN old : new[i] = old[i]
      BY <1>0, <2>3 DEF Frames
    <3>2. /\ handed.frame < unit
          /\ \A i \in DOMAIN old : old[i] < unit
          /\ \A i \in DOMAIN pic_queue : pic_queue[i].frame < unit
          /\ showPc # "idle" => shown.frame < unit
      BY <2>1 DEF FrameInv
    <3>3. \A i \in DOMAIN new :
            /\ handed.frame < new[i] /\ new[i] < unit + 1
            /\ \A j \in DOMAIN new : i < j => new[i] < new[j]
            /\ \A j \in DOMAIN pic_queue : pic_queue[j].frame < new[i]
            /\ showPc # "idle" => shown.frame < new[i]
      <4> TAKE i \in DOMAIN new
      <4>1. CASE i \in DOMAIN old
        <5>1. \A j \in DOMAIN new : i < j => new[i] < new[j]
          BY <3>1, <3>2, <4>1 DEF FrameInv
        <5>2. new[i] = old[i] /\ old[i] < unit + 1
          <6>1. old[i] \in Int
            BY <1>0, <4>1 DEF Frames
          <6>. QED BY <1>0, <3>1, <3>2, <4>1, <6>1 DEF Frames
        <5>. QED BY <4>1, <5>1, <5>2 DEF FrameInv
      <4>2. CASE i = Len(old) + 1
        <5>1. \A j \in DOMAIN new : ~(i < j)
          BY <3>1, <4>2
        <5>2. new[i] = unit /\ unit < unit + 1
          BY <1>0, <3>1, <4>2 DEF Frames
        <5>. QED BY <3>2, <5>1, <5>2
      <4>. QED BY <3>1, <4>1, <4>2
    <3> HIDE DEF new, old
    <3>4. /\ handed.frame < unit + 1
          /\ \A i \in DOMAIN pic_queue : pic_queue[i].frame < unit + 1
          /\ showPc # "idle" => shown.frame < unit + 1
      BY <1>0, <3>2 DEF Frames
    <3>. QED BY <2>1, <3>3, <3>4 DEF FrameInv, new
  <2>. QED BY <2>1, <2>2, <2>3
<1>3. CASE Show
  <2> DEFINE new == decoder'.pics
             old == decoder.pics
  <2>1. /\ old # <<>> /\ new = Tail(old) /\ showPc = "idle"
        /\ UNCHANGED <<handed, pic_queue>> /\ Pushed' = Pushed
        /\ showPc' # "idle" => shown'.frame = old[1]
    <3>1. old \in Seq(Units) /\ Len(old) > DELAY
      BY <1>0, <1>3 DEF Show, Frames
    <3>2. old # <<>>
      BY <3>1, ConstantsAssumption
    <3>3. new = Tail(old)
      BY <1>3 DEF Show, TypeOK
    <3>4. /\ showPc = "idle" /\ UNCHANGED <<handed, pic_queue>>
          /\ Pushed' = Pushed
      BY <1>3 DEF Show, parserVars, outVars, Pushed
    <3>5. showPc' # "idle" => shown'.frame = Head(old)
      BY <1>3 DEF Show, showVars
    <3> HIDE DEF old, new
    <3>. QED BY <3>2, <3>3, <3>4, <3>5
  <2>2. /\ 1 \in DOMAIN old /\ \A i \in DOMAIN new : /\ i + 1 \in DOMAIN old
                                                     /\ new[i] = old[i + 1]
                                                     /\ 1 < i + 1
        /\ DOMAIN new \subseteq Nat
    BY <1>0, <2>1 DEF Frames
  <2>3. \A i \in DOMAIN new :
            /\ handed.frame < new[i] /\ new[i] < Pushed
            /\ \A j \in DOMAIN new : i < j => new[i] < new[j]
            /\ \A j \in DOMAIN pic_queue : pic_queue[j].frame < new[i]
            /\ old[1] < new[i]
    BY <2>2 DEF FrameInv
  <2>4. /\ handed.frame < old[1] /\ old[1] < Pushed
        /\ \A j \in DOMAIN pic_queue : pic_queue[j].frame < old[1]
    BY <2>2 DEF FrameInv
  <2> HIDE DEF old
  <2>. QED BY <2>1, <2>3, <2>4 DEF FrameInv
<1>4. CASE QueuePic
  <2>1. /\ showPc = "queue" /\ showPc' = "idle" /\ Pushed' = Pushed
        /\ UNCHANGED <<handed, decoder>>
        /\ pic_queue' = Append(IF Len(pic_queue) > 1 THEN Tail(pic_queue)
                                                     ELSE pic_queue, shown)
    BY <1>4 DEF QueuePic, parserVars, outVars, Pushed
  <2> DEFINE kept == IF Len(pic_queue) > 1 THEN Tail(pic_queue) ELSE pic_queue
  <2>2. /\ kept \in Seq(Pic)
        /\ \A i \in DOMAIN kept :
             /\ handed.frame < kept[i].frame /\ kept[i].frame < Pushed
             /\ \A j \in DOMAIN kept : i < j => kept[i].frame < kept[j].frame
             /\ \A j \in DOMAIN decoder.pics : kept[i].frame < decoder.pics[j]
             /\ kept[i].frame < shown.frame
    <3>1. CASE Len(pic_queue) > 1
      <4>1. /\ kept \in Seq(Pic) /\ DOMAIN kept = 1 .. Len(pic_queue) - 1
            /\ \A i \in DOMAIN kept : /\ kept[i] = pic_queue[i + 1]
                                      /\ i + 1 \in DOMAIN pic_queue
        BY <1>0, <3>1 DEF Frames
      <4> HIDE DEF kept
      <4>. QED BY <2>1, <4>1 DEF FrameInv
    <3>2. CASE ~(Len(pic_queue) > 1)
      <4>1. kept = pic_queue /\ pic_queue \in Seq(Pic)
        BY <1>0, <3>2 DEF Frames
      <4> HIDE DEF kept
      <4>. QED BY <2>1, <4>1 DEF FrameInv
    <3>. QED BY <3>1, <3>2
  <2>3. pic_queue' = Append(kept, shown)
    BY <2>1
  <2> HIDE DEF kept
  <2> DEFINE last == Len(kept) + 1
  <2>4. /\ DOMAIN kept = 1 .. Len(kept) /\ DOMAIN pic_queue' = 1 .. last
        /\ \A i \in DOMAIN kept : pic_queue'[i] = kept[i] /\ i < last
        /\ pic_queue'[last] = shown
    BY <1>0, <2>2, <2>3 DEF Frames
  <2>5. \A i \in DOMAIN pic_queue' : i \in DOMAIN kept \/ i = last
    BY <2>4
  <2>6. \A j \in DOMAIN pic_queue' : ~(last < j)
    BY <2>4
  <2>7. /\ handed.frame < shown.frame /\ shown.frame < Pushed
        /\ \A j \in DOMAIN decoder.pics : shown.frame < decoder.pics[j]
    BY <2>1 DEF FrameInv
  <2> HIDE DEF last
  <2>8. \A i \in DOMAIN pic_queue' :
          /\ handed.frame < pic_queue'[i].frame /\ pic_queue'[i].frame < Pushed
          /\ \A j \in DOMAIN pic_queue' :
               i < j => pic_queue'[i].frame < pic_queue'[j].frame
          /\ \A j \in DOMAIN decoder.pics : pic_queue'[i].frame < decoder.pics[j]
    BY <2>2, <2>4, <2>5, <2>6, <2>7
  <2>. QED BY <2>1, <2>8 DEF FrameInv
<1>5. CASE Input
  <2>1. /\ pic_queue # <<>> /\ pic_queue' = Tail(pic_queue)
        /\ handed' = pic_queue[1] /\ Pushed' = Pushed
        /\ UNCHANGED <<decoder, showPc, shown>>
    BY <1>5 DEF Input, parserVars, showVars, Pushed
  <2>2. /\ 1 \in DOMAIN pic_queue /\ DOMAIN pic_queue' \subseteq Nat
        /\ \A i \in DOMAIN pic_queue' : /\ pic_queue'[i] = pic_queue[i + 1]
                                        /\ i + 1 \in DOMAIN pic_queue /\ 1 < i + 1
    BY <1>0, <2>1 DEF Frames
  <2>. QED BY <2>1, <2>2 DEF FrameInv
<1>. QED BY <1>1, <1>2, <1>3, <1>4, <1>5 DEF Next, Parser, Shower

-----------------------------------------------------------------------------
(* Enough timestamps.                                                      *)

(* The unit just pushed is about to have its timestamp queued.             *)
StampDue == (parserPc = "stamp" /\ TimeWanted) \/ parserPc = "mark"

(* Timestamps queued or due; pictures that have to find theirs.            *)
LenTimes == Len(que_timestamp) + (IF StampDue THEN 1 ELSE 0)
LenWaits == Len(decoder.pics) + (IF showPc = "time" THEN 1 ELSE 0)

(* The decoder is new and nobody has asked for its boxes yet.              *)
Untouched == \/ servePc \in {"pics", "times", "pop"}
             \/ servePc = "serve" /\ ~can_send_box
             \/ session = 0

(* Whatever stragglers and stale starts did, no picture lacks a timestamp. *)
EnoughInv ==
  /\ can_send_box => LenWaits <= LenTimes
  /\ showPc = "time" => que_timestamp # <<>>
  /\ Untouched => /\ decoder.pics = <<>> /\ decoder.fresh /\ showPc = "idle"
                  /\ parserPc = "push" => ~decoder.ready
  /\ codecType = "H264" /\ ~decoder.fresh /\ servePc # "open" =>
       ~isfirst \/ (parserPc = "stamp" /\ ~IsParamSet(unit))
  /\ ~aborted

LEMMA InitEnough == Init => EnoughInv
BY DEF Init, EnoughInv, LenWaits, LenTimes, StampDue, TimeWanted, Opened

Queues == /\ decoder.pics \in Seq(Units) /\ que_timestamp \in Seq(Units)
          /\ codecType \in {"H264", "H265"} /\ unit \in Nat
          /\ decoder.ready \in BOOLEAN /\ decoder.fresh \in BOOLEAN
          /\ decoder.fed \in BOOLEAN /\ isfirst \in BOOLEAN
          /\ shown \in Pic /\ handed \in Pic /\ pic_queue \in Seq(Pic)

LEMMA QueueTypes == TypeOK => Queues
BY DEF TypeOK, Queues

(* What a push does to an open decoder.                                    *)
LEMMA PushOpen ==
  ASSUME TypeOK, Push, decoder # Closed
  PROVE  /\ IsParamSet(unit) =>
              /\ decoder'.ready /\ decoder'.fed /\ decoder'.pics = decoder.pics
              /\ decoder'.fresh = decoder.fresh
         /\ ~IsParamSet(unit) =>
              /\ decoder'.ready = decoder.ready /\ decoder'.fed
              /\ decoder'.fresh = (decoder.fresh /\ ~decoder.ready)
              /\ decoder'.pics =
                   IF decoder.ready /\ ~(codecType = "H264" /\ decoder.fresh)
                   THEN Append(decoder.pics, unit) ELSE decoder.pics
<1>1. IsParamSet(unit) => decoder' = [decoder EXCEPT !.ready = TRUE, !.fed = TRUE]
  BY DEF Push
<1> DEFINE f == decoder.fresh /\ ~decoder.ready
           p == IF decoder.ready /\ ~(codecType = "H264" /\ decoder.fresh)
                THEN Append(decoder.pics, unit) ELSE decoder.pics
<1>2. ~IsParamSet(unit) =>
        decoder' = [decoder EXCEPT !.fed = TRUE, !.fresh = f, !.pics = p]
  BY DEF Push
<1> HIDE DEF f, p
<1>3. ~IsParamSet(unit) =>
        /\ decoder'.ready = decoder.ready /\ decoder'.fed
        /\ decoder'.fresh = f /\ decoder'.pics = p
  BY <1>2 DEF TypeOK
<1>4. IsParamSet(unit) =>
        /\ decoder'.ready /\ decoder'.fed /\ decoder'.pics = decoder.pics
        /\ decoder'.fresh = decoder.fresh
  BY <1>1 DEF TypeOK
<1>. QED BY ONLY <1>3, <1>4 DEF f, p

(* While the parser is in a push the decoder is only closed in "open".     *)
LEMMA OpenUnlessRestart ==
  ASSUME TypeOK, SessionInv, servePc # "open" PROVE decoder # Closed
<1>1. servePc \in {"accept", "serve", "close", "pics", "times", "pop"} /\ session \in Nat
  BY DEF TypeOK
<1>2. decoder.from # -1
  BY <1>1 DEF SessionInv, Home
<1>. QED BY <1>2, ClosedRecord

LEMMA ServerEnough ==
  ASSUME TypeOK, SessionInv, EnoughInv, Server PROVE EnoughInv'
<1> USE DEF serveVars, parserVars, showVars, outVars
<1>0. Queues /\ session \in Nat
  BY QueueTypes DEF TypeOK
<1>1. CASE Accept
  <2>1. /\ servePc = "accept" /\ ~can_send_box
        /\ UNCHANGED <<codecType, can_send_box, parserPc, unit, isfirst,
                       que_timestamp, decoder, showPc, aborted>>
    BY <1>1 DEF Accept, SessionInv
  <2>2. Untouched' => Untouched
    BY <1>0, <1>1 DEF Accept, Untouched
  <2>. QED BY ONLY EnoughInv, <2>1, <2>2 DEF EnoughInv
<1>2. CASE BoxRequest
  <2>1. UNCHANGED <<codecType, servePc, session, parserPc, unit, isfirst,
                    que_timestamp, decoder, showPc, aborted>> /\ can_send_box'
    BY <1>2 DEF BoxRequest
  <2>2. LenWaits <= LenTimes
    <3>1. CASE can_send_box
      BY <3>1 DEF EnoughInv
    <3>2. CASE ~can_send_box
      <4>1. decoder.pics = <<>> /\ showPc = "idle"
        BY <1>2, <3>2 DEF BoxRequest, EnoughInv, Untouched
      <4>. QED BY <1>0, <4>1 DEF Queues, LenWaits, LenTimes
    <3>. QED BY <3>1, <3>2
  <2>. QED BY ONLY EnoughInv, <2>1, <2>2
           DEF EnoughInv, LenWaits, LenTimes, StampDue, TimeWanted, Untouched
<1>3. CASE Disconnect
  BY <1>0, <1>3 DEF Disconnect, SessionInv, EnoughInv, LenWaits, LenTimes,
                    StampDue, TimeWanted, Untouched
<1>4. CASE RestartClose
  <2>1. /\ servePc = "close" /\ servePc' = "open" /\ showPc = "idle"
        /\ ~can_send_box
        /\ UNCHANGED <<can_send_box, session, showPc, que_timestamp, aborted>>
    BY <1>4 DEF RestartClose, SessionInv
  <2>2. session > 1
    BY <2>1 DEF SessionInv, Clearing
  <2>. QED BY ONLY EnoughInv, <2>1, <2>2 DEF EnoughInv, Untouched
<1>5. CASE RestartOpen
  <2>1. /\ servePc = "open" /\ servePc' = "pics" /\ showPc = "idle"
        /\ ~can_send_box /\ decoder' = Opened(session)
        /\ UNCHANGED <<can_send_box, session, showPc, que_timestamp, aborted>>
    BY <1>5 DEF RestartOpen, SessionInv
  <2>. QED BY ONLY EnoughInv, <2>1 DEF EnoughInv, Untouched, Opened
<1>6. CASE DrainPics
  <2>1. /\ servePc = "pics" /\ servePc' = "times" /\ ~can_send_box
        /\ UNCHANGED <<codecType, can_send_box, session, parserPc, unit, isfirst,
                       que_timestamp, decoder, showPc, aborted>>
    BY <1>6 DEF DrainPics, SessionInv
  <2>. QED BY ONLY EnoughInv, <2>1 DEF EnoughInv, Untouched
<1>7. CASE FirstAgain \/ DrainTimes
  <2>1. /\ servePc \in {"times", "pop"} /\ servePc' \in {"pop", "serve"}
        /\ ~can_send_box /\ showPc = "idle"
        /\ UNCHANGED <<codecType, can_send_box, session, parserPc, unit,
                       decoder, showPc, aborted>>
    BY <1>7 DEF FirstAgain, DrainTimes, SessionInv
  <2>. QED BY ONLY EnoughInv, <2>1 DEF EnoughInv, Untouched
<1>. QED BY <1>1, <1>2, <1>3, <1>4, <1>5, <1>6, <1>7 DEF Server, Clear

LEMMA ParserEnough ==
  ASSUME TypeOK, SessionInv, EnoughInv, Parser PROVE EnoughInv'
<1>0. Queues
  BY QueueTypes
<1>1. CASE Gate
  <2>1. /\ parserPc = "idle" /\ parserPc' \notin {"stamp", "mark"}
        /\ parserPc' = "push" => can_send_box
        /\ UNCHANGED <<codecType, can_send_box, servePc, session, isfirst,
                       que_timestamp, decoder, showPc, aborted>>
    BY <1>1 DEF Gate, serveVars, showVars
  <2>2. LenTimes' = LenTimes /\ LenWaits' = LenWaits
    BY <2>1 DEF LenTimes, LenWaits, StampDue, TimeWanted
  <2>3. Untouched => ~can_send_box \/ session = 0
    BY DEF Untouched, SessionInv
  <2>4. session = 0 => ~can_send_box
    BY DEF SessionInv
  <2>. QED BY ONLY EnoughInv, <2>1, <2>2, <2>3, <2>4 DEF EnoughInv, Untouched
<1>2. CASE Push
  <2>1. /\ parserPc = "push" /\ parserPc' = "stamp"
        /\ UNCHANGED <<codecType, can_send_box, servePc, session, isfirst, unit,
                       que_timestamp, showPc, aborted>>
    BY <1>2 DEF Push, serveVars, showVars
  <2>2. CASE servePc = "open"
    <3>1. session > 1 /\ ~can_send_box
      BY <2>2 DEF SessionInv, Clearing
    <3>. QED BY ONLY EnoughInv, <2>1, <2>2, <3>1 DEF EnoughInv, Untouched
  <2>3. CASE servePc # "open"
    <3>1. decoder # Closed
      BY <2>3, OpenUnlessRestart
    <3>2. CASE IsParamSet(unit)
      <4>1. decoder'.pics = decoder.pics /\ decoder'.fresh = decoder.fresh
        BY <1>2, <3>1, <3>2, PushOpen
      <4>2. LenTimes' = LenTimes /\ LenWaits' = LenWaits
        BY <2>1, <3>2, <4>1 DEF LenTimes, LenWaits, StampDue, TimeWanted
      <4>. QED BY ONLY EnoughInv, <2>1, <3>2, <4>1, <4>2
               DEF EnoughInv, Untouched
    <3>3. CASE ~IsParamSet(unit)
      <4> DEFINE shows == decoder.ready /\ ~(codecType = "H264" /\ decoder.fresh)
      <4>1. /\ decoder'.ready = decoder.ready
            /\ decoder'.fresh = (decoder.fresh /\ ~decoder.ready)
            /\ decoder'.pics = IF shows THEN Append(decoder.pics, unit)
                                        ELSE decoder.pics
        BY <1>2, <3>1, <3>3, PushOpen
      <4>2. shows => StampDue'
        BY <1>0, <2>1, <2>3, <3>3 DEF Queues, EnoughInv, StampDue, TimeWanted
      <4>3. ~StampDue
        BY <2>1 DEF StampDue, TimeWanted
      <4>4. LenWaits <= LenTimes => LenWaits' <= LenTimes'
        <5>1. Len(decoder'.pics) = Len(decoder.pics) + (IF shows THEN 1 ELSE 0)
          <6>1. CASE shows
            <7>1. decoder'.pics = Append(decoder.pics, unit)
              BY <4>1, <6>1
            <7>2. Len(Append(decoder.pics, unit)) = Len(decoder.pics) + 1
              BY <1>0 DEF Queues
            <7>. QED BY ONLY <6>1, <7>1, <7>2
          <6>2. CASE ~shows
            <7>1. decoder'.pics = decoder.pics
              BY <4>1, <6>2
            <7>2. Len(decoder.pics) = Len(decoder.pics) + 0
              BY <1>0 DEF Queues
            <7>. QED BY ONLY <6>2, <7>1, <7>2
          <6>. QED BY <6>1, <6>2
        <5>2. Len(decoder.pics) \in Nat /\ Len(que_timestamp) \in Nat
          BY <1>0 DEF Queues
        <5> HIDE DEF shows
        <5>3. LenWaits' = LenWaits + (IF shows THEN 1 ELSE 0)
          <6>1. showPc' = showPc
            BY <2>1
          <6> DEFINE more == IF shows THEN 1 ELSE 0
                     due  == IF showPc = "time" THEN 1 ELSE 0
          <6>2. more \in Int /\ due \in Int
            OBVIOUS
          <6>3. Len(decoder'.pics) = Len(decoder.pics) + more
            BY <5>1
          <6>4. LenWaits = Len(decoder.pics) + due
            BY DEF LenWaits
          <6>5. LenWaits' = Len(decoder'.pics) + due
            BY <6>1 DEF LenWaits
          <6> HIDE DEF more, due
          <6>6. LenWaits' = LenWaits + more
            BY ONLY <5>2, <6>2, <6>3, <6>4, <6>5
          <6>. QED BY <6>6 DEF more
        <5>4. LenTimes' = LenTimes + (IF StampDue' THEN 1 ELSE 0)
          BY ONLY <2>1, <4>3, <5>2 DEF LenTimes
        <5>5. LenWaits \in Int /\ LenTimes \in Int
          BY ONLY <5>2 DEF LenWaits, LenTimes
        <5>. QED BY ONLY <4>2, <5>3, <5>4, <5>5
      <4>5. Untouched => ~decoder.ready
        BY <2>1 DEF EnoughInv
      <4> HIDE DEF shows
      <4>6. Untouched => ~shows
        BY <4>5 DEF shows
      <4>. QED BY ONLY EnoughInv, <2>1, <3>3, <4>1, <4>4, <4>5, <4>6
               DEF EnoughInv, Untouched
    <3>. QED BY <3>2, <3>3
  <2>. QED BY <2>2, <2>3
<1>3. CASE Stamp
  <2>1. /\ parserPc = "stamp" /\ parserPc' \in {"idle", "mark"}
        /\ parserPc' = "mark" <=> TimeWanted
        /\ UNCHANGED <<codecType, can_send_box, servePc, session, decoder,
                       que_timestamp, showPc, aborted>>
    BY <1>3 DEF Stamp, serveVars, showVars
  <2>2. LenTimes' = LenTimes /\ LenWaits' = LenWaits
    <3>1. StampDue' <=> StampDue
      BY <2>1 DEF StampDue
    <3>. QED BY ONLY <2>1, <3>1 DEF LenTimes, LenWaits
  <2>3. codecType = "H264" /\ ~decoder.fresh /\ servePc # "open" => ~isfirst'
    BY <1>3 DEF Stamp, TimeWanted, EnoughInv
  <2>. QED BY ONLY EnoughInv, <2>1, <2>2, <2>3 DEF EnoughInv, Untouched
<1>4. CASE Mark
  <2>1. /\ parserPc = "mark" /\ parserPc' = "idle"
        /\ que_timestamp' = Append(que_timestamp, unit)
        /\ UNCHANGED <<codecType, can_send_box, servePc, session, isfirst, decoder,
                       showPc, aborted>>
    BY <1>4 DEF Mark, serveVars, showVars
  <2>2. Len(que_timestamp') = Len(que_timestamp) + 1 /\ que_timestamp' # <<>>
    BY <1>0, <2>1 DEF Queues
  <2>3. LenTimes' = LenTimes /\ LenWaits' = LenWaits
    BY <1>0, <2>1, <2>2 DEF Queues, LenTimes, LenWaits, StampDue
  <2>. QED BY ONLY EnoughInv, <2>1, <2>2, <2>3 DEF EnoughInv, Untouched
<1>. QED BY <1>1, <1>2, <1>3, <1>4 DEF Parser

LEMMA ShowerEnough ==
  ASSUME TypeOK, SessionInv, EnoughInv, Shower, DELAY >= 1 PROVE EnoughInv'
<1>0. Queues
  BY QueueTypes
<1>1. CASE Show
  <2>1. /\ showPc = "idle" /\ Len(decoder.pics) >= 2
        /\ decoder'.pics = Tail(decoder.pics)
        /\ decoder'.ready = decoder.ready /\ decoder'.fresh = decoder.fresh
        /\ showPc' = IF can_send_box THEN "time" ELSE "idle"
        /\ UNCHANGED <<codecType, can_send_box, servePc, session, parserPc, unit,
                       isfirst, que_timestamp, aborted>>
    BY <1>0, <1>1, ConstantsAssumption
       DEF Show, TypeOK, Queues, serveVars, parserVars, showVars
  <2>2. Len(decoder'.pics) = Len(decoder.pics) - 1
    BY <1>0, <2>1 DEF Queues
  <2>3. ~Untouched
    BY <2>1 DEF EnoughInv
  <2>4. can_send_box => LenWaits' = LenWaits /\ LenTimes' = LenTimes
    BY <1>0, <2>1, <2>2 DEF Queues, LenWaits, LenTimes, StampDue, TimeWanted
  <2>5. can_send_box => que_timestamp # <<>>
    <3> SUFFICES ASSUME can_send_box, que_timestamp = <<>> PROVE FALSE
      OBVIOUS
    <3>1. Len(decoder.pics) \in Nat /\ Len(que_timestamp) = 0
      BY <1>0 DEF Queues
    <3>2. LenWaits \in Int /\ LenTimes \in Int /\ LenWaits >= 2 /\ LenTimes <= 1
      BY <2>1, <3>1 DEF LenWaits, LenTimes
    <3>3. LenWaits <= LenTimes
      BY DEF EnoughInv
    <3>. QED BY ONLY <3>2, <3>3
  <2>. QED BY ONLY EnoughInv, <2>1, <2>3, <2>4, <2>5 DEF EnoughInv, Untouched
<1>2. CASE TakeTime
  <2>1. showPc = "time" /\ que_timestamp # <<>>
    BY <1>2 DEF TakeTime, EnoughInv
  <2>2. /\ que_timestamp' = Tail(que_timestamp) /\ showPc' = "queue"
        /\ UNCHANGED <<codecType, can_send_box, servePc, session, parserPc, unit,
                       isfirst, decoder, aborted>>
    BY <1>2, <2>1 DEF TakeTime, serveVars, parserVars
  <2>3. Len(que_timestamp') = Len(que_timestamp) - 1
    BY <1>0, <2>1, <2>2 DEF Queues
  <2>4. LenWaits' = LenWaits - 1 /\ LenTimes' = LenTimes - 1
    BY <1>0, <2>1, <2>2, <2>3 DEF Queues, LenWaits, LenTimes, StampDue, TimeWanted
  <2>5. LenWaits \in Int /\ LenTimes \in Int
    BY <1>0 DEF Queues, LenWaits, LenTimes
  <2>. QED BY ONLY EnoughInv, <2>1, <2>2, <2>4, <2>5 DEF EnoughInv, Untouched
<1>3. CASE QueuePic
  <2>1. /\ showPc = "queue" /\ showPc' = "idle"
        /\ UNCHANGED <<codecType, can_send_box, servePc, session, parserPc, unit,
                       isfirst, que_timestamp, decoder, aborted>>
    BY <1>3 DEF QueuePic, serveVars, parserVars
  <2>. QED BY ONLY EnoughInv, <2>1
           DEF EnoughInv, Untouched, LenWaits, LenTimes, StampDue, TimeWanted
<1>. QED BY <1>1, <1>2, <1>3 DEF Shower

LEMMA EnoughStep ==
  TypeOK /\ SessionInv /\ EnoughInv /\ [Next]_vars /\ DELAY >= 1 => EnoughInv'
<1>1. ASSUME EnoughInv, Input \/ Answer \/ UNCHANGED vars PROVE EnoughInv'
  <2>1. UNCHANGED <<codecType, can_send_box, servePc, session, parserPc, unit,
                    isfirst, que_timestamp, decoder, showPc, aborted>>
    BY <1>1 DEF Input, Answer, vars, serveVars, parserVars, showVars
  <2>. QED BY ONLY <1>1, <2>1
           DEF EnoughInv, Untouched, LenWaits, LenTimes, StampDue, TimeWanted
<1>. QED BY <1>1, ServerEnough, ParserEnough, ShowerEnough DEF Next

-----------------------------------------------------------------------------
(* Quiet reconnections: no straggler, no stale start.                      *)

Blank == (servePc = "serve" /\ ~can_send_box) \/ session = 0

(* Every session starts with a parameter set and a new decoder, and        *)
(* rtp_callback leaves out the timestamp of the picture the decoder does.  *)
StartInv ==
  /\ decoder.fed => decoder.ready
  /\ parserPc = "push" => is_start /\ (decoder.ready \/ IsParamSet(unit))
  /\ parserPc \in {"stamp", "mark"} => is_start /\ decoder.ready
  /\ can_send_box /\ is_start /\ parserPc # "push" => decoder.ready
  /\ codecType = "H264" /\ can_send_box =>
       IF parserPc = "stamp" /\ ~IsParamSet(unit)
       THEN ~decoder.fresh ELSE decoder.fresh = isfirst
  /\ servePc \in {"open", "pics", "times", "pop"} => parserPc = "idle"
  /\ servePc \in {"pics", "times", "pop"} => ~decoder.fed
  /\ servePc = "pop" => isfirst
  /\ Blank => parserPc = "idle" /\ ~decoder.fed /\ que_timestamp = <<>> /\ isfirst

LEMMA InitStart == Init => StartInv
BY DEF Init, StartInv, Opened

LEMMA ServerStart ==
  ASSUME TypeOK, SessionInv, EnoughInv, StartInv, Server, mixed' = {}
  PROVE  StartInv'
<1> USE DEF serveVars, parserVars, showVars, outVars
<1>0. Queues /\ session \in Nat /\ parserPc \in {"idle", "push", "stamp", "mark"}
  BY QueueTypes DEF TypeOK
<1>1. CASE Accept
  <2>1. /\ servePc = "accept" /\ servePc' \in {"serve", "close"} /\ session' > 0
        /\ servePc' = "serve" => session = 0 /\ ~can_send_box
        /\ UNCHANGED <<codecType, can_send_box, parserPc, unit, is_start, isfirst,
                       que_timestamp, decoder>>
    BY <1>0, <1>1 DEF Accept, SessionInv
  <2>2. Blank' => Blank
    BY <1>0, <2>1 DEF Blank
  <2>. QED BY ONLY StartInv, <2>1, <2>2 DEF StartInv
<1>2. CASE BoxRequest
  <2>1. /\ servePc = "serve" /\ servePc' = "serve" /\ can_send_box'
        /\ UNCHANGED <<codecType, session, parserPc, unit, is_start, isfirst,
                       que_timestamp, decoder>>
    BY <1>2 DEF BoxRequest
  <2>2. CASE can_send_box
    BY ONLY StartInv, <2>1, <2>2 DEF StartInv, Blank
  <2>3. CASE ~can_send_box
    <3>1. ~is_start
      BY <1>2, <2>3 DEF BoxRequest
    <3>2. decoder.fresh /\ isfirst /\ parserPc = "idle"
      BY <2>1, <2>3 DEF EnoughInv, Untouched, StartInv, Blank
    <3>3. decoder.fresh = isfirst
      BY <1>0, <3>2 DEF Queues
    <3>4. session # 0
      BY <2>1 DEF SessionInv
    <3>. QED BY ONLY StartInv, <2>1, <3>1, <3>2, <3>3, <3>4 DEF StartInv, Blank
  <2>. QED BY <2>2, <2>3
<1>3. CASE Disconnect
  <2>1. /\ servePc = "serve" /\ servePc' = "accept" /\ ~can_send_box'
        /\ UNCHANGED <<codecType, session, parserPc, unit, is_start, isfirst,
                       que_timestamp, decoder>>
    BY <1>3 DEF Disconnect
  <2>. QED BY ONLY StartInv, <2>1 DEF StartInv, Blank
<1>4. CASE RestartClose
  <2>1. /\ servePc = "close" /\ servePc' = "open" /\ ~can_send_box' /\ ~decoder'.fed
        /\ UNCHANGED <<session, parserPc>>
    BY <1>4, ClosedRecord DEF RestartClose, SessionInv
  <2>2. parserPc = "idle" /\ session > 1
    BY <1>0, <1>4, <2>1 DEF RestartClose, Mixing, ParserInside, SessionInv, Clearing
  <2>. QED BY ONLY <2>1, <2>2 DEF StartInv, Blank
<1>5. CASE RestartOpen
  <2>1. /\ servePc = "open" /\ servePc' = "pics" /\ ~can_send_box' /\ ~decoder'.fed
        /\ UNCHANGED <<session, parserPc>>
    BY <1>5 DEF RestartOpen, SessionInv, Opened
  <2>2. parserPc = "idle" /\ session > 1
    BY <2>1 DEF StartInv, SessionInv, Clearing
  <2>. QED BY ONLY <2>1, <2>2 DEF StartInv, Blank
<1>6. CASE DrainPics \/ FirstAgain \/ DrainTimes
  <2>1. /\ servePc \in {"pics", "times", "pop"} /\ servePc' \in {"times", "pop", "serve"}
        /\ ~can_send_box' /\ UNCHANGED <<session, parserPc, decoder>>
        /\ servePc' = "serve" => que_timestamp' = <<>>
        /\ servePc' \in {"pop", "serve"} => isfirst'
    BY <1>6 DEF DrainPics, FirstAgain, DrainTimes, SessionInv, StartInv
  <2>2. parserPc = "idle" /\ session > 1 /\ ~decoder.fed
    BY <2>1 DEF StartInv, SessionInv, Clearing
  <2>. QED BY ONLY <2>1, <2>2 DEF StartInv, Blank
<1>. QED BY <1>1, <1>2, <1>3, <1>4, <1>5, <1>6 DEF Server, Clear

LEMMA ParserStart ==
  ASSUME TypeOK, SessionInv, StartInv, Parser PROVE StartInv'
<1>0. Queues
  BY QueueTypes
<1>1. CASE Gate
  <2>1. /\ parserPc = "idle" /\ parserPc' = IF is_start' THEN "push" ELSE "idle"
        /\ is_start' = (can_send_box /\ (is_start \/ IsParamSet(unit)))
        /\ is_start' => unit' = unit
        /\ UNCHANGED <<codecType, can_send_box, servePc, session, isfirst,
                       que_timestamp, decoder>>
    BY <1>1 DEF Gate, serveVars
  <2>2. Blank => ~can_send_box
    BY DEF Blank, SessionInv
  <2>3. can_send_box => servePc = "serve"
    BY DEF SessionInv
  <2>. QED BY ONLY StartInv, <2>1, <2>2, <2>3 DEF StartInv, Blank
<1>2. CASE Push
  <2>1. /\ parserPc = "push" /\ parserPc' = "stamp"
        /\ UNCHANGED <<codecType, can_send_box, servePc, session, isfirst, unit,
                       is_start, que_timestamp>>
    BY <1>2 DEF Push, serveVars
  <2>2. ~Blank /\ servePc \notin {"open", "pics", "times", "pop"}
    BY <2>1 DEF StartInv
  <2>3. decoder # Closed
    BY <2>2, OpenUnlessRestart
  <2>4. CASE IsParamSet(unit)
    <3>1. decoder'.ready /\ decoder'.fed /\ decoder'.fresh = decoder.fresh
      BY <1>2, <2>3, <2>4, PushOpen
    <3>. QED BY ONLY StartInv, <2>1, <2>2, <2>4, <3>1 DEF StartInv, Blank
  <2>5. CASE ~IsParamSet(unit)
    <3>1. /\ decoder'.ready = decoder.ready
          /\ decoder'.fresh = (decoder.fresh /\ ~decoder.ready)
      BY <1>2, <2>3, <2>5, PushOpen
    <3>2. decoder.ready
      BY <2>1, <2>5 DEF StartInv
    <3>. QED BY ONLY StartInv, <2>1, <2>2, <2>5, <3>1, <3>2 DEF StartInv, Blank
  <2>. QED BY <2>4, <2>5
<1>3. CASE Stamp
  <2>1. /\ parserPc = "stamp" /\ parserPc' \in {"idle", "mark"}
        /\ UNCHANGED <<codecType, can_send_box, servePc, session, is_start,
                       que_timestamp, decoder>>
    BY <1>3 DEF Stamp, serveVars
  <2>2. ~Blank /\ servePc \notin {"open", "pics", "times", "pop"}
    BY <2>1 DEF StartInv
  <2>3. codecType = "H264" /\ can_send_box => decoder.fresh = isfirst'
    <3> SUFFICES ASSUME codecType = "H264", can_send_box
                 PROVE decoder.fresh = isfirst'
      OBVIOUS
    <3>1. CASE IsParamSet(unit)
      <4>1. decoder.fresh = isfirst
        BY <2>1, <3>1 DEF StartInv
      <4>2. isfirst' = (isfirst /\ IsParamSet(unit)) /\ isfirst \in BOOLEAN
        BY <1>0, <1>3, <3>1 DEF Stamp, TimeWanted, Queues
      <4>3. isfirst' = isfirst
        BY ONLY <3>1, <4>2, Zenon
      <4>. QED BY ONLY <4>1, <4>3
    <3>2. CASE ~IsParamSet(unit)
      <4>1. ~isfirst'
        BY <1>3, <3>2 DEF Stamp, TimeWanted
      <4>2. ~decoder.fresh
        BY <2>1, <3>2 DEF StartInv
      <4>3. decoder.fresh \in BOOLEAN /\ isfirst' \in BOOLEAN
        BY <1>0, <1>3 DEF Queues, Stamp
      <4>. QED BY ONLY <4>1, <4>2, <4>3
    <3>. QED BY <3>1, <3>2
  <2>. QED BY ONLY StartInv, <2>1, <2>2, <2>3 DEF StartInv, Blank
<1>4. CASE Mark
  <2>1. /\ parserPc = "mark" /\ parserPc' = "idle"
        /\ UNCHANGED <<codecType, can_send_box, servePc, session, is_start,
                       isfirst, decoder>>
    BY <1>4 DEF Mark, serveVars
  <2>2. ~Blank /\ servePc \notin {"open", "pics", "times", "pop"}
    BY <2>1 DEF StartInv
  <2>. QED BY ONLY StartInv, <2>1, <2>2 DEF StartInv, Blank
<1>. QED BY <1>1, <1>2, <1>3, <1>4 DEF Parser

LEMMA OtherStart ==
  ASSUME TypeOK, EnoughInv, StartInv,
         Shower \/ Input \/ Answer \/ UNCHANGED vars
  PROVE  StartInv'
<1>0. Queues
  BY QueueTypes
<1>1. /\ decoder'.fed = decoder.fed /\ decoder'.ready = decoder.ready
      /\ decoder'.fresh = decoder.fresh
  BY DEF Shower, Show, TakeTime, QueuePic, Input, Answer, vars, TypeOK
<1>2. UNCHANGED <<codecType, can_send_box, servePc, session, parserPc, unit,
                  is_start, isfirst>>
  BY DEF Shower, Show, TakeTime, QueuePic, Input, Answer, vars, serveVars,
         parserVars
<1>3. que_timestamp = <<>> => que_timestamp' = <<>>
  BY DEF Shower, Show, TakeTime, QueuePic, Input, Answer, vars
<1>. QED BY ONLY StartInv, <1>1, <1>2, <1>3 DEF StartInv, Blank

-----------------------------------------------------------------------------
(* The picture that takes the i-th timestamp.                              *)
Wait(i) == IF showPc = "time"
           THEN IF i = 1 THEN shown.frame ELSE decoder.pics[i - 1]
           ELSE decoder.pics[i]

Own(p) == p.pic_id = p.frame

(* Every timestamp that waits is that of the picture that will take it.    *)
SyncInv ==
  /\ can_send_box =>
       /\ LenWaits = LenTimes
       /\ \A i \in DOMAIN que_timestamp : que_timestamp[i] = Wait(i)
       /\ StampDue => Wait(LenTimes) = unit
  /\ showPc = "time" => que_timestamp # <<>> /\ que_timestamp[1] = shown.frame

(* A picture that took its timestamp took its own.                         *)
OwnInv == /\ showPc = "queue" => Own(shown)
          /\ Own(handed) /\ \A i \in DOMAIN pic_queue : Own(pic_queue[i])

LEMMA InitSync == Init => SyncInv /\ OwnInv
BY DEF Init, SyncInv, OwnInv, Own, NoPic

(* Steps that leave the queues of pictures and timestamps alone.           *)
LEMMA SyncStays ==
  ASSUME SyncInv, can_send_box' => can_send_box, LenTimes' = LenTimes,
         StampDue' => StampDue,
         UNCHANGED <<que_timestamp, decoder, showPc, shown>>, unit' = unit \/ ~StampDue'
  PROVE  SyncInv'
<1>1. LenWaits' = LenWaits
  BY DEF LenWaits
<1>2. \A i : Wait(i)' = Wait(i)
  BY DEF Wait
<1>. QED BY ONLY SyncInv, can_send_box' => can_send_box, LenTimes' = LenTimes,
                 StampDue' => StampDue, <1>1, <1>2,
                 UNCHANGED <<que_timestamp, decoder, showPc, shown>>,
                 unit' = unit \/ ~StampDue'
         DEF SyncInv, Wait

LEMMA ServerSync ==
  ASSUME TypeOK, SessionInv, EnoughInv, StartInv, SyncInv, Server, mixed' = {}
  PROVE  SyncInv'
<1> USE DEF serveVars, parserVars, showVars, outVars
<1>0. Queues
  BY QueueTypes
<1>1. CASE BoxRequest
  <2>1. /\ servePc = "serve"
        /\ UNCHANGED <<codecType, parserPc, unit, isfirst, que_timestamp, decoder,
                       showPc, shown>>
    BY <1>1 DEF BoxRequest
  <2>2. CASE can_send_box
    <3>1. LenTimes' = LenTimes /\ StampDue' = StampDue /\ unit' = unit
      BY ONLY <2>1 DEF LenTimes, StampDue, TimeWanted
    <3>. QED BY ONLY SyncInv, <2>1, <2>2, <3>1, SyncStays
  <2>3. CASE ~can_send_box
    <3>1. /\ decoder.pics = <<>> /\ showPc = "idle" /\ parserPc = "idle"
          /\ que_timestamp = <<>>
      BY <2>1, <2>3 DEF EnoughInv, Untouched, StartInv, Blank
    <3>2. ~StampDue' /\ LenTimes' = 0 /\ LenWaits' = 0
      BY <2>1, <3>1 DEF StampDue, TimeWanted, LenTimes, LenWaits
    <3>. QED BY ONLY <2>1, <3>1, <3>2 DEF SyncInv
  <2>. QED BY <2>2, <2>3
<1>2. CASE Accept \/ Disconnect \/ DrainPics
  <2>1. /\ can_send_box' => can_send_box
        /\ UNCHANGED <<codecType, parserPc, unit, isfirst, que_timestamp, decoder,
                       showPc, shown>>
    BY <1>2 DEF Accept, Disconnect, DrainPics
  <2>2. LenTimes' = LenTimes /\ StampDue' = StampDue
    BY ONLY <2>1 DEF LenTimes, StampDue, TimeWanted
  <2>. QED BY ONLY SyncInv, <2>1, <2>2, SyncStays
<1>3. CASE RestartClose \/ RestartOpen \/ FirstAgain \/ DrainTimes
  <2>1. ~can_send_box' /\ showPc' = "idle"
    BY <1>3 DEF RestartClose, RestartOpen, FirstAgain, DrainTimes, SessionInv
  <2>. QED BY <2>1 DEF SyncInv
<1>. QED BY <1>1, <1>2, <1>3 DEF Server, Clear

LEMMA ParserSync ==
  ASSUME TypeOK, SessionInv, StartInv, SyncInv, Parser PROVE SyncInv'
<1>0. Queues
  BY QueueTypes
<1>1. CASE Gate
  <2>1. /\ parserPc = "idle" /\ parserPc' \notin {"stamp", "mark"}
        /\ UNCHANGED <<can_send_box, que_timestamp, decoder, showPc, shown>>
    BY <1>1 DEF Gate, serveVars, showVars
  <2>2. LenTimes' = LenTimes /\ ~StampDue'
    BY <2>1 DEF LenTimes, StampDue, TimeWanted
  <2>. QED BY ONLY SyncInv, <2>1, <2>2, SyncStays
<1>2. CASE Push
  <2>1. /\ parserPc = "push" /\ parserPc' = "stamp"
        /\ UNCHANGED <<codecType, can_send_box, servePc, isfirst, unit,
                       que_timestamp, showPc, shown>>
    BY <1>2 DEF Push, serveVars, showVars
  <2>2. ~StampDue
    BY <2>1 DEF StampDue, TimeWanted
  <2>3. CASE ~can_send_box
    BY ONLY SyncInv, <2>1, <2>3 DEF SyncInv
  <2>4. CASE can_send_box
    <3>1. decoder # Closed
      <4>1. servePc # "open"
        BY <2>4 DEF SessionInv
      <4>. QED BY <4>1, OpenUnlessRestart
    <3>2. ASSUME ~StampDue', decoder'.pics = decoder.pics PROVE SyncInv'
      <4>1. LenTimes' = LenTimes /\ LenWaits' = LenWaits
        BY <2>1, <2>2, <3>2 DEF LenTimes, LenWaits
      <4>2. \A i : Wait(i)' = Wait(i)
        BY <2>1, <3>2 DEF Wait
      <4>. QED BY ONLY SyncInv, <2>1, <3>2, <4>1, <4>2 DEF SyncInv, Wait
    <3>3. CASE IsParamSet(unit)
      <4>1. ~StampDue' /\ decoder'.pics = decoder.pics
        BY <1>2, <2>1, <3>1, <3>3, PushOpen DEF StampDue, TimeWanted
      <4>. QED BY <3>2, <4>1
    <3>4. CASE ~IsParamSet(unit)
      <4>1. StampDue' <=> ~(codecType = "H264" /\ decoder.fresh)
        BY <1>0, <2>1, <2>4, <3>4 DEF StampDue, TimeWanted, StartInv, Queues
      <4>2. decoder.ready
        BY <2>1, <3>4 DEF StartInv
      <4>3. decoder'.pics = IF StampDue' THEN Append(decoder.pics, unit)
                                         ELSE decoder.pics
        BY <1>2, <3>1, <3>4, <4>1, <4>2, PushOpen
      <4>4. CASE ~StampDue'
        BY <3>2, <4>3, <4>4
      <4>5. CASE StampDue'
        <5> DEFINE old == decoder.pics
                   new == decoder'.pics
        <5>1. /\ Len(old) \in Nat /\ Len(new) = Len(old) + 1
              /\ new[Len(old) + 1] = unit /\ \A i \in 1 .. Len(old) : new[i] = old[i]
          <6>1. new = Append(old, unit) /\ old \in Seq(Units)
            BY <1>0, <4>3, <4>5 DEF Queues
          <6> HIDE DEF old, new
          <6>. QED BY ONLY <6>1
        <5>2. /\ DOMAIN que_timestamp = 1 .. Len(que_timestamp)
              /\ Len(que_timestamp) \in Nat
          BY <1>0 DEF Queues
        <5>3. /\ LenTimes = Len(que_timestamp) /\ LenTimes' = LenTimes + 1
              /\ LenWaits = LenTimes
          BY <2>1, <2>2, <2>4, <4>5, <5>2 DEF LenTimes, SyncInv
        <5>4. CASE showPc = "time"
          <6>1. /\ LenWaits = Len(old) + 1 /\ LenWaits' = Len(new) + 1
                /\ \A i : Wait(i) = IF i = 1 THEN shown.frame ELSE old[i - 1]
                /\ \A i : Wait(i)' = IF i = 1 THEN shown.frame ELSE new[i - 1]
            BY <2>1, <5>4 DEF LenWaits, Wait
          <6> HIDE DEF old, new
          <6>2. LenTimes' = Len(old) + 2
            BY ONLY <5>1, <5>3, <6>1
          <6>3. \A i \in 1 .. Len(old) + 1 : Wait(i)' = Wait(i)
            BY ONLY <5>1, <6>1
          <6>4. Wait(LenTimes)' = unit
            <7>1. LenTimes' # 1 /\ LenTimes' - 1 = Len(old) + 1
              BY ONLY <5>1, <6>2
            <7>. QED BY ONLY <2>1, <5>1, <5>4, <7>1 DEF Wait, old, new
          <6>5. LenWaits' = LenTimes'
            BY ONLY <5>1, <6>1, <6>2
          <6>6. DOMAIN que_timestamp = 1 .. Len(old) + 1
            BY ONLY <5>2, <5>3, <6>1
          <6>. QED BY ONLY SyncInv, <2>1, <2>4, <6>3, <6>4, <6>5, <6>6 DEF SyncInv
        <5>5. CASE showPc # "time"
          <6>1. /\ LenWaits = Len(old) + 0 /\ LenWaits' = Len(new) + 0
                /\ \A i : Wait(i) = old[i] /\ Wait(i)' = new[i]
            BY <2>1, <5>5 DEF LenWaits, Wait
          <6> HIDE DEF old, new
          <6>2. LenTimes' = Len(old) + 1
            BY ONLY <5>1, <5>3, <6>1
          <6>3. \A i \in 1 .. Len(old) : Wait(i)' = Wait(i)
            BY ONLY <5>1, <6>1
          <6>4. Wait(LenTimes)' = unit
            BY ONLY <2>1, <5>1, <5>5, <6>2 DEF Wait, old, new
          <6>5. LenWaits' = LenTimes'
            BY ONLY <5>1, <6>1, <6>2
          <6>6. DOMAIN que_timestamp = 1 .. Len(old)
            BY ONLY <5>1, <5>2, <5>3, <6>1
          <6>. QED BY ONLY SyncInv, <2>1, <2>4, <6>3, <6>4, <6>5, <6>6 DEF SyncInv
        <5>. QED BY <5>4, <5>5
      <4>. QED BY <4>4, <4>5
    <3>. QED BY <3>3, <3>4
  <2>. QED BY <2>3, <2>4
<1>3. CASE Stamp
  <2>1. /\ StampDue' <=> StampDue
        /\ UNCHANGED <<can_send_box, que_timestamp, decoder, showPc, shown>>
    BY <1>3 DEF Stamp, StampDue, serveVars, showVars
  <2>2. LenTimes' = LenTimes
    BY ONLY <2>1 DEF LenTimes
  <2>3. unit' = unit \/ ~StampDue'
    BY <1>3 DEF Stamp, StampDue
  <2>. QED BY ONLY SyncInv, <2>1, <2>2, <2>3, SyncStays
<1>4. CASE Mark
  <2>1. /\ parserPc = "mark" /\ ~StampDue'
        /\ UNCHANGED <<codecType, can_send_box, decoder, showPc, shown>>
    BY <1>4 DEF Mark, StampDue, serveVars, showVars
  <2>3. StampDue
    BY <2>1 DEF StampDue
  <2>4. SyncInv'
    <3>1. que_timestamp' = Append(que_timestamp, unit)
      BY <1>4 DEF Mark
    <3> DEFINE n == Len(que_timestamp)
    <3>2. /\ n \in Nat /\ DOMAIN que_timestamp = 1 .. n /\ Len(que_timestamp') = n + 1
          /\ DOMAIN que_timestamp' = 1 .. n + 1 /\ que_timestamp'[n + 1] = unit
          /\ \A i \in 1 .. n : que_timestamp'[i] = que_timestamp[i]
      <4>1. que_timestamp \in Seq(Units)
        BY <1>0 DEF Queues
      <4>. QED BY ONLY <3>1, <4>1
    <3>3. LenTimes = n + 1 /\ LenTimes' = n + 1 /\ LenWaits' = LenWaits
      BY <2>1, <2>3, <3>2 DEF LenTimes, LenWaits
    <3>4. \A i : Wait(i)' = Wait(i)
      BY <2>1 DEF Wait
    <3>5. que_timestamp # <<>> => n >= 1
      BY <1>0 DEF Queues
    <3> HIDE DEF n
    <3>6. showPc = "time" => que_timestamp' # <<>> /\ que_timestamp'[1] = shown.frame
      <4>1. que_timestamp' # <<>>
        BY <3>1, <3>2, <1>0 DEF Queues
      <4>. QED BY <3>2, <3>5, <4>1 DEF SyncInv
    <3>7. can_send_box => /\ LenWaits = LenTimes /\ Wait(n + 1) = unit
                          /\ \A i \in 1 .. n : que_timestamp[i] = Wait(i)
      BY <2>3, <3>2, <3>3 DEF SyncInv
    <3>8. \A i \in DOMAIN que_timestamp' : i \in 1 .. n \/ i = n + 1
      BY <3>2
    <3>9. can_send_box => \A i \in DOMAIN que_timestamp' : que_timestamp'[i] = Wait(i)
      BY ONLY <3>2, <3>7, <3>8
    <3>. QED BY ONLY <2>1, <3>3, <3>4, <3>6, <3>7, <3>9 DEF SyncInv
  <2>. QED BY <2>4
<1>. QED BY <1>1, <1>2, <1>3, <1>4 DEF Parser

LEMMA ShowerSync ==
  ASSUME TypeOK, EnoughInv, SyncInv, Shower, EnoughInv' PROVE SyncInv'
<1>0. Queues
  BY QueueTypes
<1> DEFINE n == Len(decoder.pics)
           q == Len(que_timestamp)
<1>1. /\ n \in Nat /\ q \in Nat /\ DOMAIN que_timestamp = 1 .. q
      /\ DOMAIN decoder.pics = 1 .. n
  BY <1>0 DEF Queues
<1>2. CASE Show
  <2>1. /\ showPc = "idle" /\ n >= 1 /\ decoder'.pics = Tail(decoder.pics)
        /\ showPc' = IF can_send_box THEN "time" ELSE "idle"
        /\ can_send_box => shown'.frame = Head(decoder.pics)
        /\ UNCHANGED <<codecType, can_send_box, parserPc, unit, isfirst, que_timestamp>>
    <3>1. Len(decoder.pics) > DELAY /\ DELAY \in Nat /\ n \in Nat
      BY <1>1, <1>2, ConstantsAssumption DEF Show
    <3>2. n >= 1
      BY ONLY <3>1 DEF n
    <3>3. decoder'.pics = Tail(decoder.pics)
      BY <1>2 DEF Show, TypeOK
    <3>4. can_send_box => shown'.frame = Head(decoder.pics)
      BY <1>2 DEF Show
    <3>. QED BY <1>2, <3>2, <3>3, <3>4 DEF Show, parserVars, serveVars, showVars
  <2>2. CASE ~can_send_box
    BY ONLY <2>1, <2>2 DEF SyncInv
  <2>3. CASE can_send_box
    <3>1. /\ Head(decoder.pics) = decoder.pics[1] /\ Len(decoder'.pics) = n - 1
          /\ \A i \in 1 .. n - 1 : decoder'.pics[i] = decoder.pics[i + 1]
      <4>1. decoder.pics \in Seq(Units) /\ decoder.pics # <<>>
        BY <1>0, <2>1 DEF Queues
      <4>. QED BY ONLY <2>1, <4>1
    <3>2. /\ \A i : Wait(i) = decoder.pics[i]
          /\ \A i : Wait(i)' = IF i = 1 THEN decoder.pics[1] ELSE decoder'.pics[i - 1]
      BY ONLY <2>1, <2>3, <3>1 DEF Wait
    <3>3. LenWaits = n + 0 /\ LenWaits' = (n - 1) + 1
      BY ONLY <2>1, <2>3, <3>1 DEF LenWaits
    <3>4. LenTimes' = LenTimes /\ StampDue' = StampDue
      BY ONLY <2>1 DEF LenTimes, StampDue, TimeWanted
    <3> HIDE DEF n
    <3>5. \A i \in 1 .. n : Wait(i)' = Wait(i)
      <4> TAKE i \in 1 .. n
      <4>1. i = 1 \/ (i - 1 \in 1 .. n - 1 /\ i - 1 + 1 = i /\ i # 1)
        BY ONLY <1>1
      <4>. QED BY ONLY <3>1, <3>2, <4>1
    <3>6. LenTimes = n
      BY ONLY <1>1, <2>3, <3>3, SyncInv DEF SyncInv
    <3>7. q <= LenTimes /\ (StampDue => LenTimes = q + 1)
      BY ONLY <1>1 DEF LenTimes
    <3>8. \A i \in DOMAIN que_timestamp : que_timestamp[i] = Wait(i)'
      BY ONLY <1>1, <2>3, <3>5, <3>6, <3>7, SyncInv DEF SyncInv
    <3>9. StampDue => Wait(LenTimes)' = unit
      <4>1. LenTimes \in 1 .. n
        BY ONLY <1>1, <2>1, <3>6 DEF n
      <4>2. StampDue => Wait(LenTimes) = unit
        BY ONLY <2>3, SyncInv DEF SyncInv
      <4>. QED BY ONLY <2>1, <2>3, <3>1, <3>2, <3>4, <3>5, <4>1, <4>2 DEF Wait
    <3>10. que_timestamp # <<>> /\ que_timestamp[1] = shown'.frame
      <4>1. que_timestamp # <<>>
        BY <2>1, <2>3 DEF EnoughInv
      <4>2. 1 \in DOMAIN que_timestamp
        BY ONLY <1>0, <4>1 DEF Queues
      <4>. QED BY ONLY <2>1, <2>3, <3>1, <3>2, <4>1, <4>2, SyncInv DEF SyncInv
    <3>. QED BY ONLY <1>1, <2>1, <3>3, <3>4, <3>6, <3>8, <3>9, <3>10 DEF SyncInv
  <2>. QED BY <2>2, <2>3
<1>3. CASE TakeTime
  <2>1. /\ showPc = "time" /\ que_timestamp # <<>> /\ showPc' = "queue"
        /\ que_timestamp' = Tail(que_timestamp)
        /\ UNCHANGED <<codecType, can_send_box, parserPc, unit, isfirst, decoder>>
    BY <1>3 DEF TakeTime, EnoughInv, parserVars, serveVars
  <2>2. /\ q >= 1 /\ Len(que_timestamp') = q - 1
        /\ DOMAIN que_timestamp' = 1 .. q - 1
        /\ \A i \in 1 .. q - 1 : que_timestamp'[i] = que_timestamp[i + 1]
    <3>1. que_timestamp \in Seq(Units)
      BY <1>0 DEF Queues
    <3>. QED BY ONLY <2>1, <3>1
  <2>3. /\ \A i : Wait(i) = IF i = 1 THEN shown.frame ELSE decoder.pics[i - 1]
        /\ \A i : Wait(i)' = decoder.pics[i]
    BY ONLY <2>1 DEF Wait
  <2>4. LenWaits = n + 1 /\ LenWaits' = n + 0 /\ StampDue' = StampDue
    BY ONLY <2>1 DEF LenWaits, StampDue, TimeWanted
  <2>5. /\ LenTimes = IF StampDue THEN q + 1 ELSE q
        /\ LenTimes' = IF StampDue THEN q ELSE q - 1
    BY ONLY <1>1, <2>1, <2>2, <2>4 DEF LenTimes
  <2> HIDE DEF n, q
  <2>6. \A i \in Nat \ {0} : Wait(i)' = Wait(i + 1)
    <3> TAKE i \in Nat \ {0}
    <3>1. i + 1 # 1 /\ i + 1 - 1 = i
      OBVIOUS
    <3>. QED BY ONLY <2>3, <3>1
  <2>7. ASSUME can_send_box
        PROVE  \A i \in DOMAIN que_timestamp' : que_timestamp'[i] = Wait(i)'
    <3>1. \A i \in 1 .. q - 1 : i \in Nat \ {0} /\ i + 1 \in 1 .. q
      BY ONLY <1>1
    <3>. QED BY ONLY <1>1, <2>2, <2>6, <2>7, <3>1, SyncInv DEF SyncInv
  <2>8. ASSUME can_send_box, StampDue PROVE Wait(LenTimes)' = unit
    <3>1. LenTimes = q + 1 /\ LenTimes' = q /\ q # 0
      BY ONLY <1>1, <2>2, <2>5, <2>8
    <3>2. Wait(q + 1) = unit
      BY ONLY <2>8, <3>1, SyncInv DEF SyncInv
    <3>3. Wait(q + 1) = decoder.pics[q]
      BY ONLY <1>1, <2>3, <3>1
    <3>. QED BY ONLY <2>1, <3>1, <3>2, <3>3 DEF Wait
  <2>9. can_send_box => LenWaits' = LenTimes'
    <3>1. can_send_box => n + 1 = IF StampDue THEN q + 1 ELSE q
      BY ONLY <2>4, <2>5, SyncInv DEF SyncInv
    <3>. QED BY ONLY <1>1, <2>4, <2>5, <3>1
  <2>. QED BY ONLY <2>1, <2>4, <2>7, <2>8, <2>9 DEF SyncInv
<1>4. CASE QueuePic
  <2>1. /\ showPc = "queue" /\ showPc' = "idle"
        /\ UNCHANGED <<codecType, can_send_box, parserPc, unit, isfirst, que_timestamp,
                       decoder>>
    BY <1>4 DEF QueuePic, serveVars, parserVars
  <2>2. LenWaits' = LenWaits /\ LenTimes' = LenTimes /\ StampDue' = StampDue
    BY ONLY <2>1 DEF LenWaits, LenTimes, StampDue, TimeWanted
  <2>3. \A i : Wait(i)' = Wait(i)
    BY ONLY <2>1 DEF Wait
  <2>4. StampDue => Wait(LenTimes)' = Wait(LenTimes)
    BY ONLY <2>1, <2>2 DEF Wait
  <2>. QED BY ONLY <2>1, <2>2, <2>3, <2>4, SyncInv DEF SyncInv
<1>. QED BY <1>2, <1>3, <1>4 DEF Shower

(* A picture takes the timestamp SyncInv says is its own.                  *)
LEMMA OwnStep ==
  ASSUME TypeOK, SyncInv, OwnInv, [Next]_vars PROVE OwnInv'
<1>0. Queues
  BY QueueTypes
<1>1. CASE TakeTime
  <2>1. CASE que_timestamp = <<>>
    BY <1>1, <2>1 DEF TakeTime, SyncInv
  <2>2. CASE que_timestamp # <<>>
    <3>1. Head(que_timestamp) = shown.frame
      BY <1>0, <1>1, <2>2 DEF TakeTime, SyncInv, Queues
    <3>2. shown' = [shown EXCEPT !.pic_id = Head(que_timestamp)]
      BY <1>1, <2>2 DEF TakeTime
    <3>3. shown'.pic_id = shown'.frame
      BY <1>0, <3>1, <3>2 DEF Queues, Pic
    <3>4. UNCHANGED <<handed, pic_queue>>
      BY <1>1 DEF TakeTime, outVars
    <3>. QED BY ONLY OwnInv, <3>3, <3>4 DEF OwnInv, Own
  <2>. QED BY <2>1, <2>2
<1>2. CASE QueuePic
  <2> DEFINE kept == IF Len(pic_queue) > 1 THEN Tail(pic_queue) ELSE pic_queue
  <2>1. /\ Own(shown) /\ pic_queue' = Append(kept, shown)
        /\ showPc' = "idle" /\ handed' = handed
    BY <1>2 DEF QueuePic, OwnInv, outVars
  <2>2. kept \in Seq(Pic) /\ \A i \in DOMAIN kept : Own(kept[i])
    <3>1. CASE Len(pic_queue) > 1
      <4>1. kept = Tail(pic_queue) /\ kept \in Seq(Pic)
            /\ \A i \in DOMAIN kept : kept[i] = pic_queue[i + 1]
                                      /\ i + 1 \in DOMAIN pic_queue
        BY <1>0, <3>1 DEF Queues
      <4> HIDE DEF kept
      <4>. QED BY ONLY OwnInv, <4>1 DEF OwnInv
    <3>2. CASE ~(Len(pic_queue) > 1)
      BY <1>0, <3>2 DEF Queues, OwnInv
    <3>. QED BY <3>1, <3>2
  <2> HIDE DEF kept
  <2>3. \A i \in DOMAIN pic_queue' : pic_queue'[i] = shown
                                     \/ (i \in DOMAIN kept /\ pic_queue'[i] = kept[i])
    BY <1>0, <2>1, <2>2 DEF Queues
  <2>. QED BY ONLY OwnInv, <2>1, <2>2, <2>3 DEF OwnInv, Own
<1>3. CASE Input
  <2>1. /\ handed' = pic_queue[1] /\ 1 \in DOMAIN pic_queue /\ UNCHANGED <<showPc, shown>>
        /\ \A i \in DOMAIN pic_queue' : /\ pic_queue'[i] = pic_queue[i + 1]
                                        /\ i + 1 \in DOMAIN pic_queue
    BY <1>0, <1>3 DEF Input, Queues, showVars
  <2>. QED BY ONLY OwnInv, <2>1 DEF OwnInv, Own
<1>4. CASE DrainPics
  <2>1. pic_queue' = <<>> /\ UNCHANGED <<showPc, shown, handed>>
    BY <1>4 DEF DrainPics, showVars, outVars
  <2>. QED BY ONLY OwnInv, <2>1 DEF OwnInv, Own
<1>5. CASE Show
  <2>1. showPc' # "queue" /\ UNCHANGED <<handed, pic_queue>>
    BY <1>5 DEF Show, outVars, showVars
  <2>. QED BY ONLY OwnInv, <2>1 DEF OwnInv, Own
<1>6. CASE Parser \/ Answer \/ Accept \/ BoxRequest \/ Disconnect \/ RestartClose
           \/ RestartOpen \/ FirstAgain \/ DrainTimes \/ UNCHANGED vars
  <2>1. UNCHANGED <<showPc, shown, handed, pic_queue>>
    BY <1>6 DEF Parser, Gate, Push, Stamp, Mark, Answer, Accept, BoxRequest,
                Disconnect, RestartClose, RestartOpen, FirstAgain, DrainTimes, vars,
                showVars, outVars
  <2>. QED BY ONLY OwnInv, <2>1 DEF OwnInv, Own
<1>. QED BY <1>1, <1>2, <1>3, <1>4, <1>5, <1>6 DEF Next, Server, Clear, Shower

(* What holds as long as the sessions do not overlap.                      *)
QuietInv == mixed = {} => StartInv /\ SyncInv /\ OwnInv

LEMMA QuietStep ==
  TypeOK /\ SessionInv /\ EnoughInv /\ QuietInv /\ EnoughInv' /\ [Next]_vars
    => QuietInv'
<1> SUFFICES ASSUME TypeOK, SessionInv, EnoughInv, QuietInv, EnoughInv',
                    [Next]_vars, mixed' = {}
             PROVE  StartInv' /\ SyncInv' /\ OwnInv'
  BY DEF QuietInv
<1>1. mixed = {}
  BY DEF Next, Server, Accept, BoxRequest, Disconnect, Clear, RestartClose,
         RestartOpen, DrainPics, FirstAgain, DrainTimes,
         Mixing, Parser, Gate, Push, Stamp, Mark,
         Shower, Show, TakeTime, QueuePic, Input, Answer, vars
<1>2. StartInv /\ SyncInv /\ OwnInv
  BY <1>1 DEF QuietInv
<1>3. StartInv'
  BY <1>2, ServerStart, ParserStart, OtherStart DEF Next
<1>4. CASE Input \/ Answer \/ UNCHANGED vars
  <2>1. UNCHANGED <<codecType, can_send_box, parserPc, unit, isfirst, que_timestamp,
                    decoder, showPc, shown>>
    BY <1>4 DEF Input, Answer, vars, serveVars, parserVars, showVars
  <2>2. LenTimes' = LenTimes /\ StampDue' = StampDue
    BY ONLY <2>1 DEF LenTimes, StampDue, TimeWanted
  <2>3. SyncInv'
    BY ONLY <1>2, <2>1, <2>2, SyncStays
  <2>. QED BY <1>2, <1>3, <2>3, OwnStep
<1>5. CASE Next /\ ~(Input \/ Answer)
  BY <1>2, <1>3, <1>5, ServerSync, ParserSync, ShowerSync, OwnStep DEF Next
<1>. QED BY <1>4, <1>5

-----------------------------------------------------------------------------
(* The theorems.                                                           *)

(* The invariant, whatever the decoder holds back.                         *)
IInv == TypeOK /\ UnitInv /\ SessionInv /\ FlowInv /\ FrameInv

LEMMA Inductive == Spec => []IInv
<1>1. Init => IInv
  BY InitType, InitSession, InitFlow, InitFrame DEF IInv
<1>2. IInv /\ [Next]_vars => IInv'
  BY TypeInv, SessionStep, FlowStep, FrameStep DEF IInv
<1>. QED BY <1>1, <1>2, PTL DEF Spec

(* The part that rests on the decoder keeping a picture back.              *)
LEMMA QuietInductive == DELAY >= 1 => (Spec => [](IInv /\ EnoughInv /\ QuietInv))
<1> SUFFICES ASSUME DELAY >= 1 PROVE Spec => [](IInv /\ EnoughInv /\ QuietInv)
  OBVIOUS
<1> DEFINE J == EnoughInv /\ QuietInv
<1>1. Init => J
  BY InitEnough, InitStart, InitSync DEF QuietInv
<1>2. IInv /\ J /\ [Next]_vars => J'
  <2>1. IInv /\ J /\ [Next]_vars => EnoughInv'
    BY EnoughStep DEF IInv
  <2>. QED BY <2>1, QuietStep DEF IInv
<1>. QED BY <1>1, <1>2, Inductive, PTL DEF Spec

(* Every variable of the pipeline keeps its type: pic_queue holds two      *)
(* pictures, the device no more than HOLD.                                 *)
THEOREM TypeCorrect == Spec => []TypeOK
<1>1. IInv => TypeOK
  BY DEF IInv
<1>. QED BY <1>1, Inductive, PTL

(* clear() of main.cpp, without a lock, meets no thread that passed        *)
(* canSendBox for the client being served, and no callback once the old    *)
(* decoder is closed.                                                      *)
THEOREM OnlyStragglers == Spec => []ClearMeetsOnlyStragglers
<1>1. IInv => ClearMeetsOnlyStragglers
  BY DEF IInv, SessionInv, ClearMeetsOnlyStragglers, Clearing
<1>. QED BY <1>1, Inductive, PTL

(* Over any number of clients, the pictures that wait while one is served  *)
(* come from the decoder opened for it.                                    *)
THEOREM OwnPictures == Spec => []NoPictureOfAnEarlierClient
<1>1. IInv => NoPictureOfAnEarlierClient
  <2> SUFFICES ASSUME IInv, servePc = "serve", session > 1, NEW p \in Range(pic_queue)
               PROVE  p.from = session
    BY DEF NoPictureOfAnEarlierClient
  <2>1. PICK i \in DOMAIN pic_queue : p = pic_queue[i]
    BY DEF Range
  <2>. QED BY <2>1 DEF IInv, SessionInv
<1>. QED BY <1>1, Inductive, PTL

(* input_thread_fromvcu hands the pictures over in stream order for ever,  *)
(* whatever clear() or the queue of two dropped between.                   *)
THEOREM InOrder == Spec => HandedInOrder
<1>1. IInv /\ [Next]_vars => (handed' # handed => handed'.frame > handed.frame)
  <2> SUFFICES ASSUME IInv, [Next]_vars, handed' # handed
               PROVE  handed'.frame > handed.frame
    OBVIOUS
  <2>1. Input
    BY DEF Next, Server, Accept, BoxRequest, Disconnect, Clear, RestartClose,
           RestartOpen, DrainPics, FirstAgain, DrainTimes,
           Parser, Gate, Push, Stamp, Mark,
           Shower, Show, TakeTime, QueuePic, Answer, vars, outVars
  <2>2. handed' = pic_queue[1] /\ 1 \in DOMAIN pic_queue
    BY <2>1 DEF Input, IInv, TypeOK
  <2>3. handed.frame < pic_queue[1].frame
    BY <2>2 DEF IInv, FrameInv
  <2>4. handed.frame \in Int /\ handed'.frame \in Int
    BY <2>2, FrameTypes DEF IInv, Frames
  <2>. QED BY ONLY <2>2, <2>3, <2>4
<1>2. (handed' # handed => handed'.frame > handed.frame) <=>
      [handed' # handed => handed'.frame > handed.frame]_vars
  BY DEF vars, outVars
<1>. QED BY <1>1, <1>2, Inductive, PTL DEF Spec, HandedInOrder

(* Of the answers one client gets, those from pictures of earlier clients, *)
(* which fpga_callback cannot tell apart, come before all of its own.      *)
THEOREM StrangersBefore == Spec => StrangersOnlyFirst
<1>1. IInv /\ [Next]_vars => answered'.from >= answered.from
  <2> SUFFICES ASSUME IInv, [Next]_vars PROVE answered'.from >= answered.from
    OBVIOUS
  <2>1. answered.from \in Int
    BY DEF IInv, TypeOK
  <2>2. CASE Answer
    <3>1. device[1] = Head(device) /\ 1 \in DOMAIN device /\ device[1] \in Int
      <4>1. device \in Seq(-1 .. MaxSessions) /\ device # <<>> /\ MaxSessions \in Nat
        BY <2>2, ConstantsAssumption DEF Answer, IInv, TypeOK
      <4>. QED BY ONLY <4>1
    <3>2. answered.from <= device[1]
      BY <3>1 DEF IInv, FlowInv
    <3>3. answered' = answered \/ answered'.from = device[1]
      BY <2>2, <3>1 DEF Answer
    <3>. QED BY ONLY <2>1, <3>1, <3>2, <3>3
  <2>3. CASE ~Answer
    <3>1. answered' = answered
      BY <2>3 DEF Next, Server, Accept, BoxRequest, Disconnect, Clear, RestartClose,
             RestartOpen, DrainPics, FirstAgain, DrainTimes,
             Parser, Gate, Push, Stamp, Mark,
             Shower, Show, TakeTime, QueuePic, Input, vars, outVars
    <3>. QED BY ONLY <2>1, <3>1
  <2>. QED BY <2>2, <2>3
<1>2. (answered'.from >= answered.from) =>
      [answered'.to = answered.to => answered'.from >= answered.from]_answered
  OBVIOUS
<1>. QED BY <1>1, <1>2, Inductive, PTL DEF Spec, StrangersOnlyFirst

(* The assert of vcu_callback: as long as the decoder keeps one picture    *)
(* back, a timestamp is queued for every picture it shows, whatever        *)
(* stragglers and reconnections do to que_timestamp.                       *)
THEOREM NoAssert == DELAY >= 1 => (Spec => []TimestampFound)
<1>1. EnoughInv => TimestampFound
  BY DEF EnoughInv, TimestampFound
<1>. QED BY <1>1, QuietInductive, PTL

(* While sessions do not overlap, a decoder restarted by clear() sees a    *)
(* parameter set before anything else.                                     *)
THEOREM ParamSetFirst == DELAY >= 1 => (Spec => []DecoderStartsAtParamSet)
<1>1. QuietInv => DecoderStartsAtParamSet
  BY DEF QuietInv, StartInv, DecoderStartsAtParamSet
<1>. QED BY <1>1, QuietInductive, PTL

(* While sessions do not overlap, every picture that waits for the FPGA or *)
(* was handed over carries the timestamp of its own packets.               *)
THEOREM OwnTimes == DELAY >= 1 => (Spec => []PicturesKeepTheirTime)
<1>1. QuietInv => PicturesKeepTheirTime
  <2> SUFFICES ASSUME QuietInv, mixed = {}, NEW p \in Range(pic_queue) \cup {handed}
               PROVE  p.pic_id = p.frame
    BY DEF PicturesKeepTheirTime
  <2>1. OwnInv
    BY DEF QuietInv
  <2>2. CASE p = handed
    BY <2>1, <2>2 DEF OwnInv, Own
  <2>3. CASE p \in Range(pic_queue)
    <3>1. PICK i \in DOMAIN pic_queue : p = pic_queue[i]
      BY <2>3 DEF Range
    <3>. QED BY <2>1, <3>1 DEF OwnInv, Own
  <2>. QED BY <2>2, <2>3
<1>. QED BY <1>1, QuietInductive, PTL
=============================================================================
