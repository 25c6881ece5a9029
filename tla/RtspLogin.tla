----------------------------- MODULE RtspLogin -----------------------------
(***************************************************************************)
(* RtspDataManager: the login to the camera, from OPTIONS to PLAY.         *)
(*                                                                         *)
(*   main                login() and play(): send a request, wait on       *)
(*                       sem_tcpmsg, look at what the parser left          *)
(*   receive_tcp_thread  parses each read of the connection by itself and  *)
(*                       posts sem_tcpmsg once for it                      *)
(*   the camera          external: answers requests in order, protects     *)
(*                       some of them, may speak unasked, may go away      *)
(*                                                                         *)
(* TCP is a stream: an answer is a sequence of the words parser() looks    *)
(* for, and a read returns any non-empty prefix of what has arrived.       *)
(***************************************************************************)
EXTENDS Integers, Sequences, FiniteSets

CONSTANT MaxUpset   \* bound: how often each of Upsets may happen

Upsets == {"cut", "unasked", "rolled"}
ASSUME UpsetsAssumption == MaxUpset \in [Upsets -> Nat]

VARIABLES
  mainPc,         \* <<"send", "wait", "ports" or "done", step>>, see Method
  is_certifed,    \* local of login(): need_certify when DESCRIBE was made
  codecType,      \* what login() returned
  need_certify, NONECE, SESSION, TRACK, TYPE, RTCP_SERVER_PORT,
  isfirst,        \* static of parser(): no challenge was taken yet
  isfirst2,       \* static of parser(): no session was taken yet
  sem_tcpmsg,
  tcpPc, got,     \* where receive_tcp_thread is, what it has read
  asked,          \* requests on their way to the camera
  wire,           \* words on their way to receive_tcp_thread
  camera,         \* what it protects and how it answers, its nonce, ...
  aborted,        \* a FSERVO_CHECK failed, the process is over
  taken, answered,  \* history: waits main has passed, answers fully parsed
  upset           \* history: how often each of Upsets has happened

mainVars   == <<mainPc, is_certifed, codecType>>
parsed     == <<need_certify, NONECE, SESSION, TRACK, TYPE, RTCP_SERVER_PORT,
                isfirst, isfirst2>>
vars == <<mainVars, parsed, sem_tcpmsg, tcpPc, got, asked, wire, camera,
          aborted, taken, answered, upset>>

(* The requests of login() and play() in their order; the two that may be  *)
(* repeated with an Authorization come again.                              *)
Method == <<"OPTIONS", "OPTIONS", "DESCRIBE", "DESCRIBE", "SETUP", "PLAY">>

Init ==
  /\ mainPc = <<"send", 1>> /\ is_certifed = FALSE /\ codecType = "H264"
  /\ need_certify = FALSE /\ NONECE = 0 /\ SESSION = FALSE /\ TRACK = FALSE
  /\ TYPE = "H264" /\ RTCP_SERVER_PORT = FALSE
  /\ isfirst = TRUE /\ isfirst2 = TRUE
  /\ sem_tcpmsg = 0 /\ tcpPc = "read" /\ got = <<>>
  /\ asked = <<>> /\ wire = <<>>
  /\ \E k \in 1..7, swap \in BOOLEAN, codec \in {"H264", "H265"} :
       camera = [protects |-> {Method[i] : i \in k..6}, swap |-> swap,
                 codec |-> codec, nonce |-> 1, streams |-> FALSE, on |-> TRUE]
  /\ aborted = FALSE
  /\ taken = 0 /\ answered = 0 /\ upset = [u \in Upsets |-> 0]

Upset(u) == upset[u] < MaxUpset[u] /\ upset' = [upset EXCEPT ![u] = @ + 1]

-----------------------------------------------------------------------------
(* The camera.  The last word of an answer ends one request, the last word *)
(* of a message sent unasked ends none.                                    *)

Message(words, ends) ==
  [i \in DOMAIN words |->
     [word |-> words[i], nonce |-> camera.nonce,
      last |-> i = Len(words), ends |-> IF i = Len(words) THEN ends ELSE 0]]

Refuses(r) == r.method \in camera.protects /\ r.nonce # camera.nonce

Reply(r) ==
  IF Refuses(r) THEN <<"Unauthorized", "nonce">>
  ELSE CASE r.method = "DESCRIBE" -> IF camera.swap
                                     THEN <<"v=", "track", camera.codec>>
                                     ELSE <<"v=", camera.codec, "track">>
         [] r.method = "SETUP"    -> IF camera.swap
                                     THEN <<"server_port", "Session">>
                                     ELSE <<"Session", "server_port">>
         [] r.method = "PLAY"     -> <<"ok", "Session">>
         [] OTHER                 -> <<"ok", "Public">>

Answer ==
  /\ camera.on /\ asked # <<>>
  /\ LET r == Head(asked) IN
       /\ wire' = wire \o Message(Reply(r), 1)
       /\ camera' = [camera EXCEPT
                       !.streams = @ \/ (r.method = "PLAY" /\ ~Refuses(r))]
  /\ asked' = Tail(asked)
  /\ UNCHANGED <<mainVars, parsed, sem_tcpmsg, tcpPc, got, aborted, taken,
                 answered, upset>>

Unasked ==
  /\ camera.on /\ Upset("unasked")
  /\ wire' = wire \o Message(<<"ok">>, 0)
  /\ UNCHANGED <<mainVars, parsed, sem_tcpmsg, tcpPc, got, asked, camera,
                 aborted, taken, answered>>

(* The camera no longer takes the nonce it has handed out.                 *)
RollNonce ==
  /\ NONECE = camera.nonce /\ Upset("rolled")
  /\ camera' = [camera EXCEPT !.nonce = @ + 1]
  /\ UNCHANGED <<mainVars, parsed, sem_tcpmsg, tcpPc, got, asked, wire,
                 aborted, taken, answered>>

(* The connection breaks; what has arrived can still be read.              *)
HangUp ==
  /\ camera.on
  /\ camera' = [camera EXCEPT !.on = FALSE, !.streams = FALSE]
  /\ UNCHANGED <<mainVars, parsed, sem_tcpmsg, tcpPc, got, asked, wire,
                 aborted, taken, answered, upset>>

-----------------------------------------------------------------------------
(* main: login() and play().                                               *)

Sending(k) == ~aborted /\ mainPc = <<"send", k>>

(* The checks get_setup_msg and get_play_msg make before they write.       *)
Makeable(k) == /\ Method[k] = "SETUP" => TRACK
               /\ Method[k] = "PLAY"  => SESSION

(* Mutant: PLAY goes out without an Authorization. *)
WithAuthor_NotPlay(k) ==
  CASE k \in {1, 6} -> FALSE [] k = 3 -> need_certify [] OTHER -> TRUE

(* OPTIONS goes out bare at first, DESCRIBE as need_certify says when it   *)
(* is made, the rest always with the nonce, if there is one.               *)
WithAuthor(k) == CASE k = 1 -> FALSE [] k = 3 -> need_certify [] OTHER -> TRUE

(* The digest of calResponse is good for the nonce it was made with.       *)
Response(k) == IF WithAuthor(k) THEN NONECE ELSE 0

(* A request written to a connection that is gone may still be taken by    *)
(* the socket.                                                             *)
Send(k) ==
  /\ Sending(k) /\ Makeable(k)
  /\ asked' = IF camera.on
                THEN Append(asked,
                            [method |-> Method[k], nonce |-> Response(k)])
                ELSE asked
  /\ is_certifed' = IF k = 3 THEN need_certify ELSE is_certifed
  /\ mainPc' = <<"wait", k>>
  /\ UNCHANGED <<codecType, parsed, sem_tcpmsg, tcpPc, got, wire, camera,
                 aborted, taken, answered, upset>>

(* A failed check, or a write that fails.                                  *)
SendAborts(k) ==
  /\ Sending(k) /\ (~Makeable(k) \/ ~camera.on)
  /\ aborted' = TRUE
  /\ UNCHANGED <<mainVars, parsed, sem_tcpmsg, tcpPc, got, asked, wire,
                 camera, taken, answered, upset>>

(* Mutant: DESCRIBE is not repeated after its challenge. *)
After_NoRetry(k) ==
  CASE k \in {1, 2} -> <<"send", IF k = 1 /\ need_certify THEN 2 ELSE 3>>
    [] k \in {3, 4} -> <<"send", 5>>
    [] k = 5        -> <<"send", 6>>
    [] k = 6        -> <<"ports", 6>>

After(k) ==
  CASE k \in {1, 2} -> <<"send", IF k = 1 /\ need_certify THEN 2 ELSE 3>>
    [] k \in {3, 4} -> <<"send", IF k = 3 /\ need_certify /\ ~is_certifed THEN 4 ELSE 5>>
    [] k = 5        -> <<"send", 6>>
    [] k = 6        -> <<"ports", 6>>

(* Mutant: the codec is taken after the first DESCRIBE. *)
Wait_EarlyCodec(k) ==
  /\ ~aborted /\ mainPc = <<"wait", k>> /\ sem_tcpmsg > 0
  /\ sem_tcpmsg' = sem_tcpmsg - 1
  /\ taken' = taken + 1
  /\ mainPc' = After(k)
  /\ codecType' = IF k = 3 THEN TYPE ELSE codecType
  /\ UNCHANGED <<is_certifed, parsed, tcpPc, got, asked, wire, camera,
                 aborted, answered, upset>>

(* Mutant: main goes on when it has waited long enough. *)
Wait_TimesOut(k) ==
  /\ ~aborted /\ mainPc = <<"wait", k>>
  /\ sem_tcpmsg' = IF sem_tcpmsg > 0 THEN sem_tcpmsg - 1 ELSE 0
  /\ taken' = taken + 1
  /\ mainPc' = After(k)
  /\ codecType' = IF k = 5 THEN TYPE ELSE codecType
  /\ UNCHANGED <<is_certifed, parsed, tcpPc, got, asked, wire, camera,
                 aborted, answered, upset>>

(* sem_wait returns.  After SETUP login() returns TYPE as it is.           *)
Wait(k) ==
  /\ ~aborted /\ mainPc = <<"wait", k>> /\ sem_tcpmsg > 0
  /\ sem_tcpmsg' = sem_tcpmsg - 1
  /\ taken' = taken + 1
  /\ mainPc' = After(k)
  /\ codecType' = IF k = 5 THEN TYPE ELSE codecType
  /\ UNCHANGED <<is_certifed, parsed, tcpPc, got, asked, wire, camera,
                 aborted, answered, upset>>

(* play() opens the report socket on the port SETUP was answered with.     *)
OpenReports ==
  /\ ~aborted /\ mainPc = <<"ports", 6>>
  /\ IF RTCP_SERVER_PORT THEN mainPc' = <<"done", 6>> /\ UNCHANGED aborted
                         ELSE aborted' = TRUE /\ UNCHANGED mainPc
  /\ UNCHANGED <<is_certifed, codecType, parsed, sem_tcpmsg, tcpPc, got,
                 asked, wire, camera, taken, answered, upset>>

-----------------------------------------------------------------------------
(* receive_tcp_thread and parser().                                        *)

Words    == {got[i].word : i \in DOMAIN got}
Nonces   == {got[i].nonce : i \in {j \in DOMAIN got : got[j].word = "nonce"}}
Codecs   == Words \cap {"H264", "H265"}
At(pc)   == ~aborted /\ tcpPc = pc
Parsing(next) ==
  /\ tcpPc' = next
  /\ UNCHANGED <<mainVars, sem_tcpmsg, got, asked, wire, camera, taken,
                 answered, upset>>

Read ==
  /\ At("read")
  /\ \E n \in 1..Len(wire) :
       /\ got' = SubSeq(wire, 1, n)
       /\ wire' = SubSeq(wire, n + 1, Len(wire))
       /\ IF wire[n].last THEN UNCHANGED upset ELSE Upset("cut")
  /\ tcpPc' = "parse"
  /\ UNCHANGED <<mainVars, parsed, sem_tcpmsg, asked, camera, aborted, taken,
                 answered>>

Challenged == "Unauthorized" \in Words /\ isfirst

(* The first challenge: need_certify is up before the nonce is found.      *)
ParseChallenge ==
  /\ At("parse") /\ Challenged
  /\ isfirst' = FALSE /\ need_certify' = TRUE
  /\ Parsing("nonce")
  /\ UNCHANGED <<NONECE, SESSION, TRACK, TYPE, RTCP_SERVER_PORT, isfirst2,
                 aborted>>

(* Mutant: the thread reads on without a post. *)
ParseNonce_NoPost ==
  /\ At("nonce")
  /\ IF Nonces = {} THEN aborted' = TRUE /\ UNCHANGED NONECE
                    ELSE NONECE' \in Nonces /\ UNCHANGED aborted
  /\ Parsing("read")
  /\ UNCHANGED <<need_certify, SESSION, TRACK, TYPE, RTCP_SERVER_PORT,
                 isfirst, isfirst2>>

(* The nonce of the challenge; a read that was cut before it is not        *)
(* completed by the next.                                                  *)
ParseNonce ==
  /\ At("nonce")
  /\ IF Nonces = {} THEN aborted' = TRUE /\ UNCHANGED NONECE
                    ELSE NONECE' \in Nonces /\ UNCHANGED aborted
  /\ Parsing("post")
  /\ UNCHANGED <<need_certify, SESSION, TRACK, TYPE, RTCP_SERVER_PORT,
                 isfirst, isfirst2>>

(* The first answer with a session; its port is looked for in this read.   *)
ParseSession ==
  /\ At("parse") /\ ~Challenged /\ "Session" \in Words /\ isfirst2
  /\ isfirst2' = FALSE /\ SESSION' = TRUE
  /\ RTCP_SERVER_PORT' = (RTCP_SERVER_PORT \/ "server_port" \in Words)
  /\ Parsing("post")
  /\ UNCHANGED <<need_certify, NONECE, TRACK, TYPE, isfirst, aborted>>

(* Anything else: a description counts only if one read holds all of it.   *)
(* A second challenge ends up here, and does nothing.                      *)
ParseOther ==
  /\ At("parse") /\ ~Challenged /\ ~("Session" \in Words /\ isfirst2)
  /\ IF {"v=", "track"} \subseteq Words
       THEN /\ TRACK' = TRUE
            /\ TYPE' \in IF Codecs = {} THEN {TYPE} ELSE Codecs
       ELSE UNCHANGED <<TRACK, TYPE>>
  /\ Parsing("post")
  /\ UNCHANGED <<need_certify, NONECE, SESSION, RTCP_SERVER_PORT, isfirst,
                 isfirst2, aborted>>

(* Mutant: both parser() and the thread post. *)
Post_Twice ==
  /\ At("post")
  /\ sem_tcpmsg' = sem_tcpmsg + 2
  /\ answered' = answered + Cardinality({i \in DOMAIN got : got[i].ends = 1})
  /\ got' = <<>> /\ tcpPc' = "read"
  /\ UNCHANGED <<mainVars, parsed, asked, wire, camera, aborted, taken, upset>>

(* sem_post, whatever the message was.                                     *)
Post ==
  /\ At("post")
  /\ sem_tcpmsg' = sem_tcpmsg + 1
  /\ answered' = answered + Cardinality({i \in DOMAIN got : got[i].ends = 1})
  /\ got' = <<>> /\ tcpPc' = "read"
  /\ UNCHANGED <<mainVars, parsed, asked, wire, camera, aborted, taken, upset>>

-----------------------------------------------------------------------------
Camera == Answer \/ Unasked \/ RollNonce \/ HangUp
Main   == \/ \E k \in DOMAIN Method : Send(k) \/ SendAborts(k) \/ Wait(k)
          \/ OpenReports
Tcp    == \/ Read \/ ParseChallenge \/ ParseNonce \/ ParseSession
          \/ ParseOther \/ Post
Next == Camera \/ Main \/ Tcp

Spec == Init /\ [][Next]_vars

(* Threads are scheduled; a camera that stays connected answers.           *)
FairSpec == Spec /\ WF_vars(Main) /\ WF_vars(Tcp) /\ WF_vars(Answer)

-----------------------------------------------------------------------------
Played    == mainPc = <<"done", 6>>
Never(us) == \A u \in us : upset[u] = 0

(* receive_tcp_thread posts the semaphore once a read (rtspDataManager.cpp *)
(* :242), and main takes a post for the answer to its last request.  That  *)
(* is so while every answer is read whole and nothing is sent unasked.     *)
AnswersAwaited == Never({"cut", "unasked"}) => taken <= answered

(* The checks of login(), play() and parser() hold, unless an answer was   *)
(* cut, a message came unasked, a nonce was given up, the connection       *)
(* broke, or the first request the camera protects is SETUP, which is not  *)
(* repeated after a challenge.                                             *)
ChecksHold ==
  aborted => \/ ~Never(Upsets) \/ ~camera.on
             \/ camera.protects = {"SETUP", "PLAY"}

(* login() returns the codec the camera described: only a description cut  *)
(* after the track can leave TYPE as the program started, H264.            *)
CodecKnown == mainPc[2] = 6 =>
                 codecType = camera.codec \/ upset["cut"] > 0

(* When play() is over the camera plays, if nothing went wrong and PLAY is *)
(* not the first request it protects.                                      *)
PlayedIsPlaying ==
  Played /\ Never(Upsets) /\ camera.on =>
    camera.streams \/ camera.protects = {"PLAY"}

(* Cut answers and unasked messages put main ahead of the camera, but a    *)
(* login that gets through is played in the end.                           *)
PlayedWillPlay ==
  Played /\ camera.protects # {"PLAY"} ~>
    camera.streams \/ ~camera.on \/ upset["rolled"] > 0

(* login() and play() come to an end: no request waits for ever while the  *)
(* camera answers.                                                         *)
LoginEnds == <>(Played \/ aborted \/ ~camera.on)

TypeOK ==
  /\ sem_tcpmsg \in Nat /\ taken \in Nat /\ answered \in Nat
  /\ mainPc \in {"send", "wait", "ports", "done"} \X DOMAIN Method
  /\ tcpPc \in {"read", "parse", "nonce", "post"}
  /\ taken + sem_tcpmsg <= answered + upset["cut"] + upset["unasked"]
  /\ upset \in [Upsets -> Nat]

(* login(), play() and parser() (rtspDataManager.cpp) stay in step with    *)
(* the camera: main acts on the answer to its own last request, none of    *)
(* its checks fails, and what it hands on, the codec and a stream that     *)
(* plays, is what the camera has.                                          *)
LoginInStep ==
  /\ TypeOK
  /\ AnswersAwaited
  /\ ChecksHold
  /\ CodecKnown
  /\ PlayedIsPlaying

(* The login comes to an end, and an end that was reached is a camera that *)
(* streams: neither a lost step with the camera nor a refused request      *)
(* leaves main waiting, or finished with nothing to come.                  *)
LoginCompletes == LoginEnds /\ PlayedWillPlay
=============================================================================
