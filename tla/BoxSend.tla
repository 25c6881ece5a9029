------------------------------ MODULE BoxSend ------------------------------
(***************************************************************************)
(* src/dataSend.cpp: boxes to the client over one TCP connection.          *)
(*                                                                         *)
(*   receive_thread  accepts a client, reads its requests, answers         *)
(*                   STREAMPARAM itself, starts over when it leaves        *)
(*   sendBox         runs in the FPGA's output thread: it cuts a picture's *)
(*                   boxes into packets and writes them to whatever        *)
(*                   connection the socket has at that moment              *)
(*                                                                         *)
(* The threads share can_send_box and the descriptor socketfd_connect,     *)
(* without a lock.  A write to a client that is gone may end the process,  *)
(* as nobody catches SIGPIPE.  One write is one packet, but TCP may bring  *)
(* a request in two parts, here two halves; a read takes what has arrived, *)
(* up to a request's length, and does not wait for the rest.               *)
(***************************************************************************)
EXTENDS Integers, Sequences, Functions

CONSTANTS
  PER_PACKET,  \* boxes in a full packet, 42
  Nums,        \* numbers of boxes a picture may have
  MaxClients,  \* bound: clients served
  MaxPics,     \* bound: pictures answered
  MaxAsks      \* bound: requests sent

ASSUME ConstantsAssumption ==
  /\ PER_PACKET \in Nat \ {0} /\ Nums \subseteq Nat
  /\ MaxClients \in Nat /\ MaxPics \in Nat /\ MaxAsks \in Nat

VARIABLES
  servePc,       \* where receive_thread is
  can_send_box,
  client,        \* clients accepted so far, the last is the current one
  line,          \* socketfd_connect: "none", "open", "left" or "reset"
  not_first,     \* waitBeConnected has returned before
  requests,      \* requests the current client sent, not yet read to the end
  taken,         \* halves read of the first of them
  coming,        \* halves of the last that have not arrived
  sendPc,        \* where sendBox is
  pic,           \* the picture being sent, its number of boxes
  i,             \* sendBox's packet counter
  begun,         \* the client connected when sendBox was called
  received,      \* the packets written to each client
  killed,        \* the process has ended, by SIGPIPE or an assert
  asked,         \* history: clients that sent a BOX request
  asks,          \* history: requests sent
  mixed,         \* history: clients accepted while sendBox ran
  cuts           \* history: the clients whose requests a read cut, in order

serverVars == <<servePc, can_send_box, client, not_first, requests, taken, coming>>
senderVars == <<sendPc, pic, i, begun>>
asking == <<asked, asks>>
vars == <<serverVars, senderVars, line, received, killed, asking, mixed, cuts>>

Clients == 1 .. MaxClients
Kinds == {"BOX", "STREAMPARAM"}

-----------------------------------------------------------------------------
(* The packets of a picture.                                               *)

(* Mutant: a full last packet gets an empty one after it. *)
PacketNum_Plus(num) == num \div PER_PACKET + 1

PacketNum(num) ==
  IF num % PER_PACKET = 0 THEN num \div PER_PACKET
                          ELSE num \div PER_PACKET + 1

LastPacket(num) == num - (PacketNum(num) - 1) * PER_PACKET

BoxesIn(num, k) == IF k = PacketNum(num) - 1 THEN LastPacket(num) ELSE PER_PACKET

(* The first box of packet k: the last packet takes the end of the array.  *)
FirstBox(num, k) ==
  IF k = PacketNum(num) - 1 THEN num - LastPacket(num) ELSE k * PER_PACKET

(* Packet k, from 0, of picture p; a picture without boxes has one packet, *)
(* of another type, that holds no detection.                               *)
Packet(p, k) ==
  IF p.num = 0
  THEN [type |-> "BOX", pic |-> p.id, cur |-> 1, tot |-> 1, first |-> 0, boxes |-> 0]
  ELSE [type |-> "GPS", pic |-> p.id, cur |-> k + 1, tot |-> PacketNum(p.num),
        first |-> FirstBox(p.num, k), boxes |-> BoxesIn(p.num, k)]

Info == [type |-> "STREAMPARAM", pic |-> 0, cur |-> 1, tot |-> 1, first |-> 0, boxes |-> 0]

Init ==
  /\ servePc = "top" /\ can_send_box = FALSE /\ client = 0 /\ line = "none"
  /\ not_first = FALSE /\ requests = <<>> /\ taken = 0 /\ coming = 0
  /\ sendPc = "idle" /\ pic = [id |-> 0, num |-> 0] /\ i = 0 /\ begun = 0
  /\ received = [c \in Clients |-> <<>>]
  /\ killed = FALSE
  /\ asked = {} /\ asks = 0 /\ mixed = {} /\ cuts = <<>>

(* write(): the first after the client closed still goes out and is        *)
(* answered with a reset; one after a reset raises SIGPIPE.                *)
Write(packet) ==
  /\ received' = IF line = "open"
                 THEN [received EXCEPT ![client] = Append(@, packet)] ELSE received
  /\ line' = IF line = "left" THEN "reset" ELSE line
  /\ killed' = (line = "reset")

Written == line \in {"open", "left"}

-----------------------------------------------------------------------------
(* The client.                                                             *)

(* It sends a request, which arrives whole or in two halves.               *)
Ask(kind) ==
  /\ ~killed /\ line = "open" /\ coming = 0 /\ asks < MaxAsks
  /\ requests' = Append(requests, kind)
  /\ coming' \in {0, 1}
  /\ asks' = asks + 1
  /\ asked' = asked \cup {c \in {client} : kind = "BOX"}
  /\ UNCHANGED <<servePc, can_send_box, client, not_first, taken, senderVars, line,
                 received, killed, mixed, cuts>>

Arrive ==
  /\ ~killed /\ line = "open" /\ coming = 1
  /\ coming' = 0
  /\ UNCHANGED <<servePc, can_send_box, client, not_first, requests, taken, senderVars,
                 line, received, killed, asking, mixed, cuts>>

(* It closes the connection, after all it sent; with unread packets that   *)
(* is a reset at once.                                                     *)
Leave ==
  /\ ~killed /\ line = "open"
  /\ line' \in {"left", "reset"}
  /\ line' = "left" => coming = 0
  /\ UNCHANGED <<serverVars, senderVars, received, killed, asking, mixed, cuts>>

-----------------------------------------------------------------------------
(* receive_thread.                                                         *)

(* The head of the outer loop.                                             *)
Top ==
  /\ ~killed /\ servePc = "top"
  /\ can_send_box' = FALSE
  /\ servePc' = "close"
  /\ UNCHANGED <<client, not_first, requests, taken, coming, senderVars, line, received,
                 killed, asking, mixed, cuts>>

(* waitBeConnected closes the old connection, with what nobody read.       *)
Close ==
  /\ ~killed /\ servePc = "close"
  /\ line' = "none"
  /\ requests' = <<>> /\ taken' = 0 /\ coming' = 0
  /\ servePc' = "accept"
  /\ UNCHANGED <<can_send_box, client, not_first, senderVars, received, killed, asking,
                 mixed, cuts>>

(* It accepts a client, whose socket takes TCP_NODELAY; clear() is called  *)
(* from the second client on.                                              *)
Accept ==
  /\ ~killed /\ servePc = "accept" /\ client < MaxClients
  /\ client' = client + 1
  /\ line' = "open"
  /\ mixed' = mixed \cup {c \in {client + 1} : sendPc # "idle"}
  /\ servePc' = IF not_first THEN "clear" ELSE "read"
  /\ not_first' = TRUE
  /\ UNCHANGED <<can_send_box, requests, taken, coming, senderVars, received, killed,
                 asking, cuts>>

(* accept fails, which waitBeConnected only logs: the assert of setNoDelay *)
(* fails on a socket that is none and ends the process.                    *)
AcceptFails ==
  /\ ~killed /\ servePc = "accept"
  /\ servePc' = "aborted"
  /\ killed' = TRUE
  /\ UNCHANGED <<can_send_box, client, not_first, requests, taken, coming, senderVars,
                 line, received, asking, mixed, cuts>>

(* Nothing of this module's state changes in clear(): see FramePipeline.   *)
Cleared ==
  /\ ~killed /\ servePc = "clear"
  /\ servePc' = "read"
  /\ UNCHANGED <<can_send_box, client, not_first, requests, taken, coming, senderVars,
                 line, received, killed, asking, mixed, cuts>>

(* Mutant: each request says what is sent from now on. *)
Obey_One(kind) ==
  /\ can_send_box' = (kind = "BOX")
  /\ IF kind = "STREAMPARAM" THEN Write(Info) ELSE UNCHANGED <<line, received, killed>>

(* A BOX request raises the flag; a STREAMPARAM request is answered at     *)
(* once by send_streamInfo; any other changes nothing here.                *)
Obey(kind) ==
  /\ can_send_box' = (can_send_box \/ kind = "BOX")
  /\ IF kind = "STREAMPARAM" THEN Write(Info) ELSE UNCHANGED <<line, received, killed>>

(* Halves of requests in the socket's buffer.                              *)
Available == 2 * Len(requests) - taken - coming

(* read() returns a request.                                               *)
ReadRequest ==
  /\ ~killed /\ servePc = "read" /\ taken = 0 /\ Available >= 2
  /\ requests' = Tail(requests)
  /\ Obey(Head(requests))
  /\ UNCHANGED <<servePc, client, not_first, taken, coming, senderVars, asking, mixed,
                 cuts>>

(* It returns the end of one and the beginning of the next, whose bytes    *)
(* may look like any request; the next is as much out of step.             *)
ReadAcross ==
  /\ ~killed /\ servePc = "read" /\ taken = 1 /\ Available >= 2
  /\ requests' = Tail(requests)
  /\ \E kind \in Kinds \cup {"other"} : Obey(kind)
  /\ UNCHANGED <<servePc, client, not_first, taken, coming, senderVars, asking, mixed,
                 cuts>>

(* It returns half of one, an unknown packet that is dropped.              *)
ReadHalf ==
  /\ ~killed /\ servePc = "read" /\ Available = 1
  /\ IF taken = 0 THEN taken' = 1 /\ cuts' = Append(cuts, client) /\ UNCHANGED requests
                  ELSE taken' = 0 /\ requests' = Tail(requests) /\ UNCHANGED cuts
  /\ UNCHANGED <<servePc, can_send_box, client, not_first, coming, senderVars, line,
                 received, killed, asking, mixed>>

(* Mutant: only an error ends the session. *)
ReadEnds_ErrorOnly ==
  /\ ~killed /\ servePc = "read" /\ line \in {"none", "reset"}
  /\ servePc' = "top"
  /\ UNCHANGED <<can_send_box, client, not_first, requests, taken, coming, senderVars,
                 line, received, killed, asking, mixed, cuts>>

(* read() returns 0 or an error: the client has left, or there is none.    *)
ReadEnds ==
  /\ ~killed /\ servePc = "read"
  /\ \/ line \in {"none", "reset"}
     \/ line = "left" /\ Available = 0
  /\ servePc' = "top"
  /\ UNCHANGED <<can_send_box, client, not_first, requests, taken, coming, senderVars,
                 line, received, killed, asking, mixed, cuts>>

-----------------------------------------------------------------------------
(* sendBox.                                                                *)

(* Mutant: boxes are sent whether asked for or not. *)
SendCalled_NoTest(num) ==
  /\ ~killed /\ sendPc = "idle" /\ pic.id < MaxPics
  /\ pic' = [id |-> pic.id + 1, num |-> num]
  /\ begun' = client
  /\ i' = 0
  /\ sendPc' = "write"
  /\ UNCHANGED <<serverVars, line, received, killed, asking, mixed, cuts>>

(* The FPGA's output thread has the boxes of the next picture.             *)
SendCalled(num) ==
  /\ ~killed /\ sendPc = "idle" /\ pic.id < MaxPics
  /\ pic' = [id |-> pic.id + 1, num |-> num]
  /\ begun' = client
  /\ i' = 0
  /\ sendPc' = IF ~can_send_box THEN "idle" ELSE IF num = 0 THEN "write" ELSE "loop"
  /\ UNCHANGED <<serverVars, line, received, killed, asking, mixed, cuts>>

(* i < packet_num && can_send_box.                                         *)
SendLoop ==
  /\ ~killed /\ sendPc = "loop"
  /\ sendPc' = IF i < PacketNum(pic.num) /\ can_send_box THEN "write" ELSE "idle"
  /\ UNCHANGED <<serverVars, pic, i, begun, line, received, killed, asking, mixed, cuts>>

(* Mutant: a failed send ends the loop only for the last packet. *)
SendWrite_SkipsOne ==
  /\ ~killed /\ sendPc = "write"
  /\ Write(Packet(pic, i))
  /\ IF pic.num = 0 \/ ~Written THEN sendPc' = "idle" /\ UNCHANGED i
                                ELSE sendPc' = "loop" /\ i' = i + 2
  /\ UNCHANGED <<serverVars, pic, begun, asking, mixed, cuts>>

(* One packet goes to the present connection; a failed send ends the loop. *)
SendWrite ==
  /\ ~killed /\ sendPc = "write"
  /\ Write(Packet(pic, i))
  /\ IF pic.num = 0 \/ ~Written THEN sendPc' = "idle" /\ UNCHANGED i
                                ELSE sendPc' = "loop" /\ i' = i + 1
  /\ UNCHANGED <<serverVars, pic, begun, asking, mixed, cuts>>

-----------------------------------------------------------------------------
Reads == ReadRequest \/ ReadAcross \/ ReadHalf \/ ReadEnds
Server == Top \/ Close \/ Accept \/ AcceptFails \/ Cleared \/ Reads
Sender == SendLoop \/ SendWrite \/ \E num \in Nums : SendCalled(num)

Client == (\E kind \in Kinds : Ask(kind)) \/ Arrive \/ Leave

Next == Server \/ Sender \/ Client

Spec == Init /\ [][Next]_vars

(* Both threads run; a server that reads gets what has arrived, and sees   *)
(* that its client left.  Nobody has to connect, ask or leave.             *)
FairSpec ==
  /\ Spec
  /\ WF_vars(Top \/ Close \/ Cleared \/ Reads) /\ WF_vars(SendLoop \/ SendWrite)

-----------------------------------------------------------------------------
(* Properties.                                                             *)

PacketType ==
  [type : {"BOX", "GPS", "STREAMPARAM"}, pic : 0 .. MaxPics, cur : Nat \ {0},
   tot : Nat \ {0}, first : Nat, boxes : 0 .. PER_PACKET]

TypeOK ==
  /\ servePc \in {"top", "close", "accept", "clear", "read", "aborted"}
  /\ can_send_box \in BOOLEAN /\ client \in 0 .. MaxClients
  /\ line \in {"none", "open", "left", "reset"}
  /\ not_first \in BOOLEAN /\ requests \in Seq(Kinds)
  /\ taken \in {0, 1} /\ coming \in {0, 1}
  /\ sendPc \in {"idle", "loop", "write"}
  /\ pic \in [id : 0 .. MaxPics, num : Nums \cup {0}] /\ i \in Nat
  /\ begun \in 0 .. MaxClients
  /\ received \in [Clients -> Seq(PacketType)]
  /\ killed \in BOOLEAN
  /\ asked \subseteq Clients /\ asks \in 0 .. MaxAsks
  /\ mixed \subseteq Clients /\ cuts \in Seq(Clients)

(* The places of a client's box packets in what it received.               *)
BoxPackets(c) == {k \in DOMAIN received[c] : received[c][k].type # "STREAMPARAM"}

(* Only a client that asked gets boxes: the flag is tested and the packet  *)
(* written apart, but a client that arrives between finds sendBox running; *)
(* and what remains of a request cut by a read may look like a BOX request.*)
OnlyWhoAsked ==
  \A c \in Clients \ (mixed \cup Range(cuts)) : BoxPackets(c) # {} => c \in asked

(* A client's box packets are those of one picture after another, in order *)
(* and each from its first, never one taken up in the middle or left out,  *)
(* however STREAMPARAM answers fall between and whenever clients come and  *)
(* go while no picture is sent.                                            *)
PicturesFromTheirStart ==
  \A c \in Clients \ mixed : \A k \in BoxPackets(c) :
    LET p == received[c][k]
        earlier == {received[c][j] : j \in {j \in BoxPackets(c) : j < k}}
    IN  /\ \A q \in earlier : q.pic < p.pic \/ (q.pic = p.pic /\ q.cur < p.cur)
        /\ p.cur > 1 => \E q \in earlier : q.pic = p.pic /\ q.cur = p.cur - 1

(* The packets of the present picture that its client has received, and    *)
(* the boxes a packet holds.                                               *)
Mine == {k \in DOMAIN received[client] : received[client][k].pic = pic.id}

BoxesOf(p) == p.first .. p.first + p.boxes - 1

(* The client has every box of the picture exactly once, in as many        *)
(* packets as each of them announces, none of which is empty.              *)
HasWholePicture ==
  LET got == received[client]
  IN  /\ Mine # {}
      /\ \A b \in 0 .. pic.num - 1 : \E k \in Mine : b \in BoxesOf(got[k])
      /\ \A k \in Mine :
           /\ BoxesOf(got[k]) \subseteq 0 .. pic.num - 1
           /\ pic.num > 0 => got[k].boxes > 0
           /\ got[k].cur <= got[k].tot
           /\ \A n \in 1 .. got[k].tot : \E j \in Mine : got[j].cur = n
           /\ \A j \in Mine \ {k} :
                got[j].cur # got[k].cur /\ BoxesOf(got[j]) \cap BoxesOf(got[k]) = {}

(* When sendBox returns to a client that stayed since it was called, that  *)
(* client has the whole picture.                                           *)
WholePicture ==
  [][sendPc # "idle" /\ sendPc' = "idle" /\ can_send_box /\ line = "open" /\ begun = client
       => HasWholePicture']_vars

(* The process outlives a client that leaves while boxes are sent to it:   *)
(* nothing but a failed accept ends it.                                    *)
SurvivesClient == killed => servePc = "aborted"

(* sendBox comes back, and a client that left makes room for the next,     *)
(* unless the process has ended.                                           *)
NextClientAwaited ==
  /\ line # "open" ~> servePc = "accept" \/ killed
  /\ sendPc # "idle" ~> sendPc = "idle" \/ killed

(* Boxes are on for a client that asked, whatever else it asks; and for a  *)
(* BOX request that arrives when the reads are in step again after a cut.  *)
(* Only a cut from then on excuses.                                        *)
RequestsObeyed ==
  /\ line = "open" /\ client \in asked \ Range(cuts)
       ~> can_send_box \/ client \in Range(cuts) \/ line # "open" \/ killed
  /\ \A n \in 0 .. MaxAsks :
       "BOX" \in Range(requests) /\ taken = 0 /\ Len(cuts) = n
         ~> can_send_box \/ Len(cuts) > n \/ line # "open" \/ killed

(* The server serves: it comes back to accept and to its work, and does    *)
(* what it is asked for.                                                   *)
ServerServes == NextClientAwaited /\ RequestsObeyed

=============================================================================
