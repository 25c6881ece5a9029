----------------------------- MODULE RawReceive -----------------------------
(***************************************************************************)
(* The UDP receiver of raw pictures, src/dataReceive.cpp, with the queue   *)
(* it fills, src/dataControl.cpp.  Pictures come in numbered blocks;       *)
(* receive_thread reads one, wakes parser_thread with recv_sem, waits on   *)
(* recv_status until it is parsed, then answers RES.  Boxes go back in     *)
(* packets, each of which waits for a RES of the peer on send_sem.         *)
(*                                                                         *)
(* The peer and the network are external: blocks may be lost, repeated or  *)
(* given up, RES may be lost or repeated.  The destructor may come at any  *)
(* moment.                                                                 *)
(***************************************************************************)
EXTENDS Integers, Sequences

CONSTANTS
  BLOCKS,       \* blocks of a picture
  PER_PACKET,   \* boxes of a packet, 42 in the code
  QUEUE_MAX,    \* pictures the queue holds before the oldest is dropped
  BoxCounts,    \* boxes sent at once
  MaxBlocks, MaxResults, MaxRepeats   \* bounds

ASSUME RawConstants ==
  /\ BLOCKS \in Nat \ {0} /\ PER_PACKET \in Nat \ {0}
  /\ QUEUE_MAX \in Nat /\ BoxCounts \subseteq Nat

VARIABLES
  net, netRes,       \* what is on its way to the host: blocks; RES, a number
  peerBlock, peerMay,  \* the peer's last block; may it send the next?
  answers,           \* packets of boxes the peer has answered
  rawPc, parsePc,    \* receive_thread and parser_thread
  isStop,
  recv_sem, recv_status, arr, pic,
  rgb_queue,         \* pictures for DataControl::getRgbData, oldest first
  boxesPc, boxes, send_sem,  \* send_res2, or "aborted", and the boxes it sends
  arrived,           \* history: blocks read from the socket, in order
  parsed, acks,      \* history: blocks parsed; RES sent
  put, got,          \* history: pictures queued, numbered; those taken
  packets,           \* history: boxes in each packet of the last result
  sent, resGot, repeats, results  \* history, counters

peerVars  == <<net, netRes, peerBlock, peerMay, answers, repeats>>
threadVars == <<rawPc, parsePc, isStop, recv_sem, recv_status, arr, pic>>
queueVars == <<rgb_queue, put, got>>
boxesVars == <<boxesPc, boxes, packets, sent, results>>
logVars   == <<arrived, parsed, acks, resGot>>
rawVars   == <<peerVars, threadVars, queueVars, boxesVars, logVars, send_sem>>

NoBlock == [id |-> 0, cur |-> BLOCKS]

RawInit ==
  /\ net = <<>> /\ netRes = 0 /\ peerBlock = NoBlock /\ peerMay = TRUE
  /\ answers = 0 /\ rawPc = "top" /\ parsePc = "top" /\ isStop = FALSE
  /\ recv_sem = 0 /\ recv_status = FALSE /\ arr = <<>> /\ pic = <<>>
  /\ rgb_queue = <<>> /\ put = 0 /\ got = <<>>
  /\ boxesPc = "idle" /\ boxes = 0 /\ send_sem = 0 /\ packets = <<>>
  /\ arrived = <<>> /\ parsed = 0 /\ acks = 0
  /\ sent = 0 /\ resGot = 0 /\ repeats = 0 /\ results = 0

-----------------------------------------------------------------------------
(* The peer and the network.                                               *)

NextBlock(b) == IF b.cur = BLOCKS THEN [id |-> b.id + 1, cur |-> 1]
                               ELSE [b EXCEPT !.cur = @ + 1]

PeerSends(b) ==
  /\ Len(net) < 2 /\ Len(arrived) + Len(net) < MaxBlocks
  /\ net' = Append(net, b) /\ peerBlock' = b /\ peerMay' = FALSE
  /\ UNCHANGED <<netRes, answers, threadVars, queueVars, boxesVars, logVars,
                 send_sem>>

(* The next block, the same again, or the next picture.                    *)
PeerNext   == peerMay /\ PeerSends(NextBlock(peerBlock)) /\ UNCHANGED repeats
PeerRepeat == /\ ~peerMay /\ repeats < MaxRepeats
              /\ PeerSends(peerBlock) /\ repeats' = repeats + 1
PeerGiveUp == /\ ~peerMay /\ repeats < MaxRepeats
              /\ PeerSends([id |-> peerBlock.id + 1, cur |-> 1])
              /\ repeats' = repeats + 1

(* A packet of boxes is answered, or one that was answered is once more.   *)
ResOnWay == /\ netRes < 2 /\ netRes' = netRes + 1
            /\ UNCHANGED <<net, peerBlock, peerMay, threadVars, queueVars,
                           boxesVars, logVars, send_sem>>
PeerRes  == /\ answers < sent /\ answers' = answers + 1
            /\ ResOnWay /\ UNCHANGED repeats
PeerResAgain == /\ answers > 0 /\ repeats < MaxRepeats
                /\ repeats' = repeats + 1
                /\ ResOnWay /\ UNCHANGED answers

Lose == /\ \/ net # <<>> /\ net' = Tail(net) /\ UNCHANGED netRes
           \/ netRes > 0 /\ netRes' = netRes - 1 /\ UNCHANGED net
        /\ UNCHANGED <<peerBlock, peerMay, answers, repeats, threadVars,
                       queueVars, boxesVars, logVars, send_sem>>

-----------------------------------------------------------------------------
(* receive_thread.                                                         *)

RecvTop ==
  /\ rawPc = "top"
  /\ rawPc' = IF isStop THEN "done" ELSE "read"
  /\ UNCHANGED <<peerVars, parsePc, isStop, recv_sem, recv_status, arr, pic,
                 queueVars, boxesVars, logVars, send_sem>>

ReadRes ==
  /\ rawPc = "read" /\ netRes > 0
  /\ netRes' = netRes - 1 /\ send_sem' = send_sem + 1 /\ resGot' = resGot + 1
  /\ rawPc' = "top"
  /\ UNCHANGED <<net, peerBlock, peerMay, answers, repeats, parsePc, isStop,
                 recv_sem, recv_status, arr, pic, queueVars, boxesVars, arrived, parsed,
                 acks>>

ReadBlock ==
  /\ rawPc = "read" /\ net # <<>>
  /\ arr' = Append(arr, Head(net)) /\ arrived' = Append(arrived, Head(net))
  /\ net' = Tail(net) /\ recv_sem' = recv_sem + 1 /\ rawPc' = "wait"
  /\ UNCHANGED <<netRes, peerBlock, peerMay, answers, repeats, parsePc, isStop,
                 recv_status, pic, queueVars, boxesVars, parsed, acks, resGot,
                 send_sem>>

(* Mutant: the status of the last block is not taken back. *)
Acknowledge_Keeps ==
  /\ rawPc = "wait" /\ recv_status
  /\ rawPc' = "top" /\ acks' = acks + 1 /\ peerMay' \in BOOLEAN
  /\ UNCHANGED <<net, netRes, peerBlock, answers, repeats, parsePc, isStop, recv_sem,
                 recv_status, arr, pic, queueVars, boxesVars, arrived, parsed,
                 resGot, send_sem>>

(* The block is parsed: RES goes to the peer, which may send the next when *)
(* it gets it.                                                             *)
Acknowledge ==
  /\ rawPc = "wait" /\ recv_status
  /\ recv_status' = FALSE
  /\ rawPc' = "top" /\ acks' = acks + 1 /\ peerMay' \in BOOLEAN
  /\ UNCHANGED <<net, netRes, peerBlock, answers, repeats, parsePc, isStop, recv_sem,
                 arr, pic, queueVars, boxesVars, arrived, parsed, resGot,
                 send_sem>>

-----------------------------------------------------------------------------
(* parser_thread.                                                          *)

ParserTop ==
  /\ parsePc = "top"
  /\ parsePc' = IF isStop THEN "done" ELSE "acquire"
  /\ UNCHANGED <<peerVars, rawPc, isStop, recv_sem, recv_status, arr, pic,
                 queueVars, boxesVars, logVars, send_sem>>

ParserAcquire ==
  /\ parsePc = "acquire" /\ recv_sem > 0
  /\ recv_sem' = recv_sem - 1
  /\ parsePc' = IF isStop THEN "done" ELSE "parse"
  /\ UNCHANGED <<peerVars, rawPc, isStop, recv_status, arr, pic, queueVars,
                 boxesVars, logVars, send_sem>>

(* setRgbData: beyond QUEUE_MAX the oldest picture goes.                   *)
(* Mutant: the newest picture goes. *)
Queued_DropsNewest(q, p) ==
  IF Len(q) > QUEUE_MAX THEN Append(SubSeq(q, 1, Len(q) - 1), p)
                        ELSE Append(q, p)

Queued(q, p) == IF Len(q) > QUEUE_MAX THEN Append(Tail(q), p) ELSE Append(q, p)

(* What is kept of the blocks before the one just read.                    *)
(* Mutant: a first block does not start the picture again. *)
PicKept_Always(block) == pic
PicKept(block) == IF block.cur = 1 THEN <<>> ELSE pic

(* The block read last is added to the picture, which a last block         *)
(* completes; first and last blocks empty arr.                             *)
Parse ==
  /\ parsePc = "parse"
  /\ LET block == arr[Len(arr)]
         all   == Append(PicKept(block), block)
     IN  /\ arr' = IF block.cur \in {1, BLOCKS} THEN <<>> ELSE arr
         /\ IF block.cur = BLOCKS
              THEN /\ pic' = <<>> /\ put' = put + 1
                   /\ rgb_queue' = Queued(rgb_queue,
                        [n |-> put + 1, id |-> block.id, blocks |-> all,
                         upTo |-> Len(arrived)])
              ELSE pic' = all /\ UNCHANGED <<put, rgb_queue>>
  /\ parsed' = parsed + 1 /\ parsePc' = "signal"
  /\ UNCHANGED <<peerVars, rawPc, isStop, recv_sem, recv_status, got,
                 boxesVars, arrived, acks, resGot, send_sem>>

Signal ==
  /\ parsePc = "signal"
  /\ recv_status' = TRUE /\ parsePc' = "top"
  /\ UNCHANGED <<peerVars, rawPc, isStop, recv_sem, arr, pic, queueVars,
                 boxesVars, logVars, send_sem>>

(* ~DataReceive: then both threads are joined.                             *)
Destroy ==
  /\ ~isStop
  /\ isStop' = TRUE /\ recv_sem' = recv_sem + 1
  /\ UNCHANGED <<peerVars, rawPc, parsePc, recv_status, arr, pic, queueVars,
                 boxesVars, logVars, send_sem>>

(* getRgbData.                                                             *)
GetRgbData ==
  /\ rgb_queue # <<>>
  /\ rgb_queue' = Tail(rgb_queue) /\ got' = Append(got, Head(rgb_queue).n)
  /\ UNCHANGED <<peerVars, threadVars, put, boxesVars, logVars, send_sem>>

-----------------------------------------------------------------------------
(* send_res2: num boxes in packets of PER_PACKET, each answered by a RES.  *)

SendRes2(num) ==
  /\ boxesPc = "idle" /\ results < MaxResults
  /\ boxes' = num /\ packets' = <<>> /\ results' = results + 1
  /\ boxesPc' = "send"
  /\ UNCHANGED <<peerVars, threadVars, queueVars, sent, logVars, send_sem>>

(* Mutant: a last packet that is full is sent as another, empty one. *)
PacketNum_Extra(num) == num \div PER_PACKET + 1
PacketNum(num) == IF num % PER_PACKET = 0 THEN num \div PER_PACKET
                                          ELSE num \div PER_PACKET + 1

SendPacket ==
  /\ boxesPc = "send"
  /\ LET i == Len(packets)
         all == PacketNum(boxes)
     IN  IF i = all
           THEN boxesPc' = "idle" /\ UNCHANGED <<packets, sent>>
           ELSE /\ boxesPc' = "wait" /\ sent' = sent + 1
                /\ packets' = Append(packets,
                     IF i = all - 1 THEN boxes - (all - 1) * PER_PACKET
                                    ELSE PER_PACKET)
  /\ UNCHANGED <<peerVars, threadVars, queueVars, boxes, results, logVars,
                 send_sem>>

(* send() refuses a packet, which a FSERVO_CHECK does not let pass         *)
(* (dataReceive.cpp:162, 174).                                             *)
SendRefused ==
  /\ boxesPc = "send" /\ Len(packets) < PacketNum(boxes)
  /\ boxesPc' = "aborted"
  /\ UNCHANGED <<peerVars, threadVars, queueVars, boxes, packets, sent,
                 results, logVars, send_sem>>

PacketAnswered ==
  /\ boxesPc = "wait" /\ send_sem > 0
  /\ send_sem' = send_sem - 1 /\ boxesPc' = "send"
  /\ UNCHANGED <<peerVars, threadVars, queueVars, boxes, packets, sent,
                 results, logVars>>

RawNext ==
  /\ boxesPc # "aborted"
  /\ \/ PeerNext \/ PeerRepeat \/ PeerGiveUp \/ PeerRes \/ PeerResAgain \/ Lose
     \/ RecvTop \/ ReadRes \/ ReadBlock \/ Acknowledge
     \/ ParserTop \/ ParserAcquire \/ Parse \/ Signal
     \/ Destroy \/ GetRgbData
     \/ \E num \in BoxCounts : SendRes2(num)
     \/ SendPacket \/ SendRefused \/ PacketAnswered

RawSpec == RawInit /\ [][RawNext]_rawVars

-----------------------------------------------------------------------------
(* Properties.                                                             *)

(* A picture whose blocks were the last to arrive, each once and in order, *)
(* is queued whole, whatever was lost, repeated or given up before it.     *)
CleanPictureWhole ==
  \A i \in DOMAIN rgb_queue :
    LET p == rgb_queue[i]
        whole == [b \in 1..BLOCKS |-> [id |-> p.id, cur |-> b]]
    IN  p.upTo >= BLOCKS
          /\ SubSeq(arrived, p.upTo - BLOCKS + 1, p.upTo) = whole
        => p.blocks = whole

(* The two threads take turns: what the parser works on is the block the   *)
(* receiver waits for, and a RES goes out for parsed blocks only.          *)
InTurn ==
  /\ parsePc = "parse" =>
       rawPc = "wait" /\ arr # <<>> /\ arr[Len(arr)] = arrived[Len(arrived)]
  /\ acks <= parsed /\ parsed <= Len(arrived) /\ Len(arrived) <= acks + 1

(* The queue holds its limit, and pictures leave it in the order they came,*)
(* those that were dropped left out (dataControl.cpp:16).                  *)
QueueInOrder ==
  /\ Len(rgb_queue) <= QUEUE_MAX + 1
  /\ \A i \in DOMAIN rgb_queue : rgb_queue[i].n = put - Len(rgb_queue) + i
  /\ \A i \in 1..(Len(got) - 1) : got[i] < got[i + 1]
  /\ got # <<>> /\ rgb_queue # <<>> => got[Len(got)] < rgb_queue[1].n

(* The packets of a result carry its boxes, none of them empty, and are    *)
(* sent one for each RES that came: none is sent before the peer has       *)
(* answered all before it, a RES it repeats apart.                         *)
BoxesInPackets ==
  /\ sent <= resGot + 1 /\ sent <= answers + repeats + 1
  /\ \A i \in DOMAIN packets : packets[i] \in 1..PER_PACKET
  /\ boxesPc = "idle" /\ packets # <<>> =>
       boxes = (Len(packets) - 1) * PER_PACKET + packets[Len(packets)]

(* Blocks, pictures and boxes go through the raw receiver, its queue and   *)
(* back to the sender (dataReceive.cpp, dataControl.cpp) whole and in      *)
(* order, through three hand-overs of four threads.                        *)
RawDataKept == CleanPictureWhole /\ InTurn /\ QueueInOrder /\ BoxesInPackets
=============================================================================
