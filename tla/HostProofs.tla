----------------------------- MODULE HostProofs -----------------------------
(***************************************************************************)
(* Parts of the host for every value of their constants: main's order of   *)
(* bringing things up against any number of early clients, the hand-over   *)
(* between the threads of the raw receiver, its queue and its packets of   *)
(* boxes, when ByteArray's data fits, the suppression of detections and    *)
(* the measures it goes by, what the drivers move, hold and find, and the  *)
(* places of a picture in its buffers and of a box in its picture.         *)
(***************************************************************************)
EXTENDS StartUp, RawReceive, ByteArray, Detection, BoxOverlap, DeviceAccess,
        Letterbox, ModularArithmetic, SequenceTheorems, FunctionTheorems, FiniteSetTheorems, TLAPS

-----------------------------------------------------------------------------
(* Start-up.                                                               *)

(* How far main is decides what is there; early clients leave their mark.  *)
UpInv ==
  /\ mainPc \in {"init", "open", "play", "run"} => pf
  /\ Ready => vcu = "open"
  /\ mainPc = "open" => vcu # "none"
  /\ hostPc = "pf" /\ ~Ready => "second" \in early
  /\ stream /\ wantsBoxes /\ ~Ready => "streamed" \in early
  /\ vcu = "open" /\ ~Ready => "second" \in early
  /\ vcuOpens \in Nat
  /\ "second" \notin early => IF Ready THEN vcuOpens <= 1 ELSE vcuOpens = 0
  /\ crash = "push" => "streamed" \in early
  /\ crash = "restart" => "second" \in early

LEMMA UpInductive == StartSpec => []UpInv
<1>1. StartInit => UpInv
  BY DEF StartInit, UpInv, Ready
<1>2. UpInv /\ [StartNext]_upVars => UpInv'
  <2> SUFFICES ASSUME UpInv, [StartNext]_upVars PROVE UpInv'
    OBVIOUS
  <2> USE DEF UpInv, Ready, ServerUp, MainStep
  <2>1. CASE LoggedIn \/ RtpStart \/ SetPf
    BY <2>1 DEF LoggedIn, RtpStart, SetPf
  <2>2. CASE VcuInit
    BY <2>2 DEF VcuInit
  <2>3. CASE VcuOpen
    BY <2>3 DEF VcuOpen
  <2>4. CASE Play
    BY <2>4 DEF Play
  <2>5. CASE GuestComes
    BY <2>5 DEF GuestComes
  <2>6. CASE CallPf
    BY <2>6 DEF CallPf
  <2>7. CASE AskBoxes
    BY <2>7 DEF AskBoxes
  <2>8. CASE GuestLeaves \/ Unit
    BY <2>8 DEF GuestLeaves, Unit
  <2>9. CASE UNCHANGED upVars
    BY <2>9 DEF upVars
  <2>. QED BY <2>1, <2>2, <2>3, <2>4, <2>5, <2>6, <2>7, <2>8, <2>9
           DEF StartNext, Main
<1>. QED BY <1>1, <1>2, PTL DEF StartSpec

(* main may start with the result server's thread running: the callback    *)
(* and the decoder are only met too early by a second client, or by boxes  *)
(* asked for while a camera streams to this host already; and the decoder  *)
(* was opened once, and is open when the camera is asked to play.          *)
THEOREM EarlyClientsSafe == StartSpec => []EarlyClientsHarmless
<1>1. UpInv => EarlyClientsHarmless
  BY DEF UpInv, EarlyClientsHarmless, NothingUsedTooEarly, DecoderOpenedOnce
<1>. QED BY <1>1, UpInductive, PTL

-----------------------------------------------------------------------------
(* The raw receiver: the hand-over of a block.                             *)

Block == [id : Nat, cur : Nat]

RawTypeOK ==
  /\ net \in Seq(Block) /\ peerBlock \in Block
  /\ rawPc \in {"top", "read", "wait", "done"}
  /\ parsePc \in {"top", "acquire", "parse", "signal", "done"}
  /\ isStop \in BOOLEAN /\ recv_sem \in Nat /\ recv_status \in BOOLEAN
  /\ arr \in Seq(Block) /\ arrived \in Seq(Block) /\ pic \in Seq(Block)
  /\ parsed \in Nat /\ acks \in Nat

(* A block the receiver waits for is unparsed, being parsed, or parsed and *)
(* then signalled once.  The destructor's post is one too many, but it     *)
(* follows isStop, which sends parser_thread home.                         *)
HandInv ==
  /\ Len(arrived) = acks + (IF rawPc = "wait" THEN 1 ELSE 0)
  /\ parsed = Len(arrived) \/ (rawPc = "wait" /\ parsed + 1 = Len(arrived))
  /\ ~isStop => recv_sem = IF parsed < Len(arrived) /\ parsePc # "parse"
                             THEN 1 ELSE 0
  /\ parsePc = "parse"  => parsed < Len(arrived)
  /\ parsePc = "signal" => rawPc = "wait" /\ parsed = Len(arrived) /\ ~recv_status
  /\ recv_status => rawPc = "wait" /\ parsed = Len(arrived)
  /\ parsed < Len(arrived) => arr # <<>> /\ arr[Len(arr)] = arrived[Len(arrived)]

LEMMA EmptySequence ==
  ASSUME NEW S
  PROVE  <<>> \in Seq(S) /\ Len(<<>>) = 0
  OBVIOUS

LEMMA TailTyped ==
  ASSUME NEW S, NEW s \in Seq(S), s # <<>>
  PROVE  /\ Head(s) \in S /\ Tail(s) \in Seq(S) /\ Len(Tail(s)) = Len(s) - 1
         /\ \A i \in 1 .. Len(Tail(s)) : Tail(s)[i] = s[i + 1]
  OBVIOUS

LEMMA LastOfAppend ==
  ASSUME NEW S, NEW s \in Seq(S), NEW e \in S
  PROVE  /\ Append(s, e) \in Seq(S) /\ Len(Append(s, e)) = Len(s) + 1
         /\ Append(s, e) # <<>> /\ Append(s, e)[Len(Append(s, e))] = e
         /\ \A i \in 1 .. Len(s) : Append(s, e)[i] = s[i]
  OBVIOUS

LEMMA NextBlockTyped ==
  ASSUME NEW b \in Block
  PROVE  /\ NextBlock(b) \in Block
         /\ [id |-> b.id + 1, cur |-> 1] \in Block
  BY DEF NextBlock, Block

LEMMA PeerTyped ==
  ASSUME RawTypeOK, NEW b \in Block, PeerSends(b)
  PROVE  RawTypeOK'
  BY DEF RawTypeOK, PeerSends, threadVars, logVars

HandVars == <<rawPc, parsePc, isStop, recv_sem, recv_status, arr, arrived,
              parsed, acks>>

LEMMA HandKept ==
  ASSUME HandInv, UNCHANGED HandVars
  PROVE  HandInv'
  BY DEF HandInv, HandVars

(* What neither thread of the receiver does.                               *)
Elsewhere ==
  \/ PeerNext \/ PeerRepeat \/ PeerGiveUp \/ PeerRes \/ PeerResAgain \/ Lose
  \/ GetRgbData \/ (\E count \in BoxCounts : SendRes2(count))
  \/ SendPacket \/ SendRefused \/ PacketAnswered

LEMMA ElsewhereKeeps ==
  ASSUME RawTypeOK, Elsewhere
  PROVE  RawTypeOK' /\ UNCHANGED <<HandVars, pic>>
<1>1. CASE PeerNext \/ PeerRepeat \/ PeerGiveUp
  <2>1. PICK b \in Block : PeerSends(b)
    BY <1>1, NextBlockTyped DEF PeerNext, PeerRepeat, PeerGiveUp, RawTypeOK
  <2>2. RawTypeOK'
    BY <2>1, PeerTyped
  <2>. QED BY <2>1, <2>2 DEF PeerSends, threadVars, logVars, HandVars
<1>2. CASE PeerRes \/ PeerResAgain
  BY <1>2 DEF PeerRes, PeerResAgain, ResOnWay, RawTypeOK, threadVars, logVars,
              HandVars
<1>3. CASE Lose
  <2>1. net' \in Seq(Block)
    BY <1>3, TailTyped DEF Lose, RawTypeOK
  <2>2. UNCHANGED <<peerBlock, HandVars, pic>>
    BY <1>3 DEF Lose, threadVars, logVars, HandVars
  <2>. QED BY <2>1, <2>2 DEF RawTypeOK, HandVars
<1>4. CASE GetRgbData
  BY <1>4 DEF GetRgbData, RawTypeOK, peerVars, threadVars, logVars, HandVars
<1>5. CASE \E count \in BoxCounts : SendRes2(count)
  BY <1>5 DEF SendRes2, RawTypeOK, peerVars, threadVars, logVars, HandVars
<1>6. CASE SendPacket \/ SendRefused \/ PacketAnswered
  BY <1>6 DEF SendPacket, SendRefused, PacketAnswered, RawTypeOK, peerVars,
              threadVars, logVars, HandVars
<1>. QED BY <1>1, <1>2, <1>3, <1>4, <1>5, <1>6 DEF Elsewhere

LEMMA ReadBlockHand ==
  ASSUME RawTypeOK, HandInv, ReadBlock
  PROVE  RawTypeOK' /\ HandInv'
<1>1. Head(net) \in Block /\ Tail(net) \in Seq(Block)
  BY DEF ReadBlock, RawTypeOK
<1>2. /\ arr' \in Seq(Block) /\ arr' # <<>> /\ arr'[Len(arr')] = Head(net)
      /\ arrived' \in Seq(Block) /\ Len(arrived') = Len(arrived) + 1
      /\ arrived'[Len(arrived')] = Head(net)
  <2>1. arr' = Append(arr, Head(net)) /\ arrived' = Append(arrived, Head(net))
    BY DEF ReadBlock
  <2>2. arr \in Seq(Block) /\ arrived \in Seq(Block)
    BY DEF RawTypeOK
  <2>. QED BY <1>1, <2>1, <2>2, LastOfAppend
<1>3. RawTypeOK'
  BY <1>1, <1>2 DEF ReadBlock, RawTypeOK
<1>4. parsed = Len(arrived) /\ Len(arrived) \in Nat
  BY DEF RawTypeOK, HandInv, ReadBlock
<1>5. HandInv'
  BY <1>2, <1>4 DEF RawTypeOK, HandInv, ReadBlock
<1>. QED BY <1>3, <1>5

LEMMA ParseHand ==
  ASSUME RawTypeOK, HandInv, Parse, RawConstants
  PROVE  RawTypeOK' /\ HandInv'
<1> DEFINE block == arr[Len(arr)]
<1>1. /\ parsed < Len(arrived) /\ rawPc = "wait" /\ arr # <<>>
      /\ parsed + 1 = Len(arrived) /\ Len(arrived) \in Nat
  BY DEF RawTypeOK, HandInv, Parse
<1>2. block \in Block
  BY <1>1 DEF RawTypeOK
<1>3. PicKept(block) \in Seq(Block)
  BY DEF PicKept, RawTypeOK
<1>4. Append(PicKept(block), block) \in Seq(Block)
  BY <1>2, <1>3
<1>5. arr' \in Seq(Block) /\ pic' \in Seq(Block)
  <2>1. arr' \in {<<>>, arr} /\ pic' \in {<<>>, Append(PicKept(block), block)}
    BY DEF Parse
  <2>. QED BY <1>4, <2>1, EmptySequence DEF RawTypeOK
<1>6. RawTypeOK'
  BY <1>5 DEF RawTypeOK, Parse, peerVars
<1>7. ~recv_status
  BY <1>1 DEF HandInv
<1>8. /\ parsed' = Len(arrived') /\ parsePc' = "signal" /\ rawPc' = "wait"
      /\ ~recv_status' /\ UNCHANGED <<arrived, acks, isStop, recv_sem>>
  BY <1>1, <1>7 DEF Parse
<1>9. HandInv'
  BY <1>1, <1>8 DEF HandInv, RawTypeOK, Parse
<1>. QED BY <1>6, <1>9

LEMMA HandInductive == RawSpec => [](RawTypeOK /\ HandInv)
<1>1. RawInit => RawTypeOK /\ HandInv
  <2> SUFFICES ASSUME RawInit PROVE RawTypeOK /\ HandInv
    OBVIOUS
  <2>1. ~isStop /\ isStop \in BOOLEAN /\ ~recv_status /\ recv_status \in BOOLEAN
    BY Zenon DEF RawInit
  <2>2. NoBlock \in Block /\ <<>> \in Seq(Block) /\ Len(arrived) = 0
    BY RawConstants, EmptySequence DEF RawInit, NoBlock, Block
  <2>. QED BY <2>1, <2>2 DEF RawInit, RawTypeOK, HandInv
<1>2. RawTypeOK /\ HandInv /\ [RawNext]_rawVars => RawTypeOK' /\ HandInv'
  <2> SUFFICES ASSUME RawTypeOK, HandInv, [RawNext]_rawVars
               PROVE  RawTypeOK' /\ HandInv'
    OBVIOUS
  <2>1. CASE Elsewhere
    BY <2>1, ElsewhereKeeps, HandKept
  <2>2. CASE RecvTop
    BY <2>2 DEF RecvTop, RawTypeOK, HandInv, peerVars, logVars
  <2>3. CASE ReadRes
    BY <2>3 DEF ReadRes, RawTypeOK, HandInv
  <2>4. CASE ReadBlock
    BY <2>4, ReadBlockHand
  <2>5. CASE Acknowledge
    <3>1. ~recv_status' /\ recv_status' \in BOOLEAN
      BY <2>5, Zenon DEF Acknowledge
    <3>3. RawTypeOK'
      BY <2>5, <3>1 DEF Acknowledge, RawTypeOK
    <3>2. parsed = Len(arrived) /\ parsePc \notin {"parse", "signal"}
      BY <2>5 DEF Acknowledge, RawTypeOK, HandInv
    <3>. QED BY <2>5, <3>1, <3>2, <3>3 DEF Acknowledge, RawTypeOK, HandInv
  <2>6. CASE ParserTop
    BY <2>6 DEF ParserTop, RawTypeOK, HandInv, peerVars, logVars
  <2>7. CASE ParserAcquire
    BY <2>7 DEF ParserAcquire, RawTypeOK, HandInv, peerVars, logVars
  <2>8. CASE Parse
    BY <2>8, ParseHand, RawConstants
  <2>9. CASE Signal
    BY <2>9 DEF Signal, RawTypeOK, HandInv, peerVars, logVars
  <2>10. CASE Destroy
    BY <2>10 DEF Destroy, RawTypeOK, HandInv, peerVars, logVars
  <2>11. CASE UNCHANGED rawVars
    BY <2>11, HandKept DEF rawVars, peerVars, threadVars, logVars, RawTypeOK,
                          HandVars
  <2>. QED BY <2>1, <2>2, <2>3, <2>4, <2>5, <2>6, <2>7, <2>8, <2>9, <2>10,
              <2>11 DEF RawNext, Elsewhere
<1>. QED BY <1>1, <1>2, PTL DEF RawSpec

(* The parser works on the block the receiver waits for, and a RES goes    *)
(* out for parsed blocks only.                                             *)
LEMMA TurnsTaken ==
  ASSUME RawTypeOK, HandInv
  PROVE  InTurn
  BY DEF RawTypeOK, HandInv, InTurn

-----------------------------------------------------------------------------
(* The raw receiver: pictures and their queue.                             *)

(* The first k blocks of picture id, and that they are the k up to the n-th*)
(* of s.                                                                   *)
Part(id, k) == [b \in 1 .. k |-> [id |-> id, cur |-> b]]
EndsIn(s, id, k, n) ==
  k <= n /\ \A b \in 1 .. k : s[n - k + b] = [id |-> id, cur |-> b]

QueuedPicture == [n : Nat, id : Nat, blocks : Seq(Block), upTo : Nat]

(* Blocks that came in order since a first one are what pic holds.         *)
PicInv ==
  \A id \in Nat : \A k \in 1 .. BLOCKS - 1 :
    EndsIn(arrived, id, k, parsed) => pic = Part(id, k)

Whole(s, p) ==
  /\ p.upTo <= Len(s)
  /\ EndsIn(s, p.id, BLOCKS, p.upTo) => p.blocks = Part(p.id, BLOCKS)

QueueTypeOK == rgb_queue \in Seq(QueuedPicture) /\ put \in Nat /\ got \in Seq(Nat)

WholeInv == \A i \in DOMAIN rgb_queue : Whole(arrived, rgb_queue[i])

LEMMA PartTyped ==
  ASSUME NEW id \in Nat, NEW k \in Nat
  PROVE  Part(id, k) \in Seq(Block) /\ Len(Part(id, k)) = k
<1>1. \A b \in 1 .. k : [id |-> id, cur |-> b] \in Block
  BY DEF Block
<1>2. Part(id, k) \in [1 .. k -> Block]
  BY <1>1 DEF Part
<1> HIDE DEF Part
<1>. QED BY <1>2

LEMMA PartExtended ==
  ASSUME NEW id \in Nat, NEW k \in Nat
  PROVE  Append(Part(id, k), [id |-> id, cur |-> k + 1]) = Part(id, k + 1)
<1> DEFINE e == [id |-> id, cur |-> k + 1]
           s == Append(Part(id, k), e)
<1>1. e \in Block
  BY DEF Block
<1>2. /\ s \in Seq(Block) /\ Len(s) = k + 1 /\ s[k + 1] = e
      /\ \A i \in 1 .. k : s[i] = Part(id, k)[i]
  <2>1. Part(id, k) \in Seq(Block) /\ Len(Part(id, k)) = k
    BY PartTyped
  <2>. QED BY <1>1, <2>1, LastOfAppend
<1>3. Part(id, k + 1) \in Seq(Block) /\ Len(Part(id, k + 1)) = k + 1
  <2>1. k + 1 \in Nat
    OBVIOUS
  <2>. QED BY <2>1, PartTyped
<1>4. \A i \in 1 .. k + 1 : s[i] = Part(id, k + 1)[i]
  <2> SUFFICES ASSUME NEW i \in 1 .. k + 1 PROVE s[i] = Part(id, k + 1)[i]
    OBVIOUS
  <2>1. Part(id, k + 1)[i] = [id |-> id, cur |-> i]
    BY DEF Part
  <2>2. i \in 1 .. k => Part(id, k)[i] = [id |-> id, cur |-> i]
    BY DEF Part
  <2> HIDE DEF s
  <2>3. CASE i = k + 1
    BY <1>2, <2>1, <2>3
  <2>4. CASE i # k + 1
    BY <1>2, <2>1, <2>2, <2>4
  <2>. QED BY <2>3, <2>4
<1> HIDE DEF s
<1>5. s = Part(id, k + 1)
  BY <1>2, <1>3, <1>4, SeqEqual
<1>. QED BY <1>5 DEF s

LEMMA OneBlock ==
  ASSUME NEW id \in Nat
  PROVE  Append(<<>>, [id |-> id, cur |-> 1]) = Part(id, 1)
<1>1. Part(id, 0) \in Seq(Block) /\ Len(Part(id, 0)) = 0
  BY PartTyped
<1>2. Part(id, 0) = <<>>
  BY <1>1
<1>3. \A k \in Nat :
        Append(Part(id, k), [id |-> id, cur |-> k + 1]) = Part(id, k + 1)
  BY PartExtended
<1>4. 0 \in Nat /\ 0 + 1 = 1
  OBVIOUS
<1>. QED BY <1>2, <1>3, <1>4, Zenon

(* What parser_thread has after a block that came in order.                *)
LEMMA ParsedPart ==
  ASSUME RawTypeOK, HandInv, PicInv, parsePc = "parse", RawConstants,
         NEW id \in Nat, NEW k \in 1 .. BLOCKS, EndsIn(arrived, id, k, parsed + 1)
  PROVE  /\ arr[Len(arr)] = [id |-> id, cur |-> k]
         /\ Append(PicKept(arr[Len(arr)]), arr[Len(arr)]) = Part(id, k)
<1> DEFINE block == arr[Len(arr)]
<1>1. /\ parsed \in Nat /\ parsed + 1 = Len(arrived)
      /\ block = arrived[parsed + 1]
  BY DEF RawTypeOK, HandInv
<1>2. k \in Nat /\ k >= 1 /\ k <= BLOCKS /\ BLOCKS \in Nat /\ k <= parsed + 1
  BY RawConstants DEF EndsIn
<1>3. \A b \in 1 .. k : arrived[parsed + 1 - k + b] = [id |-> id, cur |-> b]
  BY <1>1, <1>2 DEF EndsIn
<1> HIDE DEF block
<1>4. block = [id |-> id, cur |-> k]
  <2>1. k \in 1 .. k /\ parsed + 1 - k + k = parsed + 1
    BY <1>1, <1>2
  <2>. QED BY <1>1, <1>3, <2>1
<1>5. CASE k = 1
  <2>1. PicKept(block) = <<>>
    BY <1>4, <1>5 DEF PicKept
  <2>. QED BY <1>4, <1>5, <2>1, OneBlock DEF block
<1>6. CASE k # 1
  <2> DEFINE j == k - 1
  <2>1. j \in 1 .. BLOCKS - 1 /\ j \in Nat /\ j <= parsed /\ k = j + 1
    BY <1>1, <1>2, <1>6
  <2>2. EndsIn(arrived, id, j, parsed)
    <3>1. \A b \in 1 .. j : b \in 1 .. k /\ parsed - j + b = parsed + 1 - k + b
      BY <1>1, <1>2
    <3>. QED BY <1>3, <2>1, <3>1 DEF EndsIn
  <2> HIDE DEF j
  <2>3. pic = Part(id, j)
    BY <2>1, <2>2 DEF PicInv
  <2>4. PicKept(block) = pic
    BY <1>4, <1>6 DEF PicKept
  <2>5. Append(Part(id, j), [id |-> id, cur |-> j + 1]) = Part(id, j + 1)
    BY <2>1, PartExtended
  <2>. QED BY <1>4, <2>1, <2>3, <2>4, <2>5 DEF block
<1>. QED BY <1>5, <1>6

(* What was read stays as it is.                                           *)
Grows(s, t) == Len(s) <= Len(t) /\ \A i \in 1 .. Len(s) : t[i] = s[i]

LEMMA EndsKept ==
  ASSUME NEW s \in Seq(Block), NEW t \in Seq(Block), Grows(s, t),
         NEW id \in Nat, NEW k \in Nat, NEW n \in Nat, n <= Len(s)
  PROVE  EndsIn(t, id, k, n) <=> EndsIn(s, id, k, n)
<1>1. k <= n => \A b \in 1 .. k : t[n - k + b] = s[n - k + b]
  <2> SUFFICES ASSUME k <= n, NEW b \in 1 .. k
               PROVE  t[n - k + b] = s[n - k + b]
    OBVIOUS
  <2>1. Len(s) \in Nat
    OBVIOUS
  <2>2. n - k + b \in 1 .. Len(s)
    BY <2>1
  <2>. QED BY <2>2 DEF Grows
<1>. QED BY <1>1 DEF EndsIn

LEMMA WholeKept ==
  ASSUME NEW s \in Seq(Block), NEW t \in Seq(Block), Grows(s, t),
         NEW p \in QueuedPicture, Whole(s, p), RawConstants
  PROVE  Whole(t, p)
<1>1. p.upTo \in Nat /\ p.id \in Nat /\ BLOCKS \in Nat /\ p.upTo <= Len(s)
  BY RawConstants DEF QueuedPicture, Whole
<1>2. EndsIn(t, p.id, BLOCKS, p.upTo) <=> EndsIn(s, p.id, BLOCKS, p.upTo)
  BY <1>1, EndsKept
<1>3. Len(s) \in Nat /\ Len(t) \in Nat
  OBVIOUS
<1>. QED BY <1>1, <1>2, <1>3 DEF Whole, Grows

(* Steps that parse nothing: arrived may grow, a picture may be taken.     *)
LEMMA OthersGrow ==
  ASSUME RawTypeOK, [RawNext]_rawVars, ~Parse
  PROVE  /\ Grows(arrived, arrived') /\ UNCHANGED <<pic, parsed>>
         /\ GetRgbData \/ UNCHANGED queueVars
<1>1. UNCHANGED arrived => Grows(arrived, arrived')
  BY DEF Grows, RawTypeOK
<1>2. CASE ReadBlock
  <2>1. Head(net) \in Block
    BY <1>2, TailTyped DEF ReadBlock, RawTypeOK
  <2>2. Grows(arrived, arrived')
    BY <1>2, <2>1, LastOfAppend DEF ReadBlock, RawTypeOK, Grows
  <2>. QED BY <1>2, <2>2 DEF ReadBlock
<1>3. CASE PeerNext \/ PeerRepeat \/ PeerGiveUp
  BY <1>1, <1>3 DEF PeerNext, PeerRepeat, PeerGiveUp, PeerSends, threadVars,
                    logVars
<1>4. CASE PeerRes \/ PeerResAgain \/ Lose
  BY <1>1, <1>4 DEF PeerRes, PeerResAgain, ResOnWay, Lose, threadVars, logVars
<1>5. CASE RecvTop \/ ReadRes \/ Acknowledge
  BY <1>1, <1>5 DEF RecvTop, ReadRes, Acknowledge, logVars
<1>6. CASE ParserTop \/ ParserAcquire \/ Signal \/ Destroy
  BY <1>1, <1>6 DEF ParserTop, ParserAcquire, Signal, Destroy, logVars
<1>7. CASE GetRgbData
  BY <1>1, <1>7 DEF GetRgbData, threadVars, logVars
<1>8. CASE \/ \E count \in BoxCounts : SendRes2(count)
           \/ SendPacket \/ SendRefused \/ PacketAnswered
  BY <1>1, <1>8 DEF SendRes2, SendPacket, SendRefused, PacketAnswered,
                    threadVars, logVars
<1>9. CASE UNCHANGED rawVars
  BY <1>1, <1>9 DEF rawVars, threadVars, logVars
<1>. QED BY <1>2, <1>3, <1>4, <1>5, <1>6, <1>7, <1>8, <1>9 DEF RawNext

LEMMA OthersPicture ==
  ASSUME RawTypeOK, RawTypeOK', HandInv, PicInv, QueueTypeOK, WholeInv,
         RawConstants, [RawNext]_rawVars, ~Parse
  PROVE  PicInv' /\ QueueTypeOK' /\ WholeInv'
<1>1. /\ Grows(arrived, arrived') /\ UNCHANGED <<pic, parsed>>
      /\ GetRgbData \/ UNCHANGED queueVars
  BY OthersGrow
<1>2. /\ arrived \in Seq(Block) /\ arrived' \in Seq(Block)
      /\ parsed \in Nat /\ parsed <= Len(arrived)
  BY DEF RawTypeOK, HandInv
<1>3. PicInv'
  <2> SUFFICES ASSUME NEW id \in Nat, NEW k \in 1 .. BLOCKS - 1,
                      EndsIn(arrived', id, k, parsed')
               PROVE  pic' = Part(id, k)
    BY DEF PicInv
  <2>1. EndsIn(arrived, id, k, parsed)
    <3>1. k \in Nat
      OBVIOUS
    <3>. QED BY <1>1, <1>2, <3>1, EndsKept
  <2>. QED BY <1>1, <2>1 DEF PicInv
<1>4. CASE UNCHANGED queueVars
  <2>1. QueueTypeOK'
    BY <1>4 DEF QueueTypeOK, queueVars
  <2>2. \A i \in DOMAIN rgb_queue : Whole(arrived', rgb_queue[i])
    <3> SUFFICES ASSUME NEW i \in DOMAIN rgb_queue
                 PROVE  Whole(arrived', rgb_queue[i])
      OBVIOUS
    <3>1. rgb_queue[i] \in QueuedPicture /\ Whole(arrived, rgb_queue[i])
      BY DEF QueueTypeOK, WholeInv
    <3>. QED BY <1>1, <1>2, <3>1, WholeKept
  <2>. QED BY <1>3, <1>4, <2>1, <2>2 DEF WholeInv, queueVars
<1>5. CASE GetRgbData
  <2>1. /\ Head(rgb_queue) \in QueuedPicture /\ rgb_queue' \in Seq(QueuedPicture)
        /\ Len(rgb_queue') = Len(rgb_queue) - 1
        /\ \A i \in 1 .. Len(rgb_queue') : rgb_queue'[i] = rgb_queue[i + 1]
    BY <1>5, TailTyped DEF GetRgbData, QueueTypeOK
  <2>2. Head(rgb_queue).n \in Nat
    BY <2>1 DEF QueuedPicture
  <2>3. QueueTypeOK'
    BY <1>5, <2>1, <2>2 DEF GetRgbData, QueueTypeOK
  <2>4. arrived' = arrived
    BY <1>5 DEF GetRgbData, logVars
  <2>5. \A i \in DOMAIN rgb_queue' : Whole(arrived', rgb_queue'[i])
    <3> SUFFICES ASSUME NEW i \in DOMAIN rgb_queue'
                 PROVE  Whole(arrived, rgb_queue'[i])
      BY <2>4
    <3>1. i + 1 \in DOMAIN rgb_queue /\ rgb_queue'[i] = rgb_queue[i + 1]
      BY <2>1 DEF QueueTypeOK
    <3>. QED BY <3>1 DEF WholeInv
  <2>. QED BY <1>3, <2>3, <2>5 DEF WholeInv
<1>. QED BY <1>1, <1>4, <1>5

(* What Queued makes of the queue.                                         *)
LEMMA QueuedEntries ==
  ASSUME NEW q \in Seq(QueuedPicture), NEW p \in QueuedPicture, RawConstants,
         Len(q) <= QUEUE_MAX + 1
  PROVE  LET r == Queued(q, p)
             d == Len(q) + 1 - Len(r)
         IN  /\ r \in Seq(QueuedPicture) /\ Len(r) \in 1 .. QUEUE_MAX + 1
             /\ r[Len(r)] = p /\ d \in {0, 1}
             /\ \A i \in 1 .. Len(r) - 1 : i + d \in 1 .. Len(q) /\ r[i] = q[i + d]
<1> DEFINE r == Queued(q, p)
<1>1. CASE Len(q) > QUEUE_MAX
  <2> DEFINE tl == Tail(q)
  <2>1. q # <<>>
    BY <1>1, RawConstants
  <2>2. /\ tl \in Seq(QueuedPicture) /\ Len(tl) = Len(q) - 1
        /\ \A i \in 1 .. Len(tl) : tl[i] = q[i + 1]
    BY <2>1, TailTyped
  <2> HIDE DEF tl
  <2> DEFINE a == Append(tl, p)
  <2>3. /\ a \in Seq(QueuedPicture) /\ Len(a) = Len(tl) + 1 /\ a[Len(a)] = p
        /\ \A i \in 1 .. Len(tl) : a[i] = tl[i]
    BY <2>2, LastOfAppend
  <2>4. r = a
    BY <1>1 DEF Queued, tl
  <2> HIDE DEF a, r
  <2>5. Len(q) \in Nat /\ QUEUE_MAX \in Nat /\ Len(q) = QUEUE_MAX + 1
    BY <1>1, RawConstants
  <2>6. Len(r) = Len(q) /\ Len(q) + 1 - Len(r) = 1
    BY <2>2, <2>3, <2>4, <2>5
  <2>7. \A i \in 1 .. Len(r) - 1 : i + 1 \in 1 .. Len(q) /\ r[i] = q[i + 1]
    BY <2>2, <2>3, <2>4, <2>5, <2>6
  <2>8. r \in Seq(QueuedPicture) /\ r[Len(r)] = p /\ Len(r) \in 1 .. QUEUE_MAX + 1
    BY <2>3, <2>4, <2>5, <2>6
  <2>. QED BY <2>6, <2>7, <2>8 DEF r
<1>2. CASE ~(Len(q) > QUEUE_MAX)
  <2> DEFINE a == Append(q, p)
  <2>1. /\ a \in Seq(QueuedPicture) /\ Len(a) = Len(q) + 1 /\ a[Len(a)] = p
        /\ \A i \in 1 .. Len(q) : a[i] = q[i]
    BY LastOfAppend
  <2>2. r = a
    BY <1>2 DEF Queued
  <2> HIDE DEF a, r
  <2>3. Len(q) \in Nat /\ QUEUE_MAX \in Nat /\ Len(q) <= QUEUE_MAX
    BY <1>2, RawConstants
  <2>4. Len(q) + 1 - Len(r) = 0
    BY <2>1, <2>2, <2>3
  <2>5. \A i \in 1 .. Len(r) - 1 : i + 0 \in 1 .. Len(q) /\ r[i] = q[i + 0]
    BY <2>1, <2>2, <2>3
  <2>6. r \in Seq(QueuedPicture) /\ r[Len(r)] = p /\ Len(r) \in 1 .. QUEUE_MAX + 1
    BY <2>1, <2>2, <2>3
  <2>. QED BY <2>4, <2>5, <2>6 DEF r
<1>. QED BY <1>1, <1>2

(* The numbers of the pictures that wait follow on from one another up to  *)
(* the last that was put, after all that were taken.                       *)
OrderInv ==
  /\ Len(rgb_queue) <= QUEUE_MAX + 1
  /\ \A i \in DOMAIN rgb_queue : rgb_queue[i].n = put - Len(rgb_queue) + i
  /\ \A i \in 1 .. Len(got) - 1 : got[i] < got[i + 1]
  /\ got # <<>> => got[Len(got)] <= put - Len(rgb_queue)

LEMMA TakenInOrder ==
  ASSUME QueueTypeOK, OrderInv, GetRgbData
  PROVE  OrderInv'
<1> DEFINE g == Head(rgb_queue).n
<1>1. /\ Len(rgb_queue) \in Nat /\ Len(rgb_queue) >= 1
      /\ Head(rgb_queue) = rgb_queue[1] /\ rgb_queue[1] \in QueuedPicture
  BY DEF GetRgbData, QueueTypeOK
<1>2. /\ rgb_queue' \in Seq(QueuedPicture) /\ Len(rgb_queue') = Len(rgb_queue) - 1
      /\ \A i \in 1 .. Len(rgb_queue') : rgb_queue'[i] = rgb_queue[i + 1]
  BY TailTyped DEF GetRgbData, QueueTypeOK
<1>3. g \in Nat /\ g = put - Len(rgb_queue) + 1
  <2>1. g \in Nat
    BY <1>1 DEF QueuedPicture
  <2>2. 1 \in DOMAIN rgb_queue
    BY <1>1 DEF QueueTypeOK
  <2>. QED BY <1>1, <2>1, <2>2 DEF OrderInv
<1> HIDE DEF g
<1>4. /\ got' \in Seq(Nat) /\ Len(got') = Len(got) + 1 /\ got'[Len(got')] = g
      /\ \A i \in 1 .. Len(got) : got'[i] = got[i]
  BY <1>3, LastOfAppend DEF GetRgbData, QueueTypeOK, g
<1>5. put' = put /\ put \in Nat /\ Len(got) \in Nat
  BY DEF GetRgbData, QueueTypeOK
<1>6. got # <<>> => Len(got) >= 1 /\ got[Len(got)] \in Nat /\ got[Len(got)] < g
  BY <1>1, <1>3, <1>5 DEF OrderInv, QueueTypeOK
<1>7. \A i \in 1 .. Len(got') - 1 : got'[i] < got'[i + 1]
  <2> SUFFICES ASSUME NEW i \in 1 .. Len(got') - 1 PROVE got'[i] < got'[i + 1]
    OBVIOUS
  <2>1. i \in 1 .. Len(got) /\ got # <<>>
    BY <1>4, <1>5 DEF QueueTypeOK
  <2>2. CASE i = Len(got)
    BY <1>4, <1>5, <1>6, <2>1, <2>2
  <2>3. CASE i # Len(got)
    <3>1. i \in 1 .. Len(got) - 1 /\ i + 1 \in 1 .. Len(got)
      BY <1>5, <2>1, <2>3
    <3>. QED BY <1>4, <2>1, <3>1 DEF OrderInv
  <2>. QED BY <2>2, <2>3
<1>8. \A i \in DOMAIN rgb_queue' :
        rgb_queue'[i].n = put' - Len(rgb_queue') + i
  <2> SUFFICES ASSUME NEW i \in DOMAIN rgb_queue'
               PROVE  rgb_queue'[i].n = put' - Len(rgb_queue') + i
    OBVIOUS
  <2>1. /\ i \in Nat /\ i + 1 \in DOMAIN rgb_queue
        /\ rgb_queue'[i] = rgb_queue[i + 1]
    BY <1>1, <1>2 DEF QueueTypeOK
  <2>. QED BY <1>1, <1>2, <1>5, <2>1 DEF OrderInv
<1>9. QUEUE_MAX \in Nat => Len(rgb_queue') <= QUEUE_MAX + 1
  BY <1>1, <1>2 DEF OrderInv
<1>10. Len(rgb_queue') <= QUEUE_MAX + 1
  BY <1>9, RawConstants
<1>11. got' # <<>> => got'[Len(got')] <= put' - Len(rgb_queue')
  BY <1>1, <1>2, <1>3, <1>4, <1>5
<1>. QED BY <1>7, <1>8, <1>10, <1>11 DEF OrderInv

LEMMA ParsePicture ==
  ASSUME RawTypeOK, HandInv, PicInv, QueueTypeOK, WholeInv, OrderInv,
         RawTypeOK', Parse
  PROVE  PicInv' /\ QueueTypeOK' /\ WholeInv' /\ OrderInv'
<1> DEFINE block == arr[Len(arr)]
           all   == Append(PicKept(block), block)
           p     == [n |-> put + 1, id |-> block.id, blocks |-> all,
                     upTo |-> Len(arrived)]
<1>1. /\ parsed \in Nat /\ parsed + 1 = Len(arrived) /\ parsed' = parsed + 1
      /\ arrived' = arrived /\ got' = got /\ BLOCKS \in Nat \ {0}
  BY RawConstants DEF Parse, RawTypeOK, HandInv
<1>2. block \in Block /\ all \in Seq(Block)
  <2>1. block \in Block
    BY <1>1 DEF HandInv, RawTypeOK
  <2>2. PicKept(block) \in Seq(Block)
    BY EmptySequence DEF PicKept, RawTypeOK
  <2>. QED BY <2>1, <2>2, LastOfAppend
<1>3. IF block.cur = BLOCKS
        THEN pic' = <<>> /\ put' = put + 1 /\ rgb_queue' = Queued(rgb_queue, p)
        ELSE pic' = all /\ UNCHANGED <<put, rgb_queue>>
  BY DEF Parse
<1>4. ASSUME NEW id \in Nat, NEW k \in 1 .. BLOCKS,
             EndsIn(arrived, id, k, parsed + 1)
      PROVE  block = [id |-> id, cur |-> k] /\ all = Part(id, k)
  BY <1>4, ParsedPart, RawConstants DEF Parse
<1> HIDE DEF block, all
<1>5. PicInv'
  <2> SUFFICES ASSUME NEW id \in Nat, NEW k \in 1 .. BLOCKS - 1,
                      EndsIn(arrived', id, k, parsed')
               PROVE  pic' = Part(id, k)
    BY DEF PicInv
  <2>1. k \in 1 .. BLOCKS /\ k # BLOCKS
    BY <1>1
  <2>2. block = [id |-> id, cur |-> k] /\ all = Part(id, k)
    BY <1>1, <1>4, <2>1
  <2>3. block.cur # BLOCKS
    BY <2>1, <2>2
  <2>. QED BY <1>3, <2>2, <2>3
<1>6. CASE block.cur # BLOCKS
  <2>1. UNCHANGED <<put, rgb_queue, got, arrived>>
    BY <1>1, <1>3, <1>6
  <2>. QED BY <1>5, <2>1 DEF QueueTypeOK, WholeInv, OrderInv
<1>7. CASE block.cur = BLOCKS
  <2>1. put' = put + 1 /\ rgb_queue' = Queued(rgb_queue, p) /\ put \in Nat
    BY <1>3, <1>7 DEF QueueTypeOK
  <2>2. p \in QueuedPicture
    BY <1>1, <1>2, <2>1 DEF QueuedPicture, Block, RawTypeOK
  <2>3. /\ p.n = put + 1 /\ p.id = block.id /\ p.blocks = all
        /\ p.upTo = Len(arrived)
    OBVIOUS
  <2> HIDE DEF p
  <2>4. Whole(arrived, p)
    <3>1. ASSUME EndsIn(arrived, p.id, BLOCKS, p.upTo)
          PROVE  p.blocks = Part(p.id, BLOCKS)
      <4>1. /\ p.id \in Nat /\ BLOCKS \in 1 .. BLOCKS
            /\ EndsIn(arrived, p.id, BLOCKS, parsed + 1)
        BY <1>1, <2>2, <2>3, <3>1 DEF QueuedPicture
      <4>. QED BY <1>4, <2>3, <4>1
    <3>2. p.upTo <= Len(arrived)
      BY <1>1, <2>3
    <3>. QED BY <3>1, <3>2 DEF Whole
  <2> DEFINE d == Len(rgb_queue) + 1 - Len(rgb_queue')
  <2>5. /\ rgb_queue' \in Seq(QueuedPicture) /\ Len(rgb_queue') \in 1 .. QUEUE_MAX + 1
        /\ rgb_queue'[Len(rgb_queue')] = p /\ d \in {0, 1}
        /\ \A i \in 1 .. Len(rgb_queue') - 1 :
             i + d \in 1 .. Len(rgb_queue) /\ rgb_queue'[i] = rgb_queue[i + d]
    BY <2>1, <2>2, QueuedEntries, RawConstants DEF QueueTypeOK, OrderInv
  <2>6. /\ rgb_queue \in Seq(QueuedPicture) /\ Len(rgb_queue) \in Nat
        /\ Len(rgb_queue') \in Nat /\ QUEUE_MAX \in Nat
    BY <2>5, RawConstants DEF QueueTypeOK
  <2>7. put' - Len(rgb_queue') = put - Len(rgb_queue) + d
    BY <2>1, <2>6
  <2>8. d \in {0, 1} /\ d \in Int
    BY <2>5
  <2> HIDE DEF d
  <2>9. QueueTypeOK'
    BY <1>1, <2>1, <2>5 DEF QueueTypeOK
  <2>10. ASSUME NEW i \in DOMAIN rgb_queue'
        PROVE  /\ Whole(arrived', rgb_queue'[i])
               /\ rgb_queue'[i].n = put' - Len(rgb_queue') + i
    <3>1. i \in 1 .. Len(rgb_queue')
      BY <2>5
    <3>2. CASE i = Len(rgb_queue')
      BY <1>1, <2>1, <2>3, <2>4, <2>5, <2>6, <3>2
    <3>3. CASE i # Len(rgb_queue')
      <4>1. /\ i + d \in DOMAIN rgb_queue /\ rgb_queue'[i] = rgb_queue[i + d]
        BY <2>5, <2>6, <3>1, <3>3
      <4>2. rgb_queue[i + d].n = put - Len(rgb_queue) + (i + d)
        BY <4>1 DEF OrderInv
      <4>3. Whole(arrived, rgb_queue[i + d])
        BY <4>1 DEF WholeInv
      <4>4. put - Len(rgb_queue) + (i + d) = put' - Len(rgb_queue') + i
        <5>1. put \in Int /\ put' \in Int /\ i \in Int /\ d \in Int
          BY <2>1, <2>8, <3>1
        <5> HIDE DEF d
        <5>. QED BY ONLY <5>1, <2>6, <2>7
      <4>. QED BY <1>1, <4>1, <4>2, <4>3, <4>4
    <3>. QED BY <3>2, <3>3
  <2>11. got # <<>> => got[Len(got)] <= put' - Len(rgb_queue')
    <3>1. got # <<>> => got[Len(got)] \in Nat /\ got[Len(got)] <= put - Len(rgb_queue)
      BY DEF OrderInv, QueueTypeOK
    <3>. QED BY <2>1, <2>6, <2>7, <2>8, <3>1
  <2>12. OrderInv'
    <3>1. Len(rgb_queue') <= QUEUE_MAX + 1
      BY <2>5
    <3>2. \A i \in 1 .. Len(got') - 1 : got'[i] < got'[i + 1]
      BY <1>1 DEF OrderInv
    <3>. QED BY <1>1, <2>10, <2>11, <3>1, <3>2 DEF OrderInv
  <2>. QED BY <1>5, <2>9, <2>10, <2>12 DEF WholeInv
<1>. QED BY <1>6, <1>7

LEMMA PicturesInductive ==
  RawSpec => [](PicInv /\ QueueTypeOK /\ WholeInv /\ OrderInv)
<1> DEFINE Hand == RawTypeOK /\ HandInv
           Pictures == PicInv /\ QueueTypeOK /\ WholeInv /\ OrderInv
<1>1. RawInit => Pictures
  <2> SUFFICES ASSUME RawInit PROVE Pictures
    OBVIOUS
  <2>1. /\ rgb_queue = <<>> /\ got = <<>> /\ put = 0 /\ parsed = 0
        /\ BLOCKS \in Nat /\ QUEUE_MAX \in Nat
    BY RawConstants DEF RawInit
  <2>2. PicInv
    BY <2>1 DEF PicInv, EndsIn
  <2>3. QueueTypeOK
    BY <2>1, EmptySequence DEF QueueTypeOK
  <2>4. WholeInv /\ OrderInv
    BY <2>1, EmptySequence DEF WholeInv, OrderInv
  <2>. QED BY <2>2, <2>3, <2>4
<1>2. Hand /\ Hand' /\ Pictures /\ [RawNext]_rawVars => Pictures'
  <2> SUFFICES ASSUME Hand, Hand', Pictures, [RawNext]_rawVars
               PROVE  Pictures'
    OBVIOUS
  <2>1. CASE Parse
    BY <2>1, ParsePicture
  <2>2. CASE ~Parse
    <3>1. PicInv' /\ QueueTypeOK' /\ WholeInv'
      BY <2>2, OthersPicture, RawConstants
    <3>2. GetRgbData \/ UNCHANGED queueVars
      BY <2>2, OthersGrow
    <3>3. GetRgbData => OrderInv'
      BY TakenInOrder
    <3>4. UNCHANGED queueVars => OrderInv'
      BY DEF OrderInv, queueVars
    <3>. QED BY <3>1, <3>2, <3>3, <3>4
  <2>. QED BY <2>1, <2>2
<1>3. RawSpec => []Hand
  BY HandInductive
<1>. QED BY <1>1, <1>2, <1>3, PTL DEF RawSpec

-----------------------------------------------------------------------------
(* The raw receiver: boxes in packets.                                     *)

LastBoxes == boxes - (PacketNum(boxes) - 1) * PER_PACKET

BoxesInv ==
  /\ boxes \in Nat /\ packets \in Seq(Nat) /\ boxesPc \in {"idle", "send", "wait", "aborted"}
  /\ sent \in Nat /\ resGot \in Nat /\ send_sem \in Nat
  /\ sent = resGot - send_sem + (IF boxesPc = "wait" THEN 1 ELSE 0)
  /\ Len(packets) <= PacketNum(boxes)
  /\ boxesPc = "idle" => Len(packets) = PacketNum(boxes)
  /\ \A i \in DOMAIN packets :
       packets[i] = IF i = PacketNum(boxes) THEN LastBoxes ELSE PER_PACKET

(* The boxes fill all packets but the last, which holds the rest.          *)
LEMMA RawSplit ==
  ASSUME NEW count \in Nat, RawConstants
  PROVE  /\ PacketNum(count) \in Nat
         /\ count = 0 => PacketNum(count) = 0
         /\ count # 0 => /\ PacketNum(count) >= 1
                       /\ count - (PacketNum(count) - 1) * PER_PACKET \in 1 .. PER_PACKET
<1> DEFINE size == PER_PACKET
           q == count \div size
           r == count % size
<1>1. size \in Nat \ {0}
  BY DEF RawConstants
<1> HIDE DEF size
<1>2. q \in Int /\ r \in 0 .. size - 1 /\ count = size * q + r
  <2>1. count \in Int
    OBVIOUS
  <2>. QED BY <1>1, <2>1, DivMod
<1> USE DEF size
<1>3. PacketNum(count) = IF r = 0 THEN q ELSE q + 1
  BY DEF PacketNum
<1> HIDE DEF size, q, r
<1>4. q >= 0
  <2> SUFFICES ASSUME q <= -1 PROVE FALSE
    BY <1>2
  <2>1. size * q <= -size
    BY <1>1, <1>2
  <2>. QED BY <1>1, <1>2, <2>1
<1>5. count = 0 => q = 0 /\ r = 0
  <2>1. q >= 1 => size * q >= size
    BY <1>1, <1>2
  <2>. QED BY <1>1, <1>2, <1>4, <2>1
<1>6. CASE r = 0
  <2>1. PacketNum(count) = q /\ count = size * q
    BY <1>1, <1>2, <1>3, <1>6
  <2>2. count # 0 => q >= 1
    BY <1>1, <1>4, <1>2, <2>1
  <2>3. (q - 1) * size = size * q - size
    BY <1>1, <1>2
  <2>4. count - (PacketNum(count) - 1) * size = size
    BY <1>1, <1>2, <2>1, <2>3
  <2>. QED BY <1>1, <1>2, <1>4, <1>5, <2>1, <2>2, <2>4 DEF size
<1>7. CASE r # 0
  <2>1. PacketNum(count) = q + 1 /\ (q + 1 - 1) * size = size * q
    BY <1>1, <1>2, <1>3, <1>7
  <2>2. count - (PacketNum(count) - 1) * size = r
    BY <1>1, <1>2, <2>1
  <2>. QED BY <1>1, <1>2, <1>4, <1>5, <1>7, <2>1, <2>2 DEF size
<1>. QED BY <1>6, <1>7

LEMMA PacketSent ==
  ASSUME BoxesInv, SendPacket, RawConstants
  PROVE  BoxesInv'
<1> DEFINE i   == Len(packets)
           all == PacketNum(boxes)
           b   == IF i = all - 1 THEN boxes - (all - 1) * PER_PACKET
                                 ELSE PER_PACKET
<1>1. /\ boxesPc = "send" /\ boxes' = boxes /\ resGot' = resGot
      /\ send_sem' = send_sem
      /\ IF i = all THEN boxesPc' = "idle" /\ UNCHANGED <<packets, sent>>
                    ELSE /\ boxesPc' = "wait" /\ sent' = sent + 1
                         /\ packets' = Append(packets, b)
  BY DEF SendPacket, logVars
<1>2. /\ boxes \in Nat /\ packets \in Seq(Nat) /\ i \in Nat /\ all \in Nat
      /\ i <= all /\ PER_PACKET \in Nat
  BY RawConstants, RawSplit DEF BoxesInv
<1> HIDE DEF all
<1>3. PacketNum(boxes') = all /\ LastBoxes' = LastBoxes
  BY <1>1 DEF all, LastBoxes
<1>4. CASE i = all
  BY <1>1, <1>2, <1>3, <1>4 DEF BoxesInv, all
<1>5. CASE i # all
  <2>1. all # 0 /\ boxes # 0
    BY <1>2, <1>5, RawSplit, RawConstants DEF all
  <2>2. /\ b = IF i + 1 = all THEN LastBoxes ELSE PER_PACKET
        /\ LastBoxes \in Nat
    <3>1. LastBoxes = boxes - (all - 1) * PER_PACKET
      BY DEF LastBoxes, all
    <3>2. LastBoxes \in 1 .. PER_PACKET
      BY <1>2, <2>1, RawSplit, RawConstants DEF LastBoxes
    <3>3. i = all - 1 <=> i + 1 = all
      BY <1>2
    <3>4. LastBoxes \in Nat
      BY <1>2, <3>2
    <3>. QED BY <3>1, <3>3, <3>4
  <2>3. b \in Nat
    BY <1>2, <2>2
  <2> HIDE DEF b
  <2>4. /\ packets' \in Seq(Nat) /\ Len(packets') = i + 1 /\ packets'[i + 1] = b
        /\ \A j \in 1 .. i : packets'[j] = packets[j]
    <3>1. packets' = Append(packets, b)
      BY <1>1, <1>5
    <3>. QED BY <1>2, <2>3, <3>1, LastOfAppend
  <2>5. ASSUME NEW j \in DOMAIN packets'
        PROVE  packets'[j] = IF j = all THEN LastBoxes ELSE PER_PACKET
    <3>1. j \in 1 .. i + 1
      BY <1>2, <2>4
    <3>2. CASE j = i + 1
      BY <2>2, <2>4, <3>2
    <3>3. CASE j # i + 1
      <4>1. j \in 1 .. i /\ j \in DOMAIN packets
        BY <1>2, <3>1, <3>3
      <4>. QED BY <2>4, <4>1 DEF BoxesInv, all
    <3>. QED BY <3>2, <3>3
  <2>6. Len(packets') <= all
    BY <1>2, <1>5, <2>4
  <2>7. boxesPc' = "wait" /\ sent' = sent + 1
    BY <1>1, <1>5
  <2>. QED BY <1>1, <1>2, <1>3, <2>4, <2>5, <2>6, <2>7 DEF BoxesInv
<1>. QED BY <1>4, <1>5

LEMMA BoxesInductive == RawSpec => []BoxesInv
<1>1. RawInit => BoxesInv
  <2> SUFFICES ASSUME RawInit PROVE BoxesInv
    OBVIOUS
  <2>1. PacketNum(0) = 0
    BY RawSplit, RawConstants
  <2>. QED BY <2>1, EmptySequence DEF RawInit, BoxesInv
<1>2. BoxesInv /\ [RawNext]_rawVars => BoxesInv'
  <2> SUFFICES ASSUME BoxesInv, [RawNext]_rawVars PROVE BoxesInv'
    OBVIOUS
  <2>1. ASSUME UNCHANGED <<boxesVars, resGot, send_sem>> PROVE BoxesInv'
    <3>1. /\ UNCHANGED <<boxesPc, boxes, packets, sent, resGot, send_sem>>
      BY <2>1 DEF boxesVars
    <3>. QED BY <3>1 DEF BoxesInv, LastBoxes
  <2>2. CASE PeerNext \/ PeerRepeat \/ PeerGiveUp \/ PeerRes \/ PeerResAgain \/ Lose
    BY <2>1, <2>2 DEF PeerNext, PeerRepeat, PeerGiveUp, PeerSends, PeerRes,
                      PeerResAgain, ResOnWay, Lose, logVars
  <2>3. CASE RecvTop \/ ReadBlock \/ Acknowledge
    BY <2>1, <2>3 DEF RecvTop, ReadBlock, Acknowledge, logVars
  <2>4. CASE ParserTop \/ ParserAcquire \/ Parse \/ Signal
    BY <2>1, <2>4 DEF ParserTop, ParserAcquire, Parse, Signal, logVars
  <2>5. CASE Destroy \/ GetRgbData \/ UNCHANGED rawVars
    BY <2>1, <2>5 DEF Destroy, GetRgbData, rawVars, logVars
  <2>6. CASE ReadRes
    BY <2>6 DEF ReadRes, BoxesInv, LastBoxes, boxesVars
  <2>7. CASE PacketAnswered
    BY <2>7 DEF PacketAnswered, BoxesInv, LastBoxes, logVars
  <2>8. CASE SendPacket \/ SendRefused
    BY <2>8, PacketSent, RawConstants DEF SendRefused, BoxesInv, LastBoxes, logVars
  <2>9. ASSUME NEW count \in BoxCounts, SendRes2(count) PROVE BoxesInv'
    <3>1. /\ boxesPc = "idle" /\ boxesPc' = "send" /\ boxes' = count
          /\ packets' = <<>> /\ UNCHANGED <<sent, resGot, send_sem>>
      BY <2>9 DEF SendRes2, logVars
    <3>2. count \in Nat /\ PacketNum(count) \in Nat
      BY RawSplit, RawConstants
    <3>. QED BY <3>1, <3>2, EmptySequence DEF BoxesInv
  <2>. QED BY <2>2, <2>3, <2>4, <2>5, <2>6, <2>7, <2>8, <2>9 DEF RawNext
<1>. QED BY <1>1, <1>2, PTL DEF RawSpec

(* A RES that arrived or is on its way answers a packet, or is repeated.   *)
ResInv ==
  /\ answers \in Nat /\ repeats \in Nat /\ netRes \in Nat /\ resGot \in Nat
  /\ resGot + netRes <= answers + repeats

LEMMA ResInductive == RawSpec => []ResInv
<1>1. RawInit => ResInv
  BY DEF RawInit, ResInv
<1>2. ResInv /\ [RawNext]_rawVars => ResInv'
  <2> SUFFICES ASSUME ResInv, [RawNext]_rawVars PROVE ResInv'
    OBVIOUS
  <2>1. CASE PeerNext \/ PeerRepeat \/ PeerGiveUp
    BY <2>1 DEF PeerNext, PeerRepeat, PeerGiveUp, PeerSends, logVars, ResInv
  <2>2. CASE PeerRes \/ PeerResAgain
    BY <2>2 DEF PeerRes, PeerResAgain, ResOnWay, logVars, ResInv
  <2>3. CASE Lose
    BY <2>3 DEF Lose, logVars, ResInv
  <2>4. CASE ReadRes
    BY <2>4 DEF ReadRes, ResInv
  <2>5. CASE RecvTop \/ ReadBlock \/ Acknowledge
    BY <2>5 DEF RecvTop, ReadBlock, Acknowledge, peerVars, logVars, ResInv
  <2>6. CASE ParserTop \/ ParserAcquire \/ Parse \/ Signal
    BY <2>6 DEF ParserTop, ParserAcquire, Parse, Signal, peerVars, logVars, ResInv
  <2>7. CASE Destroy \/ GetRgbData \/ UNCHANGED rawVars
    BY <2>7 DEF Destroy, GetRgbData, rawVars, peerVars, logVars, ResInv
  <2>8. CASE \/ \E count \in BoxCounts : SendRes2(count)
             \/ SendPacket \/ SendRefused \/ PacketAnswered
    BY <2>8 DEF SendRes2, SendPacket, SendRefused, PacketAnswered, peerVars,
                logVars, ResInv
  <2>. QED BY <2>1, <2>2, <2>3, <2>4, <2>5, <2>6, <2>7, <2>8 DEF RawNext
<1>. QED BY <1>1, <1>2, PTL DEF RawSpec

LEMMA BoxesCarried ==
  ASSUME BoxesInv, ResInv, RawConstants
  PROVE  BoxesInPackets
<1>1. /\ PacketNum(boxes) \in Nat
      /\ boxes = 0 => PacketNum(boxes) = 0
      /\ boxes # 0 => LastBoxes \in 1 .. PER_PACKET
      /\ boxes \in Nat /\ PER_PACKET \in Nat \ {0}
      /\ boxes = (PacketNum(boxes) - 1) * PER_PACKET + LastBoxes
  <2>1. boxes \in Nat /\ PER_PACKET \in Nat \ {0}
    BY RawConstants DEF BoxesInv
  <2>2. PacketNum(boxes) \in Nat
    BY <2>1, RawSplit, RawConstants
  <2>3. (PacketNum(boxes) - 1) * PER_PACKET \in Int
    BY <2>1, <2>2
  <2>. QED BY <2>1, <2>2, <2>3, RawSplit, RawConstants DEF LastBoxes
<1> DEFINE n == PacketNum(boxes)
<1> HIDE DEF n
<1>2. ASSUME NEW i \in DOMAIN packets PROVE packets[i] \in 1 .. PER_PACKET
  <2>1. Len(packets) <= n /\ i \in 1 .. Len(packets)
    BY DEF BoxesInv, n
  <2>2. boxes # 0
    BY <1>1, <2>1 DEF n
  <2>3. packets[i] = IF i = n THEN LastBoxes ELSE PER_PACKET
    BY DEF BoxesInv, n
  <2>. QED BY <1>1, <2>2, <2>3
<1>3. ASSUME boxesPc = "idle", packets # <<>>
      PROVE  boxes = (Len(packets) - 1) * PER_PACKET + packets[Len(packets)]
  <2>1. Len(packets) = n /\ Len(packets) \in DOMAIN packets
    BY <1>3 DEF BoxesInv, n
  <2>2. packets[Len(packets)] = LastBoxes
    BY <2>1 DEF BoxesInv, n
  <2>. QED BY <1>1, <2>1, <2>2 DEF n
<1>4. sent <= resGot + 1 /\ sent <= answers + repeats + 1
  BY DEF BoxesInv, ResInv
<1>. QED BY <1>2, <1>3, <1>4 DEF BoxesInPackets

-----------------------------------------------------------------------------
(* A picture that waits is whole if its blocks came in order.              *)
LEMMA WholePictures ==
  ASSUME RawTypeOK, QueueTypeOK, WholeInv, RawConstants
  PROVE  CleanPictureWhole
<1> SUFFICES ASSUME NEW i \in DOMAIN rgb_queue
             PROVE  LET p     == rgb_queue[i]
                        whole == [b \in 1..BLOCKS |-> [id |-> p.id, cur |-> b]]
                    IN  p.upTo >= BLOCKS
                          /\ SubSeq(arrived, p.upTo - BLOCKS + 1, p.upTo) = whole
                        => p.blocks = whole
  BY DEF CleanPictureWhole
<1> DEFINE p == rgb_queue[i]
           s == SubSeq(arrived, p.upTo - BLOCKS + 1, p.upTo)
<1>1. p \in QueuedPicture /\ Whole(arrived, p)
  BY DEF QueueTypeOK, WholeInv
<1> HIDE DEF p
<1>2. SUFFICES ASSUME p.upTo >= BLOCKS, s = Part(p.id, BLOCKS)
               PROVE  p.blocks = Part(p.id, BLOCKS)
  BY DEF Part, p
<1>3. /\ p.upTo \in Nat /\ p.id \in Nat /\ BLOCKS \in Nat \ {0}
      /\ p.upTo <= Len(arrived) /\ Len(arrived) \in Nat
  BY <1>1, RawConstants DEF QueuedPicture, Whole, RawTypeOK
<1>4. \A b \in 1 .. BLOCKS : s[b] = arrived[p.upTo - BLOCKS + b]
  <2> SUFFICES ASSUME NEW b \in 1 .. BLOCKS
               PROVE  s[b] = arrived[p.upTo - BLOCKS + b]
    OBVIOUS
  <2> DEFINE n == p.upTo
             m == n - BLOCKS + 1
  <2>1. n \in Nat /\ n <= Len(arrived) /\ n >= BLOCKS
    BY <1>2, <1>3
  <2> HIDE DEF n
  <2>2. /\ m \in Int /\ m >= 1 /\ b \in 1 .. n - m + 1
        /\ m + b - 1 = n - BLOCKS + b
    BY <1>3, <2>1
  <2> HIDE DEF m
  <2>3. \A j \in m .. n : arrived[j] \in Block
    BY <1>3, <2>1, <2>2 DEF RawTypeOK
  <2>4. SubSeq(arrived, m, n)[b] = arrived[m + b - 1]
    BY <2>1, <2>2, <2>3, SubSeqProperties
  <2>. QED BY <2>2, <2>4 DEF m, n
<1>5. \A b \in 1 .. BLOCKS : s[b] = [id |-> p.id, cur |-> b]
  BY <1>2 DEF Part
<1> HIDE DEF s
<1>6. EndsIn(arrived, p.id, BLOCKS, p.upTo)
  BY <1>2, <1>3, <1>4, <1>5 DEF EndsIn
<1>. QED BY <1>1, <1>6 DEF Whole

(* Blocks, pictures and boxes go through the raw receiver's hand-overs     *)
(* whole and in order, whatever the network loses or repeats and whenever  *)
(* the destructor comes, for pictures and queues of any size.              *)
THEOREM RawDataSafe == RawSpec => []RawDataKept
<1>1. RawTypeOK /\ HandInv /\ PicInv /\ QueueTypeOK /\ WholeInv /\ OrderInv
        /\ BoxesInv /\ ResInv => RawDataKept
  <2> SUFFICES ASSUME RawTypeOK, HandInv, PicInv, QueueTypeOK, WholeInv,
                      OrderInv, BoxesInv, ResInv
               PROVE  RawDataKept
    OBVIOUS
  <2>1. QueueInOrder
    <3>1. got # <<>> /\ rgb_queue # <<>> => got[Len(got)] < rgb_queue[1].n
      <4> SUFFICES ASSUME got # <<>>, rgb_queue # <<>>
                   PROVE  got[Len(got)] < rgb_queue[1].n
        OBVIOUS
      <4>1. /\ 1 \in DOMAIN rgb_queue /\ Len(rgb_queue) \in Nat /\ put \in Nat
            /\ got[Len(got)] \in Nat
        BY DEF QueueTypeOK
      <4>2. /\ rgb_queue[1].n = put - Len(rgb_queue) + 1
            /\ got[Len(got)] <= put - Len(rgb_queue)
        BY <4>1 DEF OrderInv
      <4>. QED BY <4>1, <4>2
    <3>. QED BY <3>1 DEF OrderInv, QueueInOrder
  <2>. QED BY <2>1, TurnsTaken, WholePictures, BoxesCarried, RawConstants
           DEF RawDataKept
<1>. QED BY <1>1, HandInductive, PicturesInductive, BoxesInductive, ResInductive, PTL

-----------------------------------------------------------------------------
(* ByteArray, for every capacity and every length.                         *)

(* Expanding for a chunk that is no longer than the capacity, or at least  *)
(* twice as long, makes room for it and for the '\0'; so it does for one    *)
(* that does not bring the data to twice the capacity.                     *)
LEMMA AppendFits ==
  ASSUME NEW cap \in Nat \ {0}, NEW size \in Nat, NEW add \in Nat,
         size < cap, add <= cap \/ add >= 2 * cap \/ size + add < 2 * cap
  PROVE  /\ AfterAppend(cap, size, add) \in Nat \ {0}
         /\ size + add < AfterAppend(cap, size, add)
         /\ cap <= AfterAppend(cap, size, add)
  BY DEF AfterAppend, Expanded

(* The lengths between are not covered: any array with one byte less than  *)
(* its capacity overflows for every one of them.                           *)
THEOREM DoublingGap ==
  ASSUME NEW cap \in Nat \ {0}, NEW add \in Nat,
         cap < add, add < 2 * cap
  PROVE  (cap - 1) + add >= AfterAppend(cap, cap - 1, add)
  BY DEF AfterAppend, Expanded

(* remove never shrinks below the data it leaves.                          *)
LEMMA RemoveFits ==
  ASSUME NEW cap \in Nat \ {0}, NEW size \in Nat, size < cap
  PROVE  /\ AfterRemove(cap, size) \in Nat \ {0}
         /\ size < AfterRemove(cap, size)
  BY DEF AfterRemove

(* Until a remove has left less, the capacity is at least the first: a     *)
(* unit or a block that finds the array empty stays below twice that, one  *)
(* that follows another finds an array longer than itself.                 *)
GrowInv ==
  /\ user \in {"rtp", "blocks", "serial"} /\ TypeOK
  /\ ~low => dataSize < capacity /\ INITIAL <= capacity

(* No user of a ByteArray makes it write past its end before a remove has  *)
(* left it smaller than it was made: the RTP parser's packet_data and the  *)
(* raw receiver's arr, with packets longer than a new array is, never do,  *)
(* for every capacity and every length of packets, blocks and reads below  *)
(* the bounds of the assumption.                                           *)
THEOREM GrowingArrayFits == Spec => []DataFits
<1>. INITIAL \in Nat \ {0} /\ UNIT < 2 * INITIAL /\ UNIT \in Nat
     /\ RECV < 2 * INITIAL /\ RECV \in Nat /\ PORT <= INITIAL /\ PORT \in Nat
  BY ConstantsAssumption
<1>1. Init => GrowInv
  <2> SUFFICES ASSUME Init PROVE GrowInv
    OBVIOUS
  <2>1. /\ user \in {"rtp", "blocks", "serial"} /\ low \in BOOLEAN
        /\ capacity = INITIAL /\ dataSize = 0
    BY Zenon DEF Init
  <2>2. dataSize < capacity /\ INITIAL <= capacity
        /\ capacity \in Nat \ {0} /\ dataSize \in Nat
    BY <2>1
  <2>. QED BY <2>1, <2>2, Zenon DEF GrowInv, TypeOK
<1>2. GrowInv /\ [Next]_vars => GrowInv'
  <2> SUFFICES ASSUME GrowInv, [Next]_vars PROVE GrowInv'
    OBVIOUS
  <2> USE DEF GrowInv, TypeOK
  <2>1. ASSUME NEW len \in 0 .. MaxSize, append(len) PROVE GrowInv'
    <3>1. len \in Nat /\ UNCHANGED <<user, low>> /\ dataSize' = dataSize + len
          /\ capacity' = AfterAppend(capacity, dataSize, len)
      BY <2>1 DEF append
    <3>2. capacity' \in Nat \ {0}
      BY <3>1 DEF AfterAppend, Expanded
    <3>3. ASSUME ~low PROVE dataSize' < capacity' /\ INITIAL <= capacity'
      <4>1. CASE user = "rtp"
        <5>1. dataSize + len < 2 * capacity
          BY <2>1, <3>1, <3>3, <4>1 DEF append, MayAppend
        <5>. QED BY <3>1, <3>3, <5>1, AppendFits
      <4>2. CASE user = "blocks"
        <5>1. len <= RECV /\ (dataSize = 0 \/ dataSize >= RECV)
          BY <2>1, <4>2 DEF append, MayAppend
        <5>2. len <= capacity \/ dataSize + len < 2 * capacity
          BY <3>1, <3>3, <5>1
        <5>3. dataSize < capacity /\ capacity \in Nat \ {0} /\ dataSize \in Nat
          BY <3>3
        <5>4. /\ dataSize + len < AfterAppend(capacity, dataSize, len)
              /\ capacity <= AfterAppend(capacity, dataSize, len)
              /\ AfterAppend(capacity, dataSize, len) \in Nat \ {0}
          BY <3>1, <5>2, <5>3, AppendFits
        <5>. QED BY <3>1, <3>3, <5>3, <5>4
      <4>3. CASE user = "serial"
        <5>1. len <= capacity
          BY <2>1, <3>1, <3>3, <4>3 DEF append, MayAppend
        <5>. QED BY <3>1, <3>3, <5>1, AppendFits
      <4>. QED BY <4>1, <4>2, <4>3
    <3>4. dataSize' \in Nat
      BY <3>1
    <3>. QED BY <3>1, <3>2, <3>3, <3>4, Zenon
  <2>2. ASSUME NEW len \in 0 .. dataSize, remove(len) PROVE GrowInv'
    <3>1. /\ dataSize' = dataSize - len /\ dataSize' \in Nat
          /\ capacity' = AfterRemove(capacity, dataSize')
          /\ low' = (low \/ capacity' < INITIAL) /\ UNCHANGED user
      BY <2>2 DEF remove
    <3>. /\ low' \in BOOLEAN /\ dataSize \in Nat /\ capacity \in Nat \ {0}
         /\ ~low' => ~low /\ ~(capacity' < INITIAL)
      BY <3>1, Zenon
    <3>2. capacity' \in Nat \ {0}
      BY <3>1 DEF AfterRemove
    <3>3. ~low => dataSize' < capacity'
      BY <3>1, RemoveFits
    <3>4. ~low' => INITIAL <= capacity'
      <4> SUFFICES ASSUME ~low' PROVE INITIAL <= capacity'
        OBVIOUS
      <4>1. ~(capacity' < INITIAL)
        BY Zenon
      <4>. QED BY <4>1, <3>2
    <3>. QED BY <3>1, <3>2, <3>3, <3>4, Zenon
  <2>3. CASE clear
    BY <2>3 DEF clear
  <2>4. CASE UNCHANGED vars
    BY <2>4 DEF vars
  <2>. QED BY <2>1, <2>2, <2>3, <2>4 DEF Next
<1>3. GrowInv => DataFits
  BY DEF GrowInv, DataFits
<1>. QED BY <1>1, <1>2, <1>3, PTL DEF Spec

-----------------------------------------------------------------------------
(* Detections: the two passes over the cells, and the suppression.         *)

LEMMA LayerTyped ==
  ASSUME NEW l \in DOMAIN Layers
  PROVE  l \in Nat /\ Layers[l].locs \in Nat /\ Layers[l].boxes \in Nat
<1>1. Layers[l] \in [locs : Nat, boxes : Nat]
  BY DetectionConstants, ElementOfSeq, LenProperties
<1>2. l \in Nat
  BY DetectionConstants, LenProperties
<1>. QED BY <1>1, <1>2

LEMMA CellIs ==
  \A c : c \in Cells <=>
    \E l \in DOMAIN Layers : \E j \in 1..Layers[l].locs : \E n \in 1..Layers[l].boxes :
      c = <<l, j, n>>
BY DEF Cells

LEMMA CellTyped ==
  ASSUME NEW c \in Cells
  PROVE  c[1] \in Nat /\ c[2] \in Nat /\ c[3] \in Nat /\ c = <<c[1], c[2], c[3]>>
<1>1. PICK l \in DOMAIN Layers : \E j \in 1..Layers[l].locs : \E n \in 1..Layers[l].boxes :
        c = <<l, j, n>>
  BY CellIs
<1>2. PICK j \in 1..Layers[l].locs : \E n \in 1..Layers[l].boxes : c = <<l, j, n>>
  BY <1>1, Zenon
<1>3. PICK n \in 1..Layers[l].boxes : c = <<l, j, n>>
  BY <1>2, Zenon
<1>4. l \in Nat /\ Layers[l].locs \in Nat /\ Layers[l].boxes \in Nat
  BY LayerTyped
<1>5. j \in Nat /\ n \in Nat
  BY <1>4
<1>. QED BY <1>3, <1>4, <1>5

(* Cells are gone through in one order. *)
LEMMA BeforeOrders ==
  /\ \A c \in Cells : ~Before(c, c)
  /\ \A c, d \in Cells : c # d => Before(c, d) \/ Before(d, c)
  /\ \A c, d, e \in Cells : Before(c, d) /\ Before(d, e) => Before(c, e)
<1>1. ASSUME NEW c \in Cells PROVE ~Before(c, c)
  BY CellTyped DEF Before
<1>2. ASSUME NEW c \in Cells, NEW d \in Cells, c # d PROVE Before(c, d) \/ Before(d, c)
  <2>1. c = <<c[1], c[2], c[3]>> /\ c[1] \in Nat /\ c[2] \in Nat /\ c[3] \in Nat
    BY CellTyped
  <2>2. d = <<d[1], d[2], d[3]>> /\ d[1] \in Nat /\ d[2] \in Nat /\ d[3] \in Nat
    BY CellTyped
  <2>3. c[1] # d[1] \/ c[2] # d[2] \/ c[3] # d[3]
    BY <1>2, <2>1, <2>2, Zenon
  <2>. QED BY <2>1, <2>2, <2>3 DEF Before
<1>3. ASSUME NEW c \in Cells, NEW d \in Cells, NEW e \in Cells, Before(c, d), Before(d, e)
      PROVE  Before(c, e)
  <2>1. /\ c[1] \in Nat /\ c[2] \in Nat /\ c[3] \in Nat
        /\ d[1] \in Nat /\ d[2] \in Nat /\ d[3] \in Nat
        /\ e[1] \in Nat /\ e[2] \in Nat /\ e[3] \in Nat
    BY CellTyped
  <2>. QED BY <1>3, <2>1 DEF Before
<1>. QED BY <1>1, <1>2, <1>3

LEMMA CellsFinite == IsFiniteSet(Cells)
<1> DEFINE D == DOMAIN Layers
           E(l) == {<<l, j, n>> : j \in 1..Layers[l].locs, n \in 1..Layers[l].boxes}
           g == [l \in D |-> E(l)]
           U == {E(l) : l \in D}
<1>1. IsFiniteSet(D)
  <2>1. Len(Layers) \in Nat /\ D = 1 .. Len(Layers)
    BY DetectionConstants, LenProperties
  <2>. QED BY <2>1, FS_Interval
<1>2. ASSUME NEW l \in D PROVE IsFiniteSet(E(l))
  <2> DEFINE A == 1..Layers[l].locs
             B == 1..Layers[l].boxes
             f == [p \in A \X B |-> <<l, p[1], p[2]>>]
  <2>1. Layers[l].locs \in Nat /\ Layers[l].boxes \in Nat
    BY LayerTyped
  <2>2. IsFiniteSet(A)
    BY <2>1, FS_Interval
  <2>3. IsFiniteSet(B)
    BY <2>1, FS_Interval
  <2>4. IsFiniteSet(A \X B)
    <3> HIDE DEF A, B
    <3>. QED BY <2>2, <2>3, FS_Product
  <2>5. \A t : t \in E(l) <=> \E j \in A : \E n \in B : t = <<l, j, n>>
    OBVIOUS
  <2> HIDE DEF A, B, E
  <2>6. f \in [A \X B -> E(l)]
    <3>1. \A p \in A \X B : p[1] \in A /\ p[2] \in B
      OBVIOUS
    <3>2. \A p \in A \X B : <<l, p[1], p[2]>> \in E(l)
      BY <2>5, <3>1, Zenon
    <3>. QED BY <3>2
  <2>7. \A t \in E(l) : \E p \in A \X B : f[p] = t
    <3> SUFFICES ASSUME NEW t \in E(l) PROVE \E p \in A \X B : f[p] = t
      OBVIOUS
    <3>1. PICK j \in A : \E n \in B : t = <<l, j, n>>
      BY <2>5, Zenon
    <3>2. PICK n \in B : t = <<l, j, n>>
      BY <3>1, Zenon
    <3>3. <<j, n>> \in A \X B /\ f[<<j, n>>] = t
      BY <3>2
    <3>. QED BY <3>3, Zenon
  <2> HIDE DEF f
  <2>8. f \in Surjection(A \X B, E(l))
    BY <2>6, <2>7, Fun_IsSurj
  <2>. QED BY <2>4, <2>8, FS_Surjection
<1>3. ASSUME NEW c PROVE c \in Cells <=> c \in UNION U
  <2>1. c \in Cells <=> \E l \in D : \E j \in 1..Layers[l].locs :
                          \E n \in 1..Layers[l].boxes : c = <<l, j, n>>
    BY CellIs, Zenon
  <2>2. \A l \in D : c \in E(l) <=> \E j \in 1..Layers[l].locs :
                          \E n \in 1..Layers[l].boxes : c = <<l, j, n>>
    OBVIOUS
  <2> HIDE DEF E, D
  <2>3. c \in UNION U <=> \E l \in D : c \in E(l)
    OBVIOUS
  <2>. QED BY <2>1, <2>2, <2>3, Zenon
<1> HIDE DEF E, D
<1>4. g \in [D -> U] /\ \A t \in U : \E l \in D : g[l] = t
  OBVIOUS
<1> HIDE DEF U, g
<1>5. IsFiniteSet(U)
  <2>1. g \in Surjection(D, U)
    BY <1>4, Fun_IsSurj
  <2>. QED BY <1>1, <2>1, FS_Surjection
<1>6. \A t \in U : IsFiniteSet(t)
  BY <1>2 DEF U
<1>7. IsFiniteSet(UNION U)
  BY <1>5, <1>6, FS_UNION
<1>8. Cells = UNION U
  BY <1>3
<1>. QED BY <1>7, <1>8

(* Of a set of cells in order, those with fewer than m before them are m,  *)
(* or all.                                                                 *)
LEMMA CappedCount ==
  ASSUME NEW S \in SUBSET Cells, NEW m \in Nat
  PROVE  LET T == {c \in S : Cardinality({d \in S : Before(d, c)}) < m}
         IN  IsFiniteSet(T) /\ IsFiniteSet(S)
             /\ Cardinality(S) \in Nat
             /\ Cardinality(T) = IF Cardinality(S) > m THEN m ELSE Cardinality(S)
<1> DEFINE Lower(c) == {d \in S : Before(d, c)}
           rank == [c \in S |-> Cardinality(Lower(c))]
           T == {c \in S : rank[c] < m}
           n == Cardinality(S)
           least == IF n > m THEN m ELSE n
<1>1. IsFiniteSet(S) /\ n \in Nat
  BY CellsFinite, FS_Subset, FS_CardinalityType
<1>2. ASSUME NEW c \in S
      PROVE  IsFiniteSet(Lower(c)) /\ c \notin Lower(c) /\ Lower(c) \subseteq S
  <2>1. Lower(c) \in SUBSET S
    OBVIOUS
  <2>2. c \notin Lower(c)
    BY BeforeOrders
  <2>. QED BY <1>1, <2>1, <2>2, FS_Subset
<1>3. ASSUME NEW c \in S PROVE rank[c] \in 0 .. n - 1
  <2>1. IsFiniteSet(S \ {c}) /\ Cardinality(S \ {c}) = n - 1
    BY <1>1, FS_RemoveElement
  <2>2. Lower(c) \in SUBSET (S \ {c})
    BY <1>2
  <2> HIDE DEF n, Lower
  <2>3. Cardinality(Lower(c)) <= n - 1 /\ Cardinality(Lower(c)) \in Nat
    BY <1>2, <2>1, <2>2, FS_Subset, FS_CardinalityType
  <2>. QED BY <1>1, <2>3
<1>4. ASSUME NEW c \in S, NEW d \in S, Before(c, d) PROVE rank[c] < rank[d]
  <2>1. Lower(c) \cup {c} \in SUBSET Lower(d)
    BY <1>4, BeforeOrders
  <2> HIDE DEF n, Lower
  <2>2. Cardinality(Lower(c) \cup {c}) = Cardinality(Lower(c)) + 1
    BY <1>2, FS_AddElement
  <2>3. Cardinality(Lower(c) \cup {c}) <= Cardinality(Lower(d))
    BY <1>2, <2>1, FS_Subset
  <2>4. Cardinality(Lower(c)) \in Nat /\ Cardinality(Lower(d)) \in Nat
    BY <1>2, FS_CardinalityType
  <2>. QED BY <2>2, <2>3, <2>4
<1>5. \A c, d \in S : rank[c] = rank[d] => c = d
  <2> SUFFICES ASSUME NEW c \in S, NEW d \in S, rank[c] = rank[d], c # d PROVE FALSE
    OBVIOUS
  <2>1. Before(c, d) \/ Before(d, c)
    BY BeforeOrders
  <2>2. rank[c] < rank[d] \/ rank[d] < rank[c]
    BY <1>4, <2>1
  <2>3. rank[c] \in Int /\ rank[d] \in Int
    BY <1>3
  <2> HIDE DEF rank
  <2>. QED BY <2>2, <2>3
<1>6. rank \in [S -> 0 .. n - 1]
  BY <1>3
<1> HIDE DEF rank, n
<1>7. \A r \in 0 .. n - 1 : \E c \in S : rank[c] = r
  <2>1. rank \in Injection(S, 0 .. n - 1)
    BY <1>5, <1>6, Fun_IsInj
  <2>2. IsFiniteSet(0 .. n - 1) /\ Cardinality(0 .. n - 1) = n
    BY <1>1, FS_Interval
  <2> DEFINE I == 0 .. n - 1
  <2> HIDE DEF I
  <2>4. Cardinality(S) = Cardinality(I) /\ IsFiniteSet(I) /\ rank \in Injection(S, I)
    BY <2>1, <2>2 DEF n, I
  <2>5. rank \in Surjection(S, I)
    BY <2>4, FS_Injection
  <2>3. \A r \in I : \E c \in S : rank[c] = r
    BY <2>5, Fun_SurjectionProperties
  <2>. QED BY <2>3 DEF I
<1> DEFINE g == [c \in T |-> rank[c]]
<1>8. least \in Nat /\ \A r \in 0 .. least - 1 : r \in 0 .. n - 1 /\ r < m
  BY <1>1
<1>9. g \in [T -> 0 .. least - 1]
  <2> SUFFICES ASSUME NEW c \in T PROVE rank[c] \in 0 .. least - 1
    OBVIOUS
  <2>1. rank[c] \in 0 .. n - 1 /\ rank[c] < m
    BY <1>3
  <2>. QED BY <1>1, <2>1
<1>10. \A r \in 0 .. least - 1 : \E c \in T : g[c] = r
  <2> SUFFICES ASSUME NEW r \in 0 .. least - 1 PROVE \E c \in T : g[c] = r
    OBVIOUS
  <2>1. PICK c \in S : rank[c] = r
    BY <1>7, <1>8
  <2>2. c \in T
    BY <1>8, <2>1
  <2>. QED BY <2>1, <2>2
<1>11. \A c, d \in T : g[c] = g[d] => c = d
  BY <1>5
<1>12. IsFiniteSet(T) /\ Cardinality(T) = least
  <2> HIDE DEF g, least, T
  <2>1. g \in Injection(T, 0 .. least - 1) /\ g \in Surjection(T, 0 .. least - 1)
    BY <1>9, <1>10, <1>11, Fun_IsInj, Fun_IsSurj
  <2>2. IsFiniteSet(0 .. least - 1) /\ Cardinality(0 .. least - 1) = least
    BY <1>8, FS_Interval
  <2>. QED BY <2>1, <2>2, FS_Injection
<1>13. T = {c \in S : Cardinality({d \in S : Before(d, c)}) < m}
  BY DEF rank
<1>. QED BY <1>1, <1>12, <1>13 DEF n

-----------------------------------------------------------------------------
(* What one pass of the suppression keeps.                                 *)

(* The marks the pass gives the first m of a sequence, its kept.           *)
Marks(s, k, m, f) ==
  f = [i \in 0..m |-> /\ i # 0 /\ prob[s[i]][k] # 0
                      /\ \A j \in 1..(i - 1) : f[j] => <<s[j], s[i]>> \notin over]

(* The recursion of Kept is one: some marks fulfil it. *)
LEMMA MarksExist ==
  ASSUME NEW s, NEW k, NEW n \in Nat
  PROVE  \E f : Marks(s, k, n, f)
<1> DEFINE T == {m \in Nat : \A f : ~Marks(s, k, m, f)}
<1>1. T = {}
  <2> SUFFICES ASSUME T # {} PROVE FALSE
    OBVIOUS
  <2>1. PICK m \in T : \A y \in T : m <= y
    <3>1. T \subseteq Nat
      OBVIOUS
    <3> HIDE DEF T
    <3>. QED BY <3>1, LeastOf
  <2>2. PICK g : m # 0 => Marks(s, k, m - 1, g)
    <3>1. CASE m = 0
      BY <3>1
    <3>2. CASE m # 0
      <4>1. m - 1 \in Nat /\ m - 1 \notin T
        BY <2>1, <3>2
      <4>. QED BY <4>1
    <3>. QED BY <3>1, <3>2
  <2> DEFINE Body(i, h) == /\ i # 0 /\ prob[s[i]][k] # 0
                           /\ \A j \in 1..(i - 1) : h[j] => <<s[j], s[i]>> \notin over
             f == [i \in 0..m |-> Body(i, g)]
  <2>3. \A i \in 0..m - 1 : f[i] = g[i]
    <3>1. CASE m = 0
      BY <3>1
    <3>2. CASE m # 0
      <4>1. g = [i \in 0..m - 1 |-> Body(i, g)]
        BY <2>2, <3>2 DEF Marks
      <4> HIDE DEF Body
      <4>2. \A i \in 0..m - 1 : g[i] = Body(i, g)
        BY <4>1
      <4>3. \A i \in 0..m - 1 : i \in 0..m
        BY <2>1
      <4>. QED BY <4>2, <4>3
    <3>. QED BY <3>1, <3>2
  <2>4. ASSUME NEW i \in 0..m PROVE Body(i, f) = Body(i, g)
    <3>1. \A j \in 1..(i - 1) : j \in 0..m - 1
      BY <2>1
    <3>2. \A j \in 1..(i - 1) : f[j] = g[j]
      BY <2>3, <3>1
    <3> HIDE DEF f
    <3>. QED BY <3>2
  <2>5. f = [i \in 0..m |-> Body(i, f)]
    <3> HIDE DEF Body
    <3>1. \A i \in 0..m : f[i] = Body(i, f)
      BY <2>4
    <3>2. f = [i \in 0..m |-> f[i]]
      OBVIOUS
    <3> HIDE DEF f
    <3>. QED BY <3>1, <3>2
  <2>6. Marks(s, k, m, f)
    <3> HIDE DEF f
    <3>. QED BY <2>5, Zenon DEF Marks
  <2>. QED BY <2>1, <2>6
<1>2. n \notin T
  BY <1>1
<1>. QED BY <1>2

(* The array is filled with as many detections as were allocated. *)
LEMMA FilledCount ==
  ASSUME hot \in SUBSET Cells, maxBoxNum \in Nat
  PROVE  /\ IsFiniteSet(Filled)
         /\ Cardinality(Filled) = IF Cardinality(hot) > maxBoxNum THEN maxBoxNum
                                                                  ELSE Cardinality(hot)
         /\ Cardinality(Filled) <= maxBoxNum /\ Cardinality(Filled) \in Nat
<1>1. /\ IsFiniteSet(Filled) /\ Cardinality(hot) \in Nat
      /\ Cardinality(Filled) = IF Cardinality(hot) > maxBoxNum THEN maxBoxNum
                                                               ELSE Cardinality(hot)
  BY CappedCount DEF Filled
<1> DEFINE f == Cardinality(Filled)
           h == Cardinality(hot)
<1> HIDE DEF f, h
<1>2. h \in Nat /\ f = IF h > maxBoxNum THEN maxBoxNum ELSE h
  BY <1>1 DEF f, h
<1>3. f <= maxBoxNum /\ f \in Nat
  BY <1>2
<1>. QED BY <1>1, <1>3 DEF f

Rated == [dets -> [Classes -> 0..TOP]]

(* What a class keeps overlaps nothing else it keeps; what it does not     *)
(* keep overlaps something it does, at least as probable.                  *)
LEMMA KeptFacts ==
  ASSUME IsFiniteSet(dets), prob \in Rated, NEW k \in Classes, NEW s \in Sorted(k),
         \A a, b : <<a, b>> \in over => <<b, a>> \in over /\ a # b
  PROVE  /\ \A a, b \in Kept(s, k) : <<a, b>> \notin over
         /\ \A d \in dets : prob[d][k] # 0 /\ d \notin Kept(s, k) =>
              \E e \in Kept(s, k) : prob[e][k] >= prob[d][k] /\ <<e, d>> \in over
<1> DEFINE n == Cardinality(dets)
<1>1. n \in Nat
  BY FS_CardinalityType
<1>2. /\ s \in [1..n -> dets] /\ DOMAIN s = 1..n /\ Len(s) = n
      /\ \A i, j \in 1..n : i # j => s[i] # s[j]
      /\ \A i, j \in 1..n : i < j => prob[s[i]][k] >= prob[s[j]][k]
  <2>1. s \in [1..n -> dets]
        /\ (\A i, j \in DOMAIN s : i # j => s[i] # s[j])
        /\ (\A i, j \in DOMAIN s : i < j => prob[s[i]][k] >= prob[s[j]][k])
    BY DEF Sorted
  <2> HIDE DEF n
  <2>2. DOMAIN s = 1..n
    BY <2>1
  <2>3. Len(s) = n
    <3>1. s \in Seq(dets)
      BY <1>1, <2>1
    <3>. QED BY <1>1, <2>2, <3>1, LenProperties
  <2>. QED BY <2>1, <2>2, <2>3
<1>3. \A d \in dets : \E i \in 1..n : s[i] = d
  <2> DEFINE I == 1..n
  <2>1. IsFiniteSet(I) /\ Cardinality(I) = n
    BY <1>1, FS_Interval
  <2> HIDE DEF I
  <2>2. s \in Injection(I, dets)
    BY <1>2, Fun_IsInj DEF I
  <2>3. s \in Surjection(I, dets)
    BY <2>1, <2>2, FS_Injection
  <2>4. \A d \in dets : \E i \in I : s[i] = d
    BY <2>3, Fun_SurjectionProperties
  <2>. QED BY <2>4 DEF I
<1> HIDE DEF n
<1> DEFINE f == CHOOSE f : f = [i \in 0..Len(s) |->
                  /\ i # 0 /\ prob[s[i]][k] # 0
                  /\ \A j \in 1..(i - 1) : f[j] => <<s[j], s[i]>> \notin over]
<1>4. Kept(s, k) = {s[i] : i \in {j \in DOMAIN s : f[j]}}
  BY DEF Kept
<1>5. Marks(s, k, n, f)
  <2>1. \E h : Marks(s, k, n, h)
    BY <1>1, MarksExist
  <2>. QED BY <1>2, <2>1 DEF Marks
<1> HIDE DEF f
<1>6. ASSUME NEW i \in 1..n
      PROVE  f[i] <=> /\ prob[s[i]][k] # 0
                      /\ \A j \in 1..(i - 1) : f[j] => <<s[j], s[i]>> \notin over
  <2>1. i \in 0..n /\ i # 0
    BY <1>1
  <2>. QED BY <1>5, <2>1 DEF Marks
<1>7. \A d : d \in Kept(s, k) <=> \E i \in 1..n : f[i] /\ d = s[i]
  BY <1>2, <1>4
<1>8. ASSUME NEW a \in Kept(s, k), NEW b \in Kept(s, k) PROVE <<a, b>> \notin over
  <2>1. PICK i \in 1..n : f[i] /\ a = s[i]
    BY <1>7
  <2>2. PICK j \in 1..n : f[j] /\ b = s[j]
    BY <1>7
  <2>3. CASE i < j
    <3>1. i \in 1..(j - 1)
      BY <1>1, <2>3
    <3>. QED BY <1>6, <2>1, <2>2, <3>1
  <2>4. CASE j < i
    <3>1. j \in 1..(i - 1)
      BY <1>1, <2>4
    <3>2. <<b, a>> \notin over
      BY <1>6, <2>1, <2>2, <3>1
    <3>. QED BY <3>2
  <2>5. CASE i = j
    BY <2>1, <2>2, <2>5
  <2>6. i < j \/ j < i \/ i = j
    BY <1>1
  <2>. QED BY <2>3, <2>4, <2>5, <2>6
<1>9. ASSUME NEW d \in dets, prob[d][k] # 0, d \notin Kept(s, k)
      PROVE  \E e \in Kept(s, k) : prob[e][k] >= prob[d][k] /\ <<e, d>> \in over
  <2>1. PICK i \in 1..n : s[i] = d
    BY <1>3
  <2>2. ~f[i]
    BY <1>7, <1>9, <2>1
  <2>3. PICK j \in 1..(i - 1) : f[j] /\ <<s[j], s[i]>> \in over
    BY <1>6, <1>9, <2>1, <2>2
  <2>4. j \in 1..n /\ j < i
    BY <1>1, <2>3
  <2>5. s[j] \in Kept(s, k)
    BY <1>7, <2>3, <2>4
  <2>6. prob[s[j]][k] >= prob[s[i]][k]
    BY <1>2, <2>4
  <2>. QED BY <2>1, <2>3, <2>5, <2>6
<1>. QED BY <1>8, <1>9

(* A detection with a class left has a best one. *)
LEMMA BestFacts ==
  ASSUME prob \in Rated, NEW d \in dets
  PROVE  /\ \A j, k \in Best(d) : j = k
         /\ \A k \in Classes : prob[d][k] # 0 =>
              \E j \in Best(d) : prob[d][j] >= prob[d][k]
<1> DEFINE p(k) == prob[d][k]
<1>1. /\ Classes \subseteq Nat /\ TOP \in Nat
      /\ \A k \in Classes : p(k) \in 0..TOP
  <2>1. prob[d] \in [Classes -> 0..TOP]
    BY DEF Rated
  <2>2. \A k \in Classes : p(k) \in 0..TOP
    BY <2>1
  <2>. QED BY <2>2, DetectionConstants DEF Classes
<1>2. \A k : k \in Best(d) <=> /\ k \in Classes /\ p(k) # 0
                               /\ \A j \in Classes : p(j) <= p(k)
                               /\ \A j \in Classes : j < k => p(j) < p(k)
  BY Zenon DEF Best
<1> HIDE DEF p
<1>3. ASSUME NEW j \in Best(d), NEW k \in Best(d) PROVE j = k
  <2>1. j \in Classes /\ k \in Classes /\ j \in Nat /\ k \in Nat
    BY <1>1, <1>2
  <2>2. p(j) \in Nat /\ p(k) \in Nat
    BY <1>1, <2>1
  <2>3. p(j) <= p(k) /\ p(k) <= p(j)
    BY <1>2, <2>1
  <2>4. ~(j < k) /\ ~(k < j)
    BY <1>2, <2>1, <2>2, <2>3
  <2>. QED BY <2>1, <2>4
<1>4. ASSUME NEW k \in Classes, p(k) # 0 PROVE \E j \in Best(d) : p(j) >= p(k)
  <2> DEFINE A == {TOP - p(j) : j \in Classes}
  <2>1. A \subseteq Nat /\ A # {}
    <3>1. \A j \in Classes : TOP - p(j) \in Nat
      BY <1>1
    <3>. QED BY <3>1
  <2>2. PICK x \in A : \A y \in A : x <= y
    <3> HIDE DEF A
    <3>. QED BY <2>1, LeastOf
  <2>3. PICK m \in Classes : x = TOP - p(m)
    BY <2>2
  <2>4. ASSUME NEW j \in Classes PROVE p(j) <= p(m)
    <3>1. TOP - p(m) <= TOP - p(j)
      BY <2>2, <2>3
    <3>. QED BY <1>1, <3>1
  <2> DEFINE B == {j \in Classes : p(j) = p(m)}
  <2>5. B \subseteq Nat /\ B # {}
    BY <1>1
  <2>6. PICK j \in B : \A y \in B : j <= y
    <3> HIDE DEF B
    <3>. QED BY <2>5, LeastOf
  <2>7. ASSUME NEW i \in Classes, i < j PROVE p(i) < p(j)
    <3>1. i \in Nat /\ j \in Nat /\ p(i) \in Nat /\ p(j) \in Nat
      BY <1>1, <2>6
    <3>2. i \notin B
      BY <2>6, <2>7, <3>1
    <3>3. p(i) <= p(j) /\ p(i) # p(j)
      BY <2>4, <2>6, <3>2
    <3>. QED BY <3>1, <3>3
  <2>8. j \in Classes /\ p(j) = p(m)
    BY <2>6
  <2>9. p(k) <= p(j) /\ p(j) # 0
    BY <1>1, <1>4, <2>4, <2>8
  <2>10. j \in Best(d)
    BY <1>2, <2>4, <2>7, <2>8, <2>9
  <2>. QED BY <1>1, <2>8, <2>9, <2>10
<1>. QED BY <1>3, <1>4 DEF p

-----------------------------------------------------------------------------
(* The suppression has done the classes before class; those from there on  *)
(* are as filled.                                                          *)

Made == detectPc \in {"suppress", "select", "sent"}

DetectTypes ==
  /\ detectPc \in {"make", "fill", "suppress", "select", "sent"}
  /\ class \in 1 .. classNum + 1
  /\ detectPc \in {"make", "fill"} => class = 1
  /\ detectPc = "suppress" => class \in Classes
  /\ detectPc = "select" \/ detectPc = "sent" => class = classNum + 1
  /\ boxArr = DEFAULT_BOXES /\ maxBoxNum \in Nat /\ hot \in SUBSET Cells

CountedInv ==
  detectPc # "make" => num = IF Cardinality(hot) > maxBoxNum THEN maxBoxNum
                                                             ELSE Cardinality(hot)

FilledInv ==
  Made => /\ dets = Filled
          /\ scored \in Rated /\ prob \in Rated
          /\ \A a, b : <<a, b>> \in over => <<b, a>> \in over /\ a # b

ProbInv ==
  Made => \A d \in dets, k \in Classes :
            /\ prob[d][k] # 0 => prob[d][k] = scored[d][k]
            /\ k >= class => prob[d][k] = scored[d][k]

DoneInv ==
  Made => \A k \in Classes : k < class =>
    /\ \A a, b \in dets :
         prob[a][k] # 0 /\ prob[b][k] # 0 => <<a, b>> \notin over
    /\ \A d \in dets : scored[d][k] # 0 /\ prob[d][k] = 0 =>
         \E e \in dets : prob[e][k] >= scored[d][k] /\ <<e, d>> \in over

SelectedInv == selected = IF Sent THEN UNION {{<<d, k>> : k \in Best(d)} : d \in dets} ELSE {}

DetectInv ==
  DetectTypes /\ CountedInv /\ FilledInv /\ ProbInv /\ DoneInv /\ SelectedInv

LEMMA InitDetect == DetectInit => DetectInv
<1> SUFFICES ASSUME DetectInit PROVE DetectInv
  OBVIOUS
<1>1. classNum \in Nat \ {0} /\ MaxBoxNums \subseteq Nat
  BY DetectionConstants
<1>2. detectPc = "make" /\ class = 1 /\ boxArr = DEFAULT_BOXES /\ maxBoxNum \in MaxBoxNums
      /\ hot \in SUBSET Cells /\ selected = {}
  BY DEF DetectInit
<1>3. DetectTypes
  BY <1>1, <1>2 DEF DetectTypes, Classes
<1>. QED BY <1>2, <1>3
         DEF DetectInv, CountedInv, FilledInv, ProbInv, DoneInv, SelectedInv, Made, Sent

(* One class more. *)
LEMMA SuppressStep == DetectInv /\ Suppress => DetectInv'
<1> SUFFICES ASSUME DetectInv, Suppress PROVE DetectInv'
  OBVIOUS
<1> USE DEF DetectInv
<1>1. /\ detectPc = "suppress" /\ Made /\ class \in Classes
      /\ detectPc' = IF class = classNum THEN "select" ELSE "suppress"
      /\ class' = class + 1
      /\ UNCHANGED <<boxArr, maxBoxNum, hot, num, dets, scored, over, selected>>
  BY DEF Suppress, DetectTypes, Made
<1>2. PICK s \in Sorted(class) :
        prob' = [d \in dets |->
                  [prob[d] EXCEPT ![class] = IF d \in Kept(s, class) THEN @ ELSE 0]]
  BY DEF Suppress
<1>3. /\ dets = Filled /\ scored \in Rated /\ prob \in Rated
      /\ \A a, b : <<a, b>> \in over => <<b, a>> \in over /\ a # b
  BY <1>1 DEF FilledInv
<1>4. Made' /\ ~Sent'
  BY <1>1 DEF Made, Sent
<1>5. classNum \in Nat \ {0} /\ class \in Nat /\ Classes \subseteq Nat
      /\ 0 \in 0..TOP
  BY <1>1, DetectionConstants DEF Classes
<1>6. DetectTypes'
  BY <1>1, <1>5 DEF DetectTypes, Classes
<1>7. CountedInv'
  BY <1>1 DEF CountedInv
<1>8. ASSUME NEW d \in dets
      PROVE  /\ prob'[d] \in [Classes -> 0..TOP]
             /\ \A k \in Classes : prob'[d][k] =
                  IF k = class /\ d \notin Kept(s, class) THEN 0 ELSE prob[d][k]
  <2>1. prob[d] \in [Classes -> 0..TOP]
    BY <1>3 DEF Rated
  <2>2. prob'[d] = [prob[d] EXCEPT ![class] = IF d \in Kept(s, class) THEN @ ELSE 0]
    BY <1>2
  <2>3. ASSUME NEW k \in Classes
        PROVE  prob'[d][k] = IF k = class /\ d \notin Kept(s, class) THEN 0 ELSE prob[d][k]
    BY <1>1, <2>1, <2>2
  <2>4. prob'[d] \in [Classes -> 0..TOP]
    <3>1. prob[d][class] \in 0..TOP
      BY <1>1, <2>1
    <3>2. (IF d \in Kept(s, class) THEN prob[d][class] ELSE 0) \in 0..TOP
      BY <1>5, <3>1
    <3>. QED BY <1>1, <2>1, <2>2, <3>2
  <2>. QED BY <2>3, <2>4
<1>9. FilledInv'
  <2>1. Filled' = Filled
    BY <1>1 DEF Filled
  <2>2. prob' = [d \in dets |-> prob'[d]]
    BY <1>2
  <2>3. prob' \in Rated
    BY <1>8, <2>2 DEF Rated
  <2>. QED BY <1>1, <1>3, <2>1, <2>3 DEF FilledInv, Rated
<1>10. ProbInv'
  <2> SUFFICES ASSUME NEW d \in dets, NEW k \in Classes
               PROVE  /\ prob'[d][k] # 0 => prob'[d][k] = scored[d][k]
                      /\ k >= class + 1 => prob'[d][k] = scored[d][k]
    BY <1>1 DEF ProbInv
  <2>1. prob'[d][k] = IF k = class /\ d \notin Kept(s, class) THEN 0 ELSE prob[d][k]
    BY <1>8
  <2>2. /\ prob[d][k] # 0 => prob[d][k] = scored[d][k]
        /\ k >= class => prob[d][k] = scored[d][k]
    BY <1>1 DEF ProbInv
  <2>3. k \in Nat
    BY <1>5
  <2>. QED BY <1>5, <2>1, <2>2, <2>3
<1>11. /\ \A a, b \in Kept(s, class) : <<a, b>> \notin over
       /\ \A d \in dets : prob[d][class] # 0 /\ d \notin Kept(s, class) =>
            \E e \in Kept(s, class) : prob[e][class] >= prob[d][class] /\ <<e, d>> \in over
       /\ Kept(s, class) \subseteq dets
  <2>1. IsFiniteSet(dets)
    <3>1. hot \in SUBSET Cells /\ maxBoxNum \in Nat
      BY DEF DetectTypes
    <3>. QED BY <1>3, <3>1, FilledCount
  <2>2. Kept(s, class) \subseteq dets
    <3>1. s \in [1..Cardinality(dets) -> dets]
      BY DEF Sorted
    <3>2. \A i \in DOMAIN s : s[i] \in dets
      BY <3>1
    <3>. QED BY <3>2 DEF Kept
  <2>. QED BY <1>1, <1>3, <2>1, <2>2, KeptFacts
<1>12. DoneInv'
  <2> SUFFICES ASSUME NEW k \in Classes, k < class + 1
               PROVE  /\ \A a, b \in dets :
                           prob'[a][k] # 0 /\ prob'[b][k] # 0 => <<a, b>> \notin over
                      /\ \A d \in dets : scored[d][k] # 0 /\ prob'[d][k] = 0 =>
                           \E e \in dets : prob'[e][k] >= scored[d][k] /\ <<e, d>> \in over
    BY <1>1 DEF DoneInv
  <2>1. CASE k # class
    <3>1. k < class
      BY <1>5, <2>1
    <3>2. \A d \in dets : prob'[d][k] = prob[d][k]
      BY <1>8, <2>1
    <3>3. /\ \A a, b \in dets :
               prob[a][k] # 0 /\ prob[b][k] # 0 => <<a, b>> \notin over
          /\ \A d \in dets : scored[d][k] # 0 /\ prob[d][k] = 0 =>
               \E e \in dets : prob[e][k] >= scored[d][k] /\ <<e, d>> \in over
      BY <1>1, <3>1 DEF DoneInv
    <3>. QED BY <3>2, <3>3
  <2>2. CASE k = class
    <3>1. \A d \in dets : prob'[d][k] = IF d \notin Kept(s, k) THEN 0 ELSE prob[d][k]
      BY <1>8, <2>2
    <3>2. \A d \in dets : prob[d][k] = scored[d][k]
      <4>1. k >= class
        BY <1>5, <2>2
      <4>. QED BY <1>1, <4>1 DEF ProbInv
    <3>3. ASSUME NEW a \in dets, NEW b \in dets, prob'[a][k] # 0, prob'[b][k] # 0
          PROVE  <<a, b>> \notin over
      <4>1. a \in Kept(s, k) /\ b \in Kept(s, k)
        BY <3>1, <3>3
      <4>. QED BY <1>11, <2>2, <4>1
    <3>4. ASSUME NEW d \in dets, scored[d][k] # 0, prob'[d][k] = 0
          PROVE  \E e \in dets : prob'[e][k] >= scored[d][k] /\ <<e, d>> \in over
      <4>1. d \notin Kept(s, k) /\ prob[d][k] # 0
        BY <3>1, <3>2, <3>4
      <4>2. PICK e \in Kept(s, k) : prob[e][k] >= prob[d][k] /\ <<e, d>> \in over
        BY <1>11, <2>2, <4>1
      <4>3. e \in dets /\ prob'[e][k] = prob[e][k]
        BY <1>11, <2>2, <3>1, <4>2
      <4>. QED BY <3>2, <4>2, <4>3
    <3>. QED BY <3>3, <3>4
  <2>. QED BY <2>1, <2>2
<1>13. SelectedInv'
  BY <1>1, <1>4 DEF SelectedInv, Sent
<1>. QED BY <1>6, <1>7, <1>9, <1>10, <1>12, <1>13

LEMMA NextDetect == DetectInv /\ [DetectNext]_detectVars => DetectInv'
<1> SUFFICES ASSUME DetectInv, [DetectNext]_detectVars PROVE DetectInv'
  OBVIOUS
<1> USE DEF DetectInv
<1>1. CASE makeNetworkBoxes
  <2>1. /\ detectPc = "make" /\ detectPc' = "fill"
        /\ num' = IF Cardinality(hot) > maxBoxNum THEN maxBoxNum ELSE Cardinality(hot)
        /\ UNCHANGED <<class, boxArr, maxBoxNum, hot, dets, scored, prob, over, selected>>
    BY <1>1 DEF makeNetworkBoxes
  <2>2. DetectTypes'
    BY <2>1 DEF DetectTypes
  <2>3. CountedInv'
    BY <2>1 DEF CountedInv
  <2>. QED BY <2>1, <2>2, <2>3
           DEF FilledInv, ProbInv, DoneInv, SelectedInv, Made, Sent
<1>2. CASE fillNetworkBoxes
  <2>1. /\ detectPc = "fill" /\ detectPc' = "suppress" /\ dets' = Filled
        /\ scored' \in [Filled -> [Classes -> 0..TOP]] /\ prob' = scored'
        /\ \E close \in SUBSET {p \in Filled \X Filled : Before(p[1], p[2])} :
             over' = close \cup {<<p[2], p[1]>> : p \in close}
        /\ UNCHANGED <<class, boxArr, maxBoxNum, hot, num, selected>>
    BY <1>2 DEF fillNetworkBoxes
  <2>2. class = 1
    BY <2>1 DEF DetectTypes
  <2>3. DetectTypes'
    BY <2>1, <2>2, DetectionConstants DEF DetectTypes, Classes
  <2>4. CountedInv'
    BY <2>1 DEF CountedInv
  <2>5. Filled' = Filled
    BY <2>1 DEF Filled
  <2>6. FilledInv'
    <3>1. PICK close \in SUBSET {p \in Filled \X Filled : Before(p[1], p[2])} :
            over' = close \cup {<<p[2], p[1]>> : p \in close}
      BY <2>1
    <3>2. ASSUME NEW a, NEW b, <<a, b>> \in over' PROVE <<b, a>> \in over' /\ a # b
      <4>1. Filled \subseteq Cells
        BY DEF Filled, DetectTypes
      <4>2. \A c, d : <<c, d>> \in close => c # d
        <5> SUFFICES ASSUME NEW c, NEW d, <<c, d>> \in close, c = d PROVE FALSE
          OBVIOUS
        <5>1. c \in Filled /\ Before(c, c)
          OBVIOUS
        <5>. QED BY <4>1, <5>1, BeforeOrders
      <4>3. \A c, d : <<c, d>> \in over' <=> <<c, d>> \in close \/ <<d, c>> \in close
        <5> SUFFICES ASSUME NEW c, NEW d
                     PROVE  <<c, d>> \in over' <=> <<c, d>> \in close \/ <<d, c>> \in close
          OBVIOUS
        <5>1. \A p \in close : p = <<p[1], p[2]>>
          OBVIOUS
        <5>2. <<c, d>> \in {<<p[2], p[1]>> : p \in close} <=> <<d, c>> \in close
          BY <5>1
        <5>. QED BY <3>1, <5>2
      <4>. QED BY <3>2, <4>2, <4>3
    <3>. QED BY <2>1, <2>5, <3>2 DEF FilledInv, Rated
  <2>7. ProbInv'
    BY <2>1 DEF ProbInv
  <2>8. DoneInv'
    <3>1. \A k \in Classes : ~(k < 1)
      BY DEF Classes
    <3>. QED BY <2>1, <2>2, <3>1 DEF DoneInv
  <2>9. SelectedInv'
    BY <2>1 DEF SelectedInv, Sent
  <2>. QED BY <2>3, <2>4, <2>6, <2>7, <2>8, <2>9
<1>3. CASE Suppress
  BY <1>3, SuppressStep
<1>4. CASE get_actual_detections
  <2>1. /\ detectPc = "select" /\ detectPc' = "sent"
        /\ selected' = UNION {{<<d, k>> : k \in Best(d)} : d \in dets}
        /\ UNCHANGED <<class, boxArr, maxBoxNum, hot, num, dets, scored, prob, over>>
    BY <1>4 DEF get_actual_detections
  <2>2. DetectTypes' /\ CountedInv'
    BY <2>1 DEF DetectTypes, CountedInv
  <2>3. FilledInv' /\ ProbInv' /\ DoneInv'
    BY <2>1 DEF FilledInv, ProbInv, DoneInv, Made, Filled, Rated
  <2>4. SelectedInv'
    BY <2>1 DEF SelectedInv, Sent, Best
  <2>. QED BY <2>2, <2>3, <2>4
<1>5. CASE UNCHANGED detectVars
  <2> USE <1>5 DEF detectVars
  <2>1. DetectTypes' /\ CountedInv'
    BY DEF DetectTypes, CountedInv
  <2>2. FilledInv'
    BY DEF FilledInv, Made, Filled, Rated
  <2>3. ProbInv'
    BY DEF ProbInv, Made
  <2>4. DoneInv'
    BY DEF DoneInv, Made
  <2>5. SelectedInv'
    BY DEF SelectedInv, Sent, Best
  <2>. QED BY <2>1, <2>2, <2>3, <2>4, <2>5
<1>. QED BY <1>1, <1>2, <1>3, <1>4, <1>5 DEF DetectNext

THEOREM DetectInvariance == DetectSpec => []DetectInv
BY InitDetect, NextDetect, PTL DEF DetectSpec

(* For any layers, classes, probabilities and overlaps, and whatever order *)
(* qsort gives equal ones: the two passes agree on the detections, no two  *)
(* boxes sent for a class overlap, what was suppressed overlaps something  *)
(* stronger that was not, each object's probability is sent, and the boxes *)
(* fit an array that was allocated for as many.                            *)
THEOREM DetectionsSound == DetectSpec => []BoxesSound
<1>1. DetectInv => BoxesSound
  <2> SUFFICES ASSUME DetectInv PROVE BoxesSound
    OBVIOUS
  <2> USE DEF DetectInv
  <2>1. hot \in SUBSET Cells /\ maxBoxNum \in Nat /\ boxArr = DEFAULT_BOXES
    BY DEF DetectTypes
  <2>2. /\ IsFiniteSet(Filled)
        /\ Cardinality(Filled) = IF Cardinality(hot) > maxBoxNum THEN maxBoxNum
                                                                 ELSE Cardinality(hot)
        /\ Cardinality(Filled) <= maxBoxNum /\ Cardinality(Filled) \in Nat
    BY <2>1, FilledCount
  <2>3. AllFilled
    <3> SUFFICES ASSUME detectPc \notin {"make", "fill"} PROVE Cardinality(dets) = num
      BY DEF AllFilled
    <3>1. Made /\ detectPc # "make"
      BY DEF DetectTypes, Made
    <3>2. dets = Filled
      BY <3>1 DEF FilledInv
    <3>3. num = IF Cardinality(hot) > maxBoxNum THEN maxBoxNum ELSE Cardinality(hot)
      BY <3>1 DEF CountedInv
    <3>. QED BY <2>2, <3>2, <3>3, Zenon
  <2>4. ASSUME Sent
        PROVE  /\ dets = Filled /\ scored \in Rated /\ prob \in Rated
               /\ \A d \in dets, k \in Classes : prob[d][k] # 0 => prob[d][k] = scored[d][k]
               /\ \A k \in Classes :
                    /\ \A a, b \in dets :
                         prob[a][k] # 0 /\ prob[b][k] # 0 => <<a, b>> \notin over
                    /\ \A d \in dets : scored[d][k] # 0 /\ prob[d][k] = 0 =>
                         \E e \in dets : prob[e][k] >= scored[d][k] /\ <<e, d>> \in over
               /\ \A x : x \in selected <=> \E d \in dets : \E k \in Best(d) : x = <<d, k>>
    <3>1. Made
      BY <2>4 DEF Sent, Made
    <3>2. \A k \in Classes : k < class
      BY <2>4, DetectionConstants DEF Sent, DetectTypes, Classes
    <3>3. selected = UNION {{<<d, k>> : k \in Best(d)} : d \in dets}
      BY <2>4 DEF SelectedInv
    <3>4. dets = Filled /\ scored \in Rated /\ prob \in Rated
      BY <3>1 DEF FilledInv
    <3>5. \A d \in dets, k \in Classes : prob[d][k] # 0 => prob[d][k] = scored[d][k]
      BY <3>1 DEF ProbInv
    <3>6. \A k \in Classes :
            /\ \A a, b \in dets :
                 prob[a][k] # 0 /\ prob[b][k] # 0 => <<a, b>> \notin over
            /\ \A d \in dets : scored[d][k] # 0 /\ prob[d][k] = 0 =>
                 \E e \in dets : prob[e][k] >= scored[d][k] /\ <<e, d>> \in over
      BY <3>1, <3>2, Zenon DEF DoneInv
    <3>7. \A x : x \in selected <=> \E d \in dets : \E k \in Best(d) : x = <<d, k>>
      BY <3>3
    <3>. QED BY <3>4, <3>5, <3>6, <3>7
  <2>5. \A d, k : k \in Best(d) => k \in Classes /\ prob[d][k] # 0
    BY DEF Best
  <2>6. NoOverlapSent
    <3> SUFFICES ASSUME Sent, NEW a \in selected, NEW b \in selected, a[2] = b[2]
                 PROVE  <<a[1], b[1]>> \notin over
      BY Zenon DEF NoOverlapSent
    <3>1. PICK d \in dets : \E k \in Best(d) : a = <<d, k>>
      BY <2>4
    <3>1a. PICK k \in Best(d) : a = <<d, k>>
      BY <3>1
    <3>2. PICK e \in dets : \E l \in Best(e) : b = <<e, l>>
      BY <2>4
    <3>2a. PICK l \in Best(e) : b = <<e, l>>
      BY <3>2
    <3>3. a[1] = d /\ b[1] = e /\ k = l
      BY <3>1a, <3>2a
    <3>4. k \in Classes /\ prob[d][k] # 0 /\ prob[e][k] # 0
      BY <2>5, <3>3
    <3>. QED BY <2>4, <3>3, <3>4
  <2>7. SuppressedForReason
    <3> SUFFICES ASSUME Sent PROVE SuppressedForReason
      BY DEF SuppressedForReason
    <3>. QED BY <2>4 DEF SuppressedForReason
  <2>8. StrongestSent
    <3> SUFFICES ASSUME Sent, NEW d \in dets, NEW k \in Classes, scored[d][k] # 0
                 PROVE  \E s \in selected : scored[s[1]][s[2]] >= scored[d][k]
      BY Zenon DEF StrongestSent
    <3>1. PICK e \in dets : prob[e][k] >= scored[d][k] /\ prob[e][k] # 0
      <4>1. scored[d][k] \in 0..TOP /\ \A e \in dets : prob[e][k] \in 0..TOP
        <5>1. scored[d] \in [Classes -> 0..TOP] /\ \A e \in dets : prob[e] \in [Classes -> 0..TOP]
          BY <2>4 DEF Rated
        <5>. QED BY <5>1
      <4>2. CASE prob[d][k] # 0
        BY <2>4, <4>1, <4>2
      <4>3. CASE prob[d][k] = 0
        <5>1. PICK e \in dets : prob[e][k] >= scored[d][k]
          BY <2>4, <4>3
        <5>. QED BY <4>1, <5>1, DetectionConstants
      <4>. QED BY <4>2, <4>3
    <3>2. PICK j \in Best(e) : prob[e][j] >= prob[e][k]
      BY <2>4, <3>1, BestFacts
    <3>3. j \in Classes /\ prob[e][j] # 0
      BY <2>5
    <3>4. scored[e][j] = prob[e][j]
      BY <2>4, <3>3
    <3>5. <<e, j>> \in selected
      BY <2>4
    <3>6. /\ scored[d][k] \in Nat /\ prob[e][k] \in Nat /\ prob[e][j] \in Nat
      <4>1. scored[d] \in [Classes -> 0..TOP] /\ prob[e] \in [Classes -> 0..TOP]
        BY <2>4 DEF Rated
      <4>. QED BY <3>3, <4>1, DetectionConstants
    <3>7. scored[e][j] >= scored[d][k]
      BY <3>1, <3>2, <3>4, <3>6
    <3>. QED BY <3>5, <3>7
  <2>9. BoxesFit
    <3> SUFFICES ASSUME maxBoxNum <= DEFAULT_BOXES
                 PROVE  Cardinality(selected) <= boxArr
      BY DEF BoxesFit
    <3>1. DEFAULT_BOXES \in Nat
      BY DetectionConstants
    <3>2. CASE ~Sent
      <4>1. selected = {}
        BY <3>2 DEF SelectedInv
      <4>. QED BY <2>1, <3>1, <4>1, FS_EmptySet
    <3>3. CASE Sent
      <4> DEFINE f == [s \in selected |-> s[1]]
      <4>1. f \in [selected -> dets]
        <5>1. \A s \in selected : s[1] \in dets
          BY <2>4, <3>3
        <5>. QED BY <5>1
      <4>2. \A s, t \in selected : f[s] = f[t] => s = t
        <5> SUFFICES ASSUME NEW s \in selected, NEW t \in selected, s[1] = t[1] PROVE s = t
          OBVIOUS
        <5>1. PICK d \in dets : \E k \in Best(d) : s = <<d, k>>
          BY <2>4, <3>3
        <5>1a. PICK k \in Best(d) : s = <<d, k>>
          BY <5>1
        <5>2. PICK e \in dets : \E l \in Best(e) : t = <<e, l>>
          BY <2>4, <3>3
        <5>2a. PICK l \in Best(e) : t = <<e, l>>
          BY <5>2
        <5>3. d = e
          BY <5>1a, <5>2a
        <5>4. k = l
          BY <2>4, <3>3, <5>3, BestFacts
        <5>. QED BY <5>1a, <5>2a, <5>3, <5>4
      <4> HIDE DEF f
      <4>3. f \in Injection(selected, dets)
        BY <4>1, <4>2, Fun_IsInj
      <4>4. dets = Filled /\ IsFiniteSet(dets)
        BY <2>2, <2>4, <3>3
      <4>5. IsFiniteSet(selected) /\ Cardinality(selected) <= Cardinality(dets)
        BY <4>3, <4>4, FS_Injection
      <4>6. Cardinality(selected) \in Nat
        BY <4>5, FS_CardinalityType
      <4> DEFINE n == Cardinality(selected)
                 m == Cardinality(dets)
      <4>7. n \in Nat /\ m \in Nat /\ n <= m /\ m <= maxBoxNum
        BY <2>2, <4>4, <4>5, <4>6
      <4> HIDE DEF n, m
      <4>8. n <= boxArr
        BY <2>1, <3>1, <4>7
      <4>. QED BY <4>8 DEF n
    <3>. QED BY <3>2, <3>3
  <2>. QED BY <2>3, <2>6, <2>7, <2>8, <2>9 DEF BoxesSound
<1>. QED BY DetectInvariance, <1>1, PTL

-----------------------------------------------------------------------------
(* How much boxes overlap.                                                 *)

OverlapTypes == boxA \in GridBoxes /\ boxB \in GridBoxes

LEMMA OverlapTyped == OverlapSpec => []OverlapTypes
<1>1. OverlapInit => OverlapTypes
  <2>1. <<0, 1>> \in Spans
    BY EdgeAssumption DEF Spans
  <2>2. [x |-> 1, w |-> 1, y |-> 1, h |-> 1] \in GridBoxes
    BY <2>1 DEF GridBoxes
  <2>. QED BY <2>2 DEF OverlapInit, OverlapTypes
<1>2. OverlapTypes /\ [OverlapNext]_overlapVars => OverlapTypes'
  BY DEF OverlapTypes, OverlapNext, Compare, overlapVars
<1>. QED BY <1>1, <1>2, PTL DEF OverlapSpec

(* A box of the grid by the ends of its sides. *)
Sides(b, l, r, t, u) ==
  /\ b.x = l + r /\ b.w = r - l /\ b.y = t + u /\ b.h = u - t
  /\ l \in Nat /\ r \in 0 .. Edge /\ l < r
  /\ t \in Nat /\ u \in 0 .. Edge /\ t < u

LEMMA HasSides ==
  ASSUME NEW b \in GridBoxes
  PROVE  \E l, r, t, u \in Nat : Sides(b, l, r, t, u)
<1>1. PICK p \in Spans, q \in Spans :
        b = [x |-> p[1] + p[2], w |-> p[2] - p[1], y |-> q[1] + q[2], h |-> q[2] - q[1]]
  BY DEF GridBoxes
<1>2. /\ p[1] \in Nat /\ p[2] \in 0 .. Edge /\ p[1] < p[2] /\ p[2] \in Nat
      /\ q[1] \in Nat /\ q[2] \in 0 .. Edge /\ q[1] < q[2] /\ q[2] \in Nat
  BY EdgeAssumption DEF Spans
<1>3. Sides(b, p[1], p[2], q[1], q[2])
  BY <1>1, <1>2 DEF Sides
<1>. QED BY <1>2, <1>3

Rectangle(l, r, t, u) == (l + 1 .. r) \X (t + 1 .. u)
Area(l, r, t, u) == IF r < l \/ u < t THEN 0 ELSE (r - l) * (u - t)

(* Its cells are those of a rectangle. *)
LEMMA CellsInside ==
  ASSUME NEW b, NEW l \in Nat, NEW r \in Nat, NEW t \in Nat, NEW u \in Nat, Sides(b, l, r, t, u)
  PROVE  Inside(b) = Rectangle(l, r, t, u)
<1>1. ASSUME NEW p \in (1 .. Edge) \X (1 .. Edge)
      PROVE  p \in Inside(b) <=> p \in (l + 1 .. r) \X (t + 1 .. u)
  <2>1. p[1] \in Int /\ p[2] \in Int /\ p = <<p[1], p[2]>>
    BY EdgeAssumption
  <2>2. /\ b.x - b.w = 2 * l /\ b.x + b.w = 2 * r
        /\ b.y - b.h = 2 * t /\ b.y + b.h = 2 * u
    BY EdgeAssumption DEF Sides
  <2>3. p \in Inside(b) <=> l < p[1] /\ p[1] <= r /\ t < p[2] /\ p[2] <= u
    BY <2>1, <2>2 DEF Inside
  <2>. QED BY <2>1, <2>3
<1>2. \A p \in (l + 1 .. r) \X (t + 1 .. u) : p \in (1 .. Edge) \X (1 .. Edge)
  BY EdgeAssumption DEF Sides
<1>3. \A p \in Inside(b) : p \in (1 .. Edge) \X (1 .. Edge)
  BY DEF Inside
<1>. QED BY <1>1, <1>2, <1>3 DEF Rectangle

LEMMA RectangleCount ==
  ASSUME NEW l \in Int, NEW r \in Int, NEW t \in Int, NEW u \in Int
  PROVE  /\ IsFiniteSet(Rectangle(l, r, t, u))
         /\ Cardinality(Rectangle(l, r, t, u)) = Area(l, r, t, u)
<1> DEFINE S == l + 1 .. r
           V == t + 1 .. u
<1>1. IsFiniteSet(S) /\ Cardinality(S) = IF r < l THEN 0 ELSE r - l
  <2>1. l + 1 \in Int
    OBVIOUS
  <2>2. IsFiniteSet(S) /\ Cardinality(S) = IF l + 1 > r THEN 0 ELSE r - (l + 1) + 1
    BY <2>1, FS_Interval
  <2>. QED BY <2>2
<1>2. IsFiniteSet(V) /\ Cardinality(V) = IF u < t THEN 0 ELSE u - t
  <2>1. t + 1 \in Int
    OBVIOUS
  <2>2. IsFiniteSet(V) /\ Cardinality(V) = IF t + 1 > u THEN 0 ELSE u - (t + 1) + 1
    BY <2>1, FS_Interval
  <2>. QED BY <2>2
<1> HIDE DEF S, V
<1>3. IsFiniteSet(S \X V) /\ Cardinality(S \X V) = Cardinality(S) * Cardinality(V)
  BY <1>1, <1>2, FS_Product
<1>4. Cardinality(S) * Cardinality(V) = Area(l, r, t, u)
  <2>1. CASE r < l
    BY <1>1, <1>2, <2>1 DEF Area
  <2>2. CASE u < t
    BY <1>1, <1>2, <2>2 DEF Area
  <2>3. CASE ~(r < l) /\ ~(u < t)
    BY <1>1, <1>2, <2>3 DEF Area
  <2>. QED BY <2>1, <2>2, <2>3
<1>. QED BY <1>3, <1>4 DEF S, V, Rectangle

LEMMA OverlapIs ==
  ASSUME NEW l \in Nat, NEW r \in Nat, NEW m \in Nat, NEW s \in Nat
  PROVE  Overlap(l + r, r - l, m + s, s - m) = Least(r, s) - Most(l, m)
<1>1. (l + r) + (r - l) = 2 * r /\ (m + s) + (s - m) = 2 * s
  OBVIOUS
<1>2. (l + r) - (r - l) = 2 * l /\ (m + s) - (s - m) = 2 * m
  OBVIOUS
<1>3. Least(2 * r, 2 * s) = 2 * Least(r, s) /\ Most(2 * l, 2 * m) = 2 * Most(l, m)
  BY DEF Least, Most
<1>4. Least(r, s) \in Nat /\ Most(l, m) \in Nat
  BY DEF Least, Most
<1>5. \A k \in Nat : (2 * k) \div 2 = k
  OBVIOUS
<1>. QED BY <1>1, <1>2, <1>3, <1>4, <1>5 DEF Overlap

(* The intersection's area counts the cells in both boxes, the union's     *)
(* those in either.                                                        *)
LEMMA AreasCount ==
  ASSUME NEW a \in GridBoxes, NEW b \in GridBoxes
  PROVE  /\ IsFiniteSet(Inside(a) \cup Inside(b))
         /\ box_intersection(a, b) = Cardinality(Inside(a) \cap Inside(b))
         /\ box_union(a, b) = Cardinality(Inside(a) \cup Inside(b))
         /\ box_intersection(a, b) \in Nat /\ box_union(a, b) \in Nat
<1>1. PICK l, r, t, u \in Nat : Sides(a, l, r, t, u)
  BY HasSides
<1>2. PICK m, s, v, w \in Nat : Sides(b, m, s, v, w)
  BY HasSides
<1>3. PICK left \in Int, right \in Int, top \in Int, bottom \in Int :
        /\ left = Most(l, m) /\ right = Least(r, s)
        /\ top = Most(t, v) /\ bottom = Least(u, w)
  BY DEF Least, Most
<1>4. Inside(a) = Rectangle(l, r, t, u) /\ Inside(b) = Rectangle(m, s, v, w)
  BY <1>1, <1>2, CellsInside
<1>5. Inside(a) \cap Inside(b) = Rectangle(left, right, top, bottom)
  <2>1. ASSUME NEW i \in Int
        PROVE  i \in l + 1 .. r /\ i \in m + 1 .. s <=> i \in left + 1 .. right
    BY <2>1, <1>3 DEF Least, Most
  <2>2. ASSUME NEW i \in Int
        PROVE  i \in t + 1 .. u /\ i \in v + 1 .. w <=> i \in top + 1 .. bottom
    BY <2>2, <1>3 DEF Least, Most
  <2>3. /\ (l + 1 .. r) \cap (m + 1 .. s) = left + 1 .. right
        /\ (t + 1 .. u) \cap (v + 1 .. w) = top + 1 .. bottom
    BY <2>1, <2>2, <1>3
  <2>4. \A A, B, C, D : (A \X B) \cap (C \X D) = (A \cap C) \X (B \cap D)
    OBVIOUS
  <2>. QED BY <1>4, <2>3, <2>4 DEF Rectangle
<1>6. /\ IsFiniteSet(Inside(a)) /\ Cardinality(Inside(a)) = a.w * a.h
      /\ IsFiniteSet(Inside(b)) /\ Cardinality(Inside(b)) = b.w * b.h
  <2>1. /\ l < r /\ t < u /\ a.w = r - l /\ a.h = u - t
        /\ m < s /\ v < w /\ b.w = s - m /\ b.h = w - v
    BY <1>1, <1>2 DEF Sides
  <2>2. Area(l, r, t, u) = a.w * a.h /\ Area(m, s, v, w) = b.w * b.h
    BY <2>1 DEF Area
  <2>3. /\ IsFiniteSet(Inside(a)) /\ Cardinality(Inside(a)) = Area(l, r, t, u)
        /\ IsFiniteSet(Inside(b)) /\ Cardinality(Inside(b)) = Area(m, s, v, w)
    BY <1>4, RectangleCount
  <2>. QED BY <2>2, <2>3
<1>7. box_intersection(a, b) = Cardinality(Inside(a) \cap Inside(b))
  <2>1. /\ a.x = l + r /\ a.w = r - l /\ a.y = t + u /\ a.h = u - t
        /\ b.x = m + s /\ b.w = s - m /\ b.y = v + w /\ b.h = w - v
    BY <1>1, <1>2 DEF Sides
  <2>2. /\ Overlap(l + r, r - l, m + s, s - m) = right - left
        /\ Overlap(t + u, u - t, v + w, w - v) = bottom - top
    BY <1>3, OverlapIs
  <2>3. Cardinality(Inside(a) \cap Inside(b)) = Area(left, right, top, bottom)
    <3> DEFINE C == Inside(a) \cap Inside(b)
    <3>1. C = Rectangle(left, right, top, bottom)
      BY <1>5
    <3> HIDE DEF C
    <3>2. Cardinality(C) = Area(left, right, top, bottom)
      BY <3>1, RectangleCount
    <3>. QED BY <3>2 DEF C
  <2>4. (right - left < 0 <=> right < left) /\ (bottom - top < 0 <=> bottom < top)
    BY <1>3
  <2>. QED BY <2>1, <2>2, <2>3, <2>4 DEF box_intersection, Area
<1>8. /\ IsFiniteSet(Inside(a) \cup Inside(b))
      /\ Cardinality(Inside(a) \cup Inside(b)) = a.w * a.h + b.w * b.h - box_intersection(a, b)
  BY <1>6, <1>7, FS_Union
<1>9. Cardinality(Inside(a) \cup Inside(b)) \in Nat /\ Cardinality(Inside(a) \cap Inside(b)) \in Nat
  BY <1>6, <1>8, FS_CardinalityType, FS_Intersection
<1>. QED BY <1>7, <1>8, <1>9 DEF box_union

LEMMA SquaresOrder ==
  ASSUME NEW p \in Int, NEW q \in Int, -q < p, p < q
  PROVE  p * p < q * q
<1>1. (q - p) * (q + p) > 0
  <2>1. q - p \in Nat \ {0} /\ q + p \in Nat \ {0}
    OBVIOUS
  <2>2. \A x, y \in Nat \ {0} : x * y > 0
    OBVIOUS
  <2>. QED BY <2>1, <2>2
<1>2. (q - p) * (q + p) = q * q - p * p
  OBVIOUS
<1>3. q * q \in Int /\ p * p \in Int
  OBVIOUS
<1>. QED BY <1>1, <1>2, <1>3

LEMMA SquareOf ==
  ASSUME NEW p \in Int
  PROVE  p * p \in Nat /\ (p * p = 0 <=> p = 0)
OBVIOUS

(* The middles lie nearer to one another than the ends around both. *)
LEMMA MiddlesNear ==
  ASSUME NEW l \in Nat, NEW r \in Nat, NEW m \in Nat, NEW s \in Nat, l < r, m < s
  PROVE  LET d == (l + r) - (m + s)
             c == Most(l + r + (r - l), m + s + (s - m))
                    - Least(l + r - (r - l), m + s - (s - m))
         IN  d \in Int /\ c \in Int /\ -c < d /\ d < c
BY DEF Most, Least

LEMMA DistanceBelow ==
  ASSUME NEW a \in GridBoxes, NEW b \in GridBoxes
  PROVE  LET d == box_diounms(a, b) IN
         /\ 0 <= d[1] /\ d[1] < d[2]
         /\ (d[1] = 0 <=> (a.x = b.x /\ a.y = b.y))
<1>1. PICK l, r, t, u \in Nat : Sides(a, l, r, t, u)
  BY HasSides
<1>2. PICK m, s, v, w \in Nat : Sides(b, m, s, v, w)
  BY HasSides
<1> DEFINE p == a.x - b.x    q == a.y - b.y
           c == Around(a, b)
<1>3. /\ a.x = l + r /\ a.w = r - l /\ a.y = t + u /\ a.h = u - t
      /\ b.x = m + s /\ b.w = s - m /\ b.y = v + w /\ b.h = w - v
      /\ l < r /\ t < u /\ m < s /\ v < w
  BY <1>1, <1>2 DEF Sides
<1>4. p \in Int /\ c.w \in Int /\ -c.w < p /\ p < c.w
  BY <1>3, MiddlesNear DEF Around
<1>5. q \in Int /\ c.h \in Int /\ -c.h < q /\ q < c.h
  BY <1>3, MiddlesNear DEF Around
<1>6. (p = 0 <=> a.x = b.x) /\ (q = 0 <=> a.y = b.y)
  BY <1>3
<1>7. box_diounms(a, b) = <<p * p + q * q, c.w * c.w + c.h * c.h>>
  BY DEF box_diounms
<1> HIDE DEF p, q, c
<1>8. p * p < c.w * c.w /\ q * q < c.h * c.h
  BY <1>4, <1>5, SquaresOrder
<1>9. /\ p * p \in Nat /\ (p * p = 0 <=> p = 0) /\ q * q \in Nat /\ (q * q = 0 <=> q = 0)
      /\ c.w * c.w \in Nat /\ c.h * c.h \in Nat
  BY <1>4, <1>5, SquareOf
<1>10. /\ 0 <= p * p + q * q /\ p * p + q * q < c.w * c.w + c.h * c.h
       /\ (p * p + q * q = 0 <=> p = 0 /\ q = 0)
  <2> DEFINE P == p * p   Q == q * q   W == c.w * c.w   H == c.h * c.h
  <2>1. P \in Nat /\ Q \in Nat /\ W \in Nat /\ H \in Nat /\ P < W /\ Q < H
    BY <1>8, <1>9
  <2>2. (P = 0 <=> p = 0) /\ (Q = 0 <=> q = 0)
    BY <1>9
  <2> HIDE DEF P, Q, W, H
  <2>3. 0 <= P + Q /\ P + Q < W + H /\ (P + Q = 0 <=> p = 0 /\ q = 0)
    BY <2>1, <2>2
  <2>. QED BY <2>3 DEF P, Q, W, H
<1>. QED BY <1>6, <1>7, <1>10

(* The measures by which boxes are suppressed are what they stand for, on  *)
(* a grid of any size (yoloDetect.cpp, box_iou and box_diounms).           *)
THEOREM MeasuresSound == OverlapSpec => []OverlapSound
<1>1. OverlapTypes => OverlapSound
  <2> SUFFICES ASSUME OverlapTypes PROVE IouOfAreas /\ DistanceTakesOff
    BY DEF OverlapSound
  <2> DEFINE I == box_intersection(boxA, boxB)
             U == box_union(boxA, boxB)
  <2>1. /\ I = Cardinality(Inside(boxA) \cap Inside(boxB)) /\ I \in Nat
        /\ U = Cardinality(Inside(boxA) \cup Inside(boxB)) /\ U \in Nat
    BY AreasCount DEF OverlapTypes
  <2>2. box_iou(boxA, boxB) = IF I = 0 \/ U = 0 THEN <<0, 1>> ELSE <<I, U>>
    BY DEF box_iou
  <2>3. U = 0 => I = 0
    <3>1. IsFiniteSet(Inside(boxA) \cup Inside(boxB))
      BY AreasCount DEF OverlapTypes
    <3>2. Inside(boxA) \cap Inside(boxB) \in SUBSET (Inside(boxA) \cup Inside(boxB))
      OBVIOUS
    <3>3. I <= U
      BY <2>1, <3>1, <3>2, FS_Subset
    <3>. QED BY <2>1, <3>3
  <2>4. IouOfAreas
    <3> HIDE DEF I, U
    <3>1. box_iou(boxA, boxB)[1] * U = I * box_iou(boxA, boxB)[2]
      BY <2>1, <2>2, <2>3
    <3>. QED BY <2>1, <3>1 DEF IouOfAreas
  <2>5. DistanceTakesOff
    BY DistanceBelow DEF DistanceTakesOff, OverlapTypes
  <2>. QED BY <2>4, <2>5
<1>. QED BY <1>1, OverlapTyped, PTL

-----------------------------------------------------------------------------
(* The drivers: what a transfer has moved.                                 *)

(* n bytes from address b on. *)
Bytes(b, n) == [i \in 1..n |-> b + i - 1]

MoveTypes ==
  /\ position \in [{"out", "in"} -> Nat]
  /\ move.kind \in {"none", "failed", "data", "param", "read", "fromDev", "paramFromDev"}
  /\ move.base \in Nat /\ move.size \in Nat /\ move.count \in Nat /\ move.from \in Nat
  /\ DOMAIN move = {"kind", "base", "size", "count", "from"}
  /\ move.count <= move.size
  /\ moved \in Seq(Nat)
  /\ devPc \in {"idle", "moving", "down", "aborted"}

(* A transfer that has not failed moved what it counts, and from the       *)
(* place its addresses name if the file stood there when it began.         *)
CountInv ==
  move.kind \notin {"none", "failed"} =>
    /\ Len(moved) = move.count
    /\ move.from = move.base => moved = Bytes(move.base, move.count)

(* A file that is not sought in still stands where it stood. *)
StandsInv ==
  devPc = "moving" =>
    /\ move.kind \in {"data", "param", "read", "fromDev", "paramFromDev"}
    /\ ByLoop(move.kind) /\ move.base = 0 /\ move.count = 0 => move.from = position[Way(move.kind)]

(* The register is only down for a whole picture. *)
DownInv ==
  /\ devPc = "moving" => starts = <<>>
  /\ devPc = "down" => /\ startReg = 0 /\ starts = <<>>
                       /\ move.kind \in {"data", "fromDev"} /\ move.count = move.size

MoveInv == MoveTypes /\ CountInv /\ StandsInv /\ DownInv

LEMMA BytesAre ==
  ASSUME NEW b \in Nat, NEW n \in Nat
  PROVE  Bytes(b, n) \in Seq(Nat) /\ Len(Bytes(b, n)) = n
BY DEF Bytes

LEMMA BytesJoin ==
  ASSUME NEW b \in Nat, NEW n \in Nat, NEW d \in Nat
  PROVE  Bytes(b, n) \o Bytes(b + n, d) = Bytes(b, n + d)
<1> DEFINE l == Bytes(b, n) \o Bytes(b + n, d)
           r == Bytes(b, n + d)
<1>1. /\ Bytes(b, n) \in Seq(Nat) /\ Len(Bytes(b, n)) = n
      /\ Bytes(b + n, d) \in Seq(Nat) /\ Len(Bytes(b + n, d)) = d
      /\ r \in Seq(Nat) /\ Len(r) = n + d
  <2>1. b + n \in Nat /\ n + d \in Nat
    OBVIOUS
  <2>. QED BY <2>1, BytesAre
<1>2. l \in Seq(Nat) /\ Len(l) = n + d
  BY <1>1, ConcatProperties
<1>3. ASSUME NEW i \in 1 .. n + d PROVE l[i] = r[i]
  <2>1. l[i] = IF i <= n THEN Bytes(b, n)[i] ELSE Bytes(b + n, d)[i - n]
    BY <1>1, ConcatProperties
  <2>2. r[i] = b + i - 1
    BY DEF Bytes
  <2>3. CASE i <= n
    BY <2>1, <2>2, <2>3 DEF Bytes
  <2>4. CASE ~(i <= n)
    <3>1. i - n \in 1 .. d
      BY <2>4
    <3>2. Bytes(b + n, d)[i - n] = b + n + (i - n) - 1
      BY <3>1 DEF Bytes
    <3>3. b + n + (i - n) - 1 = b + i - 1
      OBVIOUS
    <3>4. l[i] = Bytes(b + n, d)[i - n]
      BY <2>1, <2>4
    <3> HIDE DEF l, r
    <3>. QED BY <2>2, <3>2, <3>3, <3>4
  <2>. QED BY <2>3, <2>4
<1> HIDE DEF l, r
<1>4. l = r
  BY <1>1, <1>2, <1>3, SeqEqual
<1>. QED BY <1>4 DEF l, r

LEMMA InitMove ==
  DeviceInit => MoveInv
<1> SUFFICES ASSUME DeviceInit PROVE MoveInv
  OBVIOUS
<1>1. position \in [{"out", "in"} -> Nat]
  <2>1. AtZero = [w \in {"out", "in"} |-> 0]
    BY DEF AtZero
  <2>. QED BY <2>1 DEF DeviceInit
<1>2. /\ move.kind = "none" /\ move.base = 0 /\ move.size = 0 /\ move.count = 0
      /\ move.from = 0 /\ DOMAIN move = {"kind", "base", "size", "count", "from"}
  BY DEF DeviceInit, NoMove
<1>3. moved \in Seq(Nat) /\ devPc = "idle"
  BY DEF DeviceInit
<1>. QED BY <1>1, <1>2, <1>3 DEF MoveInv, MoveTypes, CountInv, StandsInv, DownInv

LEMMA BeginMove ==
  ASSUME MoveInv, NEW kind \in Kinds(driver), NEW base \in Bases, NEW size \in Sizes,
         Begin(kind, base, size)
  PROVE  MoveInv'
<1>1. /\ devPc = "idle" /\ moved' = <<>> /\ starts' = <<>> /\ devPc' = "moving"
      /\ position' = position /\ driver' = driver
      /\ move' = [kind |-> kind, base |-> base, size |-> size, count |-> 0,
                  from |-> IF base = 0 /\ ByLoop(kind) THEN position[Way(kind)] ELSE base]
  BY DEF Begin, fileVars
<1>2. kind \in {"data", "param", "read", "fromDev", "paramFromDev"} /\ base \in Nat /\ size \in Nat
  BY DeviceConstants DEF Kinds, FromDev
<1>3. position[Way(kind)] \in Nat
  BY DEF Way, MoveInv, MoveTypes
<1>4. /\ move'.kind = kind /\ move'.base = base /\ move'.size = size /\ move'.count = 0
      /\ move'.from = (IF base = 0 /\ ByLoop(kind) THEN position[Way(kind)] ELSE base)
      /\ DOMAIN move' = {"kind", "base", "size", "count", "from"}
  BY <1>1
<1>5. MoveTypes'
  BY <1>1, <1>2, <1>3, <1>4 DEF MoveInv, MoveTypes
<1>6. CountInv'
  <2>1. Bytes(base, 0) = <<>>
    BY <1>2 DEF Bytes
  <2>. QED BY <1>1, <1>4, <2>1 DEF CountInv
<1>7. StandsInv'
  <2>1. Way(kind)' = Way(kind) /\ (ByLoop(kind)' <=> ByLoop(kind))
    BY <1>1 DEF Way, ByLoop
  <2>. QED BY <1>1, <1>2, <1>4, <2>1 DEF StandsInv, ByLoop, Way
<1>8. DownInv'
  BY <1>1 DEF DownInv
<1>. QED BY <1>5, <1>6, <1>7, <1>8 DEF MoveInv

LEMMA ChunkMove ==
  ASSUME MoveInv, NEW done \in 0..RW_MAX_SIZE, Chunk(done)
  PROVE  MoveInv'
<1> DEFINE way == Way(move.kind)
           at == ChunkAt(move, position[way])
<1>1. /\ devPc = "moving" /\ ByLoop(move.kind) /\ move.count < move.size
      /\ done <= ChunkSize(move) /\ driver' = driver /\ starts' = starts /\ startReg' = startReg
      /\ moved' = moved \o [i \in 1..done |-> at + i - 1]
      /\ position' = [position EXCEPT ![way] = at + done]
  BY DEF Chunk, fileVars, startVars
<1>2. \/ done = ChunkSize(move) /\ devPc' = devPc
         /\ move' = [move EXCEPT !.count = @ + done]
      \/ /\ devPc' \in {"idle", "aborted"}
         /\ move' = [move EXCEPT !.kind = "failed"]
  BY DEF Chunk
<1>3. /\ way \in {"out", "in"} /\ position[way] \in Nat /\ at \in Nat /\ done \in Nat
      /\ RW_MAX_SIZE \in Nat \ {0}
  <2>1. way \in {"out", "in"} /\ position[way] \in Nat
    BY DEF Way, MoveInv, MoveTypes
  <2>. QED BY <2>1, DeviceConstants DEF ChunkAt, MoveInv, MoveTypes
<1>4. [i \in 1..done |-> at + i - 1] = Bytes(at, done)
  BY DEF Bytes
<1> HIDE DEF way, at
<1>5. /\ position' \in [{"out", "in"} -> Nat] /\ moved' = moved \o Bytes(at, done)
      /\ moved' \in Seq(Nat) /\ Len(moved') = Len(moved) + done
  <2>1. at + done \in Nat
    BY <1>3
  <2>2. Bytes(at, done) \in Seq(Nat) /\ Len(Bytes(at, done)) = done
    BY <1>3, BytesAre
  <2>3. moved' = moved \o Bytes(at, done)
    BY <1>1, <1>4
  <2>4. position' \in [{"out", "in"} -> Nat]
    BY <1>1, <1>3, <2>1 DEF MoveInv, MoveTypes
  <2>5. moved \in Seq(Nat)
    BY DEF MoveInv, MoveTypes
  <2>6. moved' \in Seq(Nat) /\ Len(moved') = Len(moved) + done
    BY <2>2, <2>3, <2>5, ConcatProperties
  <2>. QED BY <2>3, <2>4, <2>6
<1>6. CASE /\ devPc' \in {"idle", "aborted"}
           /\ move' = [move EXCEPT !.kind = "failed"]
  <2>1. /\ move'.kind = "failed" /\ move'.base = move.base /\ move'.size = move.size
        /\ move'.count = move.count /\ move'.from = move.from /\ DOMAIN move' = DOMAIN move
    BY <1>6 DEF MoveInv, MoveTypes
  <2>. QED BY <1>5, <1>6, <2>1 DEF MoveInv, MoveTypes, CountInv, StandsInv, DownInv
<1>7. CASE done = ChunkSize(move) /\ devPc' = devPc
           /\ move' = [move EXCEPT !.count = @ + done]
  <2>1. /\ move'.kind = move.kind /\ move'.base = move.base /\ move'.size = move.size
        /\ move'.count = move.count + done /\ move'.from = move.from
        /\ DOMAIN move' = DOMAIN move
    BY <1>7 DEF MoveInv, MoveTypes
  <2>2. done > 0 /\ move.count + done <= move.size
    <3> DEFINE c == move.count   z == move.size
    <3>1. c \in Nat /\ z \in Nat /\ c < z
      BY <1>1 DEF MoveInv, MoveTypes
    <3>2. done = IF z - c > RW_MAX_SIZE THEN RW_MAX_SIZE ELSE z - c
      BY <1>7 DEF ChunkSize
    <3> HIDE DEF c, z
    <3>3. done > 0 /\ c + done <= z
      BY <1>3, <3>1, <3>2
    <3>. QED BY <3>3 DEF c, z
  <2>3. MoveTypes'
    <3>1. move'.count \in Nat /\ move'.count <= move'.size
      BY <1>3, <2>1, <2>2 DEF MoveInv, MoveTypes
    <3>2. /\ move'.kind \in {"none", "failed", "data", "param", "read", "fromDev", "paramFromDev"}
          /\ move'.base \in Nat /\ move'.size \in Nat /\ move'.from \in Nat
          /\ DOMAIN move' = {"kind", "base", "size", "count", "from"}
      BY <2>1 DEF MoveInv, MoveTypes
    <3>3. devPc' \in {"idle", "moving", "down", "aborted"}
      BY <1>1, <1>7
    <3>. QED BY <1>5, <3>1, <3>2, <3>3 DEF MoveTypes
  <2>4. move.kind \in {"data", "param", "read", "fromDev", "paramFromDev"}
    BY <1>1 DEF MoveInv, StandsInv
  <2>5. move.from = move.base => at = move.base + move.count
    BY <1>1, <1>3 DEF at, way, ChunkAt, MoveInv, MoveTypes, StandsInv
  <2>6. CountInv'
    <3>1. Len(moved) = move.count /\ (move.from = move.base => moved = Bytes(move.base, move.count))
      BY <2>4 DEF MoveInv, CountInv
    <3>2. move.from = move.base => moved' = Bytes(move.base, move.count + done)
      <4> SUFFICES ASSUME move.from = move.base PROVE moved' = Bytes(move.base, move.count + done)
        OBVIOUS
      <4>1. moved' = Bytes(move.base, move.count) \o Bytes(move.base + move.count, done)
        BY <1>5, <2>5, <3>1
      <4>2. move.base \in Nat /\ move.count \in Nat
        BY DEF MoveInv, MoveTypes
      <4>. QED BY <1>3, <4>1, <4>2, BytesJoin
    <3>. QED BY <1>5, <2>1, <3>1, <3>2 DEF CountInv
  <2>7. StandsInv'
    BY <1>3, <2>1, <2>2, <2>4 DEF StandsInv, MoveInv, MoveTypes
  <2>8. DownInv'
    BY <1>1, <1>7 DEF DownInv, MoveInv
  <2>. QED BY <2>3, <2>6, <2>7, <2>8 DEF MoveInv
<1>. QED BY <1>2, <1>6, <1>7

LEMMA OtherMove ==
  ASSUME MoveInv,
         \/ \E refusal \in SUBSET FilesOf(driver) : Open(refusal)
         \/ Close \/ Copy \/ Moved \/ Start
         \/ \E index \in Indices : ReadReg(index)
         \/ \E t \in Tables : Load(t)
         \/ UNCHANGED deviceVars
  PROVE  MoveInv'
<1> USE DEF MoveInv
<1>1. CASE \E refusal \in SUBSET FilesOf(driver) : Open(refusal)
  <2>1. /\ devPc = "idle" /\ devPc' = devPc /\ driver' = driver /\ position' = AtZero
        /\ move' = move /\ moved' = moved /\ startReg' = startReg /\ starts' = starts
    BY <1>1 DEF Open, startVars
  <2>2. position' \in [{"out", "in"} -> Nat]
    <3>1. AtZero = [w \in {"out", "in"} |-> 0]
      BY DEF AtZero
    <3>. QED BY <2>1, <3>1
  <2>. QED BY <2>1, <2>2 DEF MoveTypes, CountInv, StandsInv, DownInv
<1>2. CASE \/ Close \/ (\E index \in Indices : ReadReg(index)) \/ (\E t \in Tables : Load(t))
           \/ UNCHANGED deviceVars
  <2>1. UNCHANGED <<driver, devPc, position, move, moved, startReg, starts>>
    BY <1>2 DEF Close, ReadReg, Load, deviceVars, moveVars, startVars
  <2>2. \A kind : (ByLoop(kind)' <=> ByLoop(kind))
    BY <2>1 DEF ByLoop
  <2>. QED BY <2>1, <2>2 DEF MoveTypes, CountInv, StandsInv, DownInv, ByLoop
<1>3. CASE Copy
  <2>1. /\ devPc = "moving" /\ devPc' = devPc /\ driver' = driver /\ position' = position
        /\ ~ByLoop(move.kind) /\ move' = [move EXCEPT !.count = move.size]
        /\ moved' = Bytes(move.base, move.size) /\ startReg' = startReg /\ starts' = starts
    BY <1>3 DEF Copy, startVars, Bytes
  <2>2. /\ move'.kind = move.kind /\ move'.base = move.base /\ move'.size = move.size
        /\ move'.count = move.size /\ move'.from = move.from
        /\ DOMAIN move' = DOMAIN move
    BY <2>1 DEF MoveTypes
  <2>3. moved' \in Seq(Nat) /\ Len(moved') = move.size
    BY <2>1, BytesAre DEF MoveTypes
  <2>4. MoveTypes'
    BY <2>1, <2>2, <2>3 DEF MoveTypes
  <2>5. ~(driver' = "xdma" \/ move'.kind \in FromDev)
    BY <2>1, <2>2 DEF ByLoop
  <2>6. StandsInv'
    BY <2>1, <2>2, <2>5 DEF StandsInv, ByLoop
  <2>7. CountInv' /\ DownInv'
    BY <2>1, <2>2, <2>3 DEF CountInv, DownInv
  <2>. QED BY <2>4, <2>6, <2>7
<1>4. CASE Moved
  <2>1. /\ devPc = "moving" /\ move.count = move.size
        /\ UNCHANGED <<driver, position, move, moved, starts>>
        /\ \/ move.kind \in {"data", "fromDev"} /\ devPc' = "down" /\ startReg' = 0
           \/ devPc' = "idle"
    BY <1>4 DEF Moved, moveVars
  <2>. QED BY <2>1 DEF MoveTypes, CountInv, StandsInv, DownInv
<1>5. CASE Start
  <2>1. /\ devPc = "down" /\ devPc' = "idle"
        /\ UNCHANGED <<driver, position, move, moved>>
    BY <1>5 DEF Start, moveVars
  <2>. QED BY <2>1 DEF MoveTypes, CountInv, StandsInv, DownInv
<1>. QED BY <1>1, <1>2, <1>3, <1>4, <1>5

LEMMA MoveInvariance == DeviceSpec => []MoveInv
<1>1. MoveInv /\ [DeviceNext]_deviceVars => MoveInv'
  BY BeginMove, ChunkMove, OtherMove DEF DeviceNext
<1>. QED BY <1>1, InitMove, PTL DEF DeviceSpec

(* The device starts on a whole picture and on nothing else, for data of   *)
(* any size moved in chunks of any size (dma_utils.c, fpga_calc_start).    *)
THEOREM DeviceStartsWhole == DeviceSpec => StartsOnWholePicture
<1> DEFINE Full == devPc = "down" /\ devPc' = "idle" =>
                      /\ starts' = <<move>> /\ move.kind \in {"data", "fromDev"}
                      /\ Len(moved) = move.size
<1>1. MoveInv /\ [DeviceNext]_deviceVars => [Full]_deviceVars
  <2> SUFFICES ASSUME MoveInv, DeviceNext, devPc = "down", devPc' = "idle"
               PROVE  /\ starts' = <<move>> /\ move.kind \in {"data", "fromDev"}
                      /\ Len(moved) = move.size
    OBVIOUS
  <2>1. /\ startReg = 0 /\ starts = <<>> /\ move.kind \in {"data", "fromDev"}
        /\ move.count = move.size
    BY DEF MoveInv, DownInv
  <2>2. Len(moved) = move.size
    BY <2>1 DEF MoveInv, CountInv
  <2>3. Start
    BY DEF DeviceNext, Open, Close, Begin, Chunk, Copy, Moved, ReadReg, Load
  <2>4. starts' = <<move>>
    BY <2>1, <2>3 DEF Start
  <2>. QED BY <2>1, <2>2, <2>4
<1>. QED BY <1>1, MoveInvariance, PTL DEF DeviceSpec, StartsOnWholePicture

-----------------------------------------------------------------------------
(* The drivers: the files they hold.                                       *)

(* Opening and closing one file after the other. *)
LEMMA OpenFilesStep ==
  ASSUME NEW s, NEW files, NEW n \in Nat
  PROVE  /\ OpenFiles(s, files, 0) = s
         /\ OpenFiles(s, files, n + 1) = OpenFile(OpenFiles(s, files, n), files[n + 1])
<1> DEFINE Is(m, f) == f = [i \in 0..m |-> IF i = 0 THEN s ELSE OpenFile(f[i - 1], files[i])]
           P == {m \in Nat : \E f : Is(m, f)}
           F(m) == CHOOSE f : Is(m, f)
<1>1. 0 \in P
  <2>1. Is(0, [i \in 0..0 |-> s])
    OBVIOUS
  <2>. QED BY <2>1
<1>2. ASSUME NEW m \in Nat, m \in P PROVE m + 1 \in P
  <2>1. PICK g : Is(m, g)
    BY <1>2
  <2> DEFINE h == [i \in 0 .. m + 1 |-> IF i = m + 1 THEN OpenFile(g[m], files[m + 1]) ELSE g[i]]
  <2>2. ASSUME NEW i \in 0 .. m + 1
        PROVE  h[i] = IF i = 0 THEN s ELSE OpenFile(h[i - 1], files[i])
    <3>1. CASE i = m + 1
      <4>1. h[m + 1] = OpenFile(g[m], files[m + 1]) /\ h[m] = g[m]
        OBVIOUS
      <4> HIDE DEF h
      <4>. QED BY <3>1, <4>1
    <3>2. CASE i # m + 1
      <4>1. i \in 0..m /\ (i # 0 => i - 1 \in 0..m /\ i - 1 # m + 1)
        BY <3>2
      <4>2. h[i] = g[i] /\ (i # 0 => h[i - 1] = g[i - 1])
        BY <3>2, <4>1
      <4> HIDE DEF h
      <4>. QED BY <2>1, <4>1, <4>2
    <3>. QED BY <3>1, <3>2
  <2>3. h = [i \in 0 .. m + 1 |-> h[i]]
    OBVIOUS
  <2> HIDE DEF h
  <2>4. Is(m + 1, h)
    BY <2>2, <2>3
  <2>. QED BY <2>4
<1>3. \A m \in Nat : Is(m, F(m))
  <2> HIDE DEF P
  <2>1. Nat \subseteq P
    BY <1>1, <1>2, AllNumbers
  <2>. QED BY <2>1 DEF P
<1>4. \A m \in Nat : OpenFiles(s, files, m) = F(m)[m]
  BY DEF OpenFiles
<1> DEFINE Q == {i \in Nat : i <= n => F(n)[i] = F(n + 1)[i]}
<1>5. /\ Is(n, F(n)) /\ Is(n + 1, F(n + 1)) /\ Is(0, F(0))
  <2>1. n + 1 \in Nat /\ 0 \in Nat
    OBVIOUS
  <2> HIDE DEF Is
  <2>. QED BY <1>3, <2>1
<1> HIDE DEF F
<1>6. 0 \in Q
  BY <1>5
<1>7. ASSUME NEW i \in Nat, i \in Q PROVE i + 1 \in Q
  <2> SUFFICES ASSUME i + 1 <= n PROVE F(n)[i + 1] = F(n + 1)[i + 1]
    OBVIOUS
  <2>1. F(n)[i] = F(n + 1)[i] /\ i + 1 \in 0..n /\ i + 1 \in 0..(n + 1) /\ i + 1 # 0 /\ (i + 1) - 1 = i
    BY <1>7
  <2>2. /\ F(n)[i + 1] = OpenFile(F(n)[i], files[i + 1])
        /\ F(n + 1)[i + 1] = OpenFile(F(n + 1)[i], files[i + 1])
    BY <1>5, <2>1
  <2>. QED BY <2>1, <2>2
<1>8. F(n)[n] = F(n + 1)[n]
  <2> HIDE DEF Q
  <2>1. n \in Q
    BY <1>6, <1>7, AllNumbers
  <2>. QED BY <2>1 DEF Q
<1>9. F(n + 1)[n + 1] = OpenFile(F(n + 1)[n], files[n + 1]) /\ F(0)[0] = s
  <2>1. n + 1 \in 0..(n + 1) /\ n + 1 # 0 /\ (n + 1) - 1 = n
    OBVIOUS
  <2>. QED BY <1>5, <2>1
<1>. QED BY <1>4, <1>8, <1>9

(* A driver's first n files are open on the descriptors 1 to n. *)
HeldUpTo(d, n) == [m \in Descriptors |-> IF m = 0 THEN "stdin"
                                         ELSE IF m <= n THEN Files(d)[m] ELSE "free"]

Holds(s, d, n) ==
  /\ s.kernel = HeldUpTo(d, n)
  /\ DOMAIN s.fds = FilesOf(d)
  /\ \A i \in 1..n : s.fds[Files(d)[i]] = i

FilesInv ==
  /\ driver \in {"shm", "xdma"}
  /\ ~refused =>
       LET s == [fds |-> fds, kernel |-> kernel]
       IN  IF isOpened THEN Holds(s, driver, Len(Files(driver))) ELSE Holds(s, driver, 0)

LEMMA FilesAre ==
  ASSUME NEW d \in {"shm", "xdma"}
  PROVE  /\ Len(Files(d)) = (IF d = "shm" THEN 2 ELSE 5)
         /\ FilesOf(d) = (IF d = "shm" THEN {"reg", "mem"}
                          ELSE {"reg", "h2c0", "h2c1", "c2h0", "c2h1"})
         /\ \A i \in 1..Len(Files(d)) :
              Files(d)[i] \in FilesOf(d) /\ Files(d)[i] \notin {"free", "stdin"}
         /\ \A i, j \in 1..Len(Files(d)) : Files(d)[i] = Files(d)[j] => i = j
         /\ \A f \in FilesOf(d) : \E i \in 1..Len(Files(d)) : Files(d)[i] = f
<1>1. CASE d = "shm"
  <2>1. Files(d) = <<"reg", "mem">> /\ Len(Files(d)) = 2
    BY <1>1 DEF Files
  <2>2. FilesOf(d) = {"reg", "mem"}
    <3>1. FilesOf(d) = {<<"reg", "mem">>[i] : i \in 1..2}
      BY <2>1 DEF FilesOf, Range
    <3>2. 1..2 = {1, 2}
      OBVIOUS
    <3>. QED BY <3>1, <3>2
  <2>3. Files(d)[1] = "reg" /\ Files(d)[2] = "mem"
    BY <2>1
  <2>4. \A i \in 1..2 : i = 1 \/ i = 2
    OBVIOUS
  <2>. QED BY <1>1, <2>1, <2>2, <2>3, <2>4
<1>2. CASE d = "xdma"
  <2>1. Files(d) = <<"reg", "h2c0", "h2c1", "c2h0", "c2h1">> /\ Len(Files(d)) = 5
    BY <1>2 DEF Files
  <2>2. \A i \in 1..5 : i = 1 \/ i = 2 \/ i = 3 \/ i = 4 \/ i = 5
    OBVIOUS
  <2>3. /\ Files(d)[1] = "reg" /\ Files(d)[2] = "h2c0" /\ Files(d)[3] = "h2c1"
        /\ Files(d)[4] = "c2h0" /\ Files(d)[5] = "c2h1"
    BY <2>1
  <2>4. FilesOf(d) = {"reg", "h2c0", "h2c1", "c2h0", "c2h1"}
    <3>1. FilesOf(d) = {Files(d)[i] : i \in 1..5}
      BY <2>1 DEF FilesOf, Range
    <3>2. 1..5 = {1, 2, 3, 4, 5}
      OBVIOUS
    <3>. QED BY <2>3, <3>1, <3>2
  <2>. QED BY <1>2, <2>1, <2>2, <2>3, <2>4
<1>. QED BY <1>1, <1>2

(* The lowest free descriptor is the next. *)
LEMMA OpensNext ==
  ASSUME NEW d \in {"shm", "xdma"}, NEW n \in Nat, n < Len(Files(d)), NEW s, Holds(s, d, n)
  PROVE  Holds(OpenFile(s, Files(d)[n + 1]), d, n + 1)
<1> DEFINE f == Files(d)[n + 1]
<1>1. /\ n + 1 \in 1..Len(Files(d)) /\ n + 1 \in Descriptors /\ Len(Files(d)) \in Nat
      /\ f \in FilesOf(d) /\ Len(Files(d)) <= 5
  <2>1. Len(Files(d)) = IF d = "shm" THEN 2 ELSE 5
    BY FilesAre
  <2>2. Len(Files(d)) \in Nat /\ Len(Files(d)) <= 5 /\ n + 1 \in 1..Len(Files(d))
    BY <2>1
  <2>. QED BY <2>2, FilesAre DEF Descriptors
<1>2. \A m \in Descriptors : HeldUpTo(d, n)[m] = "free" <=> m > n
  <2> TAKE m \in Descriptors
  <2>1. m \in Int /\ 0 <= m
    BY DEF Descriptors
  <2>2. CASE m = 0
    BY <2>2 DEF HeldUpTo
  <2>3. CASE m # 0 /\ m <= n
    <3>1. m \in 1..Len(Files(d))
      BY <1>1, <2>1, <2>3
    <3>2. Files(d)[m] # "free"
      BY <3>1, FilesAre
    <3>. QED BY <2>1, <2>3, <3>2 DEF HeldUpTo
  <2>4. CASE m > n
    BY <2>1, <2>4 DEF HeldUpTo
  <2>. QED BY <2>1, <2>2, <2>3, <2>4
<1>3. Lowest(s.kernel) = n + 1
  <2>1. \A m \in Descriptors : s.kernel[m] = "free" <=> m > n
    BY <1>2 DEF Holds
  <2>2. \A m \in Descriptors : m \in Int
    BY DEF Descriptors
  <2>3. \A x \in Descriptors :
          s.kernel[x] = "free" /\ (\A m \in Descriptors : s.kernel[m] = "free" => x <= m)
            <=> x = n + 1
    BY <1>1, <2>1, <2>2
  <2>. QED BY <1>1, <2>3 DEF Lowest
<1>4. OpenFile(s, f) = [fds |-> [s.fds EXCEPT ![f] = n + 1],
                        kernel |-> [s.kernel EXCEPT ![n + 1] = f]]
  BY <1>3 DEF OpenFile
<1>5. [s.kernel EXCEPT ![n + 1] = f] = HeldUpTo(d, n + 1)
  <2>1. s.kernel = HeldUpTo(d, n)
    BY DEF Holds
  <2>2. ASSUME NEW m \in Descriptors
        PROVE  [s.kernel EXCEPT ![n + 1] = f][m] = HeldUpTo(d, n + 1)[m]
    <3>1. m \in Int /\ 0 <= m
      BY DEF Descriptors
    <3>2. CASE m = n + 1
      BY <1>1, <2>1, <3>1, <3>2 DEF HeldUpTo
    <3>3. CASE m # n + 1
      <4>1. m <= n <=> m <= n + 1
        BY <3>1, <3>3
      <4>. QED BY <2>1, <3>3, <4>1 DEF HeldUpTo
    <3>. QED BY <3>2, <3>3
  <2>. QED BY <2>1, <2>2 DEF HeldUpTo
<1>6. ASSUME NEW i \in 1 .. n + 1 PROVE [s.fds EXCEPT ![f] = n + 1][Files(d)[i]] = i
  <2>1. i \in 1..Len(Files(d)) /\ Files(d)[i] \in DOMAIN s.fds
    <3>1. i \in 1..Len(Files(d))
      BY <1>1
    <3>. QED BY <3>1, FilesAre DEF Holds
  <2>2. CASE i = n + 1
    BY <2>1, <2>2
  <2>3. CASE i # n + 1
    <3>1. Files(d)[i] # f /\ i \in 1..n
      BY <1>1, <2>1, <2>3, FilesAre
    <3>. QED BY <2>1, <3>1 DEF Holds
  <2>. QED BY <2>2, <2>3
<1>7. DOMAIN [s.fds EXCEPT ![f] = n + 1] = FilesOf(d)
  BY DEF Holds
<1>. QED BY <1>4, <1>5, <1>6, <1>7 DEF Holds

LEMMA NoneRefused ==
  ASSUME NEW s, NEW files
  PROVE  OpenUpTo(s, files, {}) = OpenFiles(s, files, Len(files))
<1>1. SelectInSeq(files, LAMBDA f : f \in {}) = 0
  BY DEF SelectInSeq
<1>. QED BY <1>1 DEF OpenUpTo

LEMMA TwoOpened ==
  ASSUME NEW s, NEW files, Len(files) = 2
  PROVE  OpenUpTo(s, files, {}) = OpenFile(OpenFile(s, files[1]), files[2])
<1>1. OpenUpTo(s, files, {}) = OpenFiles(s, files, 2)
  BY NoneRefused
<1>2. OpenFiles(s, files, 0) = s
  BY OpenFilesStep
<1>3. OpenFiles(s, files, 0 + 1) = OpenFile(OpenFiles(s, files, 0), files[0 + 1])
  BY OpenFilesStep
<1>4. OpenFiles(s, files, 1 + 1) = OpenFile(OpenFiles(s, files, 1), files[1 + 1])
  BY OpenFilesStep
<1>5. 0 + 1 = 1 /\ 1 + 1 = 2
  OBVIOUS
<1>. QED BY <1>1, <1>2, <1>3, <1>4, <1>5

LEMMA ShmHolds ==
  ASSUME NEW s, Holds(s, "shm", 0)
  PROVE  Holds(ShmOpened(s, {}), "shm", Len(Files("shm")))
<1>1. /\ Files("shm") = <<"reg", "mem">> /\ Len(Files("shm")) = 2
      /\ Files("shm")[1] = "reg" /\ Files("shm")[2] = "mem"
  BY DEF Files
<1> DEFINE a == OpenFile(s, Files("shm")[1])
           b == OpenFile(a, Files("shm")[2])
<1>2. ShmOpened(s, {}) = b
  BY <1>1, TwoOpened DEF ShmOpened
<1>3. 0 + 1 = 1 /\ 1 + 1 = 2 /\ 0 < 2 /\ 1 < 2
  OBVIOUS
<1>4. Holds(a, "shm", 1)
  BY <1>1, <1>3, OpensNext
<1> HIDE DEF a
<1>5. Holds(b, "shm", 2)
  BY <1>1, <1>3, <1>4, OpensNext
<1>. QED BY <1>1, <1>2, <1>5

LEMMA XdmaHolds ==
  ASSUME NEW s, Holds(s, "xdma", 0)
  PROVE  Holds(XdmaOpened(s, {}), "xdma", Len(Files("xdma")))
<1> DEFINE F == Files("xdma")
           a == OpenFile(s, F[1])
           b == OpenFile(a, F[2])
           c == OpenFile(b, F[3])
           d == OpenFile(c, F[4])
           e == OpenFile(d, F[5])
<1>1. /\ Len(F) = 5 /\ F[1] = "reg" /\ F[2] = "h2c0" /\ F[3] = "h2c1" /\ F[4] = "c2h0"
      /\ F[5] = "c2h1"
  BY DEF Files
<1>2. XdmaOpened(s, {}) = e
  <2>1. OpenUpTo(a, <<"h2c0", "h2c1">>, {}) = c
    BY <1>1, TwoOpened
  <2>2. OpenUpTo(c, <<"c2h0", "c2h1">>, {}) = e
    BY <1>1, TwoOpened
  <2>3. a = OpenFile(s, "reg")
    BY <1>1
  <2> HIDE DEF a, c, e, F
  <2>. QED BY <2>1, <2>2, <2>3 DEF XdmaOpened
<1>3. /\ 0 + 1 = 1 /\ 1 + 1 = 2 /\ 2 + 1 = 3 /\ 3 + 1 = 4 /\ 4 + 1 = 5
      /\ 0 < 5 /\ 1 < 5 /\ 2 < 5 /\ 3 < 5 /\ 4 < 5
  OBVIOUS
<1>4. Holds(a, "xdma", 1)
  BY <1>1, <1>3, OpensNext
<1> HIDE DEF a
<1>5. Holds(b, "xdma", 2)
  BY <1>1, <1>3, <1>4, OpensNext
<1> HIDE DEF b
<1>6. Holds(c, "xdma", 3)
  BY <1>1, <1>3, <1>5, OpensNext
<1> HIDE DEF c
<1>7. Holds(d, "xdma", 4)
  BY <1>1, <1>3, <1>6, OpensNext
<1> HIDE DEF d
<1>8. Holds(e, "xdma", 5)
  BY <1>1, <1>3, <1>7, OpensNext
<1>. QED BY <1>1, <1>2, <1>8

(* Closing leaves none. *)
LEMMA NoneHeld ==
  ASSUME NEW d \in {"shm", "xdma"}, NEW s, Holds(s, d, Len(Files(d)))
  PROVE  Holds(CloseFiles(s, FilesOf(d)), d, 0)
<1> DEFINE r == CloseFiles(s, FilesOf(d))
           n == Len(Files(d))
<1>1. n \in Nat /\ n <= 5
  <2>1. n = IF d = "shm" THEN 2 ELSE 5
    BY FilesAre
  <2>. QED BY <2>1
<1>2. /\ r.fds = [f \in DOMAIN s.fds |-> IF f \in FilesOf(d) THEN INVALID_DEV_ID ELSE s.fds[f]]
      /\ r.kernel = [m \in Descriptors |->
                       IF \E f \in FilesOf(d) : s.fds[f] = m THEN "free" ELSE s.kernel[m]]
  BY DEF CloseFiles
<1>3. \A m \in Descriptors : (\E f \in FilesOf(d) : s.fds[f] = m) <=> m \in 1..n
  <2> TAKE m \in Descriptors
  <2>1. ASSUME NEW f \in FilesOf(d), s.fds[f] = m PROVE m \in 1..n
    BY <2>1, FilesAre DEF Holds
  <2>2. ASSUME m \in 1..n PROVE \E f \in FilesOf(d) : s.fds[f] = m
    <3>1. s.fds[Files(d)[m]] = m /\ Files(d)[m] \in FilesOf(d)
      BY <2>2, FilesAre DEF Holds
    <3>. QED BY <3>1
  <2>. QED BY <2>1, <2>2
<1>4. ASSUME NEW m \in Descriptors PROVE r.kernel[m] = HeldUpTo(d, 0)[m]
  <2>1. m \in Int /\ 0 <= m
    BY DEF Descriptors
  <2>2. r.kernel[m] = IF m \in 1..n THEN "free" ELSE s.kernel[m]
    BY <1>2, <1>3
  <2>3. s.kernel[m] = IF m = 0 THEN "stdin" ELSE IF m <= n THEN Files(d)[m] ELSE "free"
    BY DEF Holds, HeldUpTo
  <2>4. HeldUpTo(d, 0)[m] = IF m = 0 THEN "stdin" ELSE "free"
    BY <2>1 DEF HeldUpTo
  <2> HIDE DEF r, n
  <2>. QED BY <1>1, <2>1, <2>2, <2>3, <2>4
<1>5. r.kernel = HeldUpTo(d, 0)
  BY <1>2, <1>4 DEF HeldUpTo
<1>6. DOMAIN r.fds = FilesOf(d)
  BY <1>2 DEF Holds
<1>. QED BY <1>5, <1>6 DEF Holds

LEMMA FilesInvariance == DeviceSpec => []FilesInv
<1>1. DeviceInit => FilesInv
  <2> SUFFICES ASSUME DeviceInit PROVE FilesInv
    OBVIOUS
  <2>1. driver \in {"shm", "xdma"} /\ isOpened = FALSE /\ fds = FirstFds(driver)
        /\ kernel = [n \in Descriptors |-> IF n = 0 THEN "stdin" ELSE "free"]
    BY DEF DeviceInit
  <2>2. kernel = HeldUpTo(driver, 0)
    <3>1. \A n \in Descriptors : n # 0 => ~(n <= 0)
      BY DEF Descriptors
    <3>. QED BY <2>1, <3>1 DEF HeldUpTo
  <2>3. DOMAIN fds = FilesOf(driver)
    BY <2>1 DEF FirstFds
  <2>. QED BY <2>1, <2>2, <2>3 DEF FilesInv, Holds
<1>2. FilesInv /\ [DeviceNext]_deviceVars => FilesInv'
  <2> SUFFICES ASSUME FilesInv, [DeviceNext]_deviceVars PROVE FilesInv'
    OBVIOUS
  <2> DEFINE s == [fds |-> fds, kernel |-> kernel]
  <2>1. ASSUME NEW refusal \in SUBSET FilesOf(driver), Open(refusal) PROVE FilesInv'
    <3>1. /\ driver' = driver /\ ~isOpened
          /\ fds' = (IF driver = "shm" THEN ShmOpened(s, refusal) ELSE XdmaOpened(s, refusal)).fds
          /\ kernel' = (IF driver = "shm" THEN ShmOpened(s, refusal)
                                          ELSE XdmaOpened(s, refusal)).kernel
          /\ isOpened' = TakenForOpen(driver, refusal)
          /\ refused' = (refused \/ refusal # {})
      BY <2>1 DEF Open
    <3>2. CASE refused \/ refusal # {}
      BY <3>1, <3>2 DEF FilesInv
    <3>3. CASE ~refused /\ refusal = {}
      <4>1. Holds(s, driver, 0) /\ isOpened'
        BY <3>1, <3>3 DEF FilesInv, TakenForOpen
      <4> DEFINE r == IF driver = "shm" THEN ShmOpened(s, {}) ELSE XdmaOpened(s, {})
      <4>2. Holds(r, driver, Len(Files(driver)))
        BY <4>1, ShmHolds, XdmaHolds DEF FilesInv
      <4>3. fds' = r.fds /\ kernel' = r.kernel
        BY <3>1, <3>3
      <4> HIDE DEF r
      <4>4. Holds([fds |-> fds', kernel |-> kernel'], driver, Len(Files(driver)))
        BY <4>2, <4>3 DEF Holds
      <4>. QED BY <3>1, <4>1, <4>4 DEF FilesInv
    <3>. QED BY <3>2, <3>3
  <2>2. CASE Close
    <3> DEFINE r == CloseFiles(s, FilesOf(driver))
    <3>1. /\ driver' = driver /\ isOpened /\ isOpened' = FALSE /\ refused' = refused
          /\ fds' = r.fds /\ kernel' = r.kernel
      BY <2>2 DEF Close
    <3>2. CASE refused
      BY <3>1, <3>2 DEF FilesInv
    <3>3. CASE ~refused
      <4>1. Holds(r, driver, 0)
        BY <3>1, <3>3, NoneHeld DEF FilesInv
      <4> HIDE DEF r
      <4>2. Holds([fds |-> fds', kernel |-> kernel'], driver, 0)
        BY <3>1, <4>1 DEF Holds
      <4>. QED BY <3>1, <4>2 DEF FilesInv
    <3>. QED BY <3>2, <3>3
  <2>3. ASSUME UNCHANGED <<driver, fileVars>> PROVE FilesInv'
    <3>1. UNCHANGED <<driver, isOpened, fds, kernel, refused>>
      BY <2>3 DEF fileVars
    <3>. QED BY <3>1 DEF FilesInv
  <2>4. ASSUME NEW kind \in Kinds(driver), NEW base \in Bases, NEW size \in Sizes,
               Begin(kind, base, size)
        PROVE  FilesInv'
    BY <2>3, <2>4 DEF Begin
  <2>5. ASSUME NEW done \in 0..RW_MAX_SIZE, Chunk(done) PROVE FilesInv'
    BY <2>3, <2>5 DEF Chunk
  <2>6. CASE Copy \/ Moved \/ Start \/ UNCHANGED deviceVars
    BY <2>3, <2>6 DEF Copy, Moved, Start, deviceVars
  <2>7. CASE (\E index \in Indices : ReadReg(index)) \/ (\E t \in Tables : Load(t))
    BY <2>3, <2>7 DEF ReadReg, Load
  <2>. QED BY <2>1, <2>2, <2>4, <2>5, <2>6, <2>7 DEF DeviceNext
<1>. QED BY <1>1, <1>2, PTL DEF DeviceSpec

LEMMA FilesOwn ==
  ASSUME FilesInv
  PROVE  FilesKept
<1> SUFFICES ASSUME ~refused
             PROVE  /\ kernel[0] = "stdin"
                    /\ isOpened => \A f \in FilesOf(driver) : kernel[fds[f]] = f
                    /\ \A n \in Descriptors \ {0} :
                         kernel[n] # "free" => isOpened /\ fds[kernel[n]] = n
  BY DEF FilesKept
<1> DEFINE L == Len(Files(driver))
<1>1. driver \in {"shm", "xdma"}
  BY DEF FilesInv
<1>2. L \in 1..5
  <2>1. L = IF driver = "shm" THEN 2 ELSE 5
    BY <1>1, FilesAre
  <2>. QED BY <2>1
<1>3. /\ isOpened => kernel = HeldUpTo(driver, L) /\ \A i \in 1..L : fds[Files(driver)[i]] = i
      /\ ~isOpened => kernel = HeldUpTo(driver, 0)
  BY DEF FilesInv, Holds
<1>4. 0 \in Descriptors
  BY DEF Descriptors
<1>5. kernel[0] = "stdin"
  BY <1>3, <1>4 DEF HeldUpTo
<1> HIDE DEF L
<1>6. ASSUME isOpened, NEW f \in FilesOf(driver) PROVE kernel[fds[f]] = f
  <2>1. PICK i \in 1..L : Files(driver)[i] = f
    BY <1>1, FilesAre DEF L
  <2>2. fds[f] = i
    BY <1>3, <1>6, <2>1
  <2>3. i \in Descriptors /\ i # 0 /\ i <= L
    BY <1>2 DEF Descriptors
  <2>4. kernel[i] = f
    BY <1>3, <1>6, <2>1, <2>3 DEF HeldUpTo
  <2>. QED BY <2>2, <2>4
<1>7. ASSUME NEW n \in Descriptors \ {0}, kernel[n] # "free"
      PROVE  isOpened /\ fds[kernel[n]] = n
  <2>1. n \in Int /\ 0 < n /\ n \in Descriptors
    BY DEF Descriptors
  <2>2. isOpened
    <3>1. HeldUpTo(driver, 0)[n] = "free"
      BY <2>1 DEF HeldUpTo
    <3>. QED BY <1>3, <1>7, <3>1
  <2>3. n <= L /\ kernel[n] = Files(driver)[n]
    BY <1>3, <1>7, <2>1, <2>2 DEF HeldUpTo
  <2>4. n \in 1..L
    BY <1>2, <2>1, <2>3
  <2>. QED BY <1>3, <2>2, <2>3, <2>4
<1>. QED BY <1>5, <1>6, <1>7

-----------------------------------------------------------------------------
(* The drivers: the table of registers.                                    *)

LEMMA Pow2Is ==
  /\ Pow2 \in [Nat -> Nat \ {0}]
  /\ Pow2[0] = 1
  /\ \A n \in Nat : Pow2[n + 1] = 2 * Pow2[n]
<1> DEFINE S == Nat \ {0}
           step == [p \in Nat \X S |-> 2 * p[2]]
           Is(f) == f = [n \in Nat |-> IF n = 0 THEN 1 ELSE 2 * f[n - 1]]
<1>1. step \in [Nat \X S -> S] /\ 1 \in S
  OBVIOUS
<1>2. PICK f : Iterated(S, 1, step, f)
  <2> HIDE DEF S, step
  <2>. QED BY <1>1, IteratesExist
<1>3. f \in [Nat -> S] /\ f[0] = 1 /\ \A n \in Nat : f[n + 1] = 2 * f[n]
  BY <1>2 DEF Iterated
<1>4. \A n \in Nat : f[n] = IF n = 0 THEN 1 ELSE 2 * f[n - 1]
  <2> TAKE n \in Nat
  <2>1. CASE n = 0
    BY <1>3, <2>1
  <2>2. CASE n # 0
    <3>1. n - 1 \in Nat /\ (n - 1) + 1 = n
      BY <2>2
    <3>2. f[(n - 1) + 1] = 2 * f[n - 1]
      BY <1>3, <3>1
    <3>. QED BY <2>2, <3>1, <3>2
  <2>. QED BY <2>1, <2>2
<1>5. Is(f)
  BY <1>3, <1>4
<1>6. Is(Pow2)
  BY <1>5 DEF Pow2
<1>7. Pow2[0] = 1 /\ \A n \in Nat : Pow2[n + 1] = 2 * Pow2[n]
  <2>1. \A n \in Nat : Pow2[n] = IF n = 0 THEN 1 ELSE 2 * Pow2[n - 1]
    BY <1>6
  <2>2. ASSUME NEW n \in Nat PROVE Pow2[n + 1] = 2 * Pow2[n]
    <3>1. n + 1 \in Nat /\ n + 1 # 0 /\ (n + 1) - 1 = n
      OBVIOUS
    <3>. QED BY <2>1, <3>1
  <2>. QED BY <2>1, <2>2
<1>8. \A n \in Nat : Pow2[n] = f[n]
  <2> DEFINE P == {n \in Nat : Pow2[n] = f[n]}
  <2>1. 0 \in P
    BY <1>3, <1>7
  <2>2. \A n \in Nat : n \in P => n + 1 \in P
    BY <1>3, <1>7
  <2> HIDE DEF P
  <2>3. Nat \subseteq P
    BY <2>1, <2>2, AllNumbers
  <2>. QED BY <2>3 DEF P
<1>9. Pow2 \in [Nat -> Nat \ {0}]
  <2>1. DOMAIN Pow2 = Nat /\ Pow2 = [n \in Nat |-> Pow2[n]]
    BY <1>6
  <2>. QED BY <1>3, <1>8, <2>1
<1>. QED BY <1>7, <1>9

LEMMA Pow2Sum ==
  ASSUME NEW a \in Nat, NEW b \in Nat
  PROVE  Pow2[a + b] = Pow2[a] * Pow2[b]
<1> DEFINE P == {n \in Nat : Pow2[a + n] = Pow2[a] * Pow2[n]}
<1>1. 0 \in P
  BY Pow2Is
<1>2. ASSUME NEW n \in Nat, n \in P PROVE n + 1 \in P
  <2> DEFINE x == Pow2[a]   y == Pow2[n]
  <2>1. a + n \in Nat /\ (a + n) + 1 = a + (n + 1) /\ n + 1 \in Nat
    OBVIOUS
  <2>2. Pow2[a + (n + 1)] = 2 * Pow2[a + n] /\ Pow2[n + 1] = 2 * y
    BY <2>1, Pow2Is
  <2>3. Pow2[a + n] = x * y /\ x \in Nat /\ y \in Nat
    BY <1>2, Pow2Is
  <2> HIDE DEF x, y
  <2>4. 2 * (x * y) = x * (2 * y)
    BY <2>3
  <2>5. Pow2[a + (n + 1)] = x * Pow2[n + 1]
    BY <2>2, <2>3, <2>4
  <2>. QED BY <2>1, <2>5 DEF x
<1> HIDE DEF P
<1>3. b \in P
  BY <1>1, <1>2, AllNumbers
<1>. QED BY <1>3 DEF P

LEMMA TableIs ==
  ASSUME NEW t \in Tables
  PROVE  /\ t.bits \in Nat \ {0} /\ t.bits <= WORD /\ WORD \in Nat \ {0}
         /\ Len(t.regs) \in Nat
         /\ \A i \in 1..Len(t.regs) : t.regs[i] \in 0 .. Pow2[t.bits] - 1
<1>1. t.bits \in 1..WORD /\ t.regs \in Seq(0 .. Pow2[t.bits] - 1) /\ WORD \in Nat \ {0}
  BY DeviceConstants
<1>2. Len(t.regs) \in Nat
  BY <1>1, LenProperties
<1>3. \A i \in 1..Len(t.regs) : t.regs[i] \in 0 .. Pow2[t.bits] - 1
  BY <1>1, ElementOfSeq
<1>. QED BY <1>1, <1>2, <1>3

LEMMA BitIs ==
  ASSUME NEW t \in Tables, NEW j \in Nat
  PROVE  Bit(t, j) \in {0, 1}
<1>1. CASE j < t.bits * Len(t.regs)
  <2> DEFINE x == t.regs[j \div t.bits + 1]
             p == Pow2[j % t.bits]
  <2>1. t.bits \in Nat \ {0} /\ Len(t.regs) \in Nat
    BY TableIs
  <2>2. /\ j \div t.bits \in Int /\ (j % t.bits) \in 0 .. t.bits - 1
        /\ j = t.bits * (j \div t.bits) + (j % t.bits)
    <3> DEFINE b == t.bits
    <3>1. b \in Nat \ {0} /\ j \in Int
      BY <2>1
    <3> HIDE DEF b
    <3>2. j \div b \in Int /\ (j % b) \in 0 .. b - 1 /\ j = b * (j \div b) + (j % b)
      BY <3>1, DivMod
    <3>. QED BY <3>2 DEF b
  <2>3. j \div t.bits + 1 \in 1..Len(t.regs)
    <3> DEFINE b == t.bits   q == j \div b   r == j % b   n == Len(t.regs)
    <3>1. b \in Nat \ {0} /\ q \in Int /\ r \in 0 .. b - 1 /\ j = b * q + r /\ n \in Nat /\ j < b * n
      BY <1>1, <2>1, <2>2
    <3> HIDE DEF b, q, r, n
    <3>2. q >= 0
      <4>1. q <= -1 => b * q <= -b
        BY <3>1
      <4>. QED BY <3>1, <4>1
    <3>3. q < n
      <4>1. q >= n => b * q >= b * n
        BY <3>1
      <4>2. b * q \in Int /\ b * n \in Int
        BY <3>1
      <4>. QED BY <3>1, <4>1, <4>2
    <3>4. q + 1 \in 1..n
      BY <3>1, <3>2, <3>3
    <3>. QED BY <3>4 DEF q, n, b
  <2>4. x \in Nat /\ p \in Nat \ {0}
    <3>1. x \in 0 .. Pow2[t.bits] - 1 /\ Pow2[t.bits] \in Nat
      BY <2>1, <2>3, TableIs, Pow2Is
    <3>2. (j % t.bits) \in Nat
      BY <2>1, <2>2
    <3>. QED BY <3>1, <3>2, Pow2Is
  <2> HIDE DEF x, p
  <2>5. x \div p \in Int
    BY <2>4, DivMod
  <2>6. (x \div p) % 2 \in 0 .. 2 - 1
    BY <2>5, DivMod
  <2>7. (x \div p) % 2 \in {0, 1}
    BY <2>6
  <2>. QED BY <1>1, <2>7 DEF Bit, x, p
<1>2. CASE ~(j < t.bits * Len(t.regs))
  BY <1>2 DEF Bit
<1>. QED BY <1>1, <1>2

(* The number that the n bits from the m-th on make, for every n. *)
Number(t, m, f) ==
  /\ f \in [Nat -> Nat] /\ f[0] = 0
  /\ \A n \in Nat : f[n + 1] = f[n] + Bit(t, m + n) * Pow2[n]

From(t, m) == CHOOSE f : Number(t, m, f)

LEMMA FromIs ==
  ASSUME NEW t \in Tables, NEW m \in Nat
  PROVE  Number(t, m, From(t, m))
<1> DEFINE step == [p \in Nat \X Nat |-> p[2] + Bit(t, m + p[1]) * Pow2[p[1]]]
<1>1. \A n \in Nat : Bit(t, m + n) \in Nat /\ Pow2[n] \in Nat /\ Bit(t, m + n) * Pow2[n] \in Nat
  <2> TAKE n \in Nat
  <2>1. m + n \in Nat
    OBVIOUS
  <2>2. Bit(t, m + n) \in Nat /\ Pow2[n] \in Nat
    BY <2>1, BitIs, Pow2Is
  <2>. QED BY <2>2, ProductNat
<1>2. step \in [Nat \X Nat -> Nat] /\ 0 \in Nat
  <2>1. \A p \in Nat \X Nat : p[2] + Bit(t, m + p[1]) * Pow2[p[1]] \in Nat
    BY <1>1
  <2>. QED BY <2>1
<1>3. PICK f : Iterated(Nat, 0, step, f)
  <2> HIDE DEF step
  <2>. QED BY <1>2, IteratesExist
<1>4. \A n \in Nat : step[<<n, f[n]>>] = f[n] + Bit(t, m + n) * Pow2[n]
  BY <1>3 DEF Iterated
<1>5. Number(t, m, f)
  <2> HIDE DEF step
  <2>. QED BY <1>3, <1>4 DEF Iterated, Number
<1>. QED BY <1>5 DEF From

LEMMA FromNext ==
  ASSUME NEW t \in Tables, NEW m \in Nat, NEW n \in Nat
  PROVE  /\ From(t, m)[0] = 0 /\ From(t, m)[n] \in Nat
         /\ From(t, m)[n + 1] = From(t, m)[n] + Bit(t, m + n) * Pow2[n]
BY FromIs DEF Number

(* They make less than the power of their number. *)
LEMMA FromBelow ==
  ASSUME NEW t \in Tables, NEW m \in Nat, NEW n \in Nat
  PROVE  From(t, m)[n] \in 0 .. Pow2[n] - 1
<1> DEFINE P == {i \in Nat : From(t, m)[i] \in 0 .. Pow2[i] - 1}
<1>1. 0 \in P
  <2>1. From(t, m)[0] = 0 /\ Pow2[0] = 1
    BY FromNext, Pow2Is
  <2>. QED BY <2>1
<1>2. ASSUME NEW i \in Nat, i \in P PROVE i + 1 \in P
  <2> DEFINE x == From(t, m)[i]   p == Pow2[i]   b == Bit(t, m + i)
  <2>1. /\ x \in 0 .. p - 1 /\ p \in Nat /\ b \in {0, 1} /\ i + 1 \in Nat
        /\ From(t, m)[i + 1] = x + b * p /\ Pow2[i + 1] = 2 * p
    <3>1. m + i \in Nat /\ i + 1 \in Nat
      OBVIOUS
    <3>. QED BY <1>2, <3>1, FromNext, Pow2Is, BitIs
  <2> HIDE DEF x, p, b
  <2>2. x + b * p \in 0 .. 2 * p - 1
    <3>1. CASE b = 0
      BY <2>1, <3>1
    <3>2. CASE b = 1
      BY <2>1, <3>2
    <3>. QED BY <2>1, <3>1, <3>2
  <2>. QED BY <2>1, <2>2
<1> HIDE DEF P
<1>3. n \in P
  BY <1>1, <1>2, AllNumbers
<1>. QED BY <1>3 DEF P

(* The low bits, and above them the others. *)
LEMMA FromSplit ==
  ASSUME NEW t \in Tables, NEW m \in Nat, NEW a \in Nat, NEW b \in Nat,
         NEW n, NEW l, n = a + b, l = m + a
  PROVE  From(t, m)[n] = From(t, m)[a] + Pow2[a] * From(t, l)[b]
<1> DEFINE P == {i \in Nat : From(t, m)[a + i] = From(t, m)[a] + Pow2[a] * From(t, m + a)[i]}
<1>0. m + a \in Nat /\ a + 0 = a
  OBVIOUS
<1>1. 0 \in P
  <2>1. From(t, m + a)[0] = 0 /\ Pow2[a] \in Nat /\ From(t, m)[a] \in Nat
    BY <1>0, FromNext, Pow2Is
  <2>. QED BY <1>0, <2>1
<1>2. ASSUME NEW i \in Nat, i \in P PROVE i + 1 \in P
  <2> DEFINE x == From(t, m)[a]   p == Pow2[a]   y == From(t, m + a)[i]
             q == Pow2[i]         d == Bit(t, m + a + i)
  <2>1. a + i \in Nat /\ (a + i) + 1 = a + (i + 1) /\ m + (a + i) = m + a + i /\ i + 1 \in Nat
        /\ m + a + i \in Nat
    OBVIOUS
  <2>2. From(t, m)[a + (i + 1)] = From(t, m)[a + i] + d * Pow2[a + i]
    <3>1. From(t, m)[(a + i) + 1] = From(t, m)[a + i] + Bit(t, m + (a + i)) * Pow2[a + i]
      BY <2>1, FromNext
    <3>. QED BY <2>1, <3>1
  <2>3. From(t, m + a)[i + 1] = y + d * q
    BY <1>0, FromNext
  <2>4. Pow2[a + i] = p * q
    BY Pow2Sum
  <2>5. From(t, m)[a + i] = x + p * y
    BY <1>2
  <2>6. x \in Nat /\ p \in Nat /\ y \in Nat /\ q \in Nat /\ d \in Nat
    <3>1. x \in Nat /\ p \in Nat /\ q \in Nat
      BY FromNext, Pow2Is
    <3>2. y \in Nat
      BY <1>0, FromNext
    <3>3. d \in Nat
      BY <2>1, BitIs
    <3>. QED BY <3>1, <3>2, <3>3
  <2> HIDE DEF x, p, y, q, d
  <2>7. (x + p * y) + d * (p * q) = x + p * (y + d * q)
    BY <2>6
  <2>8. From(t, m)[a + (i + 1)] = x + p * From(t, m + a)[i + 1]
    BY <2>2, <2>3, <2>4, <2>5, <2>7
  <2>. QED BY <2>1, <2>8 DEF x, p
<1> HIDE DEF P
<1>3. b \in P
  BY <1>1, <1>2, AllNumbers
<1>. QED BY <1>3 DEF P

(* Of some bits, those above the first a are shifted down, the first a are *)
(* kept by a mask.                                                         *)
Parts(x, p, q, r) == x \div p = q /\ x % p = r

LEMMA FromAbove ==
  ASSUME NEW t \in Tables, NEW m \in Nat, NEW a \in Nat, NEW b \in Nat,
         NEW n, NEW l, n = a + b, l = m + a
  PROVE  Parts(From(t, m)[n], Pow2[a], From(t, l)[b], From(t, m)[a])
<1> DEFINE p == Pow2[a]   q == From(t, l)[b]   r == From(t, m)[a]
<1>1. p \in Nat \ {0} /\ q \in Nat /\ r \in 0 .. p - 1 /\ r \in Nat
  <2>1. q \in Nat
    <3>1. l \in Nat
      OBVIOUS
    <3>. QED BY <3>1, FromNext
  <2>2. r \in 0 .. p - 1 /\ p \in Nat \ {0}
    BY FromBelow, Pow2Is
  <2>3. r \in Nat
    BY FromNext
  <2>. QED BY <2>1, <2>2, <2>3
<1>2. From(t, m)[n] = r + p * q
  BY FromSplit
<1> HIDE DEF p, q, r
<1>3. r + p * q = p * q + r
  <2>1. p * q \in Nat
    BY <1>1, ProductNat
  <2>. QED BY <1>1, <2>1
<1>4. (p * q + r) \div p = q /\ (p * q + r) % p = r
  BY <1>1, QuotientIs
<1>. QED BY <1>2, <1>3, <1>4 DEF p, q, r, Parts

LEMMA FromMasked ==
  ASSUME NEW t \in Tables, NEW m \in Nat, NEW n \in Nat, NEW a \in Nat, a <= n
  PROVE  From(t, m)[n] % Pow2[a] = From(t, m)[a]
<1> DEFINE b == n - a   l == m + a
<1>1. b \in Nat /\ n = a + b /\ l = m + a
  OBVIOUS
<1> HIDE DEF b, l
<1>2. Parts(From(t, m)[n], Pow2[a], From(t, l)[b], From(t, m)[a])
  BY <1>1, FromAbove
<1>. QED BY <1>2 DEF Parts

LEMMA WordIs ==
  ASSUME NEW t \in Tables, NEW k \in Nat
  PROVE  Word(t, k) = From(t, k * WORD)[WORD]
<1> DEFINE m == k * WORD
           F == From(t, m)
           Is(f) == f = [n \in 0..WORD |-> IF n = 0 THEN 0
                                           ELSE f[n - 1] + Bit(t, m + n - 1) * Pow2[n - 1]]
           lowest == CHOOSE f : Is(f)
<1>1. WORD \in Nat \ {0} /\ m \in Nat
  BY DeviceConstants, ProductNat
<1>2. \A n \in Nat : F[0] = 0 /\ F[n + 1] = F[n] + Bit(t, m + n) * Pow2[n]
  BY <1>1, FromNext
<1>3. Word(t, k) = lowest[WORD]
  BY DEF Word
<1> HIDE DEF F, m
<1>4. \A n \in 1..WORD : n - 1 \in Nat /\ n - 1 \in 0..WORD /\ (n - 1) + 1 = n /\ m + (n - 1) = m + n - 1
  BY <1>1
<1>5. Is([n \in 0..WORD |-> F[n]])
  <2> DEFINE g == [n \in 0..WORD |-> F[n]]
  <2>1. ASSUME NEW n \in 0..WORD
        PROVE  g[n] = IF n = 0 THEN 0 ELSE g[n - 1] + Bit(t, m + n - 1) * Pow2[n - 1]
    <3>1. CASE n = 0
      BY <1>2, <2>1, <3>1
    <3>2. CASE n # 0
      <4>1. n \in 1..WORD
        BY <1>1, <2>1, <3>2
      <4>2. F[(n - 1) + 1] = F[n - 1] + Bit(t, m + (n - 1)) * Pow2[n - 1]
        BY <1>2, <1>4, <4>1
      <4>3. F[n] = F[n - 1] + Bit(t, m + n - 1) * Pow2[n - 1]
        BY <1>4, <4>1, <4>2
      <4>4. g[n] = F[n] /\ g[n - 1] = F[n - 1]
        BY <1>4, <2>1, <4>1
      <4> HIDE DEF g
      <4>. QED BY <3>2, <4>3, <4>4
    <3>. QED BY <3>1, <3>2
  <2>2. g = [n \in 0..WORD |-> g[n]]
    OBVIOUS
  <2> HIDE DEF g
  <2>3. Is(g)
    BY <2>1, <2>2
  <2>. QED BY <2>3 DEF g
<1>6. Is(lowest)
  BY <1>5
<1> HIDE DEF lowest
<1>7. \A n \in 0..WORD : lowest[n] = IF n = 0 THEN 0 ELSE lowest[n - 1] + Bit(t, m + n - 1) * Pow2[n - 1]
  BY <1>6
<1> HIDE DEF Is
<1> DEFINE P == {n \in Nat : n <= WORD => lowest[n] = F[n]}
<1>8. 0 \in P
  BY <1>1, <1>2, <1>7
<1>9. ASSUME NEW n \in Nat, n \in P PROVE n + 1 \in P
  <2> SUFFICES ASSUME n + 1 <= WORD PROVE lowest[n + 1] = F[n + 1]
    OBVIOUS
  <2>1. n + 1 \in 0..WORD /\ n + 1 # 0 /\ (n + 1) - 1 = n /\ m + (n + 1) - 1 = m + n /\ n <= WORD
    BY <1>1
  <2>2. lowest[n + 1] = lowest[(n + 1) - 1] + Bit(t, m + (n + 1) - 1) * Pow2[(n + 1) - 1]
    BY <1>7, <2>1
  <2>3. lowest[n] = F[n]
    BY <1>9, <2>1
  <2>. QED BY <1>2, <2>1, <2>2, <2>3
<1>10. WORD \in P
  <2> HIDE DEF P
  <2>. QED BY <1>1, <1>8, <1>9, AllNumbers
<1>. QED BY <1>1, <1>3, <1>10 DEF F, m

(* The bits of a place make the index the device packed there. *)
LEMMA PackedIs ==
  ASSUME NEW t \in Tables, NEW i \in 0 .. Len(t.regs) - 1
  PROVE  From(t, t.bits * i)[t.bits] = t.regs[i + 1]
<1> DEFINE b == t.bits
           n == Len(t.regs)
           x == t.regs[i + 1]
           m == b * i
           F == From(t, m)
<1>1. b \in Nat \ {0} /\ n \in Nat /\ i \in Nat /\ i < n /\ m \in Nat /\ b * n \in Nat
  BY TableIs, ProductNat
<1>2. x \in 0 .. Pow2[b] - 1 /\ x \in Nat
  <2>1. i + 1 \in 1..Len(t.regs)
    BY <1>1
  <2>2. t.regs[i + 1] \in 0 .. Pow2[t.bits] - 1 /\ Pow2[t.bits] \in Nat
    BY <1>1, <2>1, TableIs, Pow2Is
  <2>. QED BY <2>2
<1>3. ASSUME NEW j \in Nat, j < b PROVE Bit(t, m + j) = (x \div Pow2[j]) % 2
  <2> DEFINE q == (m + j) \div b
             r == (m + j) % b
  <2>1. q = i /\ r = j
    <3>1. j \in 0 .. b - 1 /\ i \in Int
      BY <1>1, <1>3
    <3> HIDE DEF b
    <3>. QED BY <1>1, <3>1, QuotientIs
  <2>2. m + j < b * n
    <3> HIDE DEF b, n
    <3>1. b * i + b <= b * n
      <4>1. i + 1 <= n
        BY <1>1
      <4>2. b * (i + 1) <= b * n
        BY <1>1, <4>1
      <4>3. b * (i + 1) = b * i + b
        BY <1>1
      <4>. QED BY <4>2, <4>3
    <3>. QED BY <1>1, <1>3, <3>1
  <2>3. Bit(t, m + j) = (t.regs[q + 1] \div Pow2[r]) % 2
    BY <2>2 DEF Bit
  <2> HIDE DEF q, r
  <2>. QED BY <2>1, <2>3
<1> DEFINE P == {j \in Nat : j <= b => F[j] = x % Pow2[j]}
<1>4. 0 \in P
  <2>1. F[0] = 0
    BY <1>1, FromNext
  <2>2. x % 1 = 0
    <3> HIDE DEF x
    <3>1. x \in Int /\ 1 \in Nat \ {0}
      BY <1>2
    <3>2. (x % 1) \in 0 .. 1 - 1
      BY <3>1, DivMod
    <3>. QED BY <3>2
  <2>. QED BY <2>1, <2>2, Pow2Is
<1>5. ASSUME NEW j \in Nat, j \in P PROVE j + 1 \in P
  <2> SUFFICES ASSUME j + 1 <= b PROVE F[j + 1] = x % Pow2[j + 1]
    OBVIOUS
  <2> DEFINE p == Pow2[j]
             q == x \div p
             u == x % p
             v == q \div 2
             w == q % 2
  <2>1. F[j + 1] = F[j] + Bit(t, m + j) * p
    BY <1>1, FromNext
  <2>2. j < b /\ j <= b
    BY <1>1
  <2>3. F[j] = u /\ Bit(t, m + j) = w
    BY <1>3, <1>5, <2>2
  <2>4. p \in Nat \ {0} /\ Pow2[j + 1] = 2 * p /\ x \in Int
    <3>1. x \in Int
      <4> HIDE DEF x
      <4>. QED BY <1>2
    <3>. QED BY <3>1, Pow2Is
  <2> HIDE DEF p, x
  <2>5. q \in Int /\ u \in 0 .. p - 1 /\ x = p * q + u
    BY <2>4, DivMod
  <2> HIDE DEF q, u
  <2>6. v \in Int /\ w \in 0 .. 2 - 1 /\ q = 2 * v + w
    <3>1. 2 \in Nat \ {0}
      OBVIOUS
    <3>. QED BY <2>5, <3>1, DivMod
  <2> HIDE DEF v, w
  <2>7. x = (2 * p) * v + (u + w * p)
    BY <2>4, <2>5, <2>6
  <2>8. u + w * p \in 0 .. 2 * p - 1
    <3>1. CASE w = 0
      BY <2>4, <2>5, <3>1
    <3>2. CASE w = 1
      BY <2>4, <2>5, <3>2
    <3>. QED BY <2>6, <3>1, <3>2
  <2>9. 2 * p \in Nat \ {0}
    BY <2>4
  <2>10. x % (2 * p) = u + w * p
    BY <2>6, <2>7, <2>8, <2>9, QuotientIs
  <2>. QED BY <2>1, <2>3, <2>4, <2>10
<1>6. b \in P
  <2> HIDE DEF P
  <2>. QED BY <1>1, <1>4, <1>5, AllNumbers
<1>7. x % Pow2[b] = x
  <2>1. Pow2[b] \in Nat \ {0}
    BY <1>1, Pow2Is
  <2>. QED BY <1>2, <2>1, ModSmall
<1>. QED BY <1>1, <1>6, <1>7

(* An index is found as it was packed, across two words or within one.     *)
LEMMA IndexFound ==
  ASSUME NEW t \in Tables, NEW i \in 0 .. Len(t.regs) - 1
  PROVE  IndexAt(TableHead(t), t, i) = t.regs[i + 1]
<1> DEFINE W == WORD
           b == t.bits
           m == b * i
           k == (i * b) \div W
           s == (i * b) % W
           o == s + b - W
           c == W - s
<1>1. b \in Nat \ {0} /\ b <= W /\ W \in Nat \ {0} /\ i \in Nat
  BY TableIs
<1>2. m \in Nat /\ m = i * b
  <2> HIDE DEF b
  <2>. QED BY <1>1, ProductNat
<1>3. IndexAt(TableHead(t), t, i) =
        IF o > 0 THEN ((Word(t, k) \div Pow2[s]) % Pow2[c]) + (Word(t, k + 1) % Pow2[o]) * Pow2[c]
                 ELSE (Word(t, k) \div Pow2[s]) % Pow2[b]
  <2>1. TableHead(t).bits = t.bits
    BY DEF TableHead
  <2>. QED BY <2>1 DEF IndexAt
<1>4. From(t, m)[b] = t.regs[i + 1]
  BY PackedIs
<1>5. k \in Int /\ s \in 0 .. W - 1 /\ m = W * k + s
  <2> HIDE DEF m, b, W
  <2>1. i * b \in Int
    BY <1>2
  <2>. QED BY <1>1, <1>2, <2>1, DivMod
<1> HIDE DEF b, m, k, s
<1>6. k \in Nat /\ k * W \in Nat /\ k * W + s = m /\ k + 1 \in Nat /\ (k + 1) * W = k * W + W
  <2>1. k >= 0
    <3>1. k <= -1 => W * k <= -W
      BY <1>1, <1>5
    <3>. QED BY <1>1, <1>2, <1>5, <3>1
  <2>2. k \in Nat
    BY <1>5, <2>1
  <2>3. W * k = k * W /\ (k + 1) * W = k * W + W
    BY <1>1, <1>5
  <2>. QED BY <1>1, <1>5, <2>2, <2>3, ProductNat
<1>7. /\ s \in Nat /\ c \in Nat /\ s + c = W
      /\ Word(t, k) = From(t, k * W)[W]
  <2>1. s \in Nat /\ c \in Nat /\ s + c = W
    BY <1>1, <1>5
  <2>2. Word(t, k) = From(t, k * W)[W]
    BY <1>6, WordIs
  <2>. QED BY <2>1, <2>2
<1>8. Word(t, k) \div Pow2[s] = From(t, m)[c]
  <2>1. From(t, k * W)[W] \div Pow2[s] = From(t, m)[c]
    <3> DEFINE l == k * W
    <3>1. l \in Nat /\ m = l + s
      BY <1>6
    <3> HIDE DEF c, W, l
    <3>2. W = s + c
      BY <1>7
    <3>3. Parts(From(t, l)[W], Pow2[s], From(t, m)[c], From(t, l)[s])
      BY <1>7, <3>1, <3>2, FromAbove
    <3>. QED BY <3>3 DEF l, Parts
  <2>. QED BY <1>6, <1>7, <2>1
<1>9. CASE o > 0
  <2>1. o \in Nat /\ c + o = b /\ W - o \in Nat /\ o + (W - o) = W
    BY <1>1, <1>5, <1>9
  <2>2. From(t, m)[c] % Pow2[c] = From(t, m)[c]
    <3>1. c \in Nat /\ c <= c
      BY <1>7
    <3> HIDE DEF c
    <3>. QED BY <1>2, <3>1, FromMasked
  <2>3. Word(t, k + 1) % Pow2[o] = From(t, m + c)[o]
    <3>1. (k + 1) * W = m + c
      BY <1>1, <1>5, <1>6
    <3>2. Word(t, k + 1) = From(t, (k + 1) * W)[W]
      BY <1>6, WordIs
    <3>3. m + c \in Nat
      BY <1>2, <1>7
    <3>4. From(t, m + c)[W] % Pow2[o] = From(t, m + c)[o]
      <4> DEFINE l == m + c
      <4>1. W \in Nat /\ o \in Nat /\ o <= W /\ l \in Nat
        BY <1>1, <1>5, <2>1, <3>3
      <4> HIDE DEF o, l, W
      <4>2. From(t, l)[W] % Pow2[o] = From(t, l)[o]
        BY <4>1, FromMasked
      <4>. QED BY <4>2 DEF l
    <3>. QED BY <2>1, <3>1, <3>2, <3>4
  <2>4. From(t, m)[b] = From(t, m)[c] + Pow2[c] * From(t, m + c)[o]
    <3> DEFINE l == m + c
    <3>1. c \in Nat /\ o \in Nat /\ b = c + o /\ l = m + c
      BY <1>7, <2>1
    <3> HIDE DEF c, o, W, l
    <3>2. From(t, m)[b] = From(t, m)[c] + Pow2[c] * From(t, l)[o]
      BY <1>2, <3>1, FromSplit
    <3>. QED BY <3>2 DEF l
  <2>5. Pow2[c] * From(t, m + c)[o] = From(t, m + c)[o] * Pow2[c]
    <3>1. m + c \in Nat
      BY <1>2, <1>7
    <3>2. From(t, m + c)[o] \in Nat /\ Pow2[c] \in Nat
      BY <1>7, <2>1, <3>1, FromNext, Pow2Is
    <3>. QED BY <3>2
  <2> HIDE DEF o, c, W
  <2>. QED BY <1>3, <1>4, <1>8, <1>9, <2>1, <2>2, <2>3, <2>4, <2>5
<1>10. CASE ~(o > 0)
  <2>1. c - b \in Nat /\ b + (c - b) = c
    BY <1>1, <1>5, <1>7, <1>10
  <2>2. From(t, m)[c] % Pow2[b] = From(t, m)[b]
    <3>1. b \in Nat /\ c \in Nat /\ b <= c
      BY <1>1, <1>7, <2>1
    <3> HIDE DEF c
    <3>. QED BY <1>2, <3>1, FromMasked
  <2> HIDE DEF o, c, W
  <2>. QED BY <1>3, <1>4, <1>8, <1>10, <2>1, <2>2
<1>. QED BY <1>9, <1>10

LEMMA GreatestOf ==
  ASSUME NEW n \in Nat, NEW T, T \subseteq 0 .. n - 1, T # {}
  PROVE  \E x \in T : \A y \in T : x >= y
<1> DEFINE U == {n - y : y \in T}
<1>1. U \subseteq Nat /\ U # {}
  OBVIOUS
<1>2. PICK u \in U : \A v \in U : u <= v
  <2> HIDE DEF U
  <2>. QED BY <1>1, LeastOf
<1>3. PICK x \in T : u = n - x
  BY <1>2
<1>4. ASSUME NEW y \in T PROVE x >= y
  <2>1. n - x <= n - y
    BY <1>2, <1>3
  <2>. QED BY <2>1
<1>. QED BY <1>4

RegInv == table \in Tables /\ RegisterFound

LEMMA AnswerRight ==
  ASSUME NEW t \in Tables, NEW index
  PROVE  LET at == Place(TableHead(t), t, index)
         IN  /\ IF at = 0 THEN index \notin Range(t.regs)
                ELSE at <= Len(t.regs) /\ t.regs[at] = index
             /\ index \in Range(t.regs) <=> at # 0
             /\ TableHead(t).num # 0 <=> t.regs # <<>>
             /\ index \in Range(t.regs) => t.regs # <<>>
<1> DEFINE n == Len(t.regs)
           P == Places(TableHead(t), t, index)
           Q == {i \in 0 .. n - 1 : t.regs[i + 1] = index}
<1>1. n \in Nat /\ TableHead(t).num = n
  BY TableIs DEF TableHead
<1>5. t.regs \in Seq(0 .. Pow2[t.bits] - 1) /\ DOMAIN t.regs = 1..n
  <2>1. t.regs \in Seq(0 .. Pow2[t.bits] - 1)
    BY DeviceConstants
  <2>. QED BY <2>1, LenProperties
<1>6. /\ TableHead(t).num # 0 <=> t.regs # <<>>
      /\ index \in Range(t.regs) => t.regs # <<>>
  <2>1. n # 0 <=> t.regs # <<>>
    BY <1>5
  <2>2. n = 0 => Range(t.regs) = {}
    BY <1>5 DEF Range
  <2>. QED BY <1>1, <2>1, <2>2
<1>2. P = Q
  BY <1>1, IndexFound DEF Places
<1> HIDE DEF P
<1>3. CASE Q = {}
  <2>1. Place(TableHead(t), t, index) = 0
    BY <1>2, <1>3 DEF Place, P
  <2>2. ASSUME index \in Range(t.regs) PROVE FALSE
    <3>2. PICK j \in 1..n : t.regs[j] = index
      BY <2>2, <1>5 DEF Range
    <3>3. j - 1 \in 0 .. n - 1 /\ (j - 1) + 1 = j
      BY <1>1
    <3>. QED BY <1>3, <3>2, <3>3
  <2>. QED BY <1>6, <2>1, <2>2
<1>4. CASE Q # {}
  <2> DEFINE least == CHOOSE i \in P : \A j \in P : i <= j
             most == CHOOSE i \in P : \A j \in P : i >= j
  <2>1. Q \subseteq Nat /\ Q \subseteq 0 .. n - 1
    BY <1>1
  <2> HIDE DEF Q, n
  <2>2. least \in P
    <3>1. \E i \in P : \A j \in P : i <= j
      BY <1>2, <1>4, <2>1, LeastOf
    <3>. QED BY <3>1
  <2>3. most \in P
    <3>1. \E i \in P : \A j \in P : i >= j
      BY <1>1, <1>2, <1>4, <2>1, GreatestOf
    <3>. QED BY <3>1
  <2>4. Place(TableHead(t), t, index) = 1 + IF driver = "shm" THEN least ELSE most
    BY <1>2, <1>4 DEF Place, P
  <2> HIDE DEF least, most
  <2>5. PICK i \in Q : Place(TableHead(t), t, index) = 1 + i
    BY <1>2, <2>2, <2>3, <2>4
  <2>6. i \in 0 .. n - 1 /\ t.regs[i + 1] = index
    BY DEF Q
  <2>7. 1 + i = i + 1 /\ 1 + i <= n /\ 1 + i # 0
    BY <1>1, <2>6
  <2>8. index \in Range(t.regs)
    BY <1>5, <2>6, <2>7 DEF Range
  <2>. QED BY <1>6, <2>5, <2>6, <2>7, <2>8 DEF n
<1>. QED BY <1>3, <1>4

LEMMA RegInvariance == DeviceSpec => []RegInv
<1>1. DeviceInit => RegInv
  BY DEF DeviceInit, RegInv, RegisterFound
<1>2. RegInv /\ [DeviceNext]_deviceVars => RegInv'
  <2> SUFFICES ASSUME RegInv, [DeviceNext]_deviceVars PROVE RegInv'
    OBVIOUS
  <2>1. ASSUME NEW index \in Indices, ReadReg(index) PROVE RegInv'
    <3>1. /\ table' = table /\ driver' = driver
          /\ \E h : answer' = [index |-> index, at |-> Place(h, table, index),
                ok |-> IF driver = "shm" THEN Place(h, table, index) # 0 ELSE h.num # 0,
                right |-> h = TableHead(table)]
      BY <2>1 DEF ReadReg, SaysNone
    <3>2. PICK h : answer' = [index |-> index, at |-> Place(h, table, index),
                ok |-> IF driver = "shm" THEN Place(h, table, index) # 0 ELSE h.num # 0,
                right |-> h = TableHead(table)]
      BY <3>1
    <3>3. /\ answer'.index = index /\ answer'.at = Place(h, table, index)
          /\ answer'.right <=> h = TableHead(table)
      BY <3>2
    <3>6. answer'.ok <=> IF driver = "shm" THEN Place(h, table, index) # 0 ELSE h.num # 0
      BY <3>2
    <3>4. CASE h = TableHead(table)
      <4> DEFINE at == Place(TableHead(table), table, index)
      <4>1. /\ IF at = 0 THEN index \notin Range(table.regs)
               ELSE at <= Len(table.regs) /\ table.regs[at] = index
            /\ index \in Range(table.regs) <=> at # 0
            /\ TableHead(table).num # 0 <=> table.regs # <<>>
            /\ index \in Range(table.regs) => table.regs # <<>>
        BY AnswerRight DEF RegInv
      <4>2. answer'.ok <=> IF driver = "shm" THEN at # 0 ELSE TableHead(table).num # 0
        BY <3>4, <3>6
      <4>3. answer'.at = at /\ answer'.index = index
        BY <3>3, <3>4
      <4> HIDE DEF at
      <4>4. /\ answer'.index \in Range(table'.regs) => answer'.ok
            /\ answer'.ok => IF driver' = "shm" THEN answer'.index \in Range(table'.regs)
                                               ELSE table'.regs # <<>>
        <5>1. CASE driver = "shm"
          BY <3>1, <4>1, <4>2, <4>3, <5>1
        <5>2. CASE driver # "shm"
          BY <3>1, <4>1, <4>2, <4>3, <5>2
        <5>. QED BY <5>1, <5>2
      <4>5. IF answer'.at = 0 THEN answer'.index \notin Range(table'.regs)
            ELSE answer'.at <= Len(table'.regs) /\ table'.regs[answer'.at] = answer'.index
        BY <3>1, <4>1, <4>3
      <4>. QED BY <3>1, <4>4, <4>5 DEF RegInv, RegisterFound
    <3>5. CASE h # TableHead(table)
      BY <3>1, <3>3, <3>5 DEF RegInv, RegisterFound
    <3>. QED BY <3>4, <3>5
  <2>2. ASSUME NEW t \in Tables, Load(t) PROVE RegInv'
    BY <2>2 DEF Load, RegInv, RegisterFound
  <2>3. ASSUME UNCHANGED <<driver, table, answer>> PROVE RegInv'
    BY <2>3 DEF RegInv, RegisterFound
  <2>4. CASE \/ \E refusal \in SUBSET FilesOf(driver) : Open(refusal)
             \/ Close \/ Copy \/ Moved \/ Start \/ UNCHANGED deviceVars
    BY <2>3, <2>4 DEF Open, Close, Copy, Moved, Start, regVars, deviceVars
  <2>5. ASSUME NEW kind \in Kinds(driver), NEW base \in Bases, NEW size \in Sizes,
               Begin(kind, base, size)
        PROVE  RegInv'
    BY <2>3, <2>5 DEF Begin, regVars
  <2>6. ASSUME NEW done \in 0..RW_MAX_SIZE, Chunk(done) PROVE RegInv'
    BY <2>3, <2>6 DEF Chunk, regVars
  <2>. QED BY <2>1, <2>2, <2>4, <2>5, <2>6 DEF DeviceNext
<1>. QED BY <1>1, <1>2, PTL DEF DeviceSpec

(* The drivers hold their own files, move each byte once and in order, and *)
(* find the registers where the device put them, for words, tables, chunks *)
(* and transfers of any size (shm.cpp, xdma.cpp, dma_utils.c).             *)
THEOREM DeviceSafe == DeviceSpec => []DeviceKept
<1>1. MoveInv => MovedRange
  BY DEF MoveInv, CountInv, MovedRange, Bytes
<1>2. FilesInv => FilesKept
  BY FilesOwn
<1>3. RegInv => RegisterFound
  BY DEF RegInv
<1>4. MovedRange /\ FilesKept /\ RegisterFound => DeviceKept
  BY DEF DeviceKept
<1>. QED BY <1>1, <1>2, <1>3, <1>4, MoveInvariance, FilesInvariance, RegInvariance, PTL

-----------------------------------------------------------------------------
(* The picture's frame and back.                                           *)

LetterTypes ==
  /\ detect \in (Nat \ {0}) \X (Nat \ {0})
  /\ boxPc # "first" => src \in (Nat \ {0}) \X (Nat \ {0}) /\ first \in (Nat \ {0}) \X (Nat \ {0})

CutInv == boxPc = "boxed" =>
  /\ cutBox = Cut(rawBox, src)
  /\ \E l, r, t, u \in Int : /\ rawBox = [left |-> l, right |-> r, top |-> t, bottom |-> u]
                             /\ l < r /\ t < u

LetterInv == LetterTypes /\ CutInv

LEMMA LetterInvariance == LetterSpec => []LetterInv
<1>1. LetterInit => LetterInv
  BY LetterboxConstants DEF LetterInit, LetterInv, LetterTypes, CutInv
<1>2. LetterInv /\ [LetterNext]_boxVars => LetterInv'
  <2> SUFFICES ASSUME LetterInv, [LetterNext]_boxVars PROVE LetterInv'
    OBVIOUS
  <2> USE DEF LetterInv, LetterTypes, CutInv
  <2>1. CASE Picture
    BY <2>1, LetterboxConstants DEF Picture
  <2>2. CASE Box
    <3>1. /\ UNCHANGED <<detect, first, src>> /\ boxPc = "picture" /\ boxPc' = "boxed"
          /\ cutBox' = Cut(rawBox', src)
      BY <2>2 DEF Box
    <3>2. PICK b \in [left : BoxEnds, right : BoxEnds, top : BoxEnds, bottom : BoxEnds] :
            rawBox' = b /\ b.left < b.right /\ b.top < b.bottom
      BY <2>2 DEF Box
    <3>3. /\ b = [left |-> b.left, right |-> b.right, top |-> b.top, bottom |-> b.bottom]
          /\ b.left \in Int /\ b.right \in Int /\ b.top \in Int /\ b.bottom \in Int
      BY LetterboxConstants
    <3>. QED BY <3>1, <3>2, <3>3 DEF Cut
  <2>3. CASE UNCHANGED boxVars
    BY <2>3 DEF boxVars, Cut
  <2>. QED BY <2>1, <2>2, <2>3 DEF LetterNext
<1>. QED BY <1>1, <1>2, PTL DEF LetterSpec

(* A scaled length x * a / b, rounded or truncated, with its bounds.       *)
LEMMA RoundedIs ==
  ASSUME NEW p \in Nat, NEW b \in Nat \ {0}, NEW y \in Nat, p <= y * b
  PROVE  /\ (2 * p + b) \div (2 * b) \in 0 .. y
         /\ p \div b \in 0 .. y
         /\ (2 * p + b) \div (2 * b) - p \div b \in 0 .. 1
         /\ p = y * b => (2 * p + b) \div (2 * b) = y /\ p \div b = y
<1> DEFINE k == (2 * p + b) \div (2 * b)   i == (2 * p + b) % (2 * b)
           q == p \div b                   j == p % b
<1>1. /\ k \in Int /\ i \in 0 .. 2 * b - 1 /\ 2 * p + b = (2 * b) * k + i
      /\ q \in Int /\ j \in 0 .. b - 1 /\ p = b * q + j
  <2> DEFINE n == 2 * b   m == 2 * p + b
  <2>1. n \in Nat \ {0} /\ m \in Int
    OBVIOUS
  <2> HIDE DEF n, m
  <2>2. m \div n \in Int /\ m % n \in 0 .. n - 1 /\ m = n * (m \div n) + (m % n)
    BY <2>1, DivMod
  <2>3. q \in Int /\ j \in 0 .. b - 1 /\ p = b * q + j
    BY DivMod
  <2>. QED BY <2>2, <2>3 DEF n, m
<1> HIDE DEF k, i, q, j
<1>2. q >= 0 /\ k >= 0
  <2>1. q <= -1 => b * q <= -b
    BY <1>1
  <2>2. k <= -1 => (2 * b) * k <= -(2 * b)
    BY <1>1
  <2>. QED BY <1>1, <2>1, <2>2
<1>3. q <= y /\ (p = y * b => q = y)
  <2>1. q >= y + 1 => b * q >= b * y + b
    BY <1>1
  <2>2. q <= y - 1 => b * q <= b * y - b
    BY <1>1
  <2>3. y * b = b * y /\ b * q \in Int /\ b * y \in Int
    BY <1>1
  <2>. QED BY <1>1, <2>1, <2>2, <2>3
<1>4. k = q \/ k = q + 1
  <2>1. k <= q - 1 => b * k <= b * q - b
    BY <1>1
  <2>2. k >= q + 2 => b * k >= b * q + 2 * b
    BY <1>1
  <2>3. (2 * b) * k = 2 * (b * k) /\ b * q \in Int /\ b * k \in Int
    BY <1>1
  <2>. QED BY <1>1, <2>1, <2>2, <2>3
<1>5. k <= y /\ (p = y * b => k = y)
  <2>1. k >= y + 1 => b * k >= b * y + b
    BY <1>1
  <2>2. k <= y - 1 => b * k <= b * y - b
    BY <1>1
  <2>3. (2 * b) * k = 2 * (b * k) /\ b * y \in Int /\ b * k \in Int /\ y * b = b * y
    BY <1>1
  <2>. QED BY <1>1, <2>1, <2>2, <2>3
<1>. QED BY <1>1, <1>2, <1>3, <1>4, <1>5 DEF k, q

Size == (Nat \ {0}) \X (Nat \ {0})

(* The scaled size fits, and correcting a box comes to the same or one     *)
(* less.                                                                   *)
LEMMA ScaledFits ==
  ASSUME NEW d \in Size, NEW s \in Size
  PROVE  /\ Scaled(d, s) \in (0 .. d[1]) \X (0 .. d[2])
         /\ Corrected(d, s) \in (0 .. d[1]) \X (0 .. d[2])
         /\ \A i \in {1, 2} : Scaled(d, s)[i] - Corrected(d, s)[i] \in 0 .. 1
<1> DEFINE dw == d[1]   dh == d[2]   sw == s[1]   sh == s[2]
           p == dh * sw   r == dw * sh
<1>1. /\ dw \in Nat \ {0} /\ dh \in Nat \ {0} /\ sw \in Nat \ {0} /\ sh \in Nat \ {0}
  BY DEF Size
<1>2. p \in Nat /\ r \in Nat
  <2> HIDE DEF dw, dh, sw, sh
  <2>1. \A a, b \in Nat : a * b \in Nat
    OBVIOUS
  <2>. QED BY <1>1, <2>1
<1>3. /\ 2 * d[2] * s[1] = 2 * p /\ s[1] * d[2] = p
      /\ 2 * d[1] * s[2] = 2 * r /\ s[2] * d[1] = r
      /\ d[2] * s[1] = p /\ d[1] * s[2] = r
  BY <1>1
<1>4. /\ Scaled(d, s) = IF p < r THEN <<(2 * p + sh) \div (2 * sh), dh>>
                                 ELSE <<dw, (2 * r + sw) \div (2 * sw)>>
      /\ Corrected(d, s) = IF r < p THEN <<dw, r \div sw>> ELSE <<p \div sh, dh>>
  BY <1>3 DEF Scaled, Tall, Corrected
<1> HIDE DEF p, r
<1>5. CASE p < r
  <2>1. p <= dw * sh
    BY <1>2, <1>5 DEF r
  <2> HIDE DEF dw, dh, sw, sh
  <2>2. /\ (2 * p + sh) \div (2 * sh) \in 0 .. dw
        /\ p \div sh \in 0 .. dw
        /\ (2 * p + sh) \div (2 * sh) - p \div sh \in 0 .. 1
    BY <1>1, <1>2, <2>1, RoundedIs
  <2>3. ~(r < p) /\ dh \in 0 .. dh /\ dh - dh \in 0 .. 1
    BY <1>1, <1>2, <1>5
  <2> DEFINE x == (2 * p + sh) \div (2 * sh)   y == p \div sh
  <2>4. Scaled(d, s) = <<x, dh>> /\ Corrected(d, s) = <<y, dh>>
    BY <1>4, <1>5, <2>3
  <2> HIDE DEF x, y
  <2>. QED BY <2>2, <2>3, <2>4 DEF x, y, dw, dh
<1>6. CASE r < p
  <2>1. r <= dh * sw
    BY <1>2, <1>6 DEF p
  <2> HIDE DEF dw, dh, sw, sh
  <2>2. /\ (2 * r + sw) \div (2 * sw) \in 0 .. dh
        /\ r \div sw \in 0 .. dh
        /\ (2 * r + sw) \div (2 * sw) - r \div sw \in 0 .. 1
    BY <1>1, <1>2, <2>1, RoundedIs
  <2>3. ~(p < r) /\ dw \in 0 .. dw /\ dw - dw \in 0 .. 1
    BY <1>1, <1>2, <1>6
  <2> DEFINE x == (2 * r + sw) \div (2 * sw)   y == r \div sw
  <2>4. Scaled(d, s) = <<dw, x>> /\ Corrected(d, s) = <<dw, y>>
    BY <1>4, <1>6, <2>3
  <2> HIDE DEF x, y
  <2>. QED BY <2>2, <2>3, <2>4 DEF x, y, dw, dh
<1>7. CASE p = r
  <2>1. r = dh * sw /\ p = dw * sh
    BY <1>7 DEF p, r
  <2> HIDE DEF dw, dh, sw, sh
  <2>2. (2 * r + sw) \div (2 * sw) = dh
    BY <1>1, <1>2, <2>1, RoundedIs
  <2>3. p \div sh = dw
    BY <1>1, <1>2, <2>1, RoundedIs
  <2>4. Scaled(d, s) = <<dw, dh>> /\ Corrected(d, s) = <<dw, dh>>
    BY <1>2, <1>4, <1>7, <2>2, <2>3
  <2>5. dw \in 0 .. dw /\ dh \in 0 .. dh /\ dw - dw \in 0 .. 1 /\ dh - dh \in 0 .. 1
    BY <1>1
  <2>. QED BY <2>4, <2>5 DEF dw, dh
<1>. QED BY <1>2, <1>5, <1>6, <1>7

(* An even picture's planes, in quarters of its size.                      *)
LEMMA PlanesAre ==
  ASSUME NEW a \in Nat, NEW b \in Nat, NEW z, z = <<2 * a, 2 * b>>
  PROVE  /\ z[1] * z[2] = 4 * (a * b) /\ ThirdPlane(z) = 5 * (a * b)
         /\ PlaneRows(z) = a * b /\ Length(z) = 6 * (a * b)
<1> DEFINE n == a * b
<1>1. n \in Nat
  OBVIOUS
<1>2. z[1] = 2 * a /\ z[2] = 2 * b /\ (2 * a) * (2 * b) = 4 * n
  OBVIOUS
<1>3. /\ (2 * b + 1) \div 2 = b /\ (2 * a) \div 2 = a /\ (2 * a + 1) \div 2 = a
  OBVIOUS
<1>4. (b - 1) * a + a = n
  OBVIOUS
<1> HIDE DEF n
<1>5. ((4 * n) * 5) \div 4 = 5 * n /\ ((4 * n) * 3) \div 2 = 6 * n
  BY <1>1
<1>6. ThirdPlane(z) = 5 * n
  BY <1>2, <1>5 DEF ThirdPlane
<1>7. Length(z) = 6 * n
  BY <1>2, <1>5 DEF Length
<1>8. PlaneRows(z) = n
  BY <1>2, <1>3, <1>4 DEF PlaneRows
<1>. QED BY <1>2, <1>6, <1>7, <1>8 DEF n

(* A picture of any size is put into a network's frame of any size, and    *)
(* its boxes are brought back, with the same numbers and within the memory *)
(* both are given (main.cpp, yuv_to_rgb_scale and pad_data; yoloDetect.cpp,*)
(* correctYoloBoxes and getDetectBoxInfo).                                 *)
THEOREM PlacesSafe == LetterSpec => []PlacesAgree
<1>1. LetterInv => PlanesFit
  <2> SUFFICES ASSUME LetterInv, Taken, Even(first), Even(Scale),
                      Scale[1] <= first[1], Scale[2] <= first[2]
               PROVE  /\ PlanarEnd(Scale) <= Length(first)
                      /\ Scale[1] * Scale[2] + PlaneRows(Scale) <= ThirdPlane(Scale)
    BY DEF PlanesFit
  <2>1. first \in Size /\ detect \in Size
    BY DEF LetterInv, LetterTypes, Taken, Size
  <2>2. Scale \in (0 .. detect[1]) \X (0 .. detect[2])
    BY <2>1, ScaledFits DEF Scale
  <2> DEFINE z == Scale
  <2>3. z \in Nat \X Nat
    BY <2>1, <2>2 DEF Size
  <2> HIDE DEF z
  <2>4. PICK a \in Nat, b \in Nat : z = <<2 * a, 2 * b>>
    <3>1. z[1] = 2 * (z[1] \div 2) /\ z[2] = 2 * (z[2] \div 2)
      BY <2>3 DEF Even, z
    <3>2. z[1] \div 2 \in Nat /\ z[2] \div 2 \in Nat /\ z = <<z[1], z[2]>>
      BY <2>3
    <3>. QED BY <3>1, <3>2
  <2>5. PICK c \in Nat, e \in Nat : first = <<2 * c, 2 * e>>
    <3>1. first[1] = 2 * (first[1] \div 2) /\ first[2] = 2 * (first[2] \div 2)
      BY <2>1 DEF Even, Size
    <3>2. first[1] \div 2 \in Nat /\ first[2] \div 2 \in Nat /\ first = <<first[1], first[2]>>
      BY <2>1 DEF Size
    <3>. QED BY <3>1, <3>2
  <2>6. a <= c /\ b <= e
    BY <2>4, <2>5 DEF z
  <2>7. a * b <= c * e
    <3>1. a * b <= c * b /\ c * b <= c * e
      BY <2>6
    <3>2. a * b \in Int /\ c * b \in Int /\ c * e \in Int
      OBVIOUS
    <3>. QED BY <3>1, <3>2
  <2> DEFINE n == a * b   m == c * e
  <2>8. /\ z[1] * z[2] = 4 * n /\ ThirdPlane(z) = 5 * n /\ PlaneRows(z) = n
        /\ Length(first) = 6 * m
    BY <2>4, <2>5, PlanesAre
  <2>9. n \in Nat /\ m \in Nat /\ n <= m
    BY <2>7
  <2> HIDE DEF n, m
  <2>10. PlanarEnd(z) = 6 * n
    BY <2>8, <2>9 DEF PlanarEnd
  <2>. QED BY <2>8, <2>9, <2>10 DEF z
<1>2. LetterInv => PadInside
  <2> SUFFICES ASSUME LetterInv, Taken
               PROVE  /\ Scale[1] <= detect[1] /\ Scale[2] <= detect[2]
                      /\ Scale[1] = detect[1] => PadReads(detect, Scale) <= ScaledBytes(Scale)
    BY DEF PadInside
  <2>1. first \in Size /\ detect \in Size
    BY DEF LetterInv, LetterTypes, Taken, Size
  <2>2. Scale \in (0 .. detect[1]) \X (0 .. detect[2])
    BY <2>1, ScaledFits DEF Scale
  <2> DEFINE x == Scale[1]   y == Scale[2]   w == detect[1]   h == detect[2]
  <2>3. x \in 0 .. w /\ y \in 0 .. h /\ w \in Nat /\ h \in Nat
    BY <2>1, <2>2 DEF Size
  <2>4. /\ PadReads(detect, Scale) = (y - 1) * w * 3 + x * 3
        /\ ScaledBytes(Scale) = x * y * 3
    BY DEF PadReads, ScaledBytes
  <2> HIDE DEF x, y, w, h
  <2>5. x = w => (y - 1) * w * 3 + x * 3 = x * y * 3
    BY <2>3
  <2>6. x * y * 3 \in Int
    BY <2>3
  <2>. QED BY <2>3, <2>4, <2>5, <2>6 DEF x, y, w, h
<1>3. LetterInv => BoxesComeBack
  <2> SUFFICES ASSUME LetterInv, Taken, src = first, NEW i \in {1, 2}
               PROVE  /\ Near(Scale[i], Corrected(detect, src)[i])
                      /\ Near(PadCorner(detect, Scale)[i], PadCorner(detect, Corrected(detect, src))[i])
    BY DEF BoxesComeBack
  <2>1. first \in Size /\ detect \in Size
    BY DEF LetterInv, LetterTypes, Taken, Size
  <2> DEFINE c == Corrected(detect, src)   x == Scale[i]   y == c[i]   d == detect[i]
  <2>2. Scale \in (0 .. detect[1]) \X (0 .. detect[2]) /\ c \in (0 .. detect[1]) \X (0 .. detect[2])
        /\ x - y \in 0 .. 1
    BY <2>1, ScaledFits DEF Scale
  <2>3. x \in Int /\ y \in Int /\ d \in Int
    BY <2>1, <2>2 DEF Size
  <2>4. PadCorner(detect, Scale)[i] = (d - x) \div 2 /\ PadCorner(detect, c)[i] = (d - y) \div 2
    BY DEF PadCorner
  <2> HIDE DEF x, y, d, c
  <2>5. (d - x) \div 2 - (d - y) \div 2 \in -1 .. 1
    BY <2>2, <2>3
  <2>6. x - y \in -1 .. 1
    BY <2>2, <2>3
  <2>. QED BY <2>4, <2>5, <2>6 DEF Near, x, y, c
<1>4. LetterInv => BoxInPicture
  <2> SUFFICES ASSUME LetterInv, boxPc = "boxed" PROVE BoxInPicture
    BY DEF BoxInPicture
  <2>1. PICK l, r, t, u \in Int : /\ rawBox = [left |-> l, right |-> r, top |-> t, bottom |-> u]
                                  /\ l < r /\ t < u
    BY DEF LetterInv, CutInv
  <2> DEFINE w == src[1]   h == src[2]
  <2>2. w \in Nat \ {0} /\ h \in Nat \ {0}
    BY DEF LetterInv, LetterTypes
  <2>3. cutBox = [left |-> High(l, 0), right |-> Low(r, w - 1),
                  top |-> High(t, 0), bottom |-> Low(u, h - 1)]
    BY <2>1 DEF LetterInv, CutInv, Cut
  <2>4. /\ cutBox.left = High(l, 0) /\ cutBox.right = Low(r, w - 1)
        /\ cutBox.top = High(t, 0) /\ cutBox.bottom = Low(u, h - 1)
        /\ rawBox.left = l /\ rawBox.right = r /\ rawBox.top = t /\ rawBox.bottom = u
    BY <2>1, <2>3
  <2> HIDE DEF w, h
  <2>5. /\ Low(r, w - 1) < w /\ (l < w /\ r >= 0 => 0 <= High(l, 0) /\ High(l, 0) <= Low(r, w - 1))
        /\ Low(u, h - 1) < h /\ (t < h /\ u >= 0 => 0 <= High(t, 0) /\ High(t, 0) <= Low(u, h - 1))
    BY <2>1, <2>2 DEF Low, High
  <2>. QED BY <2>4, <2>5 DEF BoxInPicture, w, h
<1>. QED BY <1>1, <1>2, <1>3, <1>4, LetterInvariance, PTL DEF PlacesAgree
=============================================================================
