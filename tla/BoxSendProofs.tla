--------------------------- MODULE BoxSendProofs ---------------------------
(***************************************************************************)
(* BoxSend for every packet size, number of boxes and number of clients:   *)
(* the split into packets, who gets them, and that a picture comes in      *)
(* order and whole.                                                        *)
(***************************************************************************)
EXTENDS BoxSend, ModularArithmetic, SequenceTheorems, TLAPS

(* A picture's boxes fill all packets but the last, which holds the rest:  *)
(* no box is left out or sent twice and no packet is empty.                *)
THEOREM PacketSplit ==
  ASSUME NEW num \in Nat \ {0}
  PROVE  /\ PacketNum(num) \in Nat \ {0}
         /\ LastPacket(num) \in 1 .. PER_PACKET
         /\ num = (PacketNum(num) - 1) * PER_PACKET + LastPacket(num)
<1> DEFINE size == PER_PACKET
           q == num \div size
           r == num % size
<1>1. size \in Nat \ {0}
  BY ConstantsAssumption
<1> HIDE DEF size
<1>2. q \in Int /\ r \in 0 .. size - 1 /\ num = size * q + r
  <2>1. num \in Int
    OBVIOUS
  <2>. QED BY <1>1, <2>1, DivMod
<1> USE DEF size
<1>3. PacketNum(num) = IF r = 0 THEN q ELSE q + 1
  BY DEF PacketNum
<1>4. LastPacket(num) = num - (PacketNum(num) - 1) * size
  BY DEF LastPacket
<1> HIDE DEF size, q, r
<1>5. q >= 0
  <2> SUFFICES ASSUME q <= -1 PROVE FALSE
    BY <1>2
  <2>1. size * q <= -size
    BY <1>1, <1>2
  <2>. QED BY <1>1, <1>2, <2>1
<1>6. CASE r = 0
  <2>1. q # 0
    BY <1>1, <1>2, <1>6
  <2>2. PacketNum(num) = q /\ (q - 1) * size = size * q - size
    BY <1>1, <1>2, <1>3, <1>6
  <2>3. LastPacket(num) = size
    BY <1>1, <1>2, <1>4, <1>6, <2>2
  <2>. QED BY <1>1, <1>2, <1>5, <1>6, <2>1, <2>2, <2>3 DEF size
<1>7. CASE r # 0
  <2>1. PacketNum(num) = q + 1 /\ ((q + 1) - 1) * size = size * q
    BY <1>1, <1>2, <1>3, <1>7
  <2>2. LastPacket(num) = r
    BY <1>1, <1>2, <1>4, <2>1
  <2>3. PacketNum(num) \in Nat \ {0}
    BY <1>2, <1>5, <2>1
  <2>4. LastPacket(num) \in 1 .. size
    BY <1>1, <1>2, <1>7, <2>2
  <2>5. num = (PacketNum(num) - 1) * size + LastPacket(num)
    <3>1. (PacketNum(num) - 1) * size = size * q
      BY <2>1
    <3>. QED BY <1>2, <2>2, <3>1
  <2>. QED BY <2>3, <2>4, <2>5 DEF size
<1>. QED BY <1>6, <1>7

(* Every packet sendBox makes is one. *)
LEMMA PacketTyped ==
  ASSUME NEW p \in [id : 0 .. MaxPics, num : Nums \cup {0}], NEW k \in Nat
  PROVE  Packet(p, k) \in PacketType
<1>1. PER_PACKET \in Nat \ {0} /\ p.num \in Nat /\ p.num \in Nums \cup {0}
      /\ p.id \in 0 .. MaxPics
  <2>1. p.num \in Nums \cup {0} /\ p.id \in 0 .. MaxPics
    OBVIOUS
  <2>2. Nums \subseteq Nat /\ PER_PACKET \in Nat \ {0}
    BY ConstantsAssumption
  <2>3. p.num \in Nat
    <3>1. 0 \in Nat
      OBVIOUS
    <3>. QED BY <2>1, <2>2, <3>1, Zenon
  <2>. QED BY <2>1, <2>2, <2>3, Zenon
<1>2. CASE p.num = 0
  BY <1>1, <1>2 DEF Packet, PacketType
<1>3. CASE p.num # 0
  <2>1. PacketNum(p.num) \in Nat \ {0} /\ LastPacket(p.num) \in 1 .. PER_PACKET
    BY <1>1, <1>3, PacketSplit
  <2>2. BoxesIn(p.num, k) \in 0 .. PER_PACKET /\ FirstBox(p.num, k) \in Nat
    <3> DEFINE m == PacketNum(p.num)
               last == LastPacket(p.num)
    <3>1. p.num = (m - 1) * PER_PACKET + last
      BY <1>1, <1>3, PacketSplit
    <3>2. m \in Nat \ {0} /\ last \in 1 .. PER_PACKET /\ PER_PACKET \in Nat \ {0}
      BY <1>1, <2>1
    <3>3. (m - 1) * PER_PACKET \in Nat /\ k * PER_PACKET \in Nat
      <4>1. \A a, b \in Nat : a * b \in Nat
        OBVIOUS
      <4>2. m - 1 \in Nat /\ PER_PACKET \in Nat
        BY <3>2
      <4>. QED BY <4>1, <4>2, Zenon
    <3>4. BoxesIn(p.num, k) \in {last, PER_PACKET}
          /\ FirstBox(p.num, k) \in {p.num - last, k * PER_PACKET}
      BY DEF BoxesIn, FirstBox
    <3> HIDE DEF m, last
    <3>. QED BY <1>1, <3>1, <3>2, <3>3, <3>4
  <2>3. k + 1 \in Nat \ {0}
    OBVIOUS
  <2>4. Packet(p, k) = [type |-> "GPS", pic |-> p.id, cur |-> k + 1,
                        tot |-> PacketNum(p.num), first |-> FirstBox(p.num, k),
                        boxes |-> BoxesIn(p.num, k)]
    BY <1>3 DEF Packet
  <2> HIDE DEF PacketNum, BoxesIn, FirstBox
  <2>. QED BY <1>1, <2>1, <2>2, <2>3, <2>4 DEF PacketType
<1>. QED BY <1>2, <1>3

LEMMA InfoTyped == Info \in PacketType
  BY ConstantsAssumption DEF Info, PacketType

-----------------------------------------------------------------------------
(* Who gets boxes.  The flag is up only in the session of a client that    *)
(* asked or whose requests were cut, and sendBox past its test of the flag *)
(* writes to such a client or to one that arrived after the test, which is *)
(* what mixed records.  Reads are out of step only after a cut.            *)

Served(c) == \E k \in DOMAIN received[c] : received[c][k].type # "STREAMPARAM"

Cut == Range(cuts)

FlagInv ==
  /\ servePc \in {"close", "accept", "clear"} => ~can_send_box
  /\ can_send_box => client \in asked \cup Cut

SenderInv == sendPc # "idle" => client \in asked \cup mixed \cup Cut \cup {0}

LineInv ==
  /\ line = "open" => client \in Clients /\ servePc \in {"clear", "read"}
  /\ servePc = "accept" => requests = <<>> /\ taken = 0 /\ coming = 0

RequestInv ==
  /\ requests # <<>> => client \in Clients
  /\ taken = 1 \/ coming = 1 => requests # <<>>
  /\ \A k \in DOMAIN requests : requests[k] = "BOX" => client \in asked
  /\ taken = 1 => client \in Cut

ServedInv == \A c \in Clients : Served(c) => c \in asked \cup mixed \cup Cut

IInv == TypeOK /\ FlagInv /\ SenderInv /\ LineInv /\ RequestInv /\ ServedInv

LEMMA InitInv == Init => IInv
<1> SUFFICES ASSUME Init PROVE IInv
  OBVIOUS
<1>1. received \in [Clients -> Seq(PacketType)]
  BY DEF Init
<1>2. TypeOK
  <2>1. pic \in [id : 0 .. MaxPics, num : Nums \cup {0}]
    <3>1. 0 \in 0 .. MaxPics
      BY ConstantsAssumption
    <3>. QED BY <3>1 DEF Init
  <2>2. /\ client \in 0 .. MaxClients /\ begun \in 0 .. MaxClients
        /\ asks \in 0 .. MaxAsks
    BY ConstantsAssumption DEF Init
  <2>3. requests \in Seq(Kinds) /\ cuts \in Seq(Clients)
    BY EmptySeq DEF Init
  <2>. QED BY <1>1, <2>1, <2>2, <2>3 DEF Init, TypeOK
<1>3. ServedInv
  BY DEF Init, ServedInv, Served
<1>. QED BY <1>2, <1>3 DEF Init, IInv, FlagInv, SenderInv, LineInv, RequestInv

(* A read that cuts a request of the current client. *)
LEMMA CutGrows ==
  ASSUME TypeOK, NEW c \in Clients, cuts' = Append(cuts, c)
  PROVE  cuts' \in Seq(Clients) /\ Cut' = Cut \cup {c}
<1>1. cuts \in Seq(Clients) /\ cuts' \in Seq(Clients)
  BY DEF TypeOK
<1>2. Len(cuts) \in Nat /\ DOMAIN cuts = 1 .. Len(cuts)
      /\ DOMAIN cuts' = 1 .. Len(cuts) + 1
  BY <1>1
<1>3. \A k \in DOMAIN cuts : k \in DOMAIN cuts' /\ cuts'[k] = cuts[k]
  BY <1>1, <1>2
<1>4. Len(cuts) + 1 \in DOMAIN cuts' /\ cuts'[Len(cuts) + 1] = c
  BY <1>1, <1>2
<1>5. \A k \in DOMAIN cuts' : k \in DOMAIN cuts \/ k = Len(cuts) + 1
  BY <1>2
<1>6. ASSUME NEW d \in Cut' PROVE d \in Cut \cup {c}
  <2>1. PICK k \in DOMAIN cuts' : d = cuts'[k]
    BY <1>6, Zenon DEF Cut, Range
  <2>2. CASE k \in DOMAIN cuts
    BY <1>3, <2>1, <2>2, Zenon DEF Cut, Range
  <2>3. CASE k = Len(cuts) + 1
    BY <1>4, <2>1, <2>3
  <2>. QED BY <1>5, <2>2, <2>3, Zenon
<1>7. ASSUME NEW d \in Cut \cup {c} PROVE d \in Cut'
  <2>1. CASE d \in Cut
    BY <1>3, <2>1, Zenon DEF Cut, Range
  <2>2. CASE d = c
    BY <1>4, <2>2, Zenon DEF Cut, Range
  <2>. QED BY <1>7, <2>1, <2>2
<1>. QED BY <1>1, <1>6, <1>7

(* The requests left after a read of the first are among those before it. *)
LEMMA TailFacts ==
  ASSUME NEW q \in Seq(Kinds), q # <<>>
  PROVE  /\ Head(q) \in Kinds /\ Tail(q) \in Seq(Kinds)
         /\ Len(q) >= 2 => Tail(q) # <<>>
         /\ Len(q) = 1 => Tail(q) = <<>>
         /\ 1 \in DOMAIN q /\ Head(q) = q[1]
         /\ \A k \in DOMAIN Tail(q) : k + 1 \in DOMAIN q /\ Tail(q)[k] = q[k + 1]
<1>1. Len(q) \in Nat \ {0} /\ DOMAIN q = 1 .. Len(q)
  BY EmptySeq, LenProperties
<1>2. /\ Head(q) \in Kinds /\ Tail(q) \in Seq(Kinds) /\ Len(Tail(q)) = Len(q) - 1
      /\ \A k \in 1 .. Len(Tail(q)) : Tail(q)[k] = q[k + 1]
  BY HeadTailProperties
<1>3. Len(q) >= 2 => Tail(q) # <<>>
  <2>1. Len(q) >= 2 => Len(Tail(q)) # 0
    BY <1>1, <1>2
  <2>2. Tail(q) = <<>> => Len(Tail(q)) = 0
    BY EmptySeq
  <2>. QED BY <2>1, <2>2, Zenon
<1>4. Len(q) = 1 => Tail(q) = <<>>
  <2> SUFFICES ASSUME Len(q) = 1, Tail(q) # <<>> PROVE FALSE
    OBVIOUS
  <2>1. Len(Tail(q)) \in Nat \ {0}
    BY <1>2, EmptySeq
  <2>. QED BY <1>2, <2>1
<1>5. 1 \in DOMAIN q /\ Head(q) = q[1]
  BY <1>1
<1>6. ASSUME NEW k \in DOMAIN Tail(q) PROVE k + 1 \in DOMAIN q /\ Tail(q)[k] = q[k + 1]
  <2>1. k \in 1 .. Len(q) - 1
    BY <1>1, <1>2, LenProperties
  <2>. QED BY <1>1, <1>2, <2>1
<1>. QED BY <1>2, <1>3, <1>4, <1>5, <1>6

(* Half a request is there to read: the rest of the last one if a half of  *)
(* it is read.                                                             *)
LEMMA OneHalf ==
  ASSUME NEW n \in Nat, NEW t \in {0, 1}, NEW c \in {0, 1}, 2 * n - t - c = 1
  PROVE  t = 1 => n = 1 /\ c = 0
<1>1. n = 0 \/ n = 1 \/ n >= 2
  OBVIOUS
<1>. QED BY <1>1

(* What a write does to the packets a client has. *)
LEMMA WriteFacts ==
  ASSUME TypeOK, LineInv, NEW packet \in PacketType, Write(packet)
  PROVE  /\ received' \in [Clients -> Seq(PacketType)]
         /\ line' \in {"none", "open", "left", "reset"}
         /\ line' = "open" => line = "open"
         /\ killed' \in BOOLEAN
         /\ \A c \in Clients : Served(c)' =>
              Served(c) \/ (c = client /\ packet.type # "STREAMPARAM")
<1>1. line' \in {"none", "open", "left", "reset"} /\ (line' = "open" => line = "open")
  BY DEF TypeOK, Write
<1>2. killed' \in BOOLEAN
  BY Zenon DEF Write
<1>3. CASE line # "open"
  <2>1. received' = received
    BY <1>3 DEF Write
  <2>. QED BY <1>1, <1>2, <2>1 DEF TypeOK, Served
<1>4. CASE line = "open"
  <2>1. client \in Clients /\ received \in [Clients -> Seq(PacketType)]
    BY <1>4 DEF LineInv, TypeOK
  <2>2. received' = [received EXCEPT ![client] = Append(@, packet)]
    BY <1>4 DEF Write
  <2>3. received' \in [Clients -> Seq(PacketType)]
    BY <2>1, <2>2
  <2>4. ASSUME NEW c \in Clients, c # client PROVE received'[c] = received[c]
    BY <2>1, <2>2, <2>4
  <2>5. received'[client] = Append(received[client], packet)
    BY <2>1, <2>2
  <2>6. ASSUME NEW c \in Clients, c = client, Served(c)', packet.type = "STREAMPARAM"
        PROVE  Served(c)
    <3>1. PICK k \in DOMAIN received'[c] : received'[c][k].type # "STREAMPARAM"
      BY <2>6, Zenon DEF Served
    <3>2. received[c] \in Seq(PacketType) /\ received'[c] = Append(received[c], packet)
      BY <2>1, <2>5, <2>6
    <3>3. k \in 1 .. Len(received[c]) + 1
      BY <3>1, <3>2
    <3>4. k # Len(received[c]) + 1
      BY <2>6, <3>1, <3>2
    <3>5. k \in DOMAIN received[c] /\ received[c][k] = received'[c][k]
      BY <3>2, <3>3, <3>4
    <3>. QED BY <3>1, <3>5, Zenon DEF Served
  <2>7. ASSUME NEW c \in Clients, Served(c)'
        PROVE  Served(c) \/ (c = client /\ packet.type # "STREAMPARAM")
    <3>1. CASE c = client
      BY <2>6, <2>7, <3>1, Zenon
    <3>2. CASE c # client
      <4>1. received'[c] = received[c]
        BY <2>4, <3>2
      <4>. QED BY <2>7, <4>1, Zenon DEF Served
    <3>. QED BY <3>1, <3>2
  <2>. QED BY <1>1, <1>2, <2>3, <2>7
<1>. QED BY <1>3, <1>4

(* What obeying a request does, whatever is taken for one. *)
LEMMA ObeyFacts ==
  ASSUME IInv, NEW kind, Obey(kind), client \in asked \cup Cut \/ kind # "BOX",
         UNCHANGED <<client, asked, cuts, mixed>>
  PROVE  /\ received' \in [Clients -> Seq(PacketType)]
         /\ line' \in {"none", "open", "left", "reset"}
         /\ line' = "open" => line = "open"
         /\ killed' \in BOOLEAN /\ can_send_box' \in BOOLEAN
         /\ can_send_box' => client \in asked \cup Cut
         /\ ServedInv'
<1> USE DEF IInv
<1>1. can_send_box' = (can_send_box \/ kind = "BOX")
  BY Zenon DEF Obey
<1>2. can_send_box' \in BOOLEAN /\ (can_send_box' => client \in asked \cup Cut)
  BY <1>1, Zenon DEF TypeOK, FlagInv
<1>3. CASE kind = "STREAMPARAM"
  <2>1. Write(Info) /\ Info.type = "STREAMPARAM"
    BY <1>3, Zenon DEF Obey, Info
  <2>2. /\ received' \in [Clients -> Seq(PacketType)]
        /\ line' \in {"none", "open", "left", "reset"}
        /\ line' = "open" => line = "open"
        /\ killed' \in BOOLEAN
        /\ \A c \in Clients : Served(c)' =>
             Served(c) \/ (c = client /\ Info.type # "STREAMPARAM")
    BY <2>1, InfoTyped, WriteFacts, Zenon
  <2>3. ServedInv'
    BY <2>1, <2>2, Zenon DEF ServedInv, Cut
  <2>. QED BY <1>2, <2>2, <2>3
<1>4. CASE kind # "STREAMPARAM"
  <2>1. UNCHANGED <<line, received, killed>>
    BY <1>4, Zenon DEF Obey
  <2>2. ServedInv'
    BY <2>1, Zenon DEF ServedInv, Served, Cut
  <2>. QED BY <1>2, <2>1, <2>2 DEF TypeOK
<1>. QED BY <1>3, <1>4

LEMMA NextInv == IInv /\ [Next]_vars => IInv'
<1> SUFFICES ASSUME IInv, [Next]_vars PROVE IInv'
  OBVIOUS
<1> USE DEF IInv
<1>1. client \in Nat /\ MaxClients \in Nat
  BY ConstantsAssumption DEF TypeOK
<1>2. CASE Top
  BY <1>2 DEF Top, senderVars, asking, TypeOK, FlagInv, SenderInv, LineInv, RequestInv,
              ServedInv, Served, Cut
<1>3. CASE Close
  <2>1. requests' = <<>> /\ requests' \in Seq(Kinds)
    BY <1>3 DEF Close
  <2>2. UNCHANGED <<can_send_box, client, not_first, senderVars, received, killed, asking,
                    mixed, cuts>>
        /\ servePc = "close" /\ servePc' = "accept" /\ line' = "none"
        /\ taken' = 0 /\ coming' = 0
    BY <1>3 DEF Close
  <2>3. TypeOK' /\ FlagInv' /\ SenderInv' /\ LineInv' /\ RequestInv'
    BY <2>1, <2>2 DEF senderVars, asking, TypeOK, FlagInv, SenderInv, LineInv, RequestInv, Cut
  <2>4. ServedInv'
    BY <2>2, Zenon DEF asking, ServedInv, Served, Cut
  <2>. QED BY <2>3, <2>4
<1>4. CASE Accept
  <2>1. /\ client' = client + 1 /\ client < MaxClients
        /\ line' = "open" /\ servePc' \in {"clear", "read"}
        /\ mixed' = mixed \cup {c \in {client + 1} : sendPc # "idle"}
        /\ servePc = "accept" /\ not_first' = TRUE
        /\ UNCHANGED <<can_send_box, requests, taken, coming, asked, asks, cuts,
                       sendPc, pic, i, begun, received, killed>>
    BY <1>4 DEF Accept, senderVars, asking
  <2>2. client + 1 \in Clients
    BY <1>1, <2>1 DEF Clients
  <2>3. mixed' \subseteq Clients
    BY <2>1, <2>2 DEF TypeOK
  <2>4. TypeOK'
    BY <1>1, <2>1, <2>2, <2>3 DEF TypeOK, Clients
  <2>5. FlagInv' /\ SenderInv'
    BY <2>1 DEF FlagInv, SenderInv
  <2>6. LineInv' /\ RequestInv'
    BY <2>1, <2>2 DEF LineInv, RequestInv
  <2>7. ServedInv'
    BY <2>1, Zenon DEF ServedInv, Served, Cut
  <2>. QED BY <2>4, <2>5, <2>6, <2>7
<1>5. CASE AcceptFails
  <2>1. /\ servePc' = "aborted" /\ servePc = "accept" /\ killed' = TRUE
        /\ UNCHANGED <<can_send_box, client, not_first, requests, taken, coming, asked, asks,
                       cuts, mixed, sendPc, pic, i, begun, received, line>>
    BY <1>5 DEF AcceptFails, senderVars, asking
  <2>2. ServedInv'
    BY <2>1, Zenon DEF ServedInv, Served, Cut
  <2>. QED BY <2>1, <2>2 DEF TypeOK, FlagInv, SenderInv, LineInv, RequestInv, Cut
<1>6. CASE Cleared
  BY <1>6 DEF Cleared, senderVars, asking, TypeOK, FlagInv, SenderInv, LineInv, RequestInv,
              ServedInv, Served, Cut
<1>7. CASE ReadRequest
  <2>1. /\ servePc = "read" /\ taken = 0 /\ Available >= 2
        /\ requests' = Tail(requests) /\ Obey(Head(requests))
        /\ UNCHANGED <<servePc, client, not_first, taken, coming, sendPc, pic, i, begun,
                       asked, asks, mixed, cuts>>
    BY <1>7, Zenon DEF ReadRequest, senderVars, asking
  <2>2. /\ requests # <<>> /\ requests \in Seq(Kinds)
        /\ coming = 1 => Len(requests) >= 2
    BY <2>1 DEF Available, TypeOK
  <2>3. client \in asked \cup Cut \/ Head(requests) # "BOX"
    BY <2>2, TailFacts DEF RequestInv
  <2>4. /\ received' \in [Clients -> Seq(PacketType)]
        /\ line' \in {"none", "open", "left", "reset"}
        /\ line' = "open" => line = "open"
        /\ killed' \in BOOLEAN /\ can_send_box' \in BOOLEAN
        /\ can_send_box' => client \in asked \cup Cut
        /\ ServedInv'
    <3>1. UNCHANGED <<client, asked, cuts, mixed>>
      BY <2>1
    <3>. QED BY <2>1, <2>3, <3>1, ObeyFacts, Zenon
  <2>5. TypeOK'
    BY <2>1, <2>2, <2>4, TailFacts DEF TypeOK
  <2>6. RequestInv'
    BY <2>1, <2>2, TailFacts DEF RequestInv
  <2>. QED BY <2>1, <2>4, <2>5, <2>6 DEF FlagInv, SenderInv, LineInv, Cut
<1>8. CASE ReadAcross
  <2>1. /\ servePc = "read" /\ taken = 1 /\ Available >= 2
        /\ requests' = Tail(requests) /\ \E kind \in Kinds \cup {"other"} : Obey(kind)
        /\ UNCHANGED <<servePc, client, not_first, taken, coming, sendPc, pic, i, begun,
                       asked, asks, mixed, cuts>>
    BY <1>8, Zenon DEF ReadAcross, senderVars, asking
  <2>2. requests # <<>> /\ requests \in Seq(Kinds) /\ Len(requests) >= 2
    BY <2>1 DEF Available, TypeOK
  <2>3. client \in asked \cup Cut
    BY <2>1 DEF RequestInv
  <2>4. /\ received' \in [Clients -> Seq(PacketType)]
        /\ line' \in {"none", "open", "left", "reset"}
        /\ line' = "open" => line = "open"
        /\ killed' \in BOOLEAN /\ can_send_box' \in BOOLEAN
        /\ can_send_box' => client \in asked \cup Cut
        /\ ServedInv'
    <3>1. PICK kind \in Kinds \cup {"other"} : Obey(kind)
      BY <2>1
    <3>2. UNCHANGED <<client, asked, cuts, mixed>>
      BY <2>1
    <3>. QED BY <2>3, <3>1, <3>2, ObeyFacts, Zenon
  <2>5. TypeOK'
    BY <2>1, <2>2, <2>4, TailFacts DEF TypeOK
  <2>6. RequestInv'
    BY <2>1, <2>2, <2>3, TailFacts DEF RequestInv, Cut
  <2>. QED BY <2>1, <2>4, <2>5, <2>6 DEF FlagInv, SenderInv, LineInv, Cut
<1>9. CASE ReadHalf
  <2>1. /\ servePc = "read" /\ Available = 1
        /\ UNCHANGED <<servePc, can_send_box, client, not_first, coming, sendPc, pic, i,
                       begun, line, received, killed, asked, asks, mixed>>
    BY <1>9 DEF ReadHalf, senderVars, asking
  <2>2. /\ requests \in Seq(Kinds) /\ requests # <<>> /\ client \in Clients
        /\ taken = 1 => Len(requests) = 1 /\ coming = 0
    <3>1. requests \in Seq(Kinds) /\ Len(requests) \in Nat
          /\ taken \in {0, 1} /\ coming \in {0, 1}
      BY LenProperties DEF TypeOK
    <3>2. requests # <<>>
      <4> SUFFICES ASSUME requests = <<>> PROVE FALSE
        OBVIOUS
      <4>1. Len(requests) = 0
        BY EmptySeq
      <4>. QED BY <2>1, <3>1, <4>1 DEF Available
    <3>3. taken = 1 => Len(requests) = 1 /\ coming = 0
      BY <2>1, <3>1, OneHalf DEF Available
    <3>. QED BY <3>1, <3>2, <3>3 DEF RequestInv
  <2>3. CASE taken = 0
    <3>1. taken' = 1 /\ cuts' = Append(cuts, client) /\ requests' = requests
      BY <1>9, <2>3 DEF ReadHalf
    <3>2. cuts' \in Seq(Clients) /\ Cut' = Cut \cup {client}
      BY <2>2, <3>1, CutGrows
    <3>3. \A c \in Clients : Served(c)' <=> Served(c)
      BY <2>1, Zenon DEF Served
    <3>4. ServedInv'
      BY <2>1, <3>2, <3>3 DEF ServedInv
    <3>5. TypeOK'
      BY <2>1, <3>1, <3>2 DEF TypeOK
    <3>. QED BY <2>1, <2>2, <3>1, <3>2, <3>4, <3>5
             DEF FlagInv, SenderInv, LineInv, RequestInv
  <2>4. CASE taken # 0
    <3>1. taken = 1 /\ taken' = 0 /\ requests' = Tail(requests) /\ cuts' = cuts
      BY <1>9, <2>4 DEF ReadHalf, TypeOK
    <3>2. requests' = <<>> /\ requests' \in Seq(Kinds)
      BY <2>2, <3>1, TailFacts
    <3>3. ServedInv'
      BY <2>1, <3>1, Zenon DEF ServedInv, Served, Cut
    <3>4. TypeOK'
      BY <2>1, <3>1, <3>2 DEF TypeOK
    <3>. QED BY <2>1, <2>2, <3>1, <3>2, <3>3, <3>4
             DEF FlagInv, SenderInv, LineInv, RequestInv, Cut
  <2>. QED BY <2>3, <2>4
<1>10. CASE ReadEnds
  BY <1>10 DEF ReadEnds, senderVars, asking, TypeOK, FlagInv, SenderInv, LineInv, RequestInv,
               ServedInv, Served, Cut
<1>11. CASE SendLoop
  BY <1>11 DEF SendLoop, serverVars, asking, TypeOK, FlagInv, SenderInv, LineInv, RequestInv,
               ServedInv, Served, Cut
<1>12. CASE SendWrite
  <2>1. /\ sendPc = "write" /\ Write(Packet(pic, i))
        /\ sendPc' \in {"idle", "loop"} /\ (i' = i \/ i' = i + 1)
        /\ UNCHANGED <<servePc, can_send_box, client, not_first, requests, taken, coming,
                       pic, begun, asked, asks, mixed, cuts>>
    BY <1>12, Zenon DEF SendWrite, serverVars, asking
  <2>2. Packet(pic, i) \in PacketType
    BY PacketTyped DEF TypeOK
  <2>3. /\ received' \in [Clients -> Seq(PacketType)]
        /\ line' \in {"none", "open", "left", "reset"}
        /\ line' = "open" => line = "open"
        /\ killed' \in BOOLEAN
        /\ \A c \in Clients : Served(c)' =>
             Served(c) \/ (c = client /\ Packet(pic, i).type # "STREAMPARAM")
    BY <2>1, <2>2, WriteFacts, Zenon
  <2>4. TypeOK'
    BY <2>1, <2>3 DEF TypeOK
  <2>5. client \in Clients => client \in asked \cup mixed \cup Cut
    BY <1>1, <2>1 DEF SenderInv, Clients
  <2>6. ServedInv'
    BY <2>1, <2>3, <2>5, Zenon DEF ServedInv, Cut
  <2>. QED BY <2>1, <2>3, <2>4, <2>6 DEF FlagInv, SenderInv, LineInv, RequestInv, Cut
<1>13. ASSUME NEW num \in Nums, SendCalled(num) PROVE IInv'
  <2>1. /\ pic' = [id |-> pic.id + 1, num |-> num] /\ pic.id < MaxPics
        /\ begun' = client /\ i' = 0
        /\ sendPc' \in {"idle", "loop", "write"}
        /\ sendPc' # "idle" => can_send_box
        /\ UNCHANGED <<servePc, can_send_box, client, not_first, requests, taken, coming,
                       line, received, killed, asked, asks, mixed, cuts>>
    BY <1>13 DEF SendCalled, serverVars, asking
  <2>2. pic' \in [id : 0 .. MaxPics, num : Nums \cup {0}]
    <3>1. pic.id \in 0 .. MaxPics /\ MaxPics \in Nat
      BY ConstantsAssumption DEF TypeOK
    <3>2. pic.id + 1 \in 0 .. MaxPics
      BY <2>1, <3>1
    <3>. QED BY <2>1, <3>2
  <2>3. TypeOK'
    BY <2>1, <2>2 DEF TypeOK
  <2>4. SenderInv'
    BY <2>1 DEF SenderInv, FlagInv, Cut
  <2>5. ServedInv'
    BY <2>1, Zenon DEF ServedInv, Served, Cut
  <2>. QED BY <2>1, <2>3, <2>4, <2>5 DEF FlagInv, LineInv, RequestInv, Cut
<1>14. ASSUME NEW kind \in Kinds, Ask(kind) PROVE IInv'
  <2>1. /\ line = "open" /\ requests' = Append(requests, kind) /\ coming' \in {0, 1}
        /\ asks < MaxAsks /\ asks' = asks + 1
        /\ asked' = asked \cup {c \in {client} : kind = "BOX"}
        /\ UNCHANGED <<servePc, can_send_box, client, not_first, taken, sendPc, pic, i,
                       begun, line, received, killed, mixed, cuts>>
    BY <1>14 DEF Ask, senderVars
  <2>2. client \in Clients /\ servePc \in {"clear", "read"} /\ client \in 0 .. MaxClients
    BY <2>1 DEF LineInv, TypeOK
  <2>3. /\ requests' \in Seq(Kinds) /\ requests' # <<>>
        /\ \A k \in DOMAIN requests' :
             (k \in DOMAIN requests /\ requests'[k] = requests[k]) \/ requests'[k] = kind
    <3>1. requests \in Seq(Kinds) /\ Len(requests) \in Nat
          /\ DOMAIN requests = 1 .. Len(requests)
      BY LenProperties DEF TypeOK
    <3>2. /\ requests' \in Seq(Kinds) /\ requests' # <<>>
          /\ DOMAIN requests' = 1 .. Len(requests) + 1
          /\ Len(requests') = Len(requests) + 1
          /\ requests'[Len(requests) + 1] = kind
          /\ \A k \in 1 .. Len(requests) : requests'[k] = requests[k]
      BY <2>1, <3>1, AppendProperties, LenProperties
    <3>. QED BY <3>1, <3>2
  <2>4. asks' \in 0 .. MaxAsks
    BY <2>1, ConstantsAssumption DEF TypeOK
  <2>5. asked \subseteq asked' /\ asked' \subseteq Clients
        /\ (kind = "BOX" => client \in asked')
    BY <2>1, <2>2 DEF TypeOK
  <2>6. TypeOK'
    BY <2>1, <2>3, <2>4, <2>5 DEF TypeOK
  <2>7. RequestInv'
    BY <2>1, <2>2, <2>3, <2>5 DEF RequestInv, Cut
  <2>8. FlagInv' /\ SenderInv' /\ LineInv'
    BY <2>1, <2>2, <2>5 DEF FlagInv, SenderInv, LineInv, Cut
  <2>9. ServedInv'
    BY <2>1, <2>5, Zenon DEF ServedInv, Served, Cut
  <2>. QED BY <2>6, <2>7, <2>8, <2>9
<1>15. CASE Arrive
  BY <1>15 DEF Arrive, senderVars, asking, TypeOK, FlagInv, SenderInv, LineInv, RequestInv,
               ServedInv, Served, Cut
<1>16. CASE Leave
  BY <1>16 DEF Leave, serverVars, senderVars, asking, TypeOK, FlagInv, SenderInv, LineInv,
               RequestInv, ServedInv, Served, Cut
<1>17. CASE UNCHANGED vars
  BY <1>17 DEF vars, serverVars, senderVars, asking, TypeOK, FlagInv, SenderInv, LineInv,
               RequestInv, ServedInv, Served, Cut
<1>. QED
  BY <1>2, <1>3, <1>4, <1>5, <1>6, <1>7, <1>8, <1>9, <1>10, <1>11, <1>12, <1>13, <1>14,
     <1>15, <1>16, <1>17, Zenon
  DEF Next, Server, Reads, Sender, Client

THEOREM Invariance == Spec => []IInv
BY InitInv, NextInv, PTL DEF Spec

(* Whatever the numbers of boxes, clients and pictures, the state keeps    *)
(* its types; above all every packet announces at least one packet and     *)
(* holds no more boxes than fit.                                           *)
THEOREM TypeCorrect == Spec => []TypeOK
<1>1. IInv => TypeOK
  BY DEF IInv
<1>. QED BY Invariance, <1>1, PTL

(* However the test of can_send_box and the write are interleaved with     *)
(* clients that come and go and requests that arrive in parts, a client    *)
(* that did not arrive while a picture was being sent, and whose requests  *)
(* no read cut, gets boxes only after it asked for them.                   *)
THEOREM AskedServed == Spec => []OnlyWhoAsked
<1>1. IInv => OnlyWhoAsked
  <2> SUFFICES ASSUME IInv, NEW c \in Clients \ (mixed \cup Range(cuts)),
                      BoxPackets(c) # {}
               PROVE  c \in asked
    BY Zenon DEF OnlyWhoAsked
  <2>1. Served(c)
    BY Zenon DEF Served, BoxPackets
  <2>. QED BY <2>1 DEF IInv, ServedInv, Cut
<1>. QED BY Invariance, <1>1, PTL

-----------------------------------------------------------------------------
(* Which packets a client has.  Ordered and Linked say of all packets a    *)
(* client received what PicturesFromTheirStart says of each; Holds, that   *)
(* those of picture p are its first n.                                     *)

Boxed(q) == {k \in DOMAIN q : q[k].type # "STREAMPARAM"}

Ordered(q) ==
  \A j, k \in Boxed(q) :
    j < k => q[j].pic < q[k].pic \/ (q[j].pic = q[k].pic /\ q[j].cur < q[k].cur)

Linked(q) ==
  \A k \in Boxed(q) : q[k].cur > 1 =>
    \E j \in Boxed(q) : j < k /\ q[j].pic = q[k].pic /\ q[j].cur = q[k].cur - 1

OfPicture(q, p) == {k \in DOMAIN q : q[k].pic = p.id}

Holds(q, p, n) ==
  /\ \A k \in OfPicture(q, p) : \E m \in 0 .. n - 1 : q[k] = Packet(p, m)
  /\ \A m \in 0 .. n - 1 : \E k \in OfPicture(q, p) : q[k] = Packet(p, m)
  /\ \A j, k \in OfPicture(q, p) : j # k => q[j].cur # q[k].cur

(* Packets that follow all others, each after the one before it. *)
LEMMA AppendKeepsOrder ==
  ASSUME NEW q \in Seq(PacketType), NEW w \in PacketType, Ordered(q), Linked(q),
         w.type # "STREAMPARAM" =>
           /\ \A k \in Boxed(q) :
                q[k].pic < w.pic \/ (q[k].pic = w.pic /\ q[k].cur < w.cur)
           /\ w.cur > 1 => \E k \in Boxed(q) : q[k].pic = w.pic /\ q[k].cur = w.cur - 1
  PROVE  Ordered(Append(q, w)) /\ Linked(Append(q, w))
<1> DEFINE r == Append(q, w)
           n == Len(q)
<1>1. n \in Nat /\ DOMAIN q = 1 .. n /\ DOMAIN r = 1 .. n + 1 /\ r[n + 1] = w
      /\ \A k \in 1 .. n : r[k] = q[k]
  BY AppendProperties, LenProperties
<1> HIDE DEF r, n
<1>2. /\ \A k \in Boxed(q) : k \in 1 .. n /\ k \in Boxed(r) /\ r[k] = q[k]
      /\ \A k \in Boxed(r) : k \in Boxed(q) \/ (k = n + 1 /\ r[k] = w
                                                /\ w.type # "STREAMPARAM")
  BY <1>1 DEF Boxed
<1>3. ASSUME NEW j \in Boxed(r), NEW k \in Boxed(r), j < k
      PROVE  r[j].pic < r[k].pic \/ (r[j].pic = r[k].pic /\ r[j].cur < r[k].cur)
  <2>1. j \in Boxed(q)
    <3> SUFFICES ASSUME j = n + 1 PROVE FALSE
      BY <1>2
    <3>1. k \in 1 .. n + 1
      BY <1>1, <1>2
    <3>. QED BY <1>1, <1>3, <3>1
  <2>2. CASE k \in Boxed(q)
    BY <1>2, <1>3, <2>1, <2>2 DEF Ordered
  <2>3. CASE r[k] = w /\ w.type # "STREAMPARAM"
    <3>1. q[j].pic < w.pic \/ (q[j].pic = w.pic /\ q[j].cur < w.cur)
      BY <2>1, <2>3
    <3>. QED BY <1>2, <2>1, <2>3, <3>1, Zenon
  <2>. QED BY <1>2, <2>2, <2>3
<1>4. ASSUME NEW k \in Boxed(r), r[k].cur > 1
      PROVE  \E j \in Boxed(r) : j < k /\ r[j].pic = r[k].pic /\ r[j].cur = r[k].cur - 1
  <2>1. CASE k \in Boxed(q)
    <3>1. r[k] = q[k]
      BY <1>2, <2>1
    <3>2. PICK j \in Boxed(q) : j < k /\ q[j].pic = q[k].pic /\ q[j].cur = q[k].cur - 1
      BY <1>4, <2>1, <3>1 DEF Linked
    <3>3. j \in Boxed(r) /\ r[j] = q[j]
      BY <1>2, <3>2
    <3>. QED BY <3>1, <3>2, <3>3
  <2>2. CASE k = n + 1 /\ r[k] = w /\ w.type # "STREAMPARAM"
    <3>1. PICK j \in Boxed(q) : q[j].pic = w.pic /\ q[j].cur = w.cur - 1
      BY <1>4, <2>2
    <3>2. j \in Boxed(r) /\ r[j] = q[j] /\ j \in 1 .. n
      BY <1>2, <3>1
    <3>3. j < k
      BY <1>1, <2>2, <3>2
    <3>. QED BY <2>2, <3>1, <3>2, <3>3
  <2>. QED BY <1>2, <2>1, <2>2
<1>5. Ordered(r)
  BY <1>3 DEF Ordered
<1>6. Linked(r)
  BY <1>4 DEF Linked
<1>. QED BY <1>5, <1>6 DEF r

(* A packet of nothing else leaves those of a picture as they are. *)
LEMMA OthersKeepHolds ==
  ASSUME NEW q \in Seq(PacketType), NEW w \in PacketType, NEW p, NEW n,
         Holds(q, p, n), w.pic # p.id
  PROVE  Holds(Append(q, w), p, n)
<1> DEFINE r == Append(q, w)
<1>1. Len(q) \in Nat /\ DOMAIN q = 1 .. Len(q) /\ DOMAIN r = 1 .. Len(q) + 1
      /\ r[Len(q) + 1] = w /\ \A k \in 1 .. Len(q) : r[k] = q[k]
  BY AppendProperties, LenProperties
<1> HIDE DEF r
<1>2. OfPicture(r, p) = OfPicture(q, p)
  BY <1>1 DEF OfPicture
<1>3. \A k \in OfPicture(q, p) : r[k] = q[k]
  BY <1>1 DEF OfPicture
<1>4. Holds(r, p, n)
  BY <1>2, <1>3, Zenon DEF Holds
<1>. QED BY <1>4 DEF r

(* The next packet of a picture. *)
LEMMA NextKeepsHolds ==
  ASSUME NEW q \in Seq(PacketType), NEW p \in [id : 0 .. MaxPics, num : Nums \cup {0}],
         NEW n \in Nat, Holds(q, p, n), p.num = 0 => n = 0
  PROVE  Holds(Append(q, Packet(p, n)), p, n + 1)
<1> DEFINE w == Packet(p, n)
           r == Append(q, w)
<1>1. w \in PacketType
  BY PacketTyped
<1>2. w.pic = p.id /\ (p.num # 0 => w.cur = n + 1)
  BY DEF Packet
<1>3. \A m \in Nat : p.num # 0 => Packet(p, m).cur = m + 1
  BY DEF Packet
<1> HIDE DEF w
<1>4. Len(q) \in Nat /\ DOMAIN q = 1 .. Len(q) /\ DOMAIN r = 1 .. Len(q) + 1
      /\ r[Len(q) + 1] = w /\ \A k \in 1 .. Len(q) : r[k] = q[k]
  BY <1>1, AppendProperties, LenProperties
<1> HIDE DEF r
<1> DEFINE l == Len(q) + 1
<1>5. /\ \A k \in OfPicture(q, p) : k \in OfPicture(r, p) /\ r[k] = q[k] /\ k # l
      /\ l \in OfPicture(r, p) /\ r[l] = w
      /\ \A k \in OfPicture(r, p) : k \in OfPicture(q, p) \/ k = l
  BY <1>2, <1>4 DEF OfPicture
<1> HIDE DEF l
<1>6. \A m \in 0 .. n : m \in 0 .. n - 1 \/ m = n
  OBVIOUS
<1>7. n \in 0 .. n /\ \A m \in 0 .. n - 1 : m \in 0 .. n /\ m \in Nat
  OBVIOUS
<1>8. ASSUME NEW k \in OfPicture(r, p) PROVE \E m \in 0 .. n : r[k] = Packet(p, m)
  <2>1. CASE k \in OfPicture(q, p)
    <3>1. PICK m \in 0 .. n - 1 : q[k] = Packet(p, m)
      BY <2>1, Zenon DEF Holds
    <3>2. r[k] = q[k]
      BY <1>5, <2>1
    <3>. QED BY <1>7, <3>1, <3>2, Zenon
  <2>2. CASE k = l
    BY <1>5, <1>7, <2>2, Zenon DEF w
  <2>. QED BY <1>5, <2>1, <2>2, Zenon
<1>9. \A m \in 0 .. n : \E k \in OfPicture(r, p) : r[k] = Packet(p, m)
  BY <1>5, <1>6, Zenon DEF Holds, w
<1>10. ASSUME NEW k \in OfPicture(q, p) PROVE q[k].cur # w.cur
  <2>1. PICK m \in 0 .. n - 1 : q[k] = Packet(p, m)
    BY Zenon DEF Holds
  <2>2. p.num # 0
    BY <2>1
  <2>3. q[k].cur = m + 1
    BY <1>3, <1>7, <2>1, <2>2
  <2>. QED BY <1>2, <2>1, <2>2, <2>3
<1>11. ASSUME NEW j \in OfPicture(r, p), NEW k \in OfPicture(r, p), j # k
       PROVE  r[j].cur # r[k].cur
  <2>1. CASE j \in OfPicture(q, p) /\ k \in OfPicture(q, p)
    <3>1. q[j].cur # q[k].cur /\ r[j] = q[j] /\ r[k] = q[k]
      BY <1>5, <1>11, <2>1, Zenon DEF Holds
    <3>. QED BY <3>1, Zenon
  <2>2. CASE j \in OfPicture(q, p) /\ k = l
    <3>1. q[j].cur # w.cur /\ r[j] = q[j] /\ r[k] = w
      BY <1>5, <1>10, <2>2, Zenon
    <3>. QED BY <3>1, Zenon
  <2>3. CASE j = l /\ k \in OfPicture(q, p)
    <3>1. q[k].cur # w.cur /\ r[k] = q[k] /\ r[j] = w
      BY <1>5, <1>10, <2>3, Zenon
    <3>. QED BY <3>1, Zenon
  <2>. QED BY <1>5, <1>11, <2>1, <2>2, <2>3, Zenon
<1>12. 0 .. (n + 1) - 1 = 0 .. n
  OBVIOUS
<1>13. Holds(r, p, n + 1)
  BY <1>8, <1>9, <1>11, <1>12, Zenon DEF Holds
<1>. QED BY <1>13 DEF r, w

(* All packets of a picture are the whole of it. *)
LEMMA AllIsWhole ==
  ASSUME NEW q, NEW p \in [id : 0 .. MaxPics, num : Nums \cup {0}], NEW n \in Nat,
         Holds(q, p, n), n = IF p.num = 0 THEN 1 ELSE PacketNum(p.num)
  PROVE  LET mine == OfPicture(q, p)
         IN  /\ mine # {}
             /\ \A b \in 0 .. p.num - 1 : \E k \in mine : b \in BoxesOf(q[k])
             /\ \A k \in mine :
                  /\ BoxesOf(q[k]) \subseteq 0 .. p.num - 1
                  /\ p.num > 0 => q[k].boxes > 0
                  /\ q[k].cur <= q[k].tot
                  /\ \A m \in 1 .. q[k].tot : \E j \in mine : q[j].cur = m
                  /\ \A j \in mine \ {k} :
                       q[j].cur # q[k].cur /\ BoxesOf(q[j]) \cap BoxesOf(q[k]) = {}
<1> DEFINE mine == OfPicture(q, p)
           size == PER_PACKET
           num == p.num
           last == LastPacket(num)
<1>1. size \in Nat \ {0} /\ num \in Nat
  <2>1. Nums \subseteq Nat /\ num \in Nums \cup {0} /\ 0 \in Nat
    BY ConstantsAssumption
  <2>. QED BY <2>1, ConstantsAssumption, Zenon
<1>2. n >= 1 /\ (num # 0 => last \in 1 .. size /\ num = (n - 1) * size + last)
  <2>1. CASE num = 0
    BY <2>1
  <2>2. CASE num # 0
    <3>1. num \in Nat \ {0} /\ n = PacketNum(num)
      BY <1>1, <2>2
    <3>2. n \in Nat \ {0} /\ last \in 1 .. size /\ num = (n - 1) * size + last
      BY <3>1, PacketSplit
    <3>. QED BY <3>2
  <2>. QED BY <2>1, <2>2
<1>3. /\ \A k \in mine : \E m \in 0 .. n - 1 : q[k] = Packet(p, m)
      /\ \A m \in 0 .. n - 1 : \E k \in mine : q[k] = Packet(p, m)
      /\ \A j, k \in mine : j # k => q[j].cur # q[k].cur
  BY DEF Holds
<1>4. ASSUME NEW m \in 0 .. n - 1
      PROVE  /\ num = 0 => Packet(p, m).cur = 1 /\ Packet(p, m).tot = 1
                           /\ Packet(p, m).boxes = 0 /\ Packet(p, m).first = 0
             /\ num # 0 => /\ Packet(p, m).cur = m + 1 /\ Packet(p, m).tot = n
                           /\ Packet(p, m).first = m * size
                           /\ Packet(p, m).boxes = IF m = n - 1 THEN last ELSE size
  <2>1. CASE num = 0
    BY <2>1 DEF Packet
  <2>2. CASE num # 0
    <3>1. n = PacketNum(num)
      BY <2>2
    <3>2. /\ Packet(p, m).cur = m + 1 /\ Packet(p, m).tot = PacketNum(num)
          /\ Packet(p, m).first = FirstBox(num, m)
          /\ Packet(p, m).boxes = BoxesIn(num, m)
      BY <2>2 DEF Packet
    <3>3. BoxesIn(num, m) = IF m = n - 1 THEN last ELSE size
      BY <3>1 DEF BoxesIn
    <3>4. FirstBox(num, m) = IF m = n - 1 THEN num - last ELSE m * size
      BY <3>1 DEF FirstBox
    <3>5. num - last = (n - 1) * size
      <4> DEFINE x == (n - 1) * size
      <4>1. x \in Int
        BY <1>1
      <4>2. num = x + last /\ last \in Int
        BY <1>2, <2>2
      <4> HIDE DEF x, num, last
      <4>3. num - last = x
        BY <4>1, <4>2
      <4>. QED BY <4>3 DEF x
    <3>6. FirstBox(num, m) = m * size
      BY <3>4, <3>5, Zenon
    <3>. QED BY <2>2, <3>1, <3>2, <3>3, <3>6, Zenon
  <2>. QED BY <2>1, <2>2
<1> HIDE DEF mine, last, num
<1>5. ASSUME NEW m \in 0 .. n - 1, num # 0
      PROVE  /\ BoxesOf(Packet(p, m)) \subseteq 0 .. num - 1
             /\ BoxesOf(Packet(p, m)) \subseteq m * size .. m * size + size - 1
             /\ BoxesOf(Packet(p, m)) = m * size ..
                  m * size + (IF m = n - 1 THEN last ELSE size) - 1
  <2> DEFINE w == Packet(p, m)
  <2>1. w.first = m * size /\ w.boxes = IF m = n - 1 THEN last ELSE size
    BY <1>4, <1>5
  <2> HIDE DEF w
  <2>2. last \in 1 .. size /\ num = (n - 1) * size + last
    BY <1>2, <1>5
  <2>3. BoxesOf(w) = m * size .. m * size + (IF m = n - 1 THEN last ELSE size) - 1
    BY <2>1 DEF BoxesOf
  <2> DEFINE x == m * size
             y == (n - 1) * size
             least == IF m = n - 1 THEN last ELSE size
  <2>4. x \in Nat /\ y \in Nat
    <3>1. \A a, b \in Nat : a * b \in Nat
      OBVIOUS
    <3>2. m \in Nat /\ n - 1 \in Nat /\ size \in Nat
      BY <1>1, <1>2
    <3>. QED BY <3>1, <3>2, Zenon
  <2>5. least <= size /\ least \in Int
    BY <1>1, <2>2
  <2>6. m # n - 1 => x + size <= y
    <3> SUFFICES ASSUME m # n - 1 PROVE x + size <= y
      OBVIOUS
    <3>1. m + 1 <= n - 1 /\ m + 1 \in Nat /\ n - 1 \in Nat
      OBVIOUS
    <3>2. (m + 1) * size <= (n - 1) * size
      BY <1>1, <3>1
    <3>3. (m + 1) * size = m * size + size
      BY <1>1
    <3>. QED BY <3>2, <3>3
  <2>7. m = n - 1 => x = y /\ least = last
    OBVIOUS
  <2>8. m # n - 1 => least = size
    OBVIOUS
  <2>9. num = y + last /\ BoxesOf(w) = x .. x + least - 1
    BY <2>2, <2>3
  <2> HIDE DEF x, y, least
  <2>10. x + least <= num
    BY <1>1, <2>2, <2>4, <2>5, <2>6, <2>7, <2>8, <2>9
  <2>11. BoxesOf(w) \subseteq 0 .. num - 1
    BY <1>1, <2>4, <2>5, <2>9, <2>10
  <2>12. BoxesOf(w) \subseteq x .. x + size - 1
    BY <1>1, <2>4, <2>5, <2>9
  <2>. QED BY <2>9, <2>11, <2>12 DEF w, x, least
<1>6. mine # {}
  <2>1. 0 \in 0 .. n - 1
    BY <1>2
  <2>. QED BY <1>3, <2>1
<1>7. ASSUME NEW b \in 0 .. num - 1 PROVE \E k \in mine : b \in BoxesOf(q[k])
  <2>1. b \in Nat /\ num # 0
    BY <1>1
  <2> DEFINE m == b \div size
             o == b % size
  <2>2. m \in Int /\ o \in 0 .. size - 1 /\ b = size * m + o
    BY <1>1, <2>1, DivMod
  <2> HIDE DEF m, o
  <2>3. last \in 1 .. size /\ num = (n - 1) * size + last
    BY <1>2, <2>1
  <2>4. m >= 0
    <3> SUFFICES ASSUME m <= -1 PROVE FALSE
      BY <2>2
    <3>1. size * m <= -size
      BY <1>1, <2>2
    <3>. QED BY <1>1, <2>1, <2>2, <3>1
  <2>5. m <= n - 1
    <3> SUFFICES ASSUME m >= n PROVE FALSE
      BY <2>2
    <3>1. size * m >= size * n
      BY <1>1, <2>2
    <3>2. size * n = (n - 1) * size + size /\ (n - 1) * size \in Int /\ size * m \in Int
      BY <1>1, <2>2
    <3>3. size * m >= num
      BY <1>1, <2>3, <3>1, <3>2
    <3>4. b <= num - 1 /\ num \in Int
      BY <1>1
    <3>. QED BY <2>1, <2>2, <3>2, <3>3, <3>4
  <2>6. m \in 0 .. n - 1
    BY <2>2, <2>4, <2>5
  <2>7. b \in BoxesOf(Packet(p, m))
    <3>1. BoxesOf(Packet(p, m)) = m * size ..
            m * size + (IF m = n - 1 THEN last ELSE size) - 1
      BY <1>5, <2>1, <2>6
    <3>2. m * size = size * m /\ size * m \in Int
      BY <1>1, <2>2
    <3>3. m = n - 1 => b <= m * size + last - 1
      <4>1. b <= num - 1 /\ num \in Int /\ last \in Int
        BY <1>1, <2>3
      <4>. QED BY <2>1, <2>3, <3>2, <4>1
    <3>. QED BY <1>1, <2>1, <2>2, <2>3, <3>1, <3>2, <3>3
  <2>8. PICK k \in mine : q[k] = Packet(p, m)
    BY <1>3, <2>6
  <2>. QED BY <2>7, <2>8, Zenon
<1>8. ASSUME NEW k \in mine
      PROVE  /\ BoxesOf(q[k]) \subseteq 0 .. num - 1
             /\ num > 0 => q[k].boxes > 0
             /\ q[k].cur <= q[k].tot
             /\ \A m \in 1 .. q[k].tot : \E j \in mine : q[j].cur = m
             /\ \A j \in mine \ {k} :
                  q[j].cur # q[k].cur /\ BoxesOf(q[j]) \cap BoxesOf(q[k]) = {}
  <2>1. PICK m \in 0 .. n - 1 : q[k] = Packet(p, m)
    BY <1>3
  <2>2. CASE num = 0
    <3>1. q[k].cur = 1 /\ q[k].tot = 1 /\ q[k].boxes = 0 /\ q[k].first = 0
      BY <1>4, <2>1, <2>2
    <3>2. BoxesOf(q[k]) = {}
      BY <3>1 DEF BoxesOf
    <3>3. \A j \in mine \ {k} : q[j].cur # q[k].cur
      BY <1>3
    <3>. QED BY <2>2, <3>1, <3>2, <3>3
  <2>3. CASE num # 0
    <3>1. q[k].cur = m + 1 /\ q[k].tot = n
          /\ q[k].boxes = IF m = n - 1 THEN last ELSE size
      BY <1>4, <2>1, <2>3
    <3>2. q[k].boxes > 0 /\ q[k].cur <= q[k].tot
      BY <1>1, <1>2, <2>3, <3>1
    <3>3. BoxesOf(q[k]) \subseteq 0 .. num - 1
      BY <1>5, <2>1, <2>3
    <3>4. ASSUME NEW c \in 1 .. q[k].tot PROVE \E j \in mine : q[j].cur = c
      <4>1. c - 1 \in 0 .. n - 1 /\ (c - 1) + 1 = c
        BY <3>1
      <4>2. PICK j \in mine : q[j] = Packet(p, c - 1)
        BY <1>3, <4>1
      <4>3. Packet(p, c - 1).cur = (c - 1) + 1
        BY <1>4, <2>3, <4>1
      <4>. QED BY <4>1, <4>2, <4>3
    <3>5. ASSUME NEW j \in mine \ {k}
          PROVE  q[j].cur # q[k].cur /\ BoxesOf(q[j]) \cap BoxesOf(q[k]) = {}
      <4>1. q[j].cur # q[k].cur
        BY <1>3
      <4>2. PICK o \in 0 .. n - 1 : q[j] = Packet(p, o)
        BY <1>3
      <4>3. o # m
        BY <2>1, <4>1, <4>2
      <4>4. /\ BoxesOf(q[j]) \subseteq o * size .. o * size + size - 1
            /\ BoxesOf(q[k]) \subseteq m * size .. m * size + size - 1
        BY <1>5, <2>1, <2>3, <4>2
      <4>5. o * size + size <= m * size \/ m * size + size <= o * size
        <5>1. \A a, b \in Nat : a < b => a * size + size <= b * size
          <6> SUFFICES ASSUME NEW a \in Nat, NEW b \in Nat, a < b
                       PROVE  a * size + size <= b * size
            OBVIOUS
          <6>1. (a + 1) * size <= b * size /\ (a + 1) * size = a * size + size
            BY <1>1
          <6>. QED BY <6>1
        <5>2. o \in Nat /\ m \in Nat /\ (o < m \/ m < o)
          BY <4>3
        <5>. QED BY <5>1, <5>2
      <4>6. o * size \in Int /\ m * size \in Int
        BY <1>1
      <4>7. ASSUME NEW b \in BoxesOf(q[j]), b \in BoxesOf(q[k]) PROVE FALSE
        <5>1. b \in o * size .. o * size + size - 1 /\ b \in m * size .. m * size + size - 1
          BY <4>4, <4>7
        <5>. QED BY <1>1, <4>5, <4>6, <5>1
      <4>. QED BY <4>1, <4>7
    <3>. QED BY <3>2, <3>3, <3>4, <3>5
  <2>. QED BY <2>2, <2>3
<1>. QED BY <1>6, <1>7, <1>8 DEF mine, num

-----------------------------------------------------------------------------
(* The pictures on their way: while sendBox is at a picture, its first i   *)
(* packets went to the client that was there when it was called, if that   *)
(* one is still there; another in its place is mixed.                      *)

HistoryInv == \A c \in Clients \ mixed : Ordered(received[c]) /\ Linked(received[c])

PicsInv == \A c \in Clients : \A k \in DOMAIN received[c] : received[c][k].pic <= pic.id

CountInv ==
  /\ begun <= client
  /\ sendPc # "idle" =>
       /\ pic.id > 0
       /\ pic.num = 0 => sendPc = "write" /\ i = 0
       /\ pic.num # 0 => i <= PacketNum(pic.num)
       /\ pic.num # 0 /\ sendPc = "write" => i < PacketNum(pic.num)

HereInv == sendPc # "idle" /\ line = "open" => begun = client \/ client \in mixed

MineInv ==
  sendPc # "idle" /\ line = "open" /\ begun = client => Holds(received[client], pic, i)

PictureInv == HistoryInv /\ PicsInv /\ CountInv /\ HereInv /\ MineInv

LEMMA InitPicture == Init => PictureInv
<1> SUFFICES ASSUME Init PROVE PictureInv
  OBVIOUS
<1>1. \A c \in Clients : received[c] = <<>>
  BY DEF Init
<1>2. HistoryInv /\ PicsInv
  BY <1>1 DEF HistoryInv, PicsInv, Ordered, Linked, Boxed
<1>. QED BY <1>2 DEF Init, PictureInv, CountInv, HereInv, MineInv

(* Steps that write nothing and leave sendBox where it is. *)
LEMMA QuietStep ==
  ASSUME PictureInv, UNCHANGED <<sendPc, pic, i, begun, client, mixed, received>>,
         line' = "open" => line = "open"
  PROVE  PictureInv'
<1> USE DEF PictureInv
<1>1. HistoryInv'
  BY DEF HistoryInv
<1>2. PicsInv'
  BY DEF PicsInv
<1>3. CountInv'
  BY DEF CountInv
<1>4. HereInv'
  BY DEF HereInv
<1>5. MineInv'
  BY DEF MineInv
<1>. QED BY <1>1, <1>2, <1>3, <1>4, <1>5

(* What a write adds to what clients have received. *)
LEMMA WriteAppends ==
  ASSUME TypeOK, LineInv, NEW w \in PacketType, Write(w)
  PROVE  /\ line' = "open" => line = "open"
         /\ line # "open" => received' = received
         /\ line = "open" =>
              /\ client \in Clients
              /\ received[client] \in Seq(PacketType)
              /\ received'[client] = Append(received[client], w)
              /\ \A c \in Clients : c # client => received'[c] = received[c]
<1>1. received \in [Clients -> Seq(PacketType)] /\ line \in {"none", "open", "left", "reset"}
  BY DEF TypeOK
<1>2. line = "open" => client \in Clients
  BY DEF LineInv
<1>. QED BY <1>1, <1>2 DEF Write

(* No packet a client has is of a later picture. *)
LEMMA PicsGrow ==
  ASSUME NEW q \in Seq(PacketType), NEW w \in PacketType, NEW n \in Nat,
         \A k \in DOMAIN q : q[k].pic <= n, w.pic <= n
  PROVE  \A k \in DOMAIN Append(q, w) : Append(q, w)[k].pic <= n
<1> DEFINE r == Append(q, w)
<1>1. Len(q) \in Nat /\ DOMAIN q = 1 .. Len(q) /\ DOMAIN r = 1 .. Len(q) + 1
      /\ r[Len(q) + 1] = w /\ \A k \in 1 .. Len(q) : r[k] = q[k]
  BY AppendProperties, LenProperties
<1> HIDE DEF r
<1>2. \A k \in DOMAIN r : k \in DOMAIN q \/ k = Len(q) + 1
  BY <1>1
<1>3. \A k \in DOMAIN r : r[k].pic <= n
  BY <1>1, <1>2
<1>. QED BY <1>3 DEF r

(* A STREAMPARAM answer between the packets of a picture. *)
LEMMA InfoStep ==
  ASSUME IInv, PictureInv, Write(Info), UNCHANGED <<sendPc, pic, i, begun, client, mixed>>
  PROVE  PictureInv'
<1> USE DEF PictureInv
<1>1. TypeOK /\ LineInv
  BY DEF IInv
<1>2. Info \in PacketType /\ Info.type = "STREAMPARAM" /\ Info.pic = 0
  BY InfoTyped DEF Info
<1>3. /\ line' = "open" => line = "open"
      /\ line # "open" => received' = received
      /\ line = "open" =>
           /\ client \in Clients
           /\ received[client] \in Seq(PacketType)
           /\ received'[client] = Append(received[client], Info)
           /\ \A c \in Clients : c # client => received'[c] = received[c]
  BY <1>1, <1>2, WriteAppends
<1>4. CASE line # "open"
  BY <1>3, <1>4, QuietStep
<1>5. CASE line = "open"
  <2> DEFINE q == received[client]
  <2>1. /\ client \in Clients /\ q \in Seq(PacketType)
        /\ received'[client] = Append(q, Info)
        /\ \A c \in Clients : c # client => received'[c] = received[c]
    BY <1>3, <1>5
  <2>2. pic.id \in Nat
    BY <1>1 DEF TypeOK
  <2> HIDE DEF q
  <2>3. HistoryInv'
    <3> SUFFICES ASSUME NEW c \in Clients \ mixed
                 PROVE  Ordered(received'[c]) /\ Linked(received'[c])
      BY DEF HistoryInv
    <3>1. CASE c # client
      BY <2>1, <3>1 DEF HistoryInv
    <3>2. CASE c = client
      <4>1. Ordered(q) /\ Linked(q)
        BY <3>2 DEF HistoryInv, q
      <4>2. Ordered(Append(q, Info)) /\ Linked(Append(q, Info))
        BY <1>2, <2>1, <4>1, AppendKeepsOrder
      <4>. QED BY <2>1, <3>2, <4>2
    <3>. QED BY <3>1, <3>2
  <2>4. PicsInv'
    <3>1. \A k \in DOMAIN q : q[k].pic <= pic.id
      BY <2>1 DEF PicsInv, q
    <3>2. \A k \in DOMAIN Append(q, Info) : Append(q, Info)[k].pic <= pic.id
      BY <1>2, <2>1, <2>2, <3>1, PicsGrow
    <3> SUFFICES ASSUME NEW c \in Clients, NEW k \in DOMAIN received'[c]
                 PROVE  received'[c][k].pic <= pic.id
      BY DEF PicsInv
    <3>3. CASE c # client
      BY <2>1, <3>3 DEF PicsInv
    <3>4. CASE c = client
      BY <2>1, <3>2, <3>4
    <3>. QED BY <3>3, <3>4
  <2>5. CountInv'
    BY DEF CountInv
  <2>6. HereInv'
    BY <1>3 DEF HereInv
  <2>7. MineInv'
    <3> SUFFICES ASSUME sendPc # "idle", begun = client
                 PROVE  Holds(received'[client], pic, i)
      BY DEF MineInv
    <3>1. Holds(q, pic, i)
      BY <1>5 DEF MineInv, q
    <3>2. Info.pic # pic.id
      BY <1>2 DEF CountInv
    <3>. QED BY <1>2, <2>1, <3>1, <3>2, OthersKeepHolds
  <2>. QED BY <2>3, <2>4, <2>5, <2>6, <2>7
<1>. QED BY <1>4, <1>5

(* Obeying a request writes at most that answer. *)
LEMMA ObeyStep ==
  ASSUME IInv, PictureInv, NEW kind, Obey(kind),
         UNCHANGED <<sendPc, pic, i, begun, client, mixed>>
  PROVE  PictureInv'
<1>1. CASE kind = "STREAMPARAM"
  <2>1. Write(Info)
    BY <1>1, Zenon DEF Obey
  <2>. QED BY <2>1, InfoStep
<1>2. CASE kind # "STREAMPARAM"
  <2>1. UNCHANGED <<line, received>>
    BY <1>2, Zenon DEF Obey
  <2>. QED BY <2>1, QuietStep
<1>. QED BY <1>1, <1>2

(* sendBox writes the next packet of its picture. *)
LEMMA PacketStep == IInv /\ PictureInv /\ SendWrite => PictureInv'
<1> SUFFICES ASSUME IInv, PictureInv, SendWrite PROVE PictureInv'
  OBVIOUS
<1> USE DEF PictureInv
<1> DEFINE w == Packet(pic, i)
           q == received[client]
<1>1. TypeOK /\ LineInv
  BY DEF IInv
<1>2. /\ sendPc = "write" /\ Write(w)
      /\ IF pic.num = 0 \/ ~Written THEN sendPc' = "idle" /\ i' = i
                                    ELSE sendPc' = "loop" /\ i' = i + 1
      /\ UNCHANGED <<client, pic, begun, mixed>>
  BY Zenon DEF SendWrite, serverVars
<1>3. /\ pic \in [id : 0 .. MaxPics, num : Nums \cup {0}] /\ i \in Nat
      /\ pic.id \in Nat
  BY <1>1 DEF TypeOK
<1>4. w \in PacketType
  BY <1>3, PacketTyped
<1>5. /\ line' = "open" => line = "open"
      /\ line # "open" => received' = received
      /\ line = "open" =>
           /\ client \in Clients /\ q \in Seq(PacketType)
           /\ received'[client] = Append(q, w)
           /\ \A c \in Clients : c # client => received'[c] = received[c]
  BY <1>1, <1>2, <1>4, WriteAppends
<1>6. /\ w.pic = pic.id /\ (pic.num = 0 => w.cur = 1)
      /\ pic.num # 0 => w.cur = i + 1
      /\ \A m \in Nat : Packet(pic, m).cur = IF pic.num = 0 THEN 1 ELSE m + 1
  BY DEF Packet
<1> HIDE DEF w, q
<1>7. CountInv'
  <2>1. pic.num # 0 => PacketNum(pic.num) \in Nat
    <3> SUFFICES ASSUME pic.num # 0 PROVE PacketNum(pic.num) \in Nat
      OBVIOUS
    <3>1. pic.num \in Nat \ {0}
      BY <1>3, ConstantsAssumption
    <3>. QED BY <3>1, PacketSplit
  <2>. QED BY <1>2, <1>3, <2>1 DEF CountInv
<1>8. HereInv'
  BY <1>2, <1>5 DEF HereInv
<1>9. HistoryInv'
  <2> SUFFICES ASSUME NEW c \in Clients \ mixed
               PROVE  Ordered(received'[c]) /\ Linked(received'[c])
    BY <1>2 DEF HistoryInv
  <2>1. CASE c # client \/ line # "open"
    BY <1>5, <2>1 DEF HistoryInv
  <2>2. CASE c = client /\ line = "open"
    <3>1. Ordered(q) /\ Linked(q)
      BY <2>2 DEF HistoryInv, q
    <3>2. begun = client
      BY <1>2, <2>2 DEF HereInv
    <3>3. Holds(q, pic, i)
      BY <1>2, <2>2, <3>2 DEF MineInv, q
    <3>4. ASSUME NEW k \in Boxed(q)
          PROVE  q[k].pic < w.pic \/ (q[k].pic = w.pic /\ q[k].cur < w.cur)
      <4>1. k \in DOMAIN q /\ q[k].pic <= pic.id /\ q[k].pic \in Nat
        <5>1. k \in DOMAIN q /\ client \in Clients /\ q \in Seq(PacketType)
          BY <1>5, <2>2 DEF Boxed
        <5>2. q[k] \in PacketType
          BY <5>1, ElementOfSeq, LenProperties
        <5>3. q[k].pic \in Nat
          BY <5>2 DEF PacketType
        <5>. QED BY <5>1, <5>3 DEF PicsInv, q
      <4>2. CASE q[k].pic = pic.id
        <5>1. PICK m \in 0 .. i - 1 : q[k] = Packet(pic, m)
          BY <3>3, <4>1, <4>2 DEF Holds, OfPicture
        <5>2. pic.num # 0
          BY <1>2, <5>1 DEF CountInv
        <5>3. q[k].cur = m + 1
          BY <1>6, <5>1, <5>2
        <5>. QED BY <1>3, <1>6, <4>2, <5>1, <5>2, <5>3
      <4>. QED BY <1>3, <1>6, <4>1, <4>2
    <3>5. ASSUME w.cur > 1
          PROVE  \E k \in Boxed(q) : q[k].pic = w.pic /\ q[k].cur = w.cur - 1
      <4>1. pic.num # 0 /\ w.cur = i + 1 /\ i - 1 \in 0 .. i - 1 /\ i - 1 \in Nat
        BY <1>3, <1>6, <3>5
      <4>2. PICK k \in OfPicture(q, pic) : q[k] = Packet(pic, i - 1)
        BY <3>3, <4>1 DEF Holds
      <4>3. q[k].type # "STREAMPARAM"
        BY <4>1, <4>2 DEF Packet
      <4>4. q[k].cur = (i - 1) + 1
        BY <1>6, <4>1, <4>2
      <4>. QED BY <1>3, <1>6, <4>1, <4>2, <4>3, <4>4 DEF Boxed, OfPicture
    <3>6. q \in Seq(PacketType) /\ received'[client] = Append(q, w)
      BY <1>5, <2>2
    <3>7. Ordered(Append(q, w)) /\ Linked(Append(q, w))
      BY <1>4, <3>1, <3>4, <3>5, <3>6, AppendKeepsOrder
    <3>. QED BY <2>2, <3>6, <3>7
  <2>. QED BY <2>1, <2>2
<1>10. PicsInv'
  <2> SUFFICES ASSUME NEW c \in Clients, NEW k \in DOMAIN received'[c]
               PROVE  received'[c][k].pic <= pic.id
    BY <1>2 DEF PicsInv
  <2>1. CASE c # client \/ line # "open"
    BY <1>5, <2>1 DEF PicsInv
  <2>2. CASE c = client /\ line = "open"
    <3>1. q \in Seq(PacketType) /\ received'[client] = Append(q, w)
      BY <1>5, <2>2
    <3>2. \A l \in DOMAIN q : q[l].pic <= pic.id
      BY <2>2 DEF PicsInv, q
    <3>3. w.pic <= pic.id
      BY <1>3, <1>6
    <3>4. \A l \in DOMAIN Append(q, w) : Append(q, w)[l].pic <= pic.id
      BY <1>3, <1>4, <3>1, <3>2, <3>3, PicsGrow
    <3>. QED BY <2>2, <3>1, <3>4
  <2>. QED BY <2>1, <2>2
<1>11. MineInv'
  <2> SUFFICES ASSUME sendPc' # "idle", line' = "open", begun = client
               PROVE  Holds(received'[client], pic, i')
    BY <1>2 DEF MineInv
  <2>1. line = "open" /\ i' = i + 1 /\ pic.num # 0
    BY <1>2, <1>5
  <2>2. Holds(q, pic, i)
    BY <1>2, <2>1 DEF MineInv, q
  <2>3. q \in Seq(PacketType) /\ received'[client] = Append(q, w)
    BY <1>5, <2>1
  <2>4. Holds(Append(q, Packet(pic, i)), pic, i + 1)
    BY <1>3, <2>1, <2>2, <2>3, NextKeepsHolds
  <2>. QED BY <2>1, <2>3, <2>4 DEF w
<1>. QED BY <1>7, <1>8, <1>9, <1>10, <1>11

LEMMA NextPicture == IInv /\ PictureInv /\ [Next]_vars => PictureInv'
<1> SUFFICES ASSUME IInv, PictureInv, [Next]_vars PROVE PictureInv'
  OBVIOUS
<1>1. TypeOK /\ LineInv
  BY DEF IInv
<1>2. /\ client \in Nat /\ begun \in Nat /\ pic.id \in Nat
      /\ client \in 0 .. MaxClients
      /\ received \in [Clients -> Seq(PacketType)]
  BY <1>1, ConstantsAssumption DEF TypeOK
<1>3. CASE Top \/ Close \/ AcceptFails \/ Cleared \/ ReadHalf \/ ReadEnds \/ Arrive
           \/ Leave \/ UNCHANGED vars \/ \E kind \in Kinds : Ask(kind)
  <2>1. UNCHANGED <<sendPc, pic, i, begun, client, mixed, received>>
        /\ (line' = "open" => line = "open")
    BY <1>3 DEF Top, Close, AcceptFails, Cleared, ReadHalf, ReadEnds, Arrive,
                Leave, Ask, vars, serverVars, senderVars, asking
  <2>. QED BY <2>1, QuietStep
<1>4. CASE ReadRequest \/ ReadAcross
  <2>1. UNCHANGED <<sendPc, pic, i, begun, client, mixed>> /\ \E kind : Obey(kind)
    BY <1>4, Zenon DEF ReadRequest, ReadAcross, senderVars
  <2>. QED BY <2>1, ObeyStep
<1>5. CASE Accept
  <2> USE DEF PictureInv
  <2>1. /\ client' = client + 1 /\ line' = "open"
        /\ mixed' = mixed \cup {c \in {client + 1} : sendPc # "idle"}
        /\ UNCHANGED <<sendPc, pic, i, begun, received>>
    BY <1>5 DEF Accept, senderVars
  <2>2. HistoryInv'
    BY <2>1 DEF HistoryInv
  <2>3. PicsInv'
    BY <2>1 DEF PicsInv
  <2>4. CountInv'
    BY <1>2, <2>1 DEF CountInv
  <2>5. HereInv'
    BY <2>1 DEF HereInv
  <2>6. MineInv'
    <3>1. begun' # client'
      BY <1>2, <2>1 DEF CountInv
    <3>. QED BY <3>1 DEF MineInv
  <2>. QED BY <2>2, <2>3, <2>4, <2>5, <2>6
<1>6. CASE SendLoop
  <2> USE DEF PictureInv
  <2>1. /\ sendPc = "loop"
        /\ sendPc' = IF i < PacketNum(pic.num) /\ can_send_box THEN "write" ELSE "idle"
        /\ UNCHANGED <<client, line, mixed, pic, i, begun, received>>
    BY <1>6 DEF SendLoop, serverVars
  <2>2. HistoryInv'
    BY <2>1 DEF HistoryInv
  <2>3. PicsInv'
    BY <2>1 DEF PicsInv
  <2>4. CountInv'
    BY <2>1 DEF CountInv
  <2>5. HereInv'
    BY <2>1 DEF HereInv
  <2>6. MineInv'
    BY <2>1 DEF MineInv
  <2>. QED BY <2>2, <2>3, <2>4, <2>5, <2>6
<1>7. CASE SendWrite
  BY <1>7, PacketStep
<1>8. ASSUME NEW num \in Nums, SendCalled(num) PROVE PictureInv'
  <2> USE DEF PictureInv
  <2>1. /\ sendPc = "idle" /\ begun' = client /\ i' = 0
        /\ pic' = [id |-> pic.id + 1, num |-> num]
        /\ sendPc' = IF ~can_send_box THEN "idle" ELSE IF num = 0 THEN "write" ELSE "loop"
        /\ UNCHANGED <<client, line, mixed, received>>
    BY <1>8 DEF SendCalled, serverVars
  <2>2. pic'.id = pic.id + 1 /\ pic'.num = num /\ num \in Nat
    BY <2>1, ConstantsAssumption
  <2>3. HistoryInv'
    BY <2>1 DEF HistoryInv
  <2>4. \A c \in Clients : \A k \in DOMAIN received[c] :
          received[c][k].pic <= pic.id /\ received[c][k].pic \in Nat
    <3> SUFFICES ASSUME NEW c \in Clients, NEW k \in DOMAIN received[c]
                 PROVE  received[c][k].pic <= pic.id /\ received[c][k].pic \in Nat
      OBVIOUS
    <3>1. received[c] \in Seq(PacketType)
      BY <1>2
    <3>2. received[c][k] \in PacketType
      BY <3>1, ElementOfSeq, LenProperties
    <3>3. received[c][k].pic \in Nat
      BY <3>2 DEF PacketType
    <3>. QED BY <3>3 DEF PicsInv
  <2>5. PicsInv'
    <3> SUFFICES ASSUME NEW c \in Clients, NEW k \in DOMAIN received[c]
                 PROVE  received[c][k].pic <= pic.id + 1
      BY <2>1, <2>2 DEF PicsInv
    <3>. QED BY <1>2, <2>4
  <2>6. CountInv'
    <3>1. num # 0 => PacketNum(num) \in Nat \ {0}
      BY <2>2, PacketSplit
    <3>. QED BY <1>2, <2>1, <2>2, <3>1 DEF CountInv
  <2>7. HereInv'
    BY <2>1 DEF HereInv
  <2>8. MineInv'
    <3> SUFFICES ASSUME line = "open" PROVE Holds(received[client], pic', 0)
      BY <2>1 DEF MineInv
    <3>1. client \in Clients
      BY <1>1 DEF LineInv
    <3>2. OfPicture(received[client], pic') = {}
      BY <1>2, <2>2, <2>4, <3>1 DEF OfPicture
    <3>3. 0 .. 0 - 1 = {}
      OBVIOUS
    <3>. QED BY <3>2, <3>3 DEF Holds
  <2>. QED BY <2>3, <2>5, <2>6, <2>7, <2>8
<1>. QED
  BY <1>3, <1>4, <1>5, <1>6, <1>7, <1>8, Zenon DEF Next, Server, Reads, Sender, Client

THEOREM PicturesSafe == Spec => [](IInv /\ PictureInv)
<1>1. Init => IInv /\ PictureInv
  BY InitInv, InitPicture
<1>2. (IInv /\ PictureInv) /\ [Next]_vars => (IInv /\ PictureInv)'
  BY NextInv, NextPicture
<1>. QED BY <1>1, <1>2, PTL DEF Spec

(* For every packet size and number of boxes, a client that did not arrive *)
(* in the middle of a picture gets the packets of pictures in order and    *)
(* each from its first: whatever sendBox, receive_thread and the clients   *)
(* do in between, no packet is left out, repeated or overtaken.            *)
THEOREM RunsInOrder == Spec => []PicturesFromTheirStart
<1>1. IInv /\ PictureInv => PicturesFromTheirStart
  <2> SUFFICES ASSUME IInv, PictureInv, NEW c \in Clients \ mixed, NEW k \in BoxPackets(c)
               PROVE  LET p == received[c][k]
                          earlier == {received[c][j] : j \in {j \in BoxPackets(c) : j < k}}
                      IN  /\ \A q \in earlier : q.pic < p.pic \/ (q.pic = p.pic /\ q.cur < p.cur)
                          /\ p.cur > 1 => \E q \in earlier : q.pic = p.pic /\ q.cur = p.cur - 1
    BY Zenon DEF PicturesFromTheirStart
  <2> DEFINE s == received[c]
  <2>1. BoxPackets(c) = Boxed(s)
    BY Zenon DEF BoxPackets, Boxed
  <2>2. Ordered(s) /\ Linked(s)
    BY DEF PictureInv, HistoryInv
  <2> HIDE DEF s
  <2>3. ASSUME NEW j \in BoxPackets(c), j < k
        PROVE  s[j].pic < s[k].pic \/ (s[j].pic = s[k].pic /\ s[j].cur < s[k].cur)
    BY <2>1, <2>2, <2>3 DEF Ordered
  <2>4. ASSUME s[k].cur > 1
        PROVE  \E j \in BoxPackets(c) : j < k /\ s[j].pic = s[k].pic /\ s[j].cur = s[k].cur - 1
    BY <2>1, <2>2, <2>4 DEF Linked
  <2>. QED BY <2>3, <2>4 DEF s
<1>. QED BY PicturesSafe, <1>1, PTL

(* For every number of boxes, a client that stays while sendBox runs has   *)
(* at its return each box exactly once, in the packets announced.          *)
THEOREM PictureIsWhole == Spec => WholePicture
<1>1. ASSUME IInv, PictureInv, [Next]_vars, sendPc # "idle", sendPc' = "idle",
             can_send_box, line = "open", begun = client
      PROVE  HasWholePicture'
  <2>1. TypeOK /\ LineInv
    BY <1>1 DEF IInv
  <2>2. /\ pic \in [id : 0 .. MaxPics, num : Nums \cup {0}] /\ i \in Nat
        /\ client \in Clients /\ received[client] \in Seq(PacketType)
    BY <1>1, <2>1 DEF TypeOK, LineInv
  <2>3. Holds(received[client], pic, i)
    BY <1>1 DEF PictureInv, MineInv
  <2>4. SendLoop \/ SendWrite
    BY <1>1 DEF Next, Server, Reads, Sender, Client, Top, Close, Accept, AcceptFails,
                Cleared, ReadRequest, ReadAcross, ReadHalf, ReadEnds, SendCalled, Ask, Arrive,
                Leave, vars, serverVars, senderVars
  <2>5. client' = client /\ pic' = pic
    BY <2>4, Zenon DEF SendLoop, SendWrite, serverVars
  <2> DEFINE n == IF pic.num = 0 THEN 1 ELSE PacketNum(pic.num)
             q == received'[client]
  <2>6. n \in Nat /\ Holds(q, pic, n)
    <3>1. CASE SendLoop
      <4>1. /\ sendPc = "loop" /\ received' = received
            /\ sendPc' = IF i < PacketNum(pic.num) /\ can_send_box THEN "write" ELSE "idle"
        BY <3>1 DEF SendLoop
      <4>2. pic.num # 0 /\ i <= PacketNum(pic.num) /\ ~(i < PacketNum(pic.num))
        BY <1>1, <4>1 DEF PictureInv, CountInv
      <4>3. PacketNum(pic.num) \in Nat
        <5>1. pic.num \in Nat \ {0}
          BY <2>2, <4>2, ConstantsAssumption
        <5>. QED BY <5>1, PacketSplit
      <4>4. i = n
        BY <2>2, <4>2, <4>3
      <4>. QED BY <2>2, <2>3, <4>1, <4>4
    <3>2. CASE SendWrite
      <4>1. /\ Write(Packet(pic, i))
            /\ pic.num = 0 \/ ~Written
        BY <1>1, <3>2, Zenon DEF SendWrite
      <4>2. pic.num = 0 /\ i = 0
        BY <1>1, <4>1 DEF Written, PictureInv, CountInv
      <4>3. q = Append(received[client], Packet(pic, i))
        BY <1>1, <2>1, <2>2, <4>1, PacketTyped, WriteAppends
      <4>4. Holds(q, pic, i + 1)
        BY <2>2, <2>3, <4>2, <4>3, NextKeepsHolds
      <4>. QED BY <4>2, <4>4
    <3>. QED BY <2>4, <3>1, <3>2
  <2> HIDE DEF n
  <2>7. LET mine == OfPicture(q, pic)
        IN  /\ mine # {}
            /\ \A b \in 0 .. pic.num - 1 : \E k \in mine : b \in BoxesOf(q[k])
            /\ \A k \in mine :
                 /\ BoxesOf(q[k]) \subseteq 0 .. pic.num - 1
                 /\ pic.num > 0 => q[k].boxes > 0
                 /\ q[k].cur <= q[k].tot
                 /\ \A m \in 1 .. q[k].tot : \E j \in mine : q[j].cur = m
                 /\ \A j \in mine \ {k} :
                      q[j].cur # q[k].cur /\ BoxesOf(q[j]) \cap BoxesOf(q[k]) = {}
    BY <2>2, <2>6, AllIsWhole DEF n
  <2>8. Mine' = OfPicture(q, pic)
    BY <2>5, Zenon DEF Mine, OfPicture
  <2> HIDE DEF q
  <2>9. received'[client'] = q
    BY <2>5 DEF q
  <2>. QED BY <2>5, <2>7, <2>8, <2>9 DEF HasWholePicture
<1>2. (IInv /\ PictureInv) /\ [Next]_vars =>
        [sendPc # "idle" /\ sendPc' = "idle" /\ can_send_box /\ line = "open"
         /\ begun = client => HasWholePicture']_vars
  BY <1>1
<1>. QED BY PicturesSafe, <1>2, PTL DEF Spec, WholePicture

=============================================================================
