---------------------------- MODULE ParserProofs ----------------------------
(***************************************************************************)
(* The parsers of the host.                                                *)
(*                                                                         *)
(*   AircraftParser  for messages of any length, however the serial line   *)
(*                   cuts them: those found are those sent, in turn        *)
(*   UnitParser      for any unit, fragment and loss count: the units the  *)
(*                   decoder gets are the camera's, and marks leave the    *)
(*                   pictures by no more than was lost                     *)
(*   ConfigLoad      for any lines in any number: each plain line reaches  *)
(*                   its section's parameter, whichever reader reads it    *)
(***************************************************************************)
EXTENDS AircraftParser, UnitParser, ConfigLoad, ModularArithmetic,
        SequenceTheorems, FiniteSetTheorems, TLAPS

-----------------------------------------------------------------------------
(* Bytes parser() has removed, and the bytes it has left to look at.       *)
Dropped == got - Len(full_packet)
Stream  == full_packet \o wire

StartOf(m) == m.end - Len(m.bytes)
Ahead      == {m \in DOMAIN sent : m > taken}

(* A message tells its own length, and begins with an STX.                 *)
Formed(b) == /\ b \in Seq(Byte) /\ Len(b) >= HEAD_LEN + END_LEN
             /\ b[1] = STX /\ Len(b) = HEAD_LEN + b[2] + END_LEN

StreamTypes ==
  /\ sent \in Seq([bytes : Seq(Byte), end : Nat])
  /\ wire \in Seq(Byte) /\ full_packet \in Seq(Byte)
  /\ got \in Nat /\ taken \in 0 .. Len(sent)
  /\ burst \in BOOLEAN /\ aborted \in BOOLEAN

(* The messages sent follow one another in the stream.                     *)
SentInv ==
  /\ \A m \in DOMAIN sent : /\ Formed(sent[m].bytes)
                            /\ sent[m].end <= got + Len(wire)
  /\ \A m, k \in DOMAIN sent : m < k => sent[m].end <= StartOf(sent[k])

(* What is left of the stream holds the messages ahead, each where it was  *)
(* sent but for the bytes dropped, and no STX outside of them.             *)
StreamInv ==
  /\ \A m \in Ahead :
       /\ StartOf(sent[m]) >= Dropped
       /\ \A k \in DOMAIN sent[m].bytes :
            Stream[StartOf(sent[m]) - Dropped + k] = sent[m].bytes[k]
  /\ \A k \in DOMAIN Stream : Stream[k] = STX =>
       \E m \in Ahead : StartOf(sent[m]) < k + Dropped /\ k + Dropped <= sent[m].end

TakenInv ==
  /\ taken > 0 => last = sent[taken].bytes
  /\ \A m \in 1 .. taken : sent[m].end <= got
  /\ ~burst /\ ~aborted => \A m \in Ahead : sent[m].end > got

IInv == StreamTypes /\ SentInv /\ StreamInv /\ TakenInv

-----------------------------------------------------------------------------
(* Sequences, byte by byte.                                                *)

(* What is read of the wire goes from its front to the end of the buffer.  *)
LEMMA ReadFacts ==
  ASSUME NEW a \in Seq(Byte), NEW w \in Seq(Byte), NEW n \in 1 .. Len(w)
  PROVE  LET data == a \o SubSeq(w, 1, n)
             rest == SubSeq(w, n + 1, Len(w))
         IN  /\ data \in Seq(Byte) /\ Len(data) = Len(a) + n
             /\ rest \in Seq(Byte) /\ Len(rest) = Len(w) - n
             /\ data \o rest = a \o w
<1> DEFINE r == SubSeq(w, 1, n)
           data == a \o r
           rest == SubSeq(w, n + 1, Len(w))
<1>1. Len(a) \in Nat /\ Len(w) \in Nat /\ n \in Nat /\ n <= Len(w)
  BY LenProperties
<1>2. r \in Seq(Byte) /\ Len(r) = n /\ \A k \in 1 .. n : r[k] = w[k]
  BY <1>1, SubSeqProperties
<1>3. rest \in Seq(Byte) /\ Len(rest) = Len(w) - n
  BY <1>1, SubSeqProperties
<1>4. data \in Seq(Byte) /\ Len(data) = Len(a) + n
  BY <1>1, <1>2, ConcatProperties
<1>5. w = r \o rest
  BY <1>1, ConcatAdjacentSubSeq, SubSeqFull
<1> HIDE DEF r, rest
<1>6. data \o rest = a \o w
  BY <1>2, <1>3, <1>5, ConcatAssociative
<1>. QED BY <1>3, <1>4, <1>6 DEF r, rest

(* Where the bytes of two sequences are in their concatenation.            *)
LEMMA ConcatFacts ==
  ASSUME NEW a \in Seq(Byte), NEW b \in Seq(Byte)
  PROVE  /\ a \o b \in Seq(Byte) /\ Len(a \o b) = Len(a) + Len(b)
         /\ Len(a) \in Nat /\ Len(b) \in Nat
         /\ \A k \in 1 .. Len(a) : (a \o b)[k] = a[k]
         /\ \A k \in Len(a) + 1 .. Len(a) + Len(b) : (a \o b)[k] = b[k - Len(a)]
  BY ConcatProperties, LenProperties

(* A cut takes len bytes from at on out of the middle.                     *)
LEMMA CutFacts ==
  ASSUME NEW data \in Seq(Byte), NEW at \in Nat \ {0}, NEW len \in Nat,
         at + len - 1 <= Len(data)
  PROVE  LET left == SubSeq(data, 1, at - 1) \o SubSeq(data, at + len, Len(data))
         IN  /\ left \in Seq(Byte) /\ Len(left) = Len(data) - len
             /\ \A k \in 1 .. at - 1 : left[k] = data[k]
             /\ \A k \in at .. Len(data) - len : left[k] = data[k + len]
<1> DEFINE p == SubSeq(data, 1, at - 1)
           q == SubSeq(data, at + len, Len(data))
<1>1. Len(data) \in Nat
  BY LenProperties
<1>2. p \in Seq(Byte) /\ Len(p) = at - 1 /\ \A k \in 1 .. at - 1 : p[k] = data[k]
  BY <1>1, SubSeqProperties
<1>3. /\ q \in Seq(Byte) /\ Len(q) = Len(data) - len - at + 1
      /\ \A k \in 1 .. Len(data) - len - at + 1 : q[k] = data[k + at + len - 1]
  BY <1>1, SubSeqProperties
<1> HIDE DEF p, q
<1>4. p \o q \in Seq(Byte) /\ Len(p \o q) = Len(data) - len
  BY <1>1, <1>2, <1>3, ConcatFacts
<1>5. ASSUME NEW k \in 1 .. at - 1 PROVE (p \o q)[k] = data[k]
  BY <1>2, <1>3, ConcatFacts
<1>6. ASSUME NEW k \in at .. Len(data) - len PROVE (p \o q)[k] = data[k + len]
  <2>1. k \in Len(p) + 1 .. Len(p) + Len(q)
    BY <1>1, <1>2, <1>3
  <2>2. (p \o q)[k] = q[k - (at - 1)]
    BY <2>1, <1>2, <1>3, ConcatFacts
  <2>3. k - (at - 1) \in 1 .. Len(data) - len - at + 1
    BY <1>1
  <2>4. q[k - (at - 1)] = data[(k - (at - 1)) + at + len - 1]
    BY <2>3, <1>3
  <2>5. (k - (at - 1)) + at + len - 1 = k + len
    BY <1>1
  <2>. QED BY <2>2, <2>4, <2>5
<1>. QED BY <1>4, <1>5, <1>6 DEF p, q

-----------------------------------------------------------------------------
(* What a message looks like, and which one parser() finds.                *)

LEMMA MessageFormed ==
  ASSUME NEW payload \in Payloads
  PROVE  Formed(Message(payload))
<1> DEFINE front == <<STX, Len(payload)>>
           more == [i \in 1 .. HEAD_LEN - 2 |-> 0]
           tail == [i \in 1 .. END_LEN |-> 0]
<1>1. /\ payload \in Seq(Byte) /\ Len(payload) \in Byte /\ STX \in Byte /\ 0 \in Byte
      /\ HEAD_LEN \in Nat /\ HEAD_LEN - 2 \in Nat /\ END_LEN \in Nat
      /\ Len(payload) \in Nat
  BY ConstantsAssumption DEF Byte
<1>2. front \in Seq(Byte) /\ Len(front) = 2 /\ front[1] = STX /\ front[2] = Len(payload)
  BY <1>1
<1>3. more \in Seq(Byte) /\ Len(more) = HEAD_LEN - 2
  BY <1>1, IsASeq, LenProperties
<1>4. tail \in Seq(Byte) /\ Len(tail) = END_LEN
  BY <1>1, IsASeq, LenProperties
<1> HIDE DEF front, more, tail
<1> DEFINE start == front \o more
<1>5. /\ start \in Seq(Byte) /\ Len(start) = HEAD_LEN
      /\ start[1] = STX /\ start[2] = Len(payload)
  <2>1. start \in Seq(Byte) /\ Len(start) = Len(front) + Len(more)
    BY <1>2, <1>3, ConcatFacts
  <2>2. 1 \in 1 .. Len(front) /\ 2 \in 1 .. Len(front)
    BY <1>2
  <2>3. start[1] = front[1] /\ start[2] = front[2]
    BY <1>2, <1>3, <2>2, ConcatFacts
  <2> HIDE DEF start
  <2>. QED BY <1>1, <1>2, <1>3, <2>1, <2>3
<1> HIDE DEF start
<1> DEFINE most == start \o payload
<1>6. /\ most \in Seq(Byte) /\ Len(most) = HEAD_LEN + Len(payload)
      /\ most[1] = STX /\ most[2] = Len(payload)
  <2>1. 1 \in 1 .. Len(start) /\ 2 \in 1 .. Len(start)
    BY <1>1, <1>5
  <2>. QED BY <1>1, <1>5, <2>1, ConcatFacts
<1> HIDE DEF most
<1>7. /\ most \o tail \in Seq(Byte) /\ Len(most \o tail) = HEAD_LEN + Len(payload) + END_LEN
      /\ (most \o tail)[1] = STX /\ (most \o tail)[2] = Len(payload)
  <2>1. 1 \in 1 .. Len(most) /\ 2 \in 1 .. Len(most)
    BY <1>1, <1>6
  <2>. QED BY <1>1, <1>4, <1>6, <2>1, ConcatFacts
<1>8. Message(payload) = most \o tail
  BY DEF Message, most, start, front, more, tail
<1>9. HEAD_LEN + Len(payload) + END_LEN >= HEAD_LEN + END_LEN
  BY <1>1
<1>. QED BY <1>7, <1>8, <1>9 DEF Formed

(* Arithmetic on the places of messages needs their types.                 *)
LEMMA SentTypes ==
  ASSUME StreamTypes, SentInv, NEW m \in DOMAIN sent
  PROVE  /\ sent[m].end \in Nat /\ sent[m].bytes \in Seq(Byte)
         /\ Len(sent[m].bytes) \in Nat /\ Len(sent[m].bytes) >= HEAD_LEN + END_LEN
         /\ StartOf(sent[m]) = sent[m].end - Len(sent[m].bytes)
         /\ StartOf(sent[m]) \in Int /\ StartOf(sent[m]) < sent[m].end
         /\ sent[m].bytes[2] \in Nat /\ m \in Nat
         /\ HEAD_LEN \in Nat /\ HEAD_LEN >= 2 /\ END_LEN \in Nat
<1>1. HEAD_LEN \in Nat /\ HEAD_LEN >= 2 /\ END_LEN \in Nat
  BY ConstantsAssumption
<1>2. sent[m] \in [bytes : Seq(Byte), end : Nat] /\ m \in Nat
  <2> DEFINE M == [bytes : Seq(Byte), end : Nat]
  <2>1. sent \in Seq(M)
    BY DEF StreamTypes
  <2> HIDE DEF M
  <2>2. Len(sent) \in Nat /\ m \in 1 .. Len(sent)
    BY <2>1, LenProperties
  <2>3. sent[m] \in M
    BY <2>1, <2>2, ElementOfSeq
  <2>. QED BY <2>2, <2>3 DEF M
<1>3. Formed(sent[m].bytes) /\ Len(sent[m].bytes) \in Nat
  BY <1>2, LenProperties DEF SentInv
<1>4. sent[m].bytes[2] \in Byte
  <2>1. 2 \in 1 .. Len(sent[m].bytes)
    BY <1>1, <1>3 DEF Formed
  <2>. QED BY <1>2, <2>1, ElementOfSeq
<1>5. sent[m].bytes[2] \in Nat
  BY <1>4 DEF Byte
<1>6. /\ sent[m].end \in Nat /\ sent[m].bytes \in Seq(Byte)
      /\ Len(sent[m].bytes) >= HEAD_LEN + END_LEN
  BY <1>2, <1>3 DEF Formed
<1>. QED BY <1>1, <1>2, <1>3, <1>5, <1>6 DEF StartOf

(* The data parser() looks at, n bytes having come, is the front of what   *)
(* is left of the stream; the first STX in it heads the next message.      *)
LEMMA FirstMessage ==
  ASSUME IInv, NEW n \in 1 .. Len(wire)
  PROVE  LET data == full_packet \o SubSeq(wire, 1, n)
             m    == MessageIn(data)
             next == sent[taken + 1]
         IN  /\ m.found \in {"nothing", "part", "message"}
             /\ m.found = "nothing" =>
                  /\ \A k \in Ahead : StartOf(sent[k]) >= got + n
                  /\ \A k \in DOMAIN data : data[k] # STX
             /\ m.found = "message" =>
                  /\ taken + 1 \in Ahead
                  /\ m.at = StartOf(next) - Dropped + 1 /\ m.at >= 1
                  /\ m.len = Len(next.bytes)
                  /\ next.end <= got + n
                  /\ m.at + m.len - 1 <= Len(data)
                  /\ SubSeq(data, m.at, m.at + m.len - 1) = next.bytes
             /\ m.found = "part" \/ Len(data) < HEAD_LEN =>
                  \A k \in Ahead : sent[k].end > got + n
<1> DEFINE data == full_packet \o SubSeq(wire, 1, n)
           m    == MessageIn(data)
           next == sent[taken + 1]
           starts == {i \in DOMAIN data : data[i] = STX}
           start  == CHOOSE i \in starts : \A j \in starts : i <= j
           rest   == Len(data) - start + 1
           p == StartOf(next) - Dropped + 1
<1>1. /\ got \in Nat /\ taken \in Nat /\ Len(full_packet) \in Nat /\ Len(wire) \in Nat
      /\ n \in Nat /\ n <= Len(wire) /\ Dropped = got - Len(full_packet) /\ Dropped \in Int
      /\ HEAD_LEN \in Nat /\ HEAD_LEN >= 2 /\ END_LEN \in Nat
      /\ full_packet \in Seq(Byte) /\ wire \in Seq(Byte)
  BY LenProperties, ConstantsAssumption DEF IInv, StreamTypes, Dropped
<1>2. /\ data \in Seq(Byte) /\ Len(data) = Len(full_packet) + n /\ Len(data) \in Nat
      /\ SubSeq(wire, n + 1, Len(wire)) \in Seq(Byte)
      /\ data \o SubSeq(wire, n + 1, Len(wire)) = Stream
  <2>1. /\ data \in Seq(Byte) /\ Len(data) = Len(full_packet) + n
        /\ SubSeq(wire, n + 1, Len(wire)) \in Seq(Byte)
        /\ data \o SubSeq(wire, n + 1, Len(wire)) = Stream
    BY <1>1, ReadFacts DEF Stream
  <2> HIDE DEF data
  <2>2. Len(data) \in Nat
    BY <2>1, LenProperties
  <2>. QED BY <2>1, <2>2
<1>3. /\ \A k \in 1 .. Len(data) : data[k] = Stream[k]
      /\ DOMAIN data = 1 .. Len(data)
      /\ 1 .. Len(data) \subseteq DOMAIN Stream
  <2>1. \A k \in 1 .. Len(data) : data[k] = Stream[k]
    BY <1>2, ConcatFacts
  <2>2. DOMAIN data = 1 .. Len(data)
    BY <1>2, LenProperties
  <2>3. Stream \in Seq(Byte) /\ Len(Stream) >= Len(data) /\ Len(Stream) \in Nat
    <3> DEFINE more == SubSeq(wire, n + 1, Len(wire))
    <3>1. data \o more \in Seq(Byte) /\ Len(data \o more) = Len(data) + Len(more)
      BY <1>2, ConcatFacts
    <3>2. Len(more) \in Nat
      BY <1>2, LenProperties
    <3>3. data \o more = Stream
      BY <1>2
    <3> HIDE DEF more
    <3>4. Len(data) \in Nat
      BY <1>2
    <3>5. Stream \in Seq(Byte) /\ Len(Stream) = Len(data) + Len(more)
      BY <3>1, <3>3
    <3>. QED BY <3>2, <3>4, <3>5
  <2>4. DOMAIN Stream = 1 .. Len(Stream)
    BY <2>3, LenProperties
  <2>. QED BY <2>1, <2>2, <2>3, <2>4, <1>2
<1> HIDE DEF data
<1>4. ASSUME NEW k \in Ahead
      PROVE  /\ k \in DOMAIN sent /\ k \in Nat /\ taken + 1 \in Ahead
             /\ taken + 1 \in DOMAIN sent
             /\ k # taken + 1 => next.end <= StartOf(sent[k])
  <2>1. DOMAIN sent = 1 .. Len(sent) /\ Len(sent) \in Nat /\ k \in DOMAIN sent
    BY LenProperties DEF IInv, StreamTypes, Ahead
  <2>2. taken + 1 \in DOMAIN sent /\ taken + 1 > taken
    BY <1>1, <2>1 DEF Ahead
  <2>3. k # taken + 1 => taken + 1 < k
    BY <1>1, <2>1 DEF Ahead
  <2>. QED BY <2>1, <2>2, <2>3 DEF Ahead, IInv, SentInv
<1>5. ASSUME NEW k \in Ahead PROVE
        /\ StartOf(sent[k]) - Dropped + 1 >= 1
        /\ Stream[StartOf(sent[k]) - Dropped + 1] = STX
        /\ sent[k].end - Dropped <= Len(full_packet) + Len(wire)
  <2>1. /\ StartOf(sent[k]) >= Dropped /\ StartOf(sent[k]) \in Int
        /\ sent[k].end <= got + Len(wire) /\ sent[k].end \in Nat
    BY <1>4, SentTypes DEF IInv, StreamInv, SentInv
  <2>2. 1 \in DOMAIN sent[k].bytes /\ sent[k].bytes[1] = STX
    <3>1. Len(sent[k].bytes) >= 1 /\ sent[k].bytes \in Seq(Byte) /\ Len(sent[k].bytes) \in Nat
      BY <1>1, <1>4, SentTypes DEF IInv
    <3>2. Formed(sent[k].bytes)
      BY <1>4 DEF IInv, SentInv
    <3>. QED BY <3>1, <3>2, LenProperties DEF Formed
  <2>3. Stream[StartOf(sent[k]) - Dropped + 1] = STX
    BY <2>2 DEF IInv, StreamInv
  <2>. QED BY <1>1, <2>1, <2>3
<1>6. ASSUME NEW i \in starts PROVE taken + 1 \in Ahead /\ i \in Nat /\ p <= i
  <2>1. i \in DOMAIN Stream /\ Stream[i] = STX /\ i \in Nat
    BY <1>3, <1>2
  <2>2. PICK k \in Ahead : StartOf(sent[k]) < i + Dropped
    BY <2>1 DEF IInv, StreamInv
  <2>3. taken + 1 \in Ahead
    BY <1>4
  <2>4. /\ StartOf(sent[k]) \in Int
        /\ StartOf(next) \in Int /\ next.end \in Nat /\ StartOf(next) < next.end
    BY <1>4, SentTypes DEF IInv
  <2>5. p <= i
    <3>1. CASE k = taken + 1
      BY <3>1, <2>1, <2>2, <2>4, <1>1
    <3>2. CASE k # taken + 1
      <4>1. next.end <= StartOf(sent[k])
        BY <3>2, <1>4
      <4>. QED BY <4>1, <2>1, <2>2, <2>4, <1>1
    <3>. QED BY <3>1, <3>2
  <2>6. i \in Nat
    BY <2>1
  <2> HIDE DEF p
  <2>. QED BY <2>3, <2>5, <2>6
<1>7. ASSUME taken + 1 \in Ahead
      PROVE  /\ p \in Nat /\ p >= 1 /\ StartOf(next) \in Int /\ next.end \in Nat
             /\ Len(next.bytes) \in Nat /\ next.end = p + Dropped - 1 + Len(next.bytes)
             /\ p <= Len(data) => p \in starts
             /\ p > Len(data) => starts = {}
  <2>1. /\ StartOf(next) \in Int /\ next.end \in Nat /\ Len(next.bytes) \in Nat
        /\ next.end = StartOf(next) + Len(next.bytes)
    BY <1>7, <1>4, SentTypes DEF IInv
  <2>2. p >= 1 /\ p \in Nat /\ Stream[p] = STX
    <3>1. p >= 1 /\ Stream[p] = STX
      BY <1>5, <1>7
    <3>2. p \in Int
      BY <1>1, <2>1
    <3> HIDE DEF p
    <3>. QED BY <3>1, <3>2
  <2>3. p <= Len(data) => p \in starts
    BY <2>2, <1>3, <1>2
  <2>4. p > Len(data) => starts = {}
    <3>1. ASSUME NEW i \in starts PROVE i <= Len(data) /\ p <= i /\ i \in Nat
      BY <1>6, <1>3, <1>2
    <3>. QED BY <3>1, <2>2, <1>2
  <2>. QED BY <2>1, <2>2, <2>3, <2>4, <1>1
<1>8. CASE starts = {}
  <2>1. m.found = "nothing"
    BY <1>8 DEF MessageIn
  <2>2. ASSUME NEW k \in Ahead PROVE StartOf(sent[k]) >= got + n /\ sent[k].end > got + n
    <3>1. StartOf(sent[k]) - Dropped + 1 \notin DOMAIN data
      BY <1>5, <1>3, <1>8
    <3>2. /\ StartOf(sent[k]) \in Int /\ sent[k].end \in Nat
          /\ StartOf(sent[k]) < sent[k].end
      BY <1>4, SentTypes DEF IInv
    <3>3. StartOf(sent[k]) - Dropped + 1 > Len(data)
      <4> DEFINE q == StartOf(sent[k]) - Dropped + 1
      <4>1. q \in Int /\ q >= 1 /\ q \notin 1 .. Len(data)
        BY <3>1, <3>2, <1>1, <1>3, <1>5
      <4> HIDE DEF q
      <4>2. q > Len(data)
        BY <4>1, <1>2
      <4>. QED BY <4>2 DEF q
    <3>. QED BY <3>2, <3>3, <1>1, <1>2
  <2>3. \A k \in DOMAIN data : data[k] # STX
    BY <1>8
  <2>. QED BY <2>1, <2>2, <2>3 DEF data
<1>9. CASE starts # {}
  <2>1. taken + 1 \in Ahead
    BY <1>9, <1>6
  <2>2. p \in starts /\ p <= Len(data) /\ p \in Nat /\ p >= 1
    BY <2>1, <1>7, <1>9, <1>2
  <2>3. start = p
    <3>1. \A j \in starts : p <= j
      BY <1>6
    <3>2. start \in starts /\ \A j \in starts : start <= j
      BY <2>2, <3>1
    <3>3. start <= p /\ p <= start /\ start \in Nat
      BY <2>2, <3>1, <3>2, <1>6
    <3>. QED BY <2>2, <3>3
  <2>10. p = StartOf(next) - Dropped + 1 /\ rest = Len(data) - p + 1
    BY <2>3
  <2>4. /\ next.bytes \in Seq(Byte) /\ Len(next.bytes) \in Nat
        /\ next.bytes[2] \in Nat
        /\ Len(next.bytes) = HEAD_LEN + next.bytes[2] + END_LEN
        /\ next.end = p + Dropped - 1 + Len(next.bytes) /\ next.end \in Nat
        /\ DOMAIN next.bytes = 1 .. Len(next.bytes)
    <3>1. taken + 1 \in DOMAIN sent
      BY <2>1 DEF Ahead
    <3>2. Formed(next.bytes)
      BY <3>1 DEF IInv, SentInv
    <3>3. next.bytes \in Seq(Byte) /\ Len(next.bytes) \in Nat /\ next.bytes[2] \in Nat
      BY <3>1, SentTypes DEF IInv
    <3>. QED BY <3>2, <3>3, <2>1, <1>7, LenProperties DEF Formed
  <2>11. StartOf(next) \in Int /\ StartOf(next) = p + Dropped - 1
    BY <1>1, <1>7, <2>1
  <2> DEFINE L == Len(next.bytes)
             E == next.end
             N == Len(data)
             b == next.bytes[2]
  <2>5. \A k \in 1 .. L : Stream[p - 1 + k] = next.bytes[k]
    <3>1. \A k \in DOMAIN next.bytes : Stream[StartOf(next) - Dropped + k] = next.bytes[k]
      BY <2>1 DEF IInv, StreamInv
    <3>2. p - 1 = StartOf(next) - Dropped
      BY <2>2, <2>10, <2>11, <1>1
    <3>. QED BY <3>1, <3>2, <2>4
  <2>61. L \in Nat /\ E \in Nat /\ E = p + Dropped - 1 + L
    BY <2>4
  <2>62. b \in Nat /\ L = HEAD_LEN + b + END_LEN
    BY <2>4
  <2>63. N \in Nat /\ N = got - Dropped + n
    BY <1>1, <1>2
  <2>64. p \in Nat /\ p >= 1 /\ p <= N /\ rest = N - p + 1
    BY <2>2, <2>10
  <2>65. /\ HEAD_LEN \in Nat /\ HEAD_LEN >= 2 /\ END_LEN \in Nat
         /\ got \in Nat /\ Dropped \in Int /\ n \in Nat
    BY <1>1
  <2> HIDE DEF p, rest, start, L, E, N, b
  <2>6. /\ L \in Nat /\ E \in Nat /\ E = p + Dropped - 1 + L
        /\ b \in Nat /\ L = HEAD_LEN + b + END_LEN
        /\ N \in Nat /\ N = got - Dropped + n
        /\ p \in Nat /\ p >= 1 /\ p <= N /\ rest = N - p + 1
        /\ HEAD_LEN \in Nat /\ HEAD_LEN >= 2 /\ END_LEN \in Nat
        /\ got \in Nat /\ Dropped \in Int /\ n \in Nat
    BY <2>61, <2>62, <2>63, <2>64, <2>65
  <2>7. rest >= HEAD_LEN => data[p + 1] = b
    <3> SUFFICES ASSUME rest >= HEAD_LEN PROVE data[p + 1] = b
      OBVIOUS
    <3>1. p + 1 \in 1 .. N /\ p + 1 = p - 1 + 2
      BY <2>6
    <3>2. 2 \in 1 .. L
      BY <2>6
    <3>. QED BY <3>1, <3>2, <2>5, <1>3 DEF N, b
  <2>8. CASE rest < HEAD_LEN \/ rest < L
    <3>1. m.found = "part"
      <4>1. rest < HEAD_LEN \/ rest < HEAD_LEN + data[p + 1] + END_LEN
        BY <2>8, <2>7, <2>6
      <4>. QED BY <4>1, <2>3, <1>9 DEF MessageIn, rest, start, N, b
    <3>2. E > got + n
      BY <2>8, <2>6
    <3>3. ASSUME NEW k \in Ahead PROVE sent[k].end > got + n
      <4>1. /\ sent[k].end \in Nat /\ StartOf(sent[k]) \in Int
            /\ StartOf(sent[k]) < sent[k].end
        BY <1>4, SentTypes DEF IInv
      <4>2. k # taken + 1 => E <= StartOf(sent[k])
        BY <1>4 DEF E
      <4>3. k = taken + 1 => E = sent[k].end
        BY DEF E
      <4>. QED BY <4>1, <4>2, <4>3, <3>2, <2>6
    <3>. QED BY <3>1, <3>3 DEF data
  <2>9. CASE ~(rest < HEAD_LEN) /\ ~(rest < L)
    <3>1. rest \in Int /\ rest >= HEAD_LEN /\ rest >= L
      BY <2>9, <2>6
    <3>2. data[p + 1] = b
      BY <3>1, <2>7
    <3>3. m.found = "message" /\ m.at = p /\ m.len = L
      <4>1. ~(rest < HEAD_LEN \/ rest < HEAD_LEN + data[start + 1] + END_LEN)
        BY <2>9, <3>2, <2>3, <2>6
      <4>. QED BY <4>1, <3>2, <2>3, <2>6, <1>9 DEF MessageIn, rest, start, N, b
    <3>4. E <= got + n /\ p + L - 1 <= N
      BY <3>1, <2>6
    <3>5. SubSeq(data, p, p + L - 1) = next.bytes
      <4> DEFINE cut == SubSeq(data, p, p + L - 1)
      <4>1. /\ cut \in Seq(Byte) /\ Len(cut) = (p + L - 1) - p + 1
            /\ \A k \in 1 .. (p + L - 1) - p + 1 : cut[k] = data[p + k - 1]
        <5> DEFINE q == p + L - 1
        <5>1. p \in 1 .. N + 1 /\ q \in p - 1 .. N
          BY <3>4, <2>6
        <5>2. p \in 1 .. Len(data) + 1 /\ q \in p - 1 .. Len(data) /\ data \in Seq(Byte)
          BY <5>1, <1>2 DEF N
        <5> HIDE DEF q
        <5>3. /\ SubSeq(data, p, q) \in Seq(Byte) /\ Len(SubSeq(data, p, q)) = q - p + 1
              /\ \A k \in 1 .. q - p + 1 : SubSeq(data, p, q)[k] = data[p + k - 1]
          BY <5>2, SubSeqProperties
        <5>. QED BY <5>3 DEF q
      <4> HIDE DEF cut
      <4>2. (p + L - 1) - p + 1 = L
        BY <2>6
      <4>3. Len(cut) = L /\ \A k \in 1 .. L : cut[k] = data[p + k - 1]
        BY <4>1, <4>2
      <4>4. ASSUME NEW k \in 1 .. L PROVE cut[k] = next.bytes[k]
        <5>1. p + k - 1 \in 1 .. N /\ p + k - 1 = p - 1 + k
          BY <3>4, <2>6
        <5>. QED BY <4>3, <5>1, <2>5, <1>3 DEF N
      <4>5. cut = next.bytes
        BY <4>1, <4>3, <4>4, <2>4, SeqEqual DEF L
      <4>. QED BY <4>5 DEF cut
    <3>6. ~(N < HEAD_LEN)
      BY <3>1, <2>6
    <3>7. m.at = StartOf(next) - Dropped + 1
      BY <3>3, <2>10
    <3>8. SubSeq(data, m.at, m.at + m.len - 1) = next.bytes
      BY <3>3, <3>5
    <3>. QED BY <3>3, <3>4, <3>6, <3>7, <3>8, <2>1, <2>2 DEF data, L, E, N
  <2>. QED BY <2>8, <2>9
<1>. QED BY <1>8, <1>9

-----------------------------------------------------------------------------
(* The steps keep the invariant.                                           *)

LEMMA InitInv == Init => IInv
<1> SUFFICES ASSUME Init PROVE IInv
  OBVIOUS
<1>1. /\ sent = <<>> /\ wire = <<>> /\ full_packet = <<>> /\ got = 0 /\ taken = 0
      /\ burst = FALSE /\ aborted = FALSE
  BY DEF Init
<1>2. StreamTypes
  <2> DEFINE M == [bytes : Seq(Byte), end : Nat]
  <2> HIDE DEF M
  <2>1. <<>> \in Seq(M) /\ <<>> \in Seq(Byte) /\ Len(<<>>) = 0
    OBVIOUS
  <2>2. sent \in Seq(M) /\ wire \in Seq(Byte) /\ full_packet \in Seq(Byte) /\ Len(sent) = 0
    BY <1>1, <2>1
  <2>3. sent \in Seq([bytes : Seq(Byte), end : Nat])
    BY <2>2 DEF M
  <2>4. taken \in 0 .. Len(sent)
    <3>1. 0 \in 0 .. 0
      OBVIOUS
    <3>. QED BY ONLY <1>1, <2>2, <3>1
  <2>5. got \in Nat /\ burst \in BOOLEAN /\ aborted \in BOOLEAN
    BY ONLY <1>1
  <2>. QED BY ONLY <2>2, <2>3, <2>4, <2>5 DEF StreamTypes
<1>3. DOMAIN sent = {} /\ Ahead = {}
  BY <1>1 DEF Ahead
<1>4. Stream = <<>>
  BY <1>1 DEF Stream
<1>5. DOMAIN Stream = {}
  BY <1>4
<1>6. SentInv
  BY <1>3 DEF SentInv
<1>7. StreamInv
  BY <1>3, <1>5 DEF StreamInv
<1>8. TakenInv
  BY <1>1, <1>3 DEF TakenInv
<1>. QED BY <1>2, <1>6, <1>7, <1>8 DEF IInv

(* Where things are in a state of the invariant.                           *)
LEMMA PlaceTypes ==
  ASSUME IInv
  PROVE  /\ wire \in Seq(Byte) /\ full_packet \in Seq(Byte) /\ Stream \in Seq(Byte)
         /\ Len(wire) \in Nat /\ Len(full_packet) \in Nat
         /\ Len(Stream) = Len(full_packet) + Len(wire) /\ Len(Stream) \in Nat
         /\ DOMAIN Stream = 1 .. Len(Stream)
         /\ got \in Nat /\ taken \in Nat /\ Len(sent) \in Nat /\ taken <= Len(sent)
         /\ DOMAIN sent = 1 .. Len(sent)
         /\ Ahead = taken + 1 .. Len(sent)
         /\ Dropped \in Int /\ Dropped = got - Len(full_packet)
<1>1. /\ wire \in Seq(Byte) /\ full_packet \in Seq(Byte) /\ got \in Nat
      /\ taken \in 0 .. Len(sent)
  BY DEF IInv, StreamTypes
<1>2. Len(sent) \in Nat /\ DOMAIN sent = 1 .. Len(sent)
  BY LenProperties DEF IInv, StreamTypes
<1>3. /\ Stream \in Seq(Byte) /\ Len(Stream) = Len(full_packet) + Len(wire)
      /\ Len(full_packet) \in Nat /\ Len(wire) \in Nat
  BY <1>1, ConcatFacts DEF Stream
<1>4. Len(Stream) \in Nat /\ DOMAIN Stream = 1 .. Len(Stream)
  BY <1>3, LenProperties
<1>5. taken \in Nat /\ taken <= Len(sent) /\ Ahead = taken + 1 .. Len(sent)
  BY <1>1, <1>2 DEF Ahead
<1>6. Dropped \in Int /\ Dropped = got - Len(full_packet)
  BY <1>1, <1>3 DEF Dropped
<1>. QED BY <1>1, <1>2, <1>3, <1>4, <1>5, <1>6

(* A message ahead lies within what is left of the stream.                 *)
LEMMA InStream ==
  ASSUME IInv, NEW j \in Ahead, NEW k \in DOMAIN sent[j].bytes
  PROVE  StartOf(sent[j]) - Dropped + k \in DOMAIN Stream
<1> DEFINE s == StartOf(sent[j])
           l == Len(sent[j].bytes)
           w == Len(wire)
           p == Len(full_packet)
           t == Len(Stream)
           d == Dropped
           z == sent[j].end
<1>1. j \in DOMAIN sent /\ sent[j].bytes \in Seq(Byte)
  BY SentTypes DEF IInv, Ahead
<1>2. k \in 1 .. l /\ l \in Nat /\ s \in Int /\ s = z - l /\ z \in Nat /\ z <= got + w
  BY <1>1, SentTypes, LenProperties DEF IInv, SentInv
<1>3. /\ d \in Int /\ d = got - p /\ t = p + w
      /\ w \in Nat /\ p \in Nat /\ got \in Nat /\ t \in Nat /\ DOMAIN Stream = 1 .. t
  BY PlaceTypes
<1>4. s >= d
  BY DEF IInv, StreamInv
<1> HIDE DEF s, l, w, p, t, d, z
<1>5. s - d + k \in 1 .. t
  BY <1>2, <1>3, <1>4
<1>. QED BY <1>5, <1>3 DEF s, d, t

LEMMA SendInv ==
  ASSUME IInv, NEW payload \in Payloads, Send(payload)
  PROVE  IInv'
<1> DEFINE m == Message(payload)
           e == got + Len(wire) + Len(m)
           last1 == [bytes |-> m, end |-> e]
           new == Len(sent) + 1
           M == [bytes : Seq(Byte), end : Nat]
<1>1. /\ sent' = Append(sent, last1) /\ wire' = wire \o m
      /\ UNCHANGED <<got, full_packet, taken, last, burst, aborted>>
  BY DEF Send
<1>2. Formed(m) /\ m \in Seq(Byte) /\ Len(m) \in Nat
  BY MessageFormed, LenProperties DEF Formed
<1> HIDE DEF m
<1>3. /\ wire \in Seq(Byte) /\ full_packet \in Seq(Byte) /\ Stream \in Seq(Byte)
      /\ Len(Stream) = Len(full_packet) + Len(wire) /\ Len(Stream) \in Nat
      /\ DOMAIN Stream = 1 .. Len(Stream) /\ Len(wire) \in Nat /\ Len(full_packet) \in Nat
      /\ got \in Nat /\ taken \in Nat /\ Len(sent) \in Nat /\ taken <= Len(sent)
      /\ DOMAIN sent = 1 .. Len(sent) /\ Ahead = taken + 1 .. Len(sent)
      /\ Dropped \in Int /\ Dropped = got - Len(full_packet)
  BY PlaceTypes
<1>4. e \in Nat /\ last1 \in M /\ last1.end = e /\ last1.bytes = m /\ StartOf(last1) = got + Len(wire)
  BY <1>2, <1>3 DEF StartOf
<1>5. /\ wire' \in Seq(Byte) /\ Len(wire') = Len(wire) + Len(m)
      /\ Stream' = Stream \o m
  <2>1. full_packet \o (wire \o m) = (full_packet \o wire) \o m
    <3>1. full_packet \in Seq(Byte) /\ wire \in Seq(Byte) /\ m \in Seq(Byte)
      BY <1>2, <1>3
    <3>. QED BY ONLY <3>1, ConcatAssociative
  <2>. QED BY <1>1, <1>2, <1>3, <2>1, ConcatFacts DEF Stream
<1>6. /\ Stream' \in Seq(Byte) /\ Len(Stream') = Len(Stream) + Len(m)
      /\ DOMAIN Stream' = 1 .. Len(Stream')
      /\ \A k \in 1 .. Len(Stream) : Stream'[k] = Stream[k]
      /\ \A k \in Len(Stream) + 1 .. Len(Stream) + Len(m) : Stream'[k] = m[k - Len(Stream)]
  BY <1>2, <1>3, <1>5, ConcatFacts, LenProperties
<1>7. sent \in Seq(M)
  BY DEF IInv, StreamTypes
<1> HIDE DEF M, last1, e
<1>8. /\ sent' \in Seq(M) /\ Len(sent') = new
      /\ DOMAIN sent' = 1 .. new
      /\ \A k \in 1 .. Len(sent) : sent'[k] = sent[k]
      /\ sent'[new] = last1
  <2>1. /\ Append(sent, last1) \in Seq(M) /\ Len(Append(sent, last1)) = Len(sent) + 1
        /\ \A k \in 1 .. Len(sent) : Append(sent, last1)[k] = sent[k]
        /\ Append(sent, last1)[Len(sent) + 1] = last1
    BY <1>4, <1>7, AppendProperties
  <2>. QED BY <1>1, <2>1, LenProperties
<1>9. StreamTypes'
  <2>1. sent' \in Seq([bytes : Seq(Byte), end : Nat])
    BY <1>8 DEF M
  <2>2. taken' \in 0 .. Len(sent')
    BY <1>1, <1>3, <1>8
  <2>3. /\ wire' \in Seq(Byte) /\ full_packet' \in Seq(Byte) /\ got' \in Nat
        /\ burst' \in BOOLEAN /\ aborted' \in BOOLEAN
    BY <1>1, <1>3, <1>5 DEF IInv, StreamTypes
  <2>. QED BY <2>1, <2>2, <2>3 DEF StreamTypes
<1>10. Ahead' = Ahead \cup {new} /\ Dropped' = Dropped
  BY <1>1, <1>3, <1>8 DEF Ahead, Dropped
<1>11. \A k \in DOMAIN sent :
         /\ sent'[k] = sent[k] /\ sent[k].end \in Nat /\ sent[k].end <= got + Len(wire)
         /\ StartOf(sent[k]) \in Int /\ StartOf(sent[k]) = sent[k].end - Len(sent[k].bytes)
         /\ Len(sent[k].bytes) \in Nat /\ DOMAIN sent[k].bytes = 1 .. Len(sent[k].bytes)
  <2> TAKE k \in DOMAIN sent
  <2>1. sent[k].bytes \in Seq(Byte)
    BY SentTypes DEF IInv
  <2>. QED BY <1>3, <1>8, <2>1, SentTypes, LenProperties DEF IInv, SentInv
<1>12. SentInv'
  <2>1. ASSUME NEW k \in DOMAIN sent'
        PROVE  Formed(sent'[k].bytes) /\ sent'[k].end <= got' + Len(wire')
    <3>1. CASE k = new
      BY <3>1, <1>1, <1>2, <1>3, <1>4, <1>5, <1>8 DEF e
    <3>2. CASE k \in DOMAIN sent
      <4>1. Formed(sent[k].bytes) /\ sent'[k] = sent[k]
        BY <3>2, <1>11 DEF IInv, SentInv
      <4>2. sent[k].end <= got + Len(wire) + Len(m)
        BY <3>2, <1>11, <1>2, <1>3
      <4>3. got' + Len(wire') = got + Len(wire) + Len(m)
        BY <1>1, <1>5, <1>2, <1>3
      <4>. QED BY <4>1, <4>2, <4>3
    <3>. QED BY <3>1, <3>2, <1>3, <1>8
  <2>2. ASSUME NEW j \in DOMAIN sent', NEW k \in DOMAIN sent', j < k
        PROVE  sent'[j].end <= StartOf(sent'[k])
    <3>1. j \in DOMAIN sent
      BY <2>2, <1>3, <1>8
    <3>2. CASE k = new
      BY <3>1, <3>2, <1>4, <1>8, <1>11
    <3>3. CASE k \in DOMAIN sent
      BY <3>1, <3>3, <2>2, <1>11 DEF IInv, SentInv
    <3>. QED BY <3>2, <3>3, <1>3, <1>8
  <2>. QED BY <2>1, <2>2 DEF SentInv, StartOf, Formed
<1>13. StreamInv'
  <2>1. ASSUME NEW j \in Ahead'
        PROVE  /\ StartOf(sent'[j]) >= Dropped'
               /\ \A k \in DOMAIN sent'[j].bytes :
                    Stream'[StartOf(sent'[j]) - Dropped' + k] = sent'[j].bytes[k]
    <3>1. CASE j = new
      <4>1. sent'[j] = last1 /\ StartOf(sent'[j]) = got + Len(wire) /\ sent'[j].bytes = m
        BY <3>1, <1>4, <1>8
      <4>2. got + Len(wire) - Dropped = Len(Stream)
        BY <1>3
      <4>3. ASSUME NEW k \in 1 .. Len(m) PROVE Stream'[Len(Stream) + k] = m[k]
        <5>1. Len(Stream) + k \in Len(Stream) + 1 .. Len(Stream) + Len(m)
          BY <1>2, <1>3
        <5>2. (Len(Stream) + k) - Len(Stream) = k
          BY <1>3
        <5>. QED BY <5>1, <5>2, <1>6
      <4>4. DOMAIN m = 1 .. Len(m)
        BY <1>2, LenProperties
      <4>. QED BY <4>1, <4>2, <4>3, <4>4, <1>3, <1>10
    <3>2. CASE j \in Ahead
      <4>1. j \in DOMAIN sent /\ sent'[j] = sent[j]
        BY <3>2, <1>3, <1>11
      <4>2. StartOf(sent[j]) >= Dropped
        BY <3>2 DEF IInv, StreamInv
      <4>3. ASSUME NEW k \in DOMAIN sent[j].bytes
            PROVE  Stream'[StartOf(sent[j]) - Dropped + k] = sent[j].bytes[k]
        <5>1. StartOf(sent[j]) - Dropped + k \in 1 .. Len(Stream)
          BY <3>2, <1>3, InStream
        <5>2. Stream[StartOf(sent[j]) - Dropped + k] = sent[j].bytes[k]
          BY <3>2 DEF IInv, StreamInv
        <5>. QED BY <5>1, <5>2, <1>6
      <4>. QED BY <4>1, <4>2, <4>3, <1>10
    <3>. QED BY <3>1, <3>2, <1>10
  <2>2. ASSUME NEW k \in DOMAIN Stream', Stream'[k] = STX
        PROVE  \E j \in Ahead' : /\ StartOf(sent'[j]) < k + Dropped'
                                 /\ k + Dropped' <= sent'[j].end
    <3>1. CASE k \in 1 .. Len(Stream)
      <4>1. PICK j \in Ahead : StartOf(sent[j]) < k + Dropped /\ k + Dropped <= sent[j].end
        BY <3>1, <2>2, <1>3, <1>6 DEF IInv, StreamInv
      <4>2. j \in Ahead' /\ sent'[j] = sent[j]
        BY <1>3, <1>10, <1>11
      <4>. QED BY <4>1, <4>2, <1>10
    <3>2. CASE k \notin 1 .. Len(Stream)
      <4>1. k \in Nat /\ k > Len(Stream) /\ k <= Len(Stream) + Len(m)
        BY <3>2, <1>2, <1>3, <1>6
      <4>2. got + Len(wire) < k + Dropped /\ k + Dropped <= e
        BY <4>1, <1>2, <1>3 DEF e
      <4>. QED BY <4>2, <1>4, <1>8, <1>10
    <3>. QED BY <3>1, <3>2
  <2>3. StreamInv' = ((\A j \in Ahead' :
               /\ StartOf(sent'[j]) >= Dropped'
               /\ \A k \in DOMAIN sent'[j].bytes :
                    Stream'[StartOf(sent'[j]) - Dropped' + k] = sent'[j].bytes[k])
          /\ \A k \in DOMAIN Stream' : Stream'[k] = STX =>
               \E j \in Ahead' : StartOf(sent'[j]) < k + Dropped' /\ k + Dropped' <= sent'[j].end)
    BY DEF StreamInv, StartOf
  <2>. QED BY <2>1, <2>2, <2>3
<1>14. TakenInv'
  <2>1. taken > 0 => taken \in DOMAIN sent
    BY <1>3
  <2>2. ASSUME NEW k \in 1 .. taken PROVE sent'[k].end <= got
    <3>1. sent[k].end <= got
      BY DEF IInv, TakenInv
    <3>2. k \in 1 .. Len(sent) /\ k \in DOMAIN sent
      BY <1>3
    <3>. QED BY <1>11, <3>1, <3>2
  <2>3. ASSUME ~burst, ~aborted, NEW k \in Ahead' PROVE sent'[k].end > got
    <3>1. CASE k = new
      <4>1. Len(m) > 0
        BY <1>2, ConstantsAssumption DEF Formed
      <4>. QED BY <3>1, <4>1, <1>2, <1>3, <1>4, <1>8 DEF e
    <3>2. CASE k \in Ahead
      BY <3>2, <2>3, <1>3, <1>11 DEF IInv, TakenInv
    <3>. QED BY <3>1, <3>2, <1>10
  <2>. QED BY <2>1, <2>2, <2>3, <1>1, <1>11 DEF IInv, TakenInv
<1>. QED BY <1>9, <1>12, <1>13, <1>14 DEF IInv


LEMMA DisturbInv ==
  ASSUME IInv, NEW byte \in Noise, Disturb(byte)
  PROVE  IInv'
<1> DEFINE m == <<byte>>
<1>1. /\ wire' = Append(wire, byte) /\ byte \in Byte /\ byte # STX
      /\ UNCHANGED <<sent, got, full_packet, taken, last, burst, aborted>>
  BY ConstantsAssumption DEF Disturb
<1>2. /\ wire \in Seq(Byte) /\ full_packet \in Seq(Byte) /\ Stream \in Seq(Byte)
      /\ Len(Stream) \in Nat /\ DOMAIN Stream = 1 .. Len(Stream)
      /\ Len(wire) \in Nat /\ got \in Nat /\ Len(full_packet) \in Nat
  BY PlaceTypes
<1>3. m \in Seq(Byte) /\ Len(m) = 1 /\ m[1] # STX
  BY <1>1
<1>4. wire' = wire \o m
  BY <1>1, <1>2, AppendIsConcat
<1> HIDE DEF m
<1>5. wire' \in Seq(Byte) /\ Len(wire') = Len(wire) + 1 /\ Stream' = Stream \o m
  <2>1. wire' \in Seq(Byte) /\ Len(wire') = Len(wire) + 1
    <3>1. m \in Seq(Byte) /\ wire \in Seq(Byte) /\ Len(m) = 1
      BY <1>2, <1>3
    <3>. QED BY ONLY <3>1, <1>4, ConcatFacts
  <2>2. full_packet \o (wire \o m) = (full_packet \o wire) \o m
    <3>1. full_packet \in Seq(Byte) /\ wire \in Seq(Byte) /\ m \in Seq(Byte)
      BY <1>2, <1>3
    <3>. QED BY ONLY <3>1, ConcatAssociative
  <2>. QED BY <1>1, <1>4, <2>1, <2>2 DEF Stream
<1>6. /\ Stream' \in Seq(Byte) /\ Len(Stream') = Len(Stream) + 1
      /\ DOMAIN Stream' = 1 .. Len(Stream) + 1
      /\ \A k \in 1 .. Len(Stream) : Stream'[k] = Stream[k]
      /\ Stream'[Len(Stream) + 1] # STX
  <2>1. /\ Stream' \in Seq(Byte) /\ Len(Stream') = Len(Stream) + 1
        /\ \A k \in 1 .. Len(Stream) : Stream'[k] = Stream[k]
        /\ \A k \in Len(Stream) + 1 .. Len(Stream) + 1 : Stream'[k] = m[k - Len(Stream)]
    <3>1. m \in Seq(Byte) /\ Stream \in Seq(Byte) /\ Len(m) = 1
      BY <1>2, <1>3
    <3>2. /\ Stream \o m \in Seq(Byte) /\ Len(Stream \o m) = Len(Stream) + Len(m)
          /\ \A k \in 1 .. Len(Stream) : (Stream \o m)[k] = Stream[k]
          /\ \A k \in Len(Stream) + 1 .. Len(Stream) + Len(m) :
               (Stream \o m)[k] = m[k - Len(Stream)]
      BY ONLY <3>1, ConcatFacts
    <3>. QED BY <3>1, <3>2, <1>5
  <2>2. Stream'[Len(Stream) + 1] = m[1]
    <3>1. Len(Stream) + 1 \in Len(Stream) + 1 .. Len(Stream) + 1
      BY <1>2
    <3>2. (Len(Stream) + 1) - Len(Stream) = 1
      BY <1>2
    <3>. QED BY <2>1, <3>1, <3>2
  <2>. QED BY <2>1, <2>2, <1>3, LenProperties
<1>7. Ahead' = Ahead /\ Dropped' = Dropped
  BY <1>1 DEF Ahead, Dropped
<1>8. StreamTypes'
  BY <1>1, <1>5 DEF IInv, StreamTypes
<1>9. SentInv'
  <2>1. ASSUME NEW k \in DOMAIN sent PROVE sent[k].end <= got + Len(wire) + 1
    <3>1. sent[k].end \in Nat /\ sent[k].end <= got + Len(wire)
      BY SentTypes DEF IInv, SentInv
    <3>. QED BY <3>1, <1>2
  <2>2. got' + Len(wire') = got + Len(wire) + 1 /\ sent' = sent
    BY <1>1, <1>2, <1>5
  <2>. QED BY <2>1, <2>2 DEF IInv, SentInv, Formed, StartOf
<1>10. StreamInv'
  <2>1. ASSUME NEW j \in Ahead, NEW k \in DOMAIN sent[j].bytes
        PROVE  Stream'[StartOf(sent[j]) - Dropped + k] = sent[j].bytes[k]
    <3>1. StartOf(sent[j]) - Dropped + k \in DOMAIN Stream
      BY InStream
    <3>2. Stream[StartOf(sent[j]) - Dropped + k] = sent[j].bytes[k]
      BY DEF IInv, StreamInv
    <3>. QED BY <3>1, <3>2, <1>2, <1>6
  <2>2. ASSUME NEW k \in DOMAIN Stream', Stream'[k] = STX
        PROVE  k \in DOMAIN Stream /\ Stream[k] = STX
    BY <2>2, <1>2, <1>6
  <2>. QED BY <2>1, <2>2, <1>1, <1>7 DEF IInv, StreamInv, StartOf
<1>11. TakenInv'
  BY <1>1, <1>7 DEF IInv, TakenInv
<1>. QED BY <1>8, <1>9, <1>10, <1>11 DEF IInv

(* How many messages have ended by a place in the stream.                  *)
LEMMA EndedFacts ==
  ASSUME IInv, NEW b \in Nat, NEW j \in 0 .. Len(sent),
         \A i \in 1 .. j : sent[i].end <= b
  PROVE  /\ EndedBy(b) \in Nat /\ EndedBy(b) >= j
         /\ (\A i \in DOMAIN sent : i > j => sent[i].end > b) => EndedBy(b) = j
<1> DEFINE ended == {i \in DOMAIN sent : sent[i].end <= b}
<1>1. Len(sent) \in Nat /\ DOMAIN sent = 1 .. Len(sent) /\ j \in Nat
  BY PlaceTypes
<1>2. IsFiniteSet(1 .. Len(sent)) /\ IsFiniteSet(1 .. j) /\ Cardinality(1 .. j) = j
  BY <1>1, FS_Interval
<1>3. IsFiniteSet(ended)
  BY <1>1, <1>2, FS_Subset
<1>4. 1 .. j \subseteq ended
  BY <1>1
<1>5. Cardinality(ended) \in Nat /\ Cardinality(ended) >= j
  BY <1>2, <1>3, <1>4, FS_Subset, FS_CardinalityType
<1>6. ASSUME \A i \in DOMAIN sent : i > j => sent[i].end > b PROVE ended = 1 .. j
  <2>1. ASSUME NEW i \in ended PROVE i \in 1 .. j
    <3>1. sent[i].end \in Nat
      BY SentTypes DEF IInv
    <3>. QED BY <3>1, <1>6, <1>1
  <2>. QED BY <2>1, <1>4
<1>. QED BY <1>2, <1>5, <1>6 DEF EndedBy

LEMMA ReadInv ==
  ASSUME IInv, NEW n \in 1 .. Len(wire), readData(n)
  PROVE  IInv'
<1> DEFINE data == full_packet \o SubSeq(wire, 1, n)
           rest == SubSeq(wire, n + 1, Len(wire))
           m    == MessageIn(data)
           next == sent[taken + 1]
           p == Len(full_packet)
           w == Len(wire)
           t == Len(Stream)
           d == Dropped
           N == Len(data)
<1>1. /\ wire \in Seq(Byte) /\ full_packet \in Seq(Byte) /\ Stream \in Seq(Byte)
      /\ DOMAIN Stream = 1 .. t /\ DOMAIN sent = 1 .. Len(sent)
      /\ Ahead = taken + 1 .. Len(sent)
  BY PlaceTypes
<1>2. /\ data \in Seq(Byte) /\ N = p + n /\ rest \in Seq(Byte) /\ Len(rest) = w - n
      /\ data \o rest = Stream
  BY <1>1, ReadFacts DEF Stream
<1>3. /\ t = p + w /\ t \in Nat /\ p \in Nat /\ w \in Nat /\ got \in Nat
      /\ taken \in Nat /\ Len(sent) \in Nat /\ taken <= Len(sent)
      /\ d \in Int /\ d = got - p /\ n \in Nat /\ n >= 1 /\ n <= w
      /\ N \in Nat /\ N = p + n
  <2>1. /\ t = p + w /\ t \in Nat /\ p \in Nat /\ w \in Nat /\ got \in Nat
        /\ taken \in Nat /\ Len(sent) \in Nat /\ taken <= Len(sent)
        /\ d \in Int /\ d = got - p
    BY PlaceTypes
  <2>2. N = p + n
    BY <1>2
  <2> HIDE DEF p, w, t, d, N
  <2>3. n \in 1 .. w
    BY DEF w
  <2>4. n \in Nat /\ n >= 1 /\ n <= w /\ N \in Nat
    BY <2>1, <2>2, <2>3
  <2>. QED BY <2>1, <2>2, <2>4
<1>4. /\ sent' = sent /\ got' = got + n /\ wire' = rest
      /\ burst' = (burst \/ EndedBy(got + n) > EndedBy(got) + 1)
      /\ aborted' \in BOOLEAN /\ burst' \in BOOLEAN
      /\ ~aborted
  BY DEF readData, parser, IInv, StreamTypes
<1>5. /\ m.found \in {"nothing", "part", "message"}
      /\ m.found = "nothing" => /\ \A k \in Ahead : StartOf(sent[k]) >= got + n
                                /\ \A k \in DOMAIN data : data[k] # STX
      /\ m.found = "message" =>
           /\ taken + 1 \in Ahead
           /\ m.at = StartOf(next) - d + 1 /\ m.at >= 1
           /\ m.len = Len(next.bytes)
           /\ next.end <= got + n
           /\ m.at + m.len - 1 <= N
           /\ SubSeq(data, m.at, m.at + m.len - 1) = next.bytes
      /\ m.found = "part" \/ N < HEAD_LEN => \A k \in Ahead : sent[k].end > got + n
  BY FirstMessage
<1>6. \/ /\ full_packet' = data /\ taken' = taken /\ last' = last
         /\ aborted' \/ m.found = "part" \/ N < HEAD_LEN
      \/ /\ full_packet' = <<>> /\ taken' = taken /\ last' = last /\ m.found = "nothing"
      \/ /\ full_packet' = Without(data, m) /\ taken' = taken + 1
         /\ last' = SubSeq(data, m.at, m.at + m.len - 1) /\ m.found = "message"
  <2>1. CASE N >= LIMIT
    BY <2>1 DEF readData, parser
  <2>2. CASE ~(N >= LIMIT)
    BY <2>2, <1>5 DEF readData, parser, Take
  <2>. QED BY <2>1, <2>2
<1> HIDE DEF data, rest, m, p, w, t, d, N
<1>7. ASSUME NEW k \in DOMAIN sent
      PROVE  /\ sent[k].end \in Nat /\ sent[k].end <= got + w
             /\ StartOf(sent[k]) \in Int /\ Len(sent[k].bytes) \in Nat
             /\ StartOf(sent[k]) = sent[k].end - Len(sent[k].bytes)
             /\ StartOf(sent[k]) < sent[k].end
  BY SentTypes DEF IInv, SentInv, w
<1>8. SentInv'
  <2>1. got' + Len(wire') = got + w
    <3>1. got' + Len(wire') = (got + n) + (w - n)
      BY <1>2, <1>4
    <3>. QED BY <3>1, <1>3
  <2>. QED BY <2>1, <1>4 DEF IInv, SentInv, Formed, StartOf, w
<1>9. ~burst' => ~burst /\ EndedBy(got + n) <= EndedBy(got) + 1
  <2>1. EndedBy(got + n) \in Nat /\ EndedBy(got) \in Nat
    <3>1. 0 \in 0 .. Len(sent) /\ got \in Nat /\ got + n \in Nat /\ \A i \in 1 .. 0 : FALSE
      BY <1>3
    <3>. QED BY <3>1, EndedFacts
  <2>2. ~(EndedBy(got + n) > EndedBy(got) + 1) => EndedBy(got + n) <= EndedBy(got) + 1
    BY <2>1
  <2>. QED BY <2>2, <1>4
<1>10. CASE /\ full_packet' = data /\ taken' = taken /\ last' = last
            /\ aborted' \/ m.found = "part" \/ N < HEAD_LEN
  <2>1. Stream' = Stream /\ Ahead' = Ahead
    BY <1>2, <1>4, <1>10 DEF Stream, Ahead
  <2>2. Dropped' = d
    <3>1. Dropped' = (got + n) - N
      BY <1>4, <1>10 DEF Dropped, N
    <3>. QED BY <3>1, <1>3
  <2>3. StreamTypes'
    <3>1. got' \in Nat /\ full_packet' \in Seq(Byte) /\ wire' \in Seq(Byte)
      BY <1>2, <1>3, <1>4, <1>10
    <3>. QED BY <3>1, <1>4, <1>10 DEF IInv, StreamTypes
  <2>4. StreamInv'
    BY <2>1, <2>2, <1>4 DEF IInv, StreamInv, StartOf, d
  <2>5. TakenInv'
    <3>1. ASSUME NEW i \in 1 .. taken PROVE sent[i].end <= got + n
      <4>1. i \in DOMAIN sent
        BY <1>1, <1>3
      <4>2. sent[i].end <= got
        BY DEF IInv, TakenInv
      <4> DEFINE x == sent[i].end
      <4>3. x \in Nat
        BY <4>1, <1>7
      <4> HIDE DEF x
      <4>4. x <= got => x <= got + n
        BY <1>3, <4>3
      <4>. QED BY <4>2, <4>4 DEF x
    <3>2. ASSUME ~aborted', NEW k \in Ahead PROVE sent[k].end > got + n
      BY <3>2, <1>5, <1>10
    <3>. QED BY <3>1, <3>2, <2>1, <1>4, <1>10 DEF IInv, TakenInv
  <2>. QED BY <2>3, <2>4, <2>5, <1>8 DEF IInv
<1>11. CASE /\ full_packet' = <<>> /\ taken' = taken /\ last' = last
            /\ m.found = "nothing"
  <2>1. Ahead' = Ahead
    BY <1>4, <1>11 DEF Ahead
  <2>2. <<>> \in Seq(Byte) /\ Len(<<>>) = 0
    OBVIOUS
  <2>3. Dropped' = got + n
    <3>1. Dropped' = (got + n) - 0
      BY <1>4, <1>11, <2>2 DEF Dropped
    <3>. QED BY <3>1, <1>3
  <2>4. Stream' = rest
    <3>1. <<>> \o rest = rest
      BY <1>2, ConcatEmptySeq
    <3>. QED BY <3>1, <1>4, <1>11 DEF Stream
  <2>5. /\ DOMAIN rest = 1 .. w - n
        /\ \A k \in 1 .. w - n : rest[k] = Stream[k + N]
    <3>1. DOMAIN rest = 1 .. w - n
      BY <1>2, LenProperties
    <3>2. \A k \in Len(data) + 1 .. Len(data) + Len(rest) :
            (data \o rest)[k] = rest[k - Len(data)]
      BY ONLY <1>2, ConcatFacts
    <3>3. ASSUME NEW k \in 1 .. w - n PROVE rest[k] = Stream[k + N]
      <4>1. k + N \in N + 1 .. N + (w - n) /\ (k + N) - N = k
        BY <1>3
      <4>. QED BY <4>1, <3>2, <1>2 DEF N
    <3>. QED BY <3>1, <3>3
  <2>6. StreamTypes'
    <3>1. got' \in Nat /\ full_packet' \in Seq(Byte) /\ wire' \in Seq(Byte)
      BY <1>2, <1>3, <1>4, <1>11, <2>2
    <3>. QED BY <3>1, <1>4, <1>11 DEF IInv, StreamTypes
  <2>7. StreamInv'
    <3>1. ASSUME NEW j \in Ahead
          PROVE  /\ StartOf(sent[j]) >= got + n
                 /\ \A k \in DOMAIN sent[j].bytes :
                      rest[StartOf(sent[j]) - (got + n) + k] = sent[j].bytes[k]
      <4>1. StartOf(sent[j]) >= got + n
        BY <1>5, <1>11
      <4>2. ASSUME NEW k \in DOMAIN sent[j].bytes
            PROVE  rest[StartOf(sent[j]) - (got + n) + k] = sent[j].bytes[k]
        <5> DEFINE s == StartOf(sent[j])
        <5>1. s - d + k \in 1 .. t /\ Stream[s - d + k] = sent[j].bytes[k]
          BY <1>1, InStream DEF IInv, StreamInv, d
        <5>2. s \in Int /\ k \in Nat /\ k >= 1 /\ s >= got + n
          <6>1. j \in DOMAIN sent /\ sent[j].bytes \in Seq(Byte)
            BY SentTypes DEF IInv, Ahead
          <6>. QED BY <6>1, <4>1, <1>7, LenProperties
        <5> HIDE DEF s
        <5>3. s - (got + n) + k \in 1 .. w - n /\ (s - (got + n) + k) + N = s - d + k
          BY <5>1, <5>2, <1>3
        <5>. QED BY <5>1, <5>3, <2>5 DEF s
      <4>. QED BY <4>1, <4>2
    <3>2. ASSUME NEW k \in 1 .. w - n, rest[k] = STX
          PROVE  \E j \in Ahead : StartOf(sent[j]) < k + (got + n) /\ k + (got + n) <= sent[j].end
      <4>1. k + N \in 1 .. t /\ k + N + d = k + (got + n)
        BY <1>3
      <4>2. Stream[k + N] = STX
        BY <3>2, <2>5
      <4>3. \E j \in Ahead : StartOf(sent[j]) < k + N + d /\ k + N + d <= sent[j].end
        BY <4>1, <4>2, <1>1 DEF IInv, StreamInv, d
      <4>. QED BY <4>1, <4>3
    <3>. QED BY <3>1, <3>2, <2>1, <2>3, <2>4, <2>5, <1>4 DEF StreamInv, StartOf
  <2>8. TakenInv'
    <3>1. ASSUME NEW i \in 1 .. taken PROVE sent[i].end <= got + n
      <4>1. i \in DOMAIN sent
        BY <1>1, <1>3
      <4>2. sent[i].end <= got
        BY DEF IInv, TakenInv
      <4> DEFINE x == sent[i].end
      <4>3. x \in Nat
        BY <4>1, <1>7
      <4> HIDE DEF x
      <4>4. x <= got => x <= got + n
        BY <1>3, <4>3
      <4>. QED BY <4>2, <4>4 DEF x
    <3>2. ASSUME NEW k \in Ahead PROVE sent[k].end > got + n
      <4>1. StartOf(sent[k]) >= got + n /\ k \in DOMAIN sent
        BY <1>5, <1>11 DEF Ahead
      <4>. QED BY <4>1, <1>3, <1>7
    <3>. QED BY <3>1, <3>2, <2>1, <1>4, <1>11 DEF IInv, TakenInv
  <2>. QED BY <2>6, <2>7, <2>8, <1>8 DEF IInv
<1>12. CASE /\ full_packet' = Without(data, m) /\ taken' = taken + 1
            /\ last' = SubSeq(data, m.at, m.at + m.len - 1) /\ m.found = "message"
  <2> DEFINE left == Without(data, m)
             at == m.at
             len == m.len
             s1 == StartOf(next)
             e1 == next.end
  <2>1. /\ taken + 1 \in Ahead /\ taken + 1 \in DOMAIN sent
        /\ at = s1 - d + 1 /\ at >= 1 /\ len = Len(next.bytes)
        /\ e1 <= got + n /\ at + len - 1 <= N /\ last' = next.bytes
    BY <1>5, <1>12 DEF Ahead
  <2>2. /\ e1 \in Nat /\ s1 \in Int /\ s1 = e1 - len /\ s1 < e1 /\ len \in Nat
    BY <2>1, <1>7
  <2> HIDE DEF s1, e1, at, len
  <2>3. /\ at \in Nat /\ at >= 1 /\ N - len \in Nat /\ at - 1 <= N - len
        /\ s1 >= d /\ at = s1 - d + 1 /\ e1 = s1 + len /\ e1 >= d + len
        /\ s1 \in Int /\ e1 \in Int /\ len \in Nat /\ d \in Int
    <3>1. at = s1 - d + 1 /\ at >= 1 /\ at + len - 1 <= N
      BY <2>1
    <3>. QED BY <3>1, <2>2, <1>3
  <2>4. /\ left \in Seq(Byte) /\ Len(left) = N - len
        /\ \A k \in 1 .. at - 1 : left[k] = data[k]
        /\ \A k \in at .. N - len : left[k] = data[k + len]
    <3>1. at \in Nat \ {0} /\ len \in Nat /\ at + len - 1 <= Len(data)
      BY <2>1, <2>2, <2>3 DEF N
    <3>2. left = SubSeq(data, 1, at - 1) \o SubSeq(data, at + len, Len(data))
      BY DEF Without, at, len
    <3> HIDE DEF left
    <3>. QED BY <3>1, <3>2, <1>2, CutFacts DEF N
  <2> HIDE DEF left
  <2>5. Stream' = left \o rest /\ full_packet' = left
    BY <1>4, <1>12 DEF Stream, left
  <2>6. /\ DOMAIN Stream' = 1 .. t - len
        /\ \A k \in 1 .. at - 1 : Stream'[k] = Stream[k]
        /\ \A k \in at .. t - len : Stream'[k] = Stream[k + len]
    <3>1. /\ left \o rest \in Seq(Byte) /\ Len(left \o rest) = Len(left) + Len(rest)
          /\ \A k \in 1 .. Len(left) : (left \o rest)[k] = left[k]
          /\ \A k \in Len(left) + 1 .. Len(left) + Len(rest) :
               (left \o rest)[k] = rest[k - Len(left)]
      <4>1. left \in Seq(Byte) /\ rest \in Seq(Byte)
        BY <1>2, <2>4
      <4>. QED BY ONLY <4>1, ConcatFacts
    <3>2. /\ \A k \in 1 .. Len(data) : (data \o rest)[k] = data[k]
          /\ \A k \in Len(data) + 1 .. Len(data) + Len(rest) :
               (data \o rest)[k] = rest[k - Len(data)]
      <4>1. data \in Seq(Byte) /\ rest \in Seq(Byte)
        BY <1>2
      <4>. QED BY ONLY <4>1, ConcatFacts
    <3> DEFINE q == w - n
               l == N - len
               new == left \o rest
    <3>3. /\ q \in Nat /\ l \in Nat /\ t = N + q /\ t - len = l + q
          /\ at \in Nat /\ at >= 1 /\ at - 1 <= l /\ len \in Nat /\ N = l + len /\ N \in Nat
      BY <1>3, <2>2, <2>3
    <3>4. /\ \A k \in 1 .. l : new[k] = left[k]
          /\ \A k \in l + 1 .. l + q : new[k] = rest[k - l]
          /\ new \in Seq(Byte) /\ Len(new) = l + q
      BY <3>1, <2>4, <1>2
    <3>5. /\ \A k \in 1 .. N : Stream[k] = data[k]
          /\ \A k \in N + 1 .. N + q : Stream[k] = rest[k - N]
      BY <3>2, <1>2 DEF N
    <3>6. DOMAIN new = 1 .. l + q
      BY <3>4, LenProperties
    <3>7. \A k \in at .. l : left[k] = data[k + len]
      BY <2>4
    <3> HIDE DEF q, l, new
    <3>8. ASSUME NEW k \in 1 .. at - 1 PROVE new[k] = Stream[k]
      <4>1. k \in 1 .. l /\ k \in 1 .. N
        BY <3>3
      <4>. QED BY <4>1, <3>4, <3>5, <2>4
    <3>9. ASSUME NEW k \in at .. l + q PROVE new[k] = Stream[k + len]
      <4>1. CASE k \in at .. l
        <5>1. k \in 1 .. l /\ k + len \in 1 .. N
          BY <4>1, <3>3
        <5>. QED BY <4>1, <5>1, <3>4, <3>5, <3>7
      <4>2. CASE k > l
        <5>1. k \in l + 1 .. l + q /\ k + len \in N + 1 .. N + q /\ (k + len) - N = k - l
          BY <4>2, <3>3
        <5>. QED BY <5>1, <3>4, <3>5
      <4>. QED BY <4>1, <4>2, <3>3
    <3>. QED BY <3>3, <3>6, <3>8, <3>9, <2>5 DEF new
  <2>7. Dropped' = d + len
    <3>1. Dropped' = (got + n) - (N - len)
      BY <2>4, <2>5, <1>4 DEF Dropped
    <3>. QED BY <3>1, <1>3, <2>2
  <2>8. Ahead' = taken + 2 .. Len(sent)
    <3>1. DOMAIN sent' = 1 .. Len(sent) /\ taken' = taken + 1
      BY <1>1, <1>4, <1>12
    <3>. QED BY <3>1, <1>3 DEF Ahead
  <2>9. ASSUME NEW j \in Ahead'
        PROVE  /\ j \in Ahead /\ j \in DOMAIN sent /\ e1 <= StartOf(sent[j])
               /\ StartOf(sent[j]) \in Int /\ sent[j].end \in Nat
    <3>1. j \in Ahead /\ j \in DOMAIN sent /\ taken + 1 < j
      BY <2>8, <1>1, <1>3
    <3>2. e1 <= StartOf(sent[j])
      BY <3>1, <2>1 DEF IInv, SentInv, e1
    <3>. QED BY <3>1, <3>2, <1>7
  <2>10. StreamTypes'
    <3>1. got' \in Nat /\ full_packet' \in Seq(Byte) /\ wire' \in Seq(Byte)
      BY <1>2, <1>3, <1>4, <2>4, <2>5
    <3>2. taken' \in 0 .. Len(sent')
      BY <2>1, <1>1, <1>3, <1>4, <1>12
    <3>. QED BY <3>1, <3>2, <1>4 DEF IInv, StreamTypes
  <2>11. StreamInv'
    <3>1. ASSUME NEW j \in Ahead'
          PROVE  /\ StartOf(sent[j]) >= d + len
                 /\ \A k \in DOMAIN sent[j].bytes :
                      Stream'[StartOf(sent[j]) - (d + len) + k] = sent[j].bytes[k]
      <4> DEFINE s == StartOf(sent[j])
      <4>1. s \in Int /\ s >= e1 /\ j \in Ahead /\ j \in DOMAIN sent
        BY <2>9, <2>2
      <4>2. ASSUME NEW k \in DOMAIN sent[j].bytes
            PROVE  Stream'[s - (d + len) + k] = sent[j].bytes[k]
        <5>1. s - d + k \in 1 .. t /\ Stream[s - d + k] = sent[j].bytes[k]
          BY <4>1, <1>1, InStream DEF IInv, StreamInv, d
        <5>2. k \in Nat /\ k >= 1
          <6>1. sent[j].bytes \in Seq(Byte)
            BY <4>1, SentTypes DEF IInv
          <6>. QED BY <6>1, LenProperties
        <5> HIDE DEF s
        <5>3. /\ s - (d + len) + k \in at .. t - len
              /\ (s - (d + len) + k) + len = s - d + k
          BY <5>1, <5>2, <4>1, <1>3, <2>1, <2>2
        <5>. QED BY <5>1, <5>3, <2>6
      <4> HIDE DEF s
      <4>3. s >= d + len
        BY <4>1, <2>3
      <4>. QED BY <4>2, <4>3 DEF s
    <3>2. ASSUME NEW k \in 1 .. t - len, Stream'[k] = STX
          PROVE  \E j \in Ahead' : /\ StartOf(sent[j]) < k + (d + len)
                                   /\ k + (d + len) <= sent[j].end
      <4>1. CASE k \in at .. t - len
        <5>1. k + len \in 1 .. t /\ k + len + d = k + (d + len) /\ k + (d + len) > e1
          BY <4>1, <2>3, <1>3
        <5>2. Stream[k + len] = STX
          BY <3>2, <4>1, <2>6
        <5>3. PICK j \in Ahead : StartOf(sent[j]) < k + len + d /\ k + len + d <= sent[j].end
          BY <5>1, <5>2, <1>1 DEF IInv, StreamInv, d
        <5>4. j # taken + 1
          BY <5>1, <5>3, <2>2, <1>3 DEF e1
        <5>5. j \in Ahead'
          BY <5>4, <2>8, <1>1, <1>3
        <5>. QED BY <5>1, <5>3, <5>5
      <4>2. CASE k \in 1 .. at - 1
        <5>1. k \in 1 .. t /\ Stream[k] = STX
          <6>1. k \in 1 .. t
            BY <4>2, <2>3, <1>3
          <6>2. Stream'[k] = Stream[k]
            BY <4>2, <2>6
          <6>. QED BY <6>1, <6>2, <3>2
        <5>2. PICK j \in Ahead : StartOf(sent[j]) < k + d
          BY <5>1, <1>1 DEF IInv, StreamInv, d
        <5>3. StartOf(sent[j]) \in Int /\ StartOf(sent[j]) >= s1
          <6>1. CASE j = taken + 1
            BY <6>1, <2>2 DEF s1
          <6>2. CASE j # taken + 1
            <7>1. j \in Ahead'
              BY <6>2, <2>8, <1>1, <1>3
            <7>. QED BY <7>1, <2>9, <2>2
          <6>. QED BY <6>1, <6>2
        <5>. QED BY <5>2, <5>3, <4>2, <2>3
      <4>. QED BY <4>1, <4>2, <2>3, <1>3
    <3>. QED BY <3>1, <3>2, <2>6, <2>7, <1>4 DEF StreamInv, StartOf
  <2>12. TakenInv'
    <3>1. ASSUME NEW i \in 1 .. taken + 1 PROVE sent[i].end <= got + n
      <4>1. CASE i = taken + 1
        BY <4>1, <2>1 DEF e1
      <4>2. CASE i \in 1 .. taken
        <5>1. i \in DOMAIN sent /\ sent[i].end <= got
          BY <4>2, <1>1, <1>3 DEF IInv, TakenInv
        <5>. QED BY <5>1, <1>3, <1>7
      <4>. QED BY <4>1, <4>2, <1>3
    <3>2. ASSUME ~burst', NEW j \in Ahead', sent[j].end <= got + n PROVE FALSE
      <4>1. EndedBy(got) = taken
        <5>1. taken \in 0 .. Len(sent) /\ \A i \in 1 .. taken : sent[i].end <= got
          BY <1>3 DEF IInv, TakenInv
        <5>2. \A i \in DOMAIN sent : i > taken => sent[i].end > got
          BY <3>2, <1>4, <1>9 DEF IInv, TakenInv, Ahead
        <5>. QED BY <5>1, <5>2, <1>3, EndedFacts
      <4>2. ASSUME NEW i \in 1 .. j PROVE sent[i].end <= got + n
        <5>1. i \in DOMAIN sent /\ j \in DOMAIN sent /\ i \in Nat /\ j \in Nat /\ i <= j
          BY <2>8, <1>1, <1>3
        <5>2. CASE i = j
          BY <5>2, <3>2
        <5>3. CASE i < j
          <6>1. sent[i].end <= StartOf(sent[j])
            BY <5>1, <5>3 DEF IInv, SentInv
          <6>2. /\ StartOf(sent[j]) < sent[j].end /\ StartOf(sent[j]) \in Int
                /\ sent[j].end \in Nat /\ sent[i].end \in Nat
            BY <5>1, <1>7
          <6> DEFINE a == sent[i].end
                     b == StartOf(sent[j])
                     c == sent[j].end
          <6>3. a <= b /\ b < c /\ c <= got + n /\ a \in Nat /\ b \in Int /\ c \in Nat
            BY <6>1, <6>2, <3>2
          <6> HIDE DEF a, b, c
          <6>4. a <= got + n
            BY <6>3, <1>3
          <6>. QED BY <6>4 DEF a
        <5>. QED BY <5>1, <5>2, <5>3
      <4>3. j \in 0 .. Len(sent) /\ got + n \in Nat /\ j >= taken + 2
        BY <2>8, <1>3
      <4>4. EndedBy(got + n) \in Nat /\ EndedBy(got + n) >= j
        BY <4>2, <4>3, EndedFacts
      <4>. QED BY <4>1, <4>3, <4>4, <3>2, <1>3, <1>9
    <3>3. \A j \in Ahead' : ~burst' => sent[j].end > got + n
      BY <3>2, <2>9, <1>3
    <3>4. last' = sent[taken + 1].bytes
      BY <2>1
    <3>. QED BY <3>1, <3>3, <3>4, <1>4, <1>12 DEF TakenInv
  <2>. QED BY <2>10, <2>11, <2>12, <1>8 DEF IInv
<1>. QED BY <1>6, <1>10, <1>11, <1>12

LEMMA StepInv == IInv /\ [Next]_vars => IInv'
<1> SUFFICES ASSUME IInv, [Next]_vars PROVE IInv'
  OBVIOUS
<1>1. ASSUME NEW payload \in Payloads, Send(payload) PROVE IInv'
  BY <1>1, SendInv
<1>2. ASSUME NEW byte \in Noise, Disturb(byte) PROVE IInv'
  BY <1>2, DisturbInv
<1>3. ASSUME NEW n \in 1 .. Len(wire), readData(n) PROVE IInv'
  BY <1>3, ReadInv
<1>4. ASSUME NEW n \in 1 .. Len(wire), readTooMuch(n) PROVE IInv'
  BY <1>4 DEF readTooMuch, IInv, StreamTypes, SentInv, StreamInv, TakenInv, Formed, StartOf,
              Ahead, Stream, Dropped
<1>5. CASE UNCHANGED vars
  BY <1>5 DEF vars, IInv, StreamTypes, SentInv, StreamInv, TakenInv, Formed, StartOf,
              Ahead, Stream, Dropped
<1>. QED BY <1>1, <1>2, <1>3, <1>4, <1>5 DEF Next

(* The parser takes the messages of the line out whole and in turn.        *)
LEMMA InvInTurn == IInv => MessagesInTurn
<1> SUFFICES ASSUME IInv PROVE MessagesInTurn
  OBVIOUS
<1>1. got \in Nat /\ taken \in 0 .. Len(sent) /\ taken \in Nat
  BY PlaceTypes
<1>2. \A i \in 1 .. taken : sent[i].end <= got
  BY DEF IInv, TakenInv
<1>3. EndedBy(got) \in Nat /\ EndedBy(got) >= taken
  BY <1>1, <1>2, EndedFacts
<1>4. ~burst /\ ~aborted => taken = EndedBy(got)
  <2> SUFFICES ASSUME ~burst, ~aborted PROVE taken = EndedBy(got)
    OBVIOUS
  <2>1. \A i \in DOMAIN sent : i > taken => sent[i].end > got
    BY DEF IInv, TakenInv, Ahead
  <2>. QED BY <2>1, <1>1, <1>2, EndedFacts
<1>5. FramingKept
  BY <1>1 DEF FramingKept, IInv, TakenInv
<1>. QED BY <1>1, <1>3, <1>4, <1>5 DEF MessagesInTurn, KeepsUp

(* Whatever the payloads hold and however the line is cut into reads,      *)
(* parser() takes the messages out whole and in the order they were sent,  *)
(* never before their end has come, and none is left behind by a call      *)
(* while no read ends two.                                                 *)
THEOREM MessagesTaken == Spec => []MessagesInTurn
<1>1. Init => IInv
  BY InitInv
<1>2. IInv /\ [Next]_vars => IInv'
  BY StepInv
<1>3. IInv => MessagesInTurn
  BY InvInTurn
<1>. QED BY <1>1, <1>2, <1>3, PTL DEF Spec

-----------------------------------------------------------------------------
(* The units the decoder gets.                                             *)

Cameras    == [slices : {1, 2}, high : {0, 1, 3}, low : {0, 1}, bundles : BOOLEAN]
NalHeaders == [high : {0, 1, 3}, low : {0, 1}, type : {1, 7, 32}]
Nal        == [header : NalHeaders, unit : Nat, body : Seq(Nat \X Nat)]

(* A parameter set is never cut into fragments, nor is what goes into an   *)
(* aggregation packet.                                                     *)
UnitTypes ==
  /\ codec \in {"H264", "H265"}
  /\ camera \in Cameras
  /\ unit \in Nat /\ pieces \in 1 .. MaxParts /\ piece \in 1 .. pieces
  /\ IsSet(unit) => pieces = 1
  /\ bundled \in BOOLEAN /\ (bundled => camera.bundles /\ pieces = 1)
  /\ wanted \in BOOLEAN /\ is_start \in BOOLEAN /\ unitAborted \in BOOLEAN
  /\ lost \in Nat /\ nals \in Seq(Nal) /\ marks \in Seq(Nat)

LastNal == nals[Len(nals)]
Open    == nals # <<>> /\ LastNal.unit = unit   \* the NAL being sent was begun

(* Nothing reaches the decoder before a parameter set, and no unit before  *)
(* its first packet.                                                       *)
StartedInv ==
  /\ ~is_start => nals = <<>> /\ marks = <<>> /\ lost = 0
  /\ is_start => wanted /\ nals # <<>>
  /\ \A i \in DOMAIN nals : nals[i].unit <= unit /\ (piece = 1 => nals[i].unit < unit)

(* Without a loss the last NAL is the one before, or the one being sent    *)
(* with all its packets so far.                                            *)
WholeInv ==
  lost = 0 /\ is_start /\ ~unitAborted =>
    IF piece = 1 THEN LastNal.unit = unit - 1
                 ELSE LastNal.unit = unit /\ Len(LastNal.body) = piece - 1

(* A picture that was begun still has its mark to come; one whose first    *)
(* packet was lost has cost a loss already.                                *)
MarksInv ==
  camera.slices = 1 /\ ~unitAborted /\ is_start =>
    IF piece = 1 THEN Begun - Len(marks) \in -lost .. lost
    ELSE IF Open THEN (Begun - Len(marks)) - 1 \in -lost .. lost
    ELSE lost >= 1 /\ Begun - Len(marks) \in -(lost - 1) .. lost - 1

UnitInv == UnitTypes /\ StartedInv /\ WholeInv /\ MarksInv /\ UnitsWhole /\ AbortsOnSlices

BegunIn(s) == {i \in DOMAIN s : ~IsSet(s[i].unit)}

LEMMA UnitSeqs ==
  ASSUME NEW s \in Seq(Nal)
  PROVE  /\ Len(s) \in Nat /\ DOMAIN s = 1 .. Len(s)
         /\ \A i \in 1 .. Len(s) : s[i] \in Nal
         /\ s # <<>> <=> Len(s) >= 1
         /\ IsFiniteSet(BegunIn(s)) /\ Cardinality(BegunIn(s)) \in Nat
<1>1. Len(s) \in Nat /\ DOMAIN s = 1 .. Len(s)
  BY LenProperties
<1>2. \A i \in 1 .. Len(s) : s[i] \in Nal
  BY <1>1, ElementOfSeq
<1>3. s # <<>> <=> Len(s) >= 1
  <2>1. s = <<>> <=> Len(s) = 0
    BY EmptySeq
  <2>. QED BY <1>1, <2>1
<1>4. IsFiniteSet(DOMAIN s)
  BY <1>1, FS_Interval
<1>5. BegunIn(s) \subseteq DOMAIN s
  BY DEF BegunIn
<1>. QED BY <1>1, <1>2, <1>3, <1>4, <1>5, FS_Subset, FS_CardinalityType

LEMMA Began ==
  ASSUME NEW s \in Seq(Nal), NEW nal \in Nal
  PROVE  LET z == Append(s, nal)
         IN  /\ z \in Seq(Nal) /\ Len(z) = Len(s) + 1 /\ DOMAIN z = 1 .. Len(s) + 1 /\ z # <<>>
             /\ \A i \in 1 .. Len(s) : z[i] = s[i]
             /\ z[Len(s) + 1] = nal
             /\ Cardinality(BegunIn(z))
                  = Cardinality(BegunIn(s)) + IF IsSet(nal.unit) THEN 0 ELSE 1
<1> DEFINE z == Append(s, nal)
           n == Len(s)
<1>1. /\ z \in Seq(Nal) /\ z # <<>> /\ Len(z) = n + 1
      /\ \A i \in 1 .. n : z[i] = s[i]
      /\ z[n + 1] = nal
  BY AppendProperties
<1>2. /\ n \in Nat /\ DOMAIN s = 1 .. n
      /\ IsFiniteSet(BegunIn(s)) /\ Cardinality(BegunIn(s)) \in Nat
  BY UnitSeqs
<1> HIDE DEF z
<1>3. DOMAIN z = 1 .. n + 1
  BY <1>1, LenProperties
<1> HIDE DEF n
<1>4. BegunIn(z) = IF IsSet(nal.unit) THEN BegunIn(s) ELSE BegunIn(s) \cup {n + 1}
  <2>1. ASSUME NEW i
        PROVE  i \in BegunIn(z) <=> i \in BegunIn(s) \/ (i = n + 1 /\ ~IsSet(nal.unit))
    <3>1. i \in 1 .. n + 1 <=> i \in 1 .. n \/ i = n + 1
      BY <1>2
    <3>2. n + 1 \notin 1 .. n
      BY <1>2
    <3>. QED BY <1>1, <1>2, <1>3, <3>1, <3>2 DEF BegunIn
  <2>. QED BY <2>1
<1>5. n + 1 \notin BegunIn(s)
  <2>1. n + 1 \notin 1 .. n
    BY <1>2
  <2>. QED BY <2>1, <1>2 DEF BegunIn
<1>6. Cardinality(BegunIn(z)) = Cardinality(BegunIn(s)) + IF IsSet(nal.unit) THEN 0 ELSE 1
  <2>1. Cardinality(BegunIn(s) \cup {n + 1}) = Cardinality(BegunIn(s)) + 1
    BY <1>2, <1>5, FS_AddElement
  <2>. QED BY <1>2, <1>4, <2>1
<1>. QED BY <1>1, <1>3, <1>6 DEF z, n

LEMMA WentOn ==
  ASSUME NEW s \in Seq(Nal), s # <<>>, NEW pair \in Nat \X Nat
  PROVE  LET z == [s EXCEPT ![Len(s)].body = Append(@, pair)]
         IN  /\ z \in Seq(Nal) /\ Len(z) = Len(s) /\ DOMAIN z = DOMAIN s /\ z # <<>>
             /\ \A i \in DOMAIN s : z[i].unit = s[i].unit /\ z[i].header = s[i].header
             /\ \A i \in DOMAIN s : i # Len(s) => z[i].body = s[i].body
             /\ z[Len(s)].body = Append(s[Len(s)].body, pair)
             /\ BegunIn(z) = BegunIn(s)
<1> DEFINE n == Len(s)
           z == [s EXCEPT ![n].body = Append(@, pair)]
<1>1. /\ n \in Nat /\ n >= 1 /\ DOMAIN s = 1 .. n
      /\ \A i \in 1 .. n : s[i] \in Nal
  BY UnitSeqs
<1> HIDE DEF n
<1>2. n \in 1 .. n
  BY <1>1
<1>3. \A i \in 1 .. n : s[i].body \in Seq(Nat \X Nat) /\ s[i].unit \in Nat /\ s[i].header \in NalHeaders
  BY <1>1 DEF Nal
<1> DEFINE b == Append(s[n].body, pair)
<1>4. b \in Seq(Nat \X Nat)
  BY <1>2, <1>3, AppendProperties
<1>5. z = [s EXCEPT ![n] = [s[n] EXCEPT !.body = b]]
  OBVIOUS
<1> HIDE DEF b
<1> DEFINE endNal == [s[n] EXCEPT !.body = b]
<1>6. endNal \in Nal /\ endNal.unit = s[n].unit /\ endNal.header = s[n].header /\ endNal.body = b
  <2>1. s[n] \in Nal
    BY <1>1, <1>2
  <2>. QED BY <2>1, <1>4 DEF Nal
<1> HIDE DEF endNal
<1>7. z = [i \in 1 .. n |-> IF i = n THEN endNal ELSE s[i]]
  <2>1. s = [i \in 1 .. n |-> s[i]]
    <3>1. s \in [1 .. n -> Nal]
      BY LenProperties DEF n
    <3>. QED BY <3>1
  <2>. QED BY <1>1, <1>2, <1>5, <2>1 DEF endNal
<1> HIDE DEF z
<1>8. /\ DOMAIN z = 1 .. n
      /\ \A i \in 1 .. n : z[i] = (IF i = n THEN endNal ELSE s[i])
  BY <1>7
<1>9. z \in Seq(Nal)
  <2>1. \A i \in 1 .. n : (IF i = n THEN endNal ELSE s[i]) \in Nal
    BY <1>1, <1>6
  <2>. QED BY <1>1, <1>7, <2>1, IsASeq
<1>10. Len(z) = n
  BY <1>1, <1>8, <1>9, LenProperties
<1>11. z # <<>>
  BY <1>1, <1>9, <1>10, UnitSeqs
<1>12. \A i \in 1 .. n : z[i].unit = s[i].unit /\ z[i].header = s[i].header
  BY <1>6, <1>8
<1>13. BegunIn(z) = BegunIn(s)
  BY <1>1, <1>8, <1>12 DEF BegunIn
<1>14. z[n].body = Append(s[n].body, pair)
  BY <1>2, <1>6, <1>8 DEF b
<1>15. \A i \in 1 .. n : i # n => z[i].body = s[i].body
  BY <1>8
<1>. QED BY <1>1, <1>9, <1>10, <1>11, <1>12, <1>13, <1>14, <1>15 DEF z, n

-----------------------------------------------------------------------------
(* The packets, one after the other.                                       *)

LEMMA PacketFacts ==
  ASSUME UnitTypes
  PROVE  /\ Packet.unit = unit /\ Packet.piece = piece
         /\ Packet.kind \in {"single", "start", "middle", "end", "bundle"}
         /\ Packet.kind = "single" <=> pieces = 1 /\ ~bundled
         /\ Packet.kind = "bundle" <=> bundled
         /\ Packet.kind = "start"  <=> pieces > 1 /\ piece = 1
         /\ Packet.kind = "end"    <=> pieces > 1 /\ piece = pieces
         /\ Packet.mark <=> piece = pieces /\ Closes(unit)
         /\ Packet.type = NalHeader(unit).type
         /\ Packet.key \in [high : {0, 1, 3}, low : {0, 1}, type : {1, 7, 32, 24, 28, 48, 49}]
         /\ Packet.key.high = camera.high /\ Packet.key.low = camera.low
         /\ pieces = 1 /\ ~bundled => Packet.key = NalHeader(unit)
         /\ NalHeader(unit) \in NalHeaders
         /\ Packet.key = StartKey => pieces = 1 /\ ~bundled
<1>1. /\ codec \in {"H264", "H265"}
      /\ camera \in Cameras
      /\ unit \in Nat /\ pieces \in Nat /\ pieces >= 1 /\ piece \in 1 .. pieces
      /\ bundled => pieces = 1
  BY UnitConstants DEF UnitTypes
<1>2. NalHeader(unit) = [high |-> camera.high, low |-> camera.low,
                         type |-> IF IsSet(unit) THEN ParamType ELSE 1]
  BY DEF NalHeader
<1>3. ParamType \in {7, 32} /\ FragType \in {28, 49} /\ BundleType \in {24, 48}
  BY <1>1 DEF ParamType, FragType, BundleType
<1>4. NalHeader(unit) \in NalHeaders
  BY <1>1, <1>2, <1>3 DEF NalHeaders, Cameras
<1>5. /\ Packet.unit = unit /\ Packet.piece = piece
      /\ Packet.kind = IF bundled THEN "bundle" ELSE IF pieces = 1 THEN "single" ELSE IF piece = 1 THEN "start"
                       ELSE IF piece = pieces THEN "end" ELSE "middle"
      /\ Packet.mark = (piece = pieces /\ Closes(unit))
      /\ Packet.type = NalHeader(unit).type
      /\ Packet.key = IF bundled THEN [NalHeader(unit) EXCEPT !.type = BundleType]
                      ELSE IF pieces = 1 THEN NalHeader(unit)
                      ELSE [NalHeader(unit) EXCEPT !.type = FragType]
  BY DEF Packet
<1>6. /\ NalHeader(unit).high = camera.high /\ NalHeader(unit).low = camera.low
  BY <1>2
<1>7. /\ Packet.key \in [high : {0, 1, 3}, low : {0, 1}, type : {1, 7, 32, 24, 28, 48, 49}]
      /\ Packet.key.high = camera.high /\ Packet.key.low = camera.low
      /\ pieces # 1 => Packet.key.type = FragType
      /\ bundled => Packet.key.type = BundleType
  <2>1. CASE bundled
    <3>1. Packet.key = [NalHeader(unit) EXCEPT !.type = BundleType] /\ pieces = 1
      BY <1>1, <1>5, <2>1
    <3>. QED BY <1>3, <1>4, <1>6, <3>1 DEF NalHeaders
  <2>2. CASE ~bundled /\ pieces = 1
    BY <1>4, <1>5, <1>6, <2>2 DEF NalHeaders
  <2>3. CASE ~bundled /\ pieces # 1
    <3>1. Packet.key = [NalHeader(unit) EXCEPT !.type = FragType]
      BY <1>5, <2>3
    <3>. QED BY <1>3, <1>4, <1>6, <2>3, <3>1 DEF NalHeaders
  <2>. QED BY <2>1, <2>2, <2>3
<1>8. Packet.key = StartKey => pieces = 1 /\ ~bundled
  <2>1. StartKey.type \in {7, 32}
    BY DEF StartKey
  <2>. QED BY <1>3, <1>7, <2>1
<1>9. pieces > 1 <=> pieces # 1
  BY <1>1
<1>12. /\ Packet.kind = "single" <=> pieces = 1 /\ ~bundled
       /\ Packet.kind = "bundle" <=> bundled
       /\ Packet.kind = "start"  <=> pieces > 1 /\ piece = 1
       /\ Packet.kind \in {"single", "start", "middle", "end", "bundle"}
  BY <1>1, <1>5, <1>9
<1>10. Packet.kind = "end" <=> pieces > 1 /\ piece = pieces
  BY <1>1, <1>5, <1>9
<1>11. Packet.mark <=> piece = pieces /\ Closes(unit)
  BY <1>5
<1>. QED BY <1>4, <1>5, <1>7, <1>8, <1>10, <1>11, <1>12

LEMMA NextFacts ==
  ASSUME UnitTypes, NextPacket
  PROVE  /\ UNCHANGED <<codec, camera>> /\ ~unitAborted
         /\ unit' \in Nat /\ pieces' \in 1 .. MaxParts /\ piece' \in 1 .. pieces'
         /\ IsSet(unit') => pieces' = 1
         /\ bundled' \in BOOLEAN /\ (bundled' => camera'.bundles /\ pieces' = 1)
         /\ IF piece < pieces THEN piece' = piece + 1 /\ unit' = unit /\ pieces' = pieces
                              ELSE piece = pieces /\ unit' = unit + 1 /\ piece' = 1
         /\ piece \in Nat /\ pieces \in Nat /\ unit \in Nat /\ piece >= 1 /\ pieces >= piece
<1>1. /\ unit \in Nat /\ pieces \in 1 .. MaxParts /\ piece \in 1 .. pieces
      /\ IsSet(unit) => pieces = 1
      /\ bundled \in BOOLEAN /\ (bundled => camera.bundles /\ pieces = 1)
      /\ MaxParts \in Nat \ {0}
  BY UnitConstants DEF UnitTypes
<1>2. /\ UNCHANGED <<codec, camera>> /\ ~unitAborted
      /\ IF piece < pieces
         THEN piece' = piece + 1 /\ unit' = unit /\ pieces' = pieces /\ bundled' = bundled
         ELSE /\ unit' = unit + 1 /\ piece' = 1
              /\ pieces' \in IF IsSet(unit + 1) THEN {1} ELSE 1 .. MaxParts
              /\ bundled' \in BOOLEAN /\ (bundled' => camera.bundles /\ pieces' = 1)
  BY DEF NextPacket
<1>3. CASE piece < pieces
  BY <1>1, <1>2, <1>3
<1>4. CASE ~(piece < pieces)
  BY <1>1, <1>2, <1>4
<1>. QED BY <1>3, <1>4

(* What the parser does with a packet, by its place in its NAL.            *)
LEMMA ParseFacts ==
  ASSUME UnitTypes, StartedInv, ParsePacket
  PROVE  /\ UNCHANGED <<wanted, lost>> /\ is_start' \in BOOLEAN
         /\ ~is_start' => UNCHANGED <<nals, marks, unitAborted>>
         /\ is_start => is_start'
         /\ is_start' /\ ~is_start => Packet.key = StartKey
         /\ is_start' /\ ~Checked(Packet) => unitAborted' = TRUE /\ UNCHANGED <<nals, marks>>
         /\ is_start' /\ Checked(Packet) =>
              /\ UNCHANGED unitAborted
              /\ marks' = IF piece = pieces /\ Closes(unit) THEN Append(marks, unit) ELSE marks
              /\ piece = 1 =>
                   \E h \in [high : {0, 1, 3}, low : {0, 1}, type : {1, 7, 32}] :
                     /\ nals' = Append(nals, [header |-> h, unit |-> unit,
                                              body |-> <<<<unit, 1>>>>])
                     /\ camera.low = 0 => h = NalHeader(unit)
              /\ piece # 1 =>
                   nals' = [nals EXCEPT ![Len(nals)].body = Append(@, <<unit, piece>>)]
<1> DEFINE p == Packet
<1>1. /\ UNCHANGED <<wanted, lost>>
      /\ is_start' = (wanted /\ (is_start \/ p.key = StartKey))
      /\ IF is_start'
         THEN IF Checked(p)
              THEN /\ nals' = Pushed(p)
                   /\ marks' = IF p.mark THEN Append(marks, unit) ELSE marks
                   /\ UNCHANGED unitAborted
              ELSE unitAborted' = TRUE /\ UNCHANGED <<nals, marks>>
         ELSE UNCHANGED <<nals, marks, unitAborted>>
  BY DEF ParsePacket
<1>6. is_start => is_start'
  BY <1>1 DEF StartedInv
<1>2. /\ p.unit = unit /\ p.piece = piece
      /\ p.kind \in {"single", "start", "middle", "end", "bundle"}
      /\ p.kind = "single" <=> pieces = 1 /\ ~bundled
      /\ p.kind = "bundle" <=> bundled
      /\ p.kind = "start"  <=> pieces > 1 /\ piece = 1
      /\ p.mark <=> piece = pieces /\ Closes(unit)
      /\ p.type = NalHeader(unit).type
      /\ p.key \in [high : {0, 1, 3}, low : {0, 1}, type : {1, 7, 32, 24, 28, 48, 49}]
      /\ p.key.high = camera.high /\ p.key.low = camera.low
      /\ pieces = 1 /\ ~bundled => p.key = NalHeader(unit)
      /\ NalHeader(unit) \in NalHeaders
  BY PacketFacts
<1>3. /\ piece \in Nat /\ pieces \in Nat /\ piece >= 1 /\ pieces >= piece
      /\ camera.low \in {0, 1}
  BY UnitConstants DEF UnitTypes, Cameras
<1> HIDE DEF p
<1>4. CASE is_start' /\ Checked(p)
  <2>1. nals' = Pushed(p) /\ marks' = (IF p.mark THEN Append(marks, unit) ELSE marks)
        /\ UNCHANGED unitAborted
    BY <1>1, <1>4
  <2>0. ~bundled
    BY <1>2, <1>4 DEF Checked
  <2>2. CASE pieces = 1
    <3>1. piece = 1 /\ p.kind = "single"
      BY <1>2, <1>3, <2>0, <2>2
    <3>2. nals' = BeginNal(p.key, p)
      BY <2>1, <3>1 DEF Pushed
    <3>3. nals' = Append(nals, [header |-> NalHeader(unit), unit |-> unit, body |-> <<<<unit, 1>>>>])
      BY <1>2, <2>0, <2>2, <3>1, <3>2 DEF BeginNal
    <3>4. NalHeader(unit) \in [high : {0, 1, 3}, low : {0, 1}, type : {1, 7, 32}]
      BY <1>2 DEF NalHeaders
    <3>5. \E h \in [high : {0, 1, 3}, low : {0, 1}, type : {1, 7, 32}] :
            /\ nals' = Append(nals, [header |-> h, unit |-> unit, body |-> <<<<unit, 1>>>>])
            /\ camera.low = 0 => h = NalHeader(unit)
      BY <3>3, <3>4
    <3>. QED BY <1>1, <1>2, <1>4, <1>6, <2>1, <3>1, <3>5 DEF p
  <2>3. CASE pieces # 1 /\ piece = 1
    <3>1. p.kind = "start"
      BY <1>2, <1>3, <2>3
    <3>2. nals' = BeginNal(Rebuilt(p), p)
      BY <2>1, <3>1 DEF Pushed
    <3>3. nals' = Append(nals, [header |-> Rebuilt(p), unit |-> unit, body |-> <<<<unit, 1>>>>])
      BY <1>2, <2>3, <3>2 DEF BeginNal
    <3>4. Rebuilt(p) \in [high : {0, 1, 3}, low : {0, 1}, type : {1, 7, 32}]
      <4>1. p.key.high \in {0, 1, 3} /\ p.key.low \in {0, 1} /\ p.type \in {1, 7, 32}
        BY <1>2 DEF NalHeaders
      <4>. QED BY <4>1 DEF Rebuilt
    <3>5. camera.low = 0 => Rebuilt(p) = NalHeader(unit)
      BY <1>2 DEF Rebuilt, NalHeader
    <3>6. \E h \in [high : {0, 1, 3}, low : {0, 1}, type : {1, 7, 32}] :
            /\ nals' = Append(nals, [header |-> h, unit |-> unit, body |-> <<<<unit, 1>>>>])
            /\ camera.low = 0 => h = NalHeader(unit)
      BY <3>3, <3>4, <3>5
    <3>. QED BY <1>1, <1>2, <1>4, <1>6, <2>1, <2>3, <3>6 DEF p
  <2>4. CASE piece # 1
    <3>1. p.kind \notin {"single", "start"}
      BY <1>2, <1>3, <2>4
    <3>2. nals' = Continue(p)
      BY <2>1, <3>1 DEF Pushed
    <3>3. nals' = [nals EXCEPT ![Len(nals)].body = Append(@, <<unit, piece>>)]
      BY <1>2, <3>2 DEF Continue
    <3>. QED BY <1>1, <1>2, <1>4, <1>6, <2>1, <2>4, <3>3 DEF p
  <2>. QED BY <2>2, <2>3, <2>4
<1>5. CASE ~(is_start' /\ Checked(p))
  BY <1>1, <1>5, <1>6 DEF p
<1>. QED BY <1>4, <1>5 DEF p

LEMMA UnitTypesStep == UnitTypes /\ StartedInv /\ [UnitNext]_unitVars => UnitTypes'
<1> SUFFICES ASSUME UnitTypes, StartedInv, [UnitNext]_unitVars PROVE UnitTypes'
  OBVIOUS
<1> USE DEF UnitTypes
<1>1. ASSUME NextPacket
      PROVE  /\ codec' \in {"H264", "H265"}
             /\ camera' \in Cameras
             /\ unit' \in Nat /\ pieces' \in 1 .. MaxParts /\ piece' \in 1 .. pieces'
             /\ IsSet(unit') => pieces' = 1
             /\ bundled' \in BOOLEAN /\ (bundled' => camera'.bundles /\ pieces' = 1)
  BY <1>1, NextFacts
<1>2. CASE ParsePacket
  <2>1. NextPacket
    BY <1>2 DEF ParsePacket
  <2>2. /\ UNCHANGED <<wanted, lost>> /\ is_start' \in BOOLEAN
        /\ unitAborted' \in BOOLEAN
        /\ nals' = nals \/ (is_start' /\ Checked(Packet))
        /\ marks' = marks \/ marks' = Append(marks, unit)
    BY <1>2, ParseFacts
  <2>3. marks' \in Seq(Nat)
    <3>1. marks \in Seq(Nat) /\ unit \in Nat
      OBVIOUS
    <3>2. Append(marks, unit) \in Seq(Nat)
      BY ONLY <3>1, AppendProperties
    <3>. QED BY <2>2, <3>1, <3>2
  <2>4. nals' \in Seq(Nal)
    <3>1. CASE is_start' /\ Checked(Packet) /\ piece = 1
      <4>1. PICK h \in [high : {0, 1, 3}, low : {0, 1}, type : {1, 7, 32}] :
              nals' = Append(nals, [header |-> h, unit |-> unit, body |-> <<<<unit, 1>>>>])
        BY <1>2, <3>1, ParseFacts
      <4>2. [header |-> h, unit |-> unit, body |-> <<<<unit, 1>>>>] \in Nal
        BY DEF Nal, NalHeaders
      <4>. QED BY <4>1, <4>2, Began
    <3>2. CASE is_start' /\ Checked(Packet) /\ piece # 1
      <4>1. nals' = [nals EXCEPT ![Len(nals)].body = Append(@, <<unit, piece>>)]
        BY <1>2, <3>2, ParseFacts
      <4>2. <<unit, piece>> \in Nat \X Nat
        BY <2>1, NextFacts
      <4>3. nals # <<>>
        <5>1. is_start
          <6>1. ASSUME ~is_start PROVE FALSE
            <7>1. Packet.key = StartKey
              BY <1>2, <3>2, <6>1, ParseFacts
            <7>2. pieces = 1
              BY <7>1, PacketFacts
            <7>. QED BY <7>2, <3>2
          <6>. QED BY <6>1
        <5>. QED BY <5>1 DEF StartedInv
      <4>. QED BY <4>1, <4>2, <4>3, WentOn
    <3>. QED BY <2>2, <3>1, <3>2
  <2>. QED BY <1>1, <2>1, <2>2, <2>3, <2>4
<1>3. CASE LosePacket
  <2>1. NextPacket /\ lost' = lost + 1 /\ UNCHANGED <<wanted, is_start, nals, marks, unitAborted>>
    BY <1>3 DEF LosePacket
  <2>. QED BY <1>1, <2>1
<1>4. CASE Want
  BY <1>4 DEF Want
<1>5. CASE UNCHANGED unitVars
  BY <1>5 DEF unitVars
<1>. QED BY <1>2, <1>3, <1>4, <1>5 DEF UnitNext

(* The first packet that goes through is a parameter set, whole.           *)
LEMMA FirstIsSet ==
  ASSUME UnitTypes, StartedInv, ParsePacket, is_start', ~is_start
  PROVE  pieces = 1 /\ piece = 1 /\ Checked(Packet) /\ lost = 0 /\ marks = <<>> /\ nals = <<>>
<1>1. Packet.key = StartKey
  BY ParseFacts
<1>2. pieces = 1 /\ Packet.kind = "single"
  BY <1>1, PacketFacts
<1>3. piece = 1
  BY <1>2 DEF UnitTypes
<1>. QED BY <1>2, <1>3 DEF Checked, StartedInv

LEMMA StartedStep == UnitTypes /\ StartedInv /\ [UnitNext]_unitVars => StartedInv'
<1> SUFFICES ASSUME UnitTypes, StartedInv, [UnitNext]_unitVars PROVE StartedInv'
  OBVIOUS
<1>0. /\ nals \in Seq(Nal) /\ unit \in Nat
      /\ Len(nals) \in Nat /\ DOMAIN nals = 1 .. Len(nals)
      /\ \A i \in 1 .. Len(nals) : nals[i].unit \in Nat
  <2>1. \A i \in 1 .. Len(nals) : nals[i] \in Nal
    BY UnitSeqs DEF UnitTypes
  <2>. QED BY <2>1, UnitSeqs DEF UnitTypes, Nal
<1>1. ASSUME NextPacket
      PROVE  /\ unit' \in Nat /\ piece \in Nat /\ piece >= 1
             /\ \A u \in Nat : u <= unit => u <= unit' /\ (piece' = 1 => u < unit')
  <2>1. /\ unit \in Nat /\ piece \in Nat /\ piece >= 1 /\ pieces \in Nat
        /\ IF piece < pieces THEN piece' = piece + 1 /\ unit' = unit
                             ELSE unit' = unit + 1 /\ piece' = 1
    BY <1>1, NextFacts
  <2>. QED BY <2>1
<1>2. CASE ParsePacket
  <2>0. NextPacket
    BY <1>2 DEF ParsePacket
  <2>1. /\ UNCHANGED <<wanted, lost>> /\ is_start' \in BOOLEAN /\ (is_start => is_start')
        /\ ~is_start' => UNCHANGED <<nals, marks>>
        /\ is_start' /\ ~Checked(Packet) => UNCHANGED nals
        /\ is_start' => wanted
    BY <1>2, ParseFacts DEF ParsePacket
  <2>2. is_start' /\ (~Checked(Packet) \/ piece # 1) => is_start
    BY <1>2, <2>1, FirstIsSet DEF UnitTypes
  <2>3. CASE UNCHANGED nals
    <3>1. is_start' => nals # <<>>
      <4>1. CASE is_start' /\ Checked(Packet) /\ piece = 1
        <5>1. nals' # nals
          <6>1. PICK h \in [high : {0, 1, 3}, low : {0, 1}, type : {1, 7, 32}] :
                  nals' = Append(nals, [header |-> h, unit |-> unit, body |-> <<<<unit, 1>>>>])
            BY <1>2, <4>1, ParseFacts
          <6>2. [header |-> h, unit |-> unit, body |-> <<<<unit, 1>>>>] \in Nal
            BY <1>0 DEF Nal, NalHeaders
          <6>3. Len(nals') = Len(nals) + 1
            BY <1>0, <6>1, <6>2, Began
          <6>. QED BY <6>3, <1>0
        <5>. QED BY <5>1, <2>3
      <4>2. CASE ~(is_start' /\ Checked(Packet) /\ piece = 1)
        BY <4>2, <2>2 DEF StartedInv
      <4>. QED BY <4>1, <4>2
    <3>2. ~is_start' => marks' = <<>> /\ lost' = 0 /\ nals' = <<>>
      BY <2>1 DEF StartedInv
    <3>3. \A i \in DOMAIN nals' : nals'[i].unit <= unit' /\ (piece' = 1 => nals'[i].unit < unit')
      BY <1>0, <1>1, <2>0, <2>3 DEF StartedInv
    <3>. QED BY <2>1, <2>3, <3>1, <3>2, <3>3 DEF StartedInv
  <2>4. CASE is_start' /\ Checked(Packet) /\ piece = 1
    <3>1. PICK h \in [high : {0, 1, 3}, low : {0, 1}, type : {1, 7, 32}] :
            nals' = Append(nals, [header |-> h, unit |-> unit, body |-> <<<<unit, 1>>>>])
      BY <1>2, <2>4, ParseFacts
    <3> DEFINE nal == [header |-> h, unit |-> unit, body |-> <<<<unit, 1>>>>]
    <3>2. nal \in Nal /\ nal.unit = unit
      BY <1>0 DEF Nal, NalHeaders
    <3> HIDE DEF nal
    <3>3. /\ DOMAIN nals' = 1 .. Len(nals) + 1 /\ nals' # <<>>
          /\ \A i \in 1 .. Len(nals) : nals'[i] = nals[i]
          /\ nals'[Len(nals) + 1] = nal
      BY <1>0, <3>1, <3>2, Began DEF nal
    <3>4. ASSUME NEW i \in DOMAIN nals'
          PROVE  nals'[i].unit <= unit' /\ (piece' = 1 => nals'[i].unit < unit')
      <4>1. nals'[i].unit \in Nat /\ nals'[i].unit <= unit
        <5>1. CASE i \in 1 .. Len(nals)
          BY <1>0, <3>3, <5>1 DEF StartedInv
        <5>2. CASE i = Len(nals) + 1
          BY <1>0, <3>2, <3>3, <5>2
        <5>. QED BY <1>0, <3>3, <5>1, <5>2
      <4>. QED BY <4>1, <1>1, <2>0
    <3>. QED BY <2>1, <2>4, <3>3, <3>4 DEF StartedInv
  <2>5. CASE is_start' /\ Checked(Packet) /\ piece # 1
    <3>1. is_start /\ nals # <<>>
      BY <2>2, <2>5 DEF StartedInv
    <3>2. nals' = [nals EXCEPT ![Len(nals)].body = Append(@, <<unit, piece>>)]
      BY <1>2, <2>5, ParseFacts
    <3>3. <<unit, piece>> \in Nat \X Nat
      BY <1>0, <1>1, <2>0
    <3>4. /\ DOMAIN nals' = DOMAIN nals /\ nals' # <<>>
          /\ \A i \in DOMAIN nals : nals'[i].unit = nals[i].unit
      BY <1>0, <3>1, <3>2, <3>3, WentOn
    <3>5. \A i \in DOMAIN nals' : nals'[i].unit <= unit' /\ (piece' = 1 => nals'[i].unit < unit')
      BY <1>0, <1>1, <2>0, <3>4 DEF StartedInv
    <3>. QED BY <2>1, <2>5, <3>4, <3>5 DEF StartedInv
  <2>. QED BY <2>1, <2>3, <2>4, <2>5
<1>3. CASE LosePacket
  <2>1. NextPacket /\ is_start /\ UNCHANGED <<wanted, is_start, nals, marks>>
    BY <1>3 DEF LosePacket
  <2>. QED BY <1>0, <1>1, <2>1 DEF StartedInv
<1>4. CASE Want
  BY <1>4 DEF Want, StartedInv
<1>5. CASE UNCHANGED unitVars
  BY <1>5 DEF unitVars, StartedInv
<1>. QED BY <1>2, <1>3, <1>4, <1>5 DEF UnitNext

LEMMA AbortsStep == UnitTypes /\ StartedInv /\ AbortsOnSlices /\ [UnitNext]_unitVars => AbortsOnSlices'
<1> SUFFICES ASSUME UnitTypes, StartedInv, AbortsOnSlices, [UnitNext]_unitVars
             PROVE  AbortsOnSlices'
  OBVIOUS
<1>1. CASE ParsePacket
  <2>1. NextPacket
    BY <1>1 DEF ParsePacket
  <2>2. camera' = camera /\ ~unitAborted
    BY <2>1, NextFacts
  <2>3. unitAborted' => ~Checked(Packet)
    BY <1>1, <2>2, ParseFacts
  <2>4. ~Checked(Packet) => camera.slices = 2 \/ camera.bundles
    <3>1. /\ Packet.kind = "start" <=> pieces > 1 /\ piece = 1
          /\ Packet.kind = "end"   <=> pieces > 1 /\ piece = pieces
          /\ Packet.kind = "bundle" <=> bundled
          /\ Packet.mark <=> piece = pieces /\ Closes(unit)
      BY PacketFacts
    <3>2. /\ bundled => camera.bundles
      BY DEF UnitTypes
    <3>4. /\ pieces \in Nat /\ piece \in Nat /\ camera.slices \in {1, 2}
          /\ pieces > 1 => ~IsSet(unit)
      BY UnitConstants DEF UnitTypes, Cameras
    <3>3. pieces > 1 /\ camera.slices = 1 => Closes(unit)
      BY <3>4 DEF Closes
    <3>. QED BY <3>1, <3>2, <3>3, <3>4 DEF Checked
  <2>. QED BY <2>2, <2>3, <2>4 DEF AbortsOnSlices
<1>2. CASE LosePacket
  <2>1. UNCHANGED <<camera, unitAborted>>
    BY <1>2, NextFacts DEF LosePacket
  <2>. QED BY <2>1 DEF AbortsOnSlices
<1>3. CASE Want \/ UNCHANGED unitVars
  BY <1>3 DEF Want, unitVars, AbortsOnSlices
<1>. QED BY <1>1, <1>2, <1>3 DEF UnitNext

LEMMA WholeStep ==
  UnitTypes /\ StartedInv /\ WholeInv /\ UnitsWhole /\ [UnitNext]_unitVars
    => WholeInv' /\ UnitsWhole'
<1> SUFFICES ASSUME UnitTypes, StartedInv, WholeInv, UnitsWhole, [UnitNext]_unitVars
             PROVE  WholeInv' /\ UnitsWhole'
  OBVIOUS
<1>0. /\ nals \in Seq(Nal) /\ Len(nals) \in Nat /\ DOMAIN nals = 1 .. Len(nals)
      /\ unit \in Nat /\ lost \in Nat
      /\ nals # <<>> <=> Len(nals) >= 1
      /\ \A i \in 1 .. Len(nals) : nals[i].unit \in Nat /\ nals[i].body \in Seq(Nat \X Nat)
  <2>1. \A i \in 1 .. Len(nals) : nals[i] \in Nal
    BY UnitSeqs DEF UnitTypes
  <2>. QED BY <2>1, UnitSeqs DEF UnitTypes, Nal
<1> DEFINE Right(s, i) ==
             /\ s[i].unit = s[1].unit + i - 1
             /\ \A k \in DOMAIN s[i].body : s[i].body[k] = <<s[i].unit, k>>
             /\ camera.low = 0 => s[i].header = NalHeader(s[i].unit)
<1>1. ASSUME camera' = camera, codec' = codec,
             lost = 0 => \A i \in DOMAIN nals' : Right(nals', i), lost' = lost
      PROVE  UnitsWhole'
  BY <1>1 DEF UnitsWhole, NalHeader, ParamType
<1>2. lost = 0 => \A i \in DOMAIN nals : Right(nals, i)
  BY DEF UnitsWhole
<1> HIDE DEF Right
<1>3. CASE ParsePacket
  <2>0. /\ NextPacket /\ lost' = lost /\ camera' = camera /\ codec' = codec /\ ~unitAborted
    BY <1>3, NextFacts DEF ParsePacket
  <2>1. /\ IF piece < pieces THEN piece' = piece + 1 /\ unit' = unit
                             ELSE piece = pieces /\ unit' = unit + 1 /\ piece' = 1
        /\ piece \in Nat /\ pieces \in Nat /\ piece >= 1 /\ pieces >= piece
    BY <2>0, NextFacts
  <2>2. CASE UNCHANGED nals /\ (unitAborted' \/ ~is_start')
    <3>1. UnitsWhole'
      BY <1>1, <1>2, <2>0, <2>2
    <3>. QED BY <3>1, <2>2 DEF WholeInv
  <2>3. CASE is_start' /\ Checked(Packet) /\ piece = 1
    <3>1. PICK h \in [high : {0, 1, 3}, low : {0, 1}, type : {1, 7, 32}] :
            /\ nals' = Append(nals, [header |-> h, unit |-> unit, body |-> <<<<unit, 1>>>>])
            /\ camera.low = 0 => h = NalHeader(unit)
      BY <1>3, <2>3, ParseFacts
    <3> DEFINE nal == [header |-> h, unit |-> unit, body |-> <<<<unit, 1>>>>]
               n == Len(nals)
    <3>2. /\ nal \in Nal /\ nal.unit = unit /\ nal.header = h
          /\ nal.body = <<<<unit, 1>>>>
      BY <1>0 DEF Nal, NalHeaders
    <3>3. Len(nal.body) = 1 /\ DOMAIN nal.body = {1} /\ nal.body[1] = <<unit, 1>>
      BY <3>2
    <3> HIDE DEF nal
    <3>4. /\ DOMAIN nals' = 1 .. n + 1 /\ Len(nals') = n + 1
          /\ \A i \in 1 .. n : nals'[i] = nals[i]
          /\ nals'[n + 1] = nal
      BY <1>0, <3>1, <3>2, Began DEF nal
    <3>5. lost = 0 /\ n >= 1 => nals[n].unit = unit - 1
      <4>1. ASSUME lost = 0, n >= 1 PROVE nals[n].unit = unit - 1
        <5>1. is_start
          BY <4>1, <1>0 DEF StartedInv
        <5>. QED BY <5>1, <4>1, <2>0, <2>3 DEF WholeInv, LastNal
      <4>. QED BY <4>1
    <3>6. lost = 0 => \A i \in DOMAIN nals' : Right(nals', i)
      <4>1. ASSUME lost = 0, NEW i \in 1 .. n PROVE Right(nals', i)
        <5>1. nals'[i] = nals[i] /\ nals'[1] = nals[1]
          BY <3>4, <4>1, <1>0
        <5>2. Right(nals, i)
          BY <1>0, <1>2, <4>1
        <5>. QED BY <5>1, <5>2 DEF Right
      <4>2. ASSUME lost = 0 PROVE Right(nals', n + 1)
        <5>1. unit = nals'[1].unit + (n + 1) - 1
          <6>1. CASE n = 0
            BY <6>1, <1>0, <3>2, <3>4
          <6>2. CASE n >= 1
            <7>1. nals[n].unit = nals[1].unit + n - 1
              <8>1. n \in DOMAIN nals
                BY <1>0, <6>2
              <8>. QED BY <8>1, <1>2, <4>2 DEF Right
            <7>2. nals'[1] = nals[1] /\ nals[1].unit \in Nat
              BY <1>0, <3>4, <6>2
            <7> HIDE DEF n
            <7>3. nals[n].unit = unit - 1 /\ n \in Nat /\ unit \in Nat
              BY <3>5, <4>2, <6>2, <1>0 DEF n
            <7>. QED BY <7>1, <7>2, <7>3
          <6>. QED BY <6>1, <6>2, <1>0
        <5>. QED BY <5>1, <3>1, <3>2, <3>3, <3>4 DEF Right
      <4>. QED BY <4>1, <4>2, <3>4, <1>0
    <3>7. UnitsWhole'
      BY <1>1, <2>0, <3>6
    <3>8. LastNal' = nal
      BY <3>4 DEF LastNal
    <3>9. IF piece' = 1 THEN nal.unit = unit' - 1
                        ELSE nal.unit = unit' /\ Len(nal.body) = piece' - 1
      BY <1>0, <2>1, <2>3, <3>2, <3>3
    <3>. QED BY <3>7, <3>8, <3>9 DEF WholeInv
  <2>4. CASE is_start' /\ Checked(Packet) /\ piece # 1
    <3>1. is_start /\ nals # <<>>
      BY <1>3, <2>4, FirstIsSet DEF StartedInv
    <3>2. nals' = [nals EXCEPT ![Len(nals)].body = Append(@, <<unit, piece>>)]
      BY <1>3, <2>4, ParseFacts
    <3> DEFINE pair == <<unit, piece>>
               n == Len(nals)
    <3>3. pair \in Nat \X Nat
      BY <1>0, <2>1
    <3>4. nals' = [nals EXCEPT ![Len(nals)].body = Append(@, pair)]
      BY <3>2
    <3> HIDE DEF pair
    <3>5. /\ Len(nals') = n /\ DOMAIN nals' = 1 .. n
          /\ \A i \in 1 .. n : nals'[i].unit = nals[i].unit /\ nals'[i].header = nals[i].header
          /\ \A i \in 1 .. n : i # n => nals'[i].body = nals[i].body
          /\ nals'[n].body = Append(nals[n].body, pair)
      BY <1>0, <3>1, <3>3, <3>4, WentOn
    <3>6. n \in 1 .. n /\ 1 \in 1 .. n /\ n \in Nat
      BY <1>0, <3>1
    <3> DEFINE b == nals[n].body
    <3>7. b \in Seq(Nat \X Nat)
      BY <1>0, <3>6
    <3> HIDE DEF n
    <3>8. /\ DOMAIN Append(b, pair) = 1 .. Len(b) + 1 /\ Len(Append(b, pair)) = Len(b) + 1
          /\ \A k \in 1 .. Len(b) : Append(b, pair)[k] = b[k]
          /\ Append(b, pair)[Len(b) + 1] = pair
          /\ Len(b) \in Nat /\ DOMAIN b = 1 .. Len(b)
      <4>1. /\ Append(b, pair) \in Seq(Nat \X Nat) /\ Len(Append(b, pair)) = Len(b) + 1
            /\ \A k \in 1 .. Len(b) : Append(b, pair)[k] = b[k]
            /\ Append(b, pair)[Len(b) + 1] = pair
        BY ONLY <3>3, <3>7, AppendProperties
      <4>. QED BY <4>1, <3>7, LenProperties
    <3>9. lost = 0 => nals[n].unit = unit /\ Len(b) = piece - 1
      BY <2>0, <2>4, <3>1 DEF WholeInv, LastNal, n
    <3> DEFINE l == Len(b)
    <3> HIDE DEF b, l
    <3>10. lost = 0 => \A i \in DOMAIN nals' : Right(nals', i)
      <4>1. ASSUME lost = 0, NEW i \in 1 .. n PROVE Right(nals', i)
        <5>1. Right(nals, i)
          BY <1>0, <1>2, <4>1 DEF n
        <5>2. nals'[i].unit = nals[i].unit /\ nals'[i].header = nals[i].header
              /\ nals'[1].unit = nals[1].unit
          BY <3>5, <3>6
        <5>3. CASE i # n
          <6>1. nals'[i].body = nals[i].body
            BY <3>5, <5>3
          <6>. QED BY <5>1, <5>2, <6>1 DEF Right
        <5>4. CASE i = n
          <6>1. nals'[i].body = Append(b, pair) /\ nals[i].body = b
            BY <3>5, <5>4 DEF b
          <6>2. ASSUME NEW k \in DOMAIN nals'[i].body
                PROVE  nals'[i].body[k] = <<nals'[i].unit, k>>
            <7>1. k \in 1 .. l \/ k = l + 1
              BY <6>1, <3>8 DEF l
            <7>2. CASE k \in 1 .. l
              <8>1. Append(b, pair)[k] = b[k] /\ k \in DOMAIN b
                BY <7>2, <3>8 DEF l
              <8>2. b[k] = <<nals[i].unit, k>>
                BY <8>1, <6>1, <5>1 DEF Right
              <8>. QED BY <8>1, <8>2, <5>2, <6>1
            <7>3. CASE k = l + 1
              <8>1. Append(b, pair)[k] = pair
                BY <7>3, <3>8 DEF l
              <8>2. l + 1 = piece
                BY <3>9, <4>1, <2>1 DEF l
              <8>. QED BY <8>1, <8>2, <7>3, <3>9, <4>1, <5>2, <5>4, <6>1 DEF pair
            <7>. QED BY <7>1, <7>2, <7>3
          <6>. QED BY <5>1, <5>2, <6>2 DEF Right
        <5>. QED BY <5>3, <5>4
      <4>. QED BY <4>1, <3>5
    <3>11. UnitsWhole'
      BY <1>1, <2>0, <3>10
    <3>12. LastNal'.unit = nals[n].unit /\ LastNal'.body = Append(b, pair)
      BY <3>5, <3>6 DEF LastNal, b
    <3>13. lost = 0 => IF piece' = 1 THEN LastNal'.unit = unit' - 1
                       ELSE LastNal'.unit = unit' /\ Len(LastNal'.body) = piece' - 1
      <4>1. lost = 0 => Len(LastNal'.body) = piece
        BY <3>8, <3>9, <3>12, <2>1
      <4>2. lost = 0 => LastNal'.unit = unit
        BY <3>9, <3>12
      <4>. QED BY <4>1, <4>2, <2>1, <2>4, <1>0
    <3>. QED BY <3>11, <3>13, <2>0 DEF WholeInv
  <2>5. /\ ~is_start' => UNCHANGED nals
        /\ is_start' /\ ~Checked(Packet) => unitAborted' /\ UNCHANGED nals
    BY <1>3, ParseFacts
  <2>. QED BY <2>2, <2>3, <2>4, <2>5
<1>4. CASE LosePacket
  <2>1. lost' # 0
    BY <1>0, <1>4 DEF LosePacket
  <2>. QED BY <2>1 DEF WholeInv, UnitsWhole
<1>5. CASE Want
  <2>1. UNCHANGED <<codec, camera, unit, piece, nals, lost, is_start, unitAborted>>
    BY <1>5 DEF Want
  <2>2. UnitsWhole'
    BY <1>1, <1>2, <2>1
  <2>. QED BY <2>1, <2>2 DEF WholeInv, LastNal
<1>6. CASE UNCHANGED unitVars
  <2>1. UNCHANGED <<codec, camera, unit, piece, nals, lost, is_start, unitAborted>>
    BY <1>6 DEF unitVars
  <2>2. UnitsWhole'
    BY <1>1, <1>2, <2>1
  <2>. QED BY <2>1, <2>2 DEF WholeInv, LastNal
<1>. QED BY <1>3, <1>4, <1>5, <1>6 DEF UnitNext

LEMMA MarksStep == UnitTypes /\ StartedInv /\ MarksInv /\ [UnitNext]_unitVars => MarksInv'
<1> SUFFICES ASSUME UnitTypes, StartedInv, MarksInv, [UnitNext]_unitVars,
                    camera'.slices = 1, ~unitAborted', is_start'
             PROVE  MarksInv'
  BY DEF MarksInv
<1> DEFINE b == Cardinality(BegunIn(nals))
           m == Len(marks)
           d == b - m
<1>0. /\ nals \in Seq(Nal) /\ marks \in Seq(Nat) /\ unit \in Nat /\ lost \in Nat
      /\ DOMAIN nals = 1 .. Len(nals) /\ b \in Nat /\ m \in Nat
      /\ nals # <<>> => Len(nals) \in 1 .. Len(nals)
      /\ \A i \in 1 .. Len(nals) : nals[i].unit \in Nat
  <2>1. /\ nals \in Seq(Nal) /\ marks \in Seq(Nat) /\ unit \in Nat /\ lost \in Nat
    BY DEF UnitTypes
  <2>2. /\ DOMAIN nals = 1 .. Len(nals) /\ b \in Nat /\ Len(nals) \in Nat
        /\ nals # <<>> <=> Len(nals) >= 1
        /\ \A i \in 1 .. Len(nals) : nals[i] \in Nal
    BY <2>1, UnitSeqs
  <2>3. m \in Nat
    BY <2>1, LenProperties
  <2>4. \A i \in 1 .. Len(nals) : nals[i].unit \in Nat
    BY <2>2 DEF Nal
  <2>5. nals # <<>> => Len(nals) \in 1 .. Len(nals)
    BY <2>2
  <2>. QED BY <2>1, <2>2, <2>3, <2>4, <2>5
<1>1. Begun = b /\ Begun' = Cardinality(BegunIn(nals)')
  BY DEF Begun, BegunIn
<1> HIDE DEF b, m
<1>2. ASSUME NextPacket
      PROVE  /\ camera.slices = 1 /\ ~unitAborted
             /\ IF piece < pieces THEN piece' = piece + 1 /\ unit' = unit
                                  ELSE piece = pieces /\ unit' = unit + 1 /\ piece' = 1
             /\ piece \in Nat /\ pieces \in Nat /\ piece >= 1 /\ pieces >= piece
  BY <1>2, NextFacts
<1>3. pieces > 1 => ~IsSet(unit)
  BY DEF UnitTypes
<1>4. camera.slices = 1 => (Closes(unit) <=> ~IsSet(unit))
  BY DEF Closes
(* What was so before the step. *)
<1>5. ASSUME NextPacket, is_start \/ (nals = <<>> /\ marks = <<>> /\ lost = 0 /\ piece = 1)
      PROVE  IF piece = 1 THEN d \in -lost .. lost
             ELSE IF Open THEN d - 1 \in -lost .. lost
             ELSE lost >= 1 /\ d \in -(lost - 1) .. lost - 1
  <2>1. CASE is_start
    BY <1>1, <1>2, <1>5, <2>1 DEF MarksInv, m
  <2>2. CASE ~is_start
    <3>1. BegunIn(nals) = {}
      BY <1>5, <2>2 DEF BegunIn
    <3>2. b = 0 /\ m = 0
      BY <1>5, <2>2, <3>1, FS_EmptySet DEF b, m
    <3>. QED BY <3>2, <1>5, <2>2
  <2>. QED BY <2>1, <2>2
<1>6. CASE ParsePacket
  <2>0. NextPacket /\ lost' = lost /\ Checked(Packet)
    BY <1>6, ParseFacts DEF ParsePacket
  <2>1. marks' = IF piece = pieces /\ Closes(unit) THEN Append(marks, unit) ELSE marks
    BY <1>6, <2>0, ParseFacts
  <2>2. Len(marks)' = m + IF piece = pieces /\ ~IsSet(unit) THEN 1 ELSE 0
    <3>1. Len(Append(marks, unit)) = Len(marks) + 1
      BY <1>0, AppendProperties
    <3>. QED BY <1>0, <1>2, <1>4, <2>0, <2>1, <3>1 DEF m
  <2> DEFINE m2 == Len(marks)'
             b2 == Cardinality(BegunIn(nals)')
  <2>3. CASE piece = 1
    <3>1. d \in -lost .. lost
      <4>1. is_start \/ (nals = <<>> /\ marks = <<>> /\ lost = 0)
        BY DEF StartedInv
      <4>. QED BY <1>5, <2>0, <2>3, <4>1
    <3>2. PICK h \in [high : {0, 1, 3}, low : {0, 1}, type : {1, 7, 32}] :
            nals' = Append(nals, [header |-> h, unit |-> unit, body |-> <<<<unit, 1>>>>])
      BY <1>6, <2>0, <2>3, ParseFacts
    <3> DEFINE nal == [header |-> h, unit |-> unit, body |-> <<<<unit, 1>>>>]
    <3>3. nal \in Nal /\ nal.unit = unit
      BY <1>0 DEF Nal, NalHeaders
    <3> HIDE DEF nal
    <3>4. /\ Len(nals') = Len(nals) + 1 /\ nals' # <<>> /\ nals'[Len(nals) + 1] = nal
          /\ Cardinality(BegunIn(nals')) = b + IF IsSet(unit) THEN 0 ELSE 1
      BY <1>0, <3>2, <3>3, Began DEF nal, b
    <3>5. LastNal'.unit = unit
      BY <3>3, <3>4 DEF LastNal
    <3>6. b2 = b + IF IsSet(unit) THEN 0 ELSE 1
      BY <3>4 DEF BegunIn
    <3> HIDE DEF b2, m2
    <3>7. CASE pieces = 1
      <4>1. piece' = 1 /\ b2 - m2 = d
        BY <1>0, <1>2, <2>0, <2>2, <2>3, <3>6, <3>7 DEF m2
      <4>. QED BY <4>1, <3>1, <1>1, <2>0 DEF MarksInv, b2, m2
    <3>8. CASE pieces # 1
      <4>1. piece' = 2 /\ unit' = unit /\ ~IsSet(unit)
        BY <1>2, <1>3, <2>0, <2>3, <3>8
      <4>2. b2 - m2 - 1 = d
        BY <1>0, <4>1, <2>2, <2>3, <3>6, <3>8 DEF m2
      <4>3. Open'
        BY <3>4, <3>5, <4>1 DEF Open
      <4>. QED BY <4>1, <4>2, <4>3, <3>1, <1>1, <2>0 DEF MarksInv, b2, m2
    <3>. QED BY <3>7, <3>8
  <2>4. CASE piece # 1
    <3>1. is_start /\ nals # <<>>
      BY <1>6, <2>4, FirstIsSet DEF StartedInv
    <3>2. nals' = [nals EXCEPT ![Len(nals)].body = Append(@, <<unit, piece>>)]
      BY <1>6, <2>0, <2>4, ParseFacts
    <3>3. <<unit, piece>> \in Nat \X Nat
      BY <1>0, <1>2, <2>0
    <3>4. /\ Len(nals') = Len(nals) /\ nals' # <<>>
          /\ nals'[Len(nals)].unit = nals[Len(nals)].unit
          /\ BegunIn(nals') = BegunIn(nals)
      BY <1>0, <3>1, <3>2, <3>3, WentOn
    <3>5. b2 = b
      BY <3>4 DEF BegunIn, b
    <3>6. unit' = unit => (Open' <=> Open)
      BY <3>1, <3>4 DEF Open, LastNal
    <3>7. IF Open THEN d - 1 \in -lost .. lost
          ELSE lost >= 1 /\ d \in -(lost - 1) .. lost - 1
      BY <1>5, <2>0, <2>4, <3>1
    <3> HIDE DEF b2, m2
    <3>8. CASE piece < pieces
      <4>1. piece' # 1 /\ unit' = unit /\ b2 - m2 = d
        BY <1>0, <1>2, <2>0, <2>2, <3>5, <3>8 DEF m2
      <4>. QED BY <4>1, <3>6, <3>7, <1>1, <2>0 DEF MarksInv, b2, m2
    <3>9. CASE ~(piece < pieces)
      <4>1. piece' = 1 /\ b2 - m2 = d - 1
        BY <1>0, <1>2, <1>3, <2>0, <2>2, <2>4, <3>5, <3>9 DEF m2
      <4>2. d - 1 \in -lost .. lost
        BY <3>7, <1>0
      <4>. QED BY <4>1, <4>2, <1>1, <2>0 DEF MarksInv, b2, m2
    <3>. QED BY <3>8, <3>9
  <2>. QED BY <2>3, <2>4
<1>7. CASE LosePacket
  <2>0. NextPacket /\ is_start /\ lost' = lost + 1 /\ UNCHANGED <<nals, marks>>
    BY <1>7 DEF LosePacket
  <2>1. IF piece = 1 THEN d \in -lost .. lost
        ELSE IF Open THEN d - 1 \in -lost .. lost
        ELSE lost >= 1 /\ d \in -(lost - 1) .. lost - 1
    BY <1>5, <2>0
  <2>2. Begun' - Len(marks)' = d
    BY <1>1, <2>0 DEF b, m, BegunIn
  <2> HIDE DEF d
  <2>3. d \in Int
    BY <1>0 DEF d
  <2>4. CASE piece = 1 /\ piece < pieces
    <3>1. piece' # 1 /\ unit' = unit
      BY <1>2, <2>0, <2>4
    <3>2. ~Open'
      <4>1. \A i \in DOMAIN nals : nals[i].unit < unit
        BY <2>4 DEF StartedInv
      <4>. QED BY <4>1, <3>1, <2>0, <1>0 DEF Open, LastNal
    <3>3. lost' >= 1 /\ d \in -(lost' - 1) .. lost' - 1
      BY <1>0, <2>0, <2>1, <2>3, <2>4
    <3>. QED BY <2>2, <3>1, <3>2, <3>3 DEF MarksInv
  <2>5. CASE ~(piece < pieces)
    <3>1. piece' = 1
      BY <1>2, <2>0, <2>5
    <3>2. d \in -lost' .. lost'
      BY <1>0, <2>0, <2>1, <2>3
    <3>. QED BY <2>2, <3>1, <3>2 DEF MarksInv
  <2>6. CASE piece # 1 /\ piece < pieces
    <3>1. piece' # 1 /\ unit' = unit
      BY <1>2, <2>0, <2>6
    <3>2. Open' <=> Open
      BY <2>0, <3>1 DEF Open, LastNal
    <3>3. IF Open THEN d - 1 \in -lost' .. lost'
          ELSE lost' >= 1 /\ d \in -(lost' - 1) .. lost' - 1
      BY <1>0, <2>0, <2>1, <2>3, <2>6
    <3>. QED BY <2>2, <3>1, <3>2, <3>3 DEF MarksInv
  <2>. QED BY <2>4, <2>5, <2>6
<1>8. CASE Want \/ UNCHANGED unitVars
  BY <1>8 DEF Want, unitVars, MarksInv, Begun, Open, LastNal
<1>. QED BY <1>6, <1>7, <1>8 DEF UnitNext

LEMMA InitUnits == UnitInit => UnitInv
<1> SUFFICES ASSUME UnitInit PROVE UnitInv
  OBVIOUS
<1>1. /\ unit = 0 /\ piece = 1 /\ pieces = 1 /\ wanted = FALSE /\ is_start = FALSE
      /\ nals = <<>> /\ marks = <<>> /\ lost = 0 /\ unitAborted = FALSE
  BY DEF UnitInit
<1>2. UnitTypes
  <2>1. <<>> \in Seq(Nal) /\ <<>> \in Seq(Nat)
    OBVIOUS
  <2>2. 1 \in 1 .. MaxParts
    BY UnitConstants
  <2>3. /\ codec \in {"H264", "H265"}
        /\ camera \in Cameras
    BY DEF UnitInit, Cameras
  <2>8. bundled \in BOOLEAN /\ (bundled => camera.bundles /\ pieces = 1)
    BY <1>1, Zenon DEF UnitInit
  <2>4. nals \in Seq(Nal) /\ marks \in Seq(Nat)
    BY <1>1, <2>1
  <2>5. unit \in Nat /\ pieces \in 1 .. MaxParts /\ piece \in 1 .. pieces /\ lost \in Nat
    BY <1>1, <2>2
  <2>6. wanted \in BOOLEAN /\ is_start \in BOOLEAN /\ unitAborted \in BOOLEAN
    BY <1>1
  <2>7. IsSet(unit) => pieces = 1
    BY <1>1
  <2>. QED BY <2>3, <2>4, <2>5, <2>6, <2>7, <2>8 DEF UnitTypes
<1>3. StartedInv
  BY <1>1 DEF StartedInv
<1>4. UnitsWhole
  <2>1. DOMAIN nals = {}
    BY <1>1
  <2>. QED BY <2>1 DEF UnitsWhole
<1>5. ~is_start /\ ~unitAborted
  BY <1>1
<1>6. WholeInv /\ MarksInv /\ AbortsOnSlices
  BY <1>5 DEF WholeInv, MarksInv, AbortsOnSlices
<1>. QED BY <1>2, <1>3, <1>4, <1>6 DEF UnitInv

LEMMA UnitInvRebuilt == UnitInv => UnitsRebuilt
<1> SUFFICES ASSUME UnitInv PROVE MarksFollowPictures
  BY DEF UnitInv, UnitsRebuilt
<1> SUFFICES ASSUME camera.slices = 1, ~unitAborted
             PROVE  Begun - Len(marks) \in -lost .. lost + (IF piece > 1 THEN 1 ELSE 0)
  BY DEF MarksFollowPictures
<1> DEFINE d == Begun - Len(marks)
<1>1. piece \in Nat /\ piece >= 1 /\ lost \in Nat
  BY UnitConstants DEF UnitInv, UnitTypes
<1>2. d \in Int
  <2>1. Begun \in Nat
    BY UnitSeqs DEF UnitInv, UnitTypes, Begun, BegunIn
  <2>2. Len(marks) \in Nat
    BY LenProperties DEF UnitInv, UnitTypes
  <2>. QED BY <2>1, <2>2
<1>3. CASE is_start
  <2>1. IF piece = 1 THEN d \in -lost .. lost
        ELSE IF Open THEN d - 1 \in -lost .. lost
        ELSE lost >= 1 /\ d \in -(lost - 1) .. lost - 1
    BY <1>3 DEF UnitInv, MarksInv
  <2> HIDE DEF d
  <2>2. d \in -lost .. lost + (IF piece > 1 THEN 1 ELSE 0)
    BY <1>1, <1>2, <2>1
  <2>. QED BY <2>2 DEF d
<1>4. CASE ~is_start
  <2>1. nals = <<>> /\ marks = <<>> /\ lost = 0
    BY <1>4 DEF UnitInv, StartedInv
  <2>2. Begun = 0 /\ Len(marks) = 0
    <3>1. {i \in DOMAIN nals : ~IsSet(nals[i].unit)} = {}
      BY <2>1
    <3>. QED BY <2>1, <3>1, FS_EmptySet DEF Begun
  <2>. QED BY <1>1, <2>1, <2>2
<1>. QED BY <1>3, <1>4

(* parserRtpH264 and parserRtpH265 (rtpDataManager.cpp), whatever the      *)
(* camera cuts its units into and whatever is lost on the way: without a   *)
(* loss every unit comes out whole, and the marks leave the pictures by no *)
(* more than was lost.                                                     *)
THEOREM UnitsAreRebuilt == UnitSpec => []UnitsRebuilt
<1>1. UnitInv /\ [UnitNext]_unitVars => UnitInv'
  BY UnitTypesStep, StartedStep, WholeStep, MarksStep, AbortsStep DEF UnitInv
<1>. QED BY <1>1, InitUnits, UnitInvRebuilt, PTL DEF UnitSpec

-----------------------------------------------------------------------------
(* Lines without their blanks.                                             *)

(* k holds what is kept of the first characters of a line. *)
KeptBy(r, k) ==
  /\ k \in [0 .. Len(r) -> Seq(Char)] /\ k[0] = <<>>
  /\ \A n \in 1 .. Len(r) : k[n] = IF r[n] = Blank THEN k[n - 1] ELSE Append(k[n - 1], r[n])

LEMMA CharsAre ==
  /\ Blank \in Char /\ Hash \in Char /\ Blank # Hash /\ Missing \notin Seq(Char)
<1>1. "missing" \notin Char
  BY DEF Char, Blank, Hash
<1>2. Missing[1] = "missing" /\ Len(Missing) = 1
  BY DEF Missing
<1>3. ASSUME Missing \in Seq(Char) PROVE FALSE
  <2>1. Missing[1] \in Char
    <3> DEFINE s == Missing
    <3>1. s \in Seq(Char) /\ Len(s) = 1
      BY <1>2, <1>3
    <3> HIDE DEF s
    <3>2. s[1] \in Char
      BY <3>1, ElementOfSeq
    <3>. QED BY <3>2 DEF s
  <2>. QED BY <1>1, <1>2, <2>1
<1>. QED BY <1>3 DEF Char, Blank, Hash

LEMMA SomethingKept ==
  ASSUME NEW r \in Seq(Char)
  PROVE  \E k : KeptBy(r, k)
<1> DEFINE N == Len(r)
           S == Seq(Char)
           step == [p \in Nat \X S |->
                      IF p[1] + 1 \in 1 .. N /\ r[p[1] + 1] # Blank
                      THEN Append(p[2], r[p[1] + 1]) ELSE p[2]]
<1>1. N \in Nat /\ \A i \in 1 .. N : r[i] \in Char
  BY LenProperties, ElementOfSeq
<1> HIDE DEF N
<1>2. \A n \in Nat, s \in S : step[<<n, s>>] =
        IF n + 1 \in 1 .. N /\ r[n + 1] # Blank THEN Append(s, r[n + 1]) ELSE s
  OBVIOUS
<1>3. step \in [Nat \X S -> S] /\ <<>> \in S
  <2>1. ASSUME NEW n \in Nat, NEW s \in S PROVE step[<<n, s>>] \in S
    <3>1. ASSUME n + 1 \in 1 .. N PROVE Append(s, r[n + 1]) \in S
      <4>1. r[n + 1] \in Char
        BY <1>1, <3>1
      <4>. QED BY <4>1, AppendProperties
    <3>2. step[<<n, s>>] = IF n + 1 \in 1 .. N /\ r[n + 1] # Blank THEN Append(s, r[n + 1]) ELSE s
      BY <1>2
    <3> HIDE DEF step, S
    <3>. QED BY <3>1, <3>2
  <2>2. step = [p \in Nat \X S |-> step[p]]
    OBVIOUS
  <2>3. <<>> \in S
    OBVIOUS
  <2> HIDE DEF step, S
  <2>4. ASSUME NEW p \in Nat \X S PROVE step[p] \in S
    <3>1. p = <<p[1], p[2]>> /\ p[1] \in Nat /\ p[2] \in S
      OBVIOUS
    <3>2. step[<<p[1], p[2]>>] \in S
      BY <2>1, <3>1
    <3>. QED BY <3>1, <3>2
  <2>. QED BY <2>2, <2>3, <2>4
<1> HIDE DEF step, S
<1>4. PICK f : Iterated(S, <<>>, step, f)
  BY <1>3, IteratesExist
<1>5. f \in [Nat -> S] /\ f[0] = <<>> /\ \A n \in Nat : f[n + 1] = step[<<n, f[n]>>]
  BY <1>4 DEF Iterated
<1> DEFINE k == [n \in 0 .. N |-> f[n]]
<1>6. k \in [0 .. N -> S] /\ k[0] = <<>>
  BY <1>1, <1>5
<1>7. ASSUME NEW n \in 1 .. N
      PROVE  k[n] = IF r[n] = Blank THEN k[n - 1] ELSE Append(k[n - 1], r[n])
  <2> DEFINE j == n - 1
  <2>1. j \in Nat /\ j \in 0 .. N /\ j + 1 = n /\ n \in 0 .. N
    BY <1>1
  <2> HIDE DEF j
  <2>2. k[n] = f[n] /\ k[j] = f[j] /\ f[j] \in S /\ f[n] = step[<<j, f[j]>>]
    BY <1>5, <2>1
  <2> HIDE DEF k
  <2>3. f[n] = IF r[n] = Blank THEN f[j] ELSE Append(f[j], r[n])
    BY <1>2, <2>1, <2>2
  <2>. QED BY <2>2, <2>3 DEF j
<1> HIDE DEF k
<1>8. KeptBy(r, k)
  BY <1>6, <1>7 DEF KeptBy, N, S
<1>. QED BY <1>8

(* Lines that begin alike have the same kept of their beginnings. *)
LEMMA KeptAlike ==
  ASSUME NEW r \in Seq(Char), NEW s \in Seq(Char), NEW k, NEW j,
         KeptBy(r, k), KeptBy(s, j),
         NEW m \in Nat, m <= Len(r), m <= Len(s), \A i \in 1 .. m : r[i] = s[i]
  PROVE  k[m] = j[m]
<1> DEFINE P == {n \in Nat : n <= m => k[n] = j[n]}
<1>1. 0 \in P
  BY DEF KeptBy
<1>2. ASSUME NEW n \in Nat, n \in P PROVE n + 1 \in P
  <2> SUFFICES ASSUME n + 1 <= m PROVE k[n + 1] = j[n + 1]
    OBVIOUS
  <2> DEFINE q == n + 1
  <2>1. q \in 1 .. m /\ q \in 1 .. Len(r) /\ q \in 1 .. Len(s) /\ q - 1 = n
    BY LenProperties
  <2>2. k[n] = j[n]
    BY <1>2
  <2> HIDE DEF q
  <2>3. /\ k[q] = IF r[q] = Blank THEN k[n] ELSE Append(k[n], r[q])
        /\ j[q] = IF s[q] = Blank THEN j[n] ELSE Append(j[n], s[q])
    BY <2>1 DEF KeptBy
  <2>4. k[q] = j[q]
    BY <2>1, <2>2, <2>3
  <2>. QED BY <2>4 DEF q
<1> HIDE DEF P
<1>3. m \in P
  BY <1>1, <1>2, AllNumbers
<1>. QED BY <1>3 DEF P

LEMMA KeptIs ==
  ASSUME NEW r \in Seq(Char), NEW k, KeptBy(r, k)
  PROVE  rmStrSpace(r) = k[Len(r)]
<1> DEFINE Is(f) == f = [n \in 0 .. Len(r) |->
                           IF n = 0 THEN <<>>
                           ELSE IF r[n] = Blank THEN f[n - 1] ELSE Append(f[n - 1], r[n])]
           kept == CHOOSE f : Is(f)
           N == Len(r)
<1>1. rmStrSpace(r) = kept[N]
  BY DEF rmStrSpace
<1>2. N \in Nat
  BY LenProperties
<1>3. Is(k)
  <2>1. k = [n \in 0 .. N |-> k[n]]
    BY DEF KeptBy
  <2>2. ASSUME NEW n \in 0 .. N
        PROVE  k[n] = IF n = 0 THEN <<>>
                      ELSE IF r[n] = Blank THEN k[n - 1] ELSE Append(k[n - 1], r[n])
    <3>1. n # 0 => n \in 1 .. N
      BY <1>2
    <3>. QED BY <3>1 DEF KeptBy
  <2>. QED BY <2>1, <2>2
<1>4. Is(kept)
  BY <1>3
<1> HIDE DEF kept
<1>5. \A n \in 0 .. N : kept[n] =
        IF n = 0 THEN <<>>
        ELSE IF r[n] = Blank THEN kept[n - 1] ELSE Append(kept[n - 1], r[n])
  BY <1>4
<1>6. \A n \in 0 .. N : k[n] =
        IF n = 0 THEN <<>>
        ELSE IF r[n] = Blank THEN k[n - 1] ELSE Append(k[n - 1], r[n])
  BY <1>3
<1> HIDE DEF Is, N
<1> DEFINE P == {n \in Nat : n <= N => kept[n] = k[n]}
<1>7. 0 \in P
  BY <1>2, <1>5, <1>6
<1>8. ASSUME NEW n \in Nat, n \in P PROVE n + 1 \in P
  <2> SUFFICES ASSUME n + 1 <= N PROVE kept[n + 1] = k[n + 1]
    OBVIOUS
  <2> DEFINE q == n + 1
  <2>1. q \in 0 .. N /\ q # 0 /\ q - 1 = n
    BY <1>2
  <2>2. kept[n] = k[n]
    BY <1>2, <1>8
  <2> HIDE DEF q
  <2>3. /\ kept[q] = IF r[q] = Blank THEN kept[n] ELSE Append(kept[n], r[q])
        /\ k[q] = IF r[q] = Blank THEN k[n] ELSE Append(k[n], r[q])
    BY <1>5, <1>6, <2>1
  <2>4. kept[q] = k[q]
    BY <2>2, <2>3
  <2>. QED BY <2>4 DEF q
<1> HIDE DEF P
<1>9. N \in P
  BY <1>2, <1>7, <1>8, AllNumbers
<1>. QED BY <1>1, <1>2, <1>9 DEF P, N

(* The first characters of a line. *)
LEMMA StartIs ==
  ASSUME NEW r \in Seq(Char), NEW m \in Nat, m <= Len(r)
  PROVE  /\ SubSeq(r, 1, m) \in Seq(Char) /\ Len(SubSeq(r, 1, m)) = m
         /\ \A i \in 1 .. m : SubSeq(r, 1, m)[i] = r[i]
<1> DEFINE s == SubSeq(r, 1, m)
<1>1. \A i \in 1 .. m : r[i] \in Char
  BY ElementOfSeq, LenProperties
<1>2. /\ s \in Seq(Char) /\ Len(s) = (IF 1 <= m THEN m - 1 + 1 ELSE 0)
      /\ \A i \in 1 .. m - 1 + 1 : s[i] = r[1 + i - 1]
  BY <1>1, SubSeqProperties
<1> HIDE DEF s
<1>3. m - 1 + 1 = m /\ (IF 1 <= m THEN m - 1 + 1 ELSE 0) = m /\ \A i \in 1 .. m : 1 + i - 1 = i
  OBVIOUS
<1>4. s \in Seq(Char) /\ Len(s) = m /\ \A i \in 1 .. m : s[i] = r[i]
  BY <1>2, <1>3
<1>. QED BY <1>4 DEF s

(* Blanks add nothing to what is kept. *)
LEMMA BlanksSkipped ==
  ASSUME NEW r \in Seq(Char), NEW k, KeptBy(r, k),
         NEW l \in Nat, NEW m \in Nat, l <= m, m <= Len(r),
         \A i \in l + 1 .. m : r[i] = Blank
  PROVE  k[m] = k[l]
<1> DEFINE P == {n \in Nat : l + n <= m => k[l + n] = k[l]}
<1>1. 0 \in P
  OBVIOUS
<1>2. ASSUME NEW n \in Nat, n \in P PROVE n + 1 \in P
  <2> SUFFICES ASSUME l + (n + 1) <= m PROVE k[l + (n + 1)] = k[l]
    OBVIOUS
  <2> DEFINE q == l + (n + 1)   N == Len(r)
  <2>1. N \in Nat
    BY LenProperties
  <2>2. q \in 1 .. N /\ q \in l + 1 .. m /\ q - 1 = l + n /\ l + n <= m
    BY <2>1
  <2>3. k[l + n] = k[l]
    BY <1>2, <2>2
  <2> HIDE DEF q
  <2>4. k[q] = k[q - 1]
    BY <2>2 DEF KeptBy
  <2>5. k[q] = k[l]
    BY <2>2, <2>3, <2>4
  <2>. QED BY <2>5 DEF q
<1> HIDE DEF P
<1>3. m - l \in P
  <2>1. m - l \in Nat
    OBVIOUS
  <2>. QED BY <1>1, <1>2, <2>1, AllNumbers
<1>4. l + (m - l) = m
  OBVIOUS
<1>. QED BY <1>3, <1>4 DEF P

(* s is the beginning of t. *)
Begins(s, t) == Len(s) <= Len(t) /\ \A i \in 1 .. Len(s) : t[i] = s[i]

LEMMA AppendBegins ==
  ASSUME NEW s \in Seq(Char), NEW t \in Seq(Char), NEW c \in Char, Begins(s, t)
  PROVE  Begins(s, Append(t, c))
<1> DEFINE u == Append(t, c)   m == Len(s)   n == Len(t)
<1>1. Len(u) = n + 1 /\ \A i \in 1 .. n : u[i] = t[i]
  BY AppendProperties
<1>2. m \in Nat /\ n \in Nat /\ m <= n /\ \A i \in 1 .. m : t[i] = s[i]
  BY LenProperties DEF Begins
<1> HIDE DEF u, m, n
<1>3. m <= Len(u) /\ \A i \in 1 .. m : u[i] = s[i]
  BY <1>1, <1>2
<1>. QED BY <1>3 DEF Begins, m, u

LEMMA KeptGrows ==
  ASSUME NEW r \in Seq(Char), NEW k, KeptBy(r, k),
         NEW l \in Nat, NEW m \in Nat, l <= m, m <= Len(r)
  PROVE  Begins(k[l], k[m])
<1> DEFINE P == {n \in Nat : l + n <= m => Begins(k[l], k[l + n])}
<1>0. \A n \in 0 .. Len(r) : k[n] \in Seq(Char)
  BY DEF KeptBy
<1>1. 0 \in P
  <2>1. l + 0 = l /\ l \in 0 .. Len(r)
    BY LenProperties
  <2>2. Begins(k[l], k[l])
    BY <1>0, <2>1, LenProperties DEF Begins
  <2>. QED BY <2>1, <2>2
<1>2. ASSUME NEW n \in Nat, n \in P PROVE n + 1 \in P
  <2> SUFFICES ASSUME l + (n + 1) <= m PROVE Begins(k[l], k[l + (n + 1)])
    OBVIOUS
  <2> DEFINE q == l + (n + 1)   N == Len(r)
  <2>1. N \in Nat
    BY LenProperties
  <2>2. q \in 1 .. N /\ q - 1 = l + n /\ l + n <= m /\ l \in 0 .. N /\ l + n \in 0 .. N
    BY <2>1
  <2>3. Begins(k[l], k[l + n])
    BY <1>2, <2>2
  <2> HIDE DEF q
  <2>4. k[q] = IF r[q] = Blank THEN k[l + n] ELSE Append(k[l + n], r[q])
    BY <2>2 DEF KeptBy
  <2>5. k[l] \in Seq(Char) /\ k[l + n] \in Seq(Char) /\ r[q] \in Char
    BY <1>0, <2>2, ElementOfSeq
  <2>6. Begins(k[l], k[q])
    BY <2>3, <2>4, <2>5, AppendBegins
  <2>. QED BY <2>6 DEF q
<1> HIDE DEF P
<1>3. m - l \in P
  <2>1. m - l \in Nat
    OBVIOUS
  <2>. QED BY <1>1, <1>2, <2>1, AllNumbers
<1>4. l + (m - l) = m
  OBVIOUS
<1>. QED BY <1>3, <1>4 DEF P

(* Without a blank all is kept, and nothing is kept that is not there. *)
LEMMA KeptChars ==
  ASSUME NEW r \in Seq(Char), NEW k, KeptBy(r, k), NEW m \in Nat, m <= Len(r)
  PROVE  /\ (\A i \in 1 .. m : r[i] # Blank) => k[m] = SubSeq(r, 1, m)
         /\ (\A i \in 1 .. m : r[i] # Hash) => \A i \in 1 .. Len(k[m]) : k[m][i] # Hash
<1> DEFINE Full(n) == (\A i \in 1 .. n : r[i] # Blank) =>
                        Len(k[n]) = n /\ \A i \in 1 .. n : k[n][i] = r[i]
           Free(n) == (\A i \in 1 .. n : r[i] # Hash) =>
                        \A i \in 1 .. Len(k[n]) : k[n][i] # Hash
           P == {n \in Nat : n <= m => Full(n) /\ Free(n)}
<1>0. \A n \in 0 .. Len(r) : k[n] \in Seq(Char)
  BY DEF KeptBy
<1>1. 0 \in P
  <2>1. k[0] = <<>>
    BY DEF KeptBy
  <2>2. Len(k[0]) = 0
    BY <2>1
  <2>3. Full(0) /\ Free(0)
    BY <2>2
  <2>. QED BY <2>3
<1>2. ASSUME NEW n \in Nat, n \in P PROVE n + 1 \in P
  <2> SUFFICES ASSUME n + 1 <= m PROVE Full(n + 1) /\ Free(n + 1)
    OBVIOUS
  <2> DEFINE q == n + 1   N == Len(r)   s == k[n]   t == k[q]   x == Len(s)
  <2>1. N \in Nat
    BY LenProperties
  <2>2. /\ q \in 1 .. N /\ q - 1 = n /\ n \in 0 .. N /\ n <= m
        /\ \A i \in 1 .. n : i \in 1 .. q
        /\ \A i \in 1 .. q : i = q \/ i \in 1 .. n
    BY <2>1
  <2>3. Full(n) /\ Free(n)
    BY <1>2, <2>2
  <2> HIDE DEF q
  <2>4. t = IF r[q] = Blank THEN s ELSE Append(s, r[q])
    BY <2>2 DEF KeptBy
  <2>5. s \in Seq(Char) /\ r[q] \in Char
    BY <1>0, <2>2, ElementOfSeq
  <2>6. CASE r[q] = Blank
    <3>1. t = s
      BY <2>4, <2>6
    <3>2. Free(q)
      BY <2>2, <2>3, <3>1
    <3>3. Full(q)
      <4>1. q \in 1 .. q
        BY <2>2
      <4>. QED BY <2>6, <4>1
    <3>. QED BY <3>2, <3>3 DEF q
  <2>7. CASE r[q] # Blank
    <3>1. Len(t) = x + 1 /\ (\A i \in 1 .. x : t[i] = s[i]) /\ t[x + 1] = r[q] /\ x \in Nat
      BY <2>4, <2>5, <2>7, AppendProperties, LenProperties
    <3> HIDE DEF s, t, x
    <3>2. Free(q)
      <4> SUFFICES ASSUME \A i \in 1 .. q : r[i] # Hash, NEW i \in 1 .. Len(t)
                   PROVE  t[i] # Hash
        BY DEF t
      <4>1. \A a \in 1 .. x : s[a] # Hash
        BY <2>2, <2>3 DEF s, x
      <4>2. q \in 1 .. q /\ (i \in 1 .. x \/ i = x + 1)
        BY <2>2, <3>1
      <4>. QED BY <3>1, <4>1, <4>2
    <3>3. Full(q)
      <4> SUFFICES ASSUME \A i \in 1 .. q : r[i] # Blank
                   PROVE  Len(t) = q /\ \A i \in 1 .. q : t[i] = r[i]
        BY DEF t
      <4>1. x = n /\ \A i \in 1 .. n : s[i] = r[i]
        BY <2>2, <2>3 DEF s, x
      <4>2. x + 1 = q
        BY <4>1 DEF q
      <4>. QED BY <2>2, <3>1, <4>1, <4>2
    <3>. QED BY <3>2, <3>3 DEF q
  <2>. QED BY <2>6, <2>7
<1> HIDE DEF P
<1>3. m \in P
  BY <1>1, <1>2, AllNumbers
<1>4. Full(m) /\ Free(m)
  BY <1>3 DEF P
<1>5. (\A i \in 1 .. m : r[i] # Blank) => k[m] = SubSeq(r, 1, m)
  <2> SUFFICES ASSUME \A i \in 1 .. m : r[i] # Blank PROVE k[m] = SubSeq(r, 1, m)
    OBVIOUS
  <2> DEFINE t == k[m]   s == SubSeq(r, 1, m)   N == Len(r)
  <2>1. N \in Nat /\ m \in 0 .. N
    BY LenProperties
  <2>2. t \in Seq(Char) /\ Len(t) = m /\ \A i \in 1 .. m : t[i] = r[i]
    BY <1>0, <1>4, <2>1
  <2>3. s \in Seq(Char) /\ Len(s) = m /\ \A i \in 1 .. m : s[i] = r[i]
    BY StartIs
  <2> HIDE DEF s, t
  <2>4. t = s
    BY <2>2, <2>3, SeqEqual
  <2>. QED BY <2>4 DEF s, t
<1>. QED BY <1>4, <1>5

(* What stands before the first of a character. *)
LEMMA UptoIs ==
  ASSUME NEW r \in Seq(Char), NEW c, NEW p \in 1 .. Len(r),
         r[p] = c, \A i \in 1 .. p - 1 : r[i] # c
  PROVE  Upto(c, r) = SubSeq(r, 1, p - 1)
<1> DEFINE N == Len(r)   I == {i \in 1 .. N : r[i] = c}
<1>1. N \in Nat
  BY LenProperties
<1> HIDE DEF N
<1>2. p \in I /\ \A i \in I : p <= i
  <2>1. p \in I
    BY DEF N
  <2>2. ASSUME NEW i \in I PROVE p <= i
    <3>1. i \in 1 .. N /\ r[i] = c /\ i \notin 1 .. p - 1
      OBVIOUS
    <3>2. p \in Int
      BY <1>1 DEF N
    <3>. QED BY <1>1, <3>1, <3>2
  <2>. QED BY <2>1, <2>2
<1>3. Min(I) = p
  <2> DEFINE least == CHOOSE x \in I : \A y \in I : x <= y
  <2>0. I \subseteq Int
    BY <1>1
  <2> HIDE DEF I
  <2>1. least \in I /\ \A y \in I : least <= y
    BY <1>2
  <2>2. Min(I) = least
    BY DEF Min
  <2> HIDE DEF least
  <2>3. least = p
    BY <1>2, <2>0, <2>1
  <2>. QED BY <2>2, <2>3
<1>4. SelectInSeq(r, LAMBDA x : x = c) = Min(I)
  <2>1. {i \in 1 .. Len(r) : r[i] = c} # {}
    BY <1>2
  <2>. QED BY <2>1 DEF SelectInSeq, N
<1>. QED BY <1>3, <1>4 DEF Upto

LEMMA FirstOf ==
  ASSUME NEW r \in Seq(Char), NEW c, Has(c, r)
  PROVE  \E p \in 1 .. Len(r) : r[p] = c /\ \A i \in 1 .. p - 1 : r[i] # c
<1> DEFINE N == Len(r)   I == {i \in 1 .. N : r[i] = c}
<1>1. N \in Nat /\ DOMAIN r = 1 .. N
  BY LenProperties
<1>2. I \subseteq Nat /\ I # {}
  BY <1>1 DEF Has
<1> HIDE DEF I
<1>3. PICK p \in I : \A y \in I : p <= y
  BY <1>2, LeastOf
<1>4. p \in 1 .. N /\ r[p] = c
  BY DEF I
<1>5. ASSUME NEW i \in 1 .. p - 1 PROVE r[i] # c
  <2>1. i \in 1 .. N /\ ~(p <= i)
    BY <1>1, <1>4
  <2>. QED BY <1>3, <2>1 DEF I
<1>. QED BY <1>4, <1>5

(* Where a value ends, and where the comment after it begins. *)
Cuts(r, l, m) ==
  /\ m \in 0 .. Len(r) /\ l \in 0 .. m
  /\ \A i \in 1 .. m : r[i] # Hash
  /\ IF Has(Hash, r) THEN m + 1 <= Len(r) /\ r[m + 1] = Hash ELSE m = Len(r)
  /\ \A i \in l + 1 .. m : r[i] = Blank
  /\ l > 0 => r[l] # Blank

LEMMA ValueEnds ==
  ASSUME NEW r \in Seq(Char)
  PROVE  \E m \in 0 .. Len(r) :
           /\ (IF Has(Hash, r) THEN Upto(Hash, r) ELSE r) = SubSeq(r, 1, m)
           /\ \A i \in 1 .. m : r[i] # Hash
           /\ IF Has(Hash, r) THEN m + 1 <= Len(r) /\ r[m + 1] = Hash ELSE m = Len(r)
<1> DEFINE N == Len(r)
<1>0. N \in Nat /\ DOMAIN r = 1 .. N
  BY LenProperties
<1>1. CASE Has(Hash, r)
  <2>1. PICK p \in 1 .. N : r[p] = Hash /\ \A i \in 1 .. p - 1 : r[i] # Hash
    BY <1>1, FirstOf
  <2>2. Upto(Hash, r) = SubSeq(r, 1, p - 1)
    BY <2>1, UptoIs
  <2> HIDE DEF N
  <2>3. p - 1 \in 0 .. N /\ (p - 1) + 1 = p /\ p <= N
    BY <1>0
  <2>. QED BY <1>1, <2>1, <2>2, <2>3 DEF N
<1>2. CASE ~Has(Hash, r)
  <2>1. \A i \in 1 .. N : r[i] # Hash
    BY <1>0, <1>2 DEF Has
  <2>2. N \in 0 .. N /\ N <= Len(r)
    BY <1>0
  <2>3. r = SubSeq(r, 1, N)
    <3> DEFINE s == SubSeq(r, 1, N)
    <3>1. s \in Seq(Char) /\ Len(s) = N /\ \A i \in 1 .. N : s[i] = r[i]
      BY <1>0, <2>2, StartIs
    <3> HIDE DEF s
    <3>2. r = s
      BY <3>1, SeqEqual
    <3>. QED BY <3>2 DEF s
  <2>. QED BY <1>2, <2>1, <2>2, <2>3
<1>. QED BY <1>1, <1>2

LEMMA SeenIs ==
  ASSUME NEW r \in Seq(Char)
  PROVE  \E l, m \in Nat : Cuts(r, l, m) /\ Seen(r) = SubSeq(r, 1, l)
<1> DEFINE N == Len(r)   v == IF Has(Hash, r) THEN Upto(Hash, r) ELSE r
<1>0. N \in Nat
  BY LenProperties
<1>1. PICK m \in 0 .. N :
        /\ v = SubSeq(r, 1, m)
        /\ \A i \in 1 .. m : r[i] # Hash
        /\ IF Has(Hash, r) THEN m + 1 <= N /\ r[m + 1] = Hash ELSE m = N
  BY ValueEnds
<1>2. m \in Nat /\ m <= N
  BY <1>0
<1>3. v \in Seq(Char) /\ Len(v) = m /\ \A i \in 1 .. m : v[i] = r[i]
  BY <1>1, <1>2, StartIs
<1> DEFINE Ends(n) == (\A i \in n + 1 .. Len(v) : v[i] = Blank) /\ (n > 0 => v[n] # Blank)
           end == CHOOSE n \in 0 .. Len(v) : Ends(n)
<1>4. Seen(r) = SubSeq(v, 1, end)
  BY DEF Seen
<1> HIDE DEF v
<1>5. \E n \in 0 .. Len(v) : Ends(n)
  <2> DEFINE I == {n \in 0 .. m : \A i \in n + 1 .. m : v[i] = Blank}
  <2>1. m \in I /\ I \subseteq Nat
    BY <1>2
  <2> HIDE DEF I
  <2>2. PICK n \in I : \A y \in I : n <= y
    BY <2>1, LeastOf
  <2>3. n \in 0 .. m /\ \A i \in n + 1 .. m : v[i] = Blank
    BY DEF I
  <2>4. ASSUME n > 0, v[n] = Blank PROVE FALSE
    <3> DEFINE j == n - 1
    <3>1. j \in 0 .. m /\ ~(n <= j) /\ \A i \in j + 1 .. m : i = n \/ i \in n + 1 .. m
      BY <1>2, <2>3, <2>4
    <3>2. \A i \in j + 1 .. m : v[i] = Blank
      BY <2>3, <2>4, <3>1
    <3>3. j \in I
      BY <3>1, <3>2 DEF I
    <3>. QED BY <2>2, <3>1, <3>3
  <2>. QED BY <1>3, <2>3, <2>4
<1>6. end \in 0 .. Len(v) /\ Ends(end)
  BY <1>5
<1> HIDE DEF end
<1>7. /\ end \in Nat /\ end \in 0 .. m /\ \A i \in end + 1 .. m : r[i] = Blank
      /\ end > 0 => r[end] # Blank
  <2>1. end \in 0 .. m /\ (\A i \in end + 1 .. m : v[i] = Blank) /\ (end > 0 => v[end] # Blank)
    BY <1>3, <1>6
  <2>2. (end > 0 => end \in 1 .. m) /\ \A i \in end + 1 .. m : i \in 1 .. m
    BY <1>2, <2>1
  <2>. QED BY <1>3, <2>1, <2>2
<1>8. SubSeq(v, 1, end) = SubSeq(r, 1, end)
  <2> DEFINE s == SubSeq(v, 1, end)   t == SubSeq(r, 1, end)
  <2>1. end <= Len(v) /\ end <= N
    BY <1>2, <1>3, <1>7
  <2>2. s \in Seq(Char) /\ Len(s) = end /\ \A i \in 1 .. end : s[i] = v[i]
    BY <1>3, <1>7, <2>1, StartIs
  <2>3. t \in Seq(Char) /\ Len(t) = end /\ \A i \in 1 .. end : t[i] = r[i]
    BY <1>7, <2>1, StartIs
  <2>4. \A i \in 1 .. end : v[i] = r[i]
    BY <1>2, <1>3, <1>7
  <2> HIDE DEF s, t
  <2>5. s = t
    BY <2>2, <2>3, <2>4, SeqEqual
  <2>. QED BY <2>5 DEF s, t
<1>9. Cuts(r, end, m)
  BY <1>1, <1>7 DEF Cuts
<1>. QED BY <1>2, <1>4, <1>7, <1>8, <1>9

(* parserCfg and parserNetCfg: what is seen, without its blanks. *)
LEMMA NetSees ==
  ASSUME NEW r \in Seq(Char)
  PROVE  /\ Seen(r) \in Seq(Char) /\ NetValue(r) \in Seq(Char)
         /\ NetValue(r) = rmStrSpace(Seen(r))
         /\ ~Has(Blank, Seen(r)) => NetValue(r) = Seen(r)
<1> DEFINE N == Len(r)   s == rmStrSpace(r)   w == Seen(r)
<1>1. N \in Nat
  BY LenProperties
<1>2. PICK l, m \in Nat : Cuts(r, l, m) /\ Seen(r) = SubSeq(r, 1, l)
  BY SeenIs
<1>3. /\ m \in 0 .. N /\ l \in 0 .. m /\ l <= m /\ m <= N /\ l <= N
      /\ \A i \in 1 .. m : r[i] # Hash
      /\ IF Has(Hash, r) THEN m + 1 <= N /\ r[m + 1] = Hash ELSE m = N
      /\ \A i \in l + 1 .. m : r[i] = Blank
  BY <1>1, <1>2 DEF Cuts
<1>4. w \in Seq(Char) /\ Len(w) = l /\ \A i \in 1 .. l : w[i] = r[i]
  BY <1>2, <1>3, StartIs
<1>5. PICK k : KeptBy(r, k)
  BY SomethingKept
<1> HIDE DEF w
<1>6. PICK j : KeptBy(w, j)
  BY <1>4, SomethingKept
<1>7. s = k[N] /\ \A n \in 0 .. N : k[n] \in Seq(Char)
  BY <1>5, KeptIs DEF KeptBy
<1>8. rmStrSpace(w) = j[l]
  BY <1>4, <1>6, KeptIs
<1> HIDE DEF s
<1>9. j[l] = k[l]
  <2>1. l <= Len(w) /\ l <= Len(r)
    BY <1>3, <1>4
  <2>. QED BY <1>4, <1>5, <1>6, <2>1, KeptAlike
<1>10. k[m] = k[l] /\ \A i \in 1 .. Len(k[m]) : k[m][i] # Hash
  <2>1. m <= Len(r)
    BY <1>3
  <2>2. k[m] = k[l]
    BY <1>3, <1>5, <2>1, BlanksSkipped
  <2>. QED BY <1>3, <1>5, <2>1, <2>2, KeptChars
<1> DEFINE t == k[m]   x == Len(t)
<1>11. t \in Seq(Char) /\ s \in Seq(Char) /\ x \in Nat
  <2>1. N \in 0 .. N
    BY <1>1
  <2>. QED BY <1>3, <1>7, <2>1, LenProperties
<1>12. NetValue(r) = t
  <2>1. CASE ~Has(Hash, r)
    <3>1. s = t
      BY <1>3, <1>7, <2>1
    <3>2. ~Has(Hash, s)
      BY <1>10, <1>11, <3>1, LenProperties DEF Has
    <3>. QED BY <3>1, <3>2 DEF NetValue, s
  <2>2. CASE Has(Hash, r)
    <3> DEFINE p == m + 1   u == k[p]
    <3>1. p \in 1 .. N /\ p - 1 = m /\ r[p] = Hash /\ p \in Nat /\ p <= N /\ p \in 0 .. N
      BY <1>3, <2>2
    <3> HIDE DEF p
    <3>2. u = Append(t, Hash)
      BY <1>5, <3>1, CharsAre DEF KeptBy
    <3> HIDE DEF t
    <3>3. Len(u) = x + 1 /\ (\A i \in 1 .. x : u[i] = t[i]) /\ u[x + 1] = Hash
      BY <1>11, <3>2, CharsAre, AppendProperties
    <3>4. Begins(u, s)
      BY <1>1, <1>5, <1>7, <3>1, KeptGrows DEF N
    <3> HIDE DEF u, x
    <3>5. x + 1 <= Len(s) /\ \A i \in 1 .. x + 1 : s[i] = u[i]
      BY <3>3, <3>4 DEF Begins
    <3>6. x + 1 \in 1 .. Len(s) /\ (x + 1) - 1 = x /\ s[x + 1] = Hash
          /\ \A i \in 1 .. x : s[i] = t[i]
      <4>1. Len(s) \in Nat
        BY <1>11, LenProperties
      <4>2. x + 1 \in 1 .. x + 1 /\ \A i \in 1 .. x : i \in 1 .. x + 1
        BY <1>11
      <4>. QED BY <1>11, <3>3, <3>5, <4>1, <4>2
    <3>7. Upto(Hash, s) = SubSeq(s, 1, x)
      <4> DEFINE q == x + 1
      <4>1. q \in 1 .. Len(s) /\ s[q] = Hash /\ q - 1 = x
        BY <3>6
      <4>2. \A i \in 1 .. q - 1 : s[i] # Hash
        BY <1>10, <3>6, <4>1 DEF t, x
      <4> HIDE DEF q
      <4>0. s \in Seq(Char)
        BY <1>11
      <4>3. Upto(Hash, s) = SubSeq(s, 1, q - 1)
        BY <4>0, <4>1, <4>2, UptoIs
      <4>. QED BY <4>1, <4>3
    <3>8. SubSeq(s, 1, x) = t
      <4> DEFINE v == SubSeq(s, 1, x)
      <4>1. v \in Seq(Char) /\ Len(v) = x /\ \A i \in 1 .. x : v[i] = s[i]
        BY <1>11, <3>5, StartIs
      <4> HIDE DEF v
      <4>2. \A i \in 1 .. Len(v) : v[i] = t[i]
        BY <3>6, <4>1
      <4>3. Len(v) = Len(t)
        BY <4>1 DEF x
      <4>4. v = t
        BY <1>11, <4>1, <4>2, <4>3, SeqEqual
      <4>. QED BY <4>4 DEF v
    <3>9. Has(Hash, s)
      BY <1>11, <3>6, LenProperties DEF Has
    <3>. QED BY <3>7, <3>8, <3>9 DEF NetValue, s
  <2>. QED BY <2>1, <2>2
<1>13. ~Has(Blank, w) => t = w
  <2> SUFFICES ASSUME ~Has(Blank, w) PROVE t = w
    OBVIOUS
  <2>1. \A i \in 1 .. l : r[i] # Blank
    <3>1. DOMAIN w = 1 .. l
      BY <1>4, LenProperties
    <3>. QED BY <1>4, <3>1 DEF Has
  <2>2. k[l] = SubSeq(r, 1, l)
    <3>1. l <= Len(r)
      BY <1>3
    <3>. QED BY <1>5, <2>1, <3>1, KeptChars
  <2>. QED BY <1>2, <1>10, <2>2 DEF w
<1>. QED BY <1>4, <1>8, <1>9, <1>10, <1>11, <1>12, <1>13 DEF w

(* parserBasicCfg: what is seen, on a plain line. *)
LEMMA BasicSees ==
  ASSUME NEW r \in Seq(Char)
  PROVE  /\ BasicValue(r) \in Seq(Char)
         /\ Plain(r) /\ type = "Basic" => BasicValue(r) = Seen(r)
<1> DEFINE N == Len(r)
<1>1. N \in Nat /\ DOMAIN r = 1 .. N
  BY LenProperties
<1>2. PICK l, m \in Nat : Cuts(r, l, m) /\ Seen(r) = SubSeq(r, 1, l)
  BY SeenIs
<1> DEFINE Cut == /\ m \in 0 .. N /\ l \in 0 .. m
                  /\ \A i \in 1 .. m : r[i] # Hash
                  /\ IF Has(Hash, r) THEN m + 1 <= N /\ r[m + 1] = Hash ELSE m = N
                  /\ \A i \in l + 1 .. m : r[i] = Blank
<1>cut. Cut
  BY <1>2 DEF Cuts
<1>ends. l <= m /\ m <= N /\ l <= N
  <2>1. m \in 0 .. N /\ l \in 0 .. m
    BY <1>cut
  <2> HIDE DEF Cut, N
  <2>. QED BY <1>1, <2>1
<1>3. Cut /\ l <= m /\ m <= N /\ l <= N
  BY <1>ends, <1>cut
<1>4. \A n \in 0 .. N :
        /\ SubSeq(r, 1, n) \in Seq(Char) /\ Len(SubSeq(r, 1, n)) = n
        /\ \A i \in 1 .. n : SubSeq(r, 1, n)[i] = r[i]
  <2> SUFFICES ASSUME NEW n \in 0 .. N
               PROVE  /\ SubSeq(r, 1, n) \in Seq(Char) /\ Len(SubSeq(r, 1, n)) = n
                      /\ \A i \in 1 .. n : SubSeq(r, 1, n)[i] = r[i]
    OBVIOUS
  <2>1. n \in Nat /\ n <= Len(r)
    BY <1>1
  <2>. QED BY <2>1, StartIs
<1>5. SubSeq(r, 1, N) = r
  <2> DEFINE s == SubSeq(r, 1, N)
  <2>1. s \in Seq(Char) /\ Len(s) = N /\ \A i \in 1 .. N : s[i] = r[i]
    BY <1>1, <1>4
  <2> HIDE DEF s
  <2>2. s = r
    BY <2>1, SeqEqual
  <2>. QED BY <2>2 DEF s
<1>6. Has(Hash, r) => Upto(Hash, r) = SubSeq(r, 1, m)
  <2> SUFFICES ASSUME Has(Hash, r) PROVE Upto(Hash, r) = SubSeq(r, 1, m)
    OBVIOUS
  <2> DEFINE p == m + 1
  <2>1. p \in 1 .. Len(r) /\ r[p] = Hash /\ p - 1 = m
    BY <1>1, <1>3
  <2> HIDE DEF p
  <2>2. Upto(Hash, r) = SubSeq(r, 1, p - 1)
    BY <1>3, <2>1, UptoIs
  <2>. QED BY <2>1, <2>2
<1>7. ASSUME Has(Blank, r)
      PROVE  \E b \in 1 .. N : /\ r[b] = Blank /\ \A i \in 1 .. b - 1 : r[i] # Blank
                               /\ Upto(Blank, r) = SubSeq(r, 1, b - 1) /\ b - 1 \in 0 .. N
  <2>1. PICK b \in 1 .. N : r[b] = Blank /\ \A i \in 1 .. b - 1 : r[i] # Blank
    BY <1>7, FirstOf
  <2>2. Upto(Blank, r) = SubSeq(r, 1, b - 1)
    BY <2>1, UptoIs
  <2>3. b - 1 \in 0 .. N
    BY <1>1
  <2>. QED BY <2>1, <2>2, <2>3
<1>8. BasicValue(r) \in Seq(Char)
  BY <1>3, <1>4, <1>6, <1>7 DEF BasicValue
<1>9. ASSUME ~Has(Blank, r) PROVE l = m
  <2>1. \A i \in 1 .. N : r[i] # Blank
    BY <1>1, <1>9 DEF Has
  <2>2. l < m => m \in l + 1 .. m /\ m \in 1 .. N
    BY <1>ends, <1>1
  <2>3. l < m \/ l = m
    BY <1>ends
  <2>. QED BY <1>3, <2>1, <2>2, <2>3
<1>10. ASSUME Has(Hash, r), Has(Blank, r), Has(Blank, Upto(Hash, r)), ~Has(Blank, Seen(r))
       PROVE  Upto(Blank, r) = SubSeq(r, 1, l)
  <2>1. PICK b \in 1 .. N : /\ r[b] = Blank /\ \A i \in 1 .. b - 1 : r[i] # Blank
                            /\ Upto(Blank, r) = SubSeq(r, 1, b - 1)
    BY <1>7, <1>10
  <2>2. \A i \in 1 .. l : r[i] # Blank
    <3> DEFINE s == SubSeq(r, 1, l)
    <3>1. s \in Seq(Char) /\ Len(s) = l /\ \A i \in 1 .. l : s[i] = r[i]
      BY <1>3, <1>4
    <3>2. ~Has(Blank, s)
      BY <1>2, <1>10
    <3> HIDE DEF s
    <3>3. DOMAIN s = 1 .. l
      BY <3>1, LenProperties
    <3>. QED BY <3>1, <3>2, <3>3 DEF Has
  <2>3. \E i \in 1 .. m : r[i] = Blank
    <3> DEFINE s == SubSeq(r, 1, m)
    <3>1. s \in Seq(Char) /\ Len(s) = m /\ \A i \in 1 .. m : s[i] = r[i]
      BY <1>3, <1>4
    <3>2. Has(Blank, s)
      BY <1>6, <1>10
    <3> HIDE DEF s
    <3>3. DOMAIN s = 1 .. m
      BY <3>1, LenProperties
    <3>. QED BY <3>1, <3>2, <3>3 DEF Has
  <2>4. l < m
    BY <1>3, <2>2, <2>3
  <2>5. r[l + 1] = Blank /\ l + 1 \in 1 .. N
    <3>1. l + 1 \in 1 .. N /\ l + 1 \in l + 1 .. m
      BY <1>ends, <1>1, <2>4
    <3>. QED BY <1>3, <3>1
  <2>6. b = l + 1
    <3>1. b \notin 1 .. l /\ l + 1 \notin 1 .. b - 1
      BY <2>1, <2>2, <2>5
    <3>2. b \in Int /\ b >= 1
      BY <1>1
    <3>. QED BY <2>5, <3>1, <3>2
  <2>7. b - 1 = l
    BY <2>6
  <2>. QED BY <2>1, <2>7
<1>11. Plain(r) /\ type = "Basic" => BasicValue(r) = Seen(r)
  <2> SUFFICES ASSUME ~Has(Blank, Seen(r)),
                      ~Has(Blank, r) \/ (Has(Hash, r) /\ Has(Blank, Upto(Hash, r)))
               PROVE  BasicValue(r) = SubSeq(r, 1, l)
    BY <1>2 DEF Plain
  <2>1. CASE ~Has(Hash, r)
    <3>1. l = N /\ BasicValue(r) = r
      BY <1>3, <1>9, <2>1 DEF BasicValue
    <3>. QED BY <1>5, <3>1
  <2>2. CASE Has(Hash, r) /\ ~Has(Blank, r)
    BY <1>6, <1>9, <2>2 DEF BasicValue
  <2>3. CASE Has(Hash, r) /\ Has(Blank, r)
    BY <1>10, <2>3 DEF BasicValue
  <2>. QED BY <2>1, <2>2, <2>3
<1>. QED BY <1>8, <1>11

-----------------------------------------------------------------------------
(* The configuration: what comes of a file.                                *)

Values == Seq(Char) \cup {Missing}

(* The value of a section of which this line counts. *)
ValueOf(w) == IF w = Missing THEN Missing
              ELSE IF type = "Basic" THEN BasicValue(w) ELSE NetValue(w)

LoadTypes ==
  /\ type \in {"Basic", "Net", "Model"}
  /\ loadPc \in {"read", "loaded", "dead", "hung"}
  /\ inside \in BOOLEAN /\ head \in Sections \cup {""}
  /\ held => inside
  /\ inside => type = "Basic" /\ head # ""
  /\ mp \in [Known -> Values] /\ mpVal \in Values
  /\ written \in [Sections -> Seq(Char) \cup {Missing}]

(* Every section has the value of the line that counts, the one that       *)
(* parserBasicCfg is in only in mpVal yet.                                 *)
SoFarInv ==
  (type = "Basic" => odd = {}) =>
    /\ key = head
    /\ inside => type = "Basic" /\ head # "" /\ mpVal = ValueOf(written[head])
    /\ \A s \in Known : ~(inside /\ s = head) => mp[s] = ValueOf(written[s])

EndInv ==
  /\ loadPc = "hung" => type = "Basic" /\ head # ""
  /\ loadPc \in {"loaded", "dead"} =>
       ~inside /\ (loadPc = "dead" <=> Incomplete(mp["needed"]))
  /\ loadPc = "loaded" /\ type = "Net" => cameraUser = Unquoted(mp["needed"])

LoadInv == LoadTypes /\ SoFarInv /\ EndInv

LEMMA ValueIs ==
  ASSUME NEW r \in Pairs
  PROVE  r \in Seq(Char) /\ r # Missing /\ BasicValue(r) \in Seq(Char) /\ NetValue(r) \in Seq(Char)
<1>1. r \in Seq(Char)
  BY ConfigConstants
<1>. QED BY <1>1, CharsAre, BasicSees, NetSees

LEMMA ValueNotMissing ==
  ASSUME NEW w \in Seq(Char)
  PROVE  w # Missing /\ ValueOf(w) \in Seq(Char) /\ ValueOf(w) # Missing
<1>1. w # Missing
  BY CharsAre
<1>2. BasicValue(w) \in Seq(Char) /\ NetValue(w) \in Seq(Char)
  BY BasicSees, NetSees
<1>. QED BY <1>1, <1>2, CharsAre DEF ValueOf

LEMMA LoadHeader ==
  ASSUME LoadInv, NEW s \in Sections, Header(s)
  PROVE  LoadInv'
<1>1. /\ loadPc = "read" /\ type' = type /\ loadPc' = loadPc /\ mp' = mp /\ cameraUser' = cameraUser
      /\ written' = written /\ head' = s /\ odd' = odd \cup Oddity(s)
      /\ held' = inside
      /\ IF type = "Basic" /\ inside THEN inside' = inside /\ key' = key /\ mpVal' = mpVal
         ELSE key' = s /\ mpVal' = Missing /\ inside' = (type = "Basic")
  BY DEF Header, Line
<1>2. LoadTypes' /\ EndInv'
  <2>1. inside' \in BOOLEAN /\ mpVal' \in Values
    BY <1>1 DEF LoadInv, LoadTypes, Values
  <2>2. s # ""
    BY DEF Sections, Known
  <2>3. (held' => inside') /\ (inside' => type = "Basic")
    <3>1. inside => type = "Basic"
      BY DEF LoadInv, LoadTypes
    <3>. QED BY <1>1, <3>1, Zenon
  <2>4. LoadTypes'
    <3>1. held' => inside'
      BY <2>3, Zenon
    <3>2. inside' => type' = "Basic" /\ head' # ""
      BY <1>1, <2>2, <2>3, Zenon
    <3>3. /\ type' \in {"Basic", "Net", "Model"}
          /\ loadPc' \in {"read", "loaded", "dead", "hung"}
          /\ head' \in Sections \cup {""}
          /\ mp' \in [Known -> Values] /\ mpVal' \in Values
          /\ written' \in [Sections -> Seq(Char) \cup {Missing}]
      BY <1>1, <2>1 DEF LoadInv, LoadTypes
    <3>. QED BY <2>1, <3>1, <3>2, <3>3, Zenon DEF LoadTypes
  <2>. QED BY <1>1, <2>4 DEF EndInv
<1>3. ASSUME type = "Basic" => odd' = {}
      PROVE  /\ (type = "Basic" => odd = {}) /\ ~inside
             /\ type = "Basic" => written[s] = Missing
  <2>1. ASSUME type = "Basic" PROVE odd = {} /\ Oddity(s) = {}
    BY <1>1, <1>3, <2>1
  <2>2. ASSUME type = "Basic" PROVE ~inside /\ written[s] = Missing
    BY <2>1, <2>2 DEF Oddity
  <2>3. ASSUME type # "Basic" PROVE ~inside
    BY <2>3 DEF LoadInv, SoFarInv
  <2>. QED BY <2>1, <2>2, <2>3
<1>4. SoFarInv'
  <2> SUFFICES ASSUME type = "Basic" => odd' = {}
               PROVE  /\ key' = s
                      /\ inside' => type = "Basic" /\ s # "" /\ mpVal' = ValueOf(written[s])
                      /\ \A u \in Known : ~(inside' /\ u = s) => mp[u] = ValueOf(written[u])
    BY <1>1 DEF SoFarInv, ValueOf
  <2>1. /\ (type = "Basic" => odd = {}) /\ ~inside /\ (type = "Basic" => written[s] = Missing)
        /\ key' = s /\ mpVal' = Missing /\ inside' = (type = "Basic")
    BY <1>1, <1>3
  <2>2. s # ""
    BY DEF Sections, Known
  <2>3. \A u \in Known : mp[u] = ValueOf(written[u])
    BY <2>1 DEF LoadInv, SoFarInv
  <2>. QED BY <2>1, <2>2, <2>3 DEF ValueOf
<1>. QED BY <1>2, <1>4 DEF LoadInv

LEMMA LoadPair ==
  ASSUME LoadInv, NEW r \in Pairs, Pair(r)
  PROVE  LoadInv'
<1>1. /\ loadPc = "read" /\ type' = type /\ loadPc' = loadPc /\ inside' = inside /\ key' = key
      /\ cameraUser' = cameraUser /\ head' = head /\ held' = inside
  BY DEF Pair, Line
<1>2. IF type = "Basic"
      THEN mpVal' = (IF inside THEN Inserted(mpVal, BasicValue(r)) ELSE mpVal) /\ mp' = mp
      ELSE /\ mp' = IF key \notin Known THEN mp
                    ELSE setCfg(key, PairValue(mp[key], NetValue(r)))
           /\ mpVal' = mpVal
  BY DEF Pair
<1>3. /\ written' = IF head # "" /\ (written[head] = Missing \/ type = "Model")
                    THEN [written EXCEPT ![head] = r] ELSE written
      /\ odd' = odd \cup {o \in {"split"} : head # "" /\ type = "Basic" /\ ~inside}
  BY DEF Pair
<1>4. r \in Seq(Char) /\ r # Missing /\ BasicValue(r) \in Seq(Char) /\ NetValue(r) \in Seq(Char)
  BY ValueIs
<1>5. LoadTypes
  BY DEF LoadInv
<1>6. written' \in [Sections -> Seq(Char) \cup {Missing}]
  BY <1>3, <1>4, <1>5 DEF LoadTypes
<1>7. mp' \in [Known -> Values] /\ mpVal' \in Values
  BY <1>2, <1>4, <1>5 DEF LoadTypes, Values, Inserted, PairValue, setCfg
<1>8. LoadTypes' /\ EndInv'
  <2>1. (held' => inside') /\ inside' \in BOOLEAN
    BY <1>1, <1>5, Zenon DEF LoadTypes
  <2>2. LoadTypes'
    BY <1>1, <1>5, <1>6, <1>7, <2>1, Zenon DEF LoadTypes
  <2>. QED BY <1>1, <2>2 DEF EndInv
<1>9. SoFarInv'
  <2> SUFFICES ASSUME type = "Basic" => odd' = {}
               PROVE  /\ key = head
                      /\ inside => type = "Basic" /\ head # "" /\ mpVal' = ValueOf(written'[head])
                      /\ \A s \in Known : ~(inside /\ s = head) => mp'[s] = ValueOf(written'[s])
    BY <1>1 DEF SoFarInv, ValueOf
  <2>1. type = "Basic" => odd = {} /\ (head # "" => inside)
    BY <1>3
  <2>2. /\ key = head
        /\ inside => type = "Basic" /\ head # "" /\ mpVal = ValueOf(written[head])
        /\ \A s \in Known : ~(inside /\ s = head) => mp[s] = ValueOf(written[s])
    BY <2>1 DEF LoadInv, SoFarInv
  <2>3. /\ \A w \in Seq(Char) : ValueOf(w) # Missing /\ ValueOf(w) \in Seq(Char)
        /\ ValueOf(Missing) = Missing
        /\ ValueOf(r) = IF type = "Basic" THEN BasicValue(r) ELSE NetValue(r)
    BY <1>4, ValueNotMissing DEF ValueOf
  <2>4. ASSUME NEW s \in Sections, s # head PROVE written'[s] = written[s]
    BY <1>3, <1>5, <2>4 DEF LoadTypes
  <2>5. CASE head = ""
    <3>1. written' = written /\ mp' = mp /\ ~inside
      <4>1. "" \notin Known
        BY DEF Known
      <4>. QED BY <1>2, <1>3, <2>2, <2>5, <4>1
    <3>. QED BY <2>2, <3>1
  <2>6. CASE head # ""
    <3>1. head \in Sections /\ written[head] \in Seq(Char) \cup {Missing}
      BY <1>5, <2>6 DEF LoadTypes
    <3>2. written'[head] = IF written[head] = Missing \/ type = "Model" THEN r ELSE written[head]
      BY <1>3, <1>5, <2>6, <3>1 DEF LoadTypes
    <3>3. CASE type = "Basic"
      <4>1. inside /\ mp' = mp /\ mpVal' = Inserted(mpVal, BasicValue(r))
        BY <1>2, <2>1, <2>6, <3>3
      <4>2. mpVal' = ValueOf(written'[head])
        BY <2>2, <2>3, <3>1, <3>2, <3>3, <4>1 DEF Inserted
      <4>3. ASSUME NEW s \in Known, s # head PROVE mp'[s] = ValueOf(written'[s])
        <5>1. s \in Sections
          BY DEF Sections
        <5>. QED BY <2>2, <2>4, <4>1, <4>3, <5>1
      <4>. QED BY <2>2, <4>1, <4>2, <4>3
    <3>4. CASE type # "Basic"
      <4>1. ~inside
        BY <2>2, <3>4
      <4>2. ASSUME NEW s \in Known PROVE mp'[s] = ValueOf(written'[s])
        <5>1. s \in Sections /\ mp[s] = ValueOf(written[s]) /\ mp \in [Known -> Values]
          BY <1>5, <2>2, <4>1 DEF Sections, LoadTypes
        <5>2. CASE s # head
          <6>1. mp'[s] = mp[s]
            BY <1>2, <2>2, <3>4, <5>1, <5>2 DEF setCfg
          <6>. QED BY <2>4, <5>1, <5>2, <6>1
        <5>3. CASE s = head
          <6>1. mp'[s] = PairValue(mp[s], NetValue(r))
            BY <1>2, <2>2, <3>4, <5>1, <5>3 DEF setCfg
          <6>2. CASE type = "Net"
            BY <2>3, <3>1, <3>2, <5>1, <5>3, <6>1, <6>2 DEF PairValue, Inserted
          <6>3. CASE type # "Net"
            <7>1. type = "Model"
              BY <1>5, <3>4, <6>3 DEF LoadTypes
            <7>. QED BY <2>3, <3>2, <5>3, <6>1, <7>1 DEF PairValue
          <6>. QED BY <6>2, <6>3
        <5>. QED BY <5>2, <5>3
      <4>. QED BY <2>2, <4>1, <4>2
    <3>. QED BY <3>3, <3>4
  <2>. QED BY <2>5, <2>6
<1>. QED BY <1>8, <1>9 DEF LoadInv

LEMMA LoadComment ==
  ASSUME LoadInv, Comment
  PROVE  LoadInv'
<1>1. /\ loadPc = "read" /\ type' = type /\ loadPc' = loadPc /\ inside' = inside /\ key' = key
      /\ mpVal' = mpVal /\ mp' = mp /\ head' = head /\ written' = written /\ odd' = odd
      /\ held' = inside
  BY DEF Comment, Line
<1>2. LoadTypes' /\ EndInv'
  <2>1. LoadTypes'
    BY <1>1, Zenon DEF LoadInv, LoadTypes
  <2>. QED BY <1>1, <2>1 DEF EndInv
<1>3. SoFarInv'
  BY <1>1 DEF LoadInv, SoFarInv, ValueOf
<1>. QED BY <1>2, <1>3 DEF LoadInv

LEMMA LoadHangs ==
  ASSUME LoadInv, EndsInLine
  PROVE  LoadInv'
<1>1. /\ type' = type /\ loadPc' = "hung" /\ inside' = inside /\ key' = key /\ held' = held
      /\ mpVal' = mpVal /\ mp' = mp /\ head' = head /\ written' = written /\ odd' = odd
  BY DEF EndsInLine
<1>2. type = "Basic" /\ head # ""
  BY Zenon DEF EndsInLine, LoadInv, LoadTypes
<1>3. LoadTypes'
  <2>1. loadPc' \in {"read", "loaded", "dead", "hung"}
    BY <1>1
  <2>. QED BY <1>1, <2>1, Zenon DEF LoadInv, LoadTypes
<1>4. EndInv'
  BY <1>1, <1>2 DEF EndInv
<1>5. SoFarInv'
  BY <1>1 DEF LoadInv, SoFarInv, ValueOf
<1>. QED BY <1>3, <1>4, <1>5 DEF LoadInv

(* At the end of a section. *)
LEMMA SectionEnds ==
  ASSUME LoadInv, mp' = IF inside THEN setCfg(key, mpVal) ELSE mp
  PROVE  /\ mp' \in [Known -> Values]
         /\ (type = "Basic" => odd = {}) =>
              key = head /\ \A s \in Known : mp'[s] = ValueOf(written[s])
<1>1. mp \in [Known -> Values] /\ mpVal \in Values
  BY DEF LoadInv, LoadTypes
<1>2. mp' \in [Known -> Values]
  BY <1>1 DEF setCfg
<1>3. ASSUME type = "Basic" => odd = {}, NEW s \in Known PROVE mp'[s] = ValueOf(written[s])
  <2>1. /\ key = head /\ (inside => mpVal = ValueOf(written[head]))
        /\ ~(inside /\ s = head) => mp[s] = ValueOf(written[s])
    BY <1>3 DEF LoadInv, SoFarInv
  <2>2. CASE inside /\ s = head
    BY <1>1, <2>1, <2>2 DEF setCfg
  <2>3. CASE ~(inside /\ s = head)
    BY <1>1, <2>1, <2>3 DEF setCfg
  <2>. QED BY <2>2, <2>3
<1>. QED BY <1>2, <1>3 DEF LoadInv, SoFarInv

LEMMA LoadEmpty ==
  ASSUME LoadInv, Empty
  PROVE  LoadInv'
<1>1. /\ loadPc = "read" /\ type' = type /\ loadPc' = loadPc /\ inside' = FALSE /\ key' = key
      /\ mpVal' = mpVal /\ cameraUser' = cameraUser /\ head' = head /\ written' = written /\ odd' = odd
      /\ held' = FALSE
      /\ mp' = IF inside THEN setCfg(key, mpVal) ELSE mp
  BY DEF Empty, Line
<1>2. /\ mp' \in [Known -> Values]
      /\ (type = "Basic" => odd = {}) =>
           key = head /\ \A s \in Known : mp'[s] = ValueOf(written[s])
  BY <1>1, SectionEnds
<1>3. LoadTypes' /\ EndInv'
  BY <1>1, <1>2 DEF LoadInv, LoadTypes, EndInv
<1>4. SoFarInv'
  BY <1>1, <1>2 DEF SoFarInv, ValueOf
<1>. QED BY <1>3, <1>4 DEF LoadInv

LEMMA LoadEnd ==
  ASSUME LoadInv, initCfg
  PROVE  LoadInv'
<1>1. /\ type' = type /\ others' = others /\ inside' = FALSE /\ held' = FALSE /\ key' = key
      /\ mpVal' = mpVal /\ head' = head /\ written' = written /\ odd' = odd
      /\ mp' = IF inside THEN setCfg(key, mpVal) ELSE mp
      /\ loadPc' = IF Incomplete(mp'["needed"]) THEN "dead" ELSE "loaded"
      /\ type = "Net" /\ loadPc' = "loaded" => cameraUser' = Unquoted(mp'["needed"])
  BY DEF initCfg
<1>2. /\ mp' \in [Known -> Values]
      /\ (type = "Basic" => odd = {}) =>
           key = head /\ \A s \in Known : mp'[s] = ValueOf(written[s])
  BY <1>1, SectionEnds
<1>3. LoadTypes'
  BY <1>1, <1>2 DEF LoadInv, LoadTypes
<1>4. EndInv'
  BY <1>1 DEF EndInv, Incomplete, Unquoted
<1>5. SoFarInv'
  BY <1>1, <1>2 DEF SoFarInv, ValueOf
<1>. QED BY <1>3, <1>4, <1>5 DEF LoadInv

(* What the program works with is what the files say, for any lines in any *)
(* number: each plain one reaches its section's parameter, the network's   *)
(* camera keeps what stands between the quotes; the process comes through  *)
(* exactly if what it needs is there, and only an fservo.cfg that ends in  *)
(* a section without a newline keeps it reading for ever                   *)
(* (fileManager.cpp, common.cpp, yoloDetect.cpp).                          *)
THEOREM ConfigSafe == LoadSpec => []ConfigAsWritten
<1>1. LoadInit => LoadInv
  <2> SUFFICES ASSUME LoadInit PROVE LoadInv
    OBVIOUS
  <2>1. LoadTypes
    BY DEF LoadInit, LoadTypes, Values, Sections
  <2>2. SoFarInv
    <3>1. \A s \in Known : mp[s] = Missing /\ written[s] = Missing
      BY DEF LoadInit, Sections
    <3>. QED BY <3>1 DEF LoadInit, SoFarInv, ValueOf
  <2>. QED BY <2>1, <2>2 DEF LoadInit, LoadInv, EndInv
<1>2. LoadInv /\ [LoadNext]_loadVars => LoadInv'
  <2>1. ASSUME LoadInv, UNCHANGED loadVars PROVE LoadInv'
    BY <2>1 DEF loadVars, LoadInv, LoadTypes, SoFarInv, EndInv, ValueOf, Incomplete
  <2>. QED BY <2>1, LoadHeader, LoadPair, LoadComment, LoadEmpty, LoadHangs, LoadEnd DEF LoadNext
<1>3. LoadInv => ValuesAsWritten
  <2> SUFFICES ASSUME LoadInv, loadPc = "loaded", type = "Basic" => odd = {}, NEW s \in Known
               PROVE  \/ written[s] = Missing /\ mp[s] = Missing
                      \/ written[s] # Missing /\ (Plain(written[s]) => mp[s] = Seen(written[s]))
    BY DEF ValuesAsWritten
  <2>1. mp[s] = ValueOf(written[s])
    BY DEF LoadInv, SoFarInv, EndInv
  <2>2. written[s] \in Seq(Char) \cup {Missing}
    BY DEF LoadInv, LoadTypes, Sections
  <2> DEFINE w == written[s]
  <2> HIDE DEF w
  <2>3. CASE w = Missing
    BY <2>1, <2>3 DEF ValueOf, w
  <2>4. CASE w # Missing
    <3>1. w \in Seq(Char)
      BY <2>2, <2>4 DEF w
    <3>2. ASSUME Plain(w), type = "Basic" PROVE ValueOf(w) = Seen(w)
      BY <2>4, <3>1, <3>2, BasicSees DEF ValueOf
    <3>3. ASSUME Plain(w), type # "Basic" PROVE ValueOf(w) = Seen(w)
      <4>1. ~Has(Blank, Seen(w))
        BY <3>3 DEF Plain
      <4>. QED BY <2>4, <3>1, <3>3, <4>1, NetSees DEF ValueOf
    <3>. QED BY <2>1, <2>4, <3>2, <3>3 DEF w
  <2>. QED BY <2>3, <2>4
<1>4. ASSUME LoadInv, type = "Basic" => odd = {}, loadPc \in {"loaded", "dead"}
      PROVE  LET r == written["needed"]
                 v == mp["needed"]
             IN  /\ r \in Seq(Char) \cup {Missing}
                 /\ r = Missing => v = Missing
                 /\ r # Missing => /\ v # Missing
                                   /\ type = "Net" => v = rmStrSpace(Seen(r))
                                   /\ type = "Basic" /\ Plain(r) => v = Seen(r)
  <2> DEFINE r == written["needed"]   v == mp["needed"]
  <2>1. "needed" \in Known
    BY DEF Known
  <2>2. v = ValueOf(r) /\ r \in Seq(Char) \cup {Missing}
    BY <1>4, <2>1 DEF LoadInv, LoadTypes, SoFarInv, EndInv, Sections
  <2>3. r = Missing => v = Missing
    BY <2>2 DEF ValueOf
  <2>4. ASSUME r # Missing
        PROVE  /\ v # Missing
               /\ type = "Net" => v = rmStrSpace(Seen(r))
               /\ type = "Basic" /\ Plain(r) => v = Seen(r)
    <3>1. r \in Seq(Char)
      BY <2>2, <2>4
    <3> HIDE DEF r, v
    <3>. QED BY <2>2, <2>4, <3>1, NetSees, BasicSees, ValueNotMissing DEF ValueOf
  <2>. QED BY <2>2, <2>3, <2>4
<1>5. LoadInv => LivesIfComplete
  <2> DEFINE w == written["needed"]   v == mp["needed"]
             text == IF type = "Net" THEN rmStrSpace(Seen(w)) ELSE Seen(w)
  <2> SUFFICES ASSUME LoadInv, loadPc \in {"loaded", "dead"},
                      type = "Basic" => odd = {} /\ (w # Missing => Plain(w))
               PROVE  loadPc = "loaded" <=>
                        \/ others = "all" /\ w # Missing /\ (type # "Model" => text # <<>>)
                        \/ others = "none" /\ w = Missing /\ type = "Model"
    BY DEF LivesIfComplete, LoadInv, EndInv
  <2>1. /\ w = Missing => v = Missing
        /\ w # Missing => v # Missing /\ (type # "Model" => v = text)
    <3>1. type \in {"Basic", "Net", "Model"}
      BY DEF LoadInv, LoadTypes
    <3>. QED BY <1>4, <3>1
  <2>2. loadPc = "loaded" <=> ~Incomplete(v)
    BY DEF LoadInv, EndInv
  <2> HIDE DEF w, v, text
  <2>. QED BY <2>1, <2>2 DEF Incomplete
<1>6. LoadInv => UserFromItsQuotes
  <2> DEFINE w == rmStrSpace(Seen(written["needed"]))   v == mp["needed"]
  <2> SUFFICES ASSUME LoadInv, type = "Net", loadPc = "loaded", Len(w) > 1
               PROVE  cameraUser = SubSeq(w, 2, Len(w) - 1)
    BY DEF UserFromItsQuotes
  <2>1. cameraUser = Unquoted(v) /\ ~Incomplete(v)
    BY DEF LoadInv, EndInv
  <2>2. v # Missing
    BY <2>1 DEF Incomplete
  <2>3. v = w
    BY <1>4, <2>2
  <2> HIDE DEF w, v
  <2>. QED BY <2>1, <2>3 DEF Unquoted
<1>. QED BY <1>1, <1>2, <1>3, <1>5, <1>6, PTL DEF LoadSpec, ConfigAsWritten
=============================================================================
