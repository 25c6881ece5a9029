-------------------------- MODULE RtpBufferProofs --------------------------
(***************************************************************************)
(* RtpBuffer for every ring size, sequence range, lag and network: where a *)
(* packet goes, who owns its block, how far the parser trails.             *)
(***************************************************************************)
EXTENDS RtpBuffer, ModularArithmetic, FiniteSetTheorems, TLAPS

(* A packet's slot depends on its distance from the first packet alone.    *)
(* The count of wraps, which a packet from before a wrap that arrives      *)
(* after it gets wrong, does not matter, because the ring divides the      *)
(* range of the sequence numbers.                                          *)
THEOREM SlotOfPacket ==
  ASSUME NEW p \in Int, NEW f \in Int, NEW n \in Int
  PROVE  PosOf(SeqOf(p), n, SeqOf(f)) = (p - f) % BUFFER_SIZE
<1> DEFINE b == BUFFER_SIZE
           w == SEQS
           m == w \div b
           u == FirstSeq + p
           v == FirstSeq + f
           x == u \div w
           y == v \div w
           k == m * ((n - x) + y)
           s == u % w
           t == v % w
<1>1. b \in Nat \ {0} /\ w \in Nat \ {0} /\ (w % b) = 0 /\ FirstSeq \in Int
  BY ConstantsAssumption
<1> HIDE DEF b, w
<1>2. u \in Int /\ v \in Int /\ u - v = p - f
  BY <1>1
<1> HIDE DEF u, v
<1>3. m \in Int /\ w = b * m
  <2>1. w \in Int /\ m \in Int /\ w = b * m + (w % b)
    BY <1>1, DivMod
  <2>. QED BY <1>1, <2>1
<1>4. x \in Int /\ s \in Int /\ u = w * x + s
  BY <1>1, <1>2, DivMod
<1>5. y \in Int /\ t \in Int /\ v = w * y + t
  BY <1>1, <1>2, DivMod
<1> HIDE DEF m, x, y, s, t
<1>6. k \in Int
  BY <1>3, <1>4, <1>5
<1>7. b * k = ((w * n) - (w * x)) + (w * y)
  <2>1. b * k = (b * m) * ((n - x) + y)
    BY <1>1, <1>3, <1>4, <1>5
  <2>2. (b * m) * ((n - x) + y) = ((w * n) - (w * x)) + (w * y)
    BY <1>1, <1>3, <1>4, <1>5
  <2>. QED BY <2>1, <2>2
<1> HIDE DEF k
<1>8. (s + w * n) - t = (p - f) + b * k
  BY <1>1, <1>2, <1>4, <1>5, <1>7
<1>9. (s + w * n) - t \in Int /\ p - f \in Int
  BY <1>1, <1>4, <1>5
<1> DEFINE c == (s + w * n) - t
           d == p - f
<1>10. c \in Int /\ d \in Int /\ c = d + b * k
  BY <1>8, <1>9
<1> HIDE DEF c, d
<1>11. (c % b) = (d % b)
  BY <1>1, <1>6, <1>10, ModShift
<1>. QED BY <1>11 DEF c, d, PosOf, SeqOf, s, t, u, v, b, w

LEMMA PosOfInRing ==
  ASSUME NEW q \in Int, NEW n \in Int, NEW f \in Int
  PROVE  PosOf(q, n, f) \in Pos
<1> DEFINE a == (q + SEQS * n) - f
<1>1. BUFFER_SIZE \in Nat \ {0} /\ SEQS \in Nat
  BY ConstantsAssumption
<1>2. a \in Int
  BY <1>1
<1> HIDE DEF a
<1>3. (a % BUFFER_SIZE) \in 0 .. BUFFER_SIZE - 1
  BY <1>1, <1>2, DivMod
<1>. QED BY <1>3 DEF PosOf, Pos, a

LEMMA SeqOfInt == ASSUME NEW p \in Int PROVE SeqOf(p) \in Int
<1> DEFINE a == FirstSeq + p
<1>1. SEQS \in Nat \ {0} /\ a \in Int
  BY ConstantsAssumption
<1> HIDE DEF a
<1>2. (a % SEQS) \in 0 .. SEQS - 1
  BY <1>1, DivMod
<1>3. (a % SEQS) \in Int
  BY <1>1, <1>2
<1>. QED BY <1>3 DEF SeqOf, a

-----------------------------------------------------------------------------
(* Every packet sent is on its way, lost, or received.                     *)
CountInv ==
  /\ IsFiniteSet(flight) /\ \A p \in flight : p < sent
  /\ sent = ((Cardinality(flight) + lost) + received) - dups

(* The tokens posted: none for the first LAG packets.                      *)
TokenInv ==
  ~is_stop => Begun = Heard - (IF Heard < LAG THEN Heard ELSE LAG)

(* Blocks are numbered as they are allocated, so the next one is new.      *)
OwnInv ==
  /\ BlocksOwnedOnce
  /\ \A c \in live : c < received

PostInv == rxPc = "post" => received > 0

IInv == TypeOK /\ CountInv /\ TokenInv /\ OwnInv /\ PostInv

LEMMA ConstantTypes ==
  /\ LAG \in Nat /\ MaxSent \in Nat /\ MaxLost \in Nat /\ MaxDup \in Nat
  /\ BUFFER_SIZE \in Nat \ {0} /\ SEQS \in Nat \ {0} /\ FirstSeq \in Nat
  BY ConstantsAssumption

LEMMA NoneTyped == None \in Slot
  BY ConstantTypes DEF None, Slot

LEMMA InitInv == Init => IInv
<1> SUFFICES ASSUME Init PROVE IInv
  OBVIOUS
<1>1. TypeOK
  <2>1. slots \in [Pos -> Slot] /\ inHand \in Slot
    BY NoneTyped DEF Init
  <2>2. /\ 0 \in 0 .. MaxSent /\ 0 \in 0 .. MaxLost /\ 0 \in 0 .. MaxDup
        /\ 0 \in 0 .. MaxSent + MaxDup /\ -1 \in -1 .. MaxSent
    BY ConstantTypes
  <2>3. /\ flight \subseteq 0 .. MaxSent /\ live \subseteq 0 .. MaxSent + MaxDup
        /\ misfits \subseteq {"early", "late"}
    BY DEF Init
  <2>. QED BY <2>1, <2>2, <2>3 DEF Init, TypeOK
<1>2. CountInv
  BY FS_EmptySet, ConstantTypes DEF Init, CountInv
<1>3. TokenInv
  <2>1. Begun = 0 /\ Heard = 0
    BY DEF Init, Begun, Heard, Unposted
  <2>2. (IF Heard < LAG THEN Heard ELSE LAG) = 0
    BY <2>1, ConstantTypes
  <2>. QED BY <2>1, <2>2 DEF TokenInv
<1>4. OwnInv
  <2>1. Occupied = {} /\ InUse = {}
    BY DEF Init, Occupied, InUse, None
  <2>. QED BY <2>1 DEF Init, OwnInv, BlocksOwnedOnce
<1>. QED BY <1>1, <1>2, <1>3, <1>4 DEF IInv, PostInv, Init

(* Steps that touch no packet leave the counts and the blocks as they are. *)
LEMMA CountUnchanged ==
  ASSUME CountInv, UNCHANGED <<netVars, received>>
  PROVE  CountInv'
  BY DEF CountInv, netVars

LEMMA OwnUnchanged ==
  ASSUME OwnInv, UNCHANGED <<slots, live, received>>, InUse' = InUse
  PROVE  OwnInv'
<1>1. Occupied' = Occupied
  BY DEF Occupied
<1>. QED BY <1>1 DEF OwnInv, BlocksOwnedOnce

-----------------------------------------------------------------------------
(* receive_thread puts packet p in its slot: the one step that allocates.  *)
LEMMA ReceiveInv ==
  ASSUME IInv, NEW p \in flight, NEW again \in BOOLEAN, Receive(p, again)
  PROVE  IInv'
<1> USE DEF IInv
<1> DEFINE s == PosOf(SeqOf(p), times, SeqOf(first'))
           new == [isValid |-> TRUE, seq |-> p, block |-> received]
           old == IF slots[s].isValid THEN {slots[s].block} ELSE {}
<1>1. p \in 0 .. MaxSent /\ received \in Nat /\ times \in Nat
  BY ConstantTypes DEF TypeOK
<1>2. first' \in -1 .. MaxSent /\ first' \in Int /\ p \in Int /\ times \in Int
  BY <1>1, ConstantTypes DEF Receive, TypeOK
<1>3. s \in Pos
  BY <1>2, SeqOfInt, PosOfInRing
<1>4. /\ slots' = [slots EXCEPT ![s] = new]
      /\ live' = (live \ old) \cup {received}
      /\ received' = received + 1 /\ rxPc = "read" /\ rxPc' = "post"
      /\ times' \in {times, times + 1}
      /\ UNCHANGED <<sent, lost, sem_buffer, index, parserPc, inHand, lastOut,
                     is_stop, stopPc>>
  BY DEF Receive, parserVars, stopVars
<1>5. misfits' \subseteq {"early", "late"}
  BY DEF Receive, TypeOK
<1>6. \/ dups' = dups + 1 /\ dups < MaxDup /\ flight' = flight
      \/ dups' = dups /\ flight' = flight \ {p}
  BY Zenon DEF Receive
<1> HIDE DEF s
<1>7. CountInv'
  <2>1. CASE dups' = dups + 1 /\ flight' = flight
    <3>1. Cardinality(flight) \in Nat
      BY FS_CardinalityType DEF CountInv
    <3>. QED BY <1>1, <1>4, <2>1, <3>1 DEF CountInv, TypeOK
  <2>2. CASE dups' = dups /\ flight' = flight \ {p}
    <3>1. IsFiniteSet(flight') /\ Cardinality(flight') = Cardinality(flight) - 1
      BY <2>2, FS_RemoveElement, Zenon DEF CountInv
    <3>2. Cardinality(flight) \in Nat
      BY FS_CardinalityType DEF CountInv
    <3>. QED BY <1>1, <1>4, <2>2, <3>1, <3>2 DEF CountInv, TypeOK
  <2>. QED BY <1>6, <2>1, <2>2
<1>8. received' \in 0 .. MaxSent + MaxDup /\ dups' \in 0 .. MaxDup /\ flight' \subseteq 0 .. MaxSent
  <2>1. Cardinality(flight') \in Nat
    BY <1>7, FS_CardinalityType DEF CountInv
  <2>2. dups' \in 0 .. MaxDup /\ flight' \subseteq 0 .. MaxSent
    <3>1. dups \in 0 .. MaxDup /\ flight \subseteq 0 .. MaxSent
      BY DEF TypeOK
    <3>2. dups' \in 0 .. MaxDup
      BY <1>6, <3>1, ConstantTypes
    <3>. QED BY <1>6, <3>1, <3>2
  <2>3. lost \in Nat /\ sent \in 0 .. MaxSent /\ received' \in Nat
    BY <1>1, <1>4, ConstantTypes DEF TypeOK
  <2>. QED BY <1>4, <1>7, <2>1, <2>2, <2>3, ConstantTypes DEF CountInv
<1>9. TypeOK'
  <2>1. received \in 0 .. MaxSent + MaxDup
    BY DEF TypeOK
  <2>2. new \in Slot
    BY <1>1, <2>1, ConstantTypes DEF Slot
  <2>3. slots' \in [Pos -> Slot]
    BY <1>3, <1>4, <2>2 DEF TypeOK
  <2>4. live' \subseteq 0 .. MaxSent + MaxDup
    BY <1>4, <2>1 DEF TypeOK
  <2>5. times' \in Nat
    BY <1>1, <1>4
  <2>. QED BY <1>2, <1>4, <1>5, <1>8, <2>3, <2>4, <2>5 DEF TypeOK
<1>10. TokenInv'
  <2>1. Begun' = Begun
    BY <1>4 DEF Begun
  <2>2. Heard' = Heard
    BY <1>1, <1>4 DEF Heard, Unposted
  <2>. QED BY <1>4, <2>1, <2>2 DEF TokenInv
<1>11. OwnInv'
  <2>1. InUse' = InUse
    BY <1>4 DEF InUse
  <2>2. Occupied' = Occupied \cup {s}
    BY <1>3, <1>4 DEF Occupied, TypeOK
  <2>3. slots'[s].block = received /\ \A t \in Pos \ {s} : slots'[t] = slots[t]
    BY <1>3, <1>4 DEF TypeOK
  <2>4. \A t \in Occupied : slots[t].block \in live
    BY DEF OwnInv, BlocksOwnedOnce
  <2>5. \A c \in live \cup InUse : c \in live /\ c # received
    BY <1>1 DEF OwnInv, BlocksOwnedOnce
  <2>6. live' = {slots'[t].block : t \in Occupied'} \cup InUse'
    <3>1. ASSUME NEW c \in live' PROVE c \in {slots'[t].block : t \in Occupied'} \cup InUse'
      <4>1. CASE c = received
        BY <2>2, <2>3, <4>1
      <4>2. CASE c \in live /\ c \notin old
        <5>1. CASE c \in InUse
          BY <2>1, <5>1
        <5>2. CASE c \notin InUse
          <6>1. PICK t \in Occupied : c = slots[t].block
            BY <4>2, <5>2 DEF OwnInv, BlocksOwnedOnce
          <6>2. t # s
            BY <4>2, <6>1 DEF Occupied
          <6>. QED BY <2>2, <2>3, <6>1, <6>2 DEF Occupied
        <5>. QED BY <5>1, <5>2
      <4>. QED BY <1>4, <3>1, <4>1, <4>2
    <3>2. ASSUME NEW t \in Occupied' PROVE slots'[t].block \in live'
      <4>1. CASE t = s
        BY <1>4, <2>3, <4>1
      <4>2. CASE t # s
        <5>1. t \in Occupied /\ slots'[t].block = slots[t].block
          BY <2>2, <2>3, <4>2 DEF Occupied
        <5>2. slots[t].block \in live /\ slots[t].block \notin old
          BY <2>4, <4>2, <5>1, <1>3 DEF OwnInv, BlocksOwnedOnce, Occupied
        <5>. QED BY <1>4, <5>1, <5>2
      <4>. QED BY <4>1, <4>2
    <3>3. InUse' \subseteq live'
      <4>1. \A c \in InUse : c \notin old
        BY <1>3 DEF OwnInv, BlocksOwnedOnce, Occupied
      <4>. QED BY <1>4, <2>1, <2>5, <4>1
    <3>. QED BY <3>1, <3>2, <3>3
  <2>7. ASSUME NEW t \in Occupied', NEW u \in Occupied', slots'[t].block = slots'[u].block
        PROVE  t = u
    <3>1. \A v \in Occupied' : v # s => v \in Occupied /\ slots'[v] = slots[v]
      BY <2>2, <2>3 DEF Occupied
    <3>2. \A v \in Occupied' : v # s => slots'[v].block # received
      BY <2>4, <2>5, <3>1
    <3>. QED BY <2>3, <2>7, <3>1, <3>2 DEF OwnInv, BlocksOwnedOnce
  <2>8. \A t \in Occupied' : slots'[t].block \notin InUse'
    BY <2>1, <2>2, <2>3, <2>5 DEF OwnInv, BlocksOwnedOnce, Occupied
  <2>9. \A c \in live' : c < received'
    <3>1. \A c \in live : c \in Nat /\ c < received
      BY ConstantTypes DEF OwnInv, TypeOK
    <3>. QED BY <1>1, <1>4, <3>1
  <2>. QED BY <2>6, <2>7, <2>8, <2>9 DEF OwnInv, BlocksOwnedOnce
<1>12. PostInv'
  BY <1>1, <1>4 DEF PostInv
<1>. QED BY <1>7, <1>9, <1>10, <1>11, <1>12

(* The parser takes its slot: the block passes from the ring to its copy.  *)
LEMMA TakeInv == ASSUME IInv, Take PROVE IInv'
<1> USE DEF IInv
<1> DEFINE s == index % BUFFER_SIZE
<1>1. s \in Pos /\ index \in Nat
  <2>1. index \in Nat /\ index \in Int
    BY DEF TypeOK
  <2>2. s \in 0 .. BUFFER_SIZE - 1
    BY <2>1, ConstantTypes, DivMod
  <2>. QED BY <2>1, <2>2 DEF Pos
<1>2. /\ parserPc = "take"
      /\ \/ /\ slots[s].isValid
            /\ inHand' = slots[s]
            /\ slots' = [slots EXCEPT ![s].isValid = FALSE]
            /\ parserPc' = "parse"
            /\ index' = index
         \/ /\ index' = index + 1
            /\ parserPc' = "top"
            /\ UNCHANGED <<inHand, slots>>
      /\ UNCHANGED <<sent, flight, lost, dups, rxPc, received, first, times, misfits,
                     sem_buffer, lastOut, live, is_stop, stopPc>>
  BY DEF Take, netVars, rxVars, stopVars
<1> HIDE DEF s
<1>3. TypeOK'
  <2>1. inHand' \in Slot /\ slots' \in [Pos -> Slot]
    <3>1. slots[s] \in Slot
      BY <1>1 DEF TypeOK
    <3>2. [slots[s] EXCEPT !.isValid = FALSE] \in Slot
      BY <3>1 DEF Slot
    <3>. QED BY <1>1, <1>2, <3>1, <3>2 DEF TypeOK
  <2>. QED BY <1>1, <1>2, <2>1 DEF TypeOK
<1>4. CountInv'
  BY <1>2, CountUnchanged DEF netVars
<1>5. TokenInv'
  <2>1. Begun' = Begun
    BY <1>1, <1>2 DEF Begun, TypeOK
  <2>2. Heard' = Heard
    BY <1>2 DEF Heard, Unposted
  <2>. QED BY <1>2, <2>1, <2>2 DEF TokenInv
<1>6. OwnInv'
  <2>1. InUse = {}
    BY <1>2 DEF InUse
  <2>2. CASE parserPc' = "top"
    <3>1. InUse' = {} /\ UNCHANGED <<slots, live, received>>
      BY <1>2, <2>2 DEF InUse
    <3>. QED BY <2>1, <3>1, OwnUnchanged
  <2>3. CASE parserPc' = "parse"
    <3>1. /\ slots[s].isValid /\ inHand' = slots[s]
          /\ slots' = [slots EXCEPT ![s].isValid = FALSE]
      BY <1>2, <2>3
    <3>2. InUse' = {slots[s].block}
      BY <2>3, <3>1 DEF InUse
    <3>3. Occupied' = Occupied \ {s} /\ s \in Occupied
      BY <1>1, <3>1 DEF Occupied, TypeOK, Slot
    <3>4. \A t \in Occupied' : slots'[t] = slots[t]
      BY <1>1, <3>1, <3>3 DEF Occupied, TypeOK
    <3>. QED BY <1>2, <2>1, <3>2, <3>3, <3>4 DEF OwnInv, BlocksOwnedOnce
  <2>. QED BY <1>2, <2>2, <2>3
<1>7. PostInv'
  BY <1>2 DEF PostInv
<1>. QED BY <1>3, <1>4, <1>5, <1>6, <1>7

(* The parser deletes its block, which no slot holds.                      *)
LEMMA DeleteInv == ASSUME IInv, Delete PROVE IInv'
<1> USE DEF IInv
<1>1. /\ parserPc = "delete" /\ parserPc' = "top"
      /\ live' = live \ {inHand.block} /\ index' = index + 1 /\ inHand' = None
      /\ UNCHANGED <<sent, flight, lost, dups, rxPc, received, first, times, misfits,
                     slots, sem_buffer, lastOut, is_stop, stopPc>>
  BY DEF Delete, netVars, rxVars, stopVars
<1>2. TypeOK'
  <2>1. index' \in Nat /\ live' \subseteq 0 .. MaxSent + MaxDup
    <3>1. index \in Nat /\ index' = index + 1
      BY <1>1 DEF TypeOK
    <3>2. live \subseteq 0 .. MaxSent + MaxDup /\ live' \subseteq live
      BY <1>1, Zenon DEF TypeOK
    <3> HIDE DEF IInv
    <3>. QED BY ONLY <3>1, <3>2
  <2>2. inHand' \in Slot /\ slots' \in [Pos -> Slot]
    BY <1>1, NoneTyped DEF TypeOK
  <2>3. /\ sent' \in 0 .. MaxSent /\ flight' \subseteq 0 .. MaxSent
        /\ lost' \in 0 .. MaxLost /\ dups' \in 0 .. MaxDup
        /\ rxPc' \in {"top", "read", "post", "exited"}
        /\ received' \in 0 .. MaxSent + MaxDup /\ misfits' \subseteq {"early", "late"}
        /\ first' \in -1 .. MaxSent /\ times' \in Nat /\ sem_buffer' \in Nat
    BY <1>1 DEF TypeOK
  <2>4. /\ parserPc' \in {"top", "wait", "take", "parse", "delete", "exited"}
        /\ lastOut' \in -1 .. MaxSent /\ is_stop' \in BOOLEAN
        /\ stopPc' \in {"running", "join_parser", "join_receiver", "stopped"}
    BY <1>1 DEF TypeOK
  <2>. QED BY <2>1, <2>2, <2>3, <2>4 DEF TypeOK
<1>3. CountInv'
  BY <1>1, CountUnchanged DEF netVars
<1>4. TokenInv'
  <2>1. Begun' = Begun
    BY <1>1 DEF Begun, TypeOK
  <2>2. Heard' = Heard
    BY <1>1 DEF Heard, Unposted
  <2>. QED BY <1>1, <2>1, <2>2 DEF TokenInv
<1>5. OwnInv'
  <2>1. InUse = {inHand.block} /\ InUse' = {} /\ Occupied' = Occupied
    BY <1>1 DEF InUse, Occupied
  <2>. QED BY <1>1, <2>1 DEF OwnInv, BlocksOwnedOnce
<1>6. PostInv'
  BY <1>1 DEF PostInv
<1>. QED BY <1>2, <1>3, <1>4, <1>5, <1>6

(* A packet leaves for the receiver, or is lost on the way.                *)
LEMMA NetworkInv == ASSUME IInv, Send \/ Lose PROVE IInv'
<1> USE DEF IInv
<1>1. UNCHANGED <<dups, rxPc, received, first, times, misfits, slots, sem_buffer, index,
                  parserPc, inHand, lastOut, live, is_stop, stopPc>>
  BY DEF Send, Lose, rxVars, parserVars, stopVars
<1>2. Cardinality(flight) \in Nat /\ IsFiniteSet(flight)
  BY FS_CardinalityType DEF CountInv
<1>3. CountInv' /\ TypeOK'
  <2>1. sent \in 0 .. MaxSent /\ flight \subseteq 0 .. MaxSent /\ lost \in 0 .. MaxLost
    BY DEF TypeOK
  <2>2. CASE Send
    <3>1. sent < MaxSent /\ flight' = flight \cup {sent} /\ sent' = sent + 1 /\ lost' = lost
      BY <2>2 DEF Send
    <3>2. sent \notin flight
      BY <2>1 DEF CountInv
    <3>3. IsFiniteSet(flight') /\ Cardinality(flight') = Cardinality(flight) + 1
      BY <1>2, <3>1, <3>2, FS_AddElement, Zenon
    <3>4. sent' \in 0 .. MaxSent /\ flight' \subseteq 0 .. MaxSent
      BY <2>1, <3>1, ConstantTypes
    <3>5. \A p \in flight' : p < sent'
      BY <2>1, <3>1 DEF CountInv
    <3>6. sent' = ((Cardinality(flight') + lost') + received') - dups'
      BY <1>1, <1>2, <2>1, <3>1, <3>3, ConstantTypes DEF CountInv, TypeOK
    <3>. QED BY <1>1, <3>1, <3>3, <3>4, <3>5, <3>6 DEF CountInv, TypeOK
  <2>3. CASE Lose
    <3>1. PICK p \in flight : flight' = flight \ {p}
      BY <2>3 DEF Lose
    <3>2. lost < MaxLost /\ lost' = lost + 1 /\ sent' = sent
      BY <2>3 DEF Lose
    <3>3. IsFiniteSet(flight') /\ Cardinality(flight') = Cardinality(flight) - 1
      BY <1>2, <3>1, FS_RemoveElement, Zenon
    <3>4. lost' \in 0 .. MaxLost /\ flight' \subseteq 0 .. MaxSent
      BY <2>1, <3>1, <3>2, ConstantTypes
    <3>5. \A q \in flight' : q < sent'
      BY <3>1, <3>2 DEF CountInv
    <3>6. sent' = ((Cardinality(flight') + lost') + received') - dups'
      BY <1>1, <1>2, <2>1, <3>2, <3>3, ConstantTypes DEF CountInv, TypeOK
    <3>. QED BY <1>1, <3>2, <3>3, <3>4, <3>5, <3>6 DEF CountInv, TypeOK
  <2>. QED BY <2>2, <2>3
<1>4. TokenInv'
  <2>1. Begun' = Begun /\ Heard' = Heard
    BY <1>1 DEF Begun, Heard, Unposted
  <2>. QED BY <1>1, <2>1 DEF TokenInv
<1>5. OwnInv'
  BY <1>1, OwnUnchanged DEF InUse
<1>. QED BY <1>1, <1>3, <1>4, <1>5 DEF PostInv

(* The other steps move the threads and the tokens only.                   *)
LEMMA ControlInv ==
  ASSUME IInv,
         \/ RxTop \/ ReadFails \/ Post \/ ParserTop \/ ParserWait \/ Parse
         \/ Stop \/ JoinParser \/ JoinReceiver \/ UNCHANGED vars
  PROVE  IInv'
<1> USE DEF IInv
<1> USE DEF netVars, rxVars, parserVars, stopVars, vars
<1>1. UNCHANGED <<sent, flight, lost, dups, received, first, times, misfits, slots, index,
                  inHand, live>>
  BY DEF RxTop, ReadFails, Post, ParserTop, ParserWait, Parse, Stop, JoinParser, JoinReceiver
<1>2. TypeOK'
  <2>1. sem_buffer' \in Nat
    BY DEF RxTop, ReadFails, Post, ParserTop, ParserWait, Parse, Stop, JoinParser,
           JoinReceiver, TypeOK
  <2>2. lastOut' \in -1 .. MaxSent
    BY DEF RxTop, ReadFails, Post, ParserTop, ParserWait, Parse, Stop, JoinParser,
           JoinReceiver, TypeOK, Slot
  <2>3. is_stop' \in BOOLEAN
    BY DEF RxTop, ReadFails, Post, ParserTop, ParserWait, Parse, Stop, JoinParser,
           JoinReceiver, TypeOK
  <2>4. /\ rxPc' \in {"top", "read", "post", "exited"}
        /\ parserPc' \in {"top", "wait", "take", "parse", "delete", "exited"}
        /\ stopPc' \in {"running", "join_parser", "join_receiver", "stopped"}
    BY DEF RxTop, ReadFails, Post, ParserTop, ParserWait, Parse, Stop, JoinParser,
           JoinReceiver, TypeOK
  <2>. QED BY <1>1, <2>1, <2>2, <2>3, <2>4 DEF TypeOK
<1>3. CountInv'
  BY <1>1, CountUnchanged
<1>4. TokenInv'
  <2>1. CASE Post
    <3>1. /\ rxPc = "post" /\ rxPc' = "top" /\ is_stop' = is_stop /\ parserPc' = parserPc
          /\ sem_buffer' = IF received > LAG THEN sem_buffer + 1 ELSE sem_buffer
      BY <2>1 DEF Post
    <3>2. Heard = received - 1 /\ Heard' = received
      BY <1>1, <3>1, ConstantTypes DEF Heard, Unposted, TypeOK
    <3>3. Begun' = IF received > LAG THEN Begun + 1 ELSE Begun
      BY <1>1, <3>1 DEF Begun, TypeOK
    <3>4. received \in Nat /\ received > 0
      BY <3>1, ConstantTypes DEF PostInv, TypeOK
    <3>. QED BY <3>1, <3>2, <3>3, <3>4, ConstantTypes DEF TokenInv
  <2>2. CASE Stop
    BY <2>2 DEF Stop, TokenInv
  <2>3. CASE RxTop \/ ReadFails \/ ParserTop \/ ParserWait \/ Parse \/ JoinParser
               \/ JoinReceiver \/ UNCHANGED vars
    <3>1. Heard' = Heard
      BY <2>3, <1>1 DEF RxTop, ReadFails, ParserTop, ParserWait, Parse, JoinParser,
                        JoinReceiver, Heard, Unposted
    <3>2. is_stop' = is_stop
      BY <2>3 DEF RxTop, ReadFails, ParserTop, ParserWait, Parse, JoinParser, JoinReceiver
    <3>3. Begun' = Begun
      BY <2>3, <1>1 DEF RxTop, ReadFails, ParserTop, ParserWait, Parse, JoinParser,
                        JoinReceiver, Begun, TypeOK
    <3>. QED BY <3>1, <3>2, <3>3 DEF TokenInv
  <2>. QED BY <2>1, <2>2, <2>3
<1>5. OwnInv'
  <2>1. InUse' = InUse
    BY <1>1 DEF RxTop, ReadFails, Post, ParserTop, ParserWait, Parse, Stop, JoinParser,
                JoinReceiver, InUse
  <2>. QED BY <1>1, <2>1, OwnUnchanged
<1>6. PostInv'
  BY <1>1 DEF RxTop, ReadFails, Post, ParserTop, ParserWait, Parse, Stop, JoinParser,
              JoinReceiver, PostInv
<1>. QED BY <1>2, <1>3, <1>4, <1>5, <1>6

THEOREM Invariance == Spec => []IInv
<1>1. IInv /\ [Next]_vars => IInv'
  BY ReceiveInv, TakeInv, DeleteInv, NetworkInv, ControlInv, Zenon
  DEF Next, Network, Receiver, Parser, Stopper
<1>. QED BY InitInv, <1>1, PTL DEF Spec

(* Every variable keeps its type, whatever the network does; the number of *)
(* blocks ever allocated is bounded by what was sent or duplicated.        *)
THEOREM TypeCorrect == Spec => []TypeOK
<1>1. IInv => TypeOK
  BY DEF IInv
<1>. QED BY Invariance, <1>1, PTL

(* No pdata block leaks, is deleted twice, or is deleted while the parser  *)
(* reads it, though both threads delete and only the slots are locked.     *)
THEOREM OwnershipSafe == Spec => []BlocksOwnedOnce
<1>1. IInv => BlocksOwnedOnce
  BY DEF IInv, OwnInv
<1>. QED BY Invariance, <1>1, PTL

(* The parser's distance from the sender, for every lag, loss and          *)
(* duplication.                                                            *)
THEOREM DistanceExact == Spec => []TrailingDistance
<1>1. IInv => TrailingDistance
  <2> SUFFICES ASSUME IInv, ~is_stop
               PROVE  Begun = (sent - Cardinality(flight) - Unposted) - lost + dups
                                - (IF Heard < LAG THEN Heard ELSE LAG)
    BY DEF TrailingDistance
  <2>1. Cardinality(flight) \in Nat
    BY FS_CardinalityType DEF IInv, CountInv
  <2>2. Unposted \in Nat
    BY DEF Unposted
  <2>3. Heard = (sent - Cardinality(flight) - Unposted) - lost + dups
    BY <2>1, <2>2, ConstantTypes DEF IInv, CountInv, TypeOK, Heard
  <2>4. Begun = Heard - (IF Heard < LAG THEN Heard ELSE LAG)
    BY DEF IInv, TokenInv
  <2>5. sent \in Int /\ lost \in Int /\ dups \in Int /\ received \in Int
    BY ConstantTypes DEF IInv, TypeOK
  <2>6. Heard \in Int /\ (IF Heard < LAG THEN Heard ELSE LAG) \in Int
    BY <2>2, <2>5, ConstantTypes DEF Heard
  <2> HIDE DEF Heard, Begun
  <2>. QED BY <2>1, <2>2, <2>3, <2>4, <2>5, <2>6
<1>. QED BY Invariance, <1>1, PTL

-----------------------------------------------------------------------------
(* The order of parsing.                                                   *)

(* How far behind the first packet the one in slot s was sent.             *)
At(s) == slots[s].seq - first

(* As long as every packet came within a ring of the parser, each slot     *)
(* that is taken holds the one packet the parser will look for there, and  *)
(* the parser's index is the distance of the packet it has in hand.        *)
OrderInv ==
  misfits = {} =>
    /\ \A s \in Occupied : /\ At(s) \in NextSlot .. NextSlot + BUFFER_SIZE - 1
                           /\ s = At(s) % BUFFER_SIZE
    /\ first = -1 => Occupied = {} /\ lastOut = -1 /\ parserPc \notin {"parse", "delete"}
    /\ parserPc = "parse" => inHand.seq - first = index
    /\ parserPc = "delete" => lastOut - first = index
    /\ first # -1 /\ parserPc # "delete" => lastOut - first < index

WindowInv == \A p \in flight : sent - p <= WINDOW

(* Packet q has been received, unless it was lost.                         *)
Came(q) == q < sent /\ q \notin flight

(* After stop() the parser looks at one slot more, which may be empty, and *)
(* then at none.                                                           *)
Halted == is_stop /\ parserPc \in {"top", "exited"}

Smooth == lost = 0 /\ dups = 0 /\ first \in {-1, 0} /\ "early" \notin misfits

(* When nothing is lost or repeated and the parser is not lapped, all      *)
(* packets before its index have come, so none is late, and those that     *)
(* came after it are in their slots.                                       *)
SmoothInv ==
  Smooth /\ ~Halted =>
    /\ misfits = {}
    /\ \A q \in Nat : Came(q) /\ q >= NextSlot =>
         q % BUFFER_SIZE \in Occupied /\ slots[q % BUFFER_SIZE].seq = q
    /\ \A s \in Occupied : Came(slots[s].seq)
    /\ \A q \in Nat : q < NextSlot => Came(q)
    /\ lastOut = IF parserPc = "delete" THEN index ELSE index - 1

(* One of the packets a ring apart from n on is told by its slot.          *)
LEMMA SameSlot ==
  ASSUME NEW n \in Int, NEW a \in n .. n + BUFFER_SIZE - 1,
         NEW c \in n .. n + BUFFER_SIZE - 1, a % BUFFER_SIZE = c % BUFFER_SIZE
  PROVE  a = c
<1>1. BUFFER_SIZE \in Nat \ {0} /\ a \in Int /\ c \in Int
  BY ConstantTypes
<1>2. a < c => c - a < BUFFER_SIZE
  BY <1>1
<1>3. c < a => a - c < BUFFER_SIZE
  BY <1>1
<1>4. ~(a < c) /\ ~(c < a)
  BY <1>1, <1>2, <1>3, ModDistinct
<1>. QED BY <1>1, <1>4

LEMMA OrderTypes ==
  ASSUME TypeOK
  PROVE  /\ index \in Nat /\ first \in Int /\ first >= -1 /\ lastOut \in Int
         /\ sent \in Nat /\ received \in Nat /\ lost \in Nat /\ dups \in Nat
         /\ inHand.seq \in Int /\ NextSlot \in Nat
         /\ \A s \in Pos : slots[s].seq \in Int /\ At(s) \in Int
         /\ flight \subseteq Nat /\ Occupied \subseteq Pos
<1>1. first \in -1 .. MaxSent /\ lastOut \in -1 .. MaxSent /\ index \in Nat
  BY DEF TypeOK
<1>2. first \in Int /\ first >= -1 /\ lastOut \in Int
  BY <1>1, ConstantTypes
<1>3. \A x \in Slot : x.seq \in Int
  BY ConstantTypes DEF Slot
<1>4. inHand.seq \in Int /\ \A s \in Pos : slots[s].seq \in Int
  BY <1>3 DEF TypeOK
<1>5. sent \in Nat /\ received \in Nat /\ lost \in Nat /\ dups \in Nat /\ flight \subseteq Nat
  BY ConstantTypes DEF TypeOK
<1>6. NextSlot \in Nat
  BY <1>1 DEF NextSlot
<1>7. Occupied \subseteq Pos
  BY DEF Occupied
<1>. QED BY <1>1, <1>2, <1>4, <1>5, <1>6, <1>7 DEF At

LEMMA IndexSlot ==
  ASSUME TypeOK
  PROVE  index % BUFFER_SIZE \in Pos
<1>1. index \in Int
  BY OrderTypes
<1>2. index % BUFFER_SIZE \in 0 .. BUFFER_SIZE - 1
  BY <1>1, ConstantTypes, DivMod
<1>. QED BY <1>2 DEF Pos

(* In the slot the parser looks at there is the packet of its index.       *)
LEMMA IndexPacket ==
  ASSUME IInv, OrderInv, misfits = {}, parserPc = "take",
         NEW t \in Occupied
  PROVE  At(t) = index <=> t = index % BUFFER_SIZE
<1>1. NextSlot = index /\ index \in Int /\ BUFFER_SIZE \in Nat \ {0}
  BY ConstantTypes, OrderTypes DEF NextSlot, IInv
<1>2. /\ At(t) \in index .. index + BUFFER_SIZE - 1 /\ t = At(t) % BUFFER_SIZE
      /\ index \in index .. index + BUFFER_SIZE - 1
  BY <1>1 DEF OrderInv
<1>. QED BY <1>1, <1>2, SameSlot

LEMMA OrderUnchanged ==
  ASSUME OrderInv, UNCHANGED <<slots, index, inHand, lastOut, first, misfits>>,
         parserPc' = parserPc \/ {parserPc, parserPc'} \cap {"parse", "delete"} = {}
  PROVE  OrderInv'
<1>1. NextSlot' = NextSlot /\ Occupied' = Occupied
  BY DEF NextSlot, Occupied
<1>2. \A s \in Occupied : At(s)' = At(s)
  BY DEF At
<1>3. /\ parserPc' = "parse" <=> parserPc = "parse"
      /\ parserPc' = "delete" <=> parserPc = "delete"
  OBVIOUS
<1>. QED BY <1>1, <1>2, <1>3 DEF OrderInv

(* Where a received packet goes, and that no other slot changes.           *)
LEMMA ReceiveSlot ==
  ASSUME TypeOK, NEW p \in flight, NEW again \in BOOLEAN, Receive(p, again)
  PROVE  LET s == (p - first') % BUFFER_SIZE
         IN  /\ s \in Pos /\ slots'[s].isValid /\ slots'[s].seq = p
             /\ \A t \in Pos \ {s} : slots'[t] = slots[t]
             /\ Occupied' = Occupied \cup {s}
             /\ first' = (IF first = -1 THEN p ELSE first) /\ first' \in Nat
<1> DEFINE s == PosOf(SeqOf(p), times, SeqOf(first'))
           new == [isValid |-> TRUE, seq |-> p, block |-> received]
<1>1. p \in Nat /\ first \in Int /\ first >= -1 /\ times \in Int
  BY OrderTypes DEF TypeOK
<1>2. first' = IF first = -1 THEN p ELSE first
  BY DEF Receive
<1>3. first' \in Nat /\ first' \in Int /\ p \in Int
  BY <1>1, <1>2
<1>4. s = (p - first') % BUFFER_SIZE
  BY <1>1, <1>3, SlotOfPacket
<1>5. s \in Pos
  BY <1>1, <1>3, SeqOfInt, PosOfInRing
<1>6. slots' = [slots EXCEPT ![s] = new]
  BY DEF Receive
<1> HIDE DEF s
<1>7. /\ slots'[s].isValid /\ slots'[s].seq = p
      /\ \A t \in Pos \ {s} : slots'[t] = slots[t]
  BY <1>5, <1>6 DEF TypeOK
<1>8. Occupied' = Occupied \cup {s}
  BY <1>5, <1>6 DEF Occupied, TypeOK
<1>. QED BY <1>2, <1>3, <1>4, <1>5, <1>7, <1>8

LEMMA OrderReceive ==
  ASSUME IInv, OrderInv, NEW p \in flight, NEW again \in BOOLEAN, Receive(p, again)
  PROVE  OrderInv'
<1> SUFFICES ASSUME misfits' = {} PROVE OrderInv'
  BY DEF OrderInv
<1> DEFINE d == p - first'
<1>1. PICK s \in Pos :
        /\ s = d % BUFFER_SIZE /\ slots'[s].seq = p
        /\ \A t \in Pos \ {s} : slots'[t] = slots[t]
        /\ Occupied' = Occupied \cup {s}
        /\ first' = (IF first = -1 THEN p ELSE first) /\ first' \in Nat
  BY ReceiveSlot DEF IInv
<1>2. /\ misfits = {} /\ ~(d >= NextSlot + BUFFER_SIZE) /\ ~(d < NextSlot)
      /\ UNCHANGED <<index, parserPc, inHand, lastOut>>
  BY DEF Receive, parserVars
<1>3. /\ p \in Nat /\ d \in Int /\ NextSlot \in Nat /\ BUFFER_SIZE \in Nat /\ lastOut \in Int
      /\ index \in Nat /\ NextSlot' = NextSlot /\ Occupied \subseteq Pos
  BY <1>1, <1>2, OrderTypes, ConstantTypes DEF IInv, NextSlot
<1>4. d \in NextSlot .. NextSlot + BUFFER_SIZE - 1
  BY <1>2, <1>3
<1>5. At(s)' = d
  BY <1>1 DEF At
<1>6. ASSUME NEW t \in Occupied, t # s
      PROVE  /\ At(t)' \in NextSlot' .. NextSlot' + BUFFER_SIZE - 1
             /\ t = At(t)' % BUFFER_SIZE
  <2>1. first # -1 /\ first' = first
    BY <1>1, <1>2, <1>6 DEF OrderInv
  <2>2. At(t)' = At(t)
    BY <1>1, <1>3, <1>6, <2>1 DEF At
  <2>. QED BY <1>2, <1>3, <2>2 DEF OrderInv
<1>7. \A t \in Occupied' : /\ At(t)' \in NextSlot' .. NextSlot' + BUFFER_SIZE - 1
                           /\ t = At(t)' % BUFFER_SIZE
  BY <1>1, <1>3, <1>4, <1>5, <1>6
<1>8. first' # -1
  BY <1>1
<1>9. first = -1 => lastOut' - first' < index' /\ parserPc' \notin {"parse", "delete"}
  BY <1>1, <1>2, <1>3 DEF OrderInv
<1>10. first # -1 => first' = first
  BY <1>1
<1> HIDE DEF d
<1>. QED BY <1>2, <1>7, <1>8, <1>9, <1>10 DEF OrderInv

LEMMA OrderTake == ASSUME IInv, OrderInv, Take PROVE OrderInv'
<1> SUFFICES ASSUME misfits' = {} PROVE OrderInv'
  BY DEF OrderInv
<1> DEFINE s == index % BUFFER_SIZE
<1>1. /\ parserPc = "take" /\ misfits = {} /\ UNCHANGED <<first, misfits, lastOut>>
      /\ \/ /\ slots[s].isValid
            /\ inHand' = slots[s]
            /\ slots' = [slots EXCEPT ![s].isValid = FALSE]
            /\ parserPc' = "parse"
            /\ index' = index
         \/ /\ ~slots[s].isValid
            /\ index' = index + 1
            /\ parserPc' = "top"
            /\ UNCHANGED <<inHand, slots>>
  BY DEF Take, rxVars
<1>2. /\ index \in Nat /\ s \in Pos /\ BUFFER_SIZE \in Nat \ {0} /\ lastOut \in Int
      /\ first \in Int /\ NextSlot = index /\ NextSlot' = index + 1
      /\ \A t \in Pos : At(t) \in Int
  BY <1>1, OrderTypes, IndexSlot, ConstantTypes DEF IInv, NextSlot
<1>3. \A t \in Occupied : At(t) = index <=> t = s
  BY <1>1, IndexPacket
<1> HIDE DEF s
<1>4. /\ Occupied' = Occupied \ {s}
      /\ \A t \in Pos : slots'[t].seq = slots[t].seq
  <2>1. \A t \in Pos : slots[t] \in Slot
    BY DEF IInv, TypeOK
  <2>. QED BY <1>1, <1>2, <2>1 DEF Occupied, IInv, TypeOK, Slot
<1>5. \A t \in Occupied' : At(t)' = At(t) /\ At(t) # index /\ t \in Occupied
  BY <1>1, <1>3, <1>4 DEF At, Occupied
<1>6. \A t \in Occupied' : /\ At(t)' \in NextSlot' .. NextSlot' + BUFFER_SIZE - 1
                           /\ t = At(t)' % BUFFER_SIZE
  <2> SUFFICES ASSUME NEW t \in Occupied'
               PROVE  /\ At(t)' \in NextSlot' .. NextSlot' + BUFFER_SIZE - 1
                      /\ t = At(t)' % BUFFER_SIZE
    OBVIOUS
  <2>1. At(t) \in index .. index + BUFFER_SIZE - 1 /\ t = At(t) % BUFFER_SIZE
    BY <1>1, <1>2, <1>5 DEF OrderInv
  <2>2. At(t) \in index + 1 .. index + 1 + BUFFER_SIZE - 1
    BY <1>2, <1>5, <2>1
  <2>. QED BY <1>2, <1>5, <2>1, <2>2
<1>7. slots[s].isValid => first # -1 /\ slots[s].seq - first = index
  BY <1>1, <1>2, <1>3 DEF OrderInv, Occupied, At
<1>8. CASE slots[s].isValid
  <2>1. parserPc' = "parse" /\ inHand' = slots[s] /\ index' = index
    BY <1>1, <1>8
  <2>. QED BY <1>1, <1>6, <1>7, <1>8, <2>1 DEF OrderInv
<1>9. CASE ~slots[s].isValid
  <2>1. parserPc' = "top" /\ index' = index + 1
    BY <1>1, <1>9
  <2>2. Occupied = {} => Occupied' = {}
    BY <1>4
  <2>3. first # -1 => lastOut - first < index + 1
    BY <1>1, <1>2 DEF OrderInv
  <2>. QED BY <1>1, <1>6, <2>1, <2>2, <2>3 DEF OrderInv
<1>. QED BY <1>8, <1>9

LEMMA OrderParser == ASSUME IInv, OrderInv, Parse \/ Delete PROVE OrderInv'
<1> SUFFICES ASSUME misfits' = {} PROVE OrderInv'
  BY DEF OrderInv
<1>1. UNCHANGED <<slots, first, misfits>>
  BY DEF Parse, Delete, rxVars
<1>2. Occupied' = Occupied /\ \A t \in Occupied : At(t)' = At(t)
  BY <1>1 DEF Occupied, At
<1>3. NextSlot' = NextSlot
  BY OrderTypes DEF Parse, Delete, NextSlot, IInv
<1>4. first # -1
  BY <1>1 DEF Parse, Delete, OrderInv
<1>5. CASE Parse
  BY <1>1, <1>2, <1>3, <1>4, <1>5 DEF Parse, OrderInv
<1>6. CASE Delete
  <2>1. index' = index + 1 /\ parserPc' = "top" /\ lastOut' - first' = index
    BY <1>1, <1>6 DEF Delete, OrderInv
  <2>2. lastOut' - first' < index'
    BY <2>1, OrderTypes DEF IInv
  <2>. QED BY <1>1, <1>2, <1>3, <1>4, <2>1, <2>2 DEF OrderInv
<1>. QED BY <1>5, <1>6

LEMMA WindowNext == ASSUME IInv, WindowInv, [Next]_vars PROVE WindowInv'
<1>1. sent \in Nat /\ flight \subseteq Nat /\ WINDOW \in Nat \ {0}
  BY OrderTypes, ConstantsAssumption DEF IInv
<1>2. CASE Send
  <2>1. flight' = flight \cup {sent} /\ sent' = sent + 1 /\ \A p \in flight : sent - p < WINDOW
    BY <1>2 DEF Send
  <2>. QED BY <1>1, <2>1 DEF WindowInv
<1>3. CASE ~Send
  <2>1. sent' = sent /\ flight' \subseteq flight
    BY <1>3 DEF Next, Network, Receiver, Parser, Stopper, Lose, RxTop, ReadFails, Post, Receive,
         ParserTop, ParserWait, Take, Parse, Delete, Stop, JoinParser, JoinReceiver, netVars, vars
  <2>. QED BY <2>1 DEF WindowInv
<1>. QED BY <1>2, <1>3

(* The network's history only gets rougher, and a parser that has stopped  *)
(* has stopped for good.                                                   *)
LEMMA SmoothBefore ==
  ASSUME TypeOK, [Next]_vars, Smooth', ~Halted'
  PROVE  Smooth /\ ~Halted
<1>1. lost' = lost \/ lost' = lost + 1
  BY DEF Next, Network, Receiver, Parser, Stopper, Send, Lose, RxTop, ReadFails, Post, Receive,
         ParserTop, ParserWait, Take, Parse, Delete, Stop, JoinParser, JoinReceiver, netVars, vars
<1>2. dups' = dups \/ dups' = dups + 1
  BY DEF Next, Network, Receiver, Parser, Stopper, Send, Lose, RxTop, ReadFails, Post, Receive,
         ParserTop, ParserWait, Take, Parse, Delete, Stop, JoinParser, JoinReceiver, netVars, vars
<1>3. (first' = first \/ first = -1) /\ misfits \subseteq misfits'
  BY DEF Next, Network, Receiver, Parser, Stopper, Send, Lose, RxTop, ReadFails, Post, Receive,
         ParserTop, ParserWait, Take, Parse, Delete, Stop, JoinParser, JoinReceiver, rxVars, vars
<1>4. Halted => Halted'
  BY DEF Next, Network, Receiver, Parser, Stopper, Send, Lose, RxTop, ReadFails, Post, Receive,
         ParserTop, ParserWait, Take, Parse, Delete, Stop, JoinParser, JoinReceiver, parserVars,
         stopVars, vars, Halted
<1>5. lost = 0 /\ dups = 0
  BY <1>1, <1>2, OrderTypes DEF Smooth
<1>. QED BY <1>3, <1>4, <1>5 DEF Smooth

(* The lag is what makes up for the reordering: the packet the parser has  *)
(* a token for has come.                                                   *)
LEMMA IndexCame ==
  ASSUME WINDOW <= LAG + 1, IInv, WindowInv, lost = 0, dups = 0, ~is_stop, parserPc = "take"
  PROVE  Came(index)
<1>1. /\ index \in Nat /\ sent \in Nat /\ received \in Nat /\ LAG \in Nat /\ WINDOW \in Nat
      /\ sem_buffer \in Nat
  BY OrderTypes, ConstantsAssumption DEF IInv, TypeOK
<1>2. Cardinality(flight) \in Nat /\ IsFiniteSet(flight)
  BY FS_CardinalityType DEF IInv, CountInv
<1>3. received = sent - Cardinality(flight)
  BY <1>1, <1>2 DEF IInv, CountInv
<1>4. Heard \in Int /\ Heard <= received /\ Heard >= 0
  BY <1>1 DEF Heard, Unposted, IInv, PostInv
<1>5. index + 1 + sem_buffer = Heard - (IF Heard < LAG THEN Heard ELSE LAG)
  BY <1>1 DEF IInv, TokenInv, Begun
<1>6. index + LAG + 1 <= received
  BY <1>1, <1>4, <1>5
<1>7. index < sent
  BY <1>1, <1>2, <1>3, <1>6
<1>8. index \notin flight
  <2> SUFFICES ASSUME index \in flight PROVE FALSE
    OBVIOUS
  <2>1. sent - index <= WINDOW
    BY DEF WindowInv
  <2>2. Cardinality(flight) # 0
    BY <1>2, FS_EmptySet
  <2>. QED BY <1>1, <1>2, <1>3, <1>6, <2>1, <2>2
<1>. QED BY <1>7, <1>8 DEF Came

LEMMA SmoothReceive ==
  ASSUME IInv, OrderInv, SmoothInv, Smooth, ~Halted, Smooth',
         NEW p \in flight, NEW again \in BOOLEAN, Receive(p, again)
  PROVE  SmoothInv'
<1> DEFINE s == p % BUFFER_SIZE
<1>1. /\ misfits = {}
      /\ \A q \in Nat : Came(q) /\ q >= NextSlot =>
           q % BUFFER_SIZE \in Occupied /\ slots[q % BUFFER_SIZE].seq = q
      /\ \A t \in Occupied : Came(slots[t].seq)
      /\ \A q \in Nat : q < NextSlot => Came(q)
      /\ lastOut = IF parserPc = "delete" THEN index ELSE index - 1
  BY DEF SmoothInv
<1>2. p \in Nat /\ p \in Int /\ NextSlot \in Nat /\ BUFFER_SIZE \in Nat \ {0} /\ dups \in Nat
  BY OrderTypes, ConstantTypes DEF IInv
<1>3. first' = 0 /\ (first = 0 \/ (first = -1 /\ p = 0))
  BY <1>2, ReceiveSlot DEF Smooth, IInv
<1>4. p - first' = p
  BY <1>2, <1>3
<1>5. /\ s \in Pos /\ slots'[s].seq = p
      /\ \A t \in Pos \ {s} : slots'[t] = slots[t]
      /\ Occupied' = Occupied \cup {s}
  BY <1>4, ReceiveSlot DEF IInv
<1>6. /\ flight' = flight \ {p} /\ p < sent /\ sent' = sent
      /\ UNCHANGED <<index, parserPc, lastOut>>
  BY <1>2 DEF Receive, Smooth, IInv, CountInv, parserVars
<1>7. \A q \in Nat : Came(q)' <=> Came(q) \/ q = p
  BY <1>6 DEF Came
<1>8. ~(p < NextSlot)
  BY <1>1, <1>2 DEF Came
<1>9. ~(p >= NextSlot + BUFFER_SIZE) /\ misfits' = {}
  <2>1. ~(p >= NextSlot + BUFFER_SIZE)
    BY <1>3, <1>4 DEF Receive, Smooth
  <2>. QED BY <1>1, <1>4, <1>8, <2>1 DEF Receive
<1>10. NextSlot' = NextSlot
  BY <1>6 DEF NextSlot
<1>11. ASSUME NEW q \in Nat, Came(q), q >= NextSlot
       PROVE  q % BUFFER_SIZE \in Occupied' /\ slots'[q % BUFFER_SIZE].seq = q
  <2> DEFINE t == q % BUFFER_SIZE
  <2>1. t \in Occupied /\ slots[t].seq = q
    BY <1>1, <1>11
  <2>2. first = 0 /\ At(t) = q
    BY <1>1, <1>3, <2>1 DEF OrderInv, At
  <2>3. q \in NextSlot .. NextSlot + BUFFER_SIZE - 1
    BY <1>1, <2>1, <2>2 DEF OrderInv
  <2>4. p \in NextSlot .. NextSlot + BUFFER_SIZE - 1 /\ q # p
    BY <1>2, <1>8, <1>9, <1>11 DEF Came
  <2>5. t # s
    <3> SUFFICES ASSUME q % BUFFER_SIZE = p % BUFFER_SIZE PROVE q = p
      BY <2>4
    <3>1. NextSlot \in Int
      BY <1>2
    <3> HIDE DEF NextSlot
    <3>. QED BY <2>3, <2>4, <3>1, SameSlot
  <2> HIDE DEF t
  <2>6. t \in Pos /\ slots'[t] = slots[t] /\ t \in Occupied'
    BY <1>5, <2>1, <2>5 DEF Occupied
  <2>. QED BY <2>1, <2>6 DEF t
<1>12. s \in Occupied' /\ slots'[s].seq = p
  BY <1>5
<1>13. \A t \in Occupied' : Came(slots[t].seq)'
  <2> SUFFICES ASSUME NEW t \in Occupied' PROVE Came(slots[t].seq)'
    OBVIOUS
  <2>1. CASE t = s
    BY <1>2, <1>5, <1>6, <2>1 DEF Came
  <2>2. CASE t # s
    <3>1. t \in Occupied /\ slots'[t] = slots[t]
      BY <1>5, <2>2 DEF Occupied
    <3>2. Came(slots[t].seq)
      BY <1>1, <3>1
    <3>. QED BY <1>6, <3>1, <3>2 DEF Came
  <2>. QED BY <2>1, <2>2
<1> HIDE DEF s
<1>14. \A q \in Nat : Came(q)' /\ q >= NextSlot' =>
         q % BUFFER_SIZE \in Occupied' /\ slots'[q % BUFFER_SIZE].seq = q
  BY <1>7, <1>10, <1>11, <1>12 DEF s
<1>15. \A q \in Nat : q < NextSlot' => Came(q)'
  BY <1>1, <1>7, <1>10
<1>. QED BY <1>1, <1>6, <1>9, <1>13, <1>14, <1>15 DEF SmoothInv

LEMMA SmoothTake ==
  ASSUME WINDOW <= LAG + 1, IInv, OrderInv, WindowInv, SmoothInv, Smooth, ~Halted, ~Halted', Take
  PROVE  SmoothInv'
<1> DEFINE s == index % BUFFER_SIZE
<1>1. /\ misfits = {}
      /\ \A q \in Nat : Came(q) /\ q >= NextSlot =>
           q % BUFFER_SIZE \in Occupied /\ slots[q % BUFFER_SIZE].seq = q
      /\ \A t \in Occupied : Came(slots[t].seq)
      /\ \A q \in Nat : q < NextSlot => Came(q)
      /\ lastOut = IF parserPc = "delete" THEN index ELSE index - 1
  BY DEF SmoothInv
<1>2. /\ parserPc = "take" /\ index \in Nat /\ s \in Pos /\ NextSlot = index
      /\ first \in Int
  BY OrderTypes, IndexSlot DEF Take, NextSlot, IInv
<1>3. slots[s].isValid
  <2> SUFFICES ASSUME ~slots[s].isValid PROVE FALSE
    OBVIOUS
  <2>1. parserPc' = "top" /\ is_stop' = is_stop
    BY DEF Take, stopVars
  <2>2. ~is_stop
    BY <2>1 DEF Halted
  <2>3. Came(index)
    BY <1>2, <2>2, IndexCame DEF Smooth
  <2>4. s \in Occupied
    BY <1>1, <1>2, <2>3
  <2>. QED BY <2>4 DEF Occupied
<1>4. /\ slots' = [slots EXCEPT ![s].isValid = FALSE] /\ parserPc' = "parse"
      /\ UNCHANGED <<index, sent, flight, lastOut, misfits>>
  BY <1>3 DEF Take, netVars, rxVars
<1>5. slots[s].seq = index
  <2>1. s \in Occupied
    BY <1>2, <1>3 DEF Occupied
  <2>2. At(s) = index
    BY <1>1, <1>2, <2>1, IndexPacket
  <2>3. first = 0
    BY <1>1, <2>1 DEF OrderInv, Smooth
  <2>4. slots[s].seq \in Int
    BY <1>2, OrderTypes DEF IInv
  <2>. QED BY <2>2, <2>3, <2>4 DEF At
<1>6. Came(index)
  BY <1>1, <1>2, <1>3, <1>5 DEF Occupied
<1>7. NextSlot' = index + 1
  BY <1>4 DEF NextSlot
<1> HIDE DEF s
<1>8. /\ Occupied' = Occupied \ {s}
      /\ \A t \in Pos : slots'[t].seq = slots[t].seq
  <2>1. \A t \in Pos : slots[t] \in Slot
    BY DEF IInv, TypeOK
  <2>. QED BY <1>2, <1>4, <2>1 DEF Occupied, IInv, TypeOK, Slot
<1>9. \A q : Came(q)' <=> Came(q)
  BY <1>4 DEF Came
<1>10. ASSUME NEW q \in Nat, Came(q)', q >= NextSlot'
       PROVE  q % BUFFER_SIZE \in Occupied' /\ slots'[q % BUFFER_SIZE].seq = q
  <2> DEFINE t == q % BUFFER_SIZE
  <2>1. Came(q) /\ q >= NextSlot /\ q # index
    BY <1>2, <1>7, <1>9, <1>10
  <2>2. t \in Occupied /\ slots[t].seq = q
    BY <1>1, <2>1
  <2> HIDE DEF t
  <2>3. t # s /\ t \in Pos
    BY <1>5, <2>1, <2>2 DEF Occupied
  <2>4. t \in Occupied' /\ slots'[t].seq = q
    BY <1>8, <2>2, <2>3
  <2>. QED BY <2>4 DEF t
<1>11. \A t \in Occupied' : Came(slots[t].seq)'
  BY <1>1, <1>8, <1>9 DEF Occupied
<1>12. \A q \in Nat : q < NextSlot' => Came(q)'
  BY <1>1, <1>2, <1>6, <1>7, <1>9
<1>13. misfits' = {} /\ lastOut' = IF parserPc' = "delete" THEN index' ELSE index' - 1
  BY <1>1, <1>2, <1>4
<1>. QED BY <1>10, <1>11, <1>12, <1>13 DEF SmoothInv

(* Steps that leave the packets received, the slots and the index alone.   *)
LEMMA SmoothUnchanged ==
  ASSUME SmoothInv, Smooth, ~Halted, UNCHANGED <<slots, misfits>>,
         NextSlot' = NextSlot, \A q \in Int : Came(q)' <=> Came(q), TypeOK,
         lastOut' = IF parserPc' = "delete" THEN index' ELSE index' - 1
  PROVE  SmoothInv'
<1>1. Occupied' = Occupied
  BY DEF Occupied
<1>2. \A s \in Occupied : slots[s].seq \in Int
  BY OrderTypes
<1>3. \A q \in Nat : Came(q)' <=> Came(q)
  OBVIOUS
<1>4. \A s \in Occupied' : Came(slots[s].seq)'
  BY <1>1, <1>2 DEF SmoothInv
<1>. QED BY <1>1, <1>3, <1>4 DEF SmoothInv

LEMMA SmoothNext ==
  ASSUME WINDOW <= LAG + 1, IInv, OrderInv, WindowInv, SmoothInv, [Next]_vars
  PROVE  SmoothInv'
<1> SUFFICES ASSUME Smooth', ~Halted' PROVE SmoothInv'
  BY DEF SmoothInv
<1>1. Smooth /\ ~Halted
  BY SmoothBefore DEF IInv
<1>2. /\ lastOut \in Int /\ index \in Nat /\ sent \in Nat /\ lost \in Nat /\ first \in Int
      /\ misfits = {} /\ lastOut = (IF parserPc = "delete" THEN index ELSE index - 1)
  BY <1>1, OrderTypes DEF IInv, SmoothInv
<1>3. CASE Send
  <2>1. /\ flight' = flight \cup {sent} /\ sent' = sent + 1
        /\ UNCHANGED <<slots, misfits, index, parserPc, lastOut>>
    BY <1>3 DEF Send, rxVars, parserVars
  <2>2. \A q \in Int : Came(q)' <=> Came(q)
    BY <1>2, <2>1 DEF Came
  <2>3. NextSlot' = NextSlot /\ lastOut' = IF parserPc' = "delete" THEN index' ELSE index' - 1
    BY <1>2, <2>1 DEF NextSlot
  <2>. QED BY <1>1, <2>1, <2>2, <2>3, SmoothUnchanged DEF IInv
<1>4. CASE Lose
  BY <1>1, <1>2, <1>4 DEF Lose, Smooth
<1>5. ASSUME NEW p \in flight, NEW again \in BOOLEAN, Receive(p, again) PROVE SmoothInv'
  BY <1>1, <1>5, SmoothReceive
<1>6. CASE Take
  BY <1>1, <1>6, SmoothTake
<1>7. CASE Parse
  <2>1. /\ parserPc = "parse" /\ parserPc' = "delete" /\ lastOut' = inHand.seq
        /\ UNCHANGED <<slots, misfits, index, sent, flight>>
    BY <1>7 DEF Parse, netVars, rxVars
  <2>2. first = 0 /\ inHand.seq - first = index /\ inHand.seq \in Int
    BY <1>1, <1>2, <2>1, OrderTypes DEF OrderInv, Smooth, IInv
  <2>3. NextSlot' = NextSlot /\ \A q \in Int : Came(q)' <=> Came(q)
    BY <2>1 DEF NextSlot, Came
  <2>4. lastOut' = IF parserPc' = "delete" THEN index' ELSE index' - 1
    BY <1>2, <2>1, <2>2
  <2>. QED BY <1>1, <2>1, <2>3, <2>4, SmoothUnchanged DEF IInv
<1>8. CASE Delete
  <2>1. /\ parserPc = "delete" /\ parserPc' = "top" /\ index' = index + 1 /\ lastOut' = lastOut
        /\ UNCHANGED <<slots, misfits, sent, flight>>
    BY <1>8 DEF Delete, netVars, rxVars
  <2>2. NextSlot' = NextSlot /\ \A q \in Int : Came(q)' <=> Came(q)
    BY <1>2, <2>1 DEF NextSlot, Came
  <2>3. lastOut' = IF parserPc' = "delete" THEN index' ELSE index' - 1
    BY <1>2, <2>1
  <2>. QED BY <1>1, <2>1, <2>2, <2>3, SmoothUnchanged DEF IInv
<1>9. CASE \/ RxTop \/ ReadFails \/ Post \/ ParserTop \/ ParserWait
            \/ Stop \/ JoinParser \/ JoinReceiver \/ UNCHANGED vars
  <2>1. /\ UNCHANGED <<slots, misfits, sent, flight, index, lastOut>>
        /\ parserPc' = parserPc \/ {parserPc, parserPc'} \cap {"parse", "delete"} = {}
    BY <1>9 DEF RxTop, ReadFails, Post, ParserTop, ParserWait, Stop, JoinParser, JoinReceiver,
                 netVars, rxVars, parserVars, vars
  <2>2. NextSlot' = NextSlot /\ \A q \in Int : Came(q)' <=> Came(q)
    BY <2>1 DEF NextSlot, Came
  <2>3. lastOut' = IF parserPc' = "delete" THEN index' ELSE index' - 1
    BY <1>2, <2>1
  <2>. QED BY <1>1, <2>1, <2>2, <2>3, SmoothUnchanged DEF IInv
<1>. QED BY <1>3, <1>4, <1>5, <1>6, <1>7, <1>8, <1>9, Zenon
         DEF Next, Network, Receiver, Parser, Stopper

LEMMA OrderNext == ASSUME IInv, OrderInv, [Next]_vars PROVE OrderInv'
<1>1. CASE \/ Send \/ Lose \/ RxTop \/ ReadFails \/ Post \/ ParserTop \/ ParserWait
           \/ Stop \/ JoinParser \/ JoinReceiver \/ UNCHANGED vars
  <2>1. /\ UNCHANGED <<slots, index, inHand, lastOut, first, misfits>>
        /\ parserPc' = parserPc \/ {parserPc, parserPc'} \cap {"parse", "delete"} = {}
    BY <1>1 DEF Send, Lose, RxTop, ReadFails, Post, ParserTop, ParserWait, Stop, JoinParser,
                JoinReceiver, netVars, rxVars, parserVars, vars
  <2>. QED BY <2>1, OrderUnchanged
<1>. QED BY <1>1, OrderReceive, OrderTake, OrderParser, Zenon
         DEF Next, Network, Receiver, Parser, Stopper

LEMMA OrderInvariance ==
  WINDOW <= LAG + 1 => (Spec => [](IInv /\ OrderInv /\ WindowInv /\ SmoothInv))
<1> DEFINE Inv == IInv /\ OrderInv /\ WindowInv /\ SmoothInv
<1> SUFFICES ASSUME WINDOW <= LAG + 1 PROVE Spec => []Inv
  OBVIOUS
<1>1. Init => Inv
  <2> SUFFICES ASSUME Init PROVE Inv
    OBVIOUS
  <2>1. IInv
    BY InitInv
  <2>2. Occupied = {} /\ NextSlot = 0
    BY DEF Init, Occupied, NextSlot, None
  <2>3. OrderInv /\ WindowInv
    BY <2>2 DEF Init, OrderInv, WindowInv
  <2>4. SmoothInv
    BY <2>2 DEF Init, SmoothInv, Came
  <2>. QED BY <2>1, <2>3, <2>4
<1>2. Inv /\ [Next]_vars => Inv'
  <2> SUFFICES ASSUME Inv, [Next]_vars PROVE Inv'
    OBVIOUS
  <2>1. IInv'
    BY ReceiveInv, TakeInv, DeleteInv, NetworkInv, ControlInv, Zenon
    DEF Next, Network, Receiver, Parser, Stopper
  <2>. QED BY <2>1, OrderNext, WindowNext, SmoothNext
<1> HIDE DEF Inv
<1>. QED BY <1>1, <1>2, PTL DEF Spec

(* Packets are parsed in the order they were sent and never twice, as long *)
(* as each came within the ring; and if reordering stays within the lag,   *)
(* as it does for WINDOW <= LAG + 1, a network that neither loses nor      *)
(* repeats a packet has every packet parsed, until stop() cuts it short.   *)
THEOREM OrderKept == WINDOW <= LAG + 1 => (Spec => RingKeepsOrder)
<1> DEFINE Inv == IInv /\ OrderInv /\ WindowInv /\ SmoothInv
           Step == Parse => /\ misfits = {} => lastOut' > lastOut
                            /\ lost = 0 /\ dups = 0 /\ first = 0 /\ "early" \notin misfits
                                 => lastOut' = lastOut + 1
<1> SUFFICES ASSUME WINDOW <= LAG + 1 PROVE Spec => RingKeepsOrder
  OBVIOUS
<1>1. Inv => Step
  <2> SUFFICES ASSUME Inv, Parse PROVE Step
    OBVIOUS
  <2>1. parserPc = "parse" /\ lastOut' = inHand.seq
    BY DEF Parse
  <2>2. /\ index \in Nat /\ lastOut \in Int /\ first \in Int /\ inHand.seq \in Int
    BY OrderTypes DEF IInv
  <2>3. misfits = {} => /\ inHand.seq - first = index /\ first # -1
                        /\ lastOut - first < index
    BY <2>1 DEF OrderInv
  <2>4. misfits = {} => lastOut' > lastOut
    BY <2>1, <2>2, <2>3
  <2>5. lost = 0 /\ dups = 0 /\ first = 0 /\ "early" \notin misfits
          => misfits = {} /\ lastOut = index - 1
    BY <2>1 DEF SmoothInv, Smooth, Halted
  <2>6. lost = 0 /\ dups = 0 /\ first = 0 /\ "early" \notin misfits
          => lastOut' = lastOut + 1
    BY <2>1, <2>2, <2>3, <2>5
  <2>. QED BY <2>4, <2>6
<1>2. Inv => [Step]_vars
  BY <1>1
<1>3. Spec => []Inv
  BY OrderInvariance
<1> HIDE DEF Inv
<1>4. Spec => [][Step]_vars
  <2> HIDE DEF Step
  <2>. QED BY <1>2, <1>3, PTL DEF Spec
<1>. QED BY <1>4 DEF RingKeepsOrder

=============================================================================
