-------------------------- MODULE FpgaControlProofs --------------------------
(***************************************************************************)
(* Proofs about FpgaControl, for every ring size, permit count below it,   *)
(* counter width, poll budget and number of frames.                        *)
(*                                                                         *)
(* The inductive invariant has two layers.  CountInv relates the counters  *)
(* of the two threads and the device: how many frames were queued,         *)
(* started, announced, computed and popped, given where each thread is.    *)
(* SlotInv says what device memory holds, and needs CountInv to know that  *)
(* the slots being written and read are less than a ring apart.            *)
(***************************************************************************)
EXTENDS FpgaControl, ModularArithmetic

(* The newest frame is counted once it is queued, copied, started or       *)
(* announced.                                                              *)
Pushed   == IF inPc = "push" THEN taken - 1 ELSE taken
Written  == IF inPc \in {"push", "copy", "copying"} THEN taken - 1 ELSE taken
Started  == IF inPc \in {"push", "copy", "copying", "start"}
            THEN taken - 1 ELSE taken
Notified == IF inPc \in {"idle", "count"} THEN taken ELSE taken - 1
Popped   == outFrame + 1
Released == IF outPc = "release" THEN outFrame ELSE outFrame + 1
InHand   == IF outPc \in {"poll", "pop"} THEN 1 ELSE 0
Computed == reg - startIndex

InputCounts ==
  /\ inPc # "idle" => taken > 0
  /\ inputIndex = IF inPc = "idle" THEN taken ELSE taken - 1
  /\ dtor # "alive" => isStop /\ inPc = "idle"

OutputCounts ==
  /\ outPc \in {"release", "callback", "count"} => outFrame >= 0
  /\ outputIndex = IF outPc \in {"release", "callback", "count"}
                   THEN outFrame ELSE outFrame + 1
  /\ freed = IF outPc \in {"release", "callback"} THEN outFrame ELSE outFrame + 1
  /\ outPc = "poll" => readCount < MaxPoll

(* A token in output_thread's hand stands for an announced frame; only the *)
(* destructor's token does not, and it is taken with isStop set.           *)
Tokens ==
  /\ dtor \in {"alive", "release"} => sem_input + Popped + InHand <= Notified
  /\ outPc = "pop" => Popped < Notified
  /\ Popped <= Notified

Permits == semInput + taken - Released = PERMITS

Queue ==
  /\ Len(queInput) = Pushed - Popped
  /\ \A i \in 1 .. Len(queInput) : queInput[i] = outFrame + i

DeviceCounts ==
  /\ Computed >= 0
  /\ triggers = stale + Started - Computed
  /\ busy => triggers > 0
  /\ stale = 0 => Computed >= outputIndex
  /\ stale = 0 /\ outPc \in {"pop", "release", "callback", "count"}
       => Computed > outputIndex

CountInv ==
  /\ TypeOK /\ InputCounts /\ OutputCounts /\ Tokens /\ Permits /\ Queue
  /\ DeviceCounts

(* With no trigger of an earlier process in the device, the input slots    *)
(* hold the started frames and the output slots the unread results.        *)
SlotInv ==
  stale = 0 =>
    /\ \A f \in Computed .. Written - 1 : inSlot[SlotOf(f)] = f
    /\ \A f \in outputIndex .. Computed - 1 : outSlot[SlotOf(f)] = f
    /\ busy => computing = Computed

IInv == CountInv /\ SlotInv

-----------------------------------------------------------------------------
LEMMA Sizes ==
  /\ W \in Nat \ {0} /\ SLOTS \in Nat \ {0} /\ (W % SLOTS) = 0
  BY ConstantsAssumption

LEMMA Bounds ==
  /\ PERMITS \in Nat \ {0} /\ MaxPoll \in Nat \ {0}
  /\ SLOTS \in Nat /\ PERMITS < SLOTS
  /\ W \in Nat /\ SLOTS < W
  BY ConstantsAssumption

(* The slot of a sequence number, and the slots of numbers less than a     *)
(* ring apart.                                                             *)
LEMMA SlotAtFacts ==
  ASSUME NEW s \in Nat
  PROVE  /\ \A n \in Nat : SlotAt(s, n) = (n + s) % SLOTS /\ SlotAt(s, n) \in Slots
         /\ \A m, n \in Nat : m < n /\ n - m < SLOTS => SlotAt(s, m) # SlotAt(s, n)
<1>1. ASSUME NEW n \in Nat
      PROVE  SlotAt(s, n) = (n + s) % SLOTS /\ SlotAt(s, n) \in Slots
  <2>1. U32(U32(n) + U32(s)) = (n + s) % W
    <3>1. W \in Nat \ {0} /\ n \in Int /\ s \in Int
      BY Sizes
    <3>2. ((n % W) + (s % W)) % W = (n + s) % W
      BY <3>1, ModAdd, Zenon
    <3> QED BY <3>2 DEF U32
  <2>2. SlotAt(s, n) = (n + s) % SLOTS
    <3> DEFINE a == n + s
    <3>1. a \in Int
      OBVIOUS
    <3> HIDE DEF a
    <3>2. (a % W) % SLOTS = a % SLOTS
      BY <3>1, Sizes, ModOfMultiple
    <3> QED BY <2>1, <3>2 DEF SlotAt, a
  <2>3. (n + s) % SLOTS \in 0 .. SLOTS - 1
    BY Sizes, DivMod
  <2> QED BY <2>2, <2>3 DEF Slots
<1>2. ASSUME NEW m \in Nat, NEW n \in Nat, m < n, n - m < SLOTS
      PROVE  SlotAt(s, m) # SlotAt(s, n)
  <2>1. (m + s) % SLOTS # (n + s) % SLOTS
    <3> DEFINE a == m + s
               b == n + s
    <3>1. a \in Int /\ b \in Int /\ a < b /\ b - a < SLOTS /\ SLOTS \in Nat \ {0}
      BY <1>2, Sizes
    <3> HIDE DEF a, b
    <3>2. (a % SLOTS) # (b % SLOTS)
      BY <3>1, ModDistinct
    <3> QED BY <3>2 DEF a, b
  <2> QED BY <1>1, <2>1
<1> QED BY <1>1, <1>2

(* The uint32 comparison of output_thread measures the true distance.      *)
LEMMA AheadIsDistance ==
  ASSUME NEW r \in Nat, NEW s \in Nat, NEW o \in Nat, r - s - o \in 0 .. W - 1
  PROVE  Ahead(r, s, o) = r - s - o
<1>1. U32(U32(r) - U32(s) - U32(o)) = r - s - o
  <2>1. W \in Nat \ {0} /\ r \in Int /\ s \in Int /\ o \in Int
    BY Sizes
  <2>2. ((r % W) - (s % W) - (o % W)) % W = r - s - o
    BY <2>1, ModDifference, Zenon
  <2> QED BY <2>2 DEF U32
<1> QED BY <1>1 DEF Ahead

LEMMA CountInit == Init => CountInv
<1> SUFFICES ASSUME Init PROVE CountInv
  OBVIOUS
<1>1. TypeOK
  <2>1. queInput \in Seq(Nat)
    BY DEF Init
  <2>2. answer \in [frame : Content, result : Content]
    BY DEF Init, Content
  <2>3. inSlot \in [Slots -> Content] /\ outSlot \in [Slots -> Content]
    BY DEF Init, Content
  <2>4. /\ startIndex \in Nat /\ reg \in Nat /\ stale \in Nat /\ triggers \in Nat
        /\ semInput \in 0 .. PERMITS /\ readCount \in 0 .. MaxPoll
    BY ConstantsAssumption DEF Init
  <2> QED BY <2>1, <2>2, <2>3, <2>4
          DEF Init, TypeOK, InPcs, OutPcs, DtorPcs, Content, NoFrame
<1>2. Queue
  BY DEF Init, Queue, Pushed, Popped, NoFrame
<1>3. InputCounts /\ OutputCounts /\ Tokens /\ Permits /\ DeviceCounts
  BY <1>1, ConstantsAssumption
  DEF Init, TypeOK, InputCounts, OutputCounts, Tokens, Permits, DeviceCounts,
      Pushed, Started, Notified, Popped, Released, InHand, Computed, NoFrame
<1> QED BY <1>1, <1>2, <1>3 DEF CountInv

LEMMA QueueStep ==
  ASSUME CountInv, [Next]_vars
  PROVE  queInput' \in Seq(Nat) /\ Queue'
<1> USE DEF Queue, Pushed, Popped, Content, NoFrame
<1>1. /\ queInput \in Seq(Nat) /\ taken \in Nat /\ outFrame \in Content
      /\ inPc \in InPcs /\ Queue /\ InputCounts
      /\ outPc = "pop" => Popped < Notified
  BY DEF CountInv, TypeOK, Tokens
<1>2. CASE PushInput
  <2>1. /\ queInput' = Append(queInput, taken - 1) /\ taken - 1 \in Nat
        /\ taken' = taken /\ outFrame' = outFrame
        /\ inPc = "push" /\ inPc' = "copy"
    BY <1>1, <1>2 DEF PushInput, InputCounts, outVars
  <2>2. queInput' \in Seq(Nat) /\ Len(queInput') = Len(queInput) + 1
    BY <1>1, <2>1
  <2>3. \A i \in 1 .. Len(queInput) : queInput'[i] = queInput[i]
    BY <1>1, <2>1
  <2>4. queInput'[Len(queInput) + 1] = outFrame + Len(queInput) + 1
    BY <1>1, <2>1
  <2>5. \A i \in 1 .. Len(queInput') : queInput'[i] = outFrame' + i
    BY <1>1, <2>1, <2>2, <2>3, <2>4
  <2>6. Len(queInput') = Pushed' - Popped'
    BY <1>1, <2>1, <2>2
  <2> QED BY <2>2, <2>5, <2>6
<1>3. CASE PopInput
  <2>1. Len(queInput) > 0 /\ queInput # <<>>
    BY <1>1, <1>3 DEF PopInput, Notified, InPcs
  <2>2. /\ queInput' = Tail(queInput) /\ outFrame' = queInput[1]
        /\ taken' = taken /\ inPc' = inPc
    BY <1>1, <1>3, <2>1 DEF PopInput, inVars
  <2>3. /\ queInput' \in Seq(Nat) /\ Len(queInput') = Len(queInput) - 1
        /\ \A i \in 1 .. Len(queInput') : queInput'[i] = queInput[i + 1]
    BY <1>1, <2>1, <2>2
  <2>4. outFrame' = outFrame + 1
    BY <1>1, <2>1, <2>2
  <2> QED BY <1>1, <2>2, <2>3, <2>4
<1>4. CASE UNCHANGED <<queInput, outFrame, taken>> /\ (inPc = "push" <=> inPc' = "push")
  BY <1>1, <1>4
<1>5. CASE AcquirePermit
  BY <1>1, <1>5 DEF AcquirePermit, outVars, InPcs
<1>6. CASE ~PushInput /\ ~PopInput /\ ~AcquirePermit
  <2>1. UNCHANGED <<queInput, outFrame, taken>> /\ (inPc = "push" <=> inPc' = "push")
    BY <1>6 DEF Next, InputThread, OutputThread, Destructor, Device, vars, inVars,
      outVars, BeginCopy, EndCopy, StartCalc, ReleaseToken, CountInput, OutTop,
      AcquireToken, Poll, ReleasePermit, CallbackReturn, CountOutput, Stop,
      DtorStop, DtorRelease, DtorJoin, DeviceBegin, DeviceEnd
  <2> QED BY <1>4, <2>1
<1> QED BY <1>2, <1>3, <1>5, <1>6

(* The frame output_thread pops is the one after the last it popped.       *)
LEMMA PopsNext ==
  ASSUME CountInv, outPc = "pop"
  PROVE  queInput # <<>> /\ Head(queInput) = outFrame + 1
<1>1. Len(queInput) > 0 /\ queInput \in Seq(Nat)
  BY DEF CountInv, TypeOK, Tokens, Queue, Pushed, Popped, Notified, InPcs,
         Content, NoFrame
<1>2. queInput # <<>> /\ Head(queInput) = queInput[1]
  BY <1>1
<1> QED BY <1>1, <1>2 DEF CountInv, Queue

LEMMA CountStep == CountInv /\ [Next]_vars => CountInv'
<1> SUFFICES ASSUME CountInv, [Next]_vars PROVE CountInv'
  OBVIOUS
<1>0. queInput' \in Seq(Nat) /\ Queue'
  BY QueueStep
<1> USE <1>0, Bounds
    DEF CountInv, TypeOK, InputCounts, OutputCounts, Tokens, Permits,
        DeviceCounts, Pushed, Started, Notified, Popped, Released, InHand,
        Computed, InPcs, OutPcs, DtorPcs, Content, NoFrame, Dead,
        vars, inVars, outVars, devVars, stopVars, fixed
<1>1. CASE AcquirePermit
  BY <1>1 DEF AcquirePermit
<1>2. CASE PushInput
  BY <1>2 DEF PushInput
<1>3. CASE BeginCopy
  <2>1. inSlot' \in [Slots -> Content]
    BY <1>3 DEF BeginCopy
  <2> QED BY <1>3, <2>1 DEF BeginCopy
<1>4. CASE EndCopy
  <2>1. taken - 1 \in Nat
    BY <1>4 DEF EndCopy
  <2>2. inSlot' \in [Slots -> Content]
    BY <1>4, <2>1 DEF EndCopy
  <2> QED BY <1>4, <2>1, <2>2 DEF EndCopy
<1>5. CASE StartCalc
  BY <1>5 DEF StartCalc
<1>6. CASE ReleaseToken
  BY <1>6 DEF ReleaseToken
<1>7. CASE CountInput
  BY <1>7 DEF CountInput
<1>8. CASE OutTop
  BY <1>8 DEF OutTop
<1>9. CASE AcquireToken
  BY <1>9 DEF AcquireToken
<1>10. CASE Poll
  <2>1. stale = 0 => Ahead(reg, startIndex, outputIndex) = Computed - outputIndex
    <3>1. stale = 0 => reg - startIndex - outputIndex \in 0 .. W - 1
      BY <1>10 DEF Poll
    <3> QED BY <3>1, AheadIsDistance
  <2>2. stale = 0 /\ OutputReady => Computed > outputIndex
    BY <2>1 DEF OutputReady
  <2> QED BY <1>10, <2>1, <2>2 DEF Poll
<1>11. CASE PopInput
  <2>1. outFrame' = outFrame + 1
    BY <1>11, PopsNext DEF PopInput
  <2>2. /\ outPc = "pop" /\ outPc' = "release"
        /\ UNCHANGED <<inVars, semInput, sem_input, outputIndex, readCount,
                       freed, answer, stopVars, fixed, devVars, inSlot>>
    BY <1>11 DEF PopInput
  <2>3. TypeOK'
    BY <2>1, <2>2
  <2>4. (InputCounts /\ OutputCounts)'
    BY <2>1, <2>2
  <2>5. (Tokens /\ Permits)'
    BY <2>1, <2>2
  <2>6. DeviceCounts'
    BY <2>1, <2>2
  <2> QED BY <2>3, <2>4, <2>5, <2>6
<1>12. CASE ReleasePermit
  BY <1>12 DEF ReleasePermit
<1>13. CASE CallbackReturn
  <2>1. SlotOf(outputIndex) \in Slots
    BY SlotAtFacts DEF SlotOf
  <2>2. answer' \in [frame : Content, result : Content]
    BY <1>13, <2>1 DEF CallbackReturn
  <2> QED BY <1>13, <2>1, <2>2 DEF CallbackReturn
<1>14. CASE CountOutput
  BY <1>14 DEF CountOutput
<1>15. CASE Stop
  BY <1>15 DEF Stop
<1>16. CASE DtorStop
  BY <1>16 DEF DtorStop
<1>17. CASE DtorRelease
  BY <1>17 DEF DtorRelease
<1>18. CASE DtorJoin
  BY <1>18 DEF DtorJoin
<1>19. CASE DeviceBegin
  <2>1. DeviceSlot \in Slots
    <3>1. reg \in Int /\ SLOTS \in Nat \ {0}
      BY Sizes
    <3>2. reg % SLOTS \in 0 .. SLOTS - 1
      BY <3>1, DivMod, Zenon
    <3> QED BY <3>2 DEF DeviceSlot, Slots
  <2>2. computing' \in Content
    BY <1>19, <2>1 DEF DeviceBegin
  <2>3. outSlot' \in [Slots -> Content]
    BY <1>19 DEF DeviceBegin
  <2> QED BY <1>19, <2>1, <2>2, <2>3 DEF DeviceBegin
<1>20. CASE DeviceEnd
  <2>1. outSlot' \in [Slots -> Content]
    BY <1>20 DEF DeviceEnd
  <2>2. reg' = reg + 1 /\ triggers' = triggers - 1 /\ triggers > 0 /\ busy' = FALSE
    BY <1>20 DEF DeviceEnd
  <2>3. UNCHANGED <<inVars, semInput, sem_input, queInput, outVars, stopVars,
                    fixed, computing, inSlot>>
    BY <1>20 DEF DeviceEnd
  <2>4. TypeOK'
    <3>1. reg' \in Nat /\ triggers' \in Nat /\ busy' \in BOOLEAN
      <4>1. reg \in Nat /\ triggers \in Nat
        OBVIOUS
      <4>2. reg' \in Nat /\ triggers' \in Nat
        BY <2>2, <4>1
      <4>3. busy' \in BOOLEAN
        BY <2>2, Zenon
      <4> QED BY <4>2, <4>3
    <3>2. (/\ semInput \in 0 .. PERMITS /\ sem_input \in Nat
           /\ readCount \in 0 .. MaxPoll /\ freed \in Nat
           /\ taken \in Nat /\ inputIndex \in Nat /\ outputIndex \in Nat
           /\ startIndex \in Nat /\ stale \in Nat)'
      BY <2>3
    <3>3. (/\ inPc \in InPcs /\ outPc \in OutPcs /\ dtor \in DtorPcs
           /\ isStop \in BOOLEAN)'
      BY <2>3
    <3>4. (/\ outFrame \in Content /\ computing \in Content
           /\ answer \in [frame : Content, result : Content]
           /\ inSlot \in [Slots -> Content])'
      BY <2>3
    <3> QED BY <2>1, <3>1, <3>2, <3>3, <3>4
  <2>5. DeviceCounts'
    BY <2>2, <2>3
  <2>6. (InputCounts /\ OutputCounts /\ Tokens /\ Permits)'
    BY <2>3
  <2> QED BY <2>4, <2>5, <2>6
<1>21. CASE UNCHANGED vars
  BY <1>21
<1> QED
  BY <1>1, <1>2, <1>3, <1>4, <1>5, <1>6, <1>7, <1>8, <1>9, <1>10, <1>11, <1>12, <1>13, <1>14, <1>15, <1>16, <1>17, <1>18, <1>19, <1>20, <1>21
  DEF Next, InputThread, OutputThread, Destructor, Device

-----------------------------------------------------------------------------
(* How far apart the two threads and the device can be.                    *)
LEMMA Distances ==
  ASSUME CountInv, stale = 0
  PROVE  /\ outputIndex \in Nat /\ taken \in Nat /\ Computed \in Nat
         /\ Written \in Int /\ startIndex \in Nat
         /\ outputIndex <= Computed /\ Computed <= Written /\ Written <= taken
         /\ taken - outputIndex <= SLOTS
         /\ busy => Computed < Written /\ Computed - outputIndex < SLOTS
         /\ busy /\ inPc \in {"copying", "start"} => Computed < inputIndex
         /\ inPc # "idle" => inputIndex = taken - 1 /\ inputIndex \in Nat
  BY Bounds
  DEF CountInv, TypeOK, InputCounts, OutputCounts, Permits, DeviceCounts, Started,
      Written, Released, Computed, InPcs, OutPcs, Content, NoFrame

LEMMA DeviceSlotIs ==
  ASSUME CountInv, stale = 0
  PROVE  DeviceSlot = SlotAt(startIndex, Computed) /\ DeviceSlot \in Slots
<1>1. startIndex \in Nat /\ Computed \in Nat /\ reg \in Nat
  BY Distances DEF CountInv, TypeOK
<1>2. Computed + startIndex = reg
  BY <1>1 DEF Computed
<1> QED BY <1>1, <1>2, SlotAtFacts DEF DeviceSlot

LEMMA SlotInit == Init => SlotInv
  BY ConstantsAssumption DEF Init, SlotInv, Computed, Written

LEMMA SlotStep ==
  ASSUME CountInv, CountInv', SlotInv, [Next]_vars
  PROVE  SlotInv'
<1> SUFFICES ASSUME stale = 0, startIndex' = startIndex
             PROVE  SlotInv'
  BY DEF SlotInv, Next, InputThread, OutputThread, Destructor, Device, vars, fixed,
    AcquirePermit, PushInput, BeginCopy, EndCopy, StartCalc, ReleaseToken,
    CountInput, OutTop, AcquireToken, Poll, PopInput, ReleasePermit,
    CallbackReturn, CountOutput, Stop, DtorStop, DtorRelease, DtorJoin,
    DeviceBegin, DeviceEnd
<1> DEFINE S(f) == SlotAt(startIndex, f)
<1>1. /\ outputIndex \in Nat /\ taken \in Nat /\ Computed \in Nat
      /\ Written \in Int /\ outputIndex <= Computed /\ Computed <= Written
      /\ Written <= taken /\ taken - outputIndex <= SLOTS
      /\ busy => Computed < Written /\ Computed - outputIndex < SLOTS
      /\ inPc # "idle" => inputIndex = taken - 1 /\ inputIndex \in Nat
  BY Distances
<1>2. /\ \A f \in Computed .. Written - 1 : inSlot[S(f)] = f
      /\ \A f \in outputIndex .. Computed - 1 : outSlot[S(f)] = f
      /\ busy => computing = Computed
  BY DEF SlotInv, SlotOf
<1>3. /\ \A n \in Nat : S(n) \in Slots
      /\ \A m, n \in Nat : m < n /\ n - m < SLOTS => S(m) # S(n)
  BY SlotAtFacts DEF CountInv, TypeOK
<1>4. inSlot \in [Slots -> Content] /\ outSlot \in [Slots -> Content]
  BY DEF CountInv, TypeOK
<1>5. DeviceSlot = S(Computed)
  BY DeviceSlotIs
<1>6. SUFFICES /\ \A f \in Computed' .. Written' - 1 : inSlot'[S(f)] = f
               /\ \A f \in outputIndex' .. Computed' - 1 : outSlot'[S(f)] = f
               /\ busy' => computing' = Computed'
  BY DEF SlotInv, SlotOf
<1> HIDE DEF S
<1>7. CASE /\ UNCHANGED <<reg, inSlot, outSlot, outputIndex, busy, computing>>
           /\ Written' = Written
  <2>1. Computed' = Computed
    BY <1>7 DEF Computed
  <2> QED BY <1>2, <1>7, <2>1
<1>8. CASE BeginCopy
  <2>1. /\ inSlot' = [inSlot EXCEPT ![S(inputIndex)] = NoFrame]
        /\ Computed' = Computed /\ Written' = Written /\ Written = inputIndex
        /\ UNCHANGED <<outSlot, outputIndex, busy, computing>>
        /\ inPc # "idle"
    BY <1>1, <1>8
    DEF BeginCopy, Computed, Written, SlotOf, inVars, outVars, devVars, S
  <2>2. ASSUME NEW f \in Computed .. Written - 1
        PROVE  inSlot'[S(f)] = f
    <3>1. f \in Nat /\ f < inputIndex /\ inputIndex - f < SLOTS /\ inputIndex \in Nat
      BY <1>1, <2>1, Bounds
    <3>2. S(f) \in Slots /\ S(f) # S(inputIndex)
      BY <1>3, <3>1
    <3> QED BY <1>2, <1>4, <2>1, <3>2
  <2> QED BY <1>2, <2>1, <2>2
<1>9. CASE EndCopy
  <2>1. /\ inSlot' = [inSlot EXCEPT ![S(inputIndex)] = inputIndex]
        /\ Computed' = Computed /\ Written' = Written + 1 /\ Written = inputIndex
        /\ UNCHANGED <<outSlot, outputIndex, busy, computing>>
        /\ inPc # "idle"
    BY <1>1, <1>9
    DEF EndCopy, Computed, Written, SlotOf, inVars, outVars, devVars, S
  <2>2. ASSUME NEW f \in Computed .. Written' - 1
        PROVE  inSlot'[S(f)] = f
    <3>1. inputIndex \in Nat /\ f \in Nat /\ f <= inputIndex
      BY <1>1, <2>1
    <3>2. CASE f = inputIndex
      BY <1>3, <1>4, <2>1, <3>1, <3>2
    <3>3. CASE f < inputIndex
      <4>1. f \in Computed .. Written - 1 /\ inputIndex - f < SLOTS
        BY <1>1, <2>1, <3>1, <3>3, Bounds
      <4>2. S(f) \in Slots /\ S(f) # S(inputIndex)
        BY <1>3, <3>1, <3>3, <4>1
      <4> QED BY <1>2, <1>4, <2>1, <4>1, <4>2
    <3> QED BY <3>1, <3>2, <3>3
  <2> QED BY <1>2, <2>1, <2>2
<1>10. CASE CountOutput
  <2>1. /\ outputIndex' = outputIndex + 1
        /\ UNCHANGED <<reg, inSlot, outSlot, busy, computing>>
        /\ Written' = Written /\ Computed' = Computed
    BY <1>10 DEF CountOutput, Written, Computed, devVars, inVars
  <2> QED BY <1>1, <1>2, <2>1
<1>11. CASE DeviceBegin
  <2>1. /\ outSlot' = [outSlot EXCEPT ![S(Computed)] = NoFrame]
        /\ Computed' = Computed /\ Written' = Written
        /\ UNCHANGED <<inSlot, outputIndex>>
        /\ computing' = inSlot[S(Computed)]
    BY <1>5, <1>11 DEF DeviceBegin, Computed, Written, inVars, outVars
  <2>2. Computed < Written' /\ Computed - outputIndex < SLOTS
    <3>1. Started \in Int /\ Computed < Started /\ Started <= Written /\ Computed - outputIndex <= PERMITS
      BY <1>11, Bounds
      DEF DeviceBegin, CountInv, TypeOK, OutputCounts, Permits, DeviceCounts, Started,
          Written, Released, Computed, OutPcs, Content, NoFrame
    <3> QED BY <1>1, <2>1, <3>1, Bounds
  <2>3. ASSUME NEW f \in outputIndex .. Computed - 1
        PROVE  outSlot'[S(f)] = f
    <3>1. f \in Nat /\ f < Computed /\ Computed - f < SLOTS
      BY <1>1, <2>2, Bounds
    <3>2. S(f) \in Slots /\ S(f) # S(Computed)
      BY <1>1, <1>3, <3>1
    <3> QED BY <1>2, <1>4, <2>1, <3>2
  <2>4. computing' = Computed
    BY <1>1, <1>2, <2>1, <2>2
  <2> QED BY <1>2, <2>1, <2>3, <2>4
<1>12. CASE DeviceEnd
  <2>1. /\ busy /\ ~busy' /\ computing = Computed
        /\ Computed' = Computed + 1 /\ Written' = Written
        /\ UNCHANGED <<inSlot, outputIndex>>
    BY <1>2, <1>12 DEF DeviceEnd, Computed, Written, inVars, outVars, CountInv, TypeOK
  <2>2. Computed < Written /\ Computed - outputIndex < SLOTS
    BY <1>1, <2>1
  <2>3. inSlot[S(Computed)] = Computed
    BY <1>1, <1>2, <2>1
  <2>4. outSlot' = [outSlot EXCEPT ![S(Computed)] = Computed]
    BY <1>5, <1>12, <2>1, <2>3 DEF DeviceEnd
  <2>5. ASSUME NEW f \in outputIndex .. Computed
        PROVE  outSlot'[S(f)] = f
    <3>1. f \in Nat
      BY <1>1
    <3>2. CASE f = Computed
      BY <1>1, <1>3, <1>4, <2>4, <3>2
    <3>3. CASE f < Computed
      <4>1. f \in outputIndex .. Computed - 1 /\ Computed - f < SLOTS
        BY <1>1, <2>1, <2>2, <3>1, <3>3, Bounds
      <4>2. S(f) \in Slots /\ S(f) # S(Computed)
        BY <1>1, <1>3, <3>1, <3>3, <4>1
      <4> QED BY <1>2, <1>4, <2>4, <4>1, <4>2
    <3> QED BY <1>1, <3>1, <3>2, <3>3
  <2>6. \A f \in Computed' .. Written' - 1 : inSlot'[S(f)] = f
    BY <1>1, <1>2, <2>1
  <2>7. \A f \in outputIndex' .. Computed' - 1 : outSlot'[S(f)] = f
    BY <1>1, <2>1, <2>5
  <2> QED BY <2>1, <2>6, <2>7
<1>13. CASE ~(BeginCopy \/ EndCopy \/ CountOutput \/ Device)
  <2>1. UNCHANGED <<reg, inSlot, outSlot, outputIndex, busy, computing>>
    BY <1>13 DEF Next, InputThread, OutputThread, Destructor, vars, outVars, devVars,
      AcquirePermit, PushInput, StartCalc, ReleaseToken, CountInput, OutTop,
      AcquireToken, Poll, PopInput, ReleasePermit, CallbackReturn, Stop,
      DtorStop, DtorRelease, DtorJoin
  <2>2. Written' = Written
    <3>1. CASE AcquirePermit
      BY <1>1, <3>1 DEF AcquirePermit, Written
    <3>2. CASE ~AcquirePermit
      <4>1. /\ taken' = taken
            /\ inPc' \in {"push", "copy", "copying"} <=>
                 inPc \in {"push", "copy", "copying"}
        BY <1>13, <3>2 DEF Next, InputThread, OutputThread, Destructor, vars,
          inVars, PushInput, StartCalc, ReleaseToken, CountInput, OutTop,
          AcquireToken, Poll, PopInput, ReleasePermit, CallbackReturn, Stop,
          DtorStop, DtorRelease, DtorJoin
      <4> QED BY <4>1 DEF Written
    <3> QED BY <3>1, <3>2
  <2> QED BY <1>7, <2>1, <2>2
<1> QED
  BY <1>8, <1>9, <1>10, <1>11, <1>12, <1>13 DEF Device

-----------------------------------------------------------------------------
THEOREM Invariance == Spec => []IInv
<1>1. Init => IInv
  BY CountInit, SlotInit DEF IInv
<1>2. IInv /\ [Next]_vars => IInv'
  BY CountStep, SlotStep DEF IInv
<1> QED BY <1>1, <1>2, PTL DEF Spec

LEMMA SlotHoldsResult == IInv => CallbackSlotStable
<1> SUFFICES ASSUME IInv, stale = 0, outPc = "callback"
             PROVE  /\ outSlot[SlotOf(outputIndex)] = outFrame
                    /\ ~(busy /\ DeviceSlot = SlotOf(outputIndex))
  BY DEF CallbackSlotStable
<1>1. CountInv /\ SlotInv
  BY DEF IInv
<1>2. outputIndex = outFrame /\ Computed > outputIndex
  BY <1>1 DEF CountInv, OutputCounts, DeviceCounts
<1>3. /\ outputIndex \in Nat /\ Computed \in Nat /\ startIndex \in Nat
      /\ busy => Computed - outputIndex < SLOTS
  BY <1>1, Distances
<1>4. outputIndex \in outputIndex .. Computed - 1
  BY <1>2, <1>3
<1>5. outSlot[SlotOf(outputIndex)] = outFrame
  BY <1>1, <1>2, <1>4 DEF SlotInv
<1>6. ASSUME busy PROVE DeviceSlot # SlotOf(outputIndex)
  <2>1. outputIndex < Computed /\ Computed - outputIndex < SLOTS
    BY <1>2, <1>3, <1>6
  <2>2. SlotAt(startIndex, outputIndex) # SlotAt(startIndex, Computed)
    BY <1>3, <2>1, SlotAtFacts
  <2> QED BY <1>1, <2>2, DeviceSlotIs DEF SlotOf
<1> QED BY <1>5, <1>6

(* Every variable keeps its type; in particular semInput never exceeds     *)
(* what initIndex released, and every slot index stays in the ring.        *)
THEOREM TypeCorrect == Spec => []TypeOK
<1>1. IInv => TypeOK
  BY DEF IInv, CountInv
<1> QED BY <1>1, Invariance, PTL

(* The slot a callback reads holds its own frame's result for as long as   *)
(* the callback runs, for every ring with more slots than permits.         *)
THEOREM CallbackSafe == Spec => []CallbackSlotStable
  BY SlotHoldsResult, Invariance, PTL

(* The input thread and the device never use one input slot together.      *)
THEOREM InputSafe == Spec => []InputSlotExclusive
<1>1. IInv => InputSlotExclusive
  <2> SUFFICES ASSUME IInv, stale = 0, busy, inPc \in {"copying", "start"}
               PROVE  SlotOf(inputIndex) # DeviceSlot
    BY DEF InputSlotExclusive
  <2>1. CountInv
    BY DEF IInv
  <2>2. /\ Computed \in Nat /\ inputIndex \in Nat /\ startIndex \in Nat
        /\ Computed < inputIndex /\ inputIndex - Computed < SLOTS
    BY <2>1, Distances, Bounds
  <2>3. SlotAt(startIndex, Computed) # SlotAt(startIndex, inputIndex)
    BY <2>2, SlotAtFacts
  <2> QED BY <2>1, <2>3, DeviceSlotIs DEF SlotOf
<1> QED BY <1>1, Invariance, PTL

(* in_data is not deleted before the input thread has copied it, whatever  *)
(* the device's register says.                                             *)
THEOREM InDataSafe == Spec => []InDataAlive
<1>1. IInv => InDataAlive
  BY DEF IInv, CountInv, TypeOK, InputCounts, OutputCounts, Tokens, InDataAlive,
         Popped, Notified, Content, NoFrame
<1> QED BY <1>1, Invariance, PTL

(* front() and pop() of the input queue are never called on an empty queue. *)
THEOREM PopSafe == Spec => []PopFindsFrame
<1>1. IInv => PopFindsFrame
  BY PopsNext DEF IInv, PopFindsFrame
<1> QED BY <1>1, Invariance, PTL

(* No permit of the input semaphore is lost or created.                    *)
THEOREM PermitsSafe == Spec => []PermitsConserved
<1>1. IInv => PermitsConserved
  BY DEF IInv, CountInv, Permits, Released, PermitsConserved
<1> QED BY <1>1, Invariance, PTL

(* With an idle device at start the pipeline implements the bounded FIFO   *)
(* that answers every frame in order with its own result.                  *)
THEOREM ImplementsFifo ==
  ASSUME MaxStale = 0
  PROVE  Spec => FifoSpec
<1> DEFINE Clean == IInv /\ stale = 0
<1>1. Init => Clean /\ Fifo!Init
  BY CountInit, SlotInit DEF IInv, Init, Fifo!Init, NoFrame
<1>2. Clean /\ [Next]_vars => Clean'
  <2> SUFFICES ASSUME Clean, [Next]_vars PROVE Clean'
    OBVIOUS
  <2>1. stale' = stale
    BY DEF Next, InputThread, OutputThread, Destructor, Device, vars, fixed,
      AcquirePermit, PushInput, BeginCopy, EndCopy, StartCalc, ReleaseToken,
      CountInput, OutTop, AcquireToken, Poll, PopInput, ReleasePermit,
      CallbackReturn, CountOutput, Stop, DtorStop, DtorRelease, DtorJoin,
      DeviceBegin, DeviceEnd
  <2> QED BY <2>1, CountStep, SlotStep DEF IInv
<1>3. Clean /\ [Next]_vars => [Fifo!Next]_(Fifo!vars)
  <2> SUFFICES ASSUME Clean, [Next]_vars PROVE [Fifo!Next]_(Fifo!vars)
    OBVIOUS
  <2>1. CountInv /\ stale = 0 /\ CallbackSlotStable
    BY SlotHoldsResult DEF IInv
  <2> USE DEF CountInv, TypeOK, OutPcs, Content, NoFrame
  <2>2. CASE AcquirePermit
    <3>1. taken - freed < PERMITS + 1
      BY <2>1, <2>2, Bounds
      DEF AcquirePermit, OutputCounts, Permits, Released
    <3> QED BY <2>2, <3>1 DEF AcquirePermit, outVars, Fifo!Next, Fifo!Accept
  <2>3. CASE CallbackReturn
    <3>1. outFrame = freed /\ outSlot[SlotOf(outputIndex)] = outFrame
      BY <2>1, <2>3 DEF CallbackReturn, OutputCounts, CallbackSlotStable
    <3>2. freed < taken
      BY <2>1, <2>3, <3>1
      DEF CallbackReturn, Tokens, Popped, Notified, InputCounts
    <3> QED BY <2>3, <3>1, <3>2
            DEF CallbackReturn, inVars, Fifo!Next, Fifo!Answer
  <2>4. CASE ~AcquirePermit /\ ~CallbackReturn
    <3>1. UNCHANGED <<taken, freed, answer>>
      BY <2>4 DEF Next, InputThread, OutputThread, Destructor, Device, vars,
        inVars, outVars, PushInput, BeginCopy, EndCopy, StartCalc, ReleaseToken,
        CountInput, OutTop, AcquireToken, Poll, PopInput, ReleasePermit,
        CountOutput, Stop, DtorStop, DtorRelease, DtorJoin, DeviceBegin, DeviceEnd
    <3> QED BY <3>1 DEF Fifo!vars
  <2> QED BY <2>2, <2>3, <2>4
<1> QED BY <1>1, <1>2, <1>3, PTL DEF Spec, FifoSpec, Fifo!Spec

=============================================================================
