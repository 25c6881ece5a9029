---------------------------- MODULE FpgaControl ----------------------------
(***************************************************************************)
(* The FPGA inference pipeline of src/fpgaControl.cpp, together with the   *)
(* two threads that drive it and the device behind it.                     *)
(*                                                                         *)
(* The input thread calls FPGAControl::input() for one frame after the     *)
(* other: it takes a permit of semInput, queues the frame, copies it into  *)
(* the next of SLOTS device input slots, triggers the device and releases  *)
(* sem_input.  output_thread takes sem_input, polls the device's           *)
(* completion register, pops the queue, releases the permit, runs the      *)
(* callback on the output slot (zero copy: the callback reads device       *)
(* memory) and only then advances vecOutputIndex.                          *)
(*                                                                         *)
(* Frames are numbered 0, 1, ... in the order input() receives them.  The  *)
(* code's uint32 counters are kept as the counts they stand for, and every *)
(* place that reads one applies U32.                                       *)
(***************************************************************************)
EXTENDS Integers, Sequences

CONSTANTS
  SLOTS,      \* FPGA_CFG_IO_DATA_MAX_NUM, 8 in the build
  PERMITS,    \* permits initIndex puts into semInput, 2 in the build
  W,          \* 2^32, the range of the index counters and of the register
  MaxPoll,    \* the read_count at which output_thread gives up, 100
  StartRegs,  \* completion counts the device may show at initIndex
  MaxStale,   \* bound: triggers of an earlier process left in the device
  MaxFrames   \* bound: frames handed to input()

ASSUME ConstantsAssumption ==
  /\ PERMITS \in Nat \ {0}
  /\ SLOTS \in Nat /\ PERMITS < SLOTS
  /\ W \in Nat /\ SLOTS < W /\ W % SLOTS = 0
  /\ MaxPoll \in Nat \ {0}
  /\ StartRegs \subseteq Nat
  /\ MaxStale \in Nat
  /\ MaxFrames \in Nat

VARIABLES
  inPc,        \* where the input thread is inside input()
  taken,       \* frames that passed semInput.acquire(); the newest is taken-1
  inputIndex,  \* vecInputIndex[0]
  semInput,    \* permits of the input semaphore
  sem_input,   \* tokens for output_thread
  queInput,    \* vecQueInput[0], frame numbers
  outPc,       \* where output_thread is
  outFrame,    \* data_info, the frame popped last
  outputIndex, \* vecOutputIndex[0]
  readCount,   \* read_count
  freed,       \* frames whose in_data and FPGAInput were deleted: 0..freed-1
  answer,      \* the last callback: its frame and the frame the result is of
  isStop,      \* isStop
  dtor,        \* progress of ~FPGAControl
  startIndex,  \* vecStartIndex[0]
  reg,         \* the device's completion register
  triggers,    \* start commands the device has not finished
  busy,        \* the device is computing
  computing,   \* the input it read when it began
  inSlot,      \* device input memory: slot -> frame
  outSlot,     \* device output memory: slot -> frame the result belongs to
  stale        \* history: triggers outstanding when initIndex read the register

inVars   == <<inPc, taken, inputIndex>>
outVars  == <<outPc, outFrame, outputIndex, readCount, freed, answer>>
devVars  == <<reg, triggers, busy, computing, outSlot>>
stopVars == <<isStop, dtor>>
fixed    == <<startIndex, stale>>
vars     == <<inVars, semInput, sem_input, queInput, outVars, stopVars,
              fixed, devVars, inSlot>>

NoFrame == -1   \* nothing written yet, or a half-written buffer
Slots   == 0 .. SLOTS - 1
Content == Nat \cup {NoFrame}

U32(n) == n % W

(* The device-memory slot of the n-th frame:                               *)
(* (index + vecStartIndex) % FPGA_CFG_IO_DATA_MAX_NUM in uint32.           *)
SlotAt(start, n) == U32(U32(n) + U32(start)) % SLOTS

SlotOf(n) == SlotAt(startIndex, n)

(* (uint32)reg_data - vecStartIndex - vecOutputIndex, in uint32.           *)
Ahead(r, start, index) == U32(U32(r) - U32(start) - U32(index))

(* Mutant: the comparison is not strict. *)
OutputReady_NonStrict == Ahead(reg, startIndex, outputIndex) >= 0

OutputReady == Ahead(reg, startIndex, outputIndex) > 0

(* The process has ended: exit(-1) in the poll loop, or the destructor's   *)
(* call through the null pThread_Calcuate.                                 *)
Dead == outPc = "exited" \/ dtor = "crashed"

Init ==
  /\ inPc = "idle" /\ taken = 0 /\ inputIndex = 0
  /\ semInput = PERMITS /\ sem_input = 0
  /\ queInput = <<>>
  /\ outPc = "top" /\ outFrame = NoFrame /\ outputIndex = 0 /\ readCount = 0
  /\ freed = 0
  /\ answer = [frame |-> NoFrame, result |-> NoFrame]
  /\ isStop = FALSE /\ dtor = "alive"
  /\ startIndex \in StartRegs
  /\ reg = startIndex
  /\ stale \in 0 .. MaxStale
  /\ triggers = stale
  /\ busy = FALSE /\ computing = NoFrame
  /\ inSlot = [s \in Slots |-> NoFrame]
  /\ outSlot = [s \in Slots |-> NoFrame]

-----------------------------------------------------------------------------
(* The input thread: FPGAControl::input().                                 *)

(* Mutant: frames are accepted without a permit. *)
AcquirePermit_NoPermit ==
  /\ inPc = "idle" /\ dtor = "alive" /\ ~Dead
  /\ taken < MaxFrames
  /\ semInput' = semInput
  /\ taken' = taken + 1
  /\ inPc' = "push"
  /\ UNCHANGED <<inputIndex, sem_input, queInput, outVars, stopVars, fixed,
                 devVars, inSlot>>

AcquirePermit ==
  /\ inPc = "idle" /\ dtor = "alive" /\ ~Dead
  /\ taken < MaxFrames
  /\ semInput > 0
  /\ semInput' = semInput - 1
  /\ taken' = taken + 1
  /\ inPc' = "push"
  /\ UNCHANGED <<inputIndex, sem_input, queInput, outVars, stopVars, fixed,
                 devVars, inSlot>>

(* Mutant: output_thread is notified as soon as the frame is queued. *)
PushInput_Notifies ==
  /\ inPc = "push" /\ ~Dead
  /\ queInput' = Append(queInput, taken - 1)
  /\ sem_input' = sem_input + 1
  /\ inPc' = "copy"
  /\ UNCHANGED <<taken, inputIndex, semInput, outVars, stopVars,
                 fixed, devVars, inSlot>>

PushInput ==
  /\ inPc = "push" /\ ~Dead
  /\ queInput' = Append(queInput, taken - 1)
  /\ inPc' = "copy"
  /\ UNCHANGED <<taken, inputIndex, semInput, sem_input, outVars, stopVars,
                 fixed, devVars, inSlot>>

(* memcpy into the slot is not atomic: it holds a torn frame until the end. *)
BeginCopy ==
  /\ inPc = "copy" /\ ~Dead
  /\ inSlot' = [inSlot EXCEPT ![SlotOf(inputIndex)] = NoFrame]
  /\ inPc' = "copying"
  /\ UNCHANGED <<taken, inputIndex, semInput, sem_input, queInput, outVars,
                 stopVars, fixed, devVars>>

EndCopy ==
  /\ inPc = "copying" /\ ~Dead
  /\ inSlot' = [inSlot EXCEPT ![SlotOf(inputIndex)] = taken - 1]
  /\ inPc' = "start"
  /\ UNCHANGED <<taken, inputIndex, semInput, sem_input, queInput, outVars,
                 stopVars, fixed, devVars>>

(* FPGA_CALC_START_INDEX2: the rising edge of the start register.          *)
StartCalc ==
  /\ inPc = "start" /\ ~Dead
  /\ triggers' = triggers + 1
  /\ inPc' = "token"
  /\ UNCHANGED <<taken, inputIndex, semInput, sem_input, queInput, outVars,
                 stopVars, fixed, reg, busy, computing, outSlot, inSlot>>

(* Mutant: the token is never released. *)
ReleaseToken_Lost ==
  /\ inPc = "token" /\ ~Dead
  /\ sem_input' = sem_input
  /\ inPc' = "count"
  /\ UNCHANGED <<taken, inputIndex, semInput, queInput, outVars, stopVars,
                 fixed, devVars, inSlot>>

ReleaseToken ==
  /\ inPc = "token" /\ ~Dead
  /\ sem_input' = sem_input + 1
  /\ inPc' = "count"
  /\ UNCHANGED <<taken, inputIndex, semInput, queInput, outVars, stopVars,
                 fixed, devVars, inSlot>>

CountInput ==
  /\ inPc = "count" /\ ~Dead
  /\ inputIndex' = inputIndex + 1
  /\ inPc' = "idle"
  /\ UNCHANGED <<taken, semInput, sem_input, queInput, outVars, stopVars,
                 fixed, devVars, inSlot>>

-----------------------------------------------------------------------------
(* output_thread.                                                          *)

OutTop ==
  /\ outPc = "top" /\ ~Dead
  /\ outPc' = IF isStop THEN "stopped" ELSE "acquire"
  /\ UNCHANGED <<inVars, semInput, sem_input, queInput, outFrame, outputIndex,
                 readCount, freed, answer, stopVars, fixed, devVars, inSlot>>

AcquireToken ==
  /\ outPc = "acquire" /\ ~Dead
  /\ sem_input > 0
  /\ sem_input' = sem_input - 1
  /\ readCount' = 0
  /\ outPc' = "poll"
  /\ UNCHANGED <<inVars, semInput, queInput, outFrame, outputIndex, freed,
                 answer, stopVars, fixed, devVars, inSlot>>

(* Mutant: isStop is not tested in the poll loop. *)
Poll_IgnoresStop ==
  /\ outPc = "poll" /\ ~Dead
  /\ readCount' = readCount + 1
  /\ outPc' = IF readCount' = MaxPoll THEN "exited"
              ELSE IF OutputReady THEN "pop" ELSE "poll"
  /\ UNCHANGED <<inVars, semInput, sem_input, queInput, outFrame, outputIndex,
                 freed, answer, stopVars, fixed, devVars, inSlot>>

(* One turn of the poll loop: stop, give up, leave it, or sleep and retry. *)
Poll ==
  /\ outPc = "poll" /\ ~Dead
  /\ \/ isStop /\ outPc' = "stopped" /\ UNCHANGED readCount
     \/ /\ ~isStop
        /\ readCount' = readCount + 1
        /\ outPc' = IF readCount' = MaxPoll THEN "exited"
                    ELSE IF OutputReady THEN "pop" ELSE "poll"
  /\ UNCHANGED <<inVars, semInput, sem_input, queInput, outFrame, outputIndex,
                 freed, answer, stopVars, fixed, devVars, inSlot>>

(* Mutant: the newest frame is taken instead of the oldest. *)
PopInput_Newest ==
  /\ outPc = "pop" /\ ~Dead
  /\ outFrame' = queInput[Len(queInput)]
  /\ queInput' = SubSeq(queInput, 1, Len(queInput) - 1)
  /\ outPc' = "release"
  /\ UNCHANGED <<inVars, semInput, sem_input, outputIndex, readCount, freed,
                 answer, stopVars, fixed, devVars, inSlot>>

PopInput ==
  /\ outPc = "pop" /\ ~Dead
  /\ outFrame' = Head(queInput)
  /\ queInput' = Tail(queInput)
  /\ outPc' = "release"
  /\ UNCHANGED <<inVars, semInput, sem_input, outputIndex, readCount, freed,
                 answer, stopVars, fixed, devVars, inSlot>>

(* Mutant: the permit is never given back. *)
ReleasePermit_Lost ==
  /\ outPc = "release" /\ ~Dead
  /\ semInput' = semInput
  /\ outPc' = "callback"
  /\ UNCHANGED <<inVars, sem_input, queInput, outFrame, outputIndex, readCount,
                 freed, answer, stopVars, fixed, devVars, inSlot>>

ReleasePermit ==
  /\ outPc = "release" /\ ~Dead
  /\ semInput' = semInput + 1
  /\ outPc' = "callback"
  /\ UNCHANGED <<inVars, sem_input, queInput, outFrame, outputIndex, readCount,
                 freed, answer, stopVars, fixed, devVars, inSlot>>

(* The callback returns: it read the output slot, deleted in_data, and     *)
(* output_thread deletes the FPGAInput.                                    *)
CallbackReturn ==
  /\ outPc = "callback" /\ ~Dead
  /\ answer' = [frame |-> outFrame, result |-> outSlot[SlotOf(outputIndex)]]
  /\ freed' = outFrame + 1
  /\ outPc' = "count"
  /\ UNCHANGED <<inVars, semInput, sem_input, queInput, outFrame, outputIndex,
                 readCount, stopVars, fixed, devVars, inSlot>>

CountOutput ==
  /\ outPc = "count" /\ ~Dead
  /\ outputIndex' = outputIndex + 1
  /\ outPc' = "top"
  /\ UNCHANGED <<inVars, semInput, sem_input, queInput, outFrame, readCount,
                 freed, answer, stopVars, fixed, devVars, inSlot>>

-----------------------------------------------------------------------------
(* stop() and the destructor.                                              *)

Stop ==
  /\ dtor = "alive" /\ ~isStop /\ ~Dead
  /\ isStop' = TRUE
  /\ UNCHANGED <<inVars, semInput, sem_input, queInput, outVars, dtor, fixed,
                 devVars, inSlot>>

(* The object is destroyed by a caller that is not inside input().         *)
DtorStop ==
  /\ dtor = "alive" /\ inPc = "idle" /\ ~Dead
  /\ isStop' = TRUE
  /\ dtor' = "release"
  /\ UNCHANGED <<inVars, semInput, sem_input, queInput, outVars, fixed,
                 devVars, inSlot>>

(* Mutant: the destructor joins without waking output_thread. *)
DtorRelease_NoToken ==
  /\ dtor = "release" /\ ~Dead
  /\ sem_input' = sem_input
  /\ dtor' = "join"
  /\ UNCHANGED <<inVars, semInput, queInput, outVars, isStop, fixed, devVars,
                 inSlot>>

DtorRelease ==
  /\ dtor = "release" /\ ~Dead
  /\ sem_input' = sem_input + 1
  /\ dtor' = "join"
  /\ UNCHANGED <<inVars, semInput, queInput, outVars, isStop, fixed, devVars,
                 inSlot>>

(* join() returns; `if (!pThread_Calcuate) pThread_Calcuate->join()` then  *)
(* dereferences the null pointer, for start() creates no such thread.      *)
DtorJoin ==
  /\ dtor = "join" /\ outPc = "stopped"
  /\ dtor' = "crashed"
  /\ UNCHANGED <<inVars, semInput, sem_input, queInput, outVars, isStop, fixed,
                 devVars, inSlot>>

-----------------------------------------------------------------------------
(* The device, as the code relies on it: it serves start commands in       *)
(* order, from and to the slot its completion count selects, and survives  *)
(* the process.                                                            *)

DeviceSlot == reg % SLOTS

DeviceBegin ==
  /\ ~busy /\ triggers > 0
  /\ busy' = TRUE
  /\ computing' = inSlot[DeviceSlot]
  /\ outSlot' = [outSlot EXCEPT ![DeviceSlot] = NoFrame]
  /\ UNCHANGED <<inVars, semInput, sem_input, queInput, outVars, stopVars,
                 fixed, reg, triggers, inSlot>>

DeviceEnd ==
  /\ busy
  /\ outSlot' = [outSlot EXCEPT ![DeviceSlot] =
                   IF inSlot[DeviceSlot] = computing THEN computing ELSE NoFrame]
  /\ reg' = reg + 1
  /\ triggers' = triggers - 1
  /\ busy' = FALSE
  /\ UNCHANGED <<inVars, semInput, sem_input, queInput, outVars, stopVars,
                 fixed, computing, inSlot>>

-----------------------------------------------------------------------------
InputThread ==
  AcquirePermit \/ PushInput \/ BeginCopy \/ EndCopy \/ StartCalc
    \/ ReleaseToken \/ CountInput

OutputThread ==
  OutTop \/ AcquireToken \/ Poll \/ PopInput \/ ReleasePermit
    \/ CallbackReturn \/ CountOutput

Destructor == DtorStop \/ DtorRelease \/ DtorJoin

Device == DeviceBegin \/ DeviceEnd

Next == InputThread \/ OutputThread \/ Stop \/ Destructor \/ Device

Spec == Init /\ [][Next]_vars

(* Threads and device keep running; nobody promises another frame, a stop  *)
(* or a destruction, but a started input() or destructor goes on.          *)
Fairness ==
  /\ WF_vars(InputThread /\ inPc # "idle")
  /\ WF_vars(OutputThread)
  /\ WF_vars(DtorRelease \/ DtorJoin)
  /\ WF_vars(Device)

FairSpec == Spec /\ Fairness

-----------------------------------------------------------------------------
(* Properties.                                                             *)

InPcs   == {"idle", "push", "copy", "copying", "start", "token", "count"}
OutPcs  == {"top", "acquire", "poll", "pop", "release", "callback", "count",
            "stopped", "exited"}
DtorPcs == {"alive", "release", "join", "crashed"}

TypeOK ==
  /\ inPc \in InPcs /\ taken \in Nat /\ inputIndex \in Nat
  /\ semInput \in 0 .. PERMITS /\ sem_input \in Nat
  /\ queInput \in Seq(Nat)
  /\ outPc \in OutPcs /\ outFrame \in Content /\ outputIndex \in Nat
  /\ readCount \in 0 .. MaxPoll /\ freed \in Nat
  /\ answer \in [frame : Content, result : Content]
  /\ isStop \in BOOLEAN /\ dtor \in DtorPcs
  /\ startIndex \in Nat /\ reg \in Nat
  /\ stale \in Nat /\ triggers \in Nat
  /\ busy \in BOOLEAN /\ computing \in Content
  /\ inSlot \in [Slots -> Content] /\ outSlot \in [Slots -> Content]

(* The callback reads device memory in place while the input thread and    *)
(* the device run on, its permit already given back.  The slot it reads    *)
(* must hold the result of exactly its frame for the whole call, provided  *)
(* no start command of an earlier process was left in the device.          *)
CallbackSlotStable ==
  stale = 0 /\ outPc = "callback"
    => /\ outSlot[SlotOf(outputIndex)] = outFrame
       /\ ~(busy /\ DeviceSlot = SlotOf(outputIndex))

(* The input thread never copies into the slot the device is reading.      *)
InputSlotExclusive ==
  stale = 0 /\ busy /\ inPc \in {"copying", "start"}
    => SlotOf(inputIndex) # DeviceSlot

(* The callback deletes in_data.  The input thread, which still reads it   *)
(* in write_size, must never find it deleted: sem_input is released only   *)
(* after the copy.                                                         *)
InDataAlive ==
  inPc \in {"push", "copy", "copying", "start"} => freed < taken

(* output_thread calls front() and pop() with no test for emptiness: when  *)
(* it gets there the queue is not empty, even with the destructor's extra  *)
(* token, and even when stale completions satisfied the poll.              *)
PopFindsFrame == outPc = "pop" => queInput # <<>>

(* Permits are conserved: those left and the frames that hold one (taken,  *)
(* and not yet past semInput.release()) add up to what initIndex put in.   *)
PermitsConserved ==
  LET released == IF outPc = "release" THEN outFrame ELSE outFrame + 1
  IN  semInput + taken - released = PERMITS

(* Every frame input() accepts is answered, unless the object is stopped   *)
(* or the device stays silent for MaxPoll polls and the process exits.     *)
EveryFrameAnswered ==
  \A f \in 0 .. MaxFrames - 1 :
    taken > f ~> (freed > f \/ isStop \/ Dead)

(* The destructor's join() always returns: its token wakes output_thread,  *)
(* which tests isStop before it polls.                                     *)
DestructorJoins == dtor = "release" ~> Dead

(* What the pipeline promises its caller: a bounded FIFO of frames, each   *)
(* answered once, in order, with its own result, when the device was idle  *)
(* at start (MaxStale = 0).                                                *)
Fifo == INSTANCE DetectFifo WITH
  Capacity <- PERMITS + 1,
  accepted <- taken,
  answered <- freed,
  last     <- answer

FifoSpec == Fifo!Spec

=============================================================================
