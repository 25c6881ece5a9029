---------------------------- MODULE RtcpReports ----------------------------
(***************************************************************************)
(* What the receiver reports to the camera, and the three threads that     *)
(* share it without a lock:                                                *)
(*                                                                         *)
(*   parser_thread       setSeq(), for every packet                        *)
(*   recv_report_thread  keeps LSR and SR_Time of the last sender report   *)
(*   send_report_thread  makes a receiver report of all four fields        *)
(*                                                                         *)
(* Sender reports are numbered as they are received; the number stands for *)
(* the middle of the camera's time stamp, which is what the code keeps.    *)
(***************************************************************************)
EXTENDS Integers

CONSTANTS
  SEQS,         \* sequence numbers and cycle counts (65536 in the code)
  SCALE, DELAYS,  \* DLSR counts SCALE a millisecond, modulo SCALE * DELAYS
  MaxArrivals, MaxReports, MaxTime   \* bounds

ASSUME ReportConstants ==
  /\ SEQS \in Nat /\ SEQS > 1 /\ SCALE \in Nat \ {0} /\ DELAYS \in Nat \ {0}
  /\ MaxArrivals \in Nat /\ MaxReports \in Nat /\ MaxTime \in Nat

VARIABLES
  SEQ, max, wrap_around_count,
  setting,       \* the sequence number setSeq() has stored, or NoSeq
  LSR, SR_Time,
  recvPc, sendPc,
  is_received,   \* send_report_thread's: the first report is made
  report,        \* the receiver report being made, then sent
  now,           \* the clock
  seqs, wraps,   \* history: numbers that arrived, arrivals of the last one
  arrivals, srOf, raced   \* history: arrivals; the report SR_Time is of;
                 \* whether a sender report came since LSR was read

seqVars    == <<SEQ, max, wrap_around_count, setting, seqs, wraps, arrivals>>
stampVars  == <<LSR, SR_Time, srOf, recvPc>>
reportVars == <<sendPc, is_received, report, raced>>
rtcpVars   == <<seqVars, stampVars, reportVars, now>>

NoSeq    == -1
NoReport == [seq |-> 0, cycles |-> 1, lsr |-> 0, sr |-> 0, clock |-> 0,
             since |-> 0, dlsr |-> 0, kind |-> "making"]

RtcpInit ==
  /\ SEQ = 0 /\ max = 0 /\ wrap_around_count = 1 /\ setting = NoSeq
  /\ LSR = 0 /\ SR_Time = 0 /\ srOf = 0
  /\ recvPc = "recv" /\ sendPc = "cycles" /\ report = NoReport
  /\ is_received = FALSE
  /\ now = 1
  /\ seqs = {} /\ wraps = 0 /\ arrivals = 0 /\ raced = FALSE

-----------------------------------------------------------------------------
(* setSeq: the number is first stored as it came, then raised to max.      *)
StoreSeq ==
  /\ setting = NoSeq /\ arrivals < MaxArrivals
  /\ \E seq \in 0..(SEQS - 1) :
       /\ SEQ' = seq /\ setting' = seq
       /\ seqs' = seqs \cup {seq}
       /\ wraps' = IF seq = SEQS - 1 THEN wraps + 1 ELSE wraps
  /\ arrivals' = arrivals + 1
  /\ UNCHANGED <<max, wrap_around_count, stampVars, reportVars, now>>

Larger(a, b) == IF a > b THEN a ELSE b

(* Mutant: max starts again from zero after the last number. *)
RaiseSeq_StartsOver ==
  /\ setting # NoSeq
  /\ IF setting = SEQS - 1
       THEN /\ wrap_around_count' = (wrap_around_count + 1) % SEQS
            /\ max' = 0
       ELSE /\ max' = Larger(SEQ, max)
            /\ UNCHANGED wrap_around_count
  /\ SEQ' = max' /\ setting' = NoSeq
  /\ UNCHANGED <<seqs, wraps, arrivals, stampVars, reportVars, now>>

(* Mutant: every number counts as a cycle once the last one is the highest. *)
RaiseSeq_CountsMore ==
  /\ setting # NoSeq
  /\ IF SEQS - 1 \in {setting, max}
       THEN wrap_around_count' = (wrap_around_count + 1) % SEQS
       ELSE UNCHANGED wrap_around_count
  /\ max' = Larger(SEQ, IF setting = SEQS - 1 THEN 0 ELSE max)
  /\ SEQ' = max' /\ setting' = NoSeq
  /\ UNCHANGED <<seqs, wraps, arrivals, stampVars, reportVars, now>>

RaiseSeq ==
  /\ setting # NoSeq
  /\ IF setting = SEQS - 1
       THEN wrap_around_count' = (wrap_around_count + 1) % SEQS
       ELSE UNCHANGED wrap_around_count
  /\ max' = Larger(SEQ, IF setting = SEQS - 1 THEN 0 ELSE max)
  /\ SEQ' = max' /\ setting' = NoSeq
  /\ UNCHANGED <<seqs, wraps, arrivals, stampVars, reportVars, now>>

-----------------------------------------------------------------------------
(* recv_report_thread: LSR first, then the time.                           *)
KeepLSR ==
  /\ recvPc = "recv" /\ LSR < MaxReports
  /\ LSR' = LSR + 1 /\ recvPc' = "stamp" /\ raced' = TRUE
  /\ UNCHANGED <<seqVars, SR_Time, srOf, sendPc, is_received, report, now>>

(* Mutant: only the first sender report is stamped. *)
StampSR_Once ==
  /\ recvPc = "stamp"
  /\ SR_Time' = IF SR_Time = 0 THEN now ELSE SR_Time
  /\ srOf' = IF SR_Time = 0 THEN LSR ELSE srOf
  /\ recvPc' = "recv" /\ raced' = TRUE
  /\ UNCHANGED <<seqVars, LSR, sendPc, is_received, report, now>>

StampSR ==
  /\ recvPc = "stamp"
  /\ SR_Time' = now /\ srOf' = LSR /\ recvPc' = "recv" /\ raced' = TRUE
  /\ UNCHANGED <<seqVars, LSR, sendPc, is_received, report, now>>

Tick ==
  /\ now < MaxTime /\ now' = now + 1
  /\ UNCHANGED <<seqVars, stampVars, reportVars>>

-----------------------------------------------------------------------------
(* send_report_thread.                                                     *)
ReadCycles ==
  /\ sendPc = "cycles"
  /\ report' = [NoReport EXCEPT !.cycles = wrap_around_count]
  /\ sendPc' = "seq"
  /\ UNCHANGED <<seqVars, stampVars, is_received, raced, now>>

(* Mutant: the number expected next is reported. *)
ReadSeq_Next ==
  /\ sendPc = "seq"
  /\ report' = [report EXCEPT !.seq = (SEQ + 1) % SEQS]
  /\ sendPc' = "stamps"
  /\ UNCHANGED <<seqVars, stampVars, is_received, raced, now>>

ReadSeq ==
  /\ sendPc = "seq"
  /\ report' = [report EXCEPT !.seq = SEQ]
  /\ sendPc' = "stamps"
  /\ UNCHANGED <<seqVars, stampVars, is_received, raced, now>>

(* The first report, and those made before any sender report came, leave   *)
(* LSR and DLSR zero; with the latter a GET_PARAMETER goes to the camera,  *)
(* whose refusal a FSERVO_CHECK does not let pass.                         *)
BareReport ==
  /\ sendPc = "stamps" /\ (is_received => SR_Time = 0)
  /\ is_received' = TRUE
  /\ report' = [report EXCEPT !.kind = IF is_received THEN "keepAlive" ELSE "first"]
  /\ sendPc' \in {"send"} \cup (IF is_received THEN {"aborted"} ELSE {})
  /\ UNCHANGED <<seqVars, stampVars, raced, now>>

(* SR_Time is looked at, then LSR, then the clock, then SR_Time again.     *)
FullReport ==
  /\ sendPc = "stamps" /\ is_received /\ SR_Time # 0
  /\ sendPc' = "lsr"
  /\ UNCHANGED <<seqVars, stampVars, is_received, report, raced, now>>

ReadLSR ==
  /\ sendPc = "lsr"
  /\ report' = [report EXCEPT !.lsr = LSR]
  /\ sendPc' = "clock" /\ raced' = (recvPc = "stamp")
  /\ UNCHANGED <<seqVars, stampVars, is_received, now>>

ReadClock ==
  /\ sendPc = "clock"
  /\ report' = [report EXCEPT !.clock = now]
  /\ sendPc' = "delay"
  /\ UNCHANGED <<seqVars, stampVars, is_received, raced, now>>

(* Mutant: the delay is counted from the clock of the moment it is made. *)
CountDelay_Signed ==
  /\ sendPc = "delay"
  /\ report' = [report EXCEPT
                  !.since = SR_Time, !.sr = srOf, !.kind = "full",
                  !.dlsr = ((now - SR_Time) * SCALE) % (SCALE * DELAYS)]
  /\ sendPc' = "send"
  /\ UNCHANGED <<seqVars, stampVars, is_received, raced, now>>

CountDelay ==
  /\ sendPc = "delay"
  /\ report' = [report EXCEPT
                  !.since = SR_Time, !.sr = srOf, !.kind = "full",
                  !.dlsr = ((report.clock - SR_Time) * SCALE)
                             % (SCALE * DELAYS)]
  /\ sendPc' = "send"
  /\ UNCHANGED <<seqVars, stampVars, is_received, raced, now>>

(* FSERVO_CHECK(res): a report the socket refuses ends the process.        *)
SendReport ==
  /\ sendPc = "send"
  /\ sendPc' \in {"cycles", "aborted"}
  /\ UNCHANGED <<seqVars, stampVars, is_received, report, raced, now>>

RtcpNext ==
  /\ sendPc # "aborted"
  /\ \/ StoreSeq \/ RaiseSeq
     \/ KeepLSR \/ StampSR \/ Tick
     \/ ReadCycles \/ ReadSeq \/ BareReport \/ FullReport
     \/ ReadLSR \/ ReadClock \/ CountDelay \/ SendReport

RtcpSpec == RtcpInit /\ [][RtcpNext]_rtcpVars

-----------------------------------------------------------------------------
RtcpTypeOK ==
  /\ SEQ \in 0..(SEQS - 1) /\ max \in 0..(SEQS - 1)
  /\ wrap_around_count \in 0..(SEQS - 1)
  /\ setting \in {NoSeq} \cup 0..(SEQS - 1)
  /\ seqs \in SUBSET (0..(SEQS - 1)) /\ wraps \in Nat /\ arrivals \in Nat
  /\ LSR \in Nat /\ SR_Time \in Nat /\ srOf \in Nat /\ now \in Nat \ {0}
  /\ recvPc \in {"recv", "stamp"}
  /\ sendPc \in {"cycles", "seq", "stamps", "lsr", "clock", "delay", "send",
                 "aborted"}
  /\ is_received \in BOOLEAN /\ raced \in BOOLEAN
  /\ report \in [seq : 0..(SEQS - 1), cycles : 0..(SEQS - 1), lsr : Nat,
                 sr : Nat, clock : Nat, since : Nat, dlsr : Nat,
                 kind : {"first", "keepAlive", "making", "full"}]

(* Between calls SEQ is the highest number that arrived; after the first   *)
(* wrap it stays the last number for ever, as setSeq resets max and at     *)
(* once raises it to the number that made it wrap (rtspDataManager.h:39).  *)
SeqIsHighest ==
  setting = NoSeq =>
    IF wraps = 0 THEN /\ \A s \in seqs : s <= SEQ
                      /\ SEQ \in seqs \/ (seqs = {} /\ SEQ = 0)
                 ELSE SEQ = SEQS - 1

(* The reported cycles count the arrivals of the last number, from one on: *)
(* a repetition counts again, a loss does not count.                       *)
CyclesCounted ==
  setting = NoSeq => wrap_around_count = (1 + wraps) % SEQS

(* Whatever moments of setSeq a report meets with its two reads, the       *)
(* number it carries is that of a packet that arrived, or zero before the  *)
(* first, and the cycles are a count of the wraps until some moment.       *)
ReportsWhatArrived ==
  /\ report.seq \in seqs \cup {0}
  /\ \E w \in 0..wraps : report.cycles = (1 + w) % SEQS

(* LSR and SR_Time are read apart: a report may pair the time of a later   *)
(* sender report with an earlier LSR, but LSR is at most one ahead.        *)
ReportPairs ==
  report.kind = "full" => report.lsr <= report.sr + 1

(* If no sender report came while a report was made, its LSR and DLSR are  *)
(* of the same sender report, and DLSR is the time since, if that fits.    *)
DelayCounted ==
  report.kind = "full" /\ ~raced =>
    /\ report.lsr = report.sr /\ report.clock >= report.since
    /\ report.clock - report.since < DELAYS =>
         report.dlsr = (report.clock - report.since) * SCALE

(* setSeq, the sender reports and the thread that makes receiver reports   *)
(* run without a lock (rtspDataManager.h:39, rtspDataManager.cpp): still a *)
(* report carries a number that arrived, the highest until the first wrap, *)
(* the wraps seen, and two times that belong together.                     *)
ReportsFaithful ==
  /\ SeqIsHighest
  /\ CyclesCounted
  /\ ReportsWhatArrived
  /\ ReportPairs
  /\ DelayCounted
=============================================================================
