---------------------------- MODULE RtspProofs -----------------------------
(***************************************************************************)
(* The two halves of RtspDataManager, and the MD5 sums one of them logs in *)
(* with.                                                                   *)
(*                                                                         *)
(*   RtcpReports  for every size of the counters, any number of packets    *)
(*                and reports: what the fields of a receiver report may    *)
(*                say, although three threads share them without a lock    *)
(*   RtspLogin    for every bound on cut reads, unasked messages and       *)
(*                nonces given up: main, the parser and the camera stay in *)
(*                step from OPTIONS to PLAY                                *)
(*   Digest       for every size of block, byte and count, and strings of  *)
(*                any length: the sums are MD5 sums, and of which text     *)
(***************************************************************************)
EXTENDS RtspLogin, RtcpReports, Digest, ModularArithmetic,
        SequenceTheorems, FunctionTheorems, FiniteSetTheorems, TLAPS

Numbers == 0 .. SEQS - 1

(* The arrivals of the last number that setSeq has dealt with.             *)
Dealt == IF setting = SEQS - 1 THEN wraps - 1 ELSE wraps

(* setSeq, also between the two steps of a call: SEQ holds the number that *)
(* came, max the highest of the others until the first wrap and the last   *)
(* number after it.                                                        *)
SetSeqInv ==
  /\ setting # NoSeq => setting \in seqs /\ SEQ = setting
  /\ setting = NoSeq => SEQ = max
  /\ setting = SEQS - 1 => wraps >= 1
  /\ max \in seqs \cup {0}
  /\ IF Dealt = 0 THEN \A s \in seqs : s <= max \/ s = setting
                  ELSE max = SEQS - 1
  /\ wrap_around_count = (1 + Dealt) % SEQS

(* recv_report_thread is at most one sender report ahead of its time.      *)
StampInv ==
  /\ LSR = IF recvPc = "stamp" THEN srOf + 1 ELSE srOf
  /\ SR_Time <= now

(* The report being made, and the one made last.                           *)
MakingInv ==
  /\ ReportsWhatArrived
  /\ sendPc \in {"seq", "stamps", "lsr", "clock", "delay"} => report.kind = "making"
  /\ sendPc \in {"clock", "delay"} =>
       /\ report.lsr <= LSR
       /\ ~raced => recvPc = "recv" /\ report.lsr = LSR
  /\ sendPc = "delay" /\ ~raced => report.clock >= SR_Time
  /\ ReportPairs /\ DelayCounted

IInv == RtcpTypeOK /\ SetSeqInv /\ StampInv /\ MakingInv

-----------------------------------------------------------------------------
(* DLSR is below its modulus while the delay fits.                         *)
LEMMA DelayFits ==
  ASSUME NEW d \in Nat
  PROVE  /\ (d * SCALE) % (SCALE * DELAYS) \in Nat
         /\ d < DELAYS => (d * SCALE) % (SCALE * DELAYS) = d * SCALE
<1>1. SCALE \in Nat \ {0} /\ DELAYS \in Nat \ {0}
  BY ReportConstants
<1> DEFINE n == SCALE * DELAYS
           a == d * SCALE
<1>2. n \in Nat \ {0}
  BY <1>1
<1>3. a \in Nat
  BY <1>1
<1>4. d < DELAYS => a \in 0 .. n - 1
  <2> SUFFICES ASSUME d < DELAYS PROVE a <= n - 1
    BY <1>2, <1>3
  <2>1. SCALE * (DELAYS - d) >= SCALE
    <3>1. DELAYS - d \in Nat \ {0}
      BY <1>1
    <3>. QED BY <1>1, <3>1
  <2>2. SCALE * (DELAYS - d) = n - a
    BY <1>1
  <2>. QED BY <1>1, <1>2, <1>3, <2>1, <2>2
<1> HIDE DEF n, a
<1>5. (a % n) \in 0 .. n - 1
  BY <1>2, <1>3, DivMod
<1>6. d < DELAYS => (a % n) = a
  BY <1>2, <1>4, ModSmall
<1>. QED BY <1>2, <1>3, <1>5, <1>6 DEF n, a

LEMMA DelayType ==
  ASSUME NEW d \in Int
  PROVE  (d * SCALE) % (SCALE * DELAYS) \in Nat
<1>1. SCALE \in Nat \ {0} /\ DELAYS \in Nat \ {0}
  BY ReportConstants
<1> DEFINE n == SCALE * DELAYS
           a == d * SCALE
<1>2. n \in Nat \ {0} /\ a \in Int
  BY <1>1
<1> HIDE DEF n, a
<1>3. (a % n) \in 0 .. n - 1
  BY <1>2, DivMod
<1>. QED BY <1>2, <1>3 DEF n, a

(* Counting one more in 16 bits.                                           *)
LEMMA OneMore ==
  ASSUME NEW k \in Nat
  PROVE  /\ ((1 + k) % SEQS) \in Numbers
         /\ (((1 + k) % SEQS) + 1) % SEQS = (1 + (k + 1)) % SEQS
<1> DEFINE n == SEQS
<1>1. n \in Nat \ {0} /\ 1 \in 0 .. n - 1
  BY ReportConstants
<1> HIDE DEF n
<1>2. ((1 + k) % n) \in 0 .. n - 1
  BY <1>1, DivMod
<1>3. (1 % n) = 1
  BY <1>1, ModSmall
<1>4. (((1 + k) % n) + (1 % n)) % n = ((1 + k) + 1) % n
  <2> DEFINE a == 1 + k
             b == 1
  <2>1. a \in Int /\ b \in Int
    OBVIOUS
  <2> HIDE DEF a, b
  <2>2. ((a % n) + (b % n)) % n = (a + b) % n
    BY <1>1, <2>1, ModAdd
  <2>. QED BY <2>2 DEF a, b
<1>5. (1 + k) + 1 = 1 + (k + 1)
  OBVIOUS
<1>. QED BY <1>2, <1>3, <1>4, <1>5 DEF n, Numbers

-----------------------------------------------------------------------------
LEMMA InitIInv == RtcpInit => IInv
<1> SUFFICES ASSUME RtcpInit PROVE IInv
  OBVIOUS
<1> USE ReportConstants DEF RtcpInit, NoReport, NoSeq
<1>1. RtcpTypeOK
  <2>1. report \in [seq : Numbers, cycles : Numbers, lsr : Nat, sr : Nat,
                    clock : Nat, since : Nat, dlsr : Nat,
                    kind : {"first", "keepAlive", "making", "full"}]
    BY DEF Numbers
  <2>2. SEQ \in Numbers /\ wrap_around_count \in Numbers
    BY DEF Numbers
  <2>3. /\ max \in Numbers /\ setting \in {NoSeq} \cup Numbers
        /\ seqs \in SUBSET Numbers
    BY DEF Numbers
  <2>4. /\ wraps \in Nat /\ arrivals \in Nat /\ LSR \in Nat
        /\ SR_Time \in Nat /\ srOf \in Nat /\ now \in Nat \ {0}
    OBVIOUS
  <2>5. /\ recvPc \in {"recv", "stamp"} /\ raced \in BOOLEAN
        /\ is_received \in BOOLEAN
        /\ sendPc \in {"cycles", "seq", "stamps", "lsr", "clock", "delay", "send",
                       "aborted"}
    BY Zenon
  <2>. QED BY ONLY <2>1, <2>2, <2>3, <2>4, <2>5 DEF RtcpTypeOK, Numbers
<1>2. SetSeqInv
  <2>1. Dealt = 0
    BY DEF Dealt
  <2>2. 1 % SEQS = 1
    <3>1. SEQS \in Nat \ {0} /\ 1 \in 0 .. SEQS - 1
      OBVIOUS
    <3>. QED BY ONLY <3>1, ModSmall
  <2>3. (1 + Dealt) % SEQS = 1
    BY <2>1, <2>2
  <2>. QED BY <2>1, <2>3 DEF SetSeqInv
<1>3. ReportsWhatArrived
  <2>1. /\ SEQS \in Nat \ {0} /\ 1 \in 0 .. SEQS - 1 /\ 0 \in 0 .. wraps
        /\ report.seq = 0 /\ report.cycles = 1
    OBVIOUS
  <2>2. 1 % SEQS = 1
    BY ONLY <2>1, ModSmall
  <2>3. report.cycles = (1 + 0) % SEQS
    BY <2>1, <2>2
  <2>. QED BY <2>1, <2>3 DEF ReportsWhatArrived
<1>4. StampInv /\ MakingInv
  BY <1>3 DEF StampInv, MakingInv, ReportPairs, DelayCounted
<1>. QED BY <1>1, <1>2, <1>4 DEF IInv

(* What arrived stays.                                                     *)
LEMMA ArrivedStays ==
  ASSUME IInv, UNCHANGED report, seqs \subseteq seqs', wraps' \in Nat, wraps <= wraps'
  PROVE  ReportsWhatArrived'
<1>1. report.seq \in seqs \cup {0} /\ wraps \in Nat
  BY DEF IInv, RtcpTypeOK, MakingInv, ReportsWhatArrived
<1>2. PICK w \in 0 .. wraps : report.cycles = (1 + w) % SEQS
  BY DEF IInv, MakingInv, ReportsWhatArrived
<1>3. w \in 0 .. wraps'
  BY <1>1
<1>. QED BY <1>1, <1>2, <1>3 DEF ReportsWhatArrived

(* setSeq's steps leave the stamps and the report alone.                   *)
LEMMA SetSeqLocal ==
  ASSUME IInv, UNCHANGED <<stampVars, reportVars, now>>, seqs \subseteq seqs',
         wraps' \in Nat, wraps <= wraps'
  PROVE  StampInv' /\ MakingInv'
<1>1. ReportsWhatArrived'
  BY ArrivedStays DEF reportVars
<1>. QED BY <1>1 DEF IInv, StampInv, MakingInv, ReportPairs, DelayCounted,
                     stampVars, reportVars

LEMMA StoreSeqInv == ASSUME IInv, StoreSeq PROVE IInv'
<1> PICK seq \in Numbers :
       /\ SEQ' = seq /\ setting' = seq /\ seqs' = seqs \cup {seq}
       /\ wraps' = IF seq = SEQS - 1 THEN wraps + 1 ELSE wraps
  BY DEF StoreSeq, Numbers
<1>1. /\ setting = NoSeq /\ arrivals' = arrivals + 1
      /\ UNCHANGED <<max, wrap_around_count, stampVars, reportVars, now>>
  BY DEF StoreSeq
<1>2. RtcpTypeOK'
  BY <1>1 DEF IInv, RtcpTypeOK, Numbers, stampVars, reportVars
<1>3. Dealt' = Dealt
  <2>1. setting # SEQS - 1 /\ wraps \in Nat
    BY <1>1, ReportConstants DEF IInv, RtcpTypeOK, NoSeq
  <2>. QED BY <2>1 DEF Dealt
<1>4. SetSeqInv'
  <2>1. SetSeqInv /\ wraps \in Nat
    BY DEF IInv, RtcpTypeOK
  <2>2. seq # NoSeq
    BY ReportConstants DEF NoSeq, Numbers
  <2>3. IF Dealt' = 0 THEN \A s \in seqs' : s <= max' \/ s = setting'
                      ELSE max' = SEQS - 1
    <3>1. \A s \in seqs : s # NoSeq
      BY ReportConstants DEF IInv, RtcpTypeOK, NoSeq
    <3>. QED BY <1>1, <1>3, <2>1, <3>1 DEF SetSeqInv
  <2>4. wrap_around_count' = (1 + Dealt') % SEQS
    BY <1>1, <1>3, <2>1 DEF SetSeqInv
  <2>. QED BY <1>1, <2>1, <2>2, <2>3, <2>4 DEF SetSeqInv
<1>5. StampInv' /\ MakingInv'
  <2>1. wraps' \in Nat /\ wraps <= wraps'
    BY DEF IInv, RtcpTypeOK
  <2>. QED BY <1>1, <2>1, SetSeqLocal
<1>. QED BY <1>2, <1>4, <1>5 DEF IInv

LEMMA RaiseSeqInv == ASSUME IInv, RaiseSeq PROVE IInv'
<1>1. /\ setting \in Numbers /\ SEQ = setting /\ setting' = NoSeq
      /\ SEQ' = max' /\ max' \in Numbers
      /\ UNCHANGED <<seqs, wraps, arrivals, stampVars, reportVars, now>>
  BY DEF IInv, RtcpTypeOK, SetSeqInv, RaiseSeq, Larger, Numbers, NoSeq
<1>2. wraps \in Nat /\ Dealt' = wraps /\ Dealt \in Nat
  BY <1>1, ReportConstants DEF IInv, RtcpTypeOK, SetSeqInv, Dealt, NoSeq
<1>3. wrap_around_count' = (1 + Dealt') % SEQS
  <2>1. CASE setting = SEQS - 1
    <3>1. Dealt + 1 = wraps
      BY <1>2, <2>1 DEF Dealt
    <3>2. wrap_around_count' = (((1 + Dealt) % SEQS) + 1) % SEQS
      BY <2>1 DEF RaiseSeq, IInv, SetSeqInv
    <3>3. (((1 + Dealt) % SEQS) + 1) % SEQS = (1 + (Dealt + 1)) % SEQS
      BY <1>2, OneMore
    <3>. QED BY <1>2, <3>1, <3>2, <3>3
  <2>2. CASE setting # SEQS - 1
    BY <1>2, <2>2 DEF RaiseSeq, IInv, SetSeqInv, Dealt
  <2>. QED BY <2>1, <2>2
<1>4. wrap_around_count' \in Numbers
  BY <1>2, <1>3, OneMore
<1>5. RtcpTypeOK'
  BY <1>1, <1>4 DEF IInv, RtcpTypeOK, Numbers, stampVars, reportVars
<1>6. max' \in seqs' \cup {0}
  BY <1>1 DEF RaiseSeq, Larger, IInv, SetSeqInv, NoSeq
<1>7. IF Dealt' = 0 THEN \A s \in seqs' : s <= max' \/ s = setting'
                    ELSE max' = SEQS - 1
  <2>1. CASE setting = SEQS - 1
    <3>1. max' = SEQS - 1
      BY <1>1, <2>1, ReportConstants DEF RaiseSeq, Larger
    <3>2. wraps >= 1
      BY <2>1 DEF IInv, SetSeqInv
    <3>. QED BY <1>2, <3>1, <3>2
  <2>2. CASE setting # SEQS - 1
    <3>1. Dealt = wraps /\ max' = Larger(setting, max)
      BY <1>1, <2>2 DEF Dealt, RaiseSeq
    <3>2. max \in Numbers /\ seqs \subseteq Numbers
      BY DEF IInv, RtcpTypeOK, Numbers
    <3>3. CASE wraps = 0
      BY <1>1, <1>2, <3>1, <3>2, <3>3, ReportConstants
         DEF IInv, SetSeqInv, Larger, Numbers
    <3>4. CASE wraps # 0
      BY <1>1, <1>2, <3>1, <3>2, <3>4, ReportConstants
         DEF IInv, SetSeqInv, Larger, Numbers
    <3>. QED BY <3>3, <3>4
  <2>. QED BY <2>1, <2>2
<1>8. SetSeqInv'
  BY <1>1, <1>3, <1>6, <1>7, ReportConstants DEF SetSeqInv, NoSeq
<1>9. StampInv' /\ MakingInv'
  <2>1. seqs \subseteq seqs' /\ wraps' \in Nat /\ wraps <= wraps'
    BY <1>1, <1>2
  <2>. QED BY <1>1, <2>1, SetSeqLocal
<1>. QED BY <1>5, <1>8, <1>9 DEF IInv

(* The other threads' steps leave setSeq's variables alone.                *)
LEMMA SeqVarsStay == ASSUME IInv, UNCHANGED seqVars PROVE SetSeqInv'
BY DEF IInv, SetSeqInv, Dealt, seqVars

LEMMA RecvInv == ASSUME IInv, KeepLSR \/ StampSR \/ Tick PROVE IInv'
<1>1. SetSeqInv'
  BY SeqVarsStay DEF KeepLSR, StampSR, Tick
<1>0. ReportsWhatArrived'
  <2>1. UNCHANGED <<report, seqs, wraps>>
    BY DEF KeepLSR, StampSR, Tick, seqVars, reportVars
  <2>. QED BY <2>1, ArrivedStays DEF IInv, RtcpTypeOK
<1>2. CASE KeepLSR
  <2>1. RtcpTypeOK'
    BY <1>2 DEF KeepLSR, IInv, RtcpTypeOK, seqVars
  <2>2. StampInv'
    BY <1>2 DEF KeepLSR, IInv, RtcpTypeOK, StampInv
  <2>3. MakingInv'
    BY <1>0, <1>2 DEF KeepLSR, IInv, RtcpTypeOK, StampInv, MakingInv, ReportPairs,
                      DelayCounted, seqVars
  <2>. QED BY <1>1, <2>1, <2>2, <2>3 DEF IInv
<1>3. CASE StampSR
  <2>1. RtcpTypeOK'
    BY <1>3 DEF StampSR, IInv, RtcpTypeOK, seqVars
  <2>2. StampInv'
    BY <1>3 DEF StampSR, IInv, RtcpTypeOK, StampInv
  <2>3. MakingInv'
    BY <1>0, <1>3 DEF StampSR, IInv, RtcpTypeOK, StampInv, MakingInv, ReportPairs,
                      DelayCounted, seqVars
  <2>. QED BY <1>1, <2>1, <2>2, <2>3 DEF IInv
<1>4. CASE Tick
  <2>1. RtcpTypeOK'
    BY <1>4 DEF Tick, IInv, RtcpTypeOK, seqVars, stampVars, reportVars
  <2>2. StampInv'
    BY <1>4 DEF Tick, IInv, RtcpTypeOK, StampInv, stampVars
  <2>3. MakingInv'
    BY <1>0, <1>4 DEF Tick, IInv, MakingInv, ReportPairs, DelayCounted, seqVars,
                      stampVars, reportVars
  <2>. QED BY <1>1, <2>1, <2>2, <2>3 DEF IInv
<1>. QED BY <1>2, <1>3, <1>4

(* What the report's fields are; a value for each is a value of report.    *)
Fields == [seq : Numbers, cycles : Numbers, lsr : Nat, sr : Nat, clock : Nat,
           since : Nat, dlsr : Nat, kind : {"first", "keepAlive", "making", "full"}]
SendPcs == {"cycles", "seq", "stamps", "lsr", "clock", "delay", "send", "aborted"}

LEMMA ReporterTyped ==
  ASSUME IInv, UNCHANGED <<seqVars, stampVars, now>>, report' \in Fields,
         sendPc' \in SendPcs, is_received' \in BOOLEAN, raced' \in BOOLEAN
  PROVE  RtcpTypeOK'
BY DEF IInv, RtcpTypeOK, Fields, SendPcs, Numbers, seqVars, stampVars

(* The report begins with the cycles, then the number, of some moments.    *)
LEMMA ReadCyclesInv ==
  ASSUME IInv, ReadCycles
  PROVE  RtcpTypeOK' /\ MakingInv'
<1>1. /\ report' = [NoReport EXCEPT !.cycles = wrap_around_count] /\ sendPc' = "seq"
      /\ UNCHANGED <<seqVars, stampVars, is_received, raced, now>>
  BY DEF ReadCycles
<1>2. /\ report' \in Fields /\ report'.seq = 0 /\ report'.cycles = wrap_around_count
      /\ report'.kind = "making"
  BY <1>1, ReportConstants DEF IInv, RtcpTypeOK, NoReport, Fields, Numbers
<1>3. RtcpTypeOK'
  <2>1. sendPc' \in SendPcs /\ is_received' \in BOOLEAN /\ raced' \in BOOLEAN
    BY <1>1, Zenon DEF IInv, RtcpTypeOK, SendPcs
  <2>. QED BY <1>1, <1>2, <2>1, ReporterTyped
<1>4. ReportsWhatArrived'
  <2>1. Dealt \in 0 .. wraps /\ wrap_around_count = (1 + Dealt) % SEQS
    BY DEF IInv, RtcpTypeOK, SetSeqInv, Dealt
  <2>2. \E w \in 0 .. wraps : report'.cycles = (1 + w) % SEQS
    BY <1>2, <2>1
  <2>. QED BY <1>1, <1>2, <2>2 DEF ReportsWhatArrived, seqVars
<1>5. MakingInv'
  BY <1>1, <1>2, <1>4 DEF MakingInv, ReportPairs, DelayCounted
<1>. QED BY <1>3, <1>5

LEMMA ReadSeqInv ==
  ASSUME IInv, ReadSeq
  PROVE  RtcpTypeOK' /\ MakingInv'
<1>1. /\ report' = [report EXCEPT !.seq = SEQ] /\ sendPc = "seq" /\ sendPc' = "stamps"
      /\ UNCHANGED <<seqVars, stampVars, is_received, raced, now>>
  BY DEF ReadSeq
<1>2. /\ report' \in Fields /\ report'.seq = SEQ /\ report'.cycles = report.cycles
      /\ report'.kind = "making"
  BY <1>1 DEF IInv, RtcpTypeOK, MakingInv, Fields, Numbers
<1>3. RtcpTypeOK'
  <2>1. sendPc' \in SendPcs /\ is_received' \in BOOLEAN /\ raced' \in BOOLEAN
    BY <1>1, Zenon DEF IInv, RtcpTypeOK, SendPcs
  <2>. QED BY <1>1, <1>2, <2>1, ReporterTyped
<1>4. ReportsWhatArrived'
  <2>1. SEQ \in seqs \cup {0}
    BY DEF IInv, SetSeqInv
  <2>2. \E w \in 0 .. wraps : report'.cycles = (1 + w) % SEQS
    BY <1>2 DEF IInv, MakingInv, ReportsWhatArrived
  <2>. QED BY <1>1, <1>2, <2>1, <2>2 DEF ReportsWhatArrived, seqVars
<1>5. MakingInv'
  BY <1>1, <1>2, <1>4 DEF MakingInv, ReportPairs, DelayCounted
<1>. QED BY <1>3, <1>5

(* The steps that leave the number and the cycles as they are.             *)
LEMMA ArrivedKept ==
  ASSUME IInv, UNCHANGED seqVars, report'.seq = report.seq,
         report'.cycles = report.cycles
  PROVE  ReportsWhatArrived'
BY DEF IInv, MakingInv, ReportsWhatArrived, seqVars

LEMMA BareReportInv ==
  ASSUME IInv, BareReport
  PROVE  RtcpTypeOK' /\ MakingInv'
<1>1. /\ sendPc = "stamps" /\ UNCHANGED <<seqVars, stampVars, raced, now>>
      /\ \E k \in {"first", "keepAlive"} : report' = [report EXCEPT !.kind = k]
  BY DEF BareReport
<1>2. is_received' = TRUE /\ sendPc' \in {"send", "aborted"}
  BY DEF BareReport
<1>3. /\ report' \in Fields /\ report'.seq = report.seq /\ report'.cycles = report.cycles
      /\ report'.kind \in {"first", "keepAlive"}
  BY <1>1 DEF IInv, RtcpTypeOK, Fields, Numbers
<1>4. RtcpTypeOK'
  <2>1. sendPc' \in SendPcs
    BY <1>2 DEF SendPcs
  <2>2. is_received' \in BOOLEAN /\ raced' \in BOOLEAN
    BY <1>1, <1>2, Zenon DEF IInv, RtcpTypeOK
  <2>. QED BY <1>1, <1>3, <2>1, <2>2, ReporterTyped
<1>5. MakingInv'
  BY <1>1, <1>2, <1>3, ArrivedKept DEF MakingInv, ReportPairs, DelayCounted
<1>. QED BY <1>4, <1>5

LEMMA FullReportInv ==
  ASSUME IInv, FullReport \/ SendReport
  PROVE  RtcpTypeOK' /\ MakingInv'
<1>1. /\ UNCHANGED <<seqVars, stampVars, is_received, report, raced, now>>
      /\ \/ sendPc = "stamps" /\ sendPc' = "lsr"
         \/ sendPc = "send" /\ sendPc' \in {"cycles", "aborted"}
  BY DEF FullReport, SendReport
<1>2. RtcpTypeOK'
  <2>1. sendPc' \in SendPcs
    BY <1>1 DEF SendPcs
  <2>2. is_received' \in BOOLEAN /\ raced' \in BOOLEAN
    BY <1>1, Zenon DEF IInv, RtcpTypeOK
  <2>3. report' \in Fields
    BY <1>1 DEF IInv, RtcpTypeOK, Fields, Numbers
  <2>. QED BY <1>1, <2>1, <2>2, <2>3, ReporterTyped
<1>3. MakingInv'
  BY <1>1, ArrivedKept DEF IInv, MakingInv, ReportPairs, DelayCounted
<1>. QED BY <1>2, <1>3

LEMMA ReadLSRInv ==
  ASSUME IInv, ReadLSR
  PROVE  RtcpTypeOK' /\ MakingInv'
<1>1. /\ report' = [report EXCEPT !.lsr = LSR]
      /\ sendPc = "lsr" /\ sendPc' = "clock" /\ raced' = (recvPc = "stamp")
      /\ UNCHANGED <<seqVars, stampVars, is_received, now>>
  BY DEF ReadLSR
<1>2. LSR' = LSR /\ LSR \in Nat /\ recvPc' = recvPc
  BY <1>1 DEF IInv, RtcpTypeOK, stampVars
<1>3. /\ report' \in Fields /\ report'.seq = report.seq /\ report'.cycles = report.cycles
      /\ report'.lsr = LSR /\ report'.kind = "making"
  BY <1>1, <1>2 DEF IInv, RtcpTypeOK, MakingInv, Fields, Numbers
<1>4. RtcpTypeOK'
  <2>1. sendPc' \in SendPcs /\ is_received' \in BOOLEAN /\ raced' \in BOOLEAN
    BY <1>1, Zenon DEF IInv, RtcpTypeOK, SendPcs
  <2>. QED BY <1>1, <1>3, <2>1, ReporterTyped
<1>5. ~raced' => recvPc' = "recv"
  BY <1>1, <1>2 DEF IInv, RtcpTypeOK
<1>6. MakingInv'
  BY <1>1, <1>2, <1>3, <1>5, ArrivedKept DEF MakingInv, ReportPairs, DelayCounted
<1>. QED BY <1>4, <1>6

LEMMA ReadClockInv ==
  ASSUME IInv, ReadClock
  PROVE  RtcpTypeOK' /\ MakingInv'
<1>1. /\ sendPc = "clock" /\ sendPc' = "delay" /\ report' = [report EXCEPT !.clock = now]
      /\ UNCHANGED <<seqVars, stampVars, is_received, raced, now>>
  BY DEF ReadClock
<1>2. /\ report' \in Fields /\ report'.clock = now /\ report'.lsr = report.lsr
      /\ report'.seq = report.seq /\ report'.cycles = report.cycles
      /\ report'.kind = "making"
  BY <1>1 DEF IInv, RtcpTypeOK, MakingInv, Fields, Numbers
<1>3. RtcpTypeOK'
  <2>1. sendPc' \in SendPcs /\ is_received' \in BOOLEAN /\ raced' \in BOOLEAN
    BY <1>1, Zenon DEF IInv, RtcpTypeOK, SendPcs
  <2>. QED BY <1>1, <1>2, <2>1, ReporterTyped
<1>4. /\ report.lsr <= LSR /\ (~raced => recvPc = "recv" /\ report.lsr = LSR)
      /\ SR_Time <= now
  BY <1>1 DEF IInv, MakingInv, StampInv
<1>5. UNCHANGED <<LSR, SR_Time, recvPc, raced>>
  BY <1>1 DEF stampVars
<1>6. ReportsWhatArrived'
  BY <1>1, <1>2, ArrivedKept
<1>7. MakingInv'
  BY <1>1, <1>2, <1>4, <1>5, <1>6 DEF MakingInv, ReportPairs, DelayCounted
<1>. QED BY <1>3, <1>7

LEMMA CountDelayInv ==
  ASSUME IInv, CountDelay
  PROVE  RtcpTypeOK' /\ MakingInv'
<1> DEFINE d == report.clock - SR_Time
           v == (d * SCALE) % (SCALE * DELAYS)
<1>1. d \in Int
  BY DEF IInv, RtcpTypeOK
<1>2. v \in Nat
  BY <1>1, DelayType
<1>3. /\ report' = [report EXCEPT !.since = SR_Time, !.sr = srOf,
                                  !.kind = "full", !.dlsr = v]
      /\ sendPc' = "send" /\ sendPc = "delay"
      /\ UNCHANGED <<seqVars, stampVars, is_received, raced, now>>
  BY DEF CountDelay
<1>4. d \in Nat /\ d < DELAYS => v = d * SCALE
  BY DelayFits
<1> HIDE DEF v
<1>5. /\ report' \in Fields
      /\ report'.clock = report.clock /\ report'.since = SR_Time
      /\ report'.sr = srOf /\ report'.lsr = report.lsr /\ report'.dlsr = v
      /\ report'.seq = report.seq /\ report'.cycles = report.cycles
  BY <1>2, <1>3 DEF IInv, RtcpTypeOK, Fields, Numbers
<1>6. RtcpTypeOK'
  <2>1. sendPc' \in SendPcs /\ is_received' \in BOOLEAN /\ raced' \in BOOLEAN
    BY <1>3, Zenon DEF IInv, RtcpTypeOK, SendPcs
  <2>. QED BY <1>3, <1>5, <2>1, ReporterTyped
<1>7. ReportPairs'
  BY <1>3, <1>5 DEF IInv, RtcpTypeOK, StampInv, MakingInv, ReportPairs
<1>8. DelayCounted'
  <2> SUFFICES ASSUME ~raced
               PROVE /\ report.lsr = srOf /\ report.clock >= SR_Time
                     /\ d < DELAYS => v = d * SCALE
    BY <1>3, <1>5 DEF DelayCounted
  <2>1. report.lsr = srOf /\ report.clock >= SR_Time
    BY <1>3 DEF IInv, StampInv, MakingInv
  <2>2. d \in Nat
    BY <1>1, <2>1 DEF IInv, RtcpTypeOK
  <2>. QED BY <1>4, <2>1, <2>2
<1>9. MakingInv'
  BY <1>3, <1>5, <1>7, <1>8, ArrivedKept DEF MakingInv
<1>. QED BY <1>6, <1>9

Reporting ==
  \/ ReadCycles \/ ReadSeq \/ BareReport \/ FullReport
  \/ ReadLSR \/ ReadClock \/ CountDelay \/ SendReport

LEMMA SendInv == ASSUME IInv, Reporting PROVE IInv'
<1>1. UNCHANGED <<seqVars, stampVars, now>>
  BY DEF Reporting, ReadCycles, ReadSeq, BareReport, FullReport, ReadLSR, ReadClock,
         CountDelay, SendReport
<1>2. SetSeqInv' /\ StampInv'
  BY <1>1, SeqVarsStay DEF IInv, StampInv, stampVars
<1>3. RtcpTypeOK' /\ MakingInv'
  BY ReadCyclesInv, ReadSeqInv, BareReportInv, FullReportInv, ReadLSRInv, ReadClockInv,
     CountDelayInv DEF Reporting
<1>. QED BY <1>2, <1>3 DEF IInv

LEMMA NextIInv == IInv /\ [RtcpNext]_rtcpVars => IInv'
<1> SUFFICES ASSUME IInv, [RtcpNext]_rtcpVars PROVE IInv'
  OBVIOUS
<1>1. CASE UNCHANGED rtcpVars
  BY <1>1 DEF rtcpVars, seqVars, stampVars, reportVars, IInv, RtcpTypeOK,
              SetSeqInv, Dealt, StampInv, MakingInv, ReportsWhatArrived, ReportPairs,
              DelayCounted
<1>2. CASE RtcpNext
  BY <1>2, StoreSeqInv, RaiseSeqInv, RecvInv, SendInv DEF RtcpNext, Reporting
<1>. QED BY <1>1, <1>2

LEMMA Inductive == RtcpSpec => []IInv
BY InitIInv, NextIInv, PTL DEF RtcpSpec

(* The variables of the three threads keep their types.                    *)
THEOREM TypeCorrect == RtcpSpec => []RtcpTypeOK
<1>1. IInv => RtcpTypeOK
  BY DEF IInv
<1>. QED BY <1>1, Inductive, PTL

(* Between calls of setSeq the number to report is the highest that        *)
(* arrived until the first wrap, and the last number for ever after it.    *)
THEOREM HighestOrLast == RtcpSpec => []SeqIsHighest
<1>1. IInv => SeqIsHighest
  <2> SUFFICES ASSUME IInv, setting = NoSeq
               PROVE IF wraps = 0
                     THEN /\ \A s \in seqs : s <= SEQ
                          /\ SEQ \in seqs \/ (seqs = {} /\ SEQ = 0)
                     ELSE SEQ = SEQS - 1
    BY DEF SeqIsHighest
  <2>1. Dealt = wraps /\ SEQ = max /\ max \in seqs \cup {0}
    BY ReportConstants DEF IInv, SetSeqInv, Dealt, NoSeq
  <2>2. \A s \in seqs : s \in Nat /\ s # NoSeq
    BY ReportConstants DEF IInv, RtcpTypeOK, NoSeq
  <2>3. ASSUME wraps = 0
        PROVE /\ \A s \in seqs : s <= SEQ
              /\ SEQ \in seqs \/ (seqs = {} /\ SEQ = 0)
    <3>1. \A s \in seqs : s <= SEQ
      BY <2>1, <2>2, <2>3 DEF IInv, SetSeqInv
    <3>2. ASSUME SEQ \notin seqs PROVE seqs = {} /\ SEQ = 0
      <4>1. SEQ = 0
        BY <2>1, <3>2
      <4>2. \A s \in seqs : s = 0
        BY <2>2, <3>1, <4>1
      <4>. QED BY <3>2, <4>1, <4>2
    <3>. QED BY <3>1, <3>2
  <2>. QED BY <2>1, <2>3 DEF IInv, SetSeqInv
<1>. QED BY <1>1, Inductive, PTL

(* The reported cycles count the arrivals of the last number, modulo the   *)
(* width of the counter.                                                   *)
THEOREM Cycles == RtcpSpec => []CyclesCounted
<1>1. IInv => CyclesCounted
  BY ReportConstants DEF IInv, SetSeqInv, CyclesCounted, Dealt, NoSeq
<1>. QED BY <1>1, Inductive, PTL

(* A report carries the number of a packet that arrived and a count of the *)
(* wraps, each of some moment, and its LSR is at most one sender report    *)
(* ahead of the time it is paired with; without a sender report in between *)
(* the pair matches and DLSR is the delay.                                 *)
THEOREM ReportsTrue == RtcpSpec => []ReportsFaithful
<1>1. IInv => ReportsWhatArrived /\ ReportPairs /\ DelayCounted
  BY DEF IInv, MakingInv
<1>2. SeqIsHighest /\ CyclesCounted /\ ReportsWhatArrived /\ ReportPairs
        /\ DelayCounted => ReportsFaithful
  BY DEF ReportsFaithful
<1>. QED BY <1>1, <1>2, HighestOrLast, Cycles, Inductive, PTL

-----------------------------------------------------------------------------
(* The login: what is known of every state.                                *)

Texts == {"ok", "Public", "Unauthorized", "nonce", "v=", "track", "H264", "H265",
          "Session", "server_port"}
Word  == [word : Texts, nonce : Nat, last : BOOLEAN, ends : {0, 1}]

Methods == {"OPTIONS", "DESCRIBE", "SETUP", "PLAY"}
Protects(method) == method \in camera.protects

(* A camera that protects a request protects the later ones.               *)
CameraTypes ==
  /\ camera \in [protects : SUBSET Methods, swap : BOOLEAN, codec : {"H264", "H265"},
                 nonce : Nat \ {0}, streams : BOOLEAN, on : BOOLEAN]
  /\ \E k \in 1 .. 7 : camera.protects = {Method[i] : i \in k .. 6}

LoginTypes ==
  /\ sem_tcpmsg \in Nat /\ taken \in Nat /\ answered \in Nat
  /\ mainPc \in {"send", "wait", "ports", "done"} \X DOMAIN Method
  /\ mainPc[1] \in {"ports", "done"} => mainPc[2] = 6
  /\ tcpPc \in {"read", "parse", "nonce", "post"}
  /\ upset \in [Upsets -> Nat]
  /\ wire \in Seq(Word) /\ got \in Seq(Word)
  /\ NONECE \in Nat /\ CameraTypes

(* Each post is for an answer that came, a read cut short, or a message    *)
(* sent unasked; those still on the wire have no post yet.                 *)
UnaskedIn(s) == {i \in DOMAIN s : s[i].last /\ s[i].ends = 0}
EndedIn(s)   == {i \in DOMAIN s : s[i].ends = 1}
PostsInv ==
  /\ taken + sem_tcpmsg + (IF tcpPc = "read" THEN 0 ELSE 1) + Cardinality(UnaskedIn(wire))
       <= answered + Cardinality(EndedIn(got)) + upset["cut"] + upset["unasked"]
  /\ tcpPc = "read" => got = <<>>
PostsKept == taken + sem_tcpmsg <= answered + upset["cut"] + upset["unasked"]

(* Before any read was cut a description is read whole, its codec with it. *)
Described(s, i) ==
  /\ i + 2 \in DOMAIN s /\ ~s[i].last /\ ~s[i + 1].last
  /\ \E j \in {i + 1, i + 2} : s[j].word = camera.codec
CodecInv ==
  /\ \A i \in DOMAIN wire : wire[i].word \in {"H264", "H265"} => wire[i].word = camera.codec
  /\ \A i \in DOMAIN got : got[i].word \in {"H264", "H265"} => got[i].word = camera.codec
  /\ upset["cut"] = 0 =>
       /\ \A i \in DOMAIN wire : wire[i].word = "v=" => Described(wire, i)
       /\ tcpPc = "parse" /\ "v=" \in Words => camera.codec \in Words
       /\ TRACK => TYPE = camera.codec
       /\ mainPc[2] = 6 => codecType = camera.codec
  /\ (mainPc = <<"wait", 5>> \/ mainPc[2] = 6) => TRACK

-----------------------------------------------------------------------------
(* The login nothing goes wrong with.                                      *)

Smooth == Never(Upsets) /\ camera.on

(* SETUP, which is not repeated, is the first request protected.           *)
SetupFirst == Protects("SETUP") /\ ~Protects("DESCRIBE")

(* Is the k-th request made after a challenge?  Is it refused?             *)
Certified(k) ==
  \/ k \in {2, 4}
  \/ k = 3 /\ Protects("OPTIONS")
  \/ k = 5 /\ Protects("DESCRIBE")
  \/ k = 6 /\ Protects("SETUP")
Refused(k) ==
  \/ k = 1 /\ Protects("OPTIONS")
  \/ k = 3 /\ Protects("DESCRIBE") /\ ~Protects("OPTIONS")
  \/ k = 5 /\ SetupFirst
  \/ k = 6 /\ Protects("PLAY") /\ ~Protects("SETUP")

(* What the parser has found when request k is made, and when its answer   *)
(* is parsed.                                                              *)
Found(certify, track, session) ==
  /\ need_certify <=> certify
  /\ isfirst <=> ~certify
  /\ NONECE = IF certify THEN 1 ELSE 0
  /\ TRACK <=> track
  /\ SESSION <=> session
  /\ isfirst2 <=> ~session
  /\ RTCP_SERVER_PORT <=> session
Before(k) == Found(Certified(k), k >= 5, k = 6 /\ ~SetupFirst)
Heard(k)  == Found(Certified(k) \/ Refused(k), k >= 4 \/ (k = 3 /\ ~Refused(3)),
                   k >= 5 /\ ~SetupFirst)

(* The answer to request k, in one piece.                                  *)
ReplyWords(k) ==
  IF Refused(k)     THEN {"Unauthorized", "nonce"}
  ELSE IF k \in {3, 4} THEN {"v=", "track", camera.codec}
  ELSE IF k = 5     THEN {"Session", "server_port"}
  ELSE IF k = 6     THEN {"ok", "Session"}
  ELSE {"ok", "Public"}
Answers(s, k) ==
  /\ s # <<>> /\ {s[i].word : i \in DOMAIN s} = ReplyWords(k)
  /\ \A i \in DOMAIN s : s[i].nonce = 1 /\ (s[i].last <=> i = Len(s))

Quiet  == asked = <<>> /\ wire = <<>> /\ got = <<>> /\ tcpPc = "read" /\ sem_tcpmsg = 0
Played6(k) == k = 6 => camera.streams \/ Refused(6)

(* Where the one request and its answer are while main waits.              *)
OnItsWay(k) ==
  \/ /\ asked = <<[method |-> Method[k], nonce |-> IF k # 1 /\ Certified(k) THEN 1 ELSE 0]>>
     /\ wire = <<>> /\ got = <<>> /\ tcpPc = "read" /\ sem_tcpmsg = 0 /\ Before(k)
  \/ /\ asked = <<>> /\ Answers(wire, k) /\ got = <<>> /\ tcpPc = "read"
     /\ sem_tcpmsg = 0 /\ Before(k) /\ Played6(k)
  \/ /\ asked = <<>> /\ wire = <<>> /\ Answers(got, k) /\ tcpPc = "parse"
     /\ sem_tcpmsg = 0 /\ Before(k) /\ Played6(k)
  \/ /\ asked = <<>> /\ wire = <<>> /\ Answers(got, k) /\ tcpPc = "nonce"
     /\ sem_tcpmsg = 0 /\ Refused(k) /\ Played6(k)
     /\ need_certify /\ ~isfirst /\ (TRACK <=> k >= 5)
     /\ SESSION <=> k = 6 /\ ~SetupFirst
     /\ isfirst2 <=> ~SESSION
     /\ RTCP_SERVER_PORT <=> SESSION
  \/ /\ asked = <<>> /\ wire = <<>> /\ tcpPc = "post"
     /\ sem_tcpmsg = 0 /\ Heard(k) /\ Played6(k)
  \/ /\ asked = <<>> /\ wire = <<>> /\ got = <<>> /\ tcpPc = "read"
     /\ sem_tcpmsg = 1 /\ Heard(k) /\ Played6(k)

Reached(k) ==
  /\ k = 2 => Protects("OPTIONS")
  /\ k = 4 => Refused(3)

Phase(k) ==
  CASE mainPc[1] = "send" -> Quiet /\ Before(k)
    [] mainPc[1] = "wait" -> /\ OnItsWay(k) /\ (k = 6 => ~SetupFirst)
                             /\ k = 3 => (is_certifed <=> Certified(3))
    [] OTHER -> Quiet /\ Heard(6) /\ Played6(6) /\ ~SetupFirst

SmoothInv ==
  Smooth => /\ camera.nonce = 1 /\ Reached(mainPc[2])
            /\ IF aborted THEN SetupFirst /\ mainPc = <<"send", 6>> ELSE Phase(mainPc[2])

LoginInv == LoginTypes /\ PostsInv /\ PostsKept /\ CodecInv /\ SmoothInv

-----------------------------------------------------------------------------
(* Messages, word by word.                                                 *)

LEMMA Tuples ==
  ASSUME NEW S, NEW a \in S, NEW b \in S, NEW c \in S
  PROVE  /\ <<a>> \in Seq(S) /\ Len(<<a>>) = 1 /\ <<a>>[1] = a
         /\ <<a, b>> \in Seq(S) /\ Len(<<a, b>>) = 2 /\ <<a, b>>[1] = a /\ <<a, b>>[2] = b
         /\ <<a, b, c>> \in Seq(S) /\ Len(<<a, b, c>>) = 3
         /\ <<a, b, c>>[1] = a /\ <<a, b, c>>[2] = b /\ <<a, b, c>>[3] = c
  OBVIOUS

(* Of the answers only a description names a codec, the camera's.          *)
LEMMA ReplyFacts ==
  ASSUME CameraTypes, NEW r
  PROVE  /\ Reply(r) \in Seq(Texts) /\ Len(Reply(r)) \in {2, 3}
         /\ \A i \in 1 .. Len(Reply(r)) :
              /\ Reply(r)[i] \in {"H264", "H265"} => Reply(r)[i] = camera.codec
              /\ Reply(r)[i] = "v=" =>
                   i = 1 /\ Len(Reply(r)) = 3
                         /\ (Reply(r)[2] = camera.codec \/ Reply(r)[3] = camera.codec)
<1> DEFINE others == Texts \ {"H264", "H265", "v="}
<1>1. camera.codec \in {"H264", "H265"}
  BY DEF CameraTypes
<1> DEFINE Ok(s) ==
      /\ s \in Seq(Texts) /\ Len(s) \in {2, 3}
      /\ \A i \in 1 .. Len(s) :
           /\ s[i] \in {"H264", "H265"} => s[i] = camera.codec
           /\ s[i] = "v=" => i = 1 /\ Len(s) = 3 /\ (s[2] = camera.codec \/ s[3] = camera.codec)
<1>2. ASSUME NEW a \in others, NEW b \in others PROVE Ok(<<a, b>>)
  <2>1. /\ <<a, b>> \in Seq(Texts) /\ Len(<<a, b>>) = 2
        /\ <<a, b>>[1] = a /\ <<a, b>>[2] = b
    <3>1. a \in Texts /\ b \in Texts
      OBVIOUS
    <3>. QED BY ONLY <3>1, Tuples
  <2> DEFINE s == <<a, b>>
  <2> HIDE DEF s
  <2>2. /\ s \in Seq(Texts) /\ Len(s) = 2 /\ s[1] \in others /\ s[2] \in others
    BY <2>1 DEF s
  <2>3. Ok(s)
    BY <2>2
  <2>. QED BY <2>3 DEF s
<1>3. ASSUME NEW a \in Texts, NEW b \in Texts,
             \/ a = "track" /\ b = camera.codec
             \/ b = "track" /\ a = camera.codec
      PROVE  Ok(<<"v=", a, b>>)
  <2>1. /\ <<"v=", a, b>> \in Seq(Texts) /\ Len(<<"v=", a, b>>) = 3
        /\ <<"v=", a, b>>[1] = "v=" /\ <<"v=", a, b>>[2] = a /\ <<"v=", a, b>>[3] = b
    <3>1. "v=" \in Texts
      BY DEF Texts
    <3>. QED BY <3>1, Tuples
  <2> DEFINE s == <<"v=", a, b>>
  <2> HIDE DEF s
  <2>2. s \in Seq(Texts) /\ Len(s) = 3 /\ s[1] = "v=" /\ s[2] = a /\ s[3] = b
    BY <2>1 DEF s
  <2>3. Ok(s)
    BY <2>2, <1>1, <1>3
  <2>. QED BY <2>3 DEF s
<1>4. camera.codec \in Texts
  BY <1>1 DEF Texts
<1> HIDE DEF Ok
<1>5. Ok(Reply(r))
  <2>1. CASE Refuses(r)
    <3>1. Reply(r) = <<"Unauthorized", "nonce">>
      BY <2>1 DEF Reply
    <3>. QED BY <1>2, <3>1 DEF Texts
  <2>2. CASE ~Refuses(r) /\ r.method = "DESCRIBE"
    <3>1. \/ Reply(r) = <<"v=", "track", camera.codec>>
          \/ Reply(r) = <<"v=", camera.codec, "track">>
      BY <2>2 DEF Reply
    <3>. QED BY <1>3, <1>4, <3>1 DEF Texts
  <2>3. CASE ~Refuses(r) /\ r.method = "SETUP"
    <3>1. Reply(r) = <<"server_port", "Session">> \/ Reply(r) = <<"Session", "server_port">>
      BY <2>3 DEF Reply
    <3>. QED BY <1>2, <3>1 DEF Texts
  <2>4. CASE ~Refuses(r) /\ r.method = "PLAY"
    <3>1. Reply(r) = <<"ok", "Session">>
      BY <2>4 DEF Reply
    <3>. QED BY <1>2, <3>1 DEF Texts
  <2>5. CASE ~Refuses(r) /\ r.method \notin {"DESCRIBE", "SETUP", "PLAY"}
    <3>1. Reply(r) = <<"ok", "Public">>
      BY <2>5 DEF Reply
    <3>. QED BY <1>2, <3>1 DEF Texts
  <2>. QED BY <2>1, <2>2, <2>3, <2>4, <2>5
<1>. QED BY <1>5 DEF Ok

LEMMA MessageFacts ==
  ASSUME CameraTypes, NEW words \in Seq(Texts), NEW ends \in {0, 1}
  PROVE  /\ Message(words, ends) \in Seq(Word) /\ Len(Message(words, ends)) = Len(words)
         /\ \A i \in 1 .. Len(words) :
              /\ Message(words, ends)[i].word = words[i]
              /\ Message(words, ends)[i].nonce = camera.nonce
              /\ Message(words, ends)[i].last <=> i = Len(words)
              /\ Message(words, ends)[i].ends = (IF i = Len(words) THEN ends ELSE 0)
<1> DEFINE w(i) == [word |-> words[i], nonce |-> camera.nonce,
                    last |-> i = Len(words), ends |-> IF i = Len(words) THEN ends ELSE 0]
<1>1. Len(words) \in Nat /\ DOMAIN words = 1 .. Len(words)
  BY LenProperties
<1>2. ASSUME NEW i \in 1 .. Len(words) PROVE w(i) \in Word
  <2>1. words[i] \in Texts
    BY <1>1, ElementOfSeq
  <2>2. camera.nonce \in Nat
    BY DEF CameraTypes
  <2>. QED BY <2>1, <2>2 DEF Word
<1>3. Message(words, ends) = [i \in 1 .. Len(words) |-> w(i)]
  BY <1>1 DEF Message
<1>4. Message(words, ends) \in Seq(Word)
  <2> HIDE DEF w
  <2>. QED BY <1>1, <1>2, <1>3, IsASeq
<1>5. DOMAIN Message(words, ends) = 1 .. Len(words)
  BY <1>3
<1>6. Len(Message(words, ends)) = Len(words)
  BY <1>1, <1>4, <1>5, LenProperties
<1>7. \A i \in 1 .. Len(words) : Message(words, ends)[i] = w(i)
  BY <1>3
<1> HIDE DEF w
<1>8. \A i \in 1 .. Len(words) :
        /\ w(i).word = words[i] /\ w(i).nonce = camera.nonce
        /\ w(i).last = (i = Len(words)) /\ w(i).ends = (IF i = Len(words) THEN ends ELSE 0)
  BY DEF w
<1>. QED BY <1>4, <1>6, <1>7, <1>8

LEMMA WordSeqs ==
  ASSUME NEW a \in Seq(Word), NEW b \in Seq(Word)
  PROVE  /\ a \o b \in Seq(Word) /\ Len(a \o b) = Len(a) + Len(b)
         /\ Len(a) \in Nat /\ Len(b) \in Nat
         /\ DOMAIN (a \o b) = 1 .. Len(a) + Len(b)
         /\ \A k \in 1 .. Len(a) : (a \o b)[k] = a[k]
         /\ \A k \in Len(a) + 1 .. Len(a) + Len(b) : (a \o b)[k] = b[k - Len(a)]
<1>1. /\ a \o b \in Seq(Word) /\ Len(a \o b) = Len(a) + Len(b)
      /\ Len(a) \in Nat /\ Len(b) \in Nat
      /\ \A k \in 1 .. Len(a) : (a \o b)[k] = a[k]
      /\ \A k \in Len(a) + 1 .. Len(a) + Len(b) : (a \o b)[k] = b[k - Len(a)]
  BY ConcatProperties, LenProperties
<1>. QED BY <1>1, LenProperties

(* A read takes the first n words.                                         *)
LEMMA ReadWords ==
  ASSUME NEW w \in Seq(Word), NEW n \in 1 .. Len(w)
  PROVE  LET read == SubSeq(w, 1, n)
             left == SubSeq(w, n + 1, Len(w))
         IN  /\ read \in Seq(Word) /\ left \in Seq(Word)
             /\ Len(w) \in Nat /\ n \in Nat /\ n >= 1 /\ n <= Len(w)
             /\ Len(read) = n /\ Len(left) = Len(w) - n
             /\ DOMAIN read = 1 .. n /\ DOMAIN left = 1 .. Len(w) - n
             /\ \A k \in 1 .. n : read[k] = w[k]
             /\ \A k \in 1 .. Len(w) - n : left[k] = w[n + k]
<1> DEFINE read == SubSeq(w, 1, n)
           left == SubSeq(w, n + 1, Len(w))
<1>1. Len(w) \in Nat /\ n \in Nat /\ n >= 1 /\ n <= Len(w)
  BY LenProperties
<1>2. /\ read \in Seq(Word) /\ Len(read) = n
      /\ \A k \in 1 .. n : read[k] = w[k]
  BY <1>1, SubSeqProperties
<1>3. /\ left \in Seq(Word) /\ Len(left) = Len(w) - n
      /\ \A k \in 1 .. Len(w) - n : left[k] = w[n + k]
  <2>1. n + 1 \in 1 .. Len(w) + 1 /\ Len(w) \in (n + 1) - 1 .. Len(w)
    BY <1>1
  <2>2. /\ left \in Seq(Word) /\ Len(left) = Len(w) - (n + 1) + 1
        /\ \A k \in 1 .. Len(w) - (n + 1) + 1 : left[k] = w[(n + 1) + k - 1]
    BY <2>1, SubSeqProperties
  <2>3. Len(w) - (n + 1) + 1 = Len(w) - n /\ \A k \in Int : (n + 1) + k - 1 = n + k
    BY <1>1
  <2> HIDE DEF left
  <2>. QED BY <2>2, <2>3
<1> HIDE DEF read, left
<1>4. DOMAIN read = 1 .. n /\ DOMAIN left = 1 .. Len(w) - n
  BY <1>2, <1>3, LenProperties
<1>. QED BY <1>1, <1>2, <1>3, <1>4 DEF read, left

-----------------------------------------------------------------------------
(* Types.                                                                  *)

LEMMA InitLogin == Init => LoginTypes
<1> SUFFICES ASSUME Init PROVE LoginTypes
  OBVIOUS
<1>1. CameraTypes
  <2>1. PICK k \in 1 .. 7, swap \in BOOLEAN, codec \in {"H264", "H265"} :
          camera = [protects |-> {Method[i] : i \in k..6}, swap |-> swap,
                    codec |-> codec, nonce |-> 1, streams |-> FALSE, on |-> TRUE]
    BY DEF Init
  <2>2. {Method[i] : i \in k .. 6} \subseteq Methods
    <3>1. \A i \in 1 .. 6 : Method[i] \in Methods
      BY DEF Method, Methods
    <3>2. k .. 6 \subseteq 1 .. 6
      OBVIOUS
    <3>. QED BY <3>1, <3>2
  <2>. QED BY <2>1, <2>2 DEF CameraTypes
<1>2. <<>> \in Seq(Word)
  OBVIOUS
<1>3. upset \in [Upsets -> Nat] /\ NONECE \in Nat /\ sem_tcpmsg \in Nat
  BY DEF Init
<1>4. taken \in Nat /\ answered \in Nat /\ tcpPc = "read" /\ wire = <<>> /\ got = <<>>
  BY DEF Init
<1>5. mainPc \in {"send", "wait", "ports", "done"} \X DOMAIN Method /\ mainPc = <<"send", 1>>
  BY DEF Init, Method
<1>. QED BY <1>1, <1>2, <1>3, <1>4, <1>5 DEF LoginTypes

LEMMA EndedFinite ==
  ASSUME NEW s \in Seq(Word)
  PROVE  /\ IsFiniteSet(EndedIn(s)) /\ Cardinality(EndedIn(s)) \in Nat
         /\ IsFiniteSet(UnaskedIn(s)) /\ Cardinality(UnaskedIn(s)) \in Nat
<1>1. DOMAIN s = 1 .. Len(s) /\ Len(s) \in Nat
  BY LenProperties
<1>2. IsFiniteSet(DOMAIN s)
  BY <1>1, FS_Interval
<1>3. EndedIn(s) \subseteq DOMAIN s /\ UnaskedIn(s) \subseteq DOMAIN s
  BY DEF EndedIn, UnaskedIn
<1>. QED BY <1>2, <1>3, FS_Subset, FS_CardinalityType

LEMMA TypesStep == LoginTypes /\ [Next]_vars => LoginTypes'
<1> SUFFICES ASSUME LoginTypes, [Next]_vars PROVE LoginTypes'
  OBVIOUS
<1> USE DEF LoginTypes
<1>0. DOMAIN Method = 1 .. 6
  BY DEF Method
<1>1. CASE Answer
  <2> DEFINE r == Head(asked)
  <2>1. wire' = wire \o Message(Reply(r), 1)
    BY <1>1 DEF Answer
  <2>2. Message(Reply(r), 1) \in Seq(Word)
    BY ReplyFacts, MessageFacts
  <2>3. wire' \in Seq(Word)
    BY <2>1, <2>2, WordSeqs
  <2>4. CameraTypes'
    BY <1>1 DEF Answer, CameraTypes
  <2>. QED BY <1>1, <2>3, <2>4 DEF Answer, mainVars, parsed
<1>2. CASE Unasked
  <2>1. wire' = wire \o Message(<<"ok">>, 0)
    BY <1>2 DEF Unasked
  <2>2. Message(<<"ok">>, 0) \in Seq(Word)
    <3>1. <<"ok">> \in Seq(Texts)
      BY Tuples DEF Texts
    <3>. QED BY <3>1, MessageFacts
  <2>3. wire' \in Seq(Word)
    BY <2>1, <2>2, WordSeqs
  <2>4. upset' \in [Upsets -> Nat]
    BY <1>2 DEF Unasked, Upset, Upsets
  <2>. QED BY <1>2, <2>3, <2>4 DEF Unasked, mainVars, parsed, CameraTypes
<1>3. CASE RollNonce
  <2>1. upset' \in [Upsets -> Nat]
    BY <1>3 DEF RollNonce, Upset, Upsets
  <2>2. CameraTypes'
    <3>1. camera' = [camera EXCEPT !.nonce = camera.nonce + 1]
      BY <1>3 DEF RollNonce
    <3>2. camera'.protects = camera.protects /\ camera'.nonce \in Nat \ {0}
      BY <3>1 DEF CameraTypes
    <3>. QED BY <3>1, <3>2 DEF CameraTypes
  <2>. QED BY <1>3, <2>1, <2>2 DEF RollNonce, mainVars, parsed
<1>4. CASE HangUp
  BY <1>4 DEF HangUp, mainVars, parsed, CameraTypes
<1>5. ASSUME NEW k \in DOMAIN Method, Send(k) PROVE LoginTypes'
  BY <1>5, <1>0 DEF Send, Sending, parsed, CameraTypes
<1>6. ASSUME NEW k \in DOMAIN Method, SendAborts(k) PROVE LoginTypes'
  BY <1>6 DEF SendAborts, mainVars, parsed, CameraTypes
<1>7. ASSUME NEW k \in DOMAIN Method, Wait(k) PROVE LoginTypes'
  <2>1. After(k) \in {"send", "ports"} \X DOMAIN Method /\ (After(k)[1] = "ports" => After(k)[2] = 6)
    BY <1>0 DEF After
  <2>2. mainPc' = After(k) /\ sem_tcpmsg' \in Nat /\ taken' \in Nat
    BY <1>7 DEF Wait
  <2> HIDE DEF After
  <2>. QED BY <1>7, <2>1, <2>2 DEF Wait, parsed, CameraTypes
<1>8. CASE OpenReports
  <2>1. mainPc' = mainPc \/ mainPc' = <<"done", 6>>
    BY <1>8 DEF OpenReports
  <2>2. /\ mainPc' \in {"send", "wait", "ports", "done"} \X DOMAIN Method
        /\ mainPc'[1] \in {"ports", "done"} => mainPc'[2] = 6
    BY <2>1, <1>0
  <2>. QED BY <1>8, <2>2 DEF OpenReports, parsed, CameraTypes
<1>9. CASE Read
  <2>1. PICK n \in 1 .. Len(wire) :
          /\ got' = SubSeq(wire, 1, n) /\ wire' = SubSeq(wire, n + 1, Len(wire))
          /\ IF wire[n].last THEN UNCHANGED upset ELSE Upset("cut")
    BY <1>9 DEF Read
  <2>2. got' \in Seq(Word) /\ wire' \in Seq(Word)
    BY <2>1, ReadWords
  <2>3. upset' \in [Upsets -> Nat]
    BY <2>1 DEF Upset, Upsets
  <2>. QED BY <1>9, <2>2, <2>3 DEF Read, mainVars, parsed, CameraTypes
<1>10. CASE ParseChallenge
  BY <1>10 DEF ParseChallenge, Parsing, mainVars, CameraTypes
<1>11. CASE ParseNonce
  <2>1. NONECE' \in Nat
    <3>1. CASE Nonces = {}
      BY <1>11, <3>1 DEF ParseNonce
    <3>2. CASE Nonces # {}
      <4>1. PICK i \in DOMAIN got : NONECE' = got[i].nonce
        BY <1>11, <3>2 DEF ParseNonce, Nonces
      <4>2. got[i] \in Word
        BY <4>1, ElementOfSeq, LenProperties
      <4>. QED BY <4>1, <4>2 DEF Word
    <3>. QED BY <3>1, <3>2
  <2>. QED BY <1>11, <2>1 DEF ParseNonce, Parsing, mainVars, CameraTypes
<1>12. CASE ParseSession
  BY <1>12 DEF ParseSession, Parsing, mainVars, CameraTypes
<1>13. CASE ParseOther
  BY <1>13 DEF ParseOther, Parsing, mainVars, CameraTypes
<1>14. CASE Post
  <2>1. Cardinality(EndedIn(got)) \in Nat
    BY EndedFinite
  <2>2. answered' \in Nat /\ sem_tcpmsg' \in Nat
    BY <1>14, <2>1 DEF Post, EndedIn
  <2>3. <<>> \in Seq(Word)
    OBVIOUS
  <2>. QED BY <1>14, <2>2, <2>3 DEF Post, mainVars, parsed, CameraTypes
<1>15. CASE UNCHANGED vars
  BY <1>15 DEF vars, mainVars, parsed, CameraTypes
<1>. QED BY <1>1, <1>2, <1>3, <1>4, <1>5, <1>6, <1>7, <1>8, <1>9, <1>10, <1>11,
            <1>12, <1>13, <1>14, <1>15 DEF Next, Camera, Main, Tcp

-----------------------------------------------------------------------------
(* A post for each answer, cut and message sent unasked.                   *)

(* How the unasked ones on the wire are counted when words are read.       *)
LEMMA UnaskedLeft ==
  ASSUME NEW w \in Seq(Word), NEW n \in 1 .. Len(w)
  PROVE  LET left == SubSeq(w, n + 1, Len(w))
             a == Cardinality(UnaskedIn(left))
             b == Cardinality(UnaskedIn(w))
         IN  /\ a \in Nat /\ b \in Nat /\ a <= b
             /\ w[n].last /\ w[n].ends = 0 => a + 1 <= b
<1> DEFINE left == SubSeq(w, n + 1, Len(w))
           S == UnaskedIn(w) \ {n}
<1>1. /\ left \in Seq(Word) /\ Len(w) \in Nat /\ n \in Nat /\ n >= 1 /\ n <= Len(w)
      /\ DOMAIN left = 1 .. Len(w) - n
      /\ \A k \in 1 .. Len(w) - n : left[k] = w[n + k]
  BY ReadWords
<1> HIDE DEF left
<1>2. DOMAIN w = 1 .. Len(w)
  BY LenProperties
<1>3. /\ IsFiniteSet(UnaskedIn(w)) /\ Cardinality(UnaskedIn(w)) \in Nat
      /\ IsFiniteSet(UnaskedIn(left)) /\ Cardinality(UnaskedIn(left)) \in Nat
  BY <1>1, EndedFinite
<1>4. Cardinality(UnaskedIn(left)) <= Cardinality(S)
  <2> DEFINE f == [k \in UnaskedIn(left) |-> n + k]
  <2>1. ASSUME NEW k \in UnaskedIn(left) PROVE n + k \in S /\ k \in Nat
    <3>1. k \in 1 .. Len(w) - n /\ left[k] = w[n + k] /\ left[k].last /\ left[k].ends = 0
      BY <1>1 DEF UnaskedIn
    <3>2. n + k \in 1 .. Len(w) /\ n + k # n /\ k \in Nat
      BY <1>1, <3>1
    <3>. QED BY <1>2, <3>1, <3>2 DEF UnaskedIn
  <2>2. f \in [UnaskedIn(left) -> S]
    BY <2>1
  <2>3. \A j, k \in UnaskedIn(left) : f[j] = f[k] => j = k
    BY <1>1, <2>1
  <2>4. f \in Injection(UnaskedIn(left), S)
    BY <2>2, <2>3 DEF Injection, IsInjective
  <2>5. IsFiniteSet(S)
    BY <1>3, FS_Subset
  <2> HIDE DEF f, S
  <2>. QED BY <2>4, <2>5, FS_Injection DEF ExistsInjection
<1>5. /\ Cardinality(S) \in Nat /\ Cardinality(S) <= Cardinality(UnaskedIn(w))
      /\ n \in UnaskedIn(w) => Cardinality(S) = Cardinality(UnaskedIn(w)) - 1
  <2>1. IsFiniteSet(S) /\ Cardinality(S) <= Cardinality(UnaskedIn(w))
    BY <1>3, FS_Subset
  <2>2. Cardinality(S) \in Nat
    BY <2>1, FS_CardinalityType
  <2>3. n \in UnaskedIn(w) => Cardinality(S) = Cardinality(UnaskedIn(w)) - 1
    BY <1>3, FS_RemoveElement
  <2>. QED BY <2>1, <2>2, <2>3
<1>6. w[n].last /\ w[n].ends = 0 => n \in UnaskedIn(w)
  BY <1>1, <1>2 DEF UnaskedIn
<1> HIDE DEF S
<1>7. /\ Cardinality(UnaskedIn(left)) <= Cardinality(UnaskedIn(w))
      /\ w[n].last /\ w[n].ends = 0 =>
           Cardinality(UnaskedIn(left)) + 1 <= Cardinality(UnaskedIn(w))
  BY <1>3, <1>4, <1>5, <1>6
<1>. QED BY <1>3, <1>7 DEF left

(* A message adds one of them only if it is unasked.                       *)
LEMMA UnaskedAdded ==
  ASSUME CameraTypes, wire \in Seq(Word),
         NEW words \in Seq(Texts), Len(words) >= 1, NEW ends \in {0, 1}
  PROVE  LET m == wire \o Message(words, ends)
         IN  /\ Cardinality(UnaskedIn(m)) \in Nat /\ Cardinality(UnaskedIn(wire)) \in Nat
             /\ Cardinality(UnaskedIn(m)) <= Cardinality(UnaskedIn(wire)) + (1 - ends)
<1> DEFINE m == Message(words, ends)
           l == Len(words)
           n == Len(wire)
           z == wire \o m
<1>1. /\ m \in Seq(Word) /\ Len(m) = l /\ l \in Nat
      /\ \A i \in 1 .. l : (m[i].last <=> i = l) /\ m[i].ends = (IF i = l THEN ends ELSE 0)
  BY MessageFacts, LenProperties
<1> HIDE DEF m
<1>2. /\ z \in Seq(Word) /\ n \in Nat /\ DOMAIN z = 1 .. n + l /\ DOMAIN wire = 1 .. n
      /\ \A k \in 1 .. n : z[k] = wire[k]
      /\ \A k \in n + 1 .. n + l : z[k] = m[k - n]
  <2> HIDE DEF l
  <2>1. /\ z \in Seq(Word) /\ n \in Nat /\ DOMAIN z = 1 .. n + Len(m)
        /\ \A k \in 1 .. n : z[k] = wire[k]
        /\ \A k \in n + 1 .. n + Len(m) : z[k] = m[k - n]
    BY <1>1, WordSeqs
  <2>2. DOMAIN wire = 1 .. n
    BY LenProperties
  <2> HIDE DEF z, n
  <2>. QED BY <1>1, <2>1, <2>2
<1> HIDE DEF l, n, z
<1>3. /\ IsFiniteSet(UnaskedIn(wire)) /\ Cardinality(UnaskedIn(wire)) \in Nat
      /\ IsFiniteSet(UnaskedIn(z)) /\ Cardinality(UnaskedIn(z)) \in Nat
  BY <1>2, EndedFinite
<1>4. ASSUME NEW k \in UnaskedIn(z)
      PROVE  k \in UnaskedIn(wire) \/ (k = n + l /\ ends = 0)
  <2>1. k \in 1 .. n + l /\ z[k].last /\ z[k].ends = 0
    BY <1>2 DEF UnaskedIn
  <2>2. CASE k \in 1 .. n
    BY <2>1, <2>2, <1>2 DEF UnaskedIn
  <2>3. CASE k \in n + 1 .. n + l
    <3>1. k - n \in 1 .. l /\ z[k] = m[k - n]
      BY <2>3, <1>1, <1>2
    <3>2. k - n = l /\ ends = 0
      BY <3>1, <2>1, <1>1
    <3>. QED BY <3>2, <2>3, <1>1, <1>2
  <2>. QED BY <2>1, <2>2, <2>3, <1>1, <1>2
<1>5. CASE ends = 0
  <2>1. UnaskedIn(z) \subseteq UnaskedIn(wire) \cup {n + l}
    BY <1>4
  <2>2. /\ IsFiniteSet(UnaskedIn(wire) \cup {n + l})
        /\ Cardinality(UnaskedIn(wire) \cup {n + l}) <= Cardinality(UnaskedIn(wire)) + 1
        /\ Cardinality(UnaskedIn(wire) \cup {n + l}) \in Nat
    <3>1. /\ IsFiniteSet(UnaskedIn(wire) \cup {n + l})
          /\ Cardinality(UnaskedIn(wire) \cup {n + l})
               = IF n + l \in UnaskedIn(wire) THEN Cardinality(UnaskedIn(wire))
                                             ELSE Cardinality(UnaskedIn(wire)) + 1
      BY <1>3, FS_AddElement
    <3>. QED BY <3>1, <1>3
  <2>3. Cardinality(UnaskedIn(z)) <= Cardinality(UnaskedIn(wire) \cup {n + l})
    BY <2>1, <2>2, FS_Subset
  <2>4. Cardinality(UnaskedIn(z)) <= Cardinality(UnaskedIn(wire)) + 1
    BY <2>2, <2>3, <1>3
  <2>. QED BY <2>4, <1>3, <1>5 DEF z, m
<1>6. CASE ends = 1
  <2>1. UnaskedIn(z) \subseteq UnaskedIn(wire)
    BY <1>4, <1>6
  <2>2. Cardinality(UnaskedIn(z)) <= Cardinality(UnaskedIn(wire))
    BY <2>1, <1>3, FS_Subset
  <2>. QED BY <2>2, <1>3, <1>6 DEF z, m
<1>. QED BY <1>5, <1>6

LEMMA PostsStep == LoginTypes /\ PostsInv /\ [Next]_vars => PostsInv'
<1> SUFFICES ASSUME LoginTypes, PostsInv, [Next]_vars PROVE PostsInv'
  OBVIOUS
<1> DEFINE u == Cardinality(UnaskedIn(wire))
           e == Cardinality(EndedIn(got))
           cut == upset["cut"]
           un == upset["unasked"]
           x == IF tcpPc = "read" THEN 0 ELSE 1
<1>0. /\ sem_tcpmsg \in Nat /\ taken \in Nat /\ answered \in Nat
      /\ u \in Nat /\ e \in Nat /\ cut \in Nat /\ un \in Nat
      /\ CameraTypes /\ wire \in Seq(Word) /\ got \in Seq(Word)
      /\ upset \in [Upsets -> Nat]
  BY EndedFinite DEF LoginTypes, Upsets
<1>01. taken + sem_tcpmsg + x + u <= answered + e + cut + un /\ x \in {0, 1}
  BY DEF PostsInv
<1>1. CASE Answer
  <2> DEFINE r == Head(asked)
  <2>1. /\ wire' = wire \o Message(Reply(r), 1)
        /\ UNCHANGED <<taken, sem_tcpmsg, tcpPc, answered, got, upset>>
    BY <1>1 DEF Answer
  <2>2. Reply(r) \in Seq(Texts) /\ Len(Reply(r)) >= 1
    <3> DEFINE l == Len(Reply(r))
    <3>1. Reply(r) \in Seq(Texts) /\ l \in {2, 3}
      BY <1>0, ReplyFacts
    <3> HIDE DEF l
    <3>2. l >= 1
      BY <3>1
    <3>. QED BY <3>1, <3>2 DEF l
  <2>3. Cardinality(UnaskedIn(wire')) \in Nat /\ Cardinality(UnaskedIn(wire')) <= u + (1 - 1)
    BY <1>0, <2>1, <2>2, UnaskedAdded
  <2> HIDE DEF u, e, cut, un, x
  <2>4. taken + sem_tcpmsg + x + Cardinality(UnaskedIn(wire')) <= answered + e + cut + un
    BY <2>3, <1>0, <1>01
  <2>. QED BY <2>1, <2>4 DEF PostsInv, u, e, cut, un, x
<1>2. CASE Unasked
  <2>1. /\ wire' = wire \o Message(<<"ok">>, 0)
        /\ UNCHANGED <<taken, sem_tcpmsg, tcpPc, answered, got>>
        /\ upset'["cut"] = cut /\ upset'["unasked"] = un + 1
    BY <1>0, <1>2 DEF Unasked, Upset, Upsets
  <2>2. <<"ok">> \in Seq(Texts) /\ Len(<<"ok">>) >= 1
    BY Tuples DEF Texts
  <2>3. Cardinality(UnaskedIn(wire')) \in Nat /\ Cardinality(UnaskedIn(wire')) <= u + (1 - 0)
    BY <1>0, <2>1, <2>2, UnaskedAdded
  <2> HIDE DEF u, e, cut, un, x
  <2>4. taken + sem_tcpmsg + x + Cardinality(UnaskedIn(wire')) <= answered + e + cut + (un + 1)
    BY <2>3, <1>0, <1>01
  <2>. QED BY <2>1, <2>4 DEF PostsInv, u, e, cut, un, x
<1>3. CASE RollNonce
  <2>1. upset'["cut"] = cut /\ upset'["unasked"] = un
    BY <1>0, <1>3 DEF RollNonce, Upset, Upsets
  <2>. QED BY <1>3, <2>1 DEF RollNonce, PostsInv
<1>4. CASE HangUp
  BY <1>4 DEF HangUp, PostsInv
<1>5. ASSUME NEW k \in DOMAIN Method, Send(k) PROVE PostsInv'
  BY <1>5 DEF Send, PostsInv
<1>6. ASSUME NEW k \in DOMAIN Method, SendAborts(k) PROVE PostsInv'
  BY <1>6 DEF SendAborts, PostsInv
<1>7. ASSUME NEW k \in DOMAIN Method, Wait(k) PROVE PostsInv'
  <2>1. /\ taken' = taken + 1 /\ sem_tcpmsg' = sem_tcpmsg - 1
        /\ UNCHANGED <<wire, tcpPc, answered, got, upset>>
    BY <1>7 DEF Wait
  <2>. QED BY <2>1, <1>0, <1>01 DEF PostsInv
<1>8. CASE OpenReports
  BY <1>8 DEF OpenReports, PostsInv
<1>9. CASE Read
  <2>1. PICK n \in 1 .. Len(wire) :
          /\ got' = SubSeq(wire, 1, n) /\ wire' = SubSeq(wire, n + 1, Len(wire))
          /\ IF wire[n].last THEN UNCHANGED upset ELSE Upset("cut")
    BY <1>9 DEF Read
  <2>2. /\ tcpPc = "read" /\ tcpPc' = "parse"
        /\ UNCHANGED <<taken, sem_tcpmsg, answered>>
    BY <1>9 DEF Read, At
  <2> DEFINE v == Cardinality(UnaskedIn(wire'))
             f == Cardinality(EndedIn(got'))
  <2>3. v \in Nat /\ v <= u /\ (wire[n].last /\ wire[n].ends = 0 => v + 1 <= u)
    BY <1>0, <2>1, UnaskedLeft
  <2>4. wire[n].ends = 1 => f >= 1
    <3> SUFFICES ASSUME wire[n].ends = 1 PROVE f >= 1
      OBVIOUS
    <3>1. got' \in Seq(Word) /\ n \in DOMAIN got' /\ got'[n] = wire[n]
      BY <1>0, <2>1, ReadWords
    <3>2. n \in EndedIn(got')
      BY <3>1 DEF EndedIn
    <3>3. IsFiniteSet(EndedIn(got')) /\ f \in Nat
      BY <3>1, EndedFinite
    <3>4. f # 0
      BY <3>2, <3>3, FS_EmptySet
    <3>. QED BY <3>3, <3>4
  <2>5. f \in Nat
    BY <1>0, <2>1, ReadWords, EndedFinite
  <2>6. wire[n] \in Word /\ wire[n].ends \in {0, 1}
    <3>1. wire[n] \in Word
      BY <1>0, ElementOfSeq
    <3>. QED BY <3>1 DEF Word
  <2>7. EndedIn(got) = {} => e = 0
    BY FS_EmptySet
  <2>8. got = <<>> => e = 0
    <3>1. ASSUME got = <<>> PROVE EndedIn(got) = {}
      BY <3>1 DEF EndedIn
    <3>. QED BY <3>1, <2>7
  <2>11. e = 0
    BY <2>2, <2>8 DEF PostsInv
  <2>12. x = 0
    BY <2>2
  <2> HIDE DEF u, v, e, f, cut, un, x
  <2>9. CASE ~wire[n].last
    <3>1. upset'["cut"] = cut + 1 /\ upset'["unasked"] = un
      BY <1>0, <2>1, <2>9 DEF Upset, Upsets, cut, un
    <3>2. taken + sem_tcpmsg + 1 + v <= answered + f + (cut + 1) + un
      BY <2>11, <2>12, <2>3, <2>5, <1>0, <1>01
    <3>. QED BY <3>1, <3>2, <2>2 DEF PostsInv, v, f
  <2>10. CASE wire[n].last
    <3>1. upset' = upset
      BY <2>1, <2>10
    <3>2. f >= 1 \/ v + 1 <= u
      BY <2>3, <2>4, <2>6, <2>10
    <3>3. taken + sem_tcpmsg + 1 + v <= answered + f + cut + un
      BY <3>2, <2>11, <2>12, <2>3, <2>5, <1>0, <1>01
    <3>. QED BY <3>1, <3>3, <2>2 DEF PostsInv, v, f, cut, un
  <2>. QED BY <2>9, <2>10
<1>10. CASE ParseChallenge
  BY <1>10 DEF ParseChallenge, Parsing, At, PostsInv
<1>11. CASE ParseNonce
  BY <1>11 DEF ParseNonce, Parsing, At, PostsInv
<1>12. CASE ParseSession
  BY <1>12 DEF ParseSession, Parsing, At, PostsInv
<1>13. CASE ParseOther
  BY <1>13 DEF ParseOther, Parsing, At, PostsInv
<1>14. CASE Post
  <2>1. /\ tcpPc = "post" /\ tcpPc' = "read" /\ sem_tcpmsg' = sem_tcpmsg + 1
        /\ answered' = answered + e /\ got' = <<>>
        /\ UNCHANGED <<taken, wire, upset>>
    BY <1>14 DEF Post, At, EndedIn
  <2>2. Cardinality(EndedIn(got')) = 0
    <3>1. EndedIn(got') = {}
      BY <2>1 DEF EndedIn
    <3>. QED BY <3>1, FS_EmptySet
  <2>. QED BY <2>1, <2>2, <1>0, <1>01 DEF PostsInv
<1>15. CASE UNCHANGED vars
  BY <1>15 DEF vars, mainVars, parsed, PostsInv
<1>. QED BY <1>1, <1>2, <1>3, <1>4, <1>5, <1>6, <1>7, <1>8, <1>9, <1>10, <1>11,
            <1>12, <1>13, <1>14, <1>15 DEF Next, Camera, Main, Tcp

-----------------------------------------------------------------------------
(* The codec.                                                              *)

LEMMA CodecStep == LoginTypes /\ CodecInv /\ [Next]_vars => CodecInv'
<1> SUFFICES ASSUME LoginTypes, CodecInv, [Next]_vars PROVE CodecInv'
  OBVIOUS
<1>0. /\ CameraTypes /\ wire \in Seq(Word) /\ got \in Seq(Word)
      /\ mainPc \in {"send", "wait", "ports", "done"} \X DOMAIN Method
      /\ DOMAIN Method = 1 .. 6 /\ upset \in [Upsets -> Nat]
      /\ DOMAIN wire = 1 .. Len(wire) /\ Len(wire) \in Nat
  BY LenProperties DEF LoginTypes, Method
<1> DEFINE Coded(s) == \A i \in DOMAIN s :
                         s[i].word \in {"H264", "H265"} => s[i].word = camera.codec
           Whole(s) == \A i \in DOMAIN s : s[i].word = "v=" => Described(s, i)
(* What a step does to the wire. *)
<1>1. ASSUME NEW words \in Seq(Texts), NEW ends \in {0, 1}, Len(words) \in Nat,
             wire' = wire \o Message(words, ends), camera'.codec = camera.codec,
             \A i \in 1 .. Len(words) :
               /\ words[i] \in {"H264", "H265"} => words[i] = camera.codec
               /\ words[i] = "v=" =>
                    i = 1 /\ Len(words) = 3
                          /\ (words[2] = camera.codec \/ words[3] = camera.codec)
      PROVE  /\ Coded(wire)' /\ (Whole(wire) => Whole(wire)')
  <2> DEFINE m == Message(words, ends)
             n == Len(wire)
             l == Len(words)
             z == wire \o m
  <2>1. /\ m \in Seq(Word) /\ Len(m) = l
        /\ \A i \in 1 .. l : m[i].word = words[i] /\ (m[i].last <=> i = l)
    BY <1>0, MessageFacts
  <2>2. l \in Nat /\ n \in Nat
    BY <1>0, <1>1
  <2> HIDE DEF m, l
  <2>3. /\ DOMAIN z = 1 .. n + l
        /\ \A k \in 1 .. n : z[k] = wire[k]
        /\ \A k \in n + 1 .. n + l : z[k] = m[k - n]
    BY <2>1, <1>0, WordSeqs
  <2>4. wire' = z
    BY <1>1 DEF m
  <2>5. \A i \in 1 .. l :
          /\ words[i] \in {"H264", "H265"} => words[i] = camera.codec
          /\ words[i] = "v=" =>
               i = 1 /\ l = 3 /\ (words[2] = camera.codec \/ words[3] = camera.codec)
    BY <1>1 DEF l
  <2> HIDE DEF n, z
  <2>6. ASSUME NEW i \in 1 .. n + l, z[i].word \in {"H264", "H265"}
        PROVE  z[i].word = camera.codec
    <3>1. CASE i \in 1 .. n
      BY <3>1, <2>3, <2>6, <1>0 DEF CodecInv, n
    <3>2. CASE i \in n + 1 .. n + l
      <4>1. i - n \in 1 .. l /\ z[i] = m[i - n]
        BY <3>2, <2>2, <2>3
      <4>. QED BY <4>1, <2>1, <2>5, <2>6
    <3>. QED BY <3>1, <3>2, <2>2
  <2>7. ASSUME Whole(wire), NEW i \in 1 .. n + l, z[i].word = "v="
        PROVE  /\ i + 2 \in 1 .. n + l /\ ~z[i].last /\ ~z[i + 1].last
               /\ \E j \in {i + 1, i + 2} : z[j].word = camera.codec
    <3>1. CASE i \in 1 .. n
      <4>1. Described(wire, i)
        BY <3>1, <2>3, <2>7, <1>0 DEF n
      <4>2. /\ i + 2 \in 1 .. n /\ ~wire[i].last /\ ~wire[i + 1].last
            /\ \E j \in {i + 1, i + 2} : wire[j].word = camera.codec
        BY <4>1, <1>0 DEF Described, n
      <4>3. i + 1 \in 1 .. n /\ i + 2 \in 1 .. n + l
        BY <3>1, <4>2, <2>2
      <4>4. z[i] = wire[i] /\ z[i + 1] = wire[i + 1] /\ z[i + 2] = wire[i + 2]
        BY <3>1, <4>2, <4>3, <2>3
      <4>. QED BY <4>2, <4>3, <4>4
    <3>2. CASE i \in n + 1 .. n + l
      <4>1. i - n \in 1 .. l /\ z[i] = m[i - n]
        BY <3>2, <2>2, <2>3
      <4>2. i - n = 1 /\ l = 3 /\ (words[2] = camera.codec \/ words[3] = camera.codec)
        BY <4>1, <2>1, <2>5, <2>7
      <4>3. /\ i = n + 1 /\ i + 1 \in n + 1 .. n + l /\ i + 2 \in n + 1 .. n + l
            /\ (i + 1) - n = 2 /\ (i + 2) - n = 3 /\ i + 2 \in 1 .. n + l
        BY <3>2, <4>2, <2>2
      <4>4. z[i] = m[1] /\ z[i + 1] = m[2] /\ z[i + 2] = m[3]
        BY <4>1, <4>2, <4>3, <2>3
      <4>5. ~m[1].last /\ ~m[2].last /\ m[2].word = words[2] /\ m[3].word = words[3]
        BY <4>2, <2>1
      <4>. QED BY <4>2, <4>3, <4>4, <4>5
    <3>. QED BY <3>1, <3>2, <2>2
  <2>8. Coded(wire)'
    <3>1. \A i \in DOMAIN wire' : wire'[i].word \in {"H264", "H265"} => wire'[i].word = camera'.codec
      BY <2>3, <2>4, <2>6, <1>1
    <3>. QED BY <3>1
  <2>9. ASSUME Whole(wire) PROVE Whole(wire)'
    <3>1. ASSUME NEW i \in DOMAIN wire', wire'[i].word = "v="
          PROVE  Described(wire, i)'
      <4>1. i \in 1 .. n + l /\ z[i].word = "v="
        BY <3>1, <2>3, <2>4
      <4>2. /\ i + 2 \in 1 .. n + l /\ ~z[i].last /\ ~z[i + 1].last
            /\ \E j \in {i + 1, i + 2} : z[j].word = camera.codec
        BY <4>1, <2>7, <2>9
      <4>3. /\ i + 2 \in DOMAIN wire' /\ ~wire'[i].last /\ ~wire'[i + 1].last
            /\ \E j \in {i + 1, i + 2} : wire'[j].word = camera'.codec
        BY <4>2, <2>3, <2>4, <1>1
      <4>. QED BY <4>3 DEF Described
    <3>. QED BY <3>1
  <2>. QED BY <2>8, <2>9
<1>2. CASE Answer
  <2> DEFINE r == Head(asked)
  <2>1. /\ wire' = wire \o Message(Reply(r), 1) /\ camera'.codec = camera.codec
        /\ UNCHANGED <<got, upset, tcpPc, TRACK, TYPE, mainPc, codecType>>
    BY <1>0, <1>2 DEF Answer, mainVars, parsed, CameraTypes
  <2>2. /\ Reply(r) \in Seq(Texts)
        /\ \A i \in 1 .. Len(Reply(r)) :
             /\ Reply(r)[i] \in {"H264", "H265"} => Reply(r)[i] = camera.codec
             /\ Reply(r)[i] = "v=" =>
                  i = 1 /\ Len(Reply(r)) = 3
                        /\ (Reply(r)[2] = camera.codec \/ Reply(r)[3] = camera.codec)
    BY <1>0, ReplyFacts
  <2>3. Len(Reply(r)) \in Nat
    BY <2>2, LenProperties
  <2>4. Coded(wire)' /\ (Whole(wire) => Whole(wire)')
    BY <2>1, <2>2, <2>3, <1>1
  <2>. QED BY <2>1, <2>4 DEF CodecInv, Words
<1>3. CASE Unasked
  <2>1. /\ wire' = wire \o Message(<<"ok">>, 0) /\ camera'.codec = camera.codec
        /\ UNCHANGED <<got, tcpPc, TRACK, TYPE, mainPc, codecType>>
        /\ upset'["cut"] = upset["cut"]
    BY <1>0, <1>3 DEF Unasked, mainVars, parsed, Upset, Upsets
  <2>2. <<"ok">> \in Seq(Texts) /\ Len(<<"ok">>) = 1 /\ <<"ok">>[1] = "ok"
    BY Tuples DEF Texts
  <2> DEFINE w == <<"ok">>
  <2> HIDE DEF w
  <2>3. w \in Seq(Texts) /\ Len(w) = 1 /\ w[1] = "ok" /\ wire' = wire \o Message(w, 0)
    BY <2>1, <2>2 DEF w
  <2>5. /\ Len(w) \in Nat
        /\ \A i \in 1 .. Len(w) :
             /\ w[i] \in {"H264", "H265"} => w[i] = camera.codec
             /\ w[i] = "v=" =>
                  i = 1 /\ Len(w) = 3 /\ (w[2] = camera.codec \/ w[3] = camera.codec)
    BY <2>3
  <2>6. Len(w) \in Nat /\ 0 \in {0, 1}
    BY <2>5
  <2>4. Coded(wire)' /\ (Whole(wire) => Whole(wire)')
    <3> HIDE DEF Coded, Whole
    <3>. QED BY <2>1, <2>3, <2>5, <2>6, <1>1
  <2>. QED BY <2>1, <2>4 DEF CodecInv, Words
<1>4. CASE RollNonce
  <2>1. camera'.codec = camera.codec /\ upset'["cut"] = upset["cut"]
    BY <1>0, <1>4 DEF RollNonce, CameraTypes, Upset, Upsets
  <2>. QED BY <2>1, <1>4 DEF RollNonce, CodecInv, Described, Words, mainVars, parsed
<1>5. CASE HangUp
  <2>1. camera'.codec = camera.codec
    BY <1>0, <1>5 DEF HangUp, CameraTypes
  <2>. QED BY <2>1, <1>5 DEF HangUp, CodecInv, Described, Words, mainVars, parsed
<1>6. ASSUME NEW k \in DOMAIN Method, Send(k) PROVE CodecInv'
  <2>1. /\ UNCHANGED <<camera, wire, got, upset, tcpPc, TRACK, TYPE, codecType>>
        /\ mainPc = <<"send", k>> /\ mainPc' = <<"wait", k>>
    BY <1>6 DEF Send, Sending, parsed
  <2>2. k = 5 => TRACK
    BY <1>6 DEF Send, Makeable, Method
  <2>3. mainPc'[2] = k /\ mainPc[2] = k /\ (mainPc' = <<"wait", 5>> => k = 5)
    BY <2>1
  <2>. QED BY <2>1, <2>2, <2>3 DEF CodecInv, Described, Words
<1>7. ASSUME NEW k \in DOMAIN Method, SendAborts(k) PROVE CodecInv'
  BY <1>7 DEF SendAborts, CodecInv, Described, Words, mainVars, parsed
<1>8. ASSUME NEW k \in DOMAIN Method, Wait(k) PROVE CodecInv'
  <2>1. /\ UNCHANGED <<camera, wire, got, upset, tcpPc, TRACK, TYPE>>
        /\ mainPc = <<"wait", k>> /\ mainPc' = After(k)
        /\ codecType' = IF k = 5 THEN TYPE ELSE codecType
    BY <1>8 DEF Wait, parsed
  <2>2. mainPc'[2] = 6 => k \in {5, 6}
    BY <2>1, <1>0 DEF After
  <2>3. mainPc'[1] # "wait"
    BY <2>1, <1>0 DEF After
  <2>4. k \in {5, 6} => TRACK
    BY <2>1 DEF CodecInv
  <2>5. mainPc' # <<"wait", 5>>
    BY <2>3
  <2>6. upset["cut"] = 0 /\ mainPc'[2] = 6 => codecType' = camera.codec
    <3>1. CASE k = 5
      BY <3>1, <2>1, <2>4 DEF CodecInv
    <3>2. CASE k = 6
      BY <3>2, <2>1 DEF CodecInv
    <3>. QED BY <3>1, <3>2, <2>2
  <2>. QED BY <2>1, <2>2, <2>4, <2>5, <2>6 DEF CodecInv, Described, Words
<1>9. CASE OpenReports
  <2>1. /\ UNCHANGED <<camera, wire, got, upset, tcpPc, TRACK, TYPE, codecType>>
        /\ mainPc = <<"ports", 6>> /\ mainPc' \in {mainPc, <<"done", 6>>}
    BY <1>9 DEF OpenReports, parsed
  <2>2. mainPc[2] = 6 /\ mainPc'[2] = 6 /\ mainPc' # <<"wait", 5>>
    BY <2>1
  <2>. QED BY <2>1, <2>2 DEF CodecInv, Described, Words
<1>10. CASE Read
  <2>1. PICK n \in 1 .. Len(wire) :
          /\ got' = SubSeq(wire, 1, n) /\ wire' = SubSeq(wire, n + 1, Len(wire))
          /\ IF wire[n].last THEN UNCHANGED upset ELSE Upset("cut")
    BY <1>10 DEF Read
  <2>2. UNCHANGED <<camera, TRACK, TYPE, mainPc, codecType>>
    BY <1>10 DEF Read, mainVars, parsed
  <2>3. /\ Len(wire) \in Nat /\ n \in Nat /\ n >= 1 /\ n <= Len(wire)
        /\ DOMAIN got' = 1 .. n /\ DOMAIN wire' = 1 .. Len(wire) - n
        /\ \A k \in 1 .. n : got'[k] = wire[k]
        /\ \A k \in 1 .. Len(wire) - n : wire'[k] = wire[n + k]
    BY <1>0, <2>1, ReadWords
  <2>4. Coded(wire)'
    <3>1. ASSUME NEW i \in 1 .. Len(wire) - n, wire'[i].word \in {"H264", "H265"}
          PROVE  wire'[i].word = camera.codec
      <4>1. n + i \in 1 .. Len(wire)
        BY <2>3
      <4>. QED BY <4>1, <3>1, <2>3, <1>0 DEF CodecInv
    <3>. QED BY <3>1, <2>2, <2>3
  <2>5. Coded(got)'
    <3>1. \A i \in 1 .. n : i \in 1 .. Len(wire)
      BY <2>3
    <3>. QED BY <3>1, <2>2, <2>3, <1>0 DEF CodecInv
  <2>6. upset'["cut"] = 0 => upset["cut"] = 0 /\ wire[n].last
    <3>1. CASE wire[n].last
      BY <3>1, <2>1
    <3>2. CASE ~wire[n].last
      <4>1. upset'["cut"] = upset["cut"] + 1 /\ upset["cut"] \in Nat
        BY <3>2, <2>1, <1>0 DEF Upset, Upsets
      <4>2. upset'["cut"] # 0
        BY <4>1
      <4>. QED BY <4>2
    <3>. QED BY <3>1, <3>2
  <2>7. ASSUME upset["cut"] = 0, wire[n].last, NEW i \in 1 .. Len(wire) - n,
               wire'[i].word = "v="
        PROVE  Described(wire, i)'
    <3>1. n + i \in 1 .. Len(wire) /\ wire'[i] = wire[n + i]
      BY <2>3
    <3>2. Described(wire, n + i)
      BY <3>1, <2>7, <1>0 DEF CodecInv
    <3>3. /\ (n + i) + 2 \in 1 .. Len(wire) /\ ~wire[n + i].last /\ ~wire[(n + i) + 1].last
          /\ \E j \in {(n + i) + 1, (n + i) + 2} : wire[j].word = camera.codec
      BY <3>2, <1>0 DEF Described
    <3>4. /\ i + 2 \in 1 .. Len(wire) - n /\ i + 1 \in 1 .. Len(wire) - n
          /\ (n + i) + 1 = n + (i + 1) /\ (n + i) + 2 = n + (i + 2)
      BY <3>3, <2>3
    <3>5. wire'[i + 1] = wire[(n + i) + 1] /\ wire'[i + 2] = wire[(n + i) + 2]
      BY <3>4, <2>3
    <3>. QED BY <3>1, <3>3, <3>4, <3>5, <2>2, <2>3 DEF Described
  <2>8. ASSUME upset["cut"] = 0, wire[n].last, "v=" \in Words'
        PROVE  camera.codec \in Words'
    <3>1. PICK i \in 1 .. n : got'[i].word = "v="
      BY <2>3, <2>8 DEF Words
    <3>2. i \in 1 .. Len(wire) /\ wire[i].word = "v="
      BY <3>1, <2>3
    <3>3. Described(wire, i)
      BY <3>2, <2>8, <1>0 DEF CodecInv
    <3>4. i # n /\ i + 1 # n
      BY <3>3, <2>8 DEF Described
    <3>5. i + 1 \in 1 .. n /\ i + 2 \in 1 .. n
      BY <3>1, <3>4, <2>3
    <3>6. got'[i + 1] = wire[i + 1] /\ got'[i + 2] = wire[i + 2]
      BY <3>5, <2>3
    <3>. QED BY <3>3, <3>5, <3>6, <2>3 DEF Described, Words
  <2>. QED BY <2>2, <2>3, <2>4, <2>5, <2>6, <2>7, <2>8 DEF CodecInv
<1>11. CASE ParseChallenge
  <2>1. /\ UNCHANGED <<camera, wire, got, upset, TRACK, TYPE, mainPc, codecType>>
        /\ tcpPc' # "parse"
    BY <1>11 DEF ParseChallenge, Parsing, mainVars
  <2>. QED BY <2>1 DEF CodecInv, Described, Words
<1>12. CASE ParseNonce
  <2>1. /\ UNCHANGED <<camera, wire, got, upset, TRACK, TYPE, mainPc, codecType>>
        /\ tcpPc' # "parse"
    BY <1>12 DEF ParseNonce, Parsing, mainVars
  <2>. QED BY <2>1 DEF CodecInv, Described, Words
<1>13. CASE ParseSession
  <2>1. /\ UNCHANGED <<camera, wire, got, upset, TRACK, TYPE, mainPc, codecType>>
        /\ tcpPc' # "parse"
    BY <1>13 DEF ParseSession, Parsing, mainVars
  <2>. QED BY <2>1 DEF CodecInv, Described, Words
<1>14. CASE ParseOther
  <2>1. /\ UNCHANGED <<camera, wire, got, upset, mainPc, codecType>>
        /\ tcpPc = "parse" /\ tcpPc' # "parse"
    BY <1>14 DEF ParseOther, Parsing, mainVars, At
  <2>2. TRACK => TRACK'
    BY <1>14 DEF ParseOther
  <2>3. upset["cut"] = 0 /\ TRACK' => TYPE' = camera.codec
    <3>1. CASE {"v=", "track"} \subseteq Words
      <4> SUFFICES ASSUME upset["cut"] = 0 PROVE TYPE' = camera.codec
        OBVIOUS
      <4>1. camera.codec \in Codecs
        BY <3>1, <2>1, <1>0 DEF CodecInv, Codecs, CameraTypes
      <4>2. TYPE' \in Codecs
        BY <4>1, <3>1, <1>14 DEF ParseOther
      <4>3. \A c \in Codecs : c = camera.codec
        BY DEF Codecs, Words, CodecInv
      <4>. QED BY <4>2, <4>3
    <3>2. CASE ~({"v=", "track"} \subseteq Words)
      BY <3>2, <1>14 DEF ParseOther, CodecInv
    <3>. QED BY <3>1, <3>2
  <2>. QED BY <2>1, <2>2, <2>3 DEF CodecInv, Described, Words
<1>15. CASE Post
  <2>1. /\ UNCHANGED <<camera, wire, upset, TRACK, TYPE, mainPc, codecType>>
        /\ tcpPc' # "parse" /\ got' = <<>>
    BY <1>15 DEF Post, mainVars, parsed
  <2>2. DOMAIN got' = {}
    BY <2>1
  <2>. QED BY <2>1, <2>2 DEF CodecInv, Described, Words
<1>16. CASE UNCHANGED vars
  BY <1>16 DEF vars, mainVars, parsed, CodecInv, Described, Words
<1>. QED BY <1>2, <1>3, <1>4, <1>5, <1>6, <1>7, <1>8, <1>9, <1>10, <1>11,
            <1>12, <1>13, <1>14, <1>15, <1>16 DEF Next, Camera, Main, Tcp


-----------------------------------------------------------------------------
(* A login nothing goes wrong with.                                        *)

LEMMA ProtectedOnwards ==
  ASSUME CameraTypes
  PROVE  /\ Protects("OPTIONS") => Protects("DESCRIBE")
         /\ Protects("DESCRIBE") => Protects("SETUP")
         /\ Protects("SETUP") => Protects("PLAY")
         /\ SetupFirst => camera.protects = {"SETUP", "PLAY"}
         /\ Protects("PLAY") /\ ~Protects("SETUP") => camera.protects = {"PLAY"}
<1>1. PICK k \in 1 .. 7 : camera.protects = {Method[i] : i \in k .. 6}
  BY DEF CameraTypes
<1>2. /\ Method[1] = "OPTIONS" /\ Method[2] = "OPTIONS" /\ Method[3] = "DESCRIBE"
      /\ Method[4] = "DESCRIBE" /\ Method[5] = "SETUP" /\ Method[6] = "PLAY"
  BY DEF Method
<1>3. /\ Protects("OPTIONS") <=> k <= 2
      /\ Protects("DESCRIBE") <=> k <= 4
      /\ Protects("SETUP") <=> k <= 5
      /\ Protects("PLAY") <=> k <= 6
  <2>1. \A m : Protects(m) <=> \E i \in 1 .. 6 : i >= k /\ Method[i] = m
    BY <1>1 DEF Protects
  <2>2. \A i \in 1 .. 6 : i = 1 \/ i = 2 \/ i = 3 \/ i = 4 \/ i = 5 \/ i = 6
    OBVIOUS
  <2>3. Protects("OPTIONS") <=> k <= 2
    BY <2>1, <2>2, <1>2
  <2>4. Protects("DESCRIBE") <=> k <= 4
    BY <2>1, <2>2, <1>2
  <2>5. Protects("SETUP") <=> k <= 5
    BY <2>1, <2>2, <1>2
  <2>6. Protects("PLAY") <=> k <= 6
    BY <2>1, <2>2, <1>2
  <2>. QED BY <2>3, <2>4, <2>5, <2>6
<1>4. camera.protects \subseteq Methods
  BY DEF CameraTypes
<1>5. SetupFirst => camera.protects = {"SETUP", "PLAY"}
  BY <1>3, <1>4 DEF SetupFirst, Protects, Methods
<1>6. Protects("PLAY") /\ ~Protects("SETUP") => camera.protects = {"PLAY"}
  BY <1>3, <1>4 DEF Protects, Methods
<1>. QED BY <1>3, <1>5, <1>6

(* The six requests, by number: who is refused has not answered before.    *)
LEMMA RefusedOnce ==
  ASSUME CameraTypes, NEW k \in 1 .. 6
  PROVE  /\ Refused(k) => ~Certified(k) /\ k \in {1, 3, 5, 6}
         /\ k = 1 => (Refused(k) <=> Protects("OPTIONS")) /\ ~Certified(k)
         /\ k = 2 => ~Refused(k) /\ Certified(k)
         /\ k = 3 => /\ Refused(k) <=> Protects("DESCRIBE") /\ ~Protects("OPTIONS")
                     /\ Certified(k) <=> Protects("OPTIONS")
         /\ k = 4 => ~Refused(k) /\ Certified(k)
         /\ k = 5 => (Refused(k) <=> SetupFirst) /\ (Certified(k) <=> Protects("DESCRIBE"))
         /\ k = 6 => /\ Refused(k) <=> Protects("PLAY") /\ ~Protects("SETUP")
                     /\ Certified(k) <=> Protects("SETUP")
<1>1. CASE k = 1
  BY <1>1 DEF Refused, Certified
<1>2. CASE k = 2
  BY <1>2 DEF Refused, Certified
<1>3. CASE k = 3
  BY <1>3 DEF Refused, Certified
<1>4. CASE k = 4
  BY <1>4 DEF Refused, Certified
<1>5. CASE k = 5
  BY <1>5 DEF Refused, Certified, SetupFirst
<1>6. CASE k = 6
  BY <1>6 DEF Refused, Certified
<1>. QED BY <1>1, <1>2, <1>3, <1>4, <1>5, <1>6

LEMMA InitSmooth == Init => PostsInv /\ PostsKept /\ CodecInv /\ SmoothInv
<1> SUFFICES ASSUME Init PROVE PostsInv /\ PostsKept /\ CodecInv /\ SmoothInv
  OBVIOUS
<1>1. /\ wire = <<>> /\ got = <<>> /\ tcpPc = "read" /\ taken = 0 /\ sem_tcpmsg = 0
      /\ answered = 0 /\ asked = <<>> /\ mainPc = <<"send", 1>> /\ aborted = FALSE
      /\ need_certify = FALSE /\ NONECE = 0 /\ SESSION = FALSE /\ TRACK = FALSE
      /\ RTCP_SERVER_PORT = FALSE /\ isfirst = TRUE /\ isfirst2 = TRUE
      /\ upset["cut"] = 0 /\ upset["unasked"] = 0
  BY DEF Init, Upsets
<1>2. PostsInv
  <2>1. UnaskedIn(wire) = {} /\ EndedIn(got) = {}
    BY <1>1 DEF UnaskedIn, EndedIn
  <2>2. Cardinality(UnaskedIn(wire)) = 0 /\ Cardinality(EndedIn(got)) = 0
    BY <2>1, FS_EmptySet
  <2>. QED BY <1>1, <2>2 DEF PostsInv
<1>3. CodecInv
  <2>1. DOMAIN wire = {} /\ DOMAIN got = {}
    BY <1>1
  <2>2. mainPc # <<"wait", 5>> /\ mainPc[2] # 6 /\ tcpPc # "parse"
    BY <1>1
  <2>. QED BY <1>1, <2>1, <2>2 DEF CodecInv
<1>4. SmoothInv
  <2>1. camera.nonce = 1
    BY DEF Init
  <2>2. mainPc[1] = "send" /\ mainPc[2] = 1
    BY <1>1
  <2>3. CameraTypes
    BY InitLogin DEF LoginTypes
  <2>4. ~Certified(1)
    BY <2>3, RefusedOnce
  <2>5. Before(1)
    <3>1. ~(1 >= 5) /\ 1 # 6
      OBVIOUS
    <3>. QED BY <1>1, <2>4, <3>1 DEF Before, Found
  <2>6. Reached(1)
    BY DEF Reached
  <2>7. Phase(1)
    BY <2>2, <2>5, <1>1 DEF Phase, Quiet
  <2>. QED BY <1>1, <2>1, <2>2, <2>6, <2>7 DEF SmoothInv
<1>5. PostsKept
  BY <1>1 DEF PostsKept
<1>. QED BY <1>2, <1>3, <1>4, <1>5

LEMMA StaysSmooth ==
  ASSUME LoginTypes, [Next]_vars, Smooth'
  PROVE  /\ Smooth /\ upset' = upset
         /\ camera'.protects = camera.protects /\ camera'.nonce = camera.nonce
         /\ camera'.codec = camera.codec
         /\ ~Unasked /\ ~RollNonce /\ ~HangUp
<1>0. /\ upset \in [Upsets -> Nat]
      /\ camera \in [protects : SUBSET Methods, swap : BOOLEAN, codec : {"H264", "H265"},
                     nonce : Nat \ {0}, streams : BOOLEAN, on : BOOLEAN]
  BY DEF LoginTypes, CameraTypes
<1>1. (\A u \in Upsets : upset'[u] = 0) /\ camera'.on
  BY DEF Smooth, Never
<1>2. ASSUME NEW u \in Upsets PROVE ~Upset(u)
  <2>1. ASSUME Upset(u) PROVE FALSE
    <3>1. upset'[u] = upset[u] + 1 /\ upset[u] \in Nat
      BY <2>1, <1>0 DEF Upset
    <3>2. upset'[u] = 0
      BY <1>1
    <3>. QED BY <3>1, <3>2
  <2>. QED BY <2>1
<1>3. "unasked" \in Upsets /\ "rolled" \in Upsets /\ "cut" \in Upsets
  BY DEF Upsets
<1>4. ~Unasked /\ ~RollNonce
  BY <1>2, <1>3 DEF Unasked, RollNonce
<1>5. ~HangUp
  BY <1>0, <1>1 DEF HangUp
<1>6. Read => upset' = upset
  BY <1>2, <1>3 DEF Read
<1>7. upset' = upset /\ (camera' = camera \/ Answer)
  <2>1. CASE Answer
    BY <2>1 DEF Answer
  <2>2. CASE \E k \in DOMAIN Method : Send(k) \/ SendAborts(k) \/ Wait(k)
    BY <2>2 DEF Send, SendAborts, Wait
  <2>3. CASE OpenReports
    BY <2>3 DEF OpenReports
  <2>4. CASE Tcp
    <3>1. CASE Read
      BY <3>1, <1>6 DEF Read
    <3>2. CASE ParseChallenge
      BY <3>2 DEF ParseChallenge, Parsing
    <3>3. CASE ParseNonce
      BY <3>3 DEF ParseNonce, Parsing
    <3>4. CASE ParseSession
      BY <3>4 DEF ParseSession, Parsing
    <3>5. CASE ParseOther
      BY <3>5 DEF ParseOther, Parsing
    <3>6. CASE Post
      BY <3>6 DEF Post
    <3>. QED BY <2>4, <3>1, <3>2, <3>3, <3>4, <3>5, <3>6 DEF Tcp
  <2>5. CASE UNCHANGED vars
    BY <2>5 DEF vars
  <2>. QED BY <2>1, <2>2, <2>3, <2>4, <2>5, <1>4, <1>5 DEF Next, Camera, Main
<1>8. /\ camera'.protects = camera.protects /\ camera'.nonce = camera.nonce
      /\ camera'.codec = camera.codec /\ camera'.on = camera.on
  BY <1>0, <1>7 DEF Answer
<1>9. Smooth
  BY <1>1, <1>7, <1>8 DEF Smooth, Never
<1>. QED BY <1>4, <1>5, <1>7, <1>8, <1>9

(* What depends only on what the camera protects.                          *)
LEMMA SameRefusals ==
  ASSUME camera'.protects = camera.protects, camera'.codec = camera.codec, NEW k \in 1 .. 6
  PROVE  /\ Refused(k)' <=> Refused(k)
         /\ Certified(k)' <=> Certified(k)
         /\ SetupFirst' <=> SetupFirst
         /\ Reached(k)' <=> Reached(k)
         /\ ReplyWords(k)' = ReplyWords(k)
<1>1. \A m : Protects(m)' <=> Protects(m)
  BY DEF Protects
<1>2. SetupFirst' <=> SetupFirst
  BY <1>1 DEF SetupFirst
<1>3. (Refused(k)' <=> Refused(k)) /\ (Refused(3)' <=> Refused(3)) /\ (Certified(k)' <=> Certified(k))
  BY <1>1, <1>2 DEF Refused, Certified
<1>4. Reached(k)' <=> Reached(k)
  BY <1>1, <1>3 DEF Reached
<1>5. ReplyWords(k)' = ReplyWords(k)
  BY <1>3 DEF ReplyWords
<1>. QED BY <1>2, <1>3, <1>4, <1>5

(* The answer the camera makes to the one request on its way.              *)
LEMMA ReplyMade ==
  ASSUME CameraTypes, camera.nonce = 1, NEW k \in 1 .. 6, NEW r,
         r.method = Method[k], r.nonce = IF k # 1 /\ Certified(k) THEN 1 ELSE 0
  PROVE  /\ Refuses(r) <=> Refused(k)
         /\ Reply(r) # <<>>
         /\ {Reply(r)[i] : i \in 1 .. Len(Reply(r))} = ReplyWords(k)
<1>1. /\ Method[1] = "OPTIONS" /\ Method[2] = "OPTIONS" /\ Method[3] = "DESCRIBE"
      /\ Method[4] = "DESCRIBE" /\ Method[5] = "SETUP" /\ Method[6] = "PLAY"
  BY DEF Method
<1>2. Refuses(r) <=> Refused(k)
  <2>1. Refuses(r) <=> Protects(Method[k]) /\ ~(k # 1 /\ Certified(k))
    BY DEF Refuses, Protects
  <2>2. CASE k \in {1, 2}
    BY <2>1, <2>2, <1>1, RefusedOnce
  <2>3. CASE k \in {3, 4}
    BY <2>1, <2>3, <1>1, RefusedOnce
  <2>4. CASE k = 5
    BY <2>1, <2>4, <1>1, RefusedOnce DEF SetupFirst
  <2>5. CASE k = 6
    BY <2>1, <2>5, <1>1, RefusedOnce
  <2>. QED BY <2>2, <2>3, <2>4, <2>5
<1>3. ASSUME NEW a, NEW b PROVE <<a, b>> # <<>> /\ {<<a, b>>[i] : i \in 1 .. Len(<<a, b>>)} = {a, b}
  <2>1. Len(<<a, b>>) = 2 /\ 1 .. 2 = {1, 2}
    OBVIOUS
  <2>. QED BY <2>1
<1>4. ASSUME NEW a, NEW b, NEW c
      PROVE <<a, b, c>> # <<>> /\ {<<a, b, c>>[i] : i \in 1 .. Len(<<a, b, c>>)} = {a, b, c}
  <2>1. Len(<<a, b, c>>) = 3 /\ 1 .. 3 = {1, 2, 3}
    OBVIOUS
  <2>. QED BY <2>1
<1> DEFINE Says(s, ws) == s # <<>> /\ {s[i] : i \in 1 .. Len(s)} = ws
<1>5. /\ \A a, b : Says(<<a, b>>, {a, b})
      /\ \A a, b, c : Says(<<a, b, c>>, {a, b, c})
  BY <1>3, <1>4
<1> HIDE DEF Says
<1>6. Says(Reply(r), ReplyWords(k))
  <2>1. CASE Refused(k)
    BY <2>1, <1>2, <1>5 DEF Reply, ReplyWords
  <2>2. CASE ~Refused(k) /\ k \in {3, 4}
    <3>1. ~Refuses(r) /\ r.method = "DESCRIBE"
      BY <2>2, <1>1, <1>2
    <3>2. \/ Reply(r) = <<"v=", "track", camera.codec>>
          \/ Reply(r) = <<"v=", camera.codec, "track">>
      BY <3>1 DEF Reply
    <3>3. ReplyWords(k) = {"v=", "track", camera.codec}
      BY <2>2 DEF ReplyWords
    <3>4. {"v=", camera.codec, "track"} = {"v=", "track", camera.codec}
      OBVIOUS
    <3>. QED BY <3>2, <3>3, <3>4, <1>5
  <2>3. CASE ~Refused(k) /\ k = 5
    <3>1. ~Refuses(r) /\ r.method = "SETUP"
      BY <2>3, <1>1, <1>2
    <3>2. Reply(r) = <<"server_port", "Session">> \/ Reply(r) = <<"Session", "server_port">>
      BY <3>1 DEF Reply
    <3>3. ReplyWords(k) = {"Session", "server_port"}
      BY <2>3 DEF ReplyWords
    <3>4. {"server_port", "Session"} = {"Session", "server_port"}
      OBVIOUS
    <3>. QED BY <3>2, <3>3, <3>4, <1>5
  <2>4. CASE ~Refused(k) /\ k = 6
    <3>1. ~Refuses(r) /\ r.method = "PLAY"
      BY <2>4, <1>1, <1>2
    <3>2. Reply(r) = <<"ok", "Session">>
      BY <3>1 DEF Reply
    <3>3. ReplyWords(k) = {"ok", "Session"}
      BY <2>4 DEF ReplyWords
    <3>. QED BY <3>2, <3>3, <1>5
  <2>5. CASE ~Refused(k) /\ k \in {1, 2}
    <3>1. ~Refuses(r) /\ r.method = "OPTIONS"
      BY <2>5, <1>1, <1>2
    <3>2. Reply(r) = <<"ok", "Public">>
      BY <3>1 DEF Reply
    <3>3. ReplyWords(k) = {"ok", "Public"}
      BY <2>5 DEF ReplyWords
    <3>. QED BY <3>2, <3>3, <1>5
  <2>. QED BY <2>1, <2>2, <2>3, <2>4, <2>5
<1>. QED BY <1>2, <1>6 DEF Says

(* The steps of the three sides, in a login nothing goes wrong with.       *)
LEMMA SmoothAnswer ==
  ASSUME LoginTypes, camera.nonce = 1, Answer, ~aborted, Phase(mainPc[2])
  PROVE  Phase(mainPc[2])'
<1> DEFINE k == mainPc[2]
<1>0. /\ CameraTypes /\ k \in 1 .. 6 /\ wire \in Seq(Word)
      /\ mainPc[1] \in {"send", "wait", "ports", "done"}
  <2>1. DOMAIN Method = 1 .. 6
    BY DEF Method
  <2>. QED BY <2>1 DEF LoginTypes
<1>1. /\ asked # <<>> /\ asked' = Tail(asked) /\ wire' = wire \o Message(Reply(Head(asked)), 1)
      /\ UNCHANGED <<mainPc, is_certifed, need_certify, NONECE, SESSION, TRACK, TYPE,
                     RTCP_SERVER_PORT, isfirst, isfirst2, sem_tcpmsg, tcpPc, got>>
      /\ camera' = [camera EXCEPT !.streams = @ \/ (Head(asked).method = "PLAY" /\ ~Refuses(Head(asked)))]
  BY DEF Answer, mainVars, parsed
<1>2. /\ camera'.protects = camera.protects /\ camera'.codec = camera.codec
      /\ camera'.nonce = camera.nonce
      /\ camera'.streams <=> camera.streams \/ (Head(asked).method = "PLAY" /\ ~Refuses(Head(asked)))
  BY <1>0, <1>1 DEF CameraTypes
<1>3. mainPc[1] = "wait"
  BY <1>0, <1>1 DEF Phase, Quiet
<1> HIDE DEF k
<1>4. OnItsWay(k) /\ (k = 6 => ~SetupFirst) /\ (k = 3 => (is_certifed <=> Certified(3)))
  BY <1>3 DEF Phase, k
<1> DEFINE req == [method |-> Method[k], nonce |-> IF k # 1 /\ Certified(k) THEN 1 ELSE 0]
<1>5. /\ asked = <<req>> /\ wire = <<>> /\ got = <<>> /\ tcpPc = "read" /\ sem_tcpmsg = 0
      /\ Before(k)
  BY <1>1, <1>4 DEF OnItsWay
<1>6. Head(asked) = req /\ Tail(asked) = <<>>
  BY <1>5
<1>7. req.method = Method[k] /\ req.nonce = IF k # 1 /\ Certified(k) THEN 1 ELSE 0
  OBVIOUS
<1> HIDE DEF req
<1>8. /\ Refuses(req) <=> Refused(k)
      /\ Reply(req) # <<>> /\ {Reply(req)[i] : i \in 1 .. Len(Reply(req))} = ReplyWords(k)
  BY <1>0, <1>7, ReplyMade
<1>9. Answers(wire', k)
  <2> DEFINE m == Message(Reply(req), 1)
             l == Len(Reply(req))
  <2>1. Reply(req) \in Seq(Texts) /\ l \in {2, 3}
    BY <1>0, ReplyFacts
  <2>2. /\ m \in Seq(Word) /\ Len(m) = l
        /\ \A i \in 1 .. l : /\ m[i].word = Reply(req)[i] /\ m[i].nonce = camera.nonce
                             /\ m[i].last <=> i = l
    BY <1>0, <2>1, MessageFacts
  <2> HIDE DEF m
  <2>3. wire' = <<>> \o m
    BY <1>1, <1>5, <1>6 DEF m
  <2>4. wire' = m
    BY <2>2, <2>3, ConcatEmptySeq
  <2>5. DOMAIN m = 1 .. l
    BY <2>2, LenProperties
  <2>6. m # <<>>
    BY <2>1, <2>2
  <2>7. {m[i].word : i \in DOMAIN m} = ReplyWords(k)
    <3>1. \A i \in DOMAIN m : m[i].word = Reply(req)[i]
      BY <2>2, <2>5
    <3>2. {m[i].word : i \in DOMAIN m} = {Reply(req)[i] : i \in 1 .. l}
      BY <2>5, <3>1
    <3>. QED BY <3>2, <1>8
  <2> HIDE DEF l
  <2>. QED BY <2>2, <2>4, <2>5, <2>6, <2>7 DEF Answers
<1>10. Played6(k)'
  <2>1. k' = k
    BY <1>1 DEF k
  <2>2. k = 6 => req.method = "PLAY"
    BY <1>7 DEF Method
  <2>3. Refused(6)' <=> Refused(6)
    BY <1>2, SameRefusals
  <2>. QED BY <2>1, <2>2, <2>3, <1>2, <1>6, <1>8 DEF Played6
<1>11. k' = k /\ mainPc' = mainPc
  BY <1>1 DEF k
<1>18. ASSUME NEW j \in 1 .. 6
       PROVE  /\ (Certified(j)' <=> Certified(j)) /\ (SetupFirst' <=> SetupFirst)
              /\ ReplyWords(j)' = ReplyWords(j)
  BY <1>2, SameRefusals
<1>12. Before(k)'
  <2>1. (Certified(k)' <=> Certified(k)) /\ (SetupFirst' <=> SetupFirst)
    BY <1>0, <1>11, <1>18
  <2>. QED BY <1>1, <1>5, <1>11, <2>1 DEF Before, Found
<1>13. Answers(wire, k)'
  <2>1. ReplyWords(k)' = ReplyWords(k)
    BY <1>0, <1>11, <1>18
  <2>. QED BY <1>9, <1>11, <2>1 DEF Answers
<1>14. OnItsWay(k)'
  BY <1>1, <1>5, <1>6, <1>10, <1>12, <1>13 DEF OnItsWay
<1>15. (SetupFirst' <=> SetupFirst) /\ (Certified(3)' <=> Certified(3))
  BY <1>2, SameRefusals
<1>16. (k = 6 => ~SetupFirst)' /\ (k = 3 => (is_certifed <=> Certified(3)))'
  BY <1>1, <1>4, <1>11, <1>15
<1>17. mainPc'[1] = "wait"
  BY <1>3, <1>11
<1>. QED BY <1>14, <1>16, <1>17 DEF Phase, k

(* main sends a request, or cannot.                                        *)
LEMMA SmoothSend ==
  ASSUME LoginTypes, camera.on, NEW k \in 1 .. 6, mainPc = <<"send", k>>, ~aborted, Phase(k)
  PROVE  /\ Send(k) => mainPc' = <<"wait", k>> /\ Phase(k)'
         /\ SendAborts(k) => aborted' /\ mainPc' = <<"send", 6>> /\ SetupFirst'
<1>0. Quiet /\ Before(k) /\ mainPc[1] = "send"
  BY DEF Phase
<1>1. ASSUME Send(k) PROVE mainPc' = <<"wait", k>> /\ Phase(k)'
  <2>1. /\ mainPc' = <<"wait", k>> /\ camera' = camera
        /\ asked' = Append(asked, [method |-> Method[k], nonce |-> Response(k)])
        /\ is_certifed' = IF k = 3 THEN need_certify ELSE is_certifed
        /\ UNCHANGED <<need_certify, NONECE, SESSION, TRACK, TYPE,
                       RTCP_SERVER_PORT, isfirst, isfirst2, sem_tcpmsg, tcpPc, got, wire>>
    BY <1>1 DEF Send, parsed
  <2>2. Response(k) = IF k # 1 /\ Certified(k) THEN 1 ELSE 0
    BY <1>0 DEF Before, Found, Response, WithAuthor
  <2>3. asked' = <<[method |-> Method[k], nonce |-> IF k # 1 /\ Certified(k) THEN 1 ELSE 0]>>
    BY <1>0, <2>1, <2>2 DEF Quiet
  <2>4. k = 6 => ~SetupFirst
    BY <1>0, <1>1 DEF Send, Makeable, Method, Before, Found
  <2>5. (Certified(k)' <=> Certified(k)) /\ (SetupFirst' <=> SetupFirst) /\ (Certified(3)' <=> Certified(3))
    BY <2>1, SameRefusals
  <2>6. Before(k)'
    BY <1>0, <2>1, <2>5 DEF Before, Found
  <2>7. OnItsWay(k)'
    BY <1>0, <2>1, <2>3, <2>5, <2>6 DEF OnItsWay, Quiet
  <2>8. k = 3 => (is_certifed' <=> Certified(3)')
    BY <1>0, <2>1, <2>5 DEF Before, Found
  <2>9. mainPc'[1] = "wait"
    BY <2>1
  <2>. QED BY <2>1, <2>4, <2>5, <2>7, <2>8, <2>9 DEF Phase
<1>2. ASSUME SendAborts(k) PROVE aborted' /\ mainPc' = <<"send", 6>> /\ SetupFirst'
  <2>1. aborted' /\ mainPc' = mainPc /\ camera' = camera /\ ~Makeable(k)
    BY <1>2 DEF SendAborts, mainVars
  <2>2. k = 6 /\ ~SESSION
    <3>1. k >= 5 => TRACK
      BY <1>0 DEF Before, Found
    <3>. QED BY <2>1, <3>1 DEF Makeable, Method
  <2>3. SetupFirst
    BY <1>0, <2>2 DEF Before, Found
  <2>. QED BY <2>1, <2>2, <2>3 DEF SetupFirst, Protects
<1>. QED BY <1>1, <1>2

(* main goes on when the answer is in.                                     *)
LEMMA SmoothWait ==
  ASSUME CameraTypes, sem_tcpmsg \in Nat, NEW k \in 1 .. 6, mainPc = <<"wait", k>>, Wait(k),
         Phase(k), Reached(k)
  PROVE  mainPc'[2] \in 1 .. 6 /\ Reached(mainPc[2])' /\ Phase(mainPc[2])'
<1>1. /\ sem_tcpmsg > 0 /\ sem_tcpmsg' = sem_tcpmsg - 1 /\ mainPc' = After(k)
      /\ UNCHANGED <<is_certifed, need_certify, NONECE, SESSION, TRACK, TYPE, RTCP_SERVER_PORT,
                     isfirst, isfirst2, tcpPc, got, asked, wire, camera>>
  BY DEF Wait, parsed
<1>2. OnItsWay(k) /\ (k = 6 => ~SetupFirst) /\ (k = 3 => (is_certifed <=> Certified(3)))
  BY DEF Phase
<1>3. /\ asked = <<>> /\ wire = <<>> /\ got = <<>> /\ tcpPc = "read" /\ sem_tcpmsg = 1
      /\ Heard(k) /\ Played6(k)
  BY <1>1, <1>2 DEF OnItsWay
<1>4. Quiet'
  BY <1>1, <1>3 DEF Quiet
<1>5. /\ Protects("OPTIONS") => Protects("DESCRIBE")
      /\ Protects("DESCRIBE") => Protects("SETUP")
  BY ProtectedOnwards
<1>6. \A j \in 1 .. 6 : /\ Refused(j)' <=> Refused(j)
                        /\ Certified(j)' <=> Certified(j)
                        /\ Reached(j)' <=> Reached(j)
                        /\ SetupFirst' <=> SetupFirst
  BY <1>1, SameRefusals
<1> DEFINE Same == UNCHANGED <<need_certify, NONECE, SESSION, TRACK, RTCP_SERVER_PORT, isfirst, isfirst2>>
<1>7. Same
  BY <1>1
<1>8. ASSUME NEW j \in 1 .. 6, After(k) = <<"send", j>>, Reached(j), Before(j)
      PROVE  mainPc'[2] \in 1 .. 6 /\ Reached(mainPc[2])' /\ Phase(mainPc[2])'
  <2>1. mainPc'[1] = "send" /\ mainPc'[2] = j
    BY <1>1, <1>8
  <2>2. Reached(j)'
    BY <1>6, <1>8
  <2>3. Before(j)'
    BY <1>6, <1>7, <1>8 DEF Before, Found
  <2>4. Phase(j)'
    BY <1>4, <2>1, <2>3 DEF Phase
  <2>. QED BY <2>1, <2>2, <2>4
<1> HIDE DEF Same
<1>20. CASE k = 1
  <2>1. Found(Protects("OPTIONS"), FALSE, FALSE)
    BY <1>20, <1>3, RefusedOnce DEF Heard, Found
  <2>2. CASE need_certify
    <3>1. After(k) = <<"send", 2>>
      BY <1>20, <2>2 DEF After
    <3>2. Reached(2) /\ Before(2)
      BY <2>1, <2>2, RefusedOnce DEF Reached, Before, Found
    <3>. QED BY <3>1, <3>2, <1>8
  <2>3. CASE ~need_certify
    <3>1. After(k) = <<"send", 3>>
      BY <1>20, <2>3 DEF After
    <3>2. Reached(3) /\ Before(3)
      BY <2>1, <2>3, RefusedOnce DEF Reached, Before, Found
    <3>. QED BY <3>1, <3>2, <1>8
  <2>. QED BY <2>2, <2>3
<1>21. CASE k = 2
  <2>1. After(k) = <<"send", 3>>
    BY <1>21 DEF After
  <2>2. Reached(3) /\ Before(3)
    BY <1>21, <1>3, RefusedOnce DEF Reached, Before, Heard, Found
  <2>. QED BY <2>1, <2>2, <1>8
<1>22. CASE k = 3
  <2>1. Found(Protects("DESCRIBE"), ~Refused(3), FALSE)
    BY <1>22, <1>3, <1>5, RefusedOnce DEF Heard, Found
  <2>2. is_certifed <=> Protects("OPTIONS")
    BY <1>22, <1>2, RefusedOnce
  <2>3. CASE Refused(3)
    <3>1. need_certify /\ ~is_certifed
      BY <2>1, <2>2, <2>3, RefusedOnce DEF Found
    <3>2. After(k) = <<"send", 4>>
      BY <1>22, <3>1 DEF After
    <3>3. Reached(4) /\ Before(4)
      BY <2>1, <2>3, RefusedOnce DEF Reached, Before, Found
    <3>. QED BY <3>2, <3>3, <1>8
  <2>4. CASE ~Refused(3)
    <3>1. ~(need_certify /\ ~is_certifed)
      BY <2>1, <2>2, <2>4, RefusedOnce DEF Found
    <3>2. After(k) = <<"send", 5>>
      BY <1>22, <3>1 DEF After
    <3>3. Reached(5) /\ Before(5)
      BY <2>1, <2>4, RefusedOnce DEF Reached, Before, Found
    <3>. QED BY <3>2, <3>3, <1>8
  <2>. QED BY <2>3, <2>4
<1>23. CASE k = 4
  <2>1. After(k) = <<"send", 5>>
    BY <1>23 DEF After
  <2>2. Refused(3)
    BY <1>23 DEF Reached
  <2>3. Protects("DESCRIBE")
    BY <2>2, RefusedOnce
  <2>4. Reached(5) /\ Before(5)
    BY <1>23, <1>3, <2>3, RefusedOnce DEF Reached, Before, Heard, Found
  <2>. QED BY <2>1, <2>4, <1>8
<1>24. CASE k = 5
  <2>1. After(k) = <<"send", 6>>
    BY <1>24 DEF After
  <2>2. Reached(6) /\ Before(6)
    BY <1>24, <1>3, <1>5, RefusedOnce DEF Reached, Before, Heard, Found, SetupFirst
  <2>. QED BY <2>1, <2>2, <1>8
<1>25. CASE k = 6
  <2>1. mainPc' = <<"ports", 6>>
    BY <1>25, <1>1 DEF After
  <2>2. mainPc'[1] = "ports" /\ mainPc'[2] = 6
    BY <2>1
  <2>3. Heard(6)'
    BY <1>25, <1>3, <1>6, <1>7 DEF Heard, Found, Same
  <2>4. Played6(6)' /\ ~SetupFirst'
    BY <1>25, <1>1, <1>2, <1>3, <1>6 DEF Played6
  <2>5. Phase(6)'
    BY <1>4, <2>2, <2>3, <2>4 DEF Phase
  <2>6. Reached(6)'
    BY DEF Reached
  <2>. QED BY <2>2, <2>5, <2>6
<1>. QED BY <1>20, <1>21, <1>22, <1>23, <1>24, <1>25

(* receive_tcp_thread reads, parses and posts the one answer.              *)
LEMMA SmoothTcp ==
  ASSUME LoginTypes, camera.nonce = 1, Tcp, upset' = upset, ~aborted, Phase(mainPc[2])
  PROVE  Phase(mainPc[2])' /\ aborted' = aborted
<1> DEFINE k == mainPc[2]
<1>0. /\ CameraTypes /\ k \in 1 .. 6 /\ wire \in Seq(Word) /\ got \in Seq(Word)
      /\ sem_tcpmsg \in Nat /\ upset \in [Upsets -> Nat]
      /\ mainPc[1] \in {"send", "wait", "ports", "done"}
  <2>1. DOMAIN Method = 1 .. 6
    BY DEF Method
  <2>. QED BY <2>1 DEF LoginTypes
<1>1. UNCHANGED <<mainPc, is_certifed, asked, camera>>
  BY DEF Tcp, Read, ParseChallenge, ParseNonce, ParseSession, ParseOther, Parsing, Post, mainVars
<1>2. mainPc[1] = "wait"
  <2>1. CASE tcpPc # "read"
    BY <1>0, <2>1 DEF Phase, Quiet
  <2>2. CASE tcpPc = "read"
    <3>1. Read
      BY <2>2 DEF Tcp, ParseChallenge, ParseNonce, ParseSession, ParseOther, Post, At
    <3>2. PICK n \in 1 .. Len(wire) : TRUE
      BY <3>1 DEF Read
    <3>3. wire # <<>>
      BY <3>2, <1>0
    <3>. QED BY <1>0, <3>3 DEF Phase, Quiet
  <2>. QED BY <2>1, <2>2
<1>3. /\ \A j \in 1 .. 6 : /\ Refused(j)' <=> Refused(j)
                           /\ Certified(j)' <=> Certified(j)
                           /\ ReplyWords(j)' = ReplyWords(j)
                           /\ SetupFirst' <=> SetupFirst
      /\ k' = k
  BY <1>1, SameRefusals
<1> HIDE DEF k
<1>4. OnItsWay(k) /\ (k = 6 => ~SetupFirst) /\ (k = 3 => (is_certifed <=> Certified(3)))
  BY <1>2 DEF Phase, k
<1>5. SUFFICES OnItsWay(k)' /\ aborted' = aborted
  <2>1. mainPc'[1] = "wait" /\ k' \in 1 .. 6
    BY <1>0, <1>1, <1>2, <1>3
  <2>2. /\ (k = 6 => ~SetupFirst)' /\ (k = 3 => (is_certifed <=> Certified(3)))'
    BY <1>1, <1>3, <1>4
  <2>3. OnItsWay(k)' => Phase(k)'
    BY <2>1, <2>2 DEF Phase
  <2>. QED BY <2>3 DEF k
<1>6. Played6(k)' <=> Played6(k)
  BY <1>1, <1>3 DEF Played6
<1>7. CASE Read
  <2>1. PICK n \in 1 .. Len(wire) :
          /\ got' = SubSeq(wire, 1, n) /\ wire' = SubSeq(wire, n + 1, Len(wire))
          /\ IF wire[n].last THEN UNCHANGED upset ELSE Upset("cut")
    BY <1>7 DEF Read
  <2>2. /\ tcpPc = "read" /\ tcpPc' = "parse" /\ aborted' = aborted
        /\ UNCHANGED <<need_certify, NONECE, SESSION, TRACK, TYPE, RTCP_SERVER_PORT,
                       isfirst, isfirst2, sem_tcpmsg>>
    BY <1>7 DEF Read, At, parsed
  <2>3. /\ Len(wire) \in Nat /\ n \in Nat /\ n >= 1 /\ n <= Len(wire)
        /\ got' \in Seq(Word) /\ wire' \in Seq(Word)
        /\ Len(got') = n /\ Len(wire') = Len(wire) - n
        /\ DOMAIN got' = 1 .. n /\ DOMAIN wire = 1 .. Len(wire)
        /\ \A i \in 1 .. n : got'[i] = wire[i]
    BY <1>0, <2>1, ReadWords, LenProperties
  <2>4. wire # <<>>
    BY <2>3
  <2>5. /\ asked = <<>> /\ Answers(wire, k) /\ sem_tcpmsg = 0 /\ Before(k) /\ Played6(k)
    BY <1>4, <2>2, <2>4 DEF OnItsWay
  <2>6. wire[n].last
    <3>1. ASSUME Upset("cut") PROVE FALSE
      <4>1. upset'["cut"] = upset["cut"] + 1 /\ upset["cut"] \in Nat
        BY <3>1, <1>0 DEF Upset, Upsets
      <4>. QED BY <4>1
    <3>. QED BY <2>1, <3>1
  <2>7. n = Len(wire)
    BY <2>3, <2>5, <2>6 DEF Answers
  <2>8. wire' = <<>>
    <3>1. Len(wire') = 0
      BY <2>3, <2>7
    <3>. QED BY <3>1, <2>3, EmptySeq
  <2>9. Answers(got, k)'
    <3>1. DOMAIN got' = DOMAIN wire /\ got' # <<>> /\ Len(got') = Len(wire)
      BY <2>3, <2>7
    <3>2. {got'[i].word : i \in DOMAIN got'} = {wire[i].word : i \in DOMAIN wire}
      BY <3>1, <2>3
    <3>3. {wire[i].word : i \in DOMAIN wire} = ReplyWords(k)
      BY <2>5 DEF Answers
    <3>4. ReplyWords(k)' = ReplyWords(k)
      BY <1>0, <1>3
    <3>5. \A i \in DOMAIN got' : got'[i].nonce = 1 /\ (got'[i].last <=> i = Len(got'))
      BY <3>1, <2>3, <2>5 DEF Answers
    <3>. QED BY <3>1, <3>2, <3>3, <3>4, <3>5 DEF Answers
  <2>10. Before(k)'
    BY <1>0, <1>3, <2>2, <2>5 DEF Before, Found
  <2>. QED BY <1>1, <1>6, <2>2, <2>5, <2>8, <2>9, <2>10 DEF OnItsWay
<1>8. ASSUME At("parse") \/ At("nonce"), UNCHANGED got
      PROVE  /\ asked = <<>> /\ wire = <<>> /\ Answers(got, k) /\ sem_tcpmsg = 0 /\ Played6(k)
             /\ Words = ReplyWords(k)
             /\ At("parse") => Before(k)
             /\ Answers(got, k)'
  <2>1. /\ asked = <<>> /\ wire = <<>> /\ Answers(got, k) /\ sem_tcpmsg = 0 /\ Played6(k)
        /\ At("parse") => Before(k)
    BY <1>4, <1>8 DEF OnItsWay, At
  <2>2. ReplyWords(k)' = ReplyWords(k)
    BY <1>0, <1>3
  <2>. QED BY <2>1, <2>2, <1>3, <1>8 DEF Words, Answers
<1>9. CASE ParseChallenge
  <2>1. /\ At("parse") /\ Challenged /\ tcpPc' = "nonce" /\ isfirst' = FALSE /\ need_certify' = TRUE
        /\ UNCHANGED <<NONECE, SESSION, TRACK, RTCP_SERVER_PORT, isfirst2, sem_tcpmsg,
                       got, wire, aborted>>
    BY <1>9 DEF ParseChallenge, Parsing
  <2>2. /\ asked = <<>> /\ wire = <<>> /\ Answers(got, k)' /\ sem_tcpmsg = 0 /\ Played6(k)
        /\ Words = ReplyWords(k) /\ Before(k)
    BY <1>8, <2>1
  <2>3. Refused(k)
    BY <1>0, <2>1, <2>2 DEF Challenged, ReplyWords, CameraTypes
  <2>4. Refused(k)' /\ (SetupFirst' <=> SetupFirst)
    BY <1>0, <1>3, <2>3
  <2>5. /\ TRACK <=> k >= 5
        /\ SESSION <=> k = 6 /\ ~SetupFirst
        /\ isfirst2 <=> ~SESSION
        /\ RTCP_SERVER_PORT <=> SESSION
    BY <2>2 DEF Before, Found
  <2>6. /\ (TRACK <=> k >= 5)'
        /\ (SESSION <=> k = 6 /\ ~SetupFirst)'
        /\ (isfirst2 <=> ~SESSION)'
        /\ (RTCP_SERVER_PORT <=> SESSION)'
    BY <1>3, <2>1, <2>4, <2>5
  <2>. QED BY <1>1, <1>6, <2>1, <2>2, <2>4, <2>6 DEF OnItsWay
<1>10. CASE ParseNonce
  <2>1. /\ At("nonce") /\ tcpPc' = "post"
        /\ IF Nonces = {} THEN aborted' = TRUE /\ UNCHANGED NONECE
                          ELSE NONECE' \in Nonces /\ UNCHANGED aborted
        /\ UNCHANGED <<need_certify, SESSION, TRACK, RTCP_SERVER_PORT, isfirst, isfirst2,
                       sem_tcpmsg, got, wire>>
    BY <1>10 DEF ParseNonce, Parsing
  <2>2. /\ asked = <<>> /\ wire = <<>> /\ Answers(got, k) /\ sem_tcpmsg = 0 /\ Played6(k)
        /\ Words = ReplyWords(k)
    BY <1>8, <2>1
  <2>3. /\ Refused(k) /\ need_certify /\ ~isfirst /\ (TRACK <=> k >= 5)
        /\ SESSION <=> k = 6 /\ ~SetupFirst
        /\ isfirst2 <=> ~SESSION
        /\ RTCP_SERVER_PORT <=> SESSION
    BY <1>4, <2>1 DEF OnItsWay, At
  <2>4. Nonces = {1}
    <3>1. PICK i \in DOMAIN got : got[i].word = "nonce"
      <4>1. "nonce" \in Words
        BY <2>2, <2>3 DEF ReplyWords
      <4>. QED BY <4>1 DEF Words
    <3>. QED BY <3>1, <2>2 DEF Answers, Nonces
  <2>5. NONECE' = 1 /\ aborted' = aborted
    BY <2>1, <2>4
  <2>6. k \in {1, 3, 5, 6} /\ (k = 5 => SetupFirst)
    BY <1>0, <2>3, RefusedOnce
  <2>7. Heard(k)'
    <3>1. /\ Refused(k)' /\ (Refused(3)' <=> Refused(3)) /\ (SetupFirst' <=> SetupFirst)
          /\ (Certified(k)' <=> Certified(k)) /\ k' = k
      BY <1>0, <1>3, <2>3
    <3>2. /\ TRACK' <=> k >= 4 \/ (k = 3 /\ ~Refused(3))
          /\ SESSION' <=> k >= 5 /\ ~SetupFirst
      BY <2>1, <2>3, <2>6
    <3>3. /\ need_certify' /\ ~isfirst' /\ (isfirst2' <=> ~SESSION') /\ (RTCP_SERVER_PORT' <=> SESSION')
      BY <2>1, <2>3
    <3>. QED BY <3>1, <3>2, <3>3, <2>5 DEF Heard, Found
  <2>. QED BY <1>1, <1>6, <2>1, <2>2, <2>5, <2>7 DEF OnItsWay
<1>11. CASE ParseSession
  <2>1. /\ At("parse") /\ ~Challenged /\ "Session" \in Words /\ isfirst2
        /\ isfirst2' = FALSE /\ SESSION' = TRUE /\ tcpPc' = "post"
        /\ RTCP_SERVER_PORT' = (RTCP_SERVER_PORT \/ "server_port" \in Words)
        /\ UNCHANGED <<need_certify, NONECE, TRACK, isfirst, sem_tcpmsg, got, wire, aborted>>
    BY <1>11 DEF ParseSession, Parsing
  <2>2. /\ asked = <<>> /\ wire = <<>> /\ sem_tcpmsg = 0 /\ Played6(k)
        /\ Words = ReplyWords(k) /\ Before(k)
    BY <1>8, <2>1
  <2>3. k = 5 /\ ~Refused(k) /\ "server_port" \in Words
    <3>1. k \in {5, 6} /\ ~Refused(k)
      BY <1>0, <2>1, <2>2 DEF ReplyWords, CameraTypes
    <3>2. k # 6
      BY <1>4, <2>1, <2>2 DEF Before, Found
    <3>3. k = 5
      BY <3>1, <3>2
    <3>. QED BY <3>1, <3>3, <2>2 DEF ReplyWords
  <2>4. ~SetupFirst
    BY <1>0, <2>3, RefusedOnce
  <2>5. Heard(k)'
    <3>1. /\ ~Refused(k)' /\ ~SetupFirst' /\ (Certified(k)' <=> Certified(k)) /\ k' = k
      BY <1>0, <1>3, <2>3, <2>4
    <3>2. TRACK' /\ SESSION' /\ RTCP_SERVER_PORT' /\ ~isfirst2'
      <4>1. TRACK
        BY <2>2, <2>3 DEF Before, Found
      <4>2. RTCP_SERVER_PORT'
        <5>1. RTCP_SERVER_PORT' = (RTCP_SERVER_PORT \/ "server_port" \in Words)
          BY <2>1
        <5>2. RTCP_SERVER_PORT \/ "server_port" \in Words
          BY <2>3
        <5>. QED BY ONLY <5>1, <5>2, Zenon
      <4>. QED BY <4>1, <4>2, <2>1
    <3>3. /\ need_certify' <=> Certified(k)
          /\ isfirst' <=> ~Certified(k)
          /\ NONECE' = IF Certified(k) THEN 1 ELSE 0
      BY <2>1, <2>2 DEF Before, Found
    <3>. QED BY <2>3, <3>1, <3>2, <3>3 DEF Heard, Found
  <2>. QED BY <1>1, <1>6, <2>1, <2>2, <2>5 DEF OnItsWay
<1>12. CASE ParseOther
  <2>1. /\ At("parse") /\ ~Challenged /\ ~("Session" \in Words /\ isfirst2) /\ tcpPc' = "post"
        /\ IF {"v=", "track"} \subseteq Words THEN TRACK' = TRUE ELSE UNCHANGED TRACK
        /\ UNCHANGED <<need_certify, NONECE, SESSION, RTCP_SERVER_PORT, isfirst, isfirst2,
                       sem_tcpmsg, got, wire, aborted>>
    BY <1>12 DEF ParseOther, Parsing
  <2>2. /\ asked = <<>> /\ wire = <<>> /\ sem_tcpmsg = 0 /\ Played6(k)
        /\ Words = ReplyWords(k) /\ Before(k)
    BY <1>8, <2>1
  <2>3. ~Refused(k)
    <3>1. ASSUME Refused(k) PROVE FALSE
      <4>1. "Unauthorized" \in Words
        BY <3>1, <2>2 DEF ReplyWords
      <4>2. ~isfirst
        BY <4>1, <2>1 DEF Challenged
      <4>3. Certified(k)
        BY <4>2, <2>2 DEF Before, Found
      <4>. QED BY <3>1, <4>3, <1>0, RefusedOnce
    <3>. QED BY <3>1
  <2>4. TRACK' <=> k >= 4 \/ k = 3
    <3>1. CASE k \in {3, 4}
      <4>1. {"v=", "track"} \subseteq Words
        BY <2>2, <2>3, <3>1 DEF ReplyWords
      <4>. QED BY <4>1, <2>1, <3>1
    <3>2. CASE k \notin {3, 4}
      <4>1. ~("v=" \in Words)
        BY <2>2, <2>3, <3>2 DEF ReplyWords
      <4>2. TRACK' <=> k >= 5
        BY <4>1, <2>1, <2>2 DEF Before, Found
      <4>. QED BY <4>2, <3>2, <1>0
    <3>. QED BY <3>1, <3>2
  <2>5. k # 5
    <3>1. ASSUME k = 5 PROVE FALSE
      <4>1. "Session" \in Words
        BY <2>2, <2>3, <3>1 DEF ReplyWords
      <4>2. isfirst2
        BY <2>2, <3>1 DEF Before, Found
      <4>. QED BY <4>1, <4>2, <2>1
    <3>. QED BY <3>1
  <2>6. Heard(k)'
    <3>1. /\ ~Refused(k)' /\ (Certified(k)' <=> Certified(k)) /\ k' = k /\ (SetupFirst' <=> SetupFirst)
          /\ Refused(3)' <=> Refused(3)
      BY <1>0, <1>3, <2>3
    <3>2. /\ need_certify' <=> Certified(k)
          /\ isfirst' <=> ~Certified(k)
          /\ NONECE' = IF Certified(k) THEN 1 ELSE 0
      BY <2>1, <2>2 DEF Before, Found
    <3>3. /\ SESSION' <=> k >= 5 /\ ~SetupFirst
          /\ isfirst2' <=> ~SESSION'
          /\ RTCP_SERVER_PORT' <=> SESSION'
      BY <1>0, <2>1, <2>2, <2>5 DEF Before, Found
    <3>4. TRACK' <=> k >= 4 \/ (k = 3 /\ ~Refused(3))
      BY <2>3, <2>4
    <3>. QED BY <3>1, <3>2, <3>3, <3>4 DEF Heard, Found
  <2>. QED BY <1>1, <1>6, <2>1, <2>2, <2>6 DEF OnItsWay
<1>13. CASE Post
  <2>1. /\ At("post") /\ tcpPc' = "read" /\ got' = <<>> /\ sem_tcpmsg' = sem_tcpmsg + 1
        /\ UNCHANGED <<need_certify, NONECE, SESSION, TRACK, RTCP_SERVER_PORT, isfirst,
                       isfirst2, wire, aborted>>
    BY <1>13 DEF Post, parsed
  <2>2. asked = <<>> /\ wire = <<>> /\ sem_tcpmsg = 0 /\ Heard(k) /\ Played6(k)
    BY <1>4, <2>1 DEF OnItsWay, At
  <2>3. Heard(k)'
    BY <1>0, <1>3, <2>1, <2>2 DEF Heard, Found
  <2>. QED BY <1>1, <1>6, <2>1, <2>2, <2>3 DEF OnItsWay
<1>. QED BY <1>7, <1>9, <1>10, <1>11, <1>12, <1>13 DEF Tcp

(* A post is made for an answer that was read, one that was cut or a       *)
(* message sent unasked; no post is made twice.                            *)
LEMMA KeptStep == LoginTypes /\ PostsInv /\ PostsKept /\ [Next]_vars => PostsKept'
<1> SUFFICES ASSUME LoginTypes, PostsInv, PostsKept, [Next]_vars PROVE PostsKept'
  OBVIOUS
<1> DEFINE e == Cardinality(EndedIn(got))
           u == Cardinality(UnaskedIn(wire))
           cut == upset["cut"]
           un == upset["unasked"]
<1>0. /\ sem_tcpmsg \in Nat /\ taken \in Nat /\ answered \in Nat
      /\ u \in Nat /\ e \in Nat /\ cut \in Nat /\ un \in Nat
      /\ upset \in [Upsets -> Nat]
  BY EndedFinite DEF LoginTypes, Upsets
<1>1. taken + sem_tcpmsg <= answered + cut + un
  BY DEF PostsKept
<1> HIDE DEF u, e
<1>2. ASSUME NEW v \in Upsets, Upset(v)
      PROVE  upset'["cut"] + upset'["unasked"] >= cut + un
             /\ upset'["cut"] \in Nat /\ upset'["unasked"] \in Nat
  <2>1. upset' = [upset EXCEPT ![v] = upset[v] + 1]
    BY <1>2 DEF Upset
  <2>2. /\ upset'["cut"] \in Nat /\ upset'["cut"] >= cut
        /\ upset'["unasked"] \in Nat /\ upset'["unasked"] >= un
    BY <2>1, <1>0 DEF Upsets
  <2> HIDE DEF cut, un
  <2>. QED BY <2>2, <1>0
<1>3. ASSUME UNCHANGED <<taken, sem_tcpmsg, answered>>,
             UNCHANGED upset \/ \E v \in Upsets : Upset(v)
      PROVE  PostsKept'
  <2>1. /\ upset'["cut"] \in Nat /\ upset'["unasked"] \in Nat
        /\ upset'["cut"] + upset'["unasked"] >= cut + un
    BY <1>0, <1>2, <1>3
  <2> HIDE DEF cut, un
  <2>2. taken + sem_tcpmsg <= answered + upset'["cut"] + upset'["unasked"]
    BY <1>0, <1>1, <2>1
  <2>. QED BY <1>3, <2>2 DEF PostsKept
<1>4. CASE Post
  <2>1. /\ tcpPc = "post" /\ sem_tcpmsg' = sem_tcpmsg + 1 /\ taken' = taken
        /\ answered' = answered + e /\ upset' = upset
    BY <1>4 DEF Post, At, EndedIn, e
  <2>2. taken + sem_tcpmsg + 1 + u <= answered + e + cut + un
    BY <2>1 DEF PostsInv, u, e
  <2> HIDE DEF cut, un
  <2>3. taken + (sem_tcpmsg + 1) <= (answered + e) + cut + un
    BY <2>2, <1>0
  <2>. QED BY <2>1, <2>3 DEF PostsKept, cut, un
<1>5. ASSUME NEW k \in DOMAIN Method, Wait(k) PROVE PostsKept'
  <2>1. taken' = taken + 1 /\ sem_tcpmsg' = sem_tcpmsg - 1 /\ UNCHANGED <<answered, upset>>
    BY <1>5 DEF Wait
  <2>. QED BY <2>1, <1>0, <1>1 DEF PostsKept
<1>6. CASE Camera
  BY <1>3, <1>6 DEF Camera, Answer, Unasked, RollNonce, HangUp, Upsets
<1>7. CASE (\E k \in DOMAIN Method : Send(k) \/ SendAborts(k)) \/ OpenReports
  BY <1>3, <1>7 DEF Send, SendAborts, OpenReports
<1>8. CASE Read
  BY <1>3, <1>8 DEF Read, Upsets
<1>9. CASE ParseChallenge \/ ParseNonce \/ ParseSession \/ ParseOther
  <2>1. UNCHANGED <<taken, sem_tcpmsg, answered, upset>>
    <3>1. CASE ParseChallenge
      BY <3>1 DEF ParseChallenge, Parsing
    <3>2. CASE ParseNonce
      BY <3>2 DEF ParseNonce, Parsing
    <3>3. CASE ParseSession
      BY <3>3 DEF ParseSession, Parsing
    <3>4. CASE ParseOther
      BY <3>4 DEF ParseOther, Parsing
    <3>. QED BY <1>9, <3>1, <3>2, <3>3, <3>4
  <2>. QED BY <2>1, <1>3
<1>10. CASE UNCHANGED vars
  BY <1>10, <1>3 DEF vars
<1>. QED BY <1>4, <1>5, <1>6, <1>7, <1>8, <1>9, <1>10 DEF Next, Main, Tcp

LEMMA SmoothStep == LoginTypes /\ SmoothInv /\ [Next]_vars => SmoothInv'
<1> SUFFICES ASSUME LoginTypes, SmoothInv, [Next]_vars, Smooth'
             PROVE  /\ camera'.nonce = 1 /\ Reached(mainPc[2])'
                    /\ IF aborted' THEN SetupFirst' /\ mainPc' = <<"send", 6>> ELSE Phase(mainPc[2])'
  BY DEF SmoothInv
<1>0. /\ CameraTypes /\ mainPc[1] \in {"send", "wait", "ports", "done"} /\ mainPc[2] \in 1 .. 6
      /\ sem_tcpmsg \in Nat
  <2>1. DOMAIN Method = 1 .. 6
    BY DEF Method
  <2>. QED BY <2>1 DEF LoginTypes
<1>1. /\ Smooth /\ upset' = upset
      /\ camera'.protects = camera.protects /\ camera'.nonce = camera.nonce
      /\ camera'.codec = camera.codec
      /\ ~Unasked /\ ~RollNonce /\ ~HangUp
  BY StaysSmooth
<1>2. /\ camera.nonce = 1 /\ Reached(mainPc[2])
      /\ IF aborted THEN SetupFirst /\ mainPc = <<"send", 6>> ELSE Phase(mainPc[2])
  BY <1>1 DEF SmoothInv
<1>3. camera.on
  BY <1>1 DEF Smooth
<1>4. \A j \in 1 .. 6 : (Reached(j)' <=> Reached(j)) /\ (SetupFirst' <=> SetupFirst)
  BY <1>1, SameRefusals
<1>5. ASSUME mainPc' = mainPc PROVE Reached(mainPc[2])'
  <2>1. mainPc'[2] = mainPc[2] /\ mainPc[2] \in 1 .. 6
    BY <1>0, <1>5
  <2>. QED BY <2>1, <1>2, <1>4
<1>6. CASE aborted
  <2>1. UNCHANGED <<aborted, mainPc>>
    <3>1. CASE Answer
      BY <3>1 DEF Answer, mainVars
    <3>2. CASE UNCHANGED vars
      BY <3>2 DEF vars, mainVars
    <3>. QED BY <1>1, <1>6, <3>1, <3>2
             DEF Next, Camera, Main, Tcp, Send, SendAborts, Sending, Wait, OpenReports, Read,
                 ParseChallenge, ParseNonce, ParseSession, ParseOther, Post, At
  <2>2. SetupFirst'
    BY <1>2, <1>4, <1>6
  <2>. QED BY <1>1, <1>2, <1>5, <1>6, <2>1, <2>2
<1>7. CASE ~aborted
  <2>0. Phase(mainPc[2])
    BY <1>2, <1>7
  <2>1. CASE Answer
    <3>1. UNCHANGED <<aborted, mainPc>>
      BY <2>1 DEF Answer, mainVars
    <3>. QED BY <1>1, <1>2, <1>5, <1>7, <2>0, <2>1, <3>1, SmoothAnswer
  <2>2. ASSUME NEW k \in DOMAIN Method, Send(k) \/ SendAborts(k)
        PROVE  /\ Reached(mainPc[2])'
               /\ IF aborted' THEN SetupFirst' /\ mainPc' = <<"send", 6>> ELSE Phase(mainPc[2])'
    <3>1. k \in 1 .. 6 /\ mainPc = <<"send", k>> /\ mainPc[2] = k
      BY <2>2 DEF Method, Send, SendAborts, Sending
    <3>2. /\ Send(k) => mainPc' = <<"wait", k>> /\ Phase(k)'
          /\ SendAborts(k) => aborted' /\ mainPc' = <<"send", 6>> /\ SetupFirst'
      BY <1>3, <1>7, <2>0, <3>1, SmoothSend
    <3>3. CASE Send(k)
      <4>1. mainPc' = <<"wait", k>> /\ Phase(k)' /\ aborted' = aborted
        BY <3>2, <3>3 DEF Send
      <4>2. mainPc'[2] = k
        BY <4>1
      <4>3. Reached(k)'
        BY <1>2, <1>4, <3>1
      <4>. QED BY <1>7, <4>1, <4>2, <4>3
    <3>4. CASE SendAborts(k)
      <4>1. aborted' /\ mainPc' = <<"send", 6>> /\ SetupFirst'
        BY <3>2, <3>4
      <4>2. mainPc' = mainPc
        BY <3>4 DEF SendAborts, mainVars
      <4>. QED BY <1>5, <4>1, <4>2
    <3>. QED BY <2>2, <3>3, <3>4
  <2>3. ASSUME NEW k \in DOMAIN Method, Wait(k)
        PROVE  Reached(mainPc[2])' /\ aborted' = aborted /\ Phase(mainPc[2])'
    <3>1. k \in 1 .. 6 /\ mainPc = <<"wait", k>> /\ mainPc[2] = k
      BY <2>3 DEF Method, Wait
    <3>2. Reached(mainPc[2])' /\ Phase(mainPc[2])'
      BY <1>0, <1>2, <2>0, <2>3, <3>1, SmoothWait
    <3>. QED BY <2>3, <3>2 DEF Wait
  <2>4. CASE OpenReports
    <3>1. mainPc = <<"ports", 6>> /\ mainPc[1] = "ports" /\ mainPc[2] = 6
      BY <2>4 DEF OpenReports
    <3>2. Quiet /\ Heard(6) /\ Played6(6) /\ ~SetupFirst
      BY <2>0, <3>1 DEF Phase
    <3>3. RTCP_SERVER_PORT
      BY <3>2 DEF Heard, Found
    <3>4. /\ mainPc' = <<"done", 6>> /\ aborted' = aborted /\ mainPc'[1] = "done" /\ mainPc'[2] = 6
          /\ UNCHANGED <<need_certify, NONECE, SESSION, TRACK, RTCP_SERVER_PORT, isfirst, isfirst2,
                         asked, wire, got, tcpPc, sem_tcpmsg, camera>>
      BY <2>4, <3>3 DEF OpenReports, parsed
    <3>5. Quiet' /\ Played6(6)' /\ ~SetupFirst'
      BY <3>2, <3>4 DEF Quiet, Played6, SetupFirst, Protects, Refused
    <3>6. Heard(6)'
      BY <3>2, <3>4 DEF Heard, Found, Certified, Refused, SetupFirst, Protects
    <3>7. Reached(6)'
      BY DEF Reached
    <3>8. Phase(6)'
      BY <3>4, <3>5, <3>6 DEF Phase
    <3>. QED BY <1>1, <1>2, <1>7, <3>4, <3>7, <3>8
  <2>5. CASE Tcp
    <3>1. Phase(mainPc[2])' /\ aborted' = aborted
      BY <1>1, <1>2, <1>7, <2>0, <2>5, SmoothTcp
    <3>2. mainPc' = mainPc
      BY <2>5 DEF Tcp, Read, ParseChallenge, ParseNonce, ParseSession, ParseOther, Parsing, Post, mainVars
    <3>. QED BY <1>1, <1>2, <1>5, <1>7, <3>1, <3>2
  <2>6. CASE UNCHANGED vars
    <3>1. UNCHANGED <<aborted, mainPc, is_certifed, need_certify, NONECE, SESSION, TRACK, RTCP_SERVER_PORT,
                      isfirst, isfirst2, asked, wire, got, tcpPc, sem_tcpmsg, camera>>
      BY <2>6 DEF vars, mainVars, parsed
    <3>2. ASSUME NEW j \in 1 .. 6
          PROVE  /\ Certified(j)' <=> Certified(j)
                 /\ Certified(3)' <=> Certified(3)
                 /\ Refused(j)' <=> Refused(j)
                 /\ Refused(3)' <=> Refused(3)
                 /\ Refused(6)' <=> Refused(6)
                 /\ SetupFirst' <=> SetupFirst
                 /\ ReplyWords(j)' = ReplyWords(j)
      BY <1>1, SameRefusals
    <3>3. ASSUME NEW j \in 1 .. 6
          PROVE  /\ Before(j)' <=> Before(j)
                 /\ Heard(j)' <=> Heard(j)
                 /\ Answers(wire, j)' <=> Answers(wire, j)
                 /\ Answers(got, j)' <=> Answers(got, j)
                 /\ Played6(j)' <=> Played6(j)
                 /\ Quiet' <=> Quiet
      <4>1. (Before(j)' <=> Before(j)) /\ (Heard(j)' <=> Heard(j))
        BY <3>1, <3>2 DEF Before, Heard, Found
      <4>2. (Answers(wire, j)' <=> Answers(wire, j)) /\ (Answers(got, j)' <=> Answers(got, j))
        BY <3>1, <3>2 DEF Answers
      <4>3. (Played6(j)' <=> Played6(j)) /\ (Quiet' <=> Quiet)
        BY <3>1, <3>2 DEF Played6, Quiet
      <4>. QED BY <4>1, <4>2, <4>3
    <3>4. ASSUME NEW j \in 1 .. 6 PROVE OnItsWay(j)' <=> OnItsWay(j)
      BY <3>1, <3>2, <3>3 DEF OnItsWay
    <3>5. ASSUME NEW j \in 1 .. 6 PROVE Phase(j)' <=> Phase(j)
      BY <1>0, <3>1, <3>2, <3>3, <3>4 DEF Phase
    <3>6. Phase(mainPc[2])'
      <4>1. mainPc'[2] = mainPc[2]
        BY <3>1
      <4>. QED BY <1>0, <2>0, <3>5, <4>1
    <3>. QED BY <1>1, <1>2, <1>5, <1>7, <3>1, <3>6
  <2>. QED BY <1>1, <1>2, <1>7, <2>1, <2>2, <2>3, <2>4, <2>5, <2>6 DEF Next, Camera, Main
<1>. QED BY <1>6, <1>7

LEMMA LoginStep == LoginInv /\ [Next]_vars => LoginInv'
  BY TypesStep, PostsStep, KeptStep, CodecStep, SmoothStep DEF LoginInv

LEMMA LoginInvInStep == LoginInv => LoginInStep
<1> SUFFICES ASSUME LoginInv PROVE LoginInStep
  OBVIOUS
<1> USE DEF LoginInv
<1>1. TypeOK
  BY DEF TypeOK, LoginTypes, PostsKept
<1>2. AnswersAwaited
  <2>1. ASSUME Never({"cut", "unasked"}) PROVE taken <= answered
    <3>1. upset["cut"] = 0 /\ upset["unasked"] = 0
      BY <2>1 DEF Never
    <3>. QED BY <3>1 DEF PostsKept, LoginTypes
  <2>. QED BY <2>1 DEF AnswersAwaited
<1>3. CameraTypes
  BY DEF LoginTypes
<1>4. ChecksHold
  <2>1. ASSUME aborted, Never(Upsets), camera.on PROVE camera.protects = {"SETUP", "PLAY"}
    BY <2>1, <1>3, ProtectedOnwards DEF SmoothInv, Smooth
  <2>. QED BY <2>1 DEF ChecksHold
<1>5. CodecKnown
  BY DEF CodecKnown, CodecInv, LoginTypes, Upsets
<1>6. PlayedIsPlaying
  <2>1. ASSUME Played, Never(Upsets), camera.on, ~camera.streams PROVE camera.protects = {"PLAY"}
    <3>1. mainPc[1] = "done" /\ mainPc[2] = 6 /\ mainPc # <<"send", 6>>
      BY <2>1 DEF Played
    <3>2. Phase(6)
      BY <2>1, <3>1 DEF SmoothInv, Smooth
    <3>3. Played6(6)
      BY <3>1, <3>2 DEF Phase
    <3>4. Refused(6)
      BY <2>1, <3>3 DEF Played6
    <3>. QED BY <3>4, <1>3, RefusedOnce, ProtectedOnwards
  <2>. QED BY <2>1 DEF PlayedIsPlaying
<1>. QED BY <1>1, <1>2, <1>4, <1>5, <1>6 DEF LoginInStep

(* login(), play() and parser() (rtspDataManager.cpp) stay in step with    *)
(* the camera, however its answers come apart and whatever it protects,    *)
(* for every bound on what may go wrong.                                   *)
THEOREM LoginStaysInStep == Spec => []LoginInStep
<1>1. Init => LoginInv
  BY InitLogin, InitSmooth DEF LoginInv
<1>. QED BY <1>1, LoginStep, LoginInvInStep, PTL DEF Spec

-----------------------------------------------------------------------------
(* The answer to the challenge: what goes through MD5Transform.            *)

Byte == {"null", "pad", "count", "user:realm:passwd", "method:url", "sum:nonce:sum"} \X Nat

(* The first m blocks of a text. *)
BlocksOf(t, m) == [k \in 1 .. m |-> SubSeq(t, (k - 1) * BLOCK + 1, k * BLOCK)]

LEMMA PartIs ==
  ASSUME NEW t \in Seq(Byte), NEW a \in Nat \ {0}, NEW b \in Int, b <= Len(t)
  PROVE  /\ SubSeq(t, a, b) \in Seq(Byte)
         /\ Len(SubSeq(t, a, b)) = IF a <= b THEN b - a + 1 ELSE 0
         /\ \A i \in 1 .. b - a + 1 : SubSeq(t, a, b)[i] = t[a + i - 1]
<1>1. \A i \in a .. b : t[i] \in Byte
  BY ElementOfSeq, LenProperties
<1>. QED BY <1>1, SubSeqProperties

(* What follows the first o bytes of a text; parts of it are parts of the  *)
(* text.                                                                   *)
RestOf(t, data, o) ==
  Len(t) = o + Len(data) /\ \A i \in 1 .. Len(data) : data[i] = t[o + i]

Same(s, a, b, t, x, y) == SubSeq(s, a, b) = SubSeq(t, x, y)

LEMMA PartShifted ==
  ASSUME NEW t \in Seq(Byte), NEW data \in Seq(Byte), NEW o \in Nat,
         RestOf(t, data, o),
         NEW a \in Nat \ {0}, NEW b \in Int, b <= Len(data),
         NEW x, NEW y, x = o + a, y = o + b
  PROVE  Same(data, a, b, t, x, y)
<1> USE DEF RestOf
<1>1. /\ SubSeq(data, a, b) \in Seq(Byte)
      /\ Len(SubSeq(data, a, b)) = IF a <= b THEN b - a + 1 ELSE 0
      /\ \A i \in 1 .. b - a + 1 : SubSeq(data, a, b)[i] = data[a + i - 1]
  BY PartIs
<1>2. /\ SubSeq(t, x, y) \in Seq(Byte)
      /\ Len(SubSeq(t, x, y)) = IF x <= y THEN y - x + 1 ELSE 0
      /\ \A i \in 1 .. y - x + 1 : SubSeq(t, x, y)[i] = t[x + i - 1]
  <2>1. x \in Nat \ {0} /\ y \in Int /\ y <= Len(t)
    BY LenProperties
  <2>. QED BY <2>1, PartIs
<1> DEFINE s == SubSeq(data, a, b)   u == SubSeq(t, x, y)
<1>3. Len(s) = Len(u)
  BY <1>1, <1>2
<1>4. ASSUME NEW i \in 1 .. Len(s) PROVE s[i] = u[i]
  <2> DEFINE n == Len(s)
  <2>1. n = IF a <= b THEN b - a + 1 ELSE 0
    BY <1>1
  <2>2. i \in 1 .. n
    OBVIOUS
  <2> HIDE DEF n
  <2>3. i \in 1 .. b - a + 1 /\ i \in 1 .. y - x + 1
    BY <2>1, <2>2
  <2> DEFINE m == Len(data)
  <2>4. m \in Nat /\ b <= m
    BY LenProperties
  <2> HIDE DEF m
  <2>5. a + i - 1 \in 1 .. m /\ o + (a + i - 1) = x + i - 1
    BY <2>3, <2>4
  <2>6. s[i] = data[a + i - 1] /\ u[i] = t[x + i - 1]
    BY <1>1, <1>2, <2>3
  <2>7. data[a + i - 1] = t[o + (a + i - 1)]
    BY <2>5 DEF m
  <2>. QED BY <2>5, <2>6, <2>7
<1> HIDE DEF s, u
<1>5. s \in Seq(Byte) /\ u \in Seq(Byte)
  BY <1>1, <1>2 DEF s, u
<1>6. s = u
  BY <1>3, <1>4, <1>5, SeqEqual
<1>. QED BY <1>6 DEF s, u, Same

Joined(w, t, u) ==
  /\ w \in Seq(Byte) /\ Len(w) = Len(t) + Len(u)
  /\ \A i \in 1 .. Len(t) + Len(u) : w[i] = IF i <= Len(t) THEN t[i] ELSE u[i - Len(t)]

LEMMA JoinedIs == \A t, u \in Seq(Byte) : Joined(t \o u, t, u)
BY ConcatProperties DEF Joined

LEMMA BlockEnds ==
  ASSUME NEW m \in Nat, NEW k \in 1 .. m
  PROVE  /\ (k - 1) * BLOCK \in Nat /\ k * BLOCK = (k - 1) * BLOCK + BLOCK
         /\ k * BLOCK <= m * BLOCK
<1>1. BLOCK \in Nat
  BY DigestConstants
<1>2. k - 1 \in Nat
  OBVIOUS
<1>. QED BY <1>1, <1>2, ProductNat

LEMMA BlocksTyped ==
  ASSUME NEW t \in Seq(Byte), NEW m \in Nat, m * BLOCK <= Len(t)
  PROVE  /\ BlocksOf(t, m) \in Seq(Seq(Byte)) /\ Len(BlocksOf(t, m)) = m
         /\ \A k \in 1 .. m : BlocksOf(t, m)[k] = SubSeq(t, (k - 1) * BLOCK + 1, k * BLOCK)
<1>1. ASSUME NEW k \in 1 .. m PROVE SubSeq(t, (k - 1) * BLOCK + 1, k * BLOCK) \in Seq(Byte)
  <2> DEFINE a == (k - 1) * BLOCK + 1   b == k * BLOCK   n == Len(t)   e == m * BLOCK
  <2>1. a \in Nat \ {0} /\ b \in Int /\ b <= e
    BY BlockEnds, DigestConstants
  <2>2. n \in Nat /\ e <= n /\ e \in Int
    BY LenProperties, DigestConstants
  <2>3. b <= n
    <3> HIDE DEF a, b, n, e
    <3>. QED BY <2>1, <2>2
  <2> HIDE DEF a, b
  <2>4. SubSeq(t, a, b) \in Seq(Byte)
    BY <2>1, <2>3, PartIs DEF n
  <2>. QED BY <2>4 DEF a, b
<1>2. BlocksOf(t, m) \in [1 .. m -> Seq(Byte)]
  BY <1>1 DEF BlocksOf
<1>3. \A k \in 1 .. m : BlocksOf(t, m)[k] = SubSeq(t, (k - 1) * BLOCK + 1, k * BLOCK)
  BY DEF BlocksOf
<1> DEFINE f == BlocksOf(t, m)   T == Seq(Byte)
<1>4. f \in Seq(T) /\ Len(f) = m
  <2>1. f \in [1 .. m -> T]
    BY <1>2
  <2> HIDE DEF f, T
  <2>. QED BY <2>1
<1>. QED BY <1>3, <1>4


(* What a text's whole blocks leave, with more after it, is the rest of    *)
(* both together.                                                          *)
LEMMA RestJoined ==
  ASSUME NEW t \in Seq(Byte), NEW u \in Seq(Byte), NEW o \in Nat, NEW r \in Nat,
         Len(t) = o + r
  PROVE  LET data == SubSeq(SubSeq(t, o + 1, Len(t)), 1, r) \o u
         IN  /\ data \in Seq(Byte) /\ Len(data) = r + Len(u)
             /\ RestOf(t \o u, data, o)
<1> DEFINE n == Len(t)   k == Len(u)   w == t \o u
           tail == SubSeq(t, o + 1, n)   data == tail \o u
<1>1. n \in Nat /\ k \in Nat /\ n = o + r
  BY LenProperties
<1>2. /\ w \in Seq(Byte) /\ Len(w) = n + k
      /\ \A i \in 1 .. n + k : w[i] = IF i <= n THEN t[i] ELSE u[i - n]
  BY JoinedIs DEF Joined
<1>3. tail \in Seq(Byte) /\ Len(tail) = r /\ \A i \in 1 .. r : tail[i] = t[o + i]
  <2>1. o + 1 \in Nat \ {0} /\ n \in Int /\ n <= Len(t)
    BY <1>1
  <2>2. /\ tail \in Seq(Byte) /\ Len(tail) = IF o + 1 <= n THEN n - (o + 1) + 1 ELSE 0
        /\ \A i \in 1 .. n - (o + 1) + 1 : tail[i] = t[(o + 1) + i - 1]
    <3> DEFINE a == o + 1
    <3> HIDE DEF a
    <3>. QED BY <2>1, PartIs DEF a
  <2> HIDE DEF tail, n
  <2>3. n - (o + 1) + 1 = r /\ (IF o + 1 <= n THEN n - (o + 1) + 1 ELSE 0) = r
    BY <1>1
  <2>4. \A i \in 1 .. r : (o + 1) + i - 1 = o + i
    BY <1>1
  <2>. QED BY <2>2, <2>3, <2>4
<1>4. SubSeq(tail, 1, r) = tail
  <2> HIDE DEF tail
  <2>1. SubSeq(tail, 1, Len(tail)) = tail
    BY <1>3, SubSeqFull
  <2>. QED BY <1>3, <2>1
<1> HIDE DEF tail, w
<1>5. /\ data \in Seq(Byte) /\ Len(data) = r + k
      /\ \A i \in 1 .. r + k : data[i] = IF i <= r THEN tail[i] ELSE u[i - r]
  <2>1. Joined(data, tail, u)
    BY <1>3, JoinedIs
  <2> HIDE DEF data
  <2>. QED BY <1>3, <2>1 DEF Joined
<1> HIDE DEF data, n, k
<1>6. Len(w) = o + Len(data)
  <2>1. n + k = o + (r + k)
    BY <1>1
  <2>. QED BY <1>2, <1>5, <2>1
<1>7. ASSUME NEW i \in 1 .. Len(data) PROVE data[i] = w[o + i]
  <2>1. i \in 1 .. r + k
    BY <1>5
  <2>2. o + i \in 1 .. n + k
    BY <1>1, <2>1
  <2> DEFINE j == o + i
  <2>3. w[j] = IF j <= n THEN t[j] ELSE u[j - n]
    <3>1. j \in 1 .. n + k
      BY <2>2
    <3> HIDE DEF j
    <3>. QED BY <1>2, <3>1
  <2>4. CASE i <= r
    <3>1. j <= n /\ i \in 1 .. r
      BY <1>1, <2>1, <2>4
    <3>. QED BY <1>3, <1>5, <2>1, <2>3, <2>4, <3>1
  <2>5. CASE ~(i <= r)
    <3>1. ~(j <= n) /\ j - n = i - r
      BY <1>1, <2>1, <2>5
    <3>. QED BY <1>5, <2>1, <2>3, <2>5, <3>1
  <2>. QED BY <2>4, <2>5
<1>8. RestOf(w, data, o)
  BY <1>6, <1>7 DEF RestOf
<1>. QED BY <1>4, <1>5, <1>8 DEF data, tail, w, n, k

(* The blocks of that rest follow on from those of the text.               *)
Begins(w, t) == Len(t) <= Len(w) /\ \A i \in 1 .. Len(t) : w[i] = t[i]

Grown(t, w, data, m, p) ==
  /\ BlocksOf(t, m) \o BlocksOf(data, p) = BlocksOf(w, m + p)
  /\ SubSeq(data, p * BLOCK + 1, Len(data)) = SubSeq(w, BLOCK * (m + p) + 1, Len(w))

LEMMA BlocksGrow ==
  ASSUME NEW t \in Seq(Byte), NEW w \in Seq(Byte), NEW data \in Seq(Byte),
         NEW m \in Nat, NEW p \in Nat, NEW o, o = BLOCK * m, o <= Len(t),
         Begins(w, t), RestOf(w, data, o), p * BLOCK <= Len(data)
  PROVE  Grown(t, w, data, m, p)
<1> DEFINE n == Len(t)   d == Len(data)   l == Len(w)
<1>1. /\ o \in Nat /\ n \in Nat /\ d \in Nat /\ l \in Nat /\ BLOCK \in Nat
      /\ p * BLOCK \in Nat /\ m * BLOCK = o /\ o <= n
  BY DigestConstants, LenProperties, ProductNat
<1>2. n <= l /\ l = o + d /\ p * BLOCK <= d
  BY DEF Begins, RestOf
<1> HIDE DEF n, d, l
<1>9. SubSeq(data, p * BLOCK + 1, d) = SubSeq(w, BLOCK * (m + p) + 1, l)
  <2> DEFINE a == p * BLOCK + 1   x == BLOCK * (m + p) + 1
  <2>1. a \in Nat \ {0} /\ d \in Int /\ d <= Len(data)
    BY <1>1 DEF d
  <2>2. x = o + a /\ l = o + d
    BY <1>1, <1>2
  <2> HIDE DEF a, x
  <2>3. Same(data, a, d, w, x, l)
    BY <1>1, <2>1, <2>2, PartShifted
  <2>. QED BY <2>3 DEF a, x, Same
<1>10. (m + p) * BLOCK <= l /\ m * BLOCK <= n /\ m + p \in Nat
  <2>1. (m + p) * BLOCK = m * BLOCK + p * BLOCK
    BY <1>1
  <2>. QED BY <1>1, <1>2, <2>1
<1> DEFINE A == BlocksOf(t, m)   B == BlocksOf(data, p)   C == BlocksOf(w, m + p)
           T == Seq(Byte)
<1>11. /\ A \in Seq(T) /\ Len(A) = m
       /\ \A j \in 1 .. m : A[j] = SubSeq(t, (j - 1) * BLOCK + 1, j * BLOCK)
  BY <1>10, BlocksTyped DEF n
<1>12. /\ B \in Seq(T) /\ Len(B) = p
       /\ \A j \in 1 .. p : B[j] = SubSeq(data, (j - 1) * BLOCK + 1, j * BLOCK)
  BY <1>2, BlocksTyped DEF d
<1>13. /\ C \in Seq(T) /\ Len(C) = m + p
       /\ \A j \in 1 .. m + p : C[j] = SubSeq(w, (j - 1) * BLOCK + 1, j * BLOCK)
  <2> DEFINE q == m + p
  <2> HIDE DEF q
  <2>1. /\ BlocksOf(w, q) \in Seq(Seq(Byte)) /\ Len(BlocksOf(w, q)) = q
        /\ \A j \in 1 .. q : BlocksOf(w, q)[j] = SubSeq(w, (j - 1) * BLOCK + 1, j * BLOCK)
    BY <1>10, BlocksTyped DEF q, l
  <2>. QED BY <2>1 DEF q
<1>14. ASSUME NEW j \in 1 .. m PROVE A[j] = C[j]
  <2> DEFINE a == (j - 1) * BLOCK + 1   b == j * BLOCK
  <2>1. a \in Nat \ {0} /\ b \in Int /\ b <= m * BLOCK /\ m * BLOCK \in Int
    <3>1. (j - 1) * BLOCK \in Nat /\ b <= m * BLOCK
      BY BlockEnds
    <3>2. b \in Int
      BY <1>1
    <3>. QED BY <1>1, <3>1, <3>2
  <2>2. b <= n /\ n <= l
    <3> DEFINE e == m * BLOCK
    <3>1. b <= e /\ e <= n /\ e \in Int
      BY <1>10, <2>1
    <3> HIDE DEF b, e
    <3>. QED BY <1>1, <1>2, <2>1, <3>1
  <2>3. /\ SubSeq(t, a, b) \in Seq(Byte)
        /\ Len(SubSeq(t, a, b)) = IF a <= b THEN b - a + 1 ELSE 0
        /\ \A i \in 1 .. b - a + 1 : SubSeq(t, a, b)[i] = t[a + i - 1]
    <3> HIDE DEF a, b
    <3>. QED BY <2>1, <2>2, PartIs DEF n
  <2>4. /\ SubSeq(w, a, b) \in Seq(Byte)
        /\ Len(SubSeq(w, a, b)) = IF a <= b THEN b - a + 1 ELSE 0
        /\ \A i \in 1 .. b - a + 1 : SubSeq(w, a, b)[i] = w[a + i - 1]
    <3>1. b <= l
      <4> HIDE DEF b
      <4>. QED BY <1>1, <2>1, <2>2
    <3> HIDE DEF a, b
    <3>. QED BY <2>1, <3>1, PartIs DEF l
  <2> DEFINE x == SubSeq(t, a, b)   z == SubSeq(w, a, b)
  <2>5. ASSUME NEW i \in 1 .. Len(x) PROVE x[i] = z[i]
    <3> DEFINE q == Len(x)
    <3>1. i \in 1 .. q /\ q = IF a <= b THEN b - a + 1 ELSE 0
      BY <2>3
    <3> HIDE DEF q, a, b
    <3>2. i \in 1 .. b - a + 1
      BY <2>1, <3>1
    <3>3. a + i - 1 \in 1 .. n
      BY <1>1, <2>1, <2>2, <3>2
    <3>4. w[a + i - 1] = t[a + i - 1]
      BY <3>3 DEF Begins, n
    <3>. QED BY <2>3, <2>4, <3>2, <3>4
  <2>6. Len(x) = Len(z) /\ x \in Seq(Byte) /\ z \in Seq(Byte)
    BY <2>3, <2>4
  <2> HIDE DEF x, z
  <2>7. x = z
    BY <2>5, <2>6, SeqEqual
  <2>8. j \in 1 .. m + p
    OBVIOUS
  <2> HIDE DEF A, C
  <2>9. A[j] = x /\ C[j] = z
    BY <1>11, <1>13, <2>8 DEF x, z
  <2>. QED BY <2>7, <2>9
<1>15. ASSUME NEW j \in 1 .. p PROVE B[j] = C[m + j]
  <2> DEFINE a == (j - 1) * BLOCK + 1   b == j * BLOCK
             x == (m + j - 1) * BLOCK + 1   y == (m + j) * BLOCK
  <2>1. a \in Nat \ {0} /\ b \in Int /\ b <= p * BLOCK
    <3>1. (j - 1) * BLOCK \in Nat /\ b <= p * BLOCK
      BY BlockEnds
    <3>2. b \in Int
      BY <1>1
    <3>. QED BY <3>1, <3>2
  <2>2. x = o + a /\ y = o + b
    BY <1>1
  <2>3. b <= d
    <3> DEFINE e == p * BLOCK
    <3>1. b <= e /\ e <= d /\ e \in Int /\ d \in Int /\ b \in Int
      BY <1>1, <1>2, <2>1
    <3> HIDE DEF b, e
    <3>. QED BY <3>1
  <2>4. Same(data, a, b, w, x, y)
    <3>1. b <= Len(data)
      BY <2>3 DEF d
    <3> HIDE DEF a, b, x, y
    <3>. QED BY <1>1, <2>1, <2>2, <3>1, PartShifted
  <2> DEFINE i == m + j
  <2>5. i \in 1 .. m + p /\ x = (i - 1) * BLOCK + 1 /\ y = i * BLOCK
    OBVIOUS
  <2> HIDE DEF B, C, i, x, y
  <2>6. C[i] = SubSeq(w, x, y)
    BY <1>13, <2>5
  <2>7. B[j] = SubSeq(data, a, b)
    BY <1>12
  <2>. QED BY <2>4, <2>6, <2>7 DEF i, Same
<1>16. A \o B = C
  <2> DEFINE AB == A \o B
  <2> HIDE DEF A, B, C, T
  <2>1. /\ AB \in Seq(T) /\ Len(AB) = m + p
        /\ \A i \in 1 .. m + p : AB[i] = IF i <= m THEN A[i] ELSE B[i - m]
    BY <1>11, <1>12, ConcatProperties
  <2>2. ASSUME NEW i \in 1 .. m + p PROVE AB[i] = C[i]
    <3>1. CASE i <= m
      <4>1. i \in 1 .. m
        BY <3>1
      <4>. QED BY <1>14, <2>1, <3>1, <4>1
    <3>2. CASE ~(i <= m)
      <4>1. i - m \in 1 .. p /\ m + (i - m) = i
        BY <3>2
      <4>2. B[i - m] = C[m + (i - m)]
        BY <1>15, <4>1
      <4> HIDE DEF AB
      <4>. QED BY <2>1, <3>2, <4>1, <4>2
    <3>. QED BY <3>1, <3>2
  <2> HIDE DEF AB
  <2>3. AB = C
    BY <1>13, <2>1, <2>2, SeqEqual
  <2>. QED BY <2>3 DEF AB
<1>. QED BY <1>9, <1>16 DEF Grown, d, l


(* c has taken in the text t: m blocks of it, and r bytes besides.         *)
Hashed(c, t, m, r) ==
  /\ Len(t) = BLOCK * m + r
  /\ c.count[1] = (Len(t) * BITS) % COUNTS
  /\ c.buffer = SubSeq(t, BLOCK * m + 1, Len(t))
  /\ c.blocks = BlocksOf(t, m)

(* The count gives the place in the buffer, although it wraps.             *)
LEMMA PlaceInBuffer ==
  ASSUME NEW n \in Nat, NEW m \in Nat, NEW r \in 0 .. BLOCK - 1, n = BLOCK * m + r
  PROVE  (((n * BITS) % COUNTS) \div BITS) % BLOCK = r
<1> DEFINE W == BITS * BLOCK   M == COUNTS \div W   Q == (n * BITS) \div COUNTS
           x == (n * BITS) % COUNTS   g == M * Q   h == m - g
<1>1. BLOCK \in Nat \ {0} /\ BITS \in Nat \ {0} /\ COUNTS \in Nat \ {0} /\ COUNTS % W = 0
  BY DigestConstants
<1>2. W \in Nat \ {0}
  <2>1. \A a, b \in Nat \ {0} : a * b \in Nat \ {0}
    OBVIOUS
  <2> HIDE DEF W
  <2>. QED BY <1>1, <2>1 DEF W
<1>3. M \in Int /\ COUNTS = W * M
  <2> HIDE DEF W
  <2>1. COUNTS \in Int
    BY <1>1
  <2>2. /\ COUNTS \div W \in Int
        /\ (COUNTS % W) \in 0 .. W - 1
        /\ COUNTS = W * (COUNTS \div W) + (COUNTS % W)
    BY <1>2, <2>1, DivMod
  <2>3. M \in Int /\ COUNTS = W * M + 0
    BY <1>1, <2>2
  <2> HIDE DEF M
  <2>4. W * M \in Int
    BY <1>2, <2>3
  <2>. QED BY <2>3, <2>4
<1>4. n * BITS \in Int /\ Q \in Int /\ x \in Int /\ n * BITS = COUNTS * Q + x
  <2>1. n * BITS \in Int
    BY <1>1
  <2> DEFINE y == n * BITS
  <2> HIDE DEF y
  <2>2. y \div COUNTS \in Int /\ y % COUNTS \in 0 .. COUNTS - 1
        /\ y = COUNTS * (y \div COUNTS) + (y % COUNTS)
    <3>1. y \in Int
      BY <2>1 DEF y
    <3>2. COUNTS \in Nat \ {0}
      BY <1>1
    <3>. QED BY <3>1, <3>2, DivMod
  <2>3. Q \in Int /\ x \in Int /\ y = COUNTS * Q + x
    BY <1>1, <2>2 DEF y
  <2>. QED BY <2>1, <2>3 DEF y
<1> HIDE DEF M, Q, x
<1>5. g \in Int /\ h \in Int
  BY <1>3, <1>4
<1>6. COUNTS * Q = BITS * (BLOCK * g)
  BY <1>1, <1>3, <1>4
<1> HIDE DEF g, W
<1>7. BLOCK * h + r \in Int /\ x = BITS * (BLOCK * h + r)
  <2>1. n * BITS = BITS * (BLOCK * m) + BITS * r
    BY <1>1
  <2>2. BITS * (BLOCK * h + r) = BITS * (BLOCK * m) + BITS * r - BITS * (BLOCK * g)
    BY <1>1, <1>5
  <2>3. /\ BITS * (BLOCK * m) \in Int /\ BITS * r \in Int /\ BITS * (BLOCK * g) \in Int
        /\ BLOCK * h \in Int
    BY <1>1, <1>5
  <2>. QED BY <1>4, <1>6, <2>1, <2>2, <2>3
<1> HIDE DEF h
<1>8. x \div BITS = BLOCK * h + r
  <2> DEFINE y == BLOCK * h + r
  <2>1. y \in Int /\ x = BITS * y + 0 /\ 0 \in 0 .. BITS - 1
    BY <1>1, <1>7
  <2> HIDE DEF y
  <2>2. (BITS * y + 0) \div BITS = y
    BY <1>1, <2>1, QuotientIs
  <2>. QED BY <2>1, <2>2 DEF y
<1>9. (BLOCK * h + r) % BLOCK = r
  BY <1>1, <1>5, QuotientIs
<1>. QED BY <1>8, <1>9 DEF x

LEMMA CountGrows ==
  ASSUME NEW n \in Nat, NEW k \in Nat
  PROVE  (((n * BITS) % COUNTS) + k * BITS) % COUNTS = ((n + k) * BITS) % COUNTS
<1> DEFINE a == n * BITS   b == k * BITS   x == a % COUNTS   q == a \div COUNTS
<1>1. BITS \in Nat \ {0} /\ COUNTS \in Nat \ {0}
  BY DigestConstants
<1>2. a \in Int /\ b \in Int /\ (n + k) * BITS = a + b
  BY <1>1
<1> HIDE DEF a, b
<1>3. q \in Int /\ x \in 0 .. COUNTS - 1 /\ a = COUNTS * q + x
  BY <1>1, <1>2, DivMod
<1> HIDE DEF q, x
<1> DEFINE y == x + b   z == a + b
<1>4. y \in Int /\ z \in Int /\ z = y + COUNTS * q
  BY <1>1, <1>2, <1>3
<1> HIDE DEF y, z
<1>5. z % COUNTS = y % COUNTS
  BY <1>1, <1>3, <1>4, ModShift
<1>. QED BY <1>2, <1>5 DEF y, z, x, a, b

(* MD5Update takes its input in, wherever in a block the text ended.       *)
LEMMA UpdateHashes ==
  ASSUME NEW c, NEW t \in Seq(Byte), NEW u \in Seq(Byte), NEW m \in Nat,
         NEW r \in 0 .. BLOCK - 1, Hashed(c, t, m, r),
         NEW p \in Nat, NEW s \in 0 .. BLOCK - 1, r + Len(u) = BLOCK * p + s
  PROVE  Hashed(MD5Update(c, u), t \o u, m + p, s)
<1> DEFINE o == BLOCK * m   n == Len(t)   k == Len(u)   w == t \o u
           data == SubSeq(SubSeq(t, o + 1, n), 1, r) \o u
           index == (c.count[1] \div BITS) % BLOCK
           low == (c.count[1] + k * BITS) % COUNTS
           next == MD5Update(c, u)
<1>1. /\ BLOCK \in Nat \ {0} /\ n \in Nat /\ k \in Nat /\ o \in Nat /\ r \in Nat /\ s \in Nat
      /\ n = o + r /\ r + k = BLOCK * p + s
      /\ c.count[1] = (n * BITS) % COUNTS /\ c.buffer = SubSeq(t, o + 1, n)
      /\ c.blocks = BlocksOf(t, m)
  BY DigestConstants, LenProperties, ProductNat DEF Hashed
<1>2. index = r
  <2> HIDE DEF n, k
  <2>1. (((n * BITS) % COUNTS) \div BITS) % BLOCK = r
    BY <1>1, PlaceInBuffer
  <2>. QED BY <1>1, <2>1
<1>3. low = ((n + k) * BITS) % COUNTS
  <2> HIDE DEF n, k
  <2>. QED BY <1>1, CountGrows
<1>4. data \in Seq(Byte) /\ Len(data) = r + k /\ RestOf(w, data, o)
  <2> HIDE DEF o
  <2>. QED BY <1>1, RestJoined
<1>5. Joined(w, t, u)
  BY JoinedIs
<1>6. w \in Seq(Byte) /\ Len(w) = n + k /\ Begins(w, t)
  <2> HIDE DEF w
  <2>1. w \in Seq(Byte) /\ Len(w) = n + k /\ \A i \in 1 .. n : w[i] = t[i]
    BY <1>1, <1>5 DEF Joined
  <2>. QED BY <1>1, <2>1 DEF Begins
<1>7. Len(data) \div BLOCK = p
  <2> HIDE DEF data, w, o, n, k
  <2>1. (BLOCK * p + s) \div BLOCK = p
    <3>1. p \in Int /\ s \in 0 .. BLOCK - 1
      OBVIOUS
    <3>. QED BY <1>1, <3>1, QuotientIs
  <2>. QED BY <1>1, <1>4, <2>1
<1>8. /\ next.count[1] = low
      /\ next.buffer = SubSeq(data, p * BLOCK + 1, Len(data))
      /\ next.blocks = BlocksOf(t, m) \o BlocksOf(data, p)
  <2>1. SubSeq(c.buffer, 1, index) \o u = data
    BY <1>1, <1>2
  <2> HIDE DEF data, index
  <2>2. MD5Transform(c.blocks, data, p) = BlocksOf(t, m) \o BlocksOf(data, p)
    BY <1>1 DEF MD5Transform, BlocksOf
  <2>3. /\ next.count[1] = low
        /\ next.buffer = SubSeq(data, (Len(data) \div BLOCK) * BLOCK + 1, Len(data))
        /\ next.blocks = MD5Transform(c.blocks, data, Len(data) \div BLOCK)
    BY <2>1 DEF MD5Update, index
  <2>. QED BY <1>7, <2>2, <2>3
<1> HIDE DEF next, low, index
<1>9. p * BLOCK <= Len(data) /\ o <= Len(t)
  <2> HIDE DEF data, n, k, w
  <2>1. p * BLOCK = BLOCK * p /\ BLOCK * p \in Nat
    BY <1>1
  <2>2. p * BLOCK <= Len(data) /\ o <= n
    BY <1>1, <1>4, <2>1
  <2>. QED BY <2>2 DEF n
<1>10. Grown(t, w, data, m, p)
  <2>1. o = BLOCK * m
    OBVIOUS
  <2> HIDE DEF data, w, o
  <2>. QED BY <1>4, <1>6, <1>9, <2>1, BlocksGrow
<1> HIDE DEF w, n, k, data
<1>11. n + k = BLOCK * (m + p) + s
  <2>1. BLOCK * (m + p) = BLOCK * m + BLOCK * p /\ BLOCK * m \in Nat /\ BLOCK * p \in Nat
    BY <1>1
  <2>. QED BY <1>1, <2>1
<1> HIDE DEF o
<1>12. Hashed(next, w, m + p, s)
  BY <1>3, <1>6, <1>8, <1>10, <1>11 DEF Hashed, Grown
<1>. QED BY <1>12 DEF next, w

(* The blocks of a text of whole blocks, put together, are the text.       *)
LEMMA BlocksAreText ==
  ASSUME NEW t \in Seq(Byte), NEW m \in Nat \ {0}, Len(t) = BLOCK * m
  PROVE  FlattenSeq(BlocksOf(t, m)) = t
<1> DEFINE b == BlocksOf(t, m)
           Is(f) == f = [i \in 1 .. Len(b) |-> IF i = 1 THEN b[i] ELSE f[i - 1] \o b[i]]
           flatten == CHOOSE f : Is(f)
           g == [i \in 1 .. m |-> SubSeq(t, 1, i * BLOCK)]
<1>1. BLOCK \in Nat /\ m * BLOCK = Len(t) /\ m * BLOCK <= Len(t)
  <2>1. BLOCK \in Nat /\ m * BLOCK = BLOCK * m /\ BLOCK * m \in Nat
    BY DigestConstants
  <2>. QED BY <2>1
<1>2. /\ Len(b) = m
      /\ \A k \in 1 .. m : b[k] = SubSeq(t, (k - 1) * BLOCK + 1, k * BLOCK)
  BY <1>1, BlocksTyped
<1>3. FlattenSeq(b) = flatten[m]
  BY <1>2 DEF FlattenSeq
<1> HIDE DEF b
<1>4. ASSUME NEW i \in 1 .. m PROVE g[i] = IF i = 1 THEN b[i] ELSE g[i - 1] \o b[i]
  <2>1. CASE i = 1
    <3>1. b[1] = SubSeq(t, (1 - 1) * BLOCK + 1, 1 * BLOCK)
      BY <1>2
    <3>2. (1 - 1) * BLOCK + 1 = 1
      BY <1>1
    <3>. QED BY <2>1, <3>1, <3>2
  <2>2. CASE i # 1
    <3>1. i - 1 \in 1 .. m /\ g[i - 1] = SubSeq(t, 1, (i - 1) * BLOCK)
      <4> DEFINE j == i - 1
      <4>1. j \in 1 .. m
        BY <2>2
      <4> HIDE DEF j
      <4>2. g[j] = SubSeq(t, 1, j * BLOCK)
        BY <4>1
      <4>. QED BY <4>1, <4>2 DEF j
    <3>2. b[i] = SubSeq(t, (i - 1) * BLOCK + 1, i * BLOCK)
      BY <1>2
    <3> DEFINE x == (i - 1) * BLOCK   y == i * BLOCK   n == Len(t)
    <3>3. x \in Nat /\ y \in Nat /\ x <= y /\ y <= m * BLOCK
      BY <1>1, BlockEnds
    <3>4. n \in Nat /\ m * BLOCK = n
      BY <1>1, LenProperties
    <3> HIDE DEF x, y, n
    <3>5. 1 \in 1 .. n + 1 /\ x \in 1 - 1 .. n /\ y \in x .. n
      BY <3>3, <3>4
    <3>6. SubSeq(t, 1, x) \o SubSeq(t, x + 1, y) = SubSeq(t, 1, y)
      BY <3>5, ConcatAdjacentSubSeq DEF n
    <3>7. g[i] = SubSeq(t, 1, y)
      BY DEF y
    <3> HIDE DEF g
    <3>. QED BY <2>2, <3>1, <3>2, <3>6, <3>7 DEF x, y
  <2>. QED BY <2>1, <2>2
<1>5. Is(g)
  <2>1. g = [i \in 1 .. m |-> g[i]]
    OBVIOUS
  <2> HIDE DEF g
  <2>. QED BY <1>2, <1>4, <2>1
<1>6. Is(flatten)
  BY <1>5
<1> HIDE DEF flatten
<1>7. \A i \in 1 .. m : flatten[i] = IF i = 1 THEN b[i] ELSE flatten[i - 1] \o b[i]
  BY <1>2, <1>6
<1> HIDE DEF Is
<1> DEFINE P == {n \in Nat : n + 1 \in 1 .. m => flatten[n + 1] = g[n + 1]}
<1> HIDE DEF g
<1>8. 0 \in P
  BY <1>4, <1>7
<1>9. ASSUME NEW n \in Nat, n \in P PROVE n + 1 \in P
  <2> SUFFICES ASSUME (n + 1) + 1 \in 1 .. m PROVE flatten[(n + 1) + 1] = g[(n + 1) + 1]
    OBVIOUS
  <2> DEFINE i == (n + 1) + 1   j == n + 1
  <2>1. i \in 1 .. m /\ i # 1 /\ i - 1 = j /\ j \in 1 .. m
    OBVIOUS
  <2>2. flatten[j] = g[j]
    BY <1>9, <2>1
  <2> HIDE DEF i, j, P
  <2>3. flatten[i] = flatten[i - 1] \o b[i] /\ g[i] = g[i - 1] \o b[i]
    BY <1>4, <1>7, <2>1
  <2>4. flatten[i] = g[i]
    BY <2>1, <2>2, <2>3
  <2>. QED BY <2>4 DEF i
<1> HIDE DEF P
<1>10. Nat \subseteq P
  BY <1>8, <1>9, AllNumbers
<1>11. flatten[m] = g[m]
  <2>1. m - 1 \in Nat /\ (m - 1) + 1 = m /\ m \in 1 .. m
    OBVIOUS
  <2>2. m - 1 \in P
    BY <1>10, <2>1
  <2>. QED BY <2>1, <2>2 DEF P
<1>12. g[m] = t
  <2>1. SubSeq(t, 1, Len(t)) = t
    BY SubSeqFull
  <2>. QED BY <1>1, <2>1 DEF g
<1>. QED BY <1>3, <1>11, <1>12 DEF b

LEMMA PaddingIs ==
  ASSUME NEW t \in Seq(Byte), NEW m \in Nat, NEW r \in 0 .. BLOCK - 1,
         Len(t) = BLOCK * m + r
  PROVE  LET pad   == SubSeq(PADDING, 1, PadLen(r))
             count == <<(Len(t) * BITS) % COUNTS, ((Len(t) * BITS) \div COUNTS) % COUNTS>>
         IN  /\ pad \in Seq(Byte) /\ Len(pad) = PadLen(r)
             /\ MD5Encode(count) \in Seq(Byte) /\ Len(MD5Encode(count)) = 2
             /\ PaddedText(t) = (t \o pad) \o MD5Encode(count)
<1> DEFINE n == Len(t)   l == PadLen(r)   pad == SubSeq(PADDING, 1, l)
           count == <<(n * BITS) % COUNTS, ((n * BITS) \div COUNTS) % COUNTS>>
           zeros == (2 * BLOCK - 3 - (n % BLOCK)) % BLOCK
           one == <<<<"pad", 128>>>>   rest == [i \in 1 .. zeros |-> <<"pad", 0>>]
<1>1. BLOCK \in Nat \ {0} /\ BLOCK >= 2 /\ r \in Nat /\ n \in Nat
      /\ BITS \in Nat \ {0} /\ COUNTS \in Nat \ {0}
  BY DigestConstants, LenProperties
<1>2. l \in 1 .. BLOCK
  BY <1>1 DEF PadLen
<1>3. zeros = l - 1
  <2>1. n % BLOCK = r
    <3>1. (BLOCK * m + r) % BLOCK = r
      <4>1. BLOCK \in Nat \ {0} /\ m \in Int
        BY <1>1
      <4> HIDE DEF n
      <4>. QED BY <4>1, QuotientIs
    <3>. QED BY <3>1
  <2>2. CASE r < BLOCK - 2
    <3> DEFINE z == BLOCK - 3 - r
    <3>1. z \in 0 .. BLOCK - 1 /\ 2 * BLOCK - 3 - r = BLOCK * 1 + z /\ l = z + 1
      BY <1>1, <2>2 DEF PadLen
    <3>2. (BLOCK * 1 + z) % BLOCK = z
      <4>1. BLOCK \in Nat \ {0} /\ 1 \in Int /\ z \in 0 .. BLOCK - 1
        BY <1>1, <3>1
      <4> HIDE DEF z, n
      <4>. QED BY <4>1, QuotientIs
    <3>. QED BY <2>1, <3>1, <3>2
  <2>3. CASE ~(r < BLOCK - 2)
    <3> DEFINE z == 2 * BLOCK - 3 - r
    <3>1. z \in 0 .. BLOCK - 1 /\ l = z + 1
      BY <1>1, <2>3 DEF PadLen
    <3>2. z % BLOCK = z
      <4> HIDE DEF z
      <4>. QED BY <1>1, <3>1, ModSmall
    <3>. QED BY <2>1, <3>1, <3>2
  <2>. QED BY <2>2, <2>3
<1> HIDE DEF l, zeros
<1>4. \A i \in 1 .. l : PADDING[i] = <<"pad", IF i = 1 THEN 128 ELSE 0>> /\ PADDING[i] \in Byte
  <2>1. \A i \in 1 .. BLOCK : PADDING[i] = <<"pad", IF i = 1 THEN 128 ELSE 0>>
    BY DEF PADDING
  <2>2. <<"pad", 128>> \in Byte /\ <<"pad", 0>> \in Byte
    BY DEF Byte
  <2>3. \A i \in 1 .. l : i \in 1 .. BLOCK
    BY <1>1, <1>2
  <2>. QED BY <2>1, <2>2, <2>3
<1>5. /\ pad \in Seq(Byte) /\ Len(pad) = l
      /\ \A i \in 1 .. l : pad[i] = <<"pad", IF i = 1 THEN 128 ELSE 0>>
  <2>1. /\ pad \in Seq(Byte) /\ Len(pad) = (IF 1 <= l THEN l - 1 + 1 ELSE 0)
        /\ \A i \in 1 .. l - 1 + 1 : pad[i] = PADDING[1 + i - 1]
    BY <1>2, <1>4, SubSeqProperties
  <2> HIDE DEF pad
  <2>2. l - 1 + 1 = l /\ 1 <= l /\ \A i \in 1 .. l : 1 + i - 1 = i
    BY <1>2
  <2>. QED BY <1>4, <2>1, <2>2
<1>6. one \in Seq(Byte) /\ Len(one) = 1 /\ one[1] = <<"pad", 128>>
  <2>1. <<"pad", 128>> \in Byte
    BY DEF Byte
  <2>. QED BY <2>1
<1>7. /\ rest \in Seq(Byte) /\ Len(rest) = zeros
      /\ \A i \in 1 .. zeros : rest[i] = <<"pad", 0>>
  <2>0. <<"pad", 0>> \in Byte
    BY DEF Byte
  <2>1. <<"pad", 0>> \in Byte /\ zeros \in Nat
    BY <1>2, <1>3, <2>0
  <2>2. rest \in [1 .. zeros -> Byte] /\ \A i \in 1 .. zeros : rest[i] = <<"pad", 0>>
    BY <2>1
  <2> HIDE DEF rest
  <2>. QED BY <2>1, <2>2
<1> HIDE DEF pad, one, rest
<1>8. one \o rest = pad
  <2> DEFINE j == one \o rest
  <2>1. Joined(j, one, rest)
    BY <1>6, <1>7, JoinedIs
  <2> HIDE DEF j
  <2>2. j \in Seq(Byte) /\ Len(j) = l
    BY <1>2, <1>3, <1>6, <1>7, <2>1 DEF Joined
  <2>3. ASSUME NEW i \in 1 .. l PROVE j[i] = pad[i]
    <3>1. j[i] = IF i <= 1 THEN one[i] ELSE rest[i - 1]
      <4>1. i \in 1 .. 1 + zeros
        BY <1>2, <1>3
      <4>. QED BY <1>6, <1>7, <2>1, <4>1 DEF Joined
    <3>2. CASE i = 1
      <4>1. j[1] = one[1]
        BY <3>1, <3>2
      <4>2. 1 \in 1 .. l
        BY <3>2
      <4>3. pad[1] = <<"pad", 128>>
        BY <1>5, <4>2
      <4>. QED BY <1>6, <3>2, <4>1, <4>3
    <3>3. CASE i # 1
      <4>1. i - 1 \in 1 .. zeros /\ ~(i <= 1)
        BY <1>2, <1>3, <3>3
      <4>. QED BY <1>5, <1>7, <3>1, <3>3, <4>1
    <3>. QED BY <3>2, <3>3
  <2>4. j = pad
    BY <1>5, <2>2, <2>3, SeqEqual
  <2>. QED BY <2>4 DEF j
<1>9. MD5Encode(count) \in Seq(Byte) /\ Len(MD5Encode(count)) = 2
  <2> DEFINE x == (n * BITS) % COUNTS   y == ((n * BITS) \div COUNTS) % COUNTS
  <2>1. n * BITS \in Int
    BY <1>1
  <2>2. x \in Nat /\ (n * BITS) \div COUNTS \in Int
    BY <1>1, <2>1, DivMod
  <2>3. y \in Nat
    BY <1>1, <2>2, DivMod
  <2>4. <<"count", x>> \in Byte /\ <<"count", y>> \in Byte
    <3>1. \A a \in Nat : <<"count", a>> \in Byte
      BY DEF Byte
    <3>. QED BY <2>2, <2>3, <3>1
  <2>5. MD5Encode(count) = <<<<"count", x>>, <<"count", y>>>>
    BY DEF MD5Encode
  <2> DEFINE a == <<"count", x>>   b == <<"count", y>>
  <2>6. a \in Byte /\ b \in Byte
    BY <2>4
  <2> HIDE DEF a, b
  <2>7. <<a, b>> \in Seq(Byte) /\ Len(<<a, b>>) = 2
    BY <2>6
  <2>. QED BY <2>5, <2>7 DEF a, b
<1>10. PaddedText(t) = (t \o pad) \o MD5Encode(count)
  <2>1. PaddedText(t) = ((t \o one) \o rest) \o MD5Encode(count)
    BY DEF PaddedText, one, rest, zeros, count
  <2>2. (t \o one) \o rest = t \o (one \o rest)
    BY <1>6, <1>7, ConcatAssociative
  <2>. QED BY <1>8, <2>1, <2>2
<1>. QED BY <1>5, <1>9, <1>10 DEF pad, l

(* The sum of a text is that of the padded text's blocks.                  *)
LEMMA SumIs ==
  ASSUME NEW t \in Seq(Byte)
  PROVE  FlattenSeq(MD5Final(MD5Update(MD5Init, t)).blocks) = PaddedText(t)
<1> DEFINE n == Len(t)   m == n \div BLOCK   r == n % BLOCK
           c == MD5Update(MD5Init, t)
           pad == SubSeq(PADDING, 1, PadLen(r))
           count == <<(n * BITS) % COUNTS, ((n * BITS) \div COUNTS) % COUNTS>>
           enc == MD5Encode(count)
           p == IF r < BLOCK - 2 THEN 0 ELSE 1
           d == MD5Update(c, pad)
           e == MD5Update(d, enc)
<1>1. /\ BLOCK \in Nat \ {0} /\ BLOCK >= 2 /\ n \in Nat /\ BITS \in Nat \ {0}
      /\ COUNTS \in Nat \ {0}
  BY DigestConstants, LenProperties
<1>2. m \in Nat /\ r \in 0 .. BLOCK - 1 /\ n = BLOCK * m + r
  <2> HIDE DEF n
  <2>1. m \in Int /\ r \in 0 .. BLOCK - 1 /\ n = BLOCK * m + r
    BY <1>1, DivMod
  <2> HIDE DEF m, r
  <2>2. m <= -1 => BLOCK * m <= -BLOCK
    BY <1>1, <2>1
  <2>3. BLOCK * m \in Int
    BY <1>1, <2>1
  <2>. QED BY <1>1, <2>1, <2>2, <2>3
<1>3. Hashed(c, t, m, r)
  <2> DEFINE empty == <<>>
  <2>1. empty \in Seq(Byte) /\ Len(empty) = 0 /\ empty \o t = t
    BY ConcatEmptySeq, EmptySeq
  <2>2. Hashed(MD5Init, empty, 0, 0)
    <3>1. BLOCK * 0 + 0 = 0 /\ (0 * BITS) % COUNTS = 0
      BY <1>1
    <3>2. SubSeq(empty, BLOCK * 0 + 1, 0) = <<>> /\ BlocksOf(empty, 0) = <<>>
      <4>1. BLOCK * 0 + 1 = 1
        BY <1>1
      <4>2. SubSeq(empty, 1, 0) = <<>>
        BY SubSeqEmpty
      <4>3. BlocksOf(empty, 0) = <<>>
        BY DEF BlocksOf
      <4>. QED BY <4>1, <4>2, <4>3
    <3>. QED BY <2>1, <3>1, <3>2 DEF Hashed, MD5Init
  <2>3. 0 + Len(t) = BLOCK * m + r /\ 0 \in 0 .. BLOCK - 1 /\ 0 + m = m /\ 0 \in Nat
    BY <1>1, <1>2
  <2> HIDE DEF empty, m, r
  <2>4. Hashed(MD5Update(MD5Init, t), empty \o t, 0 + m, r)
    BY <1>2, <2>1, <2>2, <2>3, UpdateHashes
  <2>. QED BY <2>1, <2>3, <2>4
<1>4. c.count = count
  <2> DEFINE x == (0 + n * BITS) % COUNTS
  <2>1. n * BITS \in Int /\ 0 + n * BITS = n * BITS
    BY <1>1
  <2>2. x = (n * BITS) % COUNTS /\ x \in Int
    BY <1>1, <2>1, DivMod
  <2>3. c.count = <<x, (0 + (IF x < (n * BITS) % COUNTS THEN 1 ELSE 0) + (n * BITS) \div COUNTS) % COUNTS>>
    BY DEF MD5Update, MD5Init
  <2> HIDE DEF x, c
  <2>4. ~(x < (n * BITS) % COUNTS)
    BY <2>2
  <2>5. (n * BITS) \div COUNTS \in Int
    BY <1>1, <2>1, DivMod
  <2>. QED BY <2>2, <2>3, <2>4, <2>5
<1> HIDE DEF m, r, c
<1>5. /\ pad \in Seq(Byte) /\ Len(pad) = PadLen(r) /\ enc \in Seq(Byte) /\ Len(enc) = 2
      /\ PaddedText(t) = (t \o pad) \o enc
  BY <1>2, PaddingIs
<1>6. MD5Final(c) = e
  <2>1. (c.count[1] \div BITS) % BLOCK = r
    <3>1. c.count[1] = (n * BITS) % COUNTS
      BY <1>3 DEF Hashed
    <3> HIDE DEF n
    <3>2. (((n * BITS) % COUNTS) \div BITS) % BLOCK = r
      BY <1>1, <1>2, PlaceInBuffer
    <3>. QED BY <3>1, <3>2
  <2>. QED BY <1>4, <2>1 DEF MD5Final
<1> HIDE DEF pad, enc, n
<1>7. /\ p \in Nat /\ BLOCK - 2 \in 0 .. BLOCK - 1 /\ r + PadLen(r) = BLOCK * p + (BLOCK - 2)
      /\ (BLOCK - 2) + 2 = BLOCK * 1 + 0 /\ 0 \in 0 .. BLOCK - 1 /\ 1 \in Nat
  BY <1>1, <1>2 DEF PadLen
<1> HIDE DEF p
<1>8. Hashed(d, t \o pad, m + p, BLOCK - 2) /\ t \o pad \in Seq(Byte) /\ m + p \in Nat
  <2>1. r + Len(pad) = BLOCK * p + (BLOCK - 2)
    BY <1>5, <1>7
  <2> DEFINE s == BLOCK - 2
  <2>2. s \in 0 .. BLOCK - 1 /\ r + Len(pad) = BLOCK * p + s
    BY <1>7, <2>1
  <2> HIDE DEF s
  <2>3. Hashed(d, t \o pad, m + p, s)
    BY <1>2, <1>3, <1>5, <1>7, <2>2, UpdateHashes
  <2>4. t \o pad \in Seq(Byte)
    BY <1>5, JoinedIs DEF Joined
  <2>. QED BY <1>2, <1>7, <2>3, <2>4 DEF s
<1> DEFINE w == t \o pad   q == m + p
<1>9. Hashed(e, w \o enc, q + 1, 0)
  <2> DEFINE s == BLOCK - 2
  <2>1. s \in 0 .. BLOCK - 1 /\ s + Len(enc) = BLOCK * 1 + 0
    BY <1>5, <1>7
  <2>2. Hashed(d, w, q, s) /\ w \in Seq(Byte) /\ q \in Nat
    BY <1>8
  <2> HIDE DEF s, w, q, d
  <2>. QED BY <1>5, <1>7, <2>1, <2>2, UpdateHashes DEF e
<1>10. w \o enc \in Seq(Byte) /\ q + 1 \in Nat \ {0}
  <2>1. w \in Seq(Byte) /\ q \in Nat
    BY <1>8
  <2> HIDE DEF w, q
  <2>2. w \o enc \in Seq(Byte)
    BY <1>5, <2>1, JoinedIs DEF Joined
  <2>. QED BY <2>1, <2>2
<1>11. e.blocks = BlocksOf(w \o enc, q + 1) /\ Len(w \o enc) = BLOCK * (q + 1)
  <2> DEFINE y == w \o enc   k == q + 1
  <2>1. e.blocks = BlocksOf(y, k) /\ Len(y) = BLOCK * k + 0
    BY <1>9 DEF Hashed
  <2>2. BLOCK * k \in Nat
    <3>1. k \in Nat
      BY <1>10
    <3> HIDE DEF k
    <3>. QED BY <1>1, <3>1
  <2> HIDE DEF y, k, e
  <2>3. Len(y) = BLOCK * k
    BY <2>1, <2>2
  <2>. QED BY <2>1, <2>3 DEF y, k
<1>12. FlattenSeq(e.blocks) = w \o enc
  <2> DEFINE y == w \o enc   k == q + 1
  <2>1. y \in Seq(Byte) /\ k \in Nat \ {0} /\ Len(y) = BLOCK * k /\ e.blocks = BlocksOf(y, k)
    BY <1>10, <1>11
  <2> HIDE DEF y, k, e
  <2>2. FlattenSeq(BlocksOf(y, k)) = y
    BY <2>1, BlocksAreText
  <2>. QED BY <2>1, <2>2 DEF y
<1>. QED BY <1>5, <1>6, <1>12 DEF c


-----------------------------------------------------------------------------
(* The answer to the challenge: which strings are summed.                  *)

(* l is the longest of the first n strings. *)
Longest(n, l) ==
  (\A j \in 1 .. n : lengths[j] <= l) /\ (l = 0 \/ \E j \in 1 .. n : lengths[j] = l)

BufferInv ==
  /\ md5_buffer \in Seq(Byte) /\ Len(md5_buffer) = BUFFER
  /\ \E l \in 0 .. BUFFER - 1 :
       /\ Longest(Len(summed), l)
       /\ \A i \in 1 .. BUFFER : md5_buffer[i] = Null <=> i > l

SumInv(k, sum) ==
  /\ sum.text \in Seq(Byte)
  /\ FlattenSeq(sum.blocks) = PaddedText(sum.text)
  /\ Longest(k, Len(sum.text))
  /\ \A i \in 1 .. lengths[k] : sum.text[i] = Text(k)[i]

DigestInv ==
  /\ lengths \in [1 .. 3 -> 0 .. BUFFER - 1]
  /\ Len(summed) \in 0 .. 3 /\ DOMAIN summed = 1 .. Len(summed)
  /\ summed = [k \in 1 .. Len(summed) |-> summed[k]]
  /\ BufferInv
  /\ \A k \in 1 .. Len(summed) : SumInv(k, summed[k])

LEMMA TextIs ==
  ASSUME lengths \in [1 .. 3 -> 0 .. BUFFER - 1], NEW k \in 1 .. 3
  PROVE  /\ Text(k) \in Seq(Byte) /\ Len(Text(k)) = lengths[k]
         /\ \A i \in 1 .. lengths[k] : Text(k)[i] \in Byte /\ Text(k)[i] # Null
<1> DEFINE n == lengths[k]   x == Text(k)
<1>1. n \in Nat
  BY DigestConstants
<1>2. Strings[k] \in {"user:realm:passwd", "method:url", "sum:nonce:sum"}
  BY DEF Strings
<1>3. ASSUME NEW i \in 1 .. n PROVE x[i] = <<Strings[k], i>>
  BY DEF Text
<1>4. ASSUME NEW i \in 1 .. n PROVE <<Strings[k], i>> \in Byte /\ <<Strings[k], i>> # Null
  <2>1. i \in Nat /\ i # 0
    BY <1>1
  <2>. QED BY <1>2, <2>1 DEF Byte, Null
<1>5. x \in [1 .. n -> Byte]
  BY <1>4 DEF Text
<1> HIDE DEF n, x
<1>6. x \in Seq(Byte) /\ Len(x) = n
  BY <1>1, <1>5
<1>. QED BY <1>3, <1>4, <1>6 DEF n, x

(* What is summed ends before the first null byte. *)
LEMMA StrlenIs ==
  ASSUME NEW b \in Seq(Byte), Len(b) = BUFFER, NEW l \in 0 .. BUFFER - 1,
         \A i \in 1 .. BUFFER : b[i] = Null <=> i > l
  PROVE  Strlen(b) = l
<1> DEFINE I == {i \in 1 .. Len(b) : b[i] = Null}
<1>1. BUFFER \in Nat \ {0}
  BY DigestConstants
<1>2. I = l + 1 .. BUFFER
  BY <1>1
<1>3. I # {} /\ Min(I) = l + 1
  <2> DEFINE least == CHOOSE x \in I : \A y \in I : x <= y
  <2>1. l + 1 \in I /\ \A y \in I : l + 1 <= y
    BY <1>1, <1>2
  <2> HIDE DEF I
  <2>2. least \in I /\ \A y \in I : least <= y
    BY <2>1
  <2>3. least = l + 1
    <3> HIDE DEF least
    <3>1. least \in Int /\ least <= l + 1 /\ l + 1 <= least
      BY <1>1, <1>2, <2>1, <2>2
    <3>. QED BY <3>1
  <2>4. Min(I) = least
    BY DEF Min
  <2>. QED BY <2>1, <2>3, <2>4
<1>4. SelectInSeq(b, LAMBDA x : x = Null) = Min(I)
  <2>1. {i \in 1 .. Len(b) : b[i] = Null} # {}
    BY <1>3
  <2>. QED BY <2>1 DEF SelectInSeq
<1>. QED BY <1>1, <1>3, <1>4 DEF Strlen

LEMMA ResponseStep ==
  ASSUME DigestInv, calResponse
  PROVE  DigestInv'
<1> DEFINE n == Len(summed)   k == n + 1   text == Text(k)   b == md5_buffer
           x == lengths[k]    rest == SubSeq(b, Len(text) + 1, BUFFER)
           sum == getMd5(md5_buffer')
<1>1. /\ n \in 0 .. 2 /\ lengths' = lengths /\ summed' = Append(summed, sum)
      /\ md5_buffer' = text \o rest
  BY DEF DigestInv, calResponse
<1>2. BUFFER \in Nat \ {0} /\ b \in Seq(Byte) /\ Len(b) = BUFFER /\ k \in 1 .. 3
      /\ x \in 0 .. BUFFER - 1
  <2>1. BUFFER \in Nat \ {0} /\ b \in Seq(Byte) /\ Len(b) = BUFFER
    BY DigestConstants DEF DigestInv, BufferInv
  <2>2. k \in 1 .. 3
    <3> n \in 0 .. 2
      BY <1>1
    <3> HIDE DEF n
    <3>. QED OBVIOUS
  <2> HIDE DEF k
  <2>3. x \in 0 .. BUFFER - 1
    BY <2>2 DEF DigestInv
  <2>. QED BY <2>1, <2>2, <2>3
<1>3. /\ text \in Seq(Byte) /\ Len(text) = x
      /\ \A i \in 1 .. x : text[i] \in Byte /\ text[i] # Null
  BY <1>2, TextIs DEF DigestInv
<1> HIDE DEF text, x, b
<1>4. /\ rest \in Seq(Byte) /\ Len(rest) = BUFFER - x
      /\ \A i \in 1 .. BUFFER - x : rest[i] = b[x + i]
  <2> DEFINE a == x + 1
  <2>1. a \in Nat \ {0} /\ BUFFER \in Int /\ BUFFER <= Len(b) /\ rest = SubSeq(b, a, BUFFER)
    BY <1>2, <1>3
  <2> HIDE DEF a
  <2>2. /\ SubSeq(b, a, BUFFER) \in Seq(Byte)
        /\ Len(SubSeq(b, a, BUFFER)) = IF a <= BUFFER THEN BUFFER - a + 1 ELSE 0
        /\ \A i \in 1 .. BUFFER - a + 1 : SubSeq(b, a, BUFFER)[i] = b[a + i - 1]
    BY <1>2, <2>1, PartIs
  <2> HIDE DEF rest
  <2>3. a <= BUFFER /\ BUFFER - a + 1 = BUFFER - x /\ \A i \in Int : a + i - 1 = x + i
    BY <1>2 DEF a
  <2>4. /\ rest \in Seq(Byte) /\ Len(rest) = BUFFER - x
        /\ \A i \in 1 .. BUFFER - x : rest[i] = b[a + i - 1]
    BY <2>1, <2>2, <2>3
  <2>5. ASSUME NEW i \in 1 .. BUFFER - x PROVE rest[i] = b[x + i]
    <3>1. i \in Int
      BY <1>2
    <3>. QED BY <2>3, <2>4, <3>1
  <2>. QED BY <2>4, <2>5
<1> HIDE DEF rest
<1> DEFINE w == md5_buffer'
<1>5. /\ w \in Seq(Byte) /\ Len(w) = BUFFER
      /\ \A i \in 1 .. BUFFER : w[i] = IF i <= x THEN text[i] ELSE b[i]
  <2>1. Joined(w, text, rest)
    BY <1>1, <1>3, <1>4, JoinedIs
  <2> HIDE DEF w
  <2>2. w \in Seq(Byte) /\ Len(w) = BUFFER
    BY <1>2, <1>3, <1>4, <2>1 DEF Joined
  <2>3. ASSUME NEW i \in 1 .. BUFFER PROVE w[i] = IF i <= x THEN text[i] ELSE b[i]
    <3>1. w[i] = IF i <= x THEN text[i] ELSE rest[i - x]
      <4>1. i \in 1 .. x + (BUFFER - x)
        BY <1>2
      <4>. QED BY <1>3, <1>4, <2>1, <4>1 DEF Joined
    <3>2. ~(i <= x) => i - x \in 1 .. BUFFER - x /\ x + (i - x) = i
      BY <1>2
    <3>. QED BY <1>4, <3>1, <3>2
  <2>. QED BY <2>2, <2>3
<1>6. PICK l \in 0 .. BUFFER - 1 :
        Longest(n, l) /\ \A i \in 1 .. BUFFER : b[i] = Null <=> i > l
  BY DEF DigestInv, BufferInv, b
<1> DEFINE h == IF x > l THEN x ELSE l
<1>7. h \in 0 .. BUFFER - 1 /\ x <= h /\ \A i \in 1 .. BUFFER : w[i] = Null <=> i > h
  <2> HIDE DEF w
  <2>1. h \in 0 .. BUFFER - 1 /\ x <= h
    BY <1>2
  <2>2. ASSUME NEW i \in 1 .. BUFFER PROVE w[i] = Null <=> i > h
    <3>1. CASE i <= x
      <4>1. i \in 1 .. x /\ ~(i > h)
        BY <1>2, <3>1
      <4>. QED BY <1>3, <1>5, <3>1, <4>1
    <3>2. CASE ~(i <= x)
      <4>1. i > h <=> i > l
        BY <1>2, <3>2
      <4>. QED BY <1>5, <1>6, <3>2, <4>1
    <3>. QED BY <3>1, <3>2
  <2>. QED BY <2>1, <2>2
<1>8. Longest(k, h)
  <2>1. \A j \in 1 .. k : lengths[j] <= h
    <3> SUFFICES ASSUME NEW j \in 1 .. k PROVE lengths[j] <= h
      OBVIOUS
    <3> DEFINE z == lengths[j]
    <3>1. z \in Int
      <4>1. j \in 1 .. 3
        BY <1>2
      <4>. QED BY <1>2, <4>1 DEF DigestInv
    <3>2. j = k \/ j \in 1 .. n
      BY <1>1
    <3>3. j = k => z = x
      BY DEF x
    <3>4. j \in 1 .. n => z <= l
      BY <1>6 DEF Longest
    <3> HIDE DEF z
    <3>5. z <= h
      BY <1>2, <3>1, <3>2, <3>3, <3>4
    <3>. QED BY <3>5 DEF z
  <2>2. h = 0 \/ \E j \in 1 .. k : lengths[j] = h
    <3>1. CASE x > l
      <4>1. k \in 1 .. k /\ h = lengths[k]
        BY <1>1, <3>1 DEF x
      <4>. QED BY <4>1
    <3>2. CASE ~(x > l)
      <4>1. h = l /\ \A j \in 1 .. n : j \in 1 .. k
        BY <1>1, <3>2
      <4>. QED BY <1>6, <4>1 DEF Longest
    <3>. QED BY <3>1, <3>2
  <2>. QED BY <2>1, <2>2 DEF Longest
<1> HIDE DEF h
<1> DEFINE str == SubSeq(w, 1, Strlen(w))
<1>9. /\ str \in Seq(Byte) /\ Len(str) = h /\ \A i \in 1 .. h : str[i] = w[i]
  <2>1. Strlen(w) = h
    <3> HIDE DEF w
    <3>. QED BY <1>5, <1>7, StrlenIs
  <2>2. 1 \in Nat \ {0} /\ h \in Int /\ h <= Len(w)
    BY <1>2, <1>5, <1>7
  <2> HIDE DEF w
  <2>3. /\ SubSeq(w, 1, h) \in Seq(Byte)
        /\ Len(SubSeq(w, 1, h)) = IF 1 <= h THEN h - 1 + 1 ELSE 0
        /\ \A i \in 1 .. h - 1 + 1 : SubSeq(w, 1, h)[i] = w[1 + i - 1]
    BY <1>5, <2>2, PartIs
  <2>4. str = SubSeq(w, 1, h)
    BY <2>1
  <2> HIDE DEF str
  <2>5. h - 1 + 1 = h /\ (IF 1 <= h THEN h - 1 + 1 ELSE 0) = h /\ \A i \in 1 .. h : 1 + i - 1 = i
    BY <1>2, <1>7
  <2>. QED BY <2>3, <2>4, <2>5
<1>10. sum.text = str /\ FlattenSeq(sum.blocks) = PaddedText(str)
  <2>1. sum = [text |-> str, blocks |-> MD5Final(MD5Update(MD5Init, str)).blocks]
    BY DEF getMd5
  <2> HIDE DEF sum, str
  <2>2. FlattenSeq(MD5Final(MD5Update(MD5Init, str)).blocks) = PaddedText(str)
    BY <1>9, SumIs
  <2>. QED BY <2>1, <2>2
<1> HIDE DEF sum, str
<1>11. SumInv(k, sum)
  <2>1. ASSUME NEW i \in 1 .. x PROVE str[i] = text[i]
    <3>1. i \in 1 .. h /\ i \in 1 .. BUFFER /\ i <= x
      BY <1>2, <1>7
    <3> HIDE DEF w
    <3>. QED BY <1>5, <1>9, <3>1
  <2>2. str \in Seq(Byte) /\ Len(str) = h
    BY <1>9
  <2>3. \A i \in 1 .. lengths[k] : str[i] = Text(k)[i]
    BY <2>1 DEF x, text
  <2> HIDE DEF k, w
  <2>. QED BY <1>8, <1>10, <2>2, <2>3 DEF SumInv
<1>12. /\ Len(summed') = k /\ DOMAIN summed' = 1 .. k
       /\ \A j \in 1 .. n : summed'[j] = summed[j]
       /\ summed'[k] = sum
       /\ summed' = [j \in 1 .. k |-> summed'[j]]
  <2> DEFINE S == {summed[j] : j \in 1 .. n} \cup {sum}
  <2>1. summed \in [1 .. n -> S] /\ n \in Nat
    BY <1>1 DEF DigestInv
  <2> DEFINE s == summed   e == sum   T == S
  <2>2. s \in Seq(T) /\ e \in T /\ Len(s) = n
    <3>1. s \in [1 .. n -> T] /\ e \in T /\ Len(s) = n
      BY <2>1
    <3> HIDE DEF s, e, T, n
    <3>. QED BY <2>1, <3>1
  <2> DEFINE u == Append(s, e)
  <2> HIDE DEF s, e, T, n
  <2>3. /\ u \in Seq(T) /\ Len(u) = Len(s) + 1
        /\ \A i \in 1 .. Len(s) : u[i] = s[i]
        /\ u[Len(s) + 1] = e
    BY <2>2, AppendProperties
  <2>4. /\ Len(u) \in Nat /\ u \in [1 .. Len(u) -> T] /\ DOMAIN u = 1 .. Len(u)
    BY <2>3, LenProperties
  <2> HIDE DEF u
  <2>5. u = [j \in 1 .. Len(u) |-> u[j]]
    BY <2>4
  <2>6. summed' = u
    BY <1>1 DEF u, s, e
  <2>. QED BY <2>2, <2>3, <2>4, <2>5, <2>6 DEF s, e
<1>13. BufferInv'
  <2>1. h \in 0 .. BUFFER - 1 /\ w \in Seq(Byte) /\ Len(w) = BUFFER
        /\ \A i \in 1 .. BUFFER : w[i] = Null <=> i > h
    BY <1>5, <1>7
  <2>2. Longest(k, h)
    BY <1>8
  <2>3. lengths' = lengths /\ Len(summed') = k
    BY <1>1, <1>12
  <2>4. /\ \A j \in 1 .. Len(summed') : lengths'[j] <= h
        /\ h = 0 \/ \E j \in 1 .. Len(summed') : lengths'[j] = h
    <3> HIDE DEF k
    <3>. QED BY <2>2, <2>3 DEF Longest
  <2> HIDE DEF k
  <2>. QED BY <2>1, <2>4 DEF BufferInv, Longest
<1>14. ASSUME NEW j \in 1 .. k PROVE SumInv(j, summed[j])'
  <2> DEFINE e == summed'[j]
  <2>1. SumInv(j, e)
    <3>1. CASE j = k
      BY <1>11, <1>12, <3>1
    <3>2. CASE j # k
      <4>1. j \in 1 .. n
        BY <1>1, <3>2
      <4>. QED BY <1>12, <4>1 DEF DigestInv
    <3>. QED BY <3>1, <3>2
  <2>2. lengths' = lengths
    BY <1>1
  <2>3. e.text \in Seq(Byte) /\ FlattenSeq(e.blocks) = PaddedText(e.text)
    BY <2>1 DEF SumInv
  <2>4. /\ \A i \in 1 .. j : lengths'[i] <= Len(e.text)
        /\ Len(e.text) = 0 \/ \E i \in 1 .. j : lengths'[i] = Len(e.text)
    BY <2>1, <2>2 DEF SumInv, Longest
  <2>5. Text(j)' = Text(j)
    BY <2>2 DEF Text
  <2>6. \A i \in 1 .. lengths'[j] : e.text[i] = Text(j)'[i]
    BY <2>1, <2>2, <2>5 DEF SumInv
  <2>. QED BY <2>3, <2>4, <2>6 DEF SumInv, Longest
<1>15. /\ lengths' \in [1 .. 3 -> 0 .. BUFFER - 1]
       /\ Len(summed') \in 0 .. 3 /\ DOMAIN summed' = 1 .. Len(summed')
       /\ summed' = [j \in 1 .. Len(summed') |-> summed'[j]]
  <2>1. lengths' \in [1 .. 3 -> 0 .. BUFFER - 1]
    BY <1>1 DEF DigestInv
  <2>2. k \in 0 .. 3
    BY <1>2
  <2> HIDE DEF k
  <2>. QED BY <1>12, <2>1, <2>2
<1>16. \A j \in 1 .. Len(summed') : SumInv(j, summed[j])'
  <2>1. Len(summed') = k
    BY <1>12
  <2>. QED BY <1>14, <2>1
<1>. QED BY <1>13, <1>15, <1>16 DEF DigestInv

(* The sums of the answer to a challenge are MD5 sums, for any block, byte *)
(* and count, and for strings of any length: each of the text before the   *)
(* first null byte, which is the string that was asked for exactly if no   *)
(* longer one was in the buffer before (md5.cpp, calResponse).             *)
THEOREM SumsAreRight == DigestSpec => []SumsComputed
<1>1. DigestInit => DigestInv
  <2> SUFFICES ASSUME DigestInit PROVE DigestInv
    OBVIOUS
  <2>1. BUFFER \in Nat \ {0} /\ TextLengths \subseteq 0 .. BUFFER - 1 /\ 0 \in 0 .. BUFFER - 1
    BY DigestConstants
  <2>2. md5_buffer \in [1 .. BUFFER -> Byte] /\ \A i \in 1 .. BUFFER : md5_buffer[i] = Null
    <3>1. Null \in Byte
      BY DEF Null, Byte
    <3>. QED BY <3>1 DEF DigestInit, Zeroed
  <2>3. md5_buffer \in Seq(Byte) /\ Len(md5_buffer) = BUFFER
    BY <2>1, <2>2
  <2>4. summed = <<>> /\ Len(summed) = 0 /\ DOMAIN summed = 1 .. 0
        /\ summed = [k \in 1 .. 0 |-> summed[k]]
    BY DEF DigestInit
  <2>5. Longest(0, 0) /\ \A i \in 1 .. BUFFER : i > 0
    BY DEF Longest
  <2>6. lengths \in [1 .. 3 -> 0 .. BUFFER - 1]
    BY <2>1 DEF DigestInit
  <2>7. BufferInv
    BY <2>1, <2>2, <2>3, <2>4, <2>5 DEF BufferInv
  <2>8. /\ Len(summed) \in 0 .. 3 /\ DOMAIN summed = 1 .. Len(summed)
        /\ summed = [k \in 1 .. Len(summed) |-> summed[k]]
    BY <2>4
  <2>9. \A k \in 1 .. Len(summed) : SumInv(k, summed[k])
    BY <2>4
  <2>. QED BY <2>6, <2>7, <2>8, <2>9 DEF DigestInv
<1>2. DigestInv /\ [DigestNext]_digestVars => DigestInv'
  <2>1. ASSUME DigestInv, UNCHANGED digestVars PROVE DigestInv'
    BY <2>1 DEF digestVars, DigestInv, BufferInv, SumInv, Longest, Text
  <2>. QED BY <2>1, ResponseStep DEF DigestNext
<1>3. DigestInv => SumsComputed
  <2> SUFFICES ASSUME DigestInv, NEW k \in 1 .. Len(summed)
               PROVE  /\ FlattenSeq(summed[k].blocks) = PaddedText(summed[k].text)
                      /\ summed[k].text = Text(k) <=> \A j \in 1 .. k : lengths[j] <= lengths[k]
    BY DEF SumsComputed, SumOfPaddedText, SumOfItsString, DigestInv
  <2> DEFINE s == summed[k].text   x == lengths[k]   t == Text(k)   l == Len(s)
  <2>1. k \in 1 .. 3 /\ lengths \in [1 .. 3 -> 0 .. BUFFER - 1] /\ BUFFER \in Nat
    BY DigestConstants DEF DigestInv
  <2>2. SumInv(k, summed[k])
    BY DEF DigestInv
  <2>3. t \in Seq(Byte) /\ Len(t) = x
    BY <2>1, TextIs
  <2>4. s \in Seq(Byte) /\ Longest(k, l) /\ \A i \in 1 .. x : s[i] = t[i]
    BY <2>2 DEF SumInv
  <2>5. l \in Nat /\ x \in Nat
    BY <2>1, <2>4, LenProperties
  <2>6. x <= l
    BY <2>1, <2>4 DEF Longest
  <2>7. s = t <=> l = x
    <3> HIDE DEF s, t, x
    <3>1. l = x => s = t
      BY <2>3, <2>4, SeqEqual
    <3>2. s = t => l = x
      BY <2>3
    <3>. QED BY <3>1, <3>2
  <2>8. l = x <=> \A j \in 1 .. k : lengths[j] <= x
    <3>1. l = x => \A j \in 1 .. k : lengths[j] <= x
      BY <2>4 DEF Longest
    <3>2. ASSUME \A j \in 1 .. k : lengths[j] <= x PROVE l = x
      <4>1. l = 0 \/ \E j \in 1 .. k : lengths[j] = l
        BY <2>4 DEF Longest
      <4>2. l <= x
        <5> HIDE DEF l, x
        <5>. QED BY <2>5, <3>2, <4>1
      <4> HIDE DEF l, x
      <4>. QED BY <2>5, <2>6, <4>2
    <3>. QED BY <3>1, <3>2
  <2>. QED BY <2>2, <2>7, <2>8 DEF SumInv
<1>. QED BY <1>1, <1>2, <1>3, PTL DEF DigestSpec
=============================================================================
