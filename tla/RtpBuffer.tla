----------------------------- MODULE RtpBuffer -----------------------------
(***************************************************************************)
(* The reordering buffer between the two RTP threads of                    *)
(* src/rtpDataManager.cpp.                                                 *)
(*                                                                         *)
(* receive_thread copies each UDP packet into the ring slot its sequence   *)
(* number selects and, from the (LAG+1)-st packet on, posts one sem_buffer *)
(* token per packet.  parser_thread spends one token per ring slot, in     *)
(* slot order, whether the slot holds a packet or not.                     *)
(*                                                                         *)
(* The sender numbers its packets 0, 1, ...; a packet carries its number   *)
(* modulo SEQS.  UDP may lose, duplicate and reorder packets, the last     *)
(* within a window: a packet is overtaken by fewer than WINDOW others.     *)
(***************************************************************************)
EXTENDS Integers, FiniteSets

CONSTANTS
  BUFFER_SIZE, \* slots of vec_rtp, 4096
  SEQS,        \* range of the RTP sequence number, 65536
  FirstSeq,    \* sequence number of the sender's first packet
  LAG,         \* packets received before the first sem_post, 30
  WINDOW,      \* bound on reordering
  MaxSent,     \* bound: packets sent
  MaxLost,     \* bound: packets lost
  MaxDup       \* bound: packets duplicated

ASSUME ConstantsAssumption ==
  /\ BUFFER_SIZE \in Nat \ {0}
  /\ SEQS \in Nat \ {0} /\ SEQS % BUFFER_SIZE = 0
  /\ FirstSeq \in 0 .. SEQS - 1
  /\ LAG \in Nat /\ WINDOW \in Nat \ {0}
  /\ MaxSent \in Nat /\ MaxLost \in Nat /\ MaxDup \in Nat

VARIABLES
  sent,      \* packets sent so far
  flight,    \* packets on the way
  lost,      \* number of packets lost
  dups,      \* number of packets duplicated
  rxPc,      \* where receive_thread is
  received,  \* index of receive_thread; also names the pdata block of a packet
  first,     \* the packet first_seq comes from, or -1 before there is one
  times,     \* how often sequence number UINT16_MAX went by
  slots,     \* vec_rtp: validity, packet and pdata block of each slot
  sem_buffer,
  index,     \* index of parser_thread
  parserPc,  \* where parser_thread is
  inHand,    \* the RtpModel parser_thread copied out of the buffer
  lastOut,   \* the packet parsed last
  live,      \* pdata blocks allocated and not deleted
  misfits,   \* history: packets came "early" (a lap ahead of the parser) or
             \* "late" (the parser had passed their slot)
  is_stop,
  stopPc     \* progress of stop()

netVars    == <<sent, flight, lost, dups>>
rxVars     == <<rxPc, received, first, times, misfits>>
parserVars == <<index, parserPc, inHand, lastOut>>
stopVars   == <<is_stop, stopPc>>
vars       == <<netVars, rxVars, slots, sem_buffer, parserVars, live,
                stopVars>>

Pos  == 0 .. BUFFER_SIZE - 1
None == [isValid |-> FALSE, seq |-> -1, block |-> -1]

(* The sequence number packet p carries.                                   *)
SeqOf(p) == (FirstSeq + p) % SEQS

(* Mutant: the slot ignores the first sequence number. *)
PosOf_NoBase(seq, n, base) == ((seq + SEQS * n)) % BUFFER_SIZE

(* ((uint64_t)(seq + 65536 * times) - first_seq) % BUFFER_SIZE.            *)
PosOf(seq, n, base) == ((seq + SEQS * n) - base) % BUFFER_SIZE

Init ==
  /\ sent = 0 /\ flight = {} /\ lost = 0 /\ dups = 0
  /\ rxPc = "top" /\ received = 0 /\ first = -1 /\ times = 0 /\ misfits = {}
  /\ slots = [s \in Pos |-> None]
  /\ sem_buffer = 0
  /\ index = 0 /\ parserPc = "top" /\ inHand = None /\ lastOut = -1
  /\ live = {}
  /\ is_stop = FALSE /\ stopPc = "running"

-----------------------------------------------------------------------------
(* The network.                                                            *)

Send ==
  /\ sent < MaxSent
  /\ \A p \in flight : sent - p < WINDOW
  /\ flight' = flight \cup {sent}
  /\ sent' = sent + 1
  /\ UNCHANGED <<lost, dups, rxVars, slots, sem_buffer, parserVars, live, stopVars>>

Lose ==
  /\ lost < MaxLost
  /\ \E p \in flight : flight' = flight \ {p}
  /\ lost' = lost + 1
  /\ UNCHANGED <<sent, dups, rxVars, slots, sem_buffer, parserVars, live, stopVars>>

-----------------------------------------------------------------------------
(* receive_thread.                                                         *)

(* The flag is tested between packets only: recvfrom has no timeout.       *)
RxTop ==
  /\ rxPc = "top"
  /\ rxPc' = IF is_stop THEN "exited" ELSE "read"
  /\ UNCHANGED <<netVars, received, first, times, misfits, slots, sem_buffer, parserVars,
                 live, stopVars>>

(* read() returned nothing: sleep and try again.                           *)
ReadFails ==
  /\ rxPc = "read"
  /\ rxPc' = "top"
  /\ UNCHANGED <<netVars, received, first, times, misfits, slots, sem_buffer, parserVars,
                 live, stopVars>>

(* The first slot the parser has not taken yet.                            *)
NextSlot == IF parserPc \in {"parse", "delete"} THEN index + 1 ELSE index

(* One packet, or a second copy of it, is read and put in its slot; a      *)
(* packet still waiting there is deleted unread.                           *)
Receive(p, again) ==
  /\ rxPc = "read" /\ p \in flight
  /\ IF again THEN dups < MaxDup /\ dups' = dups + 1 /\ UNCHANGED flight
              ELSE flight' = flight \ {p} /\ UNCHANGED dups
  /\ first' = IF first = -1 THEN p ELSE first
  /\ LET s    == PosOf(SeqOf(p), times, SeqOf(first'))
         old  == IF slots[s].isValid THEN {slots[s].block} ELSE {}
     IN  /\ slots' = [slots EXCEPT ![s] =
                        [isValid |-> TRUE, seq |-> p, block |-> received]]
         /\ live' = (live \ old) \cup {received}
  /\ misfits' = misfits
       \cup {m \in {"early"} : p - first' >= NextSlot + BUFFER_SIZE}
       \cup {m \in {"late"} : p - first' < NextSlot}
  /\ times' = IF SeqOf(p) = SEQS - 1 THEN times + 1 ELSE times
  /\ received' = received + 1
  /\ rxPc' = "post"
  /\ UNCHANGED <<sent, lost, sem_buffer, parserVars, stopVars>>

(* Mutant: the first token is posted one packet too early. *)
Post_TooEarly ==
  /\ rxPc = "post"
  /\ sem_buffer' = IF received >= LAG THEN sem_buffer + 1 ELSE sem_buffer
  /\ rxPc' = "top"
  /\ UNCHANGED <<netVars, received, first, times, misfits, slots, parserVars, live, stopVars>>

(* Mutant: the first token is posted one packet too late. *)
Post_TooLate ==
  /\ rxPc = "post"
  /\ sem_buffer' = IF received > LAG + 1 THEN sem_buffer + 1 ELSE sem_buffer
  /\ rxPc' = "top"
  /\ UNCHANGED <<netVars, received, first, times, misfits, slots, parserVars, live, stopVars>>

Post ==
  /\ rxPc = "post"
  /\ sem_buffer' = IF received > LAG THEN sem_buffer + 1 ELSE sem_buffer
  /\ rxPc' = "top"
  /\ UNCHANGED <<netVars, received, first, times, misfits, slots, parserVars, live, stopVars>>

-----------------------------------------------------------------------------
(* parser_thread.                                                          *)

ParserTop ==
  /\ parserPc = "top"
  /\ parserPc' = IF is_stop THEN "exited" ELSE "wait"
  /\ UNCHANGED <<netVars, rxVars, slots, sem_buffer, index, inHand, lastOut,
                 live, stopVars>>

ParserWait ==
  /\ parserPc = "wait" /\ sem_buffer > 0
  /\ sem_buffer' = sem_buffer - 1
  /\ parserPc' = "take"
  /\ UNCHANGED <<netVars, rxVars, slots, index, inHand, lastOut, live, stopVars>>

(* Mutant: the slot is not marked free. *)
Take_KeepsValid ==
  /\ parserPc = "take"
  /\ LET s == index % BUFFER_SIZE
     IN  IF slots[s].isValid
         THEN /\ inHand' = slots[s]
              /\ slots' = slots
              /\ parserPc' = "parse"
              /\ UNCHANGED index
         ELSE /\ index' = index + 1
              /\ parserPc' = "top"
              /\ UNCHANGED <<inHand, slots>>
  /\ UNCHANGED <<netVars, rxVars, sem_buffer, lastOut, live, stopVars>>

(* Mutant: an empty slot is not skipped. *)
Take_NoSkip ==
  /\ parserPc = "take"
  /\ LET s == index % BUFFER_SIZE
     IN  IF slots[s].isValid
         THEN /\ inHand' = slots[s]
              /\ slots' = [slots EXCEPT ![s].isValid = FALSE]
              /\ parserPc' = "parse"
              /\ UNCHANGED index
         ELSE /\ index' = index
              /\ parserPc' = "top"
              /\ UNCHANGED <<inHand, slots>>
  /\ UNCHANGED <<netVars, rxVars, sem_buffer, lastOut, live, stopVars>>

(* Under buffer_mutex: copy the slot and mark it free, or skip it.         *)
Take ==
  /\ parserPc = "take"
  /\ LET s == index % BUFFER_SIZE
     IN  IF slots[s].isValid
         THEN /\ inHand' = slots[s]
              /\ slots' = [slots EXCEPT ![s].isValid = FALSE]
              /\ parserPc' = "parse"
              /\ UNCHANGED index
         ELSE /\ index' = index + 1
              /\ parserPc' = "top"
              /\ UNCHANGED <<inHand, slots>>
  /\ UNCHANGED <<netVars, rxVars, sem_buffer, lastOut, live, stopVars>>

(* parserRtpH26x, the callback and the forwarding use data.pdata.          *)
Parse ==
  /\ parserPc = "parse"
  /\ lastOut' = inHand.seq
  /\ parserPc' = "delete"
  /\ UNCHANGED <<netVars, rxVars, slots, sem_buffer, index, inHand, live, stopVars>>

Delete ==
  /\ parserPc = "delete"
  /\ live' = live \ {inHand.block}
  /\ index' = index + 1
  /\ inHand' = None
  /\ parserPc' = "top"
  /\ UNCHANGED <<netVars, rxVars, slots, sem_buffer, lastOut, stopVars>>

-----------------------------------------------------------------------------
(* RtpDataManager::stop().                                                 *)

(* Mutant: the parser is not woken. *)
Stop_NoPost ==
  /\ stopPc = "running"
  /\ is_stop' = TRUE
  /\ sem_buffer' = sem_buffer
  /\ stopPc' = "join_parser"
  /\ UNCHANGED <<netVars, rxVars, slots, parserVars, live>>

Stop ==
  /\ stopPc = "running"
  /\ is_stop' = TRUE
  /\ sem_buffer' = sem_buffer + 1
  /\ stopPc' = "join_parser"
  /\ UNCHANGED <<netVars, rxVars, slots, parserVars, live>>

JoinParser ==
  /\ stopPc = "join_parser" /\ parserPc = "exited"
  /\ stopPc' = "join_receiver"
  /\ UNCHANGED <<netVars, rxVars, slots, sem_buffer, parserVars, live,
                 is_stop>>

JoinReceiver ==
  /\ stopPc = "join_receiver" /\ rxPc = "exited"
  /\ stopPc' = "stopped"
  /\ UNCHANGED <<netVars, rxVars, slots, sem_buffer, parserVars, live,
                 is_stop>>

-----------------------------------------------------------------------------
Network == Send \/ Lose

Receiver ==
  \/ RxTop \/ ReadFails \/ Post
  \/ \E p \in flight, again \in BOOLEAN : Receive(p, again)

Parser == ParserTop \/ ParserWait \/ Take \/ Parse \/ Delete

Stopper == Stop \/ JoinParser \/ JoinReceiver

Next == Network \/ Receiver \/ Parser \/ Stopper

Spec == Init /\ [][Next]_vars

(* The threads run; the network promises nothing, and nobody has to stop.  *)
FairSpec == Spec /\ WF_vars(RxTop \/ Post) /\ WF_vars(Parser)
                 /\ WF_vars(JoinParser \/ JoinReceiver)

-----------------------------------------------------------------------------
(* Properties.                                                             *)

Slot == [isValid : BOOLEAN, seq : -1 .. MaxSent, block : -1 .. MaxSent + MaxDup]

TypeOK ==
  /\ sent \in 0 .. MaxSent /\ flight \subseteq 0 .. MaxSent
  /\ lost \in 0 .. MaxLost /\ dups \in 0 .. MaxDup
  /\ rxPc \in {"top", "read", "post", "exited"}
  /\ received \in 0 .. MaxSent + MaxDup
  /\ misfits \subseteq {"early", "late"}
  /\ first \in -1 .. MaxSent /\ times \in Nat
  /\ slots \in [Pos -> Slot]
  /\ sem_buffer \in Nat /\ index \in Nat
  /\ parserPc \in {"top", "wait", "take", "parse", "delete", "exited"}
  /\ inHand \in Slot /\ lastOut \in -1 .. MaxSent
  /\ live \subseteq 0 .. MaxSent + MaxDup
  /\ is_stop \in BOOLEAN
  /\ stopPc \in {"running", "join_parser", "join_receiver", "stopped"}

Occupied == {s \in Pos : slots[s].isValid}
InUse    == IF parserPc \in {"parse", "delete"} THEN {inHand.block} ELSE {}

(* Both threads delete pdata blocks, the parser outside the lock.  Every   *)
(* block allocated and not yet deleted has exactly one owner, an occupied  *)
(* slot or the parser's copy: none leaks, none is deleted twice, none is   *)
(* deleted under the parser.                                               *)
BlocksOwnedOnce ==
  /\ live = {slots[s].block : s \in Occupied} \cup InUse
  /\ \A s, t \in Occupied : slots[s].block = slots[t].block => s = t
  /\ \A s \in Occupied : slots[s].block \notin InUse

(* Slots the parser has, or has a token, to look at; packets received that *)
(* sem_post was considered for, or not yet.                                *)
Begun == index + sem_buffer
           + (IF parserPc \in {"take", "parse", "delete"} THEN 1 ELSE 0)
Unposted == IF rxPc = "post" THEN 1 ELSE 0
Heard    == received - Unposted

(* The parser trails the network by LAG packets plus every packet ever     *)
(* lost, minus every duplicate: a lost packet costs a token that no later  *)
(* packet makes up for, so the delay only grows.                           *)
TrailingDistance ==
  ~is_stop => Begun = (sent - Cardinality(flight) - Unposted) - lost + dups
                        - (IF Heard < LAG THEN Heard ELSE LAG)

(* Whatever is lost, duplicated or reordered, packets are parsed in order  *)
(* and never twice as long as each came within the ring's span ahead of    *)
(* the parser.  Outside it the ring delivers stale packets a lap late.     *)
(* While packets are only reordered, overtaken by at most LAG others, and  *)
(* the parser keeps up, it sees every packet, once, in order.              *)
RingKeepsOrder ==
  [][Parse =>
       /\ misfits = {} => lastOut' > lastOut
       /\ lost = 0 /\ dups = 0 /\ first = 0 /\ "early" \notin misfits
            => lastOut' = lastOut + 1]_vars

(* Every packet is parsed once LAG more have come, or the threads stop.    *)
ParsedAfterLag ==
  \A p \in 0 .. MaxSent - 1 :
    misfits = {} /\ lost = 0 /\ dups = 0 /\ first = 0 /\ received > p + LAG
      ~> lastOut >= p \/ is_stop \/ lost + dups > 0 \/ misfits # {}

(* stop()'s token gets the parser out of sem_wait, so the first join       *)
(* returns; the second waits for one more packet.                          *)
ParserStops == stopPc = "join_parser" ~> stopPc # "join_parser"

=============================================================================
