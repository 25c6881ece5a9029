----------------------------- MODULE DetectFifo -----------------------------
(***************************************************************************)
(* What the FPGA pipeline promises: frames 0, 1, ... are accepted, at most *)
(* Capacity of them unanswered at a time, and answered one by one, in the  *)
(* order of acceptance, each with the result computed from that frame.     *)
(***************************************************************************)
EXTENDS Integers

CONSTANT Capacity

VARIABLES
  accepted,  \* number of frames accepted so far
  answered,  \* number of frames answered so far
  last       \* the last answer: its frame and the frame the result is of

vars == <<accepted, answered, last>>

Init ==
  /\ accepted = 0
  /\ answered = 0
  /\ last = [frame |-> -1, result |-> -1]

Accept ==
  /\ accepted - answered < Capacity
  /\ accepted' = accepted + 1
  /\ UNCHANGED <<answered, last>>

Answer ==
  /\ answered < accepted
  /\ last' = [frame |-> answered, result |-> answered]
  /\ answered' = answered + 1
  /\ UNCHANGED accepted

Next == Accept \/ Answer

Spec == Init /\ [][Next]_vars

=============================================================================
