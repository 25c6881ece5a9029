------------------------------ MODULE StartUp ------------------------------
(***************************************************************************)
(* The order in which main() brings the parts up, src/main.cpp:1213, while *)
(* the parts it has brought up already run: from login() on, whose end     *)
(* makes the result server, clients may come, ask and leave; from the      *)
(* start of the RTP receiver on, packets are parsed, which a camera may    *)
(* still send to an earlier process.                                       *)
(***************************************************************************)
EXTENDS Integers

CONSTANTS MaxGuests   \* bound: clients served

VARIABLES
  mainPc,      \* what main does next
  stream,      \* the camera streams to this host
  guests,      \* clients accepted so far
  hostPc,      \* receive_thread: "accept", "pf" (clear() is due), "read"
  wantsBoxes,  \* can_send_box
  pf,          \* setpf was called
  vcu,         \* pAllegroVcu: "none", "made", "open"
  vcuOpens,    \* history: how often this AllegroVcu was opened
  crash,       \* what ended the process, or "no"
  early        \* history: what came before main was ready for it

upVars == <<mainPc, stream, guests, hostPc, wantsBoxes, pf, vcu, vcuOpens,
                crash, early>>

StartInit ==
  /\ mainPc = "login" /\ stream \in BOOLEAN
  /\ guests = 0 /\ hostPc = "accept" /\ wantsBoxes = FALSE
  /\ pf = FALSE /\ vcu = "none" /\ vcuOpens = 0
  /\ crash = "no" /\ early = {}

-----------------------------------------------------------------------------
(* main.                                                                   *)

MainStep(from, to) == crash = "no" /\ mainPc = from /\ mainPc' = to

(* login() returns: DataSend was used, its thread runs.                    *)
LoggedIn == /\ MainStep("login", "rtp")
            /\ UNCHANGED <<stream, guests, hostPc, wantsBoxes, pf, vcu,
                           vcuOpens, crash, early>>
RtpStart == /\ MainStep("rtp", "setpf")
            /\ UNCHANGED <<stream, guests, hostPc, wantsBoxes, pf, vcu,
                           vcuOpens, crash, early>>
SetPf    == /\ MainStep("setpf", "init") /\ pf' = TRUE
            /\ UNCHANGED <<stream, guests, hostPc, wantsBoxes, vcu, vcuOpens,
                           crash, early>>

(* VCUControl::init returns at once when the decoder is open already.      *)
VcuInit  == /\ MainStep("init", "open")
            /\ IF vcu = "open" THEN UNCHANGED <<vcu, vcuOpens>>
                               ELSE vcu' = "made" /\ vcuOpens' = 0
            /\ UNCHANGED <<stream, guests, hostPc, wantsBoxes, pf, crash, early>>
VcuOpen  == /\ MainStep("open", "play")
            /\ vcu' = "open" /\ vcuOpens' = vcuOpens + 1
            /\ UNCHANGED <<stream, guests, hostPc, wantsBoxes, pf, crash, early>>

(* Mutant: the camera is asked to play before the decoder is there. *)
Play_First == /\ crash = "no" /\ mainPc \in {"rtp", "setpf", "init", "play"}
              /\ stream' = TRUE
              /\ mainPc' = IF mainPc = "play" THEN "run" ELSE mainPc
              /\ UNCHANGED <<guests, hostPc, wantsBoxes, pf, vcu, vcuOpens,
                             crash, early>>
Play     == /\ MainStep("play", "run") /\ stream' = TRUE
            /\ UNCHANGED <<guests, hostPc, wantsBoxes, pf, vcu, vcuOpens,
                           crash, early>>

Main == LoggedIn \/ RtpStart \/ SetPf \/ VcuInit \/ VcuOpen \/ Play

-----------------------------------------------------------------------------
(* DataSend::receive_thread and its clients.                               *)

ServerUp == crash = "no" /\ mainPc # "login"
Ready    == mainPc \in {"play", "run"}

(* Mutant: the first client is cleared for too. *)
GuestComes_ClearsFirst ==
  /\ ServerUp /\ hostPc = "accept" /\ guests < MaxGuests
  /\ guests' = guests + 1 /\ hostPc' = "pf"
  /\ early' = early \cup {e \in {"second"} : guests > 0 /\ ~Ready}
  /\ UNCHANGED <<mainPc, stream, wantsBoxes, pf, vcu, vcuOpens, crash>>

GuestComes ==
  /\ ServerUp /\ hostPc = "accept" /\ guests < MaxGuests
  /\ guests' = guests + 1
  /\ hostPc' = IF guests > 0 THEN "pf" ELSE "read"
  /\ early' = early \cup {e \in {"second"} : guests > 0 /\ ~Ready}
  /\ UNCHANGED <<mainPc, stream, wantsBoxes, pf, vcu, vcuOpens, crash>>

(* pf(): an empty function throws, a decoder that is not there is a null   *)
(* pointer; otherwise the decoder is made anew and opened.                 *)
CallPf ==
  /\ ServerUp /\ hostPc = "pf"
  /\ IF ~pf \/ vcu = "none"
       THEN crash' = "restart" /\ UNCHANGED <<hostPc, vcu, vcuOpens>>
       ELSE hostPc' = "read" /\ vcu' = "open" /\ vcuOpens' = 1 /\ UNCHANGED crash
  /\ UNCHANGED <<mainPc, stream, guests, wantsBoxes, pf, early>>

AskBoxes ==
  /\ ServerUp /\ hostPc = "read" /\ ~wantsBoxes
  /\ wantsBoxes' = TRUE
  /\ early' = early \cup {e \in {"streamed"} : stream /\ ~Ready}
  /\ UNCHANGED <<mainPc, stream, guests, hostPc, pf, vcu, vcuOpens, crash>>

GuestLeaves ==
  /\ ServerUp /\ hostPc = "read"
  /\ hostPc' = "accept" /\ wantsBoxes' = FALSE
  /\ UNCHANGED <<mainPc, stream, guests, pf, vcu, vcuOpens, crash, early>>

(* parser_thread: a unit for a client that wants boxes goes to the decoder.*)
Unit ==
  /\ ServerUp /\ mainPc # "rtp" /\ stream /\ wantsBoxes
  /\ crash' = IF vcu = "none" THEN "push" ELSE crash
  /\ UNCHANGED <<mainPc, stream, guests, hostPc, wantsBoxes, pf, vcu,
                 vcuOpens, early>>

StartNext == Main \/ GuestComes \/ CallPf \/ AskBoxes \/ GuestLeaves \/ Unit
StartSpec == StartInit /\ [][StartNext]_upVars

-----------------------------------------------------------------------------
(* Properties.                                                             *)

(* Clients may come as soon as login() is over, before main has set the    *)
(* callback and the decoder: one client may, and ask for boxes, since the  *)
(* camera sends nothing before play().  A second client by then, or boxes  *)
(* asked for while a stream of an earlier process still runs, may meet     *)
(* parts that are not there (main.cpp:1248-1273).                          *)
NothingUsedTooEarly ==
  /\ crash = "push"    => "streamed" \in early
  /\ crash = "restart" => "second" \in early

(* The decoder in use was opened once, and frames are only pushed to one   *)
(* that is open, under the same provisos.                                  *)
DecoderOpenedOnce ==
  /\ early = {} => vcuOpens <= 1
  /\ Ready => vcu = "open"
  /\ early = {} /\ stream /\ wantsBoxes => vcu = "open"

(* main (main.cpp:1248) may bring its parts up with the result server      *)
(* already running, but for what the two provisos say.                     *)
EarlyClientsHarmless == NothingUsedTooEarly /\ DecoderOpenedOnce
=============================================================================
