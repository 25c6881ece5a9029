----------------------------- MODULE Detection -----------------------------
(***************************************************************************)
(* NetDetect::getDetectBoxInfo: from the network's outputs for a picture   *)
(* to the boxes that are sent.  makeNetworkBoxes counts the cells above    *)
(* the threshold, fillNetworkBoxes turns them into detections, one of two  *)
(* sorts suppresses overlapping ones class by class, and                   *)
(* get_actual_detections keeps those with a class left.                    *)
(*                                                                         *)
(* Probabilities are ranks, 0 for one that is not above the threshold.     *)
(* Whether the overlap measure of two boxes (the IoU, or for diounms the   *)
(* IoU less a distance) is above its threshold is chosen freely.           *)
(***************************************************************************)
EXTENDS Integers, Sequences, FiniteSets

CONSTANTS
  Layers,         \* the layers in key order: their sizes [locs, boxes]
  classNum,       \* classes are numbered from 1
  TOP,            \* the highest rank of a probability
  DEFAULT_BOXES,  \* maxBoxNum before the configuration is read
  MaxBoxNums      \* the values the configuration may give it

ASSUME DetectionConstants ==
  /\ Layers \in Seq([locs : Nat, boxes : Nat])
  /\ classNum \in Nat \ {0} /\ TOP \in Nat /\ DEFAULT_BOXES \in Nat /\ MaxBoxNums \subseteq Nat

Classes == 1..classNum
Cells   == UNION {{<<l, j, n>> : j \in 1..Layers[l].locs, n \in 1..Layers[l].boxes}
                  : l \in DOMAIN Layers}

VARIABLES
  detectPc,   \* "make", "fill", "suppress", "select", "sent"
  class,      \* the class suppression has come to
  boxArr,     \* the number of boxes the array was allocated for
  maxBoxNum,
  hot,        \* the cells whose objectness is above the threshold
  num,        \* detections makeNetworkBoxes allocated
  dets,       \* the cells that became detections
  scored,     \* their probabilities as filled, by class
  prob,       \* the same, as the suppression leaves them
  over,       \* the pairs of detections that overlap too much
  selected    \* what is reported: detection and class

detectVars == <<detectPc, class, boxArr, maxBoxNum, hot, num, dets, scored, prob,
                over, selected>>

(* The constructor allocates boxArr first and reads maxBoxNum then.        *)
DetectInit ==
  /\ detectPc = "make" /\ class = 1
  /\ boxArr = DEFAULT_BOXES /\ maxBoxNum \in MaxBoxNums
  /\ hot \in SUBSET Cells
  /\ num = 0 /\ dets = {} /\ scored = <<>> /\ prob = <<>> /\ over = {}
  /\ selected = {}

makeNetworkBoxes ==
  /\ detectPc = "make" /\ detectPc' = "fill"
  /\ num' = IF Cardinality(hot) > maxBoxNum THEN maxBoxNum
                                            ELSE Cardinality(hot)
  /\ UNCHANGED <<class, boxArr, maxBoxNum, hot, dets, scored, prob, over, selected>>

(* Cells are filled location by location, the boxes of one together.       *)
Before(c, d) == \/ c[1] < d[1]
                \/ c[1] = d[1] /\ c[2] < d[2]
                \/ c[1] = d[1] /\ c[2] = d[2] /\ c[3] < d[3]

(* Mutant: the cap counts the cells of each layer anew. *)
Filled_PerLayer ==
  {c \in hot : Cardinality({d \in hot : d[1] = c[1] /\ Before(d, c)}) < maxBoxNum}

Filled == {c \in hot : Cardinality({d \in hot : Before(d, c)}) < maxBoxNum}

fillNetworkBoxes ==
  /\ detectPc = "fill" /\ detectPc' = "suppress"
  /\ dets' = Filled
  /\ scored' \in [Filled -> [Classes -> 0..TOP]]
  /\ prob' = scored'
  /\ \E close \in SUBSET {p \in Filled \X Filled : Before(p[1], p[2])} :
       over' = close \cup {<<p[2], p[1]>> : p \in close}
  /\ UNCHANGED <<class, boxArr, maxBoxNum, hot, num, selected>>

(* qsort by the probability of class k; equal ones come in any order.      *)
Sorted(k) ==
  {s \in [1..Cardinality(dets) -> dets] :
     /\ \A i, j \in DOMAIN s : i # j => s[i] # s[j]
     /\ \A i, j \in DOMAIN s : i < j => prob[s[i]][k] >= prob[s[j]][k]}

(* Mutant: only the next detection is compared. *)
Kept_Neighbour(s, k) ==
  LET kept[i \in 0..Len(s)] ==
        i # 0 /\ prob[s[i]][k] # 0
          /\ ~(i > 1 /\ kept[i - 1] /\ <<s[i - 1], s[i]>> \in over)
  IN  {s[i] : i \in {j \in DOMAIN s : kept[j]}}

(* Mutant: a suppressed detection goes on suppressing. *)
Kept_ByAny(s, k) ==
  {s[i] : i \in {j \in DOMAIN s : prob[s[j]][k] # 0 /\
                   \A h \in 1..(j - 1) : <<s[h], s[j]>> \notin over}}

(* Each detection not suppressed suppresses those behind it.               *)
Kept(s, k) ==
  LET kept[i \in 0..Len(s)] ==
        /\ i # 0 /\ prob[s[i]][k] # 0
        /\ \A j \in 1..(i - 1) : kept[j] => <<s[j], s[i]>> \notin over
  IN  {s[i] : i \in {j \in DOMAIN s : kept[j]}}

(* do_nms_sort and diounms_sort, one class after the other.                *)
Suppress ==
  /\ detectPc = "suppress"
  /\ detectPc' = IF class = classNum THEN "select" ELSE "suppress"
  /\ class' = class + 1
  /\ \E s \in Sorted(class) :
       prob' = [d \in dets |->
                 [prob[d] EXCEPT ![class] = IF d \in Kept(s, class) THEN @ ELSE 0]]
  /\ UNCHANGED <<boxArr, maxBoxNum, hot, num, dets, scored, over, selected>>

(* Mutant: the last class above the threshold is taken for the best. *)
Best_Last(d) == {k \in Classes : /\ prob[d][k] # 0
                                 /\ \A j \in Classes : j > k => prob[d][j] = 0}

(* The best class left, the first of equals.                               *)
Best(d) == {k \in Classes : /\ prob[d][k] # 0
                            /\ \A j \in Classes : prob[d][j] <= prob[d][k]
                            /\ \A j \in Classes : j < k => prob[d][j] < prob[d][k]}

get_actual_detections ==
  /\ detectPc = "select" /\ detectPc' = "sent"
  /\ selected' = UNION {{<<d, k>> : k \in Best(d)} : d \in dets}
  /\ UNCHANGED <<class, boxArr, maxBoxNum, hot, num, dets, scored, prob, over>>

DetectNext == \/ makeNetworkBoxes \/ fillNetworkBoxes
              \/ Suppress \/ get_actual_detections

DetectSpec == DetectInit /\ [][DetectNext]_detectVars

-----------------------------------------------------------------------------
Sent == detectPc = "sent"

(* The counting pass and the filling pass go through the cells in          *)
(* different orders and cap apart: every detection allocated is filled,    *)
(* none beyond (yoloDetect.cpp:374, 430).                                  *)
AllFilled == detectPc \notin {"make", "fill"} => Cardinality(dets) = num

(* Two boxes sent for one class do not overlap too much.                   *)
NoOverlapSent ==
  Sent => \A a, b \in selected : a[2] = b[2] => <<a[1], b[1]>> \notin over

(* What was suppressed for a class overlaps a detection that was not, and  *)
(* is at least as probable.                                                *)
SuppressedForReason ==
  Sent => \A d \in dets, k \in Classes :
    scored[d][k] # 0 /\ prob[d][k] = 0 =>
      \E e \in dets : /\ prob[e][k] >= scored[d][k]
                      /\ <<e, d>> \in over

(* Suppression class by class never loses the most probable object: its    *)
(* probability is always sent.                                             *)
StrongestSent ==
  Sent => \A d \in dets, k \in Classes :
    scored[d][k] # 0 =>
      \E s \in selected : scored[s[1]][s[2]] >= scored[d][k]

(* The boxes fit the array, if the configuration does not raise maxBoxNum  *)
(* above the default the array was allocated with (yoloDetect.cpp:180).    *)
BoxesFit == maxBoxNum <= DEFAULT_BOXES => Cardinality(selected) <= boxArr

(* The boxes sent are the detections, each kept or suppressed for a        *)
(* reason: the two passes over the cells agree (yoloDetect.cpp:374, 430),  *)
(* and suppression class by class (do_nms_sort) leaves no pair and loses   *)
(* no object.                                                              *)
BoxesSound ==
  /\ AllFilled
  /\ NoOverlapSent
  /\ SuppressedForReason
  /\ StrongestSent
  /\ BoxesFit
=============================================================================
