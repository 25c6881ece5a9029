----------------------------- MODULE BoxOverlap -----------------------------
(***************************************************************************)
(* How much two boxes overlap: box_iou and the distance box_diounms takes  *)
(* off it, by which the detections of a picture suppress one another.      *)
(*                                                                         *)
(* A box is [x, y, w, h], x and y its middle; on the grid of the model the *)
(* middles are counted in halves.  A fraction is kept as <<part, whole>>.  *)
(***************************************************************************)
EXTENDS Integers, FiniteSets

CONSTANT Edge      \* boxes lie on a grid of Edge by Edge cells

ASSUME EdgeAssumption == Edge \in Nat \ {0}

VARIABLES boxA, boxB
overlapVars == <<boxA, boxB>>

(* The boxes that are a cell wide and high at least, middles doubled.      *)
Spans == {e \in (0 .. Edge) \X (0 .. Edge) : e[1] < e[2]}
GridBoxes == {[x |-> r[1] + r[2], w |-> r[2] - r[1],
               y |-> c[1] + c[2], h |-> c[2] - c[1]] : r \in Spans, c \in Spans}

Least(a, b) == IF a < b THEN a ELSE b
Most(a, b)  == IF a > b THEN a ELSE b

(* Mutant: the right ends are those of the boxes' middles. *)
Overlap_Middle(x1, w1, x2, w2) ==
  Least(x1, x2) \div 2 - Most(x1 - w1, x2 - w2) \div 2

(* From the later left end to the earlier right end; below zero for boxes  *)
(* apart.                                                                  *)
Overlap(x1, w1, x2, w2) ==
  Least(x1 + w1, x2 + w2) \div 2 - Most(x1 - w1, x2 - w2) \div 2

box_intersection(a, b) ==
  LET w == Overlap(a.x, a.w, b.x, b.w)
      h == Overlap(a.y, a.h, b.y, b.h)
  IN  IF w < 0 \/ h < 0 THEN 0 ELSE w * h

box_union(a, b) == a.w * a.h + b.w * b.h - box_intersection(a, b)

box_iou(a, b) ==
  LET I == box_intersection(a, b)
      U == box_union(a, b)
  IN  IF I = 0 \/ U = 0 THEN <<0, 1>> ELSE <<I, U>>

(* box_c: the smallest box around both, doubled.                           *)
(* Mutant: only the first box bounds it. *)
Around_First(a, b) == [w |-> 2 * a.w, h |-> 2 * a.h]

Around(a, b) == [w |-> Most(a.x + a.w, b.x + b.w) - Least(a.x - a.w, b.x - b.w),
                 h |-> Most(a.y + a.h, b.y + b.h) - Least(a.y - a.h, b.y - b.h)]

(* box_diounms: the distance of the middles over the diagonal around both, *)
(* squared; a power of it is taken off the IoU.                            *)
box_diounms(a, b) ==
  LET c == Around(a, b)
  IN  <<(a.x - b.x) * (a.x - b.x) + (a.y - b.y) * (a.y - b.y),
        c.w * c.w + c.h * c.h>>

-----------------------------------------------------------------------------
OverlapInit == /\ boxA = [x |-> 1, w |-> 1, y |-> 1, h |-> 1]
               /\ boxB = boxA

(* The next two detections are compared.                                   *)
Compare ==
  /\ boxA' = boxB /\ boxB' \in GridBoxes

OverlapNext == Compare
OverlapSpec == OverlapInit /\ [][OverlapNext]_overlapVars

-----------------------------------------------------------------------------
Inside(b) == {p \in (1 .. Edge) \X (1 .. Edge) :
                /\ b.x - b.w < 2 * p[1] /\ 2 * p[1] <= b.x + b.w
                /\ b.y - b.h < 2 * p[2] /\ 2 * p[2] <= b.y + b.h}

(* The IoU is that of the areas: cells in both boxes over cells in either. *)
(* So it does not matter which box comes first, and a threshold of 1 is    *)
(* only met by the box itself.                                             *)
IouOfAreas ==
  LET iou == box_iou(boxA, boxB)
      I   == Cardinality(Inside(boxA) \cap Inside(boxB))
      U   == Cardinality(Inside(boxA) \cup Inside(boxB))
  IN  iou[1] * U = I * iou[2]

(* What the distance takes off is a part of one, nothing only for boxes    *)
(* with one middle: a box that is suppressed by its distance corrected     *)
(* overlap would be suppressed by the plain one too.                       *)
DistanceTakesOff ==
  LET d == box_diounms(boxA, boxB) IN
  /\ 0 <= d[1] /\ d[1] < d[2]
  /\ d[1] = 0 <=> (boxA.x = boxB.x /\ boxA.y = boxB.y)

(* The measures by which boxes are suppressed (box_iou, box_diounms) are   *)
(* what they stand for, for boxes inside, beside and across one another.   *)
OverlapSound == IouOfAreas /\ DistanceTakesOff
=============================================================================
