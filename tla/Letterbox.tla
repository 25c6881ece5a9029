----------------------------- MODULE Letterbox -----------------------------
(***************************************************************************)
(* The geometry of a picture on its way to the network and of a box on its *)
(* way back: yuv_to_rgb_scale shrinks the decoded picture to the network's *)
(* size, pad_data centres it in a black frame, correctYoloBoxes undoes     *)
(* both for a box, getDetectBoxInfo cuts it to the picture.  The sizes are *)
(* static: the first picture fixes them.                                   *)
(*                                                                         *)
(* Lengths are bytes, positions are pixels; ratios are kept as fractions.  *)
(***************************************************************************)
EXTENDS Integers

CONSTANTS
  Detects,    \* detect sizes <<w, h>>, that of the network's input
  Sources,    \* sizes of decoded pictures, <<w, h>>
  BoxEnds     \* box coordinates before they are cut to the picture

ASSUME LetterboxConstants ==
  /\ Detects \cup Sources \subseteq (Nat \ {0}) \X (Nat \ {0})
  /\ BoxEnds \subseteq Int

VARIABLES
  boxPc,      \* "first", "picture", "boxed"
  detect,     \* detect_w, detect_h
  first,      \* the size of the first picture
  src,        \* the size of the picture in hand
  rawBox,     \* a box in pixels of the source, [left, right, top, bottom]
  cutBox      \* the same as it is sent

boxVars == <<boxPc, detect, first, src, rawBox, cutBox>>

NoBox == [left |-> 0, right |-> 0, top |-> 0, bottom |-> 0]

LetterInit ==
  /\ boxPc = "first"
  /\ detect \in Detects
  /\ first = <<0, 0>> /\ src = <<0, 0>> /\ rawBox = NoBox /\ cutBox = NoBox

Low(a, b)  == IF a < b THEN a ELSE b
High(a, b) == IF a > b THEN a ELSE b

-----------------------------------------------------------------------------
(* yuv_to_rgb_scale, from the size s of the first picture.                 *)

(* Does the height set the ratio, or the width?                            *)
Tall(d, s) == d[2] * s[1] < d[1] * s[2]

(* Mutant: the larger of the two ratios is taken. *)
Scaled_Fill(d, s) ==
  IF ~Tall(d, s) THEN <<(2 * d[2] * s[1] + s[2]) \div (2 * s[2]), d[2]>>
                 ELSE <<d[1], (2 * d[1] * s[2] + s[1]) \div (2 * s[1])>>

(* Mutant: the scaled size is rounded up. *)
Scaled_Up(d, s) ==
  IF Tall(d, s) THEN <<(d[2] * s[1]) \div s[2] + 2, d[2]>>
                ELSE <<d[1], (d[1] * s[2]) \div s[1] + 2>>

(* The nearest size that fits the network's.                               *)
Scaled(d, s) ==
  IF Tall(d, s) THEN <<(2 * d[2] * s[1] + s[2]) \div (2 * s[2]), d[2]>>
                ELSE <<d[1], (2 * d[1] * s[2] + s[1]) \div (2 * s[1])>>

(* Where the third plane of a planar picture starts, and where it ends: its *)
(* rows are (h + 1) / 2, a row is w >> 1 from the next and (w + 1) / 2 long *)
ThirdPlane(z) == (z[1] * z[2] * 5) \div 4
PlaneRows(z)  == ((z[2] + 1) \div 2 - 1) * (z[1] \div 2) + (z[1] + 1) \div 2
PlanarEnd(z)  == ThirdPlane(z) + PlaneRows(z)
Length(z)     == (z[1] * z[2] * 3) \div 2

(* pad_data: the corner of the picture in the frame, and the last byte it  *)
(* reads of a scaled picture whose rows it takes to be detect_w wide.      *)
PadCorner(d, z)   == <<(d[1] - z[1]) \div 2, (d[2] - z[2]) \div 2>>
PadReads(d, z)    == (z[2] - 1) * d[1] * 3 + z[1] * 3
ScaledBytes(z)    == z[1] * z[2] * 3

-----------------------------------------------------------------------------
(* correctYoloBoxes: the size it takes the scaled picture to have.         *)

(* Mutant: the corrected size belongs to the other ratio. *)
Corrected_Swapped(d, s) ==
  IF ~Tall(d, s) THEN <<(s[1] * d[2]) \div s[2], d[2]>>
                 ELSE <<d[1], (s[2] * d[1]) \div s[1]>>

Corrected(d, s) ==
  IF d[1] * s[2] < d[2] * s[1]
    THEN <<d[1], (s[2] * d[1]) \div s[1]>>
    ELSE <<(s[1] * d[2]) \div s[2], d[2]>>

(* getDetectBoxInfo cuts left and top below, right and bottom above.       *)
(* Mutant: the box is cut to the size, not to the last pixel. *)
Cut_ToSize(b, s) ==
  [left |-> High(b.left, 0), right |-> Low(b.right, s[1]),
   top |-> High(b.top, 0), bottom |-> Low(b.bottom, s[2])]

Cut(b, s) ==
  [left |-> High(b.left, 0), right |-> Low(b.right, s[1] - 1),
   top |-> High(b.top, 0), bottom |-> Low(b.bottom, s[2] - 1)]

-----------------------------------------------------------------------------
Picture ==
  /\ boxPc \in {"first", "boxed"}
  /\ src' \in Sources
  /\ first' = IF boxPc = "first" THEN src' ELSE first
  /\ boxPc' = "picture" /\ rawBox' = NoBox /\ cutBox' = NoBox
  /\ UNCHANGED detect

Box ==
  /\ boxPc = "picture"
  /\ rawBox' \in {b \in [left : BoxEnds, right : BoxEnds, top : BoxEnds,
                         bottom : BoxEnds] :
                    b.left < b.right /\ b.top < b.bottom}
  /\ cutBox' = Cut(rawBox', src)
  /\ boxPc' = "boxed"
  /\ UNCHANGED <<detect, first, src>>

LetterNext == Picture \/ Box
LetterSpec == LetterInit /\ [][LetterNext]_boxVars

-----------------------------------------------------------------------------
Taken == boxPc # "first"
Scale == Scaled(detect, first)
Even(z) == z[1] % 2 = 0 /\ z[2] % 2 = 0

(* The scaled planes are written into a buffer of the source's length:     *)
(* they fit if the source is no smaller than what it is scaled to, and the *)
(* scaled planes do not run into each other if the scaled size is even.    *)
PlanesFit ==
  /\ Taken /\ Even(first) /\ Even(Scale)
  /\ Scale[1] <= first[1] /\ Scale[2] <= first[2]
  =>
    /\ PlanarEnd(Scale) <= Length(first)
    /\ Scale[1] * Scale[2] + PlaneRows(Scale) <= ThirdPlane(Scale)

(* The frame holds the scaled picture, and pad_data reads no byte beyond   *)
(* it, unless the picture is narrower than the network's input: the row    *)
(* stride is taken from the frame (main.cpp:208).                          *)
PadInside ==
  Taken => /\ Scale[1] <= detect[1] /\ Scale[2] <= detect[2]
           /\ Scale[1] = detect[1] => PadReads(detect, Scale) <= ScaledBytes(Scale)

(* Scaling rounds, correcting truncates: for a picture of the first size   *)
(* the two agree to a pixel of the network's input, and so does the corner *)
(* (main.cpp:246, yoloDetect.cpp:484).                                     *)
Near(a, b) == a - b \in -1..1
BoxesComeBack ==
  Taken /\ src = first =>
    LET c == Corrected(detect, src)
        p == PadCorner(detect, Scale)
        q == PadCorner(detect, c)
    IN  \A i \in {1, 2} : Near(Scale[i], c[i]) /\ Near(p[i], q[i])

(* A box that meets the picture is cut to a box within it, and no box      *)
(* reaches past its last pixel.  A box wholly in the padding is not turned *)
(* into an empty one: its ends may cross.                                  *)
BoxInPicture ==
  boxPc = "boxed" =>
    /\ cutBox.right < src[1] /\ cutBox.bottom < src[2]
    /\ rawBox.left < src[1] /\ rawBox.right >= 0 =>
         0 <= cutBox.left /\ cutBox.left <= cutBox.right
    /\ rawBox.top < src[2] /\ rawBox.bottom >= 0 =>
         0 <= cutBox.top /\ cutBox.top <= cutBox.bottom

(* The picture is put into the network's frame (main.cpp:208) and the      *)
(* boxes are brought back (yoloDetect.cpp) with the same numbers, and      *)
(* within the memory both are given.                                       *)
PlacesAgree == PlanesFit /\ PadInside /\ BoxesComeBack /\ BoxInPicture
=============================================================================
