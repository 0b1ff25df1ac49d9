------------------------------ MODULE MCRoiRect ------------------------------
(***************************************************************************)
(* RoiRect on small instances.                                             *)
(***************************************************************************)
EXTENDS RoiRect, TLC

CONSTANTS roi1, roi2

Box(x1, y1, x2, y2) == [x1 |-> x1, y1 |-> y1, x2 |-> x2, y2 |-> y2]

TwoRois == {roi1, roi2}
AnyRoi == Permutations(TwoRois)

SomeBoxes == {Box(0, 0, 1, 1), Box(2, 0, 2, 0), Box(0, 2, 2, 2), Box(1, 0, 1, 2)}
Right == {<<1, 0>>}
=============================================================================
