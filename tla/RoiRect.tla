------------------------------- MODULE RoiRect -------------------------------
(***************************************************************************)
(* A region of interest as XIL keeps it (XiliRoiRect): a list of           *)
(* rectangles in bands, and a bounding box that is kept apart and updated  *)
(* by some of the calls only.  Every algorithm walks the list once and     *)
(* relies on its order: "ordering maintains y-ordering first, with         *)
(* x-ordering second. No touching Roi's in the x-direction"                *)
(* (XiliRoiRect.cc:1924).                                                  *)
(*                                                                         *)
(* One sequence stands for the list and for singleRect, which holds the    *)
(* only rectangle when there is one.  Left out: the two other forms of a   *)
(* ROI (bitmask, convex region) and an allocation that fails.              *)
(***************************************************************************)
EXTENDS Integers, Sequences, SequencesExt, FiniteSetsExt

CONSTANTS
    Rois,     \* the ROIs of the application
    Boxes,    \* the rectangles it adds and subtracts
    Shifts,   \* the pairs it translates by
    Limit,    \* bound: translated coordinates stay in 0 .. Limit
    Careful   \* unite() is called for ROIs whose lists it can join

VARIABLE roi  \* Rois -> [rects : the list, bbox : the bounding box]

NullBox == [x1 |-> 0, y1 |-> 0, x2 |-> 0, y2 |-> 0]
Empty == [rects |-> <<>>, bbox |-> NullBox]

PixelsOf(c) == (c.x1 .. c.x2) \X (c.y1 .. c.y2)
Pixels(a) == UNION {PixelsOf(a.rects[i]) : i \in DOMAIN a.rects}

\* The smallest box around some boxes.
Around(S) == [x1 |-> Min({c.x1 : c \in S}), y1 |-> Min({c.y1 : c \in S}),
              x2 |-> Max({c.x2 : c \in S}), y2 |-> Max({c.y2 : c \in S})]
BoundingBox(rects) == IF rects = <<>> THEN NullBox ELSE Around(ToSet(rects))

-----------------------------------------------------------------------------
(* addRect(): the list and the new rectangle are cut at each other's       *)
(* edges, merged and united along x.                                       *)

\* A rectangle that an edge of b cuts through is cut there; the lower part
\* goes behind the rectangles that do not start below it.
RECURSIVE CutBy(_, _, _)
CutBy(rects, i, b) ==
    IF i > Len(rects) THEN rects
    ELSE LET c == rects[i]
             cut == IF c.y1 < b.y1 /\ b.y1 <= c.y2 THEN b.y1
                    ELSE IF c.y1 <= b.y2 /\ b.y2 < c.y2 THEN b.y2 + 1 ELSE c.y1
             behind == Min({j \in i + 1 .. Len(rects) : rects[j].y1 > cut}
                             \cup {Len(rects) + 1})
         IN  IF cut = c.y1 THEN CutBy(rects, i + 1, b)
             ELSE CutBy(InsertAt([rects EXCEPT ![i].y2 = cut - 1], behind,
                                 [c EXCEPT !.y1 = cut]), i + 1, b)

CutLast(pieces, cut) ==
    LET p == Last(pieces)
    IN  IF p.y1 < cut /\ cut <= p.y2
        THEN Front(pieces) \o <<[p EXCEPT !.y2 = cut - 1], [p EXCEPT !.y1 = cut]>>
        ELSE pieces
\* Mutant: the lower edges of the list do not cut.
CutAbove(b, rects) ==
    FoldLeft(LAMBDA pieces, c : CutLast(pieces, c.y1), <<b>>, rects)
Divided(b, rects) ==
    FoldLeft(LAMBDA pieces, c : CutLast(CutLast(pieces, c.y1), c.y2 + 1), <<b>>, rects)

Before(c, d) == c.y1 < d.y1 \/ (c.y1 = d.y1 /\ c.x1 < d.x1)

RECURSIVE Merged(_, _)
Merged(rects, pieces) ==
    IF rects = <<>> \/ pieces = <<>> THEN rects \o pieces
    ELSE IF Before(Head(pieces), Head(rects))
         THEN <<Head(pieces)>> \o Merged(rects, Tail(pieces))
         ELSE <<Head(rects)>> \o Merged(Tail(rects), pieces)

\* Mutant: only rectangles that overlap are united.
UniteOverlapping(rects, c) ==
    IF rects = <<>> \/ Last(rects).y1 # c.y1 \/ Last(rects).x2 < c.x1
    THEN Append(rects, c)
    ELSE IF Last(rects).x2 >= c.x2 THEN rects
    ELSE Append(Front(rects), [Last(rects) EXCEPT !.x2 = c.x2])
\* A rectangle that overlaps or touches the one before it in its band.
UniteWithLast(rects, c) ==
    IF rects = <<>> \/ Last(rects).y1 # c.y1 \/ Last(rects).x2 < c.x1 - 1
    THEN Append(rects, c)
    ELSE IF Last(rects).x2 >= c.x2 THEN rects
    ELSE Append(Front(rects), [Last(rects) EXCEPT !.x2 = c.x2])

Added(a, b) ==
    LET cut == CutBy(a.rects, 1, b)
        rects == FoldLeft(UniteWithLast, <<>>, Merged(cut, Divided(b, cut)))
    IN  [rects |-> rects, bbox |-> BoundingBox(rects)]

AddRect(r, b) == roi' = [roi EXCEPT ![r] = Added(@, b)]

-----------------------------------------------------------------------------
(* subtractRect(): bands are cut at the edges of the rectangle, which is   *)
(* cut at theirs and taken off band by band.                               *)

\* The first band that does not end above the cut is cut.
RowCut(rects, cut) ==
    LET i == SelectInSeq(rects, LAMBDA c : c.y2 >= cut)
        Row == {j \in i .. Len(rects) : \A k \in i .. j : rects[k].y1 = rects[i].y1}
        row == SubSeq(rects, i, Max(Row))
    IN  IF i = 0 \/ rects[i].y1 >= cut THEN rects
        ELSE SubSeq(rects, 1, i - 1)
               \o [j \in DOMAIN row |-> [row[j] EXCEPT !.y2 = cut - 1]]
               \o [j \in DOMAIN row |-> [row[j] EXCEPT !.y1 = cut]]
               \o SubSeq(rects, Max(Row) + 1, Len(rects))

RECURSIVE Reduced(_, _)
Reduced(rects, pieces) ==
    IF rects = <<>> \/ pieces = <<>> THEN rects
    ELSE LET c == Head(rects)
             p == Head(pieces)
             right == [c EXCEPT !.x1 = p.x2 + 1]
             left == [c EXCEPT !.x2 = p.x1 - 1]
         IN  IF p.y1 < c.y1 \/ (p.y1 = c.y1 /\ p.x2 < c.x1)
             THEN Reduced(rects, Tail(pieces))
             ELSE IF p.y1 > c.y1 \/ p.x1 > c.x2
             THEN <<c>> \o Reduced(Tail(rects), pieces)
             ELSE (IF p.x1 <= c.x1 THEN <<>> ELSE <<left>>)
                    \o IF p.x2 >= c.x2 THEN Reduced(Tail(rects), pieces)
                       ELSE Reduced(<<right>> \o Tail(rects), Tail(pieces))

\* The bounding box stays, unless a single rectangle is taken off as it is.
Subtracted(a, b) ==
    LET cut == RowCut(RowCut(a.rects, b.y1), b.y2 + 1)
    IN  IF a.rects = <<b>> THEN Empty
        ELSE [a EXCEPT !.rects = Reduced(cut, Divided(b, cut))]

SubtractRect(r, b) == roi' = [roi EXCEPT ![r] = Subtracted(@, b)]

-----------------------------------------------------------------------------
(* intersect(): both lists are walked band by band.                        *)

RECURSIVE IntersectBands(_, _, _, _)
IntersectBands(as, bs, ya, yb) ==
    IF as = <<>> \/ bs = <<>> THEN <<>>
    ELSE LET a == Head(as)
             b == Head(bs)
             both == [x1 |-> Max({a.x1, b.x1}), y1 |-> Max({ya[1], yb[1]}),
                      x2 |-> Min({a.x2, b.x2}), y2 |-> Min({ya[2], yb[2]})]
         IN  IF a.y1 # ya[1] \/ b.y1 # yb[1] THEN <<>>
             ELSE (IF both.x1 <= both.x2 THEN <<both>> ELSE <<>>)
                    \o IF a.x2 < b.x2 THEN IntersectBands(Tail(as), bs, ya, yb)
                       ELSE IntersectBands(as, Tail(bs), ya, yb)

\* The rest of a list from the first rectangle that ends in another row on.
RestOf(rects, y2) ==
    LET i == SelectInSeq(rects, LAMBDA c : c.y2 # y2)
    IN  IF i = 0 THEN <<>> ELSE SubSeq(rects, i, Len(rects))

RECURSIVE Common(_, _)
Common(as, bs) ==
    IF as = <<>> \/ bs = <<>> THEN <<>>
    ELSE LET a == Head(as)
             b == Head(bs)
         IN  (IF a.y1 <= b.y2 /\ b.y1 <= a.y2
              THEN IntersectBands(as, bs, <<a.y1, a.y2>>, <<b.y1, b.y2>>) ELSE <<>>)
                \o IF b.y2 < a.y2 THEN Common(as, RestOf(bs, b.y2))
                   ELSE Common(RestOf(as, a.y2), bs)

\* updateBoundingBox() is called before singleRect is set, so it gives a
\* single rectangle the box of an empty ROI, unless both operands are single.
Intersection(a, b) ==
    LET rects == Common(a.rects, b.rects)
    IN  IF a.rects = <<>> THEN a
        ELSE IF b.rects = <<>> THEN b
        ELSE [rects |-> rects,
              bbox |-> IF Len(rects) = 1 /\ Len(a.rects) + Len(b.rects) > 2
                       THEN NullBox ELSE BoundingBox(rects)]

Intersect(r, s, t) == roi' = [roi EXCEPT ![t] = Intersection(roi[r], roi[s])]

-----------------------------------------------------------------------------
(* unite(): one list is added to a copy of the other, or both are joined   *)
(* when their bounding boxes do not meet.                                  *)

Meet(b, c) == b.x1 <= c.x2 /\ c.x1 <= b.x2 /\ b.y1 <= c.y2 /\ c.y1 <= b.y2

Joined(a, b) ==
    LET aFirst == a.bbox.y1 < b.bbox.y1 \/ (a.bbox.y1 = b.bbox.y1 /\ a.bbox.x1 < b.bbox.x1)
    IN  [rects |-> IF aFirst THEN a.rects \o b.rects ELSE b.rects \o a.rects,
         bbox |-> Around({a.bbox, b.bbox})]

United(a, b) ==
    IF a.rects = <<>> THEN b
    ELSE IF b.rects = <<>> THEN a
    ELSE IF Meet(a.bbox, b.bbox) THEN FoldLeft(Added, a, b.rects)
    ELSE Joined(a, b)

\* The order of the joined list is right only if one ROI ends above the
\* other, by boxes that bound them.
Bounded(a) == \A i \in DOMAIN a.rects : PixelsOf(a.rects[i]) \subseteq PixelsOf(a.bbox)
Joinable(a, b) ==
    \/ a.rects = <<>> \/ b.rects = <<>>
    \/ Meet(a.bbox, b.bbox)
    \/ /\ Bounded(a) /\ Bounded(b)
       /\ a.bbox.y2 < b.bbox.y1 \/ b.bbox.y2 < a.bbox.y1

Unite(r, s, t) ==
    /\ Careful => Joinable(roi[r], roi[s])
    /\ roi' = [roi EXCEPT ![t] = United(roi[r], roi[s])]

-----------------------------------------------------------------------------
Shifted(c, x, y) == [x1 |-> c.x1 + x, y1 |-> c.y1 + y, x2 |-> c.x2 + x, y2 |-> c.y2 + y]

Translated(a, x, y) ==
    IF a.rects = <<>> THEN Empty
    ELSE [rects |-> [i \in DOMAIN a.rects |-> Shifted(a.rects[i], x, y)],
          bbox |-> IF Len(a.rects) = 1 THEN Shifted(a.rects[1], x, y)
                   ELSE Shifted(a.bbox, x, y)]

Translate(r, x, y, t) ==
    /\ \A c \in {Shifted(b, x, y) : b \in ToSet(roi[r].rects) \cup {roi[r].bbox}} :
          {c.x1, c.y1, c.x2, c.y2} \subseteq 0 .. Limit
    /\ roi' = [roi EXCEPT ![t] = Translated(roi[r], x, y)]

-----------------------------------------------------------------------------
Init == roi = [r \in Rois |-> Empty]

Next ==
    \/ \E r \in Rois, b \in Boxes : AddRect(r, b) \/ SubtractRect(r, b)
    \/ \E r, s, t \in Rois : Unite(r, s, t) \/ Intersect(r, s, t)
    \/ \E r, t \in Rois, d \in Shifts : Translate(r, d[1], d[2], t)

Spec == Init /\ [][Next]_roi

-----------------------------------------------------------------------------
Rect(c) == DOMAIN c = {"x1", "y1", "x2", "y2"} /\ c.x1 <= c.x2 /\ c.y1 <= c.y2

\* The list is in bands: rectangles are in order, those of a band have the
\* same rows and do not touch, and a band starts below the one before it.
\* All algorithms of XiliRoiRect take it for granted (XiliRoiRect.cc:1924).
Banded ==
    \A r \in Rois : LET rects == roi[r].rects IN
        /\ \A i \in DOMAIN rects : Rect(rects[i])
        /\ \A i \in 1 .. Len(rects) - 1 :
              \/ rects[i + 1].y1 > rects[i].y2
              \/ /\ rects[i + 1].y1 = rects[i].y1 /\ rects[i + 1].y2 = rects[i].y2
                 /\ rects[i + 1].x1 > rects[i].x2 + 1

\* "the bounding box of the rectlist representation of the roi"
\* (XilRoiPrivate.hh:88), by which the scheduler clips tiles
\* (XiliScheduler.cc:240).  It fails after intersect(), README, section 6.
BoxesBound == \A r \in Rois : Bounded(roi[r])

\* Whatever calls came before, the next one is right: a ROI is a set of pixels
\* and the calls are what xil_roi_add_rect(3), xil_roi_subtract_rect(3),
\* xil_roi_unite(3), xil_roi_intersect(3) and xil_roi_translate(3) say of it.
KeepsPixels ==
    \A r, s \in Rois : LET A == Pixels(roi[r])
                           B == Pixels(roi[s]) IN
        /\ Pixels(United(roi[r], roi[s])) = A \cup B
        /\ Pixels(Intersection(roi[r], roi[s])) = A \cap B
        /\ r = s => \A b \in Boxes :
              /\ Pixels(Added(roi[r], b)) = A \cup PixelsOf(b)
              /\ Pixels(Subtracted(roi[r], b)) = A \ PixelsOf(b)
        /\ r = s => \A d \in Shifts :
              Pixels(Translated(roi[r], d[1], d[2])) = {<<x[1] + d[1], x[2] + d[2]>> : x \in A}
=============================================================================
