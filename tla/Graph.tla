--------------------------------- MODULE Graph ---------------------------------
(***************************************************************************)
(* The historic of a player and the graph of it (cgi/page/graph.html.c):   *)
(* every change of elo or rank is recorded, and two curves, elo scores and *)
(* ranks, are drawn over the same horizontal axes although each has a      *)
(* scale of its own.  Coordinates are exact fractions of a percent, where  *)
(* the code has floats.                                                    *)
(***************************************************************************)
EXTENDS Words, FiniteSetsExt, SequencesExt

CONSTANTS Elos, Ranks,   \* the scores and ranks a player may have
          MaxData,       \* MAX_DATA, 48 in the code
          MaxRecords     \* bound on the number of records

MinNaxes == 3    \* MIN_NAXES

DoesFit(range, gap) == MinNaxes * gap < range

\* The gaps tried by best_axes_gap(), from 0: 1, 2, 5, 10, 20, 50...
Candidate(k) == <<1, 2, 5>>[(k % 3) + 1] * 10 ^ (k \div 3)

\* The last of them is 500,000,000: soon after, the product of does_fit()
\* would not be held by a word.
Gaps     == 0..26
MaxRange == MinNaxes * Candidate(26)

\* Ratings put no floor under an elo.
ASSUME GraphAssumption == /\ Elos \subseteq -MaxRange..MaxRange
                          /\ \A low, high \in Elos : high - low <= MaxRange
                          /\ Ranks \subseteq 1..MaxRange
                          /\ \A y \in Elos \cup Ranks : 2 * y < Word  \* they are ints
                          /\ MaxData \in Nat \ {0} /\ MaxRecords \in Nat

VARIABLE historic   \* the player_historic table, in the order of timestamps

\* dataset_append(), for all the values of a dataset, in their order; one
\* without values is all zero.
Dataset(values) == [values |-> values,
                    min |-> IF values = <<>> THEN 0 ELSE Min(ToSet(values)),
                    max |-> IF values = <<>> THEN 0 ELSE Max(ToSet(values))]

-----------------------------------------------------------------------------

\* best_axes_gap(): the one before the first that does not fit, if any.
BestAxesGap(range) ==
    LET stop == Min({k \in Gaps : ~DoesFit(range, Candidate(k))})
    IN  IF stop = 0 THEN 1 ELSE Candidate(stop - 1)

\* add_curve() rounds a minimum that is negative up: the remainder is too.
Rounded(y, gap) == y - Remainder(y, gap)

\* number_of_axes() rounds the same int beside an unsigned: always down, but for
\* a negative one not to a multiple of the gap.
CountedFrom(min, gap) == min - (Unsigned(min) % gap)

\* Mutant of NumberOfAxes: axes are counted from the minimum itself.
NumberOfAxesShort(min, max, gap) ==
    LET n == Min({m \in MinNaxes..(MinNaxes + 1 + (max - min) \div gap) : min + m * gap >= max})
    IN  Max({n - 1, MinNaxes})

\* number_of_axes(): gaps are counted until they reach the maximum.
NumberOfAxes(min, max, gap) ==
    LET n == Min({m \in MinNaxes..(MinNaxes + 1 + (max - min) \div gap) : CountedFrom(min, gap) + m * gap >= max})
    IN  Max({n - 1, MinNaxes})

-----------------------------------------------------------------------------

\* Mutant of ScaleCurve: the odd gap is forgotten.
ScaleCurveEven(curve, more) ==
    [curve EXCEPT !.top = @ + more \div 2, !.bottom = @ + more \div 2,
                  !.ymin = @ - (more \div 2) * curve.gap,
                  !.ymax = @ + (more \div 2) * curve.gap]

\* scale_curve(), for more axes: the odd gap goes to the top, then to the bottom.
ScaleCurve(curve, more) ==
    LET half      == more \div 2
        remainder == more % 2
        even      == curve.top = curve.bottom
        top       == IF even THEN half + remainder ELSE half
        bottom    == IF even THEN half ELSE half + remainder
    IN  [curve EXCEPT !.top = @ + top, !.bottom = @ + bottom,
                      !.ymin = @ - bottom * curve.gap,
                      !.ymax = @ + top * curve.gap]

EmptyGraph == [naxes |-> 0, curves |-> <<>>]

\* add_curve()
AddCurve(graph, ds, reversed) ==
    LET gap   == BestAxesGap(ds.max - ds.min)
        wants == NumberOfAxes(ds.min, ds.max, gap)
        naxes == IF wants > graph.naxes THEN wants ELSE graph.naxes
        ymin  == Rounded(ds.min, gap)
        curve == [ds |-> ds, reversed |-> reversed, gap |-> gap, top |-> 0, bottom |-> 0,
                  ymin |-> ymin, ymax |-> ymin + (naxes + 1) * gap]
        older == [i \in DOMAIN graph.curves |->
                    IF naxes > graph.naxes THEN ScaleCurve(graph.curves[i], naxes - graph.naxes)
                                           ELSE graph.curves[i]]
    IN  [naxes |-> naxes, curves |-> Append(older, curve)]

\* fill_datasets(): "ORDER BY timestamp LIMIT ?", the oldest records.
Records == SubSeq(historic, 1, Min({MaxData, Len(historic)}))

\* main_svg_graph(), which draws the ranks upside down.
SvgGraph ==
    AddCurve(AddCurve(EmptyGraph, Dataset([i \in DOMAIN Records |-> Records[i].elo]), FALSE),
             Dataset([i \in DOMAIN Records |-> Records[i].rank]), TRUE)

-----------------------------------------------------------------------------
\* Where things are drawn: f.num / f.den percent from the top or the left.

Exceeds(f, k)    == f.num > k * f.den
IsBelow(f, k)    == f.num < k * f.den
SameHeight(f, g) == f.num * g.den = g.num * f.den
Lower(f, g)      == f.num > g.num    \* of the same curve

\* percentage(), of 1 instead of 100, and pad()
Percentage(range, value, reversed) ==
    LET num == IF reversed THEN value ELSE range - value
    IN  IF range = 0 THEN [num |-> 0, den |-> 1]
                     ELSE [num |-> Max({0, Min({num, range})}), den |-> range]
Pad(f, left, right) == [num |-> left * f.den + (100 - left - right) * f.num, den |-> f.den]

\* x_coord() of the i-th point, beside the labels of a curve on each side, and
\* y_coord() of a value.
XCoord(curve, i)  == Pad(Percentage(Len(curve.ds.values) - 1, i - 1, TRUE), 6, 6)
YCoord(curve, y)  == Pad(Percentage(curve.ymax - curve.ymin, y - curve.ymin, curve.reversed), 1, 7)
YPoint(curve, i)  == YCoord(curve, curve.ds.values[i])

\* axe_data(), for the axes print_axes() draws and labels.
AxeData(curve, i) == curve.ymin + i * curve.gap

\* Mutant of PointLabelPos: the height is not turned upside down with the curve.
PointLabelPosUpright(curve, i) ==
    LET y        == YPoint(curve, i)
        value(j) == IF j <= Len(curve.ds.values) THEN curve.ds.values[j] ELSE 0
        last     == Exceeds(XCoord(curve, i), 92)
        top      == \/ Exceeds(y, 92)
                    \/ /\ ~IsBelow(y, 8)
                       /\ IF last THEN i # 1 /\ value(i - 1) <= value(i)
                                  ELSE value(i + 1) <= value(i)
    IN  [top |-> top # curve.reversed, left |-> last]

(***************************************************************************)
(* point_label_pos(): in a corner of the point that is away from the       *)
(* borders, and else from the curve.  Near the right border only the last  *)
(* point is; a point alone is not, and the zero after it is its next.      *)
(***************************************************************************)
PointLabelPos(curve, i) ==
    LET y        == YPoint(curve, i)
        upside   == IF curve.reversed THEN [y EXCEPT !.num = 100 * y.den - @] ELSE y
        value(j) == IF j <= Len(curve.ds.values) THEN curve.ds.values[j] ELSE 0
        last     == Exceeds(XCoord(curve, i), 92)
        top      == \/ Exceeds(upside, 92)
                    \/ /\ ~IsBelow(upside, 8)
                       /\ IF last THEN i # 1 /\ value(i - 1) <= value(i)
                                  ELSE value(i + 1) <= value(i)
    IN  [top |-> top # curve.reversed, left |-> last]

-----------------------------------------------------------------------------

\* A player who was never ranked has no record.
GraphInit == historic = <<>>

\* is_empty(): print_graph() draws nothing of a graph without data.
IsEmpty == historic = <<>>

\* record_elo_and_rank(), after a recomputation that changed either.
RecordEloAndRank(elo, rank) ==
    /\ Len(historic) < MaxRecords
    /\ ~IsEmpty => Last(historic) # [elo |-> elo, rank |-> rank]
    /\ historic' = Append(historic, [elo |-> elo, rank |-> rank])

GraphNext == \E elo \in Elos, rank \in Ranks : RecordEloAndRank(elo, rank)

GraphSpec == GraphInit /\ [][GraphNext]_historic

-----------------------------------------------------------------------------

(***************************************************************************)
(* print_axes() draws the axes of the first curve and labels them with the *)
(* values of both: whatever was added after a curve, the labels of each    *)
(* are at the height of the axes, one to an axis, or they are beside them. *)
(***************************************************************************)
LabelsOnAxes == ~IsEmpty =>
    LET graph == SvgGraph
        axe(i, j) == YCoord(graph.curves[i], AxeData(graph.curves[i], j))
    IN  \A j \in 1..graph.naxes : SameHeight(axe(1, j), axe(2, graph.naxes + 1 - j))

(***************************************************************************)
(* No value is outside of the scale of its curve, where percentage() would *)
(* draw it on the border, at a place that is not its own ("we round down   *)
(* the minimum", graph.html.c:218): only an elo that is negative may be,   *)
(* since its remainder is, and it is less than a gap below the scale.      *)
(***************************************************************************)
PointsInside == ~IsEmpty =>
    LET graph == SvgGraph
    IN  \A i \in DOMAIN graph.curves :
            LET c == graph.curves[i]
            IN  /\ c.ds.max <= c.ymax
                /\ c.ds.min < 0 \/ c.ymin <= c.ds.min
                /\ c.ymin < c.ds.min + c.gap

(***************************************************************************)
(* graph.html.c:429: "If the curve is going down, the label should be      *)
(* placed on top of it.  If it's going up, label should be below it", and  *)
(* "when label are too close to a border, then its position is enforced to *)
(* make sure it is inside svg rendering area": on either curve, the one    *)
(* that is drawn upside down too.                                          *)
(***************************************************************************)
LabelsReadable == ~IsEmpty =>
    LET graph == SvgGraph
    IN  \A k \in DOMAIN graph.curves : \A i \in DOMAIN graph.curves[k].ds.values :
            LET c     == graph.curves[k]
                y     == YPoint(c, i)
                label == PointLabelPos(c, i)
                n     == Len(c.ds.values)
            IN  /\ Exceeds(y, 92) => label.top
                /\ IsBelow(y, 8) => ~label.top
                /\ ~Exceeds(y, 92) /\ ~IsBelow(y, 8) /\ n > 1 =>
                     LET neighbour == IF label.left THEN i - 1 ELSE i + 1
                     IN  IF label.top THEN ~Lower(y, YPoint(c, neighbour))
                                      ELSE ~Lower(YPoint(c, neighbour), y)

=============================================================================
