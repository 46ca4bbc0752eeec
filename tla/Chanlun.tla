------------------------------- MODULE Chanlun -------------------------------
(***************************************************************************)
(* The price structure that the guards of a recommendation are built on    *)
(* (chanlun/chanlun.go): bars merged where one includes the other, the tops*)
(* and bottoms between them, the strokes that join these and the zones that*)
(* strokes have in common.                                                 *)
(*                                                                         *)
(* Analyze computes all of it from the completed bars, and is called again *)
(* when more of them are completed: the module is the sequence of those    *)
(* calls, and asks what of an earlier answer is still true in a later one. *)
(* Prices are integers, a time is the place of a bar; opens, closes and    *)
(* volumes take no part in the structure.                                  *)
(***************************************************************************)
EXTENDS Integers, Sequences, SequencesExt

CONSTANTS
    FirstBar,       \* the first bar: [high, low]
    Move,           \* how the next bar may differ from the last one
    MinStrokeBars,  \* the merged bars a stroke spans at least
    MaxBars         \* a bound on the completed bars

ASSUME ChanAssumption ==
    /\ FirstBar \in [high : Nat, low : Nat] /\ FirstBar.low <= FirstBar.high
    /\ Move \subseteq [high : Int, low : Int]
    /\ MinStrokeBars \in Nat /\ MinStrokeBars >= 3
    /\ MaxBars \in Nat

Larger(a, b) == IF a > b THEN a ELSE b
Smaller(a, b) == IF a < b THEN a ELSE b

-----------------------------------------------------------------------------
(* mergeInclusions.                                                         *)

Includes(a, b) == a.high >= b.high /\ a.low <= b.low

InclusionDirection(previous, last, fallback) ==
    CASE previous.high < last.high -> 1
      [] previous.high > last.high -> -1
      [] previous.low < last.low -> 1
      [] previous.low > last.low -> -1
      [] OTHER -> IF fallback # 0 THEN fallback ELSE 1

\* Mutant of Combined: the higher high stays also downwards.
CombinedUpwards(last, bar, direction) ==
    [high |-> Larger(last.high, bar.high),
     low |-> IF direction > 0 THEN Larger(last.low, bar.low) ELSE Smaller(last.low, bar.low),
     time |-> last.time]

\* Upwards the higher high and the higher low stay, downwards the lower ones;
\* the time is that of the bar which set the extreme.
Combined(last, bar, direction) ==
    LET up == direction > 0 IN
    [high |-> IF up THEN Larger(last.high, bar.high) ELSE Smaller(last.high, bar.high),
     low |-> IF up THEN Larger(last.low, bar.low) ELSE Smaller(last.low, bar.low),
     time |-> IF (up /\ bar.high > last.high) \/ (~up /\ bar.low < last.low)
              THEN bar.time ELSE last.time]

MergeBar(merging, bar) ==
    LET out == merging.out
        n == Len(out)
        direction == InclusionDirection(out[n - 1], out[n], merging.direction)
    IN  IF n < 2 THEN [merging EXCEPT !.out = Append(out, bar)]
        ELSE [out |-> IF Includes(out[n], bar) \/ Includes(bar, out[n])
                      THEN [out EXCEPT ![n] = Combined(@, bar, direction)]
                      ELSE Append(out, bar),
              direction |-> direction]

MergedBars(some) ==
    LET merging[n \in 0 .. Len(some)] ==
            IF n = 0 THEN [out |-> <<>>, direction |-> 0] ELSE MergeBar(merging[n - 1], some[n])
    IN  merging[Len(some)].out

-----------------------------------------------------------------------------
(* detectFractals.                                                          *)

\* b lies strictly below a.
Below(b, a) == b.high < a.high /\ b.low < a.low

FractalAt(merged, i) ==
    LET left == merged[i - 1] middle == merged[i] right == merged[i + 1]
        Found(mark) == {[mark |-> mark, at |-> i, time |-> middle.time,
                         high |-> middle.high, low |-> middle.low]}
    IN  CASE Below(left, middle) /\ Below(right, middle) -> Found("top")
          [] Below(middle, left) /\ Below(middle, right) -> Found("bottom")
          [] OTHER -> {}

MoreExtreme(f, g) ==
    \/ f.mark = "top" /\ f.high > g.high
    \/ f.mark = "bottom" /\ f.low < g.low

\* appendFractal: of neighbours with one mark the more extreme stays.
AppendFractal(found, f) ==
    IF found = <<>> \/ Last(found).mark # f.mark THEN Append(found, f)
    ELSE IF MoreExtreme(f, Last(found)) THEN [found EXCEPT ![Len(found)] = f]
    ELSE found

Considered(found, merged, i) ==
    LET f == FractalAt(merged, i)
    IN  IF f = {} THEN found ELSE AppendFractal(found, CHOOSE g \in f : TRUE)

\* A bar between two others may be one.
Fractals(merged) ==
    LET found[i \in 1 .. Larger(1, Len(merged) - 1)] ==
            IF i = 1 THEN <<>> ELSE Considered(found[i - 1], merged, i)
    IN  found[Larger(1, Len(merged) - 1)]

-----------------------------------------------------------------------------
(* buildStrokes.                                                            *)

\* selectStrokeEnd: among the opposite fractals beyond the start, up to one that
\* breaks the start, the first of the most extreme.
StrokeEnds(fractals, s) ==
    LET first == fractals[s]
        breaks == {j \in s + 1 .. Len(fractals) :
                     fractals[j].mark = first.mark /\ MoreExtreme(fractals[j], first)}
        reach == {j \in s + 1 .. Len(fractals) :
                     /\ \A b \in breaks : j < b
                     /\ fractals[j].mark # first.mark
                     /\ IF first.mark = "bottom" THEN fractals[j].high > first.low
                        ELSE fractals[j].low < first.high}
    IN  {j \in reach : /\ \A k \in reach : ~MoreExtreme(fractals[k], fractals[j])
                       /\ \A k \in reach : k < j => MoreExtreme(fractals[j], fractals[k])}

FractalContains(f, g) ==
    \/ f.high > g.high /\ f.low < g.low
    \/ f.high < g.high /\ f.low > g.low

Span(f, g) == (g.at + 1) - (f.at - 1) + 1

StrokeOf(merged, f, g) ==
    LET covered == (f.at - 1) .. (g.at + 1) IN
    [first |-> f, end |-> g,
     high |-> CHOOSE h \in {merged[i].high : i \in covered} : \A i \in covered : merged[i].high <= h,
     low |-> CHOOSE l \in {merged[i].low : i \in covered} : \A i \in covered : merged[i].low >= l]

\* From a fractal that starts no stroke the scan goes on with the next one, and
\* from a stroke with its end.
Strokes(merged, fractals) ==
    LET n == Len(fractals)
        from[s \in 1 .. n + 1] ==
            IF s >= n THEN <<>>
            ELSE LET ends == StrokeEnds(fractals, s)
                     e == CHOOSE j \in ends : TRUE
                 IN  IF \/ ends = {}
                        \/ FractalContains(fractals[s], fractals[e])
                        \/ Span(fractals[s], fractals[e]) < MinStrokeBars
                     THEN from[s + 1]
                     ELSE <<StrokeOf(merged, fractals[s], fractals[e])>> \o from[e]
    IN  from[1]

\* A stroke is finished when another one follows.
FinishedStrokes(strokes) == IF strokes = <<>> THEN <<>> ELSE Front(strokes)

-----------------------------------------------------------------------------
(* buildZones.                                                              *)

\* newZone: what the first three strokes of a group have in common.
ZoneOf(group) ==
    LET core == {group[i] : i \in 1 .. Smaller(3, Len(group))} IN
    [upper |-> CHOOSE h \in {s.high : s \in core} : \A s \in core : h <= s.high,
     lower |-> CHOOSE l \in {s.low : s \in core} : \A s \in core : l >= s.low,
     strokes |-> group]
ZoneValid(group) == ZoneOf(group).upper >= ZoneOf(group).lower
ZoneOverlaps(s, zone) == s.high >= zone.lower /\ s.low <= zone.upper

\* The head of a group leaves it until the rest has something in common.
Trimmed(group) ==
    LET kept == {k \in 1 .. Len(group) : k = Len(group) \/ ZoneValid(SubSeq(group, k, Len(group)))}
    IN  SubSeq(group, CHOOSE k \in kept : \A j \in kept : k <= j, Len(group))

AddStroke(building, s) ==
    LET group == building.group IN
    IF Len(group) >= 3 /\ ZoneValid(group) /\ ~ZoneOverlaps(s, ZoneOf(group))
    THEN [out |-> Append(building.out, ZoneOf(group)), group |-> <<s>>]
    ELSE [building EXCEPT !.group = Trimmed(Append(group, s))]

Zones(finished) ==
    LET built == FoldLeft(AddStroke, [out |-> <<>>, group |-> <<>>], finished)
    IN  IF Len(built.group) >= 3 /\ ZoneValid(built.group)
        THEN Append(built.out, ZoneOf(built.group)) ELSE built.out

-----------------------------------------------------------------------------
(* Analyze, again and again.                                                *)

VARIABLES
    completed,  \* the completed bars: [high, low, time]
    analysis    \* what Analyze answered

chanVars == <<completed, analysis>>

Analyze(some) ==
    LET merged == MergedBars(some)
        fractals == Fractals(merged)
        strokes == Strokes(merged, fractals)
        finished == FinishedStrokes(strokes)
    IN  [merged |-> merged, fractals |-> fractals, strokes |-> strokes,
         finished |-> finished, zones |-> Zones(finished)]

ChanTypeOK ==
    /\ Len(completed) \in 1 .. MaxBars
    /\ \A i \in 1 .. Len(completed) : completed[i].low <= completed[i].high /\ completed[i].time = i
    /\ analysis = Analyze(completed)

BarAt(high, low, time) == [high |-> high, low |-> low, time |-> time]

ChanInit ==
    /\ completed = <<BarAt(FirstBar.high, FirstBar.low, 1)>>
    /\ analysis = Analyze(completed)

\* A bar is completed.
BarCompletes ==
    /\ Len(completed) < MaxBars
    /\ \E m \in Move :
        LET next == BarAt(Last(completed).high + m.high, Last(completed).low + m.low, Len(completed) + 1) IN
        /\ 0 < next.low /\ next.low <= next.high
        /\ completed' = Append(completed, next)
    /\ analysis' = Analyze(completed')

ChanSpec == ChanInit /\ [][BarCompletes]_chanVars

-----------------------------------------------------------------------------
(***************************************************************************)
(* Properties.                                                             *)
(***************************************************************************)

\* A top or a bottom that was reported is still reported when more bars are
\* completed, or a more extreme one with its mark has taken its place at the
\* end: merging rewrites the bar beside it, and must never take it away.
\* (mergeInclusions, detectFractals)
FractalsStay ==
    [][LET before == analysis.fractals
           after == analysis'.fractals
           n == Len(before)
       IN  n > 0 =>
             /\ Len(after) >= n
             /\ SubSeq(after, 1, n - 1) = SubSeq(before, 1, n - 1)
             /\ \/ after[n] = before[n]
                \/ after[n].mark = before[n].mark /\ MoreExtreme(after[n], before[n])]_chanVars

\* A finished stroke stays as it is: "Every stroke is provisional until a later
\* reverse stroke exists to confirm it" (the comment of Analyze), and the test
\* TestFutureBarsDoNotRewriteFinishedPrefixStrokes.
FinishedStaysFinished ==
    [][IsPrefix(analysis.finished, analysis'.finished)]_chanVars
=============================================================================
