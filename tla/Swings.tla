------------------------------- MODULE Swings --------------------------------
(***************************************************************************)
(* Market structure as the frontend's engine reads it: pivots of closed    *)
(* bars (analysis.ts), alternating swing legs with labels, breaks and      *)
(* equal levels (structure.ts), and the views derived from them: strength  *)
(* (strength.ts), dealing range (equilibrium.ts) and trend transitions     *)
(* (trend-transition.ts).                                                  *)
(*                                                                         *)
(* A bar's time is its index in the tape.  Legs alternate between highs    *)
(* and lows, so most of what the code keeps in running variables (last     *)
(* high, last low, trend) is a function of a swing's neighbours here.      *)
(***************************************************************************)
EXTENDS Integers, Sequences, FiniteSets

CONSTANTS TolNum, TolDen      \* EQUAL_LEVEL_TOLERANCE = TolNum / TolDen

ASSUME ToleranceAssumption == TolNum \in Nat /\ TolDen \in Nat \ {0}

Kinds == {"high", "low"}
Opposite(kind) == IF kind = "high" THEN "low" ELSE "high"

\* a is strictly more extreme than b for swings of this kind
Beyond(kind, a, b) == IF kind = "high" THEN a > b ELSE a < b

Abs(x) == IF x < 0 THEN -x ELSE x
AtMost(n, m) == IF n < m THEN n ELSE m

-----------------------------------------------------------------------------
(* Pivots and legs *)

PivotWindow(count) ==
    LET ceil == (count + 39) \div 40
    IN  AtMost(12, IF ceil < 3 THEN 3 ELSE ceil)

Extreme(bar, kind) == IF kind = "high" THEN bar.high ELSE bar.low

\* Mutated form: a pivot needs every later bar, not the next k.
IsPivotAt_Lookahead(bars, i, k, kind) ==
    \A j \in ((i - k)..Len(bars)) \ {i} :
        ~Beyond(kind, Extreme(bars[j], kind), Extreme(bars[i], kind))

IsPivotAt(bars, i, k, kind) ==
    LET value == Extreme(bars[i], kind)
    IN  \A j \in (i - k)..(i + k) \ {i} :
            /\ ~Beyond(kind, Extreme(bars[j], kind), value)
            /\ ~(j < i /\ Extreme(bars[j], kind) = value)

Pivot(bars, i, kind) == [time |-> i, price |-> Extreme(bars[i], kind), kind |-> kind]

\* A low comes before a high of the same bar.
PivotsAt(bars, i, k) ==
    (IF IsPivotAt(bars, i, k, "low") THEN <<Pivot(bars, i, "low")>> ELSE <<>>)
    \o (IF IsPivotAt(bars, i, k, "high") THEN <<Pivot(bars, i, "high")>> ELSE <<>>)

ComputePivots(bars, k) ==
    LET upTo[i \in k..Len(bars)] ==
            IF i = k THEN <<>> ELSE upTo[i - 1] \o PivotsAt(bars, i, k)
    IN  IF Len(bars) < 2 * k + 1 THEN <<>> ELSE upTo[Len(bars) - k]

\* Mutated form: two pivots of a kind in a row stay apart.
AddPivot_NoCollapse(ls, p) == Append(ls, p)

AddPivot(ls, p) ==
    LET n == Len(ls)
    IN  IF n = 0 THEN <<p>>
        ELSE IF ls[n].kind # p.kind THEN Append(ls, p)
        ELSE IF Beyond(p.kind, p.price, ls[n].price) THEN [ls EXCEPT ![n] = p]
        ELSE ls

ToAlternatingSwings(pivots) ==
    LET upTo[i \in 0..Len(pivots)] ==
            IF i = 0 THEN <<>> ELSE AddPivot(upTo[i - 1], pivots[i])
    IN  upTo[Len(pivots)]

-----------------------------------------------------------------------------
(* Labels, breaks, trend and equal levels of the swings ls *)

\* Legs alternate, so the previous swing of a swing's kind is two before it.
Label(ls, i) ==
    IF i <= 2 THEN "none"
    ELSE IF ls[i].kind = "high"
         THEN (IF ls[i].price > ls[i - 2].price THEN "HH" ELSE "LH")
         ELSE (IF ls[i].price < ls[i - 2].price THEN "LL" ELSE "HL")

TrendFrom(highLabel, lowLabel) ==
    IF highLabel = "HH" /\ lowLabel = "HL" THEN "uptrend"
    ELSE IF highLabel = "LH" /\ lowLabel = "LL" THEN "downtrend"
    ELSE "range"

\* The trend once the first i swings are known.
TrendAfter(ls, i) ==
    LET labelOf(kind) == IF i >= 1 /\ ls[i].kind = kind THEN Label(ls, i)
                         ELSE IF i >= 2 THEN Label(ls, i - 1) ELSE "none"
    IN  TrendFrom(labelOf("high"), labelOf("low"))

Event(ls, i) ==
    LET label == Label(ls, i)
        trend == TrendAfter(ls, i - 1)
    IN  IF label \notin {"HH", "LL"} \/ trend = "range" THEN "none"
        ELSE IF (label = "HH") = (trend = "downtrend") THEN "choch"
        ELSE "bos"

\* The first member of the run of equal levels a swing belongs to.
Anchors(ls, num, den) ==
    LET anchor[i \in 1..Len(ls)] ==
            IF i > 2 /\ Abs(ls[i].price - ls[anchor[i - 2]].price) * den
                            <= ls[anchor[i - 2]].price * num
            THEN anchor[i - 2]
            ELSE i
    IN  anchor

SwingPoints(ls) ==
    LET anchor == Anchors(ls, TolNum, TolDen)
    IN  [i \in 1..Len(ls) |->
            [pivot |-> ls[i], label |-> Label(ls, i), event |-> Event(ls, i),
             equal |-> anchor[i] # i]]

\* Runs of at least two equal swings, as the sets of their members.
EqualLevels(ls) ==
    LET anchor == Anchors(ls, TolNum, TolDen)
        runs == {{j \in 1..Len(ls) : anchor[j] = i} : i \in 1..Len(ls)}
    IN  {run \in runs : Cardinality(run) >= 2}

LastIndex(S) == CHOOSE i \in S : \A j \in S : j <= i
FirstIndex(S) == CHOOSE i \in S : \A j \in S : i <= j

\* The lean of the structure: its trend, in a range the latest break while its
\* swing is still the last of its kind.
StructureLean(ls) ==
    LET n == Len(ls)
        breaks == {i \in 1..n : Event(ls, i) # "none"}
        live == breaks # {} /\ LastIndex(breaks) >= n - 1
    IN  CASE TrendAfter(ls, n) = "uptrend" -> "long"
          [] TrendAfter(ls, n) = "downtrend" -> "short"
          [] OTHER -> IF ~live THEN "none"
                      ELSE IF Label(ls, LastIndex(breaks)) = "HH" THEN "long" ELSE "short"

-----------------------------------------------------------------------------
(* Strength and dealing range *)

\* Mutated form: weak before the next leg decides.
Strength_WeakEarly(ls, i) ==
    IF i = 1 \/ i = Len(ls) THEN "unresolved"
    ELSE IF Beyond(ls[i + 1].kind, ls[i + 1].price, ls[i - 1].price) THEN "strong" ELSE "weak"

Strength(ls, i) ==
    IF i = 1 \/ i = Len(ls) THEN "unresolved"
    ELSE IF Beyond(ls[i + 1].kind, ls[i + 1].price, ls[i - 1].price) THEN "strong"
    ELSE IF i + 2 <= Len(ls) THEN "weak"
    ELSE "unresolved"

\* Mutated form: only lows anchor a range.
StrongSwings_OneKind(ls) ==
    {i \in 1..Len(ls) : Strength(ls, i) = "strong" /\ ls[i].kind = "low"}

StrongSwings(ls) == {i \in 1..Len(ls) : Strength(ls, i) = "strong"}

\* The dealing range: {} or the indices of its anchor and its far side.
DealingRange(ls) ==
    IF StrongSwings(ls) = {} THEN {}
    ELSE LET a == LastIndex(StrongSwings(ls))
             opposite == {i \in (a + 1)..Len(ls) : ls[i].kind # ls[a].kind}
             farthest == {i \in opposite : \A j \in opposite :
                             ~Beyond(ls[i].kind, ls[j].price, ls[i].price)}
         IN  IF opposite = {} THEN {}
             ELSE LET e == FirstIndex(farthest)
                  IN  IF Beyond(ls[e].kind, ls[e].price, ls[a].price)
                      THEN {[anchor |-> a, extreme |-> e]} ELSE {}

\* Positions are compared with twice the equilibrium, the sum of the two ends.
ClassifyPrice(ls, range, price) ==
    LET mid2 == ls[range.anchor].price + ls[range.extreme].price
    IN  IF 2 * price > mid2 THEN "premium"
        ELSE IF 2 * price < mid2 THEN "discount" ELSE "equilibrium"

-----------------------------------------------------------------------------
(* Trend transitions *)

\* Mutated form: a confirmation goes to the last record, whatever its phase.
NextTransition_UpgradeLast(ls, i, state) ==
    LET next == TrendAfter(ls, i)
        last == Len(state.out)
    IN  [pending |-> 0,
         out |-> IF next \in {TrendAfter(ls, i - 1), "range"} THEN state.out
                 ELSE IF last # 0 /\ state.out[last].to = next
                      THEN [state.out EXCEPT ![last].confirm = i]
                      ELSE Append(state.out, [from |-> TrendAfter(ls, i - 1), to |-> next,
                                              phase |-> "confirmed", choch |-> 0, confirm |-> i])]

\* One step of the fold: the swing i meets the records so far.  pending is the
\* index in out of a live hint, 0 when there is none.
NextTransition(ls, i, state) ==
    LET out == state.out
        label == Label(ls, i)
        before == TrendAfter(ls, i - 1)
        after == TrendAfter(ls, i)
        killed == state.pending # 0 /\ <<out[state.pending].to, label>> \in {<<"uptrend", "LL">>, <<"downtrend", "HH">>}
        hints == Event(ls, i) = "choch"
        hinted == IF hints
                  THEN Append(out, [from |-> before,
                                    to |-> IF label = "HH" THEN "uptrend" ELSE "downtrend",
                                    phase |-> "choch-hint", choch |-> i, confirm |-> 0])
                  ELSE out
        pending == IF hints THEN Len(hinted) ELSE IF killed THEN 0 ELSE state.pending
    IN  IF after = before \/ after = "range" THEN [out |-> hinted, pending |-> pending]
        ELSE [pending |-> 0,
              out |-> IF pending # 0 /\ hinted[pending].to = after
                      THEN [hinted EXCEPT ![pending].phase = "confirmed",
                                          ![pending].confirm = i]
                      ELSE Append(hinted, [from |-> before, to |-> after,
                                           phase |-> "confirmed", choch |-> 0,
                                           confirm |-> i])]

Transitions(ls) ==
    LET upTo[i \in 0..Len(ls)] ==
            IF i = 0 THEN [out |-> <<>>, pending |-> 0] ELSE NextTransition(ls, i, upTo[i - 1])
    IN  upTo[Len(ls)].out
=============================================================================
