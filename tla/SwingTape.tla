------------------------------ MODULE SwingTape -------------------------------
(***************************************************************************)
(* The structure read replayed: bars close one by one, each confirming the *)
(* pivots K bars before it.  The code computes every view from scratch for *)
(* each window; CloseBar does what its forward pass does with the newly    *)
(* confirmed pivots, and LegsReplayed says that the two agree.             *)
(*                                                                         *)
(* K is pivotWindow of the window's length: the windows the engine fetches *)
(* have a fixed length, and it changes only where a growing window crosses *)
(* a multiple of 40 bars (see PivotWindow).                                *)
(***************************************************************************)
EXTENDS Liquidity

CONSTANTS
    Bars,         \* Bars[t]: the bars the exchange may deliver at time t
    K,            \* bars on each side of a pivot
    MaxTime       \* bound on the tape

ASSUME TapeAssumption ==
    /\ K \in Nat \ {0} /\ MaxTime \in Nat
    /\ \A t \in 1..MaxTime : \A b \in Bars[t] :
        b.low \in Int /\ b.high \in Int /\ b.close \in Int

\* Prices are positive: the tightness of a pool is relative to one.
ASSUME PriceAssumption == \A t \in 1..MaxTime : \A b \in Bars[t] : b.low > 0 /\ b.high > 0

VARIABLES
    tape,         \* the closed bars
    legs          \* the alternating legs of the confirmed pivots

vars == <<tape, legs>>

Init == tape = <<>> /\ legs = <<>>

\* The pivots the last bar of the tape confirms.
Confirmed(bars) == IF Len(bars) < 2 * K + 1 THEN <<>> ELSE PivotsAt(bars, Len(bars) - K, K)

AddPivots(ls, pivots) ==
    IF pivots = <<>> THEN ls
    ELSE IF Len(pivots) = 1 THEN AddPivot(ls, pivots[1])
    ELSE AddPivot(AddPivot(ls, pivots[1]), pivots[2])

CloseBar ==
    /\ Len(tape) < MaxTime
    /\ \E bar \in Bars[Len(tape) + 1] :
        /\ tape' = Append(tape, bar)
        /\ legs' = AddPivots(legs, Confirmed(tape'))

Next == CloseBar

Spec == Init /\ [][Next]_vars

-----------------------------------------------------------------------------
(* Properties *)

\* The indices of completed legs: a leg with an opposite leg after it is frozen.
Completed(ls) == 1..(Len(ls) - 1)

\* Legs alternate, are in time order and name bars of the tape.
TypeOK ==
    /\ Len(tape) <= MaxTime /\ \A t \in 1..Len(tape) : tape[t] \in Bars[t]
    /\ \A i \in 1..Len(legs) :
        /\ legs[i].kind \in Kinds
        /\ legs[i].time \in 1..Len(tape)
        /\ legs[i].price = Extreme(tape[legs[i].time], legs[i].kind)
        /\ i < Len(legs) => legs[i].kind # legs[i + 1].kind /\ legs[i].time <= legs[i + 1].time

\* Replaying the tape bar by bar gives the structure computed from scratch:
\* structure.ts promises that backtests can rebuild it from a limited window.
LegsReplayed == legs = ToAlternatingSwings(ComputePivots(tape, K))

\* A swing judged strong or weak keeps that verdict, although its counter-leg
\* may still be forming when it is called strong (strength.ts).
StrengthFinal ==
    [][\A i \in 1..Len(legs) : Strength(legs, i) # "unresolved" =>
            Strength(legs', i) = Strength(legs, i)]_vars

\* The dealing range holds: no swing since its anchor is beyond the anchor, the
\* level the range says the market defended, nor beyond its far side, kind by
\* kind (equilibrium.ts).
RangeHolds ==
    \A range \in DealingRange(legs) : \A i \in range.anchor..Len(legs) :
        \A end \in {range.anchor, range.extreme} :
            legs[i].kind = legs[end].kind => ~Beyond(legs[i].kind, legs[i].price, legs[end].price)

\* What was taken is not given back: a pool that was run and a swing that was
\* taken never become a target again, and a sweep of a pool that is still drawn
\* the same stays in the list (liquidity.ts, objectives.ts).
SpentStaysSpent ==
    [][/\ \A i \in 1..Len(legs) : Taken(legs, i) => Taken(legs', i)
       /\ \A run \in EqualLevels(legs) \cap EqualLevels(legs') :
            ~Intact(legs, run) => ~Intact(legs', run)
       /\ \A s \in DetectLiquiditySweeps(legs, tape) :
            s.pool.members \in EqualLevels(legs')
            /\ PoolPrice(legs', s.pool.members) = s.pool.price
            => s \in DetectLiquiditySweeps(legs', tape')]_vars

\* What is completed is history: a completed swing keeps its price, its label,
\* the break it made and whether it equals an earlier level (structure.ts), and
\* a transition whose confirming swing is completed keeps its place, its phase
\* and the swings that opened and confirmed it (trend-transition.ts).
CompletedStands ==
    [][/\ \A i \in Completed(legs) : SwingPoints(legs)[i] = SwingPoints(legs')[i]
       /\ \A n \in 1..Len(Transitions(legs)) :
            Transitions(legs)[n].phase = "confirmed"
            /\ Transitions(legs)[n].confirm \in Completed(legs)
            => n <= Len(Transitions(legs')) /\ Transitions(legs')[n] = Transitions(legs)[n]]_vars

\* The objectives of either direction are a path: strictly farther line by line,
\* each beyond the price, no pool twice, none traded beyond since its last touch;
\* and no swing that may be a target is passed over (objectives.ts).
ObjectivesAreAPath ==
    \A kind \in Kinds : \A from \in {tape[t].close : t \in 1..Len(tape)} :
        LET path == ResolveObjectives(legs, kind, from)
            touched(c) == IF c.pool = {} THEN c.swing ELSE LastIndex(UNION c.pool)
        IN  /\ \A m, n \in 1..Len(path) :
                /\ Beyond(kind, path[m].price, from)
                /\ m < n => Beyond(kind, path[n].price, path[m].price)
                /\ (m # n /\ path[m].pool # {}) => path[m].pool # path[n].pool
                /\ \A i \in (touched(path[m]) + 1)..Len(legs) : legs[i].kind = kind =>
                      ~Beyond(kind, legs[i].price, path[m].price)
            /\ \A i \in Eligible(legs, kind, from) : \E m \in 1..Len(path) :
                   \/ ~Beyond(kind, path[m].price, legs[i].price)
                   \/ Abs(path[m].price - legs[i].price) * TolDen <= legs[i].price * TolNum
=============================================================================
