-------------------------------- MODULE Pois ---------------------------------
(***************************************************************************)
(* The detectors of points of interest over closed bars: base zones        *)
(* (zones.ts), order blocks (orderblocks.ts), fair value gaps (fvg.ts);    *)
(* the ledger they share and its ranking (poi-map.ts); and the selection   *)
(* and plan of a resting limit (poi.ts).                                   *)
(*                                                                         *)
(* ATRs are sums of AtrLength true ranges.  Thresholds in per cent are the *)
(* source's; what counts bars is a constant, so that short tapes meet      *)
(* every case.                                                             *)
(***************************************************************************)
EXTENDS Liquidity, PoiLifecycle, Functions

CONSTANTS
    FirstDeparture,   \* the first bar that may depart or displace (15, from 0)
    MinBars,          \* bars the zone and block detectors need (30)
    MaxBase,          \* MAX_BASE_CANDLES
    MaxSkips,         \* OB_WALKBACK_MAX_SKIPS
    SweepLookback,    \* OB_SWEEP_LOOKBACK
    PerKind           \* MAX_ZONES_PER_KIND

ASSUME DetectorAssumption ==
    /\ FirstDeparture \in Nat /\ FirstDeparture > AtrLength + 1
    /\ MinBars \in Nat /\ MaxBase \in Nat /\ MaxSkips \in Nat
    /\ SweepLookback \in Nat /\ PerKind \in Nat

Largest(S) == CHOOSE x \in S : \A y \in S : y <= x
Smallest(S) == CHOOSE x \in S : \A y \in S : x <= y

Body(bar) == Abs(bar.close - bar.open)
TopOf(bar) == Bigger(bar.open, bar.close)
BottomOf(bar) == Smaller(bar.open, bar.close)

TrueRange(bars, i) ==
    LET last == bars[IF i = 1 THEN 1 ELSE i - 1].close
    IN  Largest({bars[i].high - bars[i].low, Abs(bars[i].high - last), Abs(bars[i].low - last)})

\* AtrLength times the ATR at bar i; the series starts at bar AtrLength.
AtrSum(bars, i) ==
    LET ranges == [j \in (i - AtrLength + 1)..i |-> TrueRange(bars, j)]
    IN  FoldFunction(LAMBDA x, y : x + y, 0, ranges)

\* A conviction body: it dwarfs the ATR before it and is not mostly wick.
Displaces(bars, i) ==
    LET ref == AtrSum(bars, i - 1)
        range == bars[i].high - bars[i].low
    IN  /\ ref > 0 /\ range > 0
        /\ 100 * AtrLength * Body(bars[i]) >= 115 * ref
        /\ 100 * Body(bars[i]) >= 55 * range

Candidates(bars) ==
    IF Len(bars) < MinBars THEN {} ELSE {i \in FirstDeparture..Len(bars) : Displaces(bars, i)}

\* Small against the ATR that a displacement at i is measured with.
Indecisive(bars, i, j) == 100 * AtrLength * Body(bars[j]) <= 45 * AtrSum(bars, i - 1)

-----------------------------------------------------------------------------
(* Detectors.  A found POI is its band with the bars that formed it. *)

BaseOf(bars, i) ==
    {j \in 2..(i - 1) : i - j <= MaxBase /\ \A k \in j..(i - 1) : Indecisive(bars, i, k)}

ZoneAt(bars, i) ==
    LET base == BaseOf(bars, i)
        ref == AtrSum(bars, i - 1)
        high == Largest({bars[j].high : j \in base})
        low == Smallest({bars[j].low : j \in base})
        \* The near edge: the bodies, at least a fifth of an ATR from the far one.
        top == Bigger(Scale * Largest({TopOf(bars[j]) : j \in base}), Scale * low + ref)
        bottom == Smaller(Scale * Smallest({BottomOf(bars[j]) : j \in base}), Scale * high - ref)
    IN  IF base = {} THEN {}
        ELSE IF 10 * AtrLength * (high - low) > 14 * ref THEN {}
        ELSE {[source |-> "base-zone", start |-> Smallest(base), end |-> i,
               band |-> IF bars[i].close > bars[i].open
                        THEN [kind |-> "demand", low |-> Scale * low, high |-> top, gap |-> FALSE]
                        ELSE [kind |-> "supply", low |-> bottom, high |-> Scale * high,
                              gap |-> FALSE]]}

ComputeBaseZoneCandidates(bars) == UNION {ZoneAt(bars, i) : i \in Candidates(bars)}

\* Candle j takes out the extremes of the bars behind it.
SweptSwing(bars, j, bullish) ==
    LET prior == Bigger(1, j - SweepLookback)..(j - 1)
    IN  /\ prior # {}
        /\ IF bullish THEN \A k \in prior : bars[j].low < bars[k].low
           ELSE \A k \in prior : bars[j].high > bars[k].high

\* The last opposing candle before a displacement, behind indecision at most.
BlockAt(bars, i) ==
    LET bullish == bars[i].close > bars[i].open
        opposing(j) == IF bullish THEN bars[j].close < bars[j].open
                       ELSE bars[j].close > bars[j].open
        origins == {j \in 2..(i - 1) : /\ opposing(j)
                                       /\ i - 1 - j <= MaxSkips
                                       /\ \A k \in (j + 1)..(i - 1) :
                                             ~opposing(k) /\ Indecisive(bars, i, k)}
    IN  {[source |-> "order-block", start |-> j, end |-> i,
          swept |-> SweptSwing(bars, j, bullish),
          band |-> [kind |-> IF bullish THEN "demand" ELSE "supply",
                    low |-> Scale * bars[j].low, high |-> Scale * bars[j].high,
                    gap |-> FALSE]] : j \in origins}

DetectOrderBlocks(bars) == UNION {BlockAt(bars, i) : i \in Candidates(bars)}

\* Mutated form: a gap is measured with the ATR of the whole window.
GapAt_LastAtr(bars, i) ==
    LET bullish == bars[i].low > bars[i - 2].high
        low == IF bullish THEN bars[i - 2].high ELSE bars[i].high
        high == IF bullish THEN bars[i].low ELSE bars[i - 2].low
    IN  IF low >= high \/ 4 * AtrLength * (high - low) < AtrSum(bars, Len(bars)) THEN {}
        ELSE {[source |-> "fvg", start |-> i - 1, end |-> i,
               band |-> [kind |-> IF bullish THEN "demand" ELSE "supply",
                         low |-> Scale * low, high |-> Scale * high, gap |-> TRUE]]}

\* Three candles whose outer two do not meet, by a quarter of an ATR at least.
GapAt(bars, i) ==
    LET bullish == bars[i].low > bars[i - 2].high
        low == IF bullish THEN bars[i - 2].high ELSE bars[i].high
        high == IF bullish THEN bars[i].low ELSE bars[i - 2].low
        measured == i - 2 >= AtrLength /\ AtrSum(bars, i - 2) > 0
    IN  IF low >= high \/ (measured /\ 4 * AtrLength * (high - low) < AtrSum(bars, i - 2)) THEN {}
        ELSE {[source |-> "fvg", start |-> i - 1, end |-> i,
               band |-> [kind |-> IF bullish THEN "demand" ELSE "supply",
                         low |-> Scale * low, high |-> Scale * high, gap |-> TRUE]]}

DetectFvgs(bars) == UNION {GapAt(bars, i) : i \in 3..Len(bars)}

Detected(bars) == ComputeBaseZoneCandidates(bars) \cup DetectOrderBlocks(bars) \cup DetectFvgs(bars)

-----------------------------------------------------------------------------
(* The ledger *)

Read(bars, poi) == DerivePoiLifecycle(bars, poi.end, poi.band)

\* The inversion of a gap starts where a bar closed through it.
Inversion(bars, poi) ==
    IF Inverted(poi.band, Read(bars, poi))
    THEN LET at == Read(bars, poi).decidedAt
         IN  {[source |-> "ifvg", start |-> at, end |-> at,
               band |-> [poi.band EXCEPT !.kind = IF @ = "demand" THEN "supply" ELSE "demand",
                                         !.gap = FALSE]]}
    ELSE {}

BuildPoiMap(bars, zones) ==
    LET formed == zones \cup DetectOrderBlocks(bars) \cup DetectFvgs(bars)
    IN  formed \cup UNION {Inversion(bars, poi) : poi \in formed}

Proximal(band) == IF band.kind = "demand" THEN band.high ELSE band.low

\* Which side of the dealing range an edge is on: twice the edge against the
\* sum of the range's ends.  range is {} or {the range} of ls.
Position(ls, range, price) ==
    {LET mid2 == Scale * (ls[r.anchor].price + ls[r.extreme].price)
     IN  IF 2 * price > mid2 THEN "premium"
         ELSE IF 2 * price < mid2 THEN "discount" ELSE "equilibrium" : r \in range}

OnWantedSide(ls, range, band) ==
    Position(ls, range, Proximal(band)) =
        {IF band.kind = "demand" THEN "discount" ELSE "premium"}

\* The pullback from a price can reach the band.
Reachable(kind, from, band) ==
    /\ band.kind = kind
    /\ IF kind = "demand" THEN band.high <= from * Scale ELSE band.low >= from * Scale

\* The common tail of both orderings: side, freshness, nearness, age.
Preferred(ls, range, a, b, fresh) ==
    LET side(p) == IF OnWantedSide(ls, range, p.band) THEN 0 ELSE 1
        age(p) == IF p \in fresh THEN 0 ELSE 1
        far(p) == IF p.band.kind = "demand" THEN -p.band.high ELSE p.band.low
    IN  \/ side(a) < side(b)
        \/ side(a) = side(b) /\ age(a) < age(b)
        \/ side(a) = side(b) /\ age(a) = age(b) /\ far(a) < far(b)
        \/ side(a) = side(b) /\ age(a) = age(b) /\ far(a) = far(b) /\ a.start < b.start

\* Mutated form: rankPois lets a POI that is gone outrank a live one.
Outranks_Terminal(bars, ls, range, pois, a, b) ==
    Preferred(ls, range, a, b, {p \in pois : Read(bars, p).state = "fresh"})

\* rankPois: live before terminal, then as selectPoi.
Outranks(bars, ls, range, pois, a, b) ==
    LET dead(p) == Read(bars, p).state \in Terminal
        fresh == {p \in pois : Read(bars, p).state = "fresh"}
    IN  \/ ~dead(a) /\ dead(b)
        \/ dead(a) = dead(b) /\ Preferred(ls, range, a, b, fresh)

\* The first of rankPois, all of them when the code's order leaves a tie.
RankedFirst(bars, ls, range, pois, kind, from) ==
    LET listed == {p \in pois : Reachable(kind, from, p.band)}
    IN  {p \in listed : \A q \in listed : ~Outranks(bars, ls, range, listed, q, p)}

-----------------------------------------------------------------------------
(* Zones as the plan reads them *)

\* Mutated form: closes beyond the far edge are not looked at.
Freshness_VisitsOnly(bars, poi) ==
    LET touch(t) == Touching(poi.band, bars[t])
        visits == {t \in (poi.end + 2)..Len(bars) : touch(t) /\ ~touch(t - 1)}
    IN  CASE visits = {} -> "fresh" [] Cardinality(visits) = 1 -> "tested" [] OTHER -> "gone"

\* zoneFreshness: the replay of zones.ts after the departure of a zone.
Freshness(bars, poi) ==
    LET z == poi.band
        upTo[t \in poi.end..Len(bars)] ==
            IF t = poi.end THEN [touches |-> 0, inside |-> TRUE, gone |-> FALSE]
            ELSE LET r == upTo[t - 1]
                     visits == r.touches + (IF Touching(z, bars[t]) /\ ~r.inside THEN 1 ELSE 0)
                 IN  IF r.gone \/ Through(z, bars[t]) \/ visits >= 2 THEN [r EXCEPT !.gone = TRUE]
                     ELSE [touches |-> visits, inside |-> Touching(z, bars[t]), gone |-> FALSE]
        last == upTo[Len(bars)]
    IN  IF last.gone THEN "gone" ELSE IF last.touches = 0 THEN "fresh" ELSE "tested"

\* selectZones: later zones first, no overlap and no overflow within a kind.  No
\* two zones end at one bar, so the sort is a walk back over the bars.
SelectZones(bars, zones) ==
    LET crowded(picked, z) ==
            LET same == {p \in picked : p.band.kind = z.band.kind}
            IN  \/ Cardinality(same) >= PerKind
                \/ \E p \in same : z.band.low <= p.band.high /\ z.band.high >= p.band.low
        \* of the zones that end at the last n bars
        picked[n \in 0..Len(bars)] ==
            IF n = 0 THEN {}
            ELSE picked[n - 1] \cup {z \in zones : /\ z.end = Len(bars) - n + 1
                                                 /\ ~crowded(picked[n - 1], z)}
    IN  picked[Len(bars)]

ComputeBaseZones(bars) ==
    SelectZones(bars, {z \in ComputeBaseZoneCandidates(bars) : Freshness(bars, z) # "gone"})

SelectPoi(bars, ls, range, zones, kind, from) ==
    LET reachable == {z \in zones : Reachable(kind, from, z.band)}
        fresh == {z \in reachable : Freshness(bars, z) = "fresh"}
    IN  {z \in reachable : \A y \in reachable : ~Preferred(ls, range, y, z, fresh)}

\* The resting limit: entry at the near edge, stop at the far edge, aimed at the
\* preferred objective; {} when one of them is missing.
BuildAnticipatoryPlan(bars, ls, kind, from) ==
    LET target == IF kind = "demand" THEN "high" ELSE "low"
        objectives == ResolveObjectives(ls, target, from)
        picked == SelectPoi(bars, ls, DealingRange(ls), ComputeBaseZones(bars), kind, from)
        plan(z) == [zone |-> z, entry |-> Proximal(z.band),
                    stop |-> IF kind = "demand" THEN z.band.low ELSE z.band.high,
                    objective |-> Scale * objectives[1].price]
    IN  IF objectives = <<>> THEN {}
        ELSE {p \in {plan(z) : z \in picked} :
                 Beyond(target, p.entry, p.stop) /\ Beyond(target, p.objective, p.entry)}
=============================================================================
