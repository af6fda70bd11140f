------------------------------- MODULE PoiTape --------------------------------
(***************************************************************************)
(* Points of interest while bars close.  The code replays every band from  *)
(* its formation for each window; here one of the bands a bar forms may be *)
(* picked and is then replayed bar by bar, beside the ledger computed      *)
(* from scratch.                                                           *)
(***************************************************************************)
EXTENDS Pois

CONSTANTS
    Bars,         \* Bars[t]: the bars the exchange may deliver at time t
    K,            \* bars on each side of a pivot
    MaxTime       \* bound on the tape

ASSUME TapeAssumption ==
    /\ K \in Nat \ {0} /\ MaxTime \in Nat
    /\ \A t \in 1..MaxTime : \A b \in Bars[t] :
        b.open \in Int /\ b.high \in Int /\ b.low \in Int /\ b.close \in Int

VARIABLES
    tape,         \* the closed bars
    watched,      \* {} or {the POI watched}
    read          \* its lifecycle so far

vars == <<tape, watched, read>>

Init == tape = <<>> /\ watched = {} /\ read = NewRead

\* What the last bar of the window formed.
Formed(bars) == {p \in Detected(bars) : p.end = Len(bars)}

CloseBar ==
    /\ Len(tape) < MaxTime
    /\ \E bar \in Bars[Len(tape) + 1] :
        /\ tape' = Append(tape, bar)
        /\ \/ watched = {} /\ UNCHANGED <<watched, read>>
           \/ /\ watched = {}
              /\ \E p \in Formed(tape') : watched' = {p}
              /\ UNCHANGED read
           \/ \E p \in watched :
                /\ read' = Replay(p.band, read, bar, Len(tape'))
                /\ UNCHANGED watched

Next == CloseBar

Spec == Init /\ [][Next]_vars

-----------------------------------------------------------------------------
(* Properties *)

legs == ToAlternatingSwings(ComputePivots(tape, K))

\* The tape, and a watched band of the ledger with a read of the right shape: a
\* live read has at most one visit and no bar that decided it.
TypeOK ==
    /\ Len(tape) <= MaxTime /\ \A t \in 1..Len(tape) : tape[t] \in Bars[t]
    /\ \A p \in watched : p \in Detected(tape)
    /\ read.state \in States /\ read.touches \in 0..2
    /\ read.state \in Terminal <=> read.decidedAt # 0
    /\ read.state \notin Terminal => read.touches <= 1 /\ (read.touches = 0 <=> read.state = "fresh")

\* The lifecycle and zoneFreshness are two loops, written apart, one of the map
\* and one of the plan: over every window, and for every band found in it, the
\* state collapses to the verdict (poi-lifecycle.ts: "reproduces zoneFreshness
\* exactly").  The plan asks it of zones only; it holds of blocks and gaps too.
FreshnessReproduced ==
    \A p \in Detected(tape) : Freshness(tape, p) = Collapse(Read(tape, p).state)

\* A detection is never taken back nor changed: every detector only looks at
\* bars up to the one that confirms (fvg.ts, orderblocks.ts, zones.ts).
DetectionsStand == [][Detected(tape) \subseteq Detected(tape')]_vars

\* The ledger only ages: no POI leaves it, inversions included, and its state
\* goes fresh, tested, mitigated, terminal, where it stays (poi-map.ts).
Age(state) == CASE state = "fresh" -> 0 [] state = "tested" -> 1 [] state = "mitigated" -> 2
                [] OTHER -> 3

LedgerOnlyAges ==
    [][\A p \in BuildPoiMap(tape, ComputeBaseZoneCandidates(tape)) :
        LET before == Read(tape, p)
            after == Read(tape', p)
        IN  /\ p \in BuildPoiMap(tape', ComputeBaseZoneCandidates(tape'))
            /\ Age(before.state) <= Age(after.state)
            /\ before.state \in Terminal => after = before]_vars

\* rankPois orders the zones the plan may use exactly as selectPoi does, though
\* one reads lifecycle states and the other freshness (poi-map.ts).
RankAgreesWithSelect ==
    \A kind \in {"demand", "supply"} : \A from \in {tape[t].close : t \in 1..Len(tape)} :
        LET candidates == ComputeBaseZoneCandidates(tape)
            live == {z \in candidates : Freshness(tape, z) # "gone"}
            range == DealingRange(legs)
            selected == SelectPoi(tape, legs, range, live, kind, from)
        IN  selected # {} =>
                RankedFirst(tape, legs, range, candidates, kind, from) = selected

\* A resting limit is not passed: the price it is planned from lies between
\* entry and objective, and no bar since the zone's departure closed beyond the
\* stop (poi.ts).
PlanNotPassed ==
    Len(tape) > 0 =>
    \A kind \in {"demand", "supply"} :
        LET from == tape[Len(tape)].close
        IN  \A p \in BuildAnticipatoryPlan(tape, legs, kind, from) :
                /\ ~Beyond(IF kind = "demand" THEN "high" ELSE "low", p.entry, Scale * from)
                /\ \A t \in (p.zone.end + 1)..Len(tape) : ~Through(p.zone.band, tape[t])

\* The lifecycle implements the freshness of zones.ts: mitigated reads as
\* tested, a terminal state as gone (poi-lifecycle.ts).
AllBars == UNION {Bars[t] : t \in 1..MaxTime}

Zone == INSTANCE ZoneFreshness
    WITH Bars <- AllBars, zone <- {p.band : p \in watched},
         freshness <- Collapse(read.state), inside <- read.inside

ImplementsFreshness == Zone!Spec
=============================================================================
