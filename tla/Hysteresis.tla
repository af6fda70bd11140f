------------------------------ MODULE Hysteresis ------------------------------
(***************************************************************************)
(* The decision pipeline of one symbol: the shadow-record adjustment       *)
(* (engine/smc/shadow.py), the verdict holds (engine/smc/hysteresis.py)    *)
(* and the drafts evaluate_symbol hands to the worker                      *)
(* (engine/smc/evaluate.py).                                               *)
(*                                                                         *)
(* An assessment is what assess_intents says of one intent, reduced to     *)
(* what the pipeline reads: verdict, direction, context bias, the last     *)
(* close, the invalidation level, the setup|regime combo, and the two      *)
(* optional plans (market entry and resting limit).                        *)
(***************************************************************************)
EXTENDS Settlement, FiniteSets, FiniteSetsExt

Verdicts == {"avoid", "wait", "caution", "favored"}
Biases == Directions \cup {"none"}

VerdictRank(verdict) ==
    CASE verdict = "avoid" -> 0 [] verdict = "wait" -> 1
      [] verdict = "caution" -> 2 [] OTHER -> 3

-----------------------------------------------------------------------------
(* The accountability loop.                                                *)

\* Average of n results summing to `sum', rounded half up, in hundredths.
AverageR(sum, n) == (2 * sum + n) \div (2 * n)

\* The combos of a shadow table whose settled record is long enough and
\* negative.  A settled row without an R counts as 0.
DemotedCombos(shadow, Combos, MinTrades) ==
    {c \in Combos :
        LET closed == {i \in DOMAIN shadow :
                          shadow[i].combo = c /\ shadow[i].status # "active"}
            R(i)   == IF shadow[i].resultR = None THEN 0
                      ELSE CHOOSE x \in shadow[i].resultR : TRUE
            n      == Cardinality(closed)
        IN  n >= MinTrades /\ AverageR(MapThenSumSet(R, closed), n) < 0}

\* A favored verdict of a demoted combo is shown as caution (at half size).
ApplyRecordAdjustment(fresh, demoted) ==
    IF fresh.verdict = "favored" /\ fresh.combo \in demoted
    THEN [fresh EXCEPT !.verdict = "caution"]
    ELSE fresh

-----------------------------------------------------------------------------
(* Verdict holds.                                                          *)

\* The level whose break by a closed bar releases the hold.
CaptureHold(fresh, now) ==
    [verdict      |-> fresh.verdict,
     direction    |-> fresh.direction,
     bias         |-> fresh.bias,
     invalidation |-> IF fresh.direction = "none" THEN None
                      ELSE Some(fresh.invalidation),
     heldAt       |-> now]

\* Ages are compared in real time: `late' says whether this evaluation runs
\* later in its bar than the adoption did in its own.
Stale(held, now, late, maxBars) ==
    \/ now - held.heldAt > maxBars
    \/ now - held.heldAt = maxBars /\ late

Invalidated(held, fresh) ==
    \E level \in held.invalidation :
        IF held.direction = "long" THEN fresh.lastClose < level
                                   ELSE fresh.lastClose > level

ContextFlipped(held, fresh) == fresh.bias \notin {"none", held.bias}

Upgraded(held, fresh) ==
    /\ VerdictRank(fresh.verdict) > VerdictRank(held.verdict)
    /\ held.direction \in {"none", fresh.direction}

Released(held, fresh, now, late, maxBars) ==
    \/ Stale(held, now, late, maxBars)
    \/ Invalidated(held, fresh)
    \/ ContextFlipped(held, fresh)
    \/ Upgraded(held, fresh)

\* reconcile_holds: the standing hold, if any, is kept unless released.
Adopts(hold, fresh, now, late, maxBars) ==
    \A held \in hold : Released(held, fresh, now, late, maxBars)

=============================================================================
