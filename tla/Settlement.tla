------------------------------ MODULE Settlement ------------------------------
(***************************************************************************)
(* The settlement algorithms of the SMC engine (engine/smc/tracker.py,     *)
(* shadow.py, anticipatory.py) and the kline window the worker feeds them. *)
(*                                                                         *)
(* A tape is the sequence of closed bars of one symbol:timeframe:market    *)
(* group.  Bar i opens at time i and closes at time i + 1; while `now' is  *)
(* the index of the forming bar, bars 1 .. now - 1 are closed.  A window   *)
(* [first, last] is the run of closed bars one kline fetch returned.       *)
(* Prices are integers; R multiples are integers counting hundredths,      *)
(* which is the precision the code rounds to.                              *)
(***************************************************************************)
EXTENDS Integers, Sequences

-----------------------------------------------------------------------------
(* Nullable columns and dataclass fields: {} is None, {x} is x.            *)
None == {}
Some(x) == {x}

\* SQL coalesce(:new, old), the form of every patch_* statement.
Coalesce(new, old) == IF new = None THEN old ELSE new

Lesser(a, b) == IF a <= b THEN a ELSE b
Greater(a, b) == IF a >= b THEN a ELSE b

-----------------------------------------------------------------------------
(* Candle, exit levels and the first-touch walk.                           *)

Directions == {"long", "short"}

ExitLevels(Prices) ==
    [direction : Directions, entry : Prices, stop : Prices,
     target1 : Prices, target2 : Prices]

\* low <= level for a level under a long, high >= level for one over a short.
Adverse(direction, level, bar) ==
    IF direction = "long" THEN bar.low <= level ELSE bar.high >= level

Favourable(direction, level, bar) ==
    IF direction = "long" THEN bar.high >= level ELSE bar.low <= level

\* result_r: gain over risk, rounded half up to two decimals; 0 without risk.
ResultR(levels, exit) ==
    LET gain == IF levels.direction = "long" THEN exit - levels.entry
                                             ELSE levels.entry - exit
        risk == IF levels.entry >= levels.stop THEN levels.entry - levels.stop
                                               ELSE levels.stop - levels.entry
    IN  IF risk = 0 THEN 0 ELSE (200 * gain + risk) \div (2 * risk)

\* What one bar does to a position: the stop is looked at first, then target 2.
ExitStatus(levels, bar) ==
    IF Adverse(levels.direction, levels.stop, bar) THEN "stopped-out"
    ELSE IF Favourable(levels.direction, levels.target2, bar) THEN "target2-hit"
    ELSE IF Favourable(levels.direction, levels.target1, bar) THEN "target1-hit"
    ELSE "open"

ExitLevel(levels, status) ==
    CASE status = "stopped-out" -> levels.stop
      [] status = "target2-hit" -> levels.target2
      [] OTHER -> levels.target1

\* The least member of a set of bar indices, as an option.
First(S) == {i \in S : \A j \in S : i <= j}

\* The bars of `from .. to' that would close the position; walk_exit_levels
\* returns on the first of them.
ExitBars(levels, tape, from, to) ==
    {i \in from .. to : ExitStatus(levels, tape[i]) # "open"}

-----------------------------------------------------------------------------
(* The kline window of one settle group.                                   *)

\* Mutated form: the fetch asks for the floor whatever the record's age.
FetchWindow_FloorOnly(earliest, now, MinLimit, FetchLimit) ==
    [first |-> Greater(1, now - MinLimit + 1), last |-> now - 1]

\* The rows left after drop_unclosed_candle: `limit' rows end with the
\* forming bar.  The ceil of the elapsed time may be one bar larger when the
\* tick runs late in its bar; that only adds a row older than every record.
FetchWindow(earliest, now, MinLimit, FetchLimit) ==
    LET elapsed == now - earliest + 3
        limit   == Lesser(FetchLimit, Greater(MinLimit, elapsed))
    IN  [first |-> Greater(1, now - limit + 1), last |-> now - 1]

-----------------------------------------------------------------------------
(* settle_shadow_signal and settle_tracked_signal_with_candles.  A patch is *)
(* an option: None leaves the row as it is.                                *)

Patch(status, filledAt, closedAt, closePrice, resultR) ==
    [status |-> status, filledAt |-> filledAt, closedAt |-> closedAt,
     closePrice |-> closePrice, resultR |-> resultR]

\* Closed at `price' when bar e closed.
ClosePatch(levels, status, price, e) ==
    Patch(status, None, Some(e + 1), Some(price), Some(ResultR(levels, price)))

LevelPatch(levels, tape, e) ==
    LET status == ExitStatus(levels, tape[e])
    IN  ClosePatch(levels, status, ExitLevel(levels, status), e)

\* Mutated form: the bar in progress at the opening counts.
FirstBar_Inclusive(row, window) == Greater(window.first, row.opened)

\* The first bar of the window that opened after the record did.
FirstBar(row, window) == Greater(window.first, row.opened + 1)

SettleTracked(row, tape, window) ==
    IF row.status # "active" THEN None
    ELSE {LevelPatch(row.levels, tape, e) :
             e \in First(ExitBars(row.levels, tape, FirstBar(row, window), window.last))}

\* The levels are walked over the holding horizon; a full horizon without a
\* touch expires at its last close.
SettleShadow(row, maxBars, tape, window) ==
    LET last  == FirstBar(row, window) + maxBars - 1
        exits == ExitBars(row.levels, tape, FirstBar(row, window), Lesser(window.last, last))
    IN  IF row.status # "active" THEN None
        ELSE IF exits # {} THEN {LevelPatch(row.levels, tape, e) : e \in First(exits)}
        ELSE {ClosePatch(row.levels, "expired", tape[e].close, e) :
                 e \in {last} \cap (1 .. window.last)}

-----------------------------------------------------------------------------
(* settle_anticipatory_signal: a resting limit, its fill and its position. *)

AnticipatoryLevels(Prices) ==
    [direction : Directions, entry : Prices, stop : Prices, objective : Prices]

TouchesLimit(levels, bar) == Adverse(levels.direction, levels.entry, bar)

\* What bar i does to a position filled on bar `fill'; the objective gets no
\* credit on the fill bar itself.
PositionStatus(levels, tape, fill, i) ==
    IF Adverse(levels.direction, levels.stop, tape[i]) THEN "stopped-out"
    ELSE IF i # fill /\ Favourable(levels.direction, levels.objective, tape[i])
    THEN "objective-hit"
    ELSE "open"

\* _walk_filled_position over the bars from `from' on, `fill' being the bar
\* that gets the fill-bar treatment (0 when the window starts after it).
WalkFilledPosition(levels, tape, from, last, fill, maxBars) ==
    LET end       == from + maxBars - 1
        Status(i) == PositionStatus(levels, tape, fill, i)
        resolved  == {i \in from .. Lesser(last, end) : Status(i) # "open"}
    IN  IF resolved # {}
        THEN {ClosePatch(levels, Status(e),
                  IF Status(e) = "stopped-out" THEN levels.stop ELSE levels.objective, e) :
                 e \in First(resolved)}
        ELSE {ClosePatch(levels, "expired", tape[i].close, i) : i \in {end} \cap (1 .. last)}

\* The position filled on bar `fill', walked on in the same pass.
FilledPatch(row, maxBars, tape, window, fill) ==
    LET outcome == WalkFilledPosition(row.levels, tape, fill, window.last, fill, maxBars)
    IN  IF outcome = None THEN Some(Patch("filled", Some(fill), None, None, None))
        ELSE {[p EXCEPT !.filledAt = Some(fill)] : p \in outcome}

\* The bars of `from .. to' that touch the limit; the first of them fills it.
FillBars(levels, tape, from, to) == {i \in from .. to : TouchesLimit(levels, tape[i])}

\* Mutated form: a limit that is never touched rests for ever.
SettlePending_NoHorizon(row, maxBars, tape, window) ==
    UNION {FilledPatch(row, maxBars, tape, window, fill) :
        fill \in First(FillBars(row.levels, tape, FirstBar(row, window), window.last))}

\* A touch within the horizon fills the limit; a full horizon without one
\* closes the record as never filled.
SettlePending(row, maxBars, tape, window) ==
    LET end     == FirstBar(row, window) + maxBars - 1
        touches == FillBars(row.levels, tape, FirstBar(row, window), Lesser(window.last, end))
    IN  IF touches # {}
        THEN UNION {FilledPatch(row, maxBars, tape, window, fill) : fill \in First(touches)}
        ELSE {Patch("never-filled", None, Some(i + 1), None, None) :
                 i \in {end} \cap (1 .. window.last)}

\* Mutated form: a later pass forgets that its first bar is the fill bar.
SettleFilled_NoFillBar(row, maxBars, tape, window) ==
    UNION {WalkFilledPosition(row.levels, tape, Greater(window.first, fill),
                              window.last, 0, maxBars) : fill \in row.filledAt}

\* A later pass walks the position again from its fill bar, or from the start
\* of a window that no longer reaches back to it.
SettleFilled(row, maxBars, tape, window) ==
    UNION {LET from == Greater(window.first, fill)
           IN  WalkFilledPosition(row.levels, tape, from, window.last,
                                  IF from = fill THEN fill ELSE 0, maxBars) :
           fill \in row.filledAt}

SettleAnticipatory(row, maxBars, tape, window) ==
    CASE row.status = "pending" -> SettlePending(row, maxBars, tape, window)
      [] row.status = "filled"  -> SettleFilled(row, maxBars, tape, window)
      [] OTHER -> None

=============================================================================
