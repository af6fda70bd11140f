----------------------------- MODULE ForwardTest ------------------------------
(***************************************************************************)
(* The forward-test worker: backend/app/worker/passes.py over the tables   *)
(* of backend/app/forward_test (verdict_hold, shadow_signal,               *)
(* anticipatory_signal, engine_run) and the user-owned tracked_signal.     *)
(*                                                                         *)
(* A worker runs ticks.  A tick evaluates every symbol of every market     *)
(* (holds first, then the records to open, one commit each) and then       *)
(* settles every open record against the klines of its group.  Between any *)
(* two commits the tick may fail or the process may die, and the exchange  *)
(* closes further bars.  Several workers may run ticks at the same time:   *)
(* the tables are designed for it (partial unique indexes, COALESCE        *)
(* patches), so the model allows it and says which results need one worker.*)
(***************************************************************************)
EXTENDS Hysteresis

CONSTANTS
    Workers,        \* processes running ticks
    Markets,        \* 1 = spot, 2 = perp: one eval pass each, in this order
    Symbols,        \* 1 .. n, the order of WORKER_UNIVERSE
    Intents,        \* 1 .. n, the order of assess_intents
    MaxBars,        \* INTENT_MAX_HOLD_BARS: the holding horizon of each intent
    Assessments,    \* what assess_intents may say of an intent
    FollowPlans,    \* the exit levels a user may follow
    Bars,           \* the bars the exchange may close
    Combos,         \* setup|regime pairs
    MinTrades,      \* MIN_SHADOW_RECORD_TRADES
    MinLimit,       \* the floor of the kline fetch (10 in the code)
    FetchLimit,     \* the ceiling of the kline fetch (1000 in the code)
    MaxTime,        \* bound: the last bar index the exchange forms
    MaxFaults,      \* bound: how many faults a behaviour may hold
    MaxFollows      \* bound: how many signals users follow

\* An execution timeframe belongs to one intent, so a hold key is a settle
\* group (symbol:timeframe:market) as well.
Key == Markets \X Symbols \X Intents

\* 1 .. n for some n > 0, or all of them.
Counted(S) == S \subseteq Nat \ {0} /\ 1 \in S /\ \A n \in S : 1 .. n \subseteq S

ASSUME OrderAssumption == Counted(Markets) /\ Counted(Symbols) /\ Counted(Intents)

ASSUME BoundAssumption ==
    /\ MaxBars \in [Intents -> Nat \ {0}]
    /\ MinTrades \in Nat \ {0}
    /\ MinLimit \in Nat \ {0}
    /\ FetchLimit \in Nat \ {0}
    /\ MaxTime \in Nat
    /\ MaxFaults \in Nat
    /\ MaxFollows \in Nat

ASSUME DataAssumption ==
    /\ Bars \subseteq [low : Int, high : Int, close : Int]
    /\ FollowPlans \subseteq ExitLevels(Int)
    /\ Assessments \subseteq
         [verdict : Verdicts, direction : Biases, bias : Biases, lastClose : Int,
          invalidation : Int, combo : Combos,
          plan : SUBSET ExitLevels(Int), limit : SUBSET AnticipatoryLevels(Int)]

VARIABLES
    now,        \* index of the forming bar
    tape,       \* closed bars of every group
    hold,       \* verdict_hold: the standing hold of a key, as an option
    shadow,     \* shadow_signal, rows in insertion order
    antic,      \* anticipatory_signal
    tracked,    \* tracked_signal
    calls,      \* history: the favored verdicts whose adoption was committed
    pc,         \* where each worker's tick is
    at,         \* the market and symbol its eval pass is at
    demoted,    \* the combos its eval pass demotes
    out,        \* EvaluateOutput of its current symbol
    snap,       \* the open records its settle pass has still to walk
    group,      \* the group whose candles it holds, as an option
    window,     \* those candles
    run,        \* its engine_run row
    faults      \* faults so far

market == <<now, tape>>
tables == <<hold, shadow, antic, tracked, calls>>
locals == <<at, demoted, out, snap, group, window>>
vars == <<now, tape, hold, shadow, antic, tracked, calls, pc, at, demoted, out,
          snap, group, window, run, faults>>

-----------------------------------------------------------------------------
(* Rows.  fetchedAt is a history field: the time of the klines that last   *)
(* patched the row.                                                        *)

ShadowStatus == {"active", "stopped-out", "target1-hit", "target2-hit", "expired"}
AnticStatus == {"pending", "filled", "never-filled", "stopped-out",
                "objective-hit", "expired"}
TrackedStatus == {"active", "stopped-out", "target1-hit", "target2-hit", "deleted"}
OpenStatus == {"active", "pending", "filled"}

NewRow(key, levels, combo, status, opened) ==
    [key |-> key, levels |-> levels, combo |-> combo, status |-> status,
     opened |-> opened, filledAt |-> None, closedAt |-> None,
     closePrice |-> None, resultR |-> None, fetchedAt |-> 0]

Rows(Levels, Statuses) ==
    [key : Key, levels : Levels, combo : Combos, status : Statuses, opened : Nat,
     filledAt : SUBSET Nat, closedAt : SUBSET Nat, closePrice : SUBSET Int,
     resultR : SUBSET Int, fetchedAt : Nat]

ShadowRow == Rows(ExitLevels(Int), ShadowStatus)
AnticRow == Rows(AnticipatoryLevels(Int), AnticStatus)
TrackedRow == Rows(ExitLevels(Int), TrackedStatus)

IsOpen(row) == row.status \in OpenStatus

\* shadow_active_uniq and anticipatory_active_uniq with ON CONFLICT DO NOTHING.
Insert(table, row) ==
    IF \E i \in DOMAIN table : table[i].key = row.key /\ IsOpen(table[i])
    THEN table
    ELSE Append(table, row)

\* Mutated form: filled_at is written without COALESCE.
PatchRow_NoCoalesce(row, patch, fetchedAt) ==
    [row EXCEPT !.status = patch.status,
                !.filledAt = patch.filledAt,
                !.closedAt = Coalesce(patch.closedAt, row.closedAt),
                !.closePrice = Coalesce(patch.closePrice, row.closePrice),
                !.resultR = Coalesce(patch.resultR, row.resultR),
                !.fetchedAt = fetchedAt]

\* Mutated form: the outcome columns are written without COALESCE.
PatchRow_PlainOutcome(row, patch, fetchedAt) ==
    [row EXCEPT !.status = patch.status,
                !.filledAt = Coalesce(patch.filledAt, row.filledAt),
                !.closedAt = patch.closedAt,
                !.closePrice = patch.closePrice,
                !.resultR = patch.resultR,
                !.fetchedAt = fetchedAt]

\* patch_*: every column coalesced, no condition on the row's status.
PatchRow(row, patch, fetchedAt) ==
    [row EXCEPT !.status = patch.status,
                !.filledAt = Coalesce(patch.filledAt, row.filledAt),
                !.closedAt = Coalesce(patch.closedAt, row.closedAt),
                !.closePrice = Coalesce(patch.closePrice, row.closePrice),
                !.resultR = Coalesce(patch.resultR, row.resultR),
                !.fetchedAt = fetchedAt]

-----------------------------------------------------------------------------
NoOutput == [holds |-> {}, shadow |-> {}, antic |-> {}, again |-> {}]

EmptyWindow == [first |-> 1, last |-> 0]

Init ==
    /\ now = 1
    /\ tape = [k \in Key |-> <<>>]
    /\ hold = [k \in Key |-> None]
    /\ shadow = <<>>
    /\ antic = <<>>
    /\ tracked = <<>>
    /\ calls = {}
    /\ pc = [w \in Workers |-> "idle"]
    /\ at = [w \in Workers |-> <<1, 1>>]
    /\ demoted = [w \in Workers |-> {}]
    /\ out = [w \in Workers |-> NoOutput]
    /\ snap = [w \in Workers |-> {}]
    /\ group = [w \in Workers |-> None]
    /\ window = [w \in Workers |-> EmptyWindow]
    /\ run = [w \in Workers |-> "none"]
    /\ faults = 0

-----------------------------------------------------------------------------
(* The exchange and the users.                                             *)

\* The forming bar of every group closes.
CloseBar ==
    /\ now < MaxTime
    /\ now' = now + 1
    /\ \E bar \in [Key -> Bars] :
           tape' = [k \in Key |-> Append(tape[k], bar[k])]
    /\ UNCHANGED <<tables, pc, locals, run, faults>>

FollowTracked ==
    /\ Len(tracked) < MaxFollows
    /\ \E k \in Key, levels \in FollowPlans, combo \in Combos :
           tracked' = Append(tracked, NewRow(k, levels, combo, "active", now))
    /\ UNCHANGED <<market, hold, shadow, antic, calls, pc, locals, run, faults>>

DeleteTracked ==
    /\ \E i \in DOMAIN tracked :
          /\ tracked[i].status # "deleted"
          /\ tracked' = [tracked EXCEPT ![i].status = "deleted"]
    /\ UNCHANGED <<market, hold, shadow, antic, calls, pc, locals, run, faults>>

-----------------------------------------------------------------------------
\* A tick that is cut short leaves none of its Python locals behind.
AbortTick(w, next) ==
    /\ pc' = [pc EXCEPT ![w] = next]
    /\ at' = [at EXCEPT ![w] = <<1, 1>>]
    /\ demoted' = [demoted EXCEPT ![w] = {}]
    /\ out' = [out EXCEPT ![w] = NoOutput]
    /\ snap' = [snap EXCEPT ![w] = {}]
    /\ group' = [group EXCEPT ![w] = None]
    /\ window' = [window EXCEPT ![w] = EmptyWindow]

-----------------------------------------------------------------------------
(* The eval passes.                                                        *)

StartTick(w) ==
    /\ pc[w] = "idle"
    /\ pc' = [pc EXCEPT ![w] = "stats"]
    /\ at' = [at EXCEPT ![w] = <<1, 1>>]
    /\ run' = [run EXCEPT ![w] = "running"]
    /\ UNCHANGED <<market, tables, demoted, out, snap, group, window, faults>>

\* Read once per pass: records settled later in the pass do not count.
LoadComboStats(w) ==
    /\ pc[w] = "stats"
    /\ demoted' = [demoted EXCEPT ![w] = DemotedCombos(shadow, Combos, MinTrades)]
    /\ pc' = [pc EXCEPT ![w] = "assess"]
    /\ UNCHANGED <<market, tables, at, out, snap, group, window, run, faults>>

\* Mutated form: one symbol too many.
SymbolAfter_OffByOne(m, s) == IF s \in Symbols THEN <<m, s + 1>> ELSE <<m + 1, 1>>

SymbolAfter(m, s) == IF s + 1 \in Symbols THEN <<m, s + 1>> ELSE <<m + 1, 1>>

\* The symbol after the current one, the next market's pass, or the settle pass.
NextSymbol(w) ==
    LET m == at[w][1]
        next == SymbolAfter(m, at[w][2])
    IN  /\ out' = [out EXCEPT ![w] = NoOutput]
        /\ demoted' = IF next[1] = m THEN demoted ELSE [demoted EXCEPT ![w] = {}]
        /\ IF next[1] \in Markets
           THEN /\ at' = [at EXCEPT ![w] = next]
                /\ pc' = [pc EXCEPT ![w] = IF next[1] = m THEN "assess" ELSE "stats"]
           ELSE /\ at' = [at EXCEPT ![w] = <<1, 1>>]
                /\ pc' = [pc EXCEPT ![w] = "list"]

\* Mutated form: a call the record demoted is not recorded any more.
IsCall_Adjusted(fresh, demotedCombos) ==
    /\ ApplyRecordAdjustment(fresh, demotedCombos).verdict = "favored"
    /\ fresh.direction # "none"

\* favored_before_adjustment, and build_shadow_signal's condition on direction.
IsCall(fresh, demotedCombos) == fresh.verdict = "favored" /\ fresh.direction # "none"

\* A favored verdict with levels to trade it on.
IsFavoredRead(fresh) == fresh.verdict = "favored" /\ fresh.plan # None /\ fresh.direction # "none"

\* evaluate_symbol on one assessment per intent: the holds that change, the
\* adopted favored calls as shadow drafts, and every displayed limit plan as an
\* anticipatory draft.  again is a history field: the calls of earlier
\* evaluations that this one reads again, favored the same way.
EvaluateSymbol(scope, fresh, late, demotedCombos) ==
    LET KeyOf(i) == <<scope[1], scope[2], i>>
        Entry(i) == ApplyRecordAdjustment(fresh[i], demotedCombos)
        adopted  == {i \in Intents :
                        Adopts(hold[KeyOf(i)], Entry(i), now, late[i], MaxBars[i])}
        Drafts(i, plans, status) ==
            {NewRow(KeyOf(i), levels, fresh[i].combo, status, now) : levels \in plans}
    IN  [holds  |-> {[key  |-> KeyOf(i),
                      hold |-> CaptureHold(Entry(i), now),
                      favored |-> IsFavoredRead(fresh[i])] : i \in adopted},
         shadow |-> UNION {Drafts(i, fresh[i].plan, "active") :
                              i \in {j \in adopted : IsCall(fresh[j], demotedCombos)}},
         antic  |-> UNION {Drafts(i, fresh[i].limit, "pending") : i \in Intents},
         again  |-> {call \in calls : \E i \in Intents :
                        /\ call.key = KeyOf(i) /\ IsFavoredRead(fresh[i])
                        /\ call.direction = fresh[i].direction}]

AssessSymbol(w) ==
    /\ pc[w] = "assess"
    /\ \E fresh \in [Intents -> Assessments], late \in [Intents -> BOOLEAN] :
           out' = [out EXCEPT ![w] = EvaluateSymbol(at[w], fresh, late, demoted[w])]
    /\ pc' = [pc EXCEPT ![w] = "holds"]
    /\ UNCHANGED <<market, tables, at, demoted, snap, group, window, run, faults>>

\* Nothing to evaluate: assembled is None, or evaluate_symbol returns None.
SkipSymbol(w) ==
    /\ pc[w] = "assess"
    /\ NextSymbol(w)
    /\ UNCHANGED <<market, tables, snap, group, window, run, faults>>

\* upsert_holds (one commit for all intents) and insert_eval_log, whose
\* rows no pass reads: a failure of the log is a failure before the first open.
UpsertHolds(w) ==
    /\ pc[w] = "holds"
    /\ hold' = [k \in Key |->
                   IF \E u \in out[w].holds : u.key = k
                   THEN {u.hold : u \in {v \in out[w].holds : v.key = k}}
                   ELSE hold[k]]
    /\ calls' = calls \cup
                   {[key |-> u.key, at |-> u.hold.heldAt, direction |-> u.hold.direction] :
                       u \in {v \in out[w].holds : v.favored}}
    /\ pc' = [pc EXCEPT ![w] = "open"]
    /\ UNCHANGED <<market, shadow, antic, tracked, locals, run, faults>>

\* The drafts are opened in intent order, each in its own transaction.
FirstDraft(d, drafts) == d \in drafts /\ \A e \in drafts : d.key[3] <= e.key[3]

OpenShadow(w) ==
    /\ pc[w] = "open"
    /\ \E d \in out[w].shadow :
          /\ FirstDraft(d, out[w].shadow)
          /\ shadow' = Insert(shadow, d)
          /\ out' = [out EXCEPT ![w].shadow = @ \ {d}]
    /\ UNCHANGED <<market, hold, antic, tracked, calls, pc, at, demoted, snap,
                   group, window, run, faults>>

OpenAnticipatory(w) ==
    /\ pc[w] = "open"
    /\ out[w].shadow = {}
    /\ \E d \in out[w].antic :
          /\ FirstDraft(d, out[w].antic)
          /\ antic' = Insert(antic, d)
          /\ out' = [out EXCEPT ![w].antic = @ \ {d}]
    /\ UNCHANGED <<market, hold, shadow, tracked, calls, pc, at, demoted, snap,
                   group, window, run, faults>>

EndSymbol(w) ==
    /\ pc[w] = "open"
    /\ out[w].shadow = {}
    /\ out[w].antic = {}
    /\ NextSymbol(w)
    /\ UNCHANGED <<market, tables, snap, group, window, run, faults>>

-----------------------------------------------------------------------------
(* The settle pass.                                                        *)

KindOrder(kind) == CASE kind = "shadow" -> 1 [] kind = "antic" -> 2 [] OTHER -> 3

OpenRecords(kind, table) ==
    {[kind |-> kind, id |-> i, row |-> table[i]] :
        i \in {j \in DOMAIN table : IsOpen(table[j])}}

\* list_open_shadow, list_open_anticipatory, list_open_tracked: the rows as
\* they are now are what the whole pass works with.
ListOpen(w) ==
    /\ pc[w] = "list"
    /\ snap' = [snap EXCEPT ![w] = OpenRecords("shadow", shadow)
                                   \cup OpenRecords("antic", antic)
                                   \cup OpenRecords("tracked", tracked)]
    /\ pc' = [pc EXCEPT ![w] = "group"]
    /\ UNCHANGED <<market, tables, at, demoted, out, group, window, run, faults>>

InGroup(k, items) == {r \in items : r.row.key = k}

FetchGroup(w) ==
    /\ pc[w] = "group"
    /\ \E k \in Key :
          /\ InGroup(k, snap[w]) # {}
          /\ \E earliest \in First({r.row.opened : r \in InGroup(k, snap[w])}) :
                 window' = [window EXCEPT ![w] =
                               FetchWindow(earliest, now, MinLimit, FetchLimit)]
          /\ group' = [group EXCEPT ![w] = Some(k)]
    /\ pc' = [pc EXCEPT ![w] = "patch"]
    /\ UNCHANGED <<market, tables, at, demoted, out, snap, run, faults>>

\* Settles one record of the group from its snapshot and the fetched window.
SettlePatch(r, candles) ==
    LET k == r.row.key
    IN  CASE r.kind = "shadow" ->
                SettleShadow(r.row, MaxBars[k[3]], tape[k], candles)
          [] r.kind = "antic" ->
                SettleAnticipatory(r.row, MaxBars[k[3]], tape[k], candles)
          [] OTHER -> SettleTracked(r.row, tape[k], candles)

NextRecord(r, items) ==
    /\ r \in items
    /\ \A q \in items : KindOrder(r.kind) <= KindOrder(q.kind)

\* The table after one patch; an update of a row that was deleted meanwhile
\* matches nothing.
Patched(table, r, patch, candles) ==
    IF table[r.id].status = "deleted" THEN table
    ELSE [table EXCEPT ![r.id] = PatchRow(@, patch, candles.last + 1)]

\* The partial unique indexes: at most one open row of a key.
UniqueOpen(table) ==
    \A i, j \in DOMAIN table :
        table[i].key = table[j].key /\ IsOpen(table[i]) /\ IsOpen(table[j]) => i = j

PatchRecord(r, patch, candles) ==
    CASE r.kind = "shadow" ->
            /\ shadow' = Patched(shadow, r, patch, candles)
            /\ UNCHANGED <<antic, tracked>>
      [] r.kind = "antic" ->
            /\ antic' = Patched(antic, r, patch, candles)
            /\ UniqueOpen(antic')
            /\ UNCHANGED <<shadow, tracked>>
      [] OTHER ->
            /\ tracked' = Patched(tracked, r, patch, candles)
            /\ UNCHANGED <<shadow, antic>>

SettleRecord(w) ==
    /\ pc[w] = "patch"
    /\ \E k \in group[w], r \in snap[w] :
          /\ NextRecord(r, InGroup(k, snap[w]))
          /\ \/ \E p \in SettlePatch(r, window[w]) : PatchRecord(r, p, window[w])
             \/ SettlePatch(r, window[w]) = None /\ UNCHANGED <<shadow, antic, tracked>>
          /\ snap' = [snap EXCEPT ![w] = @ \ {r}]
    /\ UNCHANGED <<market, hold, calls, pc, at, demoted, out, group, window, run, faults>>

\* A stale patch that reopens a row next to a newer open row of its key breaks
\* the unique index: the update raises and the tick ends.
PatchConflicts(w) ==
    /\ pc[w] = "patch"
    /\ \E k \in group[w], r \in snap[w] :
          /\ NextRecord(r, InGroup(k, snap[w]))
          /\ r.kind = "antic"
          /\ \E p \in SettlePatch(r, window[w]) :
                 ~ UniqueOpen(Patched(antic, r, p, window[w]))
    /\ AbortTick(w, "failed")
    /\ UNCHANGED <<market, tables, run, faults>>

EndGroup(w) ==
    /\ pc[w] = "patch"
    /\ \A k \in group[w] : InGroup(k, snap[w]) = {}
    /\ pc' = [pc EXCEPT ![w] = "group"]
    /\ group' = [group EXCEPT ![w] = None]
    /\ window' = [window EXCEPT ![w] = EmptyWindow]
    /\ UNCHANGED <<market, tables, at, demoted, out, snap, run, faults>>

\* Every group walked: the slower ingestion passes run, each contained by its
\* own handler, and the run is closed.
FinishRun(w) ==
    /\ pc[w] = "group"
    /\ snap[w] = {}
    /\ pc' = [pc EXCEPT ![w] = "idle"]
    /\ run' = [run EXCEPT ![w] = "ok"]
    /\ UNCHANGED <<market, tables, locals, faults>>

-----------------------------------------------------------------------------
(* Faults.                                                                 *)

Fault ==
    /\ faults < MaxFaults
    /\ faults' = faults + 1

\* An exception while a symbol is evaluated is rolled back, logged, and the
\* pass goes on with the next symbol; what was committed stays.
EvalFails(w) ==
    /\ Fault
    /\ pc[w] \in {"assess", "holds", "open"}
    /\ NextSymbol(w)
    /\ UNCHANGED <<market, tables, snap, group, window, run>>

\* fetch_klines returns [] on an HTTP error: the group waits for the next tick.
FeedDown(w) ==
    /\ Fault
    /\ pc[w] = "group"
    /\ \E k \in Key :
          /\ InGroup(k, snap[w]) # {}
          /\ snap' = [snap EXCEPT ![w] = @ \ InGroup(k, snap[w])]
    /\ UNCHANGED <<market, tables, pc, at, demoted, out, group, window, run>>

\* An exception outside the per-symbol handler ends the tick: a query or a
\* patch that fails.
TickFails(w) ==
    /\ Fault
    /\ pc[w] \in {"stats", "list", "patch"}
    /\ AbortTick(w, "failed")
    /\ UNCHANGED <<market, tables, run>>

\* fetch_klines catches HTTP errors only: a body that does not parse raises
\* through the settle pass.
KlinesUnparsable(w) ==
    /\ Fault
    /\ pc[w] = "group"
    /\ snap[w] # {}
    /\ AbortTick(w, "failed")
    /\ UNCHANGED <<market, tables, run>>

FinishError(w) ==
    /\ pc[w] = "failed"
    /\ pc' = [pc EXCEPT ![w] = "idle"]
    /\ run' = [run EXCEPT ![w] = "error"]
    /\ UNCHANGED <<market, tables, locals, faults>>

\* The process dies, or the job times out, between two commits: the engine
\* run stays open and nothing of the tick survives but what it committed.
Crash(w) ==
    /\ Fault
    /\ pc[w] # "idle"
    /\ AbortTick(w, "idle")
    /\ UNCHANGED <<market, tables, run>>

-----------------------------------------------------------------------------
EvalStep(w) ==
    \/ StartTick(w) \/ LoadComboStats(w) \/ AssessSymbol(w) \/ SkipSymbol(w)
    \/ UpsertHolds(w) \/ OpenShadow(w) \/ OpenAnticipatory(w) \/ EndSymbol(w)

SettleStep(w) ==
    \/ ListOpen(w) \/ FetchGroup(w) \/ SettleRecord(w) \/ PatchConflicts(w)
    \/ EndGroup(w) \/ FinishRun(w) \/ FinishError(w)

FaultStep(w) ==
    \/ EvalFails(w) \/ FeedDown(w) \/ TickFails(w) \/ KlinesUnparsable(w)
    \/ Crash(w)

Next ==
    \/ CloseBar \/ FollowTracked \/ DeleteTracked
    \/ \E w \in Workers : EvalStep(w) \/ SettleStep(w) \/ FaultStep(w)

Spec == Init /\ [][Next]_vars

(* The cron keeps starting ticks and a tick that is not killed runs on; the *)
(* exchange keeps closing bars.  Faults are finitely many (MaxFaults).      *)
Fairness ==
    /\ WF_vars(CloseBar)
    /\ \A w \in Workers : WF_vars(EvalStep(w) \/ SettleStep(w))

FairSpec == Spec /\ Fairness

-----------------------------------------------------------------------------
HeldVerdict ==
    [verdict : Verdicts, direction : Biases, bias : Biases,
     invalidation : SUBSET Int, heldAt : Nat]

Call == [key : Key, at : Nat, direction : Biases]

Output ==
    [holds : SUBSET [key : Key, hold : HeldVerdict, favored : BOOLEAN],
     shadow : SUBSET ShadowRow, antic : SUBSET AnticRow, again : SUBSET Call]

SnapOf(kind, table, Row) == [kind : {kind}, id : DOMAIN table, row : Row]

SnapItem == SnapOf("shadow", shadow, ShadowRow) \cup SnapOf("antic", antic, AnticRow)
            \cup SnapOf("tracked", tracked, TrackedRow)

PcValues == {"idle", "stats", "assess", "holds", "open", "list", "group", "patch", "failed"}

\* Every variable keeps its shape, every snapshot refers to a row that exists
\* and was taken from the table of its kind, and the tape ends before the
\* forming bar.
TypeOK ==
    /\ now \in Nat \ {0}
    /\ tape \in [Key -> Seq(Bars)]
    /\ \A k \in Key : Len(tape[k]) = now - 1
    /\ hold \in [Key -> SUBSET HeldVerdict]
    /\ shadow \in Seq(ShadowRow)
    /\ antic \in Seq(AnticRow)
    /\ tracked \in Seq(TrackedRow)
    /\ calls \subseteq Call
    /\ pc \in [Workers -> PcValues]
    /\ at \in [Workers -> Markets \X Symbols]
    /\ demoted \in [Workers -> SUBSET Combos]
    /\ out \in [Workers -> Output]
    /\ snap \in [Workers -> SUBSET SnapItem]
    /\ group \in [Workers -> SUBSET Key]
    /\ window \in [Workers -> [first : Nat \ {0}, last : Nat]]
    /\ run \in [Workers -> {"none", "running", "ok", "error"}]
    /\ faults \in 0 .. MaxFaults

-----------------------------------------------------------------------------
(* What the record must say.                                               *)

\* The klines that last patched the row reached back to its opening.
Covered(row) == row.fetchedAt - row.opened <= FetchLimit

\* The outcome of a market entry, read off the whole tape: the first bar after
\* the opening that touches a level, or the close of the last bar of the
\* holding horizon when none does.
ShadowOutcome(row, maxBars, bars) ==
    \E e \in row.opened + 1 .. row.opened + maxBars :
        /\ e <= Len(bars)
        /\ row.closedAt = Some(e + 1)
        /\ \A i \in row.opened + 1 .. e - 1 : ExitStatus(row.levels, bars[i]) = "open"
        /\ \/ /\ ExitStatus(row.levels, bars[e]) # "open"
              /\ row.status = ExitStatus(row.levels, bars[e])
              /\ row.closePrice = Some(ExitLevel(row.levels, row.status))
           \/ /\ ExitStatus(row.levels, bars[e]) = "open"
              /\ e = row.opened + maxBars
              /\ row.status = "expired"
              /\ row.closePrice = Some(bars[e].close)
        /\ \A price \in row.closePrice : row.resultR = Some(ResultR(row.levels, price))

\* The record is catch-up safe: whatever crashed, failed or was late, a settled
\* shadow row whose klines reached back to its opening carries the outcome of
\* the whole tape (settle_shadow_signal, run_settle_pass).
ShadowGradedByTape ==
    \A i \in DOMAIN shadow :
        ~ IsOpen(shadow[i]) /\ Covered(shadow[i]) =>
            ShadowOutcome(shadow[i], MaxBars[shadow[i].key[3]], tape[shadow[i].key])

\* The bar that fills a resting limit.
FillBar(row, maxBars, bars, f) ==
    /\ f \in row.opened + 1 .. row.opened + maxBars
    /\ f <= Len(bars)
    /\ TouchesLimit(row.levels, bars[f])
    /\ \A i \in row.opened + 1 .. f - 1 : ~ TouchesLimit(row.levels, bars[i])

\* The state of a resting limit, read off the whole tape in one go.
AnticOutcome(row, maxBars, bars) ==
    CASE row.status = "pending" -> row.filledAt = None /\ row.closedAt = None
      [] row.status = "never-filled" ->
            /\ row.filledAt = None /\ row.resultR = None
            /\ row.closedAt = Some(row.opened + maxBars + 1)
            /\ \A i \in row.opened + 1 .. row.opened + maxBars :
                   i <= Len(bars) /\ ~ TouchesLimit(row.levels, bars[i])
      [] row.status = "filled" ->
            /\ row.closedAt = None
            /\ \E f \in row.filledAt : FillBar(row, maxBars, bars, f)
      [] OTHER ->
            \E f \in row.filledAt : \E e \in f .. f + maxBars - 1 :
                /\ FillBar(row, maxBars, bars, f)
                /\ e <= Len(bars)
                /\ row.closedAt = Some(e + 1)
                /\ \A i \in f .. e - 1 : PositionStatus(row.levels, bars, f, i) = "open"
                /\ \/ /\ row.status = PositionStatus(row.levels, bars, f, e)
                      /\ row.closePrice = Some(IF row.status = "stopped-out"
                                               THEN row.levels.stop
                                               ELSE row.levels.objective)
                   \/ /\ row.status = "expired"
                      /\ e = f + maxBars - 1
                      /\ PositionStatus(row.levels, bars, f, e) = "open"
                      /\ row.closePrice = Some(bars[e].close)
                /\ \A price \in row.closePrice :
                       row.resultR = Some(ResultR(row.levels, price))

\* Settling a limit in steps (pending, filled, closed), over as many ticks and
\* faults as it takes, ends where one walk of the whole tape ends
\* (settle_anticipatory_signal, run_settle_pass).
AnticGradedByTape ==
    \A i \in DOMAIN antic :
        Covered(antic[i]) =>
            AnticOutcome(antic[i], MaxBars[antic[i].key[3]], tape[antic[i].key])

\* The outcome of a followed signal, if it has one.
TrackedOutcome(row, bars) ==
    \A closed \in row.closedAt :
        /\ closed - 1 \in row.opened + 1 .. Len(bars)
        /\ \A j \in row.opened + 1 .. closed - 2 : ExitStatus(row.levels, bars[j]) = "open"
        /\ row.status \in {"deleted", ExitStatus(row.levels, bars[closed - 1])}

\* A followed signal closes on the first bar after the follow that touches a
\* level (settle_tracked_signal_with_candles).
TrackedGradedByTape ==
    \A i \in DOMAIN tracked :
        Covered(tracked[i]) => TrackedOutcome(tracked[i], tape[tracked[i].key])

Outcome(row) == <<row.status, row.filledAt, row.closedAt, row.closePrice, row.resultR>>

\* No step changes the outcome of a settled shadow row, even when two ticks
\* overlap and both patch it, as long as the klines of both reached back to its
\* opening (patch_shadow has no guard on the status).
ShadowOutcomeFinal ==
    [][\A i \in DOMAIN shadow :
          ~ IsOpen(shadow[i]) /\ Covered(shadow[i]) /\ Covered(shadow'[i]) =>
              Outcome(shadow'[i]) = Outcome(shadow[i])]_vars

\* "A patch it has issued can never be contradicted by later data": a settled
\* limit keeps its outcome and a fill keeps its bar
\* (settle_anticipatory_signal, patch_anticipatory).
AnticNeverContradicted ==
    [][\A i \in DOMAIN antic :
          /\ ~ IsOpen(antic[i]) => Outcome(antic'[i]) = Outcome(antic[i])
          /\ antic[i].filledAt # None => antic'[i].filledAt = antic[i].filledAt
                                         /\ antic'[i].status # "pending"]_vars

\* The outcome columns of a limit that are set keep their values.
KeepsFacts(old, new) ==
    \A column \in {"filledAt", "closedAt", "closePrice", "resultR"} :
        old[column] # None => new[column] = old[column]

\* What the status of a limit may become, in one step of any tick.
MayBecome(old, new) ==
    \/ new = old \/ old = "pending"
    \/ old = "filled" /\ new \notin {"pending", "never-filled"}
    \/ old # "never-filled" /\ new = "filled"

\* A stale patch of an overlapping tick may set a closed limit back to filled,
\* for a later pass to settle again; but whatever ticks patch it in whatever
\* order, its fill bar and its outcome stay as first recorded and it is given no
\* other outcome, while no kline window of it has met the fetch ceiling
\* (patch_anticipatory: COALESCE on the columns, no guard on the status).
LimitFactsStand ==
    [][\A i \in DOMAIN antic :
          now - antic[i].opened <= FetchLimit =>
              /\ KeepsFacts(antic[i], antic'[i])
              /\ MayBecome(antic[i].status, antic'[i].status)]_vars

\* No tick is about to open the records of an adopted call.
Quiet == \A w \in Workers : pc[w] # "open"

\* A favored call is graded: it has its own shadow row, or its key's earlier row
\* was still open when the call was adopted, in either direction, as the index has
\* none (run_eval_pass, open_shadow).
CallGraded(call) ==
    \E i \in DOMAIN shadow :
        /\ shadow[i].key = call.key
        /\ \/ shadow[i].opened = call.at
           \/ /\ shadow[i].opened < call.at
              /\ IsOpen(shadow[i]) \/ shadow[i].fetchedAt >= call.at

\* As long as no tick was cut short, every adopted favored call is graded (the
\* order of upsert_holds and open_shadow, favored_before_adjustment).
UnharmedCallsGraded == faults = 0 /\ Quiet => \A call \in calls : CallGraded(call)

\* The record of the key has the call in it, by a row of the call's own tick or
\* by any other that was open then or was opened since.
CallRecorded(call) ==
    \E i \in DOMAIN shadow :
        /\ shadow[i].key = call.key
        /\ \/ shadow[i].opened >= call.at
           \/ IsOpen(shadow[i]) \/ shadow[i].fetchedAt >= call.at

\* "A crashed tick heals on the next one": a tick that reads the call of an
\* earlier one again, favored the same way, and has opened all it means to open
\* of that symbol leaves the call recorded, whatever befell the earlier tick.
CrashHeals ==
    \A w \in Workers :
        pc[w] = "open" /\ out[w].shadow = {} /\ out[w].antic = {} =>
            \A call \in out[w].again : CallRecorded(call)

\* The tape has run past the last bar a record may stay open for.
Overdue(row) ==
    LET maxBars == MaxBars[row.key[3]]
    IN  \/ row.status \in {"active", "pending"} /\ row.opened + maxBars < now
        \/ row.status = "filled" /\ \E f \in row.filledAt : f + maxBars - 1 < now

\* Whatever crashes or fails, the next ticks make up for it: again and again no
\* shadow record is overdue, and again and again no resting limit is, through
\* its fill and the position's own horizon (run_settle_pass, the time stops of
\* settle_shadow_signal and settle_anticipatory_signal).
RecordsKeepUp ==
    /\ []<>(\A i \in DOMAIN shadow : ~ Overdue(shadow[i]))
    /\ []<>(\A i \in DOMAIN antic : ~ Overdue(antic[i]))

\* The table a record of the settle pass was listed from.
TableOf(kind) == CASE kind = "shadow" -> shadow
                   [] kind = "antic" -> antic
                   [] OTHER -> tracked

\* What a settle pass works with stays usable while others write: the rows it
\* listed keep their key, levels and opening, the candles of the group reach
\* back to the opening of every record of it unless the fetch ceiling cuts
\* them, and drafts are opened open (list_open_*, run_settle_pass's limit).
SnapshotsAgree ==
    \A w \in Workers : \A r \in snap[w] :
        LET row == TableOf(r.kind)[r.id]
        IN  <<r.row.key, r.row.levels, r.row.opened>> = <<row.key, row.levels, row.opened>>

WindowsReach ==
    \A w \in Workers : \A k \in group[w] :
        pc[w] = "patch" =>
            \A r \in InGroup(k, snap[w]) :
                window[w].last + 1 - r.row.opened <= FetchLimit
                    => window[w].first <= r.row.opened + 1

DraftsOpen == \A w \in Workers : \A d \in out[w].shadow : IsOpen(d)

PassUsable == SnapshotsAgree /\ WindowsReach /\ DraftsOpen
=============================================================================
