# Market Pulse — a TLA+ verification project

Market Pulse reads crypto market structure, calls setups ("favored" verdicts with
a plan), grades its own calls in a forward test, delivers alerts over Telegram,
judges the user's trade tickets before they are placed, draws the structure of a
chart in the browser and keeps it live. This directory holds
TLA+ models of the parts of that program that decide something over time, the TLC
configurations that check them on small instances, and proofs, checked by TLAPS,
of what matters most for every instance.

Paths below are relative to `src/`. Every definition of the models is listed with
the code it stands for under "map" in `PROJECT.json`.

## 1. Inventory

The program is a FastAPI process (`backend/app`), an arq worker process
(`backend/app/worker`), a Python analysis library (`engine/smc`) and a TanStack web
application (`frontend`) with its own server. PostgreSQL is what they share.

| Component | State | Operations | Talks to |
|---|---|---|---|
| Settlement engine (`engine/smc/tracker.py`, `shadow.py`, `anticipatory.py`) | none (pure) | walk the exit levels over candles; settle a shadow record, a resting limit, a followed signal | called by the worker |
| Verdict hysteresis and accountability (`hysteresis.py`, `evaluate.py`, `shadow.py`) | none (pure over the held verdict and the record) | hold, release, adopt; demote combos with a losing record; draft records | called by the worker |
| Forward-test worker (`worker/passes.py`, `forward_test/repo.py`) | `verdict_hold`, `shadow_signal`, `anticipatory_signal`, `engine_run`; shares `tracked_signal` with the web server | a tick every five minutes: two eval passes, a settle pass, slower ingestion passes | exchange klines, the tables |
| Alert store and delivery (`execution/alert_service.py`, `delivery/`) | `alerts` | create with de-duplication, mark read, a delivery pass a minute | alert rules, Telegram |
| Trading constitution (`execution/service.py`) | `trading_constitutions`, `constitution_audits` | read, seed, write a version | permits, skip checks, the user |
| Trade permits (`execution/permit_request_service.py`, `account_service.py`, `sizing.py`, `risk_engine.py`) | `trade_permits`, an in-process cache of account figures | judge a ticket and persist the permit | exchange account, constitution, trade history |
| Position stream (`execution/position_ws_manager.py`) | listen key, positions, sockets | connect, keep alive, reconnect, fall back to polling | exchange, browsers |
| Trade review sync (`binance_review/`) | synced trades, cursors | windowed sync, reconstruction | exchange |
| Alert pass, context stamper (`worker/alert_pass.py`, `context_stamper.py`) | reads verdicts and events, writes alerts and stamps | one rule each, contained per rule | alerts |
| Forward returns (`worker/forward_return_pass.py`) | graded snapshots | grade at fixed horizons | klines |
| Exchange client (`worker/binance.py`) | request weight of the minute | wait for budget, fetch, back off | exchange |
| Ingestion (`event_pass`, `econ_pass`, `unlock_pass`, `derivatives_pass`, `forensics_pass`) | rows keyed by source identity | fetch, upsert | external feeds |
| Structure engine of the frontend (`lib/engine/structure.ts`, `strength.ts`, `equilibrium.ts`, `trend-transition.ts`, `liquidity.ts`, `objectives.ts`) | none (recomputed for each window) | pivots, swings, labels, strength, dealing range, transitions, pools, sweeps, objectives | charts, assessments |
| Points of interest of the frontend (`zones.ts`, `orderblocks.ts`, `fvg.ts`, `poi.ts`, `poi-map.ts`, `poi-lifecycle.ts`) | none (recomputed for each window) | detect zones, order blocks and gaps; replay the lifecycle of each; rank; plan a resting limit | charts, anticipatory plans |
| Live price feed (`lib/engine/binance-live-feed.ts`) | the registry of callers, one socket a market, last ticks | register, unregister, reconcile, reconnect, route a frame | exchange, the stores of the page |
| Notifications (`lib/engine/notifications.ts`, `server/follow-watch.ts`, `routes/api/notifications.ts`, `hooks/useNotificationStream.ts`, `stores/notifications.ts`) | replay buffer, subscribers, cursor of each watch, the list of a tab | poll the record, emit, replay, receive | the tables the worker writes, browsers |
| Other watches (`server/*-watch.ts`) | cursors and last states in memory | poll and publish | the hub |

The remaining parts (analytics without state, read-only APIs, login, CRUD
journals, the AI desk, the user interface) are
listed in `PROJECT.json` with the reason they are left out.

**What is hard here.** A tick is a long sequence of separate commits, and it may
die between any two. A cron starts jobs while earlier ones still run. Rows are
patched from snapshots taken minutes earlier. Messages leave before what they
mean is committed. Requests read an account in three calls while it changes. Two
handlers write the next version of the same document. A structure that is computed
from scratch for every window must not say of the past what it would not have said
then. Events of a socket arrive after the socket was replaced. A watch reads rows by
their closing time while rows settle late. Every such place is listed
under "hazards" in `PROJECT.json` at its line, with the properties that would
notice it going wrong.

**What makes the components correct.**

* Settlement: the outcome of a record is a function of the tape alone. It does
  not depend on when, how often or in how many steps it was computed.
* Worker: every adopted call is graded; nothing stays open for ever; overlapping
  ticks do not change the facts another has recorded.
* Alerts: the state of a row never says more than what happened; what is decided is
  not sent again, and every repeated message has a cause; what is urgent is decided.
* Constitution: versions form a complete audited chain.
* Permits: approval rests on figures read for that request; no loss slips between
  two reads; the size keeps the risk budget; the liquidation lies beyond the stop.
* Structure and points of interest: no lookahead. What was said of completed swings,
  spent levels and decided zones stays said; two rankings and two lifecycles that
  exist side by side agree.
* Live feed: the one socket of a market carries what is wanted; no price outlives the
  interest in it; whoever stays is served.
* Notifications: what settles in order reaches its owner, and is announced once.

## 2. Modules

| Module | Models | EXTENDS |
|---|---|---|
| `Settlement` | pure settlement rules | — |
| `Hysteresis` | holds, releases, record adjustment | `Settlement` |
| `ForwardTest` | the worker's ticks over the tables | `Hysteresis` |
| `AlertDelivery` | alerts table, writers, readers, delivery passes | — |
| `RiskEngine` | pure sizing and checks | — |
| `PermitDesk` | constitution, account reads, permits | `RiskEngine` |
| `Swings` | pivots, legs, labels, strength, dealing range, transitions | — |
| `Liquidity` | pools, sweeps, objectives | `Swings` |
| `SwingTape` | the structure read while bars close | `Liquidity` |
| `ZoneFreshness` | abstract: what a zone promises while bars close | — |
| `PoiLifecycle` | the lifecycle of one band | — |
| `Pois` | detectors, map, rankings, the anticipatory plan | `Liquidity`, `PoiLifecycle` |
| `PoiTape` | the ledger while bars close; implements `ZoneFreshness` | `Pois` |
| `LiveFeed` | registry, sockets and ticks of the browser | — |
| `Notifications` | follow watch, hub, streams and tabs | — |
| `MCForwardTest`, `MCAlertDelivery`, `MCPermitDesk`, `MCSwingTape`, `MCPoiTape`, `MCLiveFeed`, `MCNotifications` | values for the small instances | the module checked |
| `ForwardTestProofs`, `RecordProofs`, `AlertDeliveryProofs`, `PermitDeskProofs`, `SwingTapeProofs`, `PoiTapeProofs`, `LiveFeedProofs`, `NotificationsProofs` | theorems | the module proved about |

### Settlement and Hysteresis

These rules exist twice: in `engine/smc`, which the worker runs, and in
`frontend/src/lib/engine`, from which it was ported and to which shared fixtures pin
it. Both were read for every definition; "map" names the TypeScript lines.

Bars are records of low, high and close; the bar with index `i` closes at time
`i + 1`. `SettleShadow`, `SettleAnticipatory` and `SettleTracked` return an option
({} or {patch}) like the functions of the same names return `None` or a patch.
Prices are integers, and results in R
are hundredths, rounded half up as the code rounds them: the record adjustment looks
at the sign of their average. `DemotedCombos` and `AverageR` are the
record of past trades; `Adopts` and `Released` are `reconcile_holds` and
`_release_reason`.

### ForwardTest

`pc[w]` is where the tick of worker `w` is:

    idle -> stats -> assess -> holds -> open -> ... -> list -> group -> patch -> ... -> idle

| Action | Code |
|---|---|
| `StartTick`, `FinishRun`, `FinishError` | `run_once` with `start_engine_run`, `finish_engine_run` |
| `LoadComboStats`, `AssessSymbol`, `SkipSymbol`, `EndSymbol` | `run_eval_pass` |
| `UpsertHolds` | `upsert_holds`, the first commit of a symbol |
| `OpenShadow`, `OpenAnticipatory` | `open_shadow`, `open_anticipatory`, one commit each |
| `ListOpen`, `FetchGroup`, `SettleRecord`, `EndGroup` | `run_settle_pass` |
| `PatchConflicts` | a patch that meets the partial unique index |
| `EvalFails`, `FeedDown`, `TickFails`, `KlinesUnparsable`, `Crash` | the exception paths and the death of the process |
| `CloseBar` | the exchange |
| `FollowTracked`, `DeleteTracked` | the users, through the web server |

`Assessments` is what `assess_intents` may say of an intent; the analysis behind it
is not modelled, so every sequence of readings is possible. `late` in
`AssessSymbol` is the clock reading of the hold, which may be past the time cap or
not when bars and the wall clock disagree. `calls`, `fetchedAt` and `again` are history:
the adopted favored calls whose hold is committed, the time of the klines that last
patched a row, and the calls of an earlier tick that a tick reads the same way again.

### AlertDelivery

A row is an option per dedupe key. Writers are `create_alerts` calls: one SELECT,
then one INSERT that may meet the unique constraint. A row starts in the state the
request names, and the ingest endpoint takes any text for it: `Asked` is the set of
states asked for, with "other" for a text that no reader knows. A pass reads its rows
(`ListPending`), holds back or sends them one by one (`SkipInfo`, `SendSucceeds`,
`SendFails`) and commits once at the end (`CommitPass`) with SQLAlchemy's rule that
only changed columns are written (`Flushed`). A pass may start while another runs: the
cron fires every minute and a job may take two. `KillPass` is the job timeout and the
restart. `received`, `tried`, `overlaps` and `born` are history: the messages that
arrived, the failed passes, the times a pass listed an alert that another one held, and
the state a row was created in.

### RiskEngine and PermitDesk

`RiskEngine` multiplies the code's exact decimal quotients out into integers: risk
in per mille, limits in per cent, prices in a unit finer than the tick.
`EvaluatePermit` returns the set of failing checks, all of which are always
evaluated. `PermitDesk` runs requests and edits concurrently; each await of
`request_permit` is a step: constitution (`StartRequest`, `StartSeed`,
`InsertVersion`), clock (`TakeTime`), balance, positions and income
(`ReadAccount`), trade history (`ReadHistory`), insert (`IssuePermit`). A call that
fails falls back to the cache (`FallBack`) or makes the account unavailable
(`FetchFails`). `openAtStart`, `readAt` and `doneAt` in the account figures are history:
the positions open before the first call, and the times before the first call and after
the last.
Handlers that read the constitution or the account without asking for a permit
(the constitution page, the skip check, the market batch) do a prefix of a
request's steps; a request that aborts stands for them.

### Swings, Liquidity and SwingTape

A bar's time is its index. Legs alternate between highs and lows, so the running
variables of `structure.ts` (last high, last low, trend) are functions of a swing's
neighbours: `Label`, `TrendAfter`, `Event`, `EqualLevels`. `Strength`, `DealingRange`
and `Transitions` are the views of `strength.ts`, `equilibrium.ts` and
`trend-transition.ts`; `PoolFrom`, `SweepOf`, `ResolveObjectives` those of
`liquidity.ts` and `objectives.ts`. The code sorts its lists of pools, of swings and of
objectives; here they are sets with the order stated (`ListedBefore`, `Nearest`), and
the n-th member is the one with n - 1 before it, because the sorting operators of the
libraries cannot be reasoned about. The tolerance of equal levels is the fraction
`TolNum / TolDen`. `SwingTape` closes one bar at a time and adds the pivots it
confirms to the legs (`CloseBar`); that this is what the code computes from scratch
is the property `LegsReplayed`. `K` is `pivotWindow` of the length of the window,
which is fixed for the windows the engine fetches; where a growing window crosses a
multiple of 40 bars the pivots change, as the repository's own tests of trend
transitions note.

### ZoneFreshness, PoiLifecycle, Pois and PoiTape

`Pois` detects zones (`ZoneAt`), order blocks (`BlockAt`) and gaps (`GapAt`), builds
the map with its inversions, and ranks: `Outranks` is the order of `rankPois`,
`SelectPoi` that of `selectPoi`. Prices of bands are in units of `1 / Scale`, because a
near edge may be a base plus a fifth of an ATR, so every comparison of the code is one
of integers. `SelectZones` walks back over the bars, which is the code's sort of the
zones by their last bar, and keeps those that overlap none kept before. `Replay` is one turn of the loop of `derivePoiLifecycle`. `PoiTape` picks
a band that a bar forms and replays it bar by bar, beside the ledger computed from
scratch. `Freshness` is the loop of `zoneFreshness`, which the plan uses, and `Read` that
of `derivePoiLifecycle`, which the map uses: two translations of two functions. They
agree under `Collapse` (mitigated reads as tested, both terminal states as gone), which
is `FreshnessReproduced`. `ZoneFreshness` is what `zoneFreshness` promises as a
specification over time, and `PoiTape` implements it under the same mapping.

### LiveFeed

| Action | Code |
|---|---|
| `RegisterLiveInterest`, `UnregisterLiveInterest` | the functions of these names, with `reconcile`, `clearStaleStreams`, `teardown` and `connect` in the same step |
| `OnClose`, `OnLateClose` | `onclose` of the current and of a replaced socket |
| `Reconnect` | the timer of `onclose` |
| `OnMessage` | a well-formed frame |
| `Drop` | the exchange or the network |

JavaScript runs each handler to its end, so a handler is one step; what interleaves is
the handlers. `leaked` counts open sockets nothing refers to. A market is a function of
the want, and `StreamOf` may give two wants one stream, as `resolveExchangeSymbol` does
for PEPE and 1000PEPE of the perp market.

### Notifications

| Action | Code |
|---|---|
| `Settle` | the worker writes `closed_at`, a bar's closing time, at any later moment |
| `StartCheck`, `ApplyCheck`, `FailCheck` | `check` up to its query, after it, and when it throws; the interval may start one while another is under way |
| `Broadcast` | every other publisher of the hub |
| `Ask` | the request of a tab's `EventSource`: `GET` of `routes/api/notifications.ts` up to its query of the session |
| `Connect`, `Refuse` | the query returns and the stream opens with the replay; it throws, the answer is an error, and the tab's `EventSource` is closed for good (`gone`) |
| `Disconnect`, `Reload` | a stream or a request is lost; the user loads the page anew |
| `Receive` | `add` of the tab's store |
| `Restart` | the web process loses buffer, streams and cursor |

`published`, `announced` and `due` are history; `due` holds the follows that settled
with a closing time later than everything settled and seen before. An event is
identified by its id, and an owner's event is for the owner's streams
(`VisibleTo`). The user of a tab is fixed: a session is taken to stay valid.

## 3. Runs

All bounds are constants of the `.cfg` files; `MaxTime`, `MaxFaults`, `MaxFollows`,
`MaxVersions`, `MaxPermits` and `MaxDrops` bound what would otherwise grow for ever and
appear only in guards.

| Run | Instance | Shows |
|---|---|---|
| `ShadowCatchUp` | 1 worker, time up to 5, 1 fault, 1 follow, horizon 2, fetch ceiling 4 | type invariant; settled shadow rows and followed signals carry the tape's outcome, over walks of several bars and the time stop, when ticks come late, crash or find the exchange down |
| `LimitsSettled` | 1 worker, 5 bars, 1 fault, fetch ceiling 3, fair | resting limits settled in steps end where one walk of the tape ends, unless their window met the ceiling, and never contradict themselves; without a fault every adopted favored call is graded, also when the record has demoted its combo; overdue records are settled again and again |
| `OverlappingTicks` | 2 workers, 4 bars | overlapping ticks keep each other's snapshots usable, never change the outcome of a settled shadow row, and never change the fill bar or the outcome of a limit, as long as the klines reach back to the opening |
| `AlertsOverlapping` | 2 passes, 2 writers, 1 alert created in any state, 2 faults | "sent" means received and "failed" means tried `MaxAttempts` times, of rows created pending; others are never sent; repeated messages are paid for by overlaps and faults; a decided row never waits again |
| `UrgentAlerts` | 1 pass, 2 alerts, 3 faults, fair | a critical alert is decided although quiet hours fall on it |
| `PermitsIssued` | 2 requests, 1 editor, 1 fault, 1 position, a week of length 0 | type invariant; approvals on fresh figures; nothing slips between the reads; a gapless audited chain; the risk budget |
| `SwingTape` | 9 bars, 3 choices each, 1 bar on each side of a pivot | replay equals recomputation; the dealing range holds; objectives are a path and pass no eligible swing over; completed swings, confirmed transitions, strengths and spent levels stand |
| `PoiTape` | 8 bars, an ATR of 2, zones of up to 2 base bars | the two replays of a band agree; both rankings agree; a plan is not already passed; detections stand and the ledger only ages; the lifecycle implements `ZoneFreshness` |
| `LiveFeed` | 2 callers, 2 markets, 4 wants of which two share a stream, 3 drops, 2 reconnects, fair | one socket serves the registry; no orphan tick; who stays is served |
| `Notifications` | 2 follows of two users, 2 broadcasts, 1 tab, 2 polls, 2 faults, buffers of 2, fair | the cursor stays behind what is due; nothing is announced twice; what settles in order reaches each tab of its owner, unless the tab was refused a stream for good |

Why these bounds are enough to meet the interesting cases: two bars of horizon
distinguish "closed by a level", "closed by time" and "still open". A record of two bars
that is settled a bar late needs a window of four, so with the ceiling of `ShadowCatchUp`
the run meets, within what is promised, a time stop found late, a level reached on the
second bar and found late, and a settle pass that died between the shadow rows and the
followed signals. The ceiling of `LimitsSettled` is one lower: there windows no longer
reach the opening, and records end otherwise than the tape says. Two workers are what a patch needs to be stale. Two alerts of different
severity are what the order of a pass needs. A week of length zero makes both kinds of
requests occur: those whose reads stay within the week of the loss limits and those that
outlast it, for which nothing is promised. One position whose loss is the whole
wallet makes every limit and the empty wallet occur. Nine bars whose highs and lows
go up and down confirm seven pivots, in which trends form, break, turn and make equal
levels. A shelf of three bars and five kinds of bars after it form a zone, rest away
from it, touch it, reach into it and close beyond it, twice. Three drops are more than
the reconnects allowed, so the feed does give up. Three events for one tab with a
list of two make it forget, and two faults let a replay follow a failed query, a
restart or another loss. The worker's runs keep one market; the proofs cover any
number. Each run's mutants (listed in `PROJECT.json`) are plausible bugs that the same
instance notices.

Deadlock is checked everywhere but in the `PermitDesk` and tape runs: a desk that
nobody asks anything stands still, and a tape ends at its bound. In the other
instances a cron, an interval or a caller always has something to start.

### Runs that find a violation

Two runs check a sentence of the code's own documentation and find it violated.

* `LostCall` (`CrashHeals`). `passes.py:4-6` promises that "a crashed tick heals on
  the next one". The hold is committed before its record is opened, and the process
  dies in between. `CrashHeals` waits for the next tick: one that reads the same call
  again and has opened all it means to open. It finds the hold standing, adopts nothing
  and opens nothing. The call is lost to the track record.
* `UnsizedPermit` (`LiquidationBeyondStop`). `risk_engine.py:338-339` says the check
  "never approves a position the real liquidation would endanger". A ticket the
  sizing flags (a price off the tick of the default filters, 0.01 for every symbol,
  or a size below the minimums) has no liquidation estimate; the check passes as
  not applicable, no other check looks at the flag, and the permit is approved. The two
  lines before concede that leverage 1 or a proposal without an estimate passes, because
  it "has no liquidation risk to compare"; this one has the risk, and only the estimate
  is missing.

### Observations without a run

* `repo.py:7` says "a re-issued settle patch is a no-op". Of two overlapping ticks the
  one with the older candles may patch last and set a settled limit back to "filled".
  Its fill bar and its outcome stay (`LimitFactsStand`), and a later tick closes it
  again; `AnticGradedByTape` and `AnticNeverContradicted` hold with one worker.
* `POST /alerts/ingest` stores any text as the delivery state: a row created "sent" or
  "failed" was neither, and one with another text is never sent. What the states tell is
  therefore said of rows created pending (`StateTellsReceived`, `FailedWasTried`).
* Two delivery passes that overlap both send what both have listed, without a crash or
  a lost answer, and the later commit may turn "sent" into "failed" or back.
  `RepeatsHaveCause` counts these messages, `DecidedStays` says what cannot happen.
* A database error in the session query of `routes/api/notifications.ts:24` answers the
  request with an error, which closes an `EventSource` for good: nothing is announced in
  that tab until it is loaded anew (`gone`). The watches were started before.
* `liquidity.ts:217-219` says a sweep can "never be un-emitted". A pool whose last swing
  is still forming may be drawn again with a later touch, and then it has another sweep or
  none yet; `SpentStaysSpent` speaks of pools that are drawn the same.
* `service.py:23-24` says a default constitution is seeded "if none exists". The check
  and the insert are separate queries: the first version a user writes in between is
  covered by the default as version 2, which is then the current one.
* `follow-watch.ts:7-13` says the watch "pushes each" fresh settlement. Its cursor is a
  closing time: a follow that settles late (its candles failed to load in an earlier
  tick, or the watch polled in the middle of a settle pass in which several follows
  close on the same bar) has a closing time the cursor has passed and is never
  announced. `CursorBehind` and `SettlementsReachOwners` say what does hold.
* `useNotificationStream.ts:54` compares a settlement's closing time with the time the
  tab connected, so a follow that closed before and settles after is listed without a
  pop-up, although `:18-20` says such events are always surfaced.
* `event-watch.ts` keeps its cursor in milliseconds and compares it with a column in
  microseconds: the last event is read again, and published again, at every poll. Thirty
  polls of one event fill the replay buffer of `notifications.ts`, whose comment
  (`:61-66`) says a transition is never silently dropped. The cursor also moves before
  the recipients are read, so an event whose recipients fail to load is lost.
* `context-watch.ts:7` announces its events in the notification stream, but
  `useNotificationStream.ts:73-78` listens to no `context-health`.
* `binance-live-feed.ts` compares the names of streams only: of two callers whose
  tickers share one stream (PEPE and 1000PEPE of the perp market) one is not served, and
  the tick of the other may outlive its interest (`Alone`).
* Its reconnect counter is reset by a change of the registry and not by a connection
  that succeeds: after five drops in the life of a page a market stays silent
  (`GaveUp`).
* `worker/config.py:3-5` says ticks never overlap, but the job timeout (600 s) is
  longer than the cron interval (300 s).
* `worker/binance.py:4-6` says a feed failure yields an empty list; `fetch_klines`
  catches HTTP errors only, and a 200 with a body that does not parse ends the tick
  (`KlinesUnparsable`).
* The kline limit stops at 1000: after a longer outage a record is walked from the
  first bar of the window, not from its opening. The properties about the tape say
  so (`Covered`).
* A pass killed between a send and its commit sends the message again on the next
  pass: one of the faults `RepeatsHaveCause` counts.
* `shadow_signal` has one open row per key, whatever its direction. A call of the other
  direction is absorbed by it, and `CallGraded` counts it as graded, as the code does.
* Callers that curate the map of points of interest drop entries by design;
  `LedgerOnlyAges` is about the map before that.
* What quiet hours hold back leaves the lookback before they end and is never sent.
* `permit_request_service.py:189` says a permit is always persisted. An account with
  fresh figures and a zero balance makes the sizing raise (`SizingRaises`), and the
  request ends without one.
* Two requests may both be approved for the last free position slot: a permit
  reserves nothing.
* The "tilt" detector compares risk percentages that are zero for every synced trade
  and never fires (`HistoryAssumption`).

## 4. Fairness

`ForwardTest!Fairness`: weak fairness of every worker's next step and of the bars.
The cron of `worker/config.py` starts a tick every five minutes, an awaiting
coroutine is resumed, and the exchange keeps closing bars. No fault is fair, and
there are finitely many of them (`MaxFaults`): with a database that is down for ever
nothing could be promised. `AlertDelivery!Fairness` is the same for the delivery
cron and for its passes. No fairness is assumed of users or writers, and `PermitDesk`
has none: nothing retries a request that fails.

`LiveFeed!Fairness`: the browser runs due timers and close events, and the exchange
keeps sending on every stream of an open socket (a mini ticker comes once a second).
Nothing makes callers come or go. `Notifications!Fairness`: the interval of the watch
fires and its query returns, an `EventSource` asks for its stream again by itself after a
loss (`Ask`), the request is answered one way or the other (`Answer`), and the tab reads
what arrives. A refused tab asks no more, and nothing makes its user load it anew.
Settling, broadcasts, losses and restarts are not fair. `WantsAreServed` and
`SettlementsReachOwners` name their excuses: `GaveUp` covers a feed whose reconnects are
used up, also when the last one succeeded, and "served" means that a tick is stored,
which may be an old one. The two
tapes have no liveness: bars close or do not.

## 5. Proofs

TLAPS checks these for every value of the constants that satisfies the named
assumptions, so for any number of workers, symbols, bars, alerts, passes, requests,
callers, tabs and faults.

| Theorem | Module | Property |
|---|---|---|
| `TypeCorrect` | `ForwardTestProofs` | `TypeOK`, and no tick holds candles of a bar that has not closed |
| `PassStaysUsable` | `RecordProofs` | `PassUsable` |
| `ShadowGraded` | `RecordProofs` | `ShadowGradedByTape` |
| `TrackedGraded` | `RecordProofs` | `TrackedGradedByTape` |
| `ShadowFinal` | `RecordProofs` | `ShadowOutcomeFinal` |
| `LimitsGraded` | `RecordProofs` | `AnticGradedByTape`, with one worker |
| `LimitFactsKept` | `RecordProofs` | `LimitFactsStand` |
| `CallsAreGraded` | `RecordProofs` | `UnharmedCallsGraded`, with one worker |
| `AlertsTyped` | `AlertDeliveryProofs` | `TypeOK` |
| `AlertsTellReceived` | `AlertDeliveryProofs` | `StateTellsReceived` |
| `AlertsTriedBeforeFailed` | `AlertDeliveryProofs` | `FailedWasTried` |
| `RepeatsAccounted` | `AlertDeliveryProofs` | `RepeatsHaveCause` |
| `DecisionsStand` | `AlertDeliveryProofs` | `DecidedStays` |
| `DeskTyped` | `PermitDeskProofs` | `TypeOK` |
| `TrailComplete` | `PermitDeskProofs` | `AuditChain` |
| `FreshApprovals` | `PermitDeskProofs` | `ApprovedOnFreshFigures` |
| `BudgetKept` | `PermitDeskProofs` | `RiskBudgetKept` |
| `NothingIsMissed` | `PermitDeskProofs` | `NothingSlips` |
| `SwingsTyped` | `SwingTapeProofs` | `TypeOK` |
| `ReplayAgrees` | `SwingTapeProofs` | `LegsReplayed` |
| `VerdictsAreFinal` | `SwingTapeProofs` | `StrengthFinal` |
| `DealingRangeHolds` | `SwingTapeProofs` | `RangeHolds` |
| `LegsHold` | `SwingTapeProofs` | every leg is a pivot, and no pivot since the last leg is beyond it |
| `HistoryStands` | `SwingTapeProofs` | `CompletedStands` |
| `SpentIsSpent` | `SwingTapeProofs` | `SpentStaysSpent` |
| `ObjectivesFormAPath` | `SwingTapeProofs` | `ObjectivesAreAPath` |
| `PoiTyped` | `PoiTapeProofs` | `TypeOK` |
| `NothingUndetected` | `PoiTapeProofs` | `DetectionsStand` |
| `LifecycleImplementsFreshness` | `PoiTapeProofs` | `ImplementsFreshness` |
| `ReplaysAgree` | `PoiTapeProofs` | `FreshnessReproduced` |
| `RankingsAgree` | `PoiTapeProofs` | `RankAgreesWithSelect` |
| `LimitsRest` | `PoiTapeProofs` | `PlanNotPassed` |
| `LedgerAges` | `PoiTapeProofs` | `LedgerOnlyAges` |
| `SocketServes` | `LiveFeedProofs` | `SocketServesRegistry` |
| `NoOrphans` | `LiveFeedProofs` | `NoOrphanTick` |
| `NothingPassed` | `NotificationsProofs` | `CursorBehind` |
| `NeverTwice` | `NotificationsProofs` | `AnnouncedOnce` |

**ForwardTest.** Assumptions: `OrderAssumption`, `BoundAssumption` and
`DataAssumption` (markets, symbols and intents are counted; bounds are naturals;
readings have their shape). `TypeInv` is `TypeOK` with `WindowsClosed`: without it a
window could name a bar the tape does not have, and a settlement could return
anything. `RecordInv` is `PassUsable`, `ShadowGradedByTape` and
`TrackedGradedByTape`. The grading properties are not inductive alone: a patch is
computed from a row listed earlier and a window fetched earlier. `PassUsable` is
what makes such a patch right: the listed row still agrees with the table in its
key, levels and opening (`SnapshotsAgree`), and the window reaches back to the
opening of every row of the group or the row is not covered (`WindowsReach`). The
lemmas `ShadowPatchGrades` and `TrackedPatchGrades` show that a patch computed
from those gives the row the outcome of the whole tape, `OutcomeStable` that bars
that close later do not change it. Then each action is one lemma, most of them
instances of "tables only grow, snapshots only shrink" (`TablesGrow`,
`SnapShrinks`). The proof covers overlapping ticks. `ShadowFinal` follows without
another invariant: the row before and after the second patch both carry the outcome of
the same tape, and there is only one (`OutcomeUnique`).

`LimitsGraded` assumes `OneWorker`, because it is false without: a tick with an older
snapshot sets a closed limit back to "filled". `LimitInv` adds to
`AnticGradedByTape` that a listed limit *is* the row of the table (`LimitsListed`, where
one worker is needed), that a row at rest has no other column set and no row two fill
bars (`LimitsShaped`), and that klines are never older than those that patched the row
before (`FetchedBefore`), so a row that is covered after a patch was covered before it.
`AnticPatchGrades` is the step from a fill to a close: the walk starts again on the fill
bar.

`LimitFactsKept` covers any number of workers. Whatever a settle pass computes from a
window that reaches back to the opening is a fact of the tape (`PatchSaysFacts`): the bar
the limit filled on, or that none of its bars touched it, and the bar and the level of
the exit. Facts of one tape agree (`FillUnique`, `CloseUnique`), also when the tape has
grown since (`LimitFactsStable`). `FactInv` says that the columns of the table and of
every listed row are such facts, and that the table has kept what a listed row says. So
a patch from the oldest snapshot repeats what stands or adds to it (`MergeFacts`).

`CallsAreGraded` assumes `OneWorker` as well: with two, a slower tick can adopt its call
and find its key open with a row of a later bar, which does not stand for the call. Its
invariant `CallInv` says that a call that is not yet graded is owed its record by the
tick that adopted it (`CallsOwed`), that every favored hold about to be committed has its
draft (`HoldsDrafted`), that the drafts of a tick are of one time and no row was opened
later (`DraftsLatest`), and that calls and rows are of the past and the window of a
settle pass reaches up to every call (`NothingAhead`).

**AlertDelivery.** Assumption: `AlertAssumption`. `Inv` adds to `TypeOK` what the
counters say of the rows (`TableInv`) and what a pass has in hand (`PassInv`): it only
holds rows that were created pending, a row it has marked sent was received, and its
attempt count was true when it was read and can only have been overtaken since. The last
is why overlapping passes, which overwrite each other's columns, still never claim too
much. `DecisionsStand` follows from `Inv`: only a commit changes a state, and it writes
the columns its pass changed, which is never a state back to pending (`CommitStates`).

`RepeatsAccounted` is a counting argument. `Open(k)` are the passes that hold alert `k`
and have not marked it sent. `Counted` bounds the messages received so far and one for
each open pass by the overlaps, the faults and the one message that needs no cause: a pass
that lists the alert pays with an overlap if another holds it and takes the one free
message otherwise, a send moves a pass from the open ones to the received, and a fault
pays for what its pass may have sent or will send again.

**PermitDesk.** Assumptions: `DeskAssumption` (requests and editors are different,
tickets have their shape, windows and bounds are naturals), `HistoryAssumption`,
`FilterAssumption` and `PositionAssumption` (the exchange's filters are naturals,
losses are integers). `Inv` is `TypeOK`, `TrailInv` and `PermitInv`.
`AuditChain` alone is not inductive: `PreviousStands` adds that what a handler
builds on is one of the rows, however many were written since it was read, and
`VersionsUnique` and `TablesFinite` that the unique constraint holds. So an insert
that does not conflict builds on the last row, and its `before` is what stood
(`TrailInsert`). `ReadingSince` relates a request half-way to the time it took:
figures it has begun to read, if not stale, are no older. The fallback to another
request's cached figures keeps it because it marks them stale (`ReadingSteps` says
this of every way to go on). `RiskBudgetKept` rests on `QuantityBudget`, the
rounding of the sized quantity.

`NothingIsMissed` follows the positions of the start of a request through its reads
(`SlipInv`, `StartKept`): until the positions are read each is open or was closed since
the request began to read (`ClosedSince`), until the income is read each is listed or was
closed since. What was closed since is within the week that the income is read for,
unless the reads of this request outlast it. Read in the other order, a position could be
neither. The service may have run for any time before.

**Recursion over data.** The views of a window are recursive functions, and the
induction theorems of the library take an operator as a parameter. Both proof modules
of the tapes therefore prove an induction over the indices `0..n` for a *set* of them
(`Induction`, from the least element of a set of naturals), and with it that each
recursion has a solution (`FoldExists`, `AnchorsExist`, `ReadExists`,
`PromotionExists`): without one a recursive function is an arbitrary value. After that
a view is known by its equation, and properties of it follow by the same induction.

**SwingTape.** Assumptions: `TapeAssumption`, `ToleranceAssumption` and, for the
objectives, `PriceAssumption` (prices are positive, as the exchange's are; the tightness
of a pool is a span divided by a price). The invariant is
`TypeOK`: legs alternate, are in time order and carry the extreme of their bar.
`StrengthFinal` follows because a leg only changes while it is the last, and what
decides a strength comes after it; `RangeHolds` because the anchor is the last strong
swing of its kind.

`ReplayAgrees`: whether a bar is a pivot is settled once K bars follow it
(`PivotStands`), so the pivots of a longer tape are those of the shorter and the newly
confirmed (`PivotsAppend`), and one more pivot is one more step of the fold over them
(`SwingsAppend`). `HistoryStands` says the same of the views: label, trend, event and
anchor of a swing depend on the swings up to it (`LabelStands`, `TrendStands`,
`EventStands`, `AnchorStands`), and the fold over the transitions changes an earlier
record only to confirm a pending hint (`TransitionKeeps`).

`SpentIsSpent` needs more than the type invariant for its sweeps. A pool whose last
swing is the last leg may be drawn again with a later touch, and the bar that swept it
must come after that touch. If it came before, the farthest of the bars in between would
be a pivot beyond the last leg (`PivotBetween`), which `Held`, proved as `LegsHold`,
rules out.

`ObjectivesFormAPath` goes along the algorithm. `BestMatch` has at most one member,
because confidences and distances are integers and the order of pools is strict
(`ListedOnce`). The invariant of the promotion, `Sofar`, says that every swing so far
has one candidate, bare or backed by a pool that is no longer available, so no pool
backs two. Each candidate is beyond the price and was not traded beyond since its last
touch, and serves its swing: it is not farther than the swing or within tolerance of it
(`Target`, `Serves`). At each price one candidate is best (`BestExists`), so nearest
first orders them, and counting what an order puts before a member ranks the members of
a finite set (`Ranks`, `Listing`). "Since its last touch" is what the code guarantees: a
pool may be touched after the swing that absorbs it, and a swing between that swing and
the pool's last touch may lie beyond the pool's line.

**PoiTape.** Assumptions: `TapeAssumption`, `AtrAssumption` and the others of `Pois`.
`LifecycleImplementsFreshness` is the refinement: `IInv` says a live read has at most
one visit and is fresh exactly when it has none, and then every bar is a step of
`ZoneFreshness` or leaves its variables alone. `NothingUndetected` shows detector by
detector that what is found depends on bars up to the one that confirms it.
`FreshnessAgrees` relates the two loops of the code bar by bar: each has its solution
over a window (`ReadExists`, `FreshExists`), and one turn of both keeps them beside each
other (`BesideTurn`). That is `ReplaysAgree`, whatever band is looked at.
It gives `RankingsAgree`: the zones that are live for `rankPois` are those not gone for
`selectPoi`, and the two orders have the same first members. It gives `LimitsRest` too,
where the selection of zones walks back over the bars (`SelectedZones`: whatever is
selected was a candidate), and the near edge of a zone that is reachable from a price is
not beyond it.
`LedgerAges` says that a closing bar takes no detection away and is one more turn
of every read, which never makes a state younger.

**LiveFeed.** Assumptions: `WantAssumption`, `BoundAssumption`. `Inv` adds to the
properties that the streams of a market are those of the registry, that every route
leads to a want of its market and stream, and that the timer runs only behind a socket
that has closed (`Subscribed`). The last is what rules out a second open socket.

**Notifications.** Assumptions: `NotificationAssumption` and, for `NeverTwice`,
`StoreAssumption` (a tab's list is not shorter than the hub's buffer; both hold 30).
`CursorBehind` is not inductive: a poll under way moves the cursor by what it read
earlier. `PollsSound` says that each poll under way has read every due follow that is
not later than all it has read. `NeverTwice` speaks of events that are emitted once. Its
invariant `Kept` numbers them by their emission: the hub's buffer holds the newest
(`HubOrder`); what a tab holds is newest first, and whatever may still reach it, on the
wire or by a replay, is newer than all it holds or is held (`TabOrder`). So an event that
a tab announced is still in its list, where a repetition is noticed, or was pushed out by
newer ones and can no longer come. With a shorter list it could.

**Only model-checked.** Liveness (`RecordsKeepUp`, `UrgentDecided`, `WantsAreServed`,
`SettlementsReachOwners`): neither its fairness nor the ENABLED in it is within the
prover's reach. `AnticNeverContradicted`, which is false with two workers and is checked
with one. The two sentences of the documentation that are found violated
(`CrashHeals`, `LiquidationBeyondStop`) are for TLC by their nature. Every other property
of the runs is a theorem, `AnticGradedByTape` and `UnharmedCallsGraded` for one worker.

## 6. Not modelled

Most lines of the repository are the user interface, read-only queries and scoring
without state: components that render, formatting, wording, statistics over external
data. They keep no state over time, so a model of them would repeat the code. The
share of the lines the models stand for is small for that reason, and because the
worker, the desk and the alerts are Python. Left out as well: the assessment of intents
(it enters as arbitrary readings), the quality score (it decides nothing), the
exchange's own rules, and the components marked `not_modelled` in `PROJECT.json`.
Database isolation is modelled as one atomic step per statement or commit, which is
what READ COMMITTED gives the single-row statements used here.

Of `Notifications`, the market poll and the event, health, context and spike watches
appear as `Broadcast`: their own cooldowns and cursors are not modelled. Of the
structure engine, the selection of zones for display is not.

## 7. Plan

Left, in this order:

1. `AlertPass` over the alerts table: the rules that read two verdicts of a symbol
   and may mix intents or markets, contained one by one; composed with
   `AlertDelivery` through `create_alerts`.
2. `PositionStream`: listen key, reconnect, poll fallback and the sockets of several
   browsers; safety that what is pushed is never older than what was pushed before,
   liveness of reconnection.
3. `ReviewSync`: windows and cursors of the trade sync, re-run after a crash;
   refinement of an abstract ledger in which every fill is counted once.
4. The event watch beside the follow watch, and the cooldowns of the market poll.
5. `RateLimiter`: the request weight of a minute under concurrent waiters.
6. `ForwardReturns` and the ingestion passes.
