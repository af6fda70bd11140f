------------------------------ MODULE RiskEngine ------------------------------
(***************************************************************************)
(* What decides a trade permit, without I/O: the position sizing of        *)
(* backend/app/execution/sizing.py and the checks of risk_engine.py.       *)
(*                                                                         *)
(* The code computes with exact decimals; the model computes with integers *)
(* and multiplies quotients out.  Prices are whole numbers of a unit finer *)
(* than the tick, quantities are whole numbers of lot steps, and one lot   *)
(* step at a price of one unit is one unit of money.  Risk and the         *)
(* maintenance margin rate are per mille, the limits per cent, the reward  *)
(* ratio tenths.                                                           *)
(***************************************************************************)
EXTENDS Integers, FiniteSetsExt

CONSTANTS
    TickSize,       \* PRICE_FILTER tickSize, in price units
    MinQty,         \* LOT_SIZE minQty, in lot steps
    MinNotional,    \* MIN_NOTIONAL, in money
    Positions,      \* positions the user may hold
    Bucket,         \* SECTOR_BUCKETS: the correlation bucket of a position
    Notional,       \* its value at mark price
    Loss            \* what closing it loses

ASSUME FilterAssumption ==
    /\ TickSize \in Nat \ {0}
    /\ MinQty \in Nat
    /\ MinNotional \in Nat

ASSUME PositionAssumption ==
    /\ Notional \in [Positions -> Nat]
    /\ Loss \in [Positions -> Int]
    /\ IsFiniteSet(Positions)

None == {}
Some(x) == {x}

Sides == {"long", "short"}

\* PermitRequest: positive prices, a risk and a leverage in range.
TicketShape(Symbols, Buckets) ==
    [symbol : Symbols, side : Sides, entry : Nat \ {0}, stop : Nat \ {0},
     target : SUBSET Int, risk : Nat, leverage : Nat \ {0}, bucket : Buckets]

MaintenanceMarginRate == 5      \* DEFAULT_MAINTENANCE_MARGIN_RATE
LiqStopBuffer == 20             \* LIQ_STOP_BUFFER
RiskMin == 5                    \* RISK_PER_TRADE_MIN_PERCENT
RiskMax == 30                   \* RISK_PER_TRADE_MAX_PERCENT

-----------------------------------------------------------------------------
(* size_position.                                                          *)

Distance(t) == IF t.entry > t.stop THEN t.entry - t.stop ELSE t.stop - t.entry

\* The stop is on the side the position loses on.
StopProtects(t) == IF t.side = "long" THEN t.stop < t.entry ELSE t.stop > t.entry

OnTick(price) == price % TickSize = 0

\* Mutated form: rounded up to a whole step.
Quantity_RoundedUp(t, balance) == (balance * t.risk) \div (1000 * Distance(t)) + 1

\* The risk amount over the stop distance, rounded down to a whole step.
Quantity(t, balance) == (balance * t.risk) \div (1000 * Distance(t))

\* The estimate entry * (1 -/+ (1/leverage - rate)), times 1000 * leverage.
LiquidationPrice(t) ==
    LET away == 1000 - MaintenanceMarginRate * t.leverage
    IN  IF t.side = "long" THEN t.entry * (1000 * t.leverage - away)
                           ELSE t.entry * (1000 * t.leverage + away)

\* A quantity is derived from a stop that protects and prices on the tick.
Sizable(t) == StopProtects(t) /\ OnTick(t.entry) /\ OnTick(t.stop)

\* A ticket that cannot be sized, or only below the exchange's minimums, is
\* flagged and has no liquidation price.
SizePosition(t, balance) ==
    LET quantity == IF Sizable(t) THEN Quantity(t, balance) ELSE 0
        notional == quantity * t.entry
        approved == quantity > 0 /\ quantity >= MinQty /\ notional >= MinNotional
    IN  [quantity    |-> quantity,
         notional    |-> notional,
         approved    |-> approved,
         liquidation |-> IF approved /\ t.leverage > 1 THEN Some(LiquidationPrice(t))
                                                       ELSE None]

\* Sizing is skipped for a stale account.
NotSized == [quantity |-> 0, notional |-> 0, approved |-> FALSE, liquidation |-> None]

-----------------------------------------------------------------------------
(* evaluate_permit: every check on its own, the failing ones are the       *)
(* reasons.  STOP_MISSING is left out: a ticket without a stop is refused  *)
(* before it is judged (PermitRequest.stop_price).                         *)

Total(Amount, positions) == MapThenSumSet(LAMBDA p : Amount[p], positions)

RiskPctInBand(t, rules) ==
    RiskMin <= t.risk /\ t.risk <= RiskMax /\ t.risk <= rules.riskPerTrade

\* Percentages of the balance are zero when there is no balance.
LossLimitKept(positions, balance, limit) ==
    ~ (limit > 0 /\ balance > 0 /\ 100 * Total(Loss, positions) >= limit * balance)

ExposureKept(t, sizing, account, rules) ==
    LET current == Total(Notional, {p \in account.open : Bucket[p] = t.bucket})
    IN  account.balance > 0 =>
            100 * (current + sizing.notional) <= rules.maxExposure * account.balance

Reward(t, target) == IF t.side = "long" THEN target - t.entry ELSE t.entry - target

RewardMeetsMin(t, rules) ==
    \E target \in t.target :
        /\ StopProtects(t)
        /\ Reward(t, target) > 0
        /\ 10 * Reward(t, target) >= rules.minReward * Distance(t)

\* How far the liquidation lies beyond the stop, times 1000 * leverage.
GapBeyondStop(t, liquidation) ==
    IF t.side = "long" THEN 1000 * t.leverage * t.stop - liquidation
                       ELSE liquidation - 1000 * t.leverage * t.stop

StopFiresFirst(t, liquidation) ==
    100 * GapBeyondStop(t, liquidation) >= LiqStopBuffer * 1000 * t.leverage * Distance(t)

\* No estimate, no comparison.
LiquidationOutsideStop(t, sizing) ==
    Distance(t) > 0 => \A liquidation \in sizing.liquidation : StopFiresFirst(t, liquidation)

Checks(t, sizing, account, rules, session) ==
    [RISK_PCT_OUT_OF_BAND     |-> RiskPctInBand(t, rules),
     DAILY_LOSS_LIMIT         |-> LossLimitKept(account.day, account.balance, rules.dailyLimit),
     WEEKLY_LOSS_LIMIT        |-> LossLimitKept(account.week, account.balance, rules.weeklyLimit),
     MAX_LEVERAGE             |-> t.leverage <= rules.maxLeverage,
     MAX_CONCURRENT_POSITIONS |-> Cardinality(account.open) < rules.maxPositions,
     MAX_CORRELATED_EXPOSURE  |-> ExposureKept(t, sizing, account, rules),
     RR_BELOW_MIN             |-> RewardMeetsMin(t, rules),
     LIQUIDATION_INSIDE_STOP  |-> LiquidationOutsideStop(t, sizing),
     SYMBOL_NOT_ALLOWED       |-> rules.symbols = {} \/ t.symbol \in rules.symbols,
     SESSION_NOT_ALLOWED      |-> rules.sessions = {} \/ session \in rules.sessions,
     STALE_ACCOUNT_STATE      |-> ~ account.stale,
     BINDING_COOLDOWN_ACTIVE  |-> account.flags \cap rules.binding = {}]

PermitCheck == {
    "RISK_PCT_OUT_OF_BAND", "DAILY_LOSS_LIMIT", "WEEKLY_LOSS_LIMIT", "MAX_LEVERAGE",
    "MAX_CONCURRENT_POSITIONS", "MAX_CORRELATED_EXPOSURE", "RR_BELOW_MIN",
    "LIQUIDATION_INSIDE_STOP", "SYMBOL_NOT_ALLOWED", "SESSION_NOT_ALLOWED",
    "STALE_ACCOUNT_STATE", "BINDING_COOLDOWN_ACTIVE"}

\* Approved iff no check fails.
EvaluatePermit(t, sizing, account, rules, session) ==
    LET passed == Checks(t, sizing, account, rules, session)
    IN  {check \in PermitCheck : ~ passed[check]}
=============================================================================
