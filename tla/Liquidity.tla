------------------------------ MODULE Liquidity -------------------------------
(***************************************************************************)
(* Where resting stops cluster and what price is drawn toward: pools of    *)
(* equal levels, sweeps of them by closed bars (liquidity.ts), and the     *)
(* ranked objectives of a trade direction (objectives.ts).                 *)
(***************************************************************************)
EXTENDS Swings

PoolPrice(ls, run) ==
    LET prices == {ls[i].price : i \in run}
        kind == ls[LastIndex(run)].kind
    IN  CHOOSE p \in prices : \A q \in prices : ~Beyond(kind, q, p)

\* Mutated form: only the last swing of the kind is looked at.
Intact_LastSwing(ls, run) ==
    LET kind == ls[LastIndex(run)].kind
    IN  ~Beyond(kind, ls[LastIndex({i \in 1..Len(ls) : ls[i].kind = kind})].price,
                PoolPrice(ls, run))

\* No later swing of the kind has traded beyond the line.
Intact(ls, run) ==
    LET last == LastIndex(run)
    IN  \A i \in (last + 1)..Len(ls) :
            ls[i].kind = ls[last].kind => ~Beyond(ls[i].kind, ls[i].price, PoolPrice(ls, run))

\* The confidence of a pool, 0 to 100: 0.4 touches + 0.25 tightness + 0.35 recency.
Confidence(ls, run) ==
    LET n == Cardinality(run)
        touches == IF n = 2 THEN 50 ELSE IF n = 3 THEN 85 ELSE 100
        prices == {ls[i].price : i \in run}
        span == (CHOOSE p \in prices : \A q \in prices : q <= p)
                - (CHOOSE p \in prices : \A q \in prices : p <= q)
        width == 2 * TolNum * ls[FirstIndex(run)].price
        \* tightness = tight / scale
        scale == IF TolNum = 0 THEN 1 ELSE width
        tight == IF TolNum = 0 THEN 1
                 ELSE IF span * TolDen > width THEN 0 ELSE width - span * TolDen
        den == 100 * scale * Len(ls)
        num == 40 * touches * scale * Len(ls) + 2500 * tight * Len(ls)
               + 3500 * LastIndex(run) * scale
    IN  (2 * num + den) \div (2 * den)

PoolFrom(ls, run) ==
    [kind |-> ls[LastIndex(run)].kind, price |-> PoolPrice(ls, run), members |-> run,
     intact |-> Intact(ls, run), confidence |-> Confidence(ls, run)]

ComputeLiquidityPools(ls) == {PoolFrom(ls, run) : run \in EqualLevels(ls)}

\* The order of the code's list of pools: strongest first, then the lower price,
\* then the buy side, then the earlier run.
ListedBefore(p, q) ==
    \/ p.confidence > q.confidence
    \/ /\ p.confidence = q.confidence
       /\ \/ p.price < q.price
          \/ p.price = q.price /\ p.kind = "high" /\ q.kind = "low"
          \/ /\ p.price = q.price /\ p.kind = q.kind
             /\ FirstIndex(p.members) < FirstIndex(q.members)

\* The first bar after the pool's last touch that trades through its line
\* decides: a close back on the near side is a sweep, beyond it a breakout.
SweepOf(ls, pool, bars) ==
    LET touched == ls[LastIndex(pool.members)].time
        through == {t \in (touched + 1)..Len(bars) :
                        Beyond(pool.kind, Extreme(bars[t], pool.kind), pool.price)}
    IN  IF through = {} THEN {}
        ELSE LET t == FirstIndex(through)
             IN  IF Beyond(pool.kind, bars[t].close, pool.price) THEN {}
                 ELSE {[pool |-> [kind |-> pool.kind, price |-> pool.price,
                                  members |-> pool.members],
                        time |-> t, extreme |-> Extreme(bars[t], pool.kind),
                        close |-> bars[t].close]}

DetectLiquiditySweeps(ls, bars) ==
    UNION {SweepOf(ls, PoolFrom(ls, run), bars) : run \in EqualLevels(ls)}

-----------------------------------------------------------------------------
(* Objectives: kind is the side the trade is drawn to, "high" for a long. *)

Taken(ls, i) ==
    \E j \in (i + 1)..Len(ls) :
        ls[j].kind = ls[i].kind /\ Beyond(ls[i].kind, ls[j].price, ls[i].price)

\* Mutated form: a swing already taken may be a target.
Eligible_Taken(ls, kind, from) ==
    {i \in 1..Len(ls) : ls[i].kind = kind /\ Strength(ls, i) # "strong"
                        /\ Beyond(kind, ls[i].price, from)}

Eligible(ls, kind, from) ==
    {i \in 1..Len(ls) : /\ ls[i].kind = kind
                        /\ Strength(ls, i) # "strong"
                        /\ Beyond(kind, ls[i].price, from)
                        /\ ~Taken(ls, i)}

\* The swings S, nearest first: the n-th is the one with n - 1 before it.
Nearest(ls, kind, S) ==
    LET before(i) == {j \in S : \/ Beyond(kind, ls[i].price, ls[j].price)
                               \/ (ls[i].price = ls[j].price /\ j < i)}
    IN  [n \in 1..Cardinality(S) |-> CHOOSE i \in S : Cardinality(before(i)) = n - 1]

\* A pool carries the stops of a swing: its line is at the swing or on the way to it.
Matches(kind, price, pool) ==
    \/ Abs(pool.price - price) * TolDen <= price * TolNum
    \/ Beyond(kind, price, pool.price)

\* The matching pool nearest to the swing, the one listed first on a tie, if any.
BestMatch(available, kind, price) ==
    LET matching == {p \in available : Matches(kind, price, p)}
        dist(p) == Abs(p.price - price)
    IN  {p \in matching : \A q \in matching \ {p} :
            dist(p) < dist(q) \/ (dist(p) = dist(q) /\ ListedBefore(p, q))}

\* What a swing is promoted to: the line of a pool, or its own.
Candidate(ls, i, best) ==
    IF best = {} THEN {[swing |-> i, price |-> ls[i].price, pool |-> {}]}
    ELSE {[swing |-> i, price |-> p.price, pool |-> {p.members}] : p \in best}

\* Swings nearest first, each absorbing at most one pool still available.
Promote(ls, kind, swings, pools) ==
    LET step[n \in 0..Len(swings)] ==
            IF n = 0 THEN [out |-> {}, available |-> pools]
            ELSE LET sofar == step[n - 1]
                     best == BestMatch(sofar.available, kind, ls[swings[n]].price)
                 IN  [out |-> sofar.out \cup Candidate(ls, swings[n], best),
                      available |-> sofar.available \ best]
    IN  step[Len(swings)].out

\* One candidate per price: the pool-backed one, else the earlier swing; nearest first.
ResolveObjectives(ls, kind, from) ==
    LET pools == {p \in ComputeLiquidityPools(ls) :
                     p.kind = kind /\ p.intact /\ Beyond(kind, p.price, from)}
        all == Promote(ls, kind, Nearest(ls, kind, Eligible(ls, kind, from)), pools)
        best == {c \in all : \A d \in all : d.price = c.price =>
                    \/ d = c
                    \/ (c.pool # {} /\ d.pool = {})
                    \/ ((c.pool = {}) = (d.pool = {}) /\ c.swing < d.swing)}
        before(c) == {d \in best : Beyond(kind, c.price, d.price)}
    IN  [n \in 1..Cardinality(best) |-> CHOOSE c \in best : Cardinality(before(c)) = n - 1]
=============================================================================
