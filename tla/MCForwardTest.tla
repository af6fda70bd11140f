---------------------------- MODULE MCForwardTest -----------------------------
(***************************************************************************)
(* Small instances of ForwardTest.  Prices run from 1 to 4; the long plan  *)
(* enters at 2, stops at 1 and aims at 3 and 4, so that one bar can touch  *)
(* the stop, either target, both sides, or nothing.                        *)
(***************************************************************************)
EXTENDS ForwardTest, TLC

Candle(l, h, c) == [low |-> l, high |-> h, close |-> c]
Quiet2 == Candle(2, 2, 2)
ToStop == Candle(1, 2, 1)
ToTarget2 == Candle(2, 4, 4)

QuietOrSpike == {Quiet2, ToTarget2}
TwoBars == {Quiet2, ToStop}

LongPlan == [direction |-> "long", entry |-> 2, stop |-> 1, target1 |-> 3, target2 |-> 4]
ShortPlan == [direction |-> "short", entry |-> 3, stop |-> 4, target1 |-> 2, target2 |-> 1]

Read(verdict, direction, bias, plan, limit) ==
    [verdict |-> verdict, direction |-> direction, bias |-> bias, lastClose |-> 2,
     invalidation |-> IF direction = "short" THEN 4 ELSE 1,
     combo |-> IF direction = "short" THEN "fade-range" ELSE "breakout-trend",
     plan |-> plan, limit |-> limit]

FavoredLong == Read("favored", "long", "long", Some(LongPlan), None)
FavoredShort == Read("favored", "short", "short", Some(ShortPlan), None)
Waiting == Read("wait", "long", "long", None, None)

RestLong == [direction |-> "long", entry |-> 2, stop |-> 1, objective |-> 4]

ToFill == Candle(2, 3, 3)
Above == Candle(3, 3, 3)
FillAndObjective == Candle(2, 4, 3)
LimitBars == {Above, FillAndObjective, ToStop}

FlipReads == {FavoredLong, FavoredShort, Waiting}
\* On the bars of QuietOrSpike the long of LongPlan rests or meets its second
\* target, and the short of FadePlan rests or is stopped out.
FadePlan == [direction |-> "short", entry |-> 2, stop |-> 4, target1 |-> 1, target2 |-> 1]
FadeOnly == {FadePlan}
TwoCombos == {"breakout-trend", "fade-range"}
StopOrFill == {ToFill, ToStop}
FarPlan == [LongPlan EXCEPT !.target1 = 4]
BothPlans == {Read("favored", "long", "long", Some(FarPlan), Some(RestLong))}
WorkerSymmetry == Permutations(Workers)
NoPlans == {}
OnlyFavored == {FavoredLong}
Horizon2 == [i \in Intents |-> 2]
=============================================================================
