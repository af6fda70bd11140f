----------------------------- MODULE MCPermitDesk -----------------------------
(***************************************************************************)
(* Small instances of PermitDesk: a wallet of 1000, ticks of two price     *)
(* units, and positions whose losses reach the limits.                     *)
(***************************************************************************)
EXTENDS PermitDesk, TLC

CONSTANTS p1

OneBucket == (p1 :> "btc")
OneNotional == (p1 :> 300)
WholeWallet == (p1 :> 1000)
Revenge == {{"revenge"}}

Ask(side, entry, stop, target, leverage) ==
    [symbol |-> "btc", side |-> side, entry |-> entry, stop |-> stop,
     target |-> Some(target), risk |-> 10, leverage |-> leverage, bucket |-> "btc"]

SafeLong == Ask("long", 100, 96, 110, 10)
OffTickShort == Ask("short", 101, 105, 91, 125)

OneTicket == {SafeLong}
TwoTickets == {SafeLong, OffTickShort}

Seeded ==
    [riskPerTrade |-> 10, dailyLimit |-> 3, weeklyLimit |-> 8, maxLeverage |-> 125,
     maxPositions |-> 3, maxExposure |-> 40, minReward |-> 15,
     sessions |-> {"asia", "london", "new_york"}, symbols |-> {}, binding |-> {}]

Strict == [Seeded EXCEPT !.maxLeverage = 5, !.binding = {"revenge"}, !.symbols = {"btc"}]
OnlyStrict == {Strict}

AlwaysLondon == [t \in 0 .. MaxTime |-> "london"]
WriterSymmetry == Permutations(Requests)
=============================================================================
