------------------------------ MODULE MCLiveFeed -------------------------------
(***************************************************************************)
(* A small instance of LiveFeed: one spot ticker, and three perp wants of   *)
(* which two (PEPE and 1000PEPE) have one stream.                           *)
(***************************************************************************)
EXTENDS LiveFeed

AppWants == {"BTC spot", "BTC perp", "PEPE perp", "1000PEPE perp"}

Venue == [w \in AppWants |-> IF w = "BTC spot" THEN "spot" ELSE "perp"]

Name == [w \in AppWants |->
            IF w \in {"BTC spot", "BTC perp"} THEN "btcusdt" ELSE "1000pepeusdt"]
=============================================================================
