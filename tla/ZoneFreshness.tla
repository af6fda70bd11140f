---------------------------- MODULE ZoneFreshness -----------------------------
(***************************************************************************)
(* What a zone promises while bars close: it is fresh until price comes    *)
(* back, tested after one visit, and gone after a second one or a close    *)
(* beyond its far edge (zoneFreshness of zones.ts).  PoiLifecycle          *)
(* implements it in more detail.                                           *)
(*                                                                         *)
(* Prices of a zone are in units of 1 / Scale of the prices of bars.       *)
(***************************************************************************)
EXTENDS Integers, Sequences

CONSTANTS Bars, Scale

VARIABLES
    tape,         \* the closed bars
    zone,         \* {} or {the zone watched}
    freshness,    \* of the zone
    inside        \* the last bar touched it

vars == <<tape, zone, freshness, inside>>

Through(z, bar) ==
    IF z.kind = "demand" THEN bar.close * Scale < z.low ELSE bar.close * Scale > z.high

Touching(z, bar) ==
    IF z.kind = "demand" THEN bar.low * Scale <= z.high ELSE bar.high * Scale >= z.low

Init == tape = <<>> /\ zone = {} /\ freshness = "fresh" /\ inside = TRUE

\* The bar that confirms a zone is part of forming it.
Form ==
    /\ zone = {}
    /\ \E z \in zone' : zone' = {z}
    /\ UNCHANGED <<freshness, inside>>

Visit(z, bar) == Touching(z, bar) /\ ~inside

CloseOn(z, bar) ==
    /\ freshness' = IF freshness = "gone" \/ Through(z, bar) THEN "gone"
                    ELSE IF ~Visit(z, bar) THEN freshness
                    ELSE IF freshness = "fresh" THEN "tested" ELSE "gone"
    /\ inside' = IF freshness' = "gone" THEN inside ELSE Touching(z, bar)
    /\ UNCHANGED zone

CloseBar ==
    \E bar \in Bars :
        /\ tape' = Append(tape, bar)
        /\ \/ zone = {} /\ UNCHANGED <<zone, freshness, inside>>
           \/ Form
           \/ \E z \in zone : CloseOn(z, bar)

Spec == Init /\ [][CloseBar]_vars
=============================================================================
