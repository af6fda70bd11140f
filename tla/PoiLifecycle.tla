----------------------------- MODULE PoiLifecycle -----------------------------
(***************************************************************************)
(* The life of a point of interest (poi-lifecycle.ts): derivePoiLifecycle  *)
(* replays the bars after the one that formed a band.  A read is what the  *)
(* loop carries and returns; Replay is one turn of the loop.               *)
(*                                                                         *)
(* A band is [kind, low, high, gap], gap for a fair value gap that may     *)
(* invert.  Its prices are in units of 1 / Scale of the prices of bars,    *)
(* because a zone's near edge may be its base plus a fifth of an ATR.      *)
(***************************************************************************)
EXTENDS Integers, Sequences

CONSTANT AtrLength            \* bars an average true range covers (14)

ASSUME AtrAssumption == AtrLength \in Nat \ {0}

Scale == 5 * AtrLength

States == {"fresh", "tested", "mitigated", "invalidated", "consumed"}
Terminal == {"invalidated", "consumed"}

Bigger(a, b) == IF a > b THEN a ELSE b
Smaller(a, b) == IF a < b THEN a ELSE b

Through(band, bar) ==
    IF band.kind = "demand" THEN bar.close * Scale < band.low ELSE bar.close * Scale > band.high

\* Mutated form: a bar that stops at the edge does not touch.
Touching_Strict(band, bar) ==
    IF band.kind = "demand" THEN bar.low * Scale < band.high ELSE bar.high * Scale > band.low

Touching(band, bar) ==
    IF band.kind = "demand" THEN bar.low * Scale <= band.high ELSE bar.high * Scale >= band.low

\* How deep the bar reaches into the band, 0 to its height.
Depth(band, bar) ==
    LET raw == IF band.kind = "demand" THEN band.high - bar.low * Scale
               ELSE bar.high * Scale - band.low
    IN  Smaller(band.high - band.low, Bigger(0, raw))

NewRead == [state |-> "fresh", touches |-> 0, deepest |-> 0, inside |-> TRUE,
            everLeft |-> FALSE, decidedAt |-> 0]

\* Mutated form: the state is told by depth alone.
LiveState_ByDepth(band, touches, deepest) ==
    IF deepest = 0 THEN "fresh"
    ELSE IF 2 * deepest >= band.high - band.low THEN "mitigated" ELSE "tested"

LiveState(band, touches, deepest) ==
    IF touches = 0 THEN "fresh"
    ELSE IF 2 * deepest >= band.high - band.low THEN "mitigated" ELSE "tested"

\* Mutated form: the depth of the last bar.
Deeper_LastBar(band, r, bar) ==
    IF Touching(band, bar) /\ r.everLeft THEN Depth(band, bar) ELSE 0

\* Nothing counts until price has left the band once.
Deeper(band, r, bar) ==
    IF Touching(band, bar) /\ r.everLeft THEN Bigger(r.deepest, Depth(band, bar)) ELSE r.deepest

\* Bar number t, bar, meets a band whose read so far is r.
Replay(band, r, bar, t) ==
    LET touching == Touching(band, bar)
        deepest == Deeper(band, r, bar)
        touches == IF touching /\ ~r.inside THEN r.touches + 1 ELSE r.touches
        went(state, deep) == [state |-> state, touches |-> touches, deepest |-> deep,
                              inside |-> r.inside, everLeft |-> r.everLeft, decidedAt |-> t]
    IN  CASE r.state \in Terminal -> r
          [] r.state \notin Terminal /\ Through(band, bar) ->
                [went("invalidated", band.high - band.low) EXCEPT !.touches = r.touches]
          [] r.state \notin Terminal /\ ~Through(band, bar) /\ touches >= 2 ->
                went("consumed", deepest)
          [] OTHER ->
                [state |-> LiveState(band, touches, deepest), touches |-> touches,
                 deepest |-> deepest, inside |-> touching,
                 everLeft |-> r.everLeft \/ ~touching, decidedAt |-> 0]

\* Mutated form: the bar after the formation is taken as part of it.
DerivePoiLifecycle_OneLate(bars, after, band) ==
    LET upTo[t \in after..Len(bars)] ==
            IF t <= after + 1 THEN NewRead ELSE Replay(band, upTo[t - 1], bars[t], t)
    IN  upTo[Len(bars)]

\* The read of a band formed by bar number after, over all bars.
DerivePoiLifecycle(bars, after, band) ==
    LET upTo[t \in after..Len(bars)] ==
            IF t = after THEN NewRead ELSE Replay(band, upTo[t - 1], bars[t], t)
    IN  upTo[Len(bars)]

\* G6: a gap closed fully through becomes a band of the other kind.
Inverted(band, read) == band.gap /\ read.state = "invalidated"

\* zones.ts's vocabulary: the verdict of zoneFreshness that a state stands for.
Collapse(state) ==
    CASE state = "mitigated" -> "tested" [] state \in Terminal -> "gone" [] OTHER -> state
=============================================================================
