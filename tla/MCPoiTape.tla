------------------------------ MODULE MCPoiTape -------------------------------
(***************************************************************************)
(* A small instance of PoiTape: an ATR of two bars, a shelf of three bars, *)
(* then bars that depart from it, rest away from it, touch its edge, reach *)
(* through it and close beyond it.                                         *)
(***************************************************************************)
EXTENDS PoiTape

Bar(o, h, l, c) == [open |-> o, high |-> h, low |-> l, close |-> c]

Doji == Bar(22, 24, 20, 22)
Opposing == Bar(23, 24, 20, 21)
Departs == Bar(22, 31, 22, 30)
Rests == Bar(29, 31, 27, 30)
Touches == Bar(27, 28, 22, 26)
Reaches == Bar(27, 28, 20, 25)
Breaks == Bar(26, 26, 17, 18)

Shelf == [t \in 1..MaxTime |->
            IF t = 1 THEN {Doji} ELSE IF t <= 3 THEN {Doji, Opposing}
            ELSE {Departs, Rests, Touches, Reaches, Breaks}]
=============================================================================
