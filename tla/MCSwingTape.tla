----------------------------- MODULE MCSwingTape ------------------------------
(***************************************************************************)
(* A small instance of SwingTape: one bar on each side of a pivot, levels  *)
(* within one tenth of their anchor are equal.  Prices go up and down, so  *)
(* that nearly every bar confirms a leg and trends form and reverse.       *)
(***************************************************************************)
EXTENDS SwingTape

Bar(l, h, c) == [low |-> l, high |-> h, close |-> c]
Lower == {Bar(9, 11, 10), Bar(10, 11, 11), Bar(11, 12, 11)}
Upper == {Bar(11, 12, 12), Bar(12, 13, 12), Bar(12, 14, 14)}
ZigZag == [t \in 1..MaxTime |-> IF t % 2 = 1 THEN Lower ELSE Upper]
=============================================================================
