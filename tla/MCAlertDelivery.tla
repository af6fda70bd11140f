--------------------------- MODULE MCAlertDelivery ---------------------------
(***************************************************************************)
(* Small instances of AlertDelivery.  Days of four hours; the quiet hours  *)
(* of every instance cross midnight.                                       *)
(***************************************************************************)
EXTENDS AlertDelivery, TLC

CONSTANTS a1, a2

OneCritical == (a1 :> "critical")
CriticalAndInfo == (a1 :> "critical" @@ a2 :> "info")
JobSymmetry == Permutations(Passes) \cup Permutations(Writers)
=============================================================================
