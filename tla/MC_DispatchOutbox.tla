-------------------------- MODULE MC_DispatchOutbox --------------------------
(* Two dispatchers with the same attempt limit: rows share only the        *)
(* dispatchers, so one row and two rivals for it show every conflict.      *)
EXTENDS DispatchOutbox, TLC

CONSTANTS d1, d2

EqualLimits == (d1 :> 2) @@ (d2 :> 2)

=============================================================================
