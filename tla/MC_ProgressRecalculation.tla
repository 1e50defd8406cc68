---------------------- MODULE MC_ProgressRecalculation ----------------------
(* Small instances of ProgressRecalculation for TLC. *)
EXTENDS ProgressRecalculation

CONSTANTS w1, w2

TwoWorkers == {w1, w2}

=============================================================================
