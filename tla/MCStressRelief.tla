--------------------------- MODULE MCStressRelief ---------------------------
(* Two nodes whose thresholds, minimum duration or mode are reloaded while levels *)
(* rise and fall.                                                                 *)
EXTENDS StressRelief, TLC

Monitor(a, d, m) == [mode |-> "monitor", activate |-> a, deactivate |-> d, minimum |-> m]
Reloaded == {Monitor(4, 3, 0), Monitor(4, 1, 1), [Monitor(4, 3, 0) EXCEPT !.mode = "never"]}
FirstConfig   == Monitor(4, 3, 0)
=============================================================================
