--------------------------- MODULE MCTimerControl ---------------------------
(* Small instances of TimerControl. *)
EXTENDS TimerControl

\* A slow-down longer than the other steps of the instance, a slow-down of one
\* tick, and a speed-up.
MCDrifts == {-3, -1, 2}
=============================================================================
