-------------------------- MODULE MCEventProcessor --------------------------
(* Small instances of EventProcessor. *)
EXTENDS EventProcessor, TLC

\* A renderer that is ahead and one that is behind by more than any delay.
MCDrifts == {-1, 3}

MCSymmetry == Permutations(Events)
=============================================================================
