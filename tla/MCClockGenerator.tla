-------------------------- MODULE MCClockGenerator --------------------------
(* Finite instances of ClockGenerator.                                     *)
EXTENDS ClockGenerator, TLC

CONSTANTS e1, e2

\* One EC that some steps pass over, and one whose period is shorter than the
\* step.
MixedPeriods == e1 :> 5 @@ e2 :> 1
=============================================================================
