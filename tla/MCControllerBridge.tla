------------------------- MODULE MCControllerBridge -------------------------
(* A finite instance of ControllerBridge.                                  *)
EXTENDS ControllerBridge, TLC

\* No periodic-rate option; both components listed; only the second one.
SomeRateMaps == {<<>>, 1 :> 3 @@ 2 :> 1, 2 :> 4}

\* A port without an interval, one with an interval that is no multiple of the
\* control steps.
SomePortSteps == "always" :> 0 @@ "interval" :> 5
=============================================================================
