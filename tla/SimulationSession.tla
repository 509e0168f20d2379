------------------------- MODULE SimulationSession -------------------------
(***************************************************************************)
(* What GrxSimulationItem promises to the rest of GrxUI: simulations are   *)
(* sessions that follow one another.  A session is opened with the         *)
(* controllers running and the clock at zero, only an open session         *)
(* advances the clock, closing it stops the controllers, and every session *)
(* is closed in the end.  SimulationLoop.tla, with its threads, timers and *)
(* monitors, is shown to implement this specification.                     *)
(***************************************************************************)
EXTENDS Naturals

VARIABLES
  open,         \* a session has been started and endOfSimulation not reached
  controllers,  \* the controllers have been started and not deactivated
  clock         \* the simulated time, in steps

vars == <<open, controllers, clock>>

TypeOK ==
  /\ open \in BOOLEAN
  /\ controllers \in BOOLEAN
  /\ clock \in Nat

Init ==
  /\ open = FALSE
  /\ controllers = FALSE
  /\ clock = 0

\* startSimulation succeeds.
Open ==
  /\ ~open
  /\ open' = TRUE
  /\ controllers' = TRUE
  /\ clock' = 0

\* startSimulation gives up after some of the controllers were started.
AbortOpen ==
  /\ ~open
  /\ controllers' = TRUE
  /\ UNCHANGED <<open, clock>>

\* One simulated step.
Tick ==
  /\ open
  /\ controllers
  /\ clock' = clock + 1
  /\ UNCHANGED <<open, controllers>>

\* endOfSimulation.
Close ==
  /\ open
  /\ open' = FALSE
  /\ controllers' = FALSE
  /\ UNCHANGED clock

Next == Open \/ AbortOpen \/ Tick \/ Close

Safety == Init /\ [][Next]_vars

Spec == Safety /\ WF_vars(Close)
=============================================================================
