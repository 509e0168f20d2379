-------------------------- MODULE ControllerBridge --------------------------
(***************************************************************************)
(* The control cycle of one robot: its ControllerAttribute in GrxUI, which *)
(* decides at which steps of the simulation the controller runs, and the   *)
(* controller bridge behind it (Controller_impl and VirtualRobotRTC),      *)
(* which samples the sensors for its out-ports, ticks the connected RT     *)
(* components at their rates and keeps a clock of its own, controlTime.    *)
(*                                                                         *)
(* Three schedules are computed from three clocks that no one compares:    *)
(* doCount_ against the time of the simulation, the intervals of the ports *)
(* against controlTime, and the rates of the components against their      *)
(* timeRateCounter.  A remote call that throws leaves any of them half     *)
(* advanced, and GrxUI goes on.                                            *)
(*                                                                         *)
(* Times and rates are integers: times in a unit that divides all steps    *)
(* and intervals, rates and counters in units of 1 / RateUnit.             *)
(***************************************************************************)
EXTENDS Integers

CONSTANTS
  StepTime,        \* stepTime_ of the simulation
  ControlSteps,    \* the values the model's controlTime property may be given
  RtcCount,        \* the components with an execution context, in the order
                   \* of rtcInfoVector
  RateUnit,        \* the rate 1.0
  RateMaps,        \* the timeRateMaps: the rates the periodic-rate option lists
  Ports,           \* the out-ports of the virtual robot
  PortStep,        \* the interval of each; 0 if the option gives none
  ManagedModes,    \* whether the process of the bridge is GrxUI's own
  MaxTime,         \* bound: no step begins later than this time
  MaxSimulations,  \* bound: simulations
  MaxFailures      \* bound: ticks of a component that throw

Rtc == 1 .. RtcCount

\* The rates given to some of the components.
RateMap == UNION {[D -> 1 .. RateUnit] : D \in SUBSET Rtc}

ASSUME BridgeAssumption ==
  /\ StepTime \in Nat \ {0}
  /\ ControlSteps \subseteq {c \in Nat : c >= StepTime}
  /\ RtcCount \in Nat
  /\ RateUnit \in Nat \ {0}
  /\ RateMaps \subseteq RateMap
  /\ PortStep \in [Ports -> Nat]
  /\ ManagedModes \subseteq BOOLEAN
  /\ MaxTime \in Nat
  /\ MaxSimulations \in Nat
  /\ MaxFailures \in Nat

VARIABLES
  simTime_, doCount_,
  isOwnedByController, timeStep, controlTime,
  rtcs,             \* the components 1 .. rtcs are in rtcInfoVector
  timeRateCounter,  \* of each component
  at,               \* where the cycle stands
  next,             \* the next component of the loop of control
  timeRateMap, managed,  \* fixed in each behaviour
  simulations,      \* simulations started so far
  broken,           \* history: a call of this simulation has thrown
  reached,          \* history: how often control came to each component,
  ticks,            \* ticked it,
  failed,           \* and failed to
  samples,          \* history: how often each port was sampled
  pending           \* history: the ports sampled and not yet written

vars == <<simTime_, doCount_, isOwnedByController, timeStep, controlTime, rtcs,
          timeRateCounter, at, next, timeRateMap, managed, simulations, broken,
          reached, ticks, failed, samples, pending>>

fixed == <<timeRateMap, managed>>
setUp == <<isOwnedByController, timeStep, rtcs, simulations, fixed>>
rates == <<timeRateCounter, reached, ticks, failed>>
sampling == <<samples, pending>>

Zero == [r \in Rtc |-> 0]

\* addRtcVectorWithConnection: the rate of a component and its first counter.
Rate(r) ==
  IF DOMAIN timeRateMap = {} THEN RateUnit
  ELSE IF r \in DOMAIN timeRateMap THEN timeRateMap[r]
  ELSE 0

FirstCounter(r) ==
  IF r \in DOMAIN timeRateMap THEN RateUnit - timeRateMap[r] ELSE 0

Init ==
  /\ timeRateMap \in RateMaps
  /\ managed \in ManagedModes
  /\ simTime_ = 0 /\ doCount_ = 0
  /\ isOwnedByController = FALSE
  /\ timeStep \in ControlSteps
  /\ controlTime = 0
  /\ rtcs = 0
  /\ timeRateCounter = [r \in Rtc |-> FirstCounter(r)]
  /\ at = "idle" /\ next = 1
  /\ simulations = 0 /\ broken = FALSE
  /\ reached = Zero /\ ticks = Zero /\ failed = Zero
  /\ samples = [p \in Ports |-> 0]
  /\ pending = {}

-----------------------------------------------------------------------------
(* _setupController: setTimeStep, initialize and start of the controller.  *)

\* checkOutPortStepTime
IntervalsFit(step) == \A p \in Ports : PortStep[p] = 0 \/ PortStep[p] >= step

\* Mutant of Starts: start does not reset controlTime.
Starts_KeepsControlTime ==
  /\ simulations' = simulations + 1
  /\ simTime_' = 0 /\ doCount_' = 0
  /\ at' = "input"
  /\ broken' = FALSE
  /\ samples' = [p \in Ports |-> 0]
  /\ pending' = {}
  /\ UNCHANGED controlTime

\* ControllerAttribute.reset, Controller_impl::start, and the first step.
Starts ==
  /\ simulations' = simulations + 1
  /\ simTime_' = 0 /\ doCount_' = 0
  /\ controlTime' = 0
  /\ at' = "input"
  /\ broken' = FALSE
  /\ samples' = [p \in Ports |-> 0]
  /\ pending' = {}

SettingUp ==
  /\ at = "idle"
  /\ simulations < MaxSimulations
  /\ timeStep' \in ControlSteps

\* A bridge that is owned already is taken as it is, with a new time step.
SetUpAgain ==
  /\ SettingUp
  /\ isOwnedByController
  /\ Starts
  /\ UNCHANGED <<isOwnedByController, rtcs, next, fixed, rates>>

\* Mutant of Detects: a component found on two ways is added twice.
Detects_Twice == rtcs' = 2 * RtcCount

\* detectRtcs finds every component.
Detects == rtcs' = RtcCount

\* The first initialize: the intervals are checked, the components detected
\* and connected.
SetUpFirst ==
  /\ SettingUp
  /\ ~isOwnedByController
  /\ IntervalsFit(timeStep')
  /\ isOwnedByController' = TRUE
  /\ Detects
  /\ Starts
  /\ UNCHANGED <<next, fixed, rates>>

\* initialize throws a ControllerException: an interval is too short, or a
\* component or a port is missing.  GrxUI stops the process if it is its own;
\* otherwise the bridge stays owned, whatever had been done so far.
SetUpRefused ==
  /\ SettingUp
  /\ ~isOwnedByController
  /\ isOwnedByController' = ~managed
  /\ IF managed \/ ~IntervalsFit(timeStep')
     THEN UNCHANGED rtcs
     ELSE rtcs' \in 0 .. RtcCount
  /\ UNCHANGED <<simTime_, doCount_, controlTime, at, next, simulations,
                 broken, fixed, rates, sampling>>

\* The name of a component is not found: the exception that leaves initialize
\* is not declared, and _setupController tries again with the owned bridge.
SetUpInterrupted ==
  /\ SettingUp
  /\ ~isOwnedByController
  /\ IntervalsFit(timeStep')
  /\ isOwnedByController' = TRUE
  /\ rtcs' \in 0 .. RtcCount
  /\ UNCHANGED <<simTime_, doCount_, controlTime, at, next, simulations,
                 broken, fixed, rates, sampling>>

\* The process of the bridge ends and is started again: all is new.
Relaunch ==
  /\ at = "idle"
  /\ managed
  /\ isOwnedByController
  /\ isOwnedByController' = FALSE
  /\ rtcs' = 0
  /\ timeRateCounter' = [r \in Rtc |-> FirstCounter(r)]
  /\ reached' = Zero /\ ticks' = Zero /\ failed' = Zero
  /\ UNCHANGED <<simTime_, doCount_, timeStep, controlTime, at, next,
                 simulations, broken, fixed, sampling>>

-----------------------------------------------------------------------------
(* simulateOneStep: input, the advance of the time, control, output.       *)

\* Mutant of DoNow: a strict comparison.
DoNow_Strict == doCount_ * timeStep < simTime_

\* ControllerAttribute.input: doCount_ <= time / stepTime_
DoNow == doCount_ * timeStep <= simTime_

\* Mutant of SampleNow: the half step is left out.
SampleNow_NotRounded(p, time) ==
  \/ PortStep[p] = 0
  \/ time % PortStep[p] < timeStep

\* VirtualRobotRTC: is the port due at this control time?  In halves of the
\* unit, w = 2 * (time % interval) + timeStep, and 0 when it reaches 2 * interval.
SampleNow(p, time) ==
  \/ PortStep[p] = 0
  \/ LET w == 2 * (time % PortStep[p]) + timeStep IN
     (IF w >= 2 * PortStep[p] THEN 0 ELSE w) < 2 * timeStep

DuePorts == {p \in Ports : SampleNow(p, controlTime)}

\* A step of the simulation that this controller is not due in.
StepWithout ==
  /\ at = "input"
  /\ simTime_ <= MaxTime
  /\ ~DoNow
  /\ simTime_' = simTime_ + StepTime
  /\ UNCHANGED <<doCount_, controlTime, at, next, broken, setUp, rates,
                 sampling>>

Samples(done) ==
  /\ samples' = [p \in Ports |-> samples[p] + (IF p \in done THEN 1 ELSE 0)]
  /\ pending' = pending \cup done

\* input() of the controller; it may throw after some of the ports.  The flag
\* and the count are set before, and control() comes next in any case.
Input ==
  /\ at = "input"
  /\ simTime_ <= MaxTime
  /\ DoNow
  /\ doCount_' = doCount_ + 1
  /\ \/ Samples(DuePorts) /\ UNCHANGED broken
     \/ \E done \in SUBSET DuePorts :
          done # DuePorts /\ Samples(done) /\ broken' = TRUE
  /\ simTime_' = simTime_ + StepTime
  /\ at' = "control"
  /\ UNCHANGED <<controlTime, next, setUp, rates>>

\* Mutant of Write: the clock of the bridge is taken to be ahead.
Write_Ahead ==
  /\ at = "control"
  /\ pending' = pending \ {p \in Ports : SampleNow(p, controlTime + timeStep)}
  /\ at' = "tick" /\ next' = 1
  /\ UNCHANGED <<simTime_, doCount_, controlTime, broken, setUp, rates, samples>>

\* control(): writeDataToOutPorts
Write ==
  /\ at = "control"
  /\ pending' = pending \ DuePorts
  /\ at' = "tick" /\ next' = 1
  /\ UNCHANGED <<simTime_, doCount_, controlTime, broken, setUp, rates, samples>>

\* Mutant of TickNow: half of the rate is not added.
TickNow_NotRounded(counter, rate) == counter > RateUnit

\* counter + rate / 2.0 > 1.0
TickNow(counter, rate) == 2 * counter + rate > 2 * RateUnit

\* The loop of control() comes to the next component.
Reach(counter) ==
  /\ at = "tick"
  /\ next <= rtcs
  /\ reached' = [reached EXCEPT ![next] = @ + 1]
  /\ timeRateCounter' = [timeRateCounter EXCEPT ![next] = counter]

Counter == timeRateCounter[next] + Rate(next)

\* A component that is not due.
PassOver ==
  /\ Reach(Counter)
  /\ ~TickNow(Counter, Rate(next))
  /\ next' = next + 1
  /\ UNCHANGED <<simTime_, doCount_, controlTime, at, broken, setUp, ticks,
                 failed, sampling>>

Tick ==
  /\ Reach(Counter - RateUnit)
  /\ TickNow(Counter, Rate(next))
  /\ ticks' = [ticks EXCEPT ![next] = @ + 1]
  /\ next' = next + 1
  /\ UNCHANGED <<simTime_, doCount_, controlTime, at, broken, setUp, failed,
                 sampling>>

\* tick() throws out of control(): the counter has been increased, the rest of
\* the components are not reached and controlTime is not advanced.
TickFails ==
  /\ Reach(Counter)
  /\ TickNow(Counter, Rate(next))
  /\ failed[next] < MaxFailures
  /\ failed' = [failed EXCEPT ![next] = @ + 1]
  /\ broken' = TRUE
  /\ at' = "output"
  /\ UNCHANGED <<simTime_, doCount_, controlTime, next, setUp, ticks, sampling>>

\* control() ends with the advance of controlTime.
EndControl ==
  /\ at = "tick"
  /\ next > rtcs
  /\ controlTime' = controlTime + timeStep
  /\ at' = "output"
  /\ UNCHANGED <<simTime_, doCount_, next, broken, setUp, rates, sampling>>

\* output(); what it throws is swallowed.
Output ==
  /\ at = "output"
  /\ at' = "input"
  /\ UNCHANGED <<simTime_, doCount_, controlTime, next, broken, setUp, rates,
                 sampling>>

\* The simulation ends before a step, or by an exception of the dynamics
\* server between control and output.
EndOfSimulation ==
  /\ at \in {"input", "output"}
  /\ at' = "idle"
  /\ UNCHANGED <<simTime_, doCount_, controlTime, next, broken, setUp, rates,
                 sampling>>

SetUp ==
  \/ SetUpAgain \/ SetUpFirst \/ SetUpRefused \/ SetUpInterrupted \/ Relaunch

Cycle ==
  \/ StepWithout \/ Input \/ Write \/ PassOver \/ Tick \/ TickFails
  \/ EndControl \/ Output

Next == SetUp \/ Cycle \/ EndOfSimulation

Spec == Init /\ [][Next]_vars

-----------------------------------------------------------------------------
(* Properties.                                                             *)

\* The one type invariant.
TypeOK ==
  /\ timeRateMap \in RateMap
  /\ managed \in BOOLEAN
  /\ simTime_ \in Nat
  /\ doCount_ \in Nat
  /\ isOwnedByController \in BOOLEAN
  /\ timeStep \in ControlSteps
  /\ controlTime \in Nat
  /\ rtcs \in 0 .. RtcCount
  /\ timeRateCounter \in [Rtc -> Int]
  /\ at \in {"idle", "input", "control", "tick", "output"}
  /\ next \in 1 .. RtcCount + 1
  /\ simulations \in Nat
  /\ broken \in BOOLEAN
  /\ reached \in [Rtc -> Nat]
  /\ ticks \in [Rtc -> Nat]
  /\ failed \in [Rtc -> Nat]
  /\ samples \in [Ports -> Nat]
  /\ pending \subseteq Ports

\* A controller has run once for each multiple of its period up to the last step
\* of the simulation, whatever has failed: the test on doCount_ (line 498)
\* neither drifts nor catches up in bursts when the step does not divide the
\* period.
ControlExact ==
  at = "input" =>
    /\ simTime_ < doCount_ * timeStep + StepTime
    /\ doCount_ * timeStep + StepTime <= simTime_ + timeStep

\* The clock of the bridge keeps up with the clock of the simulation, which it
\* never sees: unless a call has thrown, it is behind by less than a step of the
\* simulation and ahead by less than a control step.
ClocksAgree ==
  at = "input" /\ ~broken =>
    /\ simTime_ < controlTime + StepTime
    /\ controlTime < simTime_ + timeStep

\* The ticks of a component follow its rate r: after n control cycles that came
\* to it, (n - 1/2) * r rounded up.  It holds over simulations that follow one
\* another, and a tick that failed is made up later: at most as many are
\* missing as have failed.
RateExact ==
  \A c \in Rtc :
    reached[c] > 0 =>
      LET due == (2 * reached[c] - 1) * Rate(c) IN
      /\ due <= 2 * RateUnit * (ticks[c] + failed[c])
      /\ 2 * RateUnit * ticks[c] < due + 2 * RateUnit

\* A port is sampled at the control time nearest to each multiple of its
\* interval, once for each, when the interval is not shorter than the control
\* step and no call has thrown.
SampledOnce ==
  at = "input" /\ ~broken /\ doCount_ > 0 /\ IntervalsFit(timeStep) =>
    LET last == (doCount_ - 1) * timeStep IN
    \A p \in Ports :
      samples[p] = IF PortStep[p] = 0 THEN doCount_
                   ELSE (2 * last + timeStep) \div (2 * PortStep[p]) + 1

\* What input sampled is written by the control that follows, although each of
\* them tests the schedule of the port for itself.
SamplesPassedOn == at = "tick" => pending = {}

\* The message of checkOutPortStepTime: the interval of an out-port "must be
\* longer than the control interval", or initialize fails.
IntervalsRespected == at # "idle" => IntervalsFit(timeStep)
=============================================================================
