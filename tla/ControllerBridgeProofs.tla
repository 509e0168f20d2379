----------------------- MODULE ControllerBridgeProofs -----------------------
(***************************************************************************)
(* Theorems about ControllerBridge for all values of its constants.        *)
(***************************************************************************)
EXTENDS ControllerBridge, TLAPS

USE BridgeAssumption

-----------------------------------------------------------------------------
(* The schedules as arithmetic of integers.                                *)

\* A product grows by one factor when the other grows by one.
LEMMA OneMore ==
  \A n, r \in Int : (n + 1) * r = n * r + r /\ n * r \in Int
  OBVIOUS

\* Two controls in a row are one control period apart: if the n-th was due by
\* the time s and not late by a step, so is the next one.
LEMMA NextControl ==
  ASSUME NEW n \in Nat, NEW c \in Nat, NEW s \in Nat, NEW step \in Nat,
         step <= c, n * c <= s, s < n * c + step
  PROVE  /\ s + step < (n + 1) * c + step
         /\ (n + 1) * c + step <= (s + step) + c
  <1>1. n * c \in Int /\ (n + 1) * c = n * c + c
    BY OneMore
  <1> HIDE DEF BridgeAssumption
  <1> DEFINE nc == n * c
             mc == (n + 1) * c
  <1>2. nc \in Int /\ mc = nc + c /\ nc <= s /\ s < nc + step
    BY <1>1
  <1> HIDE DEF nc, mc
  <1>3. s + step < mc + step /\ mc + step <= (s + step) + c
    BY <1>2
  <1> QED BY <1>3 DEF mc

\* What the counter of a component says of its ticks: d is the unit, n the
\* cycles that came to it, t its ticks and f its failures.
LEMMA CounterMeansTicks ==
  ASSUME NEW d \in Nat, NEW r \in Nat, NEW n \in Nat, NEW t \in Nat,
         NEW f \in Nat, NEW counter \in Int,
         counter = d - r + n * r - t * d,
         -r < 2 * counter,
         2 * counter <= 2 * d - r + 2 * d * f
  PROVE  /\ (2 * n - 1) * r <= 2 * d * (t + f)
         /\ 2 * d * t < (2 * n - 1) * r + 2 * d
  <1> DEFINE nr == n * r
             td == t * d
             df == d * f
  <1>1. nr \in Int /\ td \in Int /\ df \in Int
    OBVIOUS
  <1>2. (2 * n - 1) * r = 2 * nr - r
    OBVIOUS
  <1>3. 2 * d * (t + f) = 2 * td + 2 * df
    OBVIOUS
  <1>4. 2 * d * t = 2 * td /\ 2 * d * f = 2 * df
    OBVIOUS
  <1>5. counter = d - r + nr - td
    OBVIOUS
  <1>6. 2 * counter <= 2 * d - r + 2 * df
    BY <1>4
  <1> HIDE DEF nr, td, df
  <1>7. 2 * nr - r <= 2 * td + 2 * df /\ 2 * td < 2 * nr - r + 2 * d
    BY <1>1, <1>5, <1>6
  <1> QED BY <1>2, <1>3, <1>4, <1>7

-----------------------------------------------------------------------------
(* Type correctness.                                                       *)

\* A rate lies between 0 and the unit.
LEMMA RateType ==
  ASSUME timeRateMap \in RateMap, NEW c \in Rtc
  PROVE  /\ Rate(c) \in 0 .. RateUnit
         /\ FirstCounter(c) = IF Rate(c) = 0 THEN 0 ELSE RateUnit - Rate(c)
         /\ FirstCounter(c) \in Int
  <1> PICK D \in SUBSET Rtc : timeRateMap \in [D -> 1 .. RateUnit]
    BY DEF RateMap
  <1>1. CASE c \in DOMAIN timeRateMap
    BY <1>1 DEF Rate, FirstCounter
  <1>2. CASE c \notin DOMAIN timeRateMap
    BY <1>2 DEF Rate, FirstCounter
  <1> QED BY <1>1, <1>2

\* The first state is of the type.
LEMMA InitType == Init => TypeOK
  <1> SUFFICES ASSUME Init PROVE TypeOK
    OBVIOUS
  <1>1. timeRateMap \in RateMap
    BY DEF Init
  <1>2. timeRateCounter \in [Rtc -> Int]
    BY <1>1, RateType DEF Init
  <1>3. Zero \in [Rtc -> Nat]
    BY DEF Zero
  <1>4. samples \in [Ports -> Nat] /\ timeStep \in ControlSteps
    BY DEF Init
  <1>5. next \in 1 .. RtcCount + 1 /\ rtcs \in 0 .. RtcCount
    BY DEF Init
  <1> QED BY <1>1, <1>2, <1>3, <1>4, <1>5 DEF Init, TypeOK

\* The first state of a simulation is of the type.
LEMMA StartsType ==
  ASSUME TypeOK, Starts
  PROVE  /\ simTime_' \in Nat /\ doCount_' \in Nat /\ controlTime' \in Nat
         /\ simulations' \in Nat
         /\ broken' \in BOOLEAN
         /\ at' = "input"
         /\ samples' \in [Ports -> Nat]
         /\ pending' \subseteq Ports
  <1>1. samples' \in [Ports -> Nat]
    BY DEF Starts
  <1>2. broken' \in BOOLEAN
    BY Zenon DEF Starts
  <1>3. simulations' \in Nat
    BY DEF Starts, TypeOK
  <1> QED BY <1>1, <1>2, <1>3 DEF Starts

\* Setting a controller up keeps the type, whether it succeeds or not.
LEMMA SetUpType == TypeOK /\ SetUp => TypeOK'
  <1> SUFFICES ASSUME TypeOK, SetUp PROVE TypeOK'
    OBVIOUS
  <1> USE DEF TypeOK, fixed, rates, sampling
  <1>1. CASE SetUpAgain BY <1>1, StartsType DEF SetUpAgain, SettingUp
  <1>2. CASE SetUpFirst BY <1>2, StartsType DEF SetUpFirst, SettingUp, Detects
  <1>3. CASE SetUpRefused BY <1>3 DEF SetUpRefused, SettingUp
  <1>4. CASE SetUpInterrupted BY <1>4 DEF SetUpInterrupted, SettingUp
  <1>5. CASE Relaunch
    <2>1. timeRateCounter' \in [Rtc -> Int]
      BY <1>5, RateType DEF Relaunch
    <2>2. Zero \in [Rtc -> Nat]
      BY DEF Zero
    <2>3. rtcs' \in 0 .. RtcCount
      BY <1>5 DEF Relaunch
    <2> QED BY <1>5, <2>1, <2>2, <2>3 DEF Relaunch
  <1> QED BY <1>1, <1>2, <1>3, <1>4, <1>5 DEF SetUp

\* Coming to a component: it is one of Rtc, and its counter stays a number.
LEMMA ReachType ==
  ASSUME TypeOK, NEW counter \in Int, Reach(counter)
  PROVE  /\ next \in Rtc
         /\ timeRateCounter' \in [Rtc -> Int]
         /\ reached' \in [Rtc -> Nat]
  BY DEF TypeOK, Reach, Rtc

\* So does every step of the control cycle.
LEMMA CycleType == TypeOK /\ Cycle => TypeOK'
  <1> SUFFICES ASSUME TypeOK, Cycle PROVE TypeOK'
    OBVIOUS
  <1> USE DEF TypeOK, setUp, fixed, rates, sampling
  <1>c. ASSUME next \in Rtc PROVE Counter \in Int /\ Counter - RateUnit \in Int
    BY <1>c, RateType DEF Counter
  <1>n. ASSUME at = "tick", next <= rtcs PROVE next \in Rtc
    BY <1>n DEF Rtc
  <1>1. CASE StepWithout BY <1>1 DEF StepWithout
  <1>2. CASE Input
    <2>1. PICK done \in SUBSET DuePorts : Samples(done)
      BY <1>2 DEF Input
    <2>2. samples' \in [Ports -> Nat] /\ pending' \subseteq Ports
      BY <2>1 DEF Samples, DuePorts
    <2>3. broken' \in BOOLEAN
      BY <1>2, Zenon DEF Input
    <2> QED BY <1>2, <2>2, <2>3 DEF Input
  <1>3. CASE Write BY <1>3 DEF Write
  <1>4. CASE PassOver
    <2>1. next \in Rtc BY <1>4, <1>n DEF PassOver, Reach
    <2>2. timeRateCounter' \in [Rtc -> Int] /\ reached' \in [Rtc -> Nat]
      BY <1>4, <1>c, <2>1, ReachType DEF PassOver
    <2>3. next' \in 1 .. RtcCount + 1
      BY <1>4, <2>1 DEF PassOver, Rtc
    <2> QED BY <1>4, <2>2, <2>3 DEF PassOver
  <1>5. CASE Tick
    <2>1. next \in Rtc BY <1>5, <1>n DEF Tick, Reach
    <2>2. timeRateCounter' \in [Rtc -> Int] /\ reached' \in [Rtc -> Nat]
      BY <1>5, <1>c, <2>1, ReachType DEF Tick
    <2>3. next' \in 1 .. RtcCount + 1 /\ ticks' \in [Rtc -> Nat]
      BY <1>5, <2>1 DEF Tick, Rtc
    <2> QED BY <1>5, <2>2, <2>3 DEF Tick
  <1>6. CASE TickFails
    <2>1. next \in Rtc BY <1>6, <1>n DEF TickFails, Reach
    <2>2. timeRateCounter' \in [Rtc -> Int] /\ reached' \in [Rtc -> Nat]
      BY <1>6, <1>c, <2>1, ReachType DEF TickFails
    <2>3. failed' \in [Rtc -> Nat]
      BY <1>6, <2>1 DEF TickFails, Rtc
    <2> QED BY <1>6, <2>2, <2>3 DEF TickFails
  <1>7. CASE EndControl BY <1>7 DEF EndControl
  <1>8. CASE Output BY <1>8 DEF Output
  <1> QED BY <1>1, <1>2, <1>3, <1>4, <1>5, <1>6, <1>7, <1>8 DEF Cycle

\* The state keeps its type: no step of the bridge or of GrxUI leaves a clock
\* below zero or points the loop of control past the components.
THEOREM TypeCorrect == Spec => []TypeOK
  <1>1. ASSUME TypeOK, [Next]_vars PROVE TypeOK'
    <2>1. CASE EndOfSimulation
      BY <1>1, <2>1 DEF EndOfSimulation, TypeOK, setUp, fixed, rates, sampling
    <2>2. CASE UNCHANGED vars
      BY <1>1, <2>2 DEF TypeOK, vars
    <2> QED BY <1>1, <2>1, <2>2, SetUpType, CycleType DEF Next
  <1> QED BY InitType, <1>1, PTL DEF Spec

-----------------------------------------------------------------------------
(* The control schedule of GrxUI.                                          *)

\* The bounds of ControlExact, at every place of the cycle.
Scheduled ==
  at # "idle" =>
    /\ simTime_ < doCount_ * timeStep + StepTime
    /\ doCount_ * timeStep + StepTime <= simTime_ + timeStep

\* The numbers of the schedule.
LEMMA StepTypes ==
  ASSUME TypeOK
  PROVE  /\ simTime_ \in Nat /\ doCount_ \in Nat /\ timeStep \in Nat
         /\ StepTime <= timeStep
         /\ doCount_ * timeStep \in Int
  <1>1. simTime_ \in Nat /\ doCount_ \in Nat /\ timeStep \in Nat
        /\ StepTime <= timeStep
    BY DEF TypeOK
  <1> QED BY <1>1, OneMore

\* The bounds are inductive: only a start, a step without control and an input
\* touch them.
LEMMA ScheduledStep == TypeOK /\ Scheduled /\ [Next]_vars => Scheduled'
  <1> SUFFICES ASSUME TypeOK, Scheduled, [Next]_vars PROVE Scheduled'
    OBVIOUS
  <1> USE DEF setUp, fixed
  \* A start: nothing has been controlled at time 0.
  <1>1. ASSUME Starts, timeStep' \in ControlSteps PROVE Scheduled'
    <2>1. \A c \in ControlSteps :
            0 < 0 * c + StepTime /\ 0 * c + StepTime <= 0 + c
      OBVIOUS
    <2>2. /\ 0 < 0 * timeStep' + StepTime
          /\ 0 * timeStep' + StepTime <= 0 + timeStep'
      BY <1>1, <2>1
    <2>3. simTime_' = 0 /\ doCount_' = 0
      BY <1>1 DEF Starts
    <2> QED BY <2>2, <2>3, Zenon DEF Scheduled
  <1>2. CASE SetUpAgain BY <1>1, <1>2 DEF SetUpAgain, SettingUp
  <1>3. CASE SetUpFirst BY <1>1, <1>3 DEF SetUpFirst, SettingUp
  <1>4. CASE SetUpRefused BY <1>4 DEF SetUpRefused, SettingUp, Scheduled
  <1>5. CASE SetUpInterrupted
    BY <1>5 DEF SetUpInterrupted, SettingUp, Scheduled
  <1>6. CASE Relaunch BY <1>6 DEF Relaunch, Scheduled
  \* Not due: the time stays below the next multiple.
  <1>7. CASE StepWithout
    <2> DEFINE dc == doCount_ * timeStep
    <2>1. dc \in Int /\ simTime_ < dc /\ dc + StepTime <= simTime_ + timeStep
      BY <1>7, StepTypes DEF StepWithout, DoNow, Scheduled
    <2>2. doCount_' * timeStep' = dc
      BY <1>7 DEF StepWithout
    <2> HIDE DEF dc
    <2>3. /\ simTime_ + StepTime < dc + StepTime
          /\ dc + StepTime <= (simTime_ + StepTime) + timeStep
      BY <2>1, StepTypes
    <2> QED BY <1>7, <2>2, <2>3 DEF StepWithout, Scheduled
  \* Due: the next multiple is one control step further.
  <1>8. CASE Input
    <2>1. /\ simTime_ + StepTime < (doCount_ + 1) * timeStep + StepTime
          /\ (doCount_ + 1) * timeStep + StepTime
               <= (simTime_ + StepTime) + timeStep
      <3>1. /\ doCount_ * timeStep <= simTime_
            /\ simTime_ < doCount_ * timeStep + StepTime
        BY <1>8 DEF Input, DoNow, Scheduled
      <3> QED BY <3>1, StepTypes, NextControl
    <2> QED BY <1>8, <2>1 DEF Input, Scheduled
  <1>9. CASE Write BY <1>9 DEF Write, Scheduled
  <1>10. CASE PassOver BY <1>10 DEF PassOver, Reach, Scheduled
  <1>11. CASE Tick BY <1>11 DEF Tick, Reach, Scheduled
  <1>12. CASE TickFails BY <1>12 DEF TickFails, Reach, Scheduled
  <1>13. CASE EndControl BY <1>13 DEF EndControl, Scheduled
  <1>14. CASE Output BY <1>14 DEF Output, Scheduled
  <1>15. CASE EndOfSimulation BY <1>15 DEF EndOfSimulation, Scheduled
  <1>16. CASE UNCHANGED vars BY <1>16 DEF vars, Scheduled
  <1> QED
    BY <1>2, <1>3, <1>4, <1>5, <1>6, <1>7, <1>8, <1>9, <1>10, <1>11, <1>12,
       <1>13, <1>14, <1>15, <1>16
    DEF Next, SetUp, Cycle

\* They hold at first, when no simulation runs.
LEMMA InitScheduled == Init => Scheduled
  BY DEF Init, Scheduled

\* The controller runs once for each multiple of its period, for every step of
\* the simulation, every control period that is not shorter, and whatever the
\* remote calls throw.
THEOREM ControlIsExact == Spec => []ControlExact
  <1>1. Scheduled => ControlExact
    BY DEF Scheduled, ControlExact
  <1> QED
    BY <1>1, InitScheduled, ScheduledStep, TypeCorrect, PTL DEF Spec

-----------------------------------------------------------------------------
(* The clock of the bridge.                                                *)

\* While nothing has been thrown controlTime counts the controls that have
\* ended; doCount_ is one ahead between input and the end of control.
Synchronous ==
  ~broken =>
    /\ at \in {"input", "output"} => controlTime = doCount_ * timeStep
    /\ at \in {"control", "tick"} =>
         controlTime + timeStep = doCount_ * timeStep

\* Input moves doCount_ ahead, the end of control moves controlTime after it.
LEMMA SynchronousStep == TypeOK /\ Synchronous /\ [Next]_vars => Synchronous'
  <1> SUFFICES ASSUME TypeOK, Synchronous, [Next]_vars PROVE Synchronous'
    OBVIOUS
  <1> USE DEF setUp, fixed
  <1>1. ASSUME Starts, timeStep' \in ControlSteps PROVE Synchronous'
    <2>1. \A c \in ControlSteps : 0 * c = 0
      OBVIOUS
    <2>2. 0 * timeStep' = 0
      BY <1>1, <2>1
    <2>3. doCount_' = 0 /\ controlTime' = 0 /\ at' = "input"
      BY <1>1 DEF Starts
    <2> QED BY <2>2, <2>3 DEF Synchronous
  <1>2. CASE SetUpAgain BY <1>1, <1>2 DEF SetUpAgain, SettingUp
  <1>3. CASE SetUpFirst BY <1>1, <1>3 DEF SetUpFirst, SettingUp
  <1>4. CASE SetUpRefused BY <1>4 DEF SetUpRefused, SettingUp, Synchronous
  <1>5. CASE SetUpInterrupted
    BY <1>5 DEF SetUpInterrupted, SettingUp, Synchronous
  <1>6. CASE Relaunch BY <1>6 DEF Relaunch, Synchronous
  <1>7. CASE StepWithout BY <1>7 DEF StepWithout, Synchronous
  <1>8. CASE Input
    <2>1. CASE broken'
      BY <2>1, <1>8 DEF Input, Synchronous
    <2>2. CASE ~broken'
      <3>1. ~broken
        BY <1>8, <2>2, Zenon DEF Input
      <3>2. controlTime = doCount_ * timeStep
        BY <1>8, <3>1 DEF Input, Synchronous
      <3>3. controlTime + timeStep = (doCount_ + 1) * timeStep
        BY <3>2, StepTypes, OneMore
      <3>4. /\ at' = "control" /\ controlTime' = controlTime
            /\ timeStep' = timeStep /\ doCount_' = doCount_ + 1
        BY <1>8 DEF Input
      <3> QED BY <3>3, <3>4 DEF Synchronous
    <2> QED BY <2>1, <2>2
  <1>9. CASE Write BY <1>9 DEF Write, Synchronous
  <1>10. CASE PassOver BY <1>10 DEF PassOver, Reach, Synchronous
  <1>11. CASE Tick BY <1>11 DEF Tick, Reach, Synchronous
  <1>12. CASE TickFails BY <1>12 DEF TickFails, Synchronous
  <1>13. CASE EndControl
    <2>1. ~broken => controlTime + timeStep = doCount_ * timeStep
      BY <1>13 DEF EndControl, Synchronous
    <2>2. /\ at' = "output" /\ controlTime' = controlTime + timeStep
          /\ timeStep' = timeStep /\ doCount_' = doCount_ /\ broken' = broken
      BY <1>13 DEF EndControl
    <2> QED BY <2>1, <2>2 DEF Synchronous
  <1>14. CASE Output BY <1>14 DEF Output, Synchronous
  <1>15. CASE EndOfSimulation BY <1>15 DEF EndOfSimulation, Synchronous
  <1>16. CASE UNCHANGED vars BY <1>16 DEF vars, Synchronous
  <1> QED
    BY <1>2, <1>3, <1>4, <1>5, <1>6, <1>7, <1>8, <1>9, <1>10, <1>11, <1>12,
       <1>13, <1>14, <1>15, <1>16
    DEF Next, SetUp, Cycle

\* No cycle has begun at first.
LEMMA InitSynchronous == Init => Synchronous
  BY DEF Init, Synchronous

\* Unless a call has thrown, the clock that the ports are sampled by is behind
\* the simulation by less than a step and ahead by less than a control step,
\* for all steps and periods.
THEOREM ClocksDoAgree == Spec => []ClocksAgree
  <1>1. TypeOK /\ Scheduled /\ Synchronous => ClocksAgree
    <2> SUFFICES ASSUME TypeOK, Scheduled, Synchronous, at = "input", ~broken
                 PROVE  /\ simTime_ < controlTime + StepTime
                        /\ controlTime < simTime_ + timeStep
      BY DEF ClocksAgree
    <2>1. /\ simTime_ < controlTime + StepTime
          /\ controlTime + StepTime <= simTime_ + timeStep
      BY DEF Scheduled, Synchronous
    <2>2. controlTime \in Nat
      BY DEF TypeOK
    <2> QED BY <2>1, <2>2, StepTypes
  <1> QED
    BY <1>1, InitScheduled, ScheduledStep, InitSynchronous, SynchronousStep,
       TypeCorrect, PTL
    DEF Spec

-----------------------------------------------------------------------------
(* The samples.                                                            *)

\* What is sampled is due at the control time it is written at, and is written
\* before the components are ticked.
PassedOn ==
  IF at = "control" THEN pending \subseteq DuePorts ELSE pending = {}

\* controlTime does not move between input and the writing, so that the second
\* test of the schedule answers as the first.
LEMMA PassedOnStep == PassedOn /\ [Next]_vars => PassedOn'
  <1> SUFFICES ASSUME PassedOn, [Next]_vars PROVE PassedOn'
    OBVIOUS
  <1> USE DEF setUp, fixed, sampling
  <1>1. CASE SetUpAgain BY <1>1 DEF SetUpAgain, Starts, PassedOn
  <1>2. CASE SetUpFirst BY <1>2 DEF SetUpFirst, Starts, PassedOn
  <1>3. CASE SetUpRefused BY <1>3 DEF SetUpRefused, SettingUp, PassedOn
  <1>4. CASE SetUpInterrupted
    BY <1>4 DEF SetUpInterrupted, SettingUp, PassedOn
  <1>5. CASE Relaunch BY <1>5 DEF Relaunch, PassedOn
  <1>6. CASE StepWithout BY <1>6 DEF StepWithout, PassedOn
  <1>7. CASE Input
    <2>1. PICK done \in SUBSET DuePorts : Samples(done)
      BY <1>7 DEF Input
    <2>2. pending' \subseteq DuePorts
      BY <1>7, <2>1 DEF Input, Samples, PassedOn
    <2>3. DuePorts' = DuePorts
      BY <1>7 DEF Input, DuePorts, SampleNow
    <2> QED BY <1>7, <2>2, <2>3 DEF Input, PassedOn
  <1>8. CASE Write BY <1>8 DEF Write, PassedOn
  <1>9. CASE PassOver BY <1>9 DEF PassOver, Reach, PassedOn
  <1>10. CASE Tick BY <1>10 DEF Tick, Reach, PassedOn
  <1>11. CASE TickFails BY <1>11 DEF TickFails, Reach, PassedOn
  <1>12. CASE EndControl BY <1>12 DEF EndControl, PassedOn
  <1>13. CASE Output BY <1>13 DEF Output, PassedOn
  <1>14. CASE EndOfSimulation BY <1>14 DEF EndOfSimulation, PassedOn
  <1>15. CASE UNCHANGED vars
    <2>1. DuePorts' = DuePorts
      BY <1>15 DEF vars, DuePorts, SampleNow
    <2> QED BY <1>15, <2>1 DEF vars, PassedOn
  <1> QED
    BY <1>1, <1>2, <1>3, <1>4, <1>5, <1>6, <1>7, <1>8, <1>9, <1>10, <1>11,
       <1>12, <1>13, <1>14, <1>15
    DEF Next, SetUp, Cycle

\* What input sampled is written by the control of the same cycle, for any
\* intervals and wherever input was interrupted.
THEOREM SamplesArePassedOn == Spec => []SamplesPassedOn
  <1>1. Init => PassedOn
    BY DEF Init, PassedOn
  <1>2. PassedOn => SamplesPassedOn
    BY DEF PassedOn, SamplesPassedOn
  <1> QED BY <1>1, <1>2, PassedOnStep, PTL DEF Spec

-----------------------------------------------------------------------------
(* The rates.                                                              *)

\* The counter of a component whose rate is positive is what its rate has put
\* in less what its ticks have taken out, and lies within one unit of 0, but
\* for the ticks that have failed.  A component without a rate is never ticked.
Balanced(r, counter, n, t, f) ==
  IF r = 0 THEN counter = 0 /\ t = 0
  ELSE /\ counter = RateUnit - r + n * r - t * RateUnit
       /\ -r < 2 * counter
       /\ 2 * counter <= 2 * RateUnit - r + 2 * RateUnit * f

\* A component is balanced when it has just been connected.
LEMMA BalancedFirst ==
  \A r \in 0 .. RateUnit :
    Balanced(r, IF r = 0 THEN 0 ELSE RateUnit - r, 0, 0, 0)
  <1> TAKE r \in 0 .. RateUnit
  <1>1. 0 * r = 0 /\ 0 * RateUnit = 0 /\ 2 * RateUnit * 0 = 0
    OBVIOUS
  <1> QED BY <1>1 DEF Balanced

\* It stays balanced when control comes to it, whether it is passed over, ticked,
\* or its tick fails.
LEMMA BalancedNext ==
  ASSUME NEW r \in 0 .. RateUnit, NEW counter \in Int, NEW n \in Nat,
         NEW t \in Nat, NEW f \in Nat, Balanced(r, counter, n, t, f)
  PROVE  /\ ~TickNow(counter + r, r) => Balanced(r, counter + r, n + 1, t, f)
         /\ TickNow(counter + r, r) =>
              /\ Balanced(r, counter + r - RateUnit, n + 1, t + 1, f)
              /\ Balanced(r, counter + r, n + 1, t, f + 1)
  <1>1. CASE r = 0
    BY <1>1 DEF Balanced, TickNow
  <1>2. CASE r # 0
    <2> DEFINE nr == n * r
               td == t * RateUnit
               df == 2 * RateUnit * f
    <2>1. nr \in Int /\ td \in Int /\ df \in Nat
      OBVIOUS
    <2>2. (n + 1) * r = nr + r /\ (t + 1) * RateUnit = td + RateUnit
      BY OneMore
    <2>3. 2 * RateUnit * (f + 1) = df + 2 * RateUnit
      OBVIOUS
    <2>4. /\ counter = RateUnit - r + nr - td
          /\ -r < 2 * counter
          /\ 2 * counter <= 2 * RateUnit - r + df
      BY <1>2 DEF Balanced
    <2> HIDE DEF nr, td, df
    <2>5. ASSUME ~(2 * (counter + r) + r > 2 * RateUnit)
          PROVE  /\ counter + r = RateUnit - r + (nr + r) - td
                 /\ -r < 2 * (counter + r)
                 /\ 2 * (counter + r) <= 2 * RateUnit - r + df
      BY <2>1, <2>4, <2>5
    <2>6. ASSUME 2 * (counter + r) + r > 2 * RateUnit
          PROVE  /\ counter + r - RateUnit
                      = RateUnit - r + (nr + r) - (td + RateUnit)
                 /\ -r < 2 * (counter + r - RateUnit)
                 /\ 2 * (counter + r - RateUnit) <= 2 * RateUnit - r + df
                 /\ counter + r = RateUnit - r + (nr + r) - td
                 /\ -r < 2 * (counter + r)
                 /\ 2 * (counter + r) <= 2 * RateUnit - r + (df + 2 * RateUnit)
      BY <2>1, <2>4, <2>6
    <2>7. ~TickNow(counter + r, r) => Balanced(r, counter + r, n + 1, t, f)
      BY <1>2, <2>2, <2>5 DEF TickNow, Balanced, df
    <2>8. TickNow(counter + r, r) =>
            Balanced(r, counter + r - RateUnit, n + 1, t + 1, f)
      BY <1>2, <2>2, <2>6 DEF TickNow, Balanced, df
    <2>9. TickNow(counter + r, r) => Balanced(r, counter + r, n + 1, t, f + 1)
      BY <1>2, <2>2, <2>3, <2>6 DEF TickNow, Balanced, td
    <2> QED BY <2>7, <2>8, <2>9
  <1> QED BY <1>1, <1>2

\* A balanced component has been ticked as RateExact says.
LEMMA BalancedMeansExact ==
  ASSUME NEW r \in 0 .. RateUnit, NEW counter \in Int, NEW n \in Nat,
         NEW t \in Nat, NEW f \in Nat, Balanced(r, counter, n, t, f)
  PROVE  /\ (2 * n - 1) * r <= 2 * RateUnit * (t + f)
         /\ 2 * RateUnit * t < (2 * n - 1) * r + 2 * RateUnit
  <1>1. CASE r = 0
    <2>1. t = 0 /\ (2 * n - 1) * r = 0
      BY <1>1 DEF Balanced
    <2>2. 2 * RateUnit * (t + f) \in Nat /\ 2 * RateUnit * t = 0
      BY <2>1
    <2> QED BY <2>1, <2>2
  <1>2. CASE r # 0
    BY <1>2, CounterMeansTicks DEF Balanced
  <1> QED BY <1>1, <1>2

\* All components are balanced.
Rates ==
  \A c \in Rtc :
    Balanced(Rate(c), timeRateCounter[c], reached[c], ticks[c], failed[c])

\* The rates are fixed.
LEMMA SameRate ==
  ASSUME timeRateMap' = timeRateMap
  PROVE  \A c \in Rtc : Rate(c)' = Rate(c)
  BY DEF Rate

\* Every component is balanced when the bridge is new.
LEMMA RatesStart ==
  ASSUME timeRateMap \in RateMap
  PROVE  \A c \in Rtc :
           Balanced(Rate(c), [r \in Rtc |-> FirstCounter(r)][c], Zero[c],
                    Zero[c], Zero[c])
  BY RateType, BalancedFirst DEF Zero

\* A step that touches neither the counters nor their history.
LEMMA RatesKept ==
  ASSUME Rates, UNCHANGED <<rates, timeRateMap>>
  PROVE  Rates'
  BY SameRate DEF Rates, rates

\* Balance is inductive: one case for each way control leaves a component.
LEMMA RatesStep == TypeOK /\ Rates /\ [Next]_vars => Rates'
  <1> SUFFICES ASSUME TypeOK, Rates, [Next]_vars PROVE Rates'
    OBVIOUS
  <1>k. CASE UNCHANGED <<rates, timeRateMap>>
    BY <1>k, RatesKept
  \* The loop of control comes to the component next.
  <1>n. ASSUME NEW counter, Reach(counter)
        PROVE  next \in Rtc
    BY <1>n DEF Reach, TypeOK, Rtc
  <1>b. ASSUME next \in Rtc
        PROVE  LET r == Rate(next)  n == reached[next]  t == ticks[next]
                   f == failed[next] IN
               /\ ~TickNow(Counter, r) => Balanced(r, Counter, n + 1, t, f)
               /\ TickNow(Counter, r) =>
                    /\ Balanced(r, Counter - RateUnit, n + 1, t + 1, f)
                    /\ Balanced(r, Counter, n + 1, t, f + 1)
    <2> DEFINE r == Rate(next)
               counter == timeRateCounter[next]
               n == reached[next]
               t == ticks[next]
               f == failed[next]
    <2>1. /\ r \in 0 .. RateUnit /\ counter \in Int
          /\ n \in Nat /\ t \in Nat /\ f \in Nat
      BY <1>b, RateType DEF TypeOK
    <2>2. Balanced(r, counter, n, t, f)
      BY <1>b DEF Rates
    <2> HIDE DEF r, counter, n, t, f
    <2>3. Counter = counter + r
      BY DEF Counter, counter, r
    <2>4. ~TickNow(Counter, r) => Balanced(r, Counter, n + 1, t, f)
      BY <2>1, <2>2, <2>3, BalancedNext
    <2>5. TickNow(Counter, r) =>
            /\ Balanced(r, Counter - RateUnit, n + 1, t + 1, f)
            /\ Balanced(r, Counter, n + 1, t, f + 1)
      BY <2>1, <2>2, <2>3, BalancedNext
    <2> QED BY <2>4, <2>5, Zenon DEF r, n, t, f
  <1>1. CASE Relaunch
    <2>1. /\ timeRateMap' = timeRateMap
          /\ timeRateCounter' = [r \in Rtc |-> FirstCounter(r)]
          /\ reached' = Zero /\ ticks' = Zero /\ failed' = Zero
      BY <1>1 DEF Relaunch, fixed
    <2> QED BY <2>1, RatesStart, SameRate DEF Rates, TypeOK
  <1>2. CASE PassOver
    <2>1. next \in Rtc /\ ~TickNow(Counter, Rate(next))
      BY <1>2, <1>n DEF PassOver
    <2>2. /\ timeRateMap' = timeRateMap
          /\ timeRateCounter' = [timeRateCounter EXCEPT ![next] = Counter]
          /\ reached' = [reached EXCEPT ![next] = @ + 1]
          /\ ticks' = ticks /\ failed' = failed
      BY <1>2 DEF PassOver, Reach, setUp, fixed
    <2>3. ASSUME NEW c \in Rtc
          PROVE  Balanced(Rate(c), timeRateCounter'[c], reached'[c], ticks'[c],
                          failed'[c])
      BY <1>b, <2>1, <2>2 DEF Rates, TypeOK
    <2> QED BY <2>2, <2>3, SameRate DEF Rates
  <1>3. CASE Tick
    <2>1. next \in Rtc /\ TickNow(Counter, Rate(next))
      BY <1>3, <1>n DEF Tick
    <2>2. /\ timeRateMap' = timeRateMap
          /\ timeRateCounter'
               = [timeRateCounter EXCEPT ![next] = Counter - RateUnit]
          /\ reached' = [reached EXCEPT ![next] = @ + 1]
          /\ ticks' = [ticks EXCEPT ![next] = @ + 1]
          /\ failed' = failed
      BY <1>3 DEF Tick, Reach, setUp, fixed
    <2>3. ASSUME NEW c \in Rtc
          PROVE  Balanced(Rate(c), timeRateCounter'[c], reached'[c], ticks'[c],
                          failed'[c])
      BY <1>b, <2>1, <2>2 DEF Rates, TypeOK
    <2> QED BY <2>2, <2>3, SameRate DEF Rates
  <1>4. CASE TickFails
    <2>1. next \in Rtc /\ TickNow(Counter, Rate(next))
      BY <1>4, <1>n DEF TickFails
    <2>2. /\ timeRateMap' = timeRateMap
          /\ timeRateCounter' = [timeRateCounter EXCEPT ![next] = Counter]
          /\ reached' = [reached EXCEPT ![next] = @ + 1]
          /\ ticks' = ticks
          /\ failed' = [failed EXCEPT ![next] = @ + 1]
      BY <1>4 DEF TickFails, Reach, setUp, fixed
    <2>3. ASSUME NEW c \in Rtc
          PROVE  Balanced(Rate(c), timeRateCounter'[c], reached'[c], ticks'[c],
                          failed'[c])
      BY <1>b, <2>1, <2>2 DEF Rates, TypeOK
    <2> QED BY <2>2, <2>3, SameRate DEF Rates
  <1>5. CASE SetUpAgain \/ SetUpFirst
    BY <1>5, <1>k DEF SetUpAgain, SetUpFirst, fixed
  <1>6. CASE SetUpRefused \/ SetUpInterrupted
    BY <1>6, <1>k DEF SetUpRefused, SetUpInterrupted, fixed
  <1>7. CASE StepWithout \/ Input \/ Write
    BY <1>7, <1>k DEF StepWithout, Input, Write, setUp, fixed
  <1>8. CASE EndControl \/ Output \/ EndOfSimulation
    BY <1>8, <1>k DEF EndControl, Output, EndOfSimulation, setUp, fixed
  <1>9. CASE UNCHANGED vars
    BY <1>9, <1>k DEF vars, rates
  <1> QED
    BY <1>1, <1>2, <1>3, <1>4, <1>5, <1>6, <1>7, <1>8, <1>9
    DEF Next, SetUp, Cycle

\* The ticks of each component follow its rate over any number of cycles and
\* simulations: there is no drift, and a tick that failed is not lost.
THEOREM RatesAreExact == Spec => []RateExact
  <1>1. Init => Rates
    BY RatesStart DEF Init, Rates
  <1>2. TypeOK /\ Rates => RateExact
    <2> SUFFICES ASSUME TypeOK, Rates, NEW c \in Rtc
                 PROVE  LET due == (2 * reached[c] - 1) * Rate(c) IN
                        /\ due <= 2 * RateUnit * (ticks[c] + failed[c])
                        /\ 2 * RateUnit * ticks[c] < due + 2 * RateUnit
      BY DEF RateExact
    <2>1. /\ Rate(c) \in 0 .. RateUnit /\ timeRateCounter[c] \in Int
          /\ reached[c] \in Nat /\ ticks[c] \in Nat /\ failed[c] \in Nat
      BY RateType DEF TypeOK
    <2> QED BY <2>1, BalancedMeansExact DEF Rates
  <1> QED BY <1>1, <1>2, RatesStep, TypeCorrect, PTL DEF Spec

-----------------------------------------------------------------------------
(* The schedule of the ports.                                              *)

\* The quotient is the number between these bounds.
LEMMA Quotient ==
  ASSUME NEW x \in Nat, NEW m \in Nat \ {0}
  PROVE  /\ x \div m \in Nat /\ x % m \in 0 .. m - 1
         /\ x = m * (x \div m) + (x % m)
  OBVIOUS

LEMMA QuotientIs ==
  ASSUME NEW x \in Nat, NEW m \in Nat \ {0}, NEW q \in Nat,
         m * q <= x, x < m * q + m
  PROVE  x \div m = q
  OBVIOUS

\* The test of a port with the interval m, at the time t.
Now(t, c, m) ==
  LET w == 2 * (t % m) + c IN (IF w >= 2 * m THEN 0 ELSE w) < 2 * c

\* Rounded to the nearest multiple of its interval, the control time of a port
\* that is due has just come to the next multiple, and otherwise to none.
LEMMA NearestMultiple ==
  ASSUME NEW c \in Nat \ {0}, NEW m \in Nat, c <= m, NEW t \in Nat, c <= t
  PROVE  (2 * t + c) \div (2 * m)
           = (2 * (t - c) + c) \div (2 * m) + (IF Now(t, c, m) THEN 1 ELSE 0)
  <1> DEFINE M == 2 * m
             x == 2 * t + c
             y == 2 * (t - c) + c
             k == t \div m
             r == t % m
  <1>1. /\ M \in Nat \ {0} /\ x \in Nat /\ y \in Nat /\ y = x - 2 * c /\ 2 * c <= M
        /\ m \in Nat \ {0}
    OBVIOUS
  <1>2. k \in Nat /\ r \in 0 .. m - 1 /\ t = m * k + r
    BY <1>1, Quotient
  <1>3. m * k \in Nat /\ M * k = 2 * (m * k) /\ M * (k + 1) = 2 * (m * k) + M
    BY <1>2
  <1>4. Now(t, c, m) <=> (2 * r + c >= M \/ 2 * r < c)
    <2>1. Now(t, c, m) <=> (IF 2 * r + c >= M THEN 0 ELSE 2 * r + c) < 2 * c
      BY Zenon DEF Now
    <2> HIDE DEF r, M, x, y, k
    <2> QED BY <1>1, <1>2, <2>1
  <1> DEFINE mk == m * k
  <1> HIDE DEF k, r
  <1>5. x = 2 * mk + 2 * r + c /\ y = 2 * mk + 2 * r - c /\ mk \in Nat
    BY <1>2, <1>3
  <1> HIDE DEF M, x, y, mk
  <1>6. M * k = 2 * mk /\ M * (k + 1) = 2 * mk + M
    BY <1>3 DEF mk
  <1>m. M = 2 * m
    BY DEF M
  <1>7. CASE 2 * r + c >= M
    <2>1. M * (k + 1) <= x /\ x < M * (k + 1) + M
      BY <1>1, <1>2, <1>5, <1>6, <1>7, <1>m
    <2>2. M * k <= y /\ y < M * k + M
      BY <1>1, <1>2, <1>5, <1>6, <1>7, <1>m
    <2>3. PICK n \in Nat : n = k + 1
      BY <1>2
    <2>4. x \div M = n
      BY <1>1, <2>1, <2>3, QuotientIs
    <2>5. y \div M = k
      BY <1>1, <1>2, <2>2, QuotientIs
    <2> QED BY <1>2, <1>4, <1>7, <2>3, <2>4, <2>5 DEF M, x, y
  <1>8. CASE ~(2 * r + c >= M) /\ 2 * r < c
    <2>1. M * k <= x /\ x < M * k + M
      BY <1>1, <1>2, <1>5, <1>6, <1>8, <1>m
    <2>2. y + M >= M * k /\ y < M * k
      BY <1>1, <1>2, <1>5, <1>6, <1>8, <1>m
    <2>3. k # 0
      BY <1>1, <1>6, <2>2
    <2>4. PICK n \in Nat : k = n + 1
      BY <1>2, <2>3
    <2>5. M * k = M * n + M /\ M * n \in Nat
      BY <1>1, <2>4
    <2>6. y \div M = n
      BY <1>1, <2>2, <2>5, QuotientIs
    <2>7. x \div M = k
      BY <1>1, <1>2, <2>1, QuotientIs
    <2> QED BY <1>4, <1>8, <2>4, <2>6, <2>7 DEF M, x, y
  <1>9. CASE ~(2 * r + c >= M) /\ ~(2 * r < c)
    <2>1. M * k <= x /\ x < M * k + M
      BY <1>1, <1>2, <1>5, <1>6, <1>9, <1>m
    <2>2. M * k <= y /\ y < M * k + M
      BY <1>1, <1>2, <1>5, <1>6, <1>9, <1>m
    <2>3. x \div M = k /\ y \div M = k
      BY <1>1, <1>2, <2>1, <2>2, QuotientIs
    <2> QED BY <1>2, <1>4, <1>9, <2>3 DEF M, x, y
  <1> QED BY <1>7, <1>8, <1>9

\* The samples of a port after n controls.
Expected(p, n) ==
  IF PortStep[p] = 0 THEN n
  ELSE IF n = 0 THEN 0
  ELSE (2 * ((n - 1) * timeStep) + timeStep) \div (2 * PortStep[p]) + 1

LEMMA ExpectedNext ==
  ASSUME TypeOK, IntervalsFit(timeStep), NEW p \in Ports, NEW n \in Nat
  PROVE  Expected(p, n + 1)
           = Expected(p, n) + (IF SampleNow(p, n * timeStep) THEN 1 ELSE 0)
  <1> DEFINE c == timeStep
             m == PortStep[p]
  <1>1. c \in Nat \ {0} /\ m \in Nat /\ (m = 0 \/ c <= m)
    BY StepTypes DEF TypeOK, IntervalsFit
  <1>2. CASE m = 0
    BY <1>2 DEF Expected, SampleNow
  <1>3. CASE m # 0 /\ n = 0
    <2>1. /\ 0 * c = 0 /\ 0 % m = 0 /\ ~(c >= 2 * m) /\ c < 2 * c
      BY <1>1, <1>3
    <2>2. c \div (2 * m) = 0
      BY <1>1, <1>3, <2>1
    <2>3. SampleNow(p, 0)
      BY <1>1, <2>1 DEF SampleNow
    <2>4. Expected(p, 0) = 0
      BY <1>3 DEF Expected
    <2>5. Expected(p, 1) = 1
      BY <1>1, <1>3, <2>1, <2>2 DEF Expected
    <2> QED BY <1>3, <2>1, <2>3, <2>4, <2>5
  <1>4. CASE m # 0 /\ n # 0
    <2> DEFINE t == n * c
    <2>1. t \in Nat /\ (n - 1) * c = t - c /\ c <= t
      <3>1. PICK k \in Nat : n = k + 1
        BY <1>4
      <3>2. (k + 1) * c = k * c + c /\ k * c \in Nat
        BY <1>1
      <3>3. n - 1 = k
        BY <3>1
      <3> QED BY <1>1, <3>1, <3>2, <3>3
    <2>2. SampleNow(p, t) <=> Now(t, c, m)
      BY <1>4 DEF SampleNow, Now
    <2>3. Expected(p, n + 1) = (2 * t + c) \div (2 * m) + 1
      <3>1. (n + 1) - 1 = n /\ n + 1 # 0
        OBVIOUS
      <3> QED BY <1>4, <3>1 DEF Expected
    <2>4. Expected(p, n) = (2 * (t - c) + c) \div (2 * m) + 1
      BY <1>4, <2>1 DEF Expected
    <2> HIDE DEF t, c, m
    <2>5. (2 * t + c) \div (2 * m)
            = (2 * (t - c) + c) \div (2 * m) + (IF Now(t, c, m) THEN 1 ELSE 0)
      BY <1>1, <1>4, <2>1, NearestMultiple
    <2>6. (2 * (t - c) + c) \div (2 * m) \in Int
      BY <1>1, <1>4, <2>1
    <2>7. SampleNow(p, n * timeStep) <=> Now(t, c, m)
      BY <2>2 DEF t, c
    <2> QED BY <2>3, <2>4, <2>5, <2>6, <2>7
  <1> QED BY <1>2, <1>3, <1>4

\* While nothing has been thrown, all ports are where they are expected.
Sampled ==
  ~broken /\ at # "idle" /\ IntervalsFit(timeStep) =>
    \A p \in Ports : samples[p] = Expected(p, doCount_)

LEMMA SampledStep == TypeOK /\ Synchronous /\ Sampled /\ [Next]_vars => Sampled'
  <1> SUFFICES ASSUME TypeOK, Synchronous, Sampled, [Next]_vars PROVE Sampled'
    OBVIOUS
  <1> USE DEF setUp, fixed, sampling
  <1>1. ASSUME Starts PROVE Sampled'
    BY <1>1 DEF Starts, Sampled, Expected
  <1>2. CASE Input
    <2> SUFFICES ASSUME ~broken', IntervalsFit(timeStep), NEW p \in Ports
                 PROVE  samples'[p] = Expected(p, doCount_ + 1)
      <3>1. doCount_' = doCount_ + 1 /\ timeStep' = timeStep
        BY <1>2 DEF Input
      <3> QED BY <3>1 DEF Sampled, Expected, IntervalsFit
    <2>0. ~broken
      BY <1>2, Zenon DEF Input
    <2>1. ~broken /\ at = "input"
      BY <1>2, <2>0 DEF Input
    <2>2. Samples(DuePorts)
      BY <1>2, Zenon DEF Input
    <2>3. samples[p] = Expected(p, doCount_) /\ controlTime = doCount_ * timeStep
      BY <2>1 DEF Sampled, Synchronous
    <2>4. samples'[p] = samples[p] + (IF SampleNow(p, controlTime) THEN 1 ELSE 0)
      BY <2>2 DEF Samples, DuePorts
    <2>5. doCount_ \in Nat
      BY StepTypes
    <2>6. Expected(p, doCount_ + 1)
            = Expected(p, doCount_) + (IF SampleNow(p, controlTime) THEN 1 ELSE 0)
      BY <2>3, <2>5, ExpectedNext
    <2> QED BY <2>3, <2>4, <2>6
  <1>3. CASE samples' = samples /\ doCount_' = doCount_ /\ timeStep' = timeStep
             /\ (at' # "idle" => at # "idle") /\ (~broken' => ~broken)
    BY <1>3 DEF Sampled, Expected, IntervalsFit
  <1>4. CASE SetUpRefused \/ SetUpInterrupted \/ Relaunch
    <2>1. at' = "idle"
      BY <1>4 DEF SetUpRefused, SetUpInterrupted, Relaunch, SettingUp
    <2> QED BY <2>1 DEF Sampled
  <1>5. CASE SetUpAgain \/ SetUpFirst
    BY <1>1, <1>5 DEF SetUpAgain, SetUpFirst
  <1>6. CASE StepWithout \/ Write \/ EndControl \/ Output \/ EndOfSimulation \/ UNCHANGED vars
    BY <1>3, <1>6 DEF StepWithout, Write, EndControl, Output, EndOfSimulation, vars
  <1>7. CASE PassOver \/ Tick \/ TickFails
    BY <1>3, <1>7 DEF PassOver, Tick, TickFails, Reach
  <1> QED BY <1>2, <1>4, <1>5, <1>6, <1>7 DEF Next, SetUp, Cycle

\* A port is sampled once for each multiple of its interval, at the control time
\* nearest to it, for all intervals that are not shorter than the control step.
THEOREM SampledOnceEach == Spec => []SampledOnce
  <1>1. Init => Sampled
    BY DEF Init, Sampled
  <1>2. TypeOK /\ Sampled => SampledOnce
    <2> SUFFICES ASSUME Sampled, at = "input", ~broken, doCount_ > 0, IntervalsFit(timeStep),
                        NEW p \in Ports, TypeOK
                 PROVE  samples[p] = IF PortStep[p] = 0 THEN doCount_
                                     ELSE (2 * ((doCount_ - 1) * timeStep) + timeStep)
                                            \div (2 * PortStep[p]) + 1
      BY DEF SampledOnce
    <2>1. doCount_ # 0
      BY DEF TypeOK
    <2> QED BY <2>1 DEF Sampled, Expected
  <1> QED BY <1>1, <1>2, SampledStep, InitSynchronous, SynchronousStep, TypeCorrect, PTL
          DEF Spec
=============================================================================
