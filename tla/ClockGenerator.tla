--------------------------- MODULE ClockGenerator ---------------------------
(***************************************************************************)
(* ClockGenerator: the clock of the execution contexts (ECs) of the robot  *)
(* controllers.                                                            *)
(*                                                                         *)
(* A SimulationExecutionContext subscribes when it is started and          *)
(* unsubscribes when it is stopped; both are CORBA calls served by GrxUI   *)
(* on threads of their own.  The Vector ecs_ they change is walked by      *)
(* index, by resetClockReceivers when a simulation starts and by           *)
(* updateExecutionContext at every simulation step.  Each operation of the *)
(* Vector is atomic, a walk is not.                                        *)
(*                                                                         *)
(* Times are integers in a unit that divides the step and the periods; the *)
(* code adds doubles.                                                      *)
(***************************************************************************)
EXTENDS Integers, Sequences, FiniteSets

CONSTANTS
  EC,                \* the execution contexts
  Period,            \* 1.0 / get_rate() of each
  StepTime,          \* stepTime_ of the simulation
  MaxTime,           \* bound: the simulation time does not go beyond it
  MaxSubscriptions,  \* bound: successful calls of start
  QuietModes         \* whether starts and stops keep clear of the walks and of
                     \* each other

ASSUME ClockAssumption ==
  /\ Period \in [EC -> Nat \ {0}]
  /\ StepTime \in Nat \ {0}
  /\ MaxTime \in Nat
  /\ MaxSubscriptions \in Nat
  /\ QuietModes \subseteq BOOLEAN

VARIABLES
  ecs_,        \* the Vector, as a sequence of entries
  entries,     \* the ExecutionContext objects created so far
  simTime_,
  simulating,  \* resetClockReceivers has returned and no step has thrown
  walk,        \* the walk over ecs_: none, of a reset or of an update
  at, i, cur,  \* where it stands, its index and the entry it got
  running,     \* m_running of each EC
  alive,       \* the process of each EC has not crashed
  call,        \* where each EC stands in start or stop
  j,           \* the index of its walk in unsubscribe
  quiet,       \* the mode, fixed in each behaviour
  synced,      \* history: the entries reset when this simulation started
  ticked       \* history: the entries ticked by the update so far

vars == <<ecs_, entries, simTime_, simulating, walk, at, i, cur, running, alive,
          call, j, quiet, synced, ticked>>

callVars == <<running, alive, call, j>>
walkVars == <<simTime_, simulating, walk, at, i, cur, synced, ticked>>

Listed == {ecs_[k] : k \in DOMAIN ecs_}

\* Vector.remove: the first occurrence of id goes, and the ones behind it move up.
Without(id) ==
  LET k == CHOOSE k \in DOMAIN ecs_ : ecs_[k] = id IN
  IF id \notin Listed THEN ecs_
  ELSE [m \in 1 .. Len(ecs_) - 1 |-> IF m < k THEN ecs_[m] ELSE ecs_[m + 1]]

NoCall == \A e \in EC : call[e] = "idle"

Init ==
  /\ ecs_ = <<>>
  /\ entries = <<>>
  /\ simTime_ = 0
  /\ simulating = FALSE
  /\ walk = "none" /\ at = "size" /\ i = 1 /\ cur = 0
  /\ running = [e \in EC |-> FALSE]
  /\ alive = [e \in EC |-> TRUE]
  /\ call = [e \in EC |-> "idle"]
  /\ j = [e \in EC |-> 1]
  /\ quiet \in QuietModes
  /\ synced = {} /\ ticked = {}

-----------------------------------------------------------------------------
(* The execution contexts.                                                 *)

MayCall(e) ==
  /\ call[e] = "idle"
  /\ alive[e]
  /\ quiet => walk = "none" /\ NoCall

Subscribing == {e \in EC : call[e] = "subscribe"}

\* Mutant of Start: a running EC is started again.
Start_WhileRunning(e) ==
  /\ MayCall(e)
  /\ Len(entries) + Cardinality(Subscribing) < MaxSubscriptions
  /\ running' = [running EXCEPT ![e] = TRUE]
  /\ call' = [call EXCEPT ![e] = "subscribe"]
  /\ UNCHANGED <<ecs_, entries, walkVars, alive, j, quiet>>

\* SimulationExecutionContext::start: the base class starts the EC unless it
\* is running.
Start(e) ==
  /\ MayCall(e)
  /\ ~running[e]
  /\ Len(entries) + Cardinality(Subscribing) < MaxSubscriptions
  /\ running' = [running EXCEPT ![e] = TRUE]
  /\ call' = [call EXCEPT ![e] = "subscribe"]
  /\ UNCHANGED <<ecs_, entries, walkVars, alive, j, quiet>>

\* Mutant of Subscribe: the entry is put first.
Subscribe_First(e) ==
  /\ call[e] = "subscribe"
  /\ entries' = Append(entries, [ec |-> e, period |-> Period[e], next |-> 0])
  /\ ecs_' = <<Len(entries) + 1>> \o ecs_
  /\ call' = [call EXCEPT ![e] = "idle"]
  /\ UNCHANGED <<walkVars, running, alive, j, quiet>>

\* subscribe: a new entry that is due at time 0, at the end of the Vector.
Subscribe(e) ==
  /\ call[e] = "subscribe"
  /\ entries' = Append(entries, [ec |-> e, period |-> Period[e], next |-> 0])
  /\ ecs_' = Append(ecs_, Len(entries) + 1)
  /\ call' = [call EXCEPT ![e] = "idle"]
  /\ UNCHANGED <<walkVars, running, alive, j, quiet>>

\* SimulationExecutionContext::stop of a running EC calls unsubscribe.
Stop(e) ==
  /\ MayCall(e)
  /\ running[e]
  /\ call' = [call EXCEPT ![e] = "size"]
  /\ UNCHANGED <<ecs_, entries, walkVars, running, alive, j, quiet>>

\* unsubscribe: i < ecs_.size()
UnsubscribeSize(e) ==
  /\ call[e] = "size"
  /\ call' = [call EXCEPT ![e] = IF j[e] <= Len(ecs_) THEN "get" ELSE "return"]
  /\ UNCHANGED <<ecs_, entries, walkVars, running, alive, j, quiet>>

\* unsubscribe: ecs_.get(i), and ecs_.remove when it is an entry of e.  When the
\* Vector has shrunk since the test, get throws, the exception reaches stop,
\* and the EC goes on running.
UnsubscribeGet(e) ==
  /\ call[e] = "get"
  /\ \/ /\ j[e] > Len(ecs_)
        /\ call' = [call EXCEPT ![e] = "idle"]
        /\ j' = [j EXCEPT ![e] = 1]
        /\ UNCHANGED ecs_
     \/ /\ j[e] <= Len(ecs_)
        /\ entries[ecs_[j[e]]].ec = e
        /\ ecs_' = Without(ecs_[j[e]])
        /\ call' = [call EXCEPT ![e] = "return"]
        /\ UNCHANGED j
     \/ /\ j[e] <= Len(ecs_)
        /\ entries[ecs_[j[e]]].ec # e
        /\ j' = [j EXCEPT ![e] = @ + 1]
        /\ call' = [call EXCEPT ![e] = "size"]
        /\ UNCHANGED ecs_
  /\ UNCHANGED <<entries, walkVars, running, alive, quiet>>

\* The rest of stop.
Stopped(e) ==
  /\ call[e] = "return"
  /\ running' = [running EXCEPT ![e] = FALSE]
  /\ call' = [call EXCEPT ![e] = "idle"]
  /\ j' = [j EXCEPT ![e] = 1]
  /\ UNCHANGED <<ecs_, entries, walkVars, alive, quiet>>

\* The process of the EC crashes: remote calls to it throw from now on.
Crash(e) ==
  /\ alive[e]
  /\ alive' = [alive EXCEPT ![e] = FALSE]
  /\ UNCHANGED <<ecs_, entries, walkVars, running, call, j, quiet>>

CallStep(e) ==
  Subscribe(e) \/ UnsubscribeSize(e) \/ UnsubscribeGet(e) \/ Stopped(e)

-----------------------------------------------------------------------------
(* The walks of GrxUI; simulations do not overlap.                         *)

MayWalk == walk = "none" /\ (quiet => NoCall)

\* startSimulation: resetClockReceivers, then the time is reset.
StartSimulation ==
  /\ MayWalk
  /\ walk' = "reset" /\ at' = "size" /\ i' = 1
  /\ simulating' = FALSE
  /\ simTime_' = 0
  /\ synced' = {} /\ ticked' = {}
  /\ UNCHANGED <<ecs_, entries, cur, callVars, quiet>>

\* simulateOneStep advances the time and calls updateExecutionContext.
BeginUpdate ==
  /\ MayWalk
  /\ simulating
  /\ simTime_ + StepTime <= MaxTime
  /\ simTime_' = simTime_ + StepTime
  /\ walk' = "update" /\ at' = "size" /\ i' = 1
  /\ UNCHANGED <<ecs_, entries, simulating, cur, synced, ticked, callVars, quiet>>

\* The walk is over, and so is the life of its variables.
WalkEnds(completed) ==
  /\ walk' = "none" /\ at' = "size" /\ i' = 1 /\ cur' = 0 /\ ticked' = {}
  /\ simulating' = completed

\* i < ecs_.size()
WalkSize ==
  /\ walk # "none"
  /\ at = "size"
  /\ IF i <= Len(ecs_)
     THEN at' = "get" /\ UNCHANGED <<walk, i, cur, simulating, ticked>>
     ELSE WalkEnds(TRUE)
  /\ UNCHANGED <<ecs_, entries, simTime_, synced, callVars, quiet>>

\* ecs_.get(i): when the Vector has shrunk since the test, it throws out of the
\* walk, and there is no simulation any more.
WalkGet ==
  /\ walk # "none"
  /\ at = "get"
  /\ IF i <= Len(ecs_)
     THEN /\ cur' = ecs_[i]
          /\ at' = "remote"
          /\ UNCHANGED <<walk, i, simulating, ticked>>
     ELSE WalkEnds(FALSE)
  /\ UNCHANGED <<ecs_, entries, simTime_, synced, callVars, quiet>>

Goes == at' = "size" /\ i' = i + 1 /\ cur' = 0
CurAlive == alive[entries[cur].ec]

\* resetClockReceivers: get_rate() answers, and the entry is reset.
ResetEntry ==
  /\ walk = "reset"
  /\ at = "remote"
  /\ CurAlive
  /\ entries' = [entries EXCEPT ![cur].next = 0]
  /\ synced' = synced \cup {cur}
  /\ Goes
  /\ UNCHANGED <<ecs_, simTime_, simulating, walk, ticked, callVars,
                 quiet>>

Due == simTime_ >= entries[cur].next

\* Mutant of Tick: the next time is counted from now.
Tick_FromNow ==
  /\ walk = "update"
  /\ at = "remote"
  /\ Due
  /\ CurAlive
  /\ entries' = [entries EXCEPT ![cur].next = simTime_ + entries[cur].period]
  /\ ticked' = ticked \cup {cur}
  /\ Goes
  /\ UNCHANGED <<ecs_, simTime_, simulating, walk, synced, callVars, quiet>>

\* execute: an entry that is due is ticked, and its next time advances by one
\* period.
Tick ==
  /\ walk = "update"
  /\ at = "remote"
  /\ Due
  /\ CurAlive
  /\ entries' = [entries EXCEPT ![cur].next = @ + entries[cur].period]
  /\ ticked' = ticked \cup {cur}
  /\ Goes
  /\ UNCHANGED <<ecs_, simTime_, simulating, walk, synced, callVars,
                 quiet>>

\* execute: an entry that is not due yet is passed over.
NotDue ==
  /\ walk = "update"
  /\ at = "remote"
  /\ ~Due
  /\ Goes
  /\ UNCHANGED <<ecs_, entries, simTime_, simulating, walk, synced,
                 ticked, callVars, quiet>>

\* Mutant of RemoveFailed: the index steps back.
RemoveFailed_StepsBack ==
  /\ walk # "none"
  /\ at = "remote"
  /\ walk = "update" => Due
  /\ ~CurAlive
  /\ ecs_' = Without(cur)
  /\ at' = "size" /\ i' = i - 1 /\ cur' = 0
  /\ UNCHANGED <<entries, simTime_, simulating, walk, synced, ticked, callVars,
                 quiet>>

\* Mutant of RemoveFailed: the index advances as after a tick.
RemoveFailed_Advances ==
  /\ walk # "none"
  /\ at = "remote"
  /\ walk = "update" => Due
  /\ ~CurAlive
  /\ ecs_' = Without(cur)
  /\ Goes
  /\ UNCHANGED <<entries, simTime_, simulating, walk, synced, ticked, callVars,
                 quiet>>

\* Mutant of RemoveFailed: the entry stays.
RemoveFailed_Stays ==
  /\ walk # "none"
  /\ at = "remote"
  /\ walk = "update" => Due
  /\ ~CurAlive
  /\ at' = "size" /\ cur' = 0
  /\ UNCHANGED <<ecs_, entries, simTime_, simulating, walk, i, synced, ticked, callVars,
                 quiet>>

\* The remote call throws: the entry is removed and the index stays.
RemoveFailed ==
  /\ walk # "none"
  /\ at = "remote"
  /\ walk = "update" => Due
  /\ ~CurAlive
  /\ ecs_' = Without(cur)
  /\ at' = "size" /\ cur' = 0
  /\ UNCHANGED <<entries, simTime_, simulating, walk, i, synced,
                 ticked, callVars, quiet>>

WalkStep ==
  WalkSize \/ WalkGet \/ ResetEntry \/ Tick \/ NotDue \/ RemoveFailed

Next ==
  \/ StartSimulation \/ BeginUpdate \/ WalkStep
  \/ \E e \in EC : Start(e) \/ Stop(e) \/ CallStep(e) \/ Crash(e)

\* GrxUI goes on with a walk it has begun; so does a call once it is served.
Fairness == WF_vars(WalkStep) /\ \A e \in EC : WF_vars(CallStep(e))

Safety == Init /\ [][Next]_vars

Spec == Safety /\ Fairness

-----------------------------------------------------------------------------
(* Properties.                                                             *)

\* The one type invariant.
TypeOK ==
  /\ entries \in Seq([ec : EC, period : Nat \ {0}, next : Nat])
  /\ ecs_ \in Seq(1 .. Len(entries))
  /\ simTime_ \in Nat
  /\ simulating \in BOOLEAN
  /\ walk \in {"none", "reset", "update"}
  /\ at \in {"size", "get", "remote"}
  /\ i \in Nat \ {0}
  /\ cur \in 0 .. Len(entries)
  /\ running \in [EC -> BOOLEAN]
  /\ alive \in [EC -> BOOLEAN]
  /\ call \in [EC -> {"idle", "subscribe", "size", "get", "return"}]
  /\ j \in [EC -> Nat \ {0}]
  /\ quiet \in BOOLEAN
  /\ synced \subseteq 1 .. Len(entries)
  /\ ticked \subseteq 1 .. Len(entries)

Entered(e) == {id \in Listed : entries[id].ec = e}

\* An EC that stop has left is no target of the clock any more (unsubscribe,
\* lines 82-91).  It holds while starts and stops keep clear of each other.
StoppedIsUnsubscribed ==
  \A e \in EC : ~running[e] /\ call[e] = "idle" => Entered(e) = {}

\* In quiet use, a running EC that has not crashed has one entry, a stopped one
\* has none, whatever was removed by the walks in between.
OneEntry ==
  quiet => \A e \in EC : call[e] = "idle" /\ alive[e] =>
             Cardinality(Entered(e)) = (IF running[e] THEN 1 ELSE 0)

\* No update ticks an entry twice, not even when starts and stops shift the
\* Vector under the walk.
AtMostOncePerUpdate ==
  [][\A id \in DOMAIN entries :
       walk = "update" /\ entries'[id] # entries[id] => id \notin ticked]_vars

\* In quiet use, an update that returns has ticked every entry that was due,
\* although it removed others on the way.
SentWhenDue ==
  [][quiet /\ walk = "update" /\ walk' = "none" =>
       \A id \in Listed : id \in ticked \/ entries[id].next > simTime_]_vars

Least(a, b) == IF a < b THEN a ELSE b

\* In quiet use, the schedule is exact: an entry that was there when the
\* simulation started has been ticked for each multiple of its period so far,
\* but not more than once per step.  It leaves open whether the multiple 0 is
\* sent at time 0 (the IDL) or at the end of the first step (the code): after
\* that step this only matters to periods that are not longer than the step.
ScheduleExact ==
  quiet /\ simulating /\ walk = "none" =>
    \A id \in synced \cap Listed :
      LET p == entries[id].period
          steps == simTime_ \div StepTime
          multiples == simTime_ \div p + 1
      IN  \E c \in Least(steps, multiples) .. Least(steps + 1, multiples) :
            entries[id].next = p * c

\* A walk ends: each round advances the index or shortens the Vector.
WalksEnd == walk # "none" ~> walk = "none"
=============================================================================
