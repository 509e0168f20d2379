# OpenHRP3: specifications, model checking and proofs

OpenHRP3 simulates robots. A Java user interface (GrxUI, an Eclipse
application) drives a set of CORBA servers written in C++: model loader,
collision detector, dynamics simulators, path planner, view simulator, and one
controller bridge for each robot, behind which run OpenRTM components. This
directory holds TLA+ specifications of its concurrent and stateful parts, the
TLC configurations that check them, and proofs that TLAPS checks.

Paths are relative to the root of the repository; `GrxUI/` stands for
`src/GrxUIonEclipse-project-0.9.8/src/com/generalrobotix/ui/`.

## The system

| Component | State it keeps | Operations | Interactions | What is hard, what must hold |
|---|---|---|---|---|
| Simulation loop, `GrxUI/item/GrxSimulationItem.java` | `isExecuting_`, `simThreadState_`, `viewSimulationUpdate_`, `simTime_`, `totalTime_`, three monitors | startSimulation, the simulation thread, the 10 ms timer Runnable, extendTime, endOfSimulation, stopSimulation, waitStopSimulation | Started by the toolbar and by Jython scripts; calls all servers | Two threads over unlocked fields, modal dialogs with nested event loops, servers that throw. Sessions must not overlap, nobody may wait for ever, the view is painted only while the loop waits |
| Start/stop button, `GrxUI/actions/StartSimulate.java` | enabled or not | run, update | Observes the item | A stop must stick; a second start must not slip in |
| Clock generator, `GrxUI/depends/rtm/*`, `src/hrplib/hrpRTM/SimulationExecutionContext.cpp` | the Vector `ecs_` and its entries | subscribe, unsubscribe, resetClockReceivers, updateExecutionContext | CORBA threads change the Vector that the simulation thread walks by index | An entry skipped, ticked twice, left behind; exact schedule |
| Controller bridge, `src/server/ControllerBridge/*`, and ControllerAttribute in `GrxSimulationItem.java` | `doCount_`, `controlTime`, `timeRateCounter`, `isOwnedByController` | initialize, start, input, control, output, stop | Called by the loop at each step; ticks the RT components | Three clocks that no one compares, remote calls that throw half way, a failed set-up that is repeated |
| Project item, `GrxUI/item/GrxProjectItem.java` | the DOM of a project | load, save | Stops the simulation and removes its item | Loading under a running simulation |
| World state log, `GrxUI/item/GrxWorldStateItem.java`, `GrxUI/GrxTimeSeriesItem.java`, `GrxUI/view/graph/LogManager.java` | records in memory, then in files; a cache of one record; positions | addValue, getValue, setPosition, clear, save, load, rename | Written by the loop, read by the views, saved by a thread of its own | Positions at the switch from memory to disk; a stale cache; files left by earlier logs; menus that allow anything during a simulation |
| Process manager, `GrxUI/util/GrxProcessManager.java`, `GrxServerManager.java`, `GrxServerManagerPanel.java`, `GrxUI/view/GrxServerManagerView.java` | the list of server processes; a panel for each server | register, unregister, start, stop, restart, shutDown | Panels, autoStart and the set-up of controllers start and stop; each start leaves a thread that announces the end; an output thread walks the list | The list is walked while it changes; a process is gone when it is waited for; announcements that come late |
| Model loader, `src/server/ModelLoader/*` | the cache of loaded models, and the times it goes by | loadBodyInfo, getBodyInfo, clearData | Called by GrxUI and by the servers, several calls at once | Files that change between their reading and their dating; calls that load and look up the same entry, which is read three times by one lookup |
| Path planner, `src/hrplib/hrpPlanner/*`, `src/server/PathPlanner/*`, `GrxUI/item/GrxPathPlanningAlgorithmItem.java` | trees, roadmap, path | calcPath, optimize, checkCollision, stopPlanning | Called by GrxUI, which may keep the planner from one call to the next; another thread stops it | A path over checked ways, also from trees of earlier calls; termination; a cancelled call that still runs when the next one is made |
| Collision detector, `src/server/CollisionDetector/*` | bodies and pairs | register, add and remove pairs, query | Called by the dynamics servers | Pairs that keep a replaced body |
| Dynamics, `src/hrplib/hrpModel/*` and the three dynamics servers | rigid bodies | stepSimulation | Called by the loop | Numerical integration |
| View simulator, views, plug-in manager, utilities, samples, IDL | | | | User interface, rendering, parsing and interface files |

`PROJECT.json` lists every component with its status, and 40 hazards: the places
in the code where something can go wrong that a test would hardly reach, with
the properties that cover them.

## The modules

| Module | What it is |
|---|---|
| `SimulationLoop` | GrxSimulationItem with the button, the script and the project item |
| `SimulationSession` | the abstract specification: sessions that follow one another |
| `SimulationDiscipline` | the inductive invariant of the loop, and the assumption under which it holds |
| `ClockGenerator` | the clock of the execution contexts |
| `ControllerBridge` | the control cycle of one robot |
| `WorldStateLog` | the log of the simulation, its files and its readers |
| `PathPlanner` | RRT, PRM and the optimizers over an abstract configuration space |
| `ModelLoader` | the cache of loaded models against files that change |
| `ProcessManager` | the server processes, their panels and threads |
| `SimulationLoopProofs`, `SimulationDisciplineProofs`, `ClockGeneratorProofs`, `ControllerBridgeProofs`, `WorldStateLogProofs`, `ModelLoaderProofs`, `PathPlannerProofs`, `ProcessManagerProofs` | theorems |
| `MCSimulationLoop`, `MCClockGenerator`, `MCControllerBridge`, `MCWorldStateLog`, `MCPathPlanner`, `MCProcessManager`, `MCModelLoader` | finite instances for TLC |

Definitions named `Action_Variant` with a comment "Mutant of ..." are
not used by the specifications. They are plausible mistakes in an action;
replacing the action by one of them makes TLC report the property it stands for,
which shows that each property depends on the code it is about.

### SimulationLoop

*State.* The fields of the code under their names; `thread[s]` and `timer[s]`,
the places of the simulation thread and of the timer Runnable that the s-th
successful start creates; `stack`, the SWT thread as a stack of handlers, because
a modal dialog runs a nested event loop in which timers and `syncExec` calls are
served; `script`, a thread that does what `src/sample/script/simTest.py` does;
`button` and `attached`, the toolbar's view of the item.

*Actions.* A thread's step runs from one access of a shared field to the next:
`Begin`, `Loop`, `CheckTime`, `Dynamics`, `Publish`, `TimeOver`, `Resume`,
`ClearExecuting`, `ReportStop`, `ReportFailure` are lines 296-345 and 387-461.
`TimerExec`, `TimerTimeOver`, `TimerAsks`, `TimerStop`, `TimerInterrupt` are the
cases of the Runnable (233-281), cut where a dialog opens; the `Answer...`
actions are what follows a dialog. `StartChecks` ... `StartSucceeds` are
startSimulation (141-285), cut at its dialogs: the cut is where other handlers
of the SWT thread get in.

*Abstractions.* Time is counted in steps. A synchronized block that sets a flag
and waits is one action, as the monitor makes it; the increment of `simTime_`
is one action. Java's weak visibility of unsynchronized fields and spurious
wake-ups of `wait()` are not modelled. Whether a dialog shows, whether a world
is selected and whether a server throws is nondeterministic. `isSuspending_`
is never set by the code, `continueSimulation` never called, and the sleep that
keeps real time changes no state.

### SimulationSession

`open`, `controllers` and `clock`: a session opens with its controllers running
and the clock at 0, only an open session advances the clock, closing stops the
controllers, and every session is closed. The refinement mapping
is `open <- IsOpen`, `clock <- simTime_`: a session is open while its timer is
armed or shows a dialog that precedes endOfSimulation.

### ClockGenerator

`Start`, `Subscribe`, `Stop`, `UnsubscribeSize`, `UnsubscribeGet`, `Stopped` are
SimulationExecutionContext::start and stop with the calls GrxUI serves for them on
its CORBA threads; `StartSimulation`, `BeginUpdate`, `WalkSize`, `WalkGet`,
`ResetEntry`, `Tick`, `NotDue`, `RemoveFailed`, `WalkEnds` are the two
walks of the simulation side over `ecs_`. A call of `java.util.Vector` is
atomic, a walk is not. The constant `QuietModes` says whether starts and stops
may overlap the walks and each other; the exactness of the schedule is promised
only in quiet use, the rest in any.

### ControllerBridge

`doCount_` of GrxUI's ControllerAttribute against `simTime_`, the intervals of
the out-ports against the bridge's `controlTime`, and the rates of the
components against their `timeRateCounter`. `SetUpFirst`, `SetUpAgain`,
`SetUpRefused`, `SetUpInterrupted` and `Relaunch` are the outcomes of one pass of
`_setupController`; `Input` to `Output` are one step of the simulation
(`StepWithout` is a step in which the controller is not due), with the loop of
`control()` taken component by component because `tick()` may throw between any
two of them. Times are integers in a unit that divides steps and intervals,
rates integers in units of `1 / RateUnit`; the code uses doubles, so a comparison
that is a tie here may fall either way there. The assumptions on
the constants are the code's: `GrxSimulationItem.java:801` refuses a control
period shorter than the step, `BridgeConf.cpp:105` documents rates of at most 1.
`reached`, `ticks`, `failed`, `samples` and `pending` are history: no action
reads them, but for the bound on failures.

### WorldStateLog

*State.* The fields of GrxTimeSeriesItem and GrxWorldStateItem under their names;
of LogManager its directory `tmpdir`, the open tables `writeFile_` and `readFile_`
and whether objects are registered (`header_`); `files`, the records in the
two directories a log may be in. A record is the number of the `addValue`
that produced it, which is also its time; a log's one file per object is one file.

*Actions.* `AddToMemory` is addValue in memory; `AddToFile`, `WriteRecord` and
`ShowRecord` are addValue on disk, cut where the views may look: `newStat_` is set,
the record is written, the position exists. When too little memory is free is
nondeterministic. `Look`, `LookTime`, `SetPosition` are what views do (`ValueAt` and
`CurrentValue` are what they see); `Clear`, `AskSave`, `Load`, `Rename` are the menu,
`RestoreLog` and `Zip` the saving thread. `StartSimulation` and `EndSimulation` are
what the loop asks of the log.

*History.* `content`, the records this log has been given; `disturbed`, the log was
changed (cleared, loaded, renamed, its writers closed by a save) during its simulation,
after which the code promises nothing; `savedOf`, `joined`, `spoiled`, the same
for a save. What can happen to a disturbed log is in the model: a save closes the
writers, and the later records are lost without a message; a clear makes the
next record throw and ends the simulation thread (`sim = "dead"`).

*Abstractions.* The collision file goes with the records; the CSV export and the
contents of a record are left out. A read through the cache is atomic, although several
threads share `preStat_`. `-1` as `bufferSize` means the bound the field already has,
whatever the comment of line 59 says ("unlimited").

### PathPlanner

*State.* The nodes of all trees (`pos`, in the order they were made), the edges,
`Ta_` (the roadmap), `Tb_`, and the place of the call in progress (`at`). The
geometry is constants: `Free`, `Dist`, `Toward` (a step of `Eps` towards a configuration),
`Inside` (what interpolation on a way may give) and `Colliding`, which of the samples that getPath
puts on a way are in collision. `Reachable`, the ways `isReachable` accepts, is computed from the samples in the
order in which checkCollision visits them (`SamplesChecked`). `PlannerAssumption` asks of the
geometry that a configuration has distance 0 from itself, that the first and the last sample of
a way are its ends, and that with a reversible mobility a free way is free in the other direction. Otherwise it is
any: ways may be one-way, a step towards a node need not come nearer, and nothing is known of the samples
of a part of a free way.

*Actions.* `Call` is startCalc with its choice to keep the algorithm (`rebuildRoadmap`)
or make it anew; `Prepare` the checks and the direct connection; `Begin` to
`Integrate` RRT, in which one `extend` is one action; `Build` to `DFS` PRM; `Shortcut`
and `RandomShortcut` the optimizers. `Stop` comes from another thread, at any of
them. When a step comes no nearer, extend waits in `getchar()` (`Strays`), until `Key`, which nobody need press.

*Overlapping calls.* Cancel does not join the thread of the call it stops
(`GrxPathPlanningAlgorithmItem.java:446`). A request that comes before that call has returned deletes the
algorithm it runs in, undoes the stop, or works on the same trees and path; `Overlap` takes the planner to
`at = "undefined"`, where it stays, and the properties promise nothing from there on. `Call` and `Optimize`
are the requests that come when no call runs.

*Pieces.* RandomShortcutOptimizer checks the way between its two new points, and not what it leaves of the
two segments they lie on, which getPath samples at other points than it sampled the segments. `pieces` is the history of
these ways: `PathSound` says that a path has no unchecked ways but these, `CollisionFree` that no other collides.
In the instance checked the way from 7 to 0 is free and its piece from 7 to 3 is not.

*What it shows besides.* An RRT that is used again may return a path that begins
at the start of an earlier call: `PathSound` excepts it. A stop that comes before
preparePlanning is forgotten. A roadmap whose building was stopped is never finished.

### ProcessManager

*State.* For each id whether an AProcess is in `process_`, its `process_`, its OS processes
(alive, told to end, ended), and the threads that its starts left waiting; the panels
with their button and `restartFlag_`; the queue of announced ends; the output
thread, `reader`.

*Actions.* Handlers of the SWT thread are one action each: `Open`, `Toggle`, `RestartOne`,
`RestartAll`, `Insert`, `Remove`, `RestoreDefault`, `SetupController`, `DropController`,
`ProcessEnd`; `Close` and `Closed` are shutDown, cut at its join. `End` is a process that
ends by itself or because it was told to; `Wait` and `Announce` the thread of a start,
`UpdateIO` and `GetProcess` the output thread, cut between `size()` and `get(i)`.
`Open` and `RestartAll` ask anew whether there is a name server (`external`), and their autoStart walks the
whole list, also servers whose panel was removed; one that runs and does not answer gets a second waiting thread. The
restart button asks before it acts, and its dialog lets ends be shown: `RestartOne` finds any text. No code
interrupts the thread that sleeps in start0, so a start fails only before there is a process.

*What it shows besides.* A waiting thread that finds `process_` null dies without
announcing anything (`missed`, kept as long as the panel), and the panel says STOP until it is clicked. After
the name server was restarted, the ends of the stopped servers make the panels say START
although autoStart has started the servers again. RestartAll ends half way, by an
exception, when a server of the list was never registered. With `hasShutdown`, the copy
told to end may live beside the one that was started instead. The output thread dies
when the list gets shorter under its index.

### ModelLoader

*State.* One URL: its file and one file that an Inline node of it includes, each with the modification
times of its `versions`; the servants made (`bodies`) with the versions they were read
from and the times they are dated by; the entry of the map, `cache`; the call of each client. The
ORB serves calls in threads of their own (the root POA's default), so calls overlap.

*Actions.* `Stat`, `Find`, `DateHit`, `Again`, `InlinesHit`, `Hit`, `BoxesOfCached` and `Miss` are
getBodyInfoEx, cut at each access to the entry and at each `stat`: lines 224 and 225 read the servant from the
entry for its date, again for its included files, and a third time for the reference (`Entry`, `Reread`), and
another load may put its own servant there in between; `ReadMain` to `BoxesOfLoaded` are
loadBodyInfoEx, cut where a file is read or asked for its time or the map is accessed: main file,
included file, time of the included file when the nodes are traversed, entry in the map, time of the main file.
`Edit` is anyone who writes, replaces or removes a file; a version with time 0 is no file.

*Abstractions.* An access to the map is atomic, although the code locks nothing; once the map has been
cleared, a later use of the entry meets what was read from it before. A file that fails as a model and is read again as plain VRML is one load. Collada files
date no included files. `main`, `inline`, `born`, `since` and `swapped` are history.

*What it shows besides.* A file that changes between its reading and its dating, or twice within a second,
hides the change until the next one, although `ModelLoader.idl:590` promises a new load of a changed
file; a load that overlaps an older one may be replaced in the map by it. A lookup whose entry is replaced between its
tests and its reference (`swapped`) returns a servant it has not tested, which may be older than the call and not yet
dated: `Fresh` excepts it. A getBodyInfo
that finds a servant which getBodyInfoEx has changed to boxes returns the boxes.

## The runs

| Run | Question, and what the answer shows | Bounds |
|---|---|---|
| `sim_one_client` | With one client (toolbar or script) and prompt threads: `OneSession`, `PaintExclusive`, `NoStrandedThread`, `ClockBound`, `StopSticks`, the inductive `DisciplineInv`, `NoEmptySignal` (no monitor is notified without a waiting thread), the implementation of `SimulationSession`, `ThreadsEnd` and `ScriptEnds` (a waiting script is released, unless a server fails). All hold, with failing servers, extensions of the total time and a project loaded meanwhile | 3 sessions, total times 0 and 1 extended up to 3, view paint at every second step |
| `sim_script_failure` | Is a script released when a server fails? No: see findings | 1 session |
| `sim_two_clients` | Does `isExecuting_` keep sessions apart when two clients start? No: see findings | 2 sessions |
| `clock` | `OneEntry`, `ScheduleExact`, `SentWhenDue` in quiet use, `AtMostOncePerUpdate` and `WalksEnd` in any. All hold | 2 contexts, one with a period longer than the step and no multiple of it, one with a shorter period; 3 steps, 2 subscriptions: enough for each context to come, go, crash and come again around and during a walk |
| `clock_unsubscribe` | Is a stopped context off the list? Not if another one leaves during the walk: see findings | 1 step |
| `bridge` | `ControlExact`, `ClocksAgree`, `RateExact`, `SampledOnce`, `SamplesPassedOn`. All hold, with input and ticks that fail | step 2, control periods 2 and 3, rates none, 3/5 and 1/5, 4/5 on one; a port at every cycle and one with interval 5; time 10, 2 simulations, 1 failure for each component |
| `bridge_interval` | Does a running bridge keep to the interval check of its ports? No: see findings | control periods 2 and 6 |
| `log` | Do views read the right records (`Readable`, `CurrentRight`), is a saved log whole (`SavedExact`)? Yes, for logs left alone during their simulation, and but for the position where the log moved to disk, which reads as null | 4 records, 2 simulations, 2 saves, a load, logs of at most 2 or 5 entries |
| `log_save` | And is a log that moved to disk saved whole? No: see findings | 3 records |
| `planner` | Is every path made of accepted ways (`PathSound`), is it free (`CollisionFree`), and does a call return (`Returns`)? Yes, but for the pieces of random shortcuts, a key that is awaited, and calls that overlap | four places on a line, neighbours in reach, the last in collision, a way that is free in one direction only, a long way that is free although a piece of it is not, a step that strays; 2 calls, so that the second meets the trees of the first, 2 trials, 2 points |
| `servers` | Is a process ever lost or doubled (`NoneLost`), does a button lie (`StopShownRight`, `EndShown`), does closing end (`Closes`)? They hold | a server with two lives, a controller and the name server with one; two threads may wait for the server at a time, one announcement is in the queue |
| `models` | Is what the loader hands out as new as the call (`Fresh`), and does the cache serve while no file changes (`Reused`)? Yes, but for modification times that deceive and entries swapped during a lookup | 2 clients, 3 calls, 2 changes of files, times 0 (absent) to 2: enough for a file to change and to change back, and for a clear and a second load within a load |

The sessions are bounded by 3 because every interference is between a session
and the next one; a third shows that the second leaves the state as the first
found it. The bounds of the bridge hold three control periods of 3, five of 2 and
two intervals of 5, so that every phase between the clocks comes up, and the second
simulation starts from counters and ownership that the first one left behind.

`CHECK_DEADLOCK FALSE` is given in all runs: a simulation may be over and nobody
need start another one, and the bounds end every behaviour.

### Fairness

`SimulationLoop!Fairness` asks that every simulation thread and a started
start handler goes on, that an armed timer is run when the SWT thread dispatches,
that the user answers a dialog, and that a script that has begun goes on; the JVM's
scheduler and SWT's event loop give that. Nobody has to click, load a project or
interrupt a script. `ClockGenerator!Fairness` asks that a walk that has begun
and a call that is served go on. `PathPlanner` asks that the thread of a call goes on;
it waits for nobody, unless for a key on the server's terminal, which nobody has to press. PRM is not asked to return unless stopped: it draws points until
enough of them are free. `ProcessManager` asks it of each thread (the SWT thread while
events are queued, the threads that wait for a server of a panel, the output thread), and that a process
of such a server that `destroy` was called on ends; nobody has to click. `ControllerBridge` and
`WorldStateLog` state no liveness, nor does `ModelLoader`.

### Prompt threads

`PromptThreads` (with `Disciplined`, the name of the assumption in the proofs)
is the assumption behind the runs of one client: between the few instructions
around a change of `isExecuting_` at the start and end of `run()`, the simulation
thread is not overtaken by an event of the SWT thread. The code does not enforce
it; it is how the code works in practice, the timer being 10 ms away and the user
slower. What holds without it is
`TypeOK` and `NoEmptySignal`, which are proved without it, for any clients.

## Findings

1. **A script waits for ever after a failure** (`sim_script_failure`).
   `GrxSimulationItem.java:268`: case INTERRUPT does not notify `lock2_`, case STOP
   does. A script whose start was refused, or that begins to wait when its
   simulation is over, is not released either; no document promises that.
2. **A start goes on after a stale test** (`sim_two_clients`).
   `GrxSimulationItem.java:143` tests `isExecuting_`, the confirmation dialog's
   event loop then serves a script's startSimulation, and the confirmed start
   opens a second session over the same fields.
3. **A stopped execution context stays subscribed** (`clock_unsubscribe`).
   `ClockGeneratorRtm_impl.java.in:84`: unsubscribe walks a Vector that shifts.
4. **A refused bridge starts the second time** (`bridge_interval`).
   `Controller_impl.cpp:521` sets the ownership before the check of the out-port
   intervals, which the next initialize skips.
5. **A log that moved to disk is saved wrongly** (`log_save`).
   `LogManager.java:363` joins the log with its own directory instead of "over": the
   records in memory are saved twice, the others not at all.

Not a run of its own: `updateExecutionContext` is called after the time was advanced
(`GrxSimulationItem.java:399,406`), so the clock due at time 0 is sent at the end of the
first step; the example in `src/idl/OpenHRP/ClockGenerator.idl:14` has it at 0.
`ScheduleExact` states what both agree on: after each step a context has been sent the multiples of its period that are
due, at most one for each step, where time 0 may count as a step of its own or not.

## What is proved

For all values of the constants that satisfy the modules' named assumptions;
the proofs rest on nothing else.

*Loop, without assumptions on clients or threads* (`SimulationLoopProofs`).
`TypeCorrect`. `SignalsHaveWaiters`: `NoEmptySignal` is inductive by itself,
since a request is raised in the same synchronized block as the wait.

*Loop, one client and prompt threads* (`SimulationDisciplineProofs`). The safety
properties are not inductive: that a stop sticks depends on where the thread is,
that depends on what `simThreadState_` tells the timer, and that on which
handlers the SWT stack holds. `DisciplineInv` relates them: sessions before
the last are over (`SessionsInOrder`), the stack is empty, holds one start or
one dialog of the last session's timer (`OneHandler`), `simThreadState_` agrees
with the place of the thread while the timer is armed (`StateAgrees`), and so on.
`DisciplineHolds` proves it inductive, one lemma for each group of actions;
`SessionsDoNotOverlap`, `PaintIsExclusive`, `NoThreadIsStranded`, `ClockIsBounded`
and `StopsStick` follow from it. They have the form `Disciplined => (Spec => []P)`.

*Loop implements session* (`SimulationDisciplineProofs`). `LoopImplementsSession`:
under the same assumption initial states map to initial states and every step
to a step of `SimulationSession` or a stutter. This is the safety part; that
every session is closed is checked by TLC as part of `ImplementsSession`.

*Controller bridge* (`ControllerBridgeProofs`). `TypeCorrect`. `ControlIsExact`:
the bounds of `ControlExact` hold at every place of the cycle (`Scheduled`); one
control moves the next multiple by one period (`NextControl`). `ClocksDoAgree`
adds `Synchronous`: unless a call has thrown, `controlTime` is `doCount_`
periods, or one less between input and the end of control. `SamplesArePassedOn`:
`controlTime` does not move between input and the writing, so the second test of a
port's schedule answers as the first (`PassedOn`). `RatesAreExact`: the
counter of a component is what its rate has put in less what its ticks have taken
out, and lies within one unit of 0 but for the failed ticks (`Balanced`); the
arithmetic is in lemmas of its own (`BalancedFirst`, `BalancedNext`,
`CounterMeansTicks`). `SampledOnceEach`: a port is due at a control time exactly when
the multiple of its interval nearest to it is a new one (`NearestMultiple`), so its
samples count the multiples passed (`Sampled`, on top of `Synchronous`).

*Clock* (`ClockGeneratorProofs`). `TypeCorrect`. `TickedOnce`, in any use: what this update
has ticked or reset lies behind the walk's index, for removals only move entries forward
past it (`Walked`, which also keeps the Vector free of doubles). In quiet use: `OneEntryEach`, from
what each place of a call owes the Vector (`Kept`, `EntriesOf`); `DueAreSent`, since every
entry before the index has been ticked or was not due (`Sent`); `ExactSchedule`, since the
time an entry waits for is its period times the multiples of it that have passed, or times the steps
when those are fewer (`Scheduled`, with the arithmetic of one step in `CountStep`); this is one of the two schedules
the theorem leaves open, the one of the code.

*World state log* (`WorldStateLogProofs`). None of `Readable`, `CurrentRight` and `SavedExact` is
inductive: what a position reads as depends on which file is open and how long it is, that on where the
simulation's thread is in addValue, and what a save writes on what the simulation left. `LogInv` relates
them. Whatever the user does, positions, times and values agree and the part of the log without values comes
after the part in memory (`Shape`, `Halves`). Of a log that nobody disturbs, the flags, the
directory and the open tables agree with the place of the thread (`Phases`); the file holds the
records from position `First` on, and one more between `WriteRecord` and `ShowRecord` (`Filed`); the
cache holds the file's record for its position, and no position behind the log (`Cached`), so that the next
record is not hidden by a record cached earlier; newStat_ is the last record (`Timed`); once the simulation is
over, there is a file that a save may copy (`Kept`). `Saving` is what a save left alone has still to do.
There is one lemma for each action (`ClearStep` to `RenameStep`) and one for each
part of the invariant that a step leaves alone (`ShapeSame`, ...); what addValue does to a sequence that may be
full (`Added`), what the loop of _restoreLogFileFromSuperLog collects (`InMemoryIs`) and what _loadLog
adds (`LoadedIs`) are lemmas about the operators. `LogConsistent` is the invariant as a theorem;
`ViewsReadTheLog`, `CurrentIsCurrent` and `SavesAreExact` follow from it. TLC has checked
`LogInv` on the instance of the run `log` before it was proved.

*Process manager* (`ProcessManagerProofs`). `TypeCorrect`. `Manager` relates, for each id, the
record in `process_`, the OS processes of its starts and the threads that wait for them (`Good`): the threads
are told apart, and if a process runs one of them waits for it or is about to; a
lemma for each operation keeps `Good` of one id, and is used for one id (`OneChanged`) or for each (restart of
all, closing). `NoProcessIsLost` is its consequence. `ButtonsAreRight` adds the
count of what will still be announced, threads and queue entries together (`Shown`): a panel that says
STOP has one to come, or has missed one.

*Path planner* (`PathPlannerProofs`). `TypeCorrect`, `PathIsSound` and `PathIsFree`, over `Planned`, which holds until calls overlap: edges are
accepted ways within one tree (`Edges`), the only node without a parent is the start and
the only one without a child in the other tree is the goal (`Rooted`), a connection of RRT-connect joins the two nodes it has reached
(`Meets`), the path collected by path() so far is connected (`Traced`), the stack of DFS
is one (`OnRoadmap`), and the stored paths are (`Paths`). The optimizers come down to
two lemmas on joining paths and cutting them (`PathJoin`, `PathPiece`); a random shortcut adds its two pieces to the
ways that need no acceptance. `PathIsFree` follows: the samples
visited after each round are given by recursion over the rounds; `AllSamples` shows a closed form to be a solution, and
the only one, by the first round that would differ (`Smallest`), so that every sample is visited by the round
of step 1 and the round of step 0 is never begun: an accepted way has no sample in collision. That no
configuration of a path collides is part of the invariant, as the point where two pieces meet is the end
of an accepted way.

*Model loader* (`ModelLoaderProofs`). `TypeCorrect`. `ModelsAreFresh`, over `FreshInv`: the time that stat gave is of a
version no older than the call (`Seen`), so a servant whose date equals it was read from such a
version, or another version bears its date (`SeenIsFresh`); a call keeps this of the servant it has tested until
another one is read from the entry, and then it is `swapped`; versions only get more, so
no step takes this back (`MainKept`, `InlineKept`). `CacheServes` adds `DatedInv`: the servant in the map is dated by
versions no older than its load, or a call is about to date it.

*Only model-checked.* All liveness (`ThreadsEnd`, `ScriptReleased`, `ScriptEnds`, `WalksEnd`,
`EndShown`, `Closes`, `Returns`, the closing of sessions): TLAPS does not handle fairness and
ENABLED. Every invariant and every other action property of a passing run is a theorem.

## What is not modelled, and why

- Dynamics, collision geometry, rendering, kinematics: floating-point computation.
  In the loop, a step of the servers succeeds or throws.
- VRML and Collada parsing, XML projects, properties: data translation.
- In the loop, the set-up of simulator and controllers beyond its outcome.
- In the bridge, activation and deactivation of the components, restart, shutdown and
  the conversion of port data.
- In the log, the collision file and the CSV export; in the planner, extra goals and
  the set-up of characters; in the process manager, output text and preferences.
- In the model loader, SceneInfo (it keeps nothing between calls), the parameter
  `readImage` and the contents of models but for their shapes being given up for boxes.
- Collision detector: a map of bodies and a list of pairs. A body that is registered again replaces the one in
  the map, the pairs keep the old one; a test reaches that.
- In the planner, what becomes of a call that another request overlaps: it is undefined.

## Plan

Done: `SimulationLoop` with `SimulationSession`; `ClockGenerator`; `ControllerBridge`;
`WorldStateLog`; `PathPlanner`; `ProcessManager`; `ModelLoader`, and proofs of all their invariants. Left:

1. The life cycle of the components in the bridge: activation, restart and shutdown.
2. An abstract specification of the log (a sequence that is appended to, read and saved) and the proof that
   an undisturbed `WorldStateLog` implements it; the same for the list of server processes.

Composition: `SimulationLoop` drives `ClockGenerator` and `ControllerBridge` once for
each `Dynamics` step, in the order update of the clock after the advance of the time,
input before and control after it. The three are checked apart: the loop needs of
the other two only that a step returns or throws, and they need of the loop only that
steps follow one another and that a session is set up before its first
step, which is what `SimulationSession` says and `LoopImplementsSession` proves.

## How to run

    tlc -workers 2 -config MCSimOneClient.cfg MCSimulationLoop
    tlapm SimulationDisciplineProofs.tla

Each run of `PROJECT.json` names its module and configuration; each takes seconds
to about two minutes.
