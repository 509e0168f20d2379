--------------------------- MODULE SimulationLoop ---------------------------
(***************************************************************************)
(* GrxSimulationItem: the simulation loop of GrxUI.                        *)
(*                                                                         *)
(* Each successful startSimulation creates a simulation thread and a timer *)
(* Runnable that the SWT thread runs every 10 ms.  The two talk through    *)
(* fields and monitors: simThreadState_ with lock_ (the total time is      *)
(* over: extend or stop?), viewSimulationUpdate_ with lock3_ (the 3D view  *)
(* must be painted before the simulation goes on), and lock2_ (a script    *)
(* waits in waitStopSimulation).  isExecuting_ is the only guard against a *)
(* second start, and stopSimulation's only effect is to clear it.          *)
(*                                                                         *)
(* The SWT thread is a stack of frames: an event is dispatched when the    *)
(* stack is empty or when its top frame shows a modal dialog, whose nested *)
(* event loop serves timers and syncExec calls.                            *)
(*                                                                         *)
(* Time is counted in simulation steps of stepTime_.  isSuspending_ is     *)
(* never set by the code and is left out.                                  *)
(***************************************************************************)
EXTENDS Integers, Sequences

CONSTANTS
  MaxSessions,     \* bound: calls of startSimulation that succeed
  TotalTimes,      \* the values the totalTime property may be given
  MaxTotalTime,    \* bound: the total time is never extended beyond it
  ViewEvery,       \* simulation steps between two paints of the 3D view
  ViewModes,       \* the values the viewsimulate property may be given
  ClientModes,     \* the sets of clients that may drive the item
  ServersMayFail,  \* whether a remote call of a simulation step may throw
  PromptThreads    \* whether a simulation thread gets through the few
                   \* instructions around a change of isExecuting_ before the
                   \* SWT thread dispatches its next event

Clients == {"toolbar", "script"}

ASSUME SimulationLoopAssumption ==
  /\ MaxSessions \in Nat
  /\ MaxTotalTime \in Nat
  /\ TotalTimes \subseteq 0 .. MaxTotalTime
  /\ ViewEvery \in Nat \ {0}
  /\ ViewModes \subseteq BOOLEAN
  /\ ClientModes \subseteq SUBSET Clients
  /\ ServersMayFail \in BOOLEAN
  /\ PromptThreads \in BOOLEAN

VARIABLES
  isExecuting_, simThreadState_, viewSimulationUpdate_,
  isInteractive_, isSimulatingView_, simTime_, totalTime_,
  controllers,  \* the controllers were started and not yet deactivated
  thread,       \* the simulation thread of each session: where it stands
  timer,        \* the timer Runnable of each session
  stack,        \* the SWT thread: nested handlers, the running one last
  button,       \* the toolbar button of StartSimulate is enabled
  attached,     \* the item still belongs to the open project
  script,       \* the thread that runs a Python script
  clients,      \* who drives the item, fixed in each behaviour
  sessions      \* successful starts so far

vars == <<isExecuting_, simThreadState_, viewSimulationUpdate_,
          isInteractive_, isSimulatingView_, simTime_, totalTime_, controllers,
          thread, timer, stack, button, attached, script, clients, sessions>>

Session == 1 .. MaxSessions

ThreadState ==
  {"unborn", "born", "loop", "step", "dynamics", "publish", "viewWait", "late",
   "timeWait", "woken", "exit", "stopping", "failing", "failed", "dead"}

TimerState == {"none", "armed", "running", "done"}

StartPlaces == {"check", "noWorld", "confirm", "setUp"}
StartFrame == [at : StartPlaces, by : Clients]
TimerFrame == [at : {"timeUp", "interrupt", "finish", "finishInterrupt"},
               of : Session]
Frame == StartFrame \cup TimerFrame

ScriptState == {"idle", "posted", "calling", "ready", "waiting", "aborted"}

-----------------------------------------------------------------------------
(* The SWT thread.                                                         *)

Live(t) == thread[t] \notin {"unborn", "dead"}

Top == stack[Len(stack)]
Push(f) == stack' = Append(stack, f)
Pop == stack' = SubSeq(stack, 1, Len(stack) - 1)

Running(place) == stack # <<>> /\ Top.at = place

\* The SWT thread is in an event loop: its own or that of a modal dialog.  Only
\* the first instructions of a start, and the confirmation a script is not
\* asked for, show none.
Dispatching ==
  /\ ~Running("check")
  /\ ~(Running("confirm") /\ Top.by = "script")

\* A simulation thread is between two of the instructions that change
\* isExecuting_ and simThreadState_ at its start and at its end.
InTransit(t) ==
  thread[t] \in {"born", "woken", "exit", "stopping", "failing", "failed"}

NoneInTransit == PromptThreads => \A t \in Session : ~InTransit(t)

\* The timer has yet to notice that the simulation thread ended.
EndPending ==
  /\ simThreadState_ \in {"STOP", "INTERRUPT"}
  /\ \E s \in Session : timer[s] = "armed"

ViewWaiters == {t \in Session : thread[t] = "viewWait"}

-----------------------------------------------------------------------------
Init ==
  /\ isExecuting_ = FALSE
  /\ simThreadState_ = "EXEC"
  /\ viewSimulationUpdate_ = FALSE
  /\ isInteractive_ = TRUE
  /\ isSimulatingView_ = FALSE
  /\ simTime_ = 0
  /\ totalTime_ \in TotalTimes
  /\ controllers = FALSE
  /\ thread = [t \in Session |-> "unborn"]
  /\ timer = [s \in Session |-> "none"]
  /\ stack = <<>>
  /\ button = TRUE
  /\ attached = TRUE
  /\ script = "idle"
  /\ clients \in ClientModes
  /\ sessions = 0

-----------------------------------------------------------------------------
(* Clients.                                                                *)

\* Mutant of Click: the button is not disabled while a simulation stops.
Click_StaysEnabled ==
  /\ "toolbar" \in clients
  /\ stack = <<>>
  /\ attached
  /\ button
  /\ NoneInTransit
  /\ PromptThreads => ~EndPending
  /\ IF isExecuting_
     THEN isExecuting_' = FALSE /\ UNCHANGED <<stack, button>>
     ELSE /\ Push([at |-> "check", by |-> "toolbar"])
          /\ button' = FALSE
          /\ UNCHANGED isExecuting_
  /\ UNCHANGED <<simThreadState_, viewSimulationUpdate_, isInteractive_,
                 isSimulatingView_, simTime_, totalTime_, controllers, thread,
                 timer, attached, script, clients, sessions>>

\* StartSimulate.run: the button stops a running simulation or starts one,
\* and stays disabled until the item notifies its observers.  A user is not
\* faster than the 10 ms timer when the threads are prompt.
Click ==
  /\ "toolbar" \in clients
  /\ stack = <<>>
  /\ attached
  /\ button
  /\ NoneInTransit
  /\ PromptThreads => ~EndPending
  /\ button' = FALSE
  /\ IF isExecuting_
     THEN isExecuting_' = FALSE /\ UNCHANGED stack
     ELSE Push([at |-> "check", by |-> "toolbar"]) /\ UNCHANGED isExecuting_
  /\ UNCHANGED <<simThreadState_, viewSimulationUpdate_, isInteractive_,
                 isSimulatingView_, simTime_, totalTime_, controllers, thread,
                 timer, attached, script, clients, sessions>>

\* GrxProjectItem.load: stops the simulation, then removes the item from the
\* project, so that the toolbar no longer reaches it.
LoadProject ==
  /\ stack = <<>>
  /\ attached
  /\ NoneInTransit
  /\ isExecuting_' = FALSE
  /\ attached' = FALSE
  /\ UNCHANGED <<simThreadState_, viewSimulationUpdate_, isInteractive_,
                 isSimulatingView_, simTime_, totalTime_, controllers, thread,
                 timer, stack, button, script, clients, sessions>>

\* The script posts startSimulation(0) with syncExec and blocks.
ScriptPost ==
  /\ "script" \in clients
  /\ script = "idle"
  /\ script' = "posted"
  /\ UNCHANGED <<isExecuting_, simThreadState_, viewSimulationUpdate_,
                 isInteractive_, isSimulatingView_, simTime_, totalTime_,
                 controllers, thread, timer, stack, button, attached, clients,
                 sessions>>

\* The SWT thread runs what the script posted.
ScriptStart ==
  /\ script = "posted"
  /\ Dispatching
  /\ NoneInTransit
  /\ script' = "calling"
  /\ Push([at |-> "check", by |-> "script"])
  /\ UNCHANGED <<isExecuting_, simThreadState_, viewSimulationUpdate_,
                 isInteractive_, isSimulatingView_, simTime_, totalTime_,
                 controllers, thread, timer, button, attached, clients,
                 sessions>>

\* waitStopSimulation: the script waits on lock2_, whatever has happened since
\* startSimulation returned.
ScriptWait ==
  /\ script = "ready"
  /\ script' = "waiting"
  /\ UNCHANGED <<isExecuting_, simThreadState_, viewSimulationUpdate_,
                 isInteractive_, isSimulatingView_, simTime_, totalTime_,
                 controllers, thread, timer, stack, button, attached, clients,
                 sessions>>

\* The wait is interrupted: stopSimulation, and the exception ends the script.
ScriptInterrupted ==
  /\ script = "waiting"
  /\ script' = "aborted"
  /\ isExecuting_' = FALSE
  /\ UNCHANGED <<simThreadState_, viewSimulationUpdate_, isInteractive_,
                 isSimulatingView_, simTime_, totalTime_, controllers, thread,
                 timer, stack, button, attached, clients, sessions>>

-----------------------------------------------------------------------------
(* startSimulation, on the SWT thread.                                     *)

\* startSimulation returns: the script goes on, the toolbar ignores the result.
StartReturns ==
  /\ Pop
  /\ script' = IF Top.by = "script" THEN "ready" ELSE script

\* A simulation is executing, or the user has closed the dialog that says that
\* no world is selected.
StartRefused ==
  /\ \/ Running("check") /\ isExecuting_
     \/ Running("noWorld")
  /\ StartReturns
  /\ UNCHANGED <<isExecuting_, simThreadState_, viewSimulationUpdate_,
                 isInteractive_, isSimulatingView_, simTime_, totalTime_,
                 controllers, thread, timer, button, attached, clients,
                 sessions>>

\* The first tests are passed, and the user is asked to confirm that the log is
\* cleared; or no world is selected.
StartChecks ==
  /\ Running("check")
  /\ ~isExecuting_
  /\ \/ /\ stack' = [stack EXCEPT ![Len(stack)].at = "confirm"]
        /\ isInteractive_' = (Top.by = "toolbar")
     \/ /\ stack' = [stack EXCEPT ![Len(stack)].at = "noWorld"]
        /\ UNCHANGED isInteractive_
  /\ UNCHANGED <<isExecuting_, simThreadState_, viewSimulationUpdate_,
                 isSimulatingView_, simTime_, totalTime_, controllers, thread,
                 timer, button, attached, script, clients, sessions>>

\* The parameters are read into the fields.
StartReads ==
  /\ Running("confirm")
  /\ stack' = [stack EXCEPT ![Len(stack)].at = "setUp"]
  /\ totalTime_' \in TotalTimes \cup {totalTime_}
  /\ isSimulatingView_' \in ViewModes
  /\ UNCHANGED <<isExecuting_, simThreadState_, viewSimulationUpdate_,
                 isInteractive_, simTime_, controllers, thread, timer, button,
                 attached, script, clients, sessions>>

\* The user declines; or a parameter is wrong, the dynamics simulator or a
\* controller cannot be set up.  The controllers of the other robots have been
\* started, and nothing stops them.
StartFails ==
  /\ \/ Running("confirm") /\ Top.by = "toolbar" /\ UNCHANGED controllers
     \/ Running("setUp") /\ controllers' \in {controllers, TRUE}
  /\ StartReturns
  /\ UNCHANGED <<isExecuting_, simThreadState_, viewSimulationUpdate_,
                 isInteractive_, isSimulatingView_, simTime_, totalTime_,
                 thread, timer, button, attached, clients, sessions>>

\* Mutant of StartSucceeds: simThreadState_ is not reset to EXEC.
StartSucceeds_NoReset ==
  /\ Running("setUp")
  /\ sessions < MaxSessions
  /\ StartReturns
  /\ sessions' = sessions + 1
  /\ thread' = [thread EXCEPT ![sessions + 1] = "born"]
  /\ timer' = [timer EXCEPT ![sessions + 1] = "armed"]
  /\ controllers' = TRUE
  /\ viewSimulationUpdate_' = FALSE
  /\ simTime_' = 0
  /\ button' = (button \/ attached)
  /\ UNCHANGED <<isExecuting_, isInteractive_, isSimulatingView_, totalTime_,
                 simThreadState_, attached, clients>>

\* Everything is set up: observers are notified (which enables the button),
\* the fields are reset, the thread is started and the timer armed.
StartSucceeds ==
  /\ Running("setUp")
  /\ sessions < MaxSessions
  /\ StartReturns
  /\ sessions' = sessions + 1
  /\ thread' = [thread EXCEPT ![sessions + 1] = "born"]
  /\ timer' = [timer EXCEPT ![sessions + 1] = "armed"]
  /\ controllers' = TRUE
  /\ simThreadState_' = "EXEC"
  /\ viewSimulationUpdate_' = FALSE
  /\ simTime_' = 0
  /\ button' = (button \/ attached)
  /\ UNCHANGED <<isExecuting_, isInteractive_, isSimulatingView_, totalTime_,
                 attached, clients>>

-----------------------------------------------------------------------------
(* The simulation thread t.                                                *)

Moves(t, from, to) ==
  /\ thread[t] = from
  /\ thread' = [thread EXCEPT ![t] = to]

\* What a simulation thread never writes.
UIOnly == <<isInteractive_, isSimulatingView_, totalTime_, controllers, timer,
            stack, button, attached, script, clients, sessions>>

Begin(t) ==
  /\ Moves(t, "born", "loop")
  /\ isExecuting_' = TRUE
  /\ UNCHANGED <<simThreadState_, viewSimulationUpdate_, simTime_, UIOnly>>

\* while (isExecuting_)
Loop(t) ==
  /\ Moves(t, "loop", IF isExecuting_ THEN "step" ELSE "exit")
  /\ UNCHANGED <<isExecuting_, simThreadState_, viewSimulationUpdate_,
                 simTime_, UIOnly>>

\* Mutant of CheckTime: one step too many.
CheckTime_OffByOne(t) ==
  /\ Moves(t, "step", IF simTime_ > totalTime_ + 1 THEN "late" ELSE "dynamics")
  /\ UNCHANGED <<isExecuting_, simThreadState_, viewSimulationUpdate_,
                 simTime_, UIOnly>>

\* simulateOneStep begins: is the total time over?
CheckTime(t) ==
  /\ Moves(t, "step", IF simTime_ > totalTime_ THEN "late" ELSE "dynamics")
  /\ UNCHANGED <<isExecuting_, simThreadState_, viewSimulationUpdate_,
                 simTime_, UIOnly>>

ViewDue(time) == isSimulatingView_ /\ time % ViewEvery = 0

\* The controllers compute, the dynamics server integrates, the world state is
\* fetched and logged; any of these remote calls may throw once the clock has
\* advanced.
Dynamics(t) ==
  /\ simTime_' = simTime_ + 1
  /\ \/ Moves(t, "dynamics",
              IF ViewDue(simTime_ + 1) THEN "publish" ELSE "loop")
     \/ ServersMayFail /\ Moves(t, "dynamics", "failing")
  /\ UNCHANGED <<isExecuting_, simThreadState_, viewSimulationUpdate_, UIOnly>>

\* Mutant of Publish: the simulation goes on without waiting for the paint.
Publish_NoWait(t) ==
  /\ Moves(t, "publish", "loop")
  /\ viewSimulationUpdate_' = TRUE
  /\ UNCHANGED <<isExecuting_, simThreadState_, simTime_, UIOnly>>

\* synchronized(lock3_): raise the flag and wait for the paint.
Publish(t) ==
  /\ Moves(t, "publish", "viewWait")
  /\ viewSimulationUpdate_' = TRUE
  /\ UNCHANGED <<isExecuting_, simThreadState_, simTime_, UIOnly>>

\* synchronized(lock_): ask for more time and wait for the answer.
TimeOver(t) ==
  /\ Moves(t, "late", "timeWait")
  /\ simThreadState_' = "TIMEOVER"
  /\ UNCHANGED <<isExecuting_, viewSimulationUpdate_, simTime_, UIOnly>>

\* Mutant of Resume: it sets isExecuting_ as the beginning of run() does.
Resume_SetsExecuting(t) ==
  /\ Moves(t, "woken", IF simThreadState_ = "STOP" THEN "exit" ELSE "loop")
  /\ isExecuting_' = TRUE
  /\ UNCHANGED <<simThreadState_, viewSimulationUpdate_, simTime_, UIOnly>>

\* Mutant of Resume: the answer is not looked at.
Resume_IgnoresStop(t) ==
  /\ Moves(t, "woken", "loop")
  /\ UNCHANGED <<isExecuting_, simThreadState_, viewSimulationUpdate_,
                 simTime_, UIOnly>>

\* Woken up on lock_: has the answer been to stop?
Resume(t) ==
  /\ Moves(t, "woken", IF simThreadState_ = "STOP" THEN "exit" ELSE "loop")
  /\ UNCHANGED <<isExecuting_, simThreadState_, viewSimulationUpdate_,
                 simTime_, UIOnly>>

\* The two writes that end run(), on the normal and on the exception path.
ClearExecuting(t) ==
  /\ \/ Moves(t, "exit", "stopping")
     \/ Moves(t, "failing", "failed")
  /\ isExecuting_' = FALSE
  /\ UNCHANGED <<simThreadState_, viewSimulationUpdate_, simTime_, UIOnly>>

ReportStop(t) ==
  /\ Moves(t, "stopping", "dead")
  /\ simThreadState_' = "STOP"
  /\ UNCHANGED <<isExecuting_, viewSimulationUpdate_, simTime_, UIOnly>>

ReportFailure(t) ==
  /\ Moves(t, "failed", "dead")
  /\ simThreadState_' = "INTERRUPT"
  /\ UNCHANGED <<isExecuting_, viewSimulationUpdate_, simTime_, UIOnly>>

ThreadStep(t) ==
  \/ Begin(t) \/ Loop(t) \/ CheckTime(t) \/ Dynamics(t) \/ Publish(t)
  \/ TimeOver(t) \/ Resume(t) \/ ClearExecuting(t) \/ ReportStop(t)
  \/ ReportFailure(t)

-----------------------------------------------------------------------------
(* The timer Runnable of session s, on the SWT thread.                     *)

TimerRuns(s) ==
  /\ timer[s] = "armed"
  /\ Dispatching
  /\ NoneInTransit

\* The threads that notify() may release from the wait set W.
NotifyOne(W) == IF W = {} THEN {{}} ELSE {{t} : t \in W}

\* The paint of case EXEC, which notifies lock3_.  With wakeAll,
\* lock_.notifyAll has just released those that asked for more time.
PaintAndRelease(wakeAll) ==
  LET painted == isSimulatingView_ /\ viewSimulationUpdate_ IN
  /\ viewSimulationUpdate_' = (viewSimulationUpdate_ /\ ~painted)
  /\ \E released \in IF painted THEN NotifyOne(ViewWaiters) ELSE {{}} :
       thread' = [t \in Session |->
                    IF t \in released THEN "loop"
                    ELSE IF wakeAll /\ thread[t] = "timeWait" THEN "woken"
                    ELSE thread[t]]

\* case EXEC: paint the 3D view if asked to, and re-arm.
TimerExec(s) ==
  /\ TimerRuns(s)
  /\ simThreadState_ = "EXEC"
  /\ PaintAndRelease(FALSE)
  /\ UNCHANGED <<isExecuting_, simThreadState_, isInteractive_,
                 isSimulatingView_, simTime_, totalTime_, controllers, timer,
                 stack, button, attached, script, clients, sessions>>

\* Mutant of TimerTimeOver: lock_ is not notified.
TimerTimeOver_NoNotify(s) ==
  /\ TimerRuns(s)
  /\ simThreadState_ = "TIMEOVER"
  /\ ~isInteractive_
  /\ simThreadState_' = "STOP"
  /\ PaintAndRelease(FALSE)
  /\ UNCHANGED <<isExecuting_, isInteractive_, isSimulatingView_, simTime_,
                 totalTime_, controllers, timer, stack, button, attached,
                 script, clients, sessions>>

\* case TIMEOVER of a simulation that is not interactive: stop, wake the
\* simulation thread, fall through to case EXEC.
TimerTimeOver(s) ==
  /\ TimerRuns(s)
  /\ simThreadState_ = "TIMEOVER"
  /\ ~isInteractive_
  /\ simThreadState_' = "STOP"
  /\ PaintAndRelease(TRUE)
  /\ UNCHANGED <<isExecuting_, isInteractive_, isSimulatingView_, simTime_,
                 totalTime_, controllers, timer, stack, button, attached,
                 script, clients, sessions>>

\* case TIMEOVER of an interactive one: extendTime asks the user.
TimerAsks(s) ==
  /\ TimerRuns(s)
  /\ simThreadState_ = "TIMEOVER"
  /\ isInteractive_
  /\ timer' = [timer EXCEPT ![s] = "running"]
  /\ Push([at |-> "timeUp", of |-> s])
  /\ UNCHANGED <<isExecuting_, simThreadState_, viewSimulationUpdate_,
                 isInteractive_, isSimulatingView_, simTime_, totalTime_,
                 controllers, thread, button, attached, script, clients,
                 sessions>>

\* Mutant of AnswerTimeUp: the extension is not tested to be positive.
AnswerTimeUp_AnyExtension ==
  /\ Running("timeUp")
  /\ \E d \in -1 .. MaxTotalTime - totalTime_ : totalTime_' = totalTime_ + d
  /\ simThreadState_' \in {"EXEC", "STOP"}
  /\ PaintAndRelease(TRUE)
  /\ timer' = [timer EXCEPT ![Top.of] = "armed"]
  /\ Pop
  /\ UNCHANGED <<isExecuting_, isInteractive_, isSimulatingView_, simTime_,
                 controllers, button, attached, script, clients, sessions>>

\* Mutant of AnswerTimeUp: case TIMEOVER does not fall through to the re-arm.
AnswerTimeUp_NoRearm ==
  /\ Running("timeUp")
  /\ simThreadState_' \in {"EXEC", "STOP"}
  /\ PaintAndRelease(TRUE)
  /\ timer' = [timer EXCEPT ![Top.of] = "done"]
  /\ Pop
  /\ UNCHANGED <<isExecuting_, isInteractive_, isSimulatingView_, simTime_,
                 totalTime_, controllers, button, attached, script, clients,
                 sessions>>

\* The user answers: stop, or go on for d more steps.
AnswerTimeUp ==
  /\ Running("timeUp")
  /\ \/ /\ simThreadState_' = "STOP"
        /\ UNCHANGED totalTime_
     \/ \E d \in 1 .. MaxTotalTime - totalTime_ :
          /\ totalTime_' = totalTime_ + d
          /\ simThreadState_' = "EXEC"
  /\ PaintAndRelease(TRUE)
  /\ timer' = [timer EXCEPT ![Top.of] = "armed"]
  /\ Pop
  /\ UNCHANGED <<isExecuting_, isInteractive_, isSimulatingView_, simTime_,
                 controllers, button, attached, script, clients, sessions>>

\* Mutant of SessionEnds: lock2_ is never notified.
SessionEnds_NoNotify(s, notify) ==
  /\ timer' = [timer EXCEPT ![s] = "done"]
  /\ button' = (button \/ attached)
  /\ UNCHANGED script

\* The last lines of endOfSimulation notify the observers, among them the
\* button.  Only case STOP then notifies lock2_.
SessionEnds(s, notify) ==
  /\ timer' = [timer EXCEPT ![s] = "done"]
  /\ button' = (button \/ attached)
  /\ script' = IF notify /\ script = "waiting" THEN "idle" ELSE script

\* case STOP: endOfSimulation stops the controllers; an interactive session
\* shows its result in a dialog before the observers are notified.
TimerStop(s) ==
  /\ TimerRuns(s)
  /\ simThreadState_ = "STOP"
  /\ controllers' = FALSE
  /\ isInteractive_' = FALSE
  /\ IF isInteractive_
     THEN /\ Push([at |-> "finish", of |-> s])
          /\ timer' = [timer EXCEPT ![s] = "running"]
          /\ UNCHANGED <<button, script>>
     ELSE SessionEnds(s, TRUE) /\ UNCHANGED stack
  /\ UNCHANGED <<isExecuting_, simThreadState_, viewSimulationUpdate_,
                 isSimulatingView_, simTime_, totalTime_, thread, attached,
                 clients, sessions>>

\* case INTERRUPT: an error dialog, then endOfSimulation.
TimerInterrupt(s) ==
  /\ TimerRuns(s)
  /\ simThreadState_ = "INTERRUPT"
  /\ timer' = [timer EXCEPT ![s] = "running"]
  /\ Push([at |-> "interrupt", of |-> s])
  /\ UNCHANGED <<isExecuting_, simThreadState_, viewSimulationUpdate_,
                 isInteractive_, isSimulatingView_, simTime_, totalTime_,
                 controllers, thread, button, attached, script, clients,
                 sessions>>

AnswerInterrupt ==
  /\ Running("interrupt")
  /\ controllers' = FALSE
  /\ isInteractive_' = FALSE
  /\ IF isInteractive_
     THEN /\ stack' = [stack EXCEPT ![Len(stack)].at = "finishInterrupt"]
          /\ UNCHANGED <<timer, button, script>>
     ELSE SessionEnds(Top.of, FALSE) /\ Pop
  /\ UNCHANGED <<isExecuting_, simThreadState_, viewSimulationUpdate_,
                 isSimulatingView_, simTime_, totalTime_, thread, attached,
                 clients, sessions>>

\* The result dialog is closed.
AnswerFinish ==
  /\ Running("finish") \/ Running("finishInterrupt")
  /\ SessionEnds(Top.of, Top.at = "finish")
  /\ Pop
  /\ UNCHANGED <<isExecuting_, simThreadState_, viewSimulationUpdate_,
                 isInteractive_, isSimulatingView_, simTime_, totalTime_,
                 controllers, thread, attached, clients, sessions>>

TimerStep(s) ==
  \/ TimerExec(s) \/ TimerTimeOver(s) \/ TimerAsks(s) \/ TimerStop(s)
  \/ TimerInterrupt(s)

\* startSimulation goes on to its end; the user answers its dialogs.
StartStep ==
  \/ StartRefused \/ StartChecks \/ StartReads \/ StartFails \/ StartSucceeds

\* The user answers the dialogs of the timer.
Answer == AnswerTimeUp \/ AnswerInterrupt \/ AnswerFinish

ClientStep ==
  \/ Click \/ LoadProject
  \/ ScriptPost \/ ScriptStart \/ ScriptWait \/ ScriptInterrupted

Next ==
  \/ ClientStep
  \/ StartStep
  \/ Answer
  \/ \E s \in Session : ThreadStep(s) \/ TimerStep(s)

\* Every thread is scheduled, an armed timer is run, a dialog is answered.
\* Nobody has to click, to load a project or to run a script.
Fairness ==
  /\ \A s \in Session : WF_vars(ThreadStep(s)) /\ WF_vars(TimerStep(s))
  /\ WF_vars(StartStep)
  /\ WF_vars(Answer)
  /\ WF_vars(ScriptStart)
  /\ WF_vars(ScriptWait)

Safety == Init /\ [][Next]_vars

Spec == Safety /\ Fairness

-----------------------------------------------------------------------------
(* Properties.                                                             *)

\* The fields and control states keep their types: the one type invariant.
TypeOK ==
  /\ isExecuting_ \in BOOLEAN
  /\ simThreadState_ \in {"EXEC", "TIMEOVER", "STOP", "INTERRUPT"}
  /\ viewSimulationUpdate_ \in BOOLEAN
  /\ isInteractive_ \in BOOLEAN
  /\ isSimulatingView_ \in BOOLEAN
  /\ simTime_ \in Nat
  /\ totalTime_ \in 0 .. MaxTotalTime
  /\ controllers \in BOOLEAN
  /\ thread \in [Session -> ThreadState]
  /\ timer \in [Session -> TimerState]
  /\ stack \in Seq(Frame)
  /\ button \in BOOLEAN
  /\ attached \in BOOLEAN
  /\ script \in ScriptState
  /\ clients \in SUBSET Clients
  /\ sessions \in 0 .. MaxSessions

\* The SWT thread never signals a monitor nobody waits on: while a request
\* stands - paint the view, or extend the time - a simulation thread is blocked
\* on the monitor that the answer will notify.  Both requests are raised inside
\* synchronized blocks together with the wait (lines 318-321 and 442-449), and
\* the property survives any number of overlapping sessions.
NoEmptySignal ==
  /\ viewSimulationUpdate_ => ViewWaiters # {}
  /\ simThreadState_ = "TIMEOVER" => \E t \in Session : thread[t] = "timeWait"

\* At most one session is alive: one simulation thread writes simTime_ and
\* talks to the servers, and one timer serves it.  isExecuting_ alone does not
\* ensure it: it is false before run() begins, after stopSimulation, and before
\* run() ends.
OneSession ==
  \A s, t \in Session :
    /\ Live(s) \/ timer[s] \in {"armed", "running"}
    /\ Live(t) \/ timer[t] \in {"armed", "running"}
    => s = t

\* While the view may be painted from wsx_, no simulation thread runs that
\* could write wsx_ or append to the world state log.
PaintExclusive ==
  viewSimulationUpdate_ => \A t \in Session : Live(t) => thread[t] = "viewWait"

\* A simulation thread blocked on lock_ or lock3_ has its timer to release it.
NoStrandedThread ==
  \A t \in Session :
    thread[t] \in {"timeWait", "viewWait"} => timer[t] \in {"armed", "running"}

\* A stop the user asked for sticks: as long as the button stays disabled for
\* an open session, nothing sets isExecuting_ again.
StopSticks ==
  (clients = {"toolbar"} /\ ~button /\ attached) =>
    \A s \in Session : timer[s] \in {"armed", "running"} => ~isExecuting_

\* A session is open until endOfSimulation deactivates the controllers.
IsOpen ==
  \/ \E s \in Session : timer[s] = "armed"
  \/ \E i \in DOMAIN stack : stack[i].at \in {"timeUp", "interrupt"}

\* The clock of an open session goes at most one step beyond the total time
\* (the test is on simTime_ before the step), also after an extension.
ClockBound == IsOpen => simTime_ <= totalTime_ + 1

SessionView == INSTANCE SimulationSession
                 WITH open <- IsOpen, clock <- simTime_

\* The loop implements sessions that follow one another: only an open session
\* with its controllers running advances the clock, a start comes after the end
\* of the session before, and every session is closed in the end.
ImplementsSession == SessionView!Spec

\* Every simulation thread ends: no monitor keeps it, whatever the moment of a
\* stop, a failure, the end of the total time or the loading of a project.
ThreadsEnd ==
  \A t \in Session : thread[t] = "born" ~> thread[t] = "dead"

\* A script that waits in waitStopSimulation for an open simulation is released,
\* as the sample script expects of each of its three simulations.
ScriptReleased == (script = "waiting" /\ IsOpen) ~> script # "waiting"

\* What the code gives it: it is released, simulation after simulation, however
\* the simulation ends, but for a failure.
ScriptEnds ==
  (script = "waiting" /\ IsOpen)
    ~> (script # "waiting" \/ simThreadState_ = "INTERRUPT")
=============================================================================
