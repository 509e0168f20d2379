------------------------ MODULE SimulationDiscipline ------------------------
(***************************************************************************)
(* Why the simulation loop is right when one client at a time drives it    *)
(* and the simulation thread is prompt: the inductive invariant behind     *)
(* OneSession, PaintExclusive, NoStrandedThread, ClockBound, StopSticks    *)
(* and the implementation of SimulationSession.                            *)
(***************************************************************************)
EXTENDS SimulationLoop

\* The use of the item the code is written for: a user at the toolbar, or a
\* script, and a simulation thread that is not overtaken by the 10 ms timer in
\* the few instructions around its start and its end.
Disciplined ==
  /\ PromptThreads
  /\ ClientModes \subseteq {{"toolbar"}, {"script"}}

\* The last session started is not over.
Active == sessions > 0 /\ timer[sessions] \in {"armed", "running"}

\* The thread of a session that may still go round its loop.
Working ==
  {"loop", "step", "dynamics", "publish", "viewWait", "late", "timeWait",
   "woken", "exit"}

\* Sessions before the last one are over, and so is the thread of the last one
\* once its timer is done.
SessionsInOrder ==
  \A s \in Session :
    /\ s < sessions => thread[s] = "dead" /\ timer[s] = "done"
    /\ s > sessions => thread[s] = "unborn" /\ timer[s] = "none"
    /\ s = sessions => /\ thread[s] # "unborn"
                       /\ timer[s] # "none"
                       /\ timer[s] = "done" => thread[s] = "dead"

\* What the SWT thread is doing: nothing, a start with no session active, or a
\* dialog of the timer of the active session, whose thread waits or is dead.
Idle ==
  /\ stack = <<>>
  /\ sessions > 0 => timer[sessions] # "running"

Starting ==
  /\ ~Active
  /\ \E f \in StartFrame :
       /\ stack = <<f>>
       /\ clients = {f.by}
       /\ f.by = "script" => script = "calling"

Asking ==
  /\ sessions > 0
  /\ timer[sessions] = "running"
  /\ \E f \in TimerFrame :
       /\ stack = <<f>>
       /\ f.of = sessions
       /\ IF f.at = "timeUp"
          THEN thread[sessions] = "timeWait" /\ simThreadState_ = "TIMEOVER"
          ELSE thread[sessions] = "dead"

OneHandler == Idle \/ Starting \/ Asking

\* simThreadState_, the message between the two threads, against the place of
\* the simulation thread, while the timer is armed.
StateAgrees ==
  (sessions > 0 /\ timer[sessions] = "armed") =>
    LET at == thread[sessions] IN
    /\ at \in {"born", "loop", "step", "dynamics", "publish", "viewWait", "late"}
         => simThreadState_ = "EXEC"
    /\ at = "timeWait" => simThreadState_ = "TIMEOVER"
    /\ at \in {"woken", "exit", "stopping", "failing", "failed"}
         => simThreadState_ \in {"EXEC", "STOP"}
    /\ at = "dead" => simThreadState_ \in {"STOP", "INTERRUPT"}

\* The script is inside startSimulation or has returned from it.
ClientAgrees ==
  /\ clients \in {{"toolbar"}, {"script"}}
  /\ clients = {"toolbar"} => script = "idle"
  /\ clients = {"script"} /\ Active => script \in {"ready", "waiting", "aborted"}

\* isExecuting_ is false during a session only when a stop was asked for, and
\* then the button is disabled or the item left the project.
StopAsked ==
  Active /\ clients = {"toolbar"} =>
    /\ thread[sessions] \in Working /\ ~isExecuting_ => ~button \/ ~attached
    /\ ~button /\ attached => ~isExecuting_ /\ thread[sessions] # "born"

PaintAgrees ==
  viewSimulationUpdate_ => sessions > 0 /\ thread[sessions] = "viewWait"

ControllersRun == IsOpen => controllers

ClockAgrees ==
  Active =>
    /\ simTime_ <= totalTime_ + 1
    /\ thread[sessions] = "dynamics" => simTime_ <= totalTime_

\* All of it together is inductive.
DisciplineInv ==
  /\ SessionsInOrder
  /\ OneHandler
  /\ StateAgrees
  /\ ClientAgrees
  /\ StopAsked
  /\ PaintAgrees
  /\ ControllersRun
  /\ ClockAgrees
=============================================================================
