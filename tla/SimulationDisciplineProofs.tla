--------------------- MODULE SimulationDisciplineProofs ---------------------
(***************************************************************************)
(* Theorems about SimulationLoop used as Disciplined says, for every       *)
(* number of sessions, every total time and every view rate; among them    *)
(* that it then implements the safety part of SimulationSession.           *)
(***************************************************************************)
EXTENDS SimulationDiscipline, SimulationLoopProofs

\* Only the thread of the last session can step, and then the timer is armed
\* and no handler runs on the SWT thread.
LEMMA StepperIsLast ==
  ASSUME TypeOK, DisciplineInv, NEW t \in Session,
         thread[t] \notin {"unborn", "dead", "timeWait"}
  PROVE  /\ t = sessions
         /\ sessions > 0
         /\ timer[t] = "armed"
         /\ stack = <<>>
  <1>1. t = sessions /\ sessions > 0 /\ timer[t] # "none" /\ timer[t] # "done"
    BY DEF TypeOK, DisciplineInv, SessionsInOrder, Session
  <1>2. ~Asking
    BY <1>1 DEF Asking, TypeOK
  <1>3. Active
    BY <1>1 DEF Active, TypeOK, TimerState
  <1>4. Idle
    BY <1>2, <1>3 DEF DisciplineInv, OneHandler, Starting
  <1> QED BY <1>1, <1>3, <1>4 DEF Idle, Active

\* A thread step leaves the rest of the sessions and the handlers alone.
LEMMA ThreadFrame ==
  ASSUME TypeOK, DisciplineInv, NEW t \in Session, ThreadStep(t)
  PROVE  /\ t = sessions /\ sessions > 0 /\ timer[t] = "armed" /\ stack = <<>>
         /\ UNCHANGED UIOnly
         /\ thread'[t] \in ThreadState \ {"unborn"}
         /\ thread' = [thread EXCEPT ![t] = thread'[t]]
  <1> USE DEF Moves, ThreadStep, Begin, Loop, CheckTime, Dynamics, Publish,
              TimeOver, Resume, ClearExecuting, ReportStop, ReportFailure
  <1>1. thread[t] \notin {"unborn", "dead", "timeWait"}
    OBVIOUS
  <1>2. UNCHANGED UIOnly
    OBVIOUS
  <1>3. \E to \in ThreadState \ {"unborn"} : thread' = [thread EXCEPT ![t] = to]
    BY DEF ThreadState
  <1>4. /\ thread'[t] \in ThreadState \ {"unborn"}
        /\ thread' = [thread EXCEPT ![t] = thread'[t]]
    BY <1>3 DEF TypeOK
  <1> QED BY <1>1, <1>2, <1>4, StepperIsLast

LEMMA ThreadKeeps ==
  ASSUME TypeOK, DisciplineInv, NEW t \in Session, ThreadStep(t)
  PROVE  DisciplineInv'
  <1>1. /\ t = sessions /\ sessions > 0 /\ timer[t] = "armed" /\ stack = <<>>
        /\ UNCHANGED UIOnly
        /\ thread'[t] \in ThreadState \ {"unborn"}
        /\ thread' = [thread EXCEPT ![t] = thread'[t]]
    BY ThreadFrame
  <1>2. UNCHANGED <<sessions, timer, stack, clients, script, button, attached,
                    controllers, totalTime_>>
    BY <1>1 DEF UIOnly
  <1>3. SessionsInOrder'
    BY <1>1, <1>2 DEF DisciplineInv, SessionsInOrder, TypeOK
  <1>4. OneHandler'
    BY <1>1, <1>2 DEF OneHandler, Idle
  <1>5. ClientAgrees' /\ ControllersRun'
    BY <1>2 DEF DisciplineInv, ClientAgrees, ControllersRun, Active, IsOpen
  <1>6. /\ StateAgrees /\ StopAsked /\ PaintAgrees /\ ClockAgrees
        /\ clients \in {{"toolbar"}, {"script"}}
    BY DEF DisciplineInv, ClientAgrees
  <1>7. StateAgrees' /\ StopAsked' /\ PaintAgrees' /\ ClockAgrees'
    <2> USE <1>1, <1>2, <1>6
        DEF TypeOK, Moves, StateAgrees, StopAsked, PaintAgrees, ClockAgrees,
            Active, Working, ThreadState
    <2>1. CASE Begin(t) BY <2>1 DEF Begin
    <2>2. CASE Loop(t) BY <2>2 DEF Loop
    <2>3. CASE CheckTime(t) BY <2>3 DEF CheckTime
    <2>4. CASE Dynamics(t) BY <2>4 DEF Dynamics
    <2>5. CASE Publish(t) BY <2>5 DEF Publish
    <2>6. CASE TimeOver(t) BY <2>6 DEF TimeOver
    <2>7. CASE Resume(t) BY <2>7 DEF Resume
    <2>8. CASE ClearExecuting(t) BY <2>8 DEF ClearExecuting
    <2>9. CASE ReportStop(t) BY <2>9 DEF ReportStop
    <2>10. CASE ReportFailure(t) BY <2>10 DEF ReportFailure
    <2> QED
      BY <2>1, <2>2, <2>3, <2>4, <2>5, <2>6, <2>7, <2>8, <2>9, <2>10
      DEF ThreadStep
  <1> QED BY <1>3, <1>4, <1>5, <1>7 DEF DisciplineInv

-----------------------------------------------------------------------------
(* The SWT thread.                                                         *)

\* Steps that only touch the script and leave it in step with its client.
LEMMA ScriptKeeps ==
  ASSUME TypeOK, DisciplineInv,
         UNCHANGED <<simThreadState_, viewSimulationUpdate_, simTime_, totalTime_,
                     controllers, thread, timer, stack, button, attached,
                     clients, sessions>>,
         isExecuting_' = isExecuting_ \/ clients = {"script"},
         clients = {"toolbar"} => script' = script,
         stack # <<>> /\ script = "calling" => script' = "calling",
         Active => script' \in {script, "waiting", "aborted"}
  PROVE  DisciplineInv'
  <1>1. OneHandler'
    BY DEF DisciplineInv, OneHandler, Idle, Starting, Asking, Active
  <1>2. SessionsInOrder' /\ StateAgrees' /\ PaintAgrees' /\ ControllersRun' /\ ClockAgrees'
    BY DEF DisciplineInv, SessionsInOrder, StateAgrees, PaintAgrees,
           ControllersRun, IsOpen, ClockAgrees, Active
  <1>3. ClientAgrees' /\ StopAsked'
    BY DEF DisciplineInv, ClientAgrees, StopAsked, Active
  <1> QED BY <1>1, <1>2, <1>3 DEF DisciplineInv

LEMMA ClientKeeps ==
  ASSUME Disciplined, TypeOK, DisciplineInv, ClientStep
  PROVE  DisciplineInv'
  <1>1. CASE Click
    <2>1. clients = {"toolbar"} /\ stack = <<>> /\ attached /\ button
      BY <1>1 DEF Click, DisciplineInv, ClientAgrees
    <2>2. ~isExecuting_ => ~Active
      <3> SUFFICES ASSUME ~isExecuting_, Active PROVE FALSE
        OBVIOUS
      <3>1. timer[sessions] = "armed" /\ sessions \in Session
        BY <2>1 DEF Active, DisciplineInv, OneHandler, Idle, Starting, Asking,
                    TypeOK, Session
      <3>2. thread[sessions] \notin Working
        BY <2>1 DEF DisciplineInv, StopAsked
      <3>3. thread[sessions] \notin {"born", "stopping", "failing", "failed"}
        BY <1>1, <3>1 DEF Click, NoneInTransit, InTransit, Disciplined
      <3>4. thread[sessions] = "dead"
        BY <3>1, <3>2, <3>3 DEF TypeOK, ThreadState, Working, DisciplineInv,
                                SessionsInOrder
      <3>5. simThreadState_ \in {"STOP", "INTERRUPT"}
        BY <3>1, <3>4 DEF DisciplineInv, StateAgrees, Active
      <3> QED BY <1>1, <3>1, <3>5 DEF Click, EndPending, Disciplined
    <2>3. isExecuting_ => thread[sessions] # "born" \/ ~Active
      <3> SUFFICES ASSUME Active PROVE thread[sessions] # "born"
        OBVIOUS
      <3>1. sessions \in Session
        BY DEF Active, TypeOK, Session
      <3> QED BY <1>1, <3>1 DEF Click, NoneInTransit, InTransit, Disciplined
    <2>4. UNCHANGED <<simThreadState_, viewSimulationUpdate_, simTime_,
                      totalTime_, controllers, thread, timer, attached,
                      clients, sessions, script>>
      BY <1>1 DEF Click
    <2>5. OneHandler'
      <3>1. CASE isExecuting_
        BY <1>1, <2>1, <2>4, <3>1
        DEF Click, DisciplineInv, OneHandler, Idle, Starting, Asking
      <3>2. CASE ~isExecuting_
        <4> DEFINE f == [at |-> "check", by |-> "toolbar"]
        <4>1. f \in StartFrame /\ f.by = "toolbar"
          BY DEF StartFrame, StartPlaces, Clients
        <4>2. stack' = <<f>>
          BY <1>1, <2>1, <3>2 DEF Click, Push
        <4>3. ~Active'
          BY <2>2, <2>4, <3>2 DEF Active
        <4> QED BY <2>1, <2>4, <4>1, <4>2, <4>3 DEF OneHandler, Starting
      <3> QED BY <3>1, <3>2
    <2>6. ControllersRun'
      <3>1. IsOpen' => IsOpen
        BY <1>1, <2>1, <2>4 DEF Click, Push, IsOpen
      <3> QED BY <2>4, <3>1 DEF DisciplineInv, ControllersRun
    <2>7. StopAsked'
      BY <1>1, <2>1, <2>2, <2>3, <2>4 DEF Click, StopAsked, Active
    <2>8. SessionsInOrder' /\ StateAgrees' /\ PaintAgrees' /\ ClockAgrees' /\ ClientAgrees'
      BY <2>4 DEF DisciplineInv, SessionsInOrder, StateAgrees, PaintAgrees,
                  ClockAgrees, ClientAgrees, Active
    <2> QED BY <2>5, <2>6, <2>7, <2>8 DEF DisciplineInv
  <1>2. CASE LoadProject
    <2>1. UNCHANGED <<simThreadState_, viewSimulationUpdate_, simTime_,
                      totalTime_, controllers, thread, timer, stack,
                      clients, sessions, script>>
      BY <1>2 DEF LoadProject
    <2>2. StopAsked'
      BY <1>2, <2>1 DEF LoadProject, StopAsked, Active
    <2>3. OneHandler'
      BY <2>1 DEF DisciplineInv, OneHandler, Idle, Starting, Asking, Active
    <2>4. /\ SessionsInOrder' /\ StateAgrees' /\ PaintAgrees' /\ ClockAgrees'
          /\ ClientAgrees' /\ ControllersRun'
      BY <2>1 DEF DisciplineInv, SessionsInOrder, StateAgrees, PaintAgrees,
                  ClockAgrees, ClientAgrees, Active,
                  ControllersRun, IsOpen
    <2> QED BY <2>2, <2>3, <2>4 DEF DisciplineInv
  <1>3. CASE ScriptPost
    BY <1>3, ScriptKeeps DEF ScriptPost, DisciplineInv, ClientAgrees
  <1>4. CASE ScriptStart
    <2>1. clients = {"script"} /\ ~Active
      BY <1>4 DEF ScriptStart, DisciplineInv, ClientAgrees
    <2>2. stack = <<>>
      BY <1>4, <2>1
      DEF ScriptStart, DisciplineInv, OneHandler, Idle, Starting, Asking, Active
    <2>3. UNCHANGED <<isExecuting_, simThreadState_, viewSimulationUpdate_,
                      simTime_, totalTime_, controllers, thread, timer, button,
                      attached, clients, sessions>>
      BY <1>4 DEF ScriptStart
    <2>4. OneHandler'
      <3> DEFINE f == [at |-> "check", by |-> "script"]
      <3>1. f \in StartFrame /\ f.by = "script"
        BY DEF StartFrame, StartPlaces, Clients
      <3>2. stack' = <<f>> /\ script' = "calling"
        BY <1>4, <2>2 DEF ScriptStart, Push
      <3> QED BY <2>1, <2>3, <3>1, <3>2 DEF OneHandler, Starting, Active
    <2>5. ControllersRun'
      <3>1. IsOpen' => IsOpen
        BY <1>4, <2>2, <2>3 DEF ScriptStart, Push, IsOpen
      <3> QED BY <2>3, <3>1 DEF DisciplineInv, ControllersRun
    <2>6. /\ SessionsInOrder' /\ StateAgrees' /\ PaintAgrees' /\ ClockAgrees'
          /\ ClientAgrees' /\ StopAsked'
      BY <2>1, <2>3
      DEF DisciplineInv, SessionsInOrder, StateAgrees, PaintAgrees,
          ClockAgrees, ClientAgrees, StopAsked, Active
    <2> QED BY <2>4, <2>5, <2>6 DEF DisciplineInv
  <1>5. CASE ScriptWait
    BY <1>5, ScriptKeeps DEF ScriptWait, DisciplineInv, ClientAgrees, TypeOK
  <1>6. CASE ScriptInterrupted
    <2>1. clients = {"script"}
      BY <1>6 DEF ScriptInterrupted, DisciplineInv, ClientAgrees
    <2> QED BY <1>6, <2>1, ScriptKeeps DEF ScriptInterrupted
  <1> QED BY <1>1, <1>2, <1>3, <1>4, <1>5, <1>6 DEF ClientStep

\* A start runs alone: it is the only handler and no session is active.
LEMMA StartAlone ==
  ASSUME TypeOK, DisciplineInv, stack # <<>>, Top.at \in StartPlaces
  PROVE  /\ ~Active
         /\ \E f \in StartFrame : stack = <<f>> /\ Top = f /\ Len(stack) = 1
         /\ clients = {Top.by}
         /\ Top.by = "script" => script = "calling"
         /\ SubSeq(stack, 1, Len(stack) - 1) = <<>>
  <1>1. ~Asking
    BY DEF Asking, TimerFrame, StartPlaces, Top
  <1>2. Starting
    BY <1>1 DEF DisciplineInv, OneHandler, Idle
  <1>3. PICK f \in StartFrame : stack = <<f>> /\ clients = {f.by}
                               /\ (f.by = "script" => script = "calling")
    BY <1>2 DEF Starting
  <1>4. Len(stack) = 1 /\ Top = f
    BY <1>3 DEF Top
  <1>5. SubSeq(stack, 1, Len(stack) - 1) = <<>>
    BY <1>4, SubSeqEmpty
  <1> QED BY <1>2, <1>3, <1>4, <1>5 DEF Starting

\* Leaving a start that did not open a session.
LEMMA StartLeaves ==
  ASSUME TypeOK, DisciplineInv, ~Active, stack' = <<>>,
         UNCHANGED <<isExecuting_, simThreadState_, viewSimulationUpdate_,
                     simTime_, totalTime_, thread, timer, button, attached,
                     clients, sessions>>,
         clients = {"toolbar"} => script' = script
  PROVE  DisciplineInv'
  <1>1. ~Active'
    BY DEF Active
  <1>2. OneHandler'
    BY <1>1 DEF OneHandler, Idle, Active
  <1>3. ControllersRun'
    <2>1. ~IsOpen'
      <3>1. \A s \in Session : timer[s] # "armed"
        BY DEF DisciplineInv, SessionsInOrder, Active, TypeOK, Session
      <3> QED BY <3>1 DEF IsOpen
    <2> QED BY <2>1 DEF ControllersRun
  <1>4. /\ SessionsInOrder' /\ StateAgrees' /\ PaintAgrees' /\ ClockAgrees'
        /\ ClientAgrees' /\ StopAsked'
    BY <1>1 DEF DisciplineInv, SessionsInOrder, StateAgrees, PaintAgrees,
                ClockAgrees, ClientAgrees, StopAsked, Active
  <1> QED BY <1>2, <1>3, <1>4 DEF DisciplineInv

\* A start that goes on to its next place.
LEMMA StartMoves ==
  ASSUME TypeOK, DisciplineInv, stack # <<>>, Top.at \in StartPlaces,
         NEW p \in StartPlaces, stack' = [stack EXCEPT ![Len(stack)].at = p],
         UNCHANGED <<isExecuting_, simThreadState_, viewSimulationUpdate_,
                     simTime_, controllers, thread, timer, button, attached,
                     script, clients, sessions>>
  PROVE  DisciplineInv'
  <1>1. ~Active /\ ~Active'
    BY StartAlone DEF Active
  <1>2. PICK f \in StartFrame : stack = <<f>> /\ Top = f /\ Len(stack) = 1
    BY StartAlone
  <1>3. clients = {f.by} /\ (f.by = "script" => script = "calling")
    BY <1>2, StartAlone
  <1> DEFINE g == [f EXCEPT !.at = p]
  <1>4. g \in StartFrame /\ g.by = f.by
    BY DEF StartFrame
  <1>5. stack' = <<g>>
    BY <1>2
  <1>6. OneHandler'
    BY <1>1, <1>3, <1>4, <1>5 DEF OneHandler, Starting
  <1>7. ControllersRun'
    <2>1. \A s \in Session : timer'[s] # "armed"
      BY <1>1 DEF DisciplineInv, SessionsInOrder, Active, TypeOK, Session
    <2>2. ~IsOpen'
      BY <1>4, <1>5, <2>1 DEF IsOpen, StartFrame, StartPlaces
    <2> QED BY <2>2 DEF ControllersRun
  <1>8. /\ SessionsInOrder' /\ StateAgrees' /\ PaintAgrees' /\ ClockAgrees'
        /\ ClientAgrees' /\ StopAsked'
    BY <1>1
    DEF DisciplineInv, SessionsInOrder, StateAgrees, PaintAgrees, ClockAgrees,
        ClientAgrees, StopAsked, Active
  <1> QED BY <1>6, <1>7, <1>8 DEF DisciplineInv

LEMMA StartKeeps ==
  ASSUME TypeOK, DisciplineInv, StartStep
  PROVE  DisciplineInv'
  <1>a. stack # <<>> /\ Top.at \in StartPlaces
    BY DEF StartStep, StartRefused, StartChecks, StartReads, StartFails,
           StartSucceeds, Running, StartPlaces
  <1>b. /\ ~Active
        /\ clients = {Top.by}
        /\ Top.by = "script" => script = "calling"
        /\ SubSeq(stack, 1, Len(stack) - 1) = <<>>
    BY <1>a, StartAlone
  <1>c. PICK f \in StartFrame : stack = <<f>> /\ Top = f /\ Len(stack) = 1
    BY <1>a, StartAlone
  <1>d. clients = {"toolbar"} => Top.by # "script"
    BY <1>b
  <1>1. CASE StartRefused
    BY <1>1, <1>b, <1>d, StartLeaves DEF StartRefused, StartReturns, Pop
  <1>2. CASE StartFails
    BY <1>2, <1>b, <1>d, StartLeaves DEF StartFails, StartReturns, Pop
  <1>3. CASE StartChecks
    BY <1>3, <1>a, StartMoves DEF StartChecks, StartPlaces
  <1>5. CASE StartReads
    BY <1>5, <1>a, StartMoves DEF StartReads, StartPlaces
  <1>4. CASE StartSucceeds
    <2> DEFINE s1 == sessions + 1
    <2>1. /\ s1 \in Session /\ s1 > 0
          /\ sessions' = s1
          /\ thread' = [thread EXCEPT ![s1] = "born"]
          /\ timer' = [timer EXCEPT ![s1] = "armed"]
      BY <1>4, SimulationLoopAssumption DEF StartSucceeds, TypeOK, Session
    <2>2. thread'[s1] = "born" /\ timer'[s1] = "armed"
      BY <2>1 DEF TypeOK
    <2>3. stack' = <<>> /\ clients' = clients
      BY <1>4, <1>b DEF StartSucceeds, StartReturns, Pop
    <2>4. SessionsInOrder'
      <3>1. \A s \in Session : s <= sessions => thread[s] = "dead" /\ timer[s] = "done"
        BY <1>b DEF DisciplineInv, SessionsInOrder, Active, TypeOK, TimerState, Session
      <3>2. \A s \in Session : s # s1 => thread'[s] = thread[s] /\ timer'[s] = timer[s]
        BY <2>1 DEF TypeOK
      <3>3. \A s \in Session : /\ s < s1 => s <= sessions
                               /\ s > s1 => s > sessions
        BY DEF TypeOK, Session
      <3>4. \A s \in Session : s > sessions => thread[s] = "unborn" /\ timer[s] = "none"
        BY DEF DisciplineInv, SessionsInOrder
      <3> QED BY <2>1, <2>2, <3>1, <3>2, <3>3, <3>4 DEF SessionsInOrder, Session, TypeOK
    <2>5. OneHandler'
      BY <2>1, <2>2, <2>3 DEF OneHandler, Idle
    <2>6. StateAgrees' /\ PaintAgrees' /\ ControllersRun'
      BY <1>4, <2>1, <2>2 DEF StartSucceeds, StateAgrees, PaintAgrees, ControllersRun
    <2>7. ClockAgrees'
      <3>1. totalTime_' \in Nat
        BY <1>4, SimulationLoopAssumption DEF StartSucceeds, TypeOK
      <3>2. simTime_' = 0 /\ thread'[sessions'] = "born"
        BY <1>4, <2>1, <2>2 DEF StartSucceeds
      <3>3. \A n \in Nat : 0 <= n + 1
        OBVIOUS
      <3>4. simTime_' <= totalTime_' + 1
        BY <3>1, <3>2, <3>3
      <3> QED BY <3>2, <3>4 DEF ClockAgrees
    <2>8. ClientAgrees'
      BY <1>4, <1>b, <2>3
      DEF StartSucceeds, StartReturns, DisciplineInv, ClientAgrees
    <2>9. StopAsked'
      BY <1>4, <2>1, <2>2 DEF StartSucceeds, StopAsked, Working
    <2> QED BY <2>4, <2>5, <2>6, <2>7, <2>8, <2>9 DEF DisciplineInv
  <1> QED BY <1>1, <1>2, <1>3, <1>4, <1>5 DEF StartStep

\* A timer step is taken by the last session, on an empty stack, while its
\* simulation thread is in no transit.
LEMMA TimerAlone ==
  ASSUME Disciplined, TypeOK, DisciplineInv, NEW s \in Session, TimerRuns(s)
  PROVE  /\ s = sessions /\ sessions > 0 /\ timer[s] = "armed" /\ stack = <<>>
         /\ Active /\ controllers = TRUE
         /\ ~InTransit(s)
         /\ thread[s] \in ThreadState \ {"unborn"}
  <1>1. timer[s] = "armed" /\ ~InTransit(s)
    BY DEF TimerRuns, NoneInTransit, Disciplined
  <1>2. s = sessions /\ sessions > 0 /\ thread[s] # "unborn"
    BY <1>1 DEF TypeOK, DisciplineInv, SessionsInOrder, Session
  <1>3. Active
    BY <1>1, <1>2 DEF Active
  <1>4. stack = <<>>
    BY <1>1, <1>2, <1>3 DEF DisciplineInv, OneHandler, Idle, Starting, Asking
  <1>5. controllers = TRUE
    BY <1>1 DEF DisciplineInv, ControllersRun, IsOpen, TypeOK
  <1> QED BY <1>1, <1>2, <1>3, <1>4, <1>5 DEF TypeOK

\* What the paint and the release do: they move the thread of the last session
\* at most, and a flag still raised means that it still waits for the paint.
LEMMA PaintEffect ==
  ASSUME TypeOK, DisciplineInv, sessions \in Session, NEW w \in BOOLEAN,
         PaintAndRelease(w)
  PROVE  /\ thread' \in [Session -> ThreadState]
         /\ \A t \in Session : t # sessions => thread'[t] = thread[t]
         /\ \/ thread'[sessions] = thread[sessions]
            \/ thread[sessions] = "viewWait" /\ thread'[sessions] = "loop"
            \/ w /\ thread[sessions] = "timeWait" /\ thread'[sessions] = "woken"
         /\ w => thread'[sessions] # "timeWait"
         /\ viewSimulationUpdate_' =>
              viewSimulationUpdate_ /\ thread'[sessions] = "viewWait"
  <1> DEFINE painted == isSimulatingView_ /\ viewSimulationUpdate_
  <1>1. PICK released \in IF painted THEN NotifyOne(ViewWaiters) ELSE {{}} :
          thread' = [t \in Session |->
                       IF t \in released THEN "loop"
                       ELSE IF w /\ thread[t] = "timeWait" THEN "woken"
                       ELSE thread[t]]
    BY DEF PaintAndRelease
  <1>2. ViewWaiters \subseteq {sessions}
    BY DEF ViewWaiters, DisciplineInv, SessionsInOrder, TypeOK, Session
  <1>3. painted => ViewWaiters = {sessions}
    BY <1>2 DEF ViewWaiters, DisciplineInv, PaintAgrees
  <1>4. released = IF painted THEN {sessions} ELSE {}
    BY <1>1, <1>3 DEF NotifyOne
  <1>5. painted => thread[sessions] = "viewWait"
    BY DEF DisciplineInv, PaintAgrees
  <1>6. \A t \in Session : t # sessions => thread[t] # "timeWait"
    BY DEF DisciplineInv, SessionsInOrder, TypeOK, Session
  <1>7. viewSimulationUpdate_' = (viewSimulationUpdate_ /\ ~painted)
    BY DEF PaintAndRelease
  <1>8. thread'[sessions] =
          IF painted THEN "loop"
          ELSE IF w /\ thread[sessions] = "timeWait" THEN "woken"
          ELSE thread[sessions]
    BY <1>1, <1>4
  <1>9. \A t \in Session : t # sessions => thread'[t] = thread[t]
    BY <1>1, <1>4, <1>6
  <1>10. thread' \in [Session -> ThreadState]
    BY <1>1 DEF TypeOK, ThreadState
  <1>11. viewSimulationUpdate_' => thread[sessions] = "viewWait" /\ ~painted
    BY <1>7 DEF DisciplineInv, PaintAgrees
  <1> QED BY <1>5, <1>7, <1>8, <1>9, <1>10, <1>11

\* The end of the last session, by the last lines of endOfSimulation.
LEMMA EndKeeps ==
  ASSUME TypeOK, DisciplineInv, sessions \in Session, NEW notify \in BOOLEAN,
         thread[sessions] = "dead", SessionEnds(sessions, notify), stack' = <<>>,
         UNCHANGED <<isExecuting_, simThreadState_, viewSimulationUpdate_,
                     simTime_, totalTime_, thread, attached, clients, sessions>>
  PROVE  DisciplineInv'
  <1>1. /\ timer' = [timer EXCEPT ![sessions] = "done"]
        /\ timer'[sessions] = "done"
        /\ clients = {"toolbar"} => script' = script
    BY DEF SessionEnds, TypeOK, DisciplineInv, ClientAgrees
  <1>2. ~Active'
    BY <1>1 DEF Active
  <1>3. SessionsInOrder'
    BY <1>1 DEF DisciplineInv, SessionsInOrder, TypeOK, Session
  <1>4. OneHandler'
    BY <1>1 DEF OneHandler, Idle
  <1>5. \A s \in Session : timer'[s] # "armed"
    BY <1>1, <1>3 DEF SessionsInOrder, TypeOK, Session
  <1>6. ControllersRun'
    BY <1>5 DEF ControllersRun, IsOpen
  <1>7. StateAgrees' /\ ClientAgrees' /\ StopAsked' /\ PaintAgrees' /\ ClockAgrees'
    BY <1>1, <1>2
    DEF DisciplineInv, StateAgrees, ClientAgrees, StopAsked, PaintAgrees,
        ClockAgrees, Active
  <1> QED BY <1>3, <1>4, <1>6, <1>7 DEF DisciplineInv

\* The timer of the last session opens the dialog f.
LEMMA AskKeeps ==
  ASSUME TypeOK, DisciplineInv, sessions \in Session, timer[sessions] = "armed",
         NEW f \in TimerFrame, f.of = sessions, stack' = <<f>>,
         IF f.at = "timeUp"
         THEN thread[sessions] = "timeWait" /\ simThreadState_ = "TIMEOVER"
         ELSE thread[sessions] = "dead",
         f.at \in {"timeUp", "interrupt"} => controllers' = controllers,
         timer' = [timer EXCEPT ![sessions] = "running"],
         UNCHANGED <<isExecuting_, simThreadState_, viewSimulationUpdate_,
                     simTime_, totalTime_, thread, button, attached, script,
                     clients, sessions>>
  PROVE  DisciplineInv'
  <1>1. timer'[sessions] = "running" /\ sessions > 0
    BY DEF TypeOK, Session
  <1>2. Active /\ Active'
    BY <1>1 DEF Active
  <1>3. SessionsInOrder'
    BY <1>1 DEF DisciplineInv, SessionsInOrder, TypeOK, Session
  <1>4. OneHandler'
    BY <1>1 DEF OneHandler, Asking
  <1>5. \A s \in Session : timer'[s] # "armed"
    BY <1>1, <1>3 DEF SessionsInOrder, TypeOK, Session
  <1>6. ControllersRun'
    <2>1. controllers = TRUE
      BY DEF DisciplineInv, ControllersRun, IsOpen, TypeOK
    <2>2. IsOpen' => f.at \in {"timeUp", "interrupt"}
      BY <1>5 DEF IsOpen
    <2> QED BY <2>1, <2>2 DEF ControllersRun
  <1>7. StateAgrees' /\ ClientAgrees' /\ StopAsked' /\ PaintAgrees' /\ ClockAgrees'
    BY <1>1, <1>2
    DEF DisciplineInv, StateAgrees, ClientAgrees, StopAsked, PaintAgrees,
        ClockAgrees, Active
  <1> QED BY <1>3, <1>4, <1>6, <1>7 DEF DisciplineInv

\* The timer paints, releases the thread of the last session and is armed.
LEMMA PaintKeeps ==
  ASSUME TypeOK, DisciplineInv, sessions \in Session, Active,
         NEW w \in BOOLEAN, PaintAndRelease(w), StateAgrees',
         controllers' = TRUE, stack' = <<>>,
         timer' = [timer EXCEPT ![sessions] = "armed"],
         totalTime_' \in Nat, totalTime_ <= totalTime_',
         UNCHANGED <<isExecuting_, simTime_, button, attached, script, clients,
                     sessions>>
  PROVE  DisciplineInv'
  <1>1. timer'[sessions] = "armed" /\ sessions > 0 /\ Active'
    BY DEF TypeOK, Session, Active
  <1>2. /\ \A t \in Session : t # sessions =>
             thread'[t] = thread[t] /\ timer'[t] = timer[t]
        /\ \/ thread'[sessions] = thread[sessions]
           \/ thread[sessions] = "viewWait" /\ thread'[sessions] = "loop"
           \/ thread[sessions] = "timeWait" /\ thread'[sessions] = "woken"
        /\ viewSimulationUpdate_' => thread'[sessions] = "viewWait"
    BY PaintEffect DEF TypeOK
  <1>3. SessionsInOrder'
    BY <1>1, <1>2 DEF DisciplineInv, SessionsInOrder, TypeOK, Session
  <1>4. OneHandler' /\ ControllersRun' /\ PaintAgrees'
    BY <1>1, <1>2 DEF OneHandler, Idle, ControllersRun, PaintAgrees
  <1>5. ClientAgrees'
    BY <1>1 DEF DisciplineInv, ClientAgrees
  <1>6. StopAsked'
    BY <1>1, <1>2 DEF DisciplineInv, StopAsked, Working
  <1>7. ClockAgrees'
    <2>1. thread'[sessions] = "dynamics" => thread[sessions] = "dynamics"
      BY <1>2
    <2>2. /\ simTime_ <= totalTime_ + 1
          /\ thread[sessions] = "dynamics" => simTime_ <= totalTime_
      BY <1>1 DEF DisciplineInv, ClockAgrees
    <2>3. simTime_ \in Nat /\ totalTime_ \in Nat
      BY SimulationLoopAssumption DEF TypeOK
    <2>4. \A x, m, n \in Nat : x <= m /\ m <= n => x <= n
      OBVIOUS
    <2>a. \A x, m, n \in Nat : x <= m + 1 /\ m <= n => x <= n + 1
      OBVIOUS
    <2>5. simTime_ <= totalTime_' + 1
      BY <2>2, <2>3, <2>a
    <2>6. thread'[sessions] = "dynamics" => simTime_ <= totalTime_'
      BY <2>1, <2>2, <2>3, <2>4
    <2>7. simTime_' = simTime_ /\ sessions' = sessions
      OBVIOUS
    <2> QED BY <2>5, <2>6, <2>7 DEF ClockAgrees
  <1> QED BY <1>3, <1>4, <1>5, <1>6, <1>7 DEF DisciplineInv

LEMMA TimerKeeps ==
  ASSUME Disciplined, TypeOK, DisciplineInv, NEW s \in Session, TimerStep(s)
  PROVE  DisciplineInv'
  <1>a. TimerRuns(s)
    BY DEF TimerStep, TimerExec, TimerTimeOver, TimerAsks, TimerStop,
           TimerInterrupt
  <1>b. /\ s = sessions /\ sessions \in Session /\ timer[s] = "armed"
        /\ stack = <<>> /\ Active /\ controllers = TRUE /\ ~InTransit(s)
        /\ thread[s] \in ThreadState \ {"unborn"} /\ sessions > 0
    BY <1>a, TimerAlone
  <1>c. \A f \in TimerFrame : Append(stack, f) = <<f>>
    BY <1>b
  <1>d. StateAgrees
    BY DEF DisciplineInv
  <1>e. totalTime_ \in Nat
    BY SimulationLoopAssumption DEF TypeOK
  <1>1. CASE TimerExec(s)
    <2>1. thread[s] \in {"loop", "step", "dynamics", "publish", "viewWait", "late"}
      BY <1>1, <1>b, <1>d DEF TimerExec, StateAgrees, InTransit, ThreadState
    <2>2. PaintAndRelease(FALSE)
      BY <1>1 DEF TimerExec
    <2>3. /\ thread'[sessions] \in {thread[s], "loop"}
          /\ sessions' = sessions /\ simThreadState_' = "EXEC"
      BY <1>1, <1>b, <2>1, <2>2, PaintEffect DEF TimerExec
    <2>4. StateAgrees'
      BY <2>1, <2>3 DEF StateAgrees
    <2>5. timer' = [timer EXCEPT ![sessions] = "armed"]
      BY <1>1, <1>b DEF TimerExec, TypeOK
    <2>6. UNCHANGED <<isExecuting_, simTime_, totalTime_, button, attached,
                      script, clients, sessions, controllers, stack>>
      BY <1>1 DEF TimerExec
    <2>7. totalTime_' \in Nat /\ totalTime_ <= totalTime_'
      BY <1>e, <2>6
    <2> QED BY <1>b, <2>2, <2>4, <2>5, <2>6, <2>7, PaintKeeps
  <1>2. CASE TimerTimeOver(s)
    <2>1. thread[s] = "timeWait"
      BY <1>2, <1>b, <1>d DEF TimerTimeOver, StateAgrees, InTransit, ThreadState
    <2>2. PaintAndRelease(TRUE)
      BY <1>2 DEF TimerTimeOver
    <2>3. thread'[sessions] = "woken" /\ sessions' = sessions /\ simThreadState_' = "STOP"
      BY <1>2, <1>b, <2>1, <2>2, PaintEffect DEF TimerTimeOver
    <2>4. StateAgrees'
      BY <2>3 DEF StateAgrees
    <2>5. timer' = [timer EXCEPT ![sessions] = "armed"]
      BY <1>2, <1>b DEF TimerTimeOver, TypeOK
    <2>6. UNCHANGED <<isExecuting_, simTime_, totalTime_, button, attached,
                      script, clients, sessions, controllers, stack>>
      BY <1>2 DEF TimerTimeOver
    <2>7. totalTime_' \in Nat /\ totalTime_ <= totalTime_'
      BY <1>e, <2>6
    <2> QED BY <1>b, <2>2, <2>4, <2>5, <2>6, <2>7, PaintKeeps
  <1>3. CASE TimerAsks(s)
    <2> DEFINE f == [at |-> "timeUp", of |-> s]
    <2>1. f \in TimerFrame /\ f.at = "timeUp" /\ f.of = sessions
      BY <1>b DEF TimerFrame
    <2>2. thread[s] = "timeWait" /\ simThreadState_ = "TIMEOVER"
      BY <1>3, <1>b, <1>d DEF TimerAsks, StateAgrees, InTransit, ThreadState
    <2>3. stack' = <<f>> /\ timer' = [timer EXCEPT ![sessions] = "running"]
      BY <1>3, <1>b, <1>c, <2>1 DEF TimerAsks, Push
    <2>4. UNCHANGED <<isExecuting_, simThreadState_, viewSimulationUpdate_,
                     simTime_, totalTime_, thread, button, attached, script,
                     clients, sessions, controllers>>
      BY <1>3 DEF TimerAsks
    <2> QED BY <1>b, <2>1, <2>2, <2>3, <2>4, AskKeeps
  <1>4. CASE TimerStop(s)
    <2>1. thread[s] = "dead"
      BY <1>4, <1>b, <1>d DEF TimerStop, StateAgrees, InTransit, ThreadState
    <2>2. UNCHANGED <<isExecuting_, simThreadState_, viewSimulationUpdate_,
                     simTime_, totalTime_, thread, attached, clients, sessions>>
      BY <1>4 DEF TimerStop
    <2>3. CASE isInteractive_
      <3> DEFINE f == [at |-> "finish", of |-> s]
      <3>1. f \in TimerFrame /\ f.at = "finish" /\ f.of = sessions
        BY <1>b DEF TimerFrame
      <3>2. /\ stack' = <<f>> /\ timer' = [timer EXCEPT ![sessions] = "running"]
            /\ UNCHANGED <<button, script>>
        BY <1>4, <1>b, <1>c, <2>3, <3>1 DEF TimerStop, Push
      <3> QED BY <1>b, <2>1, <2>2, <3>1, <3>2, AskKeeps
    <2>4. CASE ~isInteractive_
      <3>1. SessionEnds(s, TRUE) /\ stack' = <<>>
        BY <1>4, <1>b, <2>4 DEF TimerStop
      <3> QED BY <1>b, <2>1, <2>2, <3>1, EndKeeps
    <2> QED BY <2>3, <2>4
  <1>5. CASE TimerInterrupt(s)
    <2> DEFINE f == [at |-> "interrupt", of |-> s]
    <2>1. f \in TimerFrame /\ f.at = "interrupt" /\ f.of = sessions
      BY <1>b DEF TimerFrame
    <2>2. thread[s] = "dead"
      BY <1>5, <1>b, <1>d DEF TimerInterrupt, StateAgrees, InTransit, ThreadState
    <2>3. stack' = <<f>> /\ timer' = [timer EXCEPT ![sessions] = "running"]
      BY <1>5, <1>b, <1>c, <2>1 DEF TimerInterrupt, Push
    <2>4. UNCHANGED <<isExecuting_, simThreadState_, viewSimulationUpdate_,
                     simTime_, totalTime_, thread, button, attached, script,
                     clients, sessions, controllers>>
      BY <1>5 DEF TimerInterrupt
    <2> QED BY <1>b, <2>1, <2>2, <2>3, <2>4, AskKeeps
  <1> QED BY <1>1, <1>2, <1>3, <1>4, <1>5 DEF TimerStep

\* A dialog of the timer is the only handler, and its session is the last one.
LEMMA AnswerAlone ==
  ASSUME TypeOK, DisciplineInv, stack # <<>>,
         Top.at \in {"timeUp", "interrupt", "finish", "finishInterrupt"}
  PROVE  /\ Asking
         /\ \E f \in TimerFrame : stack = <<f>> /\ Top = f /\ Len(stack) = 1
         /\ Top.of = sessions
         /\ IF Top.at = "timeUp"
            THEN thread[sessions] = "timeWait" /\ simThreadState_ = "TIMEOVER"
            ELSE thread[sessions] = "dead"
         /\ SubSeq(stack, 1, Len(stack) - 1) = <<>>
         /\ sessions \in Session /\ Active
  <1>1. Asking
    BY DEF DisciplineInv, OneHandler, Idle, Starting, StartFrame, StartPlaces, Top
  <1>2. PICK f \in TimerFrame :
          /\ stack = <<f>>
          /\ f.of = sessions
          /\ IF f.at = "timeUp"
             THEN thread[sessions] = "timeWait" /\ simThreadState_ = "TIMEOVER"
             ELSE thread[sessions] = "dead"
    BY <1>1 DEF Asking
  <1>3. Len(stack) = 1 /\ Top = f
    BY <1>2 DEF Top
  <1>4. SubSeq(stack, 1, Len(stack) - 1) = <<>>
    BY <1>3, SubSeqEmpty
  <1>5. sessions \in Session /\ Active
    BY <1>1 DEF Asking, Active, Session, TypeOK
  <1> QED BY <1>1, <1>2, <1>3, <1>4, <1>5

LEMMA AnswerKeeps ==
  ASSUME TypeOK, DisciplineInv, Answer
  PROVE  DisciplineInv'
  <1>a. /\ stack # <<>>
        /\ Top.at \in {"timeUp", "interrupt", "finish", "finishInterrupt"}
    BY DEF Answer, AnswerTimeUp, AnswerInterrupt, AnswerFinish, Running
  <1>b. /\ Asking /\ Top.of = sessions
        /\ SubSeq(stack, 1, Len(stack) - 1) = <<>>
        /\ IF Top.at = "timeUp"
           THEN thread[sessions] = "timeWait" /\ simThreadState_ = "TIMEOVER"
           ELSE thread[sessions] = "dead"
        /\ sessions \in Session /\ Active
    BY <1>a, AnswerAlone
  <1>c. PICK f \in TimerFrame : stack = <<f>> /\ Top = f /\ Len(stack) = 1
    BY <1>a, AnswerAlone
  <1>d. totalTime_ \in Nat
    BY SimulationLoopAssumption DEF TypeOK
  <1>1. CASE AnswerTimeUp
    <2>1. /\ thread[sessions] = "timeWait" /\ Top.at = "timeUp"
          /\ PaintAndRelease(TRUE) /\ stack' = <<>>
          /\ timer' = [timer EXCEPT ![sessions] = "armed"]
      BY <1>1, <1>b DEF AnswerTimeUp, Running, Pop
    <2>2. UNCHANGED <<isExecuting_, simTime_, button, attached, script, clients,
                      sessions, controllers>>
      BY <1>1 DEF AnswerTimeUp
    <2>3. controllers = TRUE
      BY <1>c, <2>1 DEF DisciplineInv, ControllersRun, IsOpen, TypeOK
    <2>4. simThreadState_' \in {"EXEC", "STOP"}
      BY <1>1 DEF AnswerTimeUp
    <2>5. thread'[sessions] = "woken"
      BY <1>b, <2>1, PaintEffect
    <2>6. StateAgrees'
      BY <2>2, <2>4, <2>5 DEF StateAgrees
    <2>7. totalTime_' \in Nat /\ totalTime_ <= totalTime_'
      <3>1. CASE totalTime_' = totalTime_
        BY <1>d, <3>1
      <3>2. CASE \E d \in 1 .. MaxTotalTime - totalTime_ : totalTime_' = totalTime_ + d
        <4>1. \A d \in 1 .. MaxTotalTime - totalTime_ :
                totalTime_ + d \in Nat /\ totalTime_ <= totalTime_ + d
          BY <1>d, SimulationLoopAssumption
        <4> QED BY <3>2, <4>1
      <3> QED BY <1>1, <3>1, <3>2 DEF AnswerTimeUp
    <2> QED BY <1>b, <2>1, <2>2, <2>3, <2>6, <2>7, PaintKeeps
  <1>2. CASE AnswerInterrupt
    <2>1. /\ Top.at = "interrupt" /\ thread[sessions] = "dead"
          /\ UNCHANGED <<isExecuting_, simThreadState_, viewSimulationUpdate_,
                         simTime_, totalTime_, thread, attached, clients,
                         sessions>>
      BY <1>2, <1>b DEF AnswerInterrupt, Running
    <2>2. CASE isInteractive_
      <3> DEFINE g == [f EXCEPT !.at = "finishInterrupt"]
      <3>1. g \in TimerFrame /\ g.at = "finishInterrupt" /\ g.of = sessions
        BY <1>b, <1>c DEF TimerFrame
      <3>2. stack' = <<g>> /\ UNCHANGED <<timer, button, script>>
        BY <1>2, <1>c, <2>2 DEF AnswerInterrupt
      <3>3. Asking'
        BY <1>b, <2>1, <3>1, <3>2 DEF Asking
      <3>4. \A s \in Session : timer'[s] # "armed"
        <4>1. timer[sessions] = "running"
          BY <1>b DEF Asking
        <4>2. \A s \in Session : timer[s] # "armed"
          BY <4>1 DEF DisciplineInv, SessionsInOrder, TypeOK, Session
        <4> QED BY <3>2, <4>2
      <3>5. OneHandler' /\ ControllersRun'
        <4>1. ~IsOpen'
          <5>1. g.at = "finishInterrupt" /\ DOMAIN <<g>> = {1} /\ <<g>>[1] = g
            BY <3>1
          <5>2. stack'[1].at = "finishInterrupt" /\ DOMAIN stack' = {1}
            BY <3>2, <5>1
          <5> QED BY <3>4, <5>2 DEF IsOpen
        <4> QED BY <3>3, <4>1 DEF OneHandler, ControllersRun
      <3>6. /\ SessionsInOrder' /\ StateAgrees' /\ ClientAgrees' /\ StopAsked'
            /\ PaintAgrees' /\ ClockAgrees'
        BY <2>1, <3>2
        DEF DisciplineInv, SessionsInOrder, StateAgrees, ClientAgrees,
            StopAsked, PaintAgrees, ClockAgrees, Active
      <3> QED BY <3>5, <3>6 DEF DisciplineInv
    <2>3. CASE ~isInteractive_
      <3>1. SessionEnds(sessions, FALSE) /\ stack' = <<>>
        BY <1>2, <1>b, <2>3 DEF AnswerInterrupt, Pop
      <3> QED BY <1>b, <2>1, <3>1, EndKeeps
    <2> QED BY <2>2, <2>3
  <1>3. CASE AnswerFinish
    <2>1. /\ Top.at # "timeUp" /\ thread[sessions] = "dead" /\ stack' = <<>>
          /\ SessionEnds(sessions, Top.at = "finish")
          /\ UNCHANGED <<isExecuting_, simThreadState_, viewSimulationUpdate_,
                         simTime_, totalTime_, thread, attached, clients,
                         sessions>>
      BY <1>3, <1>b DEF AnswerFinish, Running, Pop
    <2> QED BY <1>b, <2>1, EndKeeps
  <1> QED BY <1>1, <1>2, <1>3 DEF Answer

-----------------------------------------------------------------------------
LEMMA DisciplineInit ==
  ASSUME Disciplined, Init
  PROVE  DisciplineInv
  <1>1. clients \in {{"toolbar"}, {"script"}}
    BY DEF Init, Disciplined
  <1>3. SessionsInOrder /\ OneHandler /\ ControllersRun
    BY DEF Init, SessionsInOrder, Session, OneHandler, Idle, ControllersRun, IsOpen
  <1> QED
    BY <1>1, <1>3
    DEF Init, DisciplineInv, StateAgrees, ClientAgrees, StopAsked, Active,
        PaintAgrees, ClockAgrees

LEMMA DisciplineStep ==
  ASSUME Disciplined, TypeOK, DisciplineInv, [Next]_vars
  PROVE  DisciplineInv'
  <1>1. CASE UNCHANGED vars
    BY <1>1
    DEF vars, DisciplineInv, SessionsInOrder, OneHandler, Idle, Starting, Asking,
        Active, StateAgrees, ClientAgrees, StopAsked, PaintAgrees,
        ControllersRun, IsOpen, ClockAgrees
  <1>2. CASE Next
    BY <1>2, ClientKeeps, StartKeeps, AnswerKeeps, ThreadKeeps, TimerKeeps
    DEF Next
  <1> QED BY <1>1, <1>2

\* Used as Disciplined says, the loop keeps its two threads in step: sessions
\* follow one another, simThreadState_ says where the simulation thread is, and
\* at most one handler runs on the SWT thread.
THEOREM DisciplineHolds == Disciplined => (Spec => []DisciplineInv)
  <1> SUFFICES ASSUME Disciplined PROVE Spec => []DisciplineInv
    OBVIOUS
  <1>1. Init => DisciplineInv
    BY DisciplineInit
  <1>2. TypeOK /\ DisciplineInv /\ [Next]_vars => DisciplineInv'
    BY DisciplineStep
  <1> QED BY <1>1, <1>2, TypeCorrect, PTL DEF Spec, Safety

\* Two sessions never overlap: no second thread writes simTime_, and no second
\* timer answers for the first.
THEOREM SessionsDoNotOverlap == Disciplined => (Spec => []OneSession)
  <1> SUFFICES ASSUME Disciplined PROVE Spec => []OneSession
    OBVIOUS
  <1>1. TypeOK /\ DisciplineInv => OneSession
    BY DEF TypeOK, DisciplineInv, SessionsInOrder, OneSession, Live, Session
  <1> QED BY <1>1, TypeCorrect, DisciplineHolds, PTL

\* While the 3D view is painted the simulation thread is blocked on lock3_.
THEOREM PaintIsExclusive == Disciplined => (Spec => []PaintExclusive)
  <1> SUFFICES ASSUME Disciplined PROVE Spec => []PaintExclusive
    OBVIOUS
  <1>1. TypeOK /\ DisciplineInv => PaintExclusive
    BY DEF TypeOK, DisciplineInv, SessionsInOrder, PaintAgrees, PaintExclusive,
           Live, Session
  <1> QED BY <1>1, TypeCorrect, DisciplineHolds, PTL

\* A blocked simulation thread always has a timer that can still release it.
THEOREM NoThreadIsStranded == Disciplined => (Spec => []NoStrandedThread)
  <1> SUFFICES ASSUME Disciplined PROVE Spec => []NoStrandedThread
    OBVIOUS
  <1>1. TypeOK /\ DisciplineInv => NoStrandedThread
    BY DEF TypeOK, DisciplineInv, SessionsInOrder, NoStrandedThread, Session,
           TimerState
  <1> QED BY <1>1, TypeCorrect, DisciplineHolds, PTL

\* The clock never passes the total time by more than one step.
THEOREM ClockIsBounded == Disciplined => (Spec => []ClockBound)
  <1> SUFFICES ASSUME Disciplined PROVE Spec => []ClockBound
    OBVIOUS
  <1>1. TypeOK /\ DisciplineInv => ClockBound
    <2>1. TypeOK /\ DisciplineInv /\ IsOpen => Active
      BY DEF TypeOK, DisciplineInv, SessionsInOrder, OneHandler, Idle, Starting,
             Asking, StartFrame, StartPlaces, IsOpen, Active, Session
    <2> QED BY <2>1 DEF DisciplineInv, ClockAgrees, ClockBound
  <1> QED BY <1>1, TypeCorrect, DisciplineHolds, PTL

\* Nothing sets isExecuting_ again before the session the user stopped is over.
THEOREM StopsStick == Disciplined => (Spec => []StopSticks)
  <1> SUFFICES ASSUME Disciplined PROVE Spec => []StopSticks
    OBVIOUS
  <1>1. TypeOK /\ DisciplineInv => StopSticks
    BY DEF TypeOK, DisciplineInv, SessionsInOrder, StopAsked, StopSticks,
           Active, Session
  <1> QED BY <1>1, TypeCorrect, DisciplineHolds, PTL

-----------------------------------------------------------------------------
(* The loop implements SimulationSession: the initial states map to initial  *)
(* states, and every step maps to a step or to a stutter.                    *)

\* An open session under the invariant, read off the last session.
LEMMA OpenMeans ==
  ASSUME TypeOK, DisciplineInv
  PROVE  /\ Active /\ stack = <<>> => IsOpen
         /\ ~Active => ~IsOpen
         /\ \A f \in TimerFrame :
              stack = <<f>> => (IsOpen <=> f.at \in {"timeUp", "interrupt"})
  <1>1. \A s \in Session : timer[s] = "armed" => s = sessions /\ Active
    BY DEF TypeOK, DisciplineInv, SessionsInOrder, Session, Active
  <1>2. Active /\ stack = <<>> => IsOpen
    BY DEF DisciplineInv, OneHandler, Idle, Starting, Asking, Active, IsOpen,
           TypeOK, Session
  <1>3. ~Active => ~IsOpen
    <2> SUFFICES ASSUME ~Active PROVE ~IsOpen
      OBVIOUS
    <2>1. \A i \in DOMAIN stack : stack[i].at \notin {"timeUp", "interrupt"}
      <3>1. stack = <<>> \/ \E f \in StartFrame : stack = <<f>>
        BY DEF DisciplineInv, OneHandler, Idle, Starting, Asking, Active
      <3> QED BY <3>1 DEF StartFrame, StartPlaces
    <2> QED BY <1>1, <2>1 DEF IsOpen
  <1>4. ASSUME NEW f \in TimerFrame, stack = <<f>>
        PROVE  IsOpen <=> f.at \in {"timeUp", "interrupt"}
    <2>1. timer[sessions] = "running"
      <3>1. ~Starting
        BY <1>4 DEF Starting, StartFrame, StartPlaces, TimerFrame
      <3> QED BY <1>4, <3>1 DEF DisciplineInv, OneHandler, Idle, Asking
    <2>2. \A s \in Session : timer[s] # "armed"
      BY <1>1, <2>1
    <2>3. DOMAIN stack = {1} /\ stack[1] = f
      BY <1>4
    <2> QED BY <2>2, <2>3 DEF IsOpen
  <1> QED BY <1>2, <1>3, <1>4

\* Steps of the clients leave the session as it is.
LEMMA ClientStutters ==
  ASSUME TypeOK, DisciplineInv, ClientStep
  PROVE  UNCHANGED <<IsOpen, controllers, simTime_>>
  <1>1. UNCHANGED <<controllers, simTime_, timer>>
    BY DEF ClientStep, Click, LoadProject, ScriptPost, ScriptStart, ScriptWait,
           ScriptInterrupted
  <1>2. \/ stack' = stack
        \/ \E f \in StartFrame : stack' = Append(stack, f)
    <2>1. \A b \in Clients : [at |-> "check", by |-> b] \in StartFrame
      BY DEF StartFrame, StartPlaces
    <2> QED
      BY <2>1
      DEF ClientStep, Click, LoadProject, ScriptPost, ScriptStart, ScriptWait,
          ScriptInterrupted, Push, Clients
  <1>3. CASE stack' = stack
    BY <1>1, <1>3 DEF IsOpen
  <1>4. CASE \E f \in StartFrame : stack' = Append(stack, f)
    <2>1. PICK f \in StartFrame : stack' = Append(stack, f)
      BY <1>4
    <2>2. stack \in Seq(Frame) /\ f \in Frame /\ f.at \notin {"timeUp", "interrupt"}
      BY DEF TypeOK, Frame, StartFrame, StartPlaces
    <2>3. /\ DOMAIN stack' = DOMAIN stack \cup {Len(stack) + 1}
          /\ \A i \in DOMAIN stack : stack'[i] = stack[i]
          /\ stack'[Len(stack) + 1] = f
      BY <2>1, <2>2
    <2>4. (\E i \in DOMAIN stack' : stack'[i].at \in {"timeUp", "interrupt"})
          <=> \E i \in DOMAIN stack : stack[i].at \in {"timeUp", "interrupt"}
      BY <2>2, <2>3
    <2>5. IsOpen' <=> IsOpen
      BY <1>1, <2>4 DEF IsOpen
    <2> QED BY <1>1, <2>5
  <1> QED BY <1>2, <1>3, <1>4

\* startSimulation opens a session, or leaves controllers behind, or nothing.
LEMMA StartMaps ==
  ASSUME TypeOK, DisciplineInv, StartStep
  PROVE  [SessionView!Next]_(SessionView!vars)
  <1> USE DEF SessionView!Next, SessionView!vars
  <1>z. (IsOpen = TRUE \/ IsOpen = FALSE) /\ (IsOpen' = TRUE \/ IsOpen' = FALSE)
    BY DEF IsOpen
  <1>a. stack # <<>> /\ Top.at \in StartPlaces
    BY DEF StartStep, StartRefused, StartChecks, StartReads, StartFails,
           StartSucceeds, Running, StartPlaces
  <1>b. ~Active /\ SubSeq(stack, 1, Len(stack) - 1) = <<>> /\ ~IsOpen
    BY <1>a, StartAlone, OpenMeans
  <1>c. PICK f \in StartFrame : stack = <<f>> /\ Len(stack) = 1
    BY <1>a, StartAlone
  <1>d. \A s \in Session : timer[s] # "armed"
    BY <1>b DEF IsOpen
  <1>1. CASE StartRefused
    <2>1. UNCHANGED <<controllers, simTime_, timer>> /\ stack' = <<>>
      BY <1>1, <1>b DEF StartRefused, StartReturns, Pop
    <2>2. ~IsOpen'
      BY <1>d, <2>1 DEF IsOpen
    <2> QED BY <1>z, <1>b, <2>1, <2>2
  <1>2. CASE StartChecks \/ StartReads
    <2>1. PICK p \in StartPlaces : stack' = [stack EXCEPT ![Len(stack)].at = p]
      BY <1>2 DEF StartChecks, StartReads, StartPlaces
    <2> DEFINE g == [f EXCEPT !.at = p]
    <2>2. stack' = <<g>> /\ UNCHANGED <<controllers, simTime_, timer>>
      BY <1>2, <1>c, <2>1 DEF StartChecks, StartReads
    <2>3. g.at \notin {"timeUp", "interrupt"}
      BY DEF StartFrame, StartPlaces
    <2>4. DOMAIN <<g>> = {1} /\ <<g>>[1] = g
      OBVIOUS
    <2>5. ~IsOpen'
      BY <1>d, <2>2, <2>3, <2>4 DEF IsOpen
    <2> QED BY <1>z, <1>b, <2>2, <2>5
  <1>3. CASE StartFails
    <2>1. /\ UNCHANGED <<simTime_, timer>> /\ stack' = <<>>
          /\ controllers' = controllers \/ controllers' = TRUE
      BY <1>3, <1>b DEF StartFails, StartReturns, Pop
    <2>2. ~IsOpen'
      BY <1>d, <2>1 DEF IsOpen
    <2> QED BY <1>z, <1>b, <2>1, <2>2 DEF SessionView!AbortOpen
  <1>4. CASE StartSucceeds
    <2>1. /\ controllers' = TRUE /\ simTime_' = 0
          /\ sessions + 1 \in Session
          /\ timer' = [timer EXCEPT ![sessions + 1] = "armed"]
      BY <1>4, SimulationLoopAssumption DEF StartSucceeds, Session, TypeOK
    <2>2. IsOpen'
      <3>1. timer'[sessions + 1] = "armed"
        BY <2>1 DEF TypeOK
      <3> QED BY <2>1, <3>1 DEF IsOpen
    <2> QED BY <1>b, <2>1, <2>2 DEF SessionView!Open
  <1> QED BY <1>1, <1>2, <1>3, <1>4 DEF StartStep

\* The simulation thread advances the clock of an open session, or stutters.
LEMMA ThreadMaps ==
  ASSUME TypeOK, DisciplineInv, NEW t \in Session, ThreadStep(t)
  PROVE  [SessionView!Next]_(SessionView!vars)
  <1>1. /\ timer[t] = "armed" /\ UNCHANGED UIOnly
    BY ThreadFrame
  <1>2. UNCHANGED <<timer, stack, controllers>>
    BY <1>1 DEF UIOnly
  <1>3. IsOpen /\ controllers = TRUE /\ IsOpen' = IsOpen
    BY <1>1, <1>2 DEF DisciplineInv, ControllersRun, IsOpen, TypeOK
  <1>4. simTime_' = simTime_ \/ simTime_' = simTime_ + 1
    BY DEF ThreadStep, Begin, Loop, CheckTime, Dynamics, Publish, TimeOver,
           Resume, ClearExecuting, ReportStop, ReportFailure
  <1> QED BY <1>2, <1>3, <1>4
      DEF SessionView!Next, SessionView!vars, SessionView!Tick

\* The timer closes the session in case STOP, and stutters in the other cases.
LEMMA TimerMaps ==
  ASSUME Disciplined, TypeOK, DisciplineInv, NEW s \in Session, TimerStep(s)
  PROVE  [SessionView!Next]_(SessionView!vars)
  <1> USE DEF SessionView!Next, SessionView!vars
  <1>z. (IsOpen = TRUE \/ IsOpen = FALSE) /\ (IsOpen' = TRUE \/ IsOpen' = FALSE)
    BY DEF IsOpen
  <1>a. TimerRuns(s)
    BY DEF TimerStep, TimerExec, TimerTimeOver, TimerAsks, TimerStop,
           TimerInterrupt
  <1>b. /\ s = sessions /\ timer[s] = "armed" /\ stack = <<>> /\ Active
        /\ controllers = TRUE
    BY <1>a, TimerAlone
  <1>c. IsOpen
    BY <1>b DEF IsOpen
  <1>d. \A r \in Session : r # s => timer[r] # "armed"
    BY <1>b DEF DisciplineInv, SessionsInOrder, TypeOK, Session
  <1>e. \A f \in TimerFrame : Append(stack, f) = <<f>>
    BY <1>b
  <1>1. CASE TimerExec(s) \/ TimerTimeOver(s)
    <2>1. UNCHANGED <<timer, stack, controllers, simTime_>>
      BY <1>1 DEF TimerExec, TimerTimeOver
    <2>2. IsOpen' = IsOpen
      BY <2>1 DEF IsOpen
    <2> QED BY <2>1, <2>2
  <1>2. CASE TimerAsks(s) \/ TimerInterrupt(s)
    <2>1. PICK f \in TimerFrame : /\ f.at \in {"timeUp", "interrupt"}
                                  /\ stack' = Append(stack, f)
      <3>1. \A a \in {"timeUp", "interrupt"} : [at |-> a, of |-> s] \in TimerFrame
        BY DEF TimerFrame
      <3> QED BY <1>2, <3>1 DEF TimerAsks, TimerInterrupt, Push
    <2>2. stack' = <<f>> /\ DOMAIN <<f>> = {1} /\ <<f>>[1] = f
      BY <1>e, <2>1
    <2>3. IsOpen'
      <3>1. 1 \in DOMAIN stack' /\ stack'[1].at \in {"timeUp", "interrupt"}
        BY <2>1, <2>2
      <3> QED BY <3>1 DEF IsOpen
    <2>4. UNCHANGED <<controllers, simTime_>>
      BY <1>2 DEF TimerAsks, TimerInterrupt
    <2> QED BY <1>c, <2>3, <2>4 DEF IsOpen
  <1>3. CASE TimerStop(s)
    <2>1. controllers' = FALSE /\ simTime_' = simTime_
      BY <1>3 DEF TimerStop
    <2>2. \A r \in Session : timer'[r] # "armed"
      <3>1. \E e \in {"running", "done"} : timer' = [timer EXCEPT ![s] = e]
        BY <1>3 DEF TimerStop, SessionEnds
      <3> QED BY <1>d, <3>1 DEF TypeOK
    <2>3. \/ stack' = <<>>
          \/ \E f \in TimerFrame : f.at = "finish" /\ stack' = <<f>>
      <3> DEFINE f == [at |-> "finish", of |-> s]
      <3>1. f \in TimerFrame /\ f.at = "finish"
        BY DEF TimerFrame
      <3> QED BY <1>3, <1>b, <1>e, <3>1 DEF TimerStop, Push
    <2>4. ~IsOpen'
      <3>1. CASE stack' = <<>>
        BY <2>2, <3>1 DEF IsOpen
      <3>2. CASE \E f \in TimerFrame : f.at = "finish" /\ stack' = <<f>>
        <4>1. PICK f \in TimerFrame : f.at = "finish" /\ stack' = <<f>>
          BY <3>2
        <4>2. DOMAIN <<f>> = {1} /\ <<f>>[1] = f
          OBVIOUS
        <4>3. DOMAIN stack' = {1} /\ stack'[1].at = "finish"
          BY <4>1, <4>2
        <4> QED BY <2>2, <4>3 DEF IsOpen
      <3> QED BY <2>3, <3>1, <3>2
    <2> QED BY <1>z, <1>c, <2>1, <2>4 DEF SessionView!Close
  <1> QED BY <1>1, <1>2, <1>3 DEF TimerStep

\* The answer to the error dialog closes the session; the others stutter.
LEMMA AnswerMaps ==
  ASSUME TypeOK, DisciplineInv, Answer
  PROVE  [SessionView!Next]_(SessionView!vars)
  <1> USE DEF SessionView!Next, SessionView!vars
  <1>z. (IsOpen = TRUE \/ IsOpen = FALSE) /\ (IsOpen' = TRUE \/ IsOpen' = FALSE)
    BY DEF IsOpen
  <1>a. /\ stack # <<>>
        /\ Top.at \in {"timeUp", "interrupt", "finish", "finishInterrupt"}
    BY DEF Answer, AnswerTimeUp, AnswerInterrupt, AnswerFinish, Running
  <1>b. /\ Asking /\ Top.of = sessions /\ sessions \in Session
        /\ SubSeq(stack, 1, Len(stack) - 1) = <<>>
    BY <1>a, AnswerAlone
  <1>c. PICK f \in TimerFrame : stack = <<f>> /\ Top = f /\ Len(stack) = 1
    BY <1>a, AnswerAlone
  <1>d. \A s \in Session : timer[s] # "armed"
    BY <1>b DEF Asking, DisciplineInv, SessionsInOrder, TypeOK, Session
  <1>e. IsOpen <=> f.at \in {"timeUp", "interrupt"}
    BY <1>c, OpenMeans
  <1>1. CASE AnswerTimeUp
    <2>1. /\ f.at = "timeUp" /\ UNCHANGED <<controllers, simTime_>>
          /\ timer' = [timer EXCEPT ![sessions] = "armed"]
      BY <1>1, <1>b, <1>c DEF AnswerTimeUp, Running
    <2>2. timer'[sessions] = "armed"
      BY <1>b, <2>1 DEF TypeOK
    <2>3. IsOpen'
      BY <1>b, <2>2 DEF IsOpen
    <2> QED BY <1>e, <2>1, <2>3 DEF IsOpen
  <1>2. CASE AnswerInterrupt
    <2>1. f.at = "interrupt" /\ controllers' = FALSE /\ simTime_' = simTime_
      BY <1>2, <1>c DEF AnswerInterrupt, Running
    <2>2. \A s \in Session : timer'[s] # "armed"
      <3>1. timer' = timer \/ timer' = [timer EXCEPT ![sessions] = "done"]
        BY <1>2, <1>b DEF AnswerInterrupt, SessionEnds
      <3> QED BY <1>d, <3>1 DEF TypeOK
    <2>3. ~IsOpen'
      <3>1. CASE isInteractive_
        <4> DEFINE g == [f EXCEPT !.at = "finishInterrupt"]
        <4>1. stack' = <<g>>
          BY <1>2, <1>c, <3>1 DEF AnswerInterrupt
        <4>2. g.at = "finishInterrupt" /\ DOMAIN <<g>> = {1} /\ <<g>>[1] = g
          BY DEF TimerFrame
        <4>3. DOMAIN stack' = {1} /\ stack'[1].at = "finishInterrupt"
          BY <4>1, <4>2
        <4> QED BY <2>2, <4>3 DEF IsOpen
      <3>2. CASE ~isInteractive_
        <4>1. stack' = <<>>
          BY <1>2, <1>b, <3>2 DEF AnswerInterrupt, Pop
        <4> QED BY <2>2, <4>1 DEF IsOpen
      <3> QED BY <3>1, <3>2
    <2> QED BY <1>z, <1>e, <2>1, <2>3 DEF SessionView!Close
  <1>3. CASE AnswerFinish
    <2>1. /\ f.at \notin {"timeUp", "interrupt"}
          /\ UNCHANGED <<controllers, simTime_>> /\ stack' = <<>>
          /\ timer' = [timer EXCEPT ![sessions] = "done"]
      BY <1>3, <1>b, <1>c DEF AnswerFinish, Running, Pop, SessionEnds
    <2>2. \A s \in Session : timer'[s] # "armed"
      BY <1>d, <2>1 DEF TypeOK
    <2>3. ~IsOpen'
      BY <2>1, <2>2 DEF IsOpen
    <2> QED BY <1>z, <1>e, <2>1, <2>3
  <1> QED BY <1>1, <1>2, <1>3 DEF Answer

\* The loop implements the safety part of SimulationSession: only an open
\* session with its controllers running advances the clock, and a session is
\* opened only after the one before was closed.
THEOREM LoopImplementsSession == Disciplined => (Spec => SessionView!Safety)
  <1> SUFFICES ASSUME Disciplined PROVE Spec => SessionView!Safety
    OBVIOUS
  <1>1. Init => SessionView!Init
    BY DEF Init, SessionView!Init, IsOpen
  <1>2. TypeOK /\ DisciplineInv /\ [Next]_vars => [SessionView!Next]_(SessionView!vars)
    <2> SUFFICES ASSUME TypeOK, DisciplineInv, [Next]_vars
                 PROVE  [SessionView!Next]_(SessionView!vars)
      OBVIOUS
    <2>1. CASE UNCHANGED vars
      BY <2>1 DEF vars, IsOpen, SessionView!vars
    <2>2. CASE ClientStep
      BY <2>2, ClientStutters DEF SessionView!vars
    <2>3. CASE Next /\ ~ClientStep
      BY <2>3, StartMaps, AnswerMaps, ThreadMaps, TimerMaps DEF Next
    <2> QED BY <2>1, <2>2, <2>3
  <1> QED
    BY <1>1, <1>2, TypeCorrect, DisciplineHolds, PTL
    DEF Spec, Safety, SessionView!Safety
=============================================================================
