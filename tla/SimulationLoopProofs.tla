------------------------ MODULE SimulationLoopProofs ------------------------
(***************************************************************************)
(* Theorems about SimulationLoop for all values of its constants.          *)
(***************************************************************************)
EXTENDS SimulationLoop, SequenceTheorems, TLAPS

USE SimulationLoopAssumption

-----------------------------------------------------------------------------
(* The stack of the SWT thread.                                            *)

\* Entering a handler keeps the stack a sequence of frames.
LEMMA PushType ==
  ASSUME stack \in Seq(Frame), NEW f \in Frame
  PROVE  Append(stack, f) \in Seq(Frame)
  OBVIOUS

\* Leaving a handler does too.
LEMMA PopType ==
  ASSUME stack \in Seq(Frame), stack # <<>>
  PROVE  SubSeq(stack, 1, Len(stack) - 1) \in Seq(Frame)
  <1>1. Len(stack) \in Nat /\ \A i \in 1 .. Len(stack) - 1 : stack[i] \in Frame
    BY ElementOfSeq, LenProperties
  <1> QED BY <1>1, SubSeqProperties

\* The running frame is one of the stack.
LEMMA TopType ==
  ASSUME stack \in Seq(Frame), stack # <<>>
  PROVE  Len(stack) \in 1 .. Len(stack) /\ Top \in Frame
  BY EmptySeq, LenProperties, ElementOfSeq DEF Top

\* A frame at one of a start's places is a start frame, and likewise a timer's.
LEMMA FrameKind ==
  ASSUME NEW f \in Frame
  PROVE  /\ f.at \in StartPlaces => f \in StartFrame /\ f.by \in Clients
         /\ f.at \in {"timeUp", "interrupt", "finish", "finishInterrupt"} =>
              f \in TimerFrame /\ f.of \in Session
  BY DEF Frame, StartFrame, TimerFrame, StartPlaces

-----------------------------------------------------------------------------
(* Type correctness.                                                       *)

LEMMA InitType == Init => TypeOK
  <1> SUFFICES ASSUME Init PROVE TypeOK
    OBVIOUS
  <1>1. stack \in Seq(Frame)
    BY DEF Init
  <1>2. thread \in [Session -> ThreadState] /\ timer \in [Session -> TimerState]
    BY DEF Init, ThreadState, TimerState
  <1>3. script \in ScriptState /\ sessions \in 0 .. MaxSessions
    BY DEF Init, ScriptState
  <1>4. totalTime_ \in 0 .. MaxTotalTime /\ clients \in SUBSET Clients
    BY DEF Init
  <1> QED BY <1>1, <1>2, <1>3, <1>4 DEF Init, TypeOK

LEMMA PaintType ==
  ASSUME TypeOK, NEW wakeAll \in BOOLEAN, PaintAndRelease(wakeAll)
  PROVE  /\ viewSimulationUpdate_' \in BOOLEAN
         /\ thread' \in [Session -> ThreadState]
  BY DEF TypeOK, PaintAndRelease, ThreadState

LEMMA ThreadType ==
  ASSUME TypeOK, NEW t \in Session, ThreadStep(t)
  PROVE  TypeOK'
  <1> USE DEF TypeOK, UIOnly, Moves, ThreadState
  <1>1. CASE Begin(t) BY <1>1 DEF Begin
  <1>2. CASE Loop(t) BY <1>2 DEF Loop
  <1>3. CASE CheckTime(t) BY <1>3 DEF CheckTime
  <1>4. CASE Dynamics(t) BY <1>4 DEF Dynamics
  <1>5. CASE Publish(t) BY <1>5 DEF Publish
  <1>6. CASE TimeOver(t) BY <1>6 DEF TimeOver
  <1>7. CASE Resume(t) BY <1>7 DEF Resume
  <1>8. CASE ClearExecuting(t) BY <1>8 DEF ClearExecuting
  <1>9. CASE ReportStop(t) BY <1>9 DEF ReportStop
  <1>10. CASE ReportFailure(t) BY <1>10 DEF ReportFailure
  <1> QED
    BY <1>1, <1>2, <1>3, <1>4, <1>5, <1>6, <1>7, <1>8, <1>9, <1>10
    DEF ThreadStep

LEMMA ClientType == TypeOK /\ ClientStep => TypeOK'
  <1> SUFFICES ASSUME TypeOK, ClientStep PROVE TypeOK'
    OBVIOUS
  <1> USE DEF TypeOK
  <1>1. CASE Click
    <2>1. [at |-> "check", by |-> "toolbar"] \in Frame
      BY DEF Frame, StartFrame, StartPlaces, Clients
    <2>2. stack' \in Seq(Frame) /\ isExecuting_' \in BOOLEAN
      BY <1>1, <2>1, PushType DEF Click, Push
    <2> QED BY <1>1, <2>2 DEF Click
  <1>2. CASE LoadProject BY <1>2 DEF LoadProject
  <1>3. CASE ScriptPost BY <1>3 DEF ScriptPost, ScriptState
  <1>4. CASE ScriptStart
    BY <1>4, PushType
    DEF ScriptStart, Push, Frame, StartFrame, StartPlaces, Clients, ScriptState
  <1>5. CASE ScriptWait BY <1>5 DEF ScriptWait, ScriptState
  <1>6. CASE ScriptInterrupted BY <1>6 DEF ScriptInterrupted, ScriptState
  <1> QED BY <1>1, <1>2, <1>3, <1>4, <1>5, <1>6 DEF ClientStep

LEMMA StartType == TypeOK /\ StartStep => TypeOK'
  <1> SUFFICES ASSUME TypeOK, StartStep PROVE TypeOK'
    OBVIOUS
  <1>a. stack # <<>> /\ Top.at \in StartPlaces
    BY DEF StartStep, StartRefused, StartChecks, StartReads, StartFails,
           StartSucceeds, Running, StartPlaces
  <1>b. /\ Len(stack) \in 1 .. Len(stack)
        /\ Top \in StartFrame
        /\ SubSeq(stack, 1, Len(stack) - 1) \in Seq(Frame)
    BY <1>a, TopType, PopType, FrameKind DEF TypeOK
  <1>1. CASE StartRefused
    BY <1>1, <1>b DEF StartRefused, StartReturns, Pop, TypeOK, ScriptState
  <1>c. ASSUME NEW p \in StartPlaces,
               stack' = [stack EXCEPT ![Len(stack)].at = p]
        PROVE  stack' \in Seq(Frame)
    <2>1. [Top EXCEPT !.at = p] \in Frame
      BY <1>b DEF Frame, StartFrame
    <2> QED BY <1>b, <1>c, <2>1, ExceptSeq DEF TypeOK, Top
  <1>2. CASE StartChecks
    <2>1. stack' \in Seq(Frame)
      BY <1>2, <1>c DEF StartChecks, StartPlaces
    <2> QED BY <1>2, <2>1 DEF StartChecks, TypeOK
  <1>5. CASE StartReads
    <2>1. stack' \in Seq(Frame)
      BY <1>5, <1>c DEF StartReads, StartPlaces
    <2>2. totalTime_' \in 0 .. MaxTotalTime /\ isSimulatingView_' \in BOOLEAN
      BY <1>5 DEF StartReads, TypeOK
    <2> QED BY <1>5, <2>1, <2>2 DEF StartReads, TypeOK
  <1>3. CASE StartFails
    BY <1>3, <1>b DEF StartFails, StartReturns, Pop, TypeOK, ScriptState
  <1>4. CASE StartSucceeds
    <2>1. thread' \in [Session -> ThreadState] /\ timer' \in [Session -> TimerState]
      BY <1>4 DEF StartSucceeds, TypeOK, ThreadState, TimerState
    <2>2. sessions' \in 0 .. MaxSessions
      BY <1>4 DEF StartSucceeds, TypeOK
    <2>3. stack' \in Seq(Frame) /\ script' \in ScriptState
      BY <1>4, <1>b DEF StartSucceeds, StartReturns, Pop, TypeOK, ScriptState
    <2> QED BY <1>4, <2>1, <2>2, <2>3 DEF StartSucceeds, TypeOK
  <1> QED BY <1>1, <1>2, <1>3, <1>4, <1>5 DEF StartStep

LEMMA TimerType ==
  ASSUME TypeOK, NEW s \in Session, TimerStep(s)
  PROVE  TypeOK'
  <1> USE DEF TypeOK
  <1>1. CASE TimerExec(s) BY <1>1, PaintType DEF TimerExec
  <1>2. CASE TimerTimeOver(s) BY <1>2, PaintType DEF TimerTimeOver
  <1>3. CASE TimerAsks(s)
    BY <1>3, PushType DEF TimerAsks, Push, Frame, TimerFrame, TimerState
  <1>4. CASE TimerStop(s)
    BY <1>4, PushType
    DEF TimerStop, Push, Frame, TimerFrame, TimerState, SessionEnds, ScriptState
  <1>5. CASE TimerInterrupt(s)
    BY <1>5, PushType DEF TimerInterrupt, Push, Frame, TimerFrame, TimerState
  <1> QED BY <1>1, <1>2, <1>3, <1>4, <1>5 DEF TimerStep

LEMMA AnswerType == TypeOK /\ Answer => TypeOK'
  <1> SUFFICES ASSUME TypeOK, Answer PROVE TypeOK'
    OBVIOUS
  <1>a. stack # <<>>
    BY DEF Answer, AnswerTimeUp, AnswerInterrupt, AnswerFinish, Running
  <1>b. Top.at \in {"timeUp", "interrupt", "finish", "finishInterrupt"}
    BY DEF Answer, AnswerTimeUp, AnswerInterrupt, AnswerFinish, Running
  <1>c. /\ Len(stack) \in 1 .. Len(stack)
        /\ Top \in TimerFrame
        /\ SubSeq(stack, 1, Len(stack) - 1) \in Seq(Frame)
    BY <1>a, <1>b, TopType, PopType, FrameKind DEF TypeOK
  <1>1. CASE AnswerTimeUp
    <2>1. totalTime_' \in 0 .. MaxTotalTime
      BY <1>1 DEF AnswerTimeUp, TypeOK
    <2>2. viewSimulationUpdate_' \in BOOLEAN /\ thread' \in [Session -> ThreadState]
      BY <1>1, PaintType DEF AnswerTimeUp
    <2>3. timer' \in [Session -> TimerState] /\ stack' \in Seq(Frame)
      BY <1>1, <1>c DEF AnswerTimeUp, Pop, TypeOK, TimerState
    <2> QED BY <1>1, <2>1, <2>2, <2>3 DEF AnswerTimeUp, TypeOK
  <1>2. CASE AnswerInterrupt
    <2>1. [Top EXCEPT !.at = "finishInterrupt"] \in Frame
      BY <1>c DEF Frame, TimerFrame
    <2>2. [stack EXCEPT ![Len(stack)].at = "finishInterrupt"] \in Seq(Frame)
      BY <1>c, <2>1, ExceptSeq DEF TypeOK, Top
    <2> QED
      BY <1>2, <1>c, <2>2
      DEF AnswerInterrupt, SessionEnds, Pop, TypeOK, TimerState, ScriptState
  <1>3. CASE AnswerFinish
    BY <1>3, <1>c
    DEF AnswerFinish, SessionEnds, Pop, TypeOK, TimerState, ScriptState
  <1> QED BY <1>1, <1>2, <1>3 DEF Answer

LEMMA TypeStep == TypeOK /\ [Next]_vars => TypeOK'
  <1>1. TypeOK /\ UNCHANGED vars => TypeOK'
    BY DEF TypeOK, vars
  <1> QED
    BY <1>1, ClientType, StartType, AnswerType, ThreadType, TimerType DEF Next

\* The fields of GrxSimulationItem and the control states of its threads keep
\* their types in every interleaving, with any clients.
THEOREM TypeCorrect == Spec => []TypeOK
  BY InitType, TypeStep, PTL DEF Spec, Safety

-----------------------------------------------------------------------------
(* A standing request has somebody blocked on the monitor that answers it. *)

LEMMA SignalThread ==
  ASSUME TypeOK, NoEmptySignal, NEW t \in Session, ThreadStep(t)
  PROVE  NoEmptySignal'
  <1> USE DEF TypeOK, NoEmptySignal, ViewWaiters, Moves, UIOnly
  <1>1. CASE Begin(t) BY <1>1 DEF Begin
  <1>2. CASE Loop(t) BY <1>2 DEF Loop
  <1>3. CASE CheckTime(t) BY <1>3 DEF CheckTime
  <1>4. CASE Dynamics(t) BY <1>4 DEF Dynamics
  <1>5. CASE Publish(t) BY <1>5 DEF Publish
  <1>6. CASE TimeOver(t) BY <1>6 DEF TimeOver
  <1>7. CASE Resume(t) BY <1>7 DEF Resume
  <1>8. CASE ClearExecuting(t) BY <1>8 DEF ClearExecuting
  <1>9. CASE ReportStop(t) BY <1>9 DEF ReportStop
  <1>10. CASE ReportFailure(t) BY <1>10 DEF ReportFailure
  <1> QED
    BY <1>1, <1>2, <1>3, <1>4, <1>5, <1>6, <1>7, <1>8, <1>9, <1>10
    DEF ThreadStep

\* notify and notifyAll release threads only together with the request.
LEMMA SignalPaint ==
  ASSUME TypeOK, NoEmptySignal, NEW wakeAll \in BOOLEAN,
         PaintAndRelease(wakeAll),
         simThreadState_' = "TIMEOVER" =>
           ~wakeAll /\ simThreadState_ = "TIMEOVER"
  PROVE  NoEmptySignal'
  <1> DEFINE painted == isSimulatingView_ /\ viewSimulationUpdate_
  <1>1. PICK released \in IF painted THEN NotifyOne(ViewWaiters) ELSE {{}} :
          thread' = [t \in Session |->
                       IF t \in released THEN "loop"
                       ELSE IF wakeAll /\ thread[t] = "timeWait" THEN "woken"
                       ELSE thread[t]]
    BY DEF PaintAndRelease
  <1>2. released \subseteq ViewWaiters /\ (~painted => released = {})
    BY <1>1 DEF NotifyOne
  <1>3. ASSUME viewSimulationUpdate_' PROVE ViewWaiters' # {}
    <2>1. viewSimulationUpdate_ /\ ~painted
      BY <1>3 DEF PaintAndRelease, TypeOK
    <2>2. PICK t \in Session : thread[t] = "viewWait"
      BY <2>1 DEF NoEmptySignal, ViewWaiters
    <2>3. thread'[t] = "viewWait"
      BY <1>1, <1>2, <2>1, <2>2
    <2> QED BY <2>3 DEF ViewWaiters
  <1>4. ASSUME simThreadState_' = "TIMEOVER"
        PROVE  \E t \in Session : thread'[t] = "timeWait"
    <2>1. PICK t \in Session : thread[t] = "timeWait"
      BY <1>4 DEF NoEmptySignal
    <2>2. t \notin released
      BY <1>2, <2>1 DEF ViewWaiters
    <2> QED BY <1>1, <1>4, <2>1, <2>2
  <1> QED BY <1>3, <1>4 DEF NoEmptySignal

LEMMA SignalStep == TypeOK /\ NoEmptySignal /\ [Next]_vars => NoEmptySignal'
  <1> SUFFICES ASSUME TypeOK, NoEmptySignal, [Next]_vars
               PROVE  NoEmptySignal'
    OBVIOUS
  <1>u. ASSUME UNCHANGED <<thread, viewSimulationUpdate_, simThreadState_>>
        PROVE  NoEmptySignal'
    BY <1>u DEF NoEmptySignal, ViewWaiters
  <1>1. CASE ClientStep
    BY <1>1, <1>u
    DEF ClientStep, Click, LoadProject, ScriptPost, ScriptStart, ScriptWait,
        ScriptInterrupted
  <1>2. CASE StartStep
    <2>1. CASE StartSucceeds
      BY <2>1 DEF StartSucceeds, NoEmptySignal
    <2> QED
      BY <1>2, <2>1, <1>u
      DEF StartStep, StartRefused, StartChecks, StartReads, StartFails
  <1>3. CASE Answer
    <2>1. CASE AnswerTimeUp
      BY <2>1, SignalPaint DEF AnswerTimeUp
    <2> QED
      BY <1>3, <2>1, <1>u DEF Answer, AnswerInterrupt, AnswerFinish
  <1>4. ASSUME NEW s \in Session, TimerStep(s) PROVE NoEmptySignal'
    <2>1. CASE TimerExec(s)
      BY <2>1, SignalPaint DEF TimerExec
    <2>2. CASE TimerTimeOver(s)
      BY <2>2, SignalPaint DEF TimerTimeOver
    <2> QED
      BY <1>4, <2>1, <2>2, <1>u DEF TimerStep, TimerAsks, TimerStop, TimerInterrupt
  <1>5. CASE UNCHANGED vars
    BY <1>5, <1>u DEF vars
  <1> QED BY <1>1, <1>2, <1>3, <1>4, <1>5, SignalThread DEF Next

\* While viewSimulationUpdate_ is raised a simulation thread waits on lock3_,
\* and while simThreadState_ is TIMEOVER one waits on lock_: the notify of the
\* SWT thread is never lost, with any number of sessions, clients and races.
THEOREM SignalsHaveWaiters == Spec => []NoEmptySignal
  <1>1. Init => NoEmptySignal
    BY DEF Init, NoEmptySignal
  <1> QED
    BY <1>1, TypeCorrect, SignalStep, PTL DEF Spec, Safety
=============================================================================
