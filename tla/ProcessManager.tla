---------------------------- MODULE ProcessManager ----------------------------
(***************************************************************************)
(* GrxProcessManager and its users: the server processes the GUI starts,   *)
(* restarts and stops (GrxServerManager and its panels, GrxSimulationItem  *)
(* for controllers), the thread that each start leaves waiting for the end *)
(* of its process, and the output thread that walks the list.              *)
(*                                                                         *)
(* Handlers of the SWT thread are one action each.  A process may end at   *)
(* any time; the waiting threads and the output thread run in between, and *)
(* the ends announced wait in the queue of the display.  Left out: the text*)
(* of the output, CORBA options, killall (doKillall is never true), that   *)
(* stop may return false after it has stopped a process, and announcements *)
(* for ids without a panel, which nobody hears.                            *)
(***************************************************************************)
EXTENDS Integers, Sequences, FiniteSets

CONSTANTS
  Server,        \* the ids a panel may have
  DefaultInfo,   \* those the preferences list
  Controller,    \* controller names
  NameServer,    \* the id of the name server
  AutoStart,     \* ids with autoStart
  HasShutdown,   \* ids with hasShutdown
  Pid,           \* bound: of each id, the numbers its processes can have
  Thread,        \* bound: of each id, the threads that can wait for it at a time
  MaxQueue       \* bound: ends announced and not yet shown

Id == Server \cup Controller \cup {NameServer}

ASSUME ManagerAssumption ==
  /\ DefaultInfo \subseteq Server /\ NameServer \notin Server \cup Controller
  /\ Controller \cap Server = {}
  /\ AutoStart \subseteq DefaultInfo \cup {NameServer}
  /\ Controller \subseteq HasShutdown
  /\ Pid \in [Id -> (SUBSET (Nat \ {0})) \ {{}}] /\ MaxQueue \in Nat \ {0}
  /\ Thread # {}

VARIABLES
  phase,         \* "new", "open", "closing" (the join of stopThread), "closed"
  proc,          \* of each id: whether it is in process_, the process_ of its
                 \* AProcess (0 is null), its OS processes ("alive", "ending"
                 \* when told to, "ended"), and its waiting threads
  missed,        \* history: the panels of whose server a waiting thread met a null
  queue,         \* "ProcessEnd" events
  serverInfo,    \* the ids in vecServerInfo; each has a panel
  text,          \* toggleButton_: "START", or "STOP" with restartButton_ shown
  restartFlag_,  \* the panels that have it
  reader, i      \* the output thread: "test" (i < size()), "get", "ended", "dead"

panels == <<serverInfo, text, restartFlag_>>
output == <<reader, i>>
vars == <<phase, proc, missed, queue, panels, output>>

Init ==
  /\ phase = "new"
  /\ proc = [id \in Id |-> [registered |-> FALSE, process_ |-> 0,
                            os |-> [n \in Pid[id] |-> "ended"], waiters |-> {}]]
  /\ missed = {} /\ queue = <<>>
  /\ serverInfo = {} /\ text = [id \in Server |-> "START"] /\ restartFlag_ = {}
  /\ reader = "test" /\ i = 0

-----------------------------------------------------------------------------
(* AProcess and the list, on the state p of one id.  A waiting thread is    *)
(* [thread, on]: on, the process it waits for, 0 until it has read process_,*)
(* -1 if that has been null ever since.                                     *)

IsRunning(p) == p.registered /\ p.process_ # 0 /\ p.os[p.process_] # "ended"

\* What a thread that has not read process_ yet will find, once its AProcess
\* is forgotten and process_ can no longer change
Settled(p) ==
  [p EXCEPT !.waiters =
     {[w EXCEPT !.on = IF @ # 0 THEN @ ELSE IF p.process_ = 0 THEN -1 ELSE p.process_]
        : w \in @}]

\* Mutant of Stop: shutdown lets go of a process without destroying it.
Stop_NoDestroy(id, p) == IF IsRunning(p) THEN [p EXCEPT !.process_ = 0] ELSE p

\* stop; with hasShutdown, nobody waits for the end.
Stop(id, p) ==
  IF ~IsRunning(p) THEN p
  ELSE [p EXCEPT !.os[p.process_] = IF id \in HasShutdown THEN "ending" ELSE "ended",
                 !.process_ = 0]

\* Mutant of Unregister: the AProcess stays with its id.
Unregister_KeepsProcess(p) ==
  IF ~p.registered \/ IsRunning(p) THEN p ELSE [Settled(p) EXCEPT !.registered = FALSE]

Unregister(p) ==
  IF ~p.registered \/ IsRunning(p) THEN p
  ELSE [Settled(p) EXCEPT !.registered = FALSE, !.process_ = 0]

Register(p) == [p EXCEPT !.registered = TRUE]

\* The numbers no process has, nor a thread that is still to announce one.
Unused(p) == {n \in DOMAIN p.os : p.os[n] = "ended" /\ \A w \in p.waiters : w.on # n}

Idle(p) == {t \in Thread : \A w \in p.waiters : w.thread # t}

Waiting(id, p) ==
  IF id \notin Server THEN p.waiters
  ELSE p.waiters \cup {[thread |-> CHOOSE t \in Idle(p) : TRUE, on |-> 0]}

\* start and start0; ok: one of the commands can be executed.  Nothing fails once it
\* is: no code interrupts the thread that sleeps for waitCount then.
Start(id, p, ok) ==
  IF IsRunning(p) THEN [p EXCEPT !.waiters = Waiting(id, p)]
  ELSE IF ~ok THEN [p EXCEPT !.process_ = 0]
  ELSE LET n == CHOOSE n \in Unused(p) : TRUE IN
       [p EXCEPT !.os[n] = "alive", !.process_ = n, !.waiters = Waiting(id, p)]

-----------------------------------------------------------------------------
(* The whole list.                                                         *)

\* Bound: there is a number for the next process of id, and a thread to wait for it.
Room(id) == Unused(Unregister(Stop(id, proc[id]))) # {} /\ Idle(proc[id]) # {}

\* How an autoStart can go: a reference to an id that answers is one of a
\* server that was started by others or that is still ending.
Outcome(external) == {"starts", "fails"} \cup (IF external THEN {"answers"} ELSE {})

\* autoStart takes whoever is in the list, also a server that runs and does not
\* answer: a second thread waits for it then.
AutoStarted(id, p, outcome) ==
  IF id \in AutoStart /\ p.registered /\ outcome # "answers"
  THEN Start(id, p, outcome = "starts") ELSE p

\* setProcessList, for one id: registered anew unless it runs, autoStart
SetProcess(id, p, outcome) ==
  AutoStarted(id, IF IsRunning(p) THEN p ELSE Register(Unregister(p)), outcome)

\* The name server is ours if there was none.
Listed(info, external) == info \cup (IF external THEN {} ELSE {NameServer})

\* What setProcessList and autoStart make of the states s; external: there is a name
\* server already.
SetProcessList(info, external, outcome, s) ==
  [id \in Id |-> IF id \in Listed(info, external) THEN SetProcess(id, s[id], outcome[id])
                 ELSE AutoStarted(id, s[id], outcome[id])]

ButtonText(p) == IF IsRunning(p) THEN "STOP" ELSE "START"

\* GrxPluginManager.start: setProcessList; then the view makes its panels.
Open ==
  /\ phase = "new" /\ phase' = "open"
  /\ \E external \in BOOLEAN : \E outcome \in [AutoStart -> Outcome(external)] :
       proc' = SetProcessList(DefaultInfo, external, outcome, proc)
  /\ serverInfo' = DefaultInfo
  /\ text' = [id \in Server |-> IF id \in DefaultInfo THEN ButtonText(proc'[id]) ELSE "START"]
  /\ UNCHANGED <<missed, queue, restartFlag_, output>>

\* toggleProcess of a server that does not run
Begin(id, p, ok) ==
  LET q == Start(id, Register(Unregister(p)), ok) IN IF ok THEN q ELSE Unregister(q)

\* updateBtn
Toggle(id) ==
  /\ phase = "open" /\ id \in serverInfo /\ Room(id)
  /\ \E ok \in BOOLEAN :
       proc' = [proc EXCEPT ![id] = IF IsRunning(@) THEN Stop(id, @) ELSE Begin(id, @, ok)]
  /\ text' = [text EXCEPT ![id] = ButtonText(proc'[id])]
  /\ UNCHANGED <<phase, missed, queue, serverInfo, restartFlag_, output>>

\* updateRestartBtn: the end of the process it stops is not to be shown.  Its button
\* is there while the text is STOP, but its dialog lets ends be shown before it goes
\* on: it may find any text.
RestartOne(id) ==
  /\ phase = "open" /\ id \in serverInfo /\ Room(id)
  /\ \E ok \in BOOLEAN : proc' = [proc EXCEPT ![id] = Begin(id, Stop(id, @), ok)]
  /\ text' = [text EXCEPT ![id] = ButtonText(proc'[id])]
  /\ restartFlag_' = IF IsRunning(proc[id]) /\ IsRunning(proc'[id])
                     THEN restartFlag_ \cup {id} ELSE restartFlag_
  /\ UNCHANGED <<phase, missed, queue, serverInfo, output>>

\* restart: the servers that have a panel and the name server are stopped and taken
\* from the list, which is then set and started; so are others it still holds.  No
\* panel is told.  A server that is not registered ends it half way, by a
\* NullPointerException.
RestartAll ==
  LET gone(id) == Unregister(Stop(id, proc[id]))
      rest == [id \in Id |-> IF id \in serverInfo \cup {NameServer} THEN gone(id) ELSE proc[id]]
  IN
  /\ phase = "open" /\ \A id \in serverInfo \cup {NameServer} \cup AutoStart : Room(id)
  /\ IF \A id \in serverInfo : proc[id].registered
     THEN \E external \in BOOLEAN : \E outcome \in [AutoStart -> Outcome(external)] :
            proc' = SetProcessList(serverInfo, external, outcome, rest)
     ELSE \E S \in SUBSET {id \in serverInfo : proc[id].registered} :
            proc' = [id \in Id |-> IF id \in S THEN gone(id) ELSE proc[id]]
  /\ UNCHANGED <<phase, missed, queue, panels, output>>

\* insertServerBtn and addServerBtn: a panel for an id that has none
Insert(id) ==
  /\ phase = "open" /\ id \notin serverInfo
  /\ serverInfo' = serverInfo \cup {id}
  /\ text' = [text EXCEPT ![id] = ButtonText(proc[id])]
  /\ UNCHANGED <<phase, proc, missed, queue, restartFlag_, output>>

\* removeServerBtn: the panel goes, the process stays.
Remove(id) ==
  /\ phase = "open" /\ id \in serverInfo
  /\ serverInfo' = serverInfo \ {id} /\ missed' = missed \ {id}
  /\ text' = [text EXCEPT ![id] = "START"] /\ restartFlag_' = restartFlag_ \ {id}
  /\ UNCHANGED <<phase, proc, queue, output>>

\* restoreDefault: the list of the preferences, with new panels
RestoreDefault ==
  /\ phase = "open"
  /\ serverInfo' = DefaultInfo /\ missed' = {} /\ restartFlag_' = {}
  /\ text' = [id \in Server |-> IF id \in DefaultInfo THEN ButtonText(proc[id]) ELSE "START"]
  /\ UNCHANGED <<phase, proc, queue, output>>

\* _setupController, once it is to be started: with a command of its own the
\* AProcess is made anew, otherwise a registered one starts again.
SetupController(c) ==
  /\ phase = "open" /\ Room(c)
  /\ \E ok, com \in BOOLEAN :
       LET p == Stop(c, proc[c]) IN
       /\ com \/ p.registered
       /\ proc' = [proc EXCEPT ![c] =
                     Start(c, IF com THEN Register(Unregister(p)) ELSE p, ok)]
  /\ UNCHANGED <<phase, missed, queue, panels, output>>

\* _refreshControllers, of a controller no model names; or an initialize that
\* throws, after which the AProcess stays.
DropController(c) ==
  /\ phase = "open" /\ proc[c].registered
  /\ \E unregister \in BOOLEAN :
       proc' = [proc EXCEPT ![c] = IF unregister THEN Unregister(Stop(c, @)) ELSE Stop(c, @)]
  /\ UNCHANGED <<phase, missed, queue, panels, output>>

\* The plug-in stops: windows, panels and display are gone; shutDown up to the
\* join: autoStop.
Close ==
  /\ phase = "open" /\ phase' = "closing"
  /\ proc' = [id \in Id |-> Stop(id, proc[id])]
  /\ serverInfo' = {} /\ text' = [id \in Server |-> "START"] /\ restartFlag_' = {}
  /\ queue' = <<>> /\ missed' = {}
  /\ UNCHANGED <<output>>

\* ... and after it: the list is cleared.
Closed ==
  /\ phase = "closing" /\ reader \in {"ended", "dead"} /\ phase' = "closed"
  /\ proc' = [id \in Id |-> [Settled(proc[id]) EXCEPT !.registered = FALSE, !.process_ = 0]]
  /\ UNCHANGED <<missed, queue, panels, output>>

\* Mutant of ProcessEnd: the flag stays.
ProcessEnd_KeepsFlag ==
  /\ phase = "open" /\ queue # <<>> /\ queue' = Tail(queue)
  /\ text' = IF Head(queue) \in serverInfo \ restartFlag_
             THEN [text EXCEPT ![Head(queue)] = "START"] ELSE text
  /\ UNCHANGED <<phase, proc, missed, serverInfo, restartFlag_, output>>

\* GrxServerManagerView.update and setStartText
ProcessEnd ==
  /\ phase = "open" /\ queue # <<>> /\ queue' = Tail(queue)
  /\ LET id == Head(queue) IN
     IF id \notin serverInfo THEN UNCHANGED <<restartFlag_, text>>
     ELSE IF id \in restartFlag_
     THEN restartFlag_' = restartFlag_ \ {id} /\ UNCHANGED text
     ELSE text' = [text EXCEPT ![id] = "START"] /\ UNCHANGED restartFlag_
  /\ UNCHANGED <<phase, proc, missed, serverInfo, output>>

-----------------------------------------------------------------------------
(* The processes and the other threads.                                    *)

\* A process ends.
End(id, n) ==
  /\ proc[id].os[n] # "ended"
  /\ proc' = [proc EXCEPT ![id].os[n] = "ended"]
  /\ UNCHANGED <<phase, missed, queue, panels, output>>

\* The thread of start reads process_, which stop may have set to null ...
Wait(id) ==
  /\ \E w \in proc[id].waiters :
       LET n == IF w.on = 0 THEN proc[id].process_ ELSE 0 IN
       /\ w.on <= 0
       /\ proc' = [proc EXCEPT ![id].waiters =
                     (@ \ {w}) \cup (IF n = 0 THEN {} ELSE {[w EXCEPT !.on = n]})]
       /\ missed' = IF n = 0 /\ id \in serverInfo THEN missed \cup {id} ELSE missed
  /\ UNCHANGED <<phase, queue, panels, output>>

\* ... and announces the end.
Announce(id) ==
  /\ Len(queue) < MaxQueue
  /\ \E w \in proc[id].waiters :
       /\ w.on > 0 /\ proc[id].os[w.on] = "ended"
       /\ proc' = [proc EXCEPT ![id].waiters = @ \ {w}]
  /\ queue' = IF phase = "open" THEN Append(queue, id) ELSE queue
  /\ UNCHANGED <<phase, missed, panels, output>>

Size == Cardinality({id \in Id : proc[id].registered})

\* Mutant of UpdateIO: isEnd_ is not looked at.
UpdateIO_NoEnd ==
  /\ reader = "test"
  /\ IF i < Size THEN reader' = "get" /\ UNCHANGED i ELSE i' = 0 /\ UNCHANGED reader
  /\ UNCHANGED <<phase, proc, missed, queue, panels>>

\* The loop of updateIO, and isEnd_ between two passes
UpdateIO ==
  /\ reader = "test"
  /\ IF i < Size THEN reader' = "get" /\ UNCHANGED i
     ELSE i' = 0 /\ reader' = IF phase = "closing" THEN "ended" ELSE reader
  /\ UNCHANGED <<phase, proc, missed, queue, panels>>

\* process_.get(i), for which the list may have become too short
GetProcess ==
  /\ reader = "get"
  /\ IF i < Size THEN reader' = "test" /\ i' = i + 1
     ELSE reader' = "dead" /\ i' = 0
  /\ UNCHANGED <<phase, proc, missed, queue, panels>>

-----------------------------------------------------------------------------
Threads(id) == Wait(id) \/ Announce(id)
EndTold(id) == \E n \in Pid[id] : proc[id].os[n] = "ending" /\ End(id, n)

Next ==
  \/ Open \/ RestartAll \/ RestoreDefault \/ Close \/ Closed \/ ProcessEnd
  \/ \E id \in Server : Toggle(id) \/ RestartOne(id) \/ Insert(id) \/ Remove(id)
  \/ \E c \in Controller : SetupController(c) \/ DropController(c)
  \/ \E id \in Id : Threads(id) \/ \E n \in Pid[id] : End(id, n)
  \/ UpdateIO \/ GetProcess

\* Every thread goes on: that of the display, those that wait, the one of the
\* output; and a process that destroy was called on ends.
Spec ==
  /\ Init /\ [][Next]_vars
  /\ WF_vars(ProcessEnd) /\ WF_vars(Closed) /\ WF_vars(UpdateIO \/ GetProcess)
  /\ \A id \in Server : WF_vars(Threads(id)) /\ WF_vars(EndTold(id))

-----------------------------------------------------------------------------
TypeOK ==
  /\ phase \in {"new", "open", "closing", "closed"}
  /\ DOMAIN proc = Id
  /\ \A id \in Id :
     /\ proc[id].registered \/ proc[id].process_ = 0
     /\ proc[id] \in [registered : BOOLEAN, process_ : {0} \cup Pid[id],
                     os : [Pid[id] -> {"alive", "ending", "ended"}],
                     waiters : SUBSET [thread : Thread, on : {-1, 0} \cup Pid[id]]]
  /\ missed \subseteq Server /\ queue \in Seq(Server)
  /\ serverInfo \subseteq Server /\ restartFlag_ \subseteq Server
  /\ text \in [Server -> {"START", "STOP"}]
  /\ reader \in {"test", "get", "ended", "dead"} /\ i \in Nat

(* A process that was not told to end is the one its AProcess holds, and    *)
(* that is in the list: so there is one copy of a server at a time, stop and*)
(* autoStop reach it, and once the GUI is closed none is left behind.  Each *)
(* start, restart and refresh has to keep start0, unregister and stop in    *)
(* step for that.  (Copies told to end by shutdown may live beside it.)     *)
NoneLost ==
  \A id \in Id : \A n \in Pid[id] :
    proc[id].os[n] = "alive" =>
      proc[id].registered /\ proc[id].process_ = n

\* The announcements of ends of id that may still come.
Coming(id) ==
  Cardinality(proc[id].waiters) + Cardinality({k \in DOMAIN queue : queue[k] = id})

(* A panel may say STOP of a server that does not run only while its end is*)
(* still to be announced, and one more announcement if restartFlag_ makes it*)
(* ignore one; unless a waiting thread found process_ null and never tells. *)
StopShownRight ==
  phase = "open" =>
    \A id \in serverInfo \ missed :
      text[id] = "STOP" /\ ~IsRunning(proc[id]) =>
        Coming(id) >= IF id \in restartFlag_ THEN 2 ELSE 1

(* So the button of a server that ends comes to say START, unless it runs   *)
(* again or an announcement was missed.                                     *)
EndShown ==
  \A id \in Server :
    (phase = "open" /\ id \in serverInfo /\ text[id] = "STOP" /\ ~IsRunning(proc[id]))
      ~> (phase # "open" \/ id \notin serverInfo \/ text[id] = "START"
            \/ IsRunning(proc[id]) \/ id \in missed)

(* Closing the GUI ends: the join of stopThread returns, also when the list *)
(* has become too short under the output thread and killed it.              *)
Closes == phase = "closing" ~> phase = "closed"
=============================================================================
