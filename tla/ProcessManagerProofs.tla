------------------------ MODULE ProcessManagerProofs ------------------------
(***************************************************************************)
(* Theorems about ProcessManager for all values of its constants.          *)
(***************************************************************************)
EXTENDS ProcessManager, SequenceTheorems, FiniteSetTheorems, FunctionTheorems, TLAPS

USE ManagerAssumption

Waiter(id) == [thread : Thread, on : {-1, 0} \cup Pid[id]]

Process(id) ==
  [registered : BOOLEAN, process_ : {0} \cup Pid[id],
   os : [Pid[id] -> {"alive", "ending", "ended"}], waiters : SUBSET Waiter(id)]

\* The parts of TypeOK and NoneLost about one id, and that only servers are
\* waited for.
Good(id, p) ==
  /\ p \in Process(id)
  /\ p.registered \/ p.process_ = 0
  /\ \A n \in Pid[id] : p.os[n] = "alive" => p.registered /\ p.process_ = n
  /\ id \in Server \/ p.waiters = {}

NoneAlive(id, p) == \A n \in Pid[id] : p.os[n] # "alive"

-----------------------------------------------------------------------------
(* The operations on one id.                                               *)

\* 0 and -1 are no process numbers.
LEMMA PidNatural == \A id \in Id : Pid[id] \subseteq Nat \ {0}
  OBVIOUS

\* A process that does not run has nothing alive.
LEMMA NotRunning ==
  ASSUME NEW id \in Id, NEW p, Good(id, p), ~IsRunning(p)
  PROVE  NoneAlive(id, p)
  BY PidNatural DEF Good, Process, IsRunning, NoneAlive

\* Settled keeps the type, and no number it leaves unused was used before.
LEMMA SettledGood ==
  ASSUME NEW id \in Id, NEW p, Good(id, p)
  PROVE  /\ Good(id, Settled(p))
         /\ Unused(Settled(p)) \subseteq Unused(p)
         /\ Settled(p).registered = p.registered
         /\ Settled(p).process_ = p.process_
         /\ Settled(p).os = p.os
         /\ Idle(Settled(p)) = Idle(p)
  <1> DEFINE after(w) == [w EXCEPT !.on = IF @ # 0 THEN @ ELSE IF p.process_ = 0 THEN -1
                                          ELSE p.process_]
             W == {after(w) : w \in p.waiters}
  <1>1. Settled(p) = [p EXCEPT !.waiters = W]
    BY DEF Settled, Good, Process
  <1>2. \A w \in p.waiters : /\ after(w) \in Waiter(id) /\ after(w).thread = w.thread
                             /\ w.on # 0 => after(w).on = w.on
    BY PidNatural DEF Good, Process, Waiter
  <1>3. W \in SUBSET Waiter(id) /\ (p.waiters = {} => W = {})
    BY <1>2
  <1>4. Settled(p) \in Process(id) /\ Settled(p).waiters = W /\ Settled(p).os = p.os
        /\ Settled(p).registered = p.registered /\ Settled(p).process_ = p.process_
    BY <1>1, <1>3 DEF Good, Process
  <1>5. ASSUME NEW n \in Unused(Settled(p)) PROVE n \in Unused(p)
    <2>1. n \in DOMAIN p.os /\ p.os[n] = "ended" /\ \A w \in W : w.on # n
      BY <1>4, <1>5 DEF Unused
    <2>2. n # 0
      BY <2>1, PidNatural DEF Good, Process
    <2>3. ASSUME NEW w \in p.waiters PROVE w.on # n
      <3>1. after(w) \in W
        OBVIOUS
      <3> QED BY <3>1, <2>1, <2>2, <1>2
    <2> QED BY <2>1, <2>3 DEF Unused
  <1>6. Idle(Settled(p)) = Idle(p)
    <2>1. ASSUME NEW t
          PROVE  (\A v \in W : v.thread # t) <=> \A w \in p.waiters : w.thread # t
      <3>1. \A w \in p.waiters : after(w) \in W /\ after(w).thread = w.thread
        BY <1>2
      <3>2. \A v \in W : \E w \in p.waiters : v = after(w)
        OBVIOUS
      <3> HIDE DEF after, W
      <3> QED BY <3>1, <3>2
    <2> HIDE DEF W
    <2>2. Idle(Settled(p)) = {t \in Thread : \A v \in W : v.thread # t}
      BY <1>4 DEF Idle
    <2> QED BY <2>1, <2>2 DEF Idle
  <1> QED BY <1>3, <1>4, <1>5, <1>6 DEF Good

\* stop leaves nothing running.
LEMMA StopGood ==
  ASSUME NEW id \in Id, NEW p, Good(id, p)
  PROVE  /\ Good(id, Stop(id, p)) /\ ~IsRunning(Stop(id, p))
         /\ Stop(id, p).registered = p.registered
         /\ Stop(id, p).waiters = p.waiters /\ Idle(Stop(id, p)) = Idle(p)
  <1>1. CASE ~IsRunning(p)
    BY <1>1 DEF Stop
  <1>2. CASE IsRunning(p)
    <2> DEFINE mark == IF id \in HasShutdown THEN "ending" ELSE "ended"
               q == [p EXCEPT !.os[p.process_] = mark, !.process_ = 0]
    <2>1. Stop(id, p) = q
      BY <1>2 DEF Stop
    <2>2. p.registered /\ p.process_ \in Pid[id]
      BY <1>2 DEF IsRunning, Good, Process
    <2>3. q \in Process(id) /\ q.process_ = 0 /\ q.registered = p.registered
          /\ q.waiters = p.waiters /\ q.os = [p.os EXCEPT ![p.process_] = mark]
      BY <2>2 DEF Good, Process
    <2>4. \A n \in Pid[id] : q.os[n] # "alive"
      BY <2>2, <2>3 DEF Good, Process
    <2> HIDE DEF q
    <2>5. Idle(q) = Idle(p)
      BY <2>3 DEF Idle
    <2> QED BY <2>1, <2>3, <2>4, <2>2, <2>5 DEF Good, IsRunning
  <1> QED BY <1>1, <1>2

\* unregister of an id that does not run.
LEMMA UnregisterGood ==
  ASSUME NEW id \in Id, NEW p, Good(id, p)
  PROVE  /\ Good(id, Unregister(p))
         /\ ~IsRunning(p) => /\ ~Unregister(p).registered /\ Unregister(p).process_ = 0
                             /\ ~IsRunning(Unregister(p))
                             /\ NoneAlive(id, Unregister(p))
         /\ Unused(Unregister(p)) \subseteq Unused(p) /\ Idle(Unregister(p)) = Idle(p)
  <1>1. CASE ~p.registered \/ IsRunning(p)
    <2>1. Unregister(p) = p
      BY <1>1 DEF Unregister
    <2> QED BY <2>1, <1>1, NotRunning DEF Good, IsRunning
  <1>2. CASE p.registered /\ ~IsRunning(p)
    <2> DEFINE q == Settled(p)
    <2>1. Unregister(p) = [q EXCEPT !.registered = FALSE, !.process_ = 0]
      BY <1>2 DEF Unregister
    <2>2. Good(id, q) /\ q.os = p.os /\ Unused(q) \subseteq Unused(p) /\ Idle(q) = Idle(p)
      BY SettledGood
    <2>3. NoneAlive(id, q)
      BY <1>2, <2>2, NotRunning DEF NoneAlive
    <2> HIDE DEF q
    <2>4. Unregister(p) \in Process(id) /\ Unregister(p).os = q.os
          /\ Unregister(p).waiters = q.waiters
          /\ Unregister(p).registered = FALSE /\ Unregister(p).process_ = 0
      BY <2>1, <2>2 DEF Good, Process
    <2>5. Unused(Unregister(p)) = Unused(q) /\ Idle(Unregister(p)) = Idle(q)
      BY <2>4 DEF Unused, Idle
    <2> QED BY <2>2, <2>3, <2>4, <2>5 DEF Good, NoneAlive, IsRunning
  <1> QED BY <1>1, <1>2

LEMMA RegisterGood ==
  ASSUME NEW id \in Id, NEW p, Good(id, p)
  PROVE  /\ Good(id, Register(p)) /\ Register(p).registered
         /\ Unused(Register(p)) = Unused(p) /\ Idle(Register(p)) = Idle(p)
         /\ p.process_ = 0 => ~IsRunning(Register(p))
  <1>1. Register(p) \in Process(id) /\ Register(p).registered
        /\ Register(p).os = p.os /\ Register(p).waiters = p.waiters
        /\ Register(p).process_ = p.process_
    BY DEF Register, Good, Process
  <1> QED BY <1>1 DEF Good, Unused, Idle, IsRunning

\* A thread is waiting more, if any is for this id.
LEMMA WaitingGood ==
  ASSUME NEW id \in Id, NEW p, Good(id, p), Idle(p) # {}
  PROVE  Waiting(id, p) \in SUBSET Waiter(id) /\ (id \in Server \/ Waiting(id, p) = {})
  <1> DEFINE t == CHOOSE t \in Idle(p) : TRUE
  <1>1. t \in Thread
    BY DEF Idle
  <1> HIDE DEF t
  <1>2. [thread |-> t, on |-> 0] \in Waiter(id)
    BY <1>1 DEF Waiter
  <1>3. Waiting(id, p) = p.waiters \cup (IF id \in Server THEN {[thread |-> t, on |-> 0]} ELSE {})
    BY DEF Waiting, t
  <1> QED BY <1>2, <1>3 DEF Good, Process

\* start of a registered id that runs or has a number left, and a thread.
LEMMA StartGood ==
  ASSUME NEW id \in Id, NEW p, Good(id, p), p.registered, NEW ok \in BOOLEAN,
         IsRunning(p) \/ Unused(p) # {}, Idle(p) # {}
  PROVE  /\ Good(id, Start(id, p, ok))
         /\ ~ok /\ ~IsRunning(p) => ~IsRunning(Start(id, p, ok))
  <1>1. CASE IsRunning(p)
    <2> DEFINE W == Waiting(id, p)
    <2>1. Start(id, p, ok) = [p EXCEPT !.waiters = W]
      BY <1>1 DEF Start
    <2>3. W \in SUBSET Waiter(id) /\ (id \in Server \/ W = {})
      BY WaitingGood
    <2> HIDE DEF W
    <2> QED BY <1>1, <2>1, <2>3 DEF Good, Process
  <1>2. CASE ~IsRunning(p) /\ ~ok
    <2>1. Start(id, p, ok) = [p EXCEPT !.process_ = 0]
      BY <1>2 DEF Start
    <2>2. NoneAlive(id, p)
      BY <1>2, NotRunning
    <2> QED BY <2>1, <2>2 DEF Good, Process, NoneAlive, IsRunning
  <1>3. CASE ~IsRunning(p) /\ ok
    <2> DEFINE n == CHOOSE n \in Unused(p) : TRUE
               W == Waiting(id, p)
               q == [p EXCEPT !.os[n] = "alive", !.process_ = n, !.waiters = W]
    <2>1. Start(id, p, ok) = q
      BY <1>3 DEF Start
    <2>2. n \in Pid[id]
      BY <1>3 DEF Unused, Good, Process
    <2> HIDE DEF n
    <2>3. W \in SUBSET Waiter(id) /\ (id \in Server \/ W = {})
      BY WaitingGood
    <2>4. NoneAlive(id, p)
      BY <1>3, NotRunning
    <2> HIDE DEF W
    <2>5. q \in Process(id) /\ q.registered /\ q.process_ = n /\ q.waiters = W
          /\ q.os = [p.os EXCEPT ![n] = "alive"]
      BY <2>2, <2>3 DEF Good, Process
    <2>6. \A m \in Pid[id] : q.os[m] = "alive" => m = n
      BY <2>2, <2>4, <2>5 DEF NoneAlive, Good, Process
    <2> HIDE DEF q
    <2> QED BY <1>3, <2>1, <2>3, <2>5, <2>6 DEF Good
  <1> QED BY <1>1, <1>2, <1>3

LEMMA BeginGood ==
  ASSUME NEW id \in Id, NEW p, Good(id, p), ~IsRunning(p), NEW ok \in BOOLEAN,
         Unused(Unregister(p)) # {}, Idle(p) # {}
  PROVE  Good(id, Begin(id, p, ok))
  <1> DEFINE u == Unregister(p)
             r == Register(u)
             q == Start(id, r, ok)
  <1>1. Good(id, u) /\ u.process_ = 0 /\ Idle(u) # {}
    BY UnregisterGood
  <1> HIDE DEF u
  <1>2. Good(id, r) /\ r.registered /\ Unused(r) # {} /\ Idle(r) # {}
    <2>1. Unused(u) # {}
      BY DEF u
    <2> QED BY <1>1, <2>1, RegisterGood
  <1> HIDE DEF r
  <1>3. Good(id, q)
    BY <1>2, StartGood
  <1>4. Good(id, Unregister(q))
    BY <1>3, UnregisterGood
  <1>5. Begin(id, p, ok) = IF ok THEN q ELSE Unregister(q)
    BY DEF Begin, q, r, u
  <1> QED BY <1>3, <1>4, <1>5

\* What autoStart and setProcessList need of an id they may start.
Able(p) == Idle(p) # {} /\ (IsRunning(p) \/ Unused(Unregister(p)) # {})

LEMMA AutoStartedGood ==
  ASSUME NEW id \in Id, NEW p, Good(id, p), NEW outcome,
         id \in AutoStart => Idle(p) # {} /\ (IsRunning(p) \/ Unused(p) # {})
  PROVE  Good(id, AutoStarted(id, p, outcome))
  <1> DEFINE ok == outcome = "starts"
             s == Start(id, p, ok)
  <1>1. ok \in BOOLEAN
    OBVIOUS
  <1> HIDE DEF ok
  <1>2. id \in AutoStart /\ p.registered => Good(id, s)
    BY <1>1, StartGood
  <1>3. AutoStarted(id, p, outcome)
          = IF id \in AutoStart /\ p.registered /\ outcome # "answers" THEN s ELSE p
    BY DEF AutoStarted, s, ok
  <1> QED BY <1>2, <1>3

\* What setProcessList makes of an id, before autoStart.
Renewed(p) == IF IsRunning(p) THEN p ELSE Register(Unregister(p))

LEMMA RenewedGood ==
  ASSUME NEW id \in Id, NEW p, Good(id, p), Able(p)
  PROVE  /\ Good(id, Renewed(p)) /\ Renewed(p).registered /\ Idle(Renewed(p)) # {}
         /\ IsRunning(Renewed(p)) \/ Unused(Renewed(p)) # {}
  <1>1. CASE IsRunning(p)
    BY <1>1 DEF IsRunning, Able, Renewed
  <1>2. CASE ~IsRunning(p)
    <2> DEFINE u == Unregister(p)
    <2>1. Good(id, u) /\ Unused(u) # {} /\ Idle(u) # {}
      BY <1>2, UnregisterGood DEF Able
    <2>2. Renewed(p) = Register(u)
      BY <1>2 DEF Renewed
    <2> HIDE DEF u
    <2>3. Good(id, Register(u)) /\ Register(u).registered
          /\ Unused(Register(u)) # {} /\ Idle(Register(u)) # {}
      BY <2>1, RegisterGood
    <2> QED BY <2>2, <2>3
  <1> QED BY <1>1, <1>2

LEMMA SetProcessGood ==
  ASSUME NEW id \in Id, NEW p, Good(id, p), NEW outcome, Able(p)
  PROVE  Good(id, SetProcess(id, p, outcome))
  <1> DEFINE q == Renewed(p)
  <1>1. Good(id, q) /\ Idle(q) # {} /\ (IsRunning(q) \/ Unused(q) # {})
    BY RenewedGood
  <1>2. SetProcess(id, p, outcome) = AutoStarted(id, q, outcome)
    BY DEF SetProcess, Renewed
  <1> HIDE DEF q
  <1> QED BY <1>1, <1>2, AutoStartedGood

\* The states s of all ids, each of which may be started if it is to be.
LEMMA SetProcessListGood ==
  ASSUME NEW info, NEW external, NEW outcome, NEW s, \A id \in Id : Good(id, s[id]),
         \A id \in Id \cap (Listed(info, external) \cup AutoStart) : Able(s[id])
  PROVE  LET r == SetProcessList(info, external, outcome, s) IN
         DOMAIN r = Id /\ \A id \in Id : Good(id, r[id])
  <1> DEFINE r == SetProcessList(info, external, outcome, s)
  <1>1. ASSUME NEW id \in Id PROVE Good(id, r[id])
    <2> DEFINE p == s[id]
               o == outcome[id]
    <2>1. r[id] = IF id \in Listed(info, external) THEN SetProcess(id, p, o)
                  ELSE AutoStarted(id, p, o)
      BY DEF SetProcessList
    <2>2. Good(id, p) /\ (id \in Listed(info, external) \cup AutoStart => Able(p))
      OBVIOUS
    <2>3. Unused(Unregister(p)) \subseteq Unused(p)
      BY <2>2, UnregisterGood
    <2> HIDE DEF p, r, o
    <2>4. CASE id \in Listed(info, external)
      BY <2>1, <2>2, <2>4, SetProcessGood
    <2>5. CASE id \notin Listed(info, external)
      <3>1. id \in AutoStart => Idle(p) # {} /\ (IsRunning(p) \/ Unused(p) # {})
        BY <2>2, <2>3 DEF Able
      <3>2. Good(id, AutoStarted(id, p, o))
        BY <2>2, <3>1, AutoStartedGood
      <3> QED BY <2>1, <2>5, <3>2
    <2> QED BY <2>4, <2>5
  <1>2. DOMAIN r = Id
    BY DEF SetProcessList
  <1> QED BY <1>1, <1>2

-----------------------------------------------------------------------------
(* The whole list.                                                         *)

\* The inductive invariant.  Before setProcessList nothing is there; autoStop
\* has reached every process, so that clear leaves none behind.
Manager ==
  /\ DOMAIN proc = Id
  /\ \A id \in Id : Good(id, proc[id])
  /\ phase \in {"new", "open", "closing", "closed"}
  /\ phase = "new" => \A id \in Id : /\ ~proc[id].registered /\ proc[id].waiters = {}
                                  /\ Unused(proc[id]) = Pid[id]
  /\ phase \in {"closing", "closed"} => \A id \in Id : NoneAlive(id, proc[id])

\* A step that changes one id while the GUI is open.
LEMMA OneChanged ==
  ASSUME Manager, phase = "open", phase' = phase, NEW id \in Id, NEW q, Good(id, q),
         proc' = [proc EXCEPT ![id] = q]
  PROVE  Manager'
  BY DEF Manager

\* A process that is stopped and unregistered has no more to give up.
LEMMA GoneGood ==
  ASSUME NEW id \in Id, NEW p, Good(id, p)
  PROVE  LET q == Unregister(Stop(id, p)) IN
         Good(id, q) /\ ~q.registered /\ ~IsRunning(q) /\ Unregister(q) = q /\ Idle(q) = Idle(p)
  <1> DEFINE s == Stop(id, p)
             q == Unregister(s)
  <1>1. Good(id, s) /\ ~IsRunning(s) /\ Idle(s) = Idle(p)
    BY StopGood
  <1> HIDE DEF s
  <1>2. Good(id, q) /\ ~q.registered /\ ~IsRunning(q) /\ Idle(q) = Idle(p)
    BY <1>1, UnregisterGood
  <1>3. Unregister(q) = q
    BY <1>2 DEF Unregister
  <1> QED BY <1>2, <1>3 DEF s

LEMMA InitManager == Init => Manager
  <1> SUFFICES ASSUME Init PROVE Manager
    OBVIOUS
  <1> USE DEF Init
  <1>1. ASSUME NEW id \in Id
        PROVE  /\ Good(id, proc[id]) /\ ~proc[id].registered
               /\ Unused(proc[id]) = Pid[id] /\ proc[id].waiters = {}
    <2>1. proc[id] = [registered |-> FALSE, process_ |-> 0,
                      os |-> [n \in Pid[id] |-> "ended"], waiters |-> {}]
      OBVIOUS
    <2> HIDE DEF Init
    <2> QED BY <2>1 DEF Good, Process, Unused
  <1> QED BY <1>1 DEF Manager

LEMMA OpenManager == Manager /\ Open => Manager'
  <1> SUFFICES ASSUME Manager, Open PROVE Manager'
    OBVIOUS
  <1>0. PICK external \in BOOLEAN : \E outcome \in [AutoStart -> Outcome(external)] :
          proc' = SetProcessList(DefaultInfo, external, outcome, proc)
    BY DEF Open
  <1>1. PICK outcome : proc' = SetProcessList(DefaultInfo, external, outcome, proc)
    BY <1>0
  <1>2. ASSUME NEW id \in Id PROVE Good(id, proc[id]) /\ Able(proc[id])
    <2> DEFINE p == proc[id]
    <2>1. Good(id, p) /\ ~p.registered /\ Unused(p) = Pid[id] /\ p.waiters = {}
      BY DEF Manager, Open
    <2>2. Unregister(p) = p /\ Pid[id] # {}
      BY <2>1 DEF Unregister
    <2>3. Idle(p) = Thread
      BY <2>1 DEF Idle
    <2> QED BY <2>1, <2>2, <2>3 DEF Able
  <1>3. DOMAIN proc' = Id /\ \A id \in Id : Good(id, proc'[id])
    BY <1>1, <1>2, SetProcessListGood
  <1> QED BY <1>3 DEF Open, Manager

\* What a restart stops and takes from the list, and what it leaves.
Gone(id) == Unregister(Stop(id, proc[id]))
Rested == [id \in Id |-> IF id \in serverInfo \cup {NameServer} THEN Gone(id) ELSE proc[id]]

LEMMA GoneOfManager ==
  ASSUME Manager, NEW id \in Id
  PROVE  /\ Good(id, proc[id]) /\ Good(id, Gone(id))
         /\ Unregister(Gone(id)) = Gone(id) /\ Idle(Gone(id)) = Idle(proc[id])
  BY GoneGood DEF Manager, Gone

LEMMA RestedGood ==
  ASSUME Manager, NEW id \in Id
  PROVE  Good(id, Rested[id]) /\ (Room(id) => Able(Rested[id]))
  <1>1. /\ Good(id, proc[id]) /\ Good(id, Gone(id))
        /\ Unregister(Gone(id)) = Gone(id) /\ Idle(Gone(id)) = Idle(proc[id])
    BY GoneOfManager
  <1>2. CASE id \in serverInfo \cup {NameServer}
    <2>1. Rested[id] = Gone(id)
      BY <1>2 DEF Rested
    <2>2. Room(id) => Unused(Gone(id)) # {} /\ Idle(Gone(id)) # {}
      BY <1>1 DEF Room, Gone
    <2> QED BY <1>1, <2>1, <2>2 DEF Able
  <1>3. CASE id \notin serverInfo \cup {NameServer}
    <2>1. Rested[id] = proc[id]
      BY <1>3 DEF Rested
    <2>2. Room(id) /\ ~IsRunning(proc[id]) => Unused(Unregister(proc[id])) # {}
      BY DEF Room, Stop
    <2>3. Room(id) => Idle(proc[id]) # {}
      BY DEF Room
    <2> QED BY <1>1, <2>1, <2>2, <2>3 DEF Able
  <1> QED BY <1>2, <1>3

LEMMA RestartAllManager == Manager /\ RestartAll => Manager'
  <1> SUFFICES ASSUME Manager, RestartAll PROVE Manager'
    OBVIOUS
  <1>1. CASE \E external \in BOOLEAN : \E outcome \in [AutoStart -> Outcome(external)] :
               proc' = SetProcessList(serverInfo, external, outcome, Rested)
    <2> PICK external \in BOOLEAN : \E outcome \in [AutoStart -> Outcome(external)] :
          proc' = SetProcessList(serverInfo, external, outcome, Rested)
      BY <1>1
    <2> PICK outcome : proc' = SetProcessList(serverInfo, external, outcome, Rested)
      OBVIOUS
    <2>1. \A id \in Id : Good(id, Rested[id])
      BY RestedGood
    <2>2. ASSUME NEW id \in Id \cap (Listed(serverInfo, external) \cup AutoStart)
          PROVE  Able(Rested[id])
      <3>1. id \in Id /\ id \in serverInfo \cup {NameServer} \cup AutoStart
        BY DEF Listed
      <3>2. Room(id)
        BY <3>1 DEF RestartAll
      <3> QED BY <3>1, <3>2, RestedGood
    <2>3. DOMAIN proc' = Id /\ \A id \in Id : Good(id, proc'[id])
      BY <2>1, <2>2, SetProcessListGood
    <2> QED BY <2>3 DEF RestartAll, Manager
  <1>2. CASE \E S \in SUBSET {id \in serverInfo : proc[id].registered} :
               proc' = [id \in Id |-> IF id \in S THEN Gone(id) ELSE proc[id]]
    <2>1. \A id \in Id : Good(id, proc'[id])
      BY <1>2, GoneOfManager
    <2> QED BY <1>2, <2>1 DEF RestartAll, Manager
  <1>3. \/ \E external \in BOOLEAN : \E outcome \in [AutoStart -> Outcome(external)] :
               proc' = SetProcessList(serverInfo, external, outcome, Rested)
        \/ \E S \in SUBSET {id \in serverInfo : proc[id].registered} :
               proc' = [id \in Id |-> IF id \in S THEN Gone(id) ELSE proc[id]]
    BY Zenon DEF RestartAll, Rested, Gone
  <1> QED BY <1>1, <1>2, <1>3

LEMMA ToggleManager == ASSUME Manager, NEW id \in Server, Toggle(id) PROVE Manager'
  <1> DEFINE p == proc[id]
  <1>1. id \in Id /\ phase = "open" /\ phase' = phase /\ Room(id)
    BY DEF Toggle, Id
  <1>2. PICK ok \in BOOLEAN :
          proc' = [proc EXCEPT ![id] = IF IsRunning(@) THEN Stop(id, @) ELSE Begin(id, @, ok)]
    BY DEF Toggle
  <1> DEFINE q == IF IsRunning(p) THEN Stop(id, p) ELSE Begin(id, p, ok)
  <1>3. Good(id, p)
    BY <1>1 DEF Manager
  <1>4. Good(id, q)
    <2>1. (~IsRunning(p) => Unused(Unregister(p)) # {}) /\ Idle(p) # {}
      BY <1>1 DEF Room, Stop
    <2> HIDE DEF p
    <2> QED BY <1>1, <1>3, <2>1, StopGood, BeginGood
  <1>5. proc' = [proc EXCEPT ![id] = q]
    BY <1>2
  <1> HIDE DEF q
  <1> QED BY <1>1, <1>4, <1>5, OneChanged

LEMMA RestartOneManager == ASSUME Manager, NEW id \in Server, RestartOne(id) PROVE Manager'
  <1> DEFINE s == Stop(id, proc[id])
  <1>1. /\ id \in Id /\ phase = "open" /\ phase' = phase
        /\ Unused(Unregister(s)) # {} /\ Idle(proc[id]) # {}
    BY DEF RestartOne, Room, Id
  <1>2. PICK ok \in BOOLEAN : proc' = [proc EXCEPT ![id] = Begin(id, s, ok)]
    BY DEF RestartOne
  <1>3. Good(id, s) /\ ~IsRunning(s) /\ Idle(s) # {}
    BY <1>1, StopGood DEF Manager
  <1> HIDE DEF s
  <1>4. Good(id, Begin(id, s, ok))
    BY <1>1, <1>3, BeginGood
  <1> QED BY <1>1, <1>2, <1>4, OneChanged

LEMMA SetupControllerManager ==
  ASSUME Manager, NEW c \in Controller, SetupController(c) PROVE Manager'
  <1> DEFINE p == Stop(c, proc[c])
  <1>1. /\ c \in Id /\ phase = "open" /\ phase' = phase
        /\ Unused(Unregister(p)) # {} /\ Idle(proc[c]) # {}
    BY DEF SetupController, Room, Id
  <1>2. Good(c, proc[c])
    BY <1>1 DEF Manager
  <1>3. Good(c, p) /\ ~IsRunning(p) /\ Idle(p) # {}
    BY <1>1, <1>2, StopGood
  <1>4. PICK ok \in BOOLEAN, com \in BOOLEAN :
          /\ com \/ p.registered
          /\ proc' = [proc EXCEPT ![c] =
                        Start(c, IF com THEN Register(Unregister(p)) ELSE p, ok)]
    BY DEF SetupController
  <1> HIDE DEF p
  <1> DEFINE u == Unregister(p)
             q == IF com THEN Register(u) ELSE p
  <1>5. Good(c, u) /\ Unused(u) \subseteq Unused(p) /\ Unused(u) # {} /\ Idle(u) # {}
    BY <1>1, <1>3, UnregisterGood
  <1>6. proc' = [proc EXCEPT ![c] = Start(c, q, ok)]
    BY <1>4
  <1> HIDE DEF u
  <1>7. Good(c, q) /\ q.registered /\ Unused(q) # {} /\ Idle(q) # {}
    BY <1>1, <1>3, <1>4, <1>5, RegisterGood
  <1> HIDE DEF q
  <1>8. Good(c, Start(c, q, ok))
    BY <1>1, <1>7, StartGood
  <1> QED BY <1>1, <1>6, <1>8, OneChanged

LEMMA DropControllerManager ==
  ASSUME Manager, NEW c \in Controller, DropController(c) PROVE Manager'
  <1> DEFINE p == Stop(c, proc[c])
  <1>1. c \in Id /\ phase = "open" /\ phase' = phase
    BY DEF DropController, Id
  <1>2. Good(c, p)
    BY <1>1, StopGood DEF Manager
  <1>3. PICK unregister \in BOOLEAN :
          proc' = [proc EXCEPT ![c] = IF unregister THEN Unregister(p) ELSE p]
    BY DEF DropController
  <1> HIDE DEF p
  <1>4. Good(c, Unregister(p))
    BY <1>1, <1>2, UnregisterGood
  <1> QED BY <1>1, <1>2, <1>3, <1>4, OneChanged

LEMMA CloseManager == Manager /\ Close => Manager'
  <1> SUFFICES ASSUME Manager, Close PROVE Manager'
    OBVIOUS
  <1>1. ASSUME NEW id \in Id
        PROVE  Good(id, Stop(id, proc[id])) /\ NoneAlive(id, Stop(id, proc[id]))
    BY StopGood, NotRunning DEF Manager
  <1> QED BY <1>1 DEF Close, Manager

LEMMA ClosedManager == Manager /\ Closed => Manager'
  <1> SUFFICES ASSUME Manager, Closed PROVE Manager'
    OBVIOUS
  <1>1. ASSUME NEW id \in Id PROVE Good(id, proc'[id]) /\ NoneAlive(id, proc'[id])
    <2> DEFINE s == Settled(proc[id])
    <2>1. Good(id, s) /\ NoneAlive(id, s)
      <3>1. Good(id, proc[id]) /\ NoneAlive(id, proc[id])
        <4>1. phase = "closing"
          BY DEF Closed
        <4> QED BY <4>1 DEF Manager
      <3>2. Good(id, Settled(proc[id])) /\ Settled(proc[id]).os = proc[id].os
        BY <3>1, SettledGood
      <3> QED BY <3>1, <3>2 DEF NoneAlive
    <2>2. proc'[id] = [s EXCEPT !.registered = FALSE, !.process_ = 0]
      BY DEF Closed
    <2> HIDE DEF s
    <2> QED BY <2>1, <2>2 DEF Good, Process, NoneAlive
  <1> QED BY <1>1 DEF Closed, Manager

\* The end of a process and the threads that wait for it only take away.
LEMMA LessManager ==
  ASSUME Manager, phase' = phase, NEW id \in Id, NEW q,
         proc' = [proc EXCEPT ![id] = q], Good(id, q),
         NoneAlive(id, proc[id]) => NoneAlive(id, q), phase # "new"
  PROVE  Manager'
  BY DEF Manager

LEMMA EndManager ==
  ASSUME Manager, NEW id \in Id, NEW n \in Pid[id], End(id, n) PROVE Manager'
  <1> DEFINE p == proc[id]
             q == [p EXCEPT !.os[n] = "ended"]
  <1>1. proc' = [proc EXCEPT ![id] = q] /\ phase' = phase
    BY DEF End
  <1>2. Good(id, p)
    BY DEF Manager
  <1>3. phase # "new"
    <2>1. p.os[n] # "ended"
      BY DEF End
    <2> QED BY <2>1 DEF Manager, Unused
  <1> HIDE DEF p
  <1>4. q \in Process(id) /\ q.registered = p.registered /\ q.process_ = p.process_
        /\ q.waiters = p.waiters /\ q.os = [p.os EXCEPT ![n] = "ended"]
    BY <1>2 DEF Good, Process
  <1> HIDE DEF q
  <1>5. Good(id, q) /\ (NoneAlive(id, p) => NoneAlive(id, q))
    BY <1>2, <1>4 DEF Good, Process, NoneAlive
  <1> QED BY <1>1, <1>3, <1>5, LessManager DEF p

\* A step that changes only the waiting threads of an id.
LEMMA WaitersManager ==
  ASSUME Manager, phase' = phase, NEW id \in Id, NEW W \in SUBSET Waiter(id),
         proc[id].waiters # {}, proc' = [proc EXCEPT ![id].waiters = W]
  PROVE  Manager'
  <1> DEFINE p == proc[id]
             q == [p EXCEPT !.waiters = W]
  <1>1. Good(id, p)
    BY DEF Manager
  <1>2. phase # "new"
    <2>1. PICK w \in p.waiters : TRUE
      OBVIOUS
    <2> QED BY <2>1 DEF Manager
  <1>3. id \in Server
    BY <1>1 DEF Good
  <1>4. proc' = [proc EXCEPT ![id] = q]
    OBVIOUS
  <1> HIDE DEF p
  <1>5. Good(id, q) /\ (NoneAlive(id, p) => NoneAlive(id, q))
    BY <1>1, <1>3 DEF Good, Process, NoneAlive
  <1> HIDE DEF q
  <1> QED BY <1>2, <1>4, <1>5, LessManager DEF p

LEMMA WaitManager == ASSUME Manager, NEW id \in Id, Wait(id) PROVE Manager'
  <1>1. PICK w \in proc[id].waiters :
          LET n == IF w.on = 0 THEN proc[id].process_ ELSE 0 IN
          proc' = [proc EXCEPT ![id].waiters =
                     (@ \ {w}) \cup (IF n = 0 THEN {} ELSE {[w EXCEPT !.on = n]})]
    BY DEF Wait
  <1> DEFINE n == IF w.on = 0 THEN proc[id].process_ ELSE 0
             W == (proc[id].waiters \ {w}) \cup (IF n = 0 THEN {} ELSE {[w EXCEPT !.on = n]})
  <1>2. W \in SUBSET Waiter(id)
    BY DEF Manager, Good, Process, Waiter
  <1>3. proc' = [proc EXCEPT ![id].waiters = W] /\ phase' = phase
    BY <1>1 DEF Wait
  <1> HIDE DEF W
  <1> QED BY <1>1, <1>2, <1>3, WaitersManager

LEMMA AnnounceManager == ASSUME Manager, NEW id \in Id, Announce(id) PROVE Manager'
  <1>1. PICK w \in proc[id].waiters : proc' = [proc EXCEPT ![id].waiters = @ \ {w}]
    BY DEF Announce
  <1> DEFINE W == proc[id].waiters \ {w}
  <1>2. W \in SUBSET Waiter(id)
    BY DEF Manager, Good, Process
  <1>3. proc' = [proc EXCEPT ![id].waiters = W] /\ phase' = phase
    BY <1>1 DEF Announce
  <1> HIDE DEF W
  <1> QED BY <1>1, <1>2, <1>3, WaitersManager

LEMMA ManagerStep == Manager /\ [Next]_vars => Manager'
  <1> SUFFICES ASSUME Manager, [Next]_vars PROVE Manager'
    OBVIOUS
  <1>1. ASSUME proc' = proc, phase' = phase PROVE Manager'
    BY <1>1 DEF Manager
  <1>2. CASE Open \/ RestartAll \/ Close \/ Closed
    BY <1>2, OpenManager, RestartAllManager, CloseManager, ClosedManager
  <1>3. CASE RestoreDefault \/ ProcessEnd \/ UpdateIO \/ GetProcess \/ UNCHANGED vars
    BY <1>1, <1>3 DEF RestoreDefault, ProcessEnd, UpdateIO, GetProcess, vars
  <1>4. CASE \E id \in Server : Toggle(id) \/ RestartOne(id) \/ Insert(id) \/ Remove(id)
    BY <1>1, <1>4, ToggleManager, RestartOneManager DEF Insert, Remove
  <1>5. CASE \E c \in Controller : SetupController(c) \/ DropController(c)
    BY <1>5, SetupControllerManager, DropControllerManager
  <1>6. CASE \E id \in Id : Threads(id) \/ \E n \in Pid[id] : End(id, n)
    BY <1>6, WaitManager, AnnounceManager, EndManager DEF Threads
  <1> QED BY <1>2, <1>3, <1>4, <1>5, <1>6, Zenon DEF Next

\* A process that was not told to end is the one its AProcess holds, whatever
\* starts, restarts, ends and refreshes come in between.
THEOREM NoProcessIsLost == Spec => []NoneLost
  <1>1. Init => Manager
    BY InitManager
  <1>2. Manager /\ [Next]_vars => Manager'
    BY ManagerStep
  <1>3. Manager => NoneLost
    BY DEF Manager, Good, NoneLost
  <1> QED BY <1>1, <1>2, <1>3, PTL DEF Spec

-----------------------------------------------------------------------------
(* Type correctness of the panels, the queue and the output thread.        *)

Rest ==
  /\ missed \subseteq Server /\ queue \in Seq(Server)
  /\ serverInfo \subseteq Server /\ restartFlag_ \subseteq serverInfo
  /\ phase = "new" => restartFlag_ = {}
  /\ text \in [Server -> {"START", "STOP"}]
  /\ reader \in {"test", "get", "ended", "dead"} /\ i \in Nat

LEMMA ButtonTextType == \A p : ButtonText(p) \in {"START", "STOP"}
  BY DEF ButtonText

\* Only servers are waited for.
LEMMA WaiterIsServer ==
  ASSUME Manager, NEW id \in Id, proc[id].waiters # {}
  PROVE  id \in Server
  BY DEF Manager, Good

LEMMA RestStep == Manager /\ Rest /\ [Next]_vars => Rest'
  <1> SUFFICES ASSUME Manager, Rest, [Next]_vars PROVE Rest'
    OBVIOUS
  <1>1. CASE Open \/ RestoreDefault
    <2>1. text' \in [Server -> {"START", "STOP"}]
      BY <1>1, ButtonTextType DEF Open, RestoreDefault
    <2> QED BY <1>1, <2>1 DEF Rest, Open, RestoreDefault, output
  <1>2. CASE RestartAll
    BY <1>2 DEF Rest, RestartAll, panels, output
  <1>3. CASE Close \/ Closed
    <2>1. CASE Close
      <3>1. queue' \in Seq(Server) /\ missed' \subseteq Server
        BY <2>1 DEF Close
      <3>2. text' \in [Server -> {"START", "STOP"}]
        BY <2>1 DEF Close
      <3> QED BY <2>1, <3>1, <3>2 DEF Rest, Close, output
    <2>2. CASE Closed
      BY <2>2 DEF Rest, Closed, panels, output
    <2> QED BY <1>3, <2>1, <2>2
  <1>4. CASE ProcessEnd
    <2>1. queue' \in Seq(Server) /\ Head(queue) \in Server
      BY <1>4 DEF Rest, ProcessEnd
    <2> QED BY <1>4, <2>1 DEF Rest, ProcessEnd, output
  <1>5. ASSUME NEW id \in Server, Toggle(id) \/ RestartOne(id) \/ Insert(id) \/ Remove(id)
        PROVE  Rest'
    <2>1. text' \in [Server -> {"START", "STOP"}]
      BY <1>5, ButtonTextType DEF Rest, Toggle, RestartOne, Insert, Remove
    <2> QED BY <1>5, <2>1 DEF Rest, Toggle, RestartOne, Insert, Remove, output
  <1>6. ASSUME NEW c \in Controller, SetupController(c) \/ DropController(c) PROVE Rest'
    BY <1>6 DEF Rest, SetupController, DropController, panels, output
  <1>7. ASSUME NEW id \in Id, NEW n \in Pid[id], End(id, n) PROVE Rest'
    BY <1>7 DEF Rest, End, panels, output
  <1>8. ASSUME NEW id \in Id, Wait(id) PROVE Rest'
    <2>1. id \in Server
      BY <1>8, WaiterIsServer DEF Wait
    <2>2. missed' \subseteq Server
      BY <1>8, <2>1 DEF Rest, Wait
    <2> QED BY <1>8, <2>2 DEF Rest, Wait, panels, output
  <1>9. ASSUME NEW id \in Id, Announce(id) PROVE Rest'
    <2>1. id \in Server
      BY <1>9, WaiterIsServer DEF Announce
    <2>2. queue' \in Seq(Server)
      BY <1>9, <2>1 DEF Rest, Announce
    <2> QED BY <1>9, <2>2 DEF Rest, Announce, panels, output
  <1>10. CASE UpdateIO \/ GetProcess
    BY <1>10 DEF Rest, UpdateIO, GetProcess, panels
  <1>11. CASE UNCHANGED vars
    BY <1>11 DEF Rest, vars, panels, output
  <1> QED BY <1>1, <1>2, <1>3, <1>4, <1>5, <1>6, <1>7, <1>8, <1>9, <1>10, <1>11, Zenon
          DEF Next, Threads

\* Every variable keeps its type; what is not in the list has no process.
THEOREM TypeCorrect == Spec => []TypeOK
  <1>1. Init => Rest
    BY DEF Init, Rest
  <1>2. Rest /\ Manager => TypeOK
    BY DEF Rest, Manager, Good, Process, Waiter, TypeOK
  <1> QED BY <1>1, <1>2, InitManager, ManagerStep, RestStep, PTL DEF Spec

-----------------------------------------------------------------------------
(* What the buttons say.  The announcements that may still come are counted:*)
(* those of the waiting threads and those in the queue.                     *)

\* Sets between which there is a bijection have as many elements.
LEMMA SameSize ==
  ASSUME NEW S, NEW T, IsFiniteSet(S), NEW f \in [S -> T],
         \A x, y \in S : f[x] = f[y] => x = y, \A t \in T : \E x \in S : f[x] = t
  PROVE  IsFiniteSet(T) /\ Cardinality(T) = Cardinality(S)
  <1>1. f \in Injection(S, T)
    BY Fun_IsInj
  <1>2. f \in Surjection(S, T)
    BY DEF Surjection
  <1>3. f \in Bijection(S, T)
    BY <1>1, <1>2 DEF Bijection
  <1>4. ExistsBijection(S, T)
    BY <1>3, Fun_ExistsBij
  <1> QED BY <1>4, FS_Bijection

\* The threads of one id are told apart, and one has read the process that runs
\* or will.
Threaded(id, p) ==
  /\ IsFiniteSet(p.waiters)
  /\ \A v, w \in p.waiters : v.thread = w.thread => v = w
  /\ IsRunning(p) => \E w \in p.waiters : w.on \in {0, p.process_}

ThreadCount(p) == Cardinality(p.waiters)

LEMMA SettledThreads ==
  ASSUME NEW id \in Id, NEW p, Good(id, p), Threaded(id, p)
  PROVE  /\ IsFiniteSet(Settled(p).waiters) /\ ThreadCount(Settled(p)) = ThreadCount(p)
         /\ \A v, w \in Settled(p).waiters : v.thread = w.thread => v = w
  <1> DEFINE after(w) == [w EXCEPT !.on = IF @ # 0 THEN @ ELSE IF p.process_ = 0 THEN -1
                                          ELSE p.process_]
             W == {after(w) : w \in p.waiters}
             f == [w \in p.waiters |-> after(w)]
  <1>1. Settled(p).waiters = W
    BY DEF Settled, Good, Process
  <1>2. ASSUME NEW w \in p.waiters PROVE after(w).thread = w.thread
    <2>1. w \in Waiter(id)
      BY DEF Good, Process
    <2> QED BY <2>1 DEF Waiter
  <1> HIDE DEF after
  <1>3. f \in [p.waiters -> W] /\ (\A v, w \in p.waiters : f[v] = f[w] => v = w)
        /\ \A t \in W : \E w \in p.waiters : f[w] = t
    BY <1>2 DEF Threaded
  <1> HIDE DEF f
  <1>4. \A v, w \in W : v.thread = w.thread => v = w
    BY <1>2 DEF Threaded
  <1> HIDE DEF W
  <1>5. IsFiniteSet(W) /\ Cardinality(W) = Cardinality(p.waiters)
    <2>1. IsFiniteSet(p.waiters)
      BY DEF Threaded
    <2> QED BY <1>3, <2>1, SameSize
  <1> QED BY <1>1, <1>4, <1>5 DEF ThreadCount

\* Nothing that stops or forgets a process drops a thread.
LEMMA GoneThreads ==
  ASSUME NEW id \in Id, NEW p, Good(id, p), Threaded(id, p)
  PROVE  LET s == Stop(id, p)
             q == Unregister(s)
         IN  /\ Threaded(id, s) /\ ThreadCount(s) = ThreadCount(p)
             /\ Threaded(id, q) /\ ThreadCount(q) = ThreadCount(p)
  <1> DEFINE s == Stop(id, p)
             q == Unregister(s)
             t == Settled(s)
  <1>1. Good(id, s) /\ ~IsRunning(s) /\ s.waiters = p.waiters
    BY StopGood
  <1>2. Threaded(id, s) /\ ThreadCount(s) = ThreadCount(p)
    BY <1>1 DEF Threaded, ThreadCount
  <1> HIDE DEF s
  <1>3. Good(id, t) /\ IsFiniteSet(t.waiters) /\ ThreadCount(t) = ThreadCount(s)
        /\ \A v, w \in t.waiters : v.thread = w.thread => v = w
    BY <1>1, <1>2, SettledGood, SettledThreads
  <1>4. ~IsRunning(q)
    BY <1>1, UnregisterGood
  <1>5. q.waiters = s.waiters \/ q.waiters = t.waiters
    <2>1. q = s \/ q = [t EXCEPT !.registered = FALSE, !.process_ = 0]
      BY DEF Unregister
    <2> HIDE DEF q, t
    <2> QED BY <2>1, <1>3 DEF Good, Process
  <1> HIDE DEF q, t
  <1>6. Threaded(id, q) /\ ThreadCount(q) = ThreadCount(s)
    BY <1>1, <1>2, <1>3, <1>4, <1>5 DEF Threaded, ThreadCount
  <1> QED BY <1>2, <1>6 DEF s, q

\* One more thread, that has not read process_ yet.
LEMMA MoreThreads ==
  ASSUME NEW id \in Server, NEW p, Threaded(id, p), Idle(p) # {}, NEW q, q.waiters = Waiting(id, p)
  PROVE  Threaded(id, q) /\ ThreadCount(q) = ThreadCount(p) + 1
  <1> DEFINE t == CHOOSE t \in Idle(p) : TRUE
             new == [thread |-> t, on |-> 0]
  <1>1. q.waiters = p.waiters \cup {new}
    BY DEF Waiting
  <1>2. \A w \in p.waiters : w.thread # t
    BY DEF Idle
  <1> HIDE DEF t
  <1>3. new.thread = t /\ new.on = 0
    OBVIOUS
  <1> HIDE DEF new
  <1>4. new \notin p.waiters
    BY <1>2, <1>3
  <1>5. IsFiniteSet(q.waiters) /\ Cardinality(q.waiters) = Cardinality(p.waiters) + 1
    <2>1. IsFiniteSet(p.waiters)
      BY DEF Threaded
    <2>2. /\ IsFiniteSet(p.waiters \cup {new})
          /\ Cardinality(p.waiters \cup {new}) = Cardinality(p.waiters) + 1
      BY <2>1, <1>4, FS_AddElement
    <2> QED BY <2>2, <1>1
  <1>6. \A v, w \in q.waiters : v.thread = w.thread => v = w
    BY <1>1, <1>2, <1>3 DEF Threaded
  <1>7. \E w \in q.waiters : w.on \in {0, q.process_}
    BY <1>1, <1>3
  <1> QED BY <1>5, <1>6, <1>7 DEF Threaded, ThreadCount

\* A start adds a thread, unless nothing runs then.
LEMMA StartThreads ==
  ASSUME NEW id \in Server, NEW p, Good(id, p), Threaded(id, p), Idle(p) # {},
         NEW ok \in BOOLEAN
  PROVE  LET q == Start(id, p, ok) IN
         /\ Threaded(id, q)
         /\ ThreadCount(q) = ThreadCount(p) + (IF ok \/ IsRunning(p) THEN 1 ELSE 0)
  <1> DEFINE q == Start(id, p, ok)
  <1>0. ThreadCount(p) \in Nat /\ id \in Id
    BY FS_CardinalityType DEF Threaded, ThreadCount, Id
  <1>1. CASE ~ok /\ ~IsRunning(p)
    <2>1. q = [p EXCEPT !.process_ = 0]
      BY <1>1 DEF Start
    <2>2. q.waiters = p.waiters /\ ~IsRunning(q)
      BY <1>0, <2>1 DEF Good, Process, IsRunning
    <2> HIDE DEF q
    <2>3. Threaded(id, q) /\ ThreadCount(q) = ThreadCount(p)
      BY <2>2 DEF Threaded, ThreadCount
    <2> QED BY <1>0, <1>1, <2>3 DEF q
  <1>2. CASE ok \/ IsRunning(p)
    <2>1. q.waiters = Waiting(id, p)
      <3>1. CASE IsRunning(p)
        BY <1>0, <3>1 DEF Start, Good, Process
      <3>2. CASE ok /\ ~IsRunning(p)
        <4> DEFINE n == CHOOSE n \in Unused(p) : TRUE
        <4>1. q = [p EXCEPT !.os[n] = "alive", !.process_ = n, !.waiters = Waiting(id, p)]
          BY <3>2 DEF Start
        <4> HIDE DEF q, n
        <4> QED BY <1>0, <4>1 DEF Good, Process
      <3> QED BY <1>2, <3>1, <3>2
    <2> HIDE DEF q
    <2>2. Threaded(id, q) /\ ThreadCount(q) = ThreadCount(p) + 1
      BY <2>1, MoreThreads
    <2> QED BY <1>2, <2>2 DEF q
  <1> QED BY <1>1, <1>2

\* The announcements of id in a queue.
Told(q, id) == {k \in DOMAIN q : q[k] = id}
Count(q, id) == Cardinality(Told(q, id))

LEMMA CountType ==
  ASSUME NEW q \in Seq(Server), NEW id
  PROVE  IsFiniteSet(Told(q, id)) /\ Count(q, id) \in Nat
  <1>1. DOMAIN q = 1 .. Len(q) /\ Len(q) \in Nat
    BY LenProperties
  <1>2. IsFiniteSet(1 .. Len(q))
    BY <1>1, FS_Interval
  <1>3. Told(q, id) \in SUBSET (1 .. Len(q))
    BY <1>1 DEF Told
  <1>4. IsFiniteSet(Told(q, id))
    BY <1>2, <1>3, FS_Subset
  <1> QED BY <1>4, FS_CardinalityType DEF Count

LEMMA CountAppend ==
  ASSUME NEW q \in Seq(Server), NEW x \in Server, NEW id
  PROVE  Count(Append(q, x), id) = Count(q, id) + (IF x = id THEN 1 ELSE 0)
  <1> DEFINE S == Told(q, id)
             T == Told(Append(q, x), id)
             new == Len(q) + 1
  <1>1. /\ Len(q) \in Nat /\ DOMAIN q = 1 .. Len(q) /\ DOMAIN Append(q, x) = 1 .. new
        /\ Append(q, x)[new] = x /\ \A k \in 1 .. Len(q) : Append(q, x)[k] = q[k]
    BY AppendProperties, LenProperties
  <1>2. T = IF x = id THEN S \cup {new} ELSE S
    BY <1>1 DEF Told
  <1>3. new \notin S /\ IsFiniteSet(S) /\ Cardinality(S) \in Nat
    <2>1. new \notin S
      BY <1>1 DEF Told
    <2>2. IsFiniteSet(S) /\ Cardinality(S) \in Nat
      BY CountType DEF Count
    <2> QED BY <2>1, <2>2
  <1> HIDE DEF S, T, new
  <1>4. IsFiniteSet(S \cup {new}) /\ Cardinality(S \cup {new}) = Cardinality(S) + 1
    BY <1>3, FS_AddElement
  <1>5. Cardinality(T) = Cardinality(S) + (IF x = id THEN 1 ELSE 0)
    BY <1>2, <1>3, <1>4
  <1> QED BY <1>5 DEF Count, S, T

LEMMA CountTail ==
  ASSUME NEW q \in Seq(Server), q # <<>>, NEW id
  PROVE  Count(q, id) = Count(Tail(q), id) + (IF Head(q) = id THEN 1 ELSE 0)
  <1> DEFINE Here == Told(q, id)
             Later == Here \ {1}
             There == Told(Tail(q), id)
             shift == [k \in Later |-> k - 1]
  <1>1. /\ Len(q) \in Nat \ {0} /\ DOMAIN q = 1 .. Len(q)
        /\ Tail(q) \in Seq(Server) /\ DOMAIN Tail(q) = 1 .. Len(q) - 1
        /\ Head(q) = q[1] /\ \A k \in 1 .. Len(q) - 1 : Tail(q)[k] = q[k + 1]
    <2>1. Len(q) \in Nat /\ Len(q) # 0 /\ DOMAIN q = 1 .. Len(q)
      BY EmptySeq, LenProperties
    <2>2. Tail(q) \in Seq(Server) /\ Len(Tail(q)) = Len(q) - 1
          /\ \A k \in 1 .. Len(q) - 1 : Tail(q)[k] = q[k + 1]
      BY HeadTailProperties
    <2>3. DOMAIN Tail(q) = 1 .. Len(Tail(q))
      BY <2>2, LenProperties
    <2> QED BY <2>1, <2>2, <2>3
  <1>2. IsFiniteSet(Here) /\ Cardinality(Here) \in Nat /\ Cardinality(There) \in Nat
    <2>1. IsFiniteSet(Here) /\ Cardinality(Here) \in Nat
      BY CountType DEF Count
    <2>2. Cardinality(There) \in Nat
      BY <1>1, CountType DEF Count
    <2> QED BY <2>1, <2>2
  <1>3. 1 \in Here <=> Head(q) = id
    BY <1>1 DEF Told
  <1>4. shift \in [Later -> There]
    BY <1>1 DEF Told
  <1>5. \A k, l \in Later : shift[k] = shift[l] => k = l
    BY <1>1 DEF Told
  <1>6. \A t \in There : \E k \in Later : shift[k] = t
    <2> SUFFICES ASSUME NEW t \in There PROVE t + 1 \in Later /\ shift[t + 1] = t
      OBVIOUS
    <2>1. t \in 1 .. Len(q) - 1 /\ q[t + 1] = id
      BY <1>1 DEF Told
    <2>2. t + 1 \in Later
      BY <1>1, <2>1 DEF Told
    <2> QED BY <1>1, <2>1, <2>2
  <1> HIDE DEF Here, There, shift
  <1>7. /\ IsFiniteSet(Later)
        /\ Cardinality(Later) = IF 1 \in Here THEN Cardinality(Here) - 1 ELSE Cardinality(Here)
    BY <1>2, FS_RemoveElement
  <1> HIDE DEF Later
  <1>8. IsFiniteSet(There) /\ Cardinality(There) = Cardinality(Later)
    <2>1. IsFiniteSet(Later)
      BY <1>7
    <2>2. shift \in Bijection(Later, There)
      <3>1. shift \in Injection(Later, There)
        BY <1>4, <1>5, Fun_IsInj
      <3>2. shift \in Surjection(Later, There)
        BY <1>4, <1>6 DEF Surjection
      <3> QED BY <3>1, <3>2 DEF Bijection
    <2>3. ExistsBijection(Later, There)
      BY <2>2, Fun_ExistsBij
    <2> QED BY <2>1, <2>3, FS_Bijection
  <1>9. Cardinality(Here) = Cardinality(There) + (IF Head(q) = id THEN 1 ELSE 0)
    BY <1>2, <1>3, <1>7, <1>8
  <1> QED BY <1>9 DEF Count, Here, There

-----------------------------------------------------------------------------
\* A panel that shows STOP will be told of an end, one whose restartFlag_ is set
\* of two; the flag stays set when the button is used meanwhile.
PanelRight(id) ==
  id \in serverInfo \ missed =>
    /\ id \in restartFlag_ => Coming(id) >= 2
    /\ text[id] = "STOP" => Coming(id) >= 1

Shown ==
  phase = "open" => \A id \in Server : Threaded(id, proc[id]) /\ PanelRight(id)

LEMMA ComingType ==
  ASSUME Rest, NEW id, Threaded(id, proc[id])
  PROVE  /\ Coming(id) = ThreadCount(proc[id]) + Count(queue, id)
         /\ ThreadCount(proc[id]) \in Nat /\ Count(queue, id) \in Nat
  <1>1. Count(queue, id) \in Nat
    BY CountType DEF Rest
  <1>2. ThreadCount(proc[id]) \in Nat
    BY FS_CardinalityType DEF Threaded, ThreadCount
  <1> QED BY <1>1, <1>2 DEF Coming, ThreadCount, Count, Told

\* A process that runs has a thread.
LEMMA RunningThreads ==
  ASSUME NEW id, NEW p, Threaded(id, p), IsRunning(p)
  PROVE  ThreadCount(p) >= 1
  <1>1. p.waiters # {} /\ IsFiniteSet(p.waiters)
    BY DEF Threaded
  <1>2. Cardinality(p.waiters) \in Nat /\ Cardinality(p.waiters) # 0
    BY <1>1, FS_CardinalityType, FS_EmptySet
  <1> QED BY <1>2 DEF ThreadCount

\* A panel that a step leaves alone, when no announcement is lost.
LEMMA PanelKept ==
  ASSUME Rest, Rest', NEW id \in Server, PanelRight(id),
         Threaded(id, proc[id]), Threaded(id, proc'[id]),
         id \in serverInfo' \ missed' => id \in serverInfo \ missed,
         id \in restartFlag_' => id \in restartFlag_, text'[id] = text[id],
         ThreadCount(proc'[id]) + Count(queue', id)
           >= ThreadCount(proc[id]) + Count(queue, id)
  PROVE  PanelRight(id)'
  <1>1. Coming(id) = ThreadCount(proc[id]) + Count(queue, id) /\ Coming(id) \in Nat
    BY ComingType
  <1>2. Coming(id)' = ThreadCount(proc'[id]) + Count(queue', id) /\ Coming(id)' \in Nat
    <2>1. Count(queue', id) \in Nat
      BY CountType DEF Rest
    <2>2. ThreadCount(proc'[id]) \in Nat
      BY FS_CardinalityType DEF Threaded, ThreadCount
    <2> QED BY <2>1, <2>2 DEF Coming, ThreadCount, Count, Told
  <1> QED BY <1>1, <1>2 DEF PanelRight

\* autoStart drops no thread.
LEMMA AutoStartedThreads ==
  ASSUME NEW id \in Server, NEW p, Good(id, p), Threaded(id, p), NEW outcome,
         id \in AutoStart => Idle(p) # {}
  PROVE  LET q == AutoStarted(id, p, outcome) IN
         Threaded(id, q) /\ ThreadCount(q) >= ThreadCount(p)
  <1> DEFINE ok == outcome = "starts"
             s == Start(id, p, ok)
             q == AutoStarted(id, p, outcome)
  <1>0. ThreadCount(p) \in Nat
    BY FS_CardinalityType DEF Threaded, ThreadCount
  <1>1. q = IF id \in AutoStart /\ p.registered /\ outcome # "answers" THEN s ELSE p
    BY DEF AutoStarted
  <1>2. ok \in BOOLEAN
    OBVIOUS
  <1> HIDE DEF ok
  <1>3. Idle(p) # {} => Threaded(id, s)
                        /\ ThreadCount(s) = ThreadCount(p) + (IF ok \/ IsRunning(p) THEN 1 ELSE 0)
    BY <1>2, StartThreads
  <1> HIDE DEF s, q
  <1>4. Threaded(id, q) /\ ThreadCount(q) >= ThreadCount(p)
    BY <1>0, <1>1, <1>3
  <1> QED BY <1>4 DEF q

\* Neither does setProcessList.
LEMMA SetProcessThreads ==
  ASSUME NEW id \in Server, NEW p, Good(id, p), Threaded(id, p), Able(p), NEW outcome
  PROVE  LET q == SetProcess(id, p, outcome) IN
         Threaded(id, q) /\ ThreadCount(q) >= ThreadCount(p)
  <1> DEFINE r == Renewed(p)
             q == AutoStarted(id, r, outcome)
  <1>0. id \in Id /\ ThreadCount(p) \in Nat
    BY FS_CardinalityType DEF Id, Threaded, ThreadCount
  <1>1. Good(id, r) /\ Idle(r) # {}
    BY <1>0, RenewedGood
  <1>2. Threaded(id, r) /\ ThreadCount(r) = ThreadCount(p)
    <2>1. CASE IsRunning(p)
      BY <2>1 DEF Renewed
    <2>2. CASE ~IsRunning(p)
      <3> DEFINE u == Unregister(p)
      <3>1. Stop(id, p) = p
        BY <2>2 DEF Stop
      <3>2. Threaded(id, u) /\ ThreadCount(u) = ThreadCount(p) /\ Good(id, u) /\ u.process_ = 0
        BY <1>0, <2>2, <3>1, GoneThreads, UnregisterGood
      <3>3. r = Register(u)
        BY <2>2 DEF Renewed
      <3> HIDE DEF u, r
      <3>4. r.waiters = u.waiters /\ ~IsRunning(r)
        BY <1>0, <3>2, <3>3, RegisterGood DEF Register, Good, Process
      <3> QED BY <3>2, <3>4 DEF Threaded, ThreadCount
    <2> QED BY <2>1, <2>2
  <1> HIDE DEF r
  <1>3. Threaded(id, q) /\ ThreadCount(q) >= ThreadCount(r)
    BY <1>1, <1>2, AutoStartedThreads
  <1>4. SetProcess(id, p, outcome) = q
    BY DEF SetProcess, Renewed, r
  <1> HIDE DEF q
  <1> QED BY <1>2, <1>3, <1>4

\* In the list as a whole.
LEMMA SetProcessListThreads ==
  ASSUME NEW id \in Server, NEW info, NEW external, NEW outcome, NEW s, NEW p, p = s[id],
         Good(id, p), Threaded(id, p),
         id \in Listed(info, external) \cup AutoStart => Able(p)
  PROVE  LET q == SetProcessList(info, external, outcome, s)[id] IN
         Threaded(id, q) /\ ThreadCount(q) >= ThreadCount(p)
  <1> DEFINE o == outcome[id]
             q == SetProcessList(info, external, outcome, s)[id]
             a == AutoStarted(id, p, o)
             b == SetProcess(id, p, o)
  <1>1. q = IF id \in Listed(info, external) THEN b ELSE a
    BY DEF SetProcessList, Id
  <1> HIDE DEF o
  <1>2. id \in Listed(info, external) => Threaded(id, b) /\ ThreadCount(b) >= ThreadCount(p)
    BY SetProcessThreads
  <1>3. id \notin Listed(info, external) => Threaded(id, a) /\ ThreadCount(a) >= ThreadCount(p)
    BY AutoStartedThreads DEF Able
  <1> HIDE DEF a, b, q
  <1>4. Threaded(id, q) /\ ThreadCount(q) >= ThreadCount(p)
    BY <1>1, <1>2, <1>3
  <1> QED BY <1>4 DEF q

LEMMA BeginThreads ==
  ASSUME NEW id \in Server, NEW p, Good(id, p), Threaded(id, p), ~IsRunning(p),
         Unused(Unregister(p)) # {}, Idle(p) # {}, NEW ok \in BOOLEAN
  PROVE  LET q == Begin(id, p, ok) IN
         Threaded(id, q) /\ ThreadCount(q) = ThreadCount(p) + (IF IsRunning(q) THEN 1 ELSE 0)
  <1> DEFINE u == Unregister(p)
             r == Register(u)
             s == Start(id, r, ok)
             q == Begin(id, p, ok)
  <1>0. id \in Id
    BY DEF Id
  <1>1. Stop(id, p) = p
    BY DEF Stop
  <1>2. Threaded(id, u) /\ ThreadCount(u) = ThreadCount(p) /\ Good(id, u) /\ u.process_ = 0
    BY <1>0, <1>1, GoneThreads, UnregisterGood
  <1>3. Unused(u) # {} /\ Idle(u) # {}
    BY <1>0, UnregisterGood
  <1> HIDE DEF u
  <1>4. Good(id, r) /\ r.registered /\ Unused(r) # {} /\ Idle(r) # {} /\ ~IsRunning(r)
    BY <1>0, <1>2, <1>3, RegisterGood
  <1>5. r.waiters = u.waiters
    BY <1>0, <1>2 DEF Register, Good, Process
  <1>6. Threaded(id, r) /\ ThreadCount(r) = ThreadCount(u) /\ ThreadCount(r) \in Nat
    BY <1>2, <1>4, <1>5, FS_CardinalityType DEF Threaded, ThreadCount
  <1>7. q = IF ok THEN s ELSE Unregister(s)
    BY DEF Begin, u
  <1> HIDE DEF r
  <1>8. Threaded(id, s) /\ ThreadCount(s) = ThreadCount(r) + (IF ok THEN 1 ELSE 0)
        /\ Good(id, s)
    BY <1>0, <1>4, <1>6, StartThreads, StartGood
  <1>9. CASE ok
    <2>1. IsRunning(s)
      <3> DEFINE n == CHOOSE n \in Unused(r) : TRUE
      <3>1. s = [r EXCEPT !.os[n] = "alive", !.process_ = n, !.waiters = Waiting(id, r)]
        BY <1>4, <1>9 DEF Start
      <3>2. n \in Pid[id]
        BY <1>4, <1>0 DEF Unused, Good, Process
      <3> HIDE DEF n
      <3> QED BY <1>0, <1>4, <3>1, <3>2, PidNatural DEF Good, Process, IsRunning
    <2> QED BY <1>2, <1>6, <1>7, <1>8, <1>9, <2>1
  <1>10. CASE ~ok
    <2>1. ~IsRunning(s)
      BY <1>0, <1>4, <1>10, StartGood
    <2> HIDE DEF s
    <2>2. Stop(id, s) = s
      BY <2>1 DEF Stop
    <2> DEFINE v == Unregister(s)
    <2>3. Threaded(id, v) /\ ThreadCount(v) = ThreadCount(s) /\ ~IsRunning(v)
      BY <1>0, <1>8, <2>1, <2>2, GoneThreads, UnregisterGood
    <2> HIDE DEF v
    <2>4. q = v
      BY <1>7, <1>10 DEF v
    <2> QED BY <1>2, <1>6, <1>8, <1>10, <2>3, <2>4
  <1> QED BY <1>9, <1>10

\* A button whose text has just been updated.
LEMMA PanelUpdated ==
  ASSUME Rest, Rest', NEW id \in Server, Threaded(id, proc'[id]),
         text'[id] = ButtonText(proc'[id]),
         id \in serverInfo' \ missed' /\ id \in restartFlag_' =>
           ThreadCount(proc'[id]) + Count(queue', id) >= 2
  PROVE  PanelRight(id)'
  <1>1. Coming(id)' = ThreadCount(proc'[id]) + Count(queue', id)
        /\ ThreadCount(proc'[id]) \in Nat /\ Count(queue', id) \in Nat
    <2>1. Count(queue', id) \in Nat
      BY CountType DEF Rest
    <2>2. ThreadCount(proc'[id]) \in Nat
      BY FS_CardinalityType DEF Threaded, ThreadCount
    <2> QED BY <2>1, <2>2 DEF Coming, ThreadCount, Count, Told
  <1>2. text'[id] = "STOP" => ThreadCount(proc'[id]) >= 1
    BY RunningThreads DEF ButtonText
  <1> QED BY <1>1, <1>2 DEF PanelRight

Facts == Manager /\ Rest /\ Shown

LEMMA ShownOpen == Facts /\ Rest' /\ Open => Shown'
  <1> SUFFICES ASSUME Facts, Rest', Open PROVE Shown'
    OBVIOUS
  <1> USE DEF Facts
  <1>0. PICK external \in BOOLEAN : \E outcome \in [AutoStart -> Outcome(external)] :
          proc' = SetProcessList(DefaultInfo, external, outcome, proc)
    BY DEF Open
  <1>1. PICK outcome : proc' = SetProcessList(DefaultInfo, external, outcome, proc)
    BY <1>0
  <1>2. ASSUME NEW id \in Server PROVE Threaded(id, proc'[id]) /\ PanelRight(id)'
    <2> DEFINE p == proc[id]
    <2>0. id \in Id
      BY DEF Id
    <2>1. Good(id, p) /\ ~p.registered /\ Unused(p) = Pid[id] /\ p.waiters = {}
      BY <2>0 DEF Manager, Open
    <2>2. Threaded(id, p) /\ ~IsRunning(p) /\ Unregister(p) = p /\ Pid[id] # {}
      BY <2>0, <2>1, FS_EmptySet DEF Threaded, IsRunning, Unregister
    <2>3. Able(p)
      BY <2>1, <2>2 DEF Able, Idle
    <2> HIDE DEF p
    <2>4. Threaded(id, SetProcessList(DefaultInfo, external, outcome, proc)[id])
      BY <2>1, <2>2, <2>3, SetProcessListThreads DEF p
    <2>5. Threaded(id, proc'[id])
      BY <1>1, <2>4
    <2>6. id \notin serverInfo' \/ text'[id] = ButtonText(proc'[id])
      BY DEF Open
    <2>7. restartFlag_' = {}
      BY DEF Open, Rest
    <2>8. CASE id \notin serverInfo'
      BY <2>5, <2>8 DEF PanelRight
    <2>9. CASE text'[id] = ButtonText(proc'[id])
      BY <2>5, <2>7, <2>9, PanelUpdated
    <2> QED BY <2>5, <2>6, <2>8, <2>9
  <1> QED BY <1>2 DEF Open, Shown

LEMMA ShownRestartAll == Facts /\ Rest' /\ RestartAll => Shown'
  <1> SUFFICES ASSUME Facts, Rest', RestartAll PROVE Shown'
    OBVIOUS
  <1> USE DEF Facts
  <1>1. \/ \E external \in BOOLEAN : \E outcome \in [AutoStart -> Outcome(external)] :
               proc' = SetProcessList(serverInfo, external, outcome, Rested)
        \/ \E S \in SUBSET {id \in serverInfo : proc[id].registered} :
               proc' = [id \in Id |-> IF id \in S THEN Gone(id) ELSE proc[id]]
    BY Zenon DEF RestartAll, Rested, Gone
  <1>2. ASSUME NEW id \in Server PROVE Threaded(id, proc'[id]) /\ PanelRight(id)'
    <2> DEFINE p == proc[id]
               q == Rested[id]
               g == Gone(id)
    <2>0. id \in Id /\ phase = "open"
      BY DEF Id, RestartAll
    <2>1. Good(id, p) /\ Threaded(id, p) /\ PanelRight(id)
      BY <2>0 DEF Manager, Shown
    <2>2. Threaded(id, g) /\ ThreadCount(g) = ThreadCount(p)
      BY <2>0, <2>1, GoneThreads DEF Gone
    <2>3. q \in {p, g}
      BY <2>0 DEF Rested
    <2>4. Good(id, q) /\ (Room(id) => Able(q))
      BY <2>0, RestedGood
    <2>5. ThreadCount(p) \in Nat /\ Count(queue, id) \in Nat
      BY <2>1, ComingType
    <2>6. ASSUME NEW external, NEW outcome
          PROVE  LET t == SetProcessList(serverInfo, external, outcome, Rested)[id] IN
                 Threaded(id, t) /\ ThreadCount(t) >= ThreadCount(p)
      <3>1. id \in Listed(serverInfo, external) \cup AutoStart => Room(id)
        BY DEF Listed, RestartAll
      <3>2. Threaded(id, q) /\ ThreadCount(q) = ThreadCount(p)
        BY <2>1, <2>2, <2>3
      <3>3. id \in Listed(serverInfo, external) \cup AutoStart => Able(q)
        BY <3>1, <2>4
      <3> DEFINE t == SetProcessList(serverInfo, external, outcome, Rested)[id]
      <3>4. Threaded(id, t) /\ ThreadCount(t) >= ThreadCount(q)
        <4>1. q = Rested[id]
          OBVIOUS
        <4> HIDE DEF q
        <4> QED BY <4>1, <2>4, <3>2, <3>3, SetProcessListThreads
      <3> HIDE DEF t, p, q
      <3>5. Threaded(id, t) /\ ThreadCount(t) >= ThreadCount(p)
        BY <3>2, <3>4
      <3> QED BY <3>5 DEF t
    <2> HIDE DEF p, q, g
    <2>7. Threaded(id, proc'[id]) /\ ThreadCount(proc'[id]) >= ThreadCount(p)
      <3>1. CASE \E external \in BOOLEAN : \E outcome \in [AutoStart -> Outcome(external)] :
                   proc' = SetProcessList(serverInfo, external, outcome, Rested)
        BY <3>1, <2>6
      <3>2. CASE \E S \in SUBSET {d \in serverInfo : proc[d].registered} :
                   proc' = [d \in Id |-> IF d \in S THEN Gone(d) ELSE proc[d]]
        <4>1. proc'[id] \in {p, g}
          BY <3>2, <2>0 DEF p, g
        <4> QED BY <4>1, <2>1, <2>2, <2>5
      <3> QED BY <1>1, <3>1, <3>2
    <2>8. queue' = queue /\ missed' = missed /\ serverInfo' = serverInfo
          /\ text' = text /\ restartFlag_' = restartFlag_
      BY DEF RestartAll, panels
    <2>9. ThreadCount(proc'[id]) \in Nat
      BY <2>7, FS_CardinalityType DEF Threaded, ThreadCount
    <2>10. ThreadCount(proc'[id]) + Count(queue', id) >= ThreadCount(p) + Count(queue, id)
      BY <2>5, <2>7, <2>8, <2>9
    <2>11. PanelRight(id)'
      BY <2>1, <2>7, <2>8, <2>10, PanelKept DEF p
    <2> QED BY <2>7, <2>11
  <1> QED BY <1>2 DEF RestartAll, Shown

\* A step that changes the process of one id and keeps all panels but its own.
LEMMA OtherPanels ==
  ASSUME Facts, Rest', phase = "open", NEW one \in Id, NEW q, NEW id \in Server, id # one,
         proc' = [proc EXCEPT ![one] = q], queue' = queue, missed' = missed,
         id \in serverInfo' => id \in serverInfo,
         id \in restartFlag_' => id \in restartFlag_, text'[id] = text[id]
  PROVE  Threaded(id, proc'[id]) /\ PanelRight(id)'
  <1>1. proc'[id] = proc[id] /\ Threaded(id, proc[id]) /\ PanelRight(id)
    BY DEF Facts, Manager, Shown, Id
  <1>2. ThreadCount(proc[id]) \in Nat /\ Count(queue, id) \in Nat
    BY <1>1, ComingType DEF Facts
  <1>3. PanelRight(id)'
    BY <1>1, <1>2, PanelKept DEF Facts
  <1> QED BY <1>1, <1>3

LEMMA ShownToggle == ASSUME Facts, Rest', NEW id \in Server, Toggle(id) PROVE Shown'
  <1> USE DEF Facts
  <1> DEFINE p == proc[id]
  <1>0. id \in Id /\ phase = "open" /\ phase' = "open" /\ id \in serverInfo
    BY DEF Toggle, Id
  <1>1. PICK ok \in BOOLEAN :
          proc' = [proc EXCEPT ![id] = IF IsRunning(@) THEN Stop(id, @) ELSE Begin(id, @, ok)]
    BY DEF Toggle
  <1> DEFINE q == IF IsRunning(p) THEN Stop(id, p) ELSE Begin(id, p, ok)
  <1>2. Good(id, p) /\ Threaded(id, p) /\ PanelRight(id)
    BY <1>0 DEF Manager, Shown
  <1>3. proc' = [proc EXCEPT ![id] = q] /\ proc'[id] = q
    BY <1>0, <1>1 DEF Manager
  <1>4. ThreadCount(p) \in Nat /\ Count(queue, id) \in Nat
        /\ Coming(id) = ThreadCount(p) + Count(queue, id)
    BY <1>2, ComingType
  <1>5. Threaded(id, q) /\ ThreadCount(q) >= ThreadCount(p) /\ ThreadCount(q) \in Nat
    <2>1. (~IsRunning(p) => Unused(Unregister(p)) # {}) /\ Idle(p) # {}
      BY DEF Toggle, Room, Stop
    <2> HIDE DEF p
    <2>2. CASE IsRunning(p)
      BY <1>0, <1>2, <1>4, <2>2, GoneThreads
    <2>3. CASE ~IsRunning(p)
      <3> DEFINE b == Begin(id, p, ok)
      <3>1. Threaded(id, b) /\ ThreadCount(b) = ThreadCount(p) + (IF IsRunning(b) THEN 1 ELSE 0)
        BY <1>2, <2>1, <2>3, BeginThreads
      <3> HIDE DEF b
      <3>2. q = b
        BY <2>3 DEF b
      <3> HIDE DEF q
      <3> QED BY <1>4, <3>1, <3>2
    <2> QED BY <2>2, <2>3
  <1> HIDE DEF q, p
  <1>6. ASSUME NEW other \in Server PROVE Threaded(other, proc'[other]) /\ PanelRight(other)'
    <2>1. CASE other # id
      BY <1>0, <1>3, <2>1, OtherPanels DEF Toggle, Rest
    <2>2. CASE other = id
      <3>1. text'[id] = ButtonText(proc'[id]) /\ queue' = queue /\ restartFlag_' = restartFlag_
            /\ missed' = missed /\ serverInfo' = serverInfo
        BY DEF Toggle, Rest
      <3>2. id \in serverInfo' \ missed' /\ id \in restartFlag_' =>
              ThreadCount(proc'[id]) + Count(queue', id) >= 2
        BY <1>2, <1>3, <1>4, <1>5, <3>1 DEF PanelRight
      <3>3. PanelRight(id)'
        BY <1>3, <1>5, <3>1, <3>2, PanelUpdated
      <3> QED BY <1>3, <1>5, <2>2, <3>3
    <2> QED BY <2>1, <2>2
  <1> QED BY <1>0, <1>6 DEF Shown

LEMMA ShownRestartOne == ASSUME Facts, Rest', NEW id \in Server, RestartOne(id) PROVE Shown'
  <1> USE DEF Facts
  <1> DEFINE p == proc[id]
             s == Stop(id, p)
  <1>0. id \in Id /\ phase = "open" /\ phase' = "open" /\ id \in serverInfo
    BY DEF RestartOne, Id
  <1>1. PICK ok \in BOOLEAN : proc' = [proc EXCEPT ![id] = Begin(id, s, ok)]
    BY DEF RestartOne
  <1> DEFINE q == Begin(id, s, ok)
  <1>2. Good(id, p) /\ Threaded(id, p) /\ PanelRight(id)
    BY <1>0 DEF Manager, Shown
  <1>3. proc' = [proc EXCEPT ![id] = q] /\ proc'[id] = q
    BY <1>0, <1>1 DEF Manager
  <1>4. ThreadCount(p) \in Nat /\ Count(queue, id) \in Nat
        /\ Coming(id) = ThreadCount(p) + Count(queue, id)
    BY <1>2, ComingType
  <1>5. Good(id, s) /\ ~IsRunning(s) /\ Threaded(id, s) /\ ThreadCount(s) = ThreadCount(p)
        /\ Unused(Unregister(s)) # {} /\ Idle(s) # {}
    BY <1>0, <1>2, StopGood, GoneThreads DEF RestartOne, Room
  <1> HIDE DEF s
  <1>6. Threaded(id, q) /\ ThreadCount(q) = ThreadCount(p) + (IF IsRunning(q) THEN 1 ELSE 0)
    BY <1>5, BeginThreads
  <1>7. IsRunning(proc[id]) => ThreadCount(p) >= 1
    BY <1>2, RunningThreads
  <1> HIDE DEF q, p
  <1>8. ASSUME NEW other \in Server PROVE Threaded(other, proc'[other]) /\ PanelRight(other)'
    <2>1. CASE other # id
      BY <1>0, <1>3, <2>1, OtherPanels DEF RestartOne, Rest
    <2>2. CASE other = id
      <3>1. text'[id] = ButtonText(proc'[id]) /\ queue' = queue /\ missed' = missed
            /\ serverInfo' = serverInfo
            /\ (id \in restartFlag_' =>
                  \/ id \in restartFlag_
                  \/ IsRunning(proc[id]) /\ IsRunning(proc'[id]))
        BY DEF RestartOne, Rest
      <3>2. id \in serverInfo' \ missed' /\ id \in restartFlag_' =>
              ThreadCount(proc'[id]) + Count(queue', id) >= 2
        BY <1>0, <1>2, <1>3, <1>4, <1>6, <1>7, <3>1 DEF PanelRight
      <3>3. PanelRight(id)'
        BY <1>3, <1>6, <3>1, <3>2, PanelUpdated
      <3> QED BY <1>3, <1>6, <2>2, <3>3
    <2> QED BY <2>1, <2>2
  <1> QED BY <1>0, <1>8 DEF Shown

LEMMA ShownPanels ==
  ASSUME Facts, Rest', RestoreDefault \/ \E id \in Server : Insert(id) \/ Remove(id)
  PROVE  Shown'
  <1> USE DEF Facts
  <1>0. phase = "open" /\ phase' = "open" /\ proc' = proc /\ queue' = queue
    BY DEF RestoreDefault, Insert, Remove
  <1>1. ASSUME NEW id \in Server PROVE Threaded(id, proc'[id]) /\ PanelRight(id)'
    <2>1. Threaded(id, proc[id]) /\ PanelRight(id)
      BY <1>0 DEF Shown
    <2>2. \/ id \notin serverInfo'
          \/ text'[id] = ButtonText(proc'[id]) /\ id \notin restartFlag_'
          \/ text'[id] = text[id] /\ (id \in restartFlag_' => id \in restartFlag_)
             /\ id \in serverInfo /\ (id \in missed => id \in missed')
      BY <1>0 DEF RestoreDefault, Insert, Remove, Rest
    <2>3. ThreadCount(proc[id]) \in Nat /\ Count(queue, id) \in Nat
      BY <2>1, ComingType
    <2>4. CASE id \notin serverInfo'
      BY <1>0, <2>1, <2>4 DEF PanelRight
    <2>5. CASE text'[id] = ButtonText(proc'[id]) /\ id \notin restartFlag_'
      BY <1>0, <2>1, <2>5, PanelUpdated
    <2>6. CASE text'[id] = text[id] /\ (id \in restartFlag_' => id \in restartFlag_)
               /\ id \in serverInfo /\ (id \in missed => id \in missed')
      BY <1>0, <2>1, <2>3, <2>6, PanelKept
    <2> QED BY <1>0, <2>1, <2>2, <2>4, <2>5, <2>6
  <1> QED BY <1>0, <1>1 DEF Shown

LEMMA ShownControllers ==
  ASSUME Facts, Rest', NEW c \in Controller, SetupController(c) \/ DropController(c)
  PROVE  Shown'
  <1>1. phase = "open" /\ phase' = "open" /\ queue' = queue /\ missed' = missed
        /\ panels' = panels /\ c \in Id /\ c \notin Server
    BY DEF SetupController, DropController, Id
  <1>2. \E q : proc' = [proc EXCEPT ![c] = q]
    BY DEF SetupController, DropController
  <1> QED BY <1>1, <1>2, OtherPanels DEF Shown, panels

LEMMA ShownProcessEnd == Facts /\ Rest' /\ ProcessEnd => Shown'
  <1> SUFFICES ASSUME Facts, Rest', ProcessEnd PROVE Shown'
    OBVIOUS
  <1> USE DEF Facts
  <1>0. phase = "open" /\ phase' = "open" /\ proc' = proc /\ missed' = missed
        /\ serverInfo' = serverInfo /\ queue \in Seq(Server) /\ queue # <<>>
        /\ queue' = Tail(queue)
    BY DEF ProcessEnd, Rest
  <1>1. ASSUME NEW id \in Server PROVE Threaded(id, proc'[id]) /\ PanelRight(id)'
    <2>1. Threaded(id, proc[id]) /\ PanelRight(id)
      BY <1>0 DEF Shown
    <2>2. ThreadCount(proc[id]) \in Nat /\ Count(queue, id) \in Nat
          /\ Coming(id) = ThreadCount(proc[id]) + Count(queue, id)
      BY <2>1, ComingType
    <2>3. Count(queue, id) = Count(queue', id) + (IF Head(queue) = id THEN 1 ELSE 0)
      BY <1>0, CountTail
    <2>4. Count(queue', id) \in Nat
      BY CountType DEF Rest
    <2>5. Coming(id)' = ThreadCount(proc[id]) + Count(queue', id)
      BY <1>0 DEF Coming, ThreadCount, Count, Told
    <2>6. CASE Head(queue) # id
      <3>1. text'[id] = text[id] /\ (id \in restartFlag_' => id \in restartFlag_)
        BY <2>6 DEF ProcessEnd, Rest
      <3> QED BY <1>0, <2>1, <2>2, <2>3, <2>4, <2>5, <2>6, <3>1 DEF PanelRight
    <2>7. CASE Head(queue) = id /\ id \in serverInfo
      <3>1. \/ id \in restartFlag_ /\ id \notin restartFlag_'
            \/ text'[id] = "START" /\ id \notin restartFlag_'
        BY <2>7 DEF ProcessEnd, Rest
      <3> QED BY <1>0, <2>1, <2>2, <2>3, <2>4, <2>5, <2>7, <3>1 DEF PanelRight
    <2>8. CASE id \notin serverInfo
      BY <1>0, <2>1, <2>8 DEF PanelRight
    <2> QED BY <2>6, <2>7, <2>8
  <1> QED BY <1>0, <1>1 DEF Shown

LEMMA ShownEnd == ASSUME Facts, Rest', NEW one \in Id, NEW n \in Pid[one], End(one, n) PROVE Shown'
  <1> USE DEF Facts
  <1> DEFINE p == proc[one]
             q == [p EXCEPT !.os[n] = "ended"]
  <1>0. phase' = phase /\ proc' = [proc EXCEPT ![one] = q] /\ proc'[one] = q /\ queue' = queue
        /\ missed' = missed /\ panels' = panels
    BY DEF End, Manager
  <1>1. q.waiters = p.waiters /\ (IsRunning(q) => IsRunning(p)) /\ q.process_ = p.process_
    <2>1. Good(one, p)
      BY DEF Manager
    <2> HIDE DEF p
    <2>2. /\ q.waiters = p.waiters /\ q.process_ = p.process_ /\ q.registered = p.registered
          /\ q.os = [p.os EXCEPT ![n] = "ended"]
      BY <2>1 DEF Good, Process
    <2> HIDE DEF q
    <2> QED BY <2>1, <2>2 DEF Good, Process, IsRunning
  <1> HIDE DEF q
  <1>2. ASSUME NEW id \in Server, phase = "open"
        PROVE  Threaded(id, proc'[id]) /\ PanelRight(id)'
    <2>1. CASE id # one
      BY <1>0, <1>2, <2>1, OtherPanels DEF panels
    <2>2. CASE id = one
      <3>1. Threaded(id, p) /\ PanelRight(id)
        BY <1>2, <2>2 DEF Shown
      <3>2. Threaded(id, q) /\ ThreadCount(q) = ThreadCount(p)
        BY <1>1, <3>1 DEF Threaded, ThreadCount
      <3>3. ThreadCount(p) \in Nat /\ Count(queue, id) \in Nat
        BY <2>2, <3>1, ComingType
      <3>4. PanelRight(id)'
        BY <1>0, <2>2, <3>1, <3>2, <3>3, PanelKept DEF panels
      <3> QED BY <1>0, <2>2, <3>2, <3>4
    <2> QED BY <2>1, <2>2
  <1> QED BY <1>0, <1>2 DEF Shown, panels

LEMMA ShownWait == ASSUME Facts, Rest', NEW one \in Id, Wait(one) PROVE Shown'
  <1> USE DEF Facts
  <1> DEFINE p == proc[one]
  <1>1. PICK w \in p.waiters :
          LET n == IF w.on = 0 THEN proc[one].process_ ELSE 0 IN
          /\ w.on <= 0
          /\ proc' = [proc EXCEPT ![one].waiters =
                        (@ \ {w}) \cup (IF n = 0 THEN {} ELSE {[w EXCEPT !.on = n]})]
          /\ missed' = IF n = 0 /\ one \in serverInfo THEN missed \cup {one} ELSE missed
    BY DEF Wait
  <1> DEFINE n == IF w.on = 0 THEN proc[one].process_ ELSE 0
             now == [w EXCEPT !.on = n]
             W == (p.waiters \ {w}) \cup (IF n = 0 THEN {} ELSE {now})
             q == [p EXCEPT !.waiters = W]
  <1>2. phase' = phase /\ proc' = [proc EXCEPT ![one] = q] /\ queue' = queue /\ panels' = panels
        /\ proc'[one] = q
    BY <1>1 DEF Wait, Manager
  <1>3. Good(one, p)
    BY DEF Manager
  <1>4. one \in Server
    BY <1>1, <1>3 DEF Good
  <1>5. n = p.process_ \/ n = 0
    OBVIOUS
  <1>6. now.thread = w.thread /\ now.on = n
    BY <1>3 DEF Good, Process, Waiter
  <1>7. q.waiters = W /\ q.process_ = p.process_ /\ IsRunning(q) = IsRunning(p)
    BY <1>3 DEF Good, Process, IsRunning
  <1>8. n = 0 => missed' = IF one \in serverInfo THEN missed \cup {one} ELSE missed
    BY <1>1
  <1>9. n # 0 => missed' = missed /\ w.on = 0
    BY <1>1
  <1>10. IsRunning(p) /\ n = 0 => w.on < 0
    BY <1>1, <1>3 DEF IsRunning, Good, Process, Waiter
  <1> HIDE DEF n, now, q
  <1>11. ASSUME phase = "open" PROVE Threaded(one, q) /\ (n # 0 => ThreadCount(q) = ThreadCount(p))
    <2>1. Threaded(one, p)
      BY <1>4, <1>11 DEF Shown
    <2>2. IsFiniteSet(p.waiters \ {w}) /\ Cardinality(p.waiters) \in Nat
          /\ Cardinality(p.waiters \ {w}) = Cardinality(p.waiters) - 1
      BY <2>1, <1>1, FS_RemoveElement, FS_CardinalityType DEF Threaded
    <2>3. n # 0 => now \notin p.waiters \ {w}
      BY <2>1, <1>1, <1>6 DEF Threaded
    <2>4. IsFiniteSet((p.waiters \ {w}) \cup {now})
          /\ (n # 0 => Cardinality((p.waiters \ {w}) \cup {now}) = Cardinality(p.waiters))
      <3> DEFINE R == p.waiters \ {w}
      <3>1. IsFiniteSet(R) /\ Cardinality(p.waiters) \in Nat
            /\ Cardinality(R) = Cardinality(p.waiters) - 1 /\ (n # 0 => now \notin R)
        BY <2>2, <2>3
      <3> HIDE DEF R
      <3>2. /\ IsFiniteSet(R \cup {now})
            /\ now \notin R => Cardinality(R \cup {now}) = Cardinality(R) + 1
        BY <3>1, FS_AddElement
      <3>3. Cardinality(R) + 1 = Cardinality(p.waiters)
        BY <3>1
      <3> QED BY <3>1, <3>2, <3>3 DEF R
    <2>5. IsFiniteSet(W) /\ (n # 0 => Cardinality(W) = Cardinality(p.waiters))
      BY <2>2, <2>4
    <2>6. \A u, v \in W : u.thread = v.thread => u = v
      BY <2>1, <1>1, <1>6 DEF Threaded
    <2>7. IsRunning(p) => \E v \in W : v.on \in {0, p.process_}
      <3> SUFFICES ASSUME IsRunning(p)
                   PROVE  \E v \in W : v.on \in {0, p.process_}
        OBVIOUS
      <3>1. PICK v \in p.waiters : v.on \in {0, p.process_}
        BY <2>1 DEF Threaded
      <3>2. CASE v # w
        BY <3>1, <3>2
      <3>3. CASE v = w /\ n # 0
        BY <1>5, <1>6, <3>1, <3>3
      <3>4. v = w => n # 0
        BY <1>3, <1>10, <3>1, PidNatural DEF Good, Process
      <3> QED BY <3>2, <3>3, <3>4
    <2> HIDE DEF W
    <2> QED BY <1>7, <2>5, <2>6, <2>7 DEF Threaded, ThreadCount
  <1> HIDE DEF W
  <1>12. ASSUME NEW id \in Server, phase = "open"
         PROVE  Threaded(id, proc'[id]) /\ PanelRight(id)'
    <2>0. id \in Id /\ Threaded(id, proc[id]) /\ PanelRight(id)
      BY <1>12 DEF Shown, Id
    <2>1. ThreadCount(proc[id]) \in Nat /\ Count(queue, id) \in Nat
      BY <2>0, ComingType
    <2>2. text' = text /\ restartFlag_' = restartFlag_ /\ serverInfo' = serverInfo
          /\ missed \subseteq missed'
      BY <1>2, <1>8, <1>9 DEF panels
    <2>3. Threaded(id, proc'[id])
      BY <1>2, <1>11, <1>12, <2>0 DEF Manager
    <2>4. CASE n = 0 /\ id = one
      BY <1>2, <1>8, <1>12, <2>2, <2>3, <2>4 DEF PanelRight
    <2>5. CASE n # 0 \/ id # one
      <3>1. ThreadCount(proc'[id]) = ThreadCount(proc[id])
        BY <1>2, <1>11, <1>12, <2>0, <2>5 DEF Manager
      <3> QED BY <1>2, <2>0, <2>1, <2>2, <2>3, <3>1, PanelKept
    <2> QED BY <2>3, <2>4, <2>5
  <1> QED BY <1>2, <1>12 DEF Shown, panels

LEMMA ShownAnnounce == ASSUME Facts, Rest', NEW one \in Id, Announce(one) PROVE Shown'
  <1> USE DEF Facts
  <1> DEFINE p == proc[one]
  <1>1. PICK w \in p.waiters : /\ w.on > 0 /\ p.os[w.on] = "ended"
                               /\ proc' = [proc EXCEPT ![one].waiters = @ \ {w}]
    BY DEF Announce
  <1> DEFINE W == p.waiters \ {w}
             q == [p EXCEPT !.waiters = W]
  <1>2. phase' = phase /\ proc' = [proc EXCEPT ![one] = q] /\ proc'[one] = q
        /\ missed' = missed /\ panels' = panels
        /\ (phase = "open" => queue' = Append(queue, one)) /\ queue \in Seq(Server)
    BY <1>1 DEF Announce, Manager, Rest
  <1>3. Good(one, p)
    BY DEF Manager
  <1>4. one \in Server
    BY <1>1, <1>3 DEF Good
  <1>5. q.waiters = W /\ q.process_ = p.process_ /\ IsRunning(q) = IsRunning(p)
    BY <1>3 DEF Good, Process, IsRunning
  <1>6. ASSUME phase = "open" PROVE Threaded(one, q) /\ ThreadCount(q) = ThreadCount(p) - 1
    <2>1. Threaded(one, p)
      BY <1>4, <1>6 DEF Shown
    <2>2. IsFiniteSet(W) /\ Cardinality(W) = Cardinality(p.waiters) - 1
      <3>1. IsFiniteSet(p.waiters) /\ w \in p.waiters
        BY <2>1, <1>1 DEF Threaded
      <3> QED BY <3>1, FS_RemoveElement
    <2>3. IsRunning(p) => \E v \in W : v.on \in {0, p.process_}
      <3> SUFFICES ASSUME IsRunning(p)
                   PROVE  \E v \in W : v.on \in {0, p.process_}
        OBVIOUS
      <3>1. PICK v \in p.waiters : v.on \in {0, p.process_}
        BY <2>1 DEF Threaded
      <3>2. v # w
        BY <1>1, <3>1 DEF IsRunning
      <3> QED BY <3>1, <3>2
    <2>4. \A u, v \in W : u.thread = v.thread => u = v
      BY <2>1 DEF Threaded
    <2> HIDE DEF W, q
    <2> QED BY <1>5, <2>2, <2>3, <2>4 DEF Threaded, ThreadCount
  <1> HIDE DEF W, q
  <1>7. ASSUME NEW id \in Server, phase = "open"
        PROVE  Threaded(id, proc'[id]) /\ PanelRight(id)'
    <2>1. id \in Id /\ Threaded(id, proc[id]) /\ PanelRight(id)
      BY <1>7 DEF Shown, Id
    <2>2. ThreadCount(proc[id]) \in Nat /\ Count(queue, id) \in Nat
      BY <2>1, ComingType
    <2>3. Count(queue', id) = Count(queue, id) + (IF one = id THEN 1 ELSE 0)
      <3>1. queue \in Seq(Server) /\ queue' = Append(queue, one)
        BY <1>2, <1>7
      <3>2. Count(Append(queue, one), id) = Count(queue, id) + (IF one = id THEN 1 ELSE 0)
        BY <3>1, <1>4, CountAppend
      <3> QED BY <3>1, <3>2
    <2>4. Threaded(id, proc'[id])
      BY <1>2, <1>6, <1>7, <2>1 DEF Manager
    <2>5. ThreadCount(proc'[id]) = ThreadCount(proc[id]) - (IF one = id THEN 1 ELSE 0)
      BY <1>2, <1>6, <1>7, <2>1, <2>2 DEF Manager
    <2>6. ThreadCount(proc'[id]) + Count(queue', id) >= ThreadCount(proc[id]) + Count(queue, id)
      BY <2>2, <2>3, <2>5
    <2>7. text' = text /\ restartFlag_' = restartFlag_ /\ serverInfo' = serverInfo
      BY <1>2 DEF panels
    <2>8. PanelRight(id)'
      BY <1>2, <2>1, <2>4, <2>6, <2>7, PanelKept
    <2> QED BY <2>4, <2>8
  <1> QED BY <1>2, <1>7 DEF Shown, panels

LEMMA ShownStep == Facts /\ Rest' /\ [Next]_vars => Shown'
  <1> SUFFICES ASSUME Facts, Rest', [Next]_vars PROVE Shown'
    OBVIOUS
  <1>1. CASE Open \/ RestartAll \/ ProcessEnd
    BY <1>1, ShownOpen, ShownRestartAll, ShownProcessEnd
  <1>2. CASE Close \/ Closed
    BY <1>2 DEF Close, Closed, Shown
  <1>3. CASE RestoreDefault \/ \E id \in Server : Insert(id) \/ Remove(id)
    BY <1>3, ShownPanels
  <1>4. ASSUME NEW id \in Server, Toggle(id) \/ RestartOne(id) PROVE Shown'
    BY <1>4, ShownToggle, ShownRestartOne
  <1>5. CASE \E c \in Controller : SetupController(c) \/ DropController(c)
    BY <1>5, ShownControllers
  <1>6. ASSUME NEW id \in Id, Threads(id) \/ \E n \in Pid[id] : End(id, n) PROVE Shown'
    BY <1>6, ShownWait, ShownAnnounce, ShownEnd DEF Threads
  <1>7. CASE UpdateIO \/ GetProcess \/ UNCHANGED vars
    <2>1. proc' = proc /\ phase' = phase /\ missed' = missed /\ queue' = queue /\ panels' = panels
      BY <1>7 DEF UpdateIO, GetProcess, vars
    <2> QED BY <2>1 DEF Facts, Shown, PanelRight, Coming, panels
  <1> QED BY <1>1, <1>2, <1>3, <1>4, <1>5, <1>6, <1>7, Zenon DEF Next

\* A panel says STOP of a server that does not run only while its end is still to
\* be announced, once more if it ignores one: for any number of servers, restarts
\* and announcements under way.
THEOREM ButtonsAreRight == Spec => []StopShownRight
  <1>1. Init => Rest /\ Shown
    BY DEF Init, Rest, Shown
  <1>2. Facts => StopShownRight
    <2> SUFFICES ASSUME Facts, phase = "open", NEW id \in serverInfo \ missed,
                        text[id] = "STOP", ~IsRunning(proc[id])
                 PROVE  Coming(id) >= IF id \in restartFlag_ THEN 2 ELSE 1
      BY DEF StopShownRight
    <2>1. PanelRight(id)
      BY DEF Facts, Shown, Rest
    <2> QED BY <2>1 DEF PanelRight
  <1>3. Init => Facts
    BY <1>1, InitManager DEF Facts
  <1>4. Facts /\ [Next]_vars => Facts'
    BY ManagerStep, RestStep, ShownStep DEF Facts
  <1> QED BY <1>2, <1>3, <1>4, PTL DEF Spec
=============================================================================
