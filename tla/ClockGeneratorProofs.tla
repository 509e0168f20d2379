------------------------ MODULE ClockGeneratorProofs ------------------------
(***************************************************************************)
(* Theorems about ClockGenerator for all values of its constants.          *)
(***************************************************************************)
EXTENDS ClockGenerator, SequenceTheorems, FiniteSetTheorems, TLAPS

USE ClockAssumption

Record == [ec : EC, period : Nat \ {0}, next : Nat]

-----------------------------------------------------------------------------
(* The Vector: its entries are in the order of their creation, so an entry *)
(* is there once.                                                          *)

Sorted == \A k, l \in DOMAIN ecs_ : k < l => ecs_[k] < ecs_[l]

\* What remove leaves, position by position.
Removed(new, id) ==
  /\ new \in Seq(1 .. Len(entries))
  /\ \A k, l \in DOMAIN new : k < l => new[k] < new[l]
  /\ {new[k] : k \in DOMAIN new} = Listed \ {id}
  /\ \A k \in DOMAIN new : \/ k \in DOMAIN ecs_ /\ new[k] = ecs_[k]
                           \/ k + 1 \in DOMAIN ecs_ /\ new[k] = ecs_[k + 1]
  /\ \A k \in DOMAIN ecs_ : ecs_[k] = id =>
       \A m \in 1 .. k - 1 : m \in DOMAIN new /\ new[m] = ecs_[m]

LEMMA WithoutRemoves ==
  ASSUME TypeOK, Sorted, NEW id
  PROVE  Removed(Without(id), id)
  <1> DEFINE new == Without(id)
             n == Len(ecs_)
  <1>0. n \in Nat /\ DOMAIN ecs_ = 1 .. n /\ Len(entries) \in Nat
        /\ \A k \in 1 .. n : ecs_[k] \in 1 .. Len(entries) /\ ecs_[k] \in Nat
    <2>1. Len(entries) \in Nat /\ ecs_ \in Seq(1 .. Len(entries))
      BY LenProperties DEF TypeOK
    <2>2. n \in Nat /\ DOMAIN ecs_ = 1 .. n /\ \A k \in 1 .. n : ecs_[k] \in 1 .. Len(entries)
      BY <2>1, LenProperties, ElementOfSeq
    <2> QED BY <2>1, <2>2
  <1>1. CASE id \notin Listed
    <2>1. new = ecs_
      BY <1>1 DEF Without
    <2> QED BY <1>0, <1>1, <2>1 DEF TypeOK, Sorted, Listed, Removed
  <1>2. CASE id \in Listed
    <2> DEFINE k == CHOOSE k \in DOMAIN ecs_ : ecs_[k] = id
    <2>1. k \in 1 .. n /\ ecs_[k] = id
      BY <1>0, <1>2 DEF Listed
    <2>2. new = [m \in 1 .. n - 1 |-> IF m < k THEN ecs_[m] ELSE ecs_[m + 1]]
      BY <1>2, Zenon DEF Without
    <2> HIDE DEF k, new
    <2>3. ASSUME NEW m \in 1 .. n, ecs_[m] = id PROVE m = k
      <3>1. \A x, y \in 1 .. n : x < y => ecs_[x] < ecs_[y]
        BY <1>0 DEF Sorted
      <3>2. ~(m < k) /\ ~(k < m)
        BY <1>0, <2>1, <2>3, <3>1
      <3> QED BY <1>0, <2>1, <3>2
    <2>4. n - 1 \in Nat /\ DOMAIN new = 1 .. n - 1
      BY <1>0, <2>1, <2>2
    <2>5. \A m \in 1 .. n - 1 : new[m] = IF m < k THEN ecs_[m] ELSE ecs_[m + 1]
      BY <2>2
    <2>6. new \in Seq(1 .. Len(entries)) /\ Len(new) = n - 1
      <3>1. \A m \in 1 .. n - 1 : new[m] \in 1 .. Len(entries)
        BY <1>0, <2>1, <2>5
      <3>2. new \in [1 .. n - 1 -> 1 .. Len(entries)]
        BY <2>2, <3>1
      <3>3. new \in Seq(1 .. Len(entries))
        BY <2>4, <3>2, IsASeq
      <3>4. Len(new) \in Nat /\ DOMAIN new = 1 .. Len(new)
        BY <3>3, LenProperties
      <3>5. Len(new) = n - 1
        BY <2>4, <3>4
      <3> QED BY <3>3, <3>5
    <2>7. \A a, b \in 1 .. n - 1 : a < b => new[a] < new[b]
      <3> SUFFICES ASSUME NEW a \in 1 .. n - 1, NEW b \in 1 .. n - 1, a < b
                   PROVE  new[a] < new[b]
        OBVIOUS
      <3>1. \A x, y \in 1 .. n : x < y => ecs_[x] < ecs_[y]
        BY <1>0 DEF Sorted
      <3> HIDE DEF new
      <3>2. a \in 1 .. n /\ b \in 1 .. n /\ a + 1 \in 1 .. n /\ b + 1 \in 1 .. n
            /\ a + 1 < b + 1 /\ (a < k => a < b + 1) /\ (b < k => a < k)
        BY <1>0, <2>1
      <3>3. new[a] = (IF a < k THEN ecs_[a] ELSE ecs_[a + 1])
            /\ new[b] = (IF b < k THEN ecs_[b] ELSE ecs_[b + 1])
        BY <2>5
      <3>4. CASE a < k /\ b < k
        BY <3>1, <3>2, <3>3, <3>4
      <3>5. CASE a < k /\ ~(b < k)
        BY <3>1, <3>2, <3>3, <3>5
      <3>6. CASE ~(a < k)
        BY <3>1, <3>2, <3>3, <3>6
      <3> QED BY <3>4, <3>5, <3>6
    <2>8. {new[m] : m \in 1 .. n - 1} = Listed \ {id}
      <3>1. ASSUME NEW m \in 1 .. n - 1 PROVE new[m] \in Listed \ {id}
        <4>1. CASE m < k
          <5>1. m \in 1 .. n /\ new[m] = ecs_[m] /\ m # k
            BY <1>0, <2>1, <2>5, <4>1
          <5> QED BY <2>3, <5>1 DEF Listed
        <4>2. CASE m >= k
          <5>1. m + 1 \in 1 .. n /\ new[m] = ecs_[m + 1] /\ m + 1 # k
            BY <1>0, <2>1, <2>5, <4>2
          <5> QED BY <1>0, <2>3, <5>1 DEF Listed
        <4> QED BY <1>0, <2>1, <4>1, <4>2
      <3>2. ASSUME NEW e \in Listed \ {id} PROVE \E m \in 1 .. n - 1 : new[m] = e
        <4>1. PICK m \in 1 .. n : ecs_[m] = e
          BY <1>0 DEF Listed
        <4>2. CASE m < k
          BY <1>0, <2>1, <2>5, <4>1, <4>2
        <4>3. CASE m > k
          <5>1. m - 1 \in 1 .. n - 1 /\ new[m - 1] = e
            BY <1>0, <2>1, <2>5, <4>1, <4>3
          <5> QED BY <5>1
        <4> QED BY <1>0, <2>1, <4>1, <4>2, <4>3
      <3> QED BY <3>1, <3>2
    <2>10. \A m \in 1 .. n - 1 : \/ m \in 1 .. n /\ new[m] = ecs_[m]
                                 \/ m + 1 \in 1 .. n /\ new[m] = ecs_[m + 1]
      BY <1>0, <2>1, <2>5
    <2>11. \A m \in 1 .. k - 1 : m \in 1 .. n - 1 /\ new[m] = ecs_[m]
      BY <1>0, <2>1, <2>5
    <2>12. Removed(new, id)
      BY <1>0, <2>3, <2>4, <2>6, <2>7, <2>8, <2>10, <2>11 DEF Removed
    <2> QED BY <2>12 DEF new
  <1> QED BY <1>1, <1>2

-----------------------------------------------------------------------------
(* The inductive invariant of any use: types, order, and what an update has *)
(* ticked lies behind it.                                                   *)

\* At the remote call, the current entry is not before any that is to come.
Behind ==
  /\ walk = "none" => ticked = {}
  /\ at \in {"size", "get"} => \A k \in DOMAIN ecs_ : k >= i => \A t \in ticked : t < ecs_[k]
  /\ walk # "none" /\ at = "remote" =>
       /\ cur \in 1 .. Len(entries)
       /\ \A t \in ticked : t < cur
       /\ \A k \in DOMAIN ecs_ : k >= i => cur <= ecs_[k]
  /\ walk = "none" => at = "size"

Walked == TypeOK /\ Sorted /\ Behind

LEMMA InitWalked == Init => Walked
  <1> SUFFICES ASSUME Init PROVE Walked
    OBVIOUS
  <1>1. TypeOK
    <2>1. entries \in Seq(Record) /\ ecs_ \in Seq(1 .. Len(entries))
      BY DEF Init
    <2>2. quiet \in BOOLEAN /\ simulating \in BOOLEAN
      BY DEF Init
    <2>3. /\ running \in [EC -> BOOLEAN] /\ alive \in [EC -> BOOLEAN]
          /\ call \in [EC -> {"idle", "subscribe", "size", "get", "return"}]
          /\ j \in [EC -> Nat \ {0}]
      BY DEF Init
    <2>4. cur \in 0 .. Len(entries)
      BY DEF Init
    <2> QED BY <2>1, <2>2, <2>3, <2>4 DEF Init, TypeOK, Record
  <1> QED BY <1>1 DEF Walked, Init, Sorted, Behind

\* The numbers of entries and positions.
LEMMA Numbers ==
  ASSUME TypeOK
  PROVE  /\ Len(entries) \in Nat /\ Len(ecs_) \in Nat
         /\ DOMAIN ecs_ = 1 .. Len(ecs_) /\ DOMAIN entries = 1 .. Len(entries)
         /\ \A k \in DOMAIN ecs_ : ecs_[k] \in 1 .. Len(entries)
         /\ \A id \in 1 .. Len(entries) : entries[id] \in Record
  <1>1. Len(entries) \in Nat /\ ecs_ \in Seq(1 .. Len(entries))
    BY LenProperties DEF TypeOK
  <1>2. /\ Len(ecs_) \in Nat /\ DOMAIN ecs_ = 1 .. Len(ecs_)
        /\ \A k \in DOMAIN ecs_ : ecs_[k] \in 1 .. Len(entries)
    BY <1>1, LenProperties, ElementOfSeq
  <1>3. /\ DOMAIN entries = 1 .. Len(entries)
        /\ \A id \in 1 .. Len(entries) : entries[id] \in Record
    BY LenProperties, ElementOfSeq DEF TypeOK, Record
  <1> QED BY <1>1, <1>2, <1>3

LEMMA WalkedSubscribe == ASSUME Walked, NEW e \in EC, Subscribe(e) PROVE Walked'
  <1> USE DEF Walked
  <1> DEFINE n == Len(entries)
             new == [ec |-> e, period |-> Period[e], next |-> 0]
  <1>0. n \in Nat /\ Len(ecs_) \in Nat /\ DOMAIN ecs_ = 1 .. Len(ecs_)
        /\ \A k \in DOMAIN ecs_ : ecs_[k] \in 1 .. n
    BY Numbers
  <1>1. entries' \in Seq(Record) /\ Len(entries') = n + 1
    <2>1. entries \in Seq(Record) /\ new \in Record /\ entries' = Append(entries, new)
      BY DEF Subscribe, TypeOK, Record
    <2> QED BY <2>1, AppendProperties
  <1>2. /\ Len(ecs_') = Len(ecs_) + 1 /\ ecs_'[Len(ecs_) + 1] = n + 1
        /\ \A k \in 1 .. Len(ecs_) : ecs_'[k] = ecs_[k]
        /\ ecs_' \in Seq(1 .. n + 1) /\ DOMAIN ecs_' = 1 .. Len(ecs_) + 1
    <2>1. ecs_ \in Seq(1 .. n + 1) /\ n + 1 \in 1 .. n + 1 /\ ecs_' = Append(ecs_, n + 1)
      <3>1. \A k \in 1 .. Len(ecs_) : ecs_[k] \in 1 .. n + 1
        BY <1>0
      <3>2. ecs_ \in [1 .. Len(ecs_) -> 1 .. n + 1]
        <4>1. ecs_ = [k \in 1 .. Len(ecs_) |-> ecs_[k]]
          BY LenProperties DEF TypeOK
        <4> QED BY <3>1, <4>1
      <3>3. ecs_ \in Seq(1 .. n + 1)
        BY <1>0, <3>2, IsASeq
      <3> QED BY <1>0, <3>3 DEF Subscribe
    <2> HIDE DEF n
    <2> QED BY <2>1, AppendProperties, LenProperties
  <1>3. TypeOK'
    <2>1. call' \in [EC -> {"idle", "subscribe", "size", "get", "return"}]
      BY DEF Subscribe, TypeOK
    <2>2. synced' \subseteq 1 .. n + 1 /\ ticked' \subseteq 1 .. n + 1 /\ cur' \in 0 .. n + 1
      BY <1>0 DEF Subscribe, TypeOK, walkVars
    <2> QED BY <1>1, <1>2, <2>1, <2>2 DEF Subscribe, TypeOK, walkVars, Record
  <1>4. Sorted'
    <2> SUFFICES ASSUME NEW k \in 1 .. Len(ecs_) + 1, NEW l \in 1 .. Len(ecs_) + 1, k < l
                 PROVE  ecs_'[k] < ecs_'[l]
      BY <1>2 DEF Sorted
    <2>1. k \in 1 .. Len(ecs_) /\ ecs_'[k] = ecs_[k] /\ ecs_[k] \in 1 .. n
      <3>1. k \in 1 .. Len(ecs_)
        BY <1>0
      <3> QED BY <1>0, <1>2, <3>1
    <2>2. CASE l = Len(ecs_) + 1
      BY <1>0, <1>2, <2>1, <2>2
    <2>3. CASE l \in 1 .. Len(ecs_)
      BY <1>0, <1>2, <2>1, <2>3 DEF Sorted
    <2> QED BY <1>0, <2>2, <2>3
  <1>5. Behind'
    <2>1. walk' = walk /\ at' = at /\ i' = i /\ cur' = cur /\ ticked' = ticked
      BY DEF Subscribe, walkVars
    <2>2. \A t \in ticked : t \in 1 .. n
      BY DEF TypeOK
    <2>3. ASSUME NEW k \in DOMAIN ecs_', k >= i
          PROVE  (k \in DOMAIN ecs_ /\ ecs_'[k] = ecs_[k]) \/ ecs_'[k] = n + 1
      BY <1>0, <1>2
    <2>4. at \in {"size", "get"} => \A k \in DOMAIN ecs_' : k >= i => \A t \in ticked : t < ecs_'[k]
      BY <1>0, <2>2, <2>3 DEF Behind
    <2>5. walk # "none" /\ at = "remote" =>
            cur \in 1 .. n + 1 /\ \A k \in DOMAIN ecs_' : k >= i => cur <= ecs_'[k]
      BY <1>0, <2>3 DEF Behind
    <2>6. Len(entries)' = n + 1
      BY <1>1
    <2> HIDE DEF n
    <2> QED BY <2>1, <2>4, <2>5, <2>6 DEF Behind
  <1> QED BY <1>3, <1>4, <1>5

\* unsubscribe and the failed call take an entry away.
LEMMA WalkedWithout ==
  ASSUME Walked, NEW id, ecs_' = Without(id), entries' = entries
  PROVE  ecs_' \in Seq(1 .. Len(entries')) /\ Sorted'
  BY WithoutRemoves DEF Walked, Removed, Sorted

LEMMA WalkedCalls ==
  ASSUME Walked, NEW e \in EC,
         \/ Start(e) \/ Stop(e) \/ UnsubscribeSize(e) \/ UnsubscribeGet(e) \/ Stopped(e)
         \/ Crash(e)
  PROVE  Walked'
  <1> USE DEF Walked
  <1>0. entries' = entries /\ walk' = walk /\ at' = at /\ i' = i /\ cur' = cur
        /\ ticked' = ticked /\ synced' = synced /\ simTime_' = simTime_
        /\ simulating' = simulating /\ quiet' = quiet
    BY DEF Start, Stop, UnsubscribeSize, UnsubscribeGet, Stopped, Crash, walkVars
  <1>1. /\ running' \in [EC -> BOOLEAN] /\ alive' \in [EC -> BOOLEAN]
        /\ call' \in [EC -> {"idle", "subscribe", "size", "get", "return"}]
    BY DEF TypeOK, Start, Stop, UnsubscribeSize, UnsubscribeGet, Stopped, Crash
  <1>2. j' \in [EC -> Nat \ {0}]
    <2>1. \/ j' = j \/ j' = [j EXCEPT ![e] = 1]
          \/ j' = [j EXCEPT ![e] = j[e] + 1]
      BY DEF Start, Stop, UnsubscribeSize, UnsubscribeGet, Stopped, Crash
    <2>2. j \in [EC -> Nat \ {0}] /\ j[e] + 1 \in Nat \ {0}
      BY DEF TypeOK
    <2> QED BY <2>1, <2>2
  <1>3. CASE ecs_' = ecs_
    BY <1>0, <1>1, <1>2, <1>3 DEF TypeOK, Sorted, Behind
  <1>4. CASE ecs_' = Without(ecs_[j[e]])
    <2> DEFINE id == ecs_[j[e]]
    <2>1. ecs_' \in Seq(1 .. Len(entries')) /\ Sorted' /\ Removed(ecs_', id)
      BY <1>0, <1>4, WalkedWithout, WithoutRemoves
    <2> HIDE DEF id
    <2>2. TypeOK'
      BY <1>0, <1>1, <1>2, <2>1 DEF TypeOK
    <2>3. ASSUME NEW k \in DOMAIN ecs_', k >= i
          PROVE  \E l \in DOMAIN ecs_ : l >= i /\ ecs_'[k] = ecs_[l]
      <3>1. Len(ecs_') \in Nat /\ DOMAIN ecs_' = 1 .. Len(ecs_')
        BY <2>2, Numbers, LenProperties DEF TypeOK
      <3>2. k \in Nat /\ i \in Nat /\ (k + 1 >= i)
        BY <2>3, <3>1 DEF TypeOK
      <3> QED BY <2>1, <2>3, <3>2 DEF Removed
    <2>4. Behind'
      BY <1>0, <2>3 DEF Behind
    <2> QED BY <2>1, <2>2, <2>4
  <1>5. ecs_' = ecs_ \/ ecs_' = Without(ecs_[j[e]])
    BY DEF Start, Stop, UnsubscribeSize, UnsubscribeGet, Stopped, Crash
  <1> QED BY <1>3, <1>4, <1>5

\* The walks do not change the Vector but for an entry whose call has failed.
LEMMA WalkedStart == Walked /\ (StartSimulation \/ BeginUpdate) => Walked'
  <1> SUFFICES ASSUME Walked, StartSimulation \/ BeginUpdate PROVE Walked'
    OBVIOUS
  <1>1. TypeOK'
    <2>0. TypeOK
      BY DEF Walked
    <2>1. /\ i' = 1 /\ ecs_' = ecs_ /\ entries' = entries /\ cur' = cur
          /\ walk' \in {"reset", "update"} /\ at' = "size" /\ quiet' = quiet
          /\ callVars' = callVars
      BY DEF StartSimulation, BeginUpdate
    <2>2. simTime_' \in Nat
      <3>1. simTime_' = 0 \/ simTime_' = simTime_ + StepTime
        BY DEF StartSimulation, BeginUpdate
      <3>2. simTime_ \in Nat /\ StepTime \in Nat
        BY <2>0, ClockAssumption DEF TypeOK
      <3> QED BY <3>1, <3>2
    <2>3. simulating' \in BOOLEAN
      BY <2>0, Zenon DEF StartSimulation, BeginUpdate, TypeOK
    <2>5. synced' \subseteq 1 .. Len(entries') /\ ticked' \subseteq 1 .. Len(entries')
      <3>1. synced' \in {{}, synced} /\ ticked' \in {{}, ticked}
        BY DEF StartSimulation, BeginUpdate
      <3> QED BY <2>0, <2>1, <3>1 DEF TypeOK
    <2>4. running' = running /\ alive' = alive /\ call' = call /\ j' = j
      BY <2>1 DEF callVars
    <2>6. /\ entries' \in Seq([ec : EC, period : Nat \ {0}, next : Nat])
          /\ ecs_' \in Seq(1 .. Len(entries')) /\ cur' \in 0 .. Len(entries')
      BY <2>0, <2>1 DEF TypeOK
    <2>7. /\ running' \in [EC -> BOOLEAN] /\ alive' \in [EC -> BOOLEAN]
          /\ call' \in [EC -> {"idle", "subscribe", "size", "get", "return"}]
          /\ j' \in [EC -> Nat \ {0}]
      BY <2>0, <2>4 DEF TypeOK
    <2>8. /\ walk' \in {"none", "reset", "update"} /\ at' \in {"size", "get", "remote"}
          /\ i' \in Nat \ {0} /\ quiet' \in BOOLEAN
      BY <2>0, <2>1 DEF TypeOK
    <2> QED BY <2>2, <2>3, <2>5, <2>6, <2>7, <2>8, Zenon DEF TypeOK
  <1>2. ticked' = {} /\ at' = "size" /\ walk' # "none" /\ ecs_' = ecs_
    BY DEF Walked, StartSimulation, BeginUpdate, Behind, MayWalk
  <1> QED BY <1>1, <1>2 DEF Walked, Sorted, Behind

LEMMA WalkedSteps ==
  ASSUME Walked, WalkSize \/ WalkGet \/ ResetEntry \/ Tick \/ NotDue
  PROVE  Walked'
  <1> USE DEF Walked
  <1>0. /\ Len(entries) \in Nat /\ Len(ecs_) \in Nat /\ DOMAIN ecs_ = 1 .. Len(ecs_)
        /\ \A k \in DOMAIN ecs_ : ecs_[k] \in 1 .. Len(entries)
        /\ \A id \in 1 .. Len(entries) : entries[id] \in Record
        /\ i \in Nat \ {0}
    BY Numbers DEF TypeOK
  <1>1. ecs_' = ecs_ /\ simTime_' = simTime_ /\ callVars' = callVars /\ quiet' = quiet
    BY DEF WalkSize, WalkGet, ResetEntry, Tick, NotDue
  <1>2. CASE WalkSize \/ WalkGet
    <2>1. \/ walk' = walk /\ i' = i /\ ticked' = ticked /\ simulating' = simulating
             /\ (\/ at' = "get" /\ cur' = cur /\ at = "size"
                 \/ at' = "remote" /\ at = "get" /\ i <= Len(ecs_) /\ cur' = ecs_[i])
          \/ walk' = "none" /\ at' = "size" /\ i' = 1 /\ cur' = 0 /\ ticked' = {}
             /\ simulating' \in BOOLEAN
      BY <1>2 DEF WalkSize, WalkGet, WalkEnds
    <2>2. entries' = entries /\ synced' = synced
      BY <1>2 DEF WalkSize, WalkGet
    <2>3. cur' \in 0 .. Len(entries) /\ i' \in Nat \ {0} /\ at' \in {"size", "get", "remote"}
          /\ walk' \in {"none", "reset", "update"} /\ ticked' \subseteq 1 .. Len(entries)
          /\ simulating' \in BOOLEAN
      <3>1. simulating' \in BOOLEAN
        BY <2>1, Zenon DEF TypeOK
      <3>2. i' \in Nat \ {0} /\ at' \in {"size", "get", "remote"}
            /\ walk' \in {"none", "reset", "update"} /\ ticked' \subseteq 1 .. Len(entries)
        <4>1. (i' = i \/ i' = 1) /\ (walk' = walk \/ walk' = "none")
              /\ (ticked' = ticked \/ ticked' = {})
          BY <2>1, Zenon
        <4>2. at' \in {"size", "get", "remote"}
          BY <2>1, Zenon
        <4>3. walk \in {"none", "reset", "update"} /\ ticked \subseteq 1 .. Len(entries)
          BY DEF TypeOK
        <4>4. i' \in Nat \ {0}
          BY <1>0, <4>1
        <4> QED BY <4>1, <4>2, <4>3, <4>4, Zenon
      <3>3. cur' \in 0 .. Len(entries)
        <4>1. CASE i <= Len(ecs_) /\ cur' = ecs_[i]
          <5>1. i \in DOMAIN ecs_
            BY <1>0, <4>1
          <5> QED BY <1>0, <4>1, <5>1
        <4>2. CASE cur' = cur \/ cur' = 0
          BY <1>0, <4>2 DEF TypeOK
        <4> QED BY <2>1, <4>1, <4>2
      <3> QED BY <3>1, <3>2, <3>3
    <2>4. TypeOK'
      BY <1>1, <2>2, <2>3 DEF TypeOK, callVars
    <2>5. Behind'
      <3>1. CASE at' = "remote" /\ at = "get" /\ i <= Len(ecs_) /\ cur' = ecs_[i] /\ i' = i
                 /\ ticked' = ticked /\ walk' = walk
        <4>1. cur' \in 1 .. Len(entries) /\ i \in DOMAIN ecs_
          BY <1>0, <3>1
        <4>2. \A t \in ticked : t < cur'
          BY <1>0, <3>1, <4>1 DEF Behind
        <4>3. ASSUME NEW k \in DOMAIN ecs_, k >= i PROVE cur' <= ecs_[k]
          <5>1. CASE k = i
            BY <1>0, <3>1, <4>1, <5>1
          <5>2. CASE k > i
            BY <1>0, <3>1, <4>1, <5>2 DEF Sorted
          <5> QED BY <1>0, <4>1, <4>3, <5>1, <5>2
        <4>4. walk # "none"
          BY <3>1 DEF Behind
        <4> QED BY <1>1, <2>2, <3>1, <4>1, <4>2, <4>3, <4>4 DEF Behind
      <3>2. CASE at' = "get" /\ at = "size" /\ i' = i /\ ticked' = ticked /\ walk' = walk
        <4>1. walk # "none"
          BY <1>2, <3>2 DEF WalkSize, WalkGet
        <4> QED BY <1>1, <3>2, <4>1 DEF Behind
      <3>3. CASE walk' = "none" /\ at' = "size" /\ ticked' = {}
        BY <3>3 DEF Behind
      <3> QED BY <2>1, <3>1, <3>2, <3>3
    <2> QED BY <1>1, <2>4, <2>5 DEF Sorted
  <1>3. CASE ResetEntry \/ Tick \/ NotDue
    <2>1. walk # "none" /\ at = "remote" /\ at' = "size" /\ i' = i + 1 /\ cur' = 0
          /\ walk' = walk /\ simulating' = simulating
      BY <1>3 DEF ResetEntry, Tick, NotDue, Goes
    <2>2. cur \in 1 .. Len(entries) /\ (\A t \in ticked : t < cur)
          /\ \A k \in DOMAIN ecs_ : k >= i => cur <= ecs_[k]
      BY <2>1 DEF Behind
    <2>3. entries' \in Seq(Record) /\ Len(entries') = Len(entries)
      <3>1. entries \in Seq(Record)
        BY DEF TypeOK, Record
      <3>2. CASE entries' = entries
        BY <3>1, <3>2
      <3>3. ASSUME NEW t \in Nat, entries' = [entries EXCEPT ![cur].next = t]
            PROVE  entries' \in Seq(Record) /\ Len(entries') = Len(entries)
        <4> DEFINE e == [entries[cur] EXCEPT !.next = t]
        <4>1. e \in Record /\ entries' = [entries EXCEPT ![cur] = e]
          BY <1>0, <2>2, <3>3 DEF Record
        <4> HIDE DEF e
        <4> QED BY <1>0, <2>2, <3>1, <4>1, ExceptSeq
      <3>4. \/ entries' = entries
            \/ entries' = [entries EXCEPT ![cur].next = 0]
            \/ entries' = [entries EXCEPT ![cur].next = entries[cur].next + entries[cur].period]
        BY <1>3 DEF ResetEntry, Tick, NotDue
      <3>5. entries[cur].next + entries[cur].period \in Nat
        BY <1>0, <2>2 DEF Record
      <3> QED BY <3>2, <3>3, <3>4, <3>5
    <2>4. ticked' \subseteq ticked \cup {cur} /\ synced' \subseteq synced \cup {cur}
      BY <1>3 DEF ResetEntry, Tick, NotDue
    <2>5. TypeOK'
      <3>1. ecs_' \in Seq(1 .. Len(entries')) /\ simTime_' \in Nat /\ quiet' \in BOOLEAN
        BY <1>1, <2>3, Zenon DEF TypeOK
      <3>2. ticked' \subseteq 1 .. Len(entries') /\ synced' \subseteq 1 .. Len(entries')
        BY <2>2, <2>3, <2>4 DEF TypeOK
      <3>3. i' \in Nat \ {0} /\ cur' \in 0 .. Len(entries') /\ at' \in {"size", "get", "remote"}
        BY <1>0, <2>1, <2>3
      <3>4. running' = running /\ alive' = alive /\ call' = call /\ j' = j
        BY <1>1 DEF callVars
      <3>5. walk' \in {"none", "reset", "update"} /\ simulating' \in BOOLEAN
        BY <2>1, Zenon DEF TypeOK
      <3> QED BY <2>3, <3>1, <3>2, <3>3, <3>4, <3>5 DEF TypeOK, Record
    <2>6. ASSUME NEW k \in DOMAIN ecs_, k >= i + 1, NEW t \in ticked \cup {cur}
          PROVE  t < ecs_[k]
      <3>1. k - 1 \in DOMAIN ecs_ /\ k - 1 >= i
        BY <1>0, <2>6
      <3>2. cur <= ecs_[k - 1] /\ ecs_[k - 1] < ecs_[k]
        BY <1>0, <2>2, <2>6, <3>1 DEF Sorted
      <3>3. ecs_[k] \in Nat /\ ecs_[k - 1] \in Nat /\ cur \in Nat /\ t \in Nat
        <4>1. \A n \in 1 .. Len(entries) : n \in Nat
          BY <1>0
        <4>2. t \in 1 .. Len(entries)
          BY <2>2 DEF TypeOK
        <4> QED BY <1>0, <2>2, <2>6, <3>1, <4>1, <4>2
      <3> QED BY <2>2, <3>2, <3>3
    <2>7. Behind'
      BY <1>1, <2>1, <2>4, <2>6 DEF Behind
    <2> QED BY <1>1, <2>5, <2>7 DEF Sorted
  <1> QED BY <1>2, <1>3

LEMMA WalkedRemove == Walked /\ RemoveFailed => Walked'
  <1> SUFFICES ASSUME Walked, RemoveFailed PROVE Walked'
    OBVIOUS
  <1> USE DEF Walked
  <1>1. walk # "none" /\ at = "remote" /\ at' = "size" /\ i' = i /\ cur' = 0
        /\ entries' = entries /\ ecs_' = Without(cur) /\ walk' = walk /\ ticked' = ticked
        /\ synced' = synced /\ simTime_' = simTime_ /\ simulating' = simulating
        /\ callVars' = callVars /\ quiet' = quiet
    BY DEF RemoveFailed
  <1>2. ecs_' \in Seq(1 .. Len(entries')) /\ Sorted' /\ Removed(ecs_', cur)
    BY <1>1, WalkedWithout, WithoutRemoves
  <1>3. TypeOK'
    <2>1. running' = running /\ alive' = alive /\ call' = call /\ j' = j
      BY <1>1 DEF callVars
    <2>2. i' \in Nat \ {0} /\ cur' \in 0 .. Len(entries') /\ at' \in {"size", "get", "remote"}
      BY <1>1, Numbers DEF TypeOK
    <2>3. simulating' \in BOOLEAN /\ quiet' \in BOOLEAN /\ walk' \in {"none", "reset", "update"}
      BY <1>1, Zenon DEF TypeOK
    <2>4. running' \in [EC -> BOOLEAN] /\ alive' \in [EC -> BOOLEAN]
          /\ call' \in [EC -> {"idle", "subscribe", "size", "get", "return"}]
          /\ j' \in [EC -> Nat \ {0}]
      BY <2>1 DEF TypeOK
    <2>5. /\ entries' \in Seq([ec : EC, period : Nat \ {0}, next : Nat]) /\ simTime_' \in Nat
          /\ synced' \subseteq 1 .. Len(entries') /\ ticked' \subseteq 1 .. Len(entries')
      BY <1>1 DEF TypeOK
    <2>6. ecs_' \in Seq(1 .. Len(entries'))
      BY <1>2
    <2> HIDE DEF Walked
    <2> QED BY <2>2, <2>3, <2>4, <2>5, <2>6, Zenon DEF TypeOK
  <1>4. ASSUME NEW k \in DOMAIN ecs_', k >= i, NEW t \in ticked PROVE t < ecs_'[k]
    <2>1. Len(ecs_') \in Nat /\ DOMAIN ecs_' = 1 .. Len(ecs_')
      BY <1>2, LenProperties
    <2>2. \E l \in DOMAIN ecs_ : l >= i /\ ecs_'[k] = ecs_[l]
      <3>1. k \in Nat /\ i \in Nat /\ k >= i /\ k + 1 >= i
        <4>1. i \in Nat
          BY DEF TypeOK
        <4>2. k \in Nat /\ k >= i
          BY <1>4, <2>1, <4>1
        <4> HIDE DEF Walked
        <4> QED BY <4>1, <4>2
      <3>2. \/ k \in DOMAIN ecs_ /\ ecs_'[k] = ecs_[k]
            \/ k + 1 \in DOMAIN ecs_ /\ ecs_'[k] = ecs_[k + 1]
        <4> HIDE DEF Walked
        <4> QED BY <1>2, <1>4, Zenon DEF Removed
      <3> HIDE DEF Walked
      <3> QED BY <3>1, <3>2, Zenon
    <2>3. cur <= ecs_'[k] /\ t < cur
      BY <1>1, <2>2 DEF Behind
    <2>4. t \in Nat /\ cur \in Nat /\ ecs_'[k] \in Nat
      <3>1. \A n \in 1 .. Len(entries) : n \in Nat
        BY Numbers
      <3>2. t \in 1 .. Len(entries) /\ cur \in 1 .. Len(entries)
        BY <1>1 DEF Behind, TypeOK
      <3>3. ecs_'[k] \in 1 .. Len(entries)
        BY <2>2, Numbers
      <3> QED BY <3>1, <3>2, <3>3
    <2> QED BY <2>3, <2>4
  <1> QED BY <1>1, <1>2, <1>3, <1>4 DEF Behind

LEMMA WalkedStep == Walked /\ [Next]_vars => Walked'
  <1> SUFFICES ASSUME Walked, [Next]_vars PROVE Walked'
    OBVIOUS
  <1>1. CASE StartSimulation \/ BeginUpdate
    BY <1>1, WalkedStart
  <1>2. CASE WalkStep
    BY <1>2, WalkedSteps, WalkedRemove DEF WalkStep
  <1>3. ASSUME NEW e \in EC, Start(e) \/ Stop(e) \/ CallStep(e) \/ Crash(e) PROVE Walked'
    BY <1>3, WalkedCalls, WalkedSubscribe DEF CallStep
  <1>4. CASE UNCHANGED vars
    BY <1>4 DEF vars, callVars, Walked, TypeOK, Sorted, Behind
  <1> QED BY <1>1, <1>2, <1>3, <1>4, Zenon DEF Next

LEMMA AlwaysWalked == Spec => []Walked
  BY InitWalked, WalkedStep, PTL DEF Spec, Safety

\* Every variable keeps its type: an index may run past the Vector, the current
\* entry is always one that was created.
THEOREM TypeCorrect == Spec => []TypeOK
  <1>1. Walked => TypeOK
    BY DEF Walked
  <1> QED BY <1>1, AlwaysWalked, PTL

\* No update ticks an entry twice, however often controllers start, stop and
\* crash while it walks.
THEOREM TickedOnce == Spec => AtMostOncePerUpdate
  <1>1. ASSUME Walked, [Next]_vars
        PROVE  [\A id \in DOMAIN entries :
                  walk = "update" /\ entries'[id] # entries[id] => id \notin ticked]_vars
    <2> SUFFICES ASSUME NEW id \in DOMAIN entries, walk = "update", entries'[id] # entries[id]
                 PROVE  id \notin ticked
      OBVIOUS
    <2>0. DOMAIN entries = 1 .. Len(entries) /\ entries \in Seq(Record)
      BY <1>1, Numbers DEF Walked, TypeOK, Record
    <2>1. Tick
      <3>1. CASE \E e \in EC : Subscribe(e)
        <4>1. PICK x \in Record : entries' = Append(entries, x)
          BY <3>1 DEF Subscribe, Record
        <4> QED BY <2>0, <4>1, AppendProperties
      <3>2. entries' # entries
        OBVIOUS
      <3> QED BY <1>1, <3>1, <3>2
              DEF Next, WalkStep, CallStep, StartSimulation, BeginUpdate, WalkSize, WalkGet,
                  ResetEntry, NotDue, RemoveFailed, Start, Stop, UnsubscribeSize,
                  UnsubscribeGet, Stopped, Crash, vars
    <2>2. id = cur
      BY <2>0, <2>1 DEF Tick
    <2>3. \A t \in ticked : t < cur
      BY <1>1, <2>1 DEF Walked, Behind, Tick
    <2>4. cur \in Nat
      BY <1>1, <2>1, <2>0, Numbers DEF Walked, TypeOK
    <2> QED BY <2>2, <2>3, <2>4
  <1> QED BY <1>1, AlwaysWalked, PTL DEF AtMostOncePerUpdate, Spec, Safety

-----------------------------------------------------------------------------
(* Quiet use: one call at a time and none during a walk, so the walks of    *)
(* unsubscribe see a Vector that stands still.                              *)

OneCall ==
  /\ \A e, f \in EC : call[e] # "idle" /\ call[f] # "idle" => e = f
  /\ walk # "none" => NoCall

\* Where e stands in start or stop tells what the Vector holds of it.
EntriesOf(e) ==
  /\ \A a, b \in Entered(e) : a = b
  /\ call[e] = "idle" /\ running[e] /\ alive[e] => Entered(e) # {}
  /\ call[e] = "idle" /\ ~running[e] => Entered(e) = {}
  /\ call[e] \in {"subscribe", "return"} => Entered(e) = {}
  /\ call[e] = "subscribe" => running[e]
  /\ call[e] \in {"idle", "subscribe"} => j[e] = 1
  /\ call[e] \in {"size", "get"} =>
       \A k \in DOMAIN ecs_ : k < j[e] => entries[ecs_[k]].ec # e
  /\ call[e] = "get" => j[e] \in DOMAIN ecs_

Kept == quiet => OneCall /\ \A e \in EC : EntriesOf(e)

\* An entry is of the same EC for good.
SameOwners ==
  /\ Len(entries) \in Nat /\ Len(entries') \in Nat /\ Len(entries) <= Len(entries')
  /\ \A id \in 1 .. Len(entries) : entries'[id].ec = entries[id].ec

LEMMA Owners == Walked /\ [Next]_vars => SameOwners
  <1> SUFFICES ASSUME Walked, [Next]_vars PROVE SameOwners
    OBVIOUS
  <1> USE DEF Walked
  <1>0. /\ entries \in Seq(Record) /\ Len(entries) \in Nat
        /\ DOMAIN entries = 1 .. Len(entries)
        /\ \A id \in 1 .. Len(entries) : entries[id] \in Record
    BY Numbers DEF TypeOK, Record
  <1>1. CASE entries' = entries
    BY <1>0, <1>1 DEF SameOwners
  <1>2. CASE \E e \in EC : Subscribe(e)
    <2>1. PICK x \in Record : entries' = Append(entries, x)
      BY <1>2 DEF Subscribe, Record
    <2> QED BY <1>0, <2>1, AppendProperties DEF SameOwners
  <1>3. CASE ResetEntry \/ Tick
    <2>1. PICK n \in Nat : entries' = [entries EXCEPT ![cur].next = n] /\ cur \in 1 .. Len(entries)
      <3>1. at = "remote" /\ walk # "none"
        BY <1>3 DEF ResetEntry, Tick
      <3>2. cur \in 1 .. Len(entries)
        BY <3>1 DEF Behind
      <3>3. entries[cur].next + entries[cur].period \in Nat
        BY <1>0, <3>2 DEF Record
      <3> QED BY <1>3, <3>2, <3>3 DEF ResetEntry, Tick
    <2> DEFINE x == [entries[cur] EXCEPT !.next = n]
    <2>2. x \in Record /\ x.ec = entries[cur].ec /\ entries' = [entries EXCEPT ![cur] = x]
      BY <1>0, <2>1 DEF Record
    <2> HIDE DEF x
    <2>3. Len(entries') = Len(entries)
      BY <1>0, <2>1, <2>2, ExceptSeq
    <2>4. \A id \in 1 .. Len(entries) : entries'[id] = IF id = cur THEN x ELSE entries[id]
      BY <1>0, <2>2
    <2> QED BY <1>0, <2>2, <2>3, <2>4 DEF SameOwners
  <1>4. \/ entries' = entries \/ ResetEntry \/ Tick \/ \E e \in EC : Subscribe(e)
    BY DEF Next, WalkStep, CallStep, StartSimulation, BeginUpdate, WalkSize, WalkGet,
           NotDue, RemoveFailed, Start, Stop, UnsubscribeSize, UnsubscribeGet, Stopped,
           Crash, vars
  <1> QED BY <1>1, <1>2, <1>3, <1>4

\* What becomes of the entries of an EC.
LEMMA EnteredSame ==
  ASSUME Walked, SameOwners, ecs_' = ecs_, NEW e
  PROVE  Entered(e)' = Entered(e)
  <1>1. \A id \in Listed : id \in 1 .. Len(entries)
    BY Numbers DEF Listed, Walked
  <1>2. Listed' = Listed
    BY DEF Listed
  <1> QED BY <1>1, <1>2 DEF Entered, SameOwners

LEMMA EnteredWithout ==
  ASSUME Walked, SameOwners, NEW id, ecs_' = Without(id), NEW e
  PROVE  Entered(e)' = Entered(e) \ {id}
  <1>1. \A x \in Listed : x \in 1 .. Len(entries)
    BY Numbers DEF Listed, Walked
  <1>2. Listed' = Listed \ {id}
    <2>1. TypeOK /\ Sorted
      BY DEF Walked
    <2>2. Removed(Without(id), id)
      BY <2>1, WithoutRemoves
    <2> QED BY <2>2 DEF Listed, Removed
  <1> QED BY <1>1, <1>2 DEF Entered, SameOwners

LEMMA EnteredSubscribe ==
  ASSUME Walked, NEW f \in EC, Subscribe(f), SameOwners, NEW e
  PROVE  Entered(e)' = IF e = f THEN Entered(e) \cup {Len(entries) + 1} ELSE Entered(e)
  <1>1. /\ \A x \in Listed : x \in 1 .. Len(entries)
        /\ Len(entries) \in Nat /\ entries \in Seq(Record) /\ ecs_ \in Seq(Nat)
    <2>1. \A x \in Listed : x \in 1 .. Len(entries)
      BY Numbers DEF Listed, Walked
    <2>2. Len(entries) \in Nat /\ entries \in Seq(Record)
      BY Numbers DEF Walked, TypeOK, Record
    <2>3. ecs_ \in Seq(Nat)
      <3>1. Len(ecs_) \in Nat /\ DOMAIN ecs_ = 1 .. Len(ecs_)
            /\ \A k \in DOMAIN ecs_ : ecs_[k] \in Nat
        BY <2>2, Numbers DEF Walked
      <3>2. ecs_ \in [1 .. Len(ecs_) -> Nat]
        BY <3>1, ElementOfSeq, LenProperties DEF Walked, TypeOK
      <3> QED BY <3>1, <3>2, IsASeq
    <2> QED BY <2>1, <2>2, <2>3
  <1> DEFINE n == Len(entries) + 1
             x == [ec |-> f, period |-> Period[f], next |-> 0]
  <1>2. x \in Record /\ x.ec = f /\ n \in Nat
    BY <1>1 DEF Record
  <1>3. entries' = Append(entries, x) /\ ecs_' = Append(ecs_, n)
    BY DEF Subscribe
  <1> HIDE DEF x
  <1>4. entries'[n] = x
    BY <1>1, <1>2, <1>3, AppendProperties
  <1>5. Listed' = Listed \cup {n}
    <2>1. Len(ecs_) \in Nat /\ DOMAIN ecs_ = 1 .. Len(ecs_)
      BY <1>1, LenProperties
    <2>2. /\ DOMAIN (ecs_') = 1 .. Len(ecs_) + 1
          /\ ecs_'[Len(ecs_) + 1] = n
          /\ \A k \in 1 .. Len(ecs_) : ecs_'[k] = ecs_[k]
      BY <1>1, <1>2, <1>3, <2>1, AppendProperties
    <2> HIDE DEF n
    <2>3. ASSUME NEW y \in Listed' PROVE y \in Listed \cup {n}
      BY <2>1, <2>2, <2>3 DEF Listed
    <2>4. ASSUME NEW y \in Listed PROVE y \in Listed'
      BY <2>1, <2>2, <2>4 DEF Listed
    <2>5. n \in Listed'
      BY <2>1, <2>2 DEF Listed
    <2> QED BY <2>3, <2>4, <2>5
  <1>6. \A y \in Listed : entries'[y].ec = entries[y].ec
    BY <1>1 DEF SameOwners
  <1> HIDE DEF n
  <1>7. entries'[n].ec = f
    BY <1>2, <1>4
  <1>8. Entered(e)' = {y \in Listed \cup {n} : entries'[y].ec = e}
    BY <1>5 DEF Entered
  <1> HIDE DEF Entered
  <1>9. Entered(e) = {y \in Listed : entries[y].ec = e}
    BY DEF Entered
  <1>10. Entered(e)' = IF e = f THEN Entered(e) \cup {n} ELSE Entered(e)
    BY <1>6, <1>7, <1>8, <1>9
  <1> QED BY <1>10 DEF n

\* Steps that leave calls and entries of the Vector alone.
LEMMA KeptByWalks ==
  ASSUME Walked, Kept, SameOwners, quiet, quiet' = quiet, callVars' = callVars,
         ecs_' = ecs_, walk' # "none" => walk # "none" \/ NoCall
  PROVE  Kept'
  <1>1. call' = call /\ running' = running /\ alive' = alive /\ j' = j
    BY DEF callVars
  <1>2. OneCall'
    BY <1>1 DEF Kept, OneCall, NoCall
  <1>3. ASSUME NEW e \in EC PROVE EntriesOf(e)'
    <2>1. Entered(e)' = Entered(e)
      BY EnteredSame
    <2>2. \A k \in DOMAIN ecs_ : entries'[ecs_[k]].ec = entries[ecs_[k]].ec
      BY Numbers DEF Walked, SameOwners
    <2>3. EntriesOf(e)
      BY DEF Kept
    <2> QED BY <1>1, <2>1, <2>2, <2>3 DEF EntriesOf
  <1> QED BY <1>2, <1>3 DEF Kept

\* An entry that a walk removes is one of an EC that has crashed.
LEMMA KeptByRemove ==
  ASSUME Walked, Kept, SameOwners, quiet, RemoveFailed
  PROVE  Kept'
  <1>1. /\ call' = call /\ running' = running /\ alive' = alive /\ j' = j /\ quiet' = quiet
        /\ walk' = walk /\ walk # "none" /\ ecs_' = Without(cur) /\ ~CurAlive
    BY DEF RemoveFailed, callVars
  <1>2. NoCall
    BY <1>1 DEF Kept, OneCall
  <1>3. OneCall'
    BY <1>1 DEF Kept, OneCall, NoCall
  <1>4. ASSUME NEW e \in EC PROVE EntriesOf(e)'
    <2>1. Entered(e)' = Entered(e) \ {cur}
      BY <1>1, EnteredWithout
    <2>2. alive[e] => cur \notin Entered(e)
      BY <1>1 DEF CurAlive, Entered
    <2>3. EntriesOf(e) /\ call[e] = "idle"
      BY <1>2 DEF Kept, NoCall
    <2> QED BY <1>1, <2>1, <2>2, <2>3 DEF EntriesOf
  <1> QED BY <1>3, <1>4 DEF Kept

\* The ECs that are in no call, while another one is.
LEMMA KeptOthers ==
  ASSUME Kept, SameOwners, quiet, quiet' = quiet, NEW e \in EC,
         call[e] # "idle" \/ NoCall,
         walk = "none" \/ ~(call'[e] # "idle"), walk' = walk,
         \A f \in EC \ {e} : /\ call'[f] = call[f] /\ running'[f] = running[f]
                             /\ alive'[f] = alive[f] /\ j'[f] = j[f]
                             /\ Entered(f)' = Entered(f)
  PROVE  EntriesOf(e)' => Kept'
  <1> SUFFICES ASSUME EntriesOf(e)' PROVE Kept'
    OBVIOUS
  <1>1. \A f \in EC \ {e} : call[f] = "idle"
    BY DEF Kept, OneCall, NoCall
  <1>2. OneCall'
    BY <1>1 DEF Kept, OneCall, NoCall
  <1>3. ASSUME NEW f \in EC \ {e} PROVE EntriesOf(f)'
    <2>1. EntriesOf(f)
      BY DEF Kept
    <2> QED BY <1>1, <2>1 DEF EntriesOf
  <1> QED BY <1>2, <1>3 DEF Kept

\* Calls that leave the Vector alone.
LEMMA KeptByCalls ==
  ASSUME Walked, Kept, SameOwners, quiet, NEW e \in EC,
         Start(e) \/ Stop(e) \/ UnsubscribeSize(e) \/ Stopped(e)
  PROVE  Kept'
  <1>0. /\ call \in [EC -> {"idle", "subscribe", "size", "get", "return"}]
        /\ running \in [EC -> BOOLEAN] /\ alive \in [EC -> BOOLEAN] /\ j \in [EC -> Nat \ {0}]
        /\ Len(ecs_) \in Nat /\ DOMAIN ecs_ = 1 .. Len(ecs_)
    BY Numbers DEF Walked, TypeOK
  <1>1. /\ quiet' = quiet /\ walk' = walk /\ ecs_' = ecs_ /\ entries' = entries /\ alive' = alive
    BY DEF Start, Stop, UnsubscribeSize, Stopped, walkVars
  <1>2. \A f \in EC : Entered(f)' = Entered(f)
    BY <1>1, EnteredSame
  <1>3. \A f \in EC \ {e} : call'[f] = call[f] /\ running'[f] = running[f] /\ j'[f] = j[f]
    BY <1>0 DEF Start, Stop, UnsubscribeSize, Stopped
  <1>4. (call[e] # "idle" \/ NoCall) /\ walk = "none"
    BY DEF Start, Stop, UnsubscribeSize, Stopped, MayCall, Kept, OneCall, NoCall
  <1>5. EntriesOf(e)
    BY DEF Kept
  <1>6. EntriesOf(e)'
    <2>1. CASE Start(e)
      <3>1. /\ call[e] = "idle" /\ ~running[e] /\ call'[e] = "subscribe" /\ running'[e]
            /\ j' = j
        BY <1>0, <2>1 DEF Start, MayCall
      <3> QED BY <1>1, <1>2, <1>5, <3>1 DEF EntriesOf
    <2>2. CASE Stop(e)
      <3>1. call[e] = "idle" /\ running[e] /\ call'[e] = "size" /\ running' = running /\ j' = j
        BY <1>0, <2>2 DEF Stop, MayCall
      <3>2. j[e] = 1 /\ \A k \in DOMAIN ecs_ : ~(k < j[e])
        BY <1>0, <1>5, <3>1 DEF EntriesOf
      <3> QED BY <1>1, <1>2, <1>5, <3>1, <3>2 DEF EntriesOf
    <2>3. CASE UnsubscribeSize(e)
      <3>1. /\ call[e] = "size" /\ running' = running /\ j' = j
            /\ call'[e] = IF j[e] <= Len(ecs_) THEN "get" ELSE "return"
        BY <1>0, <2>3 DEF UnsubscribeSize
      <3>2. CASE j[e] <= Len(ecs_)
        <4>1. j[e] \in DOMAIN ecs_
          BY <1>0, <3>2
        <4> QED BY <1>1, <1>2, <1>5, <3>1, <3>2, <4>1 DEF EntriesOf
      <3>3. CASE ~(j[e] <= Len(ecs_))
        <4>1. \A k \in DOMAIN ecs_ : k < j[e]
          BY <1>0, <3>3
        <4>2. Entered(e) = {}
          BY <1>5, <3>1, <4>1 DEF EntriesOf, Entered, Listed
        <4> QED BY <1>1, <1>2, <1>5, <3>1, <3>3, <4>2 DEF EntriesOf
      <3> QED BY <3>2, <3>3
    <2>4. CASE Stopped(e)
      <3>1. call[e] = "return" /\ call'[e] = "idle" /\ ~running'[e] /\ j'[e] = 1
        BY <1>0, <2>4 DEF Stopped
      <3> QED BY <1>1, <1>2, <1>5, <3>1 DEF EntriesOf
    <2> QED BY <2>1, <2>2, <2>3, <2>4
  <1> QED BY <1>1, <1>2, <1>3, <1>4, <1>6, KeptOthers

LEMMA KeptBySubscribe ==
  ASSUME Walked, Kept, SameOwners, quiet, NEW e \in EC, Subscribe(e)
  PROVE  Kept'
  <1>0. /\ call \in [EC -> {"idle", "subscribe", "size", "get", "return"}]
        /\ Len(entries) \in Nat
    BY Numbers DEF Walked, TypeOK
  <1>1. /\ quiet' = quiet /\ walk' = walk /\ running' = running /\ alive' = alive /\ j' = j
        /\ call[e] = "subscribe" /\ call'[e] = "idle"
        /\ \A f \in EC \ {e} : call'[f] = call[f]
    BY <1>0 DEF Subscribe, walkVars
  <1>2. \A f \in EC : Entered(f)' = IF f = e THEN Entered(f) \cup {Len(entries) + 1} ELSE Entered(f)
    BY EnteredSubscribe
  <1>3. walk = "none"
    BY <1>1 DEF Kept, OneCall, NoCall
  <1>4. EntriesOf(e)
    BY DEF Kept
  <1>5. EntriesOf(e)'
    BY <1>1, <1>2, <1>4 DEF EntriesOf
  <1> QED BY <1>1, <1>2, <1>3, <1>5, KeptOthers

\* get finds the Vector as size has left it, and the entry it removes is the only
\* one.
LEMMA KeptByGet ==
  ASSUME Walked, Kept, SameOwners, quiet, NEW e \in EC, UnsubscribeGet(e)
  PROVE  Kept'
  <1>0. /\ call \in [EC -> {"idle", "subscribe", "size", "get", "return"}]
        /\ j \in [EC -> Nat \ {0}]
        /\ Len(ecs_) \in Nat /\ DOMAIN ecs_ = 1 .. Len(ecs_)
    BY Numbers DEF Walked, TypeOK
  <1>1. /\ quiet' = quiet /\ walk' = walk /\ running' = running /\ alive' = alive
        /\ entries' = entries /\ call[e] = "get"
    BY DEF UnsubscribeGet, walkVars
  <1>2. EntriesOf(e) /\ walk = "none"
    BY <1>1 DEF Kept, OneCall, NoCall
  <1>3. j[e] \in DOMAIN ecs_
    BY <1>1, <1>2 DEF EntriesOf
  <1> DEFINE id == ecs_[j[e]]
  <1>4. id \in Listed
    BY <1>3 DEF Listed
  <1>5. CASE entries[id].ec = e
    <2>1. ecs_' = Without(id) /\ j' = j /\ call'[e] = "return"
          /\ \A f \in EC \ {e} : call'[f] = call[f]
      BY <1>0, <1>3, <1>5 DEF UnsubscribeGet
    <2>2. \A f \in EC : Entered(f)' = Entered(f) \ {id}
      <3> HIDE DEF id
      <3> QED BY <2>1, EnteredWithout
    <2>3. \A f \in EC \ {e} : Entered(f)' = Entered(f)
      BY <1>5, <2>2 DEF Entered
    <2>4. id \in Entered(e)
      BY <1>4, <1>5 DEF Entered
    <2> HIDE DEF id
    <2>5. Entered(e)' = {}
      BY <1>2, <2>2, <2>4 DEF EntriesOf
    <2>6. EntriesOf(e)'
      BY <2>1, <2>5 DEF EntriesOf
    <2> QED BY <1>1, <1>2, <2>1, <2>3, <2>6, KeptOthers
  <1>6. CASE entries[id].ec # e
    <2>1. /\ ecs_' = ecs_ /\ j'[e] = j[e] + 1 /\ call'[e] = "size"
          /\ \A f \in EC \ {e} : call'[f] = call[f] /\ j'[f] = j[f]
      BY <1>0, <1>3, <1>6 DEF UnsubscribeGet
    <2>2. \A f \in EC : Entered(f)' = Entered(f)
      BY <2>1, EnteredSame
    <2>3. ASSUME NEW k \in DOMAIN ecs_, k < j[e] + 1 PROVE entries[ecs_[k]].ec # e
      <3>1. k < j[e] \/ k = j[e]
        BY <1>0, <2>3
      <3> QED BY <1>1, <1>2, <1>6, <3>1 DEF EntriesOf
    <2>4. EntriesOf(e)'
      BY <1>1, <1>2, <2>1, <2>2, <2>3 DEF EntriesOf
    <2> QED BY <1>1, <1>2, <2>1, <2>2, <2>4, KeptOthers
  <1> QED BY <1>5, <1>6

LEMMA KeptByCrash ==
  ASSUME Walked, Kept, SameOwners, quiet, NEW e \in EC, Crash(e)
  PROVE  Kept'
  <1>1. /\ quiet' = quiet /\ walk' = walk /\ running' = running /\ call' = call /\ j' = j
        /\ entries' = entries /\ ecs_' = ecs_
        /\ \A f \in EC : alive'[f] => alive[f]
    BY DEF Crash, walkVars, Walked, TypeOK
  <1>2. OneCall'
    BY <1>1 DEF Kept, OneCall, NoCall
  <1>3. ASSUME NEW f \in EC PROVE EntriesOf(f)'
    <2>1. EntriesOf(f) /\ Entered(f)' = Entered(f)
      BY <1>1, EnteredSame DEF Kept
    <2> QED BY <1>1, <1>3, <2>1 DEF EntriesOf
  <1> QED BY <1>2, <1>3 DEF Kept

LEMMA KeptStep == Walked /\ Kept /\ [Next]_vars => Kept'
  <1> SUFFICES ASSUME Walked, Kept, [Next]_vars PROVE Kept'
    OBVIOUS
  <1>1. SameOwners
    BY Owners
  <1>2. quiet' = quiet
    BY DEF Next, WalkStep, CallStep, StartSimulation, BeginUpdate, WalkSize, WalkGet, Tick,
           NotDue, ResetEntry, RemoveFailed, Start, Stop, Subscribe, UnsubscribeSize,
           UnsubscribeGet, Stopped, Crash, vars
  <1>3. CASE ~quiet
    BY <1>2, <1>3 DEF Kept
  <1>4. CASE quiet
    <2>1. CASE \/ StartSimulation \/ BeginUpdate \/ WalkSize \/ WalkGet \/ ResetEntry \/ Tick
               \/ NotDue \/ UNCHANGED vars
      <3>1. callVars' = callVars /\ ecs_' = ecs_
        BY <2>1 DEF StartSimulation, BeginUpdate, WalkSize, WalkGet, ResetEntry, Tick, NotDue,
                    vars, callVars
      <3>2. walk' # "none" => walk # "none" \/ NoCall
        BY <1>4, <2>1 DEF StartSimulation, BeginUpdate, WalkSize, WalkGet, ResetEntry, Tick,
                          NotDue, vars, MayWalk
      <3> QED BY <1>1, <1>2, <1>4, <3>1, <3>2, KeptByWalks
    <2>2. CASE RemoveFailed
      BY <1>1, <1>4, <2>2, KeptByRemove
    <2>3. ASSUME NEW e \in EC, Start(e) \/ Stop(e) \/ CallStep(e) \/ Crash(e) PROVE Kept'
      BY <1>1, <1>4, <2>3, KeptByCalls, KeptBySubscribe, KeptByGet, KeptByCrash DEF CallStep
    <2> QED BY <2>1, <2>2, <2>3, Zenon DEF Next, WalkStep
  <1> QED BY <1>3, <1>4

LEMMA InitKept == Init => Kept
  <1> SUFFICES ASSUME Init PROVE Kept
    OBVIOUS
  <1>1. Listed = {}
    BY DEF Init, Listed
  <1> QED BY <1>1 DEF Init, Kept, OneCall, EntriesOf, Entered, NoCall

LEMMA AlwaysKept == Spec => [](Walked /\ Kept)
  BY InitWalked, WalkedStep, InitKept, KeptStep, PTL DEF Spec, Safety

\* While starts and stops keep clear of each other and of the walks, the Vector
\* holds one entry of each running EC, and none of a stopped one.
THEOREM OneEntryEach == Spec => []OneEntry
  <1>1. Kept => OneEntry
    <2> SUFFICES ASSUME Kept, quiet, NEW e \in EC, call[e] = "idle", alive[e]
                 PROVE  Cardinality(Entered(e)) = IF running[e] THEN 1 ELSE 0
      BY DEF OneEntry
    <2>1. EntriesOf(e)
      BY DEF Kept
    <2>2. CASE running[e]
      <3>1. PICK id \in Entered(e) : TRUE
        BY <2>1, <2>2 DEF EntriesOf
      <3>2. Entered(e) = {id}
        BY <2>1, <3>1 DEF EntriesOf
      <3> QED BY <2>2, <3>2, FS_Singleton
    <2>3. CASE ~running[e]
      <3>1. Entered(e) = {}
        BY <2>1, <2>3 DEF EntriesOf
      <3> QED BY <2>3, <3>1, FS_EmptySet
    <2> QED BY <2>2, <2>3
  <1> QED BY <1>1, AlwaysKept, PTL

-----------------------------------------------------------------------------
(* An update in quiet use: what lies behind it has been ticked or is not due. *)

Sent ==
  quiet /\ walk = "update" =>
    /\ \A k \in DOMAIN ecs_ : k < i => ecs_[k] \in ticked \/ entries[ecs_[k]].next > simTime_
    /\ at \in {"get", "remote"} => i \in DOMAIN ecs_
    /\ at = "remote" => cur = ecs_[i]

\* In quiet use, no call is going while a walk is.
LEMMA NoCallThen ==
  ASSUME Kept, quiet, walk # "none"
  PROVE  /\ NoCall
         /\ \A e \in EC : ~(Start(e) \/ Stop(e) \/ CallStep(e))
  BY DEF Kept, OneCall, NoCall, Start, Stop, MayCall, CallStep, Subscribe, UnsubscribeSize,
         UnsubscribeGet, Stopped

LEMMA SentByWalk ==
  ASSUME Walked, Sent, quiet, walk = "update", walk' = "update", quiet' = quiet,
         WalkSize \/ WalkGet \/ Tick \/ NotDue
  PROVE  Sent'
  <1>0. /\ Len(ecs_) \in Nat /\ DOMAIN ecs_ = 1 .. Len(ecs_) /\ i \in Nat \ {0}
        /\ Len(entries) \in Nat /\ entries \in Seq(Record)
        /\ DOMAIN entries = 1 .. Len(entries)
        /\ \A k \in DOMAIN ecs_ : ecs_[k] \in 1 .. Len(entries)
        /\ \A id \in 1 .. Len(entries) : entries[id] \in Record
    BY Numbers DEF Walked, TypeOK, Record
  <1>1. ecs_' = ecs_ /\ simTime_' = simTime_
    BY DEF WalkSize, WalkGet, Tick, NotDue
  <1>2. CASE WalkSize \/ WalkGet
    <2>1. /\ entries' = entries /\ ticked' = ticked /\ i' = i /\ i \in DOMAIN ecs_
          /\ \/ at' = "get"
             \/ at' = "remote" /\ cur' = ecs_[i]
      BY <1>0, <1>2 DEF WalkSize, WalkGet, WalkEnds
    <2> QED BY <1>1, <2>1 DEF Sent
  <1>3. CASE Tick
    <2>1. /\ at = "remote" /\ at' = "size" /\ i' = i + 1 /\ ticked' = ticked \cup {cur}
          /\ entries' = [entries EXCEPT ![cur].next = @ + entries[cur].period]
      BY <1>3 DEF Tick, Goes
    <2>2. cur = ecs_[i] /\ i \in DOMAIN ecs_
      BY <2>1 DEF Sent
    <2>3. ASSUME NEW k \in DOMAIN ecs_, k < i + 1
          PROVE  ecs_[k] \in ticked' \/ entries'[ecs_[k]].next > simTime_
      <3>1. CASE ecs_[k] = cur
        BY <2>1, <3>1
      <3>2. CASE ecs_[k] # cur
        <4>1. k < i
          BY <1>0, <2>2, <2>3, <3>2
        <4>2. entries'[ecs_[k]] = entries[ecs_[k]]
          BY <1>0, <2>1, <3>2
        <4> QED BY <2>1, <4>1, <4>2 DEF Sent
      <3> QED BY <3>1, <3>2
    <2> QED BY <1>1, <2>1, <2>3 DEF Sent
  <1>4. CASE NotDue
    <2>1. /\ at = "remote" /\ at' = "size" /\ i' = i + 1 /\ ticked' = ticked
          /\ entries' = entries /\ ~Due
      BY <1>4 DEF NotDue, Goes
    <2>2. cur = ecs_[i] /\ i \in DOMAIN ecs_
      BY <2>1 DEF Sent
    <2>3. entries[cur].next > simTime_
      <3>1. entries[cur].next \in Nat /\ simTime_ \in Nat
        BY <1>0, <2>2 DEF Walked, TypeOK, Record
      <3> QED BY <2>1, <3>1 DEF Due
    <2>4. ASSUME NEW k \in DOMAIN ecs_, k < i + 1 PROVE k < i \/ k = i
      BY <1>0, <2>4
    <2> QED BY <1>1, <2>1, <2>2, <2>3, <2>4 DEF Sent
  <1> QED BY <1>2, <1>3, <1>4

LEMMA SentByRemove ==
  ASSUME Walked, Sent, quiet, walk = "update", RemoveFailed
  PROVE  Sent'
  <1>0. /\ Len(ecs_) \in Nat /\ DOMAIN ecs_ = 1 .. Len(ecs_) /\ i \in Nat \ {0}
    BY Numbers DEF Walked, TypeOK
  <1>1. /\ walk' = walk /\ at' = "size" /\ at = "remote" /\ i' = i /\ entries' = entries
        /\ ticked' = ticked /\ simTime_' = simTime_ /\ quiet' = quiet /\ ecs_' = Without(cur)
    BY DEF RemoveFailed
  <1>2. cur = ecs_[i] /\ i \in DOMAIN ecs_
    BY <1>1 DEF Sent
  <1>3. Removed(ecs_', cur)
    BY <1>1, WithoutRemoves DEF Walked
  <1>4. ASSUME NEW k \in DOMAIN ecs_', k < i PROVE k \in DOMAIN ecs_ /\ ecs_'[k] = ecs_[k]
    <2>1. DOMAIN ecs_' = 1 .. Len(ecs_') /\ Len(ecs_') \in Nat
      BY <1>3, LenProperties DEF Removed
    <2>2. k \in 1 .. i - 1 /\ k \in DOMAIN ecs_
      BY <1>0, <1>2, <1>4, <2>1
    <2> QED BY <1>2, <1>3, <2>2 DEF Removed
  <1> QED BY <1>1, <1>4 DEF Sent

LEMMA SentStep == Walked /\ Kept /\ Sent /\ [Next]_vars => Sent'
  <1> SUFFICES ASSUME Walked, Kept, Sent, [Next]_vars, quiet', walk' = "update" PROVE Sent'
    BY DEF Sent
  <1>1. quiet' = quiet
    BY DEF Next, WalkStep, CallStep, StartSimulation, BeginUpdate, WalkSize, WalkGet, Tick,
           NotDue, ResetEntry, RemoveFailed, Start, Stop, Subscribe, UnsubscribeSize,
           UnsubscribeGet, Stopped, Crash, vars
  <1>2. CASE BeginUpdate
    <2>1. i' = 1 /\ at' = "size" /\ ecs_' = ecs_
      BY <1>2 DEF BeginUpdate
    <2>2. \A k \in DOMAIN ecs_ : ~(k < 1)
      BY Numbers DEF Walked
    <2> QED BY <2>1, <2>2 DEF Sent
  <1>3. CASE ~BeginUpdate
    <2>1. walk = "update"
      BY <1>3 DEF Next, WalkStep, CallStep, StartSimulation, WalkSize, WalkGet, WalkEnds,
           Tick, NotDue, ResetEntry, RemoveFailed, Start, Stop, Subscribe, UnsubscribeSize,
           UnsubscribeGet, Stopped, Crash, vars, walkVars
    <2>2. CASE RemoveFailed
      BY <1>1, <2>1, <2>2, SentByRemove
    <2>3. CASE WalkSize \/ WalkGet \/ Tick \/ NotDue
      BY <1>1, <2>1, <2>3, SentByWalk
    <2>4. CASE UNCHANGED vars \/ \E e \in EC : Crash(e)
      BY <2>4 DEF Sent, vars, Crash, walkVars
    <2>5. ~(\E e \in EC : Start(e) \/ Stop(e) \/ CallStep(e))
      BY <1>1, <2>1, NoCallThen
    <2>6. ~StartSimulation /\ ~ResetEntry
      BY <2>1 DEF StartSimulation, MayWalk, ResetEntry
    <2> QED BY <1>3, <2>2, <2>3, <2>4, <2>5, <2>6, Zenon DEF Next, WalkStep
  <1> QED BY <1>2, <1>3

\* An update that returns has ticked every entry that was due, although it has
\* removed others on the way.
THEOREM DueAreSent == Spec => SentWhenDue
  <1>1. Init => Sent
    BY DEF Init, Sent
  <1>2. ASSUME Walked, Kept, Sent, [Next]_vars
        PROVE  [quiet /\ walk = "update" /\ walk' = "none" =>
                  \A id \in Listed : id \in ticked \/ entries[id].next > simTime_]_vars
    <2> SUFFICES ASSUME quiet, walk = "update", walk' = "none", NEW id \in Listed
                 PROVE  id \in ticked \/ entries[id].next > simTime_
      OBVIOUS
    <2>1. WalkSize \/ WalkGet
      BY <1>2 DEF Next, WalkStep, CallStep, StartSimulation, BeginUpdate, Tick, NotDue,
           ResetEntry, RemoveFailed, Start, Stop, Subscribe, UnsubscribeSize,
           UnsubscribeGet, Stopped, Crash, vars, walkVars
    <2>2. Len(ecs_) \in Nat /\ DOMAIN ecs_ = 1 .. Len(ecs_) /\ i \in Nat \ {0}
      BY <1>2, Numbers DEF Walked, TypeOK
    <2>3. WalkSize /\ ~(i <= Len(ecs_))
      <3>1. ASSUME WalkGet PROVE FALSE
        <4>1. at = "get" /\ (i <= Len(ecs_) => walk' = walk)
          BY <3>1 DEF WalkGet
        <4>2. i \in DOMAIN ecs_
          BY <1>2, <4>1 DEF Sent
        <4> QED BY <2>2, <4>1, <4>2
      <3>2. WalkSize /\ (i <= Len(ecs_) => walk' = walk)
        BY <2>1, <3>1 DEF WalkSize
      <3> QED BY <3>2
    <2>4. PICK k \in DOMAIN ecs_ : ecs_[k] = id
      BY DEF Listed
    <2>5. k < i
      BY <2>2, <2>3
    <2> QED BY <1>2, <2>4, <2>5 DEF Sent
  <1>3. Spec => [](Walked /\ Kept /\ Sent)
    BY <1>1, InitWalked, WalkedStep, InitKept, KeptStep, SentStep, PTL DEF Spec, Safety
  <1> QED BY <1>2, <1>3, PTL DEF SentWhenDue, Spec, Safety

-----------------------------------------------------------------------------
(* The schedule: c ticks at time t, where c counts the multiples of the      *)
(* period up to t, but at most one for each step so far.                     *)

Count(t, p) == Least(t \div StepTime, t \div p + 1)

Exact(id, t) == entries[id].next = entries[id].period * Count(t, entries[id].period)

LEMMA Quotient ==
  ASSUME NEW t \in Nat, NEW p \in Nat \ {0}
  PROVE  t \div p \in Nat /\ p * (t \div p) <= t /\ t < p * (t \div p) + p
  OBVIOUS

LEMMA QuotientIs ==
  ASSUME NEW t \in Nat, NEW p \in Nat \ {0}, NEW q \in Nat, p * q <= t, t < p * q + p
  PROVE  t \div p = q
  OBVIOUS

LEMMA Multiples ==
  ASSUME NEW p \in Nat \ {0}, NEW a \in Nat, NEW b \in Nat
  PROVE  (a < b => p * a + p <= p * b) /\ (a <= b => p * a <= p * b)
  OBVIOUS

LEMMA CountIs ==
  ASSUME NEW t \in Nat, NEW p \in Nat \ {0}
  PROVE  /\ Count(t, p) \in Nat
         /\ Count(t, p) <= t \div StepTime /\ Count(t, p) <= t \div p + 1
         /\ Count(t, p) = t \div StepTime \/ Count(t, p) = t \div p + 1
         /\ Count(0, p) = 0
  <1>1. t \div StepTime \in Nat /\ t \div p \in Nat
    BY Quotient
  <1>2. 0 \div StepTime = 0 /\ 0 \div p = 0
    BY QuotientIs
  <1> QED BY <1>1, <1>2 DEF Count, Least

\* One step later, an entry is due exactly if its count goes up.
LEMMA CountStep ==
  ASSUME NEW s \in Nat, NEW t \in Nat, t = StepTime * s, NEW p \in Nat \ {0}
  PROVE  /\ t + StepTime >= p * Count(t, p) => Count(t + StepTime, p) = Count(t, p) + 1
         /\ t + StepTime < p * Count(t, p) => Count(t + StepTime, p) = Count(t, p)
  <1> DEFINE S == StepTime
             u == t + S
             c == Count(t, p)
             q == t \div p
             r == u \div p
  <1>1. S \in Nat \ {0} /\ u \in Nat /\ q \in Nat /\ r \in Nat /\ c \in Nat
    <2>1. S \in Nat \ {0} /\ u \in Nat
      OBVIOUS
    <2>2. q \in Nat /\ c \in Nat
      BY Quotient, CountIs
    <2> HIDE DEF u
    <2>3. r \in Nat
      BY <2>1, Quotient
    <2> QED BY <2>1, <2>2, <2>3
  <1>2. t \div S = s /\ u \div S = s + 1
    <2>1. S * (s + 1) = u /\ S * s <= t /\ t < S * s + S /\ u < S * (s + 1) + S
      BY <1>1
    <2>2. t \div S = s
      BY <1>1, <2>1, QuotientIs
    <2>3. PICK n \in Nat : n = s + 1
      OBVIOUS
    <2>4. S * n <= u /\ u < S * n + S
      BY <1>1, <2>1, <2>3
    <2> HIDE DEF u, S
    <2>5. u \div S = n
      BY <1>1, <2>4, QuotientIs
    <2> QED BY <2>2, <2>3, <2>5
  <1>3. /\ p * q <= t /\ t < p * q + p /\ p * r <= u /\ u < p * r + p
    BY <1>1, Quotient
  <1>4. /\ c <= s /\ c <= q + 1 /\ (c = s \/ c = q + 1)
        /\ Count(u, p) = IF s + 1 < r + 1 THEN s + 1 ELSE r + 1
    BY <1>1, <1>2 DEF Count, Least
  <1> HIDE DEF S, u, c, q, r
  <1>5. u = t + S
    BY DEF u, S
  <1>6. q <= r
    <2>1. r < q => p * r + p <= p * q
      BY <1>1, Multiples
    <2>2. p * r \in Nat /\ p * q \in Nat
      BY <1>1
    <2> QED BY <1>1, <1>3, <1>5, <2>1, <2>2
  <1>7. ASSUME u >= p * c PROVE Count(u, p) = c + 1
    <2>1. c <= r
      <3>1. r < c => p * r + p <= p * c
        BY <1>1, Multiples
      <3>2. p * r \in Nat /\ p * c \in Nat
        BY <1>1
      <3> QED BY <1>1, <1>3, <1>7, <3>1, <3>2
    <2>2. CASE c = s
      BY <1>1, <1>4, <2>1, <2>2
    <2>3. CASE c = q + 1 /\ c < s
      <3>1. S <= p
        \* With longer steps than periods, each step ticks: c = s.
        <4> SUFFICES ASSUME p < S PROVE FALSE
          BY <1>1
        <4>1. q + 2 <= s
          BY <1>1, <2>3
        <4>2. p * (q + 2) <= p * s
          BY <1>1, <4>1, Multiples
        <4>3. p * s <= S * s
          BY <1>1
        <4>4. t = S * s /\ p * (q + 2) = p * q + p + p
          BY <1>1 DEF S
        <4>5. p * s \in Nat /\ p * q \in Nat
          BY <1>1
        <4> QED BY <1>1, <1>3, <4>2, <4>3, <4>4, <4>5
      <3>2. r <= q + 1
        <4>1. q + 1 < r => p * (q + 1) + p <= p * r
          BY <1>1, Multiples
        <4>2. p * (q + 1) = p * q + p /\ p * q \in Nat /\ p * r \in Nat
          BY <1>1
        <4> QED BY <1>1, <1>3, <1>5, <3>1, <4>1, <4>2
      <3> QED BY <1>1, <1>4, <2>1, <2>3, <3>2
    <2> QED BY <1>1, <1>4, <2>2, <2>3
  <1>8. ASSUME u < p * c PROVE Count(u, p) = c
    <2>1. r + 1 <= c
      <3>1. c <= r => p * c <= p * r
        BY <1>1, Multiples
      <3>2. p * r \in Nat /\ p * c \in Nat
        BY <1>1
      <3> QED BY <1>1, <1>3, <1>8, <3>1, <3>2
    <2> QED BY <1>1, <1>4, <1>6, <2>1
  <1>9. p * c \in Nat
    BY <1>1
  <1> QED BY <1>1, <1>7, <1>8, <1>9 DEF u, c, S

Scheduled ==
  quiet =>
    /\ \E s \in Nat : simTime_ = StepTime * s
    /\ walk = "reset" => simTime_ = 0 /\ \A id \in synced : entries[id].next = 0
    /\ walk = "update" => /\ simulating
                          /\ \E s \in Nat : simTime_ - StepTime = StepTime * s
    /\ walk = "none" /\ simulating => \A id \in synced \cap Listed : Exact(id, simTime_)
    /\ walk = "update" => \A k \in DOMAIN ecs_ : ecs_[k] \in synced =>
         IF k < i THEN Exact(ecs_[k], simTime_) ELSE Exact(ecs_[k], simTime_ - StepTime)

LEMMA InitScheduled == Init => Scheduled
  BY DEF Init, Scheduled

\* Outside the walks, no time passes and no entry that was reset comes or changes.
LEMMA ScheduledByCalls ==
  ASSUME Walked, Kept, Scheduled, quiet, quiet' = quiet, NEW e \in EC,
         Start(e) \/ Stop(e) \/ CallStep(e)
  PROVE  Scheduled'
  <1>1. walk = "none" /\ walk' = walk /\ simTime_' = simTime_ /\ simulating' = simulating
        /\ synced' = synced
    BY NoCallThen DEF Start, Stop, CallStep, Subscribe, UnsubscribeSize, UnsubscribeGet,
                      Stopped, walkVars
  <1>2. \A id \in synced \cap Listed' : id \in Listed /\ entries'[id] = entries[id]
    <2>1. CASE ecs_' = ecs_ /\ entries' = entries
      BY <2>1 DEF Listed
    <2>2. CASE entries' = entries /\ ecs_' = Without(ecs_[j[e]])
      <3> DEFINE id == ecs_[j[e]]
      <3>1. Removed(ecs_', id)
        BY <2>2, WithoutRemoves DEF Walked
      <3> HIDE DEF id
      <3> QED BY <2>2, <3>1 DEF Removed, Listed
    <2>3. CASE Subscribe(e)
      <3>1. /\ Len(entries) \in Nat /\ entries \in Seq(Record)
            /\ Len(ecs_) \in Nat /\ DOMAIN ecs_ = 1 .. Len(ecs_)
            /\ ecs_ \in Seq(1 .. Len(entries)) /\ synced \subseteq 1 .. Len(entries)
        BY Numbers DEF Walked, TypeOK, Record
      <3>2. PICK x \in Record : entries' = Append(entries, x)
        BY <2>3 DEF Subscribe, Record
      <3>3. \A id \in 1 .. Len(entries) : entries'[id] = entries[id]
        BY <3>1, <3>2, AppendProperties
      <3> DEFINE n == Len(entries) + 1
      <3>4. ecs_ \in Seq(1 .. n) /\ n \in 1 .. n /\ ecs_' = Append(ecs_, n)
        <4>1. \A k \in 1 .. Len(ecs_) : ecs_[k] \in 1 .. n
          BY <3>1, Numbers DEF Walked
        <4>2. ecs_ \in [1 .. Len(ecs_) -> 1 .. n]
          BY <3>1, <4>1, LenProperties
        <4> QED BY <2>3, <3>1, <4>2, IsASeq DEF Subscribe
      <3>5. n \notin synced
        BY <3>1
      <3> HIDE DEF n
      <3>6. /\ DOMAIN (ecs_') = 1 .. Len(ecs_) + 1 /\ ecs_'[Len(ecs_) + 1] = n
            /\ \A k \in 1 .. Len(ecs_) : ecs_'[k] = ecs_[k]
        BY <3>1, <3>4, AppendProperties
      <3>7. \A id \in Listed' : id \in Listed \/ id = n
        BY <3>1, <3>6 DEF Listed
      <3> QED BY <3>1, <3>3, <3>5, <3>7
    <2> QED BY <2>1, <2>2, <2>3
            DEF Start, Stop, CallStep, UnsubscribeSize, UnsubscribeGet, Stopped
  <1> QED BY <1>1, <1>2 DEF Scheduled, Exact

\* A reset leaves every entry it has seen at 0, and the time is 0.
LEMMA ScheduledByReset ==
  ASSUME Walked, Scheduled, quiet, quiet' = quiet, walk = "reset",
         WalkSize \/ WalkGet \/ ResetEntry \/ RemoveFailed
  PROVE  Scheduled'
  <1>0. /\ entries \in Seq(Record) /\ Len(entries) \in Nat /\ DOMAIN entries = 1 .. Len(entries)
        /\ \A id \in 1 .. Len(entries) : entries[id] \in Record
        /\ synced \subseteq 1 .. Len(entries)
    BY Numbers DEF Walked, TypeOK, Record
  <1>1. simTime_ = 0 /\ simTime_' = simTime_ /\ (\A id \in synced : entries[id].next = 0)
        /\ (walk' = "reset" \/ walk' = "none") /\ \E s \in Nat : simTime_ = StepTime * s
    BY DEF Scheduled, WalkSize, WalkGet, ResetEntry, RemoveFailed, WalkEnds
  <1>2. \A id \in synced' : entries'[id].next = 0 /\ entries'[id].period \in Nat \ {0}
    <2>1. CASE ResetEntry
      <3>1. cur \in 1 .. Len(entries)
        BY <2>1 DEF Walked, Behind, ResetEntry
      <3>2. \A id \in 1 .. Len(entries) :
              entries'[id] = IF id = cur THEN [entries[id] EXCEPT !.next = 0] ELSE entries[id]
        BY <1>0, <2>1 DEF ResetEntry
      <3>3. synced' = synced \cup {cur}
        BY <2>1 DEF ResetEntry
      <3>4. \A id \in 1 .. Len(entries) : entries'[id].period = entries[id].period
                                         /\ entries[id].period \in Nat \ {0}
        BY <1>0, <3>2 DEF Record
      <3>5. \A id \in 1 .. Len(entries) :
              entries'[id].next = IF id = cur THEN 0 ELSE entries[id].next
        BY <1>0, <3>2 DEF Record
      <3> QED BY <1>0, <1>1, <3>1, <3>3, <3>4, <3>5
    <2>2. CASE ~ResetEntry
      <3>1. entries' = entries /\ synced' = synced
        BY <2>2 DEF WalkSize, WalkGet, RemoveFailed
      <3> QED BY <1>0, <1>1, <3>1 DEF Record
    <2> QED BY <2>1, <2>2
  <1>3. \A id \in synced' : Exact(id, simTime_)'
    <2>1. \A id \in synced' : Count(0, entries'[id].period) = 0
      BY <1>2, CountIs
    <2>2. \A id \in synced' : entries'[id].period * 0 = 0
      BY <1>2
    <2> QED BY <1>1, <1>2, <2>1, <2>2 DEF Exact
  <1> QED BY <1>1, <1>2, <1>3 DEF Scheduled

\* An update brings one entry after the other up to its time.
LEMMA ScheduledByUpdate ==
  ASSUME Walked, Sent, Scheduled, quiet, quiet' = quiet, walk = "update",
         WalkSize \/ WalkGet \/ Tick \/ NotDue \/ RemoveFailed
  PROVE  Scheduled'
  <1>0. /\ Len(ecs_) \in Nat /\ DOMAIN ecs_ = 1 .. Len(ecs_) /\ i \in Nat \ {0}
        /\ Len(entries) \in Nat /\ entries \in Seq(Record) /\ DOMAIN entries = 1 .. Len(entries)
        /\ \A k \in DOMAIN ecs_ : ecs_[k] \in 1 .. Len(entries) /\ ecs_[k] \in Nat
        /\ \A id \in 1 .. Len(entries) : entries[id] \in Record
        /\ simTime_ \in Nat
    <2>1. Len(entries) \in Nat /\ \A k \in DOMAIN ecs_ : ecs_[k] \in 1 .. Len(entries)
      BY Numbers DEF Walked
    <2>2. \A k \in DOMAIN ecs_ : ecs_[k] \in Nat
      BY <2>1
    <2> QED BY <2>1, <2>2, Numbers DEF Walked, TypeOK, Record
  <1>1. /\ simTime_' = simTime_ /\ simulating /\ synced' = synced
        /\ \E s \in Nat : simTime_ = StepTime * s
        /\ \E s \in Nat : simTime_ - StepTime = StepTime * s
        /\ \A k \in DOMAIN ecs_ : ecs_[k] \in synced =>
             IF k < i THEN Exact(ecs_[k], simTime_) ELSE Exact(ecs_[k], simTime_ - StepTime)
    BY DEF Scheduled, WalkSize, WalkGet, Tick, NotDue, RemoveFailed
  <1>2. CASE WalkSize \/ WalkGet
    <2>1. /\ ecs_' = ecs_ /\ entries' = entries
          /\ \/ walk' = walk /\ i' = i /\ simulating' = simulating
             \/ walk' = "none" /\ ~simulating'
             \/ walk' = "none" /\ ~(i <= Len(ecs_))
      BY <1>2 DEF WalkSize, WalkGet, WalkEnds
    <2>2. CASE walk' = walk /\ i' = i /\ simulating' = simulating
      BY <1>1, <2>1, <2>2 DEF Scheduled, Exact
    <2>3. CASE walk' = "none" /\ ~simulating'
      BY <1>1, <2>1, <2>3 DEF Scheduled
    <2>4. CASE walk' = "none" /\ ~(i <= Len(ecs_))
      <3>1. \A k \in DOMAIN ecs_ : k < i
        BY <1>0, <2>4
      <3>2. \A id \in synced \cap Listed : Exact(id, simTime_)
        BY <1>1, <3>1 DEF Listed
      <3>3. \A id \in synced' \cap Listed' : Exact(id, simTime_)'
        BY <1>1, <2>1, <3>2 DEF Listed, Exact
      <3> QED BY <1>1, <2>4, <3>3 DEF Scheduled
    <2> QED BY <2>1, <2>2, <2>3, <2>4
  <1>3. CASE Tick \/ NotDue
    <2>1. /\ at = "remote" /\ i' = i + 1 /\ ecs_' = ecs_ /\ walk' = walk
          /\ simulating' = simulating
      BY <1>3 DEF Tick, NotDue, Goes
    <2>2. cur = ecs_[i] /\ i \in DOMAIN ecs_ /\ cur \in 1 .. Len(entries)
      BY <1>0, <2>1 DEF Sent
    <2> DEFINE p == entries[cur].period
               t == simTime_ - StepTime
               m == entries[cur].next
    <2>3. p \in Nat \ {0} /\ m \in Nat
      BY <1>0, <2>2 DEF Record
    <2>4. /\ entries'[cur].period = p
          /\ entries'[cur].next = IF simTime_ >= m THEN m + p ELSE m
          /\ \A id \in 1 .. Len(entries) : id # cur => entries'[id] = entries[id]
      <3>1. CASE Tick
        BY <1>0, <2>2, <3>1 DEF Tick, Due, Record
      <3>2. CASE NotDue
        BY <2>2, <3>2 DEF NotDue, Due
      <3> QED BY <1>3, <3>1, <3>2
    <2>5. cur \in synced => entries'[cur].next = p * Count(simTime_, p)
      <3> SUFFICES ASSUME cur \in synced
                   PROVE  entries'[cur].next = p * Count(simTime_, p)
        OBVIOUS
      <3>1. m = p * Count(t, p)
        <4>1. ~(i < i)
          BY <1>0
        <4>2. Exact(cur, simTime_ - StepTime)
          BY <1>1, <2>2, <4>1
        <4> QED BY <4>2 DEF Exact
      <3>2. PICK s \in Nat : t = StepTime * s
        BY <1>1
      <3>3. t \in Nat /\ t + StepTime = simTime_
        BY <1>0, <3>2
      <3> HIDE DEF p, t, m
      <3>4. Count(t, p) \in Nat
        BY <2>3, <3>3, CountIs
      <3>5. /\ simTime_ >= p * Count(t, p) => Count(simTime_, p) = Count(t, p) + 1
            /\ simTime_ < p * Count(t, p) => Count(simTime_, p) = Count(t, p)
        BY <2>3, <3>2, <3>3, CountStep
      <3>6. p * (Count(t, p) + 1) = p * Count(t, p) + p
        BY <2>3, <3>4
      <3>7. simTime_ >= m \/ simTime_ < m
        BY <1>0, <2>3
      <3>8. simTime_ < m => ~(simTime_ >= m)
        BY <1>0, <2>3
      <3> QED BY <2>4, <3>1, <3>5, <3>6, <3>7, <3>8
    <2>6. ASSUME NEW k \in DOMAIN ecs_, ecs_[k] \in synced
          PROVE  IF k < i + 1 THEN Exact(ecs_[k], simTime_)'
                 ELSE entries'[ecs_[k]].next
                        = entries'[ecs_[k]].period * Count(t, entries'[ecs_[k]].period)
      <3>1. CASE k = i
        <4>1. k < i + 1 /\ ecs_'[k] = cur /\ ecs_[k] = cur
          BY <1>0, <2>1, <2>2, <3>1
        <4>2. entries'[cur].next = entries'[cur].period * Count(simTime_, entries'[cur].period)
          BY <2>4, <2>5, <2>6, <4>1
        <4> QED BY <1>1, <4>1, <4>2 DEF Exact
      <3>2. CASE k # i
        <4>1. ecs_[k] # cur
          <5>1. k < i \/ i < k
            BY <1>0, <3>2
          <5>2. ecs_[k] < ecs_[i] \/ ecs_[i] < ecs_[k]
            BY <2>2, <5>1 DEF Walked, Sorted
          <5> QED BY <1>0, <2>2, <5>2
        <4>2. entries'[ecs_[k]] = entries[ecs_[k]]
          BY <1>0, <2>4, <4>1
        <4>3. k < i + 1 <=> k < i
          BY <1>0, <3>2
        <4> QED BY <1>1, <2>1, <2>6, <4>2, <4>3 DEF Exact
      <3> QED BY <3>1, <3>2
    <2>7. \A k \in DOMAIN ecs_' : ecs_'[k] \in synced' =>
            IF k < i' THEN Exact(ecs_[k], simTime_)' ELSE Exact(ecs_[k], simTime_ - StepTime)'
      BY <1>1, <2>1, <2>6 DEF Exact
    <2> HIDE DEF p, t, m
    <2> QED BY <1>1, <2>1, <2>7 DEF Scheduled
  <1>4. CASE RemoveFailed
    <2>1. /\ ecs_' = Without(cur) /\ entries' = entries /\ i' = i /\ walk' = walk
          /\ simulating' = simulating /\ at = "remote"
      BY <1>4 DEF RemoveFailed
    <2>2. cur = ecs_[i] /\ i \in DOMAIN ecs_ /\ Removed(ecs_', cur)
      BY <2>1, WithoutRemoves DEF Sent, Walked
    <2>3. ASSUME NEW k \in DOMAIN ecs_'
          PROVE  \E l \in DOMAIN ecs_ : ecs_'[k] = ecs_[l] /\ (k < i <=> l < i)
      <3>1. DOMAIN ecs_' = 1 .. Len(ecs_') /\ Len(ecs_') \in Nat
        BY <2>2, LenProperties DEF Removed
      <3>2. CASE k < i
        <4>1. k \in 1 .. i - 1 /\ k \in DOMAIN ecs_
          BY <1>0, <2>2, <3>1, <3>2
        <4>2. ecs_'[k] = ecs_[k]
          BY <2>2, <4>1 DEF Removed
        <4> QED BY <4>1, <4>2
      <3>3. CASE ~(k < i)
        <4>1. ~(k + 1 < i)
          BY <1>0, <3>1, <3>3
        <4> QED BY <2>2, <3>3, <4>1 DEF Removed
      <3> QED BY <3>2, <3>3
    <2>4. \A k \in DOMAIN ecs_' : ecs_'[k] \in synced =>
            IF k < i THEN Exact(ecs_'[k], simTime_) ELSE Exact(ecs_'[k], simTime_ - StepTime)
      BY <1>1, <2>3
    <2> QED BY <1>1, <2>1, <2>4 DEF Scheduled, Exact
  <1> QED BY <1>2, <1>3, <1>4

LEMMA ScheduledStep == Walked /\ Kept /\ Sent /\ Scheduled /\ [Next]_vars => Scheduled'
  <1> SUFFICES ASSUME Walked, Kept, Sent, Scheduled, [Next]_vars, quiet' PROVE Scheduled'
    BY DEF Scheduled
  <1>1. quiet' = quiet
    BY DEF Next, WalkStep, CallStep, StartSimulation, BeginUpdate, WalkSize, WalkGet, Tick,
           NotDue, ResetEntry, RemoveFailed, Start, Stop, Subscribe, UnsubscribeSize,
           UnsubscribeGet, Stopped, Crash, vars
  <1>2. CASE StartSimulation
    <2>1. walk' = "reset" /\ simTime_' = 0 /\ synced' = {} /\ ~simulating' /\ 0 = StepTime * 0
      BY <1>2 DEF StartSimulation
    <2> QED BY <2>1 DEF Scheduled
  <1>3. CASE BeginUpdate
    <2>1. /\ walk = "none" /\ walk' = "update" /\ simulating /\ simulating' /\ i' = 1
          /\ simTime_' = simTime_ + StepTime /\ ecs_' = ecs_ /\ entries' = entries
          /\ synced' = synced
      BY <1>3 DEF BeginUpdate, MayWalk
    <2>2. PICK s \in Nat : simTime_ = StepTime * s
      BY <1>1 DEF Scheduled
    <2>3. s + 1 \in Nat /\ StepTime * (s + 1) = StepTime * s + StepTime
          /\ simTime_' - StepTime = simTime_
      BY <2>1, <2>2 DEF Walked, TypeOK
    <2>4. \A k \in DOMAIN ecs_ : ~(k < 1) /\ ecs_[k] \in Listed
      BY Numbers DEF Walked, Listed
    <2>5. \A id \in synced \cap Listed : Exact(id, simTime_)
      BY <1>1, <2>1 DEF Scheduled
    <2>6. \A k \in DOMAIN ecs_ : ecs_[k] \in synced =>
            entries'[ecs_[k]].next
              = entries'[ecs_[k]].period * Count(simTime_' - StepTime, entries'[ecs_[k]].period)
      BY <2>1, <2>3, <2>4, <2>5 DEF Exact
    <2>7. \A k \in DOMAIN ecs_' : ecs_'[k] \in synced' =>
            IF k < i' THEN Exact(ecs_[k], simTime_)' ELSE Exact(ecs_[k], simTime_ - StepTime)'
      BY <2>1, <2>4, <2>6 DEF Exact
    <2>8. \E u \in Nat : simTime_' = StepTime * u
      BY <2>1, <2>2, <2>3
    <2>9. \E u \in Nat : simTime_' - StepTime = StepTime * u
      BY <2>2, <2>3
    <2> QED BY <2>1, <2>7, <2>8, <2>9 DEF Scheduled
  <1>4. CASE WalkStep /\ walk = "reset"
    <2>1. WalkSize \/ WalkGet \/ ResetEntry \/ RemoveFailed
      BY <1>4 DEF WalkStep, Tick, NotDue
    <2> QED BY <1>1, <1>4, <2>1, ScheduledByReset
  <1>5. CASE WalkStep /\ walk = "update"
    <2>1. WalkSize \/ WalkGet \/ Tick \/ NotDue \/ RemoveFailed
      BY <1>5 DEF WalkStep, ResetEntry
    <2> QED BY <1>1, <1>5, <2>1, ScheduledByUpdate
  <1>6. WalkStep => walk = "reset" \/ walk = "update"
    BY DEF WalkStep, WalkSize, WalkGet, ResetEntry, Tick, NotDue, RemoveFailed, Walked, TypeOK
  <1>7. ASSUME NEW e \in EC, Start(e) \/ Stop(e) \/ CallStep(e) PROVE Scheduled'
    BY <1>1, <1>7, ScheduledByCalls
  <1>8. CASE UNCHANGED vars \/ \E e \in EC : Crash(e)
    BY <1>1, <1>8 DEF vars, Crash, walkVars, Scheduled, Exact, Listed
  <1> QED BY <1>2, <1>3, <1>4, <1>5, <1>6, <1>7, <1>8, Zenon DEF Next

\* The schedule does not drift: after every step, an entry that was there when
\* the simulation started has been ticked for each multiple of its period so
\* far, at most once per step, for all periods and steps.
THEOREM ExactSchedule == Spec => []ScheduleExact
  <1>1. Walked /\ Scheduled => ScheduleExact
    <2> SUFFICES ASSUME Walked, Scheduled, quiet, simulating, walk = "none",
                        NEW id \in synced \cap Listed
                 PROVE  LET p == entries[id].period
                            steps == simTime_ \div StepTime
                            multiples == simTime_ \div p + 1
                        IN  \E c \in Least(steps, multiples) .. Least(steps + 1, multiples) :
                              entries[id].next = p * c
      BY DEF ScheduleExact
    <2> DEFINE p == entries[id].period
               steps == simTime_ \div StepTime
               multiples == simTime_ \div p + 1
               c == Count(simTime_, p)
    <2>1. simTime_ \in Nat /\ p \in Nat \ {0}
      <3>1. id \in 1 .. Len(entries) /\ simTime_ \in Nat /\ entries \in Seq(Record)
        BY DEF Walked, TypeOK, Record
      <3>2. entries[id] \in Record
        BY <3>1, ElementOfSeq
      <3> QED BY <3>1, <3>2 DEF Record
    <2>2. entries[id].next = p * c
      BY DEF Scheduled, Exact
    <2> HIDE DEF p
    <2>3. steps \in Nat /\ multiples \in Nat
      BY <2>1, Quotient
    <2>4. c = Least(steps, multiples)
      BY DEF Count
    <2> HIDE DEF c, steps, multiples
    <2>5. c \in Least(steps, multiples) .. Least(steps + 1, multiples)
      BY <2>3, <2>4 DEF Least
    <2> QED BY <2>2, <2>5 DEF p, steps, multiples
  <1>2. Init => Sent
    BY DEF Init, Sent
  <1> QED BY <1>1, <1>2, InitWalked, WalkedStep, InitKept, KeptStep, SentStep, InitScheduled,
             ScheduledStep, PTL DEF Spec, Safety
=============================================================================
