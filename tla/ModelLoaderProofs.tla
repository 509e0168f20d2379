------------------------- MODULE ModelLoaderProofs -------------------------
(***************************************************************************)
(* Theorems about the cache of the model loader: its types, that what it   *)
(* hands out is deceived by time stamps only, and that it does hand out.   *)
(***************************************************************************)
EXTENDS ModelLoader, SequenceTheorems, TLAPS

-----------------------------------------------------------------------------
(* What a step does to files, servants and calls.                          *)

CallRecord(n) == [at : Place, boxes : Boxes \cup {Original}, mtime : Nat, body : 0 .. n,
                  swapped : BOOLEAN, since : [File -> Nat]]

Holding == {"compare", "again", "included", "found", "cached", "inline", "times",
            "insert", "date", "boxes", "reply"}

\* Lengths, and the modification times, are numbers.
LEMMA Numbers ==
  ASSUME TypeOK
  PROVE  /\ Len(bodies) \in Nat
         /\ \A n \in 1 .. Len(bodies) : bodies[n] \in Body
         /\ \A f \in File : /\ Current(f) \in Nat /\ Current(f) >= 1
                            /\ DOMAIN versions[f] = 1 .. Current(f)
                            /\ \A k \in 1 .. Current(f) : versions[f][k] \in Nat
                            /\ Mtime(f) \in Nat
         /\ Both \in [File -> Nat]
  <1>1. Len(bodies) \in Nat /\ \A n \in 1 .. Len(bodies) : bodies[n] \in Body
    BY LenProperties, ElementOfSeq DEF TypeOK
  <1>2. ASSUME NEW f \in File
        PROVE  /\ Current(f) \in Nat /\ Current(f) >= 1
               /\ DOMAIN versions[f] = 1 .. Current(f)
               /\ \A k \in 1 .. Current(f) : versions[f][k] \in Nat
    <2>1. versions[f] \in Seq(Nat) /\ versions[f] # <<>>
      BY DEF TypeOK
    <2>2. Len(versions[f]) \in Nat /\ DOMAIN versions[f] = 1 .. Len(versions[f])
      BY <2>1, LenProperties
    <2>3. Len(versions[f]) # 0
      BY <2>1, EmptySeq
    <2>4. \A k \in 1 .. Len(versions[f]) : versions[f][k] \in Nat
      BY <2>1, ElementOfSeq
    <2> QED BY <2>2, <2>3, <2>4 DEF Current
  <1>3. \A f \in File : Mtime(f) \in Nat
    BY <1>2 DEF Mtime
  <1> QED BY <1>1, <1>2, <1>3 DEF Both

LEMMA Holders ==
  ASSUME TypeOK
  PROVE  \A c \in Clients : call[c].at \in Holding <=> call[c].body # 0
  <1> TAKE c \in Clients
  <1>1. call[c].at \in Place
    BY DEF TypeOK
  <1>2. call[c].at \in {"idle", "stat", "find", "main"} \/ call[c].at \in Holding
    BY <1>1 DEF Place, Holding
  <1>3. ~(call[c].at \in {"idle", "stat", "find", "main"} /\ call[c].at \in Holding)
    BY DEF Holding
  <1>4. call[c].at \notin {"idle", "stat", "find", "main"} <=> call[c].body # 0
    BY DEF TypeOK
  <1> QED BY <1>2, <1>3, <1>4

\* A file keeps its versions.
Older ==
  \A f \in File :
    /\ Current(f)' \in Nat /\ Current(f) <= Current(f)'
    /\ \A k \in 1 .. Current(f) : versions'[f][k] = versions[f][k]

\* A servant is read from the newest versions, and dated by them.
Servants ==
  /\ Len(bodies)' \in Nat /\ Len(bodies) <= Len(bodies)'
  /\ \A n \in 1 .. Len(bodies) :
       /\ bodies'[n].main = bodies[n].main
       /\ bodies'[n].born = bodies[n].born
       /\ bodies'[n].inline = bodies[n].inline \/ bodies'[n].inline = Current("inline")
       /\ bodies'[n].inlineTime = bodies[n].inlineTime \/ bodies'[n].inlineTime = Mtime("inline")
       /\ bodies'[n].lastUpdate = bodies[n].lastUpdate \/ bodies'[n].lastUpdate = Mtime("main")

\* The steps of the call of one client.
CallStep(c) ==
  \/ \E get \in BOOLEAN, boxes \in Boxes \cup {Original} : Call(c, get, boxes)
  \/ Stat(c) \/ Find(c) \/ DateHit(c) \/ Again(c) \/ InlinesHit(c) \/ Hit(c)
  \/ BoxesOfCached(c) \/ Miss(c) \/ Load(c) \/ Reply(c)

LEMMA Steps ==
  ASSUME [Next]_vars
  PROVE  \/ \E f \in File, time \in 0 .. MaxTime : Edit(f, time)
         \/ ClearData
         \/ \E c \in Clients : CallStep(c)
         \/ UNCHANGED vars
  BY Zenon DEF Next, CallStep

\* One field of one servant is written.
LEMMA OneServant ==
  ASSUME TypeOK, NEW m \in 1 .. Len(bodies), NEW b \in Body, bodies' = [bodies EXCEPT ![m] = b]
  PROVE  /\ bodies' \in Seq(Body) /\ Len(bodies') = Len(bodies)
         /\ \A n \in 1 .. Len(bodies) : bodies'[n] = IF n = m THEN b ELSE bodies[n]
  <1>1. bodies \in Seq(Body) /\ Len(bodies) \in Nat /\ DOMAIN bodies = 1 .. Len(bodies)
    BY LenProperties DEF TypeOK
  <1>2. \A n \in 1 .. Len(bodies) : bodies[n] \in Body
    BY <1>1, ElementOfSeq
  <1>3. bodies' \in [1 .. Len(bodies) -> Body]
    BY <1>1, <1>2
  <1>4. bodies' \in Seq(Body)
    BY <1>1, <1>3, SeqDef
  <1>5. /\ DOMAIN bodies' = 1 .. Len(bodies) /\ DOMAIN bodies' = 1 .. Len(bodies')
        /\ Len(bodies') \in Nat
    BY <1>3, <1>4, LenProperties
  <1>6. Len(bodies') = Len(bodies)
    BY <1>1, <1>5
  <1> QED BY <1>1, <1>4, <1>6

\* A servant that a call writes to is one of those made.
LEMMA Held ==
  ASSUME TypeOK, NEW c \in Clients, call[c].at \in Holding
  PROVE  /\ call[c].body \in 1 .. Len(bodies)
         /\ bodies[call[c].body] \in Body
  <1>1. call[c].body \in 0 .. Len(bodies) /\ call[c].body # 0
    BY DEF TypeOK, Holding
  <1>2. Len(bodies) \in Nat /\ \A n \in 1 .. Len(bodies) : bodies[n] \in Body
    BY Numbers
  <1> QED BY <1>1, <1>2

LEMMA Boxed ==
  ASSUME TypeOK, NEW c \in Clients, BoxesOfCached(c) \/ BoxesOfLoaded(c)
  PROVE  \E m \in 1 .. Len(bodies) : ChangetoBoundingBox(c, m)
  <1>1. call[c].at \in Holding
    BY DEF BoxesOfCached, BoxesOfLoaded, Holding
  <1>2. call[c].body \in 1 .. Len(bodies) /\ Len(bodies) \in Nat /\ cache \in 0 .. Len(bodies)
    BY <1>1, Held, Numbers DEF TypeOK
  <1>3. CASE BoxesOfCached(c)
    <2>1. PICK m \in {cache, call[c].body} \ {0} : ChangetoBoundingBox(c, m)
      BY <1>3 DEF BoxesOfCached, Entry
    <2>2. m \in 1 .. Len(bodies)
      BY <1>2, <2>1
    <2> QED BY <2>1, <2>2
  <1>4. CASE BoxesOfLoaded(c)
    BY <1>2, <1>4 DEF BoxesOfLoaded
  <1> QED BY <1>3, <1>4

LEMMA OlderStep == ASSUME LoaderAssumption, TypeOK, [Next]_vars PROVE Older
  <1>0. \A f \in File : Current(f) \in Nat
    BY Numbers
  <1>1. ASSUME versions' = versions PROVE Older
    BY <1>0, <1>1 DEF Older, Current
  <1>2. ASSUME NEW f \in File, NEW time \in 0 .. MaxTime, Edit(f, time) PROVE Older
    <2> DEFINE longer == Append(versions[f], time)
    <2>1. \A g \in File : versions[g] \in Seq(Nat) /\ Len(versions[g]) \in Nat
      BY <1>0 DEF TypeOK, Current
    <2>2. versions' = [versions EXCEPT ![f] = longer] /\ time \in Nat
      BY <1>2 DEF Edit, LoaderAssumption
    <2>3. /\ Len(longer) = Len(versions[f]) + 1
          /\ \A k \in 1 .. Len(versions[f]) : longer[k] = versions[f][k]
      BY <2>1, <2>2, AppendProperties
    <2> HIDE DEF longer
    <2>4. \A g \in File : versions'[g] = IF g = f THEN longer ELSE versions[g]
      BY <2>2 DEF TypeOK
    <2>5. ASSUME NEW g \in File
          PROVE  /\ Len(versions'[g]) \in Nat /\ Len(versions[g]) <= Len(versions'[g])
                 /\ \A k \in 1 .. Len(versions[g]) : versions'[g][k] = versions[g][k]
      <3>1. CASE g = f
        BY <2>1, <2>3, <2>4, <3>1
      <3>2. CASE g # f
        BY <2>1, <2>4, <3>2
      <3> QED BY <3>1, <3>2
    <2> QED BY <2>5 DEF Older, Current
  <1>3. ASSUME NEW c \in Clients, CallStep(c) PROVE versions' = versions
    BY <1>3 DEF CallStep, Call, Stat, Find, DateHit, Again, InlinesHit, Hit, Reread, Miss, Load,
                ReadMain, ReadInline, LoadFails, StatInline, Insert, SetLastUpdateTime, BoxesOfCached, BoxesOfLoaded, ChangetoBoundingBox, Reply
  <1> QED BY <1>1, <1>2, <1>3, Steps DEF ClearData, vars

\* The step reads or dates the servant of c, or makes it.
LEMMA ServantsStep ==
  ASSUME LoaderAssumption, TypeOK, [Next]_vars PROVE Servants /\ bodies' \in Seq(Body)
  <1>0. Len(bodies) \in Nat /\ \A n \in 1 .. Len(bodies) : bodies[n] \in Body
    BY Numbers
  <1>1. ASSUME bodies' = bodies PROVE Servants /\ bodies' \in Seq(Body)
    BY <1>0, <1>1 DEF Servants, TypeOK
  <1>2. ASSUME NEW c \in Clients, CallStep(c) PROVE Servants /\ bodies' \in Seq(Body)
    <2> DEFINE n == call[c].body
    <2>1. CASE ReadMain(c)
      <3> DEFINE b == [main |-> Current("main"), inline |-> 0, lastUpdate |-> 0,
                       inlineTime |-> 0, shapes |-> Original, born |-> Both]
      <3>1. bodies' = Append(bodies, b)
        BY <2>1 DEF ReadMain
      <3>2. b \in Body
        BY Numbers DEF Body, File
      <3> HIDE DEF b
      <3>3. bodies \in Seq(Body)
        BY DEF TypeOK
      <3>4. /\ bodies' \in Seq(Body) /\ Len(bodies') = Len(bodies) + 1
            /\ \A m \in 1 .. Len(bodies) : bodies'[m] = bodies[m]
        BY <3>1, <3>2, <3>3, AppendProperties
      <3> QED BY <1>0, <3>4 DEF Servants
    <2>2. CASE ReadInline(c)
      <3>1. n \in 1 .. Len(bodies) /\ bodies[n] \in Body
        BY <2>2, Held DEF ReadInline, Holding
      <3> DEFINE b == [bodies[n] EXCEPT !.inline = Current("inline")]
      <3>2. bodies' = [bodies EXCEPT ![n] = b]
        BY <2>2 DEF ReadInline
      <3>3. b \in Body /\ b.main = bodies[n].main /\ b.born = bodies[n].born
            /\ b.inline = Current("inline") /\ b.inlineTime = bodies[n].inlineTime
            /\ b.lastUpdate = bodies[n].lastUpdate
        BY <3>1, Numbers DEF Body, File
      <3> HIDE DEF b, n
      <3>4. /\ bodies' \in Seq(Body) /\ Len(bodies') = Len(bodies)
            /\ \A m \in 1 .. Len(bodies) : bodies'[m] = IF m = n THEN b ELSE bodies[m]
        BY <3>1, <3>2, <3>3, OneServant
      <3> QED BY <1>0, <3>3, <3>4 DEF Servants
    <2>3. CASE StatInline(c)
      <3>1. n \in 1 .. Len(bodies) /\ bodies[n] \in Body
        BY <2>3, Held DEF StatInline, Holding
      <3> DEFINE b == [bodies[n] EXCEPT !.inlineTime = Mtime("inline")]
      <3>2. bodies' = [bodies EXCEPT ![n] = b]
        BY <2>3 DEF StatInline
      <3>3. b \in Body /\ b.main = bodies[n].main /\ b.born = bodies[n].born
            /\ b.inline = bodies[n].inline /\ b.inlineTime = Mtime("inline")
            /\ b.lastUpdate = bodies[n].lastUpdate
        BY <3>1, Numbers DEF Body, File
      <3> HIDE DEF b, n
      <3>4. /\ bodies' \in Seq(Body) /\ Len(bodies') = Len(bodies)
            /\ \A m \in 1 .. Len(bodies) : bodies'[m] = IF m = n THEN b ELSE bodies[m]
        BY <3>1, <3>2, <3>3, OneServant
      <3> QED BY <1>0, <3>3, <3>4 DEF Servants
    <2>4. CASE SetLastUpdateTime(c)
      <3>1. n \in 1 .. Len(bodies) /\ bodies[n] \in Body
        BY <2>4, Held DEF SetLastUpdateTime, Holding
      <3> DEFINE b == [bodies[n] EXCEPT !.lastUpdate = Mtime("main")]
      <3>2. bodies' = [bodies EXCEPT ![n] = b]
        BY <2>4 DEF SetLastUpdateTime
      <3>3. b \in Body /\ b.main = bodies[n].main /\ b.born = bodies[n].born
            /\ b.inline = bodies[n].inline /\ b.inlineTime = bodies[n].inlineTime
            /\ b.lastUpdate = Mtime("main")
        BY <3>1, Numbers DEF Body, File
      <3> HIDE DEF b, n
      <3>4. /\ bodies' \in Seq(Body) /\ Len(bodies') = Len(bodies)
            /\ \A m \in 1 .. Len(bodies) : bodies'[m] = IF m = n THEN b ELSE bodies[m]
        BY <3>1, <3>2, <3>3, OneServant
      <3> QED BY <1>0, <3>3, <3>4 DEF Servants
    <2>5. ASSUME NEW m \in 1 .. Len(bodies), ChangetoBoundingBox(c, m)
          PROVE  Servants /\ bodies' \in Seq(Body)
      <3>1. bodies[m] \in Body /\ call[c].boxes \in Boxes \cup {Original}
        BY <1>0 DEF TypeOK
      <3> DEFINE b == [bodies[m] EXCEPT !.shapes = call[c].boxes]
      <3>2. bodies' = [bodies EXCEPT ![m] = b]
        BY <2>5 DEF ChangetoBoundingBox
      <3>3. b \in Body /\ b.main = bodies[m].main /\ b.born = bodies[m].born
            /\ b.inline = bodies[m].inline /\ b.inlineTime = bodies[m].inlineTime
            /\ b.lastUpdate = bodies[m].lastUpdate
        BY <3>1 DEF Body
      <3> HIDE DEF b
      <3>4. /\ bodies' \in Seq(Body) /\ Len(bodies') = Len(bodies)
            /\ \A k \in 1 .. Len(bodies) : bodies'[k] = IF k = m THEN b ELSE bodies[k]
        BY <3>1, <3>2, <3>3, OneServant
      <3> QED BY <1>0, <3>3, <3>4 DEF Servants
    <2>6. CASE BoxesOfCached(c) \/ BoxesOfLoaded(c)
      BY <1>0, <2>5, <2>6, Boxed
    <2>7. CASE bodies' = bodies
      BY <1>1, <2>7
    <2> QED BY <1>2, <2>1, <2>2, <2>3, <2>4, <2>6, <2>7
            DEF CallStep, Call, Stat, Find, DateHit, Again, InlinesHit, Hit, Reread, Miss, Load,
                LoadFails, Insert, Reply
  <1> QED BY <1>1, <1>2, Steps DEF ClearData, Edit, vars

-----------------------------------------------------------------------------
(* Types.                                                                  *)

\* A step of the call of c gives it a record of the type, and leaves the others
\* alone.
LEMMA CallStepRecord ==
  ASSUME LoaderAssumption, TypeOK, NEW c \in Clients, CallStep(c)
  PROVE  \E r \in CallRecord(Len(bodies)') :
           call' = [call EXCEPT ![c] = r] /\ (r.at \in Holding <=> r.body # 0)
  <1> DEFINE n == Len(bodies)'
  <1>0. /\ Len(bodies) \in Nat /\ Both \in [File -> Nat] /\ Mtime("main") \in Nat
        /\ call[c] \in CallRecord(Len(bodies))
        /\ call[c].at \in Holding <=> call[c].body # 0
    BY Numbers, Holders DEF TypeOK, CallRecord, File
  <1>1. n \in Nat /\ Len(bodies) <= n
    BY Steps, ServantsStep DEF Servants, Next, CallStep
  <1> HIDE DEF n
  <1>2. \A r \in CallRecord(Len(bodies)) : r \in CallRecord(n)
    BY <1>0, <1>1 DEF CallRecord
  <1>3. call[c] \in CallRecord(n) /\ cache \in 0 .. n
    BY <1>0, <1>1, <1>2 DEF TypeOK
  <1> DEFINE Good(r) == r \in CallRecord(n) /\ (r.at \in Holding <=> r.body # 0)
             To(place) == [call[c] EXCEPT !.at = place]
  <1>4. SUFFICES \E r : Good(r) /\ call' = [call EXCEPT ![c] = r]
    BY <1>4 DEF n
  <1>5. ASSUME NEW place \in Place, place \in Holding <=> call[c].at \in Holding
        PROVE  Good(To(place))
    <2>1. To(place) \in CallRecord(n)
      BY <1>3 DEF CallRecord
    <2>2. To(place).at = place /\ To(place).body = call[c].body
      BY <1>3 DEF CallRecord
    <2> QED BY <1>0, <1>5, <2>1, <2>2
  <1>6. Good(NoCall)
    BY <1>1 DEF CallRecord, NoCall, Holding, Place
  <1>7. AfterLoad(c) \in {"reply", "boxes"} /\ AfterHit(c) \in {"reply", "cached"}
    BY DEF AfterLoad, AfterHit
  <1>8. CASE \E get \in BOOLEAN, boxes \in Boxes \cup {Original} : Call(c, get, boxes)
    <2>1. PICK get \in BOOLEAN, boxes \in Boxes \cup {Original} : Call(c, get, boxes)
      BY <1>8
    <2> DEFINE r == [at |-> IF get THEN "stat" ELSE "main", boxes |-> boxes, mtime |-> 0,
                     body |-> 0, swapped |-> FALSE, since |-> Both]
    <2>2. call' = [call EXCEPT ![c] = r]
      BY <2>1 DEF Call
    <2>3. Good(r)
      BY <1>0, <1>1 DEF CallRecord, Holding, Place
    <2> QED BY <2>2, <2>3
  <1>9. CASE Stat(c)
    <2> DEFINE r == [call[c] EXCEPT !.at = "find", !.mtime = Mtime("main")]
    <2>1. call' = [call EXCEPT ![c] = r] /\ call[c].at = "stat"
      BY <1>9 DEF Stat
    <2>2. Good(r)
      BY <1>0, <1>3, <2>1 DEF CallRecord, Holding, Place
    <2> QED BY <2>1, <2>2
  <1>20. CASE Find(c)
    <2> DEFINE r == [call[c] EXCEPT !.at = "compare", !.body = cache]
    <2>1. call' = [call EXCEPT ![c] = r] /\ cache # 0
      BY <1>20 DEF Find
    <2>2. Good(r)
      BY <1>0, <1>3, <2>1 DEF CallRecord, Holding, Place
    <2> QED BY <2>1, <2>2
  <1>21. CASE DateHit(c)
    <2> DEFINE r == [call[c] EXCEPT !.at = "again", !.mtime = 0]
    <2>1. call' = [call EXCEPT ![c] = r] /\ call[c].at \in Holding
      BY <1>21 DEF DateHit, Holding
    <2>2. Good(r)
      BY <1>0, <1>3, <2>1 DEF CallRecord, Holding, Place
    <2> QED BY <2>1, <2>2
  <1>22. ASSUME NEW place \in Place, Reread(c, place),
                place \in Holding
         PROVE  \E r : Good(r) /\ call' = [call EXCEPT ![c] = r]
    <2>1. PICK b \in Entry(c) :
            call' = [call EXCEPT ![c].at = place, ![c].body = b,
                                 ![c].swapped = @ \/ b # call[c].body]
      BY <1>22 DEF Reread
    <2> DEFINE other == call[c].swapped \/ b # call[c].body
               r == [call[c] EXCEPT !.at = place, !.body = b, !.swapped = other]
    <2>2. call' = [call EXCEPT ![c] = r]
      BY <2>1
    <2>3. b \in 0 .. n /\ b # 0
      BY <1>3, <2>1 DEF Entry, CallRecord
    <2>4. other \in BOOLEAN
      OBVIOUS
    <2> HIDE DEF other
    <2>5. Good(r)
      BY <1>3, <1>22, <2>3, <2>4 DEF CallRecord
    <2> QED BY <2>2, <2>5
  <1>10. CASE Again(c) \/ Hit(c)
    BY <1>7, <1>10, <1>22 DEF Again, Hit, Place, Holding
  <1>23. CASE InlinesHit(c)
    <2>1. call' = [call EXCEPT ![c] = To("found")] /\ call[c].at \in Holding
      BY <1>23 DEF InlinesHit, Go, Holding
    <2> QED BY <1>5, <2>1 DEF Place, Holding
  <1>11. CASE Miss(c)
    <2> DEFINE r == [call[c] EXCEPT !.at = "main", !.mtime = 0, !.body = 0, !.swapped = FALSE]
    <2>1. call' = [call EXCEPT ![c] = r]
      BY <1>11 DEF Miss
    <2>2. 0 \in 0 .. n /\ FALSE \in BOOLEAN
      BY <1>1
    <2>3. r \in CallRecord(n) /\ r.at = "main" /\ r.body = 0
      BY <1>3, <2>2 DEF CallRecord, Place
    <2>4. Good(r)
      BY <2>3 DEF Holding
    <2> QED BY <2>1, <2>4
  <1>12. CASE ReadMain(c)
    <2> DEFINE m == Len(bodies) + 1
               r == [call[c] EXCEPT !.at = "inline", !.body = m]
               b == [main |-> Current("main"), inline |-> 0, lastUpdate |-> 0,
                     inlineTime |-> 0, shapes |-> Original, born |-> Both]
    <2>1. call' = [call EXCEPT ![c] = r] /\ bodies' = Append(bodies, b)
      BY <1>12 DEF ReadMain
    <2>2. b \in Body /\ bodies \in Seq(Body)
      BY Numbers DEF Body, File, TypeOK
    <2> HIDE DEF b
    <2>3. n = m
      BY <2>1, <2>2, AppendProperties DEF n
    <2>4. m \in 0 .. n /\ m # 0
      BY <1>0, <2>3
    <2> HIDE DEF m
    <2>5. Good(r)
      BY <1>0, <1>3, <2>4 DEF CallRecord, Holding, Place
    <2> QED BY <2>1, <2>5
  <1>13. CASE LoadFails(c)
    BY <1>6, <1>13 DEF LoadFails
  <1>14. CASE ReadInline(c)
    <2>1. call' = [call EXCEPT ![c] = To("times")] /\ call[c].at \in Holding
      BY <1>14 DEF ReadInline, Go, Holding
    <2> QED BY <1>5, <2>1 DEF Place, Holding
  <1>15. CASE StatInline(c)
    <2>1. call' = [call EXCEPT ![c] = To("insert")] /\ call[c].at \in Holding
      BY <1>15 DEF StatInline, Go, Holding
    <2> QED BY <1>5, <2>1 DEF Place, Holding
  <1>16. CASE Insert(c)
    <2>1. call' = [call EXCEPT ![c] = To("date")] /\ call[c].at \in Holding
      BY <1>16 DEF Insert, Go, Holding
    <2> QED BY <1>5, <2>1 DEF Place, Holding
  <1>17. CASE SetLastUpdateTime(c)
    <2>1. call' = [call EXCEPT ![c] = To(AfterLoad(c))] /\ call[c].at \in Holding
      BY <1>17 DEF SetLastUpdateTime, Go, Holding
    <2> QED BY <1>5, <1>7, <2>1 DEF Place, Holding
  <1>18. CASE BoxesOfCached(c) \/ BoxesOfLoaded(c)
    <2>1. call' = [call EXCEPT ![c] = To("reply")] /\ call[c].at \in Holding
      BY <1>18 DEF BoxesOfCached, BoxesOfLoaded, ChangetoBoundingBox, Go, Holding
    <2> QED BY <1>5, <2>1 DEF Place, Holding
  <1>19. CASE Reply(c)
    BY <1>6, <1>19 DEF Reply
  <1> HIDE DEF Good
  <1> QED BY <1>8, <1>9, <1>10, <1>11, <1>12, <1>13, <1>14, <1>15, <1>16, <1>17, <1>18, <1>19,
            <1>20, <1>21, <1>23
          DEF CallStep, Load


\* The files and the calls keep their types.
LEMMA TypeStep == ASSUME LoaderAssumption, TypeOK, [Next]_vars PROVE TypeOK'
  <1>0. /\ Len(bodies) \in Nat /\ \A f \in File : versions[f] \in Seq(Nat)
        /\ \A f \in File : Current(f) \in Nat /\ Current(f) >= 1
    BY Numbers DEF TypeOK
  <1>1. Servants /\ bodies' \in Seq(Body) /\ Older
    BY ServantsStep, OlderStep
  <1>2. \A f \in File : versions'[f] # <<>>
    <2>1. ASSUME NEW f \in File, versions'[f] = <<>> PROVE FALSE
      <3>1. Len(versions'[f]) = 0
        BY <2>1, EmptySeq
      <3> QED BY <1>0, <1>1, <3>1 DEF Older, Current
    <2> QED BY <2>1
  <1>3. versions' \in [File -> Seq(Nat)] /\ calls' \in Nat
    <2>1. CASE \E f \in File, time \in 0 .. MaxTime : Edit(f, time)
      <3>1. PICK f \in File, time \in 0 .. MaxTime : Edit(f, time)
        BY <2>1
      <3>2. Append(versions[f], time) \in Seq(Nat)
        BY <1>0, <3>1, AppendProperties DEF LoaderAssumption
      <3> QED BY <3>1, <3>2 DEF Edit, TypeOK
    <2>2. CASE versions' = versions /\ (calls' = calls \/ calls' = calls + 1)
      BY <2>2 DEF TypeOK
    <2>3. ASSUME NEW c \in Clients, CallStep(c)
          PROVE  versions' = versions /\ (calls' = calls \/ calls' = calls + 1)
      BY <2>3 DEF CallStep, Call, Stat, Find, DateHit, Again, InlinesHit, Hit, Reread, Miss, Load,
            ReadMain, ReadInline, LoadFails,
                  StatInline, Insert, SetLastUpdateTime, BoxesOfCached, BoxesOfLoaded,
                  ChangetoBoundingBox, Reply
    <2> QED BY <2>1, <2>2, <2>3, Steps DEF ClearData, vars
  <1>4. Len(bodies)' \in Nat /\ Len(bodies) <= Len(bodies)'
    BY <1>1 DEF Servants
  <1>5. cache' \in 0 .. Len(bodies)'
    <2>1. CASE cache' = cache \/ cache' = 0
      BY <1>0, <1>4, <2>1 DEF TypeOK
    <2>2. ASSUME NEW c \in Clients, CallStep(c), cache' # cache
          PROVE  cache' = call[c].body /\ call[c].body \in 0 .. Len(bodies)
      BY <2>2 DEF CallStep, Call, Stat, Find, DateHit, Again, InlinesHit, Hit, Reread, Miss, Load,
            ReadMain, ReadInline, LoadFails,
                  StatInline, Insert, SetLastUpdateTime, BoxesOfCached, BoxesOfLoaded,
                  ChangetoBoundingBox, Reply, TypeOK
    <2>3. ASSUME NEW c \in Clients, CallStep(c) PROVE cache' \in 0 .. Len(bodies)'
      BY <1>0, <1>4, <2>1, <2>2, <2>3
    <2> QED BY <2>1, <2>3, Steps DEF ClearData, Edit, vars
  <1>6. /\ call' \in [Clients -> CallRecord(Len(bodies)')]
        /\ \A c \in Clients : call'[c].at \in Holding <=> call'[c].body # 0
    <2> DEFINE n == Len(bodies)'
    <2> HIDE DEF n
    <2>1. /\ call \in [Clients -> CallRecord(n)]
          /\ \A c \in Clients : call[c].at \in Holding <=> call[c].body # 0
      <3>1. call \in [Clients -> CallRecord(Len(bodies))]
        BY DEF TypeOK, CallRecord
      <3>2. \A r \in CallRecord(Len(bodies)) : r \in CallRecord(n)
        BY <1>0, <1>4 DEF CallRecord, n
      <3>3. \A c \in Clients : call[c].at \in Holding <=> call[c].body # 0
        BY Holders
      <3> QED BY <3>1, <3>2, <3>3
    <2>2. CASE call' = call
      BY <2>1, <2>2 DEF n
    <2>3. ASSUME NEW c \in Clients, CallStep(c)
          PROVE  /\ call' \in [Clients -> CallRecord(n)]
                 /\ \A d \in Clients : call'[d].at \in Holding <=> call'[d].body # 0
      <3>1. PICK r \in CallRecord(n) :
              call' = [call EXCEPT ![c] = r] /\ (r.at \in Holding <=> r.body # 0)
        BY <2>3, CallStepRecord DEF n
      <3> QED BY <2>1, <3>1
    <2> QED BY <2>2, <2>3, Steps DEF ClearData, Edit, vars, n
  <1>7. \A c \in Clients : call'[c].at \notin {"idle", "stat", "find", "main"} <=> call'[c].body # 0
    BY <1>6 DEF CallRecord, Place, Holding
  <1> QED BY <1>1, <1>2, <1>3, <1>5, <1>6, <1>7 DEF TypeOK, CallRecord

LEMMA TypeInit == ASSUME LoaderAssumption, Init PROVE TypeOK
  <1>1. <<1>> \in Seq(Nat) /\ <<1>> # <<>>
    OBVIOUS
  <1>2. bodies \in Seq(Body) /\ Len(bodies) = 0
    BY EmptySeq DEF Init
  <1>3. NoCall \in CallRecord(0) /\ NoCall.at = "idle"
    BY DEF NoCall, CallRecord, Place
  <1> QED BY <1>1, <1>2, <1>3 DEF Init, TypeOK, CallRecord

\* A call that has a servant, and the map, name one that was made.
THEOREM TypeCorrect == Spec => []TypeOK
  <1>1. Init => TypeOK
    BY TypeInit, LoaderAssumption
  <1>2. TypeOK /\ [Next]_vars => TypeOK'
    BY TypeStep, LoaderAssumption
  <1> QED BY <1>1, <1>2, PTL DEF Spec

-----------------------------------------------------------------------------
(* What a call returns.                                                    *)

\* A version from s on bears this time.
Seen(f, s, time) == \E k \in 1 .. Current(f) : s <= k /\ versions[f][k] = time

MainFresh(n, s) == s <= bodies[n].main \/ Ambiguous("main", bodies[n].main, bodies[n].lastUpdate)

InlineFresh(n, s) ==
  s <= bodies[n].inline \/ Ambiguous("inline", bodies[n].inline, bodies[n].inlineTime)

\* Fresh, before the reply: the time that stat gave is of a version that was there
\* when the call came or is later, and so is what the servant was read from, as
\* far as it was read, or as it was tested if it is the map's.
MainKnown == Holding \ {"compare"}
InlineKnown == MainKnown \ {"again", "included", "inline"}

CallFresh(c) ==
  /\ \A f \in File : call[c].since[f] <= Current(f)
  /\ call[c].at \in {"find", "compare"} =>
       Seen("main", call[c].since["main"], call[c].mtime)
  /\ call[c].at \in MainKnown /\ ~call[c].swapped =>
       MainFresh(call[c].body, call[c].since["main"])
  /\ call[c].at \in InlineKnown /\ ~call[c].swapped =>
       InlineFresh(call[c].body, call[c].since["inline"])

FreshInv == \A c \in Clients : CallFresh(c)

\* A servant dated by a version from s on was read from such a version, unless
\* times deceive.
LEMMA SeenIsFresh ==
  ASSUME TypeOK, NEW f \in File, NEW s \in Nat, NEW v \in Nat, NEW time, Seen(f, s, time)
  PROVE  s <= v \/ Ambiguous(f, v, time)
  <1>1. Current(f) \in Nat /\ DOMAIN versions[f] = 1 .. Current(f)
    BY Numbers
  <1>2. PICK k \in 1 .. Current(f) : s <= k /\ versions[f][k] = time
    BY DEF Seen
  <1>3. CASE k = v
    BY <1>2, <1>3
  <1>4. CASE k # v
    BY <1>1, <1>2, <1>4 DEF Ambiguous
  <1> QED BY <1>3, <1>4

\* The same after a step.
LEMMA NewNumbers ==
  ASSUME LoaderAssumption, TypeOK, [Next]_vars
  PROVE  \A f \in File : DOMAIN versions'[f] = 1 .. Current(f)'
  <1> TAKE f \in File
  <1>1. versions'[f] \in Seq(Nat)
    BY TypeStep DEF TypeOK
  <1>2. DOMAIN versions'[f] = 1 .. Len(versions'[f])
    BY <1>1, LenProperties
  <1> QED BY <1>2 DEF Current

LEMMA NewSeenIsFresh ==
  ASSUME LoaderAssumption, TypeOK, [Next]_vars,
         NEW f \in File, NEW s \in Nat, NEW v \in Nat, NEW time, Seen(f, s, time)'
  PROVE  s <= v \/ Ambiguous(f, v, time)'
  <1>1. DOMAIN versions'[f] = 1 .. Current(f)'
    BY NewNumbers
  <1>2. PICK k \in 1 .. Current(f)' : s <= k /\ versions'[f][k] = time
    BY DEF Seen
  <1>3. CASE k = v
    BY <1>2, <1>3
  <1>4. CASE k # v
    BY <1>1, <1>2, <1>4 DEF Ambiguous
  <1> QED BY <1>3, <1>4

LEMMA SeenNow ==
  ASSUME TypeOK, NEW f \in File, NEW s \in Nat, s <= Current(f)
  PROVE  Seen(f, s, Mtime(f))
  <1>1. Current(f) \in Nat /\ Current(f) >= 1
    BY Numbers
  <1> QED BY <1>1 DEF Seen, Mtime

\* No step takes any of this back.
LEMMA SeenKept ==
  ASSUME LoaderAssumption, TypeOK, [Next]_vars, NEW f \in File, NEW s \in Nat, NEW time,
         Seen(f, s, time)
  PROVE  Seen(f, s, time)'
  <1>1. /\ Current(f) \in Nat /\ Current(f)' \in Nat /\ Current(f) <= Current(f)'
        /\ \A k \in 1 .. Current(f) : versions'[f][k] = versions[f][k]
    BY OlderStep, Numbers DEF Older
  <1>2. PICK k \in 1 .. Current(f) : s <= k /\ versions[f][k] = time
    BY DEF Seen
  <1>3. k \in 1 .. Current(f)' /\ s <= k /\ versions'[f][k] = time
    BY <1>1, <1>2
  <1> QED BY <1>3 DEF Seen

LEMMA AmbiguousKept ==
  ASSUME LoaderAssumption, TypeOK, [Next]_vars, NEW f \in File, NEW v, NEW time,
         Ambiguous(f, v, time)
  PROVE  Ambiguous(f, v, time)'
  <1>1. /\ Current(f) \in Nat /\ Current(f)' \in Nat /\ Current(f) <= Current(f)'
        /\ DOMAIN versions[f] = 1 .. Current(f) /\ DOMAIN versions'[f] = 1 .. Current(f)'
        /\ \A k \in 1 .. Current(f) : versions'[f][k] = versions[f][k]
    <2>1. DOMAIN versions'[f] = 1 .. Current(f)'
      BY NewNumbers
    <2> QED BY <2>1, OlderStep, Numbers DEF Older
  <1>2. PICK k \in 1 .. Current(f) : k # v /\ versions[f][k] = time
    BY <1>1 DEF Ambiguous
  <1>3. k \in DOMAIN versions'[f] /\ k # v /\ versions'[f][k] = time
    BY <1>1, <1>2
  <1> QED BY <1>3 DEF Ambiguous

LEMMA MainKept ==
  ASSUME LoaderAssumption, TypeOK, [Next]_vars, NEW n \in 1 .. Len(bodies), NEW s \in Nat,
         s <= Current("main"), MainFresh(n, s)
  PROVE  MainFresh(n, s)'
  <1>1. /\ bodies'[n].main = bodies[n].main /\ bodies[n].main \in Nat
        /\ bodies'[n].lastUpdate = bodies[n].lastUpdate \/ bodies'[n].lastUpdate = Mtime("main")
    BY ServantsStep, Numbers DEF Servants, Body
  <1>2. CASE s <= bodies[n].main
    BY <1>1, <1>2 DEF MainFresh
  <1>3. CASE /\ Ambiguous("main", bodies[n].main, bodies[n].lastUpdate)
             /\ bodies'[n].lastUpdate = bodies[n].lastUpdate
    <2>1. PICK v, time : v = bodies[n].main /\ time = bodies[n].lastUpdate
      OBVIOUS
    <2>2. Ambiguous("main", v, time)'
      BY <1>3, <2>1, AmbiguousKept DEF File
    <2>3. v = bodies'[n].main /\ time = bodies'[n].lastUpdate
      BY <1>1, <1>3, <2>1
    <2> QED BY <2>2, <2>3 DEF MainFresh
  <1>4. CASE bodies'[n].lastUpdate = Mtime("main")
    <2>1. PICK v, time : v \in Nat /\ v = bodies[n].main /\ time = Mtime("main")
      BY <1>1
    <2>2. Seen("main", s, time)'
      BY <2>1, SeenNow, SeenKept DEF File
    <2>3. s <= v \/ Ambiguous("main", v, time)'
      BY <2>1, <2>2, NewSeenIsFresh DEF File
    <2>4. v = bodies'[n].main /\ time = bodies'[n].lastUpdate
      BY <1>1, <1>4, <2>1
    <2> QED BY <2>3, <2>4 DEF MainFresh
  <1> QED BY <1>1, <1>2, <1>3, <1>4 DEF MainFresh

LEMMA InlineKept ==
  ASSUME LoaderAssumption, TypeOK, [Next]_vars, NEW n \in 1 .. Len(bodies), NEW s \in Nat,
         s <= Current("inline"), InlineFresh(n, s)
  PROVE  InlineFresh(n, s)'
  <1>1. /\ bodies'[n].inline = bodies[n].inline \/ bodies'[n].inline = Current("inline")
        /\ bodies'[n].inlineTime = bodies[n].inlineTime \/ bodies'[n].inlineTime = Mtime("inline")
        /\ bodies'[n].inline \in Nat
    <2>1. Len(bodies') \in Nat /\ n \in 1 .. Len(bodies')
      BY ServantsStep DEF Servants
    <2>2. TypeOK'
      BY TypeStep
    <2>3. bodies'[n] \in Body
      BY <2>1, ServantsStep, ElementOfSeq
    <2> QED BY <2>3, ServantsStep DEF Servants, Body
  <1>2. CASE s <= bodies'[n].inline
    BY <1>2 DEF InlineFresh
  <1>3. CASE /\ bodies'[n].inline = bodies[n].inline
             /\ Ambiguous("inline", bodies[n].inline, bodies[n].inlineTime)
             /\ bodies'[n].inlineTime = bodies[n].inlineTime
    <2>1. PICK v, time : v = bodies[n].inline /\ time = bodies[n].inlineTime
      OBVIOUS
    <2>2. Ambiguous("inline", v, time)'
      BY <1>3, <2>1, AmbiguousKept DEF File
    <2>3. v = bodies'[n].inline /\ time = bodies'[n].inlineTime
      BY <1>3, <2>1
    <2> QED BY <2>2, <2>3 DEF InlineFresh
  <1>4. CASE bodies'[n].inlineTime = Mtime("inline")
    <2>1. PICK v, time : v \in Nat /\ v = bodies'[n].inline /\ time = Mtime("inline")
      BY <1>1
    <2>2. Seen("inline", s, time)'
      BY <2>1, SeenNow, SeenKept DEF File
    <2>3. s <= v \/ Ambiguous("inline", v, time)'
      BY <2>1, <2>2, NewSeenIsFresh DEF File
    <2>4. v = bodies'[n].inline /\ time = bodies'[n].inlineTime
      BY <1>4, <2>1
    <2> QED BY <2>3, <2>4 DEF InlineFresh
  <1> QED BY <1>1, <1>2, <1>3, <1>4 DEF InlineFresh


\* The same for the call of d, when it goes on with its servant.
SameCall(d) == call'[d].since = call[d].since

LEMMA SinceCall ==
  ASSUME LoaderAssumption, TypeOK, [Next]_vars, NEW d \in Clients, CallFresh(d),
         SameCall(d), NEW f \in File
  PROVE  call'[d].since[f] <= Current(f)'
  <1>1. Current(f) \in Nat /\ Current(f)' \in Nat /\ Current(f) <= Current(f)'
    BY Numbers, OlderStep DEF Older
  <1>2. call[d].since[f] \in Nat /\ call[d].since[f] <= Current(f)
    BY DEF TypeOK, CallFresh
  <1> QED BY <1>1, <1>2 DEF SameCall

LEMMA MainCall ==
  ASSUME LoaderAssumption, TypeOK, [Next]_vars, NEW d \in Clients, CallFresh(d),
         SameCall(d), call'[d].body = call[d].body, call[d].at \in MainKnown, ~call[d].swapped
  PROVE  MainFresh(call[d].body, call[d].since["main"])'
  <1>1. call[d].body \in 1 .. Len(bodies) /\ call[d].since["main"] \in Nat
    BY Held DEF TypeOK, File, MainKnown
  <1>2. PICK n \in 1 .. Len(bodies), s \in Nat : n = call[d].body /\ s = call[d].since["main"]
    BY <1>1
  <1>3. s <= Current("main") /\ MainFresh(n, s)
    BY <1>2 DEF CallFresh, File
  <1>4. MainFresh(n, s)'
    BY <1>3, MainKept
  <1>5. n = call'[d].body /\ s = call'[d].since["main"]
    BY <1>2 DEF SameCall
  <1> QED BY <1>4, <1>5 DEF MainFresh

LEMMA InlineCall ==
  ASSUME LoaderAssumption, TypeOK, [Next]_vars, NEW d \in Clients, CallFresh(d),
         SameCall(d), call'[d].body = call[d].body, call[d].at \in InlineKnown, ~call[d].swapped
  PROVE  InlineFresh(call[d].body, call[d].since["inline"])'
  <1>1. call[d].body \in 1 .. Len(bodies) /\ call[d].since["inline"] \in Nat
    BY Held DEF TypeOK, File, MainKnown, InlineKnown
  <1>2. PICK n \in 1 .. Len(bodies), s \in Nat : n = call[d].body /\ s = call[d].since["inline"]
    BY <1>1
  <1>3. s <= Current("inline") /\ InlineFresh(n, s)
    BY <1>2 DEF CallFresh, File
  <1>4. InlineFresh(n, s)'
    BY <1>3, InlineKept
  <1>5. n = call'[d].body /\ s = call'[d].since["inline"]
    BY <1>2 DEF SameCall
  <1> QED BY <1>4, <1>5 DEF InlineFresh

\* A call that only waits, or goes on with what it has.
LEMMA GoesOn ==
  ASSUME LoaderAssumption, TypeOK, [Next]_vars, NEW d \in Clients, CallFresh(d), SameCall(d),
         call'[d].at \in {"find", "compare"} =>
           call[d].at \in {"find", "compare"} /\ call'[d].mtime = call[d].mtime,
         call'[d].at \in MainKnown /\ ~call'[d].swapped =>
           /\ call[d].at \in MainKnown /\ ~call[d].swapped
           /\ call'[d].body = call[d].body,
         call'[d].at \in InlineKnown /\ ~call'[d].swapped => call[d].at \in InlineKnown
  PROVE  CallFresh(d)'
  <1>1. \A f \in File : call'[d].since[f] <= Current(f)'
    BY SinceCall
  <1>2. call'[d].at \in {"find", "compare"} => Seen("main", call[d].since["main"], call[d].mtime)'
    <2> HAVE call'[d].at \in {"find", "compare"}
    <2>1. call[d].since["main"] \in Nat
      BY DEF TypeOK, File
    <2>2. PICK s, time : s \in Nat /\ s = call[d].since["main"] /\ time = call[d].mtime
      BY <2>1
    <2>3. Seen("main", s, time)
      BY <2>2 DEF CallFresh
    <2>4. Seen("main", s, time)'
      BY <2>2, <2>3, SeenKept DEF File
    <2>5. s = call'[d].since["main"] /\ time = call'[d].mtime
      BY <2>2 DEF SameCall
    <2> QED BY <2>4, <2>5 DEF Seen
  <1>3. call'[d].at \in MainKnown /\ ~call'[d].swapped =>
          MainFresh(call[d].body, call[d].since["main"])'
    BY MainCall
  <1>4. call'[d].at \in InlineKnown /\ ~call'[d].swapped =>
          InlineFresh(call[d].body, call[d].since["inline"])'
    BY InlineCall DEF InlineKnown
  <1> QED BY <1>1, <1>2, <1>3, <1>4 DEF CallFresh

LEMMA FreshStep ==
  ASSUME LoaderAssumption, TypeOK, [Next]_vars, FreshInv
  PROVE  FreshInv'
  <1> USE DEF Holding, MainKnown, InlineKnown
  <1>0. /\ call \in [Clients -> CallRecord(Len(bodies))] /\ Len(bodies) \in Nat
        /\ \A f \in File : Current(f) \in Nat
    BY Numbers DEF TypeOK, CallRecord
  <1>1. ASSUME NEW d \in Clients, call'[d] = call[d] PROVE CallFresh(d)'
    BY <1>1, GoesOn DEF FreshInv, SameCall
  <1>2. ASSUME NEW c \in Clients, CallStep(c) PROVE CallFresh(c)'
    <2>0. CallFresh(c)
      BY DEF FreshInv
    <2>1. CASE \E get \in BOOLEAN, boxes \in Boxes \cup {Original} : Call(c, get, boxes)
      <3>1. call'[c].at \in {"stat", "main"} /\ call'[c].since = Both /\ versions' = versions
        BY <1>0, <2>1 DEF Call
      <3>2. \A f \in File : call'[c].since[f] <= Current(f)'
        BY <1>0, <3>1 DEF Both, Current
      <3> QED BY <3>1, <3>2 DEF CallFresh
    <2>2. CASE Stat(c)
      <3>1. /\ SameCall(c) /\ call'[c].at = "find" /\ call'[c].mtime = Mtime("main")
            /\ versions' = versions
        BY <1>0, <2>2 DEF Stat, SameCall
      <3>2. \A f \in File : call'[c].since[f] <= Current(f)'
        BY <2>0, <3>1, SinceCall
      <3>3. Seen("main", call[c].since["main"], Mtime("main"))
        <4>1. call[c].since["main"] \in Nat /\ call[c].since["main"] <= Current("main")
          BY <2>0 DEF CallFresh, TypeOK, File
        <4> QED BY <4>1, SeenNow DEF File
      <3>4. Seen("main", call[c].since["main"], call[c].mtime)'
        BY <3>1, <3>3 DEF Seen, Current, SameCall
      <3> QED BY <3>1, <3>2, <3>4 DEF CallFresh
    <2>10. CASE Find(c)
      <3>1. /\ SameCall(c) /\ call[c].at = "find" /\ call'[c].at = "compare"
            /\ call'[c].mtime = call[c].mtime
        BY <1>0, <2>10 DEF Find, SameCall
      <3> QED BY <2>0, <3>1, GoesOn
    <2>11. CASE DateHit(c)
      <3>1. /\ SameCall(c) /\ call'[c].at = "again" /\ call'[c].body = call[c].body
            /\ UNCHANGED <<versions, bodies>> /\ call[c].at = "compare"
            /\ call[c].mtime = bodies[call[c].body].lastUpdate
        BY <1>0, <2>11 DEF DateHit, SameDate, SameCall
      <3>2. bodies[call[c].body].main \in Nat /\ call[c].since["main"] \in Nat
        <4>1. bodies[call[c].body] \in Body
          BY <3>1, Held
        <4>2. call[c].since \in [File -> Nat]
          BY DEF TypeOK
        <4> QED BY <4>1, <4>2 DEF Body, File
      <3>3. Seen("main", call[c].since["main"], call[c].mtime)
        BY <2>0, <3>1 DEF CallFresh
      <3>4. MainFresh(call[c].body, call[c].since["main"])
        BY <3>1, <3>2, <3>3, SeenIsFresh DEF MainFresh, File
      <3>5. MainFresh(call[c].body, call[c].since["main"])'
        BY <3>1, <3>4 DEF MainFresh, SameCall, Ambiguous
      <3>6. \A f \in File : call'[c].since[f] <= Current(f)'
        BY <2>0, <3>1, SinceCall
      <3> QED BY <3>1, <3>5, <3>6 DEF CallFresh
    <2>12. CASE InlinesHit(c)
      <3>1. /\ SameCall(c) /\ call'[c].at = "found" /\ call'[c].body = call[c].body
            /\ call'[c].swapped = call[c].swapped
            /\ UNCHANGED <<versions, bodies>> /\ call[c].at = "included"
            /\ Mtime("inline") = bodies[call[c].body].inlineTime
        BY <1>0, <2>12 DEF InlinesHit, Go, SameInlines, SameCall
      <3>2. bodies[call[c].body].inline \in Nat /\ call[c].since["inline"] \in Nat
        <4>1. bodies[call[c].body] \in Body
          BY <3>1, Held
        <4>2. call[c].since \in [File -> Nat]
          BY DEF TypeOK
        <4> QED BY <4>1, <4>2 DEF Body, File
      <3>3. Seen("inline", call[c].since["inline"], Mtime("inline"))
        BY <2>0, <3>2, SeenNow DEF CallFresh, File
      <3>4. InlineFresh(call[c].body, call[c].since["inline"])
        BY <3>1, <3>2, <3>3, SeenIsFresh DEF InlineFresh, File
      <3>5. InlineFresh(call[c].body, call[c].since["inline"])'
        BY <3>1, <3>4 DEF InlineFresh, SameCall, Ambiguous
      <3>6. ~call'[c].swapped => MainFresh(call[c].body, call[c].since["main"])'
        BY <2>0, <3>1, MainCall
      <3>7. \A f \in File : call'[c].since[f] <= Current(f)'
        BY <2>0, <3>1, SinceCall
      <3> QED BY <3>1, <3>5, <3>6, <3>7 DEF CallFresh
    <2>13. ASSUME NEW place, Reread(c, place)
           PROVE  /\ SameCall(c) /\ call'[c].at = place
                  /\ ~call'[c].swapped => ~call[c].swapped /\ call'[c].body = call[c].body
      <3>1. PICK b \in Entry(c) :
              call' = [call EXCEPT ![c].at = place, ![c].body = b,
                                   ![c].swapped = @ \/ b # call[c].body]
        BY <2>13 DEF Reread
      <3>2. call[c] \in CallRecord(Len(bodies))
        BY <1>0
      <3>3. /\ call'[c].since = call[c].since /\ call'[c].at = place /\ call'[c].body = b
            /\ call'[c].swapped = (call[c].swapped \/ b # call[c].body)
        BY <1>0, <3>1, <3>2 DEF CallRecord
      <3> QED BY <3>3 DEF SameCall
    <2>14. CASE Again(c)
      <3>1. call[c].at = "again" /\ Reread(c, "included")
        BY <2>14 DEF Again
      <3> QED BY <2>0, <2>13, <3>1, GoesOn
    <2>3. CASE Hit(c)
      <3>1. call[c].at = "found" /\ Reread(c, AfterHit(c))
        BY <2>3 DEF Hit
      <3>2. AfterHit(c) \in {"reply", "cached"}
        BY DEF AfterHit
      <3> QED BY <2>0, <2>13, <3>1, <3>2, GoesOn
    <2>4. CASE Miss(c)
      <3>1. SameCall(c) /\ call'[c].at = "main"
        BY <1>0, <2>4 DEF Miss, SameCall
      <3> QED BY <2>0, <3>1, GoesOn
    <2>5. CASE ReadMain(c)
      <3> DEFINE b == [main |-> Current("main"), inline |-> 0, lastUpdate |-> 0,
                       inlineTime |-> 0, shapes |-> Original, born |-> Both]
                 n == Len(bodies) + 1
      <3>1. /\ SameCall(c) /\ call'[c].at = "inline" /\ call'[c].body = n
            /\ bodies' = Append(bodies, b)
        BY <1>0, <2>5 DEF ReadMain, SameCall
      <3>2. b \in Body /\ bodies \in Seq(Body) /\ b.main = Current("main")
        BY Numbers DEF Body, File, TypeOK
      <3> HIDE DEF b
      <3>3. bodies'[n] = b
        BY <3>1, <3>2, AppendProperties
      <3> HIDE DEF n
      <3>4. call[c].since["main"] <= Current("main")
        BY <2>0 DEF CallFresh, File
      <3>5. MainFresh(call[c].body, call[c].since["main"])'
        BY <3>1, <3>2, <3>3, <3>4 DEF MainFresh, SameCall
      <3>6. \A f \in File : call'[c].since[f] <= Current(f)'
        BY <2>0, <3>1, SinceCall
      <3> QED BY <3>1, <3>5, <3>6 DEF CallFresh
    <2>6. CASE ReadInline(c)
      <3>1. /\ SameCall(c) /\ call'[c].at = "times" /\ call[c].at = "inline"
            /\ call'[c].body = call[c].body /\ call'[c].swapped = call[c].swapped
            /\ bodies' = [bodies EXCEPT ![call[c].body].inline = Current("inline")]
        BY <1>0, <2>6 DEF ReadInline, Go, SameCall
      <3>2. call[c].body \in DOMAIN bodies /\ bodies[call[c].body] \in Body
        BY <3>1, Held, LenProperties DEF TypeOK
      <3>3. bodies'[call[c].body].inline = Current("inline")
        BY <3>1, <3>2 DEF Body
      <3>4. call[c].since["inline"] <= Current("inline")
        BY <2>0 DEF CallFresh, File
      <3>5. InlineFresh(call[c].body, call[c].since["inline"])'
        BY <3>1, <3>3, <3>4 DEF InlineFresh, SameCall
      <3>6. ~call'[c].swapped => MainFresh(call[c].body, call[c].since["main"])'
        BY <2>0, <3>1, MainCall
      <3>7. \A f \in File : call'[c].since[f] <= Current(f)'
        BY <2>0, <3>1, SinceCall
      <3> QED BY <3>1, <3>5, <3>6, <3>7 DEF CallFresh
    <2>7. CASE LoadFails(c) \/ Reply(c)
      <3>1. call'[c] = NoCall /\ versions' = versions
        BY <1>0, <2>7 DEF LoadFails, Reply
      <3>2. \A f \in File : Current(f) >= 1
        BY Numbers
      <3>3. \A f \in File : call'[c].since[f] <= Current(f)'
        BY <1>0, <3>1, <3>2 DEF NoCall, Current
      <3> QED BY <3>1, <3>3 DEF CallFresh, NoCall
    <2>8. ASSUME NEW place \in {"insert", "date", "boxes", "reply"}, Go(c, place),
                 call[c].at \in InlineKnown
          PROVE  CallFresh(c)'
      <3>1. /\ SameCall(c) /\ call'[c].body = call[c].body /\ call'[c].at = place
            /\ call'[c].swapped = call[c].swapped
        BY <1>0, <2>8 DEF Go, SameCall
      <3> QED BY <2>0, <2>8, <3>1, GoesOn
    <2>9. CASE \/ StatInline(c) \/ Insert(c) \/ SetLastUpdateTime(c)
               \/ BoxesOfCached(c) \/ BoxesOfLoaded(c)
      <3>1. AfterLoad(c) \in {"reply", "boxes"}
        BY DEF AfterLoad
      <3> QED BY <2>8, <2>9, <3>1 DEF StatInline, Insert, SetLastUpdateTime, BoxesOfCached,
                                      BoxesOfLoaded, ChangetoBoundingBox
    <2> QED BY <1>2, <2>1, <2>2, <2>3, <2>4, <2>5, <2>6, <2>7, <2>9,
               <2>10, <2>11, <2>12, <2>14 DEF CallStep, Load
  <1>3. ASSUME NEW c \in Clients, CallStep(c), NEW d \in Clients, d # c PROVE call'[d] = call[d]
    <2>1. PICK r : call' = [call EXCEPT ![c] = r]
      BY <1>3, CallStepRecord
    <2> QED BY <1>0, <1>3, <2>1
  <1> QED BY <1>1, <1>2, <1>3, Steps DEF FreshInv, ClearData, Edit, vars

LEMMA FreshInit == ASSUME Init PROVE FreshInv
  <1> SUFFICES ASSUME NEW c \in Clients PROVE CallFresh(c)
    BY DEF FreshInv
  <1>1. \A f \in File : Current(f) = 1
    BY DEF Init, Current
  <1>2. call[c].at = "idle" /\ \A f \in File : call[c].since[f] = 1
    BY DEF Init, NoCall
  <1> QED BY <1>1, <1>2 DEF CallFresh, Holding, MainKnown, InlineKnown

\* What a call returns was read from files that were there when it came, or later,
\* unless times deceive.
THEOREM ModelsAreFresh == Spec => []Fresh
  <1>1. Init => FreshInv
    BY FreshInit
  <1>2. TypeOK /\ FreshInv /\ [Next]_vars => FreshInv'
    BY FreshStep, LoaderAssumption
  <1>3. FreshInv => Fresh
    BY DEF FreshInv, Fresh, CallFresh, MainFresh, InlineFresh, Holding, MainKnown,
           InlineKnown
  <1> QED BY <1>1, <1>2, <1>3, TypeCorrect, PTL DEF Spec

-----------------------------------------------------------------------------
(* The cache serves.                                                       *)

InlineDated(n) == Seen("inline", bodies[n].born["inline"], bodies[n].inlineTime)
MainDated(n) == Seen("main", bodies[n].born["main"], bodies[n].lastUpdate)

BornInv == \A n \in 1 .. Len(bodies) : \A f \in File : bodies[n].born[f] <= Current(f)

\* A servant that got into the map is dated by versions that were there when its
\* load began or are later, or will be.
Settled(n) ==
  /\ InlineDated(n)
  /\ MainDated(n) \/ \E c \in Clients : call[c].at = "date" /\ call[c].body = n

Looking == {"compare", "again", "included", "found"}

DatedInv ==
  /\ BornInv
  /\ \A c \in Clients : call[c].at \in {"insert", "date"} => InlineDated(call[c].body)
  /\ cache # 0 => Settled(cache)
  /\ \A c \in Clients : call[c].at \in Looking => Settled(call[c].body)

LEMMA InlineDatedKept ==
  ASSUME LoaderAssumption, TypeOK, [Next]_vars, BornInv, NEW n \in 1 .. Len(bodies),
         InlineDated(n) \/ bodies'[n].inlineTime = Mtime("inline")
  PROVE  InlineDated(n)'
  <1>1. bodies[n].born["inline"] \in Nat /\ bodies[n].born["inline"] <= Current("inline")
    BY Numbers DEF BornInv, Body, File
  <1>2. PICK s, time : s \in Nat /\ s = bodies[n].born["inline"] /\ time = bodies'[n].inlineTime
    BY <1>1
  <1>3. Seen("inline", s, time)
    <2>1. CASE bodies'[n].inlineTime = Mtime("inline")
      BY <1>1, <1>2, <2>1, SeenNow DEF File
    <2>2. CASE bodies'[n].inlineTime = bodies[n].inlineTime /\ InlineDated(n)
      BY <1>2, <2>2 DEF InlineDated
    <2> QED BY <2>1, <2>2, ServantsStep DEF Servants
  <1>4. Seen("inline", s, time)'
    BY <1>2, <1>3, SeenKept DEF File
  <1>5. s = bodies'[n].born["inline"]
    BY <1>2, ServantsStep DEF Servants
  <1> QED BY <1>2, <1>4, <1>5 DEF InlineDated

LEMMA MainDatedKept ==
  ASSUME LoaderAssumption, TypeOK, [Next]_vars, BornInv, NEW n \in 1 .. Len(bodies),
         MainDated(n) \/ bodies'[n].lastUpdate = Mtime("main")
  PROVE  MainDated(n)'
  <1>1. bodies[n].born["main"] \in Nat /\ bodies[n].born["main"] <= Current("main")
    BY Numbers DEF BornInv, Body, File
  <1>2. PICK s, time : s \in Nat /\ s = bodies[n].born["main"] /\ time = bodies'[n].lastUpdate
    BY <1>1
  <1>3. Seen("main", s, time)
    <2>1. CASE bodies'[n].lastUpdate = Mtime("main")
      BY <1>1, <1>2, <2>1, SeenNow DEF File
    <2>2. CASE bodies'[n].lastUpdate = bodies[n].lastUpdate /\ MainDated(n)
      BY <1>2, <2>2 DEF MainDated
    <2> QED BY <2>1, <2>2, ServantsStep DEF Servants
  <1>4. Seen("main", s, time)'
    BY <1>2, <1>3, SeenKept DEF File
  <1>5. s = bodies'[n].born["main"]
    BY <1>2, ServantsStep DEF Servants
  <1> QED BY <1>2, <1>4, <1>5 DEF MainDated

LEMMA SameInterval == ASSUME NEW m \in Nat, NEW n \in Nat, 1 .. m = 1 .. n PROVE m = n
  <1>1. m <= n
    <2>1. CASE m = 0
      BY <2>1
    <2>2. CASE m # 0
      <3>1. m \in 1 .. m
        BY <2>2
      <3> QED BY <3>1
    <2> QED BY <2>1, <2>2
  <1>2. n <= m
    <2>1. CASE n = 0
      BY <2>1
    <2>2. CASE n # 0
      <3>1. n \in 1 .. n
        BY <2>2
      <3> QED BY <3>1
    <2> QED BY <2>1, <2>2
  <1> QED BY <1>1, <1>2

LEMMA BornStep ==
  ASSUME LoaderAssumption, TypeOK, [Next]_vars, BornInv
  PROVE  BornInv'
  <1>1. /\ \A f \in File : Current(f) \in Nat /\ Current(f)' \in Nat /\ Current(f) <= Current(f)'
        /\ Len(bodies) \in Nat /\ Len(bodies)' \in Nat /\ Len(bodies) <= Len(bodies)'
    BY Numbers, OlderStep, ServantsStep DEF Older, Servants
  <1>2. ASSUME NEW n \in 1 .. Len(bodies), NEW f \in File
        PROVE  bodies'[n].born[f] <= Current(f)'
    <2>1. bodies[n].born[f] \in Nat /\ bodies[n].born[f] <= Current(f)
      BY Numbers DEF BornInv, Body
    <2>2. bodies'[n].born = bodies[n].born
      BY ServantsStep DEF Servants
    <2> QED BY <1>1, <2>1, <2>2
  <1>3. CASE Len(bodies') = Len(bodies)
    BY <1>2, <1>3 DEF BornInv
  <1>4. CASE Len(bodies') # Len(bodies)
    <2>1. ASSUME NEW c \in Clients, ReadMain(c) PROVE BornInv'
      <3> DEFINE b == [main |-> Current("main"), inline |-> 0, lastUpdate |-> 0,
                       inlineTime |-> 0, shapes |-> Original, born |-> Both]
      <3>1. bodies' = Append(bodies, b) /\ versions' = versions
        BY <2>1 DEF ReadMain
      <3>2. b \in Body /\ bodies \in Seq(Body) /\ b.born = Both
        BY Numbers DEF Body, File, TypeOK
      <3> HIDE DEF b
      <3>3. Len(bodies') = Len(bodies) + 1 /\ bodies'[Len(bodies) + 1] = b
        BY <3>1, <3>2, AppendProperties
      <3>4. ASSUME NEW n \in 1 .. Len(bodies'), NEW f \in File
            PROVE  bodies'[n].born[f] <= Current(f)'
        <4>1. n \in 1 .. Len(bodies) \/ n = Len(bodies) + 1
          BY <1>1, <3>3
        <4>2. CASE n = Len(bodies) + 1
          <5>1. bodies'[n].born = Both
            BY <3>2, <3>3, <4>2
          <5> QED BY <1>1, <5>1 DEF Both
        <4> QED BY <1>2, <4>1, <4>2
      <3> QED BY <3>4 DEF BornInv
    <2>2. ASSUME NEW c \in Clients, CallStep(c), ~ReadMain(c) PROVE Len(bodies') = Len(bodies)
      <3>1. ASSUME \/ \E get \in BOOLEAN, boxes \in Boxes \cup {Original} : Call(c, get, boxes)
                   \/ Stat(c) \/ Find(c) \/ DateHit(c) \/ Again(c) \/ InlinesHit(c) \/ Hit(c)
                   \/ Miss(c) \/ LoadFails(c) \/ Insert(c) \/ Reply(c)
            PROVE  bodies' = bodies
        BY <3>1 DEF Call, Stat, Find, DateHit, Again, InlinesHit, Hit, Reread, Miss,
                   LoadFails, Insert, Reply
      <3>2. CASE \/ ReadInline(c) \/ StatInline(c) \/ SetLastUpdateTime(c)
                 \/ BoxesOfCached(c) \/ BoxesOfLoaded(c)
        <4>1. PICK n, b : bodies' = [bodies EXCEPT ![n] = b]
          BY <3>2, Boxed DEF ReadInline, StatInline, SetLastUpdateTime, ChangetoBoundingBox
        <4>2. bodies' \in Seq(Body) /\ bodies \in Seq(Body) /\ DOMAIN bodies' = DOMAIN bodies
          BY <4>1, ServantsStep DEF TypeOK
        <4>3. DOMAIN bodies' = 1 .. Len(bodies') /\ DOMAIN bodies = 1 .. Len(bodies)
          BY <4>2, LenProperties
        <4>4. Len(bodies') \in Nat /\ Len(bodies) \in Nat
          BY <1>1
        <4> QED BY <4>2, <4>3, <4>4, SameInterval
      <3> QED BY <2>2, <3>1, <3>2 DEF CallStep, Load
    <2> QED BY <1>4, <2>1, <2>2, Steps DEF ClearData, Edit, vars
  <1> QED BY <1>3, <1>4

LEMMA SettledKept ==
  ASSUME LoaderAssumption, TypeOK, [Next]_vars, BornInv, NEW n \in 1 .. Len(bodies), Settled(n)
  PROVE  Settled(n)'
  <1>1. call \in [Clients -> CallRecord(Len(bodies))]
    BY DEF TypeOK, CallRecord
  <1>2. InlineDated(n)'
    BY InlineDatedKept DEF Settled
  <1>3. CASE MainDated(n)
    <2>1. MainDated(n)'
      BY <1>3, MainDatedKept
    <2> QED BY <1>2, <2>1 DEF Settled
  <1>4. CASE \E c \in Clients : call[c].at = "date" /\ call[c].body = n
    <2>1. PICK c \in Clients : call[c].at = "date" /\ call[c].body = n
      BY <1>4
    <2>2. CASE call'[c] = call[c]
      BY <1>2, <2>1, <2>2 DEF Settled
    <2>3. CASE SetLastUpdateTime(c)
      <3>1. n \in DOMAIN bodies /\ bodies[n] \in Body
        BY Numbers, LenProperties DEF TypeOK
      <3>2. bodies'[n].lastUpdate = Mtime("main")
        BY <2>1, <2>3, <3>1 DEF SetLastUpdateTime, Body
      <3>3. MainDated(n)'
        BY <3>2, MainDatedKept
      <3> QED BY <1>2, <3>3 DEF Settled
    <2>4. CallStep(c) => SetLastUpdateTime(c)
      BY <2>1 DEF CallStep, Call, Stat, Find, DateHit, Again, InlinesHit, Hit, Reread, Miss, Load,
            ReadMain, ReadInline, LoadFails,
                  StatInline, Insert, BoxesOfCached, BoxesOfLoaded, ChangetoBoundingBox, Reply
    <2>5. ASSUME NEW b \in Clients, CallStep(b), b # c PROVE call'[c] = call[c]
      <3>1. PICK r : call' = [call EXCEPT ![b] = r]
        BY <2>5, CallStepRecord
      <3> QED BY <1>1, <2>5, <3>1
    <2> QED BY <2>2, <2>3, <2>4, <2>5, Steps DEF ClearData, Edit, vars
  <1> QED BY <1>3, <1>4 DEF Settled

LEMMA DatedStep ==
  ASSUME LoaderAssumption, TypeOK, [Next]_vars, DatedInv
  PROVE  DatedInv'
  <1>0. /\ call \in [Clients -> CallRecord(Len(bodies))] /\ Len(bodies) \in Nat
        /\ cache \in 0 .. Len(bodies) /\ BornInv
    BY Numbers DEF TypeOK, CallRecord, DatedInv
  <1>1. ASSUME NEW d \in Clients, call'[d].at \in {"insert", "date"}
        PROVE  InlineDated(call[d].body)'
    <2>1. CASE call'[d] = call[d]
      <3>1. call[d].body \in 1 .. Len(bodies) /\ InlineDated(call[d].body)
        BY <1>1, <2>1, Held DEF DatedInv, Holding
      <3>2. PICK n \in 1 .. Len(bodies) : n = call[d].body
        BY <3>1
      <3>3. InlineDated(n)'
        BY <1>0, <3>1, <3>2, InlineDatedKept
      <3> QED BY <2>1, <3>2, <3>3 DEF InlineDated
    <2>2. CASE StatInline(d) \/ Insert(d)
      <3>1. /\ call'[d].body = call[d].body /\ call[d].at \in Holding
            /\ call[d].at = "insert" \/ StatInline(d)
        BY <1>0, <2>2 DEF StatInline, Insert, Go, Holding, CallRecord
      <3>2. call[d].body \in 1 .. Len(bodies)
        BY <3>1, Held
      <3>3. PICK n \in 1 .. Len(bodies) : n = call[d].body
        BY <3>2
      <3>4. InlineDated(n) \/ bodies'[n].inlineTime = Mtime("inline")
        <4>1. CASE StatInline(d)
          <5>1. n \in DOMAIN bodies /\ bodies[n] \in Body
            BY Numbers, LenProperties DEF TypeOK
          <5> QED BY <3>3, <4>1, <5>1 DEF StatInline, Body
        <4>2. CASE call[d].at = "insert"
          BY <3>3, <4>2 DEF DatedInv
        <4> QED BY <3>1, <4>1, <4>2
      <3>5. InlineDated(n)'
        BY <1>0, <3>4, InlineDatedKept
      <3> QED BY <3>1, <3>3, <3>5 DEF InlineDated
    <2>3. ASSUME NEW c \in Clients, CallStep(c), c # d PROVE call'[d] = call[d]
      <3>1. PICK r : call' = [call EXCEPT ![c] = r]
        BY <2>3, CallStepRecord
      <3> QED BY <1>0, <2>3, <3>1
    <2>4. ASSUME CallStep(d), ~StatInline(d), ~Insert(d) PROVE FALSE
      <3>1. AfterLoad(d) \in {"reply", "boxes"} /\ AfterHit(d) \in {"reply", "cached"}
        BY DEF AfterLoad, AfterHit
      <3>2. ASSUME NEW place, place \notin {"insert", "date"} PROVE ~Go(d, place)
        BY <1>0, <1>1, <3>2 DEF Go, CallRecord
      <3>3. ~Stat(d) /\ ~Find(d) /\ ~DateHit(d) /\ ~Miss(d) /\ ~ReadMain(d)
        BY <1>0, <1>1 DEF Stat, Find, DateHit, Miss, ReadMain, CallRecord
      <3>7. ASSUME NEW place, place \notin {"insert", "date"} PROVE ~Reread(d, place)
        <4>1. ASSUME NEW b,
                     call' = [call EXCEPT ![d].at = place, ![d].body = b,
                                          ![d].swapped = @ \/ b # call[d].body]
              PROVE  call'[d].at = place
          BY <1>0, <4>1 DEF CallRecord
        <4> QED BY <1>1, <3>7, <4>1 DEF Reread
      <3>8. ~Again(d) /\ ~InlinesHit(d) /\ ~Hit(d)
        BY <3>1, <3>2, <3>7 DEF Again, InlinesHit, Hit
      <3>4. ~ReadInline(d) /\ ~SetLastUpdateTime(d) /\ ~BoxesOfCached(d) /\ ~BoxesOfLoaded(d)
        BY <3>1, <3>2 DEF ReadInline, SetLastUpdateTime, BoxesOfCached, BoxesOfLoaded,
                          ChangetoBoundingBox
      <3>5. ~LoadFails(d) /\ ~Reply(d)
        BY <1>0, <1>1 DEF LoadFails, Reply, NoCall
      <3>6. ~\E get \in BOOLEAN, boxes \in Boxes \cup {Original} : Call(d, get, boxes)
        BY <1>0, <1>1 DEF Call
      <3> QED BY <2>4, <3>3, <3>4, <3>5, <3>6, <3>8 DEF CallStep, Load
    <2> QED BY <2>1, <2>2, <2>3, <2>4, Steps DEF ClearData, Edit, vars
  <1>3. ASSUME NEW c \in Clients, Insert(c)
        PROVE  call'[c].at = "date" /\ call'[c].body = cache'
    BY <1>0, <1>3 DEF Insert, Go
  <1>4. cache' # 0 => Settled(cache)'
    <2> HAVE cache' # 0
    <2>1. CASE cache' = cache
      <3>1. PICK n \in 1 .. Len(bodies) : n = cache
        BY <1>0, <2>1
      <3>2. Settled(n)'
        BY <1>0, <2>1, <3>1, SettledKept DEF DatedInv
      <3> QED BY <2>1, <3>1, <3>2 DEF Settled, InlineDated, MainDated
    <2>2. ASSUME NEW c \in Clients, Insert(c) PROVE Settled(cache)'
      <3>1. InlineDated(call[c].body)'
        BY <1>1, <1>3, <2>2
      <3> QED BY <1>3, <2>2, <3>1 DEF Settled, InlineDated
    <2>3. ASSUME NEW c \in Clients, CallStep(c), ~Insert(c) PROVE cache' = cache
      BY <2>3 DEF CallStep, Call, Stat, Find, DateHit, Again, InlinesHit, Hit, Reread, Miss, Load,
                  ReadMain, ReadInline, LoadFails, StatInline, SetLastUpdateTime, BoxesOfCached,
                  BoxesOfLoaded, ChangetoBoundingBox, Reply
    <2> QED BY <2>1, <2>2, <2>3, Steps DEF ClearData, Edit, vars
  <1>5. BornInv'
    BY <1>0, BornStep
  <1>6. ASSUME NEW d \in Clients, call'[d].at \in Looking PROVE Settled(call[d].body)'
    <2>1. ASSUME \/ call'[d].body = cache
                 \/ call'[d].body = call[d].body /\ call[d].at \in Looking,
                 call'[d].body # 0
          PROVE  Settled(call[d].body)'
      <3>1. call'[d].body \in 1 .. Len(bodies) /\ Settled(call'[d].body)
        BY <1>0, <2>1, Held DEF DatedInv, Looking, Holding
      <3>2. PICK n \in 1 .. Len(bodies) : n = call'[d].body
        BY <3>1
      <3>3. Settled(n)'
        BY <1>0, <3>1, <3>2, SettledKept
      <3> QED BY <3>2, <3>3 DEF Settled, InlineDated, MainDated
    <2>2. CASE call'[d] = call[d]
      <3>1. call[d].body # 0
        BY <1>6, <2>2, Held DEF Looking, Holding
      <3> QED BY <1>6, <2>1, <2>2, <3>1
    <2>3. CASE Find(d)
      <3>1. call'[d].body = cache /\ cache # 0
        BY <1>0, <2>3 DEF Find, CallRecord
      <3> QED BY <2>1, <3>1
    <2>4. CASE DateHit(d) \/ InlinesHit(d)
      <3>1. call'[d].body = call[d].body /\ call[d].at \in Looking
        BY <1>0, <2>4 DEF DateHit, InlinesHit, Go, Looking, CallRecord
      <3>2. call[d].body # 0
        BY <3>1, Held DEF Looking, Holding
      <3> QED BY <2>1, <3>1, <3>2
    <2>5. CASE Again(d)
      <3>1. PICK b \in Entry(d) :
              call' = [call EXCEPT ![d].at = "included", ![d].body = b,
                                   ![d].swapped = @ \/ b # call[d].body]
        BY <2>5 DEF Again, Reread
      <3>2. call'[d].body = b /\ call[d].at \in Looking
        BY <1>0, <2>5, <3>1 DEF Again, Looking, CallRecord
      <3>3. b # 0 /\ (b = cache \/ b = call[d].body)
        BY <3>1 DEF Entry
      <3> QED BY <2>1, <3>2, <3>3
    <2>6. ASSUME NEW c \in Clients, CallStep(c), c # d PROVE call'[d] = call[d]
      <3>1. PICK r : call' = [call EXCEPT ![c] = r]
        BY <2>6, CallStepRecord
      <3> QED BY <1>0, <2>6, <3>1
    <2>7. ASSUME CallStep(d), ~Find(d), ~DateHit(d), ~InlinesHit(d), ~Again(d) PROVE FALSE
      <3>1. AfterLoad(d) \in {"reply", "boxes"} /\ AfterHit(d) \in {"reply", "cached"}
        BY DEF AfterLoad, AfterHit
      <3>2. ASSUME NEW place, place \notin Looking PROVE ~Go(d, place) /\ ~Reread(d, place)
        <4>1. ASSUME NEW b,
                     call' = [call EXCEPT ![d].at = place, ![d].body = b,
                                          ![d].swapped = @ \/ b # call[d].body]
              PROVE  call'[d].at = place
          BY <1>0, <4>1 DEF CallRecord
        <4>2. ~Reread(d, place)
          BY <1>6, <3>2, <4>1 DEF Reread
        <4>3. ~Go(d, place)
          BY <1>0, <1>6, <3>2 DEF Go, CallRecord
        <4> QED BY <4>2, <4>3
      <3>3. ~Stat(d) /\ ~Miss(d) /\ ~ReadMain(d)
        BY <1>0, <1>6 DEF Stat, Miss, ReadMain, CallRecord, Looking
      <3>4. ~ReadInline(d) /\ ~SetLastUpdateTime(d) /\ ~BoxesOfCached(d) /\ ~BoxesOfLoaded(d)
        BY <3>1, <3>2 DEF ReadInline, SetLastUpdateTime, BoxesOfCached, BoxesOfLoaded,
                          ChangetoBoundingBox, Looking
      <3>5. ~Hit(d) /\ ~StatInline(d) /\ ~Insert(d)
        BY <3>1, <3>2 DEF Hit, StatInline, Insert, Looking
      <3>6. ~LoadFails(d) /\ ~Reply(d)
        BY <1>0, <1>6 DEF LoadFails, Reply, NoCall, Looking
      <3>7. ~\E get \in BOOLEAN, boxes \in Boxes \cup {Original} : Call(d, get, boxes)
        BY <1>0, <1>6 DEF Call, Looking
      <3> QED BY <2>7, <3>3, <3>4, <3>5, <3>6, <3>7 DEF CallStep, Load
    <2> QED BY <2>2, <2>3, <2>4, <2>5, <2>6, <2>7, Steps DEF ClearData, Edit, vars
  <1> QED BY <1>1, <1>4, <1>5, <1>6 DEF DatedInv

\* Such a get does not turn its servant down.
LEMMA Serves ==
  ASSUME LoaderAssumption, TypeOK, FreshInv, DatedInv, NEW c \in Clients, Miss(c),
         Intact(call[c].body), call[c].since = Both
  PROVE  FALSE
  <1> DEFINE n == call[c].body
  <1>0. /\ n # 0 /\ bodies[n].born = Both
        /\ \A d \in Clients : call[d].at = "date" => call[d].body # n
    BY DEF Intact
  <1>1. call[c].at \in {"compare", "included"}
    BY <1>0 DEF Miss, TypeOK
  <1>2. /\ Seen("main", Both["main"], bodies[n].lastUpdate)
        /\ Seen("inline", Both["inline"], bodies[n].inlineTime)
        /\ call[c].at = "compare" => Seen("main", Both["main"], call[c].mtime)
    <2>1. Settled(n)
      BY <1>1 DEF DatedInv, Looking
    <2> QED BY <1>0, <2>1 DEF Settled, MainDated, InlineDated, FreshInv, CallFresh
  <1>3. ASSUME NEW f \in File, NEW time, Seen(f, Both[f], time) PROVE time = Mtime(f)
    <2>1. Current(f) \in Nat /\ Both[f] = Current(f)
      BY Numbers DEF Both
    <2>2. PICK k \in 1 .. Current(f) : Both[f] <= k /\ versions[f][k] = time
      BY <1>3 DEF Seen
    <2>3. k = Current(f)
      BY <2>1, <2>2
    <2> QED BY <2>2, <2>3 DEF Mtime
  <1>4. /\ bodies[n].lastUpdate = Mtime("main") /\ bodies[n].inlineTime = Mtime("inline")
        /\ call[c].at = "compare" => call[c].mtime = Mtime("main")
    BY <1>2, <1>3 DEF File
  <1> QED BY <1>1, <1>4 DEF Miss, SameDate, SameInlines

\* While no file changes, a get that comes after a load is answered from the map.
THEOREM CacheServes == Spec => Reused
  <1>1. Init => FreshInv /\ DatedInv
    <2> SUFFICES ASSUME Init PROVE FreshInv /\ DatedInv
      OBVIOUS
    <2>1. FreshInv
      BY FreshInit
    <2>2. Len(bodies) = 0 /\ cache = 0 /\ \A c \in Clients : call[c].at = "idle"
      BY EmptySeq DEF Init, NoCall
    <2> QED BY <2>1, <2>2 DEF DatedInv, BornInv, Looking
  <1>2. TypeOK /\ FreshInv /\ DatedInv /\ [Next]_vars => FreshInv' /\ DatedInv'
    BY FreshStep, DatedStep, LoaderAssumption
  <1>3. TypeOK /\ FreshInv /\ DatedInv /\ [Next]_vars
        => [\A c \in Clients : Miss(c) => ~(Intact(call[c].body) /\ call[c].since = Both)]_vars
    BY Serves, LoaderAssumption
  <1> QED BY <1>1, <1>2, <1>3, TypeCorrect, PTL DEF Spec, Reused

=============================================================================
