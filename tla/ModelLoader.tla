---------------------------- MODULE ModelLoader ----------------------------
(***************************************************************************)
(* The cache of the model loader.  ModelLoader_impl keeps for each URL the *)
(* BodyInfo servant it loaded last, with the modification time of the file *)
(* and of the files it includes, and hands it out again while these times  *)
(* have not changed.                                                       *)
(*                                                                         *)
(* Files are read, and their times are asked for, at different moments,    *)
(* and the ORB serves the calls of several clients at once.  Times are in  *)
(* whole seconds, so that two versions of a file may bear the same.        *)
(*                                                                         *)
(* The module is about one URL: its file ("main") and one file that        *)
(* includes an Inline node of it ("inline").  Entries of other URLs do not *)
(* meet it.                                                                *)
(***************************************************************************)
EXTENDS Integers, Sequences

CONSTANTS
  Clients,    \* the clients; each has one call in progress
  Boxes,      \* the AABBdata a client may ask for
  Original,   \* the shapes of the files
  MaxTime,    \* bound: the modification times are 1 .. MaxTime
  MaxEdits,   \* bound: changes of files
  MaxCalls    \* bound: calls

ASSUME LoaderAssumption ==
  /\ Original \notin Boxes
  /\ MaxTime \in Nat \ {0}
  /\ MaxEdits \in Nat
  /\ MaxCalls \in Nat

File == {"main", "inline"}

VARIABLES
  versions,  \* of each file: the modification times of its versions; 0 stands
             \* for a version that is not there (stat fails, mtime stays 0)
  bodies,    \* the servants made so far
  cache,     \* urlToBodyInfoMap[url]; 0 if there is none
  call,      \* the call of each client
  calls      \* calls so far

vars == <<versions, bodies, cache, call, calls>>

Current(f) == Len(versions[f])
Both == [f \in File |-> Current(f)]
Mtime(f) == versions[f][Current(f)]

\* since: the versions there were when the call came; swapped: the entry of the map
\* held another servant when it was read again.  No code reads these two.
NoCall == [at |-> "idle", boxes |-> Original, mtime |-> 0, body |-> 0, swapped |-> FALSE,
           since |-> [f \in File |-> 1]]

Init ==
  /\ versions = [f \in File |-> <<1>>]
  /\ bodies = <<>>
  /\ cache = 0
  /\ call = [c \in Clients |-> NoCall]
  /\ calls = 0

-----------------------------------------------------------------------------
(* The files.                                                              *)

\* Someone writes a file, copies an older one over it, or removes it.
Edit(f, time) ==
  /\ Current("main") + Current("inline") < 2 + MaxEdits
  /\ versions' = [versions EXCEPT ![f] = Append(@, time)]
  /\ UNCHANGED <<bodies, cache, call, calls>>

-----------------------------------------------------------------------------
(* The calls: getBodyInfo, getBodyInfoEx, loadBodyInfo, loadBodyInfoEx.    *)

\* The call of c goes on to the given place.
Go(c, place) == call' = [call EXCEPT ![c].at = place]

\* get tells getBodyInfo(Ex) from loadBodyInfo(Ex); without AABBdata boxes is
\* Original.
Call(c, get, boxes) ==
  /\ call[c].at = "idle"
  /\ calls < MaxCalls
  /\ calls' = calls + 1
  /\ call' = [call EXCEPT ![c] =
       [at |-> IF get THEN "stat" ELSE "main", boxes |-> boxes, mtime |-> 0,
        body |-> 0, swapped |-> FALSE, since |-> Both]]
  /\ UNCHANGED <<versions, bodies, cache>>

\* getBodyInfoEx asks for the time of the file,
Stat(c) ==
  /\ call[c].at = "stat"
  /\ call' = [call EXCEPT ![c].at = "find", ![c].mtime = Mtime("main")]
  /\ UNCHANGED <<versions, bodies, cache, calls>>

\* and looks into the map.  What it finds is an iterator: the servant is read from
\* the entry once for the date, once more for the included files, and again for
\* the reference.
Find(c) ==
  /\ call[c].at = "find"
  /\ cache # 0
  /\ call' = [call EXCEPT ![c].at = "compare", ![c].body = cache]
  /\ UNCHANGED <<versions, bodies, cache, calls>>

\* Mutant of Entry: what was read before is not used.
Entry_MapOnly(c) == {cache}

\* A later read may meet another servant, which a load has put into the entry in
\* the meantime.  If the map was cleared the entry is gone, and what was read
\* before is used.
Entry(c) == {cache, call[c].body} \ {0}

\* The servant is read from the entry again.
Reread(c, place) ==
  /\ \E b \in Entry(c) :
       call' = [call EXCEPT ![c].at = place, ![c].body = b, ![c].swapped = @ \/ b # call[c].body]
  /\ UNCHANGED <<versions, bodies, cache, calls>>

SameDate(c) == call[c].mtime = bodies[call[c].body].lastUpdate

\* Mutant of SameInlines: the included files are not looked at.
SameInlines_Any(c) == TRUE

\* checkInlineFileUpdateTime asks for the times of the files that were included.
SameInlines(c) == Mtime("inline") = bodies[call[c].body].inlineTime

DateHit(c) ==
  /\ call[c].at = "compare"
  /\ SameDate(c)
  /\ call' = [call EXCEPT ![c].at = "again", ![c].mtime = 0]
  /\ UNCHANGED <<versions, bodies, cache, calls>>

Again(c) ==
  /\ call[c].at = "again"
  /\ Reread(c, "included")

InlinesHit(c) ==
  /\ call[c].at = "included"
  /\ SameInlines(c)
  /\ Go(c, "found")
  /\ UNCHANGED <<versions, bodies, cache, calls>>

AfterHit(c) == IF call[c].boxes = Original THEN "reply" ELSE "cached"

Hit(c) ==
  /\ call[c].at = "found"
  /\ Reread(c, AfterHit(c))

\* No entry, or one of other times: the model is loaded.
Miss(c) ==
  /\ \/ call[c].at = "find" /\ cache = 0
     \/ call[c].at = "compare" /\ ~SameDate(c)
     \/ call[c].at = "included" /\ ~SameInlines(c)
  /\ call' = [call EXCEPT ![c].at = "main", ![c].mtime = 0, ![c].body = 0,
                          ![c].swapped = FALSE]
  /\ UNCHANGED <<versions, bodies, cache, calls>>

\* changetoBoundingBox: the shapes of servant b are given up for boxes, for whoever
\* holds it.
ChangetoBoundingBox(c, b) ==
  /\ bodies' = [bodies EXCEPT ![b].shapes = call[c].boxes]
  /\ Go(c, "reply")
  /\ UNCHANGED <<versions, cache, calls>>

\* It is changed in what the entry holds by then.
BoxesOfCached(c) ==
  /\ call[c].at = "cached"
  /\ \E b \in Entry(c) : ChangetoBoundingBox(c, b)

\* A new servant reads the file, and then the included ones as they come.
ReadMain(c) ==
  /\ call[c].at = "main"
  /\ Mtime("main") # 0
  /\ bodies' = Append(bodies, [main |-> Current("main"), inline |-> 0, lastUpdate |-> 0,
                               inlineTime |-> 0, shapes |-> Original, born |-> Both])
  /\ call' = [call EXCEPT ![c].at = "inline", ![c].body = Len(bodies) + 1]
  /\ UNCHANGED <<versions, cache, calls>>

\* A file is missing: ModelLoaderException.  The map keeps what it has.
LoadFails(c) ==
  /\ \/ call[c].at = "main" /\ Mtime("main") = 0
     \/ call[c].at = "inline" /\ Mtime("inline") = 0
  /\ call' = [call EXCEPT ![c] = NoCall]
  /\ UNCHANGED <<versions, bodies, cache, calls>>

ReadInline(c) ==
  /\ call[c].at = "inline"
  /\ Mtime("inline") # 0
  /\ bodies' = [bodies EXCEPT ![call[c].body].inline = Current("inline")]
  /\ Go(c, "times")
  /\ UNCHANGED <<versions, cache, calls>>

\* Mutant of StatInline: the URL is not the one that was read.
StatInline_OtherUrl(c) ==
  /\ call[c].at = "times"
  /\ Go(c, "insert")
  /\ UNCHANGED <<versions, bodies, cache, calls>>

\* When all is read, the nodes are traversed and the included files dated.
StatInline(c) ==
  /\ call[c].at = "times"
  /\ bodies' = [bodies EXCEPT ![call[c].body].inlineTime = Mtime("inline")]
  /\ Go(c, "insert")
  /\ UNCHANGED <<versions, cache, calls>>

\* The servant gets into the map, and is dated only then.
Insert(c) ==
  /\ call[c].at = "insert"
  /\ cache' = call[c].body
  /\ Go(c, "date")
  /\ UNCHANGED <<versions, bodies, calls>>

AfterLoad(c) == IF call[c].boxes = Original THEN "reply" ELSE "boxes"

SetLastUpdateTime(c) ==
  /\ call[c].at = "date"
  /\ bodies' = [bodies EXCEPT ![call[c].body].lastUpdate = Mtime("main")]
  /\ Go(c, AfterLoad(c))
  /\ UNCHANGED <<versions, cache, calls>>

BoxesOfLoaded(c) ==
  /\ call[c].at = "boxes"
  /\ ChangetoBoundingBox(c, call[c].body)

Reply(c) ==
  /\ call[c].at = "reply"
  /\ call' = [call EXCEPT ![c] = NoCall]
  /\ UNCHANGED <<versions, bodies, cache, calls>>

ClearData ==
  /\ cache # 0
  /\ cache' = 0
  /\ UNCHANGED <<versions, bodies, call, calls>>

Load(c) ==
  \/ ReadMain(c) \/ ReadInline(c) \/ LoadFails(c) \/ StatInline(c) \/ Insert(c)
  \/ SetLastUpdateTime(c) \/ BoxesOfLoaded(c)

Next ==
  \/ \E f \in File, time \in 0 .. MaxTime : Edit(f, time)
  \/ ClearData
  \/ \E c \in Clients :
       \/ \E get \in BOOLEAN, boxes \in Boxes \cup {Original} : Call(c, get, boxes)
       \/ Stat(c) \/ Find(c) \/ DateHit(c) \/ Again(c) \/ InlinesHit(c) \/ Hit(c)
       \/ BoxesOfCached(c) \/ Miss(c) \/ Load(c) \/ Reply(c)

Spec == Init /\ [][Next]_vars

-----------------------------------------------------------------------------
(* Properties.                                                             *)

Body == [main : Nat, inline : Nat, lastUpdate : Nat, inlineTime : Nat,
         shapes : Boxes \cup {Original}, born : [File -> Nat]]

Place == {"idle", "stat", "find", "compare", "again", "included", "found", "cached", "main",
          "inline", "times", "insert", "date", "boxes", "reply"}

\* The one type invariant: a call that has a servant, and the map, name one that
\* was made.
TypeOK ==
  /\ versions \in [File -> Seq(Nat)] /\ \A f \in File : versions[f] # <<>>
  /\ bodies \in Seq(Body)
  /\ cache \in 0 .. Len(bodies)
  /\ calls \in Nat
  /\ call \in [Clients -> [at : Place, boxes : Boxes \cup {Original}, mtime : Nat,
                           body : 0 .. Len(bodies), swapped : BOOLEAN, since : [File -> Nat]]]
  /\ \A c \in Clients :
       call[c].at \notin {"idle", "stat", "find", "main"} <=> call[c].body # 0

\* Another version of the file bears this time.
Ambiguous(f, version, time) ==
  \E k \in DOMAIN versions[f] : k # version /\ versions[f][k] = time

(* What a call returns was read from files that were there when it came, or  *)
(* later: a cached model never hides a change (line 224), however loads,     *)
(* edits and clears overlap.  It can be deceived by time stamps: the model   *)
(* was dated by a version it was not read from, or two versions bear the     *)
(* same time.  And nothing is promised of a get whose entry was given to     *)
(* another servant between its tests and its reference: what it returns is   *)
(* then not what it tested.                                                  *)
Fresh ==
  \A c \in Clients : call[c].at = "reply" /\ ~call[c].swapped =>
    LET b == bodies[call[c].body] IN
    /\ b.main >= call[c].since["main"] \/ Ambiguous("main", b.main, b.lastUpdate)
    /\ b.inline >= call[c].since["inline"] \/ Ambiguous("inline", b.inline, b.inlineTime)

\* No file has changed since servant b began to read them, and b has been dated.
Intact(b) ==
  /\ b # 0
  /\ bodies[b].born = Both
  /\ \A c \in Clients : call[c].at = "date" => call[c].body # b

(* The cache serves: a get does not turn down the servant of the map when no *)
(* file has changed from before its load until now (lines 289 to 299 and     *)
(* 224), at either of the two tests.                                         *)
Reused ==
  [][\A c \in Clients : Miss(c) => ~(Intact(call[c].body) /\ call[c].since = Both)]_vars

=============================================================================
