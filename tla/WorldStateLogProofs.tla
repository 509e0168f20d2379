------------------------- MODULE WorldStateLogProofs -------------------------
(***************************************************************************)
(* Theorems about WorldStateLog for every log size and any number of       *)
(* records, simulations and saves: what the views read, and what a save    *)
(* writes, is the log that was added.                                      *)
(***************************************************************************)
EXTENDS WorldStateLog, SequenceTheorems, TLAPS

-----------------------------------------------------------------------------
(* The inductive invariant.                                                *)

\* The simulation is under way and its thread alive.
Recording == sim \in {"run", "put", "show"}

\* The log has, or may get, records in a file; the first of them is the record
\* of position First.
InFiles == useDisk_ \/ changePos_ >= 0
First == IF useDisk_ THEN 0 ELSE changePos_

\* The part of the log in memory comes before the part without values.
Halves(m) ==
  /\ \A k \in 1 .. m : log_[k].value # Nil
  /\ \A k \in 1 .. Size : k > m => log_[k].value = Nil
  /\ overPos_ = 0 => m = Size

\* What holds however the user and the simulation interfere.
Shape ==
  /\ Len(content) = Size
  /\ currentPos_ \in -1 .. Size - 1
  /\ changePos_ >= -1
  /\ useDisk_ => tempDir_ = "base"
  /\ ~useDisk_ => \A k \in 1 .. Size : /\ log_[k].time = content[k]
                                       /\ log_[k].value \in {Nil, content[k]}
  /\ ~useDisk_ => \E m \in 0 .. Size : Halves(m)

\* Where a simulation nobody interferes with stands.
Phases ==
  ~disturbed =>
    /\ sim # "dead"
    /\ Recording => header_ /\ (menus <=> initLogFlag_)
    /\ sim \in {"put", "show"} => newStat_ # Nil
    /\ Recording /\ ~initLogFlag_ =>
         /\ prePos_ = -1 /\ sim # "show"
         /\ useDisk_ => Size = 0
         /\ ~useDisk_ => overPos_ = 0 /\ (changePos_ >= 0 => sim = "put" /\ changePos_ = Size)
    /\ Recording /\ initLogFlag_ =>
         /\ InFiles /\ (useDisk_ \/ sim = "show" \/ overPos_ > 0)
         /\ writeFile_ = tempDir_ /\ readFile_ = tempDir_ /\ tmpdir = tempDir_
    /\ Recording /\ ~useDisk_ /\ changePos_ >= 0 => tempDir_ = "over"
    /\ sim = "put" => InFiles
    /\ ~useDisk_ /\ changePos_ < 0 => \A k \in 1 .. Size : log_[k].value = content[k]

\* What the file holds of a log that nobody interferes with.
Filed ==
  ~disturbed /\ ~bRemoved /\ InFiles =>
    LET f == IF useDisk_ THEN "base" ELSE "over" IN
    /\ ~useDisk_ => \A k \in 1 .. Size :
                      log_[k].value = IF k <= changePos_ THEN content[k] ELSE Nil
    /\ Size > First => /\ readFile_ = f
                       /\ Len(files[f]) >= Size - First
                       /\ \A k \in First + 1 .. Size : files[f][k - First] = content[k]
    /\ Recording => First <= Size
    /\ Recording /\ initLogFlag_ =>
         Len(files[f]) = Size - First + IF sim = "show" THEN 1 ELSE 0
    /\ sim = "show" => files[f][Size - First + 1] = newStat_

\* The record in the cache is the one the file has for its position.
Cached ==
  ~disturbed /\ ~bRemoved /\ InFiles =>
    /\ \A k \in First + 1 .. Size : prePos_ = k - First - 1 => preStat_ = content[k]
    /\ Recording => prePos_ < Size - First \/ prePos_ = -1

\* The times and the last record in disk mode.
Timed ==
  ~disturbed /\ ~bRemoved /\ useDisk_ =>
    /\ \A k \in 1 .. Size : log_[k].time \in {content[k], Nil}
    /\ sim \notin {"put", "show"} /\ newStat_ # Nil => Size > 0 /\ newStat_ = content[Size]

\* The file that is saved when there is a log to be saved.
Kept ==
  ~disturbed /\ sim = "off" /\ menus =>
    /\ useDisk_ /\ ~bRemoved => header_ /\ tmpdir \in Files /\ files[tmpdir] = content
    /\ ~useDisk_ /\ changePos_ < 0 =>
         /\ header_ /\ Size > 0
         /\ initLogFlag_ => tmpdir \in Files /\ files[tmpdir] = content

\* What a save that is left alone has still to do.
Saving ==
  saving # "no" /\ ~spoiled =>
    /\ ~disturbed /\ sim = "off" /\ menus /\ ~bRemoved /\ savedOf = content
    /\ saving = "asked" => (joined <=> ~useDisk_ /\ changePos_ >= 0)
    /\ saving = "temp" => joined
    /\ saving = "logger" /\ ~joined => header_ /\ tmpdir \in Files /\ files[tmpdir] = content

LogInv == TypeOK /\ Shape /\ Phases /\ Filed /\ Cached /\ Timed /\ Kept /\ Saving /\ SavedExact

-----------------------------------------------------------------------------
(* Sequences.                                                              *)

LEMMA Elements ==
  ASSUME NEW S, NEW q \in Seq(S)
  PROVE  Len(q) \in Nat /\ DOMAIN q = 1 .. Len(q) /\ \A k \in 1 .. Len(q) : q[k] \in S
  BY LenProperties, ElementOfSeq

\* An element goes in at the end, and the first one out if there are too many.
Pushed(q, full, e) == Append(IF full THEN Tail(q) ELSE q, e)

LEMMA PushedIs ==
  ASSUME NEW S, NEW q \in Seq(S), NEW full, NEW e \in S, NEW d \in {0, 1},
         full <=> d = 1, full => Len(q) > 0
  PROVE  /\ Pushed(q, full, e) \in Seq(S)
         /\ Len(Pushed(q, full, e)) = Len(q) + 1 - d /\ Len(Pushed(q, full, e)) > 0
         /\ \A k \in 1 .. Len(q) - d : Pushed(q, full, e)[k] = q[k + d]
         /\ Pushed(q, full, e)[Len(q) + 1 - d] = e
  <1>1. CASE full
    <2>1. Len(q) \in Nat /\ q # <<>>
      BY <1>1, LenProperties, EmptySeq
    <2> DEFINE t == Tail(q)
    <2>2. t \in Seq(S) /\ Len(t) = Len(q) - 1 /\ \A k \in 1 .. Len(t) : t[k] = q[k + 1]
      BY <2>1, HeadTailProperties
    <2>3. Pushed(q, full, e) = Append(t, e)
      BY <1>1 DEF Pushed
    <2> HIDE DEF t
    <2>4. /\ Append(t, e) \in Seq(S) /\ Len(Append(t, e)) = Len(t) + 1
          /\ \A k \in 1 .. Len(t) : Append(t, e)[k] = t[k]
          /\ Append(t, e)[Len(t) + 1] = e
      BY <2>2, AppendProperties
    <2>5. d = 1
      BY <1>1
    <2> QED BY <2>1, <2>2, <2>3, <2>4, <2>5
  <1>2. CASE ~full
    <2>1. Pushed(q, full, e) = Append(q, e)
      BY <1>2 DEF Pushed
    <2>2. /\ Append(q, e) \in Seq(S) /\ Len(Append(q, e)) = Len(q) + 1
          /\ \A k \in 1 .. Len(q) : Append(q, e)[k] = q[k]
          /\ Append(q, e)[Len(q) + 1] = e
      BY AppendProperties
    <2>3. Len(q) \in Nat /\ d = 0
      BY <1>2, LenProperties
    <2> QED BY <2>1, <2>2, <2>3
  <1> QED BY <1>1, <1>2

\* Numbers and records.
LEMMA Numbers ==
  ASSUME TypeOK
  PROVE  /\ Size \in Nat /\ Len(content) \in Nat /\ Len(saved) \in Nat
         /\ maxLogSize_ \in Nat /\ maxLogSize_ >= 1 /\ overPos_ \in Nat
         /\ currentPos_ \in Int /\ changePos_ \in Int /\ prePos_ \in Int
         /\ \A k \in 1 .. Size : /\ log_[k] \in Entry
                                 /\ log_[k].time \in Stored \cup {Nil}
                                 /\ log_[k].value \in Record \cup {Nil}
         /\ \A k \in 1 .. Len(content) : content[k] \in Record
         /\ \A k \in 1 .. Len(saved) : saved[k] \in Record
         /\ \A f \in Files : /\ files[f] \in Seq(Record) /\ Len(files[f]) \in Nat
                             /\ \A k \in 1 .. Len(files[f]) : files[f][k] \in Record
         /\ \A r \in Record : r \in Nat /\ r # Nil /\ r # Zeros
  <1>1. Size \in Nat /\ \A k \in 1 .. Size : log_[k] \in Entry
    BY Elements DEF TypeOK, Size
  <1>2. Len(content) \in Nat /\ \A k \in 1 .. Len(content) : content[k] \in Record
    BY Elements DEF TypeOK
  <1>3. Len(saved) \in Nat /\ \A k \in 1 .. Len(saved) : saved[k] \in Record
    BY Elements DEF TypeOK
  <1>4. ASSUME NEW f \in Files
        PROVE  /\ files[f] \in Seq(Record) /\ Len(files[f]) \in Nat
               /\ \A k \in 1 .. Len(files[f]) : files[f][k] \in Record
    <2>1. files[f] \in Seq(Record)
      BY DEF TypeOK
    <2> QED BY <2>1, Elements
  <1>5. maxLogSize_ \in Nat /\ maxLogSize_ >= 1
    <2>1. maxLogSize_ \in MaxLogSizes
      BY DEF TypeOK
    <2> QED BY <2>1, LogAssumption
  <1>6. \A r \in Record : r \in Nat /\ r # Nil /\ r # Zeros
    BY LogAssumption DEF Record, Nil, Zeros
  <1>7. \A e \in Entry : e.time \in Stored \cup {Nil} /\ e.value \in Record \cup {Nil}
    BY DEF Entry
  <1>8. overPos_ \in Nat /\ currentPos_ \in Int /\ changePos_ \in Int /\ prePos_ \in Int
    BY DEF TypeOK
  <1> QED BY <1>1, <1>2, <1>3, <1>4, <1>5, <1>6, <1>7, <1>8

\* addValue of an entry: everything moves up by d.
LEMMA Added ==
  ASSUME TypeOK, Len(content) = Size, NEW t \in Record, NEW v \in Record \cup {Nil},
         AddEntry(t, v)
  PROVE  \E d \in {0, 1} :
         /\ d = 1 <=> Size + 1 > maxLogSize_
         /\ log_' \in Seq(Entry) /\ content' \in Seq(Record)
         /\ Len(content') = Len(log_') /\ Len(log_') = Size + 1 - d /\ Len(log_') >= 1
         /\ \A k \in 1 .. Size - d : log_'[k] = log_[k + d] /\ content'[k] = content[k + d]
         /\ log_'[Size + 1 - d] = [time |-> t, value |-> v] /\ content'[Size + 1 - d] = t
         /\ bRemoved' <=> bRemoved \/ d = 1
  <1> DEFINE full == Size + 1 > maxLogSize_
             e == [time |-> t, value |-> v]
  <1>1. log_' = Pushed(log_, full, e) /\ content' = Pushed(content, full, t)
        /\ bRemoved' = (bRemoved \/ full)
    BY DEF AddEntry, Pushed
  <1>2. PICK d \in {0, 1} : d = 1 <=> full
    <2>1. full \/ ~full
      OBVIOUS
    <2> HIDE DEF full
    <2>2. (1 = 1 <=> full) \/ (0 = 1 <=> full)
      BY <2>1
    <2> QED BY <2>2
  <1>3. e \in Entry
    BY DEF Entry, Stored
  <1>4. /\ log_ \in Seq(Entry) /\ content \in Seq(Record) /\ Size \in Nat
        /\ full => Len(log_) > 0 /\ Len(content) > 0
    BY Numbers DEF TypeOK, Size
  <1> HIDE DEF full, e
  <1>5. /\ log_' \in Seq(Entry) /\ Len(log_') = Len(log_) + 1 - d /\ Len(log_') > 0
        /\ \A k \in 1 .. Len(log_) - d : log_'[k] = log_[k + d]
        /\ log_'[Len(log_) + 1 - d] = e
    BY <1>1, <1>2, <1>3, <1>4, PushedIs
  <1>6. /\ content' \in Seq(Record) /\ Len(content') = Len(content) + 1 - d
        /\ \A k \in 1 .. Len(content) - d : content'[k] = content[k + d]
        /\ content'[Len(content) + 1 - d] = t
    BY <1>1, <1>2, <1>4, PushedIs
  <1>7. bRemoved' <=> bRemoved \/ d = 1
    BY <1>1, <1>2
  <1>8. /\ Len(content') = Len(log_') /\ Len(log_') = Size + 1 - d /\ Len(log_') >= 1
        /\ \A k \in 1 .. Size - d : log_'[k] = log_[k + d] /\ content'[k] = content[k + d]
        /\ log_'[Size + 1 - d] = e /\ content'[Size + 1 - d] = t
    BY <1>2, <1>4, <1>5, <1>6 DEF Size
  <1>9. (d = 1 <=> Size + 1 > maxLogSize_) /\ e = [time |-> t, value |-> v]
    BY <1>2 DEF full, e
  <1> QED BY <1>5, <1>6, <1>7, <1>8, <1>9

-----------------------------------------------------------------------------
(* A part of the invariant is kept by a step that changes none of its      *)
(* variables, or that takes away what it is about.                         *)

LEMMA ShapeSame ==
  ASSUME Shape,
         UNCHANGED <<useDisk_, log_, content, currentPos_, changePos_, overPos_, tempDir_>>
  PROVE  Shape'
  BY DEF Shape, Halves, Size

LEMMA PhasesSame ==
  ASSUME Phases, disturbed' = disturbed,
         UNCHANGED <<useDisk_, sim, header_, menus, initLogFlag_, newStat_, prePos_, log_,
                     content, overPos_, changePos_, writeFile_, readFile_, tmpdir, tempDir_>>
  PROVE  Phases'
  BY DEF Phases, Recording, InFiles, Size

LEMMA Disturbing ==
  ASSUME disturbed' PROVE Phases' /\ Filed' /\ Cached' /\ Timed' /\ Kept'
  BY DEF Phases, Filed, Cached, Timed, Kept

LEMMA FiledSame ==
  ASSUME Filed, disturbed' = disturbed,
         UNCHANGED <<useDisk_, bRemoved, log_, content, changePos_, readFile_, files, sim,
                     initLogFlag_, newStat_>>
  PROVE  Filed'
  BY DEF Filed, InFiles, First, Recording, Size

LEMMA CachedSame ==
  ASSUME Cached, disturbed' = disturbed,
         UNCHANGED <<useDisk_, bRemoved, log_, content, changePos_, sim, preStat_, prePos_>>
  PROVE  Cached'
  BY DEF Cached, InFiles, First, Recording, Size

LEMMA TimedSame ==
  ASSUME Timed, disturbed' = disturbed,
         UNCHANGED <<useDisk_, bRemoved, log_, content, sim, newStat_>>
  PROVE  Timed'
  BY DEF Timed, Size

LEMMA KeptSame ==
  ASSUME Kept, disturbed' = disturbed,
         UNCHANGED <<useDisk_, bRemoved, log_, content, changePos_, sim, menus, initLogFlag_,
                     header_, tmpdir, files>>
  PROVE  Kept'
  BY DEF Kept, Size

LEMMA SavingSame ==
  ASSUME Saving, saving' = saving, spoiled' = spoiled, disturbed' = disturbed,
         UNCHANGED <<useDisk_, bRemoved, content, savedOf, changePos_, sim, menus, header_,
                     tmpdir, files, joined>>
  PROVE  Saving'
  BY DEF Saving

\* A save that is spoiled, or none, has nothing to keep.
LEMMA SavingOver ==
  ASSUME saving' = "no" \/ spoiled' PROVE Saving'
  BY DEF Saving

LEMMA SavedSame ==
  ASSUME SavedExact, UNCHANGED <<saved, savedOf, joined>>,
         saving' = saving, spoiled => spoiled'
  PROVE  SavedExact'
  BY DEF SavedExact

\* While a simulation runs, a save is spoiled.
LEMMA Spoiling ==
  ASSUME Saving, sim # "off", saving' = saving, spoiled' = spoiled PROVE Saving'
  BY DEF Saving

\* An empty log in which nothing is recorded yet.
LEMMA Emptied ==
  ASSUME useDisk_' \in BOOLEAN, useDisk_' = useDisk_, log_' = <<>>, content' = <<>>, currentPos_' = -1,
         changePos_' = -1, overPos_' = 0, tempDir_' = tempDir_, Shape, initLogFlag_' = FALSE,
         newStat_' = Nil, prePos_' = -1, menus' = FALSE,
         ~disturbed' => sim' = "off" \/ (sim' = "run" /\ header_')
  PROVE  Shape' /\ Phases' /\ Filed' /\ Cached' /\ Timed' /\ Kept'
  <1>1. Size' = 0 /\ Len(content') = 0
    BY DEF Size
  <1>2. Shape'
    <2>1. Halves(0)'
      BY <1>1 DEF Halves
    <2> QED BY <1>1, <2>1 DEF Shape
  <1>3. Phases'
    BY <1>1 DEF Phases, Recording
  <1>4. Filed' /\ Cached'
    BY <1>1 DEF Filed, Cached, InFiles, First, Recording
  <1>5. Timed' /\ Kept'
    BY <1>1 DEF Timed, Kept
  <1> QED BY <1>2, <1>3, <1>4, <1>5

-----------------------------------------------------------------------------
(* Types.                                                                  *)

LEMMA InitType == Init => TypeOK
  <1> SUFFICES ASSUME Init PROVE TypeOK
    OBVIOUS
  <1>1. /\ log_ \in Seq(Entry) /\ content \in Seq(Record) /\ saved \in Seq(Record)
        /\ savedOf \in Seq(Record) /\ files \in [Files -> Seq(Record)]
    BY EmptySeq DEF Init
  <1>2. /\ currentPos_ \in Int /\ changePos_ \in Int /\ overPos_ \in Nat /\ prePos_ \in Int
        /\ newStat_ \in Record \cup {Nil} /\ preStat_ \in Stored \cup {Nil}
        /\ tempDir_ \in Files /\ tmpdir \in Files \cup {"none", "renamed"}
        /\ writeFile_ \in Files \cup {"none"} /\ readFile_ \in Files \cup {"none"}
        /\ produced \in 0 .. MaxRecords /\ starts \in 0 .. MaxStarts /\ saves \in 0 .. MaxSaves
    BY LogAssumption DEF Init, Nil, Files
  <1>3. /\ useDisk_ \in BOOLEAN /\ maxLogSize_ \in MaxLogSizes
        /\ bRemoved \in BOOLEAN /\ initLogFlag_ \in BOOLEAN /\ menus \in BOOLEAN
        /\ header_ \in BOOLEAN /\ loaded \in BOOLEAN /\ disturbed \in BOOLEAN
        /\ joined \in BOOLEAN /\ spoiled \in BOOLEAN
    BY Zenon DEF Init
  <1>4. sim \in {"off", "run", "put", "show", "dead"} /\ saving \in {"no", "asked", "logger", "temp"}
    BY DEF Init
  <1> QED BY <1>1, <1>2, <1>3, <1>4, Zenon DEF TypeOK

\* What a step that adds nothing to the log leaves of the types.
LEMMA LookType ==
  ASSUME TypeOK, NEW pos \in 0 .. Size - 1, Look(pos) \/ LookTime(pos) \/ SetPosition(pos)
  PROVE  TypeOK'
  <1>1. \A q \in Nat : Get(q) \in Stored \cup {Nil}
    <2>1. ASSUME NEW q \in Nat PROVE Get(q) \in Stored \cup {Nil}
      <3>1. readFile_ # "none" => readFile_ \in Files
        BY DEF TypeOK
      <3>2. ASSUME readFile_ # "none", q < Len(files[readFile_])
            PROVE  files[readFile_][q + 1] \in Record
        <4>1. readFile_ \in Files /\ Len(files[readFile_]) \in Nat
          BY <3>1, <3>2, Numbers
        <4>2. q + 1 \in 1 .. Len(files[readFile_])
          BY <3>2, <4>1
        <4> QED BY <4>1, <4>2, Numbers
      <3> QED BY <3>2 DEF Get, Stored
    <2> QED BY <2>1
  <1>2. CASE Look(pos)
    <2>1. FilePos(pos) \in Nat
      BY <1>2, Numbers DEF Look, InFile, FilePos
    <2>2. preStat_' \in Stored \cup {Nil} /\ prePos_' \in Int
      BY <1>1, <1>2, <2>1 DEF Look
    <2> QED BY <1>2, <2>2 DEF TypeOK, Look, fixed, series, logger, bounds, saver
  <1>3. CASE LookTime(pos)
    <2>1. pos \in Nat /\ pos + 1 \in 1 .. Len(log_) /\ log_ \in Seq(Entry)
      BY Numbers DEF TypeOK, Size
    <2>2. [log_[pos + 1] EXCEPT !.time = Get(pos)] \in Entry
      <3>1. log_[pos + 1] \in Entry /\ Get(pos) \in Stored \cup {Nil}
        BY <1>1, <2>1, Elements
      <3> QED BY <3>1 DEF Entry
    <2>3. log_' = [log_ EXCEPT ![pos + 1] = [log_[pos + 1] EXCEPT !.time = Get(pos)]]
      BY <1>3 DEF LookTime
    <2>4. log_' \in Seq(Entry)
      BY <2>1, <2>2, <2>3, ExceptSeq
    <2> QED BY <1>3, <2>4 DEF TypeOK, LookTime, fixed, cache, logger, bounds, saver
  <1>4. CASE SetPosition(pos)
    <2>1. currentPos_' \in Int
      BY <1>4, Numbers DEF SetPosition
    <2> QED BY <1>4, <2>1 DEF TypeOK, SetPosition, fixed, series, cache, logger, bounds, saver
  <1> QED BY <1>2, <1>3, <1>4

LEMMA ClearType ==
  ASSUME TypeOK, StartSimulation \/ Clear PROVE TypeOK'
  <1>1. log_' \in Seq(Entry) /\ content' \in Seq(Record)
    BY EmptySeq DEF StartSimulation, Clear
  <1>2. /\ currentPos_' \in Int /\ changePos_' \in Int /\ overPos_' \in Nat /\ prePos_' \in Int
        /\ newStat_' \in Record \cup {Nil} /\ preStat_' \in Stored \cup {Nil}
        /\ readFile_' \in Files \cup {"none"}
    BY DEF StartSimulation, Clear, ClearLog, Nil
  <1>3. /\ bRemoved' \in BOOLEAN /\ initLogFlag_' \in BOOLEAN /\ menus' \in BOOLEAN
        /\ header_' \in BOOLEAN /\ disturbed' \in BOOLEAN /\ spoiled' \in BOOLEAN
    BY Zenon DEF StartSimulation, Clear, ClearLog, TypeOK
  <1>4. starts' \in 0 .. MaxStarts
    BY LogAssumption DEF StartSimulation, Clear, bounds, TypeOK
  <1>5. sim' \in {"off", "run", "put", "show", "dead"}
    BY DEF StartSimulation, Clear, TypeOK
  <1> QED BY <1>1, <1>2, <1>3, <1>4, <1>5 DEF TypeOK, StartSimulation, Clear, fixed, saver, bounds

LEMMA AddType ==
  ASSUME TypeOK, Shape, AddToMemory \/ AddToFile PROVE TypeOK'
  <1>1. /\ produced + 1 \in Record /\ produced' = produced + 1 /\ produced' \in 0 .. MaxRecords
    BY LogAssumption DEF AddToMemory, AddToFile, TypeOK, Record
  <1>2. CASE AddToMemory
    <2>1. AddEntry(produced + 1, produced + 1)
      BY <1>1, <1>2 DEF AddToMemory
    <2>2. log_' \in Seq(Entry) /\ content' \in Seq(Record)
      BY <1>1, <2>1, Added DEF Shape
    <2>3. bRemoved' \in BOOLEAN
      BY <1>2, Zenon DEF AddToMemory, AddEntry, TypeOK
    <2> QED BY <1>1, <1>2, <2>2, <2>3 DEF TypeOK, AddToMemory, fixed, cache, logger, saver
  <1>3. CASE AddToFile
    <2>1. tempDir_' \in Files /\ changePos_' \in Int
      BY <1>3, Numbers DEF AddToFile, TypeOK, Files
    <2>2. newStat_' \in Record \cup {Nil} /\ sim' \in {"off", "run", "put", "show", "dead"}
      BY <1>1, <1>3 DEF AddToFile
    <2> QED BY <1>1, <1>3, <2>1, <2>2 DEF TypeOK, AddToFile, fixed, series, cache, logger, saver
  <1> QED BY <1>2, <1>3

LEMMA WriteType ==
  ASSUME TypeOK, WriteRecord PROVE TypeOK'
  <1>1. sim' \in {"off", "run", "put", "show", "dead"}
    BY DEF WriteRecord
  <1>2. initLogFlag_' \in BOOLEAN /\ menus' \in BOOLEAN
    BY Zenon DEF WriteRecord, OpenLog, TypeOK
  <1>3. tmpdir' \in Files \cup {"none", "renamed"} /\ writeFile_' \in Files \cup {"none"}
        /\ readFile_' \in Files \cup {"none"}
    BY DEF WriteRecord, OpenLog, TypeOK
  <1>4. preStat_' \in Stored \cup {Nil}
    BY DEF WriteRecord, OpenLog, TypeOK, Stored
  <1>5. files' \in [Files -> Seq(Record)]
    <2>1. CASE newStat_ = Nil \/ files' = files
      BY <2>1 DEF WriteRecord, TypeOK
    <2>2. CASE newStat_ # Nil
      <3>1. newStat_ \in Record /\ files \in [Files -> Seq(Record)] /\ tempDir_ \in Files
            /\ (writeFile_ # "none" => writeFile_ \in Files)
        BY <2>2 DEF TypeOK
      <3>2. \/ files' = files
            \/ files' = [files EXCEPT ![tempDir_] = <<newStat_>>]
            \/ writeFile_ # "none"
               /\ files' = [files EXCEPT ![writeFile_] = Append(files[writeFile_], newStat_)]
        BY <2>2 DEF WriteRecord, OpenLog
      <3>3. <<newStat_>> \in Seq(Record)
        BY <3>1
      <3>4. writeFile_ # "none" => Append(files[writeFile_], newStat_) \in Seq(Record)
        BY <3>1, AppendProperties
      <3> QED BY <3>1, <3>2, <3>3, <3>4
    <2> QED BY <2>1, <2>2
  <1> QED BY <1>1, <1>2, <1>3, <1>4, <1>5 DEF TypeOK, WriteRecord, fixed, series, bounds

LEMMA ShowType ==
  ASSUME TypeOK, Shape, ShowRecord PROVE TypeOK'
  <1>1. sim' \in {"off", "run", "put", "show", "dead"}
    BY DEF ShowRecord
  <1>2. CASE newStat_ = Nil
    <2>1. UNCHANGED <<series, overPos_>>
      BY <1>2 DEF ShowRecord
    <2> QED BY <1>1, <2>1 DEF TypeOK, ShowRecord, fixed, series, cache, logger, bounds
  <1>3. CASE newStat_ # Nil
    <2>1. newStat_ \in Record /\ AddEntry(newStat_, Nil)
      BY <1>3 DEF ShowRecord, TypeOK
    <2>2. log_' \in Seq(Entry) /\ content' \in Seq(Record)
      BY <2>1, Added DEF Shape
    <2>3. bRemoved' \in BOOLEAN
      BY <2>1, Zenon DEF AddEntry, TypeOK
    <2>4. overPos_' \in Nat
      BY <1>3 DEF ShowRecord, TypeOK
    <2> QED BY <1>1, <2>2, <2>3, <2>4 DEF TypeOK, ShowRecord, fixed, cache, logger, bounds
  <1> QED BY <1>2, <1>3

LEMMA EndType ==
  ASSUME TypeOK, EndSimulation PROVE TypeOK'
  <1>1. sim' \in {"off", "run", "put", "show", "dead"} /\ writeFile_' \in Files \cup {"none"}
        /\ currentPos_' \in Int
    BY DEF EndSimulation, TypeOK
  <1> QED BY <1>1 DEF TypeOK, EndSimulation, fixed, series, cache, logger, bounds

LEMMA AskType ==
  ASSUME TypeOK, AskSave PROVE TypeOK'
  <1>1. saving' \in {"no", "asked", "logger", "temp"} /\ savedOf' \in Seq(Record)
        /\ saves' \in 0 .. MaxSaves
    BY LogAssumption DEF AskSave, TypeOK
  <1>2. joined' \in BOOLEAN /\ spoiled' \in BOOLEAN
    BY Zenon DEF AskSave
  <1> QED BY <1>1, <1>2 DEF TypeOK, AskSave, fixed, series, cache, logger, bounds

LEMMA ZipType ==
  ASSUME TypeOK, Zip \/ Rename PROVE TypeOK'
  <1>1. CASE Zip
    <2>1. saved' \in Seq(Record)
      <3>1. files["base"] \in Seq(Record) /\ (tmpdir \in Files => files[tmpdir] \in Seq(Record))
        BY DEF TypeOK, Files
      <3> QED BY <1>1, <3>1, EmptySeq DEF Zip
    <2>2. saving' \in {"no", "asked", "logger", "temp"}
      BY <1>1 DEF Zip
    <2> QED BY <1>1, <2>1, <2>2 DEF TypeOK, Zip, fixed, series, cache, logger, bounds
  <1>2. CASE Rename
    <2>1. tmpdir' \in Files \cup {"none", "renamed"}
      BY <1>2 DEF Rename
    <2>2. disturbed' \in BOOLEAN /\ spoiled' \in BOOLEAN
      BY <1>2, Zenon DEF Rename, TypeOK
    <2> QED BY <1>2, <2>1, <2>2 DEF TypeOK, Rename, fixed, series, cache, bounds
  <1> QED BY <1>1, <1>2

\* The loop of _restoreLogFileFromSuperLog writes the part in memory.
LEMMA InMemoryIs ==
  ASSUME TypeOK, NEW m \in 0 .. Size, Halves(m)
  PROVE  /\ InMemory \in Seq(Record) /\ Len(InMemory) = m
         /\ \A k \in 1 .. m : InMemory[k] = log_[k].value
  <1> DEFINE Stop(n) == /\ \A i \in 1 .. n : log_[i].value # Nil
                        /\ n < Size => log_[n + 1].value = Nil
             n == CHOOSE n \in 0 .. Size : Stop(n)
  <1>1. Size \in Nat /\ m \in Nat /\ m <= Size
    BY Numbers
  <1>2. Stop(m)
    BY <1>1 DEF Halves
  <1>3. n \in 0 .. Size /\ Stop(n)
    BY <1>2
  <1>4. InMemory = [i \in 1 .. n |-> log_[i].value]
    BY DEF InMemory
  <1> HIDE DEF n
  <1>5. n = m
    <2>1. ~(n < m)
      BY <1>1, <1>3 DEF Halves
    <2>2. ~(m < n)
      BY <1>1, <1>3 DEF Halves
    <2> QED BY <1>1, <1>3, <2>1, <2>2
  <1>6. \A i \in 1 .. m : log_[i].value \in Record
    BY <1>1, Numbers DEF Halves
  <1>7. InMemory \in [1 .. m -> Record]
    BY <1>4, <1>5, <1>6
  <1>8. InMemory \in Seq(Record)
    BY <1>1, <1>7, SeqDef
  <1>9. Len(InMemory) = m
    BY <1>1, <1>7, <1>8, LenProperties
  <1> QED BY <1>4, <1>5, <1>8, <1>9

LEMMA RestoreType ==
  ASSUME TypeOK, Shape, RestoreLog PROVE TypeOK'
  <1>1. saving' \in {"no", "asked", "logger", "temp"} /\ writeFile_' \in Files \cup {"none"}
    BY DEF RestoreLog
  <1>2. disturbed' \in BOOLEAN
    BY Zenon DEF RestoreLog, TypeOK
  <1>3. initLogFlag_' \in BOOLEAN /\ menus' \in BOOLEAN
    BY Zenon DEF RestoreLog, OpenLog, TypeOK
  <1>4. tmpdir' \in Files \cup {"none", "renamed"} /\ readFile_' \in Files \cup {"none"}
    BY DEF RestoreLog, OpenLog, TypeOK
  <1>5. ~useDisk_ => InMemory \in Seq(Record)
    BY InMemoryIs DEF Shape
  <1>6. files \in [Files -> Seq(Record)] /\ tempDir_ \in Files /\ "base" \in Files
    BY DEF TypeOK, Files
  <1>7. ~useDisk_ => Joined(InMemory) \in Seq(Record)
    BY <1>5, ConcatProperties DEF Joined
  <1>8. files' \in [Files -> Seq(Record)]
    <2>1. \/ files' = files
          \/ ~useDisk_ /\ files' = [files EXCEPT ![tempDir_] = InMemory]
          \/ ~useDisk_ /\ files' = [files EXCEPT !["base"] = Joined(InMemory)]
      BY DEF RestoreLog, OpenLog
    <2> QED BY <1>5, <1>6, <1>7, <2>1
  <1>9. preStat_' \in Stored \cup {Nil} /\ newStat_' \in Record \cup {Nil}
    <2>1. Size > 0 => log_[1].value \in Record \cup {Nil} /\ log_[Size].value \in Record \cup {Nil}
      BY Numbers
    <2>2. ~useDisk_ /\ InMemory # <<>> => InMemory[Len(InMemory)] \in Record
      <3>1. ~useDisk_ /\ InMemory # <<>> => Len(InMemory) \in 1 .. Len(InMemory)
        BY <1>5, EmptySeq
      <3> QED BY <1>5, <3>1, ElementOfSeq
    <2>3. \/ preStat_' = preStat_ /\ newStat_' = newStat_
          \/ Size > 0 /\ preStat_' = log_[1].value /\ newStat_' = log_[Size].value
          \/ /\ preStat_' = preStat_ /\ ~useDisk_
             /\ newStat_' = IF InMemory = <<>> THEN newStat_ ELSE InMemory[Len(InMemory)]
      BY DEF RestoreLog
    <2>4. preStat_ \in Stored \cup {Nil} /\ newStat_ \in Record \cup {Nil}
      BY DEF TypeOK
    <2> QED BY <2>1, <2>2, <2>3, <2>4 DEF Stored
  <1> QED BY <1>1, <1>2, <1>3, <1>4, <1>8, <1>9 DEF TypeOK, RestoreLog, fixed, series, bounds

\* What a load puts into the log.
LEMMA LoadedIs ==
  ASSUME TypeOK, NEW k \in 1 .. Len(saved), Load(k)
  PROVE  \E s \in 0 .. k - 1 :
         /\ Len(log_') = k - s /\ Len(content') = k - s
         /\ log_' \in Seq(Entry) /\ content' \in Seq(Record)
         /\ \A n \in 1 .. k - s : content'[n] = saved[n + s] /\ saved[n + s] \in Record
         /\ \A n \in 1 .. k - s :
              log_'[n] = IF useDisk_ THEN [time |-> Nil, value |-> Nil]
                         ELSE [time |-> saved[n + s], value |-> saved[n + s]]
         /\ bRemoved' <=> s > 0
  <1> DEFINE first == IF k > maxLogSize_ THEN k - maxLogSize_ + 1 ELSE 1
             s == first - 1
             e(n) == IF useDisk_ THEN [time |-> Nil, value |-> Nil]
                     ELSE [time |-> saved[first + n - 1], value |-> saved[first + n - 1]]
  <1>1. first \in 1 .. k /\ s \in 0 .. k - 1 /\ first = s + 1 /\ k - first + 1 = k - s /\ k \in Nat
        /\ k - s \in Nat /\ s \in Nat
    <2>1. k \in Nat /\ k >= 1 /\ maxLogSize_ \in Nat /\ maxLogSize_ >= 1
      BY Numbers
    <2>2. first \in Nat /\ first >= 1 /\ first <= k
      BY <2>1
    <2> HIDE DEF first
    <2> QED BY <2>1, <2>2
  <1>2. log_' = [i \in 1 .. k - first + 1 |->
                   LET r == saved[first + i - 1] IN
                   IF useDisk_ THEN [time |-> Nil, value |-> Nil] ELSE [time |-> r, value |-> r]]
    BY DEF Load, Loaded
  <1> HIDE DEF first, s
  <1>3. \A n \in 1 .. k - s : first + n - 1 = n + s /\ saved[n + s] \in Record
    BY <1>1, Numbers
  <1>4. log_' = [n \in 1 .. k - s |-> e(n)]
    BY <1>1, <1>2
  <1>5. \A n \in 1 .. k - s : e(n) \in Entry
    BY <1>3 DEF Entry, Stored
  <1>6. log_' \in [1 .. k - s -> Entry] /\ \A n \in 1 .. k - s : log_'[n] = e(n)
    BY <1>4, <1>5
  <1>7. log_' \in Seq(Entry)
    BY <1>1, <1>6, SeqDef
  <1>8. Len(log_') = k - s
    BY <1>1, <1>6, <1>7, LenProperties
  <1>9. content' = SubSeq(saved, s + 1, k)
    <2>1. content' = SubSeq(saved, k - Len(log_') + 1, k)
      BY DEF Load
    <2>2. k - Len(log_') + 1 = s + 1
      BY <1>1, <1>8
    <2> QED BY <2>1, <2>2
  <1>10. \A i \in s + 1 .. k : saved[i] \in Record
    BY <1>1, Numbers
  <1>11. /\ content' \in Seq(Record) /\ Len(content') = k - s
         /\ \A n \in 1 .. k - s : content'[n] = saved[n + s]
    BY <1>1, <1>9, <1>10, SubSeqProperties
  <1>12. bRemoved' <=> s > 0
    <2>1. bRemoved' = (Len(log_') < k)
      BY DEF Load
    <2>2. (Len(log_') < k) <=> s > 0
      BY <1>1, <1>8
    <2> QED BY <2>1, <2>2
  <1>13. \A n \in 1 .. k - s :
           log_'[n] = IF useDisk_ THEN [time |-> Nil, value |-> Nil]
                      ELSE [time |-> saved[n + s], value |-> saved[n + s]]
    BY <1>3, <1>6
  <1> QED BY <1>1, <1>3, <1>7, <1>8, <1>11, <1>12, <1>13

LEMMA LoadType ==
  ASSUME TypeOK, NEW k \in 1 .. Len(saved), Load(k) PROVE TypeOK'
  <1>1. log_' \in Seq(Entry) /\ content' \in Seq(Record)
    BY LoadedIs
  <1>2. /\ currentPos_' \in Int /\ changePos_' \in Int /\ overPos_' \in Nat /\ prePos_' \in Int
        /\ tempDir_' \in Files /\ tmpdir' \in Files \cup {"none", "renamed"}
        /\ readFile_' \in Files \cup {"none"} /\ newStat_' \in Record \cup {Nil}
    <2>1. k \in Nat /\ Len(saved) \in Nat /\ k <= Len(saved)
      BY Numbers
    <2>2. /\ tempDir_' = "base" /\ tmpdir' = "base" /\ readFile_' = "base" /\ newStat_' = Nil
          /\ currentPos_' \in {0, -1} /\ changePos_' \in {-1, k} /\ overPos_' = Len(saved) - k
          /\ prePos_' \in {-1, k - 1, k}
      BY DEF Load
    <2> QED BY <2>1, <2>2 DEF Files
  <1>3. /\ bRemoved' \in BOOLEAN /\ initLogFlag_' \in BOOLEAN /\ menus' \in BOOLEAN
        /\ header_' \in BOOLEAN /\ loaded' \in BOOLEAN /\ disturbed' \in BOOLEAN
    <2>0. bRemoved' \in BOOLEAN
      BY SMT DEF Load
    <2>1. /\ initLogFlag_' = FALSE /\ header_' = TRUE
          /\ loaded' = TRUE /\ menus' = (k = Len(saved)) /\ disturbed' = (sim # "off")
      BY DEF Load
    <2> QED BY <2>0, <2>1, Zenon
  <1>4. preStat_' \in Stored \cup {Nil}
    <2>1. useDisk_ => preStat_' = Zeros
      BY DEF Load
    <2>2. ~useDisk_ => preStat_' \in Record
      <3>1. ~useDisk_ => prePos_' + 1 \in 1 .. Len(saved) /\ preStat_' = saved[prePos_' + 1]
        BY Numbers DEF Load
      <3> QED BY <3>1, Numbers
    <2> QED BY <2>1, <2>2 DEF Stored
  <1>5. files' \in [Files -> Seq(Record)]
    <2>1. saved \in Seq(Record) /\ <<>> \in Seq(Record) /\ files \in [Files -> Seq(Record)]
      BY EmptySeq DEF TypeOK
    <2> QED BY <2>1 DEF Load
  <1> QED BY <1>1, <1>2, <1>3, <1>4, <1>5 DEF TypeOK, Load, fixed, saver

-----------------------------------------------------------------------------
(* Every step keeps the invariant.                                         *)

LEMMA InitInv == Init => LogInv
  <1> SUFFICES ASSUME Init PROVE LogInv
    OBVIOUS
  <1>1. TypeOK
    BY InitType
  <1>2. Size = 0 /\ Len(content) = 0
    BY DEF Init, Size
  <1>3. Shape
    <2>1. Halves(0)
      BY <1>2 DEF Halves
    <2> QED BY <1>2, <2>1 DEF Shape, Init
  <1>4. Phases /\ Filed /\ Cached
    BY <1>2 DEF Init, Phases, Filed, Cached, Recording, InFiles, First
  <1>5. Timed /\ Kept /\ Saving /\ SavedExact
    BY <1>2 DEF Init, Timed, Kept, Saving, SavedExact
  <1> QED BY <1>1, <1>3, <1>4, <1>5 DEF LogInv

\* A view that reads gets, and caches, the record of its position.
LEMMA LookStep ==
  ASSUME LogInv, NEW pos \in 0 .. Size - 1, Look(pos) PROVE LogInv'
  <1> USE DEF LogInv
  <1>1. TypeOK'
    BY LookType
  <1>2. /\ InFile(pos) /\ prePos_' = FilePos(pos) /\ preStat_' = Get(FilePos(pos))
        /\ disturbed' = disturbed /\ saving' = saving /\ spoiled' = spoiled
        /\ UNCHANGED <<useDisk_, log_, content, bRemoved, currentPos_, changePos_, overPos_, tempDir_>>
        /\ UNCHANGED <<sim, header_, menus, initLogFlag_, newStat_>>
        /\ UNCHANGED <<writeFile_, readFile_, tmpdir, files, saved, savedOf, joined>>
    BY DEF Look, fixed, series, logger, saver
  <1>3. Shape' /\ Filed' /\ Timed' /\ Kept' /\ Saving' /\ SavedExact'
    BY <1>2, ShapeSame, FiledSame, TimedSame, KeptSame, SavingSame, SavedSame
  <1>4. Size \in Nat /\ changePos_ \in Int /\ pos \in Nat /\ pos + 1 \in 1 .. Size
    BY Numbers
  <1>5. InFiles /\ pos >= First /\ FilePos(pos) = pos - First
    BY <1>2, <1>4 DEF InFile, FilePos, InFiles, First
  <1>6. Phases'
    <2>1. ~disturbed /\ Recording => initLogFlag_
      BY <1>2, <1>4 DEF Phases, InFile
    <2> QED BY <1>2, <2>1 DEF Phases, Recording, InFiles, Size
  <1>7. Cached'
    <2> SUFFICES ASSUME ~disturbed, ~bRemoved
                 PROVE  /\ \A k \in First + 1 .. Size : prePos_' = k - First - 1 => preStat_' = content[k]
                        /\ prePos_' < Size - First
      BY <1>2 DEF Cached, InFiles, First, Recording, Size
    <2>1. First \in Nat /\ (changePos_ >= 0 => First = changePos_ \/ useDisk_)
      BY <1>4, <1>5 DEF InFiles, First
    <2>2. pos + 1 \in First + 1 .. Size /\ pos + 1 - First \in Nat /\ pos - First \in Nat
      BY <1>4, <1>5, <2>1
    <2>3. readFile_ \in Files /\ Len(files[readFile_]) \in Nat /\ Len(files[readFile_]) >= Size - First
          /\ files[readFile_][pos + 1 - First] = content[pos + 1]
      <3>1. Size > First
        BY <1>4, <1>5, <2>1
      <3>2. /\ readFile_ = IF useDisk_ THEN "base" ELSE "over"
            /\ Len(files[readFile_]) >= Size - First
            /\ \A k \in First + 1 .. Size : files[readFile_][k - First] = content[k]
        BY <1>5, <3>1 DEF Filed
      <3>3. readFile_ \in Files
        BY <3>2 DEF Files
      <3>4. files[readFile_][pos + 1 - First] = content[pos + 1]
        BY <1>4, <2>1, <2>2, <3>2
      <3>5. Len(files[readFile_]) \in Nat
        BY <3>3, Numbers
      <3> QED BY <3>2, <3>3, <3>4, <3>5
    <2>4. Get(pos - First) = content[pos + 1]
      <3>1. readFile_ # "none" /\ pos - First < Len(files[readFile_]) /\ pos - First + 1 = pos + 1 - First
        BY <1>4, <2>1, <2>2, <2>3 DEF Files
      <3> QED BY <2>3, <3>1 DEF Get
    <2>5. prePos_' = pos - First /\ preStat_' = content[pos + 1]
      BY <1>2, <1>5, <2>4
    <2> QED BY <1>4, <2>1, <2>5
  <1> QED BY <1>1, <1>3, <1>6, <1>7

\* getTime fills in the time of the position's own record.
LEMMA LookTimeStep ==
  ASSUME LogInv, NEW pos \in 0 .. Size - 1, LookTime(pos) PROVE LogInv'
  <1> USE DEF LogInv
  <1>1. TypeOK'
    BY LookType
  <1>2. /\ log_[pos + 1].time = Nil /\ log_' = [log_ EXCEPT ![pos + 1].time = Get(pos)]
        /\ disturbed' = disturbed /\ saving' = saving /\ spoiled' = spoiled
        /\ UNCHANGED <<useDisk_, content, bRemoved, currentPos_, changePos_, overPos_, tempDir_>>
        /\ UNCHANGED <<sim, header_, menus, initLogFlag_, newStat_, preStat_, prePos_>>
        /\ UNCHANGED <<writeFile_, readFile_, tmpdir, files, saved, savedOf, joined>>
    BY DEF LookTime, fixed, logger, saver, cache
  <1>3. Size \in Nat /\ pos \in Nat /\ pos + 1 \in 1 .. Size /\ Len(content) = Size
        /\ log_ \in Seq(Entry)
    BY Numbers DEF TypeOK, Shape
  <1>4. useDisk_
    <2>1. content[pos + 1] # Nil
      BY <1>3, Numbers
    <2> QED BY <1>2, <1>3, <2>1 DEF Shape
  <1>5. /\ Size' = Size
        /\ \A k \in 1 .. Size : /\ k # pos + 1 => log_'[k] = log_[k]
                                /\ k = pos + 1 => log_'[k].time = Get(pos)
    <2> DEFINE e == [log_[pos + 1] EXCEPT !.time = Get(pos)]
    <2>1. log_' = [log_ EXCEPT ![pos + 1] = e]
      BY <1>2
    <2>2. e.time = Get(pos)
      <3>1. log_[pos + 1] \in Entry
        BY <1>3, Numbers
      <3> QED BY <3>1 DEF Entry
    <2> HIDE DEF e
    <2>3. DOMAIN log_ = 1 .. Len(log_) /\ log_' \in Seq(Entry)
      BY <1>1, <1>3, LenProperties DEF TypeOK
    <2>4. DOMAIN (log_') = 1 .. Len(log_') /\ Len(log_') \in Nat
      BY <2>3, LenProperties
    <2>5. Len(log_') = Len(log_)
      BY <1>3, <2>1, <2>3, <2>4 DEF Size
    <2> QED BY <1>3, <2>1, <2>2, <2>3, <2>5 DEF Size
  <1>6. Shape'
    BY <1>2, <1>4, <1>5 DEF Shape
  <1>7. Phases' /\ Filed' /\ Cached'
    BY <1>2, <1>4, <1>5 DEF Phases, Filed, Cached, InFiles, First, Recording
  <1>8. Kept' /\ Saving' /\ SavedExact'
    <2>1. Kept'
      BY <1>2, <1>4 DEF Kept
    <2> QED BY <1>2, <2>1, SavingSame, SavedSame
  <1>9. Timed'
    <2> SUFFICES ASSUME ~disturbed, ~bRemoved
                 PROVE  /\ \A k \in 1 .. Size : log_'[k].time \in {content[k], Nil}
                        /\ sim \notin {"put", "show"} /\ newStat_ # Nil =>
                             Size > 0 /\ newStat_ = content[Size]
      BY <1>2, <1>5 DEF Timed
    <2>1. First = 0 /\ InFiles
      BY <1>4 DEF First, InFiles
    <2>2. readFile_ = "base" /\ files["base"][pos + 1] = content[pos + 1]
          /\ Len(files["base"]) \in Nat /\ Len(files["base"]) >= Size
      <3>1. Size > First
        BY <1>3, <2>1
      <3>2. /\ readFile_ = "base" /\ Len(files["base"]) >= Size - First
            /\ \A k \in First + 1 .. Size : files["base"][k - First] = content[k]
        BY <1>4, <2>1, <3>1 DEF Filed
      <3>3. Len(files["base"]) \in Nat
        BY Numbers DEF Files
      <3>4. pos + 1 \in First + 1 .. Size /\ pos + 1 - First = pos + 1 /\ Size - First = Size
        BY <1>3, <2>1
      <3>5. files["base"][pos + 1 - First] = content[pos + 1]
        BY <1>3, <2>1, <3>2, <3>4
      <3> QED BY <3>2, <3>3, <3>4, <3>5
    <2>3. Get(pos) = content[pos + 1]
      BY <1>3, <2>2 DEF Get
    <2>4. \A k \in 1 .. Size : log_[k].time \in {content[k], Nil}
      BY <1>4 DEF Timed
    <2>5. sim \notin {"put", "show"} /\ newStat_ # Nil => Size > 0 /\ newStat_ = content[Size]
      BY <1>4 DEF Timed
    <2> QED BY <1>5, <2>3, <2>4, <2>5
  <1> QED BY <1>1, <1>6, <1>7, <1>8, <1>9

LEMMA SetPositionStep ==
  ASSUME LogInv, NEW pos \in 0 .. Size - 1, SetPosition(pos) PROVE LogInv'
  <1> USE DEF LogInv
  <1>1. TypeOK'
    BY LookType
  <1>2. /\ currentPos_' = pos /\ disturbed' = disturbed /\ saving' = saving /\ spoiled' = spoiled
        /\ UNCHANGED <<useDisk_, log_, content, bRemoved, changePos_, overPos_, tempDir_>>
        /\ UNCHANGED <<sim, header_, menus, initLogFlag_, newStat_, preStat_, prePos_>>
        /\ UNCHANGED <<writeFile_, readFile_, tmpdir, files, saved, savedOf, joined>>
    BY DEF SetPosition, fixed, series, logger, saver, cache
  <1>3. Shape'
    <2>1. pos \in -1 .. Size - 1
      BY Numbers
    <2> QED BY <1>2, <2>1 DEF Shape, Halves, Size
  <1>4. Phases' /\ Filed' /\ Cached' /\ Timed' /\ Kept' /\ Saving' /\ SavedExact'
    BY <1>2, PhasesSame, FiledSame, CachedSame, TimedSame, KeptSame, SavingSame, SavedSame
  <1> QED BY <1>1, <1>3, <1>4

\* A new log begins: the old one goes, with what was cached of it.
LEMMA ClearStep ==
  ASSUME LogInv, StartSimulation \/ Clear PROVE LogInv'
  <1> USE DEF LogInv
  <1>1. TypeOK'
    BY ClearType
  <1>2. /\ useDisk_' = useDisk_ /\ log_' = <<>> /\ content' = <<>> /\ currentPos_' = -1
        /\ changePos_' = -1 /\ overPos_' = 0 /\ tempDir_' = tempDir_ /\ initLogFlag_' = FALSE
        /\ newStat_' = Nil /\ prePos_' = -1 /\ menus' = FALSE
    BY DEF StartSimulation, Clear, ClearLog, fixed
  <1>3. ~disturbed' => sim' = "off" \/ (sim' = "run" /\ header_')
    BY DEF StartSimulation, Clear
  <1>4. useDisk_' \in BOOLEAN
    BY <1>1 DEF TypeOK
  <1>5. Shape' /\ Phases' /\ Filed' /\ Cached' /\ Timed' /\ Kept'
    BY <1>2, <1>3, <1>4, Emptied
  <1>6. saving' = saving /\ saved' = saved /\ savedOf' = savedOf /\ joined' = joined
        /\ (saving # "no" => spoiled') /\ (spoiled => spoiled')
    BY DEF StartSimulation, Clear, saver
  <1>7. Saving' /\ SavedExact'
    BY <1>6, SavingOver, SavedSame
  <1> QED BY <1>1, <1>5, <1>7

\* addValue in memory
LEMMA AddToMemoryStep ==
  ASSUME LogInv, AddToMemory PROVE LogInv'
  <1> USE DEF LogInv
  <1>1. TypeOK'
    BY AddType
  <1>2. /\ sim = "run" /\ ~useDisk_ /\ overPos_ = 0 /\ produced + 1 \in Record
        /\ AddEntry(produced + 1, produced + 1)
        /\ disturbed' = disturbed /\ saving' = saving /\ spoiled' = spoiled
        /\ UNCHANGED <<useDisk_, currentPos_, changePos_, overPos_, tempDir_>>
        /\ UNCHANGED <<sim, header_, menus, initLogFlag_, newStat_, preStat_, prePos_>>
        /\ UNCHANGED <<writeFile_, readFile_, tmpdir, files, saved, savedOf, joined>>
    BY LogAssumption DEF AddToMemory, fixed, logger, saver, cache, TypeOK, Record
  <1> DEFINE r == produced + 1
  <1>3. PICK d \in {0, 1} :
         /\ Len(content') = Len(log_') /\ Len(log_') = Size + 1 - d /\ Len(log_') >= 1
         /\ \A k \in 1 .. Size - d : log_'[k] = log_[k + d] /\ content'[k] = content[k + d]
         /\ log_'[Size + 1 - d] = [time |-> r, value |-> r] /\ content'[Size + 1 - d] = r
         /\ bRemoved' <=> bRemoved \/ d = 1
    <2>1. Len(content) = Size /\ r \in Record /\ r \in Record \cup {Nil} /\ AddEntry(r, r)
      BY <1>2 DEF Shape
    <2> HIDE DEF r
    <2> QED BY <2>1, Added
  <1>4. r # Nil /\ Size \in Nat /\ Size' = Size + 1 - d /\ Size' \in Nat /\ Size' >= Size
    BY <1>2, <1>3, Numbers DEF Size
  <1> HIDE DEF r
  <1>5. \A k \in 1 .. Size : log_[k].value # Nil
    BY <1>2 DEF Shape, Halves
  <1>6. \A k \in 1 .. Size' : \/ k \in 1 .. Size - d /\ k + d \in 1 .. Size
                              \/ k = Size + 1 - d
    BY <1>4
  <1>7. \A k \in 1 .. Size' : log_'[k].time = content'[k] /\ log_'[k].value \in {Nil, content'[k]}
                              /\ log_'[k].value # Nil
    <2> SUFFICES ASSUME NEW k \in 1 .. Size'
                 PROVE  log_'[k].time = content'[k] /\ log_'[k].value \in {Nil, content'[k]}
                        /\ log_'[k].value # Nil
      OBVIOUS
    <2>1. CASE k \in 1 .. Size - d /\ k + d \in 1 .. Size
      BY <1>2, <1>3, <1>5, <2>1 DEF Shape
    <2>2. CASE k = Size + 1 - d
      BY <1>3, <1>4, <2>2
    <2> QED BY <1>6, <2>1, <2>2
  <1>8. Shape'
    <2>1. Halves(Size)'
      BY <1>4, <1>7 DEF Halves
    <2>2. Size' \in 0 .. Size' /\ currentPos_' \in -1 .. Size' - 1
      BY <1>2, <1>4, Numbers DEF Shape
    <2> QED BY <1>2, <1>3, <1>7, <2>1, <2>2 DEF Shape, Size
  <1>9. ~disturbed => changePos_ < 0 /\ ~initLogFlag_
    BY <1>2, Numbers DEF Phases, Recording, InFiles
  <1>10. Phases' /\ Filed' /\ Cached'
    <2>1. ~disturbed /\ changePos_ < 0 => \A k \in 1 .. Size : log_[k].value = content[k]
      BY <1>2 DEF Phases
    <2>2. ~disturbed => \A k \in 1 .. Size' : log_'[k].value = content'[k]
      BY <1>7
    <2>3. Phases'
      BY <1>2, <1>9, <2>2 DEF Phases, Recording
    <2>4. Filed' /\ Cached'
      BY <1>2, <1>9, Numbers DEF Filed, Cached, InFiles
    <2> QED BY <2>3, <2>4
  <1>11. Timed' /\ Kept' /\ Saving' /\ SavedExact'
    BY <1>2, Spoiling, SavedSame DEF Timed, Kept
  <1> QED BY <1>1, <1>8, <1>10, <1>11

\* addValue to a file, which is where the log moves if it was in memory.
LEMMA AddToFileStep ==
  ASSUME LogInv, AddToFile PROVE LogInv'
  <1> USE DEF LogInv
  <1>1. TypeOK'
    BY AddType
  <1>2. /\ sim = "run" /\ sim' = "put" /\ newStat_' = produced + 1 /\ produced + 1 \in Record
        /\ disturbed' = disturbed /\ saving' = saving /\ spoiled' = spoiled
        /\ UNCHANGED <<useDisk_, log_, content, bRemoved, currentPos_, overPos_>>
        /\ UNCHANGED <<header_, menus, initLogFlag_, preStat_, prePos_>>
        /\ UNCHANGED <<writeFile_, readFile_, tmpdir, files, saved, savedOf, joined>>
    BY LogAssumption DEF AddToFile, fixed, series, logger, saver, cache, TypeOK, Record
  <1>3. newStat_' # Nil /\ Size' = Size /\ Size \in Nat
    BY <1>2, Numbers DEF Size
  <1>4. Kept' /\ Saving' /\ SavedExact' /\ Timed'
    BY <1>2, <1>3, Spoiling, SavedSame DEF Kept, Timed
  <1>5. CASE useDisk_ \/ overPos_ > 0
    <2>1. tempDir_' = tempDir_ /\ changePos_' = changePos_
      BY <1>5 DEF AddToFile
    <2>2. Shape'
      BY <1>2, <2>1, ShapeSame
    <2>3. ~disturbed => InFiles
      BY <1>2, <1>5, Numbers DEF Phases, Recording, InFiles
    <2>4. Phases'
      BY <1>2, <1>3, <1>5, <2>1, <2>3, Numbers DEF Phases, Recording, InFiles
    <2>5. Filed' /\ Cached'
      BY <1>2, <1>3, <2>1 DEF Filed, Cached, Recording, InFiles, First
    <2> QED BY <1>1, <1>4, <2>2, <2>4, <2>5
  <1>6. CASE ~(useDisk_ \/ overPos_ > 0)
    <2>1. ~useDisk_ /\ overPos_ = 0 /\ tempDir_' = "over" /\ changePos_' = Size
      BY <1>6, Numbers DEF AddToFile
    <2>2. Shape'
      BY <1>2, <1>3, <2>1 DEF Shape, Halves
    <2>3. ~disturbed => ~initLogFlag_ /\ changePos_ < 0
      BY <1>2, <2>1, Numbers DEF Phases, Recording
    <2>4. Phases'
      BY <1>2, <1>3, <2>1, <2>3 DEF Phases, Recording, InFiles
    <2>5. Filed'
      BY <1>2, <1>3, <2>1, <2>3 DEF Phases, Filed, Recording, InFiles, First
    <2>6. Cached'
      BY <1>2, <1>3, <2>1, <2>3 DEF Phases, Cached, Recording, InFiles, First
    <2> QED BY <1>1, <1>4, <2>2, <2>4, <2>5, <2>6
  <1> QED BY <1>5, <1>6

\* The record is written behind the others, in a new file if it is the first.
LEMMA WriteRecordStep ==
  ASSUME LogInv, WriteRecord PROVE LogInv'
  <1> USE DEF LogInv
  <1>1. TypeOK'
    BY WriteType
  <1>2. /\ sim = "put" /\ sim' # "off"
        /\ disturbed' = disturbed /\ saving' = saving /\ spoiled' = spoiled
        /\ UNCHANGED <<useDisk_, log_, content, bRemoved, currentPos_, overPos_, changePos_>>
        /\ UNCHANGED <<header_, newStat_, prePos_, tempDir_, saved, savedOf, joined>>
    BY DEF WriteRecord, fixed, series
  <1>3. Size' = Size /\ Size \in Nat
    BY <1>2, Numbers DEF Size
  <1>4. Shape' /\ Kept' /\ Saving' /\ SavedExact'
    BY <1>2, ShapeSame, Spoiling, SavedSame DEF Kept
  <1>5. ~disturbed => newStat_ # Nil /\ header_ /\ InFiles /\ (menus <=> initLogFlag_)
    BY <1>2 DEF Phases, Recording
  <1>6. CASE disturbed
    BY <1>1, <1>2, <1>4, <1>6, Disturbing
  <1>7. CASE ~disturbed
    <2> DEFINE f == IF useDisk_ THEN "base" ELSE "over"
    <2>1. tempDir_ = f /\ f \in Files /\ files \in [Files -> Seq(Record)] /\ InFiles
      <3>1. useDisk_ \/ changePos_ >= 0
        BY <1>5, <1>7 DEF InFiles
      <3>2. useDisk_ => tempDir_ = "base"
        BY DEF Shape
      <3>3. ~useDisk_ => tempDir_ = "over"
        BY <1>2, <1>7, <3>1 DEF Phases, Recording
      <3> QED BY <3>1, <3>2, <3>3 DEF Files, TypeOK, InFiles
    <2>2. newStat_ \in Record /\ First \in Nat
      BY <1>5, <1>7, <2>1, Numbers DEF TypeOK, First, InFiles
    <2>3. /\ sim' = "show" /\ initLogFlag_' /\ menus'
          /\ tmpdir' = f /\ writeFile_' = f /\ readFile_' = f
          /\ IF initLogFlag_ THEN files' = [files EXCEPT ![f] = Append(files[f], newStat_)]
                             ELSE files' = [files EXCEPT ![f] = <<newStat_>>]
          /\ ~initLogFlag_ => preStat_' = newStat_ /\ prePos_ = -1
          /\ initLogFlag_ => preStat_' = preStat_
      <3>1. CASE initLogFlag_
        <4>1. writeFile_ = f /\ readFile_ = f /\ tmpdir = f /\ menus /\ f # "none"
          BY <1>2, <1>5, <1>7, <2>1, <3>1 DEF Phases, Recording
        <4>2. /\ sim' = "show"
              /\ files' = IF writeFile_ = "none" THEN files
                          ELSE [files EXCEPT ![writeFile_] = Append(@, newStat_)]
              /\ UNCHANGED <<initLogFlag_, menus, preStat_, tmpdir, writeFile_, readFile_>>
          BY <1>5, <1>7, <3>1 DEF WriteRecord
        <4> HIDE DEF f
        <4> QED BY <3>1, <4>1, <4>2
      <3>2. CASE ~initLogFlag_
        <4>1. sim' = "show" /\ OpenLog(<<newStat_>>) /\ writeFile_' = tempDir_ /\ preStat_' = newStat_
          BY <1>5, <1>7, <3>2 DEF WriteRecord
        <4>2. prePos_ = -1
          BY <1>2, <1>7, <3>2 DEF Phases, Recording
        <4> HIDE DEF f
        <4> QED BY <2>1, <3>2, <4>1, <4>2 DEF OpenLog
      <3> QED BY <3>1, <3>2
    <2>4. /\ ~initLogFlag_ => First = Size
          /\ initLogFlag_ /\ ~bRemoved => Len(files[f]) = Size - First
          /\ ~bRemoved => First <= Size
      <3>1. ~initLogFlag_ => First = Size
        BY <1>2, <1>7, <2>1 DEF Phases, Recording, InFiles, First
      <3>2. initLogFlag_ /\ ~bRemoved => Len(files[f]) = Size - First
        BY <1>2, <1>3, <1>7, <2>1, <2>2 DEF Filed, Recording
      <3>3. ~bRemoved => First <= Size
        BY <1>2, <1>7, <2>1 DEF Filed, Recording
      <3> QED BY <3>1, <3>2, <3>3
    <2>5. Phases'
      BY <1>2, <1>3, <1>5, <1>7, <2>1, <2>3 DEF Phases, Recording, InFiles
    <2>6. ~bRemoved =>
          /\ Len((files')[f]) = Size - First + 1 /\ (files')[f][Size - First + 1] = newStat_
          /\ \A k \in First + 1 .. Size : (files')[f][k - First] = content[k]
      <3> SUFFICES ASSUME ~bRemoved
                   PROVE  /\ Len((files')[f]) = Size - First + 1
                          /\ (files')[f][Size - First + 1] = newStat_
                          /\ \A k \in First + 1 .. Size : (files')[f][k - First] = content[k]
        OBVIOUS
      <3>1. CASE ~initLogFlag_
        <4>1. (files')[f] = <<newStat_>>
          BY <2>1, <2>3, <3>1
        <4> QED BY <1>3, <2>2, <2>4, <3>1, <4>1
      <3>2. CASE initLogFlag_
        <4> DEFINE q == files[f]
        <4>1. (files')[f] = Append(q, newStat_)
          BY <2>1, <2>3, <3>2
        <4>2. q \in Seq(Record) /\ Len(q) = Size - First
          BY <2>1, <2>4, <3>2
        <4>3. \A k \in First + 1 .. Size : q[k - First] = content[k]
          BY <1>3, <1>7, <2>1, <2>2 DEF Filed
        <4> HIDE DEF q
        <4>4. /\ Len(Append(q, newStat_)) = Len(q) + 1 /\ Append(q, newStat_)[Len(q) + 1] = newStat_
              /\ \A k \in 1 .. Len(q) : Append(q, newStat_)[k] = q[k]
          BY <2>2, <4>2, AppendProperties
        <4>5. \A k \in First + 1 .. Size : k - First \in 1 .. Len(q)
          BY <1>3, <2>2, <4>2
        <4> QED BY <4>1, <4>2, <4>3, <4>4, <4>5
      <3> QED BY <3>1, <3>2
    <2>7. Filed'
      <3> SUFFICES ASSUME ~bRemoved PROVE Filed'
        BY <1>2 DEF Filed
      <3>1. ~useDisk_ => \A k \in 1 .. Size :
                           log_[k].value = IF k <= changePos_ THEN content[k] ELSE Nil
        BY <1>7, <2>1 DEF Filed
      <3> HIDE DEF f
      <3>2. /\ Size > First => readFile_' = f /\ Len((files')[f]) >= Size - First
            /\ \A k \in First + 1 .. Size : (files')[f][k - First] = content[k]
            /\ First <= Size /\ Len((files')[f]) = Size - First + 1
            /\ (files')[f][Size - First + 1] = newStat_
        BY <1>3, <2>2, <2>3, <2>4, <2>6
      <3>3. First' = First
        BY <1>2 DEF First
      <3> USE DEF f
      <3> QED BY <1>2, <1>3, <2>3, <3>1, <3>2, <3>3 DEF Filed
    <2>8. Cached'
      <3> SUFFICES ASSUME ~bRemoved PROVE Cached'
        BY <1>2 DEF Cached
      <3>1. /\ \A k \in First + 1 .. Size : prePos_ = k - First - 1 => preStat_' = content[k]
            /\ prePos_ < Size - First \/ prePos_ = -1
        BY <1>2, <1>3, <1>7, <2>1, <2>2, <2>3, <2>4 DEF Cached, Recording
      <3>2. First' = First
        BY <1>2 DEF First
      <3> QED BY <1>2, <1>3, <3>1, <3>2 DEF Cached
    <2>9. Timed'
      BY <1>2, <1>3, <1>7, <2>3 DEF Timed
    <2> QED BY <1>1, <1>4, <2>5, <2>7, <2>8, <2>9
  <1> QED BY <1>6, <1>7

\* The views see the position: the record is the last one in the file.
LEMMA ShowRecordStep ==
  ASSUME LogInv, ShowRecord PROVE LogInv'
  <1> USE DEF LogInv
  <1>1. TypeOK'
    BY ShowType
  <1>2. /\ sim = "show" /\ sim' # "off"
        /\ disturbed' = disturbed /\ saving' = saving /\ spoiled' = spoiled
        /\ UNCHANGED <<useDisk_, currentPos_, changePos_, initLogFlag_, menus, newStat_>>
        /\ UNCHANGED <<preStat_, prePos_, tempDir_, tmpdir, writeFile_, readFile_, header_>>
        /\ UNCHANGED <<files, saved, savedOf, joined>>
    BY DEF ShowRecord, fixed, cache, logger
  <1>3. Kept' /\ Saving' /\ SavedExact'
    BY <1>2, Spoiling, SavedSame DEF Kept
  <1>4. CASE newStat_ = Nil
    <2>1. disturbed
      BY <1>2, <1>4 DEF Phases
    <2>2. UNCHANGED <<log_, content, bRemoved, overPos_>>
      BY <1>4 DEF ShowRecord, series
    <2>3. Shape'
      BY <1>2, <2>2, ShapeSame
    <2> QED BY <1>1, <1>2, <1>3, <2>1, <2>3, Disturbing
  <1>5. CASE newStat_ # Nil
    <2>1. /\ sim' = "run" /\ AddEntry(newStat_, Nil) /\ newStat_ \in Record
          /\ overPos_' = IF useDisk_ THEN overPos_ ELSE overPos_ + 1
      BY <1>5 DEF ShowRecord, TypeOK
    <2>2. PICK d \in {0, 1} :
           /\ Len(content') = Len(log_') /\ Len(log_') = Size + 1 - d /\ Len(log_') >= 1
           /\ \A k \in 1 .. Size - d : log_'[k] = log_[k + d] /\ content'[k] = content[k + d]
           /\ log_'[Size + 1 - d] = [time |-> newStat_, value |-> Nil]
           /\ content'[Size + 1 - d] = newStat_
           /\ bRemoved' <=> bRemoved \/ d = 1
      <3>1. Len(content) = Size
        BY DEF Shape
      <3> QED BY <2>1, <3>1, Added
    <2>3. /\ Size \in Nat /\ Size' = Size + 1 - d /\ Size' \in Nat /\ Size' >= Size /\ Size' >= 1
          /\ overPos_ \in Nat
      BY <2>2, Numbers DEF Size
    <2>4. \A k \in 1 .. Size' : \/ k \in 1 .. Size - d /\ k + d \in 1 .. Size
                                \/ k = Size + 1 - d
      BY <2>3
    <2>5. Shape'
      <3>1. ~useDisk_ => \A k \in 1 .. Size' : /\ log_'[k].time = content'[k]
                                               /\ log_'[k].value \in {Nil, content'[k]}
        <4> SUFFICES ASSUME ~useDisk_, NEW k \in 1 .. Size'
                     PROVE  log_'[k].time = content'[k] /\ log_'[k].value \in {Nil, content'[k]}
          OBVIOUS
        <4>1. CASE k \in 1 .. Size - d /\ k + d \in 1 .. Size
          BY <2>2, <4>1 DEF Shape
        <4>2. CASE k = Size + 1 - d
          BY <2>2, <4>2
        <4> QED BY <2>4, <4>1, <4>2
      <3>2. ~useDisk_ => \E m \in 0 .. Size' : Halves(m)'
        <4> SUFFICES ASSUME ~useDisk_ PROVE \E m \in 0 .. Size' : Halves(m)'
          OBVIOUS
        <4>1. PICK n \in 0 .. Size : Halves(n)
          BY DEF Shape
        <4> DEFINE m == IF n >= d THEN n - d ELSE 0
        <4>2. m \in 0 .. Size - d \/ (m = 0 /\ n = 0)
          BY <2>3
        <4>3. m \in 0 .. Size' /\ (m + d = n \/ (m = 0 /\ n = 0))
          BY <2>3
        <4> HIDE DEF m
        <4>4. \A k \in 1 .. m : log_'[k].value # Nil
          <5> SUFFICES ASSUME NEW k \in 1 .. m PROVE log_'[k].value # Nil
            OBVIOUS
          <5>1. k \in 1 .. Size - d /\ k + d \in 1 .. n
            BY <2>3, <4>2, <4>3
          <5>2. log_[k + d].value # Nil
            BY <4>1, <5>1 DEF Halves
          <5> QED BY <2>2, <5>1, <5>2
        <4>5. \A k \in 1 .. Size' : k > m => log_'[k].value = Nil
          <5> SUFFICES ASSUME NEW k \in 1 .. Size', k > m PROVE log_'[k].value = Nil
            OBVIOUS
          <5>1. CASE k \in 1 .. Size - d /\ k + d \in 1 .. Size
            <6>1. k + d > n
              BY <2>3, <4>3
            <6>2. log_[k + d].value = Nil
              BY <4>1, <5>1, <6>1 DEF Halves
            <6> QED BY <2>2, <5>1, <6>2
          <5>2. CASE k = Size + 1 - d
            BY <2>2, <5>2
          <5> QED BY <2>4, <5>1, <5>2
        <4>6. overPos_' # 0
          BY <2>1, <2>3
        <4>7. Halves(m)'
          BY <4>4, <4>5, <4>6 DEF Halves
        <4> QED BY <4>3, <4>7
      <3>3. currentPos_' \in -1 .. Size' - 1 /\ Len(content') = Size' /\ changePos_' >= -1
        BY <1>2, <2>2, <2>3, Numbers DEF Shape, Size
      <3> QED BY <1>2, <3>1, <3>2, <3>3 DEF Shape
    <2>6. CASE disturbed
      BY <1>1, <1>2, <1>3, <2>5, <2>6, Disturbing
    <2>7. CASE ~disturbed
      <3>1. initLogFlag_ /\ InFiles /\ tempDir_ = readFile_
        BY <1>2, <2>7 DEF Phases, Recording
      <3>2. Phases'
        <4>1. /\ header_ /\ menus /\ initLogFlag_
              /\ writeFile_ = tempDir_ /\ readFile_ = tempDir_ /\ tmpdir = tempDir_
              /\ ~useDisk_ /\ changePos_ >= 0 => tempDir_ = "over"
          BY <1>2, <2>7, <3>1 DEF Phases, Recording
        <4>2. (useDisk_ \/ changePos_ >= 0) /\ ~(~useDisk_ /\ changePos_ < 0)
          BY <3>1, Numbers DEF InFiles
        <4>3. useDisk_ \/ overPos_' > 0
          BY <2>1, <2>3
        <4> QED BY <1>2, <2>1, <4>1, <4>2, <4>3 DEF Phases, Recording, InFiles
      <3>3. CASE bRemoved'
        <4>1. Filed' /\ Cached' /\ Timed'
          BY <3>3 DEF Filed, Cached, Timed
        <4> QED BY <1>1, <1>3, <2>5, <3>2, <4>1
      <3>4. CASE ~bRemoved'
        <4>1. ~bRemoved /\ Size' = Size + 1 /\ First \in Nat /\ First' = First
              /\ \A k \in 1 .. Size : log_'[k] = log_[k] /\ content'[k] = content[k]
          BY <1>2, <2>2, <2>3, <3>1, <3>4, Numbers DEF InFiles, First
        <4>2. log_'[Size + 1] = [time |-> newStat_, value |-> Nil] /\ content'[Size + 1] = newStat_
          BY <2>2, <2>3, <3>4
        <4>3. \A k \in 1 .. Size' : k \in 1 .. Size \/ k = Size + 1
          BY <2>3, <4>1
        <4>4. Filed'
          <5> DEFINE f == IF useDisk_ THEN "base" ELSE "over"
          <5>1. readFile_ = f
            BY <1>2, <2>7, <3>1 DEF Phases, Recording, InFiles, Shape
          <5>2. /\ ~useDisk_ => \A k \in 1 .. Size :
                                  log_[k].value = IF k <= changePos_ THEN content[k] ELSE Nil
                /\ Size > First => \A k \in First + 1 .. Size : files[f][k - First] = content[k]
                /\ First <= Size
                /\ Len(files[f]) = Size - First + 1
                /\ files[f][Size - First + 1] = newStat_
            BY <1>2, <2>7, <3>1, <4>1 DEF Filed, Recording
          <5> HIDE DEF f
          <5>3. ~useDisk_ => \A k \in 1 .. Size' :
                               log_'[k].value = IF k <= changePos_ THEN content'[k] ELSE Nil
            <6> SUFFICES ASSUME ~useDisk_, NEW k \in 1 .. Size'
                         PROVE  log_'[k].value = IF k <= changePos_ THEN content'[k] ELSE Nil
              OBVIOUS
            <6>1. CASE k \in 1 .. Size
              BY <4>1, <5>2, <6>1
            <6>2. CASE k = Size + 1
              <7>1. ~(k <= changePos_)
                BY <2>3, <3>1, <5>2, <6>2, Numbers DEF First, InFiles
              <7> QED BY <4>2, <6>2, <7>1
            <6> QED BY <4>3, <6>1, <6>2
          <5>4. \A k \in First + 1 .. Size' : files[f][k - First] = content'[k]
            <6> SUFFICES ASSUME NEW k \in First + 1 .. Size' PROVE files[f][k - First] = content'[k]
              OBVIOUS
            <6>1. CASE k \in 1 .. Size
              <7>1. Size > First /\ k \in First + 1 .. Size
                BY <2>3, <4>1, <6>1
              <7> QED BY <4>1, <5>2, <6>1, <7>1
            <6>2. CASE k = Size + 1
              <7>1. k - First = Size - First + 1
                BY <2>3, <4>1, <6>2
              <7> QED BY <4>2, <5>2, <6>2, <7>1
            <6> QED BY <2>3, <4>1, <4>3, <6>1, <6>2
          <5>5. Len(files[f]) = Size' - First /\ Len(files[f]) >= Size' - First /\ First <= Size'
            BY <2>3, <4>1, <5>2
          <5>6. Len(files[f]) = Size' - First + 0
            BY <2>3, <4>1, <5>5
          <5> USE DEF f
          <5> QED BY <1>2, <2>1, <4>1, <5>1, <5>3, <5>4, <5>5, <5>6 DEF Filed
        <4>5. Cached'
          <5>1. /\ \A k \in First + 1 .. Size : prePos_ = k - First - 1 => preStat_ = content[k]
                /\ prePos_ < Size - First \/ prePos_ = -1
                /\ First <= Size /\ prePos_ \in Int
            BY <1>2, <2>7, <3>1, <4>1, Numbers DEF Cached, Filed, Recording
          <5>2. \A k \in First + 1 .. Size' : prePos_ = k - First - 1 => preStat_ = content'[k]
            <6> SUFFICES ASSUME NEW k \in First + 1 .. Size', prePos_ = k - First - 1
                         PROVE  preStat_ = content'[k]
              OBVIOUS
            <6>1. k # Size + 1
              BY <2>3, <4>1, <5>1
            <6>2. k \in First + 1 .. Size /\ k \in 1 .. Size
              BY <2>3, <4>1, <6>1
            <6> QED BY <4>1, <5>1, <6>2
          <5>3. prePos_ < Size' - First \/ prePos_ = -1
            BY <2>3, <4>1, <5>1
          <5> QED BY <1>2, <4>1, <5>2, <5>3 DEF Cached
        <4>6. Timed'
          <5> SUFFICES ASSUME useDisk_
                       PROVE  /\ \A k \in 1 .. Size' : log_'[k].time \in {content'[k], Nil}
                              /\ Size' > 0 /\ newStat_ = content'[Size']
            BY <1>2, <2>1, <2>7, <3>4 DEF Timed
          <5>1. \A k \in 1 .. Size : log_[k].time \in {content[k], Nil}
            BY <2>7, <4>1 DEF Timed
          <5>2. ASSUME NEW k \in 1 .. Size' PROVE log_'[k].time \in {content'[k], Nil}
            <6>1. CASE k \in 1 .. Size
              BY <4>1, <5>1, <6>1
            <6>2. CASE k = Size + 1
              BY <4>2, <6>2
            <6> QED BY <4>3, <6>1, <6>2
          <5> QED BY <2>3, <4>1, <4>2, <5>2
        <4> QED BY <1>1, <1>3, <2>5, <3>2, <4>4, <4>5, <4>6
      <3> QED BY <3>3, <3>4
    <2> QED BY <2>6, <2>7
  <1> QED BY <1>4, <1>5

\* When the simulation ends, the file holds the log and is there to be saved.
LEMMA EndSimulationStep ==
  ASSUME LogInv, EndSimulation PROVE LogInv'
  <1> USE DEF LogInv
  <1>1. TypeOK'
    BY EndType
  <1>2. /\ sim \in {"run", "dead"} /\ sim' = "off"
        /\ currentPos_' = IF Size > 0 THEN 0 ELSE currentPos_
        /\ disturbed' = disturbed /\ saving' = saving /\ spoiled' = spoiled
        /\ UNCHANGED <<useDisk_, log_, content, bRemoved, changePos_, overPos_>>
        /\ UNCHANGED <<initLogFlag_, menus, newStat_, preStat_, prePos_, tempDir_>>
        /\ UNCHANGED <<tmpdir, readFile_, header_, files, saved, savedOf, joined>>
    BY DEF EndSimulation, fixed, series, cache
  <1>3. Size' = Size /\ Size \in Nat
    BY <1>2, Numbers DEF Size
  <1>4. Shape'
    <2>1. currentPos_' \in -1 .. Size - 1
      BY <1>2, <1>3 DEF Shape
    <2> QED BY <1>2, <1>3, <2>1 DEF Shape, Halves
  <1>5. Saving' /\ SavedExact'
    BY <1>2, Spoiling, SavedSame
  <1>6. CASE disturbed
    BY <1>1, <1>2, <1>4, <1>5, <1>6, Disturbing
  <1>7. CASE ~disturbed
    <2>1. sim = "run"
      BY <1>2, <1>7 DEF Phases
    <2>2. Phases' /\ Timed'
      BY <1>2, <1>3, <1>7, <2>1 DEF Phases, Timed, Recording
    <2>3. Filed' /\ Cached'
      BY <1>2, <1>3, <1>7, <2>1 DEF Filed, Cached, Recording, InFiles, First
    <2>4. Kept'
      <3> SUFFICES ASSUME menus
                   PROVE  /\ useDisk_ /\ ~bRemoved =>
                               header_ /\ tmpdir \in Files /\ files[tmpdir] = content
                          /\ ~useDisk_ => changePos_ >= 0
        BY <1>2, Numbers DEF Kept
      <3>1. initLogFlag_ /\ header_ /\ InFiles /\ tmpdir = tempDir_
        BY <1>7, <2>1 DEF Phases, Recording
      <3>2. ASSUME useDisk_, ~bRemoved PROVE tmpdir = "base" /\ files["base"] = content
        <4>1. tmpdir = "base" /\ First = 0
          BY <3>1, <3>2 DEF Shape, First
        <4>2. Len(files["base"]) = Size
          BY <1>3, <1>7, <2>1, <3>1, <3>2, <4>1 DEF Filed, Recording
        <4>3. \A k \in 1 .. Size : files["base"][k] = content[k]
          <5> SUFFICES ASSUME NEW k \in 1 .. Size PROVE files["base"][k] = content[k]
            OBVIOUS
          <5>1. Size > First /\ k \in First + 1 .. Size /\ k - First = k
            BY <1>3, <4>1
          <5>2. files["base"][k - First] = content[k]
            BY <1>7, <3>1, <3>2, <5>1 DEF Filed
          <5> QED BY <5>1, <5>2
        <4>4. files["base"] \in Seq(Record) /\ content \in Seq(Record) /\ Len(content) = Size
          BY Numbers DEF TypeOK, Files, Shape
        <4> QED BY <4>1, <4>2, <4>3, <4>4, SeqEqual
      <3> QED BY <3>1, <3>2 DEF Files, InFiles
    <2> QED BY <1>1, <1>4, <1>5, <2>2, <2>3, <2>4
  <1> QED BY <1>6, <1>7

\* save_ finds a log that Kept describes, if it was left alone.
LEMMA AskSaveStep ==
  ASSUME LogInv, AskSave PROVE LogInv'
  <1> USE DEF LogInv
  <1>1. TypeOK'
    BY AskType
  <1>2. /\ menus /\ ~bRemoved /\ saving' = "asked" /\ savedOf' = content
        /\ joined' = (~useDisk_ /\ changePos_ >= 0) /\ spoiled' = (disturbed \/ sim # "off")
        /\ disturbed' = disturbed
        /\ UNCHANGED <<useDisk_, log_, content, bRemoved, currentPos_, changePos_, overPos_, tempDir_>>
        /\ UNCHANGED <<sim, header_, menus, initLogFlag_, newStat_, preStat_, prePos_>>
        /\ UNCHANGED <<writeFile_, readFile_, tmpdir, files>>
    BY DEF AskSave, fixed, series, cache, logger
  <1>3. Shape' /\ Phases' /\ Filed' /\ Cached' /\ Timed' /\ Kept'
    BY <1>2, ShapeSame, PhasesSame, FiledSame, CachedSame, TimedSame, KeptSame
  <1>4. SavedExact'
    BY <1>2 DEF SavedExact
  <1>5. Saving'
    <2>1. (joined' <=> ~useDisk_ /\ changePos_ >= 0) /\ (spoiled' <=> disturbed \/ sim # "off")
      BY <1>2
    <2> QED BY <1>2, <2>1 DEF Saving
  <1> QED BY <1>1, <1>3, <1>4, <1>5

\* The save thread closes the writers and writes what is in memory to a file.
LEMMA RestoreLogStep ==
  ASSUME LogInv, RestoreLog PROVE LogInv'
  <1> USE DEF LogInv
  <1>1. TypeOK'
    BY RestoreType
  <1>2. /\ saving = "asked" /\ saving' # "no" /\ spoiled' = spoiled
        /\ disturbed' = (disturbed \/ sim # "off")
        /\ UNCHANGED <<useDisk_, log_, content, bRemoved, currentPos_, changePos_, overPos_, tempDir_>>
        /\ UNCHANGED <<sim, header_, prePos_, saved, savedOf, joined>>
    BY DEF RestoreLog, fixed, series, bounds
  <1>3. Size' = Size /\ Size \in Nat
    BY <1>2, Numbers DEF Size
  <1>4. Shape' /\ SavedExact'
    BY <1>2, ShapeSame DEF SavedExact
  <1>5. CASE disturbed \/ sim # "off"
    <2>1. Saving'
      BY <1>2, <1>5 DEF Saving
    <2> QED BY <1>1, <1>2, <1>4, <1>5, <2>1, Disturbing
  <1>6. CASE ~disturbed /\ sim = "off"
    <2>1. disturbed' = disturbed /\ sim' = "off"
      <3>1. disturbed = FALSE /\ (disturbed \/ sim # "off") = FALSE
        BY <1>6 DEF TypeOK
      <3> QED BY <1>2, <1>6, <3>1
    <2>2. Phases'
      <3>1. ~useDisk_ /\ changePos_ < 0 => \A k \in 1 .. Size : log_[k].value = content[k]
        BY <1>6 DEF Phases
      <3> QED BY <1>2, <1>3, <2>1, <3>1 DEF Phases, Recording
    <2>3. Cached'
      <3>1. preStat_' = preStat_ \/ ~InFiles
        BY <1>2, Numbers DEF RestoreLog, InFiles
      <3> QED BY <1>2, <1>3, <1>6, <2>1, <3>1 DEF Cached, InFiles, First, Recording
    <2>4. ~spoiled => /\ menus /\ ~bRemoved /\ savedOf = content
                      /\ joined <=> ~useDisk_ /\ changePos_ >= 0
      BY <1>2 DEF Saving
    <2>5. CASE useDisk_
      <3>1. saving' = "logger" /\ UNCHANGED <<initLogFlag_, menus, newStat_, preStat_, tmpdir, files, readFile_>>
        BY <2>5 DEF RestoreLog
      <3>2. Filed' /\ Timed' /\ Kept'
        BY <1>2, <2>1, <3>1, FiledSame, TimedSame, KeptSame
      <3>3. ~spoiled => header_ /\ tmpdir \in Files /\ files[tmpdir] = content
        BY <1>6, <2>4, <2>5 DEF Kept
      <3>4. Saving'
        BY <1>2, <1>6, <2>1, <2>4, <3>1, <3>3 DEF Saving
      <3> QED BY <1>1, <1>4, <2>2, <2>3, <3>2, <3>4
    <2>6. CASE ~useDisk_ /\ changePos_ < 0
      <3>1. saving' = "logger"
        BY <2>6, Numbers DEF RestoreLog
      <3>2. Filed' /\ Timed'
        BY <1>2, <2>6, Numbers DEF Filed, Timed, InFiles
      <3>3. CASE Size > 0 /\ ~initLogFlag_ /\ header_
        <4>1. OpenLog(InMemory)
          BY <2>6, <3>3, Numbers DEF RestoreLog
        <4>2. InMemory = content
          <5>1. \A k \in 1 .. Size : log_[k].value = content[k]
            BY <1>6, <2>6 DEF Phases
          <5>2. content \in Seq(Record) /\ Len(content) = Size
                /\ \A k \in 1 .. Size : content[k] # Nil
            BY Numbers DEF TypeOK, Shape
          <5>3. Halves(Size) /\ Size \in 0 .. Size
            BY <1>3, <5>1, <5>2 DEF Halves
          <5>4. /\ InMemory \in Seq(Record) /\ Len(InMemory) = Size
                /\ \A k \in 1 .. Size : InMemory[k] = log_[k].value
            BY <5>3, InMemoryIs
          <5> HIDE DEF Size
          <5> QED BY <5>1, <5>2, <5>4, SeqEqual
        <4>3. menus' /\ tmpdir' \in Files /\ (files')[tmpdir'] = content
          BY <4>1, <4>2 DEF OpenLog, TypeOK
        <4>4. Kept'
          BY <1>2, <1>3, <2>6, <3>3, <4>3 DEF Kept
        <4>5. Saving'
          BY <1>2, <1>6, <2>1, <2>4, <3>1, <3>3, <4>3 DEF Saving
        <4> QED BY <1>1, <1>4, <2>2, <2>3, <3>2, <4>4, <4>5
      <3>4. CASE ~(Size > 0 /\ ~initLogFlag_ /\ header_)
        <4>1. UNCHANGED <<initLogFlag_, menus, newStat_, preStat_, tmpdir, files, readFile_>>
          BY <2>6, <3>4, Numbers DEF RestoreLog
        <4>2. Kept'
          BY <1>2, <2>1, <4>1, KeptSame
        <4>3. ~spoiled => header_ /\ tmpdir \in Files /\ files[tmpdir] = content
          BY <1>6, <2>4, <2>6, <3>4 DEF Kept
        <4>4. Saving'
          BY <1>2, <1>6, <2>1, <2>4, <3>1, <4>1, <4>3 DEF Saving
        <4> QED BY <1>1, <1>4, <2>2, <2>3, <3>2, <4>2, <4>4
      <3> QED BY <3>3, <3>4
    <2>7. CASE ~useDisk_ /\ changePos_ >= 0
      <3>1. /\ saving' = "temp" /\ files' = [files EXCEPT !["base"] = Joined(InMemory)]
            /\ UNCHANGED <<initLogFlag_, menus, readFile_>>
        BY <2>7, Numbers DEF RestoreLog
      <3>2. (files')["over"] = files["over"]
        BY <3>1 DEF TypeOK, Files
      <3>3. Filed'
        BY <1>2, <1>3, <1>6, <2>1, <2>7, <3>1, <3>2 DEF Filed, InFiles, First, Recording
      <3>4. Timed' /\ Kept'
        BY <1>2, <2>7, Numbers DEF Timed, Kept
      <3>5. Saving'
        BY <1>2, <1>6, <2>1, <2>4, <2>7, <3>1 DEF Saving
      <3> QED BY <1>1, <1>4, <2>2, <2>3, <3>3, <3>4, <3>5
    <2> QED BY <2>5, <2>6, <2>7, Numbers
  <1> QED BY <1>5, <1>6

\* The file of the logger, or the joined one, is what is saved.
LEMMA ZipStep ==
  ASSUME LogInv, Zip PROVE LogInv'
  <1> USE DEF LogInv
  <1>1. TypeOK'
    BY ZipType
  <1>2. /\ saving \in {"logger", "temp"} /\ saving' = "no"
        /\ saved' = IF saving = "temp" THEN files["base"]
                    ELSE IF header_ /\ tmpdir \in Files THEN files[tmpdir]
                    ELSE <<>>
        /\ disturbed' = disturbed /\ spoiled' = spoiled
        /\ UNCHANGED <<useDisk_, log_, content, bRemoved, currentPos_, changePos_, overPos_, tempDir_>>
        /\ UNCHANGED <<sim, header_, menus, initLogFlag_, newStat_, preStat_, prePos_>>
        /\ UNCHANGED <<writeFile_, readFile_, tmpdir, files, savedOf, joined>>
    BY DEF Zip, fixed, series, cache, logger, bounds
  <1>3. Shape' /\ Phases' /\ Filed' /\ Cached' /\ Timed' /\ Kept' /\ Saving'
    BY <1>2, ShapeSame, PhasesSame, FiledSame, CachedSame, TimedSame, KeptSame, SavingOver
  <1>4. SavedExact'
    <2> SUFFICES ASSUME ~spoiled, ~joined PROVE saved' = savedOf
      BY <1>2 DEF SavedExact
    <2>1. saving = "logger"
      BY <1>2 DEF Saving
    <2> QED BY <1>2, <2>1 DEF Saving
  <1> QED BY <1>1, <1>3, <1>4

\* A loaded log is the saved one, or its last records.
LEMMA LoadStep ==
  ASSUME LogInv, NEW k \in 1 .. Len(saved), Load(k) PROVE LogInv'
  <1> USE DEF LogInv
  <1>1. TypeOK'
    BY LoadType
  <1>2. /\ saving = "no" /\ saving' = saving /\ spoiled' = spoiled
        /\ saved' = saved /\ savedOf' = savedOf /\ joined' = joined
        /\ disturbed' = (sim # "off") /\ sim' = sim /\ useDisk_' = useDisk_
        /\ useDisk_ => k = Len(saved)
        /\ initLogFlag_' = FALSE /\ newStat_' = Nil
        /\ tempDir_' = "base" /\ tmpdir' = "base" /\ readFile_' = "base" /\ header_' = TRUE
    BY DEF Load, fixed, saver
  <1>3. /\ currentPos_' = IF k = Len(saved) THEN 0 ELSE -1
        /\ changePos_' = IF k = Len(saved) THEN -1 ELSE k
        /\ (files')["base"] = saved
        /\ useDisk_ => prePos_' = -1
    BY DEF Load, Files
  <1>4. PICK s \in 0 .. k - 1 :
         /\ Len(log_') = k - s /\ Len(content') = k - s
         /\ \A n \in 1 .. k - s : content'[n] = saved[n + s] /\ saved[n + s] \in Record
         /\ \A n \in 1 .. k - s :
              log_'[n] = IF useDisk_ THEN [time |-> Nil, value |-> Nil]
                         ELSE [time |-> saved[n + s], value |-> saved[n + s]]
         /\ bRemoved' <=> s > 0
    BY LoadedIs
  <1>5. k \in Nat /\ Len(saved) \in Nat /\ k <= Len(saved) /\ s \in Nat /\ s < k
        /\ Size' = k - s /\ Size' \in Nat /\ Size' > 0
    BY <1>4, Numbers DEF Size
  <1>6. ~useDisk_ => \A n \in 1 .. Size' : /\ log_'[n].time = content'[n]
                                           /\ log_'[n].value = content'[n] /\ log_'[n].value # Nil
    <2> SUFFICES ASSUME ~useDisk_, NEW n \in 1 .. Size'
                 PROVE  /\ log_'[n].time = content'[n]
                        /\ log_'[n].value = content'[n] /\ log_'[n].value # Nil
      OBVIOUS
    <2>1. n \in 1 .. k - s
      BY <1>5
    <2>2. log_'[n] = [time |-> saved[n + s], value |-> saved[n + s]]
          /\ content'[n] = saved[n + s] /\ saved[n + s] \in Record
      BY <1>4, <2>1
    <2>3. saved[n + s] # Nil
      BY <2>2, Numbers
    <2> QED BY <2>2, <2>3
  <1>7. Shape'
    <2>1. ~useDisk_ => Halves(Size)'
      BY <1>5, <1>6 DEF Halves
    <2>2. Size' \in 0 .. Size' /\ currentPos_' \in -1 .. Size' - 1 /\ changePos_' >= -1
      BY <1>3, <1>5
    <2> QED BY <1>2, <1>4, <1>5, <1>6, <2>1, <2>2 DEF Shape
  <1>8. Saving' /\ SavedExact'
    BY <1>2, SavingOver, SavedSame
  <1>9. CASE sim # "off"
    BY <1>1, <1>2, <1>7, <1>8, <1>9, Disturbing
  <1>10. CASE sim = "off"
    <2>1. ~disturbed' /\ sim' = "off"
      BY <1>2, <1>10
    <2>2. Phases'
      BY <1>2, <1>6, <2>1 DEF Phases, Recording
    <2>3. ~bRemoved' => s = 0 /\ Size' = k /\ \A n \in 1 .. k : content'[n] = saved[n]
      BY <1>4, <1>5
    <2>4. Filed'
      <3>1. CASE useDisk_
        <4>1. First' = 0
          BY <1>2, <3>1 DEF First
        <4>2. ~bRemoved' => /\ Len((files')["base"]) >= Size' - First'
                            /\ \A n \in First' + 1 .. Size' : (files')["base"][n - First'] = content'[n]
          BY <1>2, <1>3, <1>5, <2>3, <3>1, <4>1
        <4> QED BY <1>2, <2>1, <3>1, <4>2 DEF Filed, Recording
      <3>2. CASE ~useDisk_
        <4>1. InFiles' => changePos_' = k
          BY <1>2, <1>3, <3>2 DEF InFiles
        <4>2. InFiles' /\ ~bRemoved' =>
                /\ First' = Size'
                /\ \A n \in 1 .. Size' :
                     log_'[n].value = IF n <= changePos_' THEN content'[n] ELSE Nil
          BY <1>2, <1>5, <1>6, <2>3, <3>2, <4>1 DEF First
        <4> QED BY <1>2, <1>5, <2>1, <3>2, <4>2 DEF Filed, Recording
      <3> QED BY <3>1, <3>2
    <2>5. Cached'
      <3> SUFFICES ASSUME ~bRemoved', InFiles'
                   PROVE  \A n \in First' + 1 .. Size' :
                            prePos_' = n - First' - 1 => preStat_' = content'[n]
        BY <2>1 DEF Cached, Recording
      <3>1. CASE useDisk_
        <4>1. First' = 0 /\ prePos_' = -1
          BY <1>2, <1>3, <3>1 DEF First
        <4> QED BY <1>5, <4>1
      <3>2. CASE ~useDisk_
        <4>1. First' = k /\ Size' = k
          BY <1>2, <1>3, <2>3, <3>2 DEF InFiles, First
        <4> QED BY <1>5, <4>1
      <3> QED BY <3>1, <3>2
    <2>6. Timed'
      <3>1. useDisk_ => \A n \in 1 .. Size' : log_'[n].time = Nil
        BY <1>4, <1>5
      <3> QED BY <1>2, <3>1 DEF Timed
    <2>7. Kept'
      <3>1. useDisk_ /\ ~bRemoved' => saved = content'
        <4>1. saved \in Seq(Record) /\ content' \in Seq(Record)
          BY <1>1 DEF TypeOK
        <4>2. useDisk_ /\ ~bRemoved' => /\ Len(content') = Len(saved)
                                        /\ \A n \in 1 .. Len(saved) : content'[n] = saved[n]
          BY <1>2, <1>4, <1>5, <2>3
        <4> QED BY <4>1, <4>2, SeqEqual
      <3> QED BY <1>2, <1>3, <1>5, <3>1 DEF Kept, Files
    <2> QED BY <1>1, <1>7, <1>8, <2>2, <2>4, <2>5, <2>6, <2>7
  <1> QED BY <1>9, <1>10

\* A renamed log is looked for where it is not.
LEMMA RenameStep ==
  ASSUME LogInv, Rename PROVE LogInv'
  <1> USE DEF LogInv
  <1>1. TypeOK'
    BY ZipType
  <1>2. /\ disturbed' /\ saving' = saving /\ (saving # "no" => spoiled') /\ (spoiled => spoiled')
        /\ UNCHANGED <<useDisk_, log_, content, currentPos_, changePos_, overPos_, tempDir_>>
        /\ UNCHANGED <<saved, savedOf, joined>>
    BY DEF Rename, fixed, series
  <1> QED BY <1>1, <1>2, ShapeSame, Disturbing, SavingOver, SavedSame

LEMMA LogStep ==
  ASSUME LogInv, [Next]_vars PROVE LogInv'
  <1>1. CASE UNCHANGED vars
    <2>1. /\ UNCHANGED <<useDisk_, maxLogSize_, log_, bRemoved, content, currentPos_, changePos_, overPos_>>
          /\ UNCHANGED <<initLogFlag_, menus, newStat_, preStat_, prePos_, tempDir_>>
          /\ UNCHANGED <<tmpdir, writeFile_, readFile_, header_, files, sim>>
          /\ UNCHANGED <<produced, starts, saves, loaded, saving, saved>>
          /\ disturbed' = disturbed /\ spoiled' = spoiled /\ savedOf' = savedOf /\ joined' = joined
      BY <1>1 DEF vars, fixed, series, cache, logger, bounds
    <2>2. TypeOK'
      BY <2>1 DEF LogInv, TypeOK
    <2>3. Shape' /\ Phases' /\ Filed' /\ Cached' /\ Timed'
      BY <2>1, ShapeSame, PhasesSame, FiledSame, CachedSame, TimedSame DEF LogInv
    <2>4. Kept' /\ Saving' /\ SavedExact'
      BY <2>1, KeptSame, SavingSame, SavedSame DEF LogInv
    <2> QED BY <2>2, <2>3, <2>4 DEF LogInv
  <1>2. CASE StartSimulation \/ Clear
    BY <1>2, ClearStep
  <1>3. CASE AddToMemory
    BY <1>3, AddToMemoryStep
  <1>4. CASE AddToFile
    BY <1>4, AddToFileStep
  <1>5. CASE WriteRecord
    BY <1>5, WriteRecordStep
  <1>6. CASE ShowRecord
    BY <1>6, ShowRecordStep
  <1>7. CASE EndSimulation
    BY <1>7, EndSimulationStep
  <1>8. ASSUME NEW pos \in 0 .. Size - 1, Look(pos) \/ LookTime(pos) \/ SetPosition(pos)
        PROVE  LogInv'
    BY <1>8, LookStep, LookTimeStep, SetPositionStep
  <1>9. CASE AskSave
    BY <1>9, AskSaveStep
  <1>10. CASE RestoreLog
    BY <1>10, RestoreLogStep
  <1>11. CASE Zip
    BY <1>11, ZipStep
  <1>12. CASE Rename
    BY <1>12, RenameStep
  <1>13. ASSUME NEW k \in 1 .. Len(saved), Load(k)
         PROVE  LogInv'
    BY <1>13, LoadStep
  <1> QED BY <1>1, <1>2, <1>3, <1>4, <1>5, <1>6, <1>7, <1>8, <1>9, <1>10, <1>11, <1>12, <1>13
          DEF Next

-----------------------------------------------------------------------------
(* What the views read.                                                    *)

LEMMA Reads ==
  ASSUME LogInv, ~disturbed, Aligned, NEW pos \in 0 .. Size - 1
  PROVE  ValueAt(pos) = IF ~useDisk_ /\ pos = changePos_ THEN Nil ELSE content[pos + 1]
  <1> USE DEF LogInv
  <1>1. Size \in Nat /\ changePos_ \in Int /\ pos \in Nat /\ pos + 1 \in 1 .. Size
    BY Numbers
  <1>2. CASE InFile(pos)
    <2>1. InFiles /\ ~bRemoved /\ First \in Nat /\ pos >= First /\ pos + 1 - First \in Nat
          /\ FilePos(pos) = pos - First /\ pos + 1 \in First + 1 .. Size
          /\ (~useDisk_ => pos # changePos_)
      BY <1>1, <1>2 DEF InFile, FilePos, InFiles, First, Aligned
    <2>2. prePos_ = pos - First => preStat_ = content[pos + 1]
      <3>1. \A k \in First + 1 .. Size : prePos_ = k - First - 1 => preStat_ = content[k]
        BY <2>1 DEF Cached
      <3>2. pos + 1 - First - 1 = pos - First
        BY <1>1, <2>1
      <3> QED BY <2>1, <3>1, <3>2
    <2>3. Get(pos - First) = content[pos + 1]
      <3>1. Size > First
        BY <1>1, <2>1
      <3>2. /\ readFile_ = IF useDisk_ THEN "base" ELSE "over"
            /\ Len(files[readFile_]) >= Size - First
            /\ \A k \in First + 1 .. Size : files[readFile_][k - First] = content[k]
        BY <2>1, <3>1 DEF Filed
      <3>3. readFile_ \in Files /\ readFile_ # "none"
        BY <3>2 DEF Files
      <3>4. Len(files[readFile_]) \in Nat
        BY <3>3, Numbers
      <3>5. pos - First < Len(files[readFile_]) /\ pos - First + 1 = pos + 1 - First
        BY <1>1, <2>1, <3>2, <3>4
      <3>6. files[readFile_][pos + 1 - First] = content[pos + 1]
        BY <2>1, <3>2
      <3> QED BY <3>3, <3>5, <3>6 DEF Get
    <2> QED BY <1>2, <2>1, <2>2, <2>3 DEF ValueAt, GetValueFromLog
  <1>3. CASE ~InFile(pos)
    <2>1. ~useDisk_ /\ (changePos_ < 0 \/ pos <= changePos_) /\ ValueAt(pos) = log_[pos + 1].value
      BY <1>1, <1>3 DEF InFile, ValueAt
    <2>2. CASE changePos_ < 0
      BY <1>1, <2>1, <2>2 DEF Phases
    <2>3. CASE changePos_ >= 0
      <3>1. log_[pos + 1].value = IF pos + 1 <= changePos_ THEN content[pos + 1] ELSE Nil
        BY <1>1, <2>1, <2>3 DEF Filed, InFiles, Aligned
      <3> QED BY <1>1, <2>1, <2>3, <3>1
    <2> QED BY <1>1, <2>2, <2>3
  <1> QED BY <1>2, <1>3

LEMMA LogInvReadable == LogInv => Readable
  <1> SUFFICES ASSUME LogInv, ~disturbed, Aligned PROVE Readable
    BY DEF Readable
  <1>1. Len(content) = Size
    BY DEF LogInv, Shape
  <1>2. ASSUME NEW pos \in 0 .. Size - 1
        PROVE  log_[pos + 1].time \in {content[pos + 1], Nil}
    <2>1. pos + 1 \in 1 .. Size
      BY Numbers DEF LogInv
    <2>2. CASE useDisk_
      BY <2>1, <2>2 DEF LogInv, Timed, Aligned
    <2>3. CASE ~useDisk_
      BY <2>1, <2>3 DEF LogInv, Shape
    <2> QED BY <2>2, <2>3
  <1> QED BY <1>1, <1>2, Reads DEF Readable

LEMMA LogInvCurrent == LogInv => CurrentRight
  <1> SUFFICES ASSUME LogInv, ~disturbed, Aligned, sim \notin {"put", "show"}
               PROVE  CurrentValue \in {Nil} \cup
                        {content[pos + 1] : pos \in {currentPos_} \cap (0 .. Size - 1)}
    BY DEF CurrentRight
  <1>1. Size \in Nat /\ currentPos_ \in -1 .. Size - 1
    BY Numbers DEF LogInv, Shape
  <1>2. CASE currentPos_ < 0
    BY <1>2 DEF CurrentValue
  <1>3. CASE currentPos_ >= 0
    <2>1. currentPos_ \in 0 .. Size - 1
      BY <1>1, <1>3
    <2>2. ValueAt(currentPos_) \in {Nil, content[currentPos_ + 1]}
      BY <2>1, Reads
    <2>3. useDisk_ /\ currentPos_ = Size - 1 => newStat_ \in {Nil, content[currentPos_ + 1]}
      <3>1. useDisk_ => ~bRemoved
        BY DEF Aligned
      <3> QED BY <1>1, <3>1 DEF LogInv, Timed
    <2>4. CurrentValue \in {Nil, content[currentPos_ + 1]}
      BY <1>1, <1>3, <2>2, <2>3 DEF CurrentValue
    <2> QED BY <2>1, <2>4
  <1> QED BY <1>1, <1>2, <1>3

-----------------------------------------------------------------------------
(* The theorems.                                                           *)

\* Positions, file and cache fit together in every state: the log that
\* addValue, _initLog and _toLogFile build, that getValue reads through its
\* cache of one record and that save_ writes stays one log, from clearLog and
\* _loadLog on, as long as nobody clears, loads, saves or renames it behind the
\* simulation's back.
THEOREM LogConsistent == Spec => []LogInv
  <1>1. Init => LogInv
    BY InitInv
  <1>2. LogInv /\ [Next]_vars => LogInv'
    BY LogStep
  <1> QED BY <1>1, <1>2, PTL DEF Spec

\* Every variable of GrxWorldStateItem and LogManager has its type; the thread of
\* the simulation only ever writes records, never a null one.
THEOREM TypeCorrect == Spec => []TypeOK
  <1>1. LogInv => TypeOK
    BY DEF LogInv
  <1> QED BY <1>1, LogConsistent, PTL

\* getValue(pos) returns the record that was added at pos, whether it comes from
\* memory, from the file or from the cache, and however the log moved from
\* memory to the file; the position where it moved reads as null.
THEOREM ViewsReadTheLog == Spec => []Readable
  <1>1. LogInv => Readable
    BY LogInvReadable
  <1> QED BY <1>1, LogConsistent, PTL

\* getValue() never returns another record than that of the current position.
THEOREM CurrentIsCurrent == Spec => []CurrentRight
  <1>1. LogInv => CurrentRight
    BY LogInvCurrent
  <1> QED BY <1>1, LogConsistent, PTL

\* save_ of a log that is left alone, and is in memory or in a file but not in
\* both, writes its records, once each and in their order.
THEOREM SavesAreExact == Spec => []SavedExact
  <1>1. LogInv => SavedExact
    BY DEF LogInv
  <1> QED BY <1>1, LogConsistent, PTL
=============================================================================
