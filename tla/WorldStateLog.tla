---------------------------- MODULE WorldStateLog ----------------------------
(***************************************************************************)
(* The world state log: GrxTimeSeriesItem and GrxWorldStateItem with the   *)
(* LogManager behind them.                                                 *)
(*                                                                         *)
(* The thread of the simulation adds records.  They go to a file ("base")  *)
(* in disk mode, to memory otherwise, until the heap is nearly full: from  *)
(* position changePos_ on they go to a second file ("over").  The views    *)
(* read through a cache of one record, a thread of its own saves the log,  *)
(* and the user clears, loads and renames it whenever the menus let him.   *)
(*                                                                         *)
(* A record stands for what one addValue is given: records are numbered in *)
(* the order they are produced, over all simulations, and a record's       *)
(* number is also its time.  The per-object files of a log are one file.   *)
(***************************************************************************)
EXTENDS Integers, Sequences

CONSTANTS
  MaxLogSizes,   \* the values bufferSize may be given
  MaxRecords,    \* bound: records produced
  MaxStarts,     \* bound: simulations
  MaxSaves       \* bound: saves; there is at most one load

Nil == -1        \* a null reference
Zeros == 0       \* a record read behind the end of its file
Record == 1 .. MaxRecords
Stored == Record \cup {Zeros}
Files == {"base", "over"}

ASSUME LogAssumption ==
  /\ MaxLogSizes \subseteq Nat \ {0}
  /\ MaxRecords \in Nat /\ MaxStarts \in Nat /\ MaxSaves \in Nat

VARIABLES
  useDisk_, maxLogSize_,              \* fixed in each behaviour
  log_, currentPos_, bRemoved, changePos_, overPos_,
  initLogFlag_, menus, newStat_, preStat_, prePos_, tempDir_,
  tmpdir, writeFile_, readFile_,      \* of logger_; "none" is a null table
  header_,                            \* whether objects are registered
  files,                              \* the records in each file
  sim,       \* the simulation: "off", "run", and inside of addValue: "put",
             \* newStat_ is set; "show", the record is written; "dead", an
             \* exception ended the thread
  produced, starts, saves, loaded,    \* counters for the bounds
  saving,    \* the save thread: "no", "asked", and "logger" or "temp", the
             \* LogManager it is about to zip
  saved,     \* what the last saved file holds
  content,   \* history: the records this log has been given
  disturbed, \* history: the log was changed behind the simulation's back
  savedOf,   \* history: content when the last save was asked for
  joined,    \* history: that save joins memory and file
  spoiled    \* history: that log was not left alone until it was saved

fixed == <<useDisk_, maxLogSize_>>
series == <<log_, bRemoved, content>>
cache == <<preStat_, prePos_>>
logger == <<tmpdir, writeFile_, readFile_, header_>>
bounds == <<produced, starts, saves, loaded>>
saver == <<saves, saving, saved, savedOf, joined>>
vars == <<fixed, series, currentPos_, changePos_, overPos_, initLogFlag_, menus,
          newStat_, cache, tempDir_, logger, files, sim, bounds, saving, saved,
          disturbed, savedOf, joined, spoiled>>

Size == Len(log_)
Entry == [time : Stored \cup {Nil}, value : Record \cup {Nil}]

Init ==
  /\ useDisk_ \in BOOLEAN
  /\ maxLogSize_ \in MaxLogSizes
  /\ log_ = <<>> /\ currentPos_ = -1 /\ bRemoved = FALSE
  /\ changePos_ = -1 /\ overPos_ = 0
  /\ initLogFlag_ = FALSE /\ menus = FALSE
  /\ newStat_ = Nil /\ preStat_ = Nil /\ prePos_ = -1
  /\ tempDir_ = "base" /\ tmpdir = "none"
  /\ writeFile_ = "none" /\ readFile_ = "none" /\ header_ = FALSE
  /\ files = [f \in Files |-> <<>>]
  /\ sim = "off" /\ produced = 0 /\ starts = 0 /\ saves = 0 /\ loaded = FALSE
  /\ saving = "no" /\ saved = <<>> /\ savedOf = <<>>
  /\ content = <<>> /\ disturbed = FALSE /\ joined = FALSE /\ spoiled = FALSE

-----------------------------------------------------------------------------
(* Reading.                                                                *)

\* LogManager.get: a record behind the end of the file reads as zeros.
Get(q) ==
  IF readFile_ = "none" THEN Nil
  ELSE IF q < Len(files[readFile_]) THEN files[readFile_][q + 1] ELSE Zeros

\* _getValueFromLog
GetValueFromLog(q) == IF q = prePos_ THEN preStat_ ELSE Get(q)

\* Where getValue(pos) looks for a position.
InFile(pos) == useDisk_ \/ (changePos_ >= 0 /\ pos > changePos_)
FilePos(pos) == IF useDisk_ THEN pos ELSE pos - changePos_

\* GrxWorldStateItem.getValue(pos)
ValueAt(pos) ==
  IF InFile(pos) THEN GetValueFromLog(FilePos(pos)) ELSE log_[pos + 1].value

\* Mutant of CurrentValue: newStat_ is returned whatever the position.
CurrentValue_AnyPosition ==
  IF ~useDisk_ THEN IF currentPos_ < 0 THEN Nil ELSE ValueAt(currentPos_)
  ELSE IF currentPos_ < 0 THEN Nil
  ELSE IF currentPos_ # prePos_ /\ preStat_ # Nil THEN ValueAt(currentPos_)
  ELSE newStat_

\* GrxWorldStateItem.getValue(), the object at the current position
CurrentValue ==
  IF ~useDisk_ THEN IF currentPos_ < 0 THEN Nil ELSE ValueAt(currentPos_)
  ELSE IF currentPos_ < 0 THEN Nil
  ELSE IF currentPos_ # prePos_ /\ preStat_ # Nil THEN ValueAt(currentPos_)
  ELSE IF currentPos_ = Size - 1 THEN newStat_
  ELSE Nil

\* A view reads a position: a record that comes from the file stays cached.
Look(pos) ==
  /\ InFile(pos) /\ FilePos(pos) # prePos_ /\ preStat_ # Nil
  /\ Get(FilePos(pos)) # Nil
  /\ preStat_' = Get(FilePos(pos)) /\ prePos_' = FilePos(pos)
  /\ UNCHANGED <<fixed, series, currentPos_, changePos_, overPos_, initLogFlag_,
                 menus, newStat_, tempDir_, logger, files, sim, bounds, saver,
                 disturbed, spoiled>>

\* getTime(pos) fills in the times a load in disk mode has left null.
LookTime(pos) ==
  /\ log_[pos + 1].time = Nil /\ Get(pos) # Nil
  /\ log_' = [log_ EXCEPT ![pos + 1].time = Get(pos)]
  /\ UNCHANGED <<fixed, bRemoved, content, currentPos_, changePos_, overPos_,
                 initLogFlag_, menus, newStat_, cache, tempDir_, logger, files,
                 sim, bounds, saver, disturbed, spoiled>>

SetPosition(pos) ==
  /\ currentPos_' = pos
  /\ UNCHANGED <<fixed, series, changePos_, overPos_, initLogFlag_, menus,
                 newStat_, cache, tempDir_, logger, files, sim, bounds, saver,
                 disturbed, spoiled>>

-----------------------------------------------------------------------------
(* Clearing and adding.                                                    *)

\* Mutant of ClearLog: the cached record survives.
ClearLog_KeepsCache ==
  /\ currentPos_' = -1 /\ bRemoved' = FALSE /\ changePos_' = -1 /\ overPos_' = 0
  /\ initLogFlag_' = FALSE
  /\ newStat_' = Nil
  /\ UNCHANGED <<preStat_, prePos_>>

\* clearLog, apart from what is assigned once more by its callers: log_, the
\* menus, logger_ (init closes the readers and forgets the objects).
ClearLog ==
  /\ currentPos_' = -1 /\ bRemoved' = FALSE /\ changePos_' = -1 /\ overPos_' = 0
  /\ initLogFlag_' = FALSE
  /\ newStat_' = Nil
  /\ preStat_' = Nil /\ prePos_' = -1

\* startSimulation: clearLog, then the objects are registered.
StartSimulation ==
  /\ sim = "off" /\ starts < MaxStarts
  /\ ClearLog
  /\ log_' = <<>> /\ content' = <<>> /\ menus' = FALSE
  /\ readFile_' = "none" /\ header_' = TRUE
  /\ sim' = "run" /\ starts' = starts + 1
  /\ disturbed' = FALSE /\ spoiled' = (spoiled \/ saving # "no")
  /\ UNCHANGED <<fixed, tempDir_, tmpdir, writeFile_, files, produced, saver,
                 loaded>>

\* clear_: while a simulation runs, it loses the registered objects too.
Clear ==
  /\ menus
  /\ ClearLog
  /\ log_' = <<>> /\ content' = <<>> /\ menus' = FALSE
  /\ readFile_' = "none" /\ header_' = FALSE
  /\ disturbed' = (disturbed \/ sim # "off")
  /\ spoiled' = (spoiled \/ saving # "no")
  /\ UNCHANGED <<fixed, tempDir_, tmpdir, writeFile_, files, sim, bounds, saving,
                 saved, savedOf, joined>>

\* GrxTimeSeriesItem.addValue: the oldest entry goes when there are too many.
AddEntry(t, v) ==
  LET full == Size + 1 > maxLogSize_
      Last(seq, e) == Append(IF full THEN Tail(seq) ELSE seq, e)
  IN  /\ log_' = Last(log_, [time |-> t, value |-> v])
      /\ content' = Last(content, t)
      /\ bRemoved' = (bRemoved \/ full)

\* addValue, in memory
AddToMemory ==
  /\ sim = "run" /\ ~useDisk_ /\ overPos_ = 0 /\ produced < MaxRecords
  /\ produced' = produced + 1
  /\ AddEntry(produced', produced')
  /\ UNCHANGED <<fixed, currentPos_, changePos_, overPos_, initLogFlag_, menus,
                 newStat_, cache, tempDir_, logger, files, sim, starts, loaded,
                 saver, disturbed, spoiled>>

\* addValue, to a file: in disk mode, when the log has already moved there, or
\* because too little memory is free.
AddToFile ==
  /\ sim = "run" /\ produced < MaxRecords
  /\ IF useDisk_ \/ overPos_ > 0
     THEN UNCHANGED <<tempDir_, changePos_>>
     ELSE tempDir_' = "over" /\ changePos_' = Size
  /\ produced' = produced + 1
  /\ newStat_' = produced + 1
  /\ sim' = "put"
  /\ UNCHANGED <<fixed, series, currentPos_, overPos_, initLogFlag_, menus,
                 cache, logger, files, starts, loaded, saver, disturbed, spoiled>>

\* Mutant of OpenLog: the log is written where the last one was.
OpenLog_KeepsDir(records) ==
  /\ initLogFlag_' = TRUE /\ menus' = TRUE
  /\ UNCHANGED tmpdir
  /\ files' = [files EXCEPT ![IF tmpdir = "over" THEN "over" ELSE "base"] = records]
  /\ readFile_' = tempDir_

\* _initLog: the file is truncated, the records follow.
OpenLog(records) ==
  /\ initLogFlag_' = TRUE /\ menus' = TRUE
  /\ tmpdir' = tempDir_
  /\ files' = [files EXCEPT ![tempDir_] = records]
  /\ readFile_' = tempDir_

\* _initLog and _toLogFile.  Without registered objects recDat_ is empty, and
\* after clearLog newStat_ is null: an exception ends the thread.  A failure
\* of put is caught: the record is lost and the log goes on.
WriteRecord ==
  /\ sim = "put"
  /\ \/ /\ newStat_ = Nil \/ (~initLogFlag_ /\ ~header_)
        /\ sim' = "dead"
        /\ UNCHANGED <<initLogFlag_, menus, preStat_, tmpdir, writeFile_,
                       readFile_, files>>
     \/ /\ newStat_ # Nil /\ ~initLogFlag_ /\ header_
        /\ sim' = "show"
        /\ OpenLog(<<newStat_>>)
        /\ writeFile_' = tempDir_ /\ preStat_' = newStat_
     \/ /\ newStat_ # Nil /\ initLogFlag_
        /\ sim' = "show"
        /\ files' = IF writeFile_ = "none" THEN files
                    ELSE [files EXCEPT ![writeFile_] = Append(@, newStat_)]
        /\ UNCHANGED <<initLogFlag_, menus, preStat_, tmpdir, writeFile_,
                       readFile_>>
  /\ UNCHANGED <<fixed, series, currentPos_, changePos_, overPos_, newStat_,
                 prePos_, tempDir_, header_, bounds, saving, saved, savedOf,
                 joined, disturbed, spoiled>>

\* The rest of addValue: only now the views see the position.
ShowRecord ==
  /\ sim = "show"
  /\ \/ /\ newStat_ = Nil
        /\ sim' = "dead"
        /\ UNCHANGED <<series, overPos_>>
     \/ /\ newStat_ # Nil
        /\ sim' = "run"
        /\ AddEntry(newStat_, Nil)
        /\ overPos_' = IF useDisk_ THEN overPos_ ELSE overPos_ + 1
  /\ UNCHANGED <<fixed, currentPos_, changePos_, initLogFlag_, menus, newStat_,
                 cache, tempDir_, logger, files, bounds, saving, saved, savedOf,
                 joined, disturbed, spoiled>>

\* endOfSimulation: in disk mode the writers are closed; setPosition(0).
EndSimulation ==
  /\ sim \in {"run", "dead"}
  /\ sim' = "off"
  /\ writeFile_' = IF useDisk_ THEN "none" ELSE writeFile_
  /\ currentPos_' = IF Size > 0 THEN 0 ELSE currentPos_
  /\ UNCHANGED <<fixed, series, changePos_, overPos_, initLogFlag_, menus,
                 newStat_, cache, tempDir_, tmpdir, readFile_, header_, files,
                 bounds, saving, saved, savedOf, joined, disturbed, spoiled>>

-----------------------------------------------------------------------------
(* Saving, loading, renaming.                                              *)

\* save_: refused when records have been removed.
AskSave ==
  /\ menus /\ ~bRemoved /\ saving = "no" /\ saves < MaxSaves
  /\ saving' = "asked" /\ saves' = saves + 1
  /\ savedOf' = content
  /\ joined' = (~useDisk_ /\ changePos_ >= 0)
  /\ spoiled' = (disturbed \/ sim # "off")
  /\ UNCHANGED <<fixed, series, currentPos_, changePos_, overPos_, initLogFlag_,
                 menus, newStat_, cache, tempDir_, logger, files, sim, produced,
                 starts, loaded, saved, disturbed>>

\* Mutant of InMemory: the loop does not stop at the first null value.
InMemory_All == [i \in 1 .. Size |-> log_[i].value]

\* The values up to the first null one: the part of the log in memory.
InMemory ==
  LET n == CHOOSE n \in 0 .. Size :
             /\ \A i \in 1 .. n : log_[i].value # Nil
             /\ n < Size => log_[n + 1].value = Nil
  IN  [i \in 1 .. n |-> log_[i].value]

\* jointLogs looks for the other half in its own directory, tmpdir, so it
\* appends to the new file what is already there.
Joined(memory) == memory \o memory

\* The save thread: closeAsWrite, and in memory mode
\* _restoreLogFileFromSuperLog, which writes the memory to a file.
RestoreLog ==
  /\ saving = "asked"
  /\ writeFile_' = "none"
  /\ disturbed' = (disturbed \/ sim # "off")
  /\ \/ /\ useDisk_
        /\ saving' = "logger"
        /\ UNCHANGED <<initLogFlag_, menus, newStat_, preStat_, tmpdir, files,
                       readFile_>>
     \/ /\ ~useDisk_ /\ changePos_ < 0
        /\ saving' = "logger"
        /\ IF Size > 0 /\ ~initLogFlag_ /\ header_
           THEN /\ OpenLog(InMemory)
                /\ preStat_' = log_[1].value /\ newStat_' = log_[Size].value
           ELSE UNCHANGED <<initLogFlag_, menus, newStat_, preStat_, tmpdir,
                            files, readFile_>>
     \/ /\ ~useDisk_ /\ changePos_ >= 0
        /\ saving' = "temp"
        /\ files' = [files EXCEPT !["base"] = Joined(InMemory)]
        /\ newStat_' = IF InMemory = <<>> THEN newStat_
                       ELSE InMemory[Len(InMemory)]
        /\ UNCHANGED <<initLogFlag_, menus, preStat_, tmpdir, readFile_>>
  /\ UNCHANGED <<fixed, series, currentPos_, changePos_, overPos_, prePos_,
                 tempDir_, header_, sim, bounds, saved, savedOf, joined, spoiled>>

\* save: the files of the registered objects, wherever tmpdir points.
Zip ==
  /\ saving \in {"logger", "temp"}
  /\ saving' = "no"
  /\ saved' = IF saving = "temp" THEN files["base"]
              ELSE IF header_ /\ tmpdir \in Files THEN files[tmpdir]
              ELSE <<>>
  /\ UNCHANGED <<fixed, series, currentPos_, changePos_, overPos_, initLogFlag_,
                 menus, newStat_, cache, tempDir_, logger, files, sim, bounds,
                 disturbed, savedOf, joined, spoiled>>

\* The entries _loadLog adds, k of them from the file, and no more than fit.
Loaded(k) ==
  LET first == IF k > maxLogSize_ THEN k - maxLogSize_ + 1 ELSE 1 IN
  [i \in 1 .. k - first + 1 |->
     LET r == saved[first + i - 1] IN
     IF useDisk_ THEN [time |-> Nil, value |-> Nil] ELSE [time |-> r, value |-> r]]

\* _loadLog: the saved file replaces the log.  In memory mode too little
\* memory may be free after k records: _createOverLog copies the others from
\* the file it has just truncated and dies on the way.
Load(k) ==
  /\ saved # <<>> /\ saving = "no" /\ ~loaded
  /\ loaded' = TRUE
  /\ useDisk_ => k = Len(saved)
  /\ initLogFlag_' = FALSE /\ newStat_' = Nil
  /\ log_' = Loaded(k)
  /\ content' = SubSeq(saved, k - Len(log_') + 1, k)
  /\ bRemoved' = (Len(log_') < k)
  /\ tempDir_' = "base" /\ tmpdir' = "base" /\ readFile_' = "base"
  /\ header_' = TRUE
  /\ LET all == k = Len(saved) IN
     /\ menus' = all
     /\ currentPos_' = IF all THEN 0 ELSE -1
     /\ changePos_' = IF all THEN -1 ELSE k
     /\ overPos_' = Len(saved) - k
     /\ files' = [f \in Files |-> IF f = "base" THEN saved
                                  ELSE IF all THEN files[f] ELSE <<>>]
     /\ prePos_' = IF useDisk_ THEN -1 ELSE IF all THEN k - 1 ELSE k
     /\ preStat_' = IF useDisk_ THEN Zeros ELSE saved[prePos_' + 1]
  /\ disturbed' = (sim # "off")
  /\ UNCHANGED <<fixed, writeFile_, sim, produced, starts, saver, spoiled>>

\* rename: the logger looks in another directory; its open files stay.
Rename ==
  /\ tmpdir \in Files
  /\ tmpdir' = "renamed"
  /\ disturbed' = TRUE
  /\ spoiled' = (spoiled \/ saving # "no")
  /\ UNCHANGED <<fixed, series, currentPos_, changePos_, overPos_, initLogFlag_,
                 menus, newStat_, cache, tempDir_, writeFile_, readFile_,
                 header_, files, sim, bounds, saving, saved, savedOf, joined>>

-----------------------------------------------------------------------------
Next ==
  \/ StartSimulation \/ Clear \/ AddToMemory \/ AddToFile \/ WriteRecord
  \/ ShowRecord \/ EndSimulation
  \/ \E pos \in 0 .. Size - 1 : Look(pos) \/ LookTime(pos) \/ SetPosition(pos)
  \/ AskSave \/ RestoreLog \/ Zip \/ Rename
  \/ \E k \in 1 .. Len(saved) : Load(k)

Spec == Init /\ [][Next]_vars

-----------------------------------------------------------------------------
TypeOK ==
  /\ useDisk_ \in BOOLEAN /\ maxLogSize_ \in MaxLogSizes
  /\ log_ \in Seq(Entry) /\ content \in Seq(Record)
  /\ bRemoved \in BOOLEAN
  /\ currentPos_ \in Int /\ changePos_ \in Int /\ overPos_ \in Nat
  /\ initLogFlag_ \in BOOLEAN /\ menus \in BOOLEAN
  /\ newStat_ \in Record \cup {Nil}
  /\ preStat_ \in Stored \cup {Nil} /\ prePos_ \in Int
  /\ tempDir_ \in Files /\ tmpdir \in Files \cup {"none", "renamed"}
  /\ writeFile_ \in Files \cup {"none"} /\ readFile_ \in Files \cup {"none"}
  /\ header_ \in BOOLEAN
  /\ files \in [Files -> Seq(Record)]
  /\ sim \in {"off", "run", "put", "show", "dead"}
  /\ produced \in 0 .. MaxRecords /\ starts \in 0 .. MaxStarts
  /\ saves \in 0 .. MaxSaves /\ loaded \in BOOLEAN
  /\ saving \in {"no", "asked", "logger", "temp"}
  /\ saved \in Seq(Record) /\ savedOf \in Seq(Record)
  /\ disturbed \in BOOLEAN /\ joined \in BOOLEAN /\ spoiled \in BOOLEAN

\* Positions and records agree: no position was removed under a file.
Aligned == ~(bRemoved /\ (useDisk_ \/ changePos_ >= 0))

(* A position that the views see reads as the record added there, and has   *)
(* that record's time or, after a load in disk mode, none yet: whatever the *)
(* cache holds, wherever the log moved and whatever earlier logs left in    *)
(* the files.  The position where the log moved to the file is looked up in *)
(* memory and reads as null.                                                *)
Readable ==
  ~disturbed /\ Aligned =>
    /\ Len(content) = Size
    /\ \A pos \in 0 .. Size - 1 :
         /\ ValueAt(pos) = IF ~useDisk_ /\ pos = changePos_ THEN Nil
                           ELSE content[pos + 1]
         /\ log_[pos + 1].time \in {content[pos + 1], Nil}

(* The current value is the record at the current position or null (when a  *)
(* position is read again), never another record; not so between WriteRecord*)
(* and ShowRecord, when newStat_ is ahead of the positions.                 *)
CurrentRight ==
  ~disturbed /\ Aligned /\ sim \notin {"put", "show"} =>
    CurrentValue \in {Nil} \cup
      {content[pos + 1] : pos \in {currentPos_} \cap (0 .. Size - 1)}

(* A saved file holds the records of the log, once each and in their order, *)
(* if the log was left alone from the end of the simulation until the save  *)
(* was over and is not partly in memory and partly in a file.               *)
SavedExact == saving = "no" /\ ~spoiled /\ ~joined => saved = savedOf

(* The same of every log: "join the logs in the remaining subdirectory" is  *)
(* what _restoreLogFileFromSuperLog says it does.                           *)
SavedWhole == saving = "no" /\ ~spoiled => saved = savedOf
=============================================================================
