-------------------------------- MODULE Logger --------------------------------
(***************************************************************************)
(* The log files of the server.  A process writes to one file per day,     *)
(* named after the second in which it started and the number of the day    *)
(* since then; the number goes back to 0 after a week.  At its start, and  *)
(* when the day changes, it deletes the files whose name carries a start   *)
(* time of more than a week ago.                                           *)
(*                                                                         *)
(* log() holds logMutex from the choice of the file to the written line,   *)
(* and init() runs before there is a second thread, so a call is a step.   *)
(* isDebugPeriod is a constant of the class: the other way of rotating, by *)
(* the day of the week, is dead code.  Time is counted in days, which is   *)
(* rotate_every_x_minutes.  A process that has been up for seven days by   *)
(* the whole seconds of its start time has been up for longer by the clock *)
(* that oneWeekAgo is taken from.                                          *)
(***************************************************************************)
EXTENDS Integers, FiniteSets

CONSTANTS
  MaxDay,     \* bound: the clock stops on this day
  MaxRun,     \* bound: how many processes are started
  MaxLine,    \* bound: how many of the lines can be written
  MaxStuck,   \* bound: how many files a deletion leaves that does not leave all
  LegacyDay   \* the day of the file that an earlier version of the server left

ASSUME BoundAssumption ==
  /\ MaxDay \in Nat /\ MaxRun \in Nat /\ MaxStuck \in Nat /\ MaxLine \in Nat
  /\ LegacyDay \in Int

VARIABLES
  day,       \* today
  up,        \* is there a process?
  run,       \* its number, or that of the last one
  started,   \* serverStartTime of each process
  period,    \* currentLogPeriod
  filePath,  \* logFilepath
  files,     \* the directory: what is in each file
  logged,    \* history: what was written
  sweep      \* history: the last deletion that saw the whole directory: the
             \* earlier processes it found over, and what it could not remove

vars == <<day, up, run, started, period, filePath, files, logged, sweep>>

Week == 7                  \* calculateMaxLogFilesPerWeek(1440), and one week in days
Legacy == 0                \* the run of the earlier version: log-<start>.txt
Run == Legacy..MaxRun

(* What one process logs on one day. *)
Line == [run : Run, day : Nat]
Name == [run : Run, period : 0..(Week - 1)]    \* log-<start>-<period>.txt

TypeOK ==
  /\ day \in 0..MaxDay
  /\ up \in BOOLEAN
  /\ run \in Run
  /\ started \in [Run -> Int]
  /\ period \in 0..(Week - 1)
  /\ filePath \in Name
  /\ DOMAIN files \subseteq Name
  /\ \A n \in DOMAIN files : files[n] \subseteq Line
  /\ logged \subseteq Line
  /\ sweep \in [over : SUBSET Run, stuck : SUBSET Name]

LegacyFile == [run |-> Legacy, period |-> 0]

Init ==
  /\ day = 0
  /\ up = FALSE
  /\ run = Legacy
  /\ started = [r \in Run |-> LegacyDay]
  /\ period = 0
  /\ filePath = LegacyFile
  /\ files = [n \in {LegacyFile} |-> {}]
  /\ logged = {}
  /\ sweep = [over |-> {}, stuck |-> {}]
-----------------------------------------------------------------------------
(* Mutant: the age is a day too short. *)
OldEarly(n, today, start) == today - start[n.run] >= Week - 1

(* fileTimePoint < oneWeekAgo: the time in the name is the start of the    *)
(* process, for each of its files.                                         *)
Old(n, today, start) == today - start[n.run] >= Week

OldFiles(directory, today, start) ==
  { n \in DOMAIN directory : Old(n, today, start) }

(* What of them a deletion may leave. *)
Left(directory, today, start) ==
  LET old == OldFiles(directory, today, start)
  IN  { stay \in SUBSET old : stay = old \/ Cardinality(stay) <= MaxStuck }

(* Mutant: only files that carry the start time of this process are seen.  *)
DeleteOwnLogs(directory, current, stay, today, start) ==
  LET mine == { n \in OldFiles(directory, today, start) : n.run = current.run }
      kept == (DOMAIN directory \ mine) \cup (stay \cap DOMAIN directory)
  IN  [ n \in kept \cup {current} |-> IF n \in kept THEN directory[n] ELSE {} ]

(* deleteOldLogs: fs::remove may throw, which is caught file by file, and  *)
(* the iteration may throw on its way, which is not; either way the files  *)
(* in stay are still there.  What it logs while it deletes goes to the     *)
(* current file, which exists in the end, empty but for that if it was     *)
(* deleted.                                                                *)
DeleteOldLogs(directory, current, stay, today, start) ==
  LET kept == (DOMAIN directory \ OldFiles(directory, today, start))
                \cup (stay \cap DOMAIN directory)
  IN  [ n \in kept \cup {current} |-> IF n \in kept THEN directory[n] ELSE {} ]

(* What the history keeps of it. *)
Sweep(today, start, current, stay) ==
  [ over  |-> { r \in Legacy..(current - 1) : today - start[r] >= Week },
    stuck |-> stay ]

WriteLine(directory, path, line) ==
  [ n \in DOMAIN directory \cup {path} |->
      (IF n \in DOMAIN directory THEN directory[n] ELSE {})
        \cup (IF n = path THEN {line} ELSE {}) ]

(* Mutant: the number of the day does not go back to 0. *)
PeriodUnbounded(elapsed) == elapsed

NextPeriod(elapsed) == IF elapsed >= Week THEN 0 ELSE elapsed
-----------------------------------------------------------------------------
(* main() calls init(): the object is new, and old files are deleted.      *)
(* When the directory cannot be read the exception ends the process.       *)
Start ==
  /\ ~up /\ run < MaxRun
  /\ run' = run + 1
  /\ started' = [started EXCEPT ![run + 1] = day]
  /\ period' = 0
  /\ filePath' = [run |-> run + 1, period |-> 0]
  /\ \E stay \in Left(files, day, started') :
       /\ files' = DeleteOldLogs(files, filePath', stay, day, started')
       /\ \/ up' = TRUE  /\ sweep' = Sweep(day, started', run + 1, stay)
          \/ up' = FALSE /\ UNCHANGED sweep
  /\ UNCHANGED <<day, logged>>

Exit ==
  /\ up
  /\ up' = FALSE
  /\ UNCHANGED <<day, run, started, period, filePath, files, logged, sweep>>

Elapsed == day - started[run]
ThisLine == [run |-> run, day |-> day]

(* shouldRotateLogFrequentRotations *)
ShouldRotate == Elapsed # period

Append(directory, path) ==
  /\ \/ /\ Cardinality(logged \cup {ThisLine}) <= MaxLine
        /\ files' = WriteLine(directory, path, ThisLine)
        /\ logged' = logged \cup {ThisLine}
     \/ files' = directory /\ UNCHANGED logged    \* the file cannot be opened

LogAppends ==
  /\ up
  /\ ~ShouldRotate
  /\ Append(files, filePath)
  /\ UNCHANGED <<day, up, run, started, period, filePath, sweep>>

LogRotates ==
  /\ up
  /\ ShouldRotate
  /\ period' = NextPeriod(Elapsed)
  /\ filePath' = [run |-> run, period |-> period']
  /\ \E stay \in Left(files, day, started) :
       /\ Append(DeleteOldLogs(files, filePath, stay, day, started), filePath')
       /\ sweep' = Sweep(day, started, run, stay)
  /\ UNCHANGED <<day, up, run, started>>

(* The directory cannot be read, or not to its end: the exception leaves   *)
(* log() when the period is set and the file name is not.  Few callers     *)
(* catch it.                                                               *)
LogThrows ==
  /\ up /\ ShouldRotate
  /\ period' = NextPeriod(Elapsed)
  /\ up' \in BOOLEAN
  /\ \E stay \in Left(files, day, started) :
       files' = DeleteOldLogs(files, filePath, stay, day, started)
  /\ UNCHANGED <<day, run, started, filePath, logged, sweep>>

NextDay ==
  /\ day < MaxDay
  /\ day' = day + 1
  /\ UNCHANGED <<up, run, started, period, filePath, files, logged, sweep>>

Next ==
  \/ Start \/ Exit
  \/ LogAppends \/ LogRotates \/ LogThrows
  \/ NextDay

Spec == Init /\ [][Next]_vars
-----------------------------------------------------------------------------
OnFile(line) ==
  \E n \in DOMAIN files : n.run = line.run /\ line \in files[n]

(* Every line that a process wrote stays on file for the week that follows *)
(* its start, through rotations, restarts and other processes' deletions.  *)
KeptForAWeek ==
  \A line \in logged : day - started[line.run] < Week => OnFile(line)

(* The directory does not fill up: whatever processes come and go, and     *)
(* whichever deletions fail, once a start or a rotation has seen the whole *)
(* directory with a process in it that was started a week before, nothing  *)
(* of that process is on file again but what could not be removed.         *)
OldFilesGo ==
  \A n \in DOMAIN files : n.run \in sweep.over => n \in sweep.stuck

(* "otherwise append to file", and a file that is deleted is an old one:   *)
(* what was logged less than a week ago is on file.                        *)
RecordKept ==
  \A line \in logged : day - line.day < Week => OnFile(line)
-----------------------------------------------------------------------------
(* What the others rest on: a process only writes to files of its own, and *)
(* no process has written or deleted before it was started.                *)
OwnFiles ==
  /\ filePath.run = run
  /\ up => run > Legacy /\ started[run] <= day
  /\ \A line \in logged : line.run <= run
  /\ \A r \in sweep.over : r < run /\ day - started[r] >= Week

IInv == TypeOK /\ OwnFiles /\ KeptForAWeek /\ OldFilesGo
================================================================================
