------------------------------ MODULE LoggerProofs ------------------------------
(***************************************************************************)
(* What the log files keep and what they lose, for any number of processes *)
(* and days.  The argument: a process writes to files of its own, and a    *)
(* deletion spares all files of a process that was started within a week.  *)
(***************************************************************************)
EXTENDS Logger, TLAPS

USE DEF Week, Legacy, Run

(* A directory of the right type stays so through both. *)
Directory(d) ==
  DOMAIN d \subseteq Name /\ \A n \in DOMAIN d : d[n] \subseteq Line

(* Deleting the old files leaves a directory of lines. *)
LEMMA DeleteType ==
  ASSUME NEW d, Directory(d), NEW current \in Name, NEW stay, NEW today, NEW start
  PROVE  Directory(DeleteOldLogs(d, current, stay, today, start))
BY DEF DeleteOldLogs, Directory

(* What is in a directory after a deletion is the current file, a file     *)
(* that was not old, or one that could not be removed; and a file that was *)
(* not old is as it was.                                                   *)
LEMMA DeleteIs ==
  ASSUME NEW d, NEW current, NEW stay, NEW today, NEW start
  PROVE  LET e == DeleteOldLogs(d, current, stay, today, start) IN
         /\ \A n \in DOMAIN e :
              n = current \/ n \in stay \/ (n \in DOMAIN d /\ ~Old(n, today, start))
         /\ \A n \in DOMAIN d :
              ~Old(n, today, start) => n \in DOMAIN e /\ e[n] = d[n]
BY DEF DeleteOldLogs, OldFiles

(* Writing a line leaves a directory of lines. *)
LEMMA WriteType ==
  ASSUME NEW d, Directory(d), NEW path \in Name, NEW line \in Line
  PROVE  Directory(WriteLine(d, path, line))
BY DEF WriteLine, Directory
-----------------------------------------------------------------------------
(* The history of the deletions has processes and files in it. *)
LEMMA SweepType ==
  ASSUME NEW today, NEW start, NEW current \in Nat, NEW stay \in SUBSET Name,
         current <= MaxRun + 1
  PROVE  Sweep(today, start, current, stay) \in [over : SUBSET Run, stuck : SUBSET Name]
<1> DEFINE o == { r \in Legacy..(current - 1) : today - start[r] >= Week }
           R == Run
           N == Name
<1>1. o \subseteq Legacy..(current - 1) /\ Legacy..(current - 1) \subseteq Legacy..MaxRun
  BY BoundAssumption
<1>2. Sweep(today, start, current, stay) = [over |-> o, stuck |-> stay]
  BY DEF Sweep
<1>3. o \subseteq R /\ stay \subseteq N
  BY <1>1, Zenon
<1> HIDE DEF o, R, N
<1>4. [over |-> o, stuck |-> stay] \in [over : SUBSET R, stuck : SUBSET N]
  BY <1>3
<1> QED
  BY <1>2, <1>4 DEF R, N

(* A call of log() appends at most one line of today's to the file it is   *)
(* given. *)
LEMMA AppendType ==
  ASSUME TypeOK, NEW d, Directory(d), NEW path \in Name, Append(d, path)
  PROVE  Directory(files') /\ logged' \subseteq Line
<1>1. ThisLine \in Line
  BY BoundAssumption DEF ThisLine, Line, TypeOK
<1> QED
  BY <1>1, WriteType DEF Append, TypeOK

(* The number of the day goes back to 0 after a week. *)
LEMMA PeriodType ==
  ASSUME TypeOK, OwnFiles, up
  PROVE  NextPeriod(Elapsed) \in 0..(Week - 1)
<1>1. started[run] \in Int /\ day \in Int /\ started[run] <= day
  BY BoundAssumption DEF TypeOK, OwnFiles
<1> QED
  BY <1>1 DEF NextPeriod, Elapsed

(* Every call of log(), every start and every day keeps the types. *)
LEMMA TypeNext ==
  ASSUME TypeOK, OwnFiles, [Next]_vars
  PROVE  TypeOK'
<1>0. Directory(files) /\ MaxRun \in Nat /\ MaxDay \in Nat
  BY BoundAssumption DEF TypeOK, Directory
<1>1. CASE Start
  <2>1. run' \in Run /\ filePath' \in Name /\ day \in Int
    BY <1>0, <1>1 DEF Start, TypeOK, Name
  <2>2. Directory(files')
    BY <1>0, <1>1, <2>1, DeleteType DEF Start
  <2>5. sweep' \in [over : SUBSET Run, stuck : SUBSET Name]
    <3>1. ASSUME NEW stay \in Left(files, day, started')
          PROVE  Sweep(day, started', run + 1, stay) \in [over : SUBSET Run, stuck : SUBSET Name]
      <4>1. stay \subseteq Name
        BY <1>0 DEF Left, OldFiles, Directory
      <4>2. run + 1 \in Nat /\ run + 1 <= MaxRun + 1
        BY <1>0 DEF TypeOK
      <4> QED
        BY <4>1, <4>2, SweepType
    <3>2. CASE UNCHANGED sweep
      BY <3>2 DEF TypeOK
    <3>3. CASE \E stay \in Left(files, day, started') :
                 sweep' = Sweep(day, started', run + 1, stay)
      BY <3>1, <3>3
    <3> QED
      BY <1>1, <3>2, <3>3 DEF Start
  <2>3. started' \in [Run -> Int]
    BY <1>1, <2>1 DEF Start, TypeOK
  <2>4. /\ up' \in BOOLEAN /\ period' \in 0..(Week - 1)
        /\ UNCHANGED <<day, logged>>
    <3>1. up' \in BOOLEAN
      BY <1>1, Zenon DEF Start
    <3> QED
      BY <1>1, <3>1 DEF Start
  <2> QED
    BY <2>1, <2>2, <2>3, <2>4, <2>5 DEF TypeOK, Directory
<1>2. CASE Exit
  BY <1>2 DEF Exit, TypeOK
<1>3. CASE LogAppends
  <2>1. Directory(files') /\ logged' \subseteq Line
    BY <1>0, <1>3, AppendType DEF LogAppends, TypeOK
  <2> QED
    BY <1>3, <2>1 DEF LogAppends, TypeOK, Directory
<1>4. CASE LogRotates
  <2>1. period' \in 0..(Week - 1)
    BY <1>4, PeriodType DEF LogRotates
  <2>2. filePath' \in Name
    BY <1>4, <2>1 DEF LogRotates, TypeOK, Name
  <2>3. PICK stay \in Left(files, day, started) :
          /\ Append(DeleteOldLogs(files, filePath, stay, day, started), filePath')
          /\ sweep' = Sweep(day, started, run, stay)
    BY <1>4 DEF LogRotates
  <2>4. Directory(files') /\ logged' \subseteq Line
    BY <1>0, <2>2, <2>3, AppendType, DeleteType DEF TypeOK
  <2>5. sweep' \in [over : SUBSET Run, stuck : SUBSET Name]
    <3>1. stay \subseteq Name /\ run \in Nat /\ run <= MaxRun + 1
      BY <1>0 DEF Left, OldFiles, Directory, TypeOK
    <3> QED
      BY <2>3, <3>1, SweepType
  <2> QED
    BY <1>4, <2>1, <2>2, <2>4, <2>5 DEF LogRotates, TypeOK, Directory
<1>5. CASE LogThrows
  <2>1. period' \in 0..(Week - 1)
    BY <1>5, PeriodType DEF LogThrows
  <2>2. Directory(files')
    BY <1>0, <1>5, DeleteType DEF LogThrows, TypeOK
  <2> QED
    BY <1>5, <2>1, <2>2 DEF LogThrows, TypeOK, Directory
<1>6. CASE NextDay
  BY <1>0, <1>6 DEF NextDay, TypeOK
<1>7. CASE UNCHANGED vars
  BY <1>7 DEF vars, TypeOK
<1> QED
  BY <1>1, <1>2, <1>3, <1>4, <1>5, <1>6, <1>7 DEF Next

(* A deletion of today's finds over the processes before this one that     *)
(* were started a week ago.                                                *)
LEMMA SweepIs ==
  ASSUME NEW today, NEW start, NEW current \in Nat, NEW stay
  PROVE  /\ Sweep(today, start, current, stay).stuck = stay
         /\ \A r : r \in Sweep(today, start, current, stay).over
                     <=> r \in Nat /\ r < current /\ today - start[r] >= Week
BY DEF Sweep

(* OwnFiles, step by step. *)
LEMMA OwnNext ==
  ASSUME TypeOK, OwnFiles, [Next]_vars
  PROVE  OwnFiles'
<1>0. /\ run \in Run /\ day \in Int /\ started \in [Run -> Int]
      /\ \A line \in logged : line.run \in Nat
      /\ \A r \in sweep.over : r \in Run
      /\ MaxRun \in Nat
  BY BoundAssumption DEF TypeOK, Line
<1>1. CASE Start
  <2>1. run' = run + 1 /\ run' \in Run /\ filePath'.run = run'
    BY <1>0, <1>1 DEF Start
  <2>2. /\ started'[run'] = day' /\ UNCHANGED <<day, logged>>
        /\ \A r \in Run : r < run' => started'[r] = started[r]
    BY <1>0, <1>1, <2>1 DEF Start
  <2>3. \A line \in logged' : line.run <= run'
    BY <1>0, <2>1, <2>2 DEF OwnFiles
  <2>4. \A r \in sweep'.over : r < run' /\ day' - started'[r] >= Week
    <3>1. CASE UNCHANGED sweep
      BY <1>0, <2>1, <2>2, <3>1 DEF OwnFiles
    <3>2. CASE \E stay : sweep' = Sweep(day, started', run + 1, stay)
      BY <1>0, <2>1, <2>2, <3>2, SweepIs
    <3> QED
      BY <1>1, <3>1, <3>2 DEF Start
  <2> QED
    BY <1>0, <1>1, <2>1, <2>2, <2>3, <2>4 DEF Start, OwnFiles
<1>2. CASE Exit
  BY <1>2 DEF Exit, OwnFiles
<1>3. CASE LogAppends \/ LogRotates
  <2>1. /\ logged' \subseteq logged \cup {ThisLine}
        /\ UNCHANGED <<day, up, run, started>>
        /\ filePath'.run = run
    BY <1>3 DEF LogAppends, LogRotates, Append, OwnFiles
  <2>2. UNCHANGED sweep \/ \E stay : sweep' = Sweep(day, started, run, stay)
    BY <1>3 DEF LogAppends, LogRotates
  <2>3. \A r \in sweep'.over : r < run' /\ day' - started'[r] >= Week
    BY <1>0, <2>1, <2>2, SweepIs DEF OwnFiles
  <2> QED
    BY <1>0, <2>1, <2>3 DEF ThisLine, OwnFiles
<1>4. CASE LogThrows
  BY <1>4 DEF LogThrows, OwnFiles
<1>5. CASE NextDay
  <2>1. started[run] \in Int /\ day' = day + 1
    BY <1>0, <1>5 DEF NextDay
  <2> QED
    BY <1>0, <1>5, <2>1 DEF NextDay, OwnFiles
<1>6. CASE UNCHANGED vars
  BY <1>6 DEF vars, OwnFiles
<1> QED
  BY <1>1, <1>2, <1>3, <1>4, <1>5, <1>6 DEF Next

(* KeptForAWeek, step by step. *)
LEMMA KeptNext ==
  ASSUME IInv, TypeOK', [Next]_vars
  PROVE  KeptForAWeek'
<1>0. /\ run \in Nat /\ day \in Int /\ started \in [Run -> Int]
      /\ \A line \in logged : line.run \in Run /\ line.run <= run
      /\ \A n \in DOMAIN files : n.run \in Run
      /\ MaxRun \in Nat /\ filePath.run = run
  BY BoundAssumption DEF IInv, TypeOK, OwnFiles, Line, Name
<1> SUFFICES ASSUME NEW line \in logged', day' - started'[line.run] < Week
             PROVE  \E n \in DOMAIN files' : n.run = line.run /\ line \in files'[n]
  BY DEF KeptForAWeek, OnFile
<1>1. ASSUME line \in logged, day - started[line.run] < Week
      PROVE  \E n \in DOMAIN files : n.run = line.run /\ line \in files[n]
  BY <1>1 DEF IInv, KeptForAWeek, OnFile
<1>2. CASE Start
  <2>1. /\ line \in logged /\ line.run # run + 1
        /\ started'[line.run] = started[line.run]
        /\ day' = day
    BY <1>0, <1>2 DEF Start
  <2>2. PICK n \in DOMAIN files : n.run = line.run /\ line \in files[n]
    BY <1>1, <2>1
  <2>3. n \in DOMAIN files' /\ files'[n] = files[n]
    <3>1. day - started'[n.run] < Week /\ started'[n.run] \in Int
      BY <1>0, <2>1, <2>2
    <3>2. ~Old(n, day, started')
      BY <1>0, <3>1 DEF Old
    <3> QED
      BY <1>2, <2>2, <3>2, DeleteIs DEF Start
  <2> QED
    BY <2>2, <2>3
<1>3. ASSUME NEW d, NEW path, Append(d, path), path.run = run,
             UNCHANGED <<day, started>>,
             \A n \in DOMAIN files :
               day - started[n.run] < Week => n \in DOMAIN d /\ d[n] = files[n]
      PROVE  \E n \in DOMAIN files' : n.run = line.run /\ line \in files'[n]
  <2>1. CASE line \in logged
    <3>1. PICK n \in DOMAIN files : n.run = line.run /\ line \in files[n]
      BY <1>1, <1>3, <2>1
    <3>2. n \in DOMAIN d /\ line \in d[n]
      BY <1>3, <3>1
    <3>3. n \in DOMAIN files' /\ line \in files'[n]
      BY <1>3, <3>2 DEF Append, WriteLine
    <3> QED
      BY <3>1, <3>3
  <2>2. CASE line \notin logged
    <3>1. line = ThisLine /\ files' = WriteLine(d, path, ThisLine)
      BY <1>3, <2>2 DEF Append
    <3>2. path \in DOMAIN files' /\ line \in files'[path] /\ path.run = line.run
      BY <1>3, <3>1 DEF ThisLine, WriteLine
    <3> QED
      BY <3>2
  <2> QED
    BY <2>1, <2>2
<1>4. CASE LogAppends
  BY <1>0, <1>3, <1>4 DEF LogAppends
<1>5. CASE LogRotates
  <2>1. PICK stay : Append(DeleteOldLogs(files, filePath, stay, day, started), filePath')
    BY <1>5 DEF LogRotates
  <2>2. \A n \in DOMAIN files :
          day - started[n.run] < Week =>
            /\ n \in DOMAIN DeleteOldLogs(files, filePath, stay, day, started)
            /\ DeleteOldLogs(files, filePath, stay, day, started)[n] = files[n]
    BY <1>0, DeleteIs DEF Old
  <2>3. filePath'.run = run /\ UNCHANGED <<day, started>>
    BY <1>5 DEF LogRotates
  <2> QED
    BY <1>3, <2>1, <2>2, <2>3
<1>6. CASE Exit \/ UNCHANGED vars
  BY <1>1, <1>6 DEF Exit, vars
<1>8. CASE LogThrows
  <2>1. line \in logged /\ day - started[line.run] < Week
    BY <1>8 DEF LogThrows
  <2>2. PICK n \in DOMAIN files : n.run = line.run /\ line \in files[n]
    BY <1>1, <2>1
  <2>3. ~Old(n, day, started)
    BY <1>0, <2>1, <2>2 DEF Old
  <2>4. n \in DOMAIN files' /\ files'[n] = files[n]
    BY <1>8, <2>2, <2>3, DeleteIs DEF LogThrows
  <2> QED
    BY <2>2, <2>4
<1>7. CASE NextDay
  <2>1. line \in logged /\ day - started[line.run] < Week
    BY <1>0, <1>7 DEF NextDay
  <2> QED
    BY <1>1, <1>7, <2>1 DEF NextDay
<1> QED
  BY <1>2, <1>4, <1>5, <1>6, <1>7, <1>8 DEF Next

(* OldFilesGo, step by step.  A deletion that sees the whole directory     *)
(* removes, or finds stuck, whatever is of a process that is over, since   *)
(* the current file is of no such process; every other step adds a file of *)
(* the running process at most.                                            *)
LEMMA OldNext ==
  ASSUME IInv, OwnFiles', [Next]_vars
  PROVE  OldFilesGo'
<1>0. /\ run \in Nat /\ day \in Int /\ started \in [Run -> Int]
      /\ \A n \in DOMAIN files : n.run \in Run
      /\ \A r \in sweep.over : r \in Run
      /\ MaxRun \in Nat /\ filePath.run = run
  BY BoundAssumption DEF IInv, TypeOK, OwnFiles, Name
<1> SUFFICES ASSUME NEW n \in DOMAIN files', n.run \in sweep'.over
             PROVE  n \in sweep'.stuck
  BY DEF OldFilesGo
<1>1. n.run \in Run /\ n.run < run' /\ filePath'.run = run' /\ run' \in Nat
  <2>1. n.run < run' /\ filePath'.run = run'
    BY DEF OwnFiles
  <2>2. run' \in Nat /\ run' - 1 \in Int /\ (run' = run \/ run' = run + 1)
    BY <1>0 DEF Next, Start, Exit, LogAppends, LogRotates, LogThrows, NextDay, vars
  <2>3. n.run \in Run
    <3>1. CASE UNCHANGED sweep
      BY <1>0, <3>1
    <3>2. CASE Start /\ sweep' # sweep
      <4>1. run + 1 \in Nat /\ run + 1 <= MaxRun
        BY <1>0, <3>2 DEF Start
      <4>2. PICK stay : sweep' = Sweep(day, started', run + 1, stay)
        BY <3>2 DEF Start
      <4>3. n.run \in Nat /\ n.run < run + 1
        BY <4>1, <4>2, SweepIs
      <4> QED
        BY <1>0, <4>1, <4>3
    <3>3. CASE LogRotates
      <4>1. PICK stay : sweep' = Sweep(day, started, run, stay)
        BY <3>3 DEF LogRotates
      <4>2. n.run \in Nat /\ n.run < run
        BY <1>0, <4>1, SweepIs
      <4>3. run <= MaxRun
        BY <1>0 DEF IInv, TypeOK
      <4> QED
        BY <1>0, <4>2, <4>3
    <3> QED
      BY <3>1, <3>2, <3>3 DEF Next, Exit, LogAppends, LogThrows, NextDay, vars
  <2> QED
    BY <2>1, <2>2, <2>3
<1>2. ASSUME UNCHANGED sweep, n \in DOMAIN files
      PROVE  n \in sweep'.stuck
  BY <1>2 DEF IInv, OldFilesGo
<1>3. CASE Start
  <2>1. PICK stay :
          /\ files' = DeleteOldLogs(files, filePath', stay, day, started')
          /\ stay \subseteq DOMAIN files
          /\ \/ sweep' = Sweep(day, started', run + 1, stay)
             \/ UNCHANGED sweep
    BY <1>3 DEF Start, Left, OldFiles
  <2>2. n = filePath' \/ n \in stay \/ (n \in DOMAIN files /\ ~Old(n, day, started'))
    BY <2>1, DeleteIs
  <2>3. n # filePath'
    BY <1>0, <1>1
  <2>4. CASE UNCHANGED sweep
    BY <1>2, <2>1, <2>2, <2>3, <2>4
  <2>5. CASE sweep' = Sweep(day, started', run + 1, stay)
    <3>1. sweep'.stuck = stay /\ day - started'[n.run] >= Week
      BY <1>0, <2>5, SweepIs
    <3>2. Old(n, day, started')
      BY <3>1 DEF Old
    <3> QED
      BY <2>2, <2>3, <3>1, <3>2
  <2> QED
    BY <2>1, <2>4, <2>5
<1>4. CASE LogRotates
  <2>1. PICK stay :
          /\ Append(DeleteOldLogs(files, filePath, stay, day, started), filePath')
          /\ sweep' = Sweep(day, started, run, stay)
    BY <1>4 DEF LogRotates
  <2>2. n \in DOMAIN DeleteOldLogs(files, filePath, stay, day, started) \/ n = filePath'
    BY <2>1 DEF Append, WriteLine
  <2>3. run' = run /\ n # filePath' /\ n # filePath
    BY <1>0, <1>1, <1>4 DEF LogRotates
  <2>4. n \in stay \/ ~Old(n, day, started)
    BY <2>2, <2>3, DeleteIs
  <2>5. sweep'.stuck = stay /\ day - started[n.run] >= Week
    BY <1>0, <2>1, SweepIs
  <2> QED
    BY <2>4, <2>5 DEF Old
<1>5. CASE LogAppends
  <2>1. n \in DOMAIN files \/ n = filePath'
    BY <1>5 DEF LogAppends, Append, WriteLine
  <2> QED
    BY <1>0, <1>1, <1>2, <1>5, <2>1 DEF LogAppends
<1>6. CASE LogThrows
  <2>1. PICK stay : /\ files' = DeleteOldLogs(files, filePath, stay, day, started)
                    /\ stay \subseteq DOMAIN files
    BY <1>6 DEF LogThrows, Left, OldFiles
  <2>2. n = filePath \/ n \in DOMAIN files
    BY <2>1, DeleteIs
  <2>3. n # filePath
    BY <1>0, <1>1, <1>6 DEF LogThrows
  <2> QED
    BY <1>2, <1>6, <2>2, <2>3 DEF LogThrows
<1>7. CASE Exit \/ NextDay \/ UNCHANGED vars
  BY <1>2, <1>7 DEF Exit, NextDay, vars
<1> QED
  BY <1>3, <1>4, <1>5, <1>6, <1>7 DEF Next

(* The parts are inductive together. *)
THEOREM Inductive == Spec => []IInv
<1>1. Init => IInv
  <2> SUFFICES ASSUME Init
               PROVE  IInv
    OBVIOUS
  <2>1. MaxRun \in Nat /\ MaxDay \in Nat /\ LegacyDay \in Int
    BY BoundAssumption
  <2>2. LegacyFile \in Name /\ LegacyFile.run = Legacy
    BY <2>1 DEF LegacyFile, Name
  <2>3. TypeOK
    <3>1. DOMAIN files \subseteq Name /\ \A n \in DOMAIN files : files[n] \subseteq Line
      BY <2>2 DEF Init
    <3>2. started \in [Run -> Int] /\ run \in Run /\ period \in 0..(Week - 1)
      BY <2>1 DEF Init
    <3>3. day \in 0..MaxDay
      BY <2>1 DEF Init
    <3> QED
      BY <2>2, <3>1, <3>2, <3>3 DEF Init, TypeOK
  <2> QED
    BY <2>2, <2>3 DEF Init, IInv, OwnFiles, KeptForAWeek, OldFilesGo
<1>2. IInv /\ [Next]_vars => IInv'
  BY TypeNext, OwnNext, KeptNext, OldNext DEF IInv
<1> QED
  BY <1>1, <1>2, PTL DEF Spec

(* Every variable keeps its type: the number of the day stays below seven, *)
(* so that a process has no more than seven files.                         *)
THEOREM TypeCorrect == Spec => []TypeOK
<1>1. IInv => TypeOK
  BY DEF IInv
<1> QED
  BY <1>1, Inductive, PTL

(* What a process wrote stays on file for the week that follows its start, *)
(* however many processes are started and whatever they delete.            *)
THEOREM Kept == Spec => []KeptForAWeek
<1>1. IInv => KeptForAWeek
  BY DEF IInv
<1> QED
  BY <1>1, Inductive, PTL

(* Once a start or a rotation has seen the whole directory, nothing of an  *)
(* earlier process that was a week old by then is on file but what could   *)
(* not be removed, whatever processes come and whichever deletions fail.   *)
THEOREM OldGo == Spec => []OldFilesGo
<1>1. IInv => OldFilesGo
  BY DEF IInv
<1> QED
  BY <1>1, Inductive, PTL
================================================================================
