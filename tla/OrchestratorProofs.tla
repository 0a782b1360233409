------------------------- MODULE OrchestratorProofs -------------------------
(***************************************************************************)
(* The orchestrator of historic matching, for any number of dates, tasks,  *)
(* sessions and faults: no date is matched by two tasks, nothing is        *)
(* replaced under a task, what is said to be complete is summarised, and   *)
(* the script does what DateLifecycle promises.                            *)
(***************************************************************************)
EXTENDS Orchestrator, SequenceTheorems, FiniteSetTheorems, WellFoundedInduction, TLAPS

TaskStages == {"starting", "matching", "stopped"}
Tasks == [date : Day, stage : TaskStages, read : Timetables]

Plans == [readyToRun : SUBSET Day, avlExportNeeded : SUBSET Day,
          timetableExportNeeded : SUBSET Day, nextDayAvlExportNeeded : SUBSET Day,
          nextDayAvlConversionNeeded : SUBSET Day, summariesToRun : SUBSET Day,
          failedSummaries : SUBSET Day]

FileSets == [avlCsv : SUBSET Day, avlParquet : SUBSET Day,
             timetableCsv : [Day -> Timetables], timetableParquet : [Day -> Timetables]]

-----------------------------------------------------------------------------
LEMMA Least ==
  ASSUME NEW S, S \subseteq Nat, S # {}
  PROVE  \E n \in S : \A m \in S : n <= m
<1>1. PICK n \in S : \A m \in S : ~(<<m, n>> \in OpToRel(<, Nat))
  BY NatLessThanWellFounded, WFMin
<1>2. ASSUME NEW m \in S PROVE n <= m
  <2>1. m \in Nat /\ n \in Nat /\ ~(<<m, n>> \in OpToRel(<, Nat))
    BY <1>1
  <2> QED BY <2>1 DEF OpToRel
<1> QED BY <1>2

(* pop(0) of a sorted list of dates takes its earliest date. *)
LEMMA FirstIsEarliest ==
  ASSUME NEW dates \in SUBSET Day, dates # {}
  PROVE  First(dates) \in dates /\ \A e \in dates : First(dates) <= e
<1>1. dates \subseteq Nat
  BY DEF Day
<1>2. \E d \in dates : \A e \in dates : d <= e
  BY <1>1, Least
<1> QED BY <1>2 DEF First

(* What convert_to_parquet_function does to the files. *)
LEMMA ConvertedFiles ==
  ASSUME NEW f \in FileSets, NEW d \in Day, NEW skipAvl \in BOOLEAN, NEW overwrite \in BOOLEAN
  PROVE  /\ Converted(f, d, skipAvl, overwrite) \in FileSets
         /\ \A e \in Day :
              Converted(f, d, skipAvl, overwrite).timetableParquet[e] # f.timetableParquet[e]
                => e = d /\ (overwrite \/ f.timetableParquet[e] = Nothing)
<1> DEFINE to == IF f.timetableCsv[d] # Nothing /\ (overwrite \/ f.timetableParquet[d] = Nothing)
                 THEN f.timetableCsv[d] ELSE f.timetableParquet[d]
           timetables == [f.timetableParquet EXCEPT ![d] = to]
           avls == f.avlParquet \cup ({d} \cap (IF skipAvl THEN {} ELSE f.avlCsv))
<1>1. Converted(f, d, skipAvl, overwrite) =
        [f EXCEPT !.timetableParquet = timetables, !.avlParquet = avls]
  BY Zenon DEF Converted
<1>2. to \in Timetables /\ avls \in SUBSET Day
  BY DEF FileSets
<1>3. to # f.timetableParquet[d] => overwrite \/ f.timetableParquet[d] = Nothing
  OBVIOUS
<1> HIDE DEF to, avls
<1>4. timetables \in [Day -> Timetables]
  BY <1>2 DEF FileSets
<1>5. \A e \in Day : timetables[e] = IF e = d THEN to ELSE f.timetableParquet[e]
  BY DEF FileSets
<1> HIDE DEF timetables
<1>6. Converted(f, d, skipAvl, overwrite) \in FileSets
  BY <1>1, <1>2, <1>4 DEF FileSets
<1>7. Converted(f, d, skipAvl, overwrite).timetableParquet = timetables
  BY <1>1 DEF FileSets
<1> QED BY <1>3, <1>5, <1>6, <1>7

(* A task is added behind the others. *)
LEMMA TaskAdded ==
  ASSUME tasks \in Seq(Tasks), NEW t \in Tasks, tasks' = Append(tasks, t)
  PROVE  /\ tasks' \in Seq(Tasks) /\ Len(tasks') \notin DOMAIN tasks
         /\ DOMAIN tasks' = DOMAIN tasks \cup {Len(tasks')}
         /\ \A a \in DOMAIN tasks : tasks'[a] = tasks[a]
         /\ tasks'[Len(tasks')] = t
<1>1. /\ tasks' \in Seq(Tasks) /\ Len(tasks') = Len(tasks) + 1
      /\ \A a \in 1 .. Len(tasks) : tasks'[a] = tasks[a]
      /\ tasks'[Len(tasks) + 1] = t
  BY AppendProperties
<1>2. Len(tasks) \in Nat /\ DOMAIN tasks = 1 .. Len(tasks) /\ DOMAIN tasks' = 1 .. Len(tasks')
  BY <1>1, LenProperties
<1> QED BY <1>1, <1>2

(* A task goes on: it stays a task of its date. *)
LEMMA TaskChanged ==
  ASSUME tasks \in Seq(Tasks), NEW a \in DOMAIN tasks,
         NEW stage \in TaskStages, NEW read \in Timetables,
         tasks' = [tasks EXCEPT ![a] = [@ EXCEPT !.stage = stage, !.read = read]]
  PROVE  /\ tasks' \in Seq(Tasks) /\ DOMAIN tasks' = DOMAIN tasks
         /\ \A b \in DOMAIN tasks : tasks'[b].date = tasks[b].date
         /\ \A b \in DOMAIN tasks : tasks'[b].stage = IF b = a THEN stage ELSE tasks[b].stage
<1> DEFINE t == [tasks[a] EXCEPT !.stage = stage, !.read = read]
<1>1. /\ Len(tasks) \in Nat /\ DOMAIN tasks = 1 .. Len(tasks)
      /\ tasks \in [1 .. Len(tasks) -> Tasks]
  BY LenProperties
<1>2. t \in Tasks /\ t.date = tasks[a].date /\ t.stage = stage
  BY <1>1 DEF Tasks
<1>3. tasks' = [tasks EXCEPT ![a] = t]
  OBVIOUS
<1> HIDE DEF t
<1>4. /\ tasks' \in Seq(Tasks) /\ Len(tasks') = Len(tasks)
      /\ \A b \in 1 .. Len(tasks) : tasks'[b] = IF b = a THEN t ELSE tasks[b]
  BY <1>1, <1>2, <1>3, ExceptSeq
<1>5. DOMAIN tasks' = DOMAIN tasks
  BY <1>1, <1>4, LenProperties
<1> QED BY <1>1, <1>2, <1>4, <1>5

-----------------------------------------------------------------------------
(* Types. *)

Exporting == pc \in {"generate", "wait", "export", "convert"}

ExportsADate == Exporting <=> current # 0

LEMMA Typed ==
  ASSUME OrchestratorTypeOK
  PROVE  /\ files \in FileSets /\ plan \in Plans /\ tasks \in Seq(Tasks)
         /\ \A a \in DOMAIN tasks : tasks[a] \in Tasks
<1>1. files \in FileSets /\ plan \in Plans /\ tasks \in Seq(Tasks)
  BY DEF OrchestratorTypeOK, FileSets, Plans, Tasks, TaskStages
<1> QED BY <1>1, LenProperties

LEMMA TypesInit == Init => OrchestratorTypeOK
<1> SUFFICES ASSUME Init PROVE OrchestratorTypeOK
  OBVIOUS
<1>1. Nothing \in Timetables /\ [generation |-> 1, whole |-> TRUE] \in Timetables
  BY DEF Nothing, Timetables
<1>2. PICK exported \in BOOLEAN, avl \in SUBSET Day, timetable \in SUBSET (1 .. LastDay) :
        files = [avlCsv |-> IF exported THEN Day ELSE avl,
                 avlParquet |-> avl,
                 timetableCsv |-> [d \in Day |-> IF exported \/ d \in timetable
                                     THEN [generation |-> 1, whole |-> TRUE] ELSE Nothing],
                 timetableParquet |-> [d \in Day |-> IF d \in timetable
                                     THEN [generation |-> 1, whole |-> TRUE] ELSE Nothing]]
  BY DEF Init
<1>3. files \in FileSets
  BY <1>1, <1>2 DEF FileSets
<1>4. tasks \in Seq(Tasks) /\ plan \in Plans
  BY DEF Init, Idle, Plans
<1>5. faults \in 0 .. MaxFaults /\ sessions \in 0 .. MaxSessions
  BY OrchestratorAssumption DEF Init
<1> QED
  BY <1>3, <1>4, <1>5
     DEF Init, OrchestratorTypeOK, FileSets, Plans, Tasks, TaskStages, NoAnswers

(* A fault is counted, and there are no more than MaxFaults. *)
LEMMA FaultCounted == faults \in 0 .. MaxFaults /\ Fault => faults' \in 0 .. MaxFaults
  BY OrchestratorAssumption DEF Fault

(* The conversion that the script starts. *)
LEMMA ConversionTyped ==
  ASSUME OrchestratorTypeOK, NEW d \in Day, ConvertToParquet(d)
  PROVE  /\ files' \in FileSets /\ faults' \in 0 .. MaxFaults
         /\ \A e \in Day : files'.timetableParquet[e] # files.timetableParquet[e] => e = d
<1>1. files \in FileSets /\ faults \in 0 .. MaxFaults
  BY Typed DEF OrchestratorTypeOK
<1>2. CASE files' = Converted(files, d, TRUE, TRUE) /\ UNCHANGED faults
  <2>1. /\ Converted(files, d, TRUE, TRUE) \in FileSets
        /\ \A e \in Day :
             Converted(files, d, TRUE, TRUE).timetableParquet[e] # files.timetableParquet[e] => e = d
    BY <1>1, ConvertedFiles, Zenon
  <2> QED BY <1>1, <1>2, <2>1
<1>3. CASE Fault /\ UNCHANGED files
  BY <1>1, <1>3, FaultCounted
<1> QED BY <1>2, <1>3 DEF ConvertToParquet

LEMMA NextDayTyped ==
  ASSUME OrchestratorTypeOK, CanStart
  PROVE  /\ First(plan.readyToRun) \in plan.readyToRun
         /\ \A e \in plan.readyToRun : First(plan.readyToRun) <= e
<1>1. plan.readyToRun \in SUBSET Day /\ plan.readyToRun # {}
  BY Typed DEF CanStart, Plans
<1> QED BY <1>1, FirstIsEarliest

(* A task that has read its files, or has found one missing. *)
LEMMA ReadingTask ==
  ASSUME OrchestratorTypeOK, NEW a \in DOMAIN tasks, TaskReads(a)
  PROVE  /\ tasks' \in Seq(Tasks) /\ DOMAIN tasks' = DOMAIN tasks
         /\ \A b \in DOMAIN tasks : tasks'[b].date = tasks[b].date
         /\ \A b \in DOMAIN tasks : b # a => tasks'[b].stage = tasks[b].stage
         /\ tasks[a].stage # "stopped"
<1> DEFINE d == tasks[a].date
           found == {d, d + 1} \subseteq files.avlParquet /\ files.timetableParquet[d] # Nothing
           stage == IF found THEN "matching" ELSE "stopped"
           read == IF found THEN files.timetableParquet[d] ELSE Nothing
<1>1. tasks' = [tasks EXCEPT ![a] = [@ EXCEPT !.stage = stage, !.read = read]]
  BY Zenon DEF TaskReads
<1>2. tasks \in Seq(Tasks) /\ files \in FileSets /\ d \in Day
  BY Typed DEF Tasks
<1>3. stage \in TaskStages /\ read \in Timetables
  BY <1>2 DEF FileSets, Nothing, Timetables, TaskStages
<1> HIDE DEF stage, read
<1>4. /\ tasks' \in Seq(Tasks) /\ DOMAIN tasks' = DOMAIN tasks
      /\ \A b \in DOMAIN tasks : tasks'[b].date = tasks[b].date
      /\ \A b \in DOMAIN tasks : tasks'[b].stage = IF b = a THEN stage ELSE tasks[b].stage
  BY <1>1, <1>2, <1>3, TaskChanged, Zenon
<1>5. tasks[a].stage # "stopped"
  BY DEF TaskReads
<1> QED BY <1>4, <1>5

(* A task that has come to its end. *)
LEMMA EndingTask ==
  ASSUME OrchestratorTypeOK, NEW a \in DOMAIN tasks, TaskEnds(a)
  PROVE  /\ tasks' \in Seq(Tasks) /\ DOMAIN tasks' = DOMAIN tasks
         /\ \A b \in DOMAIN tasks : tasks'[b].date = tasks[b].date
         /\ \A b \in DOMAIN tasks :
              tasks'[b].stage = IF b = a THEN "stopped" ELSE tasks[b].stage
         /\ tasks[a].stage # "stopped"
<1>1. /\ tasks' = [tasks EXCEPT ![a] = [@ EXCEPT !.stage = "stopped", !.read = Nothing]]
      /\ tasks[a].stage # "stopped"
  BY DEF TaskEnds
<1>2. tasks \in Seq(Tasks) /\ Nothing \in Timetables /\ "stopped" \in TaskStages
  BY Typed DEF Nothing, Timetables, TaskStages
<1> QED BY <1>1, <1>2, TaskChanged

(* The lists a session begins with. *)
LEMMA Beginning ==
  ASSUME OrchestratorTypeOK, Begin
  PROVE  /\ DatesOf(Alive) \in SUBSET Day
         /\ \E dates, ready \in SUBSET Day, subset, again \in BOOLEAN :
              /\ dates \cap DatesOf(Alive) = {}
              /\ ready \subseteq dates \cap files.avlParquet /\ (subset => ready = {})
              /\ plan' = ListsFor(dates, ready, subset)
              /\ answers' = [subset |-> subset, regenerate |-> again,
                             dates |-> dates \cup DatesOf(Alive)]
<1>1. PICK request \in Requests, subset \in BOOLEAN, force \in BOOLEAN, again \in BOOLEAN :
        /\ plan' = ListsFor(request \ DatesOf(Alive),
                             ReadyAmong(request \ DatesOf(Alive), subset, force), subset)
        /\ answers' = [subset |-> subset, regenerate |-> again,
                       dates |-> request \cup DatesOf(Alive)]
  BY Zenon DEF Begin
<1> DEFINE dates == request \ DatesOf(Alive)
           ready == ReadyAmong(dates, subset, force)
<1>2. ready \subseteq dates \cap files.avlParquet /\ (subset => ready = {})
  BY DEF ReadyAmong
<1>3. request \in SUBSET Day /\ DatesOf(Alive) \in SUBSET Day
  BY OrchestratorAssumption, Typed DEF Day, DatesOf, Alive, Tasks
<1>4. dates \in SUBSET Day /\ ready \in SUBSET Day /\ dates \cap DatesOf(Alive) = {}
  BY <1>2, <1>3
<1>5. request \cup DatesOf(Alive) = dates \cup DatesOf(Alive)
  OBVIOUS
<1>6. plan' = ListsFor(dates, ready, subset)
  BY <1>1
<1>7. answers' = [subset |-> subset, regenerate |-> again, dates |-> dates \cup DatesOf(Alive)]
  BY <1>1, <1>5
<1> HIDE DEF ready, dates
<1> QED BY <1>2, <1>3, <1>4, <1>6, <1>7

LEMMA TypesStep == OrchestratorTypeOK /\ ExportsADate /\ [Next]_vars => OrchestratorTypeOK'
<1> SUFFICES ASSUME OrchestratorTypeOK, ExportsADate, [Next]_vars PROVE OrchestratorTypeOK'
  OBVIOUS
<1> Exporting => current \in Day
  BY DEF OrchestratorTypeOK, ExportsADate
<1> USE DEF world, script, observers
<1> USE Typed
<1>1. CASE Begin
  <2>1. PICK dates \in SUBSET Day, ready \in SUBSET Day, subset \in BOOLEAN, again \in BOOLEAN :
          /\ plan' = ListsFor(dates, ready, subset)
          /\ answers' = [subset |-> subset, regenerate |-> again,
                         dates |-> dates \cup DatesOf(Alive)]
    BY <1>1, Beginning, Zenon
  <2>2. plan' \in Plans
    BY <2>1 DEF ListsFor, Idle, Plans
  <2>3. answers' \in [subset : BOOLEAN, regenerate : BOOLEAN, dates : SUBSET Day]
    BY <1>1, <2>1, Beginning
  <2>4. sessions' \in 0 .. MaxSessions
    BY <1>1, OrchestratorAssumption DEF Begin, OrchestratorTypeOK
  <2> QED BY <1>1, <2>2, <2>3, <2>4 DEF Begin, OrchestratorTypeOK, Plans, Alive
<1>2. CASE ExportNextDayAvl
  <2>1. NextDay \in Day /\ plan' \in Plans
    BY <1>2 DEF ExportNextDayAvl, Plans
  <2>2. files' \in FileSets
    BY <1>2, <2>1 DEF ExportNextDayAvl, FileSets
  <2> QED BY <1>2, <2>1, <2>2 DEF ExportNextDayAvl, OrchestratorTypeOK, FileSets, Plans
<1>3. CASE ConvertNextDay
  <2>1. NextDay \in Day /\ plan' \in Plans
    BY <1>3 DEF ConvertNextDay, Plans
  <2>2. files' \in FileSets /\ faults' \in 0 .. MaxFaults
    BY <1>3, <2>1, ConversionTyped DEF ConvertNextDay
  <2> QED BY <1>3, <2>1, <2>2 DEF ConvertNextDay, OrchestratorTypeOK, FileSets, Plans
<1>4. CASE StartTask
  <2> DEFINE d == First(plan.readyToRun)
  <2>1. d \in Day
    BY <1>4, NextDayTyped DEF StartTask, Plans
  <2>2. plan' \in Plans
    BY <1>4 DEF StartTask, Plans
  <2>3. pc' \in {"loop", "check"}
    BY <1>4 DEF StartTask
  <2>4. CASE /\ tasks' = Append(tasks, [date |-> d, stage |-> "starting", read |-> Nothing])
             /\ running' = running \cup {Len(tasks')}
             /\ UNCHANGED <<unstarted, faults>>
    <3>1. [date |-> d, stage |-> "starting", read |-> Nothing] \in Tasks
      BY <2>1 DEF Tasks, Nothing, Timetables, TaskStages
    <3>2. tasks' \in Seq(Tasks) /\ DOMAIN tasks' = DOMAIN tasks \cup {Len(tasks')}
      BY <2>4, <3>1, TaskAdded
    <3>3. running' \in SUBSET DOMAIN tasks' /\ missed \in SUBSET DOMAIN tasks'
      BY <2>4, <3>2 DEF OrchestratorTypeOK
    <3> QED BY <1>4, <2>2, <2>3, <2>4, <3>2, <3>3 DEF StartTask, OrchestratorTypeOK, Plans, Tasks, TaskStages
  <2>5. CASE Fault /\ unstarted' = unstarted \cup {d} /\ UNCHANGED <<tasks, running>>
    BY <1>4, <2>1, <2>2, <2>3, <2>5, FaultCounted DEF StartTask, OrchestratorTypeOK, Plans
  <2> QED BY <1>4, <2>4, <2>5 DEF StartTask
<1>5. CASE CheckForCompletedTasks
  <2>1. PICK overlooked \in {{}} \cup {{a} : a \in running \cap Alive} :
          LET completed == (running \ Alive) \cup overlooked IN
          /\ IF overlooked = {} THEN UNCHANGED faults ELSE Fault
          /\ missed' = missed \cup overlooked
          /\ running' = running \ completed
          /\ plan' = [plan EXCEPT !.summariesToRun = @ \cup DatesOf(completed)]
          /\ pc' = IF completed # {} THEN "loop" ELSE "act"
    BY <1>5 DEF CheckForCompletedTasks
  <2>2. overlooked \subseteq running /\ running \subseteq DOMAIN tasks
    BY DEF OrchestratorTypeOK
  <2>3. DatesOf((running \ Alive) \cup overlooked) \subseteq Day
    BY <2>2 DEF DatesOf, Tasks
  <2>4. plan' \in Plans
    BY <2>1, <2>3 DEF Plans
  <2>5. faults' \in 0 .. MaxFaults
    BY <2>1, FaultCounted DEF OrchestratorTypeOK
  <2> QED BY <1>5, <2>1, <2>2, <2>4, <2>5 DEF CheckForCompletedTasks, OrchestratorTypeOK, Plans
<1>6. CASE GenerateSummary
  <2>1. First(plan.summariesToRun) \in Day
    BY <1>6, FirstIsEarliest DEF GenerateSummary, Plans
  <2>2. plan' \in Plans
    BY <1>6, <2>1 DEF GenerateSummary, Plans
  <2>3. summarised' \in SUBSET Day
    BY <1>6, <2>1 DEF GenerateSummary, OrchestratorTypeOK
  <2>4. faults' \in 0 .. MaxFaults
    BY <1>6, FaultCounted DEF GenerateSummary, OrchestratorTypeOK
  <2> QED BY <1>6, <2>2, <2>3, <2>4 DEF GenerateSummary, OrchestratorTypeOK, Plans
<1>7. CASE ExportAvl
  <2>1. First(plan.avlExportNeeded) \in Day
    BY <1>7, FirstIsEarliest DEF ExportAvl, Plans
  <2>2. plan' \in Plans
    BY <1>7, <2>1 DEF ExportAvl, Plans
  <2>3. files' \in FileSets
    BY <1>7, <2>1 DEF ExportAvl, FileSets
  <2> QED BY <1>7, <2>2, <2>3 DEF ExportAvl, OrchestratorTypeOK, FileSets, Plans
<1>8. CASE TakeTimetable
  <2>1. current' \in Day
    BY <1>8, FirstIsEarliest DEF TakeTimetable, CanExportTimetable, Plans
  <2>2. plan' \in Plans
    BY <1>8 DEF TakeTimetable, Plans
  <2> QED BY <1>8, <2>1, <2>2 DEF TakeTimetable, OrchestratorTypeOK, Plans
<1>9. CASE GenerateTimetable
  <2> DEFINE new == IF answers.subset THEN generation[current] ELSE generation[current] + 1
  <2>1. generation' = [generation EXCEPT ![current] = new]
    BY <1>9, Zenon DEF GenerateTimetable
  <2>2. current \in Day /\ generation[current] \in Nat \ {0}
    BY <1>9 DEF GenerateTimetable, Exporting, OrchestratorTypeOK
  <2>3. new \in Nat \ {0}
    BY <2>2
  <2> HIDE DEF new
  <2>4. generation' \in [Day -> Nat \ {0}]
    BY <2>1, <2>3 DEF OrchestratorTypeOK
  <2> QED BY <1>9, <2>4 DEF GenerateTimetable, OrchestratorTypeOK
<1>10. CASE WaitForQueues
  BY <1>10 DEF WaitForQueues, OrchestratorTypeOK
<1>11. CASE ExportTimetable
  <2> DEFINE new == [generation |-> generation[current], whole |-> ~answers.subset]
  <2>1. new \in Timetables /\ current \in Day
    BY <1>11 DEF ExportTimetable, Exporting, OrchestratorTypeOK, Timetables
  <2> HIDE DEF new
  <2>2. [files.timetableCsv EXCEPT ![current] = new] \in [Day -> Timetables]
    BY <2>1 DEF FileSets
  <2>3. files' = [files EXCEPT !.timetableCsv = [files.timetableCsv EXCEPT ![current] = new]]
    BY <1>11, Zenon DEF ExportTimetable, new
  <2>4. files' \in FileSets
    BY <2>2, <2>3 DEF FileSets
  <2> QED BY <1>11, <2>4 DEF ExportTimetable, OrchestratorTypeOK, FileSets
<1>12. CASE ConvertTimetable
  <2>1. current \in Day
    BY <1>12 DEF ConvertTimetable, Exporting
  <2>2. files' \in FileSets /\ faults' \in 0 .. MaxFaults
    BY <1>12, <2>1, ConversionTyped DEF ConvertTimetable
  <2>3. plan' \in Plans
    BY <1>12, <2>1 DEF ConvertTimetable, Plans
  <2> QED BY <1>12, <2>2, <2>3 DEF ConvertTimetable, OrchestratorTypeOK, FileSets, Plans
<1>13. CASE Sleep
  BY <1>13 DEF Sleep, OrchestratorTypeOK
<1>14. CASE Finish
  BY <1>14 DEF Finish, OrchestratorTypeOK
<1>15. CASE Die
  <2>1. faults' \in 0 .. MaxFaults
    BY <1>15, FaultCounted DEF Die, OrchestratorTypeOK
  <2>2. plan' \in Plans /\ answers' \in [subset : BOOLEAN, regenerate : BOOLEAN, dates : SUBSET Day]
    BY <1>15 DEF Die, Idle, NoAnswers, Plans
  <2> QED BY <1>15, <2>1, <2>2 DEF Die, OrchestratorTypeOK, Plans
<1>16. ASSUME NEW a \in DOMAIN tasks, TaskReads(a) PROVE OrchestratorTypeOK'
  <2>1. tasks' \in Seq(Tasks) /\ DOMAIN tasks' = DOMAIN tasks
    BY <1>16, ReadingTask
  <2> QED BY <1>16, <2>1 DEF TaskReads, OrchestratorTypeOK, Tasks, TaskStages
<1>17. ASSUME NEW a \in DOMAIN tasks, TaskEnds(a) PROVE OrchestratorTypeOK'
  <2>1. tasks' \in Seq(Tasks) /\ DOMAIN tasks' = DOMAIN tasks
    BY <1>17, EndingTask
  <2> QED BY <1>17, <2>1 DEF TaskEnds, OrchestratorTypeOK, Tasks, TaskStages
<1>18. ASSUME NEW s \in Shards, Drain(s) PROVE OrchestratorTypeOK'
  BY <1>18 DEF Drain, OrchestratorTypeOK
<1>19. ASSUME NEW d \in Day, ConvertByHand(d) PROVE OrchestratorTypeOK'
  <2>1. Converted(files, d, FALSE, FALSE) \in FileSets
    BY ConvertedFiles, Zenon
  <2> QED BY <1>19, <2>1 DEF ConvertByHand, OrchestratorTypeOK, FileSets
<1>20. CASE UNCHANGED vars
  BY <1>20 DEF vars, OrchestratorTypeOK
<1> QED
  BY <1>1, <1>2, <1>3, <1>4, <1>5, <1>6, <1>7, <1>8, <1>9, <1>10, <1>11, <1>12, <1>13, <1>14,
     <1>15, <1>16, <1>17, <1>18, <1>19, <1>20, Zenon DEF Next, ScriptStep

-----------------------------------------------------------------------------
(* The inductive invariant. *)

\* The dates that are still to be exported or started, and the next days.
Pending == plan.readyToRun \cup plan.avlExportNeeded \cup plan.timetableExportNeeded
             \cup ({current} \ {0})
NextDays == plan.nextDayAvlExportNeeded \cup plan.nextDayAvlConversionNeeded

\* Where the script is tells which of its lists are empty, and no date that can be
\* started is exported again.
ListsFollowPc ==
  /\ ExportsADate
  /\ Exporting => /\ plan.readyToRun = {} /\ plan.avlExportNeeded = {}
                  /\ current \notin plan.timetableExportNeeded
  /\ pc = "down" => Pending = {} /\ running = {}
  /\ pc = "done" => Pending = {} /\ running = {} /\ plan.summariesToRun = {}
  /\ plan.readyToRun \cap (plan.avlExportNeeded \cup plan.timetableExportNeeded) = {}

\* A pending date has no task, neither one that runs nor one the script attends to, and
\* no summary due.
PendingNotStarted ==
  \A d \in Pending :
    /\ \A a \in Alive \cup running : tasks[a].date # d
    /\ d \notin plan.summariesToRun

\* The script attends to one task of a date, and a summary is due when it is over.
OneTaskAttended ==
  /\ OneTaskPerDate
  /\ \A a, b \in running : tasks[a].date = tasks[b].date => a = b
  /\ \A a \in running : tasks[a].date \notin plan.summariesToRun

\* The script attends to every task that runs, but for those it has missed.
AllAttended == pc # "down" => Alive \subseteq running \cup missed

\* The next day of a pending date, if it is one whose AVLs are to be exported, is pending.
NextDaysLater ==
  /\ \A d \in Pending, e \in NextDays : e > d => e \in Pending
  /\ \A d \in Pending, e \in NextDays : e \in plan.readyToRun \/ e = current => e <= d

\* No date of the session is lost from sight.
Accounted ==
  pc # "down" =>
    \A d \in answers.dates :
      \/ d \in Pending \cup summarised \cup unstarted
      \/ d \in plan.summariesToRun \cup plan.failedSummaries
      \/ \E a \in running \cup missed : tasks[a].date = d

ScriptInv ==
  /\ OrchestratorTypeOK
  /\ ListsFollowPc /\ PendingNotStarted /\ OneTaskAttended
  /\ AllAttended /\ NextDaysLater /\ Accounted

LEMMA ScriptInit == Init => ScriptInv
<1> SUFFICES ASSUME Init PROVE ScriptInv
  OBVIOUS
<1>1. OrchestratorTypeOK
  BY TypesInit
<1>2. Pending = {} /\ Alive = {} /\ running = {} /\ pc = "down" /\ current = 0
  BY DEF Init, Pending, Alive, Idle
<1> QED
  BY <1>1, <1>2
     DEF Init, Idle, ScriptInv, ListsFollowPc, ExportsADate, Exporting, PendingNotStarted,
         OneTaskAttended, OneTaskPerDate, AllAttended, NextDaysLater, Accounted

(* Steps that start no task, look at none, and take no date off the lists. *)
LEMMA ListsStay ==
  ASSUME ScriptInv, OrchestratorTypeOK', UNCHANGED <<tasks, running, missed, current, unstarted, answers>>,
         plan'.readyToRun = plan.readyToRun, plan'.avlExportNeeded = plan.avlExportNeeded,
         plan'.timetableExportNeeded = plan.timetableExportNeeded,
         plan'.summariesToRun = plan.summariesToRun, plan'.failedSummaries = plan.failedSummaries,
         NextDays' \subseteq NextDays,
         summarised \ Pending \subseteq summarised',
         Exporting' = Exporting,
         pc' # pc => /\ pc # "down" /\ pc' # "down"
                     /\ pc' = "done" => ~Nonempty
  PROVE  ScriptInv'
<1>1. Pending' = Pending /\ Alive' = Alive /\ Nonempty' = Nonempty
  BY DEF Pending, Alive, Nonempty
<1>2. ListsFollowPc'
  <2>1. ~Nonempty /\ ~Exporting => Pending = {} /\ running = {} /\ plan.summariesToRun = {}
    BY DEF Nonempty, Pending, ScriptInv, ListsFollowPc, ExportsADate
  <2>2. pc' = "done" => ~Exporting'
    BY DEF Exporting
  <2> QED BY <1>1, <2>1, <2>2 DEF ScriptInv, ListsFollowPc, ExportsADate
<1>3. PendingNotStarted' /\ OneTaskAttended' /\ AllAttended'
  BY <1>1 DEF ScriptInv, PendingNotStarted, OneTaskAttended, OneTaskPerDate, AllAttended
<1>4. NextDaysLater'
  BY <1>1 DEF ScriptInv, NextDaysLater
<1>5. Accounted'
  BY <1>1 DEF ScriptInv, Accounted
<1> QED BY <1>2, <1>3, <1>4, <1>5 DEF ScriptInv

(* A task that goes on stays a task of its date; what it may undo is the summary. *)
LEMMA TaskGoesOn ==
  ASSUME ScriptInv, OrchestratorTypeOK', NEW a \in Alive,
         UNCHANGED <<script, observers>>,
         DOMAIN tasks' = DOMAIN tasks,
         \A b \in DOMAIN tasks : tasks'[b].date = tasks[b].date,
         \A b \in DOMAIN tasks : b # a => tasks'[b].stage = tasks[b].stage,
         summarised \ {tasks[a].date} \subseteq summarised'
  PROVE  ScriptInv'
<1>1. /\ Pending' = Pending /\ NextDays' = NextDays /\ Alive' \subseteq Alive
      /\ UNCHANGED <<pc, answers, plan, running, current, unstarted, missed>>
  BY DEF script, observers, Pending, NextDays, Alive
<1>2. running \subseteq DOMAIN tasks /\ missed \subseteq DOMAIN tasks /\ Alive \subseteq DOMAIN tasks
  BY DEF ScriptInv, OrchestratorTypeOK, Alive
<1>3. ListsFollowPc' /\ NextDaysLater' /\ AllAttended'
  BY <1>1 DEF ScriptInv, ListsFollowPc, ExportsADate, Exporting, NextDaysLater, AllAttended
<1>4. PendingNotStarted' /\ OneTaskAttended'
  BY <1>1, <1>2 DEF ScriptInv, PendingNotStarted, OneTaskAttended, OneTaskPerDate
<1>5. Accounted'
  <2> SUFFICES ASSUME pc # "down", NEW d \in answers.dates
               PROVE  \/ d \in Pending \cup summarised' \cup unstarted
                      \/ d \in plan.summariesToRun \cup plan.failedSummaries
                      \/ \E b \in running \cup missed : tasks'[b].date = d
    BY <1>1 DEF Accounted
  <2>1. CASE d = tasks[a].date
    BY <1>2, <2>1 DEF ScriptInv, AllAttended
  <2>2. CASE d # tasks[a].date
    BY <1>2, <2>2 DEF ScriptInv, Accounted
  <2> QED BY <2>1, <2>2
<1> QED BY <1>3, <1>4, <1>5 DEF ScriptInv

(* The tasks that run are the ones the script attends to, and their dates are left out. *)
LEMMA BeginKeeps == ScriptInv /\ OrchestratorTypeOK' /\ Begin => ScriptInv'
<1> SUFFICES ASSUME ScriptInv, OrchestratorTypeOK', Begin PROVE ScriptInv'
  OBVIOUS
<1>1. PICK dates \in SUBSET Day, ready \in SUBSET Day, subset \in BOOLEAN, again \in BOOLEAN :
        /\ dates \cap DatesOf(Alive) = {}
        /\ ready \subseteq dates \cap files.avlParquet /\ (subset => ready = {})
        /\ plan' = ListsFor(dates, ready, subset)
        /\ answers' = [subset |-> subset, regenerate |-> again, dates |-> dates \cup DatesOf(Alive)]
  BY Beginning, Zenon DEF ScriptInv
<1>2. /\ pc \in {"down", "done"} /\ pc' = "loop" /\ running' = Alive /\ unstarted' = {}
      /\ UNCHANGED <<files, tasks, summarised, current, missed>>
  BY DEF Begin, world
<1>3. /\ plan'.readyToRun = ready /\ plan'.timetableExportNeeded = dates \ ready
      /\ plan'.avlExportNeeded \subseteq dates \ ready
      /\ plan'.summariesToRun = {} /\ NextDays' \subseteq dates \ files.avlParquet
  BY <1>1 DEF ListsFor, Idle, NextDays
<1>4. current = 0 /\ ~Exporting' /\ Alive' = Alive
  BY <1>2 DEF ScriptInv, ListsFollowPc, ExportsADate, Exporting, Alive
<1>5. Pending' = dates /\ NextDays' \cap plan'.readyToRun = {}
  BY <1>1, <1>2, <1>3, <1>4 DEF Pending
<1>6. ListsFollowPc' /\ AllAttended'
  BY <1>2, <1>3, <1>4 DEF ListsFollowPc, ExportsADate, AllAttended
<1>7. \A a \in Alive : tasks[a].date \in DatesOf(Alive)
  BY DEF DatesOf
<1>8. PendingNotStarted' /\ OneTaskAttended'
  BY <1>1, <1>2, <1>3, <1>4, <1>5, <1>7
     DEF ScriptInv, PendingNotStarted, OneTaskAttended, OneTaskPerDate
<1>9. NextDaysLater'
  <2>1. NextDays' \subseteq Day /\ \A e \in Day : e # 0
    BY <1>3 DEF Day
  <2> QED BY <1>2, <1>3, <1>4, <1>5, <2>1 DEF NextDaysLater
<1>10. Accounted'
  <2>1. answers'.dates = dates \cup DatesOf(Alive)
    BY <1>1
  <2>2. \A d \in DatesOf(Alive) : \E a \in Alive : tasks[a].date = d
    BY DEF DatesOf
  <2> QED BY <1>2, <1>5, <2>1, <2>2 DEF Accounted
<1> QED BY <1>6, <1>8, <1>9, <1>10 DEF ScriptInv

(* The task that is started, or that run_task did not return, is of a pending date. *)
LEMMA StartKeeps == ScriptInv /\ OrchestratorTypeOK' /\ StartTask => ScriptInv'
<1> SUFFICES ASSUME ScriptInv, OrchestratorTypeOK', StartTask PROVE ScriptInv'
  OBVIOUS
<1> DEFINE d == First(plan.readyToRun)
           t == [date |-> d, stage |-> "starting", read |-> Nothing]
<1>1. /\ plan \in Plans /\ tasks \in Seq(Tasks)
      /\ running \subseteq DOMAIN tasks /\ missed \subseteq DOMAIN tasks
  BY Typed DEF ScriptInv, OrchestratorTypeOK
<1>2. d \in plan.readyToRun /\ (\A e \in plan.readyToRun : d <= e) /\ d \in Day
  BY <1>1, NextDayTyped DEF StartTask, ScriptInv, Plans
<1>3. /\ plan' = [plan EXCEPT !.readyToRun = @ \ {d}]
      /\ pc = "loop" /\ pc' \in {"loop", "check"}
      /\ UNCHANGED <<summarised, current, answers, missed>>
  BY DEF StartTask
<1>4. /\ plan'.readyToRun = plan.readyToRun \ {d}
      /\ plan'.avlExportNeeded = plan.avlExportNeeded
      /\ plan'.timetableExportNeeded = plan.timetableExportNeeded
      /\ plan'.summariesToRun = plan.summariesToRun
      /\ plan'.failedSummaries = plan.failedSummaries
      /\ NextDays' = NextDays
  BY <1>1, <1>3 DEF Plans, NextDays
<1> HIDE DEF d
<1>5. current = 0 /\ ~Exporting /\ ~Exporting'
  BY <1>3 DEF ScriptInv, ListsFollowPc, ExportsADate, Exporting
<1>6. Pending' = Pending \ {d} /\ d \in Pending
  BY <1>2, <1>3, <1>4, <1>5 DEF ScriptInv, ListsFollowPc, Pending
<1>7. ListsFollowPc'
  BY <1>3, <1>4, <1>5 DEF ScriptInv, ListsFollowPc, ExportsADate
<1>8. NextDaysLater'
  <2> SUFFICES ASSUME NEW x \in Pending', NEW e \in NextDays
               PROVE  /\ e > x => e \in Pending'
                      /\ e \in plan'.readyToRun \/ e = current' => e <= x
    BY <1>4 DEF NextDaysLater
  <2>1. /\ e > x => e \in Pending
        /\ e \in plan.readyToRun \/ e = current => e <= x
    BY <1>6 DEF ScriptInv, NextDaysLater
  <2>2. x \in Nat /\ e \in Nat
    BY <1>1, <1>5, <1>6 DEF Pending, NextDays, Plans, Day
  <2>3. e = d => ~(e > x)
    BY <1>2, <2>1, <2>2
  <2> QED BY <1>3, <1>4, <1>6, <2>1, <2>3
<1>9. CASE /\ tasks' = Append(tasks, t)
           /\ running' = running \cup {Len(tasks')}
           /\ UNCHANGED <<unstarted, faults>>
  <2> DEFINE n == Len(tasks')
  <2>1. t \in Tasks /\ t.date = d /\ t.stage # "stopped"
    BY <1>2 DEF Tasks, TaskStages, Nothing, Timetables
  <2> HIDE DEF t
  <2>2. /\ n \notin DOMAIN tasks /\ DOMAIN tasks' = DOMAIN tasks \cup {n}
        /\ \A a \in DOMAIN tasks : tasks'[a] = tasks[a]
        /\ tasks'[n] = t
    BY <1>1, <1>9, <2>1, TaskAdded
  <2> HIDE DEF n
  <2>3. Alive' = Alive \cup {n} /\ running' = running \cup {n} /\ Alive \subseteq DOMAIN tasks
    BY <1>9, <2>1, <2>2 DEF Alive, n
  <2>4. PendingNotStarted' /\ OneTaskAttended'
    BY <1>1, <1>4, <1>6, <2>1, <2>2, <2>3
       DEF ScriptInv, PendingNotStarted, OneTaskAttended, OneTaskPerDate
  <2>5. AllAttended'
    BY <1>3, <2>3 DEF ScriptInv, AllAttended
  <2>6. Accounted'
    BY <1>1, <1>3, <1>4, <1>6, <1>9, <2>1, <2>2, <2>3 DEF ScriptInv, Accounted
  <2> QED BY <1>7, <1>8, <2>4, <2>5, <2>6 DEF ScriptInv
<1>10. CASE /\ Fault
            /\ unstarted' = unstarted \cup {d}
            /\ UNCHANGED <<tasks, running>>
  <2>1. Alive' = Alive
    BY <1>10 DEF Alive
  <2>2. PendingNotStarted' /\ OneTaskAttended' /\ AllAttended'
    BY <1>3, <1>4, <1>6, <1>10, <2>1
       DEF ScriptInv, PendingNotStarted, OneTaskAttended, OneTaskPerDate, AllAttended
  <2>3. Accounted'
    BY <1>3, <1>4, <1>6, <1>10 DEF ScriptInv, Accounted
  <2> QED BY <1>7, <1>8, <2>2, <2>3 DEF ScriptInv
<1> QED BY <1>9, <1>10 DEF StartTask, d

(* The dates of the completed tasks are those of summaries to come. *)
LEMMA CheckKeeps == ScriptInv /\ OrchestratorTypeOK' /\ CheckForCompletedTasks => ScriptInv'
<1> SUFFICES ASSUME ScriptInv, OrchestratorTypeOK', CheckForCompletedTasks PROVE ScriptInv'
  OBVIOUS
<1>1. PICK overlooked \in {{}} \cup {{a} : a \in running \cap Alive} :
        LET completed == (running \ Alive) \cup overlooked IN
        /\ missed' = missed \cup overlooked
        /\ running' = running \ completed
        /\ plan' = [plan EXCEPT !.summariesToRun = @ \cup DatesOf(completed)]
        /\ pc' = IF completed # {} THEN "loop" ELSE "act"
  BY DEF CheckForCompletedTasks
<1> DEFINE completed == (running \ Alive) \cup overlooked
<1>2. /\ pc \in {"check", "loop"} /\ pc' \in {"loop", "act"}
      /\ UNCHANGED <<tasks, summarised, answers, current, unstarted>>
  BY <1>1 DEF CheckForCompletedTasks, world
<1>3. plan \in Plans /\ overlooked \subseteq running /\ completed \subseteq running
  BY Typed DEF ScriptInv
<1>4. /\ plan'.readyToRun = plan.readyToRun
      /\ plan'.avlExportNeeded = plan.avlExportNeeded
      /\ plan'.timetableExportNeeded = plan.timetableExportNeeded
      /\ plan'.summariesToRun = plan.summariesToRun \cup DatesOf(completed)
      /\ plan'.failedSummaries = plan.failedSummaries
      /\ NextDays' = NextDays
  BY <1>1, <1>3 DEF Plans, NextDays
<1>5. running' = running \ completed /\ missed' = missed \cup overlooked
  BY <1>1
<1>6. running \ running' \subseteq completed /\ Alive \cap completed \subseteq overlooked
  BY <1>5
<1> HIDE DEF completed
<1>7. \A d : d \in DatesOf(completed) <=> \E a \in completed : tasks[a].date = d
  BY DEF DatesOf
<1>8. current = 0 /\ ~Exporting /\ ~Exporting' /\ Pending' = Pending /\ Alive' = Alive
  BY <1>2, <1>4 DEF ScriptInv, ListsFollowPc, ExportsADate, Exporting, Pending, Alive
<1>9. ListsFollowPc' /\ NextDaysLater'
  BY <1>2, <1>4, <1>8 DEF ScriptInv, ListsFollowPc, ExportsADate, NextDaysLater
<1>10. PendingNotStarted'
  BY <1>2, <1>3, <1>4, <1>5, <1>7, <1>8 DEF ScriptInv, PendingNotStarted
<1>11. OneTaskAttended'
  BY <1>2, <1>3, <1>4, <1>5, <1>7, <1>8 DEF ScriptInv, OneTaskAttended, OneTaskPerDate
<1>12. AllAttended'
  BY <1>2, <1>5, <1>6, <1>8 DEF ScriptInv, AllAttended
<1>13. Accounted'
  BY <1>2, <1>4, <1>5, <1>6, <1>7, <1>8 DEF ScriptInv, Accounted
<1> QED BY <1>9, <1>10, <1>11, <1>12, <1>13 DEF ScriptInv

(* A summary is generated, or fails twice. *)
LEMMA SummaryKeeps == ScriptInv /\ OrchestratorTypeOK' /\ GenerateSummary => ScriptInv'
<1> SUFFICES ASSUME ScriptInv, OrchestratorTypeOK', GenerateSummary PROVE ScriptInv'
  OBVIOUS
<1> DEFINE d == First(plan.summariesToRun)
<1>1. plan \in Plans
  BY Typed DEF ScriptInv
<1>2. /\ pc = "act" /\ pc' = "loop"
      /\ UNCHANGED <<tasks, running, missed, current, unstarted, answers>>
  BY DEF GenerateSummary
<1>3. /\ plan'.readyToRun = plan.readyToRun
      /\ plan'.avlExportNeeded = plan.avlExportNeeded
      /\ plan'.timetableExportNeeded = plan.timetableExportNeeded
      /\ plan'.summariesToRun = plan.summariesToRun \ {d}
      /\ NextDays' = NextDays
      /\ summarised \cup plan.failedSummaries \cup {d} \subseteq summarised' \cup plan'.failedSummaries
      /\ plan.failedSummaries \subseteq plan'.failedSummaries /\ summarised \subseteq summarised'
  BY <1>1 DEF GenerateSummary, Plans, NextDays
<1> HIDE DEF d
<1>4. current = 0 /\ ~Exporting /\ ~Exporting' /\ Pending' = Pending /\ Alive' = Alive
  BY <1>2, <1>3 DEF ScriptInv, ListsFollowPc, ExportsADate, Exporting, Pending, Alive
<1>5. ListsFollowPc' /\ NextDaysLater'
  BY <1>2, <1>3, <1>4 DEF ScriptInv, ListsFollowPc, ExportsADate, NextDaysLater
<1>6. PendingNotStarted' /\ OneTaskAttended' /\ AllAttended'
  BY <1>2, <1>3, <1>4
     DEF ScriptInv, PendingNotStarted, OneTaskAttended, OneTaskPerDate, AllAttended
<1>7. Accounted'
  BY <1>2, <1>3, <1>4 DEF ScriptInv, Accounted
<1> QED BY <1>5, <1>6, <1>7 DEF ScriptInv

(* A pending date goes from one list to the next. *)
LEMMA PendingGoesOn ==
  ASSUME ScriptInv, OrchestratorTypeOK',
         UNCHANGED <<tasks, running, missed, summarised, unstarted, answers>>,
         plan'.summariesToRun = plan.summariesToRun, plan'.failedSummaries = plan.failedSummaries,
         Pending' = Pending, NextDays' = NextDays, ListsFollowPc', pc # "down", pc' # "down",
         \A d \in Pending, e \in NextDays : e \in plan'.readyToRun \/ e = current' => e <= d
  PROVE  ScriptInv'
<1>1. Alive' = Alive
  BY DEF Alive
<1>2. NextDaysLater'
  BY DEF ScriptInv, NextDaysLater
<1>3. PendingNotStarted' /\ OneTaskAttended' /\ AllAttended'
  BY <1>1 DEF ScriptInv, PendingNotStarted, OneTaskAttended, OneTaskPerDate, AllAttended
<1>4. Accounted'
  BY DEF ScriptInv, Accounted
<1> QED BY <1>2, <1>3, <1>4 DEF ScriptInv

LEMMA ExportAvlKeeps == ScriptInv /\ OrchestratorTypeOK' /\ ExportAvl => ScriptInv'
<1> SUFFICES ASSUME ScriptInv, OrchestratorTypeOK', ExportAvl PROVE ScriptInv'
  OBVIOUS
<1> DEFINE d == First(plan.avlExportNeeded)
<1>1. plan \in Plans /\ d \in plan.avlExportNeeded
  BY Typed, FirstIsEarliest DEF ScriptInv, ExportAvl, Plans
<1>2. /\ pc = "act" /\ pc' = "loop"
      /\ plan' = [plan EXCEPT !.avlExportNeeded = @ \ {d}, !.timetableExportNeeded = @ \cup {d}]
      /\ UNCHANGED <<tasks, running, missed, summarised, current, unstarted, answers>>
  BY DEF ExportAvl, observers
<1> HIDE DEF d
<1>3. /\ plan'.readyToRun = plan.readyToRun
      /\ plan'.avlExportNeeded = plan.avlExportNeeded \ {d}
      /\ plan'.timetableExportNeeded = plan.timetableExportNeeded \cup {d}
      /\ plan'.summariesToRun = plan.summariesToRun /\ plan'.failedSummaries = plan.failedSummaries
      /\ NextDays' = NextDays
  BY <1>1, <1>2 DEF Plans, NextDays
<1>4. current = 0 /\ Pending' = Pending
  BY <1>1, <1>2, <1>3 DEF ScriptInv, ListsFollowPc, ExportsADate, Exporting, Pending
<1>5. ListsFollowPc'
  BY <1>1, <1>2, <1>3, <1>4 DEF ScriptInv, ListsFollowPc, ExportsADate, Exporting
<1>6. \A x \in Pending, e \in NextDays : e \in plan'.readyToRun \/ e = current' => e <= x
  BY <1>2, <1>3 DEF ScriptInv, NextDaysLater
<1> QED BY <1>2, <1>3, <1>4, <1>5, <1>6, PendingGoesOn

(* Nothing else is pending when the earliest date is taken for export. *)
LEMMA TakeKeeps == ScriptInv /\ OrchestratorTypeOK' /\ TakeTimetable => ScriptInv'
<1> SUFFICES ASSUME ScriptInv, OrchestratorTypeOK', TakeTimetable PROVE ScriptInv'
  OBVIOUS
<1>1. /\ plan \in Plans /\ pc = "act" /\ pc' \in {"generate", "export"}
      /\ plan.avlExportNeeded = {} /\ plan.readyToRun = {}
      /\ plan' = [plan EXCEPT !.timetableExportNeeded = @ \ {current'}]
      /\ UNCHANGED <<tasks, running, missed, summarised, unstarted, answers>>
  BY Typed DEF ScriptInv, TakeTimetable, CanExportTimetable, world, observers
<1>2. /\ current' \in plan.timetableExportNeeded
      /\ \A e \in plan.timetableExportNeeded : current' <= e
  BY <1>1, FirstIsEarliest DEF TakeTimetable, CanExportTimetable, Plans
<1>3. /\ plan'.readyToRun = {} /\ plan'.avlExportNeeded = {}
      /\ plan'.timetableExportNeeded = plan.timetableExportNeeded \ {current'}
      /\ plan'.summariesToRun = plan.summariesToRun /\ plan'.failedSummaries = plan.failedSummaries
      /\ NextDays' = NextDays
  BY <1>1 DEF Plans, NextDays
<1>4. current = 0 /\ current' # 0 /\ Exporting'
  BY <1>1, <1>2 DEF ScriptInv, ListsFollowPc, ExportsADate, Exporting, Plans, Day
<1>5. Pending' = Pending /\ Pending = plan.timetableExportNeeded
  BY <1>1, <1>2, <1>3, <1>4 DEF Pending
<1>6. ListsFollowPc'
  BY <1>1, <1>3, <1>4 DEF ListsFollowPc, ExportsADate
<1>7. \A x \in Pending, e \in NextDays : e \in plan'.readyToRun \/ e = current' => e <= x
  BY <1>2, <1>3, <1>5
<1> QED BY <1>1, <1>3, <1>5, <1>6, <1>7, PendingGoesOn

LEMMA ConvertKeeps == ScriptInv /\ OrchestratorTypeOK' /\ ConvertTimetable => ScriptInv'
<1> SUFFICES ASSUME ScriptInv, OrchestratorTypeOK', ConvertTimetable PROVE ScriptInv'
  OBVIOUS
<1>1. /\ plan \in Plans /\ pc = "convert" /\ pc' = "loop" /\ current' = 0
      /\ plan' = [plan EXCEPT !.readyToRun = @ \cup {current}]
      /\ UNCHANGED <<tasks, running, missed, summarised, unstarted, answers>>
  BY Typed DEF ScriptInv, ConvertTimetable
<1>2. /\ plan'.readyToRun = plan.readyToRun \cup {current}
      /\ plan'.avlExportNeeded = plan.avlExportNeeded
      /\ plan'.timetableExportNeeded = plan.timetableExportNeeded
      /\ plan'.summariesToRun = plan.summariesToRun /\ plan'.failedSummaries = plan.failedSummaries
      /\ NextDays' = NextDays
  BY <1>1 DEF Plans, NextDays
<1>3. /\ Exporting /\ ~Exporting' /\ current # 0
      /\ plan.readyToRun = {} /\ plan.avlExportNeeded = {}
      /\ current \notin plan.timetableExportNeeded
  BY <1>1 DEF ScriptInv, ListsFollowPc, ExportsADate, Exporting
<1>4. Pending' = Pending
  BY <1>1, <1>2, <1>3 DEF Pending
<1>5. ListsFollowPc'
  BY <1>1, <1>2, <1>3 DEF ListsFollowPc, ExportsADate
<1>6. NextDays \subseteq Day /\ 0 \notin Day
  BY <1>1 DEF NextDays, Plans, Day
<1>7. \A x \in Pending, e \in NextDays : e \in plan'.readyToRun \/ e = current' => e <= x
  BY <1>1, <1>2, <1>3, <1>6 DEF ScriptInv, NextDaysLater
<1> QED BY <1>1, <1>2, <1>4, <1>5, <1>7, PendingGoesOn

LEMMA DieKeeps == ScriptInv /\ OrchestratorTypeOK' /\ Die => ScriptInv'
<1> SUFFICES ASSUME ScriptInv, OrchestratorTypeOK', Die PROVE ScriptInv'
  OBVIOUS
<1>1. /\ pc' = "down" /\ plan' = Idle /\ running' = {} /\ current' = 0
      /\ UNCHANGED tasks
  BY DEF Die, world
<1>2. /\ Pending' = {} /\ Alive' = Alive
      /\ plan'.readyToRun = {} /\ plan'.avlExportNeeded = {} /\ plan'.timetableExportNeeded = {}
  BY <1>1 DEF Idle, Pending, Alive
<1> QED
  BY <1>1, <1>2 DEF ScriptInv, ListsFollowPc, ExportsADate, Exporting, PendingNotStarted,
       OneTaskAttended, OneTaskPerDate, AllAttended, NextDaysLater, Accounted

(* The steps that leave the lists of dates as they are. *)
LEMMA QuietKeeps ==
  ASSUME ScriptInv, OrchestratorTypeOK',
         \/ ExportNextDayAvl \/ ConvertNextDay \/ GenerateTimetable \/ WaitForQueues
         \/ ExportTimetable \/ Sleep \/ Finish
         \/ (\E s \in Shards : Drain(s)) \/ (\E d \in Day : ConvertByHand(d))
         \/ UNCHANGED vars
  PROVE  ScriptInv'
<1> USE DEF world, script, observers
<1>1. plan \in Plans /\ (Exporting => current # 0)
  BY Typed DEF ScriptInv, ListsFollowPc, ExportsADate
<1>2. CASE ExportNextDayAvl
  <2>1. /\ plan' = [plan EXCEPT !.nextDayAvlExportNeeded = @ \ {NextDay},
                                !.nextDayAvlConversionNeeded = @ \cup {NextDay}]
        /\ NextDay \in plan.nextDayAvlExportNeeded
        /\ UNCHANGED <<tasks, running, missed, current, unstarted, answers, summarised, pc>>
    BY <1>2 DEF ExportNextDayAvl
  <2> HIDE DEF NextDay
  <2> QED BY <1>1, <2>1, ListsStay DEF Plans, NextDays, Exporting
<1>3. CASE ConvertNextDay
  <2>1. /\ plan' = [plan EXCEPT !.nextDayAvlConversionNeeded = @ \ {NextDay}]
        /\ UNCHANGED <<tasks, running, missed, current, unstarted, answers, summarised, pc>>
    BY <1>3 DEF ConvertNextDay
  <2> HIDE DEF NextDay
  <2> QED BY <1>1, <2>1, ListsStay DEF Plans, NextDays, Exporting
<1>4. CASE GenerateTimetable
  <2>1. /\ UNCHANGED <<tasks, running, missed, current, unstarted, answers, plan>>
        /\ Exporting' = Exporting /\ pc # "down" /\ pc' = "wait" /\ NextDays' = NextDays
    BY <1>4 DEF GenerateTimetable, Exporting, NextDays
  <2>2. current \in Pending /\ summarised' = summarised \ {current}
    BY <1>1, <1>4 DEF GenerateTimetable, Exporting, Pending
  <2> QED BY <2>1, <2>2, ListsStay
<1>5. CASE WaitForQueues \/ ExportTimetable \/ Sleep \/ Finish
  <2>1. /\ UNCHANGED <<tasks, running, missed, current, unstarted, answers, plan, summarised>>
        /\ Exporting' = Exporting /\ pc # "down" /\ pc' # "down" /\ NextDays' = NextDays
        /\ pc' = "done" => ~Nonempty
    BY <1>5 DEF WaitForQueues, ExportTimetable, Sleep, Finish, Exporting, NextDays
  <2> QED BY <2>1, ListsStay
<1>6. CASE \/ (\E s \in Shards : Drain(s)) \/ (\E d \in Day : ConvertByHand(d))
           \/ UNCHANGED vars
  <2>1. UNCHANGED <<tasks, running, missed, current, unstarted, answers, plan, summarised, pc>>
    BY <1>6 DEF Drain, ConvertByHand, vars
  <2> QED BY <2>1, ListsStay DEF Exporting, NextDays
<1> QED BY <1>2, <1>3, <1>4, <1>5, <1>6

LEMMA TaskKeeps ==
  ASSUME ScriptInv, OrchestratorTypeOK', NEW a \in DOMAIN tasks, TaskReads(a) \/ TaskEnds(a)
  PROVE  ScriptInv'
<1>1. CASE TaskReads(a)
  <2>1. a \in Alive /\ UNCHANGED <<script, observers>> /\ summarised' = summarised
    BY <1>1, ReadingTask DEF TaskReads, ScriptInv, Alive
  <2> QED BY <1>1, <2>1, ReadingTask, TaskGoesOn DEF ScriptInv
<1>2. CASE TaskEnds(a)
  <2>1. a \in Alive /\ UNCHANGED <<script, observers>> /\ summarised' = summarised \ {tasks[a].date}
    BY <1>2, EndingTask DEF TaskEnds, ScriptInv, Alive
  <2> QED BY <1>2, <2>1, EndingTask, TaskGoesOn DEF ScriptInv
<1> QED BY <1>1, <1>2

LEMMA ScriptStepKeeps == ScriptInv /\ [Next]_vars => ScriptInv'
<1> SUFFICES ASSUME ScriptInv, [Next]_vars PROVE ScriptInv'
  OBVIOUS
<1>1. OrchestratorTypeOK'
  BY TypesStep DEF ScriptInv, ListsFollowPc
<1> QED
  BY <1>1, BeginKeeps, StartKeeps, CheckKeeps, SummaryKeeps, ExportAvlKeeps, TakeKeeps,
     ConvertKeeps, DieKeeps, QuietKeeps, TaskKeeps, Zenon DEF Next, ScriptStep

-----------------------------------------------------------------------------
(* What the script keeps. *)

LEMMA ScriptAlwaysConsistent == Spec => []ScriptInv
  BY ScriptInit, ScriptStepKeeps, PTL DEF Spec

(* Every variable of the orchestrator keeps its type. *)
THEOREM OrchestratorAlwaysTyped == Spec => []OrchestratorTypeOK
<1>1. ScriptInv => OrchestratorTypeOK
  BY DEF ScriptInv
<1> QED BY <1>1, ScriptAlwaysConsistent, PTL

(* However often the script dies and is started again, and with whatever dates, no two
   tasks match a date at the same time: what look_for_existing_tasks finds is left out. *)
THEOREM DatesMatchedOnce == Spec => []OneTaskPerDate
<1>1. ScriptInv => OneTaskPerDate
  BY DEF ScriptInv, OneTaskAttended
<1> QED BY <1>1, ScriptAlwaysConsistent, PTL

(* When the script says that all processing is complete, every date it was given, and
   every date it found being matched, has summaries of its final rows or is listed as
   failed; but for dates of a task that run_task did not start, or that
   check_for_completed_tasks took for completed. *)
THEOREM CompleteIsComplete == Spec => []CompleteMeansSummarised
<1>1. ASSUME ScriptInv PROVE CompleteMeansSummarised
  <2> SUFFICES ASSUME pc = "done", NEW d \in answers.dates
               PROVE  d \in summarised \cup plan.failedSummaries \cup unstarted \cup DatesOf(missed)
    BY DEF CompleteMeansSummarised
  <2>1. Pending = {} /\ running = {} /\ plan.summariesToRun = {}
    BY <1>1 DEF ScriptInv, ListsFollowPc
  <2> QED BY <1>1, <2>1 DEF ScriptInv, Accounted, DatesOf
<1> QED BY <1>1, ScriptAlwaysConsistent, PTL

(* Neither the export of another date, nor a later session, nor the conversion by hand
   replaces the timetable that a task reads or the rows that it writes to. *)
THEOREM NothingReplacedUnderTask == Spec => NotReplacedUnderTask
<1> DEFINE Kept == \A d \in Day :
             \/ generation'[d] # generation[d]
             \/ files.timetableParquet[d] \notin {Nothing, files'.timetableParquet[d]}
             => d \notin DatesOf(Alive)
<1>1. ASSUME ScriptInv, [Next]_vars PROVE Kept
  <2> USE DEF world, script, observers
  <2>1. /\ OrchestratorTypeOK /\ ExportsADate /\ plan \in Plans /\ files \in FileSets
        /\ \A d \in Pending : d \notin DatesOf(Alive)
    BY <1>1, Typed DEF ScriptInv, ListsFollowPc, PendingNotStarted, DatesOf
  <2>2. Exporting => current \in Pending /\ current \in Day
    BY <2>1 DEF ExportsADate, Pending, OrchestratorTypeOK
  <2>3. CASE UNCHANGED generation /\ files'.timetableParquet = files.timetableParquet
    BY <2>3
  <2>4. CASE ExportNextDayAvl \/ ExportAvl \/ ExportTimetable
    <3>1. UNCHANGED generation /\ files'.timetableParquet = files.timetableParquet
      BY <2>1, <2>4 DEF ExportNextDayAvl, ExportAvl, ExportTimetable, FileSets
    <3> QED BY <2>3, <3>1
  <2>5. CASE ConvertNextDay
    <3>1. /\ First(plan.readyToRun) \in plan.readyToRun
          /\ NextDay \in NextDays /\ UNCHANGED generation /\ ConvertToParquet(NextDay)
      BY <2>1, <2>5, NextDayTyped DEF ConvertNextDay, NextDays
    <3>2. NextDay \in Pending /\ NextDay \in Day
      <4>1. First(plan.readyToRun) \in Pending /\ First(plan.readyToRun) \in Nat
        BY <2>1, <3>1 DEF Pending, Plans, Day
      <4>2. NextDay > First(plan.readyToRun) /\ NextDay \in Day
        BY <2>1, <3>1, <4>1 DEF NextDay, NextDays, Plans
      <4> QED BY <1>1, <3>1, <4>1, <4>2 DEF ScriptInv, NextDaysLater
    <3> QED BY <2>1, <3>1, <3>2, ConversionTyped
  <2>6. CASE GenerateTimetable
    <3>1. \A d \in Day : generation'[d] # generation[d] => d = current
      BY <2>1, <2>6 DEF GenerateTimetable, OrchestratorTypeOK
    <3>2. UNCHANGED files /\ Exporting
      BY <2>6 DEF GenerateTimetable, Exporting
    <3> QED BY <2>1, <2>2, <3>1, <3>2
  <2>7. CASE ConvertTimetable
    <3>1. UNCHANGED generation /\ ConvertToParquet(current) /\ Exporting
      BY <2>7 DEF ConvertTimetable, Exporting
    <3> QED BY <2>1, <2>2, <3>1, ConversionTyped
  <2>8. CASE \E d \in Day : ConvertByHand(d)
    <3>1. PICK d \in Day : ConvertByHand(d)
      BY <2>8
    <3>2. UNCHANGED generation /\ files' = Converted(files, d, FALSE, FALSE)
      BY <3>1 DEF ConvertByHand
    <3>3. \A e \in Day : Converted(files, d, FALSE, FALSE).timetableParquet[e] # files.timetableParquet[e]
                           => e = d /\ (FALSE \/ files.timetableParquet[e] = Nothing)
      BY <2>1, ConvertedFiles, Zenon
    <3> HIDE DEF Converted
    <3> QED BY <3>2, <3>3
  <2>9. CASE \/ Begin \/ StartTask \/ CheckForCompletedTasks \/ GenerateSummary \/ TakeTimetable
             \/ WaitForQueues \/ Sleep \/ Finish \/ Die
             \/ (\E a \in DOMAIN tasks : TaskReads(a) \/ TaskEnds(a))
             \/ (\E s \in Shards : Drain(s))
             \/ UNCHANGED vars
    <3>1. UNCHANGED <<generation, files>>
      BY <2>9 DEF Begin, StartTask, CheckForCompletedTasks, GenerateSummary, TakeTimetable,
           WaitForQueues, Sleep, Finish, Die, TaskReads, TaskEnds, Drain, vars
    <3> QED BY <2>3, <3>1
  <2> QED BY <1>1, <2>4, <2>5, <2>6, <2>7, <2>8, <2>9, Zenon DEF Next, ScriptStep
<1>2. ScriptInv /\ [Next]_vars => [Kept]_vars
  BY <1>1
<1> QED BY <1>2, ScriptAlwaysConsistent, PTL DEF Spec, NotReplacedUnderTask

-----------------------------------------------------------------------------
(* The script implements DateLifecycle, whose matching dates are those of the tasks that
   run and are not taken for completed. *)

Attended == DatesOf(Alive \ missed)

LEMMA SameCardinality == \A S : Lifecycle!Cardinality(S) = Cardinality(S)
  BY DEF Cardinality, Lifecycle!Cardinality

LEMMA AttendedDates ==
  ASSUME ScriptInv
  PROVE  /\ Attended \in SUBSET Day
         /\ \A d : d \in Attended <=> \E a \in Alive \ missed : tasks[a].date = d
         /\ pc # "down" => /\ Cardinality(Attended) <= Cardinality(running)
                           /\ Cardinality(Attended) \in Nat /\ Cardinality(running) \in Nat
                           /\ Attended \cap plan.summariesToRun = {}
<1>1. /\ running \subseteq DOMAIN tasks /\ Alive \subseteq DOMAIN tasks
      /\ \A a \in DOMAIN tasks : tasks[a].date \in Day
  BY Typed DEF ScriptInv, OrchestratorTypeOK, Alive, Tasks
<1>2. \A d : d \in Attended <=> \E a \in Alive \ missed : tasks[a].date = d
  BY DEF Attended, DatesOf
<1>3. ASSUME pc # "down"
      PROVE  /\ Cardinality(Attended) <= Cardinality(running)
             /\ Cardinality(Attended) \in Nat /\ Cardinality(running) \in Nat
  <2> DEFINE dates == DatesOf(running)
             f == [a \in running |-> tasks[a].date]
  <2>1. IsFiniteSet(running)
    <3>1. Len(tasks) \in Nat /\ running \in SUBSET (1 .. Len(tasks))
      BY <1>1, Typed, LenProperties DEF ScriptInv
    <3>2. IsFiniteSet(1 .. Len(tasks))
      BY <3>1, FS_Interval
    <3> QED BY <3>1, <3>2, FS_Subset
  <2>2. f \in Surjection(running, dates)
    BY DEF Surjection, DatesOf
  <2> HIDE DEF f
  <2>3. IsFiniteSet(dates) /\ Cardinality(dates) <= Cardinality(running)
    BY <2>1, <2>2, FS_Surjection
  <2>4. Attended \in SUBSET dates
    BY <1>2, <1>3 DEF ScriptInv, AllAttended, DatesOf
  <2> HIDE DEF dates
  <2>5. Cardinality(Attended) <= Cardinality(dates) /\ IsFiniteSet(Attended)
    BY <2>3, <2>4, FS_Subset
  <2>6. Cardinality(Attended) \in Nat /\ Cardinality(dates) \in Nat /\ Cardinality(running) \in Nat
    BY <2>1, <2>3, <2>5, FS_CardinalityType
  <2> QED BY <2>3, <2>5, <2>6
<1>4. ASSUME pc # "down" PROVE Attended \cap plan.summariesToRun = {}
  BY <1>2, <1>4 DEF ScriptInv, AllAttended, OneTaskAttended
<1> QED BY <1>1, <1>2, <1>3, <1>4

LEMMA StartMatches ==
  ASSUME ScriptInv, StartTask
  PROVE  \/ \E d \in Day : Lifecycle!Match(d)
         \/ UNCHANGED <<Attended, summarised>>
<1> DEFINE d == First(plan.readyToRun)
           t == [date |-> d, stage |-> "starting", read |-> Nothing]
<1>1. /\ tasks \in Seq(Tasks) /\ running \subseteq DOMAIN tasks /\ missed \subseteq DOMAIN tasks
      /\ pc = "loop" /\ Cardinality(running) < MaxTasks /\ UNCHANGED <<missed, summarised>>
  BY Typed DEF ScriptInv, OrchestratorTypeOK, StartTask, CanStart
<1>2. d \in Day /\ d \in Pending
  BY NextDayTyped, Typed DEF StartTask, ScriptInv, Plans, Pending
<1>3. CASE tasks' = Append(tasks, t)
  <2> DEFINE n == Len(tasks')
  <2>1. t \in Tasks /\ t.date = d /\ t.stage # "stopped"
    BY <1>2 DEF Tasks, TaskStages, Nothing, Timetables
  <2> HIDE DEF d, t
  <2>2. /\ n \notin DOMAIN tasks /\ DOMAIN tasks' = DOMAIN tasks \cup {n}
        /\ \A a \in DOMAIN tasks : tasks'[a] = tasks[a]
        /\ tasks'[n] = t
    BY <1>1, <1>3, <2>1, TaskAdded
  <2> HIDE DEF n
  <2>3. Alive' \ missed' = (Alive \ missed) \cup {n} /\ Alive \subseteq DOMAIN tasks
    BY <1>1, <2>1, <2>2 DEF Alive
  <2>4. Attended' = Attended \cup {d}
    <3>1. \A x : x \in Attended' <=> x \in Attended \/ x = d
      BY <2>1, <2>2, <2>3 DEF Attended, DatesOf
    <3> QED BY <3>1
  <2>5. d \notin Attended
    BY <1>2 DEF ScriptInv, PendingNotStarted, Attended, DatesOf
  <2>6. Lifecycle!Cardinality(Attended) < MaxTasks
    BY <1>1, AttendedDates, SameCardinality, OrchestratorAssumption
  <2> QED BY <1>1, <1>2, <2>4, <2>5, <2>6 DEF Lifecycle!Match, Attended, d
<1>4. CASE UNCHANGED tasks
  BY <1>1, <1>4 DEF Attended, DatesOf, Alive
<1> QED BY <1>3, <1>4 DEF StartTask

(* The date of a task that is overlooked is given up, as no other task matches it. *)
LEMMA CheckGivesUp ==
  ASSUME ScriptInv, CheckForCompletedTasks
  PROVE  \E dates \in SUBSET Attended : Lifecycle!EndMatching(dates)
<1>1. PICK overlooked \in {{}} \cup {{a} : a \in running \cap Alive} :
        missed' = missed \cup overlooked
  BY DEF CheckForCompletedTasks
<1>2. overlooked \subseteq Alive /\ UNCHANGED <<tasks, summarised>>
  BY DEF CheckForCompletedTasks, world
<1>3. Alive' \ missed' = (Alive \ missed) \ overlooked
  BY <1>1, <1>2 DEF Alive
<1>4. Attended' = Attended \ DatesOf(overlooked)
  <2>1. \A d : d \in Attended' <=> d \in Attended /\ d \notin DatesOf(overlooked)
    BY <1>2, <1>3 DEF Attended, DatesOf, ScriptInv, OneTaskAttended, OneTaskPerDate
  <2> QED BY <2>1
<1> DEFINE dates == Attended \cap DatesOf(overlooked)
<1>5. Attended' = Attended \ dates /\ dates \in SUBSET Attended
  BY <1>4
<1> HIDE DEF dates
<1> QED BY <1>2, <1>5 DEF Lifecycle!EndMatching, Attended

(* A task stops: its date is no longer matched, unless it was given up before. *)
LEMMA TaskStops ==
  ASSUME ScriptInv, NEW a \in Alive, UNCHANGED missed,
         DOMAIN tasks' = DOMAIN tasks,
         \A b \in DOMAIN tasks : tasks'[b].date = tasks[b].date,
         \A b \in DOMAIN tasks : tasks'[b].stage = IF b = a THEN "stopped" ELSE tasks[b].stage
  PROVE  /\ a \in missed => Attended' = Attended /\ tasks[a].date \notin Attended
         /\ a \notin missed => /\ Attended' = Attended \ {tasks[a].date}
                               /\ tasks[a].date \in Attended
<1>1. Alive' = Alive \ {a} /\ Alive \subseteq DOMAIN tasks
  BY DEF Alive
<1>2. \A b \in Alive : tasks[b].date = tasks[a].date => b = a
  BY DEF ScriptInv, OneTaskAttended, OneTaskPerDate
<1>3. \A d : d \in Attended <=> \E b \in Alive \ missed : tasks[b].date = d
  BY DEF Attended, DatesOf
<1>4. \A d : d \in Attended' <=> \E b \in Alive \ missed : b # a /\ tasks[b].date = d
  BY <1>1 DEF Attended, DatesOf
<1>5. CASE a \in missed
  <2>1. \A d : d \in Attended' <=> d \in Attended
    BY <1>3, <1>4, <1>5
  <2>2. Attended' = Attended
    BY <2>1
  <2> QED BY <1>2, <1>3, <1>5, <2>2
<1>6. CASE a \notin missed
  <2>1. \A d : d \in Attended' <=> d \in Attended \ {tasks[a].date}
    BY <1>2, <1>3, <1>4
  <2>2. Attended' = Attended \ {tasks[a].date}
    BY <2>1
  <2> QED BY <1>3, <1>6, <2>2
<1> QED BY <1>5, <1>6

LEMMA TaskLives ==
  ASSUME ScriptInv, NEW a \in DOMAIN tasks, TaskReads(a) \/ TaskEnds(a)
  PROVE  \/ \E dates \in SUBSET Attended : Lifecycle!EndMatching(dates)
         \/ \E d \in Day : Lifecycle!Reopen(d)
         \/ UNCHANGED <<Attended, summarised>>
<1> DEFINE d == tasks[a].date
<1>1. OrchestratorTypeOK /\ d \in Day /\ UNCHANGED missed
  BY Typed DEF ScriptInv, Tasks, TaskReads, TaskEnds, observers
<1>2. CASE TaskReads(a) /\ tasks'[a].stage # "stopped"
  <2>1. Alive' = Alive /\ Alive \subseteq DOMAIN tasks
    BY <1>1, <1>2, ReadingTask DEF Alive
  <2>2. \A b \in Alive : tasks'[b].date = tasks[b].date
    BY <1>1, <1>2, <2>1, ReadingTask
  <2>3. Attended' = Attended
    BY <1>1, <2>1, <2>2 DEF Attended, DatesOf
  <2> QED BY <1>2, <2>3 DEF TaskReads
<1>3. CASE TaskReads(a) /\ tasks'[a].stage = "stopped"
  <2>1. a \in Alive /\ UNCHANGED summarised
    BY <1>1, <1>3, ReadingTask DEF Alive, TaskReads
  <2>2. \/ Attended' = Attended
        \/ Attended' = Attended \ {d} /\ d \in Attended
    BY <1>1, <1>3, <2>1, ReadingTask, TaskStops
  <2>3. CASE Attended' = Attended \ {d} /\ d \in Attended
    <3>1. Lifecycle!EndMatching({d})
      BY <2>1, <2>3 DEF Lifecycle!EndMatching, Attended
    <3> QED BY <2>3, <3>1
  <2> QED BY <2>1, <2>2, <2>3
<1>4. CASE TaskEnds(a)
  <2>1. a \in Alive /\ summarised' = summarised \ {d}
    BY <1>1, <1>4, EndingTask DEF Alive, TaskEnds
  <2>2. /\ a \in missed => Attended' = Attended /\ d \notin Attended
        /\ a \notin missed => Attended' = Attended \ {d} /\ d \in Attended
    BY <1>1, <1>4, <2>1, EndingTask, TaskStops
  <2> HIDE DEF d
  <2>3. CASE a \in missed
    <3>1. Lifecycle!Reopen(d)
      BY <2>1, <2>2, <2>3 DEF Lifecycle!Reopen, Attended
    <3> QED BY <1>1, <3>1
  <2>4. CASE a \notin missed
    <3>1. Lifecycle!EndMatching({d})
      BY <2>1, <2>2, <2>4 DEF Lifecycle!EndMatching, Attended
    <3> QED BY <2>2, <2>4, <3>1
  <2> QED BY <2>3, <2>4
<1> QED BY <1>2, <1>3, <1>4

LEMMA LifecycleStep == ScriptInv /\ [Next]_vars => [Lifecycle!Next]_(Lifecycle!vars)
<1> SUFFICES ASSUME ScriptInv, [Next]_vars
             PROVE  \/ \E d \in Day : Lifecycle!Match(d) \/ Lifecycle!Summarise(d) \/ Lifecycle!Reopen(d)
                    \/ \E dates \in SUBSET Attended : Lifecycle!EndMatching(dates)
                    \/ UNCHANGED <<Attended, summarised>>
  BY DEF Lifecycle!Next, Lifecycle!vars, Attended
<1> USE DEF world, script, observers
<1>1. CASE StartTask
  BY <1>1, StartMatches
<1>2. CASE CheckForCompletedTasks
  BY <1>2, CheckGivesUp
<1>3. CASE GenerateSummary
  <2> DEFINE d == First(plan.summariesToRun)
  <2>1. d \in plan.summariesToRun /\ d \in Day
    BY <1>3, Typed, FirstIsEarliest DEF ScriptInv, GenerateSummary, Plans
  <2>2. d \notin Attended /\ Attended' = Attended
    BY <1>3, <2>1, AttendedDates DEF GenerateSummary, Attended, DatesOf, Alive
  <2>3. summarised' = summarised \cup {d} \/ summarised' = summarised
    BY <1>3 DEF GenerateSummary
  <2> HIDE DEF d
  <2>4. CASE summarised' = summarised \cup {d}
    BY <2>1, <2>2, <2>4 DEF Lifecycle!Summarise, Attended
  <2> QED BY <2>2, <2>3, <2>4
<1>4. CASE GenerateTimetable
  <2>1. Exporting /\ current \in Pending /\ current \in Day
    BY <1>4 DEF GenerateTimetable, Exporting, ScriptInv, ListsFollowPc, ExportsADate, Pending,
         OrchestratorTypeOK
  <2>2. current \notin Attended /\ Attended' = Attended /\ summarised' = summarised \ {current}
    BY <1>4, <2>1 DEF GenerateTimetable, ScriptInv, PendingNotStarted, Attended, DatesOf, Alive
  <2>3. Lifecycle!Reopen(current)
    BY <2>2 DEF Lifecycle!Reopen, Attended
  <2> QED BY <2>1, <2>3
<1>5. CASE \E a \in DOMAIN tasks : TaskReads(a) \/ TaskEnds(a)
  BY <1>5, TaskLives
<1>6. CASE \/ Begin \/ ExportNextDayAvl \/ ConvertNextDay \/ ExportAvl \/ TakeTimetable
           \/ WaitForQueues \/ ExportTimetable \/ ConvertTimetable \/ Sleep \/ Finish \/ Die
           \/ (\E s \in Shards : Drain(s)) \/ (\E d \in Day : ConvertByHand(d))
           \/ UNCHANGED vars
  <2>1. UNCHANGED <<tasks, missed, summarised>>
    BY <1>6 DEF Begin, ExportNextDayAvl, ConvertNextDay, ExportAvl, TakeTimetable, WaitForQueues,
         ExportTimetable, ConvertTimetable, Sleep, Finish, Die, Drain, ConvertByHand, vars
  <2> QED BY <2>1 DEF Attended, DatesOf, Alive
<1> QED BY <1>1, <1>2, <1>3, <1>4, <1>5, <1>6, Zenon DEF Next, ScriptStep

(* The script does what DateLifecycle promises: at most MaxTasks dates are matched at a
   time, a date is summarised and its rows are replaced only when no task the script
   attends to matches it, and a summary does not outlive the rows it tells of. *)
THEOREM ScriptImplementsLifecycle == Spec => DatesLiveTheirLives
<1>1. Init => Lifecycle!Init
  BY DEF Init, Lifecycle!Init, DatesOf, Alive
<1> QED
  BY <1>1, ScriptAlwaysConsistent, LifecycleStep, PTL DEF Spec, DatesLiveTheirLives, Lifecycle!Spec

=============================================================================
