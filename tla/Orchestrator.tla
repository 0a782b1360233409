---------------------------- MODULE Orchestrator ----------------------------
(***************************************************************************)
(* scripts/historic_matching.py: the script an operator runs on the        *)
(* bastion to match past dates again.  It keeps lists of dates and polls:  *)
(* it exports AVLs and timetables by calling procedures, has them          *)
(* converted to parquet by a Lambda, runs one ECS task per date, and       *)
(* generates the summaries of a date when its task has ended.  Nothing is  *)
(* saved: when the script dies it is started again with new answers, and   *)
(* sees the tasks that are still running and the files that exist.         *)
(*                                                                         *)
(* Lists of dates are sets: they have no duplicates, but for               *)
(* next_day_avl_conversion_needed, whose second copy of a date is never    *)
(* looked at, and pop(0) takes the first of a sorted list.                 *)
(***************************************************************************)
EXTENDS Integers, Sequences, FiniteSets

CONSTANTS
  LastDay,             \* the operator asks for dates 1 .. LastDay
  Requests,            \* the sets of dates an operator may ask for
  Shards,              \* shards of live matching, by number
  MaxTasks,            \* MAX_CONCURRENT_MATCHING_TASKS
  MaxSessions,         \* how often the script is started
  MaxFaults            \* deaths of the script, calls that fail, tasks left out of an answer

ASSUME OrchestratorAssumption ==
  /\ LastDay \in Nat \ {0}
  /\ Requests \subseteq (SUBSET (1 .. LastDay)) \ {{}}
  /\ 7 \in Shards
  /\ {MaxTasks, MaxSessions, MaxFaults} \subseteq Nat

VARIABLES
  \* the world
  files,               \* what is in the export bucket
  generation,          \* of each date's timetable rows: a full generation replaces them
  backlog,             \* the shards whose queue is longer than MAX_LIVE_MATCHING_QUEUE_LENGTH
  tasks,               \* the ECS tasks, numbered by their arn
  summarised,          \* dates whose summaries were made after the last change of their rows
  \* the script
  pc,                  \* the line it has reached; "down" when it is not running
  answers,             \* what the operator answered
  plan,                \* its lists of dates
  running,             \* running_tasks
  current,             \* process_date of the export under way
  \* observers
  unstarted,           \* dates of this session for which run_task returned no task
  missed,              \* tasks taken for completed while they ran
  faults, sessions

world == <<files, generation, backlog, tasks, summarised>>
script == <<pc, answers, plan, running, current>>
observers == <<unstarted, missed, faults, sessions>>
vars == <<world, script, observers>>

Day == 1 .. LastDay + 1

\* A timetable file: the generation it was exported from, and all of its rows or
\* only those of unregistered services.
Nothing == [generation |-> 0, whole |-> FALSE]
Timetables == [generation : Nat, whole : BOOLEAN]

First(dates) == CHOOSE d \in dates : \A e \in dates : d <= e

Alive == {a \in DOMAIN tasks : tasks[a].stage # "stopped"}
DatesOf(arns) == {tasks[a].date : a \in arns}

Idle == [readyToRun |-> {}, avlExportNeeded |-> {}, timetableExportNeeded |-> {},
         nextDayAvlExportNeeded |-> {}, nextDayAvlConversionNeeded |-> {},
         summariesToRun |-> {}, failedSummaries |-> {}]

NoAnswers == [subset |-> FALSE, regenerate |-> FALSE, dates |-> {}]

-----------------------------------------------------------------------------
\* External: the cron job has exported both csv files of every day, or has not run
\* yet; what was converted before is any part of that.
Init ==
  /\ \E exported \in BOOLEAN, avl \in SUBSET Day, timetable \in SUBSET (1 .. LastDay) :
       LET whole == [generation |-> 1, whole |-> TRUE] IN
       files = [avlCsv |-> IF exported THEN Day ELSE avl,
                avlParquet |-> avl,
                timetableCsv |-> [d \in Day |-> IF exported \/ d \in timetable THEN whole ELSE Nothing],
                timetableParquet |-> [d \in Day |-> IF d \in timetable THEN whole ELSE Nothing]]
  /\ generation = [d \in Day |-> 1]
  /\ backlog = {} /\ tasks = <<>> /\ summarised = {}
  /\ pc = "down" /\ plan = Idle /\ running = {} /\ current = 0
  /\ answers = NoAnswers
  /\ unstarted = {} /\ missed = {} /\ faults = 0 /\ sessions = 0

Fault == faults < MaxFaults /\ faults' = faults + 1

\* convert_to_parquet_function: a missing input is only mentioned in the answer.
Converted(f, d, skipAvl, overwrite) ==
  LET old == f.timetableParquet[d]
      new == IF f.timetableCsv[d] # Nothing /\ (overwrite \/ old = Nothing)
             THEN f.timetableCsv[d] ELSE old
  IN [f EXCEPT !.timetableParquet = [@ EXCEPT ![d] = new],
               !.avlParquet = @ \cup ({d} \cap (IF skipAvl THEN {} ELSE f.avlCsv))]

\* The Lambda may fail, which the caller does not look at.
ConvertToParquet(d) ==
  \/ files' = Converted(files, d, TRUE, TRUE) /\ UNCHANGED faults
  \/ Fault /\ UNCHANGED files

\* Mutant: look_for_existing_tasks is not called.
BeginWithoutLooking ==
  /\ pc \in {"down", "done"} /\ sessions < MaxSessions
  /\ \E request \in Requests, again \in BOOLEAN :
       /\ plan' = [Idle EXCEPT !.timetableExportNeeded = request]
       /\ answers' = [subset |-> FALSE, regenerate |-> again, dates |-> request]
  /\ running' = {}
  /\ pc' = "loop" /\ sessions' = sessions + 1 /\ unstarted' = {}
  /\ UNCHANGED <<world, current, missed, faults>>

\* Dates with all their files; they are not looked for when the export is forced, or is of
\* the unregistered subset.
ReadyAmong(dates, subset, force) ==
  {d \in dates \cap files.avlParquet : ~subset /\ ~force /\ files.timetableParquet[d] # Nothing}

\* The lists of the dates.  Those of the next day's AVLs are made of the dates themselves,
\* as which_files_exist is asked about those.
ListsFor(dates, ready, subset) ==
  LET tomorrows == {d \in dates \ files.avlParquet : d + 1 \notin dates}
  IN [Idle EXCEPT !.readyToRun = ready,
                  !.avlExportNeeded = IF subset THEN dates \ files.avlParquet ELSE {},
                  !.timetableExportNeeded = dates \ ready,
                  !.nextDayAvlExportNeeded = tomorrows,
                  !.nextDayAvlConversionNeeded = tomorrows]

\* The start of main: the operator answers, running tasks are found and their dates
\* left out, and the files that exist decide what has to be done for the others.
Begin ==
  /\ pc \in {"down", "done"} /\ sessions < MaxSessions
  /\ \E request \in Requests, subset, force, again \in BOOLEAN :
       LET dates == request \ DatesOf(Alive)
           ready == ReadyAmong(dates, subset, force)
       IN /\ subset => ~force /\ again
          /\ ~subset /\ dates = ready => ~again
          /\ plan' = ListsFor(dates, ready, subset)
          /\ answers' = [subset |-> subset, regenerate |-> again,
                         dates |-> request \cup DatesOf(Alive)]
  /\ running' = Alive
  /\ pc' = "loop" /\ sessions' = sessions + 1 /\ unstarted' = {}
  /\ UNCHANGED <<world, current, missed, faults>>

-----------------------------------------------------------------------------
\* The loop of main, from its top to "Keep starting tasks".  What happens before the
\* task is started touches none of the conditions it happens under.
\* Mutant: one task too many.
CanStartOneMore ==
  /\ plan.readyToRun # {}
  /\ Cardinality(running) <= MaxTasks
  /\ First(plan.readyToRun) + 1 \notin plan.avlExportNeeded

CanStart ==
  /\ plan.readyToRun # {}
  /\ Cardinality(running) < MaxTasks
  /\ First(plan.readyToRun) + 1 \notin plan.avlExportNeeded

NextDay == First(plan.readyToRun) + 1

ExportNextDayAvl ==
  /\ pc = "loop" /\ CanStart
  /\ NextDay \in plan.nextDayAvlExportNeeded
  /\ files' = [files EXCEPT !.avlCsv = @ \cup {NextDay}]
  /\ plan' = [plan EXCEPT !.nextDayAvlExportNeeded = @ \ {NextDay},
                          !.nextDayAvlConversionNeeded = @ \cup {NextDay}]
  /\ UNCHANGED <<generation, backlog, tasks, summarised, pc, answers, running, current, observers>>

ConvertNextDay ==
  /\ pc = "loop" /\ CanStart
  /\ NextDay \notin plan.nextDayAvlExportNeeded
  /\ NextDay \in plan.nextDayAvlConversionNeeded
  /\ ConvertToParquet(NextDay)
  /\ plan' = [plan EXCEPT !.nextDayAvlConversionNeeded = @ \ {NextDay}]
  /\ UNCHANGED <<generation, backlog, tasks, summarised, pc, answers, running, current,
                 unstarted, missed, sessions>>

\* Mutant: the arn of the task before is kept.
StartTaskMisnumbered ==
  /\ pc = "loop" /\ CanStart
  /\ NextDay \notin plan.nextDayAvlExportNeeded \cup plan.nextDayAvlConversionNeeded
  /\ tasks' = Append(tasks, [date |-> First(plan.readyToRun), stage |-> "starting", read |-> Nothing])
  /\ running' = running \cup {Len(tasks)}
  /\ plan' = [plan EXCEPT !.readyToRun = @ \ {First(@)}]
  /\ pc' = IF plan'.readyToRun # {} THEN "loop" ELSE "check"
  /\ UNCHANGED <<files, generation, backlog, summarised, answers, current, observers>>

\* start_historic_matching: run_task may also answer without a task (no capacity).
StartTask ==
  /\ pc = "loop" /\ CanStart
  /\ NextDay \notin plan.nextDayAvlExportNeeded \cup plan.nextDayAvlConversionNeeded
  /\ LET d == First(plan.readyToRun) IN
       /\ plan' = [plan EXCEPT !.readyToRun = @ \ {d}]
       /\ \/ /\ tasks' = Append(tasks, [date |-> d, stage |-> "starting", read |-> Nothing])
             /\ running' = running \cup {Len(tasks')}
             /\ UNCHANGED <<unstarted, faults>>
          \/ /\ Fault
             /\ unstarted' = unstarted \cup {d}
             /\ UNCHANGED <<tasks, running>>
  /\ pc' = IF plan'.readyToRun # {} THEN "loop" ELSE "check"
  /\ UNCHANGED <<files, generation, backlog, summarised, answers, current, missed, sessions>>

Nonempty ==
  \/ running # {}
  \/ plan.readyToRun # {} \/ plan.summariesToRun # {}
  \/ plan.avlExportNeeded # {} \/ plan.timetableExportNeeded # {}

\* Mutant: the dates completed last replace those that wait.
CheckForgetsSummaries ==
  /\ pc = "check" \/ (pc = "loop" /\ Nonempty /\ ~CanStart)
  /\ LET completed == running \ Alive IN
       /\ running' = running \ completed
       /\ plan' = [plan EXCEPT !.summariesToRun = DatesOf(completed)]
       /\ pc' = IF completed # {} THEN "loop" ELSE "act"
  /\ UNCHANGED <<world, answers, current, observers>>

\* check_for_completed_tasks: a task that describe_tasks does not return is assumed to
\* have completed, whether ECS has forgotten it or has only just been given it.
CheckForCompletedTasks ==
  /\ pc = "check" \/ (pc = "loop" /\ Nonempty /\ ~CanStart)
  /\ \E overlooked \in {{}} \cup {{a} : a \in running \cap Alive} :
       LET completed == (running \ Alive) \cup overlooked IN
       /\ IF overlooked = {} THEN UNCHANGED faults ELSE Fault
       /\ missed' = missed \cup overlooked
       /\ running' = running \ completed
       /\ plan' = [plan EXCEPT !.summariesToRun = @ \cup DatesOf(completed)]
       /\ pc' = IF completed # {} THEN "loop" ELSE "act"
  /\ UNCHANGED <<world, answers, current, unstarted, sessions>>

-----------------------------------------------------------------------------
\* The rest of the loop.  Outside service hours a summary goes before everything
\* else; what time it is, is left open.

\* Two attempts: a failure of the first one only is no different.
GenerateSummary ==
  /\ pc = "act" /\ plan.summariesToRun # {}
  /\ LET d == First(plan.summariesToRun) IN
       \/ /\ summarised' = summarised \cup {d}
          /\ plan' = [plan EXCEPT !.summariesToRun = @ \ {d}]
          /\ UNCHANGED faults
       \/ /\ Fault
          /\ plan' = [plan EXCEPT !.summariesToRun = @ \ {d}, !.failedSummaries = @ \cup {d}]
          /\ UNCHANGED summarised
  /\ pc' = "loop"
  /\ UNCHANGED <<files, generation, backlog, tasks, answers, running, current,
                 unstarted, missed, sessions>>

\* Mutant: the date is not taken off the list.
ExportAvlKeepsDate ==
  /\ pc = "act" /\ plan.avlExportNeeded # {}
  /\ LET d == First(plan.avlExportNeeded) IN
       /\ files' = [files EXCEPT !.avlCsv = @ \cup {d}]
       /\ plan' = [plan EXCEPT !.timetableExportNeeded = @ \cup {d}]
  /\ pc' = "loop"
  /\ UNCHANGED <<generation, backlog, tasks, summarised, answers, running, current, observers>>

ExportAvl ==
  /\ pc = "act" /\ plan.avlExportNeeded # {}
  /\ LET d == First(plan.avlExportNeeded) IN
       /\ files' = [files EXCEPT !.avlCsv = @ \cup {d}]
       /\ plan' = [plan EXCEPT !.avlExportNeeded = @ \ {d},
                               !.timetableExportNeeded = @ \cup {d}]
  /\ pc' = "loop"
  /\ UNCHANGED <<generation, backlog, tasks, summarised, answers, running, current, observers>>

CanExportTimetable ==
  /\ pc = "act" /\ plan.avlExportNeeded = {}
  /\ plan.timetableExportNeeded # {} /\ plan.readyToRun = {}

TakeTimetable ==
  /\ CanExportTimetable
  /\ current' = First(plan.timetableExportNeeded)
  /\ plan' = [plan EXCEPT !.timetableExportNeeded = @ \ {current'}]
  /\ pc' = IF answers.regenerate THEN "generate" ELSE "export"
  /\ UNCHANGED <<world, answers, running, observers>>

\* generate_timetable replaces the rows of the date, its subset variant adds rows; both
\* hold up live matching.
GenerateTimetable ==
  /\ pc = "generate"
  /\ generation' = [generation EXCEPT ![current] = IF answers.subset THEN @ ELSE @ + 1]
  /\ summarised' = summarised \ {current}
  /\ backlog' = Shards
  /\ pc' = "wait"
  /\ UNCHANGED <<files, tasks, answers, plan, running, current, observers>>

\* wait_for_queues asks for the queue of shard 7 at every turn of its loop.
WaitForQueues ==
  /\ pc = "wait" /\ 7 \notin backlog
  /\ pc' = "export"
  /\ UNCHANGED <<world, answers, plan, running, current, observers>>

ExportTimetable ==
  /\ pc = "export"
  /\ files' = [files EXCEPT !.timetableCsv =
                 [@ EXCEPT ![current] =
                    [generation |-> generation[current], whole |-> ~answers.subset]]]
  /\ pc' = "convert"
  /\ UNCHANGED <<generation, backlog, tasks, summarised, answers, plan, running, current, observers>>

ConvertTimetable ==
  /\ pc = "convert"
  /\ ConvertToParquet(current)
  /\ plan' = [plan EXCEPT !.readyToRun = @ \cup {current}]
  /\ current' = 0
  /\ pc' = "loop"
  /\ UNCHANGED <<generation, backlog, tasks, summarised, answers, running,
                 unstarted, missed, sessions>>

Sleep ==
  /\ pc = "act" /\ plan.avlExportNeeded = {} /\ ~CanExportTimetable
  /\ pc' = "loop"
  /\ UNCHANGED <<world, answers, plan, running, current, observers>>

Finish ==
  /\ pc = "loop" /\ ~Nonempty
  /\ pc' = "done"
  /\ UNCHANGED <<world, answers, plan, running, current, observers>>

\* A psql or AWS call that raises ends the script, as does the loss of the instance.
Die ==
  /\ pc \notin {"down", "done"} /\ Fault
  /\ pc' = "down" /\ plan' = Idle /\ running' = {} /\ current' = 0
  /\ answers' = NoAnswers /\ unstarted' = {}
  /\ UNCHANGED <<world, missed, sessions>>

-----------------------------------------------------------------------------
\* The world around the script.

\* The task downloads its three files first, and exits when one is missing.
TaskReads(a) ==
  /\ tasks[a].stage = "starting"
  /\ LET d == tasks[a].date
         found == {d, d + 1} \subseteq files.avlParquet /\ files.timetableParquet[d] # Nothing
     IN tasks' = [tasks EXCEPT ![a] =
                    [@ EXCEPT !.stage = IF found THEN "matching" ELSE "stopped",
                              !.read = IF found THEN files.timetableParquet[d] ELSE Nothing]]
  /\ UNCHANGED <<files, generation, backlog, summarised, script, observers>>

\* It ends, having written departures of the date.
TaskEnds(a) ==
  /\ tasks[a].stage = "matching"
  /\ tasks' = [tasks EXCEPT ![a] = [@ EXCEPT !.stage = "stopped", !.read = Nothing]]
  /\ summarised' = summarised \ {tasks[a].date}
  /\ UNCHANGED <<files, generation, backlog, script, observers>>

\* External: live matching catches up with its queue.
Drain(s) ==
  /\ s \in backlog
  /\ backlog' = backlog \ {s}
  /\ UNCHANGED <<files, generation, tasks, summarised, script, observers>>

\* scripts/historic-matching-data-conversion.sh, run by hand: both files, none overwritten.
ConvertByHand(d) ==
  /\ pc \in {"down", "done"} /\ sessions \in 1 .. MaxSessions - 1
  /\ files' = Converted(files, d, FALSE, FALSE)
  /\ UNCHANGED <<generation, backlog, tasks, summarised, script, observers>>

ScriptStep ==
  \/ ExportNextDayAvl \/ ConvertNextDay \/ StartTask \/ CheckForCompletedTasks
  \/ GenerateSummary \/ ExportAvl \/ TakeTimetable \/ GenerateTimetable
  \/ WaitForQueues \/ ExportTimetable \/ ConvertTimetable \/ Sleep \/ Finish

Next ==
  \/ Begin \/ ScriptStep \/ Die
  \/ \E a \in DOMAIN tasks : TaskReads(a) \/ TaskEnds(a)
  \/ \E s \in Shards : Drain(s)
  \/ \E d \in Day : ConvertByHand(d)

Spec == Init /\ [][Next]_vars

\* The script runs, tasks end, shard 7 catches up; every day has hours outside service,
\* and the script polls every minute, so that it looks at its summaries in some of them.
FairSpec ==
  /\ Spec
  /\ WF_vars(ScriptStep)
  /\ SF_vars(GenerateSummary)
  /\ \A a \in 1 .. MaxSessions * LastDay : WF_vars(a \in DOMAIN tasks /\ (TaskReads(a) \/ TaskEnds(a)))
  /\ WF_vars(Drain(7))

-----------------------------------------------------------------------------
OrchestratorTypeOK ==
  /\ pc \in {"down", "loop", "check", "act", "generate", "wait", "export", "convert", "done"}
  /\ files \in [avlCsv : SUBSET Day, avlParquet : SUBSET Day,
                timetableCsv : [Day -> Timetables], timetableParquet : [Day -> Timetables]]
  /\ generation \in [Day -> Nat \ {0}]
  /\ backlog \in SUBSET Shards /\ summarised \in SUBSET Day
  /\ tasks \in Seq([date : Day, stage : {"starting", "matching", "stopped"}, read : Timetables])
  /\ answers \in [subset : BOOLEAN, regenerate : BOOLEAN, dates : SUBSET Day]
  /\ plan \in [readyToRun : SUBSET Day, avlExportNeeded : SUBSET Day,
               timetableExportNeeded : SUBSET Day, nextDayAvlExportNeeded : SUBSET Day,
               nextDayAvlConversionNeeded : SUBSET Day, summariesToRun : SUBSET Day,
               failedSummaries : SUBSET Day]
  /\ running \in SUBSET DOMAIN tasks /\ missed \in SUBSET DOMAIN tasks
  /\ current \in Day \cup {0} /\ unstarted \in SUBSET Day
  /\ faults \in 0 .. MaxFaults /\ sessions \in 0 .. MaxSessions

\* No two tasks match a date at the same time, however often the script dies and is
\* started again with dates it has started before (look_for_existing_tasks).
OneTaskPerDate ==
  \A a, b \in Alive : tasks[a].date = tasks[b].date => a = b

\* A task matches the rows there are.  Not kept by the code when a conversion fails, or
\* when the script dies between the generation and the conversion: the next session
\* finds the parquet file of the old rows and takes the date for ready (see the README,
\* disagreements).
MatchedIsCurrent ==
  \A a \in Alive :
    tasks[a].stage = "matching" => tasks[a].read.generation = generation[tasks[a].date]

\* When the script says "All processing complete", each date it was given, and each it
\* found being matched, has summaries of its final rows or is listed as failed; but for
\* dates of a task that was not started, or that was taken for completed while it ran.
CompleteMeansSummarised ==
  pc = "done" =>
    answers.dates \subseteq summarised \cup plan.failedSummaries \cup unstarted \cup DatesOf(missed)

\* The timetable a task has to read, and the rows it writes to, are not replaced under it
\* by the export of another date, by a later session or by hand, even when the script has
\* taken the task for completed.  (A file that was missing may appear under it.)
NotReplacedUnderTask ==
  [][\A d \in Day :
       \/ generation'[d] # generation[d]
       \/ files.timetableParquet[d] \notin {Nothing, files'.timetableParquet[d]}
       => d \notin DatesOf(Alive)]_vars

\* The script comes to its end: the lists do not wait for each other.
ScriptEnds == pc = "loop" ~> pc \in {"done", "down"}

\* It does what DateLifecycle promises of the tasks it attends to.
Lifecycle == INSTANCE DateLifecycle WITH matching <- DatesOf(Alive \ missed)
DatesLiveTheirLives == Lifecycle!Spec

\* "Ensure that we have the avl data for the next day available before we kick off
\* matching" (the comment in the loop): whenever a task is started, the AVLs of the next
\* day are there for it to read.
NextDayReady ==
  [][\A a \in DOMAIN tasks' \ DOMAIN tasks : tasks'[a].date + 1 \in files.avlParquet]_vars

\* "Will process whole timetable" (what main prints): a task started for the whole
\* timetable reads all of it.
WholeTimetable ==
  \A a \in Alive : tasks[a].stage = "matching" /\ ~answers.subset => tasks[a].read.whole

\* "All queues have ... messages or less" (what wait_for_queues prints).
QueuesShort == [][pc = "wait" /\ pc' = "export" => backlog = {}]_vars

=============================================================================
