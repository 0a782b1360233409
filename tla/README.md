# ABODS: models of ingestion and on-time-performance matching

This directory holds TLA+ models of the part of ABODS that turns vehicle positions
(SIRI-VM files) into actual departure times of timetabled stops, the TLC configurations
that check them, and TLAPS proofs about them. Paths below are relative to `src/`;
`pipelines/` stands for `src/ingestion_pipelines/`.

## The system

```
 IAVL --SNS--> sirivm-ingestion-queue.fifo --> S3 ingestion --> S3 object avl_<second>.gz
                                                   |   |
                              sirivm-process-queue |   | sirivm-otp-queue1..7.fifo
                                                   v   v
                                    DB ingestion       OTP matching, one Lambda per shard
                                    |                  |        ^            ^
                         SiriVMPositions     timetable rows   stop history   timetable.json
                                                              (S3, by shard)  ^
                                                  cron --> timetable extract -+
 next days:  orchestrator script --> exports --> parquet --> historic matching task
```

| Part | State it keeps | Operations | What is hard | Correct when |
|---|---|---|---|---|
| Matcher, `matcher/matching.py` | history of a journey: at most two matched stops, potential matches, last AVL | `match_avl` | a loop in which each stop may drop, evict or withdraw others; late AVLs, two vehicles, a timetable that changes under it, so that stops of the history are no longer in it | a departure is written for a stop the vehicle left, with the time it was last seen there; what is withdrawn is wiped; no list operation fails, and it raises only when a newer extract has taken a stop away |
| OTP Lambda, `app.py`, `client_db.py`, `client_s3.py` | rows, batch status, stop history in S3, cached timetable | one message at a time per shard | every statement commits by itself; history saved last; errors swallowed; redelivery | rows tell what the history tells, also after redelivery |
| S3 ingestion, `pipelines/sirivm_s3_ingestion_function` | batch row, object, messages | one file per invocation | dies or fails between any two of six effects; objects named by the second | every message names the object of its own batch; shards see files in order |
| DB ingestion, `pipelines/sirivm_db_ingestion_function`, `load_avl_tables.sql` | staging table, positions, batch status | clear, import, load, mark | concurrent workers in one staging table, at-least-once delivery, midnight, a connection that is not replaced | what is marked Success is loaded; every message is ingested in the end |
| Timetable extract and `matcher/timetable_store.py` | `timetable.json`, the shards' caches, keys of histories | cron run, notification, lookup by date and direction | windows, midnight, directions that appear and vanish, a failed notification | an AVL is matched with the stops of its own journey |
| Historic matching task, `historic_matching.py` | a queue, eight processes, rows | match the operators of a day | sentinel, exceptions, lost connections, killed processes | no operator twice; losses stay local; the task ends |
| Shards of live matching, `app.py`, `shards.py`, `client_s3.py` | per shard a FIFO queue, a cached timetable, a connection, a history | one message at a time | extracts and batches in one queue; extracts that cannot be read; one status for all; environments that are replaced | no batch is matched with an outdated extract; each operator has one history, in order; nothing is let go of unmarked; queues are worked off |
| Orchestrator, `scripts/historic_matching.py` | lists of dates to export, convert, match, summarise, in memory only | a polling loop over AWS and PostgreSQL | deaths and restarts beside running tasks; files of an earlier session; tasks overlooked | a date is matched once at a time, on its latest timetable, and summarised; the loop ends |
| SIRI-SX import, `pipelines/sirisx_situations_import_function`, and `flag_cancelled_expected_journeys.sql` | one connection; `siri_sx_situations`; `is_cancelled` | retrieve all situations, insert page by page, flag | overlapping invocations, elements that cannot be read, a connection that is not replaced | what was imported stays; the flags are those of the feed |
| Others | - | SNS subscription, Traveline import, reporting SQL, provisioning | see "Not modelled" | |

Interactions: S3 ingestion calls DB ingestion and the shards through queues (standard,
hence at-least-once and unordered, for DB ingestion; FIFO with one message group for each
shard). The timetable extract reaches a shard through that same FIFO queue. The shards, DB
ingestion and the historic task share only database tables, and a shard shares its stop
history with its own next invocation. The orchestrator starts historic tasks and reads what
ECS says of them; what it hands over are files in S3. The SIRI-SX import and the flagging of
cancelled journeys share one table.

## Modules

| Module | What it models |
|---|---|
| `Matching` | `match_avl` for one journey whose route is in the timetable: one action per AVL received (`ReceiveAvl`: withdrawal of the first stop, potential matches, estimates), one per iteration of the loop over potential matches (`StopNotInRoute`, `StillInZone`, `FinalStopReached`, `NotYetLeft`, `StopLeft`, and `StopMissing`, which raises), one for the end of the call (`FinishAvl`), one for a new timetable |
| `Geometry` | distances on a straight road, and where a segment leaves the circle around a stop (`matcher/utils.py`) |
| `MatchingEvidence` | observers beside `Matching`: what the AVLs really showed, independently of what the history says |
| `SelectionLoop` | the loop of `select_potential_match_with_same_recordedattime`, iteration by iteration, over a dictionary built insertion by insertion: the reference for the formula `Selected`/`Dropped` of `Matching` |
| `LiveMatching` | extends `Matching` by the Lambda around it: `Deliver`, `LoadHistory`, `StartAvl`, `CollectAvl`, `WipeRows`, `SetRows`, `MarkSuccess`, `SaveHistory`, `Acknowledge`, `MatcherRaised`, and `Raise` and `Crash` at every stage |
| `DbIngestion` | DB ingestion: the handler (`Receive` to `Delete`, `Raise`, and `NotConnected` when its connection is lost), lost connections, deaths and replaced environments (`LoseConnection`, `Die`, `Recycle`); the feed that fills bucket and queue is its environment (`Upload`, `Send`, `Midnight`) |
| `S3Ingestion` | S3 ingestion, composed with `DbIngestion`: it takes the place of that environment and is checked to implement `DbIngestion!Spec` |
| `TimetableExtract` | extract, notification, cache, lookup, and the key a history is kept under |
| `HistoricWorkers` | `main` and `operator_worker_task` of the historic task |
| `OtpShards` | the shards around the matcher: the sending of batches and extracts (`SendBatch`, `NotifyOfExtract`), the handler of each (`UpdateTimetable`, `Deliver`, `Match`, `UpdateRows`, `SaveHistory`, `Acknowledge`, `FailBatch`), lost connections, deaths and replaced environments |
| `DateLifecycle` | abstract: a date is matched, summarised, reopened |
| `Orchestrator` | `main` of `scripts/historic_matching.py`: `Begin` for its questions, one action for each branch of the loop, `Die`, and the world around it: the tasks, the conversion Lambda, the queues |
| `SituationsImport` | `lambda_handler` of the SIRI-SX import step by step in every environment, and `FlagCancelled` |
| `MCLostConnections` | one behaviour of `HistoricWorkers` or of `SituationsImport` |
| `MatchingProofs`, `LiveMatchingProofs`, `IngestionProofs`, `TimetableExtractProofs`, `HistoricWorkersProofs`, `OrchestratorProofs`, `OtpShardsProofs`, `SituationsImportProofs` | theorems |
| `MC*` | values of the constants for TLC |

How state corresponds to code. `matched`, `potential` and `lastAvl` are the entry of
`stop_history`; `toDelete`, `newMatches`, `badMatches` are the lists `match_avl` passes
around, and `todo` the rest of the sorted loop; `pc` is "raised" after a KeyError, and what becomes of the history
is then up to the caller. In `SelectionLoop`, `loop` holds the locals of one call
and the keys it has gone through. In `LiveMatching`, `stored` is that entry in
S3, `rows` the departure columns of the timetable partition, `toSet`/`toRemove` the result of
`match_avl_batch`, and `stage` the line the handler has reached; of the observers, `written` remembers
what earlier attempts at the batch may have written. In `DbIngestion` each
statement of `process_batch` is a step of a worker, since the connection autocommits, and `connected[w]`
tells whether `conn`, opened when the environment of worker w starts, is alive;
`positions` is a set because of `ON CONFLICT DO NOTHING`. In `S3Ingestion`, `step` is how far
`lambda_handler` has come, and `source` remembers which file a batch was made of. In
`TimetableExtract` an extract is the set of journeys that the query returns, `cache[s]` what
shard s has loaded, `pending` the shards whose notification is queued. In `HistoricWorkers`,
`queue` is `operator_queue`, `connected` tells which workers still have the connection that
they open once, and `jammed` that a worker was killed inside the queue's reader lock.

In `OtpShards` a message is a batch, or 0 and the extract there was; `cache[s]`, `connected[s]` are
`_cache` and the connection of `db_client`, which live as long as the environment; `working[s]` is
the history the handler goes on with and `history[k]` the object in S3; a history is, for each
operator, the batches whose AVLs were added to it. What happens to one journey inside `Match` is
`LiveMatching` and `Matching`. In `Orchestrator`, `plan` holds the script's lists, `running` is
`running_tasks`, `files` the export bucket, `generation` how often a date's timetable rows were
replaced, and `pc` the part of the loop it is in; a polling interval is no time at all. In
`SituationsImport`, `response[e]` is what `parse_xml` returned in environment `e`, `pending[e]` the
rows still to insert; `clock` is the publisher's `ResponseTimestamp`, which becomes
`event_timestamp`; `stored` is the table, whose unique key lets a null version in twice
(`Unversioned`). Variables called observers record what has happened for the properties to speak
of, and no action reads them.

Operators whose comment begins with `Mutant:` are plausible mistakes in the definition they
precede. No specification uses them; a property is shown to notice one when the definition is
replaced by it.

## Runs

| Run | Properties | What it shows |
|---|---|---|
| `matching` | `TypeOK`, `SavedMatchesBounded`, `DroppedArePotential`, `WipedThenSetIsSaved`, `EvidenceNotDowngraded`, `TwoPingsOutside`, `EstimateConfirmedLater`, `DepartureIsLastSighting`, `FinalStopKept` | whatever a vehicle does on the route, also with late AVLs or a shorter timetable at first: every match is backed by what the AVLs showed, no list operation fails, the history stays within its limit |
| `selection` | `SelectionIsTheLoop` | the formula selects and drops what the loop does, for all dictionaries of five stops |
| `closest` (violated) | `SelectionClosest` | see disagreements |
| `live_faults` | `SuccessIsSaved`, `RowsFollowHistory`, `WithdrawnRowsWiped`, `OutcomeAgrees`, `BatchDealtWith` | a call may raise at every stage, the matcher raises on a route that has lost stops, an invocation may die anywhere and is redelivered: Success means saved, a message matched again writes what was written before, rows and history agree unless an attempt left rows behind (`leftover`: its error was swallowed, or its message is matched again on another route), and every batch is dealt with |
| `shards` | `ShardsTypeOK`, `ExtractNotOlder`, `EachOperatorOnce`, `AcknowledgedIsMarked`, `ShardsCatchUp` | several shards with batches and extracts in their queues, with failed calls, lost connections and deaths |
| `db_duplicates` (violated) | `CleanReprocessing` | see disagreements |
| `s3_faults` | `DbTypeOK`, `LoadedWhenSuccess`, `NothingLeftStaged`, `ObjectIsOwn`, `ShardsSeeFilesInOrder`, `SentIsIngested`, `Spec` | the composition of the two ingestions, two workers, midnight and a fault in each, which may be a lost connection to the database; `Spec` is the refinement: S3 ingestion is a feed that `DbIngestion` allows |
| `extract_night` | `OwnRoute` | journeys around midnight, an extract missed by one shard |
| `extract_histories_apart` (violated) | `HistoriesApart` | see disagreements |
| `lost_connections` | `OneWorkerPerOperator`, `LossIsLocal`, `TaskEndsAnyway`; `StoredWhenDone`, `FlagsFollowFeed`, `ImportedAnyway` | the historic pool with exceptions, lost connections and killed workers; the import of situations in two overlapping environments with a lost connection, a failed call or a death |
| `restarts` | `OrchestratorTypeOK`, `OneTaskPerDate`, `CompleteMeansSummarised`, `NotReplacedUnderTask`, `DatesLiveTheirLives`, `ScriptEnds` | the orchestrator, started twice, beside tasks that go on without it; `DatesLiveTheirLives` is the refinement of `DateLifecycle` |
| `next_day` (violated) | `NextDayReady` | see disagreements |

The two programs of `lost_connections` share nothing, not even a table. They are checked in one run
because the question is the same, what becomes of a program that opens one connection and keeps it (DB ingestion and
the shards do so as well, and have their own runs);
`program` is chosen once and the other program does not move, so no state of the one is multiplied
by those of the other, and fairness is stated for the program chosen.

### Bounds, and why they are enough

* Matcher: four stops, because the history saves two matches and eviction needs a stop below,
  between and above them; five or six places, so that one place is in two zones, one stop is
  only crossed (estimated), and the vehicle can drive back; times with gaps shorter and longer
  than the five minutes of the first stop and the three of an estimate; `MaxTicks` AVL minutes
  give every stop time to be seen, left and passed again. `Timetabled` puts one stop two hours
  ahead, so that a match may be too early to write.
  Late AVLs and changes of the timetable are confined to the first `MaxDisorderTicks` AVLs: what
  they leave behind is then driven on in order, which is where it would show.
* Live matching: four stops and eight AVL minutes. One place is in the zones of stops 1 and 2 and one
  in that of the last stop, and the route may lose all stops but the first: leaving both zones at once
  then selects a stop that is gone (`StopMissing`). Stop 3 is never driven to, and
  this run makes no estimates, which `matching` does. Calls raise in the first
  `MaxFaultTicks` minutes, and one invocation dies at any time; a gap of more than three minutes
  separates late positions from those of the first stop, and an AVL two hours later makes
  `clean_stop_history` drop the journey. Batches have one AVL of the journey (disagreement 6).
* Shards: two shards, an operator listed for each and one that only the hash places; two batches,
  since order needs two; an extract beside the first one; two faults, so that the retry of a fault
  may fail as well.
* Ingestion: two batches and two workers are what it takes to interfere; a file list with an AVL in
  common exercises the primary key, and an AVL of the next day exercises midnight. One fault in each
  function in the composition (of DB ingestion: an error, a lost connection or a death); `db_duplicates` has one batch and one second delivery,
  which must delete the staged rows before the first one loads them.
* Extract: quarters of an hour, a window of two hours, both directions of a group across
  midnight, its repetition the next day, and a journey of another shard.
* Historic task: three workers, three operators (one of two journeys), two faults.
* Orchestrator: two dates, since a date depends on the one after it, and the day after both; two
  sessions, one task at a time, one fault (a death, a failed call, a task not returned, `run_task`
  without a task). `MAX_CONCURRENT_MATCHING_TASKS` is 5 in the code: with two dates any limit above
  1 is none, and 1 lets dates wait for a task. Every combination of files that exist, answers of
  the operator and dates asked for is an initial choice.
* Situations: two situations of two versions each, one that is cancelled and reinstated, one that
  cannot be read at first and has no version element; two environments, as nothing keeps two
  invocations apart; pages of one row, so that every prefix may be all that was inserted; one
  mishap (`MaxMishaps`).

`CHECK_DEADLOCK FALSE` is used where the models stop because a bound is reached or, for the
historic task and the orchestrator, because it is finished. That the loop of the matcher is never stuck
on a selection is a theorem, `OneIsSelected`.

### Fairness

Only where a liveness property is checked. `LiveFairSpec`: an invocation that is running takes
its next step, or dies and is delivered again (Lambda and SQS). `S3FairSpec`: S3 ingestion runs,
each DB worker runs and polls (weak fairness of `Serve`), and Lambda replaces an environment now and
then (strong fairness of `Recycle`, for the reason given for the shards below): without the latter TLC
finds `SentIsIngested` violated, by a worker without connection that takes the message again and
again. `WorkersFairness`: main and each worker are scheduled;
`get(timeout=10)` always returns. `ShardsFairSpec`: Lambda polls each queue and runs the handler,
and replaces an environment now and then; strong fairness of `Recycle`, because an environment is
never idle for ever while messages come again, only again and again. Without it `ShardsCatchUp`
fails: nothing in the code opens a lost connection again. `SxFairness` is the same for the
situations: EventBridge invokes every five minutes, environments are replaced. `FairSpec` of the
orchestrator: the script and its tasks run, shard 7 catches up, and the script finds the night
often enough to summarise (strong fairness of `GenerateSummary`, which the day disables).
No fairness is assumed of a fault; they are bounded instead: with faults for ever, nothing would
end.

## Proofs

All for arbitrary values of the constants that satisfy the named assumptions.

`MatchingProofs` (assumptions: `TimesAssumption`, `GeometryAssumption` and the limits of
`Matching`; distances and crossings are any tables, not only those of a straight road)

* `TypeCorrect`: `TypeOK` is inductive. The lemmas follow the code: what
  `find_potential_matches` opens, what a move of a potential match leaves, one iteration.
* `MatchesStayBounded`: at most `SavedMatchesLimit` matches are saved. A step adds one match,
  so the argument is that a full history evicts one (`FullHistoryEvicts`) or rejects the new
  one; this needs that a finite set of stops has a lowest and a highest element.
* `DecidedArePotential`: what `remove_matched_stops` deletes is there, so that its `del` never
  raises. Inductive because the loop only takes potential matches away in `FinishAvl`.
* `OrderlyNeverRaises`: nor does the lookup of the stop selected, `route[stop_index]`, as long as no newer
  extract changed the length of the route and no AVL was late. What is selected is a potential match, and those
  are stops of the route (`StopsOfRoute`, part of the invariant of the next theorem). Without the
  condition on the route it is false (disagreement 24); late AVLs are excluded only because that invariant
  excludes them.
* `EvidenceStays`: a potential match made from a sighting is never replaced by an estimate.
* `FinalStopStays`: `FinalStopKept`, for any route, geometry and limit. Two rules could take a saved
  final stop away without its row: the withdrawal of the first stop and the eviction of the lowest
  match. `FinalHasBefore` excludes both, as a match between the first and the final stop is saved
  beside it. It is inductive only with `FinalIsVisited`: the final stop of a long route is considered
  only next to two matches (`TwoMatched`), only inside its zone, and is decided by the same AVL, so
  that it is not left over for a later one that finds fewer matches. `EvictionRules` states the rules
  of `move_potential_match_to_match` next to two matches, and the three lemmas after it what they keep.
* `TwoPingsConfirm`, `DepartureWasSeen`, `EstimatesAreConfirmed`: `TwoPingsOutside`,
  `DepartureIsLastSighting` and `EstimateConfirmedLater`, as long as the vehicle is not in the zone of a
  stop that is matched in place of the one it left (`SelectedOutside`). One invariant, `BackedInv`, says of
  each potential match what the AVLs showed: its time is that of the last AVL in its zone, or an
  estimate (`TimeBacked`); its distance is above the radius only after an AVL outside
  (`DistanceBacked`), which is what the second position means in the code; estimates of the AVL at hand are
  later than what earlier ones left behind (`EstimatedBefore`); and the final stop is matched with
  the time of the AVL that reached it (`FinalBacked`). The hard case is a stop matched because it has
  the same time as the one left: `Observed` says that stops with the same last sighting were outside
  for the same number of AVLs.
  The condition cannot be dropped (disagreement 23). It holds in all states of the run `matching`,
  and `ClosestIsOutside` proves that it follows from `SelectionClosest`, which is what the comment of
  step 32 says and the code does not keep (then no stop above the one left is taken, and a stop
  visited in its zone has another time). `ExitsAtBoundary` is what distances and crossings have in
  common on any road; `MCMatching` evaluates it for its own.
* `FormulaIsTheLoop`: `SelectionIsTheLoop`, for any number of stops and any dictionary. What the loop
  has gone through is an initial part of the order of insertion (`GoneIsEarlier`); what it compares
  the next candidate with are the members after the last reset (`Compared`), of which it holds the
  lowest one. A difference of 0 starts the comparison afresh (`ComparedAfterReset`), any other
  candidate extends it (`ComparedOtherwise`).
* `OneIsSelected`: the formula selects exactly one stop whenever a stop was left, so that `StopLeft` is
  neither stuck nor a choice. The first candidate of the dictionary is always taken (`FirstInserted`) and
  among those taken one is the last (`LastInserted`); the latter needs that `since` is never ahead of
  `tick` (`SinceInv`).

`LiveMatchingProofs` (assumptions of `Matching`, and `LiveAssumption`)

* `HistoryStaysSound`: the matcher's invariants hold of the histories that a Lambda loads, evicts
  and saves. The lemmas of `MatchingProofs` are about a `MatcherStep`, whatever the feed, so that they
  serve both; `IsHistory` says of the object in S3 what they say of the variables.
* `SuccessMeansSaved`: `SuccessIsSaved`, for batches of any size. The status is written a stage before
  the history, so `LambdaInv` follows the batch: what is unread is an end of it (`UnreadEndsBatch`),
  from the first write on the AVL at hand has the time of its last one (`WritesAfterBatch`), and so has
  the saved history once the message goes (`SuccessIsNext`). An AVL that is skipped has the time of
  the one before.
* `RowsAreOfTheHistory`, `WithdrawnRowsAreWiped`: `RowsFollowHistory` and `WithdrawnRowsWiped`, for batches
  of any size, from `OutcomeAgrees`. The division of labour is that of the code: the matcher answers
  for one departure for each stop, none for a stop withdrawn for good, and the same answer when
  it is asked again with the same history; the Lambda for the rest. `MatchesAreTold` follows the lists
  through the loop and the batch: a saved match is in the list to set, or is as the history had it
  and neither list names it (`MoveTells`). `StoredInRows` says that until the history is saved only rows that
  some attempt wrote may differ from it (`Touched`), so that an attempt that agrees with the
  earlier ones makes all of them right (`SetRowsTells`), and an invocation that dies leaves nothing
  that the next one does not write again.

`IngestionProofs`, first part (assumption `DbAssumption`)

* `DbTypeCorrect`: types, and every message names the object of its own batch.
* `LoadedAlways`: if no message is received while in flight, a batch marked Success has all its
  AVLs of the day in `SiriVMPositions`. `LoadedWhenSuccess` is not inductive: Success is written
  two steps after the load. `LoadedInv` adds what each stage has achieved (`AllStaged` after the
  import, `AllLoaded` after `load_avl_tables`), that a worker clears only its own batch
  (`OneObjectEach`, `OneWorkerEach`: no two workers hold the same message, which is where the
  hypothesis is used) and that midnight only moves forward (`NotOfTheFuture`).
  Run `db_duplicates` shows that the hypothesis is needed.
* `StagingIsCleared`: `NothingLeftStaged`, with the same hypothesis. `StagedInv` adds that a row is
  only staged for a batch whose message is still in the queue (`StagedIsQueued`) and that a worker past
  the load has cleared its batch (`LoadedIsCleared`); that another worker cannot stage the
  batch anew meanwhile is `OneBatchEach`.

`IngestionProofs`, second part (assumption `S3Assumption`: any files, shards and number of failures)

* `FilesInOrder`: `ShardsSeeFilesInOrder`. `QueueInv` ties batches to files: the queue is the end of
  the feed and the invocation has its first file (`QueueFollowsFeed`), no batch is of a later file, and
  there are no more batches than files and failures account for (`BatchesFollowQueue`).
* `S3ImplementsDb`: the refinement, `ClockAdvances => (S3Spec => Spec)`. A step of S3 ingestion is one
  of `DbIngestion` or leaves its variables alone, if the object it puts is a new one: `ClockIsAhead`
  and `ObjectsAreOfFiles`. The hypothesis says that two invocations do not start in the same
  second (disagreement 10 is what happens otherwise). Batch numbers name objects, so
  `S3Assumption` has room for a name per batch.
* `ObjectsAreOwn`: `ObjectIsOwn`, from the same invariant and hypothesis.
* `IngestedIsLoaded`: both together. The refinement carries `LoadedAlways` and `StagingIsCleared` over
  to S3 ingestion; nothing of them is proved again.

`TimetableExtractProofs` (assumption `ExtractAssumption`: any timetable, settings, shards and number of
failed extractions and notifications)

* `CachesStayFresh`: `NotTooOld`, no shard looks up AVLs in an extract older than `MaxAge`, a period for
  each failure and one more. The invariant `AgeInv` counts in both directions: `OnSchedule` says that
  the extraction ran when it was last due, `Behind` that a shard that missed `n` extracts without a
  later one on its way has had `n` failures spent on it.
* `BusesFindOwnRoute`: `OwnRoute`. In an extract at most `MaxAge` old, `UnderWayIsIn` finds the journey
  of a bus that is under way: if no departure is in the window the bus is in a pause, and a pause that
  long is excluded. `LookupFindsOwn` then goes through the four indexes that the lookup tries: the
  first that fits is the bus's own.
  The theorem has conditions, which `MCTimetableExtract` checks of its journeys, and each is needed; TLC
  shows a bus that is matched to no stops, or to those of another journey, without it.
  `SettingsAgree`: the window is longer than the age of an extract and an early bus together (violated
  with `MaxFaults = 3`, `Window = 8`, `Period = 2`, `Early = 2`). `WithinItsDay`: no AVL is recorded before
  the midnight that begins the service day (disagreement 22). `ApartFromNextDay`: the group has no
  journey of the next service day close by, since after midnight the lookup tries that day first.
  `InOrder` and `NoLongPause`: departures increase, with no gap in them of two windows.

`HistoricWorkersProofs` (assumption `WorkersAssumption`; any workers, journeys and faults)

* `PoolAlwaysTyped`, `PoolOwnsOperators`: types, and `OneWorkerPerOperator`. The queue alone does not say it: the
  invariant `HandsInv` adds that an operator is queued once and not while a worker has it, that
  the sentinel is the last item, and that it is in one worker's hands only when the queue is
  empty. Lemmas `Put` and `Take` say what a step does to the queue, once for all actions.
* `PoolLosesLocally`: `LossIsLocal`. The invariant `Accounted` is a ledger: each journey not yet
  written is queued, fetched or on a worker's list, or its operator belongs to a set with no more
  members than there were faults (`NothingLost`, `OneLost`). At the end nothing is pending,
  because a worker that exits by itself has seen the queue without operators (`ExitedLate`).

`OrchestratorProofs` (the assumptions of `Orchestrator`; any dates, requests, shards, tasks, faults)

* `OrchestratorAlwaysTyped`, `DatesMatchedOnce`, `CompleteIsComplete`, `NothingReplacedUnderTask`: one
  invariant, `ScriptInv`. `OneTaskPerDate` says nothing of the lists from which tasks are started.
  `PendingNotStarted` says that a date in one of them, or the one being exported, has no task and no
  summary due, and `AllAttended` that the script knows of all tasks that run but those it has missed,
  which `Begin` makes true again after a death. `ListsFollowPc` says which lists are empty where,
  `NextDaysLater` that a next day all of whose files are converted before a date is started has no
  task of its own yet, and `Accounted` is a ledger of the dates of the session, from which `CompleteMeansSummarised`
  follows once the lists are empty.
* `ScriptImplementsLifecycle`: the refinement of `DateLifecycle`, under `matching <- DatesOf(Alive \ missed)`.
  Each action maps to a step or a stutter; the limit on the dates is that on the tasks because the
  tasks attended to have different dates (`OneTaskAttended`), so that the dates have as many members.

The proof changed one property. `NotReplacedUnderTask` used to say that the file of a date is not
changed under its task. The step for the conversion by hand could not be proved, and TLC with
`MaxFaults = 2` showed why: when the conversion failed before the task was started, the missing file may
appear under the task. It now says that a file that is there is not replaced.

`OtpShardsProofs` (assumption `OtpShardsAssumption`: any number of shards, any table, any hash, any
bounds)

* `ShardsTyped`, `ExtractsAreCurrent`, `NoneLetGoUnmarked`: one invariant, `LambdaInv`. That a cache
  is not older than what was announced needs that no announcement in a queue is of an extract still
  to be written; that a batch let go of has a status needs that `live_update_success` has run once
  the history is being saved. `GoingOnKeeps` and `ReturningKeeps` say once what a step of one
  handler leaves to prove, whether it goes on with its message or returns.
* `OperatorsHistories`: `EachOperatorOnce`. Of the history alone it is not inductive: it may only be
  appended to because every batch in it is behind the queue and behind the feed. `FilesInv` says so
  of the saved history and of the one the handler works on (`OwnInOrder`), says that the queue
  is in the order of the feed (`InOrder`, `ToCome`), and keeps account of the batches a shard has
  dealt with (`Complete`). That a batch delivered again adds nothing follows from it: the
  batch is the last entry then, which is what the code compares (`Appended`).

`SituationsImportProofs` (assumption `SituationsAssumption`; any situations, environments and page
size)

* `SituationsTyped`, `ImportedStays`: every row of a response is stored or pending.
* `FlagsAreOfTheFeed`: `FlagsFollowFeed`. `ON CONFLICT DO NOTHING` keeps the time of whichever
  invocation came first, so that the order of times must agree with that of versions among all rows
  that are known, stored or still under way (`Ordered`), and a version that is not the last one must
  have an earlier time than now (`Proper`).

Only model-checked, and why:

* Liveness and fairness, out of the prover's reach: `BatchDealtWith`, `SentIsIngested`,
  `TaskEndsAnyway`, `ShardsCatchUp`, `ScriptEnds`, `ImportedAnyway`.
* `OutcomeAgrees`, the condition of the theorems about the rows: that a message matched again gives the
  same outcome compares two executions of the loop. The rest of it is false in general: with two
  AVLs of the journey in a batch a withdrawn stop may be set (disagreement 6), and two AVLs of a batch
  may match a stop twice.
* `WipedThenSetIsSaved`: false on some roads (disagreement 21), so that there is no theorem for all tables
  of distances.

## Disagreements between code and documentation

Shown by a run:

1. `closest`: `matching.py:523` takes a difference of 0 for "none yet", so that the stop selected
   is not "the stop closest to the first actual".
2. `db_duplicates`: the delete that "ensures clean processing if the same batch is processed
   multiple times" removes what another delivery of the message has just staged; that one loads
   nothing and writes Success.
3. `extract_histories_apart`: with one direction in the extract, AVLs of both directions are kept
   under the plain group id, which `timetable_store.py:75-78` means to avoid.
4. `next_day`: `historic_matching.py:471` asks for the files of the date where those of the next day
   are meant, lists the date itself, and the conversion it then asks for skips AVLs (`:245`), so that
   a task may be started without the "avl data for the next day" (`:533`).

Contained in the models, and found by checking the property named, or with a change of constants:

5. `LiveMatching!ReentryWithdrawn`: a departure from the first stop is only withdrawn while it is
   one of the two saved matches (`docs/OTP Matching.md:136`; run `live_faults`
   with times 0 .. 240 by 60 and `RouteLengths = {4}`).
6. `LiveMatching!WithdrawnRowsWiped` with `MaxBatchAvls = 2`, `MaxLateness = 60`, times 0 .. 240 by 60: with two AVLs of
   a journey in a batch the withdrawn match stays in its row, since the caller wipes first and
   sets afterwards (`matching.py:690-692`).
7. `MatchingEvidence!TwoPingsOutside` with `MaxLateness = 120`: leaving one of two stops with the
   same time matches the other, in whose zone the vehicle may still be (`docs/OTP Matching.md:146`).
8. `DbIngestion!BatchCopied` with `LastDay = 1`: a batch written before midnight and loaded after it
   is marked Success without rows (`load_avl_tables.sql:28`).
9. `S3Ingestion!NotifiedWhenSuccess` with one failure: the status is Success before the shards are
   told, and remains so (`docs/Data Ingestion.md:69-74`).
10. `S3Ingestion!ObjectIsOwn` with `SecondsApart = 0`: two files within a second share an object.
   The runs assume a second between two starts.
11. `TimetableExtract!HistoryKept`: the key of a history gains its direction when the other direction
    enters the extract, and the history is left behind (return journey within the window).
12. Errors caught in S3 ingestion and in the OTP Lambda drop the message, where `template.yaml` says
    "we need to keep retrying".
13. `OtpShards!FailedIsKept`: the shards write one status, so that what one has "update[d] to reflect
    failed matching" (`client_db.py`) reads Success when another shard finishes after it.
14. `SituationsImport!ConnectionEnsured`: `ensure_db_connection` (`app.py:183`) assigns the connection
    it opens to its own parameter. The handler goes on with the closed one and raises, and does so
    every five minutes until Lambda replaces the environment.
15. `Orchestrator!QueuesShort` with `Shards = {6, 7}`: `wait_for_queues` asks for `otp-queue{7}` in
    every turn of its loop over the shards (`historic_matching.py:151`) and prints that "All queues
    have" few messages.
16. `Orchestrator!WholeTimetable`: a session for the unregistered subset leaves a timetable file of
    the subset; a later session "for the whole timetable" that does not force an export takes it.
17. `Orchestrator!CompleteMeansSummarised` without `unstarted` and `missed`: `run_task` that answers
    without a task, and a task that `describe_tasks` does not return ("Assuming it completed
    successfully"), are silently counted as done. A conversion that fails is only printed.
18. `Orchestrator!MatchedIsCurrent`: `convert_to_parquet` does not look at the answer of the Lambda
    (`historic_matching.py:239`), and a script that dies before the conversion leaves the old parquet
    file: a task then matches a timetable whose rows have been replaced.
19. `LiveMatching!RowsFollowHistory` without `leftover` in `RefreshBetweenBatches` (stops at 0, 100
    and 300, places 0 .. 300 by 100, `RouteLengths = {2, 3}`, times 0 .. 300 by 60,
    `EstimateTimeLimit = 30`, eight ticks): an invocation wipes the row of a stop and dies, the cold
    start reads a newer extract with a shorter route, and the batch, matched again, keeps the stop as a
    saved match. Its row stays empty. `leftover` marks such a batch, like one whose error was swallowed.
20. A response without `ResponseTimestamp` gets `datetime.now()`: `SituationsImport` assumes the
    publisher's time; with the two mixed, a later version may have the earlier time.
21. `MatchingEvidence!WipedThenSetIsSaved` on a route of eight stops at 600, 3000, 0, 3000, 300, 100,
    3000 and 2000 (places 600, 300, 50, 200, -100 at times 0 .. 240 by 60, `EstimateTimeLimit = 30`,
    `MaxTicks = 12`): one position leaves stops 5 and 6; 5 is matched, then 3 in place of 6, which
    evicts 5. The caller wipes first and sets afterwards, so that the withdrawn 5 is written.
22. `TimetableExtract!OwnRoute` with a journey that departs a quarter of an hour after midnight and a bus
    that is seen at the stop before midnight: `_get_timetable_for_group_id` is asked for the day of the
    AVL and for the day before, never for the one that begins, so that the AVL finds no stops.
23. `MatchingEvidence!TwoPingsOutside` and `DepartureIsLastSighting` without a late AVL, on a route of eight
    stops at 185, 50, -60, 1000, 1300, 1600, 60 and 5000 (places 118, -30, -100, 0, -135, 121 at times
    0 .. 250 by 50, `EstimateTimeLimit = 30`, `MaxTicks = 12`): once the first stop is withdrawn, leaving stop 3
    matches stop 7, in whose zone the bus still is, by the rule of disagreement 1.
24. `pc # "raised"` in the run `live_faults`: `matching.py:290` looks for the stop it iterates in the route
    before using it, but the stop selected in its place is not looked for. When a newer extract has
    shortened the route and the two have the same time, `route[stop_index]` (`matching.py:548`)
    raises KeyError. The handler marks the whole batch Failed and goes on; the matches of every journey of
    the shard in that batch are lost.

## Abstractions

The road is straight, and times are whole seconds (quarters of an hour in `TimetableExtract`, which
is in UTC). One journey, one shard in `LiveMatching`; the two date partitions that
`live_update_success` writes are one table, wiped and then set. The file's time is the time of the
last AVL of the batch. A journey without a route is not followed by `Matching`. Invocations killed in
the middle of a statement do not have it executed later by the server. Lambda's retry of a failed
cron run is the next run. In `HistoricWorkers` the AVLs of a journey are matched in one step.

In `OtpShards` every operator has an AVL in every batch, the objects of all batches are readable,
and a batch comes into a queue once (what S3 ingestion does when it is retried is `S3Ingestion`).
In `Orchestrator` one session runs at a time, `list_tasks` never overlooks a running task
(`describe_tasks` may: `missed`), without which `OneTaskPerDate` would not hold; the first of the two attempts at a summary may be
left out, and the daily cron jobs have either run for all dates or for none. In `SituationsImport` a
situation is about one journey with one direction, and the table is not pruned.

## Not modelled

* SNS subscription: one sequential invocation at deployment. It polls 180 seconds for a confirmation
  in a function that is ended after 90; two constants to read, not behaviours to search.
* SIRI-VM parsing and the parsing of situations: pure transformations of XML. The models keep which
  elements can be read.
* Parquet conversion, other than which outputs it writes: reading a CSV in chunks has no state, but
  for stale parts of a longer earlier file, which the models do not distinguish.
* Traveline import: one download copied into one object.
* Reporting procedures other than `flag_cancelled_expected_journeys`: joins of tables, run one after
  the other by cron; a model would restate them.
* A second orchestrator script started beside a running one, and the balancing of shards
  (`scripts/shard_balancing.py`, `docs/OTP Matching.md:83-87`): a manual procedure with live matching
  halted, performed once.
* Roles, migrations, monitoring and stand-alone scripts: generated statements and listings.

`PROJECT.json` lists the components and hazards. Seven hazards have no property: the code does not keep
what would cover them (disagreements 6, 9, 11, 13, 15 and 18) or the runs assume them away (two files
within one second, disagreement 10). Their notes say so.

## Plan

Done, in this order: matcher; Lambda; DB ingestion; S3 ingestion and its refinement; extract and
lookup; historic pool; orchestrator and its refinement; shards; situations; the proofs above. Next:

1. Proofs: that matching a batch again gives the same outcome (the last part of `OutcomeAgrees`), with the
   states of the first attempt as a history variable.
2. The parts of a parquet file, with a conversion that is run by hand beside a task.
3. Situations about several journeys, and the pruning of their table.
