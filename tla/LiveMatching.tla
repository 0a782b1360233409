---------------------------- MODULE LiveMatching ----------------------------
(***************************************************************************)
(* Live matching of one journey (sirivm_otp_matching_function/app.py): the *)
(* Lambda of the journey's shard takes one message of its FIFO queue at a  *)
(* time, loads the stop history from S3, matches the AVLs of the batch     *)
(* (module Matching), writes the outcome to the journey's timetable rows   *)
(* statement by statement, marks the batch and saves the history.          *)
(*                                                                         *)
(* Any call may raise, and then the handler marks the batch as failed and  *)
(* returns; or the invocation may die (timeout, out of memory, or a        *)
(* failure of batch_failed itself), and then SQS delivers the message      *)
(* again.                                                                  *)
(***************************************************************************)
EXTENDS Matching, Sequences

CONSTANTS
    HistoryWindow,  \* TIMETABLE_EXTRACT_SLIDING_WINDOW_TIME_IN_MINUTES, in seconds
    NoRow,          \* a timetable row with no actual departure time
    Failing,        \* the stages of the handler in which a call may raise
    MaxBatchAvls,   \* bound: AVLs of this journey in one batch
    MaxCrashes,     \* bound: invocations that die
    MaxFaultTicks   \* bound: as MaxTicks, once a call has raised or the route is shortened

Stages == {"waiting", "delivered", "matching", "setting", "marking", "saving", "acknowledging"}

ASSUME LiveAssumption ==
    /\ HistoryWindow \in Nat
    /\ Failing \subseteq Stages \ {"waiting", "acknowledging"}
    /\ MaxBatchAvls \in Nat \ {0} /\ {MaxCrashes, MaxFaultTicks} \subseteq Nat

VARIABLES
    stored,     \* the journey's entry of the stop history saved in S3
    rows,       \* rows[s]: the departure written in the timetable row of stop s
    batch,      \* the AVLs of the message at the head of the shard's queue
    unread,     \* those that match_avl_batch has still to match
    toSet,      \* its result: all_matched ...
    toRemove,   \* ... and all_removed
    stage,      \* where the handler is: "waiting" when no message is being processed
    status,     \* batch.otp_update_status of the last message
    feedTime,   \* the latest recorded_at_time the feed has delivered
    crashes,    \* invocations that died so far
    written,    \* observer: what earlier attempts at the batch may have written to the rows
    leftover    \* observer: an attempt at a batch may have left rows no saved history tells of:
                \* its error was caught, or its message was matched again along another route

historyVars == <<matched, potential, lastAvl>>
callVars == <<todo, toDelete, newMatches, badMatches, pc, tick>>
handlerVars == <<batch, unread, toSet, toRemove>>
lambdaVars == <<stored, rows, handlerVars, stage, status, feedTime, crashes, written, leftover>>
liveVars == <<vars, lambdaVars>>

NewHistory == [matched |-> [s \in {} |-> s], potential |-> [s \in {} |-> s], lastAvl |-> NoAvl]

Batches == UNION {[1 .. n -> Avls] : n \in 1 .. MaxBatchAvls}

LiveInit ==
    /\ Init
    /\ stored = NewHistory
    /\ rows = [s \in Stops |-> NoRow]
    /\ batch = <<>> /\ unread = <<>>
    /\ toSet = {} /\ toRemove = {}
    /\ stage = "waiting"
    /\ status = "None"
    /\ feedTime \in AvlTimes
    /\ crashes = 0
    /\ written = {}
    /\ leftover = FALSE

-----------------------------------------------------------------------------
\* The feed: the next batch of the queue, its AVLs in the order of the file.
Deliver(b) ==
    /\ stage = "waiting"
    /\ tick < IF leftover \/ \E n \in RouteLengths : n > final THEN MaxFaultTicks ELSE MaxTicks
    /\ \A i \in DOMAIN b : b[i].time >= feedTime - MaxLateness
    /\ \A i, j \in DOMAIN b : i < j => b[i].time <= b[j].time
    /\ batch' = b
    /\ stage' = "delivered"
    /\ status' = "None"
    /\ feedTime' = IF b[Len(b)].time > feedTime THEN b[Len(b)].time ELSE feedTime
    /\ written' = {}
    /\ UNCHANGED <<vars, stored, rows, unread, toSet, toRemove, crashes, leftover>>

\* clean_stop_history: the entry of a journey not seen for two hours is evicted.
Stale == stored.lastAvl # NoAvl /\ batch[Len(batch)].time - stored.lastAvl.time > HistoryWindow

\* Mutant: a warm environment goes on with the history it has in memory.
LoadHistoryWarm ==
    /\ stage = "delivered"
    /\ IF lastAvl # NoAvl /\ ~Stale THEN UNCHANGED historyVars
       ELSE /\ matched' = NewHistory.matched
            /\ potential' = NewHistory.potential
            /\ lastAvl' = NoAvl
    /\ todo' = {} /\ toDelete' = {} /\ newMatches' = {} /\ badMatches' = {} /\ pc' = "idle"
    /\ unread' = batch
    /\ toSet' = {} /\ toRemove' = {}
    /\ stage' = "matching"
    /\ UNCHANGED <<final, tick, stored, rows, batch, status, feedTime, crashes, written, leftover>>

\* get_stop_history, clean_stop_history and get_avl_data.
LoadHistory ==
    /\ stage = "delivered"
    /\ LET history == IF Stale THEN NewHistory ELSE stored
       IN /\ matched' = history.matched
          /\ potential' = history.potential
          /\ lastAvl' = history.lastAvl
    /\ todo' = {} /\ toDelete' = {} /\ newMatches' = {} /\ badMatches' = {} /\ pc' = "idle"
    /\ unread' = batch
    /\ toSet' = {} /\ toRemove' = {}
    /\ stage' = "matching"
    /\ UNCHANGED <<final, tick, stored, rows, batch, status, feedTime, crashes, written, leftover>>

\* match_avl_batch: the next AVL of the batch goes to match_avl ...
StartAvl ==
    /\ stage = "matching" /\ unread # <<>>
    /\ ReceiveAvl(Head(unread)) \/ SkipRepeatedAvl(Head(unread))
    /\ unread' = Tail(unread)
    /\ UNCHANGED <<stored, rows, batch, toSet, toRemove, stage, status, feedTime, crashes, written, leftover>>

MatchStop ==
    /\ stage = "matching"
    /\ \E s \in Stops : Iterate(s)
    /\ UNCHANGED lambdaVars

\* ... and what it returns is added to what the earlier ones of the batch returned.
CollectAvl ==
    /\ stage = "matching"
    /\ FinishAvl
    /\ toSet' = toSet \cup newMatches
    /\ toRemove' = toRemove \cup badMatches
    /\ UNCHANGED <<stored, rows, batch, unread, stage, status, feedTime, crashes, written, leftover>>

AllMatched == stage = "matching" /\ pc = "idle" /\ unread = <<>>

Outcome == [set |-> toSet, removed |-> toRemove]

\* Mutant: a batch without new matches returns before its removals.
WipeRowsIfSetting ==
    /\ AllMatched
    /\ rows' = [s \in Stops |-> IF s \in toRemove /\ toSet # {} THEN NoRow ELSE rows[s]]
    /\ written' = written \cup {Outcome}
    /\ stage' = "setting"
    /\ UNCHANGED <<vars, stored, handlerVars, status, feedTime, crashes, leftover>>

\* live_update_success: first the removals ...
WipeRows ==
    /\ AllMatched
    /\ rows' = [s \in Stops |-> IF s \in toRemove THEN NoRow ELSE rows[s]]
    /\ written' = written \cup {Outcome}
    /\ stage' = "setting"
    /\ UNCHANGED <<vars, stored, handlerVars, status, feedTime, crashes, leftover>>

Row(m) == [time |-> m.time, est |-> m.est]

\* ... then the matches, any one of those of the same row (UPDATE ... FROM VALUES) ...
SetRows ==
    /\ stage = "setting"
    /\ rows' \in [Stops -> {rows[s] : s \in Stops} \cup {Row(m) : m \in toSet}]
    /\ \A s \in Stops :
          LET found == {m \in toSet : m.stop = s}
          IN IF found = {} THEN rows'[s] = rows[s] ELSE \E m \in found : rows'[s] = Row(m)
    /\ stage' = "marking"
    /\ UNCHANGED <<vars, stored, handlerVars, status, feedTime, crashes, written, leftover>>

\* ... and the batch is marked.
MarkSuccess ==
    /\ stage = "marking"
    /\ status' = "Success"
    /\ stage' = "saving"
    /\ UNCHANGED <<vars, stored, rows, handlerVars, feedTime, crashes, written, leftover>>

\* Mutant: the history is also saved before the rows are written.
SaveHistoryEarly ==
    /\ AllMatched \/ stage = "saving"
    /\ stored' = [matched |-> matched, potential |-> potential, lastAvl |-> lastAvl]
    /\ stage' = IF stage = "saving" THEN "acknowledging" ELSE stage
    /\ written' = IF stage = "saving" THEN {} ELSE written
    /\ UNCHANGED <<vars, rows, handlerVars, status, feedTime, crashes, leftover>>

\* export_stop_history.
SaveHistory ==
    /\ stage = "saving"
    /\ stored' = [matched |-> matched, potential |-> potential, lastAvl |-> lastAvl]
    /\ stage' = "acknowledging"
    /\ written' = {}
    /\ UNCHANGED <<vars, rows, handlerVars, status, feedTime, crashes, leftover>>

\* The handler returns without an error: the message leaves the queue.
Acknowledge ==
    /\ stage = "acknowledging"
    /\ stage' = "waiting"
    /\ UNCHANGED <<vars, stored, rows, handlerVars, status, feedTime, crashes, written, leftover>>

\* Mutant: the exception is swallowed without batch_failed.
RaiseSilently ==
    /\ stage \in Failing
    /\ stage = "matching" => AllMatched
    /\ stage' = "acknowledging"
    /\ UNCHANGED <<vars, stored, rows, handlerVars, status, feedTime, crashes, written, leftover>>

\* Mutant: the exception leaves the handler, and SQS delivers the message again.
RaiseThrough ==
    /\ stage \in Failing
    /\ stage = "matching" => AllMatched
    /\ status' = "Failed"
    /\ stage' = "delivered"
    /\ UNCHANGED <<vars, stored, rows, handlerVars, feedTime, crashes, written, leftover>>

\* A call of the stage raises: batch_failed, and the handler returns all the same.
Raise ==
    /\ stage \in Failing
    /\ stage = "matching" => AllMatched
    /\ status' = "Failed"
    /\ leftover' = TRUE
    /\ stage' = "acknowledging"
    /\ UNCHANGED <<vars, stored, rows, handlerVars, feedTime, crashes, written>>

\* match_avl has raised (StopMissing), before any row was written: batch_failed as well.
MatcherRaised ==
    /\ stage = "matching" /\ pc = "raised"
    /\ status' = "Failed"
    /\ leftover' = (leftover \/ written # {})
    /\ stage' = "acknowledging"
    /\ UNCHANGED <<vars, stored, rows, handlerVars, feedTime, crashes, written>>

\* The invocation dies: its message becomes visible again, at the head of the queue.
Crash ==
    /\ stage \notin {"waiting", "delivered"}
    /\ crashes < MaxCrashes
    /\ crashes' = crashes + 1
    /\ stage' = "delivered"
    /\ UNCHANGED <<vars, stored, rows, handlerVars, status, feedTime, written, leftover>>

\* A newer extract counts from the message of the queue that announces it, or from the
\* next cold start, never within a batch.
RefreshBetweenBatches ==
    /\ stage \in {"waiting", "delivered"}
    /\ \E n \in RouteLengths : n # final /\ final' = n
    /\ leftover' = (leftover \/ written # {})
    /\ UNCHANGED <<historyVars, callVars, stored, rows, handlerVars, stage, status, feedTime, crashes, written>>

Handle ==
    \/ LoadHistory \/ StartAvl \/ MatchStop \/ CollectAvl \/ MatcherRaised
    \/ WipeRows \/ SetRows \/ MarkSuccess \/ SaveHistory \/ Acknowledge

LiveNext ==
    \/ \E b \in Batches : Deliver(b)
    \/ Handle
    \/ Raise
    \/ Crash
    \/ RefreshBetweenBatches

LiveSpec == LiveInit /\ [][LiveNext]_liveVars

\* Lambda runs an invocation to its end, or SQS delivers its message again.
LiveFairSpec == LiveSpec /\ WF_liveVars(Handle)

-----------------------------------------------------------------------------
AtRest == stage = "waiting"

(* What the rows are updated from is definite: one departure for each stop, *)
(* none for a stop that the batch withdrew for good (its row is wiped       *)
(* first), and, unless an attempt left its rows behind, nothing other than  *)
(* what an earlier attempt at the message has written already.              *)
OneDeparture == \A m, n \in toSet : m.stop = n.stop => m = n
WithdrawnNotSet == \A m \in toSet : m.stop \in toRemove => m.stop \in Matched
OutcomeAgrees == stage = "setting" /\ ~leftover =>
    OneDeparture /\ WithdrawnNotSet /\ written = {Outcome}

(* Unless an attempt left its rows behind, the rows tell what the history   *)
(* tells, however often and wherever an invocation died and its message was *)
(* delivered again: a saved match has its row (unless it was too early to   *)
(* write).                                                                  *)
RowsFollowHistory == AtRest /\ ~leftover =>
    \A s \in DOMAIN stored.matched :
        LET m == stored.matched[s]
        IN Recorded(s, m.time) => rows[s] = [time |-> m.time, est |-> m.est]

(* Unless an attempt left its rows behind, a match that the last batch      *)
(* withdrew, and that is no saved match again, has no departure time left   *)
(* in its row: "the caller needs to add the match, and then wipe it"        *)
(* (matching.py, match_avl_batch).                                          *)
WithdrawnRowsWiped == AtRest /\ ~leftover /\ status = "Success" =>
    \A s \in toRemove \ DOMAIN stored.matched : rows[s] = NoRow

(* A batch that ends as Success has its history saved: nothing it matched   *)
(* is forgotten by the next batch, although the status is written first.    *)
SuccessIsSaved == AtRest /\ status = "Success" =>
    stored.lastAvl # NoAvl /\ stored.lastAvl.time = batch[Len(batch)].time

(* "If a departure at the start point was previously detected, but the bus  *)
(* re-enters the matching radius within 5 minutes, the system removes that  *)
(* match" (docs/OTP Matching.md).                                           *)
(* Not kept by the code: see the README, disagreements.                     *)
ReentryWithdrawn == AtRest /\ status = "Success" =>
    ~ /\ rows[1] # NoRow
      /\ InZone(stored.lastAvl, 1)
      /\ stored.lastAvl.time > rows[1].time
      /\ stored.lastAvl.time - rows[1].time < FirstStopWindow

(* Every delivered batch is eventually dealt with, in spite of the          *)
(* invocations that die.                                                    *)
BatchDealtWith == stage = "delivered" ~> stage = "waiting"
=============================================================================
