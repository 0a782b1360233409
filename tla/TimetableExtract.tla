-------------------------- MODULE TimetableExtract --------------------------
(***************************************************************************)
(* Which timetabled journey an AVL is matched to, and in which entry of    *)
(* the stop history it is recorded, while the extract of the timetable     *)
(* slides over the day.                                                    *)
(*                                                                         *)
(* sirivm_timetable_s3_generation_function writes, every half hour, the    *)
(* journeys around the present to S3, indexed by group id, and tells the   *)
(* shards one by one; a shard caches the extract (app.py) and looks up     *)
(* each AVL in it (timetable_store.py).  An AVL carries the group of its   *)
(* journey (operator, line, journey reference), the date on which it was   *)
(* recorded, and a direction.                                              *)
(***************************************************************************)
EXTENDS Integers, Sequences, FiniteSets, FiniteSetsExt

CONSTANTS
    Journeys,       \* vehicle journeys
    Departures,     \* Departures[j]: the expected departure times, in order
    Group,          \* Group[j]: operator|line|journey reference
    Direction,      \* Direction[j]
    ServiceDay,     \* ServiceDay[j]: date_of_journey of the timetable
    DayLength,
    Window,         \* TIMETABLE_EXTRACT_SLIDING_WINDOW_TIME_IN_MINUTES
    LateRunning,    \* EXPECTED_LATE_RUNNING_SERVICE_INTERVAL_IN_MINUTES
    Bounds,         \* the four hours of _get_timetable_by_index
    Period,         \* of the cron trigger
    NumShards,      \* no_of_shards
    ShardOf,        \* ShardOf[j]: the shard of the operator of j
    Early, Late,    \* bound: how long before and after its times a journey sends AVLs
    MaxFaults,      \* bound: extractions that fail
    MinTime,        \* bound: the first moment ...
    MaxTime         \* ... and the last one

Shards == 1 .. NumShards
NoKey == <<>>

ASSUME ExtractAssumption ==
    /\ IsFiniteSet(Journeys)
    /\ Departures \in [Journeys -> Seq(Int) \ {<<>>}]
    /\ ServiceDay \in [Journeys -> Int]
    /\ ShardOf \in [Journeys -> Shards]
    /\ {DayLength, Period} \subseteq Nat \ {0}
    /\ {Window, LateRunning, Bounds, Early, Late, MaxFaults, MinTime, MaxTime} \subseteq Nat

VARIABLES
    now,
    extract,    \* timetable/timetable.json: the journeys in it
    ran,        \* the moment of the last extraction
    running,    \* "no", or "put" while the extract is written and the shards are not told
    pending,    \* shards with the message "timetable" in their queue
    cache,      \* cache[s]: main_timetable of shard s
    history,    \* the stop history: history[k] of an index k
    seen,       \* seen[j]: when and under which index the last AVL of j was recorded
    faults

extractVars == <<now, extract, ran, running, pending, cache, history, seen, faults>>

-----------------------------------------------------------------------------
\* The extract.

First(j) == Departures[j][1]
Last(j) == Departures[j][Len(Departures[j])]
Date(t) == t \div DayLength

\* The journeys with a departure around t, of the service days that can have one.
Around(t) == {j \in Journeys :
    /\ ServiceDay[j] \in {Date(t + Window), Date(t), Date(t - Window - LateRunning)}
    /\ \E i \in DOMAIN Departures[j] : Departures[j][i] \in (t - Window) .. (t + Window)}

GroupId(j) == <<Group[j], ServiceDay[j]>>

\* The direction is added where the group id is that of journeys in several directions.
Index(e, j) ==
    IF \E k \in e : GroupId(k) = GroupId(j) /\ Direction[k] # Direction[j]
    THEN Append(GroupId(j), Direction[j])
    ELSE GroupId(j)

Indexes(e) == {Index(e, j) : j \in e}

\* The stops of an index: of journeys that share it, the later row replaces the earlier.
Route(e, index) ==
    LET sharing == {j \in e : Index(e, j) = index}
    IN [i \in UNION {DOMAIN Departures[j] : j \in sharing} |->
          CHOOSE j \in sharing : /\ i \in DOMAIN Departures[j]
                                 /\ \A k \in sharing : i \in DOMAIN Departures[k] =>
                                       Departures[k][i] <= Departures[j][i]]

-----------------------------------------------------------------------------
\* The lookup of an AVL of journey j recorded at t.

TimesOf(e, index) ==
    LET route == Route(e, index) IN {Departures[route[i]][i] : i \in DOMAIN route}

Fits(e, index, t) ==
    /\ index \in Indexes(e)
    /\ t >= Min(TimesOf(e, index)) - Bounds
    /\ t <= Max(TimesOf(e, index)) + Bounds

\* _get_timetable_for_group_id of today, then of yesterday.
Candidates(j, t) ==
    LET id(day) == <<Group[j], day>>
    IN <<id(Date(t)), Append(id(Date(t)), Direction[j]),
         id(Date(t) - 1), Append(id(Date(t) - 1), Direction[j])>>

\* Mutant: only the day on which the AVL was recorded.
LookupToday(e, j, t) ==
    LET fitting == {i \in 1 .. 2 : Fits(e, Candidates(j, t)[i], t)}
    IN IF fitting = {} THEN NoKey ELSE Candidates(j, t)[Min(fitting)]

Lookup(e, j, t) ==
    LET fitting == {i \in 1 .. 4 : Fits(e, Candidates(j, t)[i], t)}
    IN IF fitting = {} THEN NoKey ELSE Candidates(j, t)[Min(fitting)]

-----------------------------------------------------------------------------
ExtractInit ==
    /\ now = MinTime
    /\ extract = Around(MinTime)
    /\ ran = MinTime
    /\ running = "no"
    /\ pending = {}
    /\ cache = [s \in Shards |-> Around(MinTime)]
    /\ history = [k \in {} |-> k]
    /\ seen = [j \in Journeys |-> [time |-> -1, index |-> NoKey]]
    /\ faults = 0

\* The cron trigger, a retry of a failed invocation: the query, and put_object.
PutExtract ==
    /\ running = "no"
    /\ ran # now /\ now % Period = 0
    /\ extract' = Around(now)
    /\ ran' = now
    /\ running' = "put"
    /\ UNCHANGED <<now, pending, cache, history, seen, faults>>

\* The loop over the shards; a failure ends it, and the later shards are not told.
NotifyShards ==
    /\ running = "put"
    /\ \/ pending' = Shards /\ UNCHANGED faults
       \/ /\ faults < MaxFaults /\ faults' = faults + 1
          /\ \E s \in Shards : pending' = 1 .. (s - 1)
    /\ running' = "no"
    /\ UNCHANGED <<now, extract, ran, cache, history, seen>>

\* A shard takes the message, or starts anew: it reads the extract that is in S3 by now.
RefreshCache(s) ==
    /\ s \in pending \/ cache[s] # extract
    /\ pending' = pending \ {s}
    /\ cache' = [cache EXCEPT ![s] = extract]
    /\ UNCHANGED <<now, extract, ran, running, history, seen, faults>>

\* match_avl: an AVL of journey j is recorded in the entry of its index, once the entries
\* that were last seen too long ago are gone (clean_stop_history).
RecordAvl(j) ==
    LET s == ShardOf[j]
        index == Lookup(cache[s], j, now)
        kept == {k \in DOMAIN history : now - history[k].time <= Window}
        before == IF index \in kept THEN history[index].journeys ELSE {}
    IN /\ now \in (First(j) - Early) .. (Last(j) + Late)
       /\ seen[j].time < now
       /\ pending = {}
       /\ index # NoKey
       /\ history' = [k \in kept \cup {index} |->
                        IF k = index THEN [time |-> now, journeys |-> before \cup {j}]
                                     ELSE history[k]]
       /\ seen' = [seen EXCEPT ![j] = [time |-> now, index |-> index]]
       /\ UNCHANGED <<now, extract, ran, running, pending, cache, faults>>

\* Time moves on once the extraction that is due has run, and the shards have read it.
Tick ==
    /\ now < MaxTime
    /\ running = "no" /\ pending = {}
    /\ now % Period = 0 => ran = now
    /\ now' = now + 1
    /\ UNCHANGED <<extract, ran, running, pending, cache, history, seen, faults>>

ExtractNext ==
    \/ PutExtract \/ NotifyShards \/ Tick
    \/ \E s \in Shards : RefreshCache(s)
    \/ \E j \in Journeys : RecordAvl(j)

ExtractSpec == ExtractInit /\ [][ExtractNext]_extractVars

-----------------------------------------------------------------------------
(* A bus that is on time to within Early and Late is matched to the stops   *)
(* of its own journey, across midnight too, although the shard's extract    *)
(* may be a period old and a failed notification may leave it two periods   *)
(* old.  Journeys with the same group id and the same direction share one   *)
(* route in the extract; nothing is claimed of those.                       *)
Twin(j, k) == j # k /\ GroupId(j) = GroupId(k) /\ Direction[j] = Direction[k]

OwnRoute == running = "no" /\ pending = {} =>
    \A j \in Journeys :
        /\ now \in (First(j) - Early) .. (Last(j) + Late)
        /\ ~\E k \in Journeys : Twin(j, k)
        => LET e == cache[ShardOf[j]]
               index == Lookup(e, j, now)
           IN index # NoKey /\ Route(e, index) = [i \in DOMAIN Departures[j] |-> j]

(* What OwnRoute needs, in general, of the settings and of a journey.       *)

\* How old the extract in a shard's cache may be: each failure costs it a period.
MaxAge == Period * (MaxFaults + 1)

\* A bus that is early is in an extract of that age, and within the bounds of the lookup.
SettingsAgree ==
    /\ MaxAge + Early <= Window
    /\ Early <= Bounds
    /\ Late <= Window /\ Late <= Bounds
    /\ Window + LateRunning <= DayLength

InOrder(j) == \A i, k \in DOMAIN Departures[j] : i < k => Departures[j][i] <= Departures[j][k]

\* There always is a departure within the window of the extract.
NoLongPause(j) == \A i, k \in DOMAIN Departures[j] :
    k = i + 1 => Departures[j][k] - Departures[j][i] <= 2 * Window

\* No AVL comes before the service day, and none later in the next one than the query reaches.
WithinItsDay(j) ==
    /\ ServiceDay[j] * DayLength <= First(j) - Early
    /\ Last(j) + Late < (ServiceDay[j] + 1) * DayLength + Window + LateRunning

\* After midnight the lookup tries the journeys of the new day first.
ApartFromNextDay(j) == \A k \in Journeys :
    Group[k] = Group[j] /\ ServiceDay[k] = ServiceDay[j] + 1 =>
        \A i \in DOMAIN Departures[k] : Departures[k][i] - Bounds > Last(j) + Late

Served(j) == InOrder(j) /\ NoLongPause(j) /\ WithinItsDay(j) /\ ApartFromNextDay(j)

(* "Removes journeys last seen more than 2 hours ago from stop history"     *)
(* (docs/OTP Matching.md): a journey seen since keeps its history, so that  *)
(* its next AVL is recorded under the index of the last one.                *)
(* Not kept by the code: see the README, disagreements.                     *)
HistoryKept == [][\A j \in Journeys :
    LET was == seen[j]
    IN seen'[j] # was /\ was.time >= 0 /\ now - was.time <= Window =>
          seen'[j].index = was.index]_extractVars

(* "We will also need to use this to keep track of the matching for both    *)
(* journeys separately" (timetable_store.py): no entry of the stop history  *)
(* has the AVLs of two journeys in different directions.                    *)
HistoriesApart == \A k \in DOMAIN history : \A i, j \in history[k].journeys :
    Direction[i] = Direction[j]
=============================================================================
