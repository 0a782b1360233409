-------------------------- MODULE HistoricWorkers --------------------------
(***************************************************************************)
(* Historic matching of one day (historic_matching.py): main fills a queue *)
(* with the operators that have AVLs and a timetable and a sentinel behind *)
(* them, starts the worker processes and joins them.  A worker takes one   *)
(* operator after the other, matches its journeys and writes each journey  *)
(* to the timetable rows; it exits on the sentinel, which it puts back for *)
(* the others, or when it has waited in vain for ten seconds.  A worker    *)
(* opens its database connection once, and never again.                    *)
(***************************************************************************)
EXTENDS Naturals, Sequences, FiniteSets

CONSTANTS
    Operators,
    Journeys,       \* the journeys of the day that have AVLs
    OperatorOf,     \* OperatorOf[j]
    Workers,
    Sentinel,       \* None
    MaxFaults       \* bound: exceptions, connections lost and workers killed

ASSUME WorkersAssumption ==
    /\ IsFiniteSet(Operators)
    /\ OperatorOf \in [Journeys -> Operators]
    /\ Sentinel \notin Operators
    /\ MaxFaults \in Nat

VARIABLES
    queue,      \* operator_queue
    main,       \* "filling", "joining" or "finished"
    at,         \* at[w]: where worker w is
    operator,   \* operator[w]: the operator it took last
    todo,       \* todo[w]: the journeys it has still to match
    written,    \* the journeys whose matches are in the timetable rows
    connected,  \* the workers whose database connection is open
    jammed,     \* a worker was killed with the reader's lock of the queue
    faults

workersVars == <<queue, main, at, operator, todo, written, connected, jammed, faults>>

Places == {"unborn", "getting", "fetching", "matching", "returning", "exited", "killed"}

WorkersTypeOK ==
    /\ queue \in Seq(Operators \cup {Sentinel})
    /\ main \in {"filling", "joining", "finished"}
    /\ at \in [Workers -> Places]
    /\ operator \in [Workers -> Operators \cup {Sentinel}]
    /\ todo \in [Workers -> SUBSET Journeys]
    /\ written \subseteq Journeys
    /\ connected \subseteq Workers
    /\ jammed \in BOOLEAN
    /\ faults \in Nat

WorkersInit ==
    /\ queue = <<>>
    /\ main = "filling"
    /\ at = [w \in Workers |-> "unborn"]
    /\ operator = [w \in Workers |-> Sentinel]
    /\ todo = [w \in Workers |-> {}]
    /\ written = {}
    /\ connected = Workers
    /\ jammed = FALSE
    /\ faults = 0

JourneysOf(o) == {j \in Journeys : OperatorOf[j] = o}
Queued(o) == \E i \in DOMAIN queue : queue[i] = o

-----------------------------------------------------------------------------
\* main: the operators one by one, those with the most stops first.
Fill(o) ==
    /\ main = "filling"
    /\ ~Queued(o)
    /\ queue' = Append(queue, o)
    /\ UNCHANGED <<main, at, operator, todo, written, connected, jammed, faults>>

\* ... then the sentinel, and the workers are started.
Launch ==
    /\ main = "filling"
    /\ \A o \in Operators : Queued(o)
    /\ queue' = Append(queue, Sentinel)
    /\ main' = "joining"
    /\ at' = [w \in Workers |-> "getting"]
    /\ UNCHANGED <<operator, todo, written, connected, jammed, faults>>

\* worker.join() returns for one worker after the other, however it ended.
Join ==
    /\ main = "joining"
    /\ \A w \in Workers : at[w] \in {"exited", "killed"}
    /\ main' = "finished"
    /\ UNCHANGED <<queue, at, operator, todo, written, connected, jammed, faults>>

-----------------------------------------------------------------------------
\* Mutant: the operator is looked at and only removed when it is done.
PeekOperator(w) ==
    /\ at[w] = "getting"
    /\ ~jammed
    /\ queue # <<>> /\ Head(queue) # Sentinel
    /\ queue' \in {queue, Tail(queue)}
    /\ operator' = [operator EXCEPT ![w] = Head(queue)]
    /\ at' = [at EXCEPT ![w] = "fetching"]
    /\ UNCHANGED <<main, todo, written, connected, jammed, faults>>

\* task_queue.get(timeout=10)
GetOperator(w) ==
    /\ at[w] = "getting"
    /\ ~jammed
    /\ queue # <<>> /\ Head(queue) # Sentinel
    /\ queue' = Tail(queue)
    /\ operator' = [operator EXCEPT ![w] = Head(queue)]
    /\ at' = [at EXCEPT ![w] = "fetching"]
    /\ UNCHANGED <<main, todo, written, connected, jammed, faults>>

GetSentinel(w) ==
    /\ at[w] = "getting"
    /\ ~jammed
    /\ queue # <<>> /\ Head(queue) = Sentinel
    /\ queue' = Tail(queue)
    /\ at' = [at EXCEPT ![w] = "returning"]
    /\ UNCHANGED <<main, operator, todo, written, connected, jammed, faults>>

PutSentinelBack(w) ==
    /\ at[w] = "returning"
    /\ queue' = Append(queue, Sentinel)
    /\ at' = [at EXCEPT ![w] = "exited"]
    /\ UNCHANGED <<main, operator, todo, written, connected, jammed, faults>>

\* Empty: the sentinel is in another worker's hands, or no lock is to be had.
GiveUp(w) ==
    /\ at[w] = "getting"
    /\ queue = <<>> \/ jammed
    /\ at' = [at EXCEPT ![w] = "exited"]
    /\ UNCHANGED <<queue, main, operator, todo, written, connected, jammed, faults>>

\* fetch_avls, fetch_timetable.
Fetch(w) ==
    /\ at[w] = "fetching"
    /\ todo' = [todo EXCEPT ![w] = JourneysOf(operator[w])]
    /\ at' = [at EXCEPT ![w] = "matching"]
    /\ UNCHANGED <<queue, main, operator, written, connected, jammed, faults>>

\* match_group_id_avls and historic_update_success, for one journey.
MatchJourney(w, j) ==
    /\ at[w] = "matching"
    /\ w \in connected
    /\ j \in todo[w]
    /\ written' = written \cup {j}
    /\ todo' = [todo EXCEPT ![w] = @ \ {j}]
    /\ UNCHANGED <<queue, main, at, operator, connected, jammed, faults>>

FinishOperator(w) ==
    /\ at[w] = "matching"
    /\ todo[w] = {}
    /\ at' = [at EXCEPT ![w] = "getting"]
    /\ UNCHANGED <<queue, main, operator, todo, written, connected, jammed, faults>>

\* Mutant: after the exception the process neither goes on nor exits.
AbandonAll(w) ==
    /\ todo' = [todo EXCEPT ![w] = {}]
    /\ at' = [at EXCEPT ![w] = "unborn"]
    /\ UNCHANGED <<queue, main, operator, written, connected, jammed>>

\* Mutant: the handler takes the next operator, and the loop takes another.
AbandonAndSkip(w) ==
    /\ todo' = [todo EXCEPT ![w] = {}]
    /\ at' = [at EXCEPT ![w] = "getting"]
    /\ queue' = SelectSeq(queue, LAMBDA x : x = Sentinel \/ x # queue[1])
    /\ UNCHANGED <<main, operator, written, connected, jammed>>

\* What the except clause of the loop leaves: the operator is given up, the worker goes on.
Abandon(w) ==
    /\ todo' = [todo EXCEPT ![w] = {}]
    /\ at' = [at EXCEPT ![w] = "getting"]
    /\ UNCHANGED <<queue, main, operator, written, connected, jammed>>

\* Any exception while an operator is fetched or matched.
RaiseOnce(w) ==
    /\ at[w] \in {"fetching", "matching"}
    /\ faults < MaxFaults
    /\ faults' = faults + 1
    /\ Abandon(w)

LoseConnection(w) ==
    /\ faults < MaxFaults
    /\ w \in connected
    /\ connected' = connected \ {w}
    /\ faults' = faults + 1
    /\ UNCHANGED <<queue, main, at, operator, todo, written, jammed>>

\* Without a connection the first journey of every operator raises.
RaiseUnconnected(w) ==
    /\ at[w] = "matching"
    /\ w \notin connected
    /\ todo[w] # {}
    /\ Abandon(w)
    /\ UNCHANGED faults

\* The system kills a worker (out of memory), with the lock of the queue if it holds it.
Kill(w) ==
    /\ at[w] \in {"getting", "fetching", "matching", "returning"}
    /\ faults < MaxFaults
    /\ faults' = faults + 1
    /\ at' = [at EXCEPT ![w] = "killed"]
    /\ jammed' \in {jammed, at[w] = "getting" \/ jammed}
    /\ UNCHANGED <<queue, main, operator, todo, written, connected>>

Work(w) ==
    \/ GetOperator(w) \/ GetSentinel(w) \/ PutSentinelBack(w) \/ GiveUp(w)
    \/ Fetch(w) \/ FinishOperator(w) \/ RaiseUnconnected(w)
    \/ \E j \in Journeys : MatchJourney(w, j)

WorkersNext ==
    \/ \E o \in Operators : Fill(o)
    \/ Launch \/ Join
    \/ \E w \in Workers : Work(w) \/ RaiseOnce(w) \/ LoseConnection(w) \/ Kill(w)

WorkersSpec == WorkersInit /\ [][WorkersNext]_workersVars

\* main and the worker processes are scheduled, and a get that finds nothing times out.
WorkersFairness ==
    /\ \A o \in Operators : WF_workersVars(Fill(o))
    /\ WF_workersVars(Launch) /\ WF_workersVars(Join)
    /\ \A w \in Workers : WF_workersVars(Work(w))

WorkersFairSpec == WorkersSpec /\ WorkersFairness

-----------------------------------------------------------------------------
(* No two workers ever have the same operator, so that each timetable row   *)
(* is written by one process only (the queue of main).                      *)
Busy(w) == at[w] \in {"fetching", "matching"}

OneWorkerPerOperator == \A v, w \in Workers :
    Busy(v) /\ Busy(w) /\ operator[v] = operator[w] => v = w

(* An exception costs the operator it struck and no other: as long as no    *)
(* worker has lost its connection, and the queue can still be read, the      *)
(* journeys missing at the end belong to no more operators than there were   *)
(* faults (the except clause at the end of operator_worker_task's loop).     *)
LossIsLocal ==
    /\ main = "finished"
    /\ connected = Workers
    /\ ~jammed
    /\ \E w \in Workers : at[w] = "exited"
    => Cardinality({OperatorOf[j] : j \in Journeys \ written}) <= faults

(* The task ends, whatever its workers run into (main, worker.join).        *)
TaskEnds == <>(main = "finished")
=============================================================================
