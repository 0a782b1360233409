---------------------------- MODULE DbIngestion ----------------------------
(***************************************************************************)
(* DB ingestion (sirivm_db_ingestion_function/app.py): Lambda workers take *)
(* messages of the standard queue sirivm-process-queue, each naming a      *)
(* batch and the S3 object with its AVLs, copy the object into the staging *)
(* table and from there into SiriVMPositions (load_avl_tables.sql).        *)
(*                                                                         *)
(* The connection is in autocommit mode: every statement is a transaction  *)
(* of its own, and the statements of two workers interleave.  An error     *)
(* leaves the handler, and an invocation may die; either way the message   *)
(* stays in the queue and is delivered again.  The connection is opened    *)
(* when the environment of a worker starts, and never again.               *)
(***************************************************************************)
EXTENDS Naturals, FiniteSets

CONSTANTS
    Avls,           \* AVLs, by their key in SiriVMPositions
    DateOf,         \* DateOf[a]: date_of_journey, in days
    Batches,        \* batch ids
    Names,          \* keys of S3 objects
    Workers,        \* concurrent invocations (MaximumConcurrency)
    NoMessage,
    MaxFaults,      \* bound: invocations that raise or die, and connections lost
    MaxDuplicates,  \* bound: messages received while they are in flight
    LastDay         \* bound: the last day

Messages == [batch : Batches, name : Names]

ASSUME DbAssumption ==
    /\ DateOf \in [Avls -> Nat]
    /\ NoMessage \notin Messages
    /\ MaxFaults \in Nat /\ MaxDuplicates \in Nat /\ LastDay \in Nat

VARIABLES
    bucket,     \* the S3 objects: bucket[n] has the AVLs of a batch, and its id
    queued,     \* the messages of the process queue that are not deleted
    dbStatus,   \* batch.db_ingestion_status
    staging,    \* staging_avl_positions
    positions,  \* SiriVMPositions, by primary key
    stage,      \* stage[w]: how far the invocation of worker w has come
    msg,        \* msg[w]: the message it handles
    connected,  \* connected[w]: whether conn of its environment is alive
    today,      \* now()::date
    faults,
    duplicates

tables == <<dbStatus, staging, positions>>
bounds == <<faults, duplicates>>
dbVars == <<bucket, queued, tables, stage, msg, connected, today, bounds>>

Objects == [batch : Batches, avls : SUBSET Avls]
StagedRows == [batch : Batches, avl : Avls]
WorkerStages == {"idle", "received", "marked", "cleared", "imported", "loaded", "done"}

DbTypeOK ==
    /\ DOMAIN bucket \subseteq Names
    /\ \A n \in DOMAIN bucket : bucket[n] \in Objects
    /\ queued \subseteq Messages
    /\ dbStatus \in [Batches -> {"None", "Inprogress", "Success", "Failed"}]
    /\ staging \subseteq StagedRows
    /\ positions \subseteq Avls
    /\ stage \in [Workers -> WorkerStages]
    /\ msg \in [Workers -> Messages \cup {NoMessage}]
    /\ \A w \in Workers : stage[w] # "idle" => msg[w] \in Messages
    /\ connected \in [Workers -> BOOLEAN]
    /\ today \in Nat
    /\ faults \in Nat /\ duplicates \in Nat

Init ==
    /\ bucket = [n \in {} |-> n]
    /\ queued = {}
    /\ dbStatus = [b \in Batches |-> "None"]
    /\ staging = {} /\ positions = {}
    /\ stage = [w \in Workers |-> "idle"]
    /\ msg = [w \in Workers |-> NoMessage]
    /\ connected = [w \in Workers |-> TRUE]
    /\ today = 0
    /\ faults = 0 /\ duplicates = 0

Holds(b, avls) == [batch |-> b, avls |-> avls]

-----------------------------------------------------------------------------
\* What DB ingestion relies on from whoever fills the bucket and the queue: an object is
\* never replaced, its AVLs are not of the future, and a message names the object of its batch.
Upload(n, b, avls) ==
    /\ n \notin DOMAIN bucket
    /\ \A k \in DOMAIN bucket : bucket[k].batch # b
    /\ \A a \in avls : DateOf[a] <= today
    /\ bucket' = [k \in DOMAIN bucket \cup {n} |-> IF k = n THEN Holds(b, avls) ELSE bucket[k]]
    /\ UNCHANGED <<queued, tables, stage, msg, connected, today, bounds>>

Send(m) ==
    /\ m.name \in DOMAIN bucket /\ bucket[m.name].batch = m.batch
    /\ queued' = queued \cup {m}
    /\ UNCHANGED <<bucket, tables, stage, msg, connected, today, bounds>>

Midnight ==
    /\ today < LastDay
    /\ today' = today + 1
    /\ UNCHANGED <<bucket, queued, tables, stage, msg, connected, bounds>>

-----------------------------------------------------------------------------
InFlight(m) == \E w \in Workers : stage[w] # "idle" /\ msg[w] = m

\* Mutant: the worker goes on with the message of its last invocation.
ReceiveWithoutMessage(w, m) ==
    /\ stage[w] = "idle"
    /\ m \in queued
    /\ ~InFlight(m)
    /\ stage' = [stage EXCEPT ![w] = "received"]
    /\ UNCHANGED <<bucket, queued, tables, msg, connected, today, bounds>>

\* SQS hands a message to an idle worker; "at least once", so now and then to two of them.
Receive(w, m) ==
    /\ stage[w] = "idle"
    /\ m \in queued
    /\ InFlight(m) => duplicates < MaxDuplicates
    /\ duplicates' = IF InFlight(m) THEN duplicates + 1 ELSE duplicates
    /\ stage' = [stage EXCEPT ![w] = "received"]
    /\ msg' = [msg EXCEPT ![w] = m]
    /\ UNCHANGED <<bucket, queued, tables, connected, today, faults>>

\* The cursor of the environment's connection executes the next statement.
Advance(w, from, to) ==
    /\ stage[w] = from /\ connected[w]
    /\ stage' = [stage EXCEPT ![w] = to]
    /\ UNCHANGED <<bucket, queued, msg, connected, today, bounds>>

MarkInprogress(w) ==
    /\ Advance(w, "received", "marked")
    /\ dbStatus' = [dbStatus EXCEPT ![msg[w].batch] = "Inprogress"]
    /\ UNCHANGED <<staging, positions>>

\* Mutant: the whole staging table is emptied.
TruncateStaging(w) ==
    /\ Advance(w, "marked", "cleared")
    /\ staging' = {}
    /\ UNCHANGED <<dbStatus, positions>>

ClearStaging(w) ==
    /\ Advance(w, "marked", "cleared")
    /\ staging' = {r \in staging : r.batch # msg[w].batch}
    /\ UNCHANGED <<dbStatus, positions>>

\* aws_s3.table_import_from_s3: the rows bring the batch id they were written with.
ImportFile(w) ==
    /\ Advance(w, "cleared", "imported")
    /\ LET object == bucket[msg[w].name]
       IN staging' = staging \cup [batch : {object.batch}, avl : object.avls]
    /\ UNCHANGED <<dbStatus, positions>>

Staged(b) == {r.avl : r \in {r \in staging : r.batch = b}}

\* load_avl_tables: only the AVLs of today; those already there are left alone.
LoadAvlTables(w) ==
    /\ Advance(w, "imported", "loaded")
    /\ LET b == msg[w].batch
       IN /\ positions' = positions \cup {a \in Staged(b) : DateOf[a] = today}
          /\ staging' = {r \in staging : r.batch # b}
    /\ UNCHANGED dbStatus

MarkSuccess(w) ==
    /\ Advance(w, "loaded", "done")
    /\ dbStatus' = [dbStatus EXCEPT ![msg[w].batch] = "Success"]
    /\ UNCHANGED <<staging, positions>>

\* The invocation is over, one way or the other.
Leave(w) ==
    /\ stage' = [stage EXCEPT ![w] = "idle"]
    /\ msg' = [msg EXCEPT ![w] = NoMessage]

\* The handler returns, and the message is deleted.
Delete(w) ==
    /\ stage[w] = "done"
    /\ Leave(w)
    /\ queued' = queued \ {msg[w]}
    /\ UNCHANGED <<bucket, tables, connected, today, bounds>>

Handling(w) == stage[w] \notin {"idle", "done"}

Fault == faults < MaxFaults /\ faults' = faults + 1

\* Mutant: the exception is logged and not raised again, so the message is deleted.
Swallow(w) ==
    /\ Handling(w) /\ connected[w]
    /\ Fault
    /\ dbStatus' = [dbStatus EXCEPT ![msg[w].batch] = "Failed"]
    /\ stage' = [stage EXCEPT ![w] = "done"]
    /\ UNCHANGED <<bucket, queued, staging, positions, msg, connected, today, duplicates>>

\* A statement raises: the finally block writes "Failed", or raises as well, and the
\* exception leaves the handler.
Raise(w) ==
    /\ Handling(w) /\ connected[w]
    /\ Fault
    /\ \/ dbStatus' = [dbStatus EXCEPT ![msg[w].batch] = "Failed"]
       \/ UNCHANGED dbStatus
    /\ Leave(w)
    /\ UNCHANGED <<bucket, queued, staging, positions, connected, today, duplicates>>

\* Without a connection conn.cursor() or the next statement raises, and so does the finally
\* block: the exception leaves the handler, of this invocation and of every later one.
NotConnected(w) ==
    /\ Handling(w) /\ ~connected[w]
    /\ Leave(w)
    /\ UNCHANGED <<bucket, queued, tables, connected, today, bounds>>

-----------------------------------------------------------------------------
\* External: PostgreSQL and the environments of Lambda.

LoseConnection(w) ==
    /\ connected[w]
    /\ Fault
    /\ connected' = [connected EXCEPT ![w] = FALSE]
    /\ UNCHANGED <<bucket, queued, tables, stage, msg, today, duplicates>>

\* The invocation times out or is killed, and the next one starts in a new environment.
Die(w) ==
    /\ stage[w] # "idle"
    /\ Fault
    /\ Leave(w)
    /\ connected' = [connected EXCEPT ![w] = TRUE]
    /\ UNCHANGED <<bucket, queued, tables, today, duplicates>>

\* Lambda replaces an environment that has been there for some hours.
Recycle(w) ==
    /\ stage[w] = "idle"
    /\ connected' = [connected EXCEPT ![w] = TRUE]
    /\ UNCHANGED <<bucket, queued, tables, stage, msg, today, bounds>>

-----------------------------------------------------------------------------
Process(w) ==
    \/ MarkInprogress(w) \/ ClearStaging(w) \/ ImportFile(w)
    \/ LoadAvlTables(w) \/ MarkSuccess(w) \/ Delete(w) \/ NotConnected(w)

Serve(w) == Process(w) \/ \E m \in queued : Receive(w, m)

Trouble(w) == Raise(w) \/ LoseConnection(w) \/ Die(w) \/ Recycle(w)

Next ==
    \/ \E w \in Workers : Serve(w) \/ Trouble(w)
    \/ Midnight
    \/ \E m \in Messages : Send(m)
    \/ \E n \in Names, b \in Batches, avls \in SUBSET Avls : Upload(n, b, avls)

Spec == Init /\ [][Next]_dbVars

-----------------------------------------------------------------------------
(* A batch that is marked as ingested has all its AVLs of today in          *)
(* SiriVMPositions, whatever was staged, cleared, interrupted and delivered *)
(* again meanwhile (process_batch, load_avl_tables).                        *)
LoadedWhenSuccess == \A n \in DOMAIN bucket :
    dbStatus[bucket[n].batch] = "Success" =>
        {a \in bucket[n].avls : DateOf[a] = today} \subseteq positions

Settled(b) ==
    /\ \A m \in queued : m.batch # b
    /\ \A w \in Workers : stage[w] # "idle" => msg[w].batch # b

(* A batch that is through leaves nothing in the staging table, which the   *)
(* next batches would drag along (load_avl_tables.sql, last statement).     *)
NothingLeftStaged == \A r \in staging : ~Settled(r.batch)

(* "This ensures clean processing if the same batch is processed multiple   *)
(* times" (docs/Data Ingestion.md): a batch that is through and marked as   *)
(* ingested has its AVLs of today, when a message is also received twice.   *)
CleanReprocessing == \A n \in DOMAIN bucket :
    Settled(bucket[n].batch) /\ dbStatus[bucket[n].batch] = "Success" =>
        {a \in bucket[n].avls : DateOf[a] = today} \subseteq positions

(* "Copies the current batch data into the permanent SiriVMPositions table" *)
(* (docs/Data Ingestion.md): all of it, on either side of midnight.         *)
(* Not kept by the code: see the README, disagreements.                     *)
BatchCopied == \A n \in DOMAIN bucket :
    dbStatus[bucket[n].batch] = "Success" => bucket[n].avls \subseteq positions
=============================================================================
