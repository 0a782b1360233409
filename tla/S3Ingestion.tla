---------------------------- MODULE S3Ingestion ----------------------------
(***************************************************************************)
(* S3 ingestion (sirivm_s3_ingestion_function/app.py), composed with DB    *)
(* ingestion.  One invocation at a time takes the SIRI-VM file at the head *)
(* of a FIFO queue, records a batch, writes the AVLs of the file to an S3  *)
(* object named after the second it started in, and tells DB ingestion and *)
(* then the OTP matching shards, one by one.                               *)
(*                                                                         *)
(* Errors never leave the handler, so the file is gone from the queue      *)
(* after an error; it is delivered again only when the invocation dies.    *)
(***************************************************************************)
EXTENDS DbIngestion, Sequences

CONSTANTS
    NumFiles,       \* bound: files announced by the feed
    Content,        \* Content[f]: the AVLs of file f
    NumShards,      \* no_of_shards
    SecondsApart,   \* seconds between the starts of two invocations, at least
    MaxFailures     \* bound: invocations that catch an error or die

ASSUME S3Assumption ==
    /\ NumFiles \in Nat /\ NumShards \in Nat \ {0}
    /\ Content \in [1 .. NumFiles -> SUBSET Avls]
    /\ SecondsApart \in Nat /\ MaxFailures \in Nat
    /\ 1 .. NumFiles + MaxFailures = Batches
    /\ \A b \in Batches : 1 + SecondsApart * b \in Names

VARIABLES
    announced,  \* files announced so far
    inbox,      \* the files in sirivm-ingestion-queue.fifo
    step,       \* how far the invocation has come
    shard,      \* shard_no
    batch,      \* batch_id: the last row of the batch table
    clock,      \* the second of the last invocation's start, which names its object
    source,     \* source[b]: the file that batch b was made from
    s3Status,   \* batch.s3_ingestion_status
    notified,   \* notified[s]: the batches sent to the queue of shard s
    failures

s3Vars == <<announced, inbox, step, shard, batch, clock, source, s3Status, notified, failures>>
allVars == <<dbVars, s3Vars>>

Shards == 1 .. NumShards
Steps == {"waiting", "created", "uploaded", "sent", "notifying"}

S3Init ==
    /\ Init
    /\ announced = 0 /\ inbox = <<>>
    /\ step = "waiting" /\ shard = 1
    /\ batch = 0 /\ clock = 1
    /\ source = <<>> /\ s3Status = <<>>
    /\ notified = [s \in Shards |-> <<>>]
    /\ failures = 0

-----------------------------------------------------------------------------
\* A notification of the SNS topic of IAVL enters the queue.
Announce ==
    /\ announced < NumFiles
    /\ \A a \in Content[announced + 1] : DateOf[a] <= today
    /\ announced' = announced + 1
    /\ inbox' = Append(inbox, announced + 1)
    /\ UNCHANGED <<dbVars, step, shard, batch, clock, source, s3Status, notified, failures>>

\* Mutant: objects are named after the minute.
CreateBatchOfTheMinute ==
    /\ step = "waiting" /\ inbox # <<>>
    /\ batch' = batch + 1
    /\ source' = Append(source, Head(inbox))
    /\ s3Status' = Append(s3Status, "Inprogress")
    /\ step' = "created"
    /\ UNCHANGED <<dbVars, announced, inbox, shard, clock, notified, failures>>

\* INSERT INTO public.batch ... RETURNING batch_id.
CreateBatch ==
    /\ step = "waiting" /\ inbox # <<>>
    /\ batch' = batch + 1
    /\ clock' = clock + SecondsApart
    /\ source' = Append(source, Head(inbox))
    /\ s3Status' = Append(s3Status, "Inprogress")
    /\ step' = "created"
    /\ UNCHANGED <<dbVars, announced, inbox, shard, notified, failures>>

\* Mutant: DB ingestion is told before the object is written.
SendEarly ==
    /\ step = "created"
    /\ queued' = queued \cup {[batch |-> batch, name |-> clock]}
    /\ step' = "uploaded"
    /\ UNCHANGED <<bucket, tables, stage, msg, connected, today, bounds,
                   announced, inbox, shard, batch, clock, source, s3Status, notified, failures>>

\* get_object, parse_xml and write_list_to_file.
UploadFile ==
    /\ step = "created"
    /\ bucket' = [n \in DOMAIN bucket \cup {clock} |->
                    IF n = clock THEN Holds(batch, Content[Head(inbox)]) ELSE bucket[n]]
    /\ step' = "uploaded"
    /\ UNCHANGED <<queued, tables, stage, msg, connected, today, bounds,
                   announced, inbox, shard, batch, clock, source, s3Status, notified, failures>>

SendToProcess ==
    /\ step = "uploaded"
    /\ queued' = queued \cup {[batch |-> batch, name |-> clock]}
    /\ step' = "sent"
    /\ UNCHANGED <<bucket, tables, stage, msg, connected, today, bounds,
                   announced, inbox, shard, batch, clock, source, s3Status, notified, failures>>

MarkIngested ==
    /\ step = "sent"
    /\ s3Status' = [s3Status EXCEPT ![batch] = "Success"]
    /\ step' = "notifying" /\ shard' = 1
    /\ UNCHANGED <<dbVars, announced, inbox, batch, clock, source, notified, failures>>

\* The handler returns: the message of the file is deleted.
Return == step' = "waiting" /\ inbox' = Tail(inbox)

NotifyShard ==
    /\ step = "notifying"
    /\ notified' = [notified EXCEPT ![shard] = Append(@, batch)]
    /\ IF shard < NumShards
          THEN shard' = shard + 1 /\ UNCHANGED <<step, inbox>>
          ELSE Return /\ UNCHANGED shard
    /\ UNCHANGED <<dbVars, announced, batch, clock, source, s3Status, failures>>

Fail == failures < MaxFailures /\ failures' = failures + 1

\* psycopg2.connect or the INSERT raises: logged by the outermost except.
NoConnection ==
    /\ step = "waiting" /\ inbox # <<>>
    /\ Fail /\ Return
    /\ UNCHANGED <<dbVars, announced, shard, batch, clock, source, s3Status, notified>>

\* A call before the end of MarkIngested raises: one of the nested excepts writes "Failed",
\* unless the database fails that as well.
CatchError ==
    /\ step \in {"created", "uploaded", "sent"}
    /\ Fail /\ Return
    /\ s3Status' \in {s3Status, [s3Status EXCEPT ![batch] = "Failed"]}
    /\ UNCHANGED <<dbVars, announced, shard, batch, clock, source, notified>>

\* Sending to a shard raises: the cursor is closed by now, so that every except that wants to
\* write "Failed" raises in its turn, until the outermost one logs it.
CatchNotifyError ==
    /\ step = "notifying"
    /\ Fail /\ Return
    /\ UNCHANGED <<dbVars, announced, shard, batch, clock, source, s3Status, notified>>

\* Mutant: the file goes to the tail of the queue, as in a queue that is not FIFO.
Requeue ==
    /\ step # "waiting"
    /\ Fail
    /\ step' = "waiting" /\ inbox' = Append(Tail(inbox), Head(inbox))
    /\ UNCHANGED <<dbVars, announced, shard, batch, clock, source, s3Status, notified>>

\* The invocation times out or is killed: the file stays at the head of the queue.
DieIngesting ==
    /\ step # "waiting"
    /\ Fail
    /\ step' = "waiting"
    /\ UNCHANGED <<dbVars, announced, inbox, shard, batch, clock, source, s3Status, notified>>

Ingest == CreateBatch \/ UploadFile \/ SendToProcess \/ MarkIngested \/ NotifyShard

DbStep == UNCHANGED s3Vars /\ (Midnight \/ \E w \in Workers : Serve(w) \/ Trouble(w))

S3Next ==
    \/ Announce
    \/ Ingest
    \/ NoConnection \/ CatchError \/ CatchNotifyError \/ DieIngesting
    \/ DbStep

S3Spec == S3Init /\ [][S3Next]_allVars

\* Lambda polls its queues and runs each invocation to its end, or the message comes again;
\* every environment is replaced now and then, and with it a connection that was lost.
S3FairSpec ==
    /\ S3Spec
    /\ WF_allVars(Ingest)
    /\ \A w \in Workers :
          /\ WF_allVars(UNCHANGED s3Vars /\ Serve(w))
          /\ SF_allVars(UNCHANGED s3Vars /\ Recycle(w))

-----------------------------------------------------------------------------
(* Every message, to DB ingestion or to a shard, names an object that holds *)
(* the AVLs of its own batch: the matcher raises "AVLs with multiple match  *)
(* ids retrieved" (validate_avl_list) when it does not.                     *)
ObjectIsOwn ==
    LET Owns(b) == \E n \in DOMAIN bucket : bucket[n] = Holds(b, Content[source[b]])
    IN /\ \A m \in queued : Owns(m.batch)
       /\ \A s \in Shards : \A i \in DOMAIN notified[s] : Owns(notified[s][i])

(* "The queue is FIFO to ensure data is processed in chronological order"   *)
(* (docs/Data Ingestion.md): a shard is never told of a file after a later  *)
(* one, however often an invocation dies and its file comes again.          *)
ShardsSeeFilesInOrder == \A s \in Shards : \A i, j \in DOMAIN notified[s] :
    i < j => source[notified[s][i]] <= source[notified[s][j]]

(* The status is updated after all the OTP matching queues are notified     *)
(* (docs/Data Ingestion.md, steps 3 and 4 of S3 Ingestion): a batch that is *)
(* marked as ingested, and dealt with, has reached every shard.             *)
(* Not kept by the code: see the README, disagreements.                     *)
NotifiedWhenSuccess == step = "waiting" =>
    \A b \in DOMAIN s3Status : s3Status[b] = "Success" =>
        \A s \in Shards : \E i \in DOMAIN notified[s] : notified[s][i] = b

(* What is once in the process queue is ingested in the end, whatever fails *)
(* on the way: DB ingestion raises its errors, so that the message stays    *)
(* until an environment with a connection takes it (the raise, and conn).   *)
SentIsIngested == \A b \in Batches :
    (\E m \in queued : m.batch = b) ~> dbStatus[b] = "Success"
=============================================================================
