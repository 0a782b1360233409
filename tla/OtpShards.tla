----------------------------- MODULE OtpShards -----------------------------
(***************************************************************************)
(* The shards of live matching.  Each has a FIFO queue, a Lambda of its    *)
(* own that takes one message at a time, and a stop history in S3.  S3     *)
(* ingestion tells the queues of a new batch one by one, and timetable S3  *)
(* generation of a new extract, each without looking at the other.  A      *)
(* shard keeps of a batch the AVLs of its own operators, and all shards    *)
(* write the one otp_update_status of the batch.                           *)
(*                                                                         *)
(* The environment of a Lambda keeps its timetable and its connection from *)
(* one message to the next.  batch_failed and the reads of the extract are *)
(* not in the try of the handler: what they raise leaves the message where *)
(* it is.  How one journey is matched is in LiveMatching.                  *)
(***************************************************************************)
EXTENDS Integers, Sequences, FiniteSets

CONSTANTS
    NumShards,      \* no_of_shards, and the length of the table in shards.py
    Operators,
    Table,          \* the table of shards.py: the shard of some of the operators
    Hash,           \* Hash[o]: sha224 of the operator's code
    MaxBatches,     \* bound: batches of AVLs
    MaxExtracts,    \* bound: extracts written after the first
    MaxFaults       \* bound: calls that raise, connections lost, invocations that die

Shards == 0 .. NumShards - 1

ASSUME OtpShardsAssumption ==
    /\ NumShards \in Nat \ {0}
    /\ DOMAIN Table \subseteq Operators /\ \A o \in DOMAIN Table : Table[o] \in Shards
    /\ Hash \in [Operators -> Nat]
    /\ {MaxBatches, MaxExtracts, MaxFaults} \subseteq Nat

VARIABLES
    extract,        \* timetable/timetable.json: the extracts are numbered
    writer,         \* the next shard to be told of it, NumShards when none is
    feed,           \* the last batch, and the next shard to be told of it
    queue,          \* queue[s]: a batch, or 0 and the extract there was
    cache,          \* cache[s]: main_timetable, or NoExtract
    connected,      \* connected[s]: the connection of db_client is open
    step,           \* step[s]: how far the handler has come
    working,        \* working[s]: the history it goes on with
    history,        \* history[k]: the stop history under a key, by operator
    status,         \* otp_update_status
    acknowledged,   \* observer: the batches that left the queue of a shard ...
    failed,         \* ... the ones among them it caught an error for ...
    told,           \* ... and the last extract it was told of
    faults

world == <<extract, writer, feed, queue>>
lambdas == <<cache, connected, step, working>>
outcome == <<history, status>>
observers == <<acknowledged, failed, told>>
shardVars == <<world, lambdas, outcome, observers, faults>>

NoExtract == -1
NoHistory == [o \in Operators |-> <<>>]
Steps == {"idle", "delivered", "matched", "updated", "saved"}

\* shard_lookup, and the hash where an operator is not in it.
ShardOf(o) == IF o \in DOMAIN Table THEN Table[o] ELSE Hash[o] % NumShards

\* Mutant: the key of the history does not tell the shards apart.
OneKey(s) == 0

\* stop_history_key
Key(s) == s

ShardsInit ==
    /\ extract = 0 /\ writer = NumShards
    /\ feed = [batch |-> 0, next |-> NumShards]
    /\ queue = [s \in Shards |-> <<>>]
    /\ cache = [s \in Shards |-> NoExtract]
    /\ connected = [s \in Shards |-> TRUE]
    /\ step = [s \in Shards |-> "idle"]
    /\ working = [s \in Shards |-> NoHistory]
    /\ history = [s \in Shards |-> NoHistory]
    /\ status = [b \in 1 .. MaxBatches |-> "None"]
    /\ acknowledged = [s \in Shards |-> {}] /\ failed = [s \in Shards |-> {}]
    /\ told = [s \in Shards |-> 0]
    /\ faults = 0

Fault == faults < MaxFaults /\ faults' = faults + 1

-----------------------------------------------------------------------------
\* S3 ingestion and timetable S3 generation.

NewBatch ==
    /\ feed.next = NumShards /\ feed.batch < MaxBatches
    /\ feed' = [batch |-> feed.batch + 1, next |-> 0]
    /\ UNCHANGED <<extract, writer, queue, lambdas, outcome, observers, faults>>

SendBatch ==
    /\ feed.next \in Shards
    /\ feed' = [feed EXCEPT !.next = @ + 1]
    /\ queue' = [queue EXCEPT ![feed.next] = Append(@, [batch |-> feed.batch, extract |-> 0])]
    /\ UNCHANGED <<extract, writer, lambdas, outcome, observers, faults>>

PutExtract ==
    /\ extract < MaxExtracts /\ writer = NumShards
    /\ extract' = extract + 1
    /\ writer' = 0
    /\ UNCHANGED <<feed, queue, lambdas, outcome, observers, faults>>

NotifyOfExtract ==
    /\ writer \in Shards
    /\ writer' = writer + 1
    /\ queue' = [queue EXCEPT ![writer] = Append(@, [batch |-> 0, extract |-> extract])]
    /\ UNCHANGED <<extract, feed, lambdas, outcome, observers, faults>>

\* A queue cannot be written to: the loop over the shards ends.
GiveUpSending ==
    /\ Fault
    /\ \/ feed.next \in Shards /\ feed' = [feed EXCEPT !.next = NumShards] /\ UNCHANGED writer
       \/ writer \in Shards /\ writer' = NumShards /\ UNCHANGED feed
    /\ UNCHANGED <<extract, queue, lambdas, outcome, observers>>

-----------------------------------------------------------------------------
\* The handler of shard s.

Message(s) == Head(queue[s])
Batch(s) == Message(s).batch

\* It returns, and the message is deleted.
Delete(s) ==
    /\ queue' = [queue EXCEPT ![s] = Tail(@)]
    /\ step' = [step EXCEPT ![s] = "idle"]
    /\ working' = [working EXCEPT ![s] = NoHistory]
    /\ UNCHANGED <<extract, writer, feed>>

\* It raises, and the message will be delivered again.
Leave(s) ==
    /\ step' = [step EXCEPT ![s] = "idle"]
    /\ working' = [working EXCEPT ![s] = NoHistory]
    /\ UNCHANGED world

\* Mutant: no `continue` after it.
UpdateTimetableGoesOn(s) ==
    /\ step[s] = "idle" /\ queue[s] # <<>> /\ Batch(s) = 0
    /\ cache' = [cache EXCEPT ![s] = extract]
    /\ told' = [told EXCEPT ![s] = Message(s).extract]
    /\ step' = [step EXCEPT ![s] = "delivered"]
    /\ UNCHANGED <<world, connected, working, outcome, acknowledged, failed, faults>>

\* "Updating main timetable"
UpdateTimetable(s) ==
    /\ step[s] = "idle" /\ queue[s] # <<>> /\ Batch(s) = 0
    /\ cache' = [cache EXCEPT ![s] = extract]
    /\ told' = [told EXCEPT ![s] = Message(s).extract]
    /\ Delete(s)
    /\ UNCHANGED <<connected, outcome, acknowledged, failed, faults>>

\* Mutant: nothing is fetched on a cold start, and the handler raises KeyError.
DeliverWarm(s) ==
    /\ step[s] = "idle" /\ queue[s] # <<>> /\ Batch(s) # 0 /\ cache[s] # NoExtract
    /\ step' = [step EXCEPT ![s] = "delivered"]
    /\ UNCHANGED <<world, cache, connected, working, outcome, observers, faults>>

\* "Fetching main timetable", on a cold start.
Deliver(s) ==
    /\ step[s] = "idle" /\ queue[s] # <<>> /\ Batch(s) # 0
    /\ cache' = [cache EXCEPT ![s] = IF @ = NoExtract THEN extract ELSE @]
    /\ step' = [step EXCEPT ![s] = "delivered"]
    /\ UNCHANGED <<world, connected, working, outcome, observers, faults>>

\* Mutant: the extract is read inside the try.
ExtractUnreadableCaught(s) ==
    /\ step[s] = "idle" /\ queue[s] # <<>> /\ Batch(s) = 0
    /\ Fault
    /\ told' = [told EXCEPT ![s] = Message(s).extract]
    /\ Delete(s)
    /\ UNCHANGED <<cache, connected, outcome, acknowledged, failed>>

\* get_timetable_extract raises.
ExtractUnreadable(s) ==
    /\ step[s] = "idle" /\ queue[s] # <<>>
    /\ Batch(s) # 0 => cache[s] = NoExtract
    /\ Fault
    /\ UNCHANGED <<world, lambdas, outcome, observers>>

\* get_stop_history, get_avl_data and match_avl_batch; an AVL with the time of the last
\* one of its journey is skipped, so that a second delivery of a batch adds nothing.
Match(s) ==
    /\ step[s] = "delivered"
    /\ working' = [working EXCEPT ![s] =
         [o \in Operators |->
            LET h == history[Key(s)][o]
            IN IF ShardOf(o) # s \/ (h # <<>> /\ h[Len(h)] = Batch(s)) THEN h
               ELSE Append(h, Batch(s))]]
    /\ step' = [step EXCEPT ![s] = "matched"]
    /\ UNCHANGED <<world, cache, connected, outcome, observers, faults>>

\* live_update_success
UpdateRows(s) ==
    /\ step[s] = "matched" /\ connected[s]
    /\ status' = [status EXCEPT ![Batch(s)] = "Success"]
    /\ step' = [step EXCEPT ![s] = "updated"]
    /\ UNCHANGED <<world, cache, connected, working, history, observers, faults>>

\* export_stop_history
SaveHistory(s) ==
    /\ step[s] = "updated"
    /\ history' = [history EXCEPT ![Key(s)] = working[s]]
    /\ step' = [step EXCEPT ![s] = "saved"]
    /\ UNCHANGED <<world, cache, connected, working, status, observers, faults>>

Acknowledge(s) ==
    /\ step[s] = "saved"
    /\ acknowledged' = [acknowledged EXCEPT ![s] = @ \cup {Batch(s)}]
    /\ Delete(s)
    /\ UNCHANGED <<cache, connected, outcome, failed, told, faults>>

\* Mutant: what batch_failed raises is caught as well.
FailBatchQuietly(s) ==
    /\ acknowledged' = [acknowledged EXCEPT ![s] = @ \cup {Batch(s)}]
    /\ failed' = [failed EXCEPT ![s] = @ \cup {Batch(s)}]
    /\ status' = IF connected[s] THEN [status EXCEPT ![Batch(s)] = "Failed"] ELSE status
    /\ Delete(s)
    /\ UNCHANGED told

\* The except: batch_failed needs the connection, too.
FailBatch(s) ==
    \/ /\ connected[s]
       /\ status' = [status EXCEPT ![Batch(s)] = "Failed"]
       /\ acknowledged' = [acknowledged EXCEPT ![s] = @ \cup {Batch(s)}]
       /\ failed' = [failed EXCEPT ![s] = @ \cup {Batch(s)}]
       /\ Delete(s)
       /\ UNCHANGED told
    \/ /\ ~connected[s]
       /\ Leave(s)
       /\ UNCHANGED <<status, observers>>

\* A call raises; put_object may have written the history all the same.
CallFails(s) ==
    /\ step[s] \in {"delivered", "matched", "updated"}
    /\ Fault
    /\ \/ UNCHANGED history
       \/ step[s] = "updated" /\ history' = [history EXCEPT ![Key(s)] = working[s]]
    /\ FailBatch(s)
    /\ UNCHANGED <<cache, connected>>

\* The connection is gone, and nothing opens another.
NotConnected(s) ==
    /\ step[s] = "matched" /\ ~connected[s]
    /\ FailBatch(s)
    /\ UNCHANGED <<cache, connected, history, faults>>

-----------------------------------------------------------------------------
\* External: PostgreSQL and the environments of Lambda.

LoseConnection(s) ==
    /\ connected[s]
    /\ Fault
    /\ connected' = [connected EXCEPT ![s] = FALSE]
    /\ UNCHANGED <<world, cache, step, working, outcome, observers>>

\* The next invocation starts cold.
Renewed(s) ==
    /\ cache' = [cache EXCEPT ![s] = NoExtract]
    /\ connected' = [connected EXCEPT ![s] = TRUE]

Die(s) ==
    /\ step[s] # "idle"
    /\ Fault
    /\ Renewed(s) /\ Leave(s)
    /\ UNCHANGED <<outcome, observers>>

\* Lambda replaces an environment that has been there for some hours.
Recycle(s) ==
    /\ step[s] = "idle"
    /\ Renewed(s)
    /\ UNCHANGED <<world, step, working, outcome, observers, faults>>

Handle(s) ==
    \/ UpdateTimetable(s) \/ Deliver(s) \/ Match(s) \/ UpdateRows(s)
    \/ SaveHistory(s) \/ Acknowledge(s) \/ NotConnected(s)

Send == NewBatch \/ SendBatch \/ PutExtract \/ NotifyOfExtract \/ GiveUpSending

ShardsNext ==
    \/ Send
    \/ \E s \in Shards :
         \/ Handle(s)
         \/ ExtractUnreadable(s) \/ CallFails(s)
         \/ LoseConnection(s) \/ Die(s) \/ Recycle(s)

ShardsSpec == ShardsInit /\ [][ShardsNext]_shardVars

\* Lambda polls its queues and runs an invocation to its end; every environment is
\* replaced now and then.
ShardsFairSpec ==
    /\ ShardsSpec
    /\ \A s \in Shards : WF_shardVars(Handle(s)) /\ SF_shardVars(Recycle(s))

-----------------------------------------------------------------------------
ShardsTypeOK ==
    /\ extract \in Nat /\ writer \in 0 .. NumShards
    /\ feed \in [batch : 0 .. MaxBatches, next : 0 .. NumShards]
    /\ queue \in [Shards -> Seq([batch : 0 .. MaxBatches, extract : Nat])]
    /\ cache \in [Shards -> Nat \cup {NoExtract}] /\ connected \in [Shards -> BOOLEAN]
    /\ step \in [Shards -> Steps]
    /\ working \in [Shards -> [Operators -> Seq(1 .. MaxBatches)]]
    /\ history \in [Shards -> [Operators -> Seq(1 .. MaxBatches)]]
    /\ status \in [1 .. MaxBatches -> {"None", "Success", "Failed"}]
    /\ acknowledged \in [Shards -> SUBSET (1 .. MaxBatches)]
    /\ failed \in [Shards -> SUBSET (1 .. MaxBatches)]
    /\ told \in [Shards -> Nat] /\ faults \in Nat
    /\ \A s \in Shards : step[s] # "idle" => queue[s] # <<>> /\ Batch(s) # 0

(* A batch is never matched with an older extract than the last one that    *)
(* was announced before it in the queue of the shard, whatever could not be *)
(* read, and whenever the environment was replaced (the cache of app.py).   *)
ExtractNotOlder == \A s \in Shards : step[s] # "idle" => cache[s] >= told[s]

(* The AVLs of an operator in a batch enter one stop history, that of the   *)
(* one shard, once and in the order of the feed; of                          *)
(* the batches the shard has dealt with, only those it failed are missing   *)
(* (shard_lookup, stop_history_key, and the position of the export).        *)
EachOperatorOnce == \A o \in Operators : \E s \in Shards :
    LET h == history[s][o]
    IN /\ \A t \in Shards \ {s} : history[t][o] = <<>>
       /\ \A i, j \in DOMAIN h : i < j => h[i] < h[j]
       /\ \A b \in acknowledged[s] \ failed[s] : \E i \in DOMAIN h : h[i] = b

(* No shard lets go of a batch before otp_update_status tells something of  *)
(* it: where batch_failed cannot write, the message stays.                  *)
AcknowledgedIsMarked ==
    \A s \in Shards : \A b \in acknowledged[s] : status[b] # "None"

(* "Update database to reflect failed matching" (batch_failed): what one    *)
(* shard has written as failed is not overwritten by another one's success. *)
(* Not kept by the code: see the README, disagreements.                     *)
FailedIsKept ==
    \A b \in 1 .. MaxBatches : (\E s \in Shards : b \in failed[s]) => status[b] = "Failed"

(* When the feed pauses, every queue is worked off in the end: a lost       *)
(* connection or an extract that cannot be read holds the queue up, and the *)
(* next environment goes on with it.                                        *)
ShardsCatchUp == <>[](\A s \in Shards : queue[s] = <<>>)
=============================================================================
