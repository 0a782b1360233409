-------------------------- MODULE IngestionProofs --------------------------
(***************************************************************************)
(* DB ingestion, for any number of batches, workers, AVLs, faults and      *)
(* days: what is marked as ingested is in SiriVMPositions, provided that   *)
(* no message is received while it is in flight.  (Module DbIngestion has  *)
(* a run that shows what happens when one is.)                             *)
(*                                                                         *)
(* S3 ingestion, for any number of files, shards and failures: the shards  *)
(* see the files in the order of the feed, and, when no two invocations    *)
(* start in the same second, S3 ingestion keeps to what DB ingestion       *)
(* relies on, so that what is proved of DB ingestion alone holds of both.  *)
(***************************************************************************)
EXTENDS S3Ingestion, SequenceTheorems, TLAPS

-----------------------------------------------------------------------------
(* DB ingestion. *)

NoDuplicates == MaxDuplicates = 0

Own(m) == m.name \in DOMAIN bucket /\ bucket[m.name].batch = m.batch

OwnObjects ==
    /\ \A m \in queued : Own(m)
    /\ \A w \in Workers : stage[w] # "idle" => Own(msg[w])

OneObjectEach == \A k, n \in DOMAIN bucket : bucket[k].batch = bucket[n].batch => k = n

KnownBatches == \A b \in Batches :
    dbStatus[b] # "None" => \E n \in DOMAIN bucket : bucket[n].batch = b

NotOfTheFuture == \A n \in DOMAIN bucket : \A a \in bucket[n].avls : DateOf[a] <= today

OneWorkerEach == \A v, w \in Workers :
    stage[v] # "idle" /\ stage[w] # "idle" /\ msg[v] = msg[w] => v = w

AllStaged == \A w \in Workers : stage[w] = "imported" =>
    \A a \in bucket[msg[w].name].avls : [batch |-> msg[w].batch, avl |-> a] \in staging

AllLoaded == \A w \in Workers : stage[w] = "loaded" =>
    \A a \in bucket[msg[w].name].avls : DateOf[a] = today => a \in positions

LoadedInv ==
    /\ DbTypeOK
    /\ OwnObjects /\ OneObjectEach /\ KnownBatches /\ NotOfTheFuture
    /\ OneWorkerEach /\ AllStaged /\ AllLoaded
    /\ LoadedWhenSuccess

USE DbAssumption

-----------------------------------------------------------------------------
(* Every step keeps the types of the tables, of the queue, of the bucket    *)
(* and of the workers (all of app.py and load_avl_tables.sql).              *)
LEMMA DbTypeStep == DbTypeOK /\ OwnObjects /\ [Next]_dbVars => DbTypeOK' /\ OwnObjects'
<1> SUFFICES ASSUME DbTypeOK, OwnObjects, [Next]_dbVars PROVE DbTypeOK' /\ OwnObjects'
  OBVIOUS
<1> USE DEF DbTypeOK, OwnObjects, Own, Messages, Objects, StagedRows, WorkerStages
<1>1. ASSUME NEW n \in Names, NEW b \in Batches, NEW avls \in SUBSET Avls, Upload(n, b, avls)
      PROVE  DbTypeOK' /\ OwnObjects'
  BY <1>1 DEF Upload, Holds, tables, bounds
<1>2. ASSUME NEW m \in Messages, Send(m) PROVE DbTypeOK' /\ OwnObjects'
  BY <1>2 DEF Send, tables, bounds
<1>3. CASE Midnight
  BY <1>3 DEF Midnight, tables, bounds
<1>4. ASSUME NEW w \in Workers, NEW m \in queued, Receive(w, m) PROVE DbTypeOK' /\ OwnObjects'
  BY <1>4 DEF Receive, tables
<1>5. ASSUME NEW w \in Workers, MarkInprogress(w) PROVE DbTypeOK' /\ OwnObjects'
  BY <1>5 DEF MarkInprogress, Advance, bounds
<1>6. ASSUME NEW w \in Workers, ClearStaging(w) PROVE DbTypeOK' /\ OwnObjects'
  BY <1>6 DEF ClearStaging, Advance, bounds
<1>7. ASSUME NEW w \in Workers, ImportFile(w) PROVE DbTypeOK' /\ OwnObjects'
  BY <1>7 DEF ImportFile, Advance, bounds
<1>8. ASSUME NEW w \in Workers, LoadAvlTables(w) PROVE DbTypeOK' /\ OwnObjects'
  BY <1>8 DEF LoadAvlTables, Advance, Staged, bounds
<1>9. ASSUME NEW w \in Workers, MarkSuccess(w) PROVE DbTypeOK' /\ OwnObjects'
  BY <1>9 DEF MarkSuccess, Advance, bounds
<1>10. ASSUME NEW w \in Workers, Delete(w) PROVE DbTypeOK' /\ OwnObjects'
  BY <1>10 DEF Delete, Leave, tables, bounds
<1>11. ASSUME NEW w \in Workers, Raise(w) PROVE DbTypeOK' /\ OwnObjects'
  BY <1>11 DEF Raise, Leave, Fault
<1>12. ASSUME NEW w \in Workers, NotConnected(w) PROVE DbTypeOK' /\ OwnObjects'
  BY <1>12 DEF NotConnected, Leave, tables, bounds
<1>13. ASSUME NEW w \in Workers, LoseConnection(w) \/ Recycle(w) PROVE DbTypeOK' /\ OwnObjects'
  <2>1. /\ UNCHANGED <<bucket, queued, dbStatus, staging, positions, stage, msg, today, duplicates>>
        /\ faults' = faults + 1 \/ faults' = faults
    BY <1>13 DEF LoseConnection, Recycle, Fault, tables, bounds
  <2>2. connected' \in [Workers -> BOOLEAN]
    BY <1>13 DEF LoseConnection, Recycle
  <2> QED
    BY <2>1, <2>2
<1>14. ASSUME NEW w \in Workers, Die(w) PROVE DbTypeOK' /\ OwnObjects'
  BY <1>14 DEF Die, Leave, Fault, tables
<1>15. CASE UNCHANGED dbVars
  BY <1>15 DEF dbVars, tables, bounds
<1> QED
  BY <1>1, <1>2, <1>3, <1>4, <1>5, <1>6, <1>7, <1>8, <1>9, <1>10, <1>11, <1>12, <1>13, <1>14, <1>15
     DEF Next, Serve, Process, Trouble

(* The inductive step: what a worker has staged or loaded stays so, because *)
(* no other worker handles the same message and no object is replaced.      *)
LEMMA LoadedStep == NoDuplicates /\ LoadedInv /\ [Next]_dbVars => LoadedInv'
<1> SUFFICES ASSUME NoDuplicates, LoadedInv, [Next]_dbVars PROVE LoadedInv'
  OBVIOUS
<1> USE DEF LoadedInv, OwnObjects, Own, OneObjectEach, KnownBatches, NotOfTheFuture,
            OneWorkerEach, AllStaged, AllLoaded, LoadedWhenSuccess
<1> USE DEF DbTypeOK, Messages, tables, bounds, Advance, Leave, Fault
<1> DbTypeOK' /\ OwnObjects'
  BY DbTypeStep
<1>1. ASSUME NEW n \in Names, NEW b \in Batches, NEW avls \in SUBSET Avls, Upload(n, b, avls)
      PROVE  LoadedInv'
  <2>1. LoadedWhenSuccess'
    BY <1>1, SMT DEF Objects, Upload, Holds
  <2>2. (OneObjectEach /\ KnownBatches /\ NotOfTheFuture /\ OneWorkerEach /\ AllStaged /\ AllLoaded)'
    BY <1>1, SMT DEF Upload, Holds
  <2> QED
    BY <2>1, <2>2
<1>2. ASSUME NEW m \in Messages, Send(m) PROVE LoadedInv'
  BY <1>2, SMT DEF Send
<1>3. CASE Midnight
  <2>1. NotOfTheFuture'
    BY <1>3, SMT DEF Objects, Midnight
  <2>2. AllLoaded'
    BY <1>3, SMT DEF Objects, Midnight
  <2>3. LoadedWhenSuccess'
    BY <1>3, SMT DEF Objects, Midnight
  <2>4. (OneObjectEach /\ KnownBatches /\ OneWorkerEach /\ AllStaged)'
    BY <1>3, SMT DEF Midnight
  <2> QED
    BY <2>1, <2>2, <2>3, <2>4
<1>4. ASSUME NEW w \in Workers, NEW m \in queued, Receive(w, m) PROVE LoadedInv'
  <2>1. OneWorkerEach'
    BY <1>4, SMT DEF NoDuplicates, Receive, InFlight
  <2>2. (OneObjectEach /\ KnownBatches /\ NotOfTheFuture /\ AllStaged /\ AllLoaded /\ LoadedWhenSuccess)'
    BY <1>4, SMT DEF Receive, InFlight
  <2> QED
    BY <2>1, <2>2
<1>5. ASSUME NEW w \in Workers, MarkInprogress(w) PROVE LoadedInv'
  <2>1. KnownBatches'
    BY <1>5, SMT DEF MarkInprogress
  <2>2. (OneObjectEach /\ NotOfTheFuture /\ OneWorkerEach /\ AllStaged /\ AllLoaded /\ LoadedWhenSuccess)'
    BY <1>5, SMT DEF MarkInprogress
  <2> QED
    BY <2>1, <2>2
<1>6. ASSUME NEW w \in Workers, ClearStaging(w) PROVE LoadedInv'
  <2>1. AllStaged'
    BY <1>6, SMT DEF ClearStaging
  <2>2. (OneObjectEach /\ KnownBatches /\ NotOfTheFuture /\ OneWorkerEach /\ AllLoaded /\ LoadedWhenSuccess)'
    BY <1>6, SMT DEF ClearStaging
  <2> QED
    BY <2>1, <2>2
<1>7. ASSUME NEW w \in Workers, ImportFile(w) PROVE LoadedInv'
  <2>1. AllStaged'
    BY <1>7, SMT DEF ImportFile
  <2>2. (OneObjectEach /\ KnownBatches /\ NotOfTheFuture /\ OneWorkerEach /\ AllLoaded /\ LoadedWhenSuccess)'
    BY <1>7, SMT DEF ImportFile
  <2> QED
    BY <2>1, <2>2
<1>8. ASSUME NEW w \in Workers, LoadAvlTables(w) PROVE LoadedInv'
  <2>1. AllStaged'
    BY <1>8, SMT DEF LoadAvlTables, Staged
  <2>2. AllLoaded'
    <3> SUFFICES ASSUME NEW v \in Workers, stage'[v] = "loaded",
                        NEW a \in bucket[msg[v].name].avls, DateOf[a] = today
                 PROVE  a \in positions'
      BY <1>8 DEF LoadAvlTables
    <3>1. CASE v = w
      <4> DEFINE r == [batch |-> msg[w].batch, avl |-> a]
      <4>1. r \in staging /\ r.batch = msg[w].batch /\ r.avl = a
        BY <1>8, <3>1 DEF LoadAvlTables
      <4>2. a \in Staged(msg[w].batch)
        BY <4>1 DEF Staged
      <4>3. a \in Avls
        BY <4>1 DEF StagedRows
      <4> QED
        BY <1>8, <4>2, <4>3 DEF LoadAvlTables
    <3>2. CASE v # w
      BY <1>8, <3>2 DEF LoadAvlTables
    <3> QED
      BY <3>1, <3>2
  <2>3. (OneObjectEach /\ KnownBatches /\ NotOfTheFuture /\ OneWorkerEach /\ LoadedWhenSuccess)'
    BY <1>8, SMT DEF LoadAvlTables, Staged
  <2> QED
    BY <2>1, <2>2, <2>3
<1>9. ASSUME NEW w \in Workers, MarkSuccess(w) PROVE LoadedInv'
  <2>1. KnownBatches'
    BY <1>9, SMT DEF MarkSuccess
  <2>2. LoadedWhenSuccess'
    BY <1>9, SMT DEF Objects, MarkSuccess
  <2>3. (OneObjectEach /\ NotOfTheFuture /\ OneWorkerEach /\ AllStaged /\ AllLoaded)'
    BY <1>9, SMT DEF MarkSuccess
  <2> QED
    BY <2>1, <2>2, <2>3
<1>10. ASSUME NEW w \in Workers, Delete(w) PROVE LoadedInv'
  <2>1. OneWorkerEach'
    BY <1>10, SMT DEF Delete
  <2>2. LoadedWhenSuccess'
    BY <1>10, SMT DEF Objects, Delete
  <2>3. /\ UNCHANGED <<bucket, staging, positions, dbStatus, today>>
        /\ \A v \in Workers : stage'[v] # "idle" => stage'[v] = stage[v] /\ msg'[v] = msg[v]
    BY <1>10, SMT DEF Delete
  <2>4. (OneObjectEach /\ KnownBatches /\ NotOfTheFuture)'
    BY <2>3
  <2>5. (AllStaged /\ AllLoaded)'
    BY <2>3
  <2> QED
    BY <2>1, <2>2, <2>4, <2>5
<1>11. ASSUME NEW w \in Workers, Raise(w) PROVE LoadedInv'
  <2>1. KnownBatches'
    BY <1>11, SMT DEF Raise, Handling
  <2>2. LoadedWhenSuccess'
    BY <1>11, SMT DEF Objects, Raise
  <2>3. (OneObjectEach /\ NotOfTheFuture /\ OneWorkerEach /\ AllStaged /\ AllLoaded)'
    BY <1>11, SMT DEF Raise
  <2> QED
    BY <2>1, <2>2, <2>3
<1>12. ASSUME NEW w \in Workers, NotConnected(w) \/ Die(w) PROVE LoadedInv'
  BY <1>12, SMT DEF NotConnected, Die
<1>13. ASSUME NEW w \in Workers, LoseConnection(w) \/ Recycle(w) PROVE LoadedInv'
  BY <1>13, SMT DEF LoseConnection, Recycle
<1>14. CASE UNCHANGED dbVars
  BY <1>14, SMT DEF dbVars
<1> QED
  BY <1>1, <1>2, <1>3, <1>4, <1>5, <1>6, <1>7, <1>8, <1>9, <1>10, <1>11, <1>12, <1>13, <1>14
     DEF Next, Serve, Process, Trouble

(* The tables, the queue, the bucket and the workers keep their types, and  *)
(* a worker always finds the object of the batch it was told of, with any   *)
(* number of duplicate deliveries.                                          *)
THEOREM DbTypeCorrect == Spec => [](DbTypeOK /\ OwnObjects)
<1>1. Init => DbTypeOK /\ OwnObjects
  BY DEF Init, DbTypeOK, OwnObjects, Messages, WorkerStages
<1>2. DbTypeOK /\ OwnObjects /\ [Next]_dbVars => (DbTypeOK /\ OwnObjects)'
  BY DbTypeStep
<1> QED
  BY <1>1, <1>2, PTL DEF Spec

(* However often invocations raise, die and are delivered again, and on     *)
(* whatever day: a batch that is marked as ingested has its AVLs of today   *)
(* in SiriVMPositions, unless a message is received while it is in flight.  *)
THEOREM LoadedAlways == NoDuplicates => (Spec => []LoadedWhenSuccess)
<1> SUFFICES ASSUME NoDuplicates PROVE Spec => []LoadedWhenSuccess
  OBVIOUS
<1>1. Init => LoadedInv
  BY DEF Init, LoadedInv, DbTypeOK, Messages, WorkerStages, OwnObjects, OneObjectEach, KnownBatches,
     NotOfTheFuture, OneWorkerEach, AllStaged, AllLoaded, LoadedWhenSuccess
<1>2. LoadedInv /\ [Next]_dbVars => LoadedInv'
  BY LoadedStep
<1>3. LoadedInv => LoadedWhenSuccess
  BY DEF LoadedInv
<1> QED
  BY <1>1, <1>2, <1>3, PTL DEF Spec

-----------------------------------------------------------------------------
(* The staging table. *)

KeptInQueue == \A w \in Workers : stage[w] # "idle" => msg[w] \in queued

StagedIsQueued == \A r \in staging : \E m \in queued : m.batch = r.batch

LoadedIsCleared == \A w \in Workers : stage[w] \in {"loaded", "done"} =>
    \A r \in staging : r.batch # msg[w].batch

StagedInv == LoadedInv /\ KeptInQueue /\ StagedIsQueued /\ LoadedIsCleared

(* Two workers do not handle the same batch, as each batch has one object.  *)
LEMMA OneBatchEach ==
  ASSUME LoadedInv, NEW v \in Workers, NEW w \in Workers,
         stage[v] # "idle", stage[w] # "idle", msg[v].batch = msg[w].batch
  PROVE  v = w
<1>1. msg[v] \in Messages /\ msg[w] \in Messages /\ Own(msg[v]) /\ Own(msg[w])
  BY DEF LoadedInv, DbTypeOK, OwnObjects
<1>2. msg[v].name = msg[w].name
  BY <1>1 DEF Own, LoadedInv, OneObjectEach
<1>3. msg[v] = msg[w]
  BY <1>1, <1>2 DEF Messages
<1> QED BY <1>3 DEF LoadedInv, OneWorkerEach

LEMMA StagedStep == NoDuplicates /\ StagedInv /\ [Next]_dbVars => StagedInv'
<1> SUFFICES ASSUME NoDuplicates, StagedInv, [Next]_dbVars
             PROVE  KeptInQueue' /\ StagedIsQueued' /\ LoadedIsCleared'
  BY LoadedStep DEF StagedInv
<1> USE DEF StagedInv, KeptInQueue, StagedIsQueued, LoadedIsCleared, tables, bounds
<1>1. DbTypeOK /\ OwnObjects
  BY DEF LoadedInv
<1>2. CASE UNCHANGED <<queued, staging, stage, msg>>
  BY <1>2
<1>3. ASSUME NEW m \in Messages, Send(m) PROVE KeptInQueue' /\ StagedIsQueued' /\ LoadedIsCleared'
  BY <1>3 DEF Send
<1>4. ASSUME NEW w \in Workers, NEW m \in queued, Receive(w, m)
      PROVE  KeptInQueue' /\ StagedIsQueued' /\ LoadedIsCleared'
  BY <1>1, <1>4 DEF Receive, DbTypeOK
<1>5. ASSUME NEW w \in Workers, MarkInprogress(w) \/ MarkSuccess(w)
      PROVE  KeptInQueue' /\ StagedIsQueued' /\ LoadedIsCleared'
  BY <1>1, <1>5 DEF MarkInprogress, MarkSuccess, Advance, DbTypeOK
<1>6. ASSUME NEW w \in Workers, ClearStaging(w)
      PROVE  KeptInQueue' /\ StagedIsQueued' /\ LoadedIsCleared'
  BY <1>1, <1>6 DEF ClearStaging, Advance, DbTypeOK
<1>7. ASSUME NEW w \in Workers, ImportFile(w)
      PROVE  KeptInQueue' /\ StagedIsQueued' /\ LoadedIsCleared'
  <2>1. /\ stage[w] = "cleared" /\ stage' = [stage EXCEPT ![w] = "imported"]
        /\ UNCHANGED <<queued, msg>>
        /\ \A r \in staging' : r \in staging \/ r.batch = msg[w].batch
    BY <1>1, <1>7 DEF ImportFile, Advance, OwnObjects, Own
  <2>2. \A v \in Workers : stage[v] # "idle" /\ msg[v].batch = msg[w].batch => v = w
    BY <2>1, OneBatchEach
  <2>3. KeptInQueue' /\ StagedIsQueued'
    BY <1>1, <2>1 DEF DbTypeOK
  <2>4. LoadedIsCleared'
    BY <1>1, <2>1, <2>2 DEF DbTypeOK
  <2> QED BY <2>3, <2>4
<1>8. ASSUME NEW w \in Workers, LoadAvlTables(w)
      PROVE  KeptInQueue' /\ StagedIsQueued' /\ LoadedIsCleared'
  <2>1. /\ stage[w] = "imported" /\ stage' = [stage EXCEPT ![w] = "loaded"]
        /\ UNCHANGED <<queued, msg>>
        /\ staging' = {r \in staging : r.batch # msg[w].batch}
    BY <1>8 DEF LoadAvlTables, Advance
  <2> QED BY <1>1, <2>1 DEF DbTypeOK
<1>9. ASSUME NEW w \in Workers, Delete(w)
      PROVE  KeptInQueue' /\ StagedIsQueued' /\ LoadedIsCleared'
  <2>1. /\ stage[w] = "done" /\ stage' = [stage EXCEPT ![w] = "idle"]
        /\ msg' = [msg EXCEPT ![w] = NoMessage]
        /\ queued' = queued \ {msg[w]} /\ UNCHANGED staging
    BY <1>9 DEF Delete, Leave
  <2>2. \A v \in Workers : stage[v] # "idle" /\ msg[v] = msg[w] => v = w
    BY <2>1 DEF LoadedInv, OneWorkerEach
  <2> QED BY <1>1, <2>1, <2>2 DEF DbTypeOK
<1>10. ASSUME NEW w \in Workers, Raise(w) \/ NotConnected(w) \/ Die(w)
       PROVE  KeptInQueue' /\ StagedIsQueued' /\ LoadedIsCleared'
  BY <1>1, <1>10 DEF Raise, NotConnected, Die, Leave, DbTypeOK
<1> QED
  BY <1>2, <1>3, <1>4, <1>5, <1>6, <1>7, <1>8, <1>9, <1>10
     DEF Next, Serve, Process, Trouble, Upload, Midnight, LoseConnection, Recycle, dbVars

(* Whatever raises, dies and is delivered again: what is in the staging     *)
(* table belongs to a batch that is not through, unless a message is        *)
(* received while it is in flight.                                          *)
THEOREM StagingIsCleared == NoDuplicates => (Spec => []NothingLeftStaged)
<1> SUFFICES ASSUME NoDuplicates PROVE Spec => []NothingLeftStaged
  OBVIOUS
<1>1. Init => StagedInv
  BY DEF Init, StagedInv, KeptInQueue, StagedIsQueued, LoadedIsCleared,
     LoadedInv, DbTypeOK, Messages, WorkerStages, OwnObjects, OneObjectEach, KnownBatches,
     NotOfTheFuture, OneWorkerEach, AllStaged, AllLoaded, LoadedWhenSuccess
<1>2. StagedInv /\ [Next]_dbVars => StagedInv'
  BY StagedStep
<1>3. StagedInv => NothingLeftStaged
  BY DEF StagedInv, StagedIsQueued, NothingLeftStaged, Settled
<1> QED
  BY <1>1, <1>2, <1>3, PTL DEF Spec

-----------------------------------------------------------------------------
(* S3 ingestion. *)

\* S3 objects are named after seconds; an invocation takes several.
ClockAdvances == SecondsApart # 0

Files == 1 .. NumFiles

\* The files that have left the queue.
Taken == announced - Len(inbox)

S3TypeOK ==
    /\ announced \in 0 .. NumFiles /\ inbox \in Seq(Files)
    /\ step \in Steps /\ shard \in Shards /\ batch \in Nat
    /\ source \in Seq(Files) /\ Len(source) = batch
    /\ s3Status \in Seq({"Inprogress", "Success", "Failed"}) /\ Len(s3Status) = batch
    /\ notified \in [Shards -> Seq(1 .. batch)]
    /\ failures \in 0 .. MaxFailures

\* The queue holds the files announced last, and the invocation has the first of them.
QueueFollowsFeed ==
    /\ Len(inbox) <= announced
    /\ \A i \in 1 .. Len(inbox) : inbox[i] = Taken + i
    /\ step # "waiting" => inbox # <<>> /\ batch # 0 /\ source[batch] = Taken + 1

\* No batch is of a file behind the first one, and each file or failure has used up one.
BatchesFollowQueue ==
    /\ \A b \in 1 .. batch : source[b] <= Taken + 1
    /\ batch <= Taken + failures + 1
    /\ step = "waiting" => batch <= Taken + failures

QueueInv ==
    /\ S3TypeOK /\ QueueFollowsFeed /\ BatchesFollowQueue
    /\ ShardsSeeFilesInOrder

LEMMA Bounds == NumFiles \in Nat /\ NumShards \in Nat \ {0} /\ MaxFailures \in Nat
  BY S3Assumption

USE Bounds

-----------------------------------------------------------------------------
(* The queue of files and the queues of the shards. *)

LEMMA HeadAndTail ==
  ASSUME NEW S, NEW q \in Seq(S), q # <<>>
  PROVE  /\ Head(q) \in S /\ Head(q) = q[1] /\ Len(q) >= 1
         /\ Tail(q) \in Seq(S) /\ Len(Tail(q)) = Len(q) - 1
         /\ \A i \in 1 .. Len(q) - 1 : Tail(q)[i] = q[i + 1]
<1>1. Len(q) \in Nat /\ Len(q) # 0
  BY EmptySeq, LenProperties
<1> QED BY <1>1, HeadTailProperties, LenProperties

LEMMA SeqOfMore ==
  ASSUME NEW S, NEW T, S \subseteq T, NEW q \in Seq(S)
  PROVE  q \in Seq(T)
<1>1. q \in [1 .. Len(q) -> S] /\ Len(q) \in Nat
  BY LenProperties
<1>2. q \in [1 .. Len(q) -> T]
  BY <1>1
<1> QED BY <1>1, <1>2 DEF Seq

(* What a shard has been told of are batches. *)
LEMMA NotifiedBatches ==
  ASSUME S3TypeOK, NEW s \in Shards
  PROVE  /\ notified[s] \in Seq(1 .. batch) /\ Len(notified[s]) \in Nat
         /\ DOMAIN notified[s] = 1 .. Len(notified[s])
         /\ \A i \in DOMAIN notified[s] : notified[s][i] \in 1 .. batch
<1>1. notified[s] \in Seq(1 .. batch)
  BY DEF S3TypeOK
<1> QED BY <1>1, LenProperties

(* The head of the queue, and what is left when the handler returns. *)
LEMMA Returning ==
  ASSUME QueueInv, inbox # <<>>
  PROVE  /\ Head(inbox) = Taken + 1 /\ Head(inbox) \in Files /\ Taken \in Nat /\ Taken < announced
         /\ Return /\ UNCHANGED announced =>
              /\ inbox' \in Seq(Files) /\ Taken' = Taken + 1
              /\ Len(inbox') <= announced'
              /\ \A i \in 1 .. Len(inbox') : inbox'[i] = Taken' + i
<1>1. /\ inbox \in Seq(Files) /\ announced \in Nat /\ Len(inbox) \in Nat /\ Len(inbox) <= announced
      /\ \A i \in 1 .. Len(inbox) : inbox[i] = Taken + i
  BY LenProperties DEF QueueInv, S3TypeOK, QueueFollowsFeed
<1>2. /\ Head(inbox) \in Files /\ Head(inbox) = inbox[1] /\ Len(inbox) >= 1
      /\ Tail(inbox) \in Seq(Files) /\ Len(Tail(inbox)) = Len(inbox) - 1
      /\ \A i \in 1 .. Len(inbox) - 1 : Tail(inbox)[i] = inbox[i + 1]
  BY <1>1, HeadAndTail
<1>3. Head(inbox) = Taken + 1 /\ Taken \in Nat /\ Taken < announced
  BY <1>1, <1>2 DEF Taken
<1>4. ASSUME Return, UNCHANGED announced
      PROVE  /\ inbox' \in Seq(Files) /\ Taken' = Taken + 1
             /\ Len(inbox') <= announced'
             /\ \A i \in 1 .. Len(inbox') : inbox'[i] = Taken' + i
  <2>1. inbox' = Tail(inbox)
    BY <1>4 DEF Return
  <2>2. Taken' = Taken + 1
    BY <1>1, <1>2, <1>4, <2>1 DEF Taken
  <2>3. \A i \in 1 .. Len(inbox) - 1 : inbox'[i] = Taken + (i + 1)
    BY <1>1, <1>2, <2>1
  <2> QED BY <1>1, <1>2, <1>3, <1>4, <2>1, <2>2, <2>3
<1> QED BY <1>2, <1>3, <1>4

LEMMA QueueInit == S3Init => QueueInv
<1> SUFFICES ASSUME S3Init PROVE QueueInv
  OBVIOUS
<1>1. Len(inbox) = 0 /\ Len(source) = 0 /\ Len(s3Status) = 0 /\ inbox = <<>>
  BY EmptySeq DEF S3Init
<1>2. S3TypeOK
  BY <1>1 DEF S3Init, S3TypeOK, Steps, Shards
<1>3. QueueFollowsFeed /\ BatchesFollowQueue
  BY <1>1 DEF S3Init, QueueFollowsFeed, BatchesFollowQueue, Taken
<1>4. ShardsSeeFilesInOrder
  BY DEF S3Init, ShardsSeeFilesInOrder
<1> QED BY <1>2, <1>3, <1>4 DEF QueueInv

LEMMA AnnounceQueues == QueueInv /\ Announce => QueueInv'
<1> SUFFICES ASSUME QueueInv, Announce PROVE QueueInv'
  OBVIOUS
<1>1. /\ announced \in 0 .. NumFiles /\ announced < NumFiles /\ inbox \in Seq(Files)
      /\ announced' = announced + 1 /\ inbox' = Append(inbox, announced + 1)
      /\ UNCHANGED <<step, shard, batch, source, s3Status, notified, failures>>
  BY DEF QueueInv, S3TypeOK, Announce
<1>2. /\ inbox' \in Seq(Files) /\ inbox' # <<>> /\ Len(inbox') = Len(inbox) + 1 /\ Len(inbox) \in Nat
      /\ \A i \in 1 .. Len(inbox) : inbox'[i] = inbox[i]
      /\ inbox'[Len(inbox) + 1] = announced + 1
  BY <1>1, AppendProperties, LenProperties DEF Files
<1>3. Taken' = Taken /\ announced + 1 = Taken + (Len(inbox) + 1)
  BY <1>1, <1>2 DEF Taken
<1>4. S3TypeOK'
  BY <1>1, <1>2 DEF QueueInv, S3TypeOK
<1>5. QueueFollowsFeed'
  <2>1. \A i \in 1 .. Len(inbox') : inbox'[i] = Taken' + i
    BY <1>2, <1>3 DEF QueueInv, QueueFollowsFeed
  <2> QED BY <1>1, <1>2, <1>3, <2>1 DEF QueueInv, QueueFollowsFeed
<1>6. BatchesFollowQueue' /\ ShardsSeeFilesInOrder'
  BY <1>1, <1>3 DEF QueueInv, BatchesFollowQueue, ShardsSeeFilesInOrder
<1> QED BY <1>4, <1>5, <1>6 DEF QueueInv

LEMMA CreateQueues == QueueInv /\ CreateBatch => QueueInv'
<1> SUFFICES ASSUME QueueInv, CreateBatch PROVE QueueInv'
  OBVIOUS
<1>1. S3TypeOK /\ Head(inbox) = Taken + 1 /\ Head(inbox) \in Files /\ Taken \in Nat
  BY Returning DEF QueueInv, CreateBatch
<1>2. /\ step = "waiting" /\ inbox # <<>> /\ batch' = batch + 1 /\ step' = "created"
      /\ source' = Append(source, Head(inbox)) /\ s3Status' = Append(s3Status, "Inprogress")
      /\ UNCHANGED <<announced, inbox, shard, notified, failures>>
  BY DEF CreateBatch
<1>3. /\ source' \in Seq(Files) /\ Len(source') = batch'
      /\ \A b \in 1 .. batch : source'[b] = source[b]
      /\ source'[batch'] = Taken + 1
  BY <1>1, <1>2, AppendProperties DEF S3TypeOK
<1>4. s3Status' \in Seq({"Inprogress", "Success", "Failed"}) /\ Len(s3Status') = batch'
  BY <1>1, <1>2, AppendProperties DEF S3TypeOK
<1>5. notified' \in [Shards -> Seq(1 .. batch')]
  <2>1. 1 .. batch \subseteq 1 .. batch'
    BY <1>1, <1>2 DEF S3TypeOK
  <2>2. \A s \in Shards : notified[s] \in Seq(1 .. batch')
    BY <1>1, <2>1, SeqOfMore DEF S3TypeOK
  <2> QED BY <1>1, <1>2, <2>2 DEF S3TypeOK
<1>6. S3TypeOK'
  BY <1>1, <1>2, <1>3, <1>4, <1>5 DEF S3TypeOK, Steps
<1>7. Taken' = Taken /\ batch \in Nat
  BY <1>1, <1>2 DEF Taken, S3TypeOK
<1>8. QueueFollowsFeed'
  BY <1>2, <1>3, <1>7 DEF QueueInv, QueueFollowsFeed
<1>9. BatchesFollowQueue'
  BY <1>1, <1>2, <1>3, <1>7 DEF QueueInv, BatchesFollowQueue, S3TypeOK
<1>10. ShardsSeeFilesInOrder'
  BY <1>1, <1>2, <1>3, NotifiedBatches DEF QueueInv, ShardsSeeFilesInOrder
<1> QED BY <1>6, <1>8, <1>9, <1>10 DEF QueueInv

(* Each batch is counted by a file that is gone or by a failure, but for    *)
(* the one under way.                                                       *)
LEMMA OneMore ==
  ASSUME NEW b \in Nat, NEW taken \in Nat, NEW f \in Nat, NEW g, b <= taken + f + 1
  PROVE  /\ g = f + 1 => b <= taken + g /\ b <= taken + g + 1
         /\ g = f + 1 \/ g = f => b <= taken + 1 + g /\ b <= taken + 1 + g + 1
         /\ g = f => b <= taken + g + 1
  OBVIOUS

(* The handler goes on, or the invocation dies: the file stays at the head. *)
LEMMA FileStays ==
  ASSUME QueueInv, step # "waiting", step' \in Steps, failures' \in 0 .. MaxFailures,
         \/ step' # "waiting" /\ failures' = failures
         \/ failures' = failures + 1,
         shard' \in Shards, s3Status' \in Seq({"Inprogress", "Success", "Failed"}),
         Len(s3Status') = Len(s3Status),
         UNCHANGED <<announced, inbox, batch, source, notified>>
  PROVE  QueueInv'
<1>1. Taken' = Taken /\ Taken \in Nat
  BY LenProperties DEF Taken, QueueInv, S3TypeOK, QueueFollowsFeed
<1>2. S3TypeOK'
  BY DEF QueueInv, S3TypeOK
<1>3. QueueFollowsFeed' /\ ShardsSeeFilesInOrder'
  BY <1>1 DEF QueueInv, QueueFollowsFeed, ShardsSeeFilesInOrder
<1>4. BatchesFollowQueue'
  <2>1. batch <= Taken + failures + 1 /\ failures \in Nat /\ batch \in Nat
    BY DEF QueueInv, BatchesFollowQueue, S3TypeOK
  <2>2. /\ failures' = failures + 1 => /\ batch <= Taken + failures'
                                       /\ batch <= Taken + failures' + 1
        /\ failures' = failures => batch <= Taken + failures' + 1
    BY <1>1, <2>1, OneMore
  <2> QED BY <1>1, <2>2 DEF QueueInv, BatchesFollowQueue
<1> QED BY <1>2, <1>3, <1>4 DEF QueueInv

(* The handler returns, after an error or not: the next file is at the head. *)
LEMMA FileGone ==
  ASSUME QueueInv, inbox # <<>>, Return, failures' \in 0 .. MaxFailures,
         (step # "waiting" /\ failures' = failures) \/ failures' = failures + 1,
         s3Status' \in Seq({"Inprogress", "Success", "Failed"}), Len(s3Status') = Len(s3Status),
         notified' \in [Shards -> Seq(1 .. batch)], ShardsSeeFilesInOrder',
         UNCHANGED <<announced, shard, batch, source>>
  PROVE  QueueInv'
<1>1. /\ inbox' \in Seq(Files) /\ Taken' = Taken + 1 /\ Taken \in Nat
      /\ Len(inbox') <= announced' /\ \A i \in 1 .. Len(inbox') : inbox'[i] = Taken' + i
  BY Returning
<1>2. step' = "waiting"
  BY DEF Return
<1>3. S3TypeOK'
  BY <1>1, <1>2 DEF QueueInv, S3TypeOK, Steps
<1>4. QueueFollowsFeed'
  BY <1>1, <1>2 DEF QueueFollowsFeed
<1>5. BatchesFollowQueue'
  <2>1. \A b \in 1 .. batch : source[b] \in Nat
    <3>1. source \in Seq(Files) /\ Len(source) = batch
      BY DEF QueueInv, S3TypeOK
    <3>2. source \in [1 .. batch -> Files]
      BY <3>1, LenProperties
    <3> QED BY <3>2 DEF Files
  <2>2. \A b \in 1 .. batch : source[b] <= Taken + 1
    BY DEF QueueInv, BatchesFollowQueue
  <2>3. /\ batch <= Taken + failures + 1 /\ (step = "waiting" => batch <= Taken + failures)
        /\ failures \in Nat /\ batch \in Nat
    BY DEF QueueInv, S3TypeOK, BatchesFollowQueue
  <2>4. batch <= Taken + 1 + failures' /\ batch <= Taken + 1 + failures' + 1
    BY <1>1, <2>3, OneMore
  <2>5. ASSUME NEW b \in 1 .. batch PROVE source[b] <= Taken + 1 + 1
    <3>1. source[b] \in Nat /\ source[b] <= Taken + 1
      BY <2>1, <2>2
    <3> HIDE DEF Taken
    <3> QED BY <1>1, <3>1
  <2> QED BY <1>1, <2>4, <2>5 DEF BatchesFollowQueue
<1> QED BY <1>3, <1>4, <1>5 DEF QueueInv

(* The shard is told of a batch of the first file, none of a later file. *)
LEMMA NotifyQueues == QueueInv /\ NotifyShard => QueueInv'
<1> SUFFICES ASSUME QueueInv, NotifyShard PROVE QueueInv'
  OBVIOUS
<1>1. /\ S3TypeOK /\ step = "notifying" /\ inbox # <<>> /\ shard \in Shards
      /\ batch \in 1 .. batch /\ source[batch] = Taken + 1
      /\ notified' = [notified EXCEPT ![shard] = Append(@, batch)]
      /\ UNCHANGED <<announced, batch, source, s3Status, failures>>
  BY DEF QueueInv, S3TypeOK, QueueFollowsFeed, NotifyShard
<1> DEFINE q == notified[shard]
<1>2. /\ Append(q, batch) \in Seq(1 .. batch) /\ Len(Append(q, batch)) = Len(q) + 1 /\ Len(q) \in Nat
      /\ \A i \in 1 .. Len(q) : Append(q, batch)[i] = q[i]
      /\ Append(q, batch)[Len(q) + 1] = batch
      /\ DOMAIN Append(q, batch) = 1 .. Len(q) + 1
  BY <1>1, AppendProperties, LenProperties, NotifiedBatches
<1>3. notified' \in [Shards -> Seq(1 .. batch)]
  BY <1>1, <1>2 DEF S3TypeOK
<1>4. /\ notified'[shard] = Append(q, batch)
      /\ \A s \in Shards : s # shard => notified'[s] = notified[s]
  BY <1>1 DEF S3TypeOK
<1> HIDE DEF q
<1>5. ShardsSeeFilesInOrder'
  <2> SUFFICES ASSUME NEW s \in Shards, NEW i \in DOMAIN notified'[s], NEW j \in DOMAIN notified'[s],
                      i < j
               PROVE  source[notified'[s][i]] <= source[notified'[s][j]]
    BY <1>1 DEF ShardsSeeFilesInOrder
  <2>1. CASE s # shard
    BY <1>4, <2>1 DEF QueueInv, ShardsSeeFilesInOrder
  <2> s = shard => notified'[s] = Append(q, batch) /\ {i, j} \subseteq 1 .. Len(q) + 1
    BY <1>2, <1>4
  <2>2. CASE s = shard /\ j = Len(q) + 1
    <3>1. i \in 1 .. Len(q) /\ notified'[s][i] = q[i] /\ notified'[s][j] = batch
      BY <1>2, <1>4, <2>2
    <3>2. q[i] \in 1 .. batch
      BY <1>1, <3>1, NotifiedBatches DEF q
    <3> QED BY <1>1, <3>1, <3>2 DEF QueueInv, BatchesFollowQueue
  <2>3. CASE s = shard /\ j # Len(q) + 1
    <3>1. /\ i \in 1 .. Len(q) /\ j \in 1 .. Len(q)
          /\ notified'[s][i] = q[i] /\ notified'[s][j] = q[j]
      <4>1. i \in 1 .. Len(q) /\ j \in 1 .. Len(q)
        BY <1>2, <2>3
      <4> QED BY <1>2, <1>4, <2>3, <4>1
    <3> QED BY <1>1, <3>1, NotifiedBatches DEF QueueInv, ShardsSeeFilesInOrder, q
  <2> QED BY <2>1, <2>2, <2>3
<1>6. CASE shard < NumShards
  <2>1. Taken' = Taken /\ shard' \in Shards /\ UNCHANGED <<inbox, step>>
    BY <1>1, <1>6 DEF NotifyShard, Taken, Shards
  <2>2. S3TypeOK'
    BY <1>1, <1>3, <2>1 DEF S3TypeOK
  <2> QED BY <1>1, <1>5, <2>1, <2>2 DEF QueueInv, QueueFollowsFeed, BatchesFollowQueue
<1>7. CASE ~(shard < NumShards)
  <2>1. Return /\ UNCHANGED shard
    BY <1>7 DEF NotifyShard
  <2> QED BY <1>1, <1>3, <1>5, <2>1, FileGone DEF S3TypeOK
<1> QED BY <1>6, <1>7

LEMMA FailureCounted == S3TypeOK /\ Fail => failures' \in 0 .. MaxFailures /\ failures' = failures + 1
  BY DEF S3TypeOK, Fail

LEMMA StatusTyped ==
  ASSUME QueueInv, step # "waiting", NEW status \in {"Inprogress", "Success", "Failed"}
  PROVE  /\ [s3Status EXCEPT ![batch] = status] \in Seq({"Inprogress", "Success", "Failed"})
         /\ Len([s3Status EXCEPT ![batch] = status]) = Len(s3Status)
<1>1. batch \in 1 .. Len(s3Status) /\ s3Status \in Seq({"Inprogress", "Success", "Failed"})
  BY DEF QueueInv, S3TypeOK, QueueFollowsFeed
<1> QED BY <1>1, ExceptSeq

LEMMA QueueStep == QueueInv /\ [S3Next]_allVars => QueueInv'
<1> SUFFICES ASSUME QueueInv, [S3Next]_allVars PROVE QueueInv'
  OBVIOUS
<1>1. S3TypeOK
  BY DEF QueueInv
<1>2. CASE UNCHANGED s3Vars
  <2>1. UNCHANGED <<announced, inbox, step, shard, batch, source, s3Status, notified, failures>>
    BY <1>2 DEF s3Vars
  <2>2. Taken' = Taken
    BY <2>1 DEF Taken
  <2> QED BY <2>1, <2>2 DEF QueueInv, S3TypeOK, QueueFollowsFeed, BatchesFollowQueue,
                            ShardsSeeFilesInOrder
<1>3. CASE Announce \/ CreateBatch \/ NotifyShard
  BY <1>3, AnnounceQueues, CreateQueues, NotifyQueues
<1>4. CASE UploadFile \/ SendToProcess
  BY <1>1, <1>4, FileStays DEF UploadFile, SendToProcess, Steps, S3TypeOK
<1>5. CASE MarkIngested
  <2>1. /\ step = "sent" /\ step' = "notifying" /\ shard' = 1
        /\ s3Status' = [s3Status EXCEPT ![batch] = "Success"]
        /\ UNCHANGED <<announced, inbox, batch, source, notified, failures>>
    BY <1>5 DEF MarkIngested
  <2> QED BY <1>1, <2>1, StatusTyped, FileStays DEF Steps, Shards, S3TypeOK
<1>6. CASE NoConnection \/ CatchNotifyError
  <2>1. inbox # <<>> /\ Fail /\ Return
        /\ UNCHANGED <<announced, shard, batch, source, s3Status, notified>>
    BY <1>6 DEF NoConnection, CatchNotifyError, QueueInv, QueueFollowsFeed
  <2>2. ShardsSeeFilesInOrder'
    BY <2>1 DEF QueueInv, ShardsSeeFilesInOrder
  <2> QED BY <1>1, <2>1, <2>2, FailureCounted, FileGone DEF S3TypeOK
<1>7. CASE CatchError
  <2>1. /\ inbox # <<>> /\ step # "waiting" /\ Fail /\ Return
        /\ s3Status' \in {s3Status, [s3Status EXCEPT ![batch] = "Failed"]}
        /\ UNCHANGED <<announced, shard, batch, source, notified>>
    BY <1>7 DEF CatchError, QueueInv, QueueFollowsFeed
  <2>2. ShardsSeeFilesInOrder'
    BY <2>1 DEF QueueInv, ShardsSeeFilesInOrder
  <2>3. s3Status' \in Seq({"Inprogress", "Success", "Failed"}) /\ Len(s3Status') = Len(s3Status)
    BY <1>1, <2>1, StatusTyped DEF S3TypeOK
  <2> QED BY <1>1, <2>1, <2>2, <2>3, FailureCounted, FileGone DEF S3TypeOK
<1>8. CASE DieIngesting
  BY <1>1, <1>8, FailureCounted, FileStays DEF DieIngesting, Steps, S3TypeOK
<1> QED
  BY <1>2, <1>3, <1>4, <1>5, <1>6, <1>7, <1>8, Zenon DEF S3Next, Ingest, DbStep, allVars

LEMMA QueueAlways == S3Spec => []QueueInv
  BY QueueInit, QueueStep, PTL DEF S3Spec

(* However often an invocation dies and its file comes again, no shard is   *)
(* told of a file after a later one, for any number of files, shards and    *)
(* failures, and whether or not two invocations start in the same second.   *)
THEOREM FilesInOrder == S3Spec => []ShardsSeeFilesInOrder
<1>1. QueueInv => ShardsSeeFilesInOrder
  BY DEF QueueInv
<1> QED BY <1>1, QueueAlways, PTL

-----------------------------------------------------------------------------
(* The objects, and the messages that name them. *)

\* The clock names the object of the invocation, and was not read before.
ClockIsAhead ==
    /\ clock = 1 + SecondsApart * batch /\ clock \in Nat
    /\ \A n \in DOMAIN bucket : n \in Nat /\ n <= clock
    /\ step = "created" => clock \notin DOMAIN bucket

\* An object has the AVLs of the file its batch was made from, and the object of the batch
\* under way is written after it is created.
ObjectsAreOfFiles ==
    /\ \A n \in DOMAIN bucket :
          /\ bucket[n].batch \in 1 .. batch
          /\ step = "created" => bucket[n].batch # batch
          /\ bucket[n].avls = Content[source[bucket[n].batch]]
    /\ step \in {"uploaded", "sent", "notifying"} =>
          clock \in DOMAIN bucket /\ bucket[clock].batch = batch

NotifiedHaveObjects == \A s \in Shards : \A i \in DOMAIN notified[s] :
    \E n \in DOMAIN bucket : bucket[n].batch = notified[s][i]

\* The feed does not announce what has not happened yet.
FilesOfThePast == \A f \in 1 .. announced : \A a \in Content[f] : DateOf[a] <= today

ObjectsInv ==
    /\ DbTypeOK /\ OwnObjects
    /\ ClockIsAhead /\ ObjectsAreOfFiles /\ NotifiedHaveObjects /\ FilesOfThePast

(* The batch under way is one of the batches, as each used up a file or a   *)
(* failure, and the file it is made from is not used up.                    *)
LEMMA BatchUnderWay ==
  ASSUME QueueInv, step # "waiting"
  PROVE  batch \in Batches /\ batch \in 1 .. batch /\ Head(inbox) \in 1 .. announced
         /\ Head(inbox) \in Files /\ source[batch] = Head(inbox)
<1>1. /\ inbox # <<>> /\ batch # 0 /\ batch \in Nat /\ source[batch] = Taken + 1
      /\ failures \in 0 .. MaxFailures /\ announced \in 0 .. NumFiles
  BY DEF QueueInv, S3TypeOK, QueueFollowsFeed
<1>2. Head(inbox) = Taken + 1 /\ Head(inbox) \in Files /\ Taken \in Nat /\ Taken < announced
  BY <1>1, Returning
<1>3. batch <= Taken + failures + 1
  BY DEF QueueInv, BatchesFollowQueue
<1> HIDE DEF Taken
<1>4. batch \in 1 .. NumFiles + MaxFailures
  BY <1>1, <1>2, <1>3
<1> QED BY <1>1, <1>2, <1>4, S3Assumption

(* A step of S3 ingestion is one that DB ingestion relies on, or none of    *)
(* its own.                                                                 *)
LEMMA DbStepAllowed ==
  ASSUME QueueInv, ObjectsInv, [S3Next]_allVars
  PROVE  [Next]_dbVars
<1>1. CASE UploadFile
  <2> DEFINE avls == Content[Head(inbox)]
  <2>1. step = "created" /\ batch \in Batches /\ Head(inbox) \in 1 .. announced /\ Head(inbox) \in Files
    BY <1>1, BatchUnderWay DEF UploadFile
  <2>2. clock \in Names /\ avls \in SUBSET Avls
    BY <2>1, S3Assumption DEF ObjectsInv, ClockIsAhead, Files
  <2>3. clock \notin DOMAIN bucket /\ \A k \in DOMAIN bucket : bucket[k].batch # batch
    BY <2>1 DEF ObjectsInv, ClockIsAhead, ObjectsAreOfFiles
  <2>4. \A a \in avls : DateOf[a] <= today
    BY <2>1 DEF ObjectsInv, FilesOfThePast
  <2>5. Upload(clock, batch, avls)
    BY <1>1, <2>3, <2>4 DEF UploadFile, Upload
  <2> HIDE DEF avls
  <2> QED BY <2>1, <2>2, <2>5 DEF Next
<1>2. CASE SendToProcess
  <2> DEFINE m == [batch |-> batch, name |-> clock]
  <2>1. batch \in Batches /\ clock \in DOMAIN bucket /\ bucket[clock].batch = batch
    BY <1>2, BatchUnderWay DEF SendToProcess, ObjectsInv, ObjectsAreOfFiles
  <2>2. m \in Messages
    BY <2>1 DEF Messages, ObjectsInv, DbTypeOK
  <2>3. Send(m)
    BY <1>2, <2>1 DEF SendToProcess, Send
  <2> HIDE DEF m
  <2> QED BY <2>2, <2>3 DEF Next
<1>3. CASE DbStep
  BY <1>3 DEF DbStep, Next
<1>4. CASE UNCHANGED dbVars
  BY <1>4
<1> QED
  BY <1>1, <1>2, <1>3, <1>4, Zenon
     DEF S3Next, Ingest, Announce, CreateBatch, MarkIngested, NotifyShard, NoConnection, CatchError,
         CatchNotifyError, DieIngesting, allVars

LEMMA ObjectsInit == S3Init => ObjectsInv
<1> SUFFICES ASSUME S3Init PROVE ObjectsInv
  OBVIOUS
<1>1. DbTypeOK /\ OwnObjects /\ DOMAIN bucket = {}
  BY DEF S3Init, Init, DbTypeOK, OwnObjects, Messages, WorkerStages
<1>2. clock = 1 + SecondsApart * batch /\ clock \in Nat
  BY S3Assumption DEF S3Init
<1> QED
  BY <1>1, <1>2 DEF S3Init, ObjectsInv, ClockIsAhead, ObjectsAreOfFiles, NotifiedHaveObjects,
       FilesOfThePast

(* Steps that write no object and create no batch. *)
LEMMA ObjectsStay ==
  ASSUME ObjectsInv, DbTypeOK', OwnObjects',
         UNCHANGED <<bucket, clock, batch, source, notified>>, FilesOfThePast',
         \/ step' = "waiting"
         \/ step' = step
         \/ step \in {"uploaded", "sent"} /\ step' \in {"sent", "notifying"}
  PROVE  ObjectsInv'
<1>1. ClockIsAhead' /\ NotifiedHaveObjects'
  BY DEF ObjectsInv, ClockIsAhead, NotifiedHaveObjects
<1>2. ObjectsAreOfFiles'
  BY DEF ObjectsInv, ObjectsAreOfFiles
<1> QED BY <1>1, <1>2 DEF ObjectsInv

LEMMA CreateObjects ==
  ASSUME ClockAdvances, QueueInv, ObjectsInv, DbTypeOK', OwnObjects', CreateBatch
  PROVE  ObjectsInv'
<1>1. /\ batch \in Nat /\ source \in Seq(Files) /\ Len(source) = batch /\ Head(inbox) \in Files
      /\ SecondsApart \in Nat /\ SecondsApart # 0
  BY Returning, S3Assumption DEF QueueInv, S3TypeOK, CreateBatch, ClockAdvances
<1>2. /\ batch' = batch + 1 /\ clock' = clock + SecondsApart /\ step' = "created"
      /\ source' = Append(source, Head(inbox))
      /\ UNCHANGED <<bucket, notified, announced, today>>
  BY DEF CreateBatch, dbVars
<1>3. \A b \in 1 .. batch : source'[b] = source[b]
  BY <1>1, <1>2, AppendProperties
<1>4. clock' = 1 + SecondsApart * batch' /\ clock \in Nat /\ clock < clock'
  <2>1. SecondsApart * (batch + 1) = SecondsApart * batch + SecondsApart
        /\ SecondsApart * batch \in Nat
    BY <1>1
  <2>2. clock = 1 + SecondsApart * batch /\ clock \in Nat
    BY DEF ObjectsInv, ClockIsAhead
  <2> QED BY <1>1, <1>2, <2>1, <2>2
<1>5. \A n \in DOMAIN bucket : n \in Nat /\ n <= clock
  BY DEF ObjectsInv, ClockIsAhead
<1>6. \A n \in DOMAIN bucket : n \in Nat /\ n < clock'
  <2> SUFFICES ASSUME NEW n \in DOMAIN bucket PROVE n \in Nat /\ n < clock'
    OBVIOUS
  <2>1. n \in Nat /\ n <= clock
    BY <1>5
  <2>2. clock' \in Nat
    BY <1>1, <1>2, <1>4
  <2> QED BY <1>4, <2>1, <2>2
<1>7. ClockIsAhead'
  <2>1. clock' \in Nat
    BY <1>1, <1>2, <1>4
  <2> QED BY <1>2, <1>4, <1>6, <2>1 DEF ClockIsAhead
<1>8. ObjectsAreOfFiles'
  BY <1>1, <1>2, <1>3 DEF ObjectsInv, ObjectsAreOfFiles
<1>9. NotifiedHaveObjects' /\ FilesOfThePast'
  BY <1>2 DEF ObjectsInv, NotifiedHaveObjects, FilesOfThePast
<1> QED BY <1>7, <1>8, <1>9 DEF ObjectsInv

LEMMA UploadObjects ==
  ASSUME QueueInv, ObjectsInv, DbTypeOK', OwnObjects', UploadFile
  PROVE  ObjectsInv'
<1>1. /\ batch \in 1 .. batch /\ source[batch] = Head(inbox)
  BY BatchUnderWay DEF UploadFile
<1>2. /\ step = "created" /\ step' = "uploaded"
      /\ UNCHANGED <<batch, clock, source, notified, announced, today>>
  BY DEF UploadFile
<1>3. /\ clock \notin DOMAIN bucket /\ clock \in Nat
      /\ DOMAIN bucket' = DOMAIN bucket \cup {clock}
      /\ bucket'[clock] = Holds(batch, Content[Head(inbox)])
      /\ \A n \in DOMAIN bucket : bucket'[n] = bucket[n]
  <2>1. clock \in Nat /\ clock \notin DOMAIN bucket
    BY <1>2 DEF ObjectsInv, ClockIsAhead
  <2> QED BY <2>1 DEF UploadFile
<1>4. bucket'[clock].batch = batch /\ bucket'[clock].avls = Content[source[batch]]
  BY <1>1, <1>3 DEF Holds
<1>5. ClockIsAhead'
  BY <1>2, <1>3 DEF ObjectsInv, ClockIsAhead
<1>6. ObjectsAreOfFiles'
  BY <1>1, <1>2, <1>3, <1>4 DEF ObjectsInv, ObjectsAreOfFiles
<1>7. NotifiedHaveObjects' /\ FilesOfThePast'
  BY <1>2, <1>3 DEF ObjectsInv, NotifiedHaveObjects, FilesOfThePast
<1> QED BY <1>5, <1>6, <1>7 DEF ObjectsInv

LEMMA NotifyObjects ==
  ASSUME QueueInv, ObjectsInv, DbTypeOK', OwnObjects', NotifyShard
  PROVE  ObjectsInv'
<1>1. /\ step = "notifying" /\ step' \in {"notifying", "waiting"} /\ shard \in Shards /\ batch \in 1 .. batch
      /\ notified' = [notified EXCEPT ![shard] = Append(@, batch)]
      /\ UNCHANGED <<bucket, batch, clock, source, announced, today>>
  BY BatchUnderWay DEF NotifyShard, Return, QueueInv, S3TypeOK, dbVars
<1> DEFINE q == notified[shard]
<1>2. /\ DOMAIN Append(q, batch) = 1 .. Len(q) + 1 /\ Len(q) \in Nat /\ DOMAIN q = 1 .. Len(q)
      /\ \A i \in 1 .. Len(q) : Append(q, batch)[i] = q[i]
      /\ Append(q, batch)[Len(q) + 1] = batch
  BY <1>1, AppendProperties, LenProperties, NotifiedBatches DEF QueueInv
<1>3. /\ notified'[shard] = Append(q, batch)
      /\ \A s \in Shards : s # shard => notified'[s] = notified[s]
  BY <1>1 DEF QueueInv, S3TypeOK
<1> HIDE DEF q
<1>4. NotifiedHaveObjects'
  <2> SUFFICES ASSUME NEW s \in Shards, NEW i \in DOMAIN notified'[s]
               PROVE  \E n \in DOMAIN bucket : bucket[n].batch = notified'[s][i]
    BY <1>1 DEF NotifiedHaveObjects
  <2>1. CASE s # shard
    BY <1>3, <2>1 DEF ObjectsInv, NotifiedHaveObjects
  <2>2. CASE s = shard /\ i # Len(q) + 1
    <3>1. i \in DOMAIN q /\ notified'[s][i] = q[i]
      BY <1>2, <1>3, <2>2
    <3> QED BY <1>1, <3>1 DEF ObjectsInv, NotifiedHaveObjects, q
  <2>3. CASE s = shard /\ i = Len(q) + 1
    <3>1. notified'[s][i] = batch
      BY <1>2, <1>3, <2>3
    <3> QED BY <1>1, <3>1 DEF ObjectsInv, ObjectsAreOfFiles
  <2> QED BY <2>1, <2>2, <2>3
<1>5. ClockIsAhead' /\ FilesOfThePast' /\ ObjectsAreOfFiles'
  BY <1>1 DEF ObjectsInv, ClockIsAhead, FilesOfThePast, ObjectsAreOfFiles
<1> QED BY <1>4, <1>5 DEF ObjectsInv

(* What S3 ingestion keeps, when the clock has moved on between two starts. *)
LEMMA ObjectsStep == ClockAdvances /\ QueueInv /\ ObjectsInv /\ [S3Next]_allVars => ObjectsInv'
<1> SUFFICES ASSUME ClockAdvances, QueueInv, ObjectsInv, [S3Next]_allVars PROVE ObjectsInv'
  OBVIOUS
<1>1. DbTypeOK' /\ OwnObjects'
  BY DbStepAllowed, DbTypeStep DEF ObjectsInv
<1>2. today \in Nat /\ announced \in Nat /\ DbTypeOK
  BY DEF ObjectsInv, DbTypeOK, QueueInv, S3TypeOK
<1>3. CASE CreateBatch
  BY <1>1, <1>3, CreateObjects
<1>4. CASE UploadFile
  BY <1>1, <1>4, UploadObjects
<1>5. CASE NotifyShard
  BY <1>1, <1>5, NotifyObjects
<1>6. CASE Announce
  <2>1. /\ UNCHANGED <<bucket, clock, batch, source, notified, step, today>>
        /\ announced' = announced + 1
        /\ \A a \in Content[announced + 1] : DateOf[a] <= today
    BY <1>6 DEF Announce, dbVars
  <2>2. FilesOfThePast'
    BY <1>2, <2>1 DEF ObjectsInv, FilesOfThePast
  <2> QED BY <1>1, <2>1, <2>2, ObjectsStay
<1>7. CASE SendToProcess \/ MarkIngested \/ NoConnection \/ CatchError \/ CatchNotifyError \/ DieIngesting
  <2>1. /\ UNCHANGED <<bucket, clock, batch, source, notified, announced, today>>
        /\ \/ step' = "waiting"
           \/ step \in {"uploaded", "sent"} /\ step' \in {"sent", "notifying"}
    BY <1>7 DEF SendToProcess, MarkIngested, NoConnection, CatchError, CatchNotifyError, DieIngesting,
         Return, dbVars
  <2>2. FilesOfThePast'
    BY <2>1 DEF ObjectsInv, FilesOfThePast
  <2> QED BY <1>1, <2>1, <2>2, ObjectsStay
<1>8. CASE DbStep \/ UNCHANGED allVars
  <2>1. UNCHANGED s3Vars /\ UNCHANGED bucket /\ (today' = today \/ today' = today + 1)
    BY <1>8 DEF DbStep, Midnight, Serve, Process, Trouble, Receive, MarkInprogress, ClearStaging, ImportFile,
         LoadAvlTables, MarkSuccess, Delete, NotConnected, Raise, LoseConnection, Die, Recycle, Advance,
         allVars, dbVars
  <2>2. UNCHANGED <<clock, batch, source, notified, announced, step>>
    BY <2>1 DEF s3Vars
  <2>3. FilesOfThePast'
    <3> SUFFICES ASSUME NEW f \in 1 .. announced, NEW a \in Content[f] PROVE DateOf[a] <= today'
      BY <2>2 DEF FilesOfThePast
    <3>1. f \in Files
      BY <1>2 DEF QueueInv, S3TypeOK, Files
    <3>2. a \in Avls
      BY <3>1, S3Assumption DEF Files
    <3>3. DateOf[a] \in Nat /\ DateOf[a] <= today
      BY <3>2, DbAssumption DEF ObjectsInv, FilesOfThePast
    <3> QED BY <1>2, <2>1, <3>3
  <2> QED BY <1>1, <2>1, <2>2, <2>3, ObjectsStay
<1> QED
  BY <1>3, <1>4, <1>5, <1>6, <1>7, <1>8, Zenon DEF S3Next, Ingest

(* S3 ingestion does to the bucket and the queue what DB ingestion relies   *)
(* on: no object is replaced, and a message names the object of its batch.  *)
THEOREM S3ImplementsDb == ClockAdvances => (S3Spec => Spec)
<1> SUFFICES ASSUME ClockAdvances PROVE S3Spec => Spec
  OBVIOUS
<1>1. S3Init => Init /\ ObjectsInv
  BY ObjectsInit DEF S3Init
<1>2. QueueInv /\ ObjectsInv /\ [S3Next]_allVars => ObjectsInv' /\ [Next]_dbVars
  BY ObjectsStep, DbStepAllowed
<1> QED BY <1>1, <1>2, QueueAlways, PTL DEF S3Spec, Spec

(* Every message, to DB ingestion or to a shard, names an object with the   *)
(* AVLs of its own batch, whatever fails and dies: the matcher never finds  *)
(* AVLs of several batches in it.                                           *)
THEOREM ObjectsAreOwn == ClockAdvances => (S3Spec => []ObjectIsOwn)
<1> SUFFICES ASSUME ClockAdvances PROVE S3Spec => []ObjectIsOwn
  OBVIOUS
<1>1. S3Init => ObjectsInv
  BY ObjectsInit
<1>2. QueueInv /\ ObjectsInv /\ [S3Next]_allVars => ObjectsInv'
  BY ObjectsStep
<1>3. ASSUME ObjectsInv PROVE ObjectIsOwn
  <2>1. ASSUME NEW n \in DOMAIN bucket
        PROVE  bucket[n] = Holds(bucket[n].batch, Content[source[bucket[n].batch]])
    <3>1. bucket[n] \in Objects /\ bucket[n].avls = Content[source[bucket[n].batch]]
      BY <1>3 DEF ObjectsInv, DbTypeOK, ObjectsAreOfFiles
    <3> QED BY <3>1 DEF Objects, Holds
  <2>2. \A m \in queued : m.name \in DOMAIN bucket /\ bucket[m.name].batch = m.batch
    BY <1>3 DEF ObjectsInv, OwnObjects, Own
  <2>3. \A m \in queued : \E n \in DOMAIN bucket : bucket[n] = Holds(m.batch, Content[source[m.batch]])
    BY <2>1, <2>2
  <2>4. ASSUME NEW s \in Shards, NEW i \in DOMAIN notified[s]
        PROVE  \E n \in DOMAIN bucket : bucket[n] = Holds(notified[s][i], Content[source[notified[s][i]]])
    BY <1>3, <2>1 DEF ObjectsInv, NotifiedHaveObjects
  <2> QED BY <2>3, <2>4 DEF ObjectIsOwn
<1> QED BY <1>1, <1>2, <1>3, QueueAlways, PTL DEF S3Spec

(* Together they ingest as DB ingestion alone does: a batch that is marked  *)
(* has its AVLs of today in SiriVMPositions, and a batch that is through    *)
(* has left nothing in the staging table.                                   *)
THEOREM IngestedIsLoaded ==
  ClockAdvances /\ NoDuplicates => (S3Spec => [](LoadedWhenSuccess /\ NothingLeftStaged))
<1> SUFFICES ASSUME ClockAdvances, NoDuplicates
             PROVE  S3Spec => [](LoadedWhenSuccess /\ NothingLeftStaged)
  OBVIOUS
<1> QED BY S3ImplementsDb, LoadedAlways, StagingIsCleared, PTL
=============================================================================
