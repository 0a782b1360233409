-------------------------- MODULE OtpShardsProofs --------------------------
(***************************************************************************)
(* The shards of live matching, for any table and hash, any number of      *)
(* shards, batches, extracts and faults: no batch is matched with an older *)
(* extract than was announced, none is let go of without a status, and the *)
(* batches of an operator enter one history once and in their order.       *)
(***************************************************************************)
EXTENDS OtpShards, SequenceTheorems, TLAPS

Messages == [batch : 0 .. MaxBatches, extract : Nat]
Histories == [Operators -> Seq(1 .. MaxBatches)]

\* What is announced has been written, and what a Lambda has cached is not older.
ExtractInv ==
    /\ \A s \in Shards : \A i \in 1 .. Len(queue[s]) : queue[s][i].extract <= extract
    /\ \A s \in Shards :
         /\ told[s] <= extract
         /\ cache[s] # NoExtract => cache[s] >= told[s]
         /\ step[s] # "idle" => cache[s] # NoExtract

\* live_update_success has run where the history is about to be saved or was saved.
StatusInv ==
    /\ AcknowledgedIsMarked
    /\ \A s \in Shards : step[s] \in {"updated", "saved"} => status[Batch(s)] # "None"

LambdaInv == ShardsTypeOK /\ ExtractInv /\ StatusInv

USE OtpShardsAssumption DEF Shards, NoExtract, Steps

-----------------------------------------------------------------------------
(* The queues. *)

LEMMA ShardOfType == \A o \in Operators : ShardOf(o) \in Shards
  BY DEF ShardOf

(* What is sent is the last message of its queue. *)
LEMMA Sent ==
    ASSUME queue \in [Shards -> Seq(Messages)], NEW s \in Shards, NEW m \in Messages,
           queue' = [queue EXCEPT ![s] = Append(@, m)]
    PROVE  /\ queue' \in [Shards -> Seq(Messages)]
           /\ \A t \in Shards : t # s => queue'[t] = queue[t]
           /\ Len(queue[s]) \in Nat /\ Len(queue'[s]) = Len(queue[s]) + 1
           /\ \A i \in 1 .. Len(queue[s]) : queue'[s][i] = queue[s][i]
           /\ queue'[s][Len(queue[s]) + 1] = m
           /\ queue[s] # <<>> => queue'[s] # <<>> /\ Head(queue'[s]) = Head(queue[s])
<1>1. queue[s] \in Seq(Messages) /\ queue'[s] = Append(queue[s], m)
  OBVIOUS
<1>2. /\ Append(queue[s], m) \in Seq(Messages)
      /\ Len(Append(queue[s], m)) = Len(queue[s]) + 1
      /\ \A i \in 1 .. Len(queue[s]) : Append(queue[s], m)[i] = queue[s][i]
      /\ Append(queue[s], m)[Len(queue[s]) + 1] = m
  BY <1>1, AppendProperties
<1>3. Len(queue[s]) \in Nat
  BY <1>1, LenProperties
<1>4. queue[s] # <<>> => queue'[s] # <<>> /\ Head(queue'[s]) = Head(queue[s])
  BY <1>1
<1> QED BY <1>1, <1>2, <1>3, <1>4

(* The message that is deleted is the first one. *)
LEMMA Deleted ==
    ASSUME queue \in [Shards -> Seq(Messages)], NEW s \in Shards, queue[s] # <<>>,
           queue' = [queue EXCEPT ![s] = Tail(@)]
    PROVE  /\ queue' \in [Shards -> Seq(Messages)]
           /\ \A t \in Shards : t # s => queue'[t] = queue[t]
           /\ Len(queue[s]) \in Nat /\ Len(queue'[s]) = Len(queue[s]) - 1
           /\ \A i \in 1 .. Len(queue'[s]) : queue'[s][i] = queue[s][i + 1]
<1>1. queue[s] \in Seq(Messages) /\ queue'[s] = Tail(queue[s])
  OBVIOUS
<1>2. /\ Tail(queue[s]) \in Seq(Messages)
      /\ Len(Tail(queue[s])) = Len(queue[s]) - 1
      /\ \A i \in 1 .. Len(Tail(queue[s])) : Tail(queue[s])[i] = queue[s][i + 1]
  BY <1>1, HeadTailProperties
<1>3. Len(queue[s]) \in Nat
  BY <1>1, LenProperties
<1> QED BY <1>1, <1>2, <1>3

(* The first message is one of the queue. *)
LEMMA First ==
    ASSUME queue \in [Shards -> Seq(Messages)], NEW s \in Shards, queue[s] # <<>>
    PROVE  /\ Message(s) = queue[s][1] /\ 1 \in 1 .. Len(queue[s])
           /\ Message(s) \in Messages /\ Batch(s) \in 0 .. MaxBatches
<1>1. queue[s] \in Seq(Messages)
  OBVIOUS
<1>2. Message(s) = queue[s][1] /\ 1 \in 1 .. Len(queue[s])
  BY <1>1 DEF Message
<1>3. queue[s][1] \in Messages
  BY <1>1, <1>2, ElementOfSeq
<1> QED BY <1>2, <1>3 DEF Batch, Messages

LEMMA NoHistoryType == NoHistory \in Histories
  BY DEF NoHistory, Histories

-----------------------------------------------------------------------------
(* Types, extracts and the status. *)

LEMMA LambdaInit == ShardsInit => LambdaInv
<1> SUFFICES ASSUME ShardsInit PROVE LambdaInv
  OBVIOUS
<1>1. ShardsTypeOK
  BY DEF ShardsInit, ShardsTypeOK, NoHistory
<1>2. ExtractInv /\ StatusInv
  BY DEF ShardsInit, ExtractInv, StatusInv, AcknowledgedIsMarked
<1> QED BY <1>1, <1>2 DEF LambdaInv

(* The types, by the names that the steps use. *)
LEMMA ShardTypes ==
    ASSUME ShardsTypeOK
    PROVE  /\ extract \in Nat /\ queue \in [Shards -> Seq(Messages)]
           /\ feed.batch \in 0 .. MaxBatches /\ feed.next \in 0 .. NumShards
           /\ working \in [Shards -> Histories] /\ history \in [Shards -> Histories]
           /\ \A s \in Shards : step[s] # "idle" =>
                /\ queue[s] # <<>> /\ Batch(s) \in 1 .. MaxBatches
                /\ Message(s) \in Messages
<1>1. queue \in [Shards -> Seq(Messages)]
  BY DEF ShardsTypeOK, Messages
<1>2. ASSUME NEW s \in Shards, step[s] # "idle"
      PROVE  queue[s] # <<>> /\ Batch(s) \in 1 .. MaxBatches /\ Message(s) \in Messages
  <2>1. queue[s] # <<>> /\ Batch(s) # 0
    BY <1>2 DEF ShardsTypeOK
  <2> QED BY <2>1, <1>1, First
<1> QED BY <1>1, <1>2 DEF ShardsTypeOK, Histories

(* A message is added to a queue, and no Lambda does anything. *)
LEMMA SendingKeeps ==
    ASSUME LambdaInv, NEW s \in Shards, NEW m \in Messages, m.extract <= extract,
           queue' = [queue EXCEPT ![s] = Append(@, m)],
           writer' \in 0 .. NumShards, feed' \in [batch : 0 .. MaxBatches, next : 0 .. NumShards],
           UNCHANGED <<extract, lambdas, outcome, observers, faults>>
    PROVE  LambdaInv'
<1>1. /\ queue \in [Shards -> Seq(Messages)] /\ queue' \in [Shards -> Seq(Messages)]
      /\ \A t \in Shards : t # s => queue'[t] = queue[t]
      /\ Len(queue[s]) \in Nat /\ Len(queue'[s]) = Len(queue[s]) + 1
      /\ \A i \in 1 .. Len(queue[s]) : queue'[s][i] = queue[s][i]
      /\ queue'[s][Len(queue[s]) + 1] = m
      /\ queue[s] # <<>> => queue'[s] # <<>> /\ Head(queue'[s]) = Head(queue[s])
  BY ShardTypes, Sent DEF LambdaInv
<1>2. \A t \in Shards : queue[t] # <<>> => queue'[t] # <<>> /\ Batch(t)' = Batch(t)
  BY <1>1 DEF Batch, Message
<1>3. ShardsTypeOK'
  BY <1>1, <1>2 DEF LambdaInv, ShardsTypeOK, lambdas, outcome, observers, Messages
<1>4. ExtractInv'
  <2>1. \A t \in Shards : \A i \in 1 .. Len(queue'[t]) : queue'[t][i].extract <= extract
    <3> SUFFICES ASSUME NEW t \in Shards, NEW i \in 1 .. Len(queue'[t])
                 PROVE  queue'[t][i].extract <= extract
      OBVIOUS
    <3>1. CASE t # s
      BY <3>1, <1>1 DEF LambdaInv, ExtractInv
    <3>2. CASE t = s /\ i \in 1 .. Len(queue[s])
      BY <3>2, <1>1 DEF LambdaInv, ExtractInv
    <3>3. CASE t = s /\ i = Len(queue[s]) + 1
      BY <3>3, <1>1
    <3> QED BY <3>1, <3>2, <3>3, <1>1
  <2> QED BY <2>1 DEF LambdaInv, ExtractInv, lambdas, outcome, observers
<1>5. StatusInv'
  BY <1>2 DEF LambdaInv, ShardsTypeOK, StatusInv, AcknowledgedIsMarked, lambdas, outcome, observers
<1> QED BY <1>3, <1>4, <1>5 DEF LambdaInv

(* Nothing is sent yet, or any more. *)
LEMMA PreparingKeeps ==
    ASSUME LambdaInv, extract' \in Nat, extract <= extract', faults' \in Nat,
           writer' \in 0 .. NumShards, feed' \in [batch : 0 .. MaxBatches, next : 0 .. NumShards],
           UNCHANGED <<queue, lambdas, outcome, observers>>
    PROVE  LambdaInv'
<1>1. UNCHANGED <<queue, cache, connected, step, working, history, status, acknowledged, failed, told>>
  BY DEF lambdas, outcome, observers
<1>2. \A t \in Shards : Batch(t)' = Batch(t)
  BY <1>1 DEF Batch, Message
<1>3. ShardsTypeOK'
  BY <1>1, <1>2 DEF LambdaInv, ShardsTypeOK
<1>4. \A t \in Shards : \A i \in 1 .. Len(queue[t]) :
         queue[t][i].extract \in Nat /\ queue[t][i].extract <= extract
  <2>1. \A t \in Shards : \A i \in 1 .. Len(queue[t]) : queue[t][i] \in Messages
    BY ShardTypes, ElementOfSeq DEF LambdaInv
  <2> QED BY <2>1 DEF LambdaInv, ExtractInv, Messages
<1>5. \A t \in Shards : told[t] \in Nat /\ told[t] <= extract /\ extract \in Nat
  BY DEF LambdaInv, ExtractInv, ShardsTypeOK
<1>6. ExtractInv'
  <2>1. ASSUME NEW t \in Shards, NEW i \in 1 .. Len(queue[t])
        PROVE  queue[t][i].extract <= extract'
    <3> DEFINE x == queue[t][i].extract
    <3>1. x \in Nat /\ x <= extract /\ extract \in Nat
      BY <1>4, <1>5
    <3> HIDE DEF x
    <3>2. x <= extract'
      BY <3>1
    <3> QED BY <3>2 DEF x
  <2>2. \A t \in Shards : told[t] <= extract'
    BY <1>5
  <2>3. \A t \in Shards : (cache[t] # NoExtract => cache[t] >= told[t])
                          /\ (step[t] # "idle" => cache[t] # NoExtract)
    BY DEF LambdaInv, ExtractInv
  <2> QED BY <1>1, <2>1, <2>2, <2>3 DEF ExtractInv
<1>7. StatusInv'
  BY <1>1, <1>2 DEF LambdaInv, StatusInv, AcknowledgedIsMarked
<1> QED BY <1>3, <1>6, <1>7 DEF LambdaInv

LEMMA SendKeeps == LambdaInv /\ Send => LambdaInv'
<1> SUFFICES ASSUME LambdaInv, Send PROVE LambdaInv'
  OBVIOUS
<1>1. CASE NewBatch
  <2>1. /\ extract \in Nat /\ faults \in Nat /\ writer \in 0 .. NumShards
        /\ feed' \in [batch : 0 .. MaxBatches, next : 0 .. NumShards]
    <3>1. /\ extract \in Nat /\ faults \in Nat /\ writer \in 0 .. NumShards
          /\ feed.batch \in 0 .. MaxBatches /\ MaxBatches \in Nat
      BY DEF LambdaInv, ShardsTypeOK
    <3>2. feed' = [batch |-> feed.batch + 1, next |-> 0] /\ feed.batch < MaxBatches
      BY <1>1 DEF NewBatch
    <3>3. 0 \in 0 .. NumShards
      OBVIOUS
    <3> QED BY <3>1, <3>2, <3>3
  <2> QED BY <1>1, <2>1, PreparingKeeps DEF NewBatch
<1>2. CASE SendBatch
  <2>1. feed.next \in Shards /\ [batch |-> feed.batch, extract |-> 0] \in Messages
    BY <1>2, ShardTypes DEF SendBatch, LambdaInv, Messages
  <2>2. feed' \in [batch : 0 .. MaxBatches, next : 0 .. NumShards]
    <3>1. feed \in [batch : 0 .. MaxBatches, next : 0 .. NumShards]
      BY DEF LambdaInv, ShardsTypeOK
    <3>2. feed' = [batch |-> feed.batch, next |-> feed.next + 1]
      BY <1>2, <3>1 DEF SendBatch
    <3>3. feed.batch \in 0 .. MaxBatches /\ feed.next + 1 \in 0 .. NumShards
      BY <2>1, <3>1
    <3> QED BY <3>2, <3>3
  <2>3. 0 <= extract /\ writer \in 0 .. NumShards
    BY DEF LambdaInv, ShardsTypeOK
  <2> QED BY <1>2, <2>1, <2>2, <2>3, SendingKeeps DEF SendBatch
<1>3. CASE PutExtract
  <2>1. /\ extract' \in Nat /\ extract <= extract' /\ faults \in Nat /\ writer' \in 0 .. NumShards
        /\ feed \in [batch : 0 .. MaxBatches, next : 0 .. NumShards]
    BY <1>3 DEF PutExtract, LambdaInv, ShardsTypeOK
  <2> QED BY <1>3, <2>1, PreparingKeeps DEF PutExtract
<1>4. CASE NotifyOfExtract
  <2>1. writer \in Shards /\ [batch |-> 0, extract |-> extract] \in Messages /\ extract <= extract
    BY <1>4, ShardTypes DEF NotifyOfExtract, LambdaInv, Messages
  <2>2. writer' \in 0 .. NumShards /\ feed' \in [batch : 0 .. MaxBatches, next : 0 .. NumShards]
    BY <1>4, <2>1 DEF NotifyOfExtract, LambdaInv, ShardsTypeOK
  <2> QED BY <1>4, <2>1, <2>2, SendingKeeps DEF NotifyOfExtract
<1>5. CASE GiveUpSending
  <2>1. /\ extract \in Nat /\ faults' \in Nat /\ writer' \in 0 .. NumShards
        /\ feed' \in [batch : 0 .. MaxBatches, next : 0 .. NumShards]
    BY <1>5 DEF GiveUpSending, Fault, LambdaInv, ShardsTypeOK
  <2> QED BY <1>5, <2>1, PreparingKeeps DEF GiveUpSending
<1> QED BY <1>1, <1>2, <1>3, <1>4, <1>5 DEF Send

\* The types of what a handler writes, the queues apart.
LambdaTypes ==
    /\ cache \in [Shards -> Nat \cup {NoExtract}] /\ connected \in [Shards -> BOOLEAN]
    /\ step \in [Shards -> Steps]
    /\ working \in [Shards -> Histories] /\ history \in [Shards -> Histories]
    /\ status \in [1 .. MaxBatches -> {"None", "Success", "Failed"}]
    /\ acknowledged \in [Shards -> SUBSET (1 .. MaxBatches)]
    /\ failed \in [Shards -> SUBSET (1 .. MaxBatches)]
    /\ faults \in Nat

\* No other shard's Lambda moves, and no batch loses its status.
OthersRest(s) ==
    /\ \A t \in Shards \ {s} :
         /\ cache'[t] = cache[t] /\ step'[t] = step[t]
         /\ acknowledged'[t] = acknowledged[t]
    /\ \A b \in 1 .. MaxBatches : status[b] # "None" => status'[b] # "None"
    /\ \A b \in acknowledged'[s] : status'[b] # "None"

(* A handler goes on, or its invocation ends and leaves the message.        *)
LEMMA GoingOnKeeps ==
    ASSUME LambdaInv, NEW s \in Shards, UNCHANGED <<extract, writer, feed, queue, told>>,
           LambdaTypes', OthersRest(s),
           cache'[s] # NoExtract => cache'[s] >= told[s],
           step'[s] # "idle" => cache'[s] # NoExtract /\ queue[s] # <<>> /\ Batch(s) # 0,
           step'[s] \in {"updated", "saved"} => status'[Batch(s)] # "None"
    PROVE  LambdaInv'
<1>1. \A t \in Shards : Batch(t)' = Batch(t)
  BY DEF Batch, Message
<1>2. ShardsTypeOK'
  <2>1. \A t \in Shards : step'[t] # "idle" => queue[t] # <<>> /\ Batch(t) # 0
    BY DEF LambdaInv, ShardsTypeOK, OthersRest
  <2> QED BY <1>1, <2>1 DEF LambdaInv, ShardsTypeOK, LambdaTypes, Histories
<1>3. ExtractInv'
  BY DEF LambdaInv, ExtractInv, OthersRest
<1>4. StatusInv'
  <2>1. AcknowledgedIsMarked'
    BY DEF LambdaInv, ShardsTypeOK, StatusInv, AcknowledgedIsMarked, OthersRest
  <2>2. ASSUME NEW t \in Shards, step'[t] \in {"updated", "saved"} PROVE status'[Batch(t)] # "None"
    <3>1. CASE t = s
      BY <2>2, <3>1
    <3>2. CASE t # s
      <4>1. step[t] \in {"updated", "saved"}
        BY <2>2, <3>2 DEF OthersRest
      <4>2. Batch(t) \in 1 .. MaxBatches
        BY <4>1, ShardTypes DEF LambdaInv
      <4> QED BY <4>1, <4>2 DEF LambdaInv, StatusInv, OthersRest
    <3> QED BY <3>1, <3>2
  <2> QED BY <1>1, <2>1, <2>2 DEF StatusInv
<1> QED BY <1>2, <1>3, <1>4 DEF LambdaInv

(* A handler returns, and its message is deleted.                           *)
LEMMA ReturningKeeps ==
    ASSUME LambdaInv, NEW s \in Shards, UNCHANGED <<extract, writer, feed>>,
           queue[s] # <<>>, queue' = [queue EXCEPT ![s] = Tail(@)],
           LambdaTypes', OthersRest(s), told' \in [Shards -> Nat],
           \A t \in Shards \ {s} : told'[t] = told[t],
           told'[s] <= extract, cache'[s] # NoExtract => cache'[s] >= told'[s],
           step'[s] = "idle"
    PROVE  LambdaInv'
<1>1. /\ queue' \in [Shards -> Seq(Messages)]
      /\ \A t \in Shards : t # s => queue'[t] = queue[t]
      /\ Len(queue[s]) \in Nat /\ Len(queue'[s]) = Len(queue[s]) - 1
      /\ \A i \in 1 .. Len(queue'[s]) : queue'[s][i] = queue[s][i + 1]
  BY ShardTypes, Deleted DEF LambdaInv
<1>2. \A t \in Shards : t # s => Batch(t)' = Batch(t)
  BY <1>1 DEF Batch, Message
<1>3. ShardsTypeOK'
  <2>1. ASSUME NEW t \in Shards, step'[t] # "idle"
        PROVE  queue'[t] # <<>> /\ Batch(t)' # 0
    <3>1. t # s /\ step[t] # "idle"
      BY <2>1 DEF OthersRest
    <3> QED BY <3>1, <1>1, <1>2 DEF LambdaInv, ShardsTypeOK
  <2> QED BY <1>1, <2>1 DEF LambdaInv, ShardsTypeOK, LambdaTypes, Histories, Messages
<1>4. ExtractInv'
  <2>1. ASSUME NEW t \in Shards, NEW i \in 1 .. Len(queue'[t])
        PROVE  queue'[t][i].extract <= extract
    <3>1. CASE t = s
      <4>1. i + 1 \in 1 .. Len(queue[s]) /\ queue'[s][i] = queue[s][i + 1]
        BY <3>1, <1>1
      <4> QED BY <3>1, <4>1 DEF LambdaInv, ExtractInv
    <3>2. CASE t # s
      BY <3>2, <1>1 DEF LambdaInv, ExtractInv
    <3> QED BY <3>1, <3>2
  <2>2. ASSUME NEW t \in Shards
        PROVE  /\ told'[t] <= extract
               /\ cache'[t] # NoExtract => cache'[t] >= told'[t]
               /\ step'[t] # "idle" => cache'[t] # NoExtract
    <3>1. CASE t = s
      BY <3>1
    <3>2. CASE t # s
      BY <3>2 DEF LambdaInv, ExtractInv, OthersRest
    <3> QED BY <3>1, <3>2
  <2> QED BY <2>1, <2>2 DEF ExtractInv
<1>5. StatusInv'
  <2>1. AcknowledgedIsMarked'
    BY DEF LambdaInv, ShardsTypeOK, StatusInv, AcknowledgedIsMarked, OthersRest
  <2>2. ASSUME NEW t \in Shards, step'[t] \in {"updated", "saved"} PROVE status'[Batch(t)'] # "None"
    <3>1. t # s /\ step[t] \in {"updated", "saved"}
      BY <2>2 DEF OthersRest
    <3>2. Batch(t) \in 1 .. MaxBatches
      BY <3>1, ShardTypes DEF LambdaInv
    <3> QED BY <3>1, <3>2, <1>2 DEF LambdaInv, StatusInv, OthersRest
  <2> QED BY <2>1, <2>2 DEF StatusInv
<1> QED BY <1>3, <1>4, <1>5 DEF LambdaInv

(* What a step that only ends an invocation writes. *)
LEMMA TypesNow == LambdaInv => LambdaTypes
  BY DEF LambdaInv, ShardsTypeOK, LambdaTypes, Histories

(* match_avl_batch makes a history of a history. *)
LEMMA MatchTypes ==
    ASSUME LambdaInv, NEW s \in Shards, Match(s)
    PROVE  working' \in [Shards -> Histories]
<1>1. Batch(s) \in 1 .. MaxBatches /\ history[s] \in Histories /\ working \in [Shards -> Histories]
  BY ShardTypes DEF LambdaInv, Match
<1>2. \A o \in Operators : history[s][o] \in Seq(1 .. MaxBatches)
                           /\ Append(history[s][o], Batch(s)) \in Seq(1 .. MaxBatches)
  BY <1>1, AppendProperties DEF Histories
<1> QED BY <1>1, <1>2 DEF Match, Key, Histories

(* One step of the handler of shard s, or of its environment. *)
LEMMA HandlerStep ==
    ASSUME LambdaInv, NEW s \in Shards,
           \/ Handle(s)
           \/ ExtractUnreadable(s) \/ CallFails(s)
           \/ LoseConnection(s) \/ Die(s) \/ Recycle(s)
    PROVE  LambdaInv'
<1>0. /\ LambdaTypes /\ NoHistory \in Histories /\ extract \in Nat
      /\ queue \in [Shards -> Seq(Messages)]
      /\ \A b \in acknowledged[s] : status[b] # "None"
      /\ told \in [Shards -> Nat] /\ told[s] <= extract
      /\ cache[s] # NoExtract => cache[s] >= told[s]
  BY TypesNow, NoHistoryType
     DEF LambdaInv, ShardsTypeOK, StatusInv, AcknowledgedIsMarked, ExtractInv, Messages
<1>1. CASE UpdateTimetable(s)
  <2>1. /\ queue[s] # <<>> /\ queue' = [queue EXCEPT ![s] = Tail(@)]
        /\ UNCHANGED <<extract, writer, feed, connected, history, status, acknowledged, failed, faults>>
        /\ cache' = [cache EXCEPT ![s] = extract]
        /\ told' = [told EXCEPT ![s] = Message(s).extract]
        /\ step' = [step EXCEPT ![s] = "idle"] /\ working' = [working EXCEPT ![s] = NoHistory]
    BY <1>1 DEF UpdateTimetable, Delete, outcome
  <2>2. Message(s).extract \in Nat /\ Message(s).extract <= extract
    BY <1>0, <2>1, First DEF LambdaInv, ExtractInv, Messages
  <2>3. LambdaTypes'
    BY <1>0, <2>1 DEF LambdaTypes
  <2>4. OthersRest(s)
    BY <1>0, <2>1 DEF LambdaTypes, OthersRest
  <2>5. /\ told' \in [Shards -> Nat] /\ \A t \in Shards \ {s} : told'[t] = told[t]
        /\ told'[s] <= extract /\ cache'[s] >= told'[s] /\ step'[s] = "idle"
    BY <1>0, <2>1, <2>2 DEF LambdaTypes
  <2> QED BY <2>1, <2>3, <2>4, <2>5, ReturningKeeps
<1>2. CASE Deliver(s)
  <2>1. /\ UNCHANGED <<extract, writer, feed, queue, told, connected, working, history, status,
                       acknowledged, failed, faults>>
        /\ cache' = [cache EXCEPT ![s] = IF @ = NoExtract THEN extract ELSE @]
        /\ step' = [step EXCEPT ![s] = "delivered"]
        /\ queue[s] # <<>> /\ Batch(s) # 0
    BY <1>2 DEF Deliver, world, outcome, observers
  <2>2. LambdaTypes' /\ OthersRest(s)
    BY <1>0, <2>1 DEF LambdaTypes, OthersRest
  <2>3. cache'[s] # NoExtract /\ cache'[s] >= told[s] /\ step'[s] = "delivered"
    BY <1>0, <2>1 DEF LambdaTypes
  <2> QED BY <2>1, <2>2, <2>3, GoingOnKeeps
<1>3. CASE ExtractUnreadable(s) \/ LoseConnection(s)
  <2>1. /\ UNCHANGED <<extract, writer, feed, queue, told, cache, step, working, history, status,
                       acknowledged, failed>>
        /\ connected' \in [Shards -> BOOLEAN] /\ faults' \in Nat
    <3>1. CASE ExtractUnreadable(s)
      BY <1>0, <3>1 DEF ExtractUnreadable, Fault, world, lambdas, outcome, observers, LambdaTypes
    <3>2. CASE LoseConnection(s)
      BY <1>0, <3>2 DEF LoseConnection, Fault, world, outcome, observers, LambdaTypes
    <3> QED BY <1>3, <3>1, <3>2
  <2>2. LambdaTypes' /\ OthersRest(s)
    BY <1>0, <2>1 DEF LambdaTypes, OthersRest
  <2>3. /\ step[s] # "idle" => cache[s] # NoExtract /\ queue[s] # <<>> /\ Batch(s) # 0
        /\ step[s] \in {"updated", "saved"} => status[Batch(s)] # "None"
    BY DEF LambdaInv, ShardsTypeOK, ExtractInv, StatusInv
  <2> QED BY <1>0, <2>1, <2>2, <2>3, GoingOnKeeps
<1>4. CASE Match(s) \/ UpdateRows(s) \/ SaveHistory(s)
  <2>1. /\ UNCHANGED <<extract, writer, feed, queue, told, cache, connected, acknowledged, failed, faults>>
        /\ step[s] # "idle" /\ \A t \in Shards \ {s} : step'[t] = step[t]
    BY <1>0, <1>4 DEF Match, UpdateRows, SaveHistory, world, outcome, observers, LambdaTypes
  <2>2. /\ cache[s] # NoExtract /\ queue[s] # <<>> /\ Batch(s) # 0 /\ Batch(s) \in 1 .. MaxBatches
    BY <2>1, ShardTypes DEF LambdaInv, ShardsTypeOK, ExtractInv
  <2>3. /\ status' \in [1 .. MaxBatches -> {"None", "Success", "Failed"}]
        /\ \A b \in 1 .. MaxBatches : status[b] # "None" => status'[b] # "None"
        /\ step' \in [Shards -> Steps]
        /\ step'[s] \in {"updated", "saved"} => status'[Batch(s)] # "None"
    <3>1. CASE Match(s)
      BY <1>0, <3>1 DEF Match, outcome, LambdaTypes
    <3>2. CASE UpdateRows(s)
      BY <1>0, <2>2, <3>2 DEF UpdateRows, LambdaTypes
    <3>3. CASE SaveHistory(s)
      BY <1>0, <3>3 DEF SaveHistory, LambdaTypes, LambdaInv, StatusInv
    <3> QED BY <1>4, <3>1, <3>2, <3>3
  <2>4. working' \in [Shards -> Histories] /\ history' \in [Shards -> Histories]
    <3>1. CASE Match(s)
      BY <1>0, <3>1, MatchTypes DEF Match, outcome, LambdaTypes
    <3>2. CASE UpdateRows(s) \/ SaveHistory(s)
      BY <1>0, <3>2 DEF UpdateRows, SaveHistory, LambdaTypes, Key
    <3> QED BY <1>4, <3>1, <3>2
  <2>5. LambdaTypes'
    BY <1>0, <2>1, <2>3, <2>4 DEF LambdaTypes
  <2>6. OthersRest(s)
    BY <1>0, <2>1, <2>3 DEF LambdaTypes, OthersRest
  <2> QED BY <1>0, <2>1, <2>2, <2>3, <2>5, <2>6, GoingOnKeeps
<1>5. CASE Acknowledge(s)
  <2>1. /\ UNCHANGED <<extract, writer, feed, cache, connected, history, status, failed, told, faults>>
        /\ step[s] = "saved" /\ queue' = [queue EXCEPT ![s] = Tail(@)]
        /\ step' = [step EXCEPT ![s] = "idle"] /\ working' = [working EXCEPT ![s] = NoHistory]
        /\ acknowledged' = [acknowledged EXCEPT ![s] = @ \cup {Batch(s)}]
    BY <1>5 DEF Acknowledge, Delete, outcome
  <2>2. queue[s] # <<>> /\ Batch(s) \in 1 .. MaxBatches /\ status[Batch(s)] # "None"
    BY <2>1, ShardTypes DEF LambdaInv, StatusInv
  <2>3. LambdaTypes' /\ OthersRest(s) /\ step'[s] = "idle"
    BY <1>0, <2>1, <2>2 DEF LambdaTypes, OthersRest
  <2> QED BY <1>0, <2>1, <2>2, <2>3, ReturningKeeps
<1>6. CASE CallFails(s) \/ NotConnected(s)
  <2>1. /\ UNCHANGED <<extract, writer, feed, cache, connected, told>>
        /\ step[s] # "idle" /\ FailBatch(s)
        /\ history' \in [Shards -> Histories] /\ faults' \in Nat
    <3>1. CASE CallFails(s)
      <4>1. history' \in [Shards -> Histories] /\ faults' \in Nat
        <5>1. /\ faults' = faults + 1
              /\ history' = history \/ history' = [history EXCEPT ![s] = working[s]]
          BY <3>1, Zenon DEF CallFails, Fault, Key
        <5>2. [history EXCEPT ![s] = working[s]] \in [Shards -> Histories]
          BY <1>0 DEF LambdaTypes
        <5>3. faults \in Nat /\ history \in [Shards -> Histories]
          BY <1>0 DEF LambdaTypes
        <5>4. faults' \in Nat
          BY <5>1, <5>3
        <5>5. history' \in [Shards -> Histories]
          BY <5>1, <5>2, <5>3, Zenon
        <5> QED BY <5>4, <5>5
      <4>2. UNCHANGED <<extract, writer, feed, told>>
        BY <3>1 DEF CallFails, FailBatch, Delete, Leave, world, observers
      <4> QED BY <3>1, <4>1, <4>2 DEF CallFails
    <3>2. CASE NotConnected(s)
      <4>1. UNCHANGED <<extract, writer, feed, told>>
        BY <3>2 DEF NotConnected, FailBatch, Delete, Leave, world, observers
      <4> QED BY <1>0, <3>2, <4>1 DEF NotConnected, LambdaTypes
    <3> QED BY <1>6, <3>1, <3>2
  <2>2. queue[s] # <<>> /\ Batch(s) \in 1 .. MaxBatches
    BY <2>1, ShardTypes DEF LambdaInv
  <2>3. /\ step' = [step EXCEPT ![s] = "idle"] /\ working' = [working EXCEPT ![s] = NoHistory]
        /\ \/ /\ status' = [status EXCEPT ![Batch(s)] = "Failed"]
              /\ acknowledged' = [acknowledged EXCEPT ![s] = @ \cup {Batch(s)}]
              /\ failed' = [failed EXCEPT ![s] = @ \cup {Batch(s)}]
              /\ queue' = [queue EXCEPT ![s] = Tail(@)]
           \/ UNCHANGED <<status, acknowledged, failed, queue>>
    BY <2>1 DEF FailBatch, Delete, Leave, world, observers
  <2>4. LambdaTypes' /\ OthersRest(s) /\ step'[s] = "idle"
    <3>1. /\ status' \in [1 .. MaxBatches -> {"None", "Success", "Failed"}]
          /\ acknowledged' \in [Shards -> SUBSET (1 .. MaxBatches)]
          /\ failed' \in [Shards -> SUBSET (1 .. MaxBatches)]
          /\ \A t \in Shards \ {s} : acknowledged'[t] = acknowledged[t]
      <4>1. CASE UNCHANGED <<status, acknowledged, failed, queue>>
        BY <1>0, <4>1 DEF LambdaTypes
      <4>2. CASE /\ status' = [status EXCEPT ![Batch(s)] = "Failed"]
                 /\ acknowledged' = [acknowledged EXCEPT ![s] = @ \cup {Batch(s)}]
                 /\ failed' = [failed EXCEPT ![s] = @ \cup {Batch(s)}]
        BY <1>0, <2>2, <4>2 DEF LambdaTypes
      <4> QED BY <2>3, <4>1, <4>2
    <3>2. /\ step' \in [Shards -> Steps] /\ step'[s] = "idle" /\ working' \in [Shards -> Histories]
          /\ \A t \in Shards \ {s} : step'[t] = step[t]
      BY <1>0, <2>3 DEF LambdaTypes
    <3>3. \A b \in acknowledged'[s] : status'[b] # "None"
      <4>1. CASE UNCHANGED <<status, acknowledged, failed, queue>>
        BY <1>0, <4>1
      <4>2. CASE /\ status' = [status EXCEPT ![Batch(s)] = "Failed"]
                 /\ acknowledged' = [acknowledged EXCEPT ![s] = @ \cup {Batch(s)}]
        BY <1>0, <2>2, <4>2 DEF LambdaTypes
      <4> QED BY <2>3, <4>1, <4>2
    <3>4. \A b \in 1 .. MaxBatches : status[b] # "None" => status'[b] # "None"
      BY <1>0, <2>2, <2>3 DEF LambdaTypes
    <3> QED BY <1>0, <2>1, <3>1, <3>2, <3>3, <3>4 DEF LambdaTypes, OthersRest
  <2>5. CASE queue' = [queue EXCEPT ![s] = Tail(@)]
    BY <1>0, <2>1, <2>2, <2>4, <2>5, ReturningKeeps
  <2>6. CASE UNCHANGED queue
    BY <1>0, <2>1, <2>2, <2>4, <2>6, GoingOnKeeps
  <2> QED BY <2>3, <2>5, <2>6
<1>7. CASE Die(s) \/ Recycle(s)
  <2>1. /\ UNCHANGED <<extract, writer, feed, queue, told, history, status, acknowledged, failed>>
        /\ cache' = [cache EXCEPT ![s] = NoExtract] /\ connected' = [connected EXCEPT ![s] = TRUE]
        /\ step'[s] = "idle" /\ \A t \in Shards \ {s} : step'[t] = step[t]
        /\ step' \in [Shards -> Steps] /\ working' \in [Shards -> Histories] /\ faults' \in Nat
    <3>1. CASE Die(s)
      BY <1>0, <3>1 DEF Die, Renewed, Leave, Fault, world, outcome, observers, LambdaTypes
    <3>2. CASE Recycle(s)
      BY <1>0, <3>2 DEF Recycle, Renewed, world, outcome, observers, LambdaTypes
    <3> QED BY <1>7, <3>1, <3>2
  <2>2. LambdaTypes' /\ OthersRest(s) /\ cache'[s] = NoExtract
    BY <1>0, <2>1 DEF LambdaTypes, OthersRest
  <2> QED BY <1>0, <2>1, <2>2, GoingOnKeeps
<1> QED BY <1>1, <1>2, <1>3, <1>4, <1>5, <1>6, <1>7 DEF Handle

LEMMA LambdaStep == LambdaInv /\ [ShardsNext]_shardVars => LambdaInv'
<1>1. ASSUME LambdaInv, UNCHANGED shardVars PROVE LambdaInv'
  <2>1. /\ extract \in Nat /\ faults \in Nat /\ writer \in 0 .. NumShards
        /\ feed \in [batch : 0 .. MaxBatches, next : 0 .. NumShards]
    BY <1>1 DEF LambdaInv, ShardsTypeOK
  <2> QED BY <1>1, <2>1, PreparingKeeps DEF shardVars, world
<1> QED BY <1>1, SendKeeps, HandlerStep DEF ShardsNext

(* The queues, the Lambdas, the histories and the status keep their types,  *)
(* and a handler always has a batch to go on with.                          *)
THEOREM ShardsTyped == ShardsSpec => []ShardsTypeOK
<1>1. LambdaInv => ShardsTypeOK
  BY DEF LambdaInv
<1> QED BY <1>1, LambdaInit, LambdaStep, PTL DEF ShardsSpec

(* However many extracts are written, whatever cannot be read and whenever  *)
(* an environment is replaced: a batch is matched with an extract no older  *)
(* than the last one announced before it.                                   *)
THEOREM ExtractsAreCurrent == ShardsSpec => []ExtractNotOlder
<1>1. LambdaInv => ExtractNotOlder
  BY DEF LambdaInv, ShardsTypeOK, ExtractInv, ExtractNotOlder
<1> QED BY <1>1, LambdaInit, LambdaStep, PTL DEF ShardsSpec

(* No shard deletes the message of a batch without a status, with any       *)
(* number of failed calls and lost connections.                             *)
THEOREM NoneLetGoUnmarked == ShardsSpec => []AcknowledgedIsMarked
<1>1. LambdaInv => AcknowledgedIsMarked
  BY DEF LambdaInv, StatusInv
<1> QED BY <1>1, LambdaInit, LambdaStep, PTL DEF ShardsSpec

-----------------------------------------------------------------------------
(* The histories.  q is the queue of shard s, f the feed and H a history.  *)

Rising(h) == \A i, j \in DOMAIN h : i < j => h[i] < h[j]
Has(h, b) == \E i \in DOMAIN h : h[i] = b

\* Batch b can still be sent to shard s.
ToCome(s, b, f) == b > f.batch \/ (b = f.batch /\ s >= f.next)

\* The batches are queued in the order of the feed, and none of them is still to come.
InOrder(s, q, f) ==
    /\ \A i, j \in 1 .. Len(q) :
         i < j /\ q[i].batch # 0 /\ q[j].batch # 0 => q[i].batch < q[j].batch
    /\ \A i \in 1 .. Len(q) : q[i].batch # 0 => ~ToCome(s, q[i].batch, f)

\* No batch before b is in the queue or still to come.
Behind(s, b, q, f) ==
    /\ ~ToCome(s, b, f)
    /\ \A i \in 1 .. Len(q) : q[i].batch # 0 => b <= q[i].batch

\* A history of the shard's own operators, in order and behind the queue.
OwnInOrder(s, H, q, f) == \A o \in Operators :
    /\ ShardOf(o) # s => H[o] = <<>>
    /\ Rising(H[o])
    /\ \A k \in DOMAIN H[o] : Behind(s, H[o][k], q, f)

\* None of the batches B is missing.
Complete(s, H, B) == \A o \in Operators :
    ShardOf(o) = s => \A b \in B : Has(H[o], b)

WorkInv(s) ==
    /\ OwnInOrder(s, working[s], queue[s], feed)
    /\ step[s] \in {"matched", "updated", "saved"} =>
         Complete(s, working[s], (acknowledged[s] \ failed[s]) \cup {Batch(s)})
    /\ step[s] = "saved" => history[s] = working[s]

FilesOf(s) ==
    /\ InOrder(s, queue[s], feed)
    /\ OwnInOrder(s, history[s], queue[s], feed)
    /\ Complete(s, history[s], acknowledged[s] \ failed[s])
    /\ WorkInv(s)

FilesInv == LambdaInv /\ \A s \in Shards : FilesOf(s)

Feeds == [batch : 0 .. MaxBatches, next : 0 .. NumShards]

(* What is in the queue keeps its order when the first message goes, and    *)
(* when the feed goes on.                                                   *)
LEMMA OrderKept ==
    ASSUME NEW s \in Shards, NEW q \in Seq(Messages), NEW r \in Seq(Messages),
           NEW f \in Feeds, NEW g \in Feeds,
           \A b \in Nat : ToCome(s, b, g) => ToCome(s, b, f),
           r = q \/ (q # <<>> /\ r = Tail(q)),
           InOrder(s, q, f)
    PROVE  /\ InOrder(s, r, g)
           /\ \A b \in Nat : Behind(s, b, q, f) => Behind(s, b, r, g)
<1>1. /\ Len(q) \in Nat /\ Len(r) \in Nat
      /\ \A i \in 1 .. Len(q) : q[i].batch \in Nat
      /\ \A i \in 1 .. Len(r) : r[i].batch \in Nat
  <2>1. /\ \A i \in 1 .. Len(q) : q[i] \in Messages
        /\ \A i \in 1 .. Len(r) : r[i] \in Messages
    BY ElementOfSeq
  <2>2. \A m \in Messages : m.batch \in Nat
    BY DEF Messages
  <2>3. Len(q) \in Nat /\ Len(r) \in Nat
    BY LenProperties
  <2> QED BY <2>1, <2>2, <2>3
<1>2. PICK d \in {0, 1} : /\ Len(r) = Len(q) - d
                          /\ \A i \in 1 .. Len(r) : r[i] = q[i + d]
  <2>1. CASE r = q
    BY <2>1, <1>1
  <2>2. CASE q # <<>> /\ r = Tail(q)
    BY <2>2, <1>1, HeadTailProperties
  <2> QED BY <2>1, <2>2
<1>3. \A i \in 1 .. Len(r) : i + d \in 1 .. Len(q)
  BY <1>1, <1>2
<1>4. InOrder(s, r, g)
  <2>1. ASSUME NEW i \in 1 .. Len(r), r[i].batch # 0 PROVE ~ToCome(s, r[i].batch, g)
    BY <1>1, <1>2, <1>3, <2>1 DEF InOrder
  <2>2. ASSUME NEW i \in 1 .. Len(r), NEW j \in 1 .. Len(r), i < j,
               r[i].batch # 0, r[j].batch # 0
        PROVE  r[i].batch < r[j].batch
    <3>1. /\ i + d \in 1 .. Len(q) /\ j + d \in 1 .. Len(q) /\ i + d < j + d
          /\ r[i] = q[i + d] /\ r[j] = q[j + d]
      BY <1>1, <1>2, <1>3, <2>2
    <3> QED BY <2>2, <3>1 DEF InOrder
  <2> QED BY <2>1, <2>2 DEF InOrder
<1>5. \A b \in Nat : Behind(s, b, q, f) => Behind(s, b, r, g)
  BY <1>1, <1>2, <1>3 DEF Behind
<1> QED BY <1>4, <1>5

(* A message at the end keeps the order, if it is not of a batch or of the  *)
(* one whose turn it is.                                                    *)
LEMMA OrderSent ==
    ASSUME NEW s \in Shards, NEW q \in Seq(Messages), NEW m \in Messages,
           NEW f \in Feeds, NEW g \in Feeds,
           \A b \in Nat : ToCome(s, b, g) => ToCome(s, b, f),
           m.batch # 0 => ToCome(s, m.batch, f) /\ ~ToCome(s, m.batch, g),
           InOrder(s, q, f)
    PROVE  /\ InOrder(s, Append(q, m), g)
           /\ \A b \in Nat : Behind(s, b, q, f) => Behind(s, b, Append(q, m), g)
<1> DEFINE r == Append(q, m)
<1>1. /\ Len(q) \in Nat /\ Len(r) = Len(q) + 1
      /\ \A i \in 1 .. Len(q) : q[i].batch \in Nat /\ r[i] = q[i]
      /\ r[Len(q) + 1] = m /\ m.batch \in Nat
  <2>1. \A i \in 1 .. Len(q) : q[i] \in Messages
    BY ElementOfSeq
  <2>2. \A i \in 1 .. Len(q) : q[i].batch \in Nat
    BY <2>1 DEF Messages
  <2>3. m.batch \in Nat
    BY DEF Messages
  <2> QED BY <2>2, <2>3, LenProperties, AppendProperties
<1>2. f.batch \in Nat /\ g.batch \in Nat
  BY DEF Feeds
<1> HIDE DEF r
<1>3. \A i \in 1 .. Len(r) : i \in 1 .. Len(q) \/ i = Len(q) + 1
  BY <1>1
<1>4. ASSUME m.batch # 0, NEW b \in Nat, ~ToCome(s, b, f) PROVE b < m.batch
  BY <1>1, <1>2, <1>4 DEF ToCome
<1>5. InOrder(s, r, g)
  <2>1. ASSUME NEW i \in 1 .. Len(r), r[i].batch # 0 PROVE ~ToCome(s, r[i].batch, g)
    BY <1>1, <1>3, <2>1 DEF InOrder
  <2>2. ASSUME NEW i \in 1 .. Len(r), NEW j \in 1 .. Len(r), i < j,
               r[i].batch # 0, r[j].batch # 0
        PROVE  r[i].batch < r[j].batch
    <3>1. i \in 1 .. Len(q)
      BY <1>1, <2>2
    <3>2. CASE j \in 1 .. Len(q)
      BY <1>1, <2>2, <3>1, <3>2 DEF InOrder
    <3>3. CASE j = Len(q) + 1
      BY <1>1, <1>4, <2>2, <3>1, <3>3 DEF InOrder
    <3> QED BY <1>3, <3>2, <3>3
  <2> QED BY <2>1, <2>2 DEF InOrder
<1>6. ASSUME NEW b \in Nat, Behind(s, b, q, f) PROVE Behind(s, b, r, g)
  <2>1. ~ToCome(s, b, f) /\ ~ToCome(s, b, g)
    BY <1>6 DEF Behind
  <2>2. ASSUME NEW i \in 1 .. Len(r), r[i].batch # 0 PROVE b <= r[i].batch
    <3>1. CASE i \in 1 .. Len(q)
      BY <1>1, <1>6, <2>2, <3>1 DEF Behind
    <3>2. CASE i = Len(q) + 1
      BY <1>1, <1>4, <2>1, <2>2, <3>2
    <3> QED BY <1>3, <3>1, <3>2
  <2> QED BY <2>1, <2>2 DEF Behind
<1> QED BY <1>5, <1>6 DEF r

(* A history stays behind a queue that goes on.                             *)
LEMMA OwnKept ==
    ASSUME NEW s \in Shards, NEW H \in Histories,
           NEW q, NEW r, NEW f, NEW g,
           \A b \in Nat : Behind(s, b, q, f) => Behind(s, b, r, g),
           OwnInOrder(s, H, q, f)
    PROVE  OwnInOrder(s, H, r, g)
<1>1. \A o \in Operators : \A k \in DOMAIN H[o] : H[o][k] \in Nat
  BY ElementOfSeq DEF Histories
<1> QED BY <1>1 DEF OwnInOrder

LEMMA NothingInOrder ==
    ASSUME NEW s, NEW q, NEW f PROVE OwnInOrder(s, NoHistory, q, f)
  BY DEF OwnInOrder, NoHistory, Rising

(* The files of a shard whose handler does nothing, or is at its beginning. *)
LEMMA StandingStill ==
    ASSUME LambdaInv, NEW s \in Shards, FilesOf(s),
           InOrder(s, queue'[s], feed'),
           \A b \in Nat : Behind(s, b, queue[s], feed) => Behind(s, b, queue'[s], feed'),
           history'[s] = history[s], working'[s] = working[s],
           acknowledged'[s] = acknowledged[s], failed'[s] = failed[s],
           \/ step'[s] = step[s] /\ (step[s] # "idle" => Batch(s)' = Batch(s))
           \/ step'[s] = "delivered"
    PROVE  FilesOf(s)'
<1>1. working[s] \in Histories /\ history[s] \in Histories
  BY ShardTypes DEF LambdaInv
<1>2. /\ OwnInOrder(s, history[s], queue'[s], feed')
      /\ OwnInOrder(s, working[s], queue'[s], feed')
  BY <1>1, OwnKept DEF FilesOf, WorkInv
<1>3. WorkInv(s)'
  BY <1>2 DEF FilesOf, WorkInv
<1> QED BY <1>2, <1>3 DEF FilesOf

(* The feed does not go back. *)
LEMMA FeedGoesOn ==
    ASSUME LambdaInv, Send, NEW s \in Shards, NEW b \in Nat, ToCome(s, b, feed')
    PROVE  ToCome(s, b, feed)
<1>1. feed.batch \in Nat /\ feed.next \in 0 .. NumShards /\ feed \in Feeds
  BY DEF LambdaInv, ShardsTypeOK, Feeds
<1>2. CASE NewBatch
  BY <1>1, <1>2 DEF NewBatch, ToCome
<1>3. CASE SendBatch
  BY <1>1, <1>3 DEF SendBatch, ToCome, Feeds
<1>4. CASE PutExtract \/ NotifyOfExtract
  BY <1>4 DEF PutExtract, NotifyOfExtract
<1>5. CASE GiveUpSending
  BY <1>1, <1>5 DEF GiveUpSending, ToCome, Feeds
<1> QED BY <1>2, <1>3, <1>4, <1>5 DEF Send

LEMMA SendKeepsFiles ==
    ASSUME FilesInv, Send, LambdaInv', NEW s \in Shards
    PROVE  FilesOf(s)'
<1>1. /\ UNCHANGED <<cache, connected, step, working, history, status, acknowledged, failed, told>>
      /\ LambdaInv /\ FilesOf(s) /\ InOrder(s, queue[s], feed)
  BY DEF FilesInv, FilesOf, Send, NewBatch, SendBatch, PutExtract, NotifyOfExtract, GiveUpSending,
         lambdas, outcome, observers
<1>2. /\ queue[s] \in Seq(Messages) /\ queue'[s] \in Seq(Messages)
      /\ feed \in Feeds /\ feed' \in Feeds
      /\ queue \in [Shards -> Seq(Messages)]
  BY <1>1 DEF LambdaInv, ShardsTypeOK, Messages, Feeds
<1>3. \A b \in Nat : ToCome(s, b, feed') => ToCome(s, b, feed)
  BY <1>1, FeedGoesOn
<1>4. CASE UNCHANGED queue
  <2>1. /\ InOrder(s, queue'[s], feed')
        /\ \A b \in Nat : Behind(s, b, queue[s], feed) => Behind(s, b, queue'[s], feed')
    BY <1>1, <1>2, <1>3, <1>4, OrderKept
  <2>2. Batch(s)' = Batch(s)
    BY <1>4 DEF Batch, Message
  <2> QED BY <1>1, <2>1, <2>2, StandingStill
<1>5. ASSUME NEW t \in Shards, NEW m \in Messages,
             queue' = [queue EXCEPT ![t] = Append(@, m)],
             m.batch # 0 => ToCome(t, m.batch, feed) /\ ~ToCome(t, m.batch, feed')
      PROVE  FilesOf(s)'
  <2>1. step[s] # "idle" => Batch(s)' = Batch(s)
    <3> SUFFICES ASSUME step[s] # "idle" PROVE Batch(s)' = Batch(s)
      OBVIOUS
    <3>1. queue[s] # <<>>
      BY <1>1, ShardTypes DEF LambdaInv
    <3> QED BY <1>2, <1>5, <3>1, Sent DEF Batch, Message
  <2>2. /\ InOrder(s, queue'[s], feed')
        /\ \A b \in Nat : Behind(s, b, queue[s], feed) => Behind(s, b, queue'[s], feed')
    <3>1. CASE s = t
      BY <1>1, <1>2, <1>3, <1>5, <3>1, OrderSent
    <3>2. CASE s # t
      BY <1>1, <1>2, <1>3, <1>5, <3>2, OrderKept
    <3> QED BY <3>1, <3>2
  <2> QED BY <1>1, <2>1, <2>2, StandingStill
<1>6. CASE NewBatch \/ PutExtract \/ GiveUpSending
  BY <1>4, <1>6 DEF NewBatch, PutExtract, GiveUpSending
<1>7. CASE SendBatch
  <2>1. /\ feed.next \in Shards /\ feed.batch \in Nat /\ feed.next \in Nat
        /\ feed' = [feed EXCEPT !.next = @ + 1]
        /\ queue' = [queue EXCEPT ![feed.next] = Append(@, [batch |-> feed.batch, extract |-> 0])]
    BY <1>2, <1>7 DEF SendBatch, Feeds
  <2>2. [batch |-> feed.batch, extract |-> 0] \in Messages
    BY <1>2 DEF Messages, Feeds
  <2>3. ToCome(feed.next, feed.batch, feed) /\ ~ToCome(feed.next, feed.batch, feed')
    BY <1>2, <2>1 DEF ToCome, Feeds
  <2> QED BY <1>5, <2>1, <2>2, <2>3
<1>8. CASE NotifyOfExtract
  <2>1. [batch |-> 0, extract |-> extract] \in Messages
    BY <1>1, ShardTypes DEF LambdaInv, Messages
  <2> QED BY <1>5, <1>8, <2>1 DEF NotifyOfExtract
<1> QED BY <1>6, <1>7, <1>8 DEF Send

-----------------------------------------------------------------------------
(* The handler and the histories. *)

Extended(h, b, g) ==
    \/ h # <<>> /\ h[Len(h)] = b /\ g = h
    \/ (h = <<>> \/ h[Len(h)] # b) /\ g = Append(h, b)

(* A batch that no entry of a history is later than is its last one then,   *)
(* once.                                                                    *)
LEMMA Appended ==
    ASSUME NEW h \in Seq(1 .. MaxBatches), NEW b \in 1 .. MaxBatches,
           Rising(h), \A k \in DOMAIN h : h[k] <= b,
           NEW g, Extended(h, b, g)
    PROVE  /\ Rising(g) /\ Has(g, b)
           /\ \A c : Has(h, c) => Has(g, c)
           /\ \A k \in DOMAIN g : g[k] = b \/ \E j \in DOMAIN h : g[k] = h[j]
<1>1. /\ Len(h) \in Nat /\ DOMAIN h = 1 .. Len(h)
      /\ \A k \in DOMAIN h : h[k] \in Nat
      /\ h # <<>> => Len(h) \in DOMAIN h
  <2>1. \A k \in 1 .. Len(h) : h[k] \in 1 .. MaxBatches
    BY ElementOfSeq
  <2> QED BY <2>1, LenProperties, EmptySeq
<1>2. CASE h # <<>> /\ h[Len(h)] = b
  BY <1>1, <1>2 DEF Has, Extended
<1>3. CASE h = <<>> \/ h[Len(h)] # b
  <2>1. /\ g = Append(h, b) /\ DOMAIN g = 1 .. Len(h) + 1
        /\ \A k \in 1 .. Len(h) : g[k] = h[k]
        /\ g[Len(h) + 1] = b
    <3>1. g = Append(h, b)
      BY <1>3 DEF Extended
    <3> QED BY <3>1, AppendProperties, LenProperties
  <2>2. \A k \in DOMAIN g : k \in DOMAIN h \/ k = Len(h) + 1
    BY <1>1, <2>1
  <2>3. \A k \in DOMAIN h : h[k] < b
    <3> SUFFICES ASSUME NEW k \in DOMAIN h PROVE h[k] < b
      OBVIOUS
    <3>1. Len(h) \in DOMAIN h /\ h[Len(h)] < b
      BY <1>1, <1>3
    <3>2. CASE k = Len(h)
      BY <3>1, <3>2
    <3>3. CASE k < Len(h)
      BY <1>1, <3>1, <3>3 DEF Rising
    <3> QED BY <1>1, <3>2, <3>3
  <2>4. Rising(g)
    <3> SUFFICES ASSUME NEW i \in DOMAIN g, NEW j \in DOMAIN g, i < j PROVE g[i] < g[j]
      BY DEF Rising
    <3>1. i \in DOMAIN h
      BY <1>1, <2>1
    <3>2. CASE j \in DOMAIN h
      BY <1>1, <2>1, <3>1, <3>2 DEF Rising
    <3>3. CASE j = Len(h) + 1
      BY <1>1, <2>1, <2>3, <3>1, <3>3
    <3> QED BY <2>2, <3>2, <3>3
  <2>5. Has(g, b) /\ \A c : Has(h, c) => Has(g, c)
    BY <1>1, <2>1 DEF Has
  <2>6. \A k \in DOMAIN g : g[k] = b \/ \E j \in DOMAIN h : g[k] = h[j]
    BY <1>1, <2>1, <2>2
  <2> QED BY <2>4, <2>5, <2>6
<1> QED BY <1>2, <1>3

(* What Match makes of the history. *)
LEMMA MatchFiles ==
    ASSUME FilesInv, NEW s \in Shards, Match(s)
    PROVE  /\ OwnInOrder(s, working'[s], queue[s], feed)
           /\ Complete(s, working'[s], (acknowledged[s] \ failed[s]) \cup {Batch(s)})
<1> DEFINE H == history[s]
           W == working'[s]
           b == Batch(s)
<1>1. /\ LambdaInv /\ InOrder(s, queue[s], feed) /\ OwnInOrder(s, H, queue[s], feed)
      /\ Complete(s, H, acknowledged[s] \ failed[s])
  BY DEF FilesInv, FilesOf
<1>2. /\ queue \in [Shards -> Seq(Messages)] /\ queue[s] # <<>> /\ b \in 1 .. MaxBatches
      /\ H \in Histories
  BY <1>1, ShardTypes DEF LambdaInv, Match
<1>3. /\ Len(queue[s]) \in Nat /\ 1 \in 1 .. Len(queue[s]) /\ queue[s][1].batch = b
      /\ \A i \in 1 .. Len(queue[s]) : queue[s][i].batch \in Nat
  <2>1. \A i \in 1 .. Len(queue[s]) : queue[s][i] \in Messages
    BY <1>2, ElementOfSeq
  <2>2. \A i \in 1 .. Len(queue[s]) : queue[s][i].batch \in Nat
    BY <2>1 DEF Messages
  <2> QED BY <1>2, <2>2, First, LenProperties DEF Batch
<1>4. \A o \in Operators :
        W[o] = IF ShardOf(o) # s \/ (H[o] # <<>> /\ H[o][Len(H[o])] = b) THEN H[o]
               ELSE Append(H[o], b)
  <2>1. working \in [Shards -> Histories]
    BY <1>1, ShardTypes DEF LambdaInv
  <2> QED BY <2>1 DEF Match, Key
<1>5. Behind(s, b, queue[s], feed)
  <2>1. ASSUME NEW i \in 1 .. Len(queue[s]), queue[s][i].batch # 0 PROVE b <= queue[s][i].batch
    <3>1. CASE i = 1
      BY <1>2, <1>3, <3>1
    <3>2. CASE 1 < i
      BY <1>1, <1>2, <1>3, <2>1, <3>2 DEF InOrder
    <3> QED BY <1>3, <3>1, <3>2
  <2>2. ~ToCome(s, b, feed)
    <3>1. queue[s][1].batch # 0 => ~ToCome(s, queue[s][1].batch, feed)
      BY <1>1, <1>3, Zenon DEF InOrder
    <3>2. queue[s][1].batch = b /\ b # 0
      BY <1>2, <1>3
    <3> QED BY <3>1, <3>2, Zenon
  <2> QED BY <2>1, <2>2 DEF Behind
<1> HIDE DEF H, W, b
<1>6. ASSUME NEW o \in Operators
      PROVE  /\ ShardOf(o) # s => W[o] = <<>>
             /\ Rising(W[o])
             /\ \A k \in DOMAIN W[o] : Behind(s, W[o][k], queue[s], feed)
             /\ ShardOf(o) = s =>
                  \A c \in (acknowledged[s] \ failed[s]) \cup {b} : Has(W[o], c)
  <2>1. /\ H[o] \in Seq(1 .. MaxBatches) /\ Rising(H[o])
        /\ ShardOf(o) # s => H[o] = <<>>
        /\ \A k \in DOMAIN H[o] : Behind(s, H[o][k], queue[s], feed)
    BY <1>1, <1>2 DEF OwnInOrder, Histories
  <2>2. CASE ShardOf(o) # s
    BY <1>4, <2>1, <2>2
  <2>3. CASE ShardOf(o) = s
    <3>1. W[o] = IF H[o] # <<>> /\ H[o][Len(H[o])] = b THEN H[o] ELSE Append(H[o], b)
      BY <1>4, <2>3
    <3>2. \A k \in DOMAIN H[o] : H[o][k] <= b
      <4>1. \A k \in DOMAIN H[o] : queue[s][1].batch # 0 => H[o][k] <= queue[s][1].batch
        BY <1>3, <2>1, Zenon DEF Behind
      <4>2. queue[s][1].batch = b /\ b # 0
        BY <1>2, <1>3
      <4> QED BY <4>1, <4>2, Zenon
    <3>3. /\ Rising(W[o]) /\ Has(W[o], b)
          /\ \A c : Has(H[o], c) => Has(W[o], c)
          /\ \A k \in DOMAIN W[o] : W[o][k] = b \/ \E j \in DOMAIN H[o] : W[o][k] = H[o][j]
      <4> DEFINE h == H[o]
                 g == W[o]
      <4>1. /\ h \in Seq(1 .. MaxBatches) /\ b \in 1 .. MaxBatches
            /\ Rising(h) /\ \A k \in DOMAIN h : h[k] <= b
            /\ Extended(h, b, g)
        BY <1>2, <2>1, <3>1, <3>2 DEF Extended
      <4> HIDE DEF h, g
      <4>2. /\ Rising(g) /\ Has(g, b)
            /\ \A c : Has(h, c) => Has(g, c)
            /\ \A k \in DOMAIN g : g[k] = b \/ \E j \in DOMAIN h : g[k] = h[j]
        BY <4>1, Appended
      <4> QED BY <4>2 DEF h, g
    <3>4. \A c \in acknowledged[s] \ failed[s] : Has(H[o], c)
      BY <1>1, <2>3 DEF Complete
    <3>5. \A k \in DOMAIN W[o] : Behind(s, W[o][k], queue[s], feed)
      BY <1>5, <2>1, <3>3
    <3> QED BY <2>3, <3>3, <3>4, <3>5
  <2> QED BY <2>2, <2>3
<1> QED BY <1>6 DEF OwnInOrder, Complete, W, b

(* The handler of s returns or gives up, with history H in S3. *)
LEMMA ReturningFiles ==
    ASSUME LambdaInv, LambdaInv', NEW s \in Shards, FilesOf(s),
           UNCHANGED feed, queue'[s] = queue[s] \/ (queue[s] # <<>> /\ queue'[s] = Tail(queue[s])),
           step'[s] = "idle", working'[s] = NoHistory,
           OwnInOrder(s, history'[s], queue[s], feed),
           Complete(s, history'[s], acknowledged'[s] \ failed'[s])
    PROVE  FilesOf(s)'
<1>1. /\ queue[s] \in Seq(Messages) /\ queue'[s] \in Seq(Messages)
      /\ feed \in Feeds /\ feed' \in Feeds /\ history'[s] \in Histories
  BY DEF LambdaInv, ShardsTypeOK, Messages, Feeds, Histories
<1>2. /\ InOrder(s, queue'[s], feed')
      /\ \A b \in Nat : Behind(s, b, queue[s], feed) => Behind(s, b, queue'[s], feed')
  BY <1>1, OrderKept DEF FilesOf
<1>3. /\ OwnInOrder(s, history'[s], queue'[s], feed')
      /\ OwnInOrder(s, working'[s], queue'[s], feed')
  BY <1>1, <1>2, OwnKept, NothingInOrder
<1> QED BY <1>2, <1>3 DEF FilesOf, WorkInv

LEMMA CompleteFewer ==
    ASSUME NEW s, NEW H, NEW B, NEW C, B \subseteq C, Complete(s, H, C)
    PROVE  Complete(s, H, B)
  BY DEF Complete

(* What a handler does concerns the files of no other shard. *)
Elsewhere(s) == \A t \in Shards \ {s} :
    /\ queue'[t] = queue[t] /\ step'[t] = step[t] /\ working'[t] = working[t]
    /\ history'[t] = history[t] /\ acknowledged'[t] = acknowledged[t] /\ failed'[t] = failed[t]

LEMMA OthersUntouched ==
    ASSUME FilesInv, UNCHANGED feed, NEW s \in Shards, Elsewhere(s), NEW t \in Shards \ {s}
    PROVE  FilesOf(t)'
<1>1. LambdaInv /\ FilesOf(t) /\ InOrder(t, queue[t], feed)
  BY DEF FilesInv, FilesOf
<1>2. queue'[t] = queue[t] /\ feed' = feed /\ Batch(t)' = Batch(t)
  BY DEF Elsewhere, Batch, Message
<1>3. /\ InOrder(t, queue'[t], feed')
      /\ \A b \in Nat : Behind(t, b, queue[t], feed) => Behind(t, b, queue'[t], feed')
  BY <1>1, <1>2
<1> QED BY <1>1, <1>2, <1>3, StandingStill DEF Elsewhere

LEMMA HandlerKeepsFiles ==
    ASSUME FilesInv, LambdaInv', NEW s \in Shards,
           \/ Handle(s)
           \/ ExtractUnreadable(s) \/ CallFails(s)
           \/ LoseConnection(s) \/ Die(s) \/ Recycle(s)
    PROVE  \A t \in Shards : FilesOf(t)'
<1> DEFINE Dealt == acknowledged[s] \ failed[s]
<1>0. /\ LambdaInv /\ FilesOf(s) /\ LambdaTypes /\ queue \in [Shards -> Seq(Messages)]
      /\ InOrder(s, queue[s], feed) /\ OwnInOrder(s, history[s], queue[s], feed)
      /\ Complete(s, history[s], Dealt)
      /\ OwnInOrder(s, working[s], queue[s], feed)
  BY TypesNow, ShardTypes DEF FilesInv, LambdaInv, FilesOf, WorkInv
<1>1. ASSUME UNCHANGED feed, Elsewhere(s), FilesOf(s)' PROVE \A t \in Shards : FilesOf(t)'
  BY <1>1, OthersUntouched
<1>2. ASSUME UNCHANGED <<feed, queue, history, acknowledged, failed>>, Elsewhere(s),
             working'[s] = working[s],
             step'[s] = step[s] \/ step'[s] = "delivered"
      PROVE  \A t \in Shards : FilesOf(t)'
  <2>1. Batch(s)' = Batch(s)
    BY <1>2 DEF Batch, Message
  <2>2. /\ InOrder(s, queue'[s], feed')
        /\ \A b \in Nat : Behind(s, b, queue[s], feed) => Behind(s, b, queue'[s], feed')
    BY <1>0, <1>2
  <2>3. FilesOf(s)'
    BY <1>0, <1>2, <2>1, <2>2, StandingStill
  <2> QED BY <1>1, <1>2, <2>3
<1>3. ASSUME UNCHANGED feed, Elsewhere(s), step'[s] = "idle", working'[s] = NoHistory,
             queue'[s] = queue[s] \/ (queue[s] # <<>> /\ queue'[s] = Tail(queue[s])),
             OwnInOrder(s, history'[s], queue[s], feed),
             Complete(s, history'[s], acknowledged'[s] \ failed'[s])
      PROVE  \A t \in Shards : FilesOf(t)'
  BY <1>0, <1>1, <1>3, ReturningFiles
<1>4. CASE UpdateTimetable(s)
  <2>1. /\ UNCHANGED <<feed, history, acknowledged, failed>> /\ queue[s] # <<>>
        /\ queue' = [queue EXCEPT ![s] = Tail(@)]
        /\ step' = [step EXCEPT ![s] = "idle"] /\ working' = [working EXCEPT ![s] = NoHistory]
    BY <1>4 DEF UpdateTimetable, Delete, outcome
  <2>2. Elsewhere(s) /\ step'[s] = "idle" /\ working'[s] = NoHistory /\ queue'[s] = Tail(queue[s])
    BY <1>0, <2>1 DEF LambdaTypes, Elsewhere
  <2> QED BY <1>0, <1>3, <2>1, <2>2
<1>5. CASE Deliver(s)
  <2>1. /\ UNCHANGED <<feed, queue, working, history, acknowledged, failed>>
        /\ step' = [step EXCEPT ![s] = "delivered"]
    BY <1>5 DEF Deliver, world, outcome, observers
  <2>2. Elsewhere(s) /\ step'[s] = "delivered" /\ working'[s] = working[s]
    BY <1>0, <2>1 DEF LambdaTypes, Elsewhere
  <2> QED BY <1>2, <2>1, <2>2
<1>6. CASE ExtractUnreadable(s) \/ LoseConnection(s)
  <2>1. UNCHANGED <<feed, queue, step, working, history, acknowledged, failed>>
    BY <1>6 DEF ExtractUnreadable, LoseConnection, world, lambdas, outcome, observers
  <2> QED BY <1>2, <2>1 DEF Elsewhere
<1>7. CASE Match(s)
  <2>1. /\ UNCHANGED <<feed, queue, history, acknowledged, failed>>
        /\ step' = [step EXCEPT ![s] = "matched"]
        /\ \A t \in Shards \ {s} : working'[t] = working[t]
    BY <1>0, <1>7 DEF Match, world, outcome, observers, LambdaTypes
  <2>2. Elsewhere(s) /\ step'[s] = "matched" /\ Batch(s)' = Batch(s)
    BY <1>0, <2>1 DEF LambdaTypes, Elsewhere, Batch, Message
  <2>3. /\ OwnInOrder(s, working'[s], queue[s], feed)
        /\ Complete(s, working'[s], Dealt \cup {Batch(s)})
    BY <1>7, MatchFiles
  <2>4. FilesOf(s)'
    BY <1>0, <2>1, <2>2, <2>3 DEF FilesOf, WorkInv
  <2> QED BY <1>1, <2>1, <2>2, <2>4
<1>8. CASE UpdateRows(s)
  <2>1. /\ UNCHANGED <<feed, queue, working, history, acknowledged, failed>>
        /\ step[s] = "matched" /\ step' = [step EXCEPT ![s] = "updated"]
    BY <1>8 DEF UpdateRows, world, observers
  <2>2. Elsewhere(s) /\ step'[s] = "updated" /\ Batch(s)' = Batch(s)
    BY <1>0, <2>1 DEF LambdaTypes, Elsewhere, Batch, Message
  <2>3. Complete(s, working[s], Dealt \cup {Batch(s)})
    BY <1>0, <2>1 DEF FilesOf, WorkInv
  <2>4. FilesOf(s)'
    BY <1>0, <2>1, <2>2, <2>3 DEF FilesOf, WorkInv
  <2> QED BY <1>1, <2>1, <2>2, <2>4
<1>9. CASE SaveHistory(s)
  <2>1. /\ UNCHANGED <<feed, queue, working, acknowledged, failed>>
        /\ step[s] = "updated" /\ step' = [step EXCEPT ![s] = "saved"]
        /\ history' = [history EXCEPT ![s] = working[s]]
    BY <1>9 DEF SaveHistory, Key, world, observers
  <2>2. /\ Elsewhere(s) /\ step'[s] = "saved" /\ Batch(s)' = Batch(s)
        /\ history'[s] = working[s]
    BY <1>0, <2>1 DEF LambdaTypes, Elsewhere, Batch, Message
  <2>3. Complete(s, working[s], Dealt \cup {Batch(s)})
    BY <1>0, <2>1 DEF FilesOf, WorkInv
  <2>4. Complete(s, working[s], Dealt)
    BY <2>3, CompleteFewer
  <2>5. FilesOf(s)'
    BY <1>0, <2>1, <2>2, <2>3, <2>4 DEF FilesOf, WorkInv
  <2> QED BY <1>1, <2>1, <2>2, <2>5
<1>10. CASE Acknowledge(s)
  <2>1. /\ UNCHANGED <<feed, history, failed>> /\ step[s] = "saved"
        /\ queue' = [queue EXCEPT ![s] = Tail(@)]
        /\ step' = [step EXCEPT ![s] = "idle"] /\ working' = [working EXCEPT ![s] = NoHistory]
        /\ acknowledged' = [acknowledged EXCEPT ![s] = @ \cup {Batch(s)}]
    BY <1>10 DEF Acknowledge, Delete, outcome
  <2>2. /\ Elsewhere(s) /\ step'[s] = "idle" /\ working'[s] = NoHistory
        /\ queue'[s] = Tail(queue[s]) /\ acknowledged'[s] = acknowledged[s] \cup {Batch(s)}
    BY <1>0, <2>1 DEF LambdaTypes, Elsewhere
  <2>3. queue[s] # <<>>
    BY <1>0, <2>1, ShardTypes DEF LambdaInv
  <2>4. Complete(s, history[s], Dealt \cup {Batch(s)})
    BY <1>0, <2>1 DEF FilesOf, WorkInv
  <2>5. Complete(s, history'[s], acknowledged'[s] \ failed'[s])
    <3>1. acknowledged'[s] \ failed'[s] \subseteq Dealt \cup {Batch(s)}
      BY <2>1, <2>2
    <3> QED BY <2>1, <2>4, <3>1, CompleteFewer
  <2> QED BY <1>0, <1>3, <2>1, <2>2, <2>3, <2>5
<1>11. CASE CallFails(s) \/ NotConnected(s)
  <2>1. /\ UNCHANGED feed /\ step[s] # "idle" /\ FailBatch(s)
        /\ \/ UNCHANGED history
           \/ step[s] = "updated" /\ history' = [history EXCEPT ![s] = working[s]]
    BY <1>11 DEF CallFails, NotConnected, FailBatch, Delete, Leave, world, Key
  <2>2. /\ step' = [step EXCEPT ![s] = "idle"] /\ working' = [working EXCEPT ![s] = NoHistory]
        /\ \/ /\ acknowledged' = [acknowledged EXCEPT ![s] = @ \cup {Batch(s)}]
              /\ failed' = [failed EXCEPT ![s] = @ \cup {Batch(s)}]
              /\ queue' = [queue EXCEPT ![s] = Tail(@)]
           \/ UNCHANGED <<acknowledged, failed, queue>>
    BY <2>1 DEF FailBatch, Delete, Leave, world, observers
  <2>3. queue[s] # <<>>
    BY <1>0, <2>1, ShardTypes DEF LambdaInv
  <2>4. /\ OwnInOrder(s, history'[s], queue[s], feed) /\ Complete(s, history'[s], Dealt)
        /\ \A t \in Shards \ {s} : history'[t] = history[t]
    <3>1. CASE UNCHANGED history
      BY <1>0, <3>1
    <3>2. CASE step[s] = "updated" /\ history' = [history EXCEPT ![s] = working[s]]
      <4>1. Complete(s, working[s], Dealt \cup {Batch(s)})
        BY <1>0, <3>2 DEF FilesOf, WorkInv
      <4>2. Complete(s, working[s], Dealt)
        BY <4>1, CompleteFewer
      <4>3. history'[s] = working[s] /\ \A t \in Shards \ {s} : history'[t] = history[t]
        BY <1>0, <3>2 DEF LambdaTypes
      <4> QED BY <1>0, <4>2, <4>3
    <3> QED BY <2>1, <3>1, <3>2
  <2>5. /\ queue'[s] = queue[s] \/ queue'[s] = Tail(queue[s])
        /\ acknowledged'[s] \ failed'[s] \subseteq Dealt
        /\ \A t \in Shards \ {s} : /\ acknowledged'[t] = acknowledged[t]
                                   /\ failed'[t] = failed[t] /\ queue'[t] = queue[t]
    <3>1. CASE UNCHANGED <<acknowledged, failed, queue>>
      BY <3>1
    <3>2. CASE /\ acknowledged' = [acknowledged EXCEPT ![s] = @ \cup {Batch(s)}]
               /\ failed' = [failed EXCEPT ![s] = @ \cup {Batch(s)}]
               /\ queue' = [queue EXCEPT ![s] = Tail(@)]
      <4>1. /\ acknowledged'[s] = acknowledged[s] \cup {Batch(s)}
            /\ failed'[s] = failed[s] \cup {Batch(s)} /\ queue'[s] = Tail(queue[s])
            /\ \A t \in Shards \ {s} : /\ acknowledged'[t] = acknowledged[t]
                                       /\ failed'[t] = failed[t] /\ queue'[t] = queue[t]
        BY <1>0, <3>2 DEF LambdaTypes
      <4> QED BY <4>1
    <3> QED BY <2>2, <3>1, <3>2
  <2>6. Elsewhere(s) /\ step'[s] = "idle" /\ working'[s] = NoHistory
    BY <1>0, <2>2, <2>4, <2>5 DEF LambdaTypes, Elsewhere
  <2>7. Complete(s, history'[s], acknowledged'[s] \ failed'[s])
    BY <2>4, <2>5, CompleteFewer
  <2> QED BY <1>3, <2>1, <2>3, <2>4, <2>5, <2>6, <2>7
<1>12. CASE Die(s)
  <2>1. /\ UNCHANGED <<feed, queue, history, acknowledged, failed>>
        /\ step' = [step EXCEPT ![s] = "idle"] /\ working' = [working EXCEPT ![s] = NoHistory]
    BY <1>12 DEF Die, Leave, world, outcome, observers
  <2>2. Elsewhere(s) /\ step'[s] = "idle" /\ working'[s] = NoHistory
    BY <1>0, <2>1 DEF LambdaTypes, Elsewhere
  <2> QED BY <1>0, <1>3, <2>1, <2>2
<1>13. CASE Recycle(s)
  <2>1. UNCHANGED <<feed, queue, step, working, history, acknowledged, failed>>
    BY <1>13 DEF Recycle, world, outcome, observers
  <2> QED BY <1>2, <2>1 DEF Elsewhere
<1> QED BY <1>4, <1>5, <1>6, <1>7, <1>8, <1>9, <1>10, <1>11, <1>12, <1>13 DEF Handle

LEMMA FilesInit == ShardsInit => FilesInv
<1> SUFFICES ASSUME ShardsInit, NEW s \in Shards PROVE FilesOf(s)
  BY LambdaInit DEF FilesInv
<1>1. /\ queue[s] = <<>> /\ feed.batch = 0 /\ history[s] = NoHistory /\ working[s] = NoHistory
      /\ acknowledged[s] = {} /\ step[s] = "idle"
  BY DEF ShardsInit
<1>2. InOrder(s, queue[s], feed)
  BY <1>1 DEF InOrder
<1>3. Complete(s, history[s], acknowledged[s] \ failed[s])
  BY <1>1 DEF Complete
<1> QED BY <1>1, <1>2, <1>3, NothingInOrder DEF FilesOf, WorkInv

LEMMA FilesStep == FilesInv /\ [ShardsNext]_shardVars => FilesInv'
<1>1. ASSUME FilesInv, [ShardsNext]_shardVars PROVE LambdaInv'
  BY <1>1, LambdaStep DEF FilesInv
<1>2. CASE FilesInv /\ Send
  BY <1>1, <1>2, SendKeepsFiles DEF FilesInv, ShardsNext
<1>3. ASSUME FilesInv, NEW s \in Shards,
             \/ Handle(s)
             \/ ExtractUnreadable(s) \/ CallFails(s)
             \/ LoseConnection(s) \/ Die(s) \/ Recycle(s)
      PROVE  FilesInv'
  BY <1>1, <1>3, HandlerKeepsFiles DEF FilesInv, ShardsNext
<1>4. ASSUME FilesInv, UNCHANGED shardVars PROVE FilesInv'
  <2>1. /\ UNCHANGED <<feed, queue, step, working, history, acknowledged, failed>>
    BY <1>4 DEF shardVars, world, lambdas, outcome, observers
  <2>2. ASSUME NEW s \in Shards PROVE FilesOf(s)'
    <3>1. FilesOf(s) /\ Batch(s)' = Batch(s)
      BY <1>4, <2>1 DEF FilesInv, Batch, Message
    <3> QED BY <2>1, <3>1 DEF FilesOf, WorkInv
  <2> QED BY <1>1, <1>4, <2>2 DEF FilesInv
<1> QED BY <1>2, <1>3, <1>4 DEF ShardsNext

(* Whatever the table and the hash say, and whatever fails: the batches of  *)
(* an operator enter the history of its one shard, once and in the order of *)
(* the feed, and of those its shard dealt with only failed ones are missing. *)
THEOREM OperatorsHistories == ShardsSpec => []EachOperatorOnce
<1>1. FilesInv => EachOperatorOnce
  <2> SUFFICES ASSUME FilesInv, NEW o \in Operators
               PROVE  LET h == history[ShardOf(o)][o]
                      IN /\ \A t \in Shards \ {ShardOf(o)} : history[t][o] = <<>>
                         /\ \A i, j \in DOMAIN h : i < j => h[i] < h[j]
                         /\ \A b \in acknowledged[ShardOf(o)] \ failed[ShardOf(o)] :
                              \E i \in DOMAIN h : h[i] = b
    BY ShardOfType DEF EachOperatorOnce
  <2>1. ShardOf(o) \in Shards
    BY ShardOfType
  <2>2. \A t \in Shards : FilesOf(t)
    BY DEF FilesInv
  <2>3. \A t \in Shards \ {ShardOf(o)} : history[t][o] = <<>>
    BY <2>2 DEF FilesOf, OwnInOrder
  <2>4. Rising(history[ShardOf(o)][o])
    BY <2>1, <2>2 DEF FilesOf, OwnInOrder
  <2>5. \A b \in acknowledged[ShardOf(o)] \ failed[ShardOf(o)] : Has(history[ShardOf(o)][o], b)
    BY <2>1, <2>2 DEF FilesOf, Complete
  <2> QED BY <2>3, <2>4, <2>5 DEF Rising, Has
<1> QED BY <1>1, FilesInit, FilesStep, PTL DEF ShardsSpec
=============================================================================
