------------------------ MODULE HistoricWorkersProofs ------------------------
(***************************************************************************)
(* The worker pool of historic matching, for any operators, journeys and   *)
(* workers and any number of faults: no operator is matched by two workers *)
(* at once, and a fault costs no more than the operator it struck.         *)
(***************************************************************************)
EXTENDS HistoricWorkers, SequenceTheorems, FiniteSetTheorems, TLAPS

Items == Operators \cup {Sentinel}

\* Every operator is queued once, and the sentinel, once it is there, is the last item.
QueueShape ==
    /\ \A i, k \in 1 .. Len(queue) : queue[i] = queue[k] => i = k
    /\ \A i \in 1 .. Len(queue) : queue[i] = Sentinel => i = Len(queue)
    /\ main = "filling" => ~Queued(Sentinel)

\* No worker runs before the queue is filled.
NotBefore == main = "filling" => \A w \in Workers : at[w] = "unborn"

\* The sentinel is in one worker's hands or in the queue, never both.
SentinelHeld ==
    /\ \A w \in Workers : at[w] = "returning" => queue = <<>>
    /\ \A v, w \in Workers : at[v] = "returning" /\ at[w] = "returning" => v = w

\* An operator is queued or in the hands of one worker.
Hands ==
    /\ \A w \in Workers : Busy(w) => operator[w] \in Operators /\ ~Queued(operator[w])
    /\ OneWorkerPerOperator

\* No worker exits by itself while an operator is queued, unless the queue is jammed.
ExitedLate == ~jammed => \A w \in Workers : at[w] = "exited" => \A o \in Operators : ~Queued(o)

HandsInv ==
    /\ WorkersTypeOK
    /\ QueueShape /\ NotBefore /\ SentinelHeld /\ Hands /\ ExitedLate

USE WorkersAssumption

-----------------------------------------------------------------------------
(* What Append does to the queue (Queue.put). *)
LEMMA Put ==
    ASSUME NEW x \in Items, queue \in Seq(Items), queue' = Append(queue, x)
    PROVE  /\ queue' \in Seq(Items)
           /\ Len(queue) \in Nat /\ Len(queue') = Len(queue) + 1
           /\ \A i \in 1 .. Len(queue) : queue'[i] = queue[i]
           /\ queue'[Len(queue')] = x
           /\ \A y : Queued(y)' <=> Queued(y) \/ y = x
<1>1. /\ queue' \in Seq(Items)
      /\ Len(queue') = Len(queue) + 1
      /\ \A i \in 1 .. Len(queue) : queue'[i] = queue[i]
      /\ queue'[Len(queue) + 1] = x
  BY AppendProperties
<1>2. Len(queue) \in Nat /\ DOMAIN queue = 1 .. Len(queue)
  BY LenProperties
<1>3. DOMAIN queue' = 1 .. Len(queue')
  BY <1>1, LenProperties
<1>4. ASSUME NEW y PROVE Queued(y)' <=> Queued(y) \/ y = x
  <2>1. ASSUME Queued(y)' PROVE Queued(y) \/ y = x
    <3>1. PICK i \in 1 .. Len(queue') : queue'[i] = y
      BY <2>1, <1>3 DEF Queued
    <3>2. CASE i \in 1 .. Len(queue)
      BY <3>1, <3>2, <1>1, <1>2 DEF Queued
    <3>3. CASE i = Len(queue) + 1
      BY <3>1, <3>3, <1>1
    <3> QED BY <3>2, <3>3, <1>1, <1>2
  <2>2. ASSUME Queued(y) PROVE Queued(y)'
    <3>1. PICK i \in 1 .. Len(queue) : queue[i] = y
      BY <2>2, <1>2 DEF Queued
    <3>2. i \in 1 .. Len(queue') /\ queue'[i] = y
      BY <3>1, <1>1, <1>2
    <3> QED BY <3>2, <1>3 DEF Queued
  <2>3. ASSUME y = x PROVE Queued(y)'
    <3>1. Len(queue) + 1 \in 1 .. Len(queue')
      BY <1>1, <1>2
    <3> QED BY <2>3, <3>1, <1>1, <1>3 DEF Queued
  <2> QED BY <2>1, <2>2, <2>3
<1> QED BY <1>1, <1>2, <1>4

(* What Tail does to the queue (Queue.get). *)
LEMMA Take ==
    ASSUME queue \in Seq(Items), queue # <<>>, queue' = Tail(queue)
    PROVE  /\ queue' \in Seq(Items)
           /\ Head(queue) \in Items /\ Head(queue) = queue[1]
           /\ Len(queue) \in Nat \ {0} /\ Len(queue') = Len(queue) - 1
           /\ \A i \in 1 .. Len(queue') : queue'[i] = queue[i + 1]
           /\ \A y : Queued(y)' => Queued(y)
           /\ \A y : Queued(y) => y = Head(queue) \/ Queued(y)'
<1>1. /\ queue' \in Seq(Items)
      /\ Head(queue) \in Items
      /\ Len(queue') = Len(queue) - 1
      /\ \A i \in 1 .. Len(queue') : queue'[i] = queue[i + 1]
  BY HeadTailProperties
<1>2. Len(queue) \in Nat \ {0} /\ DOMAIN queue = 1 .. Len(queue)
  BY LenProperties, EmptySeq
<1>3. DOMAIN queue' = 1 .. Len(queue')
  BY <1>1, LenProperties
<1>4. Head(queue) = queue[1]
  OBVIOUS
<1>5. ASSUME NEW y, Queued(y)' PROVE Queued(y)
  <2>1. PICK i \in 1 .. Len(queue') : queue'[i] = y
    BY <1>5, <1>3 DEF Queued
  <2>2. i + 1 \in 1 .. Len(queue) /\ queue[i + 1] = y
    BY <2>1, <1>1, <1>2
  <2> QED BY <2>2, <1>2 DEF Queued
<1>6. ASSUME NEW y, Queued(y) PROVE y = Head(queue) \/ Queued(y)'
  <2>1. PICK i \in 1 .. Len(queue) : queue[i] = y
    BY <1>6, <1>2 DEF Queued
  <2>2. CASE i = 1
    BY <2>1, <2>2, <1>4
  <2>3. CASE i # 1
    <3>1. i - 1 \in 1 .. Len(queue') /\ queue'[i - 1] = queue[(i - 1) + 1]
      BY <2>1, <2>3, <1>1, <1>2
    <3>2. queue'[i - 1] = y
      BY <3>1, <2>1
    <3> QED BY <3>1, <3>2, <1>3 DEF Queued
  <2> QED BY <2>2, <2>3
<1> QED BY <1>1, <1>2, <1>4, <1>5, <1>6

(* A queue that is taken from keeps its shape, and what is taken is in it no more. *)
LEMMA TakeShape ==
    ASSUME queue \in Seq(Items), queue # <<>>, queue' = Tail(queue), QueueShape, main' = main
    PROVE  /\ QueueShape'
           /\ \A y : y = Head(queue) => ~Queued(y)'
           /\ Head(queue) = Sentinel => queue' = <<>>
<1>1. /\ queue' \in Seq(Items)
      /\ Head(queue) = queue[1]
      /\ Len(queue) \in Nat \ {0} /\ Len(queue') = Len(queue) - 1
      /\ \A i \in 1 .. Len(queue') : queue'[i] = queue[i + 1]
      /\ \A y : Queued(y)' => Queued(y)
  BY Take
<1>2. \A i \in 1 .. Len(queue') : i + 1 \in 1 .. Len(queue)
  BY <1>1
<1>3. ASSUME NEW i \in 1 .. Len(queue'), NEW k \in 1 .. Len(queue'), queue'[i] = queue'[k]
      PROVE  i = k
  <2>1. queue[i + 1] = queue[k + 1]
    BY <1>1, <1>3
  <2>2. i + 1 = k + 1
    BY <2>1, <1>2 DEF QueueShape
  <2> QED BY <2>2
<1>4. ASSUME NEW i \in 1 .. Len(queue'), queue'[i] = Sentinel PROVE i = Len(queue')
  <2>1. i + 1 = Len(queue)
    BY <1>1, <1>2, <1>4 DEF QueueShape
  <2> QED BY <2>1, <1>1
<1>5. ASSUME NEW y, y = Head(queue) PROVE ~Queued(y)'
  <2> SUFFICES ASSUME NEW i \in 1 .. Len(queue'), queue'[i] = y PROVE FALSE
    <3>1. DOMAIN queue' = 1 .. Len(queue')
      BY <1>1, LenProperties
    <3> QED BY <3>1, <1>1 DEF Queued
  <2>3. i + 1 \in 1 .. Len(queue) /\ 1 \in 1 .. Len(queue) /\ queue[i + 1] = queue[1]
    BY <1>1, <1>2, <1>5
  <2>4. i + 1 = 1
    BY <2>3 DEF QueueShape
  <2> QED BY <2>4, <1>1
<1>6. Head(queue) = Sentinel => queue' = <<>>
  <2> SUFFICES ASSUME queue[1] = Sentinel PROVE queue' = <<>>
    BY <1>1
  <2>1. 1 \in 1 .. Len(queue)
    BY <1>1
  <2>2. 1 = Len(queue)
    BY <2>1 DEF QueueShape
  <2> QED BY <2>2, <1>1, EmptySeq
<1>7. main' = "filling" => ~Queued(Sentinel)'
  BY <1>1 DEF QueueShape
<1> QED BY <1>3, <1>4, <1>5, <1>6, <1>7 DEF QueueShape

-----------------------------------------------------------------------------
(* When main starts, nothing is queued and no worker runs. *)
LEMMA HandsInit == WorkersInit => HandsInv
<1> SUFFICES ASSUME WorkersInit PROVE HandsInv
  OBVIOUS
<1>1. Len(queue) = 0 /\ DOMAIN queue = {} /\ queue \in Seq(Items)
  BY DEF WorkersInit
<1>2. WorkersTypeOK
  BY <1>1 DEF WorkersInit, WorkersTypeOK, Items, Places
<1>3. QueueShape
  BY <1>1 DEF WorkersInit, QueueShape, Queued
<1>4. NotBefore /\ SentinelHeld /\ Hands /\ ExitedLate
  BY DEF WorkersInit, NotBefore, SentinelHeld, Hands, OneWorkerPerOperator, Busy, ExitedLate
<1> QED BY <1>2, <1>3, <1>4 DEF HandsInv

(* The steps of main keep the invariant. *)
LEMMA MainKeepsHands ==
    ASSUME HandsInv, (\E o \in Operators : Fill(o)) \/ Launch \/ Join
    PROVE  HandsInv'
<1>0. queue \in Seq(Items) /\ DOMAIN queue = 1 .. Len(queue)
  BY LenProperties DEF HandsInv, WorkersTypeOK, Items
<1>1. CASE \E o \in Operators : Fill(o)
  <2>1. PICK o \in Operators : Fill(o)
    BY <1>1
  <2>2. /\ queue' \in Seq(Items)
        /\ Len(queue) \in Nat /\ Len(queue') = Len(queue) + 1
        /\ \A i \in 1 .. Len(queue) : queue'[i] = queue[i]
        /\ queue'[Len(queue')] = o
        /\ \A y : Queued(y)' <=> Queued(y) \/ y = o
    BY <1>0, <2>1, Put DEF Fill, Items
  <2>3. \A i \in 1 .. Len(queue) : queue[i] # o /\ queue[i] # Sentinel
    BY <1>0, <2>1 DEF Fill, Queued, HandsInv, QueueShape
  <2>4. QueueShape'
    <3>1. ASSUME NEW i \in 1 .. Len(queue'), NEW k \in 1 .. Len(queue'), queue'[i] = queue'[k]
          PROVE  i = k
      BY <2>2, <2>3, <3>1 DEF HandsInv, QueueShape
    <3>2. ASSUME NEW i \in 1 .. Len(queue') PROVE queue'[i] # Sentinel
      BY <2>2, <2>3
    <3>3. ~Queued(Sentinel)'
      BY <2>1, <2>2 DEF Fill, HandsInv, QueueShape
    <3> QED BY <3>1, <3>2, <3>3 DEF QueueShape
  <2>5. \A w \in Workers : at'[w] = "unborn"
    BY <2>1 DEF Fill, HandsInv, NotBefore
  <2>6. WorkersTypeOK'
    BY <2>1, <2>2 DEF Fill, HandsInv, WorkersTypeOK, Items
  <2>7. NotBefore' /\ SentinelHeld' /\ Hands' /\ ExitedLate'
    BY <2>5 DEF NotBefore, SentinelHeld, Hands, OneWorkerPerOperator, Busy, ExitedLate
  <2> QED BY <2>4, <2>6, <2>7 DEF HandsInv
<1>2. CASE Launch
  <2>2. /\ queue' \in Seq(Items)
        /\ Len(queue) \in Nat /\ Len(queue') = Len(queue) + 1
        /\ \A i \in 1 .. Len(queue) : queue'[i] = queue[i]
        /\ queue'[Len(queue')] = Sentinel
        /\ \A y : Queued(y)' <=> Queued(y) \/ y = Sentinel
    BY <1>0, <1>2, Put DEF Launch, Items
  <2>3. \A i \in 1 .. Len(queue) : queue[i] # Sentinel
    BY <1>0, <1>2 DEF Launch, Queued, HandsInv, QueueShape
  <2>4. QueueShape'
    <3>1. ASSUME NEW i \in 1 .. Len(queue'), NEW k \in 1 .. Len(queue'), queue'[i] = queue'[k]
          PROVE  i = k
      BY <2>2, <2>3, <3>1 DEF HandsInv, QueueShape
    <3>2. ASSUME NEW i \in 1 .. Len(queue'), queue'[i] = Sentinel PROVE i = Len(queue')
      BY <2>2, <2>3, <3>2
    <3> QED BY <3>1, <3>2, <1>2 DEF QueueShape, Launch
  <2>5. \A w \in Workers : at'[w] = "getting"
    BY <1>2 DEF Launch
  <2>6. WorkersTypeOK'
    BY <1>2, <2>2 DEF Launch, HandsInv, WorkersTypeOK, Items, Places
  <2>7. NotBefore' /\ SentinelHeld' /\ Hands' /\ ExitedLate'
    BY <2>5, <1>2 DEF Launch, NotBefore, SentinelHeld, Hands, OneWorkerPerOperator, Busy, ExitedLate
  <2> QED BY <2>4, <2>6, <2>7 DEF HandsInv
<1>3. CASE Join
  BY <1>3 DEF Join, HandsInv, WorkersTypeOK, QueueShape, Queued, NotBefore, SentinelHeld,
              Hands, OneWorkerPerOperator, Busy, ExitedLate
<1> QED BY <1>1, <1>2, <1>3

(* The steps of a worker that leave the queue alone. *)
LEMMA QuietKeepsHands ==
    ASSUME HandsInv, NEW w \in Workers, queue' = queue, main' = main, operator' = operator,
           jammed => jammed', WorkersTypeOK', at[w] # "unborn",
           NEW p \in Places, at' = [at EXCEPT ![w] = p],
           p \in {"fetching", "matching"} => Busy(w), p # "returning",
           p = "exited" => queue = <<>> \/ jammed
    PROVE  HandsInv'
<1>1. at \in [Workers -> Places] /\ at'[w] = p /\ \A v \in Workers : v # w => at'[v] = at[v]
  BY DEF HandsInv, WorkersTypeOK
<1>2. QueueShape'
  BY DEF HandsInv, QueueShape, Queued
<1>3. NotBefore'
  BY DEF HandsInv, NotBefore
<1>4. SentinelHeld'
  BY <1>1 DEF HandsInv, SentinelHeld
<1>5. \A v \in Workers : Busy(v)' => Busy(v)
  BY <1>1 DEF Busy
<1>6. Hands'
  BY <1>5 DEF HandsInv, Hands, OneWorkerPerOperator, Queued
<1>7. ExitedLate'
  <2> SUFFICES ASSUME ~jammed', NEW v \in Workers, at'[v] = "exited", NEW o \in Operators
               PROVE  ~Queued(o)'
    BY DEF ExitedLate
  <2>1. ~jammed
    OBVIOUS
  <2>2. CASE v = w
    BY <2>1, <2>2, <1>1 DEF Queued
  <2>3. CASE v # w
    BY <2>1, <2>3, <1>1 DEF HandsInv, ExitedLate, Queued
  <2> QED BY <2>2, <2>3
<1> QED BY <1>2, <1>3, <1>4, <1>6, <1>7 DEF HandsInv

(* A worker that takes an operator. *)
LEMMA GetOperatorKeepsHands ==
    ASSUME HandsInv, NEW w \in Workers, GetOperator(w)
    PROVE  HandsInv'
<1>0. /\ queue \in Seq(Items) /\ queue # <<>> /\ queue' = Tail(queue) /\ main' = main
      /\ Head(queue) # Sentinel
  BY DEF HandsInv, WorkersTypeOK, Items, GetOperator
<1>1. /\ queue' \in Seq(Items)
      /\ Head(queue) \in Operators
      /\ \A y : Queued(y)' => Queued(y)
  BY <1>0, Take DEF Items
<1>2. QueueShape' /\ \A y : y = Head(queue) => ~Queued(y)'
  BY <1>0, TakeShape DEF HandsInv
<1>3. Queued(Head(queue))
  <2>1. DOMAIN queue = 1 .. Len(queue) /\ Len(queue) \in Nat \ {0} /\ Head(queue) = queue[1]
    BY <1>0, Take, LenProperties
  <2>2. 1 \in DOMAIN queue
    BY <2>1
  <2> QED BY <2>1, <2>2 DEF Queued
<1>4. /\ at'[w] = "fetching" /\ operator'[w] = Head(queue)
      /\ \A v \in Workers : v # w => at'[v] = at[v] /\ operator'[v] = operator[v]
      /\ at' \in [Workers -> Places] /\ operator' \in [Workers -> Operators \cup {Sentinel}]
  BY <1>1 DEF HandsInv, WorkersTypeOK, GetOperator, Places
<1>5. WorkersTypeOK'
  BY <1>1, <1>4 DEF HandsInv, WorkersTypeOK, GetOperator, Items, Places
<1>6. NotBefore' /\ ExitedLate'
  BY <1>1, <1>4 DEF HandsInv, NotBefore, ExitedLate, GetOperator
<1>7. SentinelHeld'
  BY <1>0, <1>4 DEF HandsInv, SentinelHeld
<1>8. \A v \in Workers : v # w /\ Busy(v)' => Busy(v) /\ operator'[v] # Head(queue)
  BY <1>3, <1>4 DEF HandsInv, Hands, Busy
<1>9. \A v \in Workers : Busy(v)' => operator'[v] \in Operators /\ ~Queued(operator[v])'
  <2> SUFFICES ASSUME NEW v \in Workers, Busy(v)', NEW o, o = operator'[v]
               PROVE  o \in Operators /\ ~Queued(o)'
    BY Zenon
  <2>1. CASE v = w
    BY <2>1, <1>1, <1>2, <1>4
  <2>2. CASE v # w
    <3>1. Busy(v) /\ o = operator[v]
      BY <2>2, <1>4, <1>8
    <3>2. operator[v] \in Operators /\ ~Queued(operator[v])
      BY <3>1 DEF HandsInv, Hands
    <3> QED BY <3>1, <3>2, <1>1
  <2> QED BY <2>1, <2>2
<1>10. OneWorkerPerOperator'
  <2> SUFFICES ASSUME NEW u \in Workers, NEW v \in Workers, Busy(u)', Busy(v)',
                      operator'[u] = operator'[v]
               PROVE  u = v
    BY DEF OneWorkerPerOperator
  <2>1. CASE u # w /\ v # w
    BY <2>1, <1>4, <1>8 DEF HandsInv, Hands, OneWorkerPerOperator
  <2>2. CASE u = w \/ v = w
    BY <2>2, <1>4, <1>8
  <2> QED BY <2>1, <2>2
<1> QED BY <1>2, <1>5, <1>6, <1>7, <1>9, <1>10 DEF HandsInv, Hands

(* A worker that takes the sentinel. *)
LEMMA GetSentinelKeepsHands ==
    ASSUME HandsInv, NEW w \in Workers, GetSentinel(w)
    PROVE  HandsInv'
<1>0. /\ queue \in Seq(Items) /\ queue # <<>> /\ queue' = Tail(queue) /\ main' = main
      /\ Head(queue) = Sentinel
  BY DEF HandsInv, WorkersTypeOK, Items, GetSentinel
<1>1. queue' \in Seq(Items) /\ \A y : Queued(y)' => Queued(y)
  BY <1>0, Take
<1>2. QueueShape' /\ queue' = <<>>
  BY <1>0, TakeShape DEF HandsInv
<1>4. /\ at'[w] = "returning" /\ operator' = operator
      /\ \A v \in Workers : v # w => at'[v] = at[v]
  BY DEF HandsInv, WorkersTypeOK, GetSentinel
<1>5. WorkersTypeOK'
  BY <1>1 DEF HandsInv, WorkersTypeOK, GetSentinel, Items, Places
<1>6. NotBefore' /\ ExitedLate'
  BY <1>1, <1>4 DEF HandsInv, NotBefore, ExitedLate, GetSentinel
<1>7. SentinelHeld'
  BY <1>0, <1>2, <1>4 DEF HandsInv, SentinelHeld
<1>8. \A v \in Workers : Busy(v)' => Busy(v)
  BY <1>4 DEF Busy
<1>9. Hands'
  BY <1>1, <1>4, <1>8 DEF HandsInv, Hands, OneWorkerPerOperator
<1> QED BY <1>2, <1>5, <1>6, <1>7, <1>9 DEF HandsInv

(* A worker that puts the sentinel back: nobody else holds it, and the queue is empty. *)
LEMMA PutSentinelBackKeepsHands ==
    ASSUME HandsInv, NEW w \in Workers, PutSentinelBack(w)
    PROVE  HandsInv'
<1>0. /\ queue \in Seq(Items) /\ queue = <<>> /\ queue' = Append(queue, Sentinel)
      /\ main' = main /\ main # "filling"
  BY DEF HandsInv, WorkersTypeOK, Items, PutSentinelBack, SentinelHeld, NotBefore
<1>1. /\ queue' \in Seq(Items)
      /\ Len(queue') = 1
      /\ \A y : Queued(y)' <=> Queued(y) \/ y = Sentinel
  BY <1>0, Put DEF Items
<1>2. \A y : ~Queued(y)
  BY <1>0 DEF Queued
<1>3. QueueShape'
  BY <1>0, <1>1 DEF QueueShape
<1>4. /\ at'[w] = "exited" /\ operator' = operator
      /\ \A v \in Workers : v # w => at'[v] = at[v] /\ at[v] # "returning"
  BY DEF HandsInv, WorkersTypeOK, PutSentinelBack, SentinelHeld
<1>5. WorkersTypeOK'
  BY <1>1 DEF HandsInv, WorkersTypeOK, PutSentinelBack, Items, Places
<1>6. NotBefore' /\ ExitedLate' /\ SentinelHeld'
  BY <1>0, <1>1, <1>2, <1>4 DEF NotBefore, ExitedLate, SentinelHeld
<1>8. \A v \in Workers : Busy(v)' => Busy(v)
  BY <1>4 DEF Busy
<1>9. Hands'
  BY <1>1, <1>2, <1>4, <1>8 DEF HandsInv, Hands, OneWorkerPerOperator
<1> QED BY <1>3, <1>5, <1>6, <1>9 DEF HandsInv

(* Every step of main and of the workers keeps the invariant, the faults included. *)
LEMMA HandsStep == HandsInv /\ [WorkersNext]_workersVars => HandsInv'
<1> SUFFICES ASSUME HandsInv, [WorkersNext]_workersVars PROVE HandsInv'
  OBVIOUS
<1> USE DEF Busy, Places
<1>1. CASE (\E o \in Operators : Fill(o)) \/ Launch \/ Join
  BY <1>1, MainKeepsHands
<1>2. ASSUME NEW w \in Workers, GetOperator(w) PROVE HandsInv'
  BY <1>2, GetOperatorKeepsHands
<1>3. ASSUME NEW w \in Workers, GetSentinel(w) PROVE HandsInv'
  BY <1>3, GetSentinelKeepsHands
<1>4. ASSUME NEW w \in Workers, PutSentinelBack(w) PROVE HandsInv'
  BY <1>4, PutSentinelBackKeepsHands
<1>5. ASSUME NEW w \in Workers, GiveUp(w) PROVE HandsInv'
  <2>1. WorkersTypeOK'
    BY <1>5 DEF GiveUp, HandsInv, WorkersTypeOK
  <2> QED BY <1>5, <2>1, QuietKeepsHands DEF GiveUp
<1>6. ASSUME NEW w \in Workers, Fetch(w) PROVE HandsInv'
  <2>1. WorkersTypeOK'
    BY <1>6 DEF Fetch, HandsInv, WorkersTypeOK, JourneysOf
  <2> QED BY <1>6, <2>1, QuietKeepsHands DEF Fetch
<1>7. ASSUME NEW w \in Workers, FinishOperator(w) PROVE HandsInv'
  <2>1. WorkersTypeOK'
    BY <1>7 DEF FinishOperator, HandsInv, WorkersTypeOK
  <2> QED BY <1>7, <2>1, QuietKeepsHands DEF FinishOperator
<1>8. ASSUME NEW w \in Workers, RaiseOnce(w) \/ RaiseUnconnected(w) PROVE HandsInv'
  <2>1. WorkersTypeOK'
    BY <1>8 DEF RaiseOnce, RaiseUnconnected, Abandon, HandsInv, WorkersTypeOK
  <2> QED BY <1>8, <2>1, QuietKeepsHands DEF RaiseOnce, RaiseUnconnected, Abandon
<1>9. ASSUME NEW w \in Workers, Kill(w) PROVE HandsInv'
  <2>2. jammed' \in BOOLEAN /\ (jammed => jammed')
    <3>1. jammed \in BOOLEAN /\ jammed' \in {jammed, at[w] = "getting" \/ jammed}
      BY <1>9 DEF Kill, HandsInv, WorkersTypeOK
    <3>2. jammed' = jammed \/ jammed' = (at[w] = "getting" \/ jammed)
      BY <3>1, Zenon
    <3> QED BY <3>1, <3>2, Zenon
  <2>1. WorkersTypeOK'
    <3>1. /\ at' \in [Workers -> Places] /\ faults' \in Nat
          /\ UNCHANGED <<queue, main, operator, todo, written, connected>>
      BY <1>9 DEF Kill, HandsInv, WorkersTypeOK
    <3> QED BY <3>1, <2>2 DEF HandsInv, WorkersTypeOK
  <2> QED BY <1>9, <2>1, <2>2, QuietKeepsHands DEF Kill
<1>10. CASE /\ UNCHANGED <<queue, main, at, operator, jammed>>
            /\ WorkersTypeOK'
  BY <1>10 DEF HandsInv, QueueShape, Queued, NotBefore, SentinelHeld, Hands,
               OneWorkerPerOperator, ExitedLate
<1>11. ASSUME NEW w \in Workers, NEW j \in Journeys, MatchJourney(w, j) PROVE HandsInv'
  <2>1. WorkersTypeOK'
    BY <1>11 DEF MatchJourney, HandsInv, WorkersTypeOK
  <2> QED BY <1>11, <2>1, <1>10 DEF MatchJourney
<1>12. ASSUME NEW w \in Workers, LoseConnection(w) PROVE HandsInv'
  <2>1. WorkersTypeOK'
    BY <1>12 DEF LoseConnection, HandsInv, WorkersTypeOK
  <2> QED BY <1>12, <2>1, <1>10 DEF LoseConnection
<1>13. CASE UNCHANGED workersVars
  <2>1. WorkersTypeOK'
    BY <1>13 DEF workersVars, HandsInv, WorkersTypeOK
  <2> QED BY <1>13, <2>1, <1>10 DEF workersVars
<1> QED BY <1>1, <1>2, <1>3, <1>4, <1>5, <1>6, <1>7, <1>8, <1>9, <1>11, <1>12, <1>13
        DEF WorkersNext, Work

(* The queue holds each operator once, and no operator is queued while a      *)
(* worker has it: main's queue is filled before the processes start.           *)
THEOREM HandsAlways == WorkersSpec => []HandsInv
<1>1. WorkersInit => HandsInv
  BY HandsInit
<1>2. HandsInv /\ [WorkersNext]_workersVars => HandsInv'
  BY HandsStep
<1> QED BY <1>1, <1>2, PTL DEF WorkersSpec

(* Whatever a worker takes from the queue, its list holds journeys only.       *)
THEOREM PoolAlwaysTyped == WorkersSpec => []WorkersTypeOK
<1>1. HandsInv => WorkersTypeOK
  BY DEF HandsInv
<1> QED BY <1>1, HandsAlways, PTL

(* The timetable rows of an operator are written by one worker process only,   *)
(* however many workers take from the queue of main and whatever kills them.   *)
THEOREM PoolOwnsOperators == WorkersSpec => [](WorkersTypeOK /\ OneWorkerPerOperator)
<1>1. HandsInv => WorkersTypeOK /\ OneWorkerPerOperator
  BY DEF HandsInv, Hands
<1> QED BY <1>1, HandsAlways, PTL

-----------------------------------------------------------------------------
\* A journey that is not written yet and still will be.
Pending(j) ==
    \/ main = "filling"
    \/ Queued(OperatorOf[j])
    \/ \E w \in Workers : at[w] = "fetching" /\ operator[w] = OperatorOf[j]
    \/ \E w \in Workers : at[w] = "matching" /\ j \in todo[w]

\* L covers what is lost, and no more operators are lost than there were faults.
Covers(L) == \A j \in Journeys \ written : Pending(j) \/ OperatorOf[j] \in L

Accounted == connected = Workers =>
    \E L \in SUBSET Operators : Cardinality(L) <= faults /\ Covers(L)

TodoOwn == \A w \in Workers :
    at[w] = "matching" => \A j \in todo[w] : OperatorOf[j] = operator[w]

Stopped == main = "finished" => \A w \in Workers : at[w] \in {"exited", "killed"}

LossInv == HandsInv /\ Accounted /\ TodoOwn /\ Stopped

(* A step that drops no pending journey keeps the account. *)
LEMMA NothingLost ==
    ASSUME HandsInv, Accounted, connected' = Workers => connected = Workers,
           faults' \in {faults, faults + 1},
           \A j \in Journeys : j \notin written' => j \notin written /\ (Pending(j) => Pending(j)')
    PROVE  Accounted'
<1> SUFFICES ASSUME connected' = Workers
             PROVE  \E L \in SUBSET Operators : Cardinality(L) <= faults' /\ Covers(L)'
  BY DEF Accounted
<1>1. PICK L \in SUBSET Operators : Cardinality(L) <= faults /\ Covers(L)
  BY DEF Accounted
<1>2. Cardinality(L) \in Nat /\ faults \in Nat
  BY FS_Subset, FS_CardinalityType DEF HandsInv, WorkersTypeOK
<1>3. Cardinality(L) <= faults'
  BY <1>1, <1>2
<1>4. Covers(L)'
  BY <1>1 DEF Covers
<1> QED BY <1>3, <1>4

(* A fault that strikes worker w loses what it held, one operator at most. *)
LEMMA OneLost ==
    ASSUME HandsInv, Accounted, connected' = connected, faults' = faults + 1, written' = written,
           NEW o \in Operators,
           \A j \in Journeys : Pending(j) => Pending(j)' \/ OperatorOf[j] = o
    PROVE  Accounted'
<1> SUFFICES ASSUME connected = Workers
             PROVE  \E L \in SUBSET Operators : Cardinality(L) <= faults' /\ Covers(L)'
  BY DEF Accounted
<1>1. PICK L \in SUBSET Operators : Cardinality(L) <= faults /\ Covers(L)
  BY DEF Accounted
<1>2. IsFiniteSet(L) /\ Cardinality(L) \in Nat /\ faults \in Nat
  BY FS_Subset, FS_CardinalityType DEF HandsInv, WorkersTypeOK
<1>3. Cardinality(L \cup {o}) <= faults'
  <2>1. Cardinality(L \cup {o}) = IF o \in L THEN Cardinality(L) ELSE Cardinality(L) + 1
    BY <1>2, FS_AddElement
  <2> QED BY <2>1, <1>1, <1>2
<1>4. Covers(L \cup {o})'
  BY <1>1 DEF Covers
<1> QED BY <1>3, <1>4

(* Before the queue is filled nothing is lost. *)
LEMMA LossInit == WorkersInit => LossInv
<1> SUFFICES ASSUME WorkersInit PROVE LossInv
  OBVIOUS
<1>1. Cardinality({}) = 0 /\ faults = 0
  BY FS_EmptySet DEF WorkersInit
<1>2. Covers({})
  BY DEF Covers, Pending, WorkersInit
<1>3. Accounted
  BY <1>1, <1>2 DEF Accounted
<1> QED BY <1>3, HandsInit DEF LossInv, TodoOwn, Stopped, WorkersInit

(* The steps of main lose nothing. *)
LEMMA MainAccounts ==
    ASSUME LossInv, HandsInv', (\E o \in Operators : Fill(o)) \/ Launch \/ Join
    PROVE  LossInv'
<1> USE DEF LossInv
<1>1. CASE \E o \in Operators : Fill(o)
  <2>1. Accounted'
    BY <1>1, NothingLost DEF Fill, Pending
  <2>2. TodoOwn' /\ Stopped'
    BY <1>1 DEF Fill, TodoOwn, Stopped
  <2> QED BY <2>1, <2>2
<1>2. CASE Launch
  <2>1. queue \in Seq(Items) /\ queue' = Append(queue, Sentinel) /\ Sentinel \in Items
    BY <1>2 DEF Launch, HandsInv, WorkersTypeOK, Items
  <2>2. \A y : Queued(y)' <=> Queued(y) \/ y = Sentinel
    BY <2>1, Put
  <2>3. \A j \in Journeys : Pending(j)'
    BY <1>2, <2>2 DEF Launch, Pending
  <2>4. Accounted'
    BY <1>2, <2>3, NothingLost DEF Launch
  <2>5. TodoOwn' /\ Stopped'
    BY <1>2 DEF Launch, TodoOwn, Stopped
  <2> QED BY <2>4, <2>5
<1>3. CASE Join
  <2>1. \A j \in Journeys : Pending(j) => Pending(j)'
    BY <1>3 DEF Join, Pending, Queued
  <2>2. Accounted'
    BY <1>3, <2>1, NothingLost DEF Join
  <2>3. TodoOwn' /\ Stopped'
    BY <1>3 DEF Join, TodoOwn, Stopped
  <2> QED BY <2>2, <2>3
<1> QED BY <1>1, <1>2, <1>3

(* A worker's step that moves only that worker, to another place or another operator. *)
LEMMA WorkerAccounts ==
    ASSUME LossInv, NEW w \in Workers, Work(w)
    PROVE  Accounted' /\ TodoOwn' /\ Stopped'
<1> USE DEF LossInv
<1>0. /\ queue \in Seq(Items) /\ at \in [Workers -> Places] /\ todo \in [Workers -> SUBSET Journeys]
      /\ operator \in [Workers -> Operators \cup {Sentinel}]
      /\ \A j \in Journeys : OperatorOf[j] \in Operators /\ OperatorOf[j] # Sentinel
  BY DEF HandsInv, WorkersTypeOK, Items
<1>1. CASE GetOperator(w)
  <2>1. \A y : Queued(y) => y = Head(queue) \/ Queued(y)'
    BY <1>0, <1>1, Take DEF GetOperator
  <2>2. /\ at'[w] = "fetching" /\ operator'[w] = Head(queue) /\ at[w] = "getting"
        /\ \A v \in Workers : v # w => at'[v] = at[v] /\ operator'[v] = operator[v]
    BY <1>0, <1>1 DEF GetOperator
  <2>3. ASSUME NEW j \in Journeys, Pending(j) PROVE Pending(j)'
    BY <1>1, <2>1, <2>2, <2>3 DEF GetOperator, Pending
  <2>4. Accounted'
    BY <1>1, <2>3, NothingLost DEF GetOperator
  <2>5. TodoOwn' /\ Stopped'
    BY <1>1, <2>2 DEF GetOperator, TodoOwn, Stopped
  <2> QED BY <2>4, <2>5
<1>2. CASE GetSentinel(w)
  <2>1. \A y : Queued(y) => y = Sentinel \/ Queued(y)'
    BY <1>0, <1>2, Take DEF GetSentinel
  <2>2. at[w] = "getting" /\ at'[w] = "returning" /\ \A v \in Workers : v # w => at'[v] = at[v]
    BY <1>0, <1>2 DEF GetSentinel
  <2>3. ASSUME NEW j \in Journeys, Pending(j) PROVE Pending(j)'
    BY <1>0, <1>2, <2>1, <2>2, <2>3 DEF GetSentinel, Pending
  <2>4. Accounted'
    BY <1>2, <2>3, NothingLost DEF GetSentinel
  <2>5. TodoOwn' /\ Stopped'
    BY <1>2, <2>2 DEF GetSentinel, TodoOwn, Stopped
  <2> QED BY <2>4, <2>5
<1>3. CASE PutSentinelBack(w)
  <2>1. \A y : Queued(y) => Queued(y)'
    BY <1>0, <1>3, Put DEF PutSentinelBack, Items
  <2>2. at[w] = "returning" /\ at'[w] = "exited" /\ \A v \in Workers : v # w => at'[v] = at[v]
    BY <1>0, <1>3 DEF PutSentinelBack
  <2>3. ASSUME NEW j \in Journeys, Pending(j) PROVE Pending(j)'
    BY <1>3, <2>1, <2>2, <2>3 DEF PutSentinelBack, Pending
  <2>4. Accounted'
    BY <1>3, <2>3, NothingLost DEF PutSentinelBack
  <2>5. TodoOwn' /\ Stopped'
    BY <1>3, <2>2 DEF PutSentinelBack, TodoOwn, Stopped
  <2> QED BY <2>4, <2>5
<1>4. CASE GiveUp(w) \/ FinishOperator(w)
  <2>1. /\ at[w] = "getting" \/ (at[w] = "matching" /\ todo[w] = {})
        /\ at'[w] \in {"exited", "getting"} /\ \A v \in Workers : v # w => at'[v] = at[v]
        /\ main # "finished"
    BY <1>0, <1>4 DEF GiveUp, FinishOperator, Stopped
  <2>2. UNCHANGED <<queue, main, operator, todo, written, connected, faults>>
    BY <1>4 DEF GiveUp, FinishOperator
  <2>3. ASSUME NEW j \in Journeys, Pending(j) PROVE Pending(j)'
    BY <2>1, <2>2, <2>3 DEF Pending, Queued
  <2>4. Accounted'
    BY <2>2, <2>3, NothingLost
  <2>5. TodoOwn' /\ Stopped'
    BY <2>1, <2>2 DEF TodoOwn, Stopped
  <2> QED BY <2>4, <2>5
<1>5. CASE Fetch(w)
  <2>1. /\ at[w] = "fetching" /\ at'[w] = "matching" /\ todo'[w] = JourneysOf(operator[w])
        /\ \A v \in Workers : v # w => at'[v] = at[v] /\ todo'[v] = todo[v]
    BY <1>0, <1>5 DEF Fetch
  <2>2. UNCHANGED <<queue, main, operator, written, connected, faults>>
    BY <1>5 DEF Fetch
  <2>3. ASSUME NEW j \in Journeys, Pending(j) PROVE Pending(j)'
    BY <2>1, <2>2, <2>3 DEF Pending, Queued, JourneysOf
  <2>4. Accounted'
    BY <2>2, <2>3, NothingLost
  <2>5. TodoOwn' /\ Stopped'
    BY <2>1, <2>2 DEF TodoOwn, Stopped, JourneysOf
  <2> QED BY <2>4, <2>5
<1>6. ASSUME NEW j \in Journeys, MatchJourney(w, j) PROVE Accounted' /\ TodoOwn' /\ Stopped'
  <2>1. /\ at' = at /\ at[w] = "matching" /\ todo'[w] = todo[w] \ {j} /\ written' = written \cup {j}
        /\ \A v \in Workers : v # w => todo'[v] = todo[v]
    BY <1>0, <1>6 DEF MatchJourney
  <2>2. UNCHANGED <<queue, main, operator, connected, faults>>
    BY <1>6 DEF MatchJourney
  <2>3. ASSUME NEW i \in Journeys, i \notin written', Pending(i) PROVE Pending(i)'
    BY <2>1, <2>2, <2>3 DEF Pending, Queued
  <2>4. Accounted'
    BY <2>1, <2>2, <2>3, NothingLost
  <2>5. TodoOwn' /\ Stopped'
    BY <2>1, <2>2 DEF TodoOwn, Stopped
  <2> QED BY <2>4, <2>5
<1>7. CASE RaiseUnconnected(w)
  <2>1. connected' # Workers
    BY <1>7 DEF RaiseUnconnected, Abandon
  <2>2. TodoOwn' /\ Stopped'
    BY <1>0, <1>7 DEF RaiseUnconnected, Abandon, TodoOwn, Stopped
  <2> QED BY <2>1, <2>2 DEF Accounted
<1> QED BY <1>1, <1>2, <1>3, <1>4, <1>5, <1>6, <1>7 DEF Work

(* A fault loses the operator in the hands of the worker it strikes. *)
LEMMA FaultAccounts ==
    ASSUME LossInv, NEW w \in Workers, RaiseOnce(w) \/ LoseConnection(w) \/ Kill(w)
    PROVE  Accounted' /\ TodoOwn' /\ Stopped'
<1> USE DEF LossInv
<1>0. /\ at \in [Workers -> Places] /\ todo \in [Workers -> SUBSET Journeys]
      /\ faults \in Nat
  BY DEF HandsInv, WorkersTypeOK
<1>1. CASE LoseConnection(w)
  BY <1>1 DEF LoseConnection, Accounted, TodoOwn, Stopped
<1>2. CASE RaiseOnce(w) \/ Kill(w)
  <2>1. /\ at[w] \notin {"exited", "killed"}
        /\ at'[w] \in {"getting", "killed"} /\ (at'[w] = "killed" \/ main # "finished")
        /\ \A v \in Workers : v # w => at'[v] = at[v] /\ todo'[v] = todo[v]
    BY <1>0, <1>2 DEF RaiseOnce, Abandon, Kill, Stopped
  <2>2. UNCHANGED <<queue, main, operator, written, connected>> /\ faults' = faults + 1
    BY <1>2 DEF RaiseOnce, Abandon, Kill
  <2>3. Accounted'
    <3>1. CASE Busy(w)
      <4>1. operator[w] \in Operators
        BY <3>1 DEF HandsInv, Hands
      <4>2. ASSUME NEW j \in Journeys, Pending(j)
            PROVE  Pending(j)' \/ OperatorOf[j] = operator[w]
        BY <2>1, <2>2, <4>2 DEF Pending, Queued, TodoOwn
      <4> QED BY <2>2, <4>1, <4>2, OneLost
    <3>2. CASE ~Busy(w)
      <4>1. ASSUME NEW j \in Journeys, Pending(j) PROVE Pending(j)'
        BY <2>1, <2>2, <3>2, <4>1 DEF Pending, Queued, Busy
      <4> QED BY <2>2, <4>1, NothingLost
    <3> QED BY <3>1, <3>2
  <2>4. TodoOwn' /\ Stopped'
    BY <2>1, <2>2 DEF TodoOwn, Stopped
  <2> QED BY <2>3, <2>4
<1> QED BY <1>1, <1>2

(* Every step keeps the account of what is lost. *)
LEMMA LossStep == LossInv /\ [WorkersNext]_workersVars => LossInv'
<1> SUFFICES ASSUME LossInv, [WorkersNext]_workersVars PROVE LossInv'
  OBVIOUS
<1>0. HandsInv'
  BY HandsStep DEF LossInv
<1>1. CASE (\E o \in Operators : Fill(o)) \/ Launch \/ Join
  BY <1>0, <1>1, MainAccounts
<1>2. ASSUME NEW w \in Workers, Work(w) PROVE LossInv'
  BY <1>0, <1>2, WorkerAccounts DEF LossInv
<1>3. ASSUME NEW w \in Workers, RaiseOnce(w) \/ LoseConnection(w) \/ Kill(w) PROVE LossInv'
  BY <1>0, <1>3, FaultAccounts DEF LossInv
<1>4. CASE UNCHANGED workersVars
  BY <1>0, <1>4 DEF workersVars, LossInv, Accounted, Covers, Pending, Queued, TodoOwn, Stopped
<1> QED BY <1>1, <1>2, <1>3, <1>4 DEF WorkersNext

(* What the account says at the end. *)
LEMMA LossEnds == LossInv => LossIsLocal
<1> SUFFICES ASSUME LossInv, main = "finished", connected = Workers, ~jammed,
                    NEW w \in Workers, at[w] = "exited"
             PROVE  Cardinality({OperatorOf[j] : j \in Journeys \ written}) <= faults
  BY DEF LossIsLocal
<1> DEFINE Lost == {OperatorOf[j] : j \in Journeys \ written}
<1>1. PICK L \in SUBSET Operators : Cardinality(L) <= faults /\ Covers(L)
  BY DEF LossInv, Accounted
<1>2. \A o \in Operators : ~Queued(o)
  BY DEF LossInv, HandsInv, ExitedLate
<1>3. \A v \in Workers : at[v] \in {"exited", "killed"}
  BY DEF LossInv, Stopped
<1>4. \A j \in Journeys : ~Pending(j)
  BY <1>2, <1>3 DEF Pending
<1>5. Lost \in SUBSET L
  BY <1>1, <1>4 DEF Covers
<1>6. IsFiniteSet(L)
  BY FS_Subset
<1>7. Cardinality(Lost) <= Cardinality(L)
  BY <1>5, <1>6, FS_Subset
<1>8. Cardinality(Lost) \in Nat /\ Cardinality(L) \in Nat /\ faults \in Nat
  BY <1>5, <1>6, FS_Subset, FS_CardinalityType DEF LossInv, HandsInv, WorkersTypeOK
<1> QED BY <1>1, <1>7, <1>8

(* The except clause of operator_worker_task costs one operator for each       *)
(* exception, kill included, if every connection lives, the queue can be read  *)
(* and one worker ends by itself.                                              *)
THEOREM PoolLosesLocally == WorkersSpec => []LossIsLocal
<1>1. WorkersInit => LossInv
  BY LossInit
<1>2. LossInv /\ [WorkersNext]_workersVars => LossInv'
  BY LossStep
<1>3. LossInv => LossIsLocal
  BY LossEnds
<1> QED BY <1>1, <1>2, <1>3, PTL DEF WorkersSpec
=============================================================================
