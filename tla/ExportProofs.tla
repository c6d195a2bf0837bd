---------------------------- MODULE ExportProofs ----------------------------
(***************************************************************************)
(* What follows the receivers.  The pipelines of a collector, for every    *)
(* configuration of either format: what a sink is given went through the   *)
(* stages it is said to have gone through, and no sink is given a batch    *)
(* again that it took.  The queued processor and the exporter's pool of    *)
(* connections, for every number of batches, workers, queue slots and      *)
(* connections: every batch is in one place, every connection is, and the  *)
(* composition is one of both.                                             *)
(***************************************************************************)
EXTENDS QueuedExport, Pipelines, DataLemmas

-----------------------------------------------------------------------------
(* The queue.                                                              *)

(* A worker has an item exactly while it sends it or handles its failure.  *)
Hands ==
  \A w \in Workers :
    IF workerPc[w] \in {"sending", "failed"}
      THEN \E i \in Items : inHand[w] = {i}
      ELSE inHand[w] = {}

QueueInv == QueueTypeOK /\ Hands /\ EveryBatchAccounted

LEMMA QueueInitInv == QueueInit => QueueInv
<1> SUFFICES ASSUME QueueInit PROVE QueueInv  OBVIOUS
<1>1. QueueTypeOK
  <2>1. queue \in Seq(Items) /\ Len(queue) <= QueueSize
    BY QueueAssumption DEF QueueInit
  <2>2. 0 \in Nat
    OBVIOUS
  <2> QED  BY <2>1, <2>2 DEF QueueInit, QueueTypeOK
<1>2. Hands
  BY DEF QueueInit, Hands
<1>3. QueuedOnce /\ HeldOnce
  BY DEF QueueInit, QueuedOnce, HeldOnce
<1>4. ASSUME NEW i \in Items PROVE Accounted(i)
  <2>1. ~Queued(i) /\ ~Held(i) /\ Counted(i) = 0 /\ i \notin received
    BY EmptyRange DEF QueueInit, Queued, Held, Counted
  <2> QED  BY <2>1 DEF Accounted
<1> QED  BY <1>1, <1>2, <1>3, <1>4 DEF QueueInv, EveryBatchAccounted

(* A batch nobody has yet, or one that a worker lets go, is queued once or *)
(* counted as dropped once.                                                *)
LEMMA ProducedOrDropped ==
  ASSUME QueueTypeOK, QueuedOnce, NEW i \in Items, ~Queued(i), ProduceOrDrop(i)
  PROVE  /\ queue' \in Seq(Items) /\ Len(queue') <= QueueSize
         /\ dropped' \in [Items -> Nat]
         /\ QueuedOnce'
         /\ \A j \in Items \ {i} : Queued(j)' = Queued(j) /\ dropped'[j] = dropped[j]
         /\ \/ Queued(i)' /\ dropped'[i] = dropped[i]
            \/ ~Queued(i)' /\ dropped'[i] = dropped[i] + 1
<1> USE QueueAssumption DEF QueueTypeOK
<1>1. CASE Refuses
  <2>1. UNCHANGED queue /\ dropped' = [dropped EXCEPT ![i] = @ + 1]
    BY <1>1 DEF ProduceOrDrop
  <2> QED  BY <2>1 DEF QueuedOnce, Queued
<1>2. CASE ~Refuses
  <2>1. UNCHANGED dropped /\ queue' = Append(queue, i) /\ Len(queue) < QueueSize
    BY <1>2, LenProperties DEF ProduceOrDrop, Refuses
  <2>2. Range(queue') = Range(queue) \cup {i}
    BY <2>1, RangeAppend
  <2>3. queue' \in Seq(Items) /\ Len(queue') = Len(queue) + 1 /\ Len(queue) \in Nat
    BY <2>1, AppendProperties, LenProperties
  <2>4. QueuedOnce'
    BY <2>1, NoRepeatAppend DEF QueuedOnce, NoRepeat, Queued
  <2> QED  BY <2>1, <2>2, <2>3, <2>4 DEF Queued
<1> QED  BY <1>1, <1>2

LEMMA QueueStepInv ==
  ASSUME QueueInv, [QueueNext]_queueVars
  PROVE  QueueInv'
<1> USE DEF QueueInv, EveryBatchAccounted
<1>1. ASSUME NEW i \in Items, ConsumeTraceData(i) PROVE QueueInv'
  <2>1. i \notin received /\ received' = received \cup {i} /\ ProduceOrDrop(i)
    BY <1>1 DEF ConsumeTraceData
  <2>2. UNCHANGED <<retry, stopCh, queueStopped, stopPc, workerPc, inHand, processed>>
    BY <1>1 DEF ConsumeTraceData
  <2>3. ~Queued(i) /\ ~Held(i) /\ Counted(i) = 0
    <3>1. Counted(i) \in Nat
      BY DEF Counted, QueueTypeOK
    <3>2. ~Queued(i) /\ ~Held(i) /\ ~(Counted(i) > 0)
      BY <2>1 DEF Accounted
    <3> QED  BY <3>1, <3>2
  <2>4. /\ queue' \in Seq(Items) /\ Len(queue') <= QueueSize
        /\ dropped' \in [Items -> Nat]
        /\ QueuedOnce'
        /\ \A j \in Items \ {i} : Queued(j)' = Queued(j) /\ dropped'[j] = dropped[j]
        /\ \/ Queued(i)' /\ dropped'[i] = dropped[i]
           \/ ~Queued(i)' /\ dropped'[i] = dropped[i] + 1
    BY <2>1, <2>3, ProducedOrDropped
  <2>5. QueueTypeOK' /\ Hands' /\ HeldOnce' /\ \A j \in Items : Held(j)' = Held(j)
    BY <2>1, <2>2, <2>4 DEF QueueTypeOK, Hands, HeldOnce, Held
  <2>6. ASSUME NEW j \in Items \ {i} PROVE Accounted(j)'
    BY <2>1, <2>2, <2>4, <2>5 DEF Accounted, Counted
  <2>7. Accounted(i)'
    BY <2>1, <2>2, <2>3, <2>4, <2>5 DEF Accounted, Counted, QueueTypeOK
  <2> QED  BY <2>4, <2>5, <2>6, <2>7
<1>2. ASSUME NEW w \in Workers, WorkerTakes(w) PROVE QueueInv'
  <2>0. PICK i \in Items : i = Head(queue)
    BY <1>2, HeadTailProperties DEF WorkerTakes, QueueTypeOK
  <2>1. /\ queue # <<>> /\ workerPc[w] = "idle"
        /\ inHand' = [inHand EXCEPT ![w] = {i}]
        /\ queue' = Tail(queue)
        /\ workerPc' = [workerPc EXCEPT ![w] = "sending"]
        /\ UNCHANGED <<retry, stopCh, queueStopped, stopPc, received, processed, dropped>>
    BY <1>2, <2>0 DEF WorkerTakes
  <2>2. queue' \in Seq(Items) /\ Len(queue') <= QueueSize
    BY <2>1, HeadTailProperties, LenProperties, QueueAssumption DEF QueueTypeOK
  <2>3. QueuedOnce' /\ ~Queued(i)'
    <3>1. queue \in Seq(Items) /\ NoRepeat(queue)
      BY DEF QueuedOnce, NoRepeat, QueueTypeOK
    <3>2. NoRepeat(queue') /\ i \notin Range(queue')
      BY <2>0, <2>1, <3>1, NoRepeatTail
    <3> QED  BY <3>2 DEF QueuedOnce, NoRepeat, Queued
  <2>4. \A j \in Items : Queued(j) = (j = i \/ Queued(j)')
    BY <2>0, <2>1, RangeHeadTail DEF Queued, QueueTypeOK
  <2>5. inHand[w] = {}
    BY <2>1 DEF Hands
  <2>6. QueueTypeOK' /\ Hands'
    BY <2>0, <2>1, <2>2 DEF QueueTypeOK, Hands
  <2>7. \A j \in Items : Held(j)' = (Held(j) \/ j = i)
    BY <2>1, <2>5 DEF Held, QueueTypeOK
  <2>8. Queued(i) /\ ~Held(i)
    BY <2>4 DEF Accounted
  <2>9. HeldOnce'
    <3> SUFFICES ASSUME NEW x \in Workers, NEW y \in Workers, x # y
                 PROVE  inHand'[x] \cap inHand'[y] = {}
      BY DEF HeldOnce
    <3>1. CASE x # w /\ y # w
      BY <2>1, <3>1 DEF HeldOnce, QueueTypeOK
    <3>2. CASE x = w \/ y = w
      BY <2>1, <2>8, <3>2 DEF Held, QueueTypeOK
    <3> QED  BY <3>1, <3>2
  <2>10. ASSUME NEW j \in Items PROVE Accounted(j)'
    <3>1. Counted(j)' = Counted(j) /\ (j \in received)' = (j \in received)
      BY <2>1 DEF Counted
    <3>2. CASE j = i
      BY <2>3, <2>7, <2>8, <3>1, <3>2 DEF Accounted
    <3>3. CASE j # i
      BY <2>4, <2>7, <3>1, <3>3 DEF Accounted
    <3> QED  BY <3>2, <3>3
  <2> QED  BY <2>3, <2>6, <2>9, <2>10
<1>3. ASSUME NEW w \in Workers, WorkerExits(w) \/ BackoffEnds(w) PROVE QueueInv'
  <2>1. UNCHANGED <<retry, queue, stopCh, queueStopped, stopPc, inHand, received, processed, dropped>>
    BY <1>3 DEF WorkerExits, BackoffEnds
  <2>2. /\ workerPc[w] \in {"idle", "backoff"}
        /\ \E pc \in {"exited", "idle"} : workerPc' = [workerPc EXCEPT ![w] = pc]
    BY <1>3 DEF WorkerExits, BackoffEnds
  <2>3. QueueTypeOK' /\ Hands'
    BY <2>1, <2>2 DEF QueueTypeOK, Hands
  <2> QED  BY <2>1, <2>3 DEF QueuedOnce, HeldOnce, Accounted, Queued, Held, Counted
<1>4. ASSUME NEW w \in Workers, NEW ok \in BOOLEAN, SendReturns(w, ok) PROVE QueueInv'
  <2>1. PICK i \in Items : inHand[w] = {i}
    BY <1>4 DEF SendReturns, Hands
  <2>2. UNCHANGED <<retry, queue, stopCh, queueStopped, stopPc, received, dropped>>
        /\ workerPc[w] = "sending"
    BY <1>4 DEF SendReturns
  <2>3. CASE ~ok
    <3>1. UNCHANGED <<processed, inHand>> /\ workerPc' = [workerPc EXCEPT ![w] = "failed"]
      BY <1>4, <2>3 DEF SendReturns
    <3>2. QueueTypeOK' /\ Hands'
      BY <2>1, <2>2, <3>1 DEF QueueTypeOK, Hands
    <3> QED  BY <2>2, <3>1, <3>2 DEF QueuedOnce, HeldOnce, Accounted, Queued, Held, Counted
  <2>4. CASE ok
    <3>1. /\ processed' = [j \in Items |-> IF j = i THEN processed[j] + 1 ELSE processed[j]]
          /\ inHand' = [inHand EXCEPT ![w] = {}]
          /\ workerPc' = [workerPc EXCEPT ![w] = "idle"]
      BY <1>4, <2>1, <2>4 DEF SendReturns
    <3>2. QueueTypeOK' /\ Hands' /\ HeldOnce' /\ QueuedOnce'
      BY <2>2, <3>1 DEF QueueTypeOK, Hands, HeldOnce, QueuedOnce
    <3>3. ~Held(i)' /\ Held(i) /\ \A j \in Items \ {i} : Held(j)' = Held(j)
      BY <2>1, <3>1 DEF Held, HeldOnce, QueueTypeOK
    <3>4. \A j \in Items : Queued(j)' = Queued(j)
      BY <2>2 DEF Queued
    <3>5. ASSUME NEW j \in Items \ {i} PROVE Accounted(j)'
      BY <2>2, <3>1, <3>3, <3>4 DEF Accounted, Counted, QueueTypeOK
    <3>6. Accounted(i)'
      BY <2>2, <3>1, <3>3, <3>4 DEF Accounted, Counted, QueueTypeOK
    <3> QED  BY <3>2, <3>5, <3>6
  <2> QED  BY <2>3, <2>4
<1>5. ASSUME NEW w \in Workers, HandleFailure(w) PROVE QueueInv'
  <2>1. PICK i \in Items : inHand[w] = {i}
    BY <1>5 DEF HandleFailure, Hands
  <2>2. /\ workerPc[w] = "failed"
        /\ inHand' = [inHand EXCEPT ![w] = {}]
        /\ workerPc' = [workerPc EXCEPT ![w] = "backoff"]
        /\ UNCHANGED <<retry, stopCh, queueStopped, stopPc, received, processed>>
    BY <1>5 DEF HandleFailure
  <2>3. ~Queued(i) /\ Held(i) /\ Counted(i) = 0
    BY <2>1 DEF Held, Accounted
  <2>4. /\ queue' \in Seq(Items) /\ Len(queue') <= QueueSize
        /\ dropped' \in [Items -> Nat]
        /\ QueuedOnce'
        /\ \A j \in Items \ {i} : Queued(j)' = Queued(j) /\ dropped'[j] = dropped[j]
        /\ \/ Queued(i)' /\ dropped'[i] = dropped[i]
           \/ ~Queued(i)' /\ dropped'[i] = dropped[i] + 1
    <3>1. CASE retry
      <4>1. ProduceOrDrop(i)
        BY <1>5, <2>1, <3>1 DEF HandleFailure
      <4> QED  BY <4>1, <2>3, ProducedOrDropped
    <3>2. CASE ~retry
      <4>1. dropped' = [dropped EXCEPT ![i] = @ + 1] /\ UNCHANGED queue
        BY <1>5, <2>1, <3>2 DEF HandleFailure
      <4> QED  BY <4>1, <2>3 DEF QueueTypeOK, QueuedOnce, Queued
    <3> QED  BY <3>1, <3>2
  <2>5. QueueTypeOK' /\ Hands' /\ HeldOnce'
    BY <2>2, <2>4 DEF QueueTypeOK, Hands, HeldOnce
  <2>6. ~Held(i)' /\ \A j \in Items \ {i} : Held(j)' = Held(j)
    BY <2>1, <2>2 DEF Held, HeldOnce, QueueTypeOK
  <2>7. ASSUME NEW j \in Items \ {i} PROVE Accounted(j)'
    BY <2>2, <2>4, <2>6 DEF Accounted, Counted
  <2>8. Accounted(i)'
    BY <2>2, <2>3, <2>4, <2>6 DEF Accounted, Counted, QueueTypeOK
  <2> QED  BY <2>4, <2>5, <2>7, <2>8
<1>6. CASE StopCall \/ StopQueue \/ StopReturn \/ UNCHANGED queueVars
  <2>1. UNCHANGED <<retry, queue, workerPc, inHand, received, processed, dropped>>
    BY <1>6 DEF StopCall, StopQueue, StopReturn, queueVars
  <2>2. QueueTypeOK'
    BY <1>6, <2>1 DEF StopCall, StopQueue, StopReturn, queueVars, QueueTypeOK
  <2> QED  BY <2>1, <2>2 DEF Hands, QueuedOnce, HeldOnce, Accounted, Queued, Held, Counted
<1> QED
  BY <1>1, <1>2, <1>3, <1>4, <1>5, <1>6
  DEF QueueNext, QueueStep, WorkerInQueue, StopSteps

(* Whatever the sender does, every batch received is in one place: queued, *)
(* with one worker, sent once or dropped once.                             *)
THEOREM QueueAccounts == QueueSpec => [](QueueTypeOK /\ EveryBatchAccounted)
<1>1. QueueInv => QueueTypeOK /\ EveryBatchAccounted
  BY DEF QueueInv
<1>2. QueueInv /\ [QueueNext]_queueVars => QueueInv'
  BY QueueStepInv
<1> QED  BY <1>1, <1>2, QueueInitInv, PTL DEF QueueSpec

-----------------------------------------------------------------------------
(* The pool of connections.                                                *)

(* A caller holds a connection exactly while it exports; stop has them all *)
(* before it closes the pool.                                              *)
PoolInv ==
  /\ Exporter!PoolTypeOK
  /\ ExportersConserved
  /\ \A w \in Workers : IF pushPc[w] = "exporting" THEN holding[w] # {} ELSE holding[w] = {}
  /\ stopExpPc \in {"wait", "returned"} => collected = Exporters
  /\ poolClosed => stopExpPc = "returned"

LEMMA PoolInitInv == Exporter!PoolInit => PoolInv
  BY DEF Exporter!PoolInit, PoolInv, Exporter!PoolTypeOK, ExportersConserved,
         Exporter!ExportersConserved

(* Once stop has every connection, none is in the pool or with a caller.   *)
LEMMA AllCollected ==
  ASSUME PoolInv, collected = Exporters
  PROVE  pool = {} /\ \A w \in Workers : holding[w] = {} /\ pushPc[w] # "exporting"
<1>1. pool = {} /\ \A w \in Workers : holding[w] = {}
  BY DEF PoolInv, ExportersConserved, Exporter!ExportersConserved, Exporter!PoolTypeOK
<1> QED  BY <1>1 DEF PoolInv

LEMMA PoolStepInv ==
  ASSUME PoolInv, [Exporter!PoolNext]_exporterVars
  PROVE  PoolInv'
<1> USE DEF PoolInv, ExportersConserved, Exporter!ExportersConserved, Exporter!PoolTypeOK
<1>1. ASSUME NEW w \in Workers, Exporter!PushCall(w) \/ Exporter!PushFindsClosed(w)
      PROVE  PoolInv'
  <2>1. UNCHANGED <<pool, poolClosed, holding, collected, stoppedExp, stopExpPc>>
        /\ pushPc[w] # "exporting"
        /\ \E pc \in {"waiting", "out"} : pushPc' = [pushPc EXCEPT ![w] = pc]
    BY <1>1 DEF Exporter!PushCall, Exporter!PushFindsClosed
  <2> QED  BY <2>1
<1>2. ASSUME NEW w \in Workers, Exporter!PushTakes(w) PROVE PoolInv'
  <2>1. PICK e \in pool : /\ holding' = [holding EXCEPT ![w] = {e}]
                          /\ pool' = pool \ {e}
    BY <1>2 DEF Exporter!PushTakes
  <2>2. /\ pushPc[w] = "waiting" /\ pushPc' = [pushPc EXCEPT ![w] = "exporting"]
        /\ UNCHANGED <<poolClosed, collected, stoppedExp, stopExpPc>>
    BY <1>2 DEF Exporter!PushTakes
  <2>3. ~poolClosed
    BY <2>1, AllCollected
  <2>4. holding[w] = {} /\ e \in Exporters
    BY <2>1, <2>2
  <2> QED  BY <2>1, <2>2, <2>3, <2>4
<1>3. ASSUME NEW w \in Workers, Exporter!PushReturns(w) PROVE PoolInv'
  <2>1. pushPc[w] = "exporting" /\ ~poolClosed
    BY <1>3 DEF Exporter!PushReturns
  <2>2. /\ pool' = pool \cup holding[w]
        /\ holding' = [holding EXCEPT ![w] = {}]
        /\ pushPc' = [pushPc EXCEPT ![w] = "out"]
        /\ UNCHANGED <<poolClosed, collected, stoppedExp, stopExpPc>>
    BY <1>3, <2>1 DEF Exporter!PushReturns
  <2>3. holding[w] \subseteq Exporters
    OBVIOUS
  <2> QED  BY <2>1, <2>2, <2>3
<1>4. CASE Exporter!StopExporters
  BY <1>4 DEF Exporter!StopExporters
<1>5. CASE Exporter!CollectExporter
  <2>1. PICK e \in pool : pool' = pool \ {e} /\ collected' = collected \cup {e}
    BY <1>5 DEF Exporter!CollectExporter
  <2>2. /\ stopExpPc = "collect"
        /\ stopExpPc' \in {"wait", "collect"}
        /\ UNCHANGED <<poolClosed, pushPc, holding, stoppedExp>>
    BY <1>5 DEF Exporter!CollectExporter
  <2>5. stopExpPc' = "wait" => Cardinality(collected') = Cardinality(Exporters)
    <3>1. stopExpPc' = IF Cardinality(collected') = Cardinality(Exporters) THEN "wait" ELSE "collect"
      BY <1>5 DEF Exporter!CollectExporter, Exporter!Cardinality, Cardinality
    <3> QED  BY <3>1
  <2>3. collected' \subseteq Exporters
    BY <2>1
  <2>4. stopExpPc' = "wait" => collected' = Exporters
    BY <2>3, <2>5, FS_Subset, ExportersAssumption
  <2> QED  BY <2>1, <2>2, <2>3, <2>4
<1>6. ASSUME NEW e \in Exporters, Exporter!ExporterStops(e) PROVE PoolInv'
  BY <1>6 DEF Exporter!ExporterStops
<1>7. CASE Exporter!ClosePool
  <2>1. /\ stopExpPc = "wait" /\ stopExpPc' = "returned" /\ poolClosed' = TRUE
        /\ UNCHANGED <<pool, pushPc, holding, collected, stoppedExp>>
    BY <1>7 DEF Exporter!ClosePool
  <2>2. \A w \in Workers : pushPc[w] # "exporting"
    BY <2>1, AllCollected
  <2> QED  BY <2>1, <2>2
<1>8. CASE UNCHANGED exporterVars
  BY <1>8 DEF exporterVars
<1> QED
  BY <1>1, <1>2, <1>3, <1>4, <1>5, <1>6, <1>7, <1>8 DEF Exporter!PoolNext, Exporter!StopStep

(* No connection is lost, shared, or exported on while it is stopped, and  *)
(* none is put back on the closed channel.                                 *)
THEOREM PoolConserved == Exporter!PoolSpec => [](Exporter!PoolTypeOK /\ ExportersConserved)
<1>1. PoolInv => Exporter!PoolTypeOK /\ ExportersConserved
  BY DEF PoolInv
<1>2. PoolInv /\ [Exporter!PoolNext]_(Exporter!poolVars) => PoolInv'
  BY PoolStepInv DEF exporterVars, Exporter!poolVars
<1> QED  BY <1>1, <1>2, PoolInitInv, PTL DEF Exporter!PoolSpec

-----------------------------------------------------------------------------
(* Both together.                                                          *)

(* Composed, the processor and the exporter still behave as each does      *)
(* alone: a worker's call of the exporter is a send of the processor.      *)
THEOREM ComposedOfBoth == Spec => QueueSpec /\ Exporter!PoolSpec
<1>1. Init => QueueInit /\ Exporter!PoolInit
  BY DEF Init
<1>2. [Next]_vars => [QueueNext]_queueVars /\ [Exporter!PoolNext]_(Exporter!poolVars)
  <2> SUFFICES ASSUME [Next]_vars
               PROVE  /\ QueueNext \/ UNCHANGED queueVars
                      /\ Exporter!PoolNext \/ UNCHANGED Exporter!poolVars
    OBVIOUS
  <2>1. CASE InQueue
    BY <2>1 DEF InQueue, QueueNext, exporterVars, Exporter!poolVars
  <2>2. CASE InPool
    BY <2>2 DEF InPool, Exporter!PoolNext
  <2>3. ASSUME NEW w \in Workers, Push(w)
        PROVE  Exporter!PoolNext /\ UNCHANGED queueVars
    BY <2>3 DEF Push, Exporter!PoolNext
  <2>4. ASSUME NEW w \in Workers, Exported(w) \/ AlreadyStopped(w)
        PROVE  QueueNext /\ Exporter!PoolNext
    BY <2>4 DEF Exported, AlreadyStopped, Exporter!PoolNext, QueueNext
  <2>5. CASE UNCHANGED vars
    BY <2>5 DEF vars, exporterVars, Exporter!poolVars
  <2> QED  BY <2>1, <2>2, <2>3, <2>4, <2>5 DEF Next, Sending
<1> QED  BY <1>1, <1>2, PTL DEF Spec, QueueSpec, Exporter!PoolSpec

(* Types, the account of every batch and the conservation of connections,  *)
(* in the composed system.                                                 *)
THEOREM ComposedSafe == Spec => [](TypeOK /\ EveryBatchAccounted /\ ExportersConserved)
<1>1. (QueueTypeOK /\ EveryBatchAccounted) /\ (Exporter!PoolTypeOK /\ ExportersConserved)
      => TypeOK /\ EveryBatchAccounted /\ ExportersConserved
  BY DEF TypeOK
<1> QED  BY <1>1, ComposedOfBoth, QueueAccounts, PoolConserved, PTL

-----------------------------------------------------------------------------
(* Slices.                                                                 *)

LEMMA SliceElements ==
  ASSUME NEW s, IsSlice(s)
  PROVE  /\ Len(s) \in Nat /\ DOMAIN s = 1..Len(s)
         /\ s = [i \in 1..Len(s) |-> s[i]]
         /\ \A i \in DOMAIN s : s[i] \in Range(s)
<1>1. s \in Seq(Range(s))
  BY DEF IsSlice
<1>2. Len(s) \in Nat /\ DOMAIN s = 1..Len(s) /\ s = [i \in 1..Len(s) |-> s[i]]
  BY <1>1, LenProperties
<1>3. \A i \in DOMAIN s : s[i] \in Range(s)
  BY DEF Range
<1> QED  BY <1>2, <1>3

LEMMA SliceOf ==
  ASSUME NEW n \in Nat, NEW s, s = [i \in 1..n |-> s[i]]
  PROVE  IsSlice(s) /\ Len(s) = n
<1>1. s \in Seq(Range(s))
  BY SeqOfElements
<1>2. DOMAIN s = 1..n /\ DOMAIN s = 1..Len(s) /\ Len(s) \in Nat
  BY <1>1, LenProperties
<1> QED  BY <1>1, <1>2 DEF IsSlice

LEMMA ConcatSlices ==
  ASSUME NEW s, NEW t, IsSlice(s), IsSlice(t)
  PROVE  /\ IsSlice(s \o t)
         /\ Len(s) \in Nat /\ Len(t) \in Nat
         /\ Len(s \o t) = Len(s) + Len(t)
         /\ DOMAIN (s \o t) = 1..(Len(s) + Len(t))
         /\ \A i \in 1..Len(s) : (s \o t)[i] = s[i]
         /\ \A i \in 1..Len(t) : (s \o t)[Len(s) + i] = t[i]
         /\ \A i \in 1..(Len(s) + Len(t)) : i \in 1..Len(s) \/ i - Len(s) \in 1..Len(t)
         /\ Range(s \o t) = Range(s) \cup Range(t)
<1> DEFINE S == Range(s) \cup Range(t)
<1>1. s \in Seq(S) /\ t \in Seq(S)
  BY WiderSeq DEF IsSlice
<1> HIDE DEF S
<1>2. s \o t \in Seq(S) /\ Len(s \o t) = Len(s) + Len(t)
  BY <1>1, ConcatProperties
<1>3. Range(s \o t) = Range(s) \cup Range(t)
  BY <1>1, RangeConcat
<1>4. IsSlice(s \o t)
  BY <1>2, WiderSeq DEF IsSlice
<1> QED  BY <1>1, <1>2, <1>3, <1>4, ConcatElements

LEMMA OneSlice ==
  ASSUME NEW x
  PROVE  IsSlice(<<x>>) /\ Len(<<x>>) = 1 /\ <<x>>[1] = x /\ IsSlice(<<>>) /\ Len(<<>>) = 0
<1>1. <<x>> \in Seq({x}) /\ Len(<<x>>) = 1 /\ <<x>>[1] = x
  OBVIOUS
<1>2. Range(<<x>>) = {x}
  BY <1>1 DEF Range
<1>3. IsSlice(<<>>) /\ Len(<<>>) = 0
  BY EmptyRange DEF IsSlice
<1> QED  BY <1>1, <1>2, <1>3 DEF IsSlice

-----------------------------------------------------------------------------
(* The calls that a call leads to, as far as the exporters.                *)

(* What c leads to next is in X; if it is an exporter's, it has the stages *)
(* of goal.                                                                *)
Follow(c, X, goal) ==
  /\ c.node.kind \in {"fanout", "tail"} => CallEach(c.node.next, c.stages) \in Seq(X)
  /\ c.node.kind = "stage" => Call(c.node.next, Append(c.stages, c.node.name)) \in X
  /\ c.node.kind = "sampler" => Call(c.node.next, Append(c.stages, "sample")) \in X
  /\ c.node.kind = "queue" => Call(c.node.next, c.stages) \in X
  /\ c.node.kind = "sink" => c.stages = goal

Closed(C, goal) == \A c \in C : Follow(c, C, goal)

(* Every exporter's call that c leads to has the stages of goal.           *)
Leads(c, goal) == \E C : Closed(C, goal) /\ c \in C

LEMMA FollowMore ==
  ASSUME NEW c, NEW X, NEW Y, NEW goal, X \subseteq Y, Follow(c, X, goal)
  PROVE  Follow(c, Y, goal)
<1>1. CASE c.node.kind \in {"fanout", "tail"}
  <2> DEFINE s == CallEach(c.node.next, c.stages)
  <2>1. s \in Seq(X)
    BY <1>1 DEF Follow
  <2> HIDE DEF s
  <2>2. Range(s) \subseteq Y
    BY <2>1, LenProperties DEF Range
  <2>3. s \in Seq(Y)
    BY <2>1, <2>2, WiderSeq
  <2> QED  BY <1>1, <2>3 DEF Follow, s
<1>2. CASE c.node.kind \notin {"fanout", "tail"}
  BY <1>2 DEF Follow
<1> QED  BY <1>1, <1>2

LEMMA LeadsOn ==
  ASSUME NEW c, NEW X, NEW goal, \A x \in X : Leads(x, goal), Follow(c, X, goal)
  PROVE  Leads(c, goal)
<1> DEFINE From(x) == CHOOSE C : Closed(C, goal) /\ x \in C
           All == (UNION {From(x) : x \in X}) \cup {c}
<1>1. \A x \in X : Closed(From(x), goal) /\ x \in From(x)
  BY DEF Leads
<1> HIDE DEF From
<1>2. X \subseteq All
  BY <1>1
<1>3. ASSUME NEW d \in All PROVE Follow(d, All, goal)
  <2>1. CASE d = c
    BY <1>2, <2>1, FollowMore
  <2>2. ASSUME NEW x \in X, d \in From(x) PROVE Follow(d, All, goal)
    <3>1. Follow(d, From(x), goal)
      BY <1>1, <2>2 DEF Closed
    <3>2. From(x) \subseteq All
      OBVIOUS
    <3> QED  BY <3>1, <3>2, FollowMore
  <2> QED  BY <2>1, <2>2
<1> QED  BY <1>3 DEF Leads, Closed

LEMMA SinkLeads ==
  ASSUME NEW name, NEW st
  PROVE  Leads(Call(Sink(name), st), st) /\ Leads(Call(NoConsumer, st), st)
<1>1. Follow(Call(Sink(name), st), {}, st) /\ Follow(Call(NoConsumer, st), {}, st)
  BY DEF Follow, Call, Sink, NoConsumer
<1> QED  BY <1>1, LeadsOn

LEMMA QueueLeads ==
  ASSUME NEW name, NEW again, NEW sender, NEW st, NEW goal, Leads(Call(sender, st), goal)
  PROVE  Leads(Call(Queue(name, again, sender), st), goal)
<1>1. Follow(Call(Queue(name, again, sender), st), {Call(sender, st)}, goal)
  BY DEF Follow, Call, Queue
<1> QED  BY <1>1, LeadsOn

LEMMA EachLeads ==
  ASSUME NEW n \in Nat, NEW next, next = [i \in 1..n |-> next[i]], NEW st, NEW goal,
         \A i \in 1..n : Leads(Call(next[i], st), goal)
  PROVE  /\ Leads(Call(NewTraceProcessor(next), st), goal)
         /\ Leads(Call(TailSampler(next), st), goal)
<1> DEFINE X == {Call(next[i], st) : i \in 1..n}
<1>1. CallEach(next, st) \in Seq(X)
  BY DEF CallEach
<1>2. \A x \in X : Leads(x, goal)
  OBVIOUS
<1> HIDE DEF X
<1>3. Follow(Call(NewTraceProcessor(next), st), X, goal) /\ Follow(Call(TailSampler(next), st), X, goal)
  BY <1>1 DEF Follow, Call, NewTraceProcessor, TailSampler
<1> QED  BY <1>2, <1>3, LeadsOn

LEMMA StageLeads ==
  ASSUME NEW name, NEW next, NEW st, NEW goal, Leads(Call(next, Append(st, name)), goal)
  PROVE  Leads(Call(Stage(name, next), st), goal)
<1>1. Follow(Call(Stage(name, next), st), {Call(next, Append(st, name))}, goal)
  BY DEF Follow, Call, Stage
<1> QED  BY <1>1, LeadsOn

LEMMA SamplerLeads ==
  ASSUME NEW next, NEW st, NEW goal, Leads(Call(next, Append(st, "sample")), goal)
  PROVE  Leads(Call(Sampler(next), st), goal)
<1>1. Follow(Call(Sampler(next), st), {Call(next, Append(st, "sample"))}, goal)
  BY DEF Follow, Call, Sampler
<1> QED  BY <1>1, LeadsOn
-----------------------------------------------------------------------------
(* The routes of the first configuration format.                           *)

(* A call with some stages leads to exporters' calls with the same.        *)
Ends(node) == \A st : Leads(Call(node, st), st)

LEMMA EachEnds ==
  ASSUME NEW n \in Nat, NEW next, next = [i \in 1..n |-> next[i]], \A i \in 1..n : Ends(next[i])
  PROVE  Ends(NewTraceProcessor(next)) /\ Ends(TailSampler(next))
  BY EachLeads DEF Ends

SlicesOf(cfg) ==
  /\ IsSlice(cfg.exporters) /\ IsSlice(cfg.queues) /\ IsSlice(cfg.policies)
  /\ \A i \in DOMAIN cfg.queues :
        IsSlice(cfg.queues[i].senders) /\ IsSlice(cfg.queues[i].exporters)
  /\ \A p \in DOMAIN cfg.policies : IsSlice(cfg.policies[p].exporters)

LEMMA QueuedEnds ==
  ASSUME NEW q, IsSlice(q.senders), IsSlice(q.exporters)
  PROVE  Ends(buildQueuedSpanProcessor(q))
<1> DEFINE all == q.senders \o q.exporters
           queues == [i \in DOMAIN all |-> Queue(all[i], q.retry, Sink(all[i]))]
<1>1. IsSlice(all)
  BY ConcatSlices
<1>2. Len(all) \in Nat /\ DOMAIN all = 1..Len(all)
  BY <1>1, SliceElements
<1>3. buildQueuedSpanProcessor(q) = IF all = <<>> THEN NoConsumer ELSE NewTraceProcessor(queues)
  BY DEF buildQueuedSpanProcessor
<1>4. Ends(NoConsumer)
  BY SinkLeads DEF Ends
<1>5. ASSUME NEW i \in 1..Len(all) PROVE Ends(queues[i])
  <2>1. queues[i] = Queue(all[i], q.retry, Sink(all[i]))
    BY <1>2
  <2>2. Ends(Queue(all[i], q.retry, Sink(all[i])))
    BY SinkLeads, QueueLeads DEF Ends
  <2> QED  BY <2>1, <2>2
<1>6. queues = [i \in 1..Len(all) |-> queues[i]]
  BY <1>2
<1> HIDE DEF queues
<1>7. Ends(NewTraceProcessor(queues))
  BY <1>2, <1>5, <1>6, EachEnds
<1> QED  BY <1>3, <1>4, <1>7

(* The consumers of a collector: its exporters, the debug exporter, one    *)
(* for each queue.                                                         *)
AfterExporters(cfg) == IF cfg.exporters = <<>> THEN 0 ELSE 1
AfterDebug(cfg) == AfterExporters(cfg) + (IF cfg.debug THEN 1 ELSE 0)

ExportersNode(cfg) ==
  NewTraceProcessor([i \in DOMAIN cfg.exporters |-> Sink(cfg.exporters[i])])

LEMMA NamedElements ==
  ASSUME NEW cfg, SlicesOf(cfg)
  PROVE  /\ IsSlice(namedConsumers(cfg))
         /\ DOMAIN namedConsumers(cfg) = 1..(AfterDebug(cfg) + Len(cfg.queues))
         /\ AfterExporters(cfg) \in 0..1 /\ AfterDebug(cfg) \in Nat /\ Len(cfg.queues) \in Nat
         /\ AfterDebug(cfg) - AfterExporters(cfg) \in 0..1
         /\ \A i \in DOMAIN namedConsumers(cfg) :
              \/ /\ i = 1 /\ i = AfterExporters(cfg) /\ cfg.exporters # <<>>
                 /\ namedConsumers(cfg)[i] = <<"exporters", ExportersNode(cfg)>>
              \/ /\ i = AfterExporters(cfg) + 1 /\ i = AfterDebug(cfg) /\ cfg.debug
                 /\ namedConsumers(cfg)[i] = <<"debug", Sink("debug")>>
              \/ /\ i - AfterDebug(cfg) \in DOMAIN cfg.queues
                 /\ namedConsumers(cfg)[i] =
                      <<cfg.queues[i - AfterDebug(cfg)].name,
                        buildQueuedSpanProcessor(cfg.queues[i - AfterDebug(cfg)])>>
<1> DEFINE A == IF cfg.exporters = <<>> THEN <<>> ELSE << <<"exporters", ExportersNode(cfg)>> >>
           B == IF cfg.debug THEN << <<"debug", Sink("debug")>> >> ELSE <<>>
           C == [i \in DOMAIN cfg.queues |->
                   <<cfg.queues[i].name, buildQueuedSpanProcessor(cfg.queues[i])>>]
           a == AfterExporters(cfg)
           b == AfterDebug(cfg)
           n == Len(cfg.queues)
<1>1. namedConsumers(cfg) = (A \o B) \o C
  BY DEF namedConsumers, ExportersNode
<1>2. n \in Nat /\ DOMAIN cfg.queues = 1..n
  BY SliceElements DEF SlicesOf
<1>3. /\ IsSlice(A) /\ Len(A) = a /\ a \in 0..1
      /\ cfg.exporters # <<>> => a = 1 /\ A[1] = <<"exporters", ExportersNode(cfg)>>
      /\ cfg.exporters = <<>> => a = 0
  BY OneSlice DEF AfterExporters
<1>4. /\ IsSlice(B) /\ Len(B) = b - a /\ b - a \in 0..1 /\ b \in Nat
      /\ cfg.debug => b = a + 1 /\ B[1] = <<"debug", Sink("debug")>>
      /\ ~cfg.debug => b = a
  BY <1>3, OneSlice DEF AfterDebug
<1>5. IsSlice(C) /\ Len(C) = n
  BY <1>2, SliceOf
<1>6. \A i \in 1..n :
        C[i] = <<cfg.queues[i].name, buildQueuedSpanProcessor(cfg.queues[i])>>
  BY <1>2
<1> HIDE DEF A, B, C, a, b, n
<1>7. /\ IsSlice(A \o B) /\ Len(A \o B) = a + (b - a)
      /\ \A i \in 1..a : (A \o B)[i] = A[i]
      /\ \A i \in 1..(b - a) : (A \o B)[a + i] = B[i]
  BY <1>3, <1>4, ConcatSlices
<1>8. Len(A \o B) = b
  BY <1>3, <1>4, <1>7
<1>9. /\ IsSlice((A \o B) \o C) /\ DOMAIN ((A \o B) \o C) = 1..(b + n)
      /\ \A i \in 1..b : ((A \o B) \o C)[i] = (A \o B)[i]
      /\ \A i \in 1..n : ((A \o B) \o C)[b + i] = C[i]
  BY <1>5, <1>7, <1>8, ConcatSlices
<1>10. ASSUME NEW i \in 1..(b + n)
       PROVE  \/ /\ i = 1 /\ i = a /\ cfg.exporters # <<>>
                 /\ namedConsumers(cfg)[i] = <<"exporters", ExportersNode(cfg)>>
              \/ /\ i = a + 1 /\ i = b /\ cfg.debug
                 /\ namedConsumers(cfg)[i] = <<"debug", Sink("debug")>>
              \/ /\ i - b \in DOMAIN cfg.queues
                 /\ namedConsumers(cfg)[i] =
                      <<cfg.queues[i - b].name, buildQueuedSpanProcessor(cfg.queues[i - b])>>
  <2>1. i \in 1..a \/ i - a \in 1..(b - a) \/ i - b \in 1..n
    BY <1>2, <1>3, <1>4
  <2>2. CASE i \in 1..a
    <3>1. i \in 1..b /\ i = 1 /\ a = 1 /\ cfg.exporters # <<>>
      BY <2>2, <1>3, <1>4
    <3> QED  BY <2>2, <3>1, <1>1, <1>3, <1>7, <1>9
  <2>3. CASE i - a \in 1..(b - a)
    <3>1. i \in 1..b /\ i - a = 1 /\ i = a + 1 /\ b = a + 1 /\ cfg.debug
      BY <2>3, <1>3, <1>4
    <3>2. (A \o B)[a + 1] = B[1]
      BY <2>3, <3>1, <1>7
    <3> QED  BY <3>1, <3>2, <1>1, <1>4, <1>9
  <2>4. CASE i - b \in 1..n
    <3>1. i = b + (i - b)
      BY <1>4
    <3>2. ((A \o B) \o C)[i] = C[i - b]
      BY <2>4, <3>1, <1>9
    <3> QED  BY <2>4, <3>2, <1>1, <1>2, <1>6
  <2> QED  BY <2>1, <2>2, <2>3, <2>4
<1> QED  BY <1>1, <1>2, <1>3, <1>4, <1>9, <1>10 DEF a, b, n

LEMMA NamedEnds ==
  ASSUME NEW cfg, SlicesOf(cfg), NEW i \in DOMAIN namedConsumers(cfg)
  PROVE  Ends(namedConsumers(cfg)[i][2])
<1> DEFINE c == namedConsumers(cfg)[i][2]
<1>1. Ends(ExportersNode(cfg))
  <2> DEFINE next == [j \in DOMAIN cfg.exporters |-> Sink(cfg.exporters[j])]
  <2>1. Len(cfg.exporters) \in Nat /\ next = [j \in 1..Len(cfg.exporters) |-> next[j]]
    BY SliceElements DEF SlicesOf
  <2>2. \A j \in 1..Len(cfg.exporters) : Ends(next[j])
    <3>1. \A j \in 1..Len(cfg.exporters) : next[j] = Sink(cfg.exporters[j])
      BY SliceElements DEF SlicesOf
    <3> QED  BY <3>1, SinkLeads DEF Ends
  <2>3. ExportersNode(cfg) = NewTraceProcessor(next)
    BY DEF ExportersNode
  <2> HIDE DEF next
  <2> QED  BY <2>1, <2>2, <2>3, EachEnds
<1>2. Ends(Sink("debug"))
  BY SinkLeads DEF Ends
<1>3. \A j \in DOMAIN cfg.queues : Ends(buildQueuedSpanProcessor(cfg.queues[j]))
  BY QueuedEnds DEF SlicesOf
<1>4. \/ c = ExportersNode(cfg)
      \/ c = Sink("debug")
      \/ \E j \in DOMAIN cfg.queues : c = buildQueuedSpanProcessor(cfg.queues[j])
  BY NamedElements
<1> QED  BY <1>1, <1>2, <1>3, <1>4

(* What the map gives for a name: nothing, or one of them.                 *)
LEMMA NameFound ==
  ASSUME NEW cfg, SlicesOf(cfg), NEW name
  PROVE  \/ nameToTraceConsumer(cfg, name) = NoConsumer
         \/ \E i \in DOMAIN namedConsumers(cfg) :
              /\ namedConsumers(cfg)[i][1] = name
              /\ nameToTraceConsumer(cfg, name) = namedConsumers(cfg)[i][2]
<1> DEFINE named == {i \in DOMAIN namedConsumers(cfg) : namedConsumers(cfg)[i][1] = name}
           Last1(i) == \A j \in named : j <= i
<1>1. CASE named = {}
  BY <1>1 DEF nameToTraceConsumer
<1>2. CASE named # {}
  <2>1. \E i \in named : Last1(i)
    <3> DEFINE n == AfterDebug(cfg) + Len(cfg.queues)
               T == {k \in Nat : \E i \in named : k = n - i}
    <3>1. n \in Nat /\ \A i \in named : i \in 1..n
      BY NamedElements
    <3> HIDE DEF n, named
    <3>2. T \subseteq Nat /\ T # {}
      BY <1>2, <3>1
    <3>3. PICK k \in T : \A l \in T : k <= l
      BY <3>2, LeastOf
    <3>4. PICK i \in named : k = n - i
      BY <3>3
    <3>5. ASSUME NEW j \in named PROVE j <= i
      <4>1. n - j \in T
        BY <3>1
      <4> QED  BY <3>1, <3>3, <3>4, <4>1
    <3> QED  BY <3>5
  <2> DEFINE i == CHOOSE i \in named : Last1(i)
  <2>2. i \in named
    BY <2>1
  <2>3. nameToTraceConsumer(cfg, name) = traceConsumers(cfg)[i]
    BY <1>2 DEF nameToTraceConsumer
  <2> HIDE DEF i
  <2>4. traceConsumers(cfg)[i] = namedConsumers(cfg)[i][2]
    BY <2>2 DEF traceConsumers
  <2> QED  BY <2>2, <2>3, <2>4
<1> QED  BY <1>1, <1>2

LEMMA DestinationEnds ==
  ASSUME NEW cfg, SlicesOf(cfg), NEW policy, IsSlice(policy.exporters)
  PROVE  Ends(Destination(cfg, policy))
<1> DEFINE n == Len(policy.exporters)
           next == [i \in DOMAIN policy.exporters |-> nameToTraceConsumer(cfg, policy.exporters[i])]
<1>1. n \in Nat /\ DOMAIN policy.exporters = 1..n
  BY SliceElements
<1>2. next = [i \in 1..n |-> next[i]]
  BY <1>1
<1>3. ASSUME NEW i \in 1..n PROVE Ends(next[i])
  <2>1. next[i] = nameToTraceConsumer(cfg, policy.exporters[i])
    BY <1>1
  <2> HIDE DEF next
  <2>2. Ends(NoConsumer)
    BY SinkLeads DEF Ends
  <2> QED  BY <2>1, <2>2, NameFound, NamedEnds
<1>4. Destination(cfg, policy) = IF Len(next) = 1 THEN next[1] ELSE NewTraceProcessor(next)
  BY DEF Destination
<1> HIDE DEF next, n
<1>5. Len(next) = n
  BY <1>1, <1>2, SliceOf
<1>6. Ends(NewTraceProcessor(next))
  BY <1>1, <1>2, <1>3, EachEnds
<1>7. n = 1 => Ends(next[1])
  BY <1>3
<1> QED  BY <1>4, <1>5, <1>6, <1>7

(* Both wrappers, or one, or none, and the head sampler before them.       *)
LEMMA WrappedLeads ==
  ASSUME NEW cfg, NEW tp, Ends(tp)
  PROVE  /\ cfg.mode # "head" =>
              Leads(Call(withGlobalAttributes(cfg, tp), <<>>), AskedStages(cfg))
         /\ cfg.mode = "head" =>
              Leads(Call(Sampler(withGlobalAttributes(cfg, tp)), <<>>), AskedStages(cfg))
<1> DEFINE first == IF cfg.mode = "head" THEN <<"sample">> ELSE <<>>
           keyed == IF "attribute-key" \in cfg.global THEN Append(first, "attribute-key") ELSE first
           all == IF "add-attributes" \in cfg.global THEN Append(keyed, "add-attributes") ELSE keyed
           added == IF "add-attributes" \in cfg.global THEN Stage("add-attributes", tp) ELSE tp
           tp2 == IF "attribute-key" \in cfg.global THEN Stage("attribute-key", added) ELSE added
<1>1. AskedStages(cfg) = all /\ withGlobalAttributes(cfg, tp) = tp2
  BY DEF AskedStages, withGlobalAttributes
<1>2. Leads(Call(added, keyed), all)
  <2>1. Leads(Call(tp, all), all)
    BY DEF Ends
  <2> HIDE DEF keyed
  <2> QED  BY <2>1, StageLeads
<1>3. Leads(Call(tp2, first), all)
  <2> HIDE DEF added, all, first
  <2> QED  BY <1>2, StageLeads
<1> HIDE DEF all, tp2
<1>4. CASE cfg.mode # "head"
  BY <1>1, <1>3, <1>4
<1>5. CASE cfg.mode = "head"
  <2>1. first = Append(<<>>, "sample")
    BY <1>5
  <2> HIDE DEF first
  <2> QED  BY <1>1, <1>3, <1>5, <2>1, SamplerLeads
<1> QED  BY <1>4, <1>5

LEMMA StartLeads ==
  ASSUME NEW cfg, SlicesOf(cfg), startProcessor(cfg) # NoConsumer
  PROVE  Leads(Call(startProcessor(cfg), <<>>), AskedStages(cfg))
<1> DEFINE consumers == traceConsumers(cfg)
           tail == IF cfg.mode = "tail" THEN buildSamplingProcessor(cfg)
                   ELSE TailSampler(<<NewTraceProcessor(consumers)>>)
           useTail == cfg.mode = "tail" \/ (cfg.mode # "head" /\ cfg.debugTail)
           tps == IF useTail THEN <<tail>> ELSE consumers
           tp == withGlobalAttributes(cfg, NewTraceProcessor(tps))
<1>1. startProcessor(cfg) = IF cfg.mode = "head" THEN Sampler(tp) ELSE tp
  BY DEF startProcessor
<1>2. \E n \in Nat : consumers = [i \in 1..n |-> consumers[i]] /\ \A i \in 1..n : Ends(consumers[i])
  <2> DEFINE n == AfterDebug(cfg) + Len(cfg.queues)
  <2>1. n \in Nat /\ DOMAIN namedConsumers(cfg) = 1..n
    BY NamedElements
  <2> HIDE DEF n
  <2>2. \A i \in 1..n : consumers[i] = namedConsumers(cfg)[i][2]
    BY <2>1 DEF traceConsumers
  <2>3. consumers = [i \in 1..n |-> consumers[i]]
    BY <2>1 DEF traceConsumers
  <2> QED  BY <2>1, <2>2, <2>3, NamedEnds
<1> HIDE DEF consumers
<1>3. Ends(NewTraceProcessor(consumers))
  BY <1>2, EachEnds
<1>4. ASSUME NEW x, Ends(x) PROVE Ends(NewTraceProcessor(<<x>>)) /\ Ends(TailSampler(<<x>>))
  <2>1. 1 \in Nat /\ <<x>> = [i \in 1..1 |-> <<x>>[i]] /\ \A i \in 1..1 : Ends(<<x>>[i])
    BY <1>4
  <2> QED  BY <2>1, EachEnds
<1>5. Ends(tail)
  <2>1. CASE cfg.mode = "tail"
    <3> DEFINE n == Len(cfg.policies)
               next == [p \in DOMAIN cfg.policies |-> Destination(cfg, cfg.policies[p])]
    <3>1. buildSamplingProcessor(cfg) \in {TailSampler(next), NoConsumer}
      BY DEF buildSamplingProcessor
    <3>2. n \in Nat /\ DOMAIN cfg.policies = 1..n
      BY SliceElements DEF SlicesOf
    <3>3. next = [p \in 1..n |-> next[p]] /\ \A p \in 1..n : next[p] = Destination(cfg, cfg.policies[p])
      BY <3>2
    <3> HIDE DEF next, n
    <3>4. \A p \in 1..n : Ends(next[p])
      BY <3>2, <3>3, DestinationEnds DEF SlicesOf
    <3>5. Ends(TailSampler(next)) /\ Ends(NoConsumer)
      BY <3>2, <3>3, <3>4, EachEnds, SinkLeads DEF Ends
    <3> QED  BY <2>1, <3>1, <3>5
  <2>2. CASE cfg.mode # "tail"
    BY <2>2, <1>3, <1>4
  <2> QED  BY <2>1, <2>2
<1> HIDE DEF tail, useTail
<1>6. Ends(NewTraceProcessor(tps))
  BY <1>3, <1>4, <1>5
<1> HIDE DEF tps
<1> QED  BY <1>1, <1>6, WrappedLeads

-----------------------------------------------------------------------------
(* The routes of the second format.                                        *)

(* The loop of buildPipeline, over the processors from the last one.       *)
Wrapped(next, names, n) ==
  IF next = NoConsumer THEN NoConsumer ELSE Stage(names[Len(names) + 1 - n], next)
Building(first, names, K, g) ==
  g = [n \in 0..K |-> IF n = 0 THEN first ELSE Wrapped(g[n - 1], names, n)]

LEMMA BuildingExists ==
  ASSUME NEW first, NEW names
  PROVE  \A K \in Nat : \E g : Building(first, names, K, g)
<1> DEFINE T == {K \in Nat : \E g : Building(first, names, K, g)}
<1>1. 0 \in T
  <2> DEFINE g == [n \in 0..0 |-> first]
  <2>1. Building(first, names, 0, g)
    <3>1. \A n \in 0..0 : n = 0
      OBVIOUS
    <3> QED  BY <3>1 DEF Building
  <2> QED  BY <2>1
<1>2. ASSUME NEW K \in Nat, K \in T PROVE K + 1 \in T
  <2>1. PICK g : Building(first, names, K, g)
    BY <1>2
  <2> DEFINE h == [n \in 0..(K + 1) |-> IF n = 0 THEN first ELSE Wrapped(g[n - 1], names, n)]
  <2>2. \A n \in 0..K : h[n] = g[n]
    <3>1. \A n \in 0..K : n \in 0..(K + 1)
      OBVIOUS
    <3>2. \A n \in 0..K : g[n] = IF n = 0 THEN first ELSE Wrapped(g[n - 1], names, n)
      BY <2>1 DEF Building
    <3> QED  BY <3>1, <3>2
  <2>3. \A n \in 0..(K + 1) : n # 0 => n - 1 \in 0..K
    OBVIOUS
  <2>4. \A n \in 0..(K + 1) : h[n] = IF n = 0 THEN first ELSE Wrapped(h[n - 1], names, n)
    BY <2>2, <2>3
  <2>5. h = [n \in 0..(K + 1) |-> h[n]]
    OBVIOUS
  <2> HIDE DEF h
  <2>6. Building(first, names, K + 1, h)
    BY <2>4, <2>5 DEF Building
  <2> QED  BY <2>6
<1> HIDE DEF T
<1>3. \A K \in Nat : K \in T
  BY <1>1, <1>2, SetInduction
<1> QED  BY <1>3 DEF T

(* Each of the consumers it builds.                                        *)
LEMMA BuildingSteps ==
  ASSUME NEW cfg, NEW key, IsSlice(cfg.pipelines[key].processors)
  PROVE  \E g : /\ g[0] = buildFanoutExportersConsumer(cfg, key)
                /\ \A n \in 1..Len(cfg.pipelines[key].processors) :
                      g[n] = Wrapped(g[n - 1], cfg.pipelines[key].processors, n)
                /\ buildPipeline(cfg, key) = g[Len(cfg.pipelines[key].processors)]
<1> DEFINE first == buildFanoutExportersConsumer(cfg, key)
           names == cfg.pipelines[key].processors
           g == CHOOSE g : Building(first, names, Len(names), g)
<1>1. Len(names) \in Nat
  BY SliceElements
<1>2. buildPipeline(cfg, key) = g[Len(names)]
  BY DEF buildPipeline, Building, Wrapped
<1>3. \E f : Building(first, names, Len(names), f)
  BY <1>1, BuildingExists
<1>4. Building(first, names, Len(names), g)
  BY <1>3
<1> HIDE DEF g, first, names
<1>5. \A n \in 0..Len(names) : g[n] = IF n = 0 THEN first ELSE Wrapped(g[n - 1], names, n)
  BY <1>4 DEF Building
<1>6. g[0] = first /\ \A n \in 1..Len(names) : g[n] = Wrapped(g[n - 1], names, n)
  BY <1>1, <1>5
<1> QED  BY <1>2, <1>6 DEF first, names

LEMMA FanoutEnds ==
  ASSUME NEW cfg, NEW key, IsSlice(cfg.pipelines[key].exporters)
  PROVE  Ends(buildFanoutExportersConsumer(cfg, key))
<1> DEFINE names == cfg.pipelines[key].exporters
           Built(name) == IF key.type = "traces" THEN buildExporter(cfg, name).tc
                                                 ELSE buildExporter(cfg, name).mc
           next == [i \in DOMAIN names |-> Built(names[i])]
<1>1. Len(names) \in Nat /\ DOMAIN names = 1..Len(names)
  BY SliceElements
<1>2. ASSUME NEW name PROVE Ends(Built(name))
  <2>1. Built(name) \in {Sink(name), NoConsumer}
    BY DEF buildExporter
  <2> QED  BY <2>1, SinkLeads DEF Ends
<1>3. buildFanoutExportersConsumer(cfg, key) =
        IF Len(names) = 1 THEN Built(names[1]) ELSE NewTraceProcessor(next)
  BY DEF buildFanoutExportersConsumer
<1>4. next = [i \in 1..Len(names) |-> next[i]] /\ \A i \in 1..Len(names) : next[i] = Built(names[i])
  BY <1>1
<1> HIDE DEF next, Built
<1>5. Ends(NewTraceProcessor(next))
  BY <1>1, <1>2, <1>4, EachEnds
<1> QED  BY <1>2, <1>3, <1>5

LEMMA PipelineLeads ==
  ASSUME NEW cfg, NEW key, buildPipeline(cfg, key) # NoConsumer,
         IsSlice(cfg.pipelines[key].exporters), IsSlice(cfg.pipelines[key].processors)
  PROVE  Leads(Call(buildPipeline(cfg, key), <<>>), cfg.pipelines[key].processors)
<1> DEFINE names == cfg.pipelines[key].processors
           L == Len(names)
           First(k) == [i \in 1..k |-> names[i]]
<1>1. L \in Nat /\ DOMAIN names = 1..L /\ names = First(L)
  BY SliceElements
<1>2. PICK g : /\ g[0] = buildFanoutExportersConsumer(cfg, key)
               /\ \A n \in 1..L : g[n] = Wrapped(g[n - 1], names, n)
               /\ buildPipeline(cfg, key) = g[L]
  BY BuildingSteps
<1>3. First(0) = <<>>
  OBVIOUS
<1>4. ASSUME NEW k \in 0..(L - 1) PROVE Append(First(k), names[k + 1]) = First(k + 1)
  <2> DEFINE e == names[k + 1]
  <2>1. k \in Nat /\ k + 1 \in Nat /\ \A i \in 1..(k + 1) : i \in 1..L
    BY <1>1
  <2>2. IsSlice(First(k)) /\ Len(First(k)) = k
    BY <2>1, SliceOf
  <2>3. First(k) \in Seq(Range(names)) /\ First(k + 1) \in Seq(Range(names)) /\ e \in Range(names)
    <3>1. \A i \in 1..(k + 1) : names[i] \in Range(names)
      BY <1>1, <2>1 DEF Range
    <3> QED  BY <2>1, <3>1
  <2>4. /\ DOMAIN Append(First(k), e) = 1..(k + 1)
        /\ \A i \in 1..k : Append(First(k), e)[i] = First(k)[i]
        /\ Append(First(k), e)[k + 1] = e
        /\ Append(First(k), e) \in Seq(Range(names))
    BY <2>1, <2>2, <2>3, AppendProperties, LenProperties
  <2>5. \A i \in 1..(k + 1) : Append(First(k), e)[i] = names[i]
    <3>1. \A i \in 1..(k + 1) : i \in 1..k \/ i = k + 1
      BY <2>1
    <3>2. \A i \in 1..k : First(k)[i] = names[i]
      OBVIOUS
    <3> QED  BY <2>4, <3>1, <3>2
  <2>6. Append(First(k), e) = [i \in 1..(k + 1) |-> Append(First(k), e)[i]]
    BY <2>4, LenProperties
  <2> QED  BY <2>5, <2>6
<1> HIDE DEF First
<1> DEFINE T == {n \in Nat : n <= L /\ g[n] # NoConsumer => Leads(Call(g[n], First(L - n)), names)}
<1>5. 0 \in T
  <2>1. Leads(Call(g[0], names), names)
    BY <1>2, FanoutEnds DEF Ends
  <2>2. L - 0 = L
    BY <1>1
  <2> QED  BY <1>1, <2>1, <2>2
<1>6. ASSUME NEW n \in Nat, n \in T PROVE n + 1 \in T
  <2> SUFFICES ASSUME n + 1 <= L, g[n + 1] # NoConsumer
               PROVE  Leads(Call(g[n + 1], First(L - (n + 1))), names)
    OBVIOUS
  <2> DEFINE k == L - (n + 1)
  <2>1. /\ n + 1 \in 1..L /\ (n + 1) - 1 = n /\ n <= L /\ k \in 0..(L - 1)
        /\ k + 1 = L - n /\ L + 1 - (n + 1) = k + 1
    <3>1. \A l \in Nat : n + 1 <= l =>
            /\ n + 1 \in 1..l /\ (n + 1) - 1 = n /\ n <= l /\ l - (n + 1) \in 0..(l - 1)
            /\ (l - (n + 1)) + 1 = l - n /\ l + 1 - (n + 1) = (l - (n + 1)) + 1
      OBVIOUS
    <3> HIDE DEF L
    <3> QED  BY <1>1, <3>1
  <2>2. g[n + 1] = Wrapped(g[n], names, n + 1)
    BY <1>2, <2>1
  <2>3. g[n] # NoConsumer /\ g[n + 1] = Stage(names[k + 1], g[n])
    BY <2>1, <2>2 DEF Wrapped
  <2>4. Leads(Call(g[n], First(k + 1)), names)
    BY <1>6, <2>1, <2>3
  <2> HIDE DEF k
  <2>5. Leads(Call(g[n], Append(First(k), names[k + 1])), names)
    BY <1>4, <2>1, <2>4
  <2> QED  BY <2>3, <2>5, StageLeads DEF k
<1> HIDE DEF T
<1>7. L \in T
  BY <1>1, <1>5, <1>6, SetInduction
<1>8. L <= L /\ L - L = 0
  BY <1>1
<1> QED  BY <1>2, <1>3, <1>7, <1>8 DEF T

-----------------------------------------------------------------------------
(* Every route the collector can start with.                               *)
LEMMA RouteLeads ==
  RouteInit /\ route # NoConsumer => Leads(Call(route, <<>>), asked.stages)
<1> SUFFICES ASSUME RouteInit, route # NoConsumer
             PROVE  Leads(Call(route, <<>>), asked.stages)
  OBVIOUS
<1>1. ASSUME NEW cfg \in Configs, route = startProcessor(cfg), asked.stages = AskedStages(cfg)
      PROVE  Leads(Call(route, <<>>), asked.stages)
  <2>1. SlicesOf(cfg)
    BY ConfigsAssumption DEF SlicesOf
  <2> QED  BY <1>1, <2>1, StartLeads
<1>2. ASSUME NEW cfg \in UnifiedConfigs, NEW key \in DOMAIN cfg.pipelines,
             route = buildPipeline(cfg, key), asked.stages = cfg.pipelines[key].processors
      PROVE  Leads(Call(route, <<>>), asked.stages)
  <2>1. Leads(Call(buildPipeline(cfg, key), <<>>), cfg.pipelines[key].processors)
    BY <1>2, UnifiedConfigsAssumption, PipelineLeads
  <2> QED  BY <1>2, <2>1
<1> QED  BY <1>1, <1>2 DEF RouteInit

-----------------------------------------------------------------------------
(* The goroutines.                                                         *)

(* A goroutine's calls are among those of C.                               *)
Goroutine(C) ==
  [by : {"receiver", "worker", "tail"}, item : C \cup {NoCall}, todo : Seq(C),
   tries : Nat, failed : BOOLEAN]

Works(t, C) ==
  /\ t \in Goroutine(C)
  /\ t.by = "worker" => t.item \in C /\ t.item.node.kind = "queue"

(* What an exporter keeps of a call.                                       *)
Record(stages) == [ok : BOOLEAN, stages : {stages}]

StagesInv(C) ==
  /\ Closed(C, asked.stages)
  /\ route # NoConsumer => Call(route, <<>>) \in C
  /\ \A t \in tasks : Works(t, C)
  /\ \A s \in DOMAIN got : got[s] \in Seq(Record(asked.stages))

(* What the head of a goroutine's calls leads to, and what is left.        *)
LEMMA HeadFollows ==
  ASSUME NEW C, NEW goal, Closed(C, goal), NEW t, Works(t, C), t.todo # <<>>
  PROVE  /\ Head(t.todo) \in C /\ Tail(t.todo) \in Seq(C)
         /\ Follow(Head(t.todo), C, goal)
<1>1. t.todo \in Seq(C)
  BY DEF Works, Goroutine
<1>2. Head(t.todo) \in C /\ Tail(t.todo) \in Seq(C)
  BY <1>1, HeadTailProperties
<1> QED  BY <1>2 DEF Closed

LEMMA OneCall ==
  ASSUME NEW C, NEW c \in C, NEW todo \in Seq(C)
  PROVE  <<c>> \in Seq(C) /\ <<c>> \o todo \in Seq(C)
<1>1. <<c>> \in Seq(C)
  OBVIOUS
<1> QED  BY <1>1, ConcatProperties

LEMMA GoesOn ==
  ASSUME NEW C, \A u \in tasks : Works(u, C), NEW t \in tasks, NEW todo \in Seq(C),
         NEW started, \A u \in started : Works(u, C),
         GoOn(t, todo, FALSE, started) \/ GoOn(t, todo, TRUE, started)
  PROVE  (\A u \in tasks : Works(u, C))'
<1>0. PICK failed \in BOOLEAN : GoOn(t, todo, failed, started)
  OBVIOUS
<1> DEFINE next == [t EXCEPT !.todo = todo, !.failed = @ \/ failed]
<1>1. /\ next \in Goroutine(C) /\ next.by = t.by /\ next.item = t.item
  BY DEF Works, Goroutine
<1>2. Works(next, C)
  BY <1>1 DEF Works
<1>3. tasks' = (tasks \ {t}) \cup started \cup {next}
  BY <1>0 DEF GoOn
<1> HIDE DEF next
<1> QED  BY <1>2, <1>3

LEMMA GoesOnAlone ==
  ASSUME NEW C, \A u \in tasks : Works(u, C), NEW t \in tasks, NEW todo \in Seq(C),
         GoOn(t, todo, FALSE, {}) \/ GoOn(t, todo, TRUE, {})
  PROVE  (\A u \in tasks : Works(u, C))'
<1>1. PICK none : none = {}
  OBVIOUS
<1>2. GoOn(t, todo, FALSE, none) \/ GoOn(t, todo, TRUE, none)
  BY <1>1
<1>3. \A u \in none : Works(u, C)
  BY <1>1
<1> QED  BY <1>2, <1>3, GoesOn

LEMMA StartsTask ==
  ASSUME NEW C, NEW todo \in Seq(C), NEW tries \in Nat
  PROVE  /\ Works(Task("receiver", NoCall, todo, tries), C)
         /\ Works(Task("tail", NoCall, todo, tries), C)
         /\ \A item \in C : item.node.kind = "queue" =>
              Works(Task("worker", item, todo, tries), C)
<1>1. \A by \in {"receiver", "worker", "tail"}, item \in C \cup {NoCall} :
        /\ Task(by, item, todo, tries) \in Goroutine(C)
        /\ Task(by, item, todo, tries).by = by /\ Task(by, item, todo, tries).item = item
  BY DEF Task, Goroutine
<1> QED  BY <1>1 DEF Works

LEMMA Attempted ==
  ASSUME NEW C, NEW goal, Closed(C, goal), NEW item \in C, item.node.kind = "queue"
  PROVE  Attempt(item) \in Seq(C)
<1>1. Call(item.node.next, item.stages) \in C
  BY DEF Closed, Follow
<1> QED  BY <1>1, OneCall DEF Attempt

LEMMA StagesInit == RouteInit => \E C : StagesInv(C)
<1> SUFFICES ASSUME RouteInit PROVE \E C : StagesInv(C)
  OBVIOUS
<1>1. tasks = {} /\ DOMAIN got = {}
  BY DEF RouteInit
<1>2. CASE route = NoConsumer
  BY <1>1, <1>2 DEF StagesInv, Closed
<1>3. CASE route # NoConsumer
  <2>1. PICK C : Closed(C, asked.stages) /\ Call(route, <<>>) \in C
    BY <1>3, RouteLeads DEF Leads
  <2> QED  BY <1>1, <2>1 DEF StagesInv
<1> QED  BY <1>2, <1>3

LEMMA StagesStep ==
  ASSUME NEW C, StagesInv(C), RouteNext
  PROVE  StagesInv(C)'
<1> DEFINE TasksOK == \A t \in tasks : Works(t, C)
           GotOK == \A s \in DOMAIN got : got[s] \in Seq(Record(asked.stages))
<1>1. Closed(C, asked.stages) /\ TasksOK /\ GotOK
  BY DEF StagesInv
<1>2. route' = route /\ asked' = asked
  BY DEF RouteNext, TaskStep, Receive, CallFanout, CallStage, CallSampler, CallSink,
         CallQueue, CallTailSampler, Decide, Answer, TailSamplerEnds, WorkerEnds
<1> SUFFICES TasksOK' /\ GotOK'
  BY <1>2 DEF StagesInv
<1>3. got' = got => GotOK'
  BY <1>1, <1>2
<1>4. CASE Receive
  <2>1. Call(route, <<>>) \in C
    BY <1>4 DEF StagesInv, Receive
  <2>2. PICK c \in C : c = Call(route, <<>>)
    BY <2>1
  <2>3. Works(Task("receiver", NoCall, <<c>>, 1), C)
    <3>1. <<c>> \in Seq(C) /\ 1 \in Nat
      BY OneCall
    <3> QED  BY <3>1, StartsTask
  <2> QED  BY <1>3, <1>4, <2>2, <2>3 DEF Receive
<1>5. ASSUME NEW t \in tasks, TaskStep(t) PROVE TasksOK' /\ GotOK'
  <2> DEFINE c == Head(t.todo)
  <2>1. Works(t, C)
    BY <1>1
  <2>2. t.todo # <<>> => c \in C /\ Tail(t.todo) \in Seq(C) /\ Follow(c, C, asked.stages)
    BY <1>1, <2>1, HeadFollows
  <2>3. ASSUME NEW k, Calling(t, k)
        PROVE  /\ t.todo # <<>> /\ c.node = Target(t) /\ c.node.kind = k /\ c \in C
               /\ Tail(t.todo) \in Seq(C) /\ Follow(c, C, asked.stages)
    BY <2>2, <2>3 DEF Calling, Target
  <2>4. ASSUME NEW todo \in Seq(C), GoOn(t, todo, FALSE, {}), got' = got
        PROVE  TasksOK' /\ GotOK'
    BY <1>1, <1>3, <2>4, GoesOnAlone
  <2> HIDE DEF c, TasksOK, GotOK
  <2>5. CASE CallFanout(t)
    <3>1. CallEach(c.node.next, c.stages) \in Seq(C) /\ Tail(t.todo) \in Seq(C)
      BY <2>3, <2>5 DEF CallFanout, Follow
    <3>2. CallEach(c.node.next, c.stages) \o Tail(t.todo) \in Seq(C)
      BY <3>1, ConcatProperties
    <3>3. GoOn(t, CallEach(c.node.next, c.stages) \o Tail(t.todo), FALSE, {}) /\ got' = got
      BY <2>5 DEF CallFanout, Target, c
    <3> QED  BY <2>4, <3>2, <3>3
  <2>6. CASE CallStage(t)
    <3> DEFINE d == Call(c.node.next, Append(c.stages, c.node.name))
    <3>1. d \in C /\ Tail(t.todo) \in Seq(C)
      BY <2>3, <2>6 DEF CallStage, Follow
    <3>2. GoOn(t, <<d>> \o Tail(t.todo), FALSE, {}) /\ got' = got
      BY <2>6 DEF CallStage, Target, c
    <3> HIDE DEF d
    <3>3. <<d>> \o Tail(t.todo) \in Seq(C)
      BY <3>1, OneCall
    <3> QED  BY <2>4, <3>2, <3>3
  <2>7. CASE CallSampler(t)
    <3> DEFINE d == Call(c.node.next, Append(c.stages, "sample"))
    <3>1. d \in C /\ Tail(t.todo) \in Seq(C)
      BY <2>3, <2>7 DEF CallSampler, Follow
    <3>2. /\ got' = got
          /\ \/ GoOn(t, <<d>> \o Tail(t.todo), FALSE, {})
             \/ GoOn(t, Tail(t.todo), FALSE, {})
      BY <2>7 DEF CallSampler, Target, c
    <3> HIDE DEF d
    <3>3. <<d>> \o Tail(t.todo) \in Seq(C)
      BY <3>1, OneCall
    <3> QED  BY <2>4, <3>1, <3>2, <3>3
  <2>8. CASE CallSink(t)
    <3> DEFINE sink == Target(t).name
               tried == IF sink \in DOMAIN got THEN got[sink] ELSE <<>>
    <3>1. PICK ok \in BOOLEAN :
            /\ got' = [s \in DOMAIN got \cup {sink} |->
                          IF s # sink THEN got[s]
                          ELSE Append(tried, [ok |-> ok, stages |-> c.stages])]
            /\ GoOn(t, Tail(t.todo), ~ok, {})
      BY <2>8 DEF CallSink, c
    <3>2. c.stages = asked.stages /\ Tail(t.todo) \in Seq(C)
      BY <2>3, <2>8 DEF CallSink, Follow
    <3>3. TasksOK'
      <4>1. GoOn(t, Tail(t.todo), FALSE, {}) \/ GoOn(t, Tail(t.todo), TRUE, {})
        <5>1. CASE ok
          BY <3>1, <5>1
        <5>2. CASE ~ok
          BY <3>1, <5>2
        <5> QED  BY <5>1, <5>2
      <4> QED  BY <1>1, <3>2, <4>1, GoesOnAlone DEF TasksOK
    <3>4. tried \in Seq(Record(asked.stages))
      <4> HIDE DEF sink
      <4>1. sink \in DOMAIN got => got[sink] \in Seq(Record(asked.stages))
        BY <1>1 DEF GotOK
      <4>2. <<>> \in Seq(Record(asked.stages))
        OBVIOUS
      <4> QED  BY <4>1, <4>2
    <3>5. [ok |-> ok, stages |-> c.stages] \in Record(asked.stages)
      BY <3>2 DEF Record
    <3> HIDE DEF tried, sink
    <3>6. Append(tried, [ok |-> ok, stages |-> c.stages]) \in Seq(Record(asked.stages))
      BY <3>4, <3>5, AppendProperties
    <3>7. GotOK'
      BY <1>1, <1>2, <3>1, <3>6 DEF GotOK
    <3> QED  BY <3>3, <3>7
  <2>9. CASE CallQueue(t)
    <3> DEFINE w == Task("worker", c, Attempt(c), 1)
    <3>1. c \in C /\ c.node.kind = "queue" /\ Tail(t.todo) \in Seq(C)
      BY <2>3, <2>9 DEF CallQueue
    <3>2. Works(w, C)
      BY <1>1, <3>1, Attempted, StartsTask
    <3>3. /\ got' = got
          /\ GoOn(t, Tail(t.todo), FALSE, {w}) \/ GoOn(t, Tail(t.todo), FALSE, {})
      BY <2>9 DEF CallQueue, c
    <3> HIDE DEF w
    <3>4. GoOn(t, Tail(t.todo), FALSE, {w}) => TasksOK'
      BY <1>1, <3>1, <3>2, GoesOn DEF TasksOK
    <3> QED  BY <1>3, <2>4, <3>1, <3>3, <3>4
  <2>10. CASE CallTailSampler(t)
    <3> DEFINE w == Task("tail", NoCall, <<c>>, 1)
    <3>1. c \in C /\ Tail(t.todo) \in Seq(C)
      BY <2>3, <2>10 DEF CallTailSampler
    <3>2. Works(w, C)
      BY <3>1, OneCall, StartsTask
    <3>3. got' = got /\ GoOn(t, Tail(t.todo), FALSE, {w})
      BY <2>10 DEF CallTailSampler, c
    <3> HIDE DEF w
    <3>4. TasksOK'
      BY <1>1, <3>1, <3>2, <3>3, GoesOn DEF TasksOK
    <3> QED  BY <1>3, <3>3, <3>4
  <2>11. CASE Decide(t)
    <3> DEFINE each == CallEach(c.node.next, c.stages)
               picked(sampled) == Only([i \in DOMAIN c.node.next |-> i], sampled)
               todo(sampled) == [i \in DOMAIN picked(sampled) |->
                                   Call(c.node.next[picked(sampled)[i]], c.stages)]
    <3>1. each \in Seq(C)
      BY <2>3, <2>11 DEF Decide, Follow
    <3>2. PICK sampled : GoOn(t, todo(sampled), FALSE, {}) /\ got' = got
      BY <2>11 DEF Decide, Target, c
    <3>3. Len(each) \in Nat /\ DOMAIN c.node.next = 1..Len(each)
      BY <3>1, LenProperties DEF CallEach
    <3>4. \A i \in DOMAIN c.node.next : Call(c.node.next[i], c.stages) \in C
      <4>1. \A i \in 1..Len(each) : each[i] \in C
        BY <3>1, ElementOfSeq
      <4> QED  BY <3>3, <4>1 DEF CallEach
    <3>5. [i \in DOMAIN c.node.next |-> i] \in Seq(DOMAIN c.node.next)
      BY <3>3
    <3>6. picked(sampled) \in Seq(DOMAIN c.node.next)
      BY <3>5, OnlyKeeps
    <3> HIDE DEF picked, each
    <3>7. todo(sampled) \in Seq(C)
      <4>1. /\ Len(picked(sampled)) \in Nat /\ DOMAIN picked(sampled) = 1..Len(picked(sampled))
            /\ \A i \in 1..Len(picked(sampled)) : picked(sampled)[i] \in DOMAIN c.node.next
        BY <3>6, LenProperties, ElementOfSeq
      <4> QED  BY <3>4, <4>1
    <3> QED  BY <2>4, <3>2, <3>7
  <2>12. CASE Answer(t)
    BY <1>1, <1>3, <2>12 DEF Answer, TasksOK
  <2>13. CASE TailSamplerEnds(t)
    BY <1>1, <1>3, <2>13 DEF TailSamplerEnds, TasksOK
  <2>14. CASE WorkerEnds(t)
    <3> DEFINE w == Task("worker", t.item, Attempt(t.item), t.tries + 1)
    <3>1. t.item \in C /\ t.item.node.kind = "queue" /\ t.tries \in Nat /\ t.tries + 1 \in Nat
      BY <2>1, <2>14 DEF WorkerEnds, Works, Goroutine
    <3>2. Works(w, C)
      BY <1>1, <3>1, Attempted, StartsTask
    <3>3. got' = got /\ (tasks' = (tasks \ {t}) \cup {w} \/ tasks' = tasks \ {t})
      BY <2>14 DEF WorkerEnds
    <3> HIDE DEF w
    <3> QED  BY <1>1, <1>3, <3>2, <3>3 DEF TasksOK
  <2> QED  BY <1>5, <2>5, <2>6, <2>7, <2>8, <2>9, <2>10, <2>11, <2>12, <2>13, <2>14 DEF TaskStep
<1> QED  BY <1>4, <1>5 DEF RouteNext

LEMMA StagesAlways == RouteSpec => [](\E C : StagesInv(C))
<1>1. RouteInit => \E C : StagesInv(C)
  BY StagesInit
<1>2. (\E C : StagesInv(C)) /\ [RouteNext]_routeVars => (\E C : StagesInv(C))'
  <2> SUFFICES ASSUME NEW C, StagesInv(C), [RouteNext]_routeVars PROVE StagesInv(C)'
    OBVIOUS
  <2>1. CASE RouteNext
    BY <2>1, StagesStep
  <2>2. CASE UNCHANGED routeVars
    BY <2>2 DEF routeVars, StagesInv, Works, Goroutine, Record
  <2> QED  BY <2>1, <2>2
<1> QED  BY <1>1, <1>2, PTL DEF RouteSpec

(* Whatever reaches an exporter went through the stages the configuration  *)
(* asks for, each once and in its order, on every route (for every         *)
(* configuration of both formats): no branch of a fanout, no queue and no  *)
(* policy's destination lies beside the wrappers.                          *)
THEOREM WiredWithItsStages == RouteSpec => []StagesKept
<1>1. (\E C : StagesInv(C)) => StagesKept
  <2> SUFFICES ASSUME NEW C, StagesInv(C), NEW s \in DOMAIN got, NEW i \in DOMAIN got[s]
               PROVE  got[s][i].stages = asked.stages
    BY DEF StagesKept
  <2>1. got[s] \in Seq(Record(asked.stages))
    BY DEF StagesInv
  <2>2. got[s][i] \in Record(asked.stages)
    BY <2>1, LenProperties, ElementOfSeq
  <2> QED  BY <2>2 DEF Record
<1> QED  BY <1>1, StagesAlways, PTL

-----------------------------------------------------------------------------
(* The sinks divided among the consumers: each of a fanout's has its own.  *)

(* A consumer with the sinks of own gives each of the next its own.        *)
SplitAt(n, own, d) ==
  /\ n.kind \in {"fanout", "tail"} =>
       /\ \A i \in DOMAIN n.next : n.next[i] \in DOMAIN d /\ d[n.next[i]] \subseteq own
       /\ \A i, j \in DOMAIN n.next : i # j => d[n.next[i]] \cap d[n.next[j]] = {}
  /\ n.kind \in {"stage", "sampler", "queue"} =>
       n.next \in DOMAIN d /\ d[n.next] \subseteq own
  /\ n.kind = "queue" => n.next.kind = "sink"
  /\ n.kind = "sink" => n.name \in own

Splits(d) == \A n \in DOMAIN d : SplitAt(n, d[n], d)

(* The calls that node leads to are of sinks in names, each in one way.    *)
Serves(node, names) ==
  \E d : Splits(d) /\ node \in DOMAIN d /\ \A n \in DOMAIN d : d[n] \subseteq names

LEMMA ServesMore ==
  ASSUME NEW node, NEW names, NEW more, Serves(node, names), names \subseteq more
  PROVE  Serves(node, more)
  BY DEF Serves

(* Several divisions in one: a consumer of two keeps what both give it.    *)
LEMMA SplitsMerge ==
  ASSUME NEW I, NEW kid, NEW part, \A i \in I : Serves(kid[i], part[i])
  PROVE  \E d : /\ Splits(d)
                /\ \A i \in I : kid[i] \in DOMAIN d /\ d[kid[i]] \subseteq part[i]
                /\ \A n \in DOMAIN d : d[n] \subseteq UNION {part[i] : i \in I}
<1> DEFINE D(i) == CHOOSE d : /\ Splits(d) /\ kid[i] \in DOMAIN d
                              /\ \A n \in DOMAIN d : d[n] \subseteq part[i]
           All == UNION {part[i] : i \in I}
           U == UNION {DOMAIN D(i) : i \in I}
           Share(n) == {s \in All : \A i \in I : n \in DOMAIN D(i) => s \in D(i)[n]}
           d == [n \in U |-> Share(n)]
<1>1. ASSUME NEW i \in I
      PROVE  Splits(D(i)) /\ kid[i] \in DOMAIN D(i) /\ \A n \in DOMAIN D(i) : D(i)[n] \subseteq part[i]
  BY DEF Serves
<1> HIDE DEF D
<1>2. \A i \in I : \A n \in DOMAIN D(i) : n \in U /\ Share(n) \subseteq D(i)[n]
  OBVIOUS
<1>3. \A n \in U : \A s : (\A i \in I : n \in DOMAIN D(i) => s \in D(i)[n]) => s \in Share(n)
  BY <1>1
<1>4. DOMAIN d = U /\ (\A n \in U : d[n] = Share(n)) /\ \A n \in U : Share(n) \subseteq All
  OBVIOUS
<1> HIDE DEF U, Share, All, d
<1>5. ASSUME NEW n \in U PROVE SplitAt(n, d[n], d)
  <2>1. PICK i \in I : n \in DOMAIN D(i)
    BY DEF U
  <2>2. \A j \in I : n \in DOMAIN D(j) => SplitAt(n, D(j)[n], D(j))
    BY <1>1 DEF Splits
  <2>3. ASSUME NEW m, \A j \in I : n \in DOMAIN D(j) => m \in DOMAIN D(j) /\ D(j)[m] \subseteq D(j)[n]
        PROVE  m \in DOMAIN d /\ d[m] \subseteq d[n] /\ d[m] \subseteq D(i)[m]
    <3>1. m \in U /\ Share(m) \subseteq D(i)[m]
      BY <1>2, <2>1, <2>3
    <3>2. ASSUME NEW s \in Share(m) PROVE s \in Share(n)
      <4>1. \A j \in I : n \in DOMAIN D(j) => s \in D(j)[n]
        BY <1>2, <2>3
      <4> QED  BY <1>3, <4>1
    <3> QED  BY <1>4, <3>1, <3>2
  <2>4. CASE n.kind \in {"fanout", "tail"}
    <3>1. ASSUME NEW k \in DOMAIN n.next
          PROVE  n.next[k] \in DOMAIN d /\ d[n.next[k]] \subseteq d[n] /\ d[n.next[k]] \subseteq D(i)[n.next[k]]
      <4>1. \A j \in I : n \in DOMAIN D(j) =>
              n.next[k] \in DOMAIN D(j) /\ D(j)[n.next[k]] \subseteq D(j)[n]
        BY <2>2, <2>4 DEF SplitAt
      <4> QED  BY <2>3, <4>1
    <3>2. \A k, l \in DOMAIN n.next : k # l => D(i)[n.next[k]] \cap D(i)[n.next[l]] = {}
      BY <2>1, <2>2, <2>4 DEF SplitAt
    <3>3. \A k, l \in DOMAIN n.next : k # l => d[n.next[k]] \cap d[n.next[l]] = {}
      BY <3>1, <3>2
    <3> QED  BY <2>4, <3>1, <3>3 DEF SplitAt
  <2>5. CASE n.kind \in {"stage", "sampler", "queue"}
    <3>1. \A j \in I : n \in DOMAIN D(j) => n.next \in DOMAIN D(j) /\ D(j)[n.next] \subseteq D(j)[n]
      BY <2>2, <2>5 DEF SplitAt
    <3>2. n.next \in DOMAIN d /\ d[n.next] \subseteq d[n]
      BY <2>3, <3>1
    <3>3. n.kind = "queue" => n.next.kind = "sink"
      BY <2>1, <2>2 DEF SplitAt
    <3> QED  BY <2>5, <3>2, <3>3 DEF SplitAt
  <2>6. CASE n.kind = "sink"
    <3>1. \A j \in I : n \in DOMAIN D(j) => n.name \in D(j)[n]
      BY <2>2, <2>6 DEF SplitAt
    <3> QED  BY <1>3, <1>4, <2>6, <3>1 DEF SplitAt
  <2> QED  BY <2>4, <2>5, <2>6 DEF SplitAt
<1>6. \A i \in I : kid[i] \in DOMAIN d /\ d[kid[i]] \subseteq part[i]
  <2> SUFFICES ASSUME NEW i \in I PROVE kid[i] \in DOMAIN d /\ d[kid[i]] \subseteq part[i]
    OBVIOUS
  <2>1. kid[i] \in DOMAIN D(i) /\ D(i)[kid[i]] \subseteq part[i]
    BY <1>1
  <2> QED  BY <1>2, <1>4, <2>1
<1>7. \A n \in DOMAIN d : d[n] \subseteq All
  BY <1>4
<1> QED  BY <1>4, <1>5, <1>6, <1>7 DEF Splits, All

(* A consumer in front of those of a division.                             *)
LEMMA ServesOn ==
  ASSUME NEW d, Splits(d), NEW names, \A n \in DOMAIN d : d[n] \subseteq names,
         NEW node, SplitAt(node, names, d)
  PROVE  Serves(node, names)
<1>1. CASE node \in DOMAIN d
  BY <1>1 DEF Serves
<1>2. CASE node \notin DOMAIN d
  <2> DEFINE e == [n \in DOMAIN d \cup {node} |-> IF n = node THEN names ELSE d[n]]
  <2>1. DOMAIN e = DOMAIN d \cup {node} /\ e[node] = names /\ \A n \in DOMAIN d : e[n] = d[n]
    BY <1>2
  <2> HIDE DEF e
  <2>2. ASSUME NEW n, NEW own, SplitAt(n, own, d) PROVE SplitAt(n, own, e)
    BY <2>1, <2>2 DEF SplitAt
  <2>3. \A n \in DOMAIN e : SplitAt(n, e[n], e)
    <3>1. \A n \in DOMAIN d : SplitAt(n, d[n], d)
      BY DEF Splits
    <3> QED  BY <2>1, <2>2, <3>1
  <2>4. \A n \in DOMAIN e : e[n] \subseteq names
    BY <2>1
  <2> QED  BY <2>1, <2>3, <2>4 DEF Serves, Splits
<1> QED  BY <1>1, <1>2

LEMMA SinkServes ==
  ASSUME NEW name, NEW names
  PROVE  /\ name \in names => Serves(Sink(name), names)
         /\ Serves(NoConsumer, names)
<1> DEFINE d == [n \in {} |-> {}]
<1>1. DOMAIN d = {} /\ Splits(d)
  BY DEF Splits
<1> HIDE DEF d
<1>2. /\ name \in names => SplitAt(Sink(name), names, d)
      /\ SplitAt(NoConsumer, names, d)
  BY DEF SplitAt, Sink, NoConsumer
<1> QED  BY <1>1, <1>2, ServesOn

LEMMA QueueServes ==
  ASSUME NEW name, NEW again, NEW sink
  PROVE  Serves(Queue(name, again, Sink(sink)), {sink})
<1>1. PICK d : Splits(d) /\ Sink(sink) \in DOMAIN d /\ \A n \in DOMAIN d : d[n] \subseteq {sink}
  BY SinkServes DEF Serves
<1>2. SplitAt(Queue(name, again, Sink(sink)), {sink}, d)
  BY <1>1 DEF SplitAt, Queue, Sink
<1> QED  BY <1>1, <1>2, ServesOn

LEMMA StageServes ==
  ASSUME NEW name, NEW next, NEW names, Serves(next, names)
  PROVE  Serves(Stage(name, next), names) /\ Serves(Sampler(next), names)
<1>1. PICK d : Splits(d) /\ next \in DOMAIN d /\ \A n \in DOMAIN d : d[n] \subseteq names
  BY DEF Serves
<1>2. SplitAt(Stage(name, next), names, d) /\ SplitAt(Sampler(next), names, d)
  BY <1>1 DEF SplitAt, Stage, Sampler
<1> QED  BY <1>1, <1>2, ServesOn

LEMMA EachServes ==
  ASSUME NEW m \in Nat, NEW next, next = [i \in 1..m |-> next[i]], NEW part,
         \A i \in 1..m : Serves(next[i], part[i]),
         \A i, j \in 1..m : i # j => part[i] \cap part[j] = {},
         NEW names, \A i \in 1..m : part[i] \subseteq names
  PROVE  Serves(NewTraceProcessor(next), names) /\ Serves(TailSampler(next), names)
<1>1. PICK d : /\ Splits(d)
               /\ \A i \in 1..m : next[i] \in DOMAIN d /\ d[next[i]] \subseteq part[i]
               /\ \A n \in DOMAIN d : d[n] \subseteq UNION {part[i] : i \in 1..m}
  <2> DEFINE I == 1..m
  <2>1. \A i \in I : Serves(next[i], part[i])
    OBVIOUS
  <2> HIDE DEF I
  <2>2. \E d : /\ Splits(d)
               /\ \A i \in I : next[i] \in DOMAIN d /\ d[next[i]] \subseteq part[i]
               /\ \A n \in DOMAIN d : d[n] \subseteq UNION {part[i] : i \in I}
    BY <2>1, SplitsMerge
  <2> QED  BY <2>2 DEF I
<1>2. \A n \in DOMAIN d : d[n] \subseteq names
  BY <1>1
<1>3. DOMAIN next = 1..m
  OBVIOUS
<1>4. \A i, j \in 1..m : i # j => d[next[i]] \cap d[next[j]] = {}
  BY <1>1
<1>5. \A i \in 1..m : d[next[i]] \subseteq names
  BY <1>1
<1>6. SplitAt(NewTraceProcessor(next), names, d) /\ SplitAt(TailSampler(next), names, d)
  BY <1>1, <1>3, <1>4, <1>5 DEF SplitAt, NewTraceProcessor, TailSampler
<1> QED  BY <1>1, <1>2, <1>6, ServesOn

-----------------------------------------------------------------------------
(* The division of what a collector is wired from.                         *)

NamedOnceBy(cfg) ==
  /\ IsInjective(cfg.exporters) /\ "debug" \notin Range(cfg.exporters)
  /\ \A i \in DOMAIN cfg.queues :
        /\ IsInjective(cfg.queues[i].senders \o cfg.queues[i].exporters)
        /\ QueueSinks(cfg.queues[i]) \cap ({"debug"} \cup Range(cfg.exporters)) = {}
  /\ \A i, j \in DOMAIN cfg.queues :
        i # j => QueueSinks(cfg.queues[i]) \cap QueueSinks(cfg.queues[j]) = {}

(* One sink, or one queue, for each name of a slice.                       *)
LEMMA NamesServe ==
  ASSUME NEW names, IsSlice(names), IsInjective(names),
         NEW next, next = [i \in 1..Len(names) |-> next[i]],
         \A i \in 1..Len(names) : Serves(next[i], {names[i]})
  PROVE  Serves(NewTraceProcessor(next), Range(names))
<1> DEFINE m == Len(names)
           part == [i \in 1..m |-> {names[i]}]
           all == Range(names)
<1>1. m \in Nat /\ DOMAIN names = 1..m
  BY SliceElements
<1>2. \A i \in 1..m : Serves(next[i], part[i]) /\ part[i] \subseteq all
  BY <1>1 DEF Range
<1>3. \A i, j \in 1..m : i # j => part[i] \cap part[j] = {}
  BY <1>1 DEF IsInjective
<1>4. next = [i \in 1..m |-> next[i]]
  OBVIOUS
<1> HIDE DEF m, part, all
<1>5. Serves(NewTraceProcessor(next), all)
  BY <1>1, <1>2, <1>3, <1>4, EachServes
<1> QED  BY <1>5 DEF all

LEMMA QueuedServes ==
  ASSUME NEW q, IsSlice(q.senders), IsSlice(q.exporters), IsInjective(q.senders \o q.exporters)
  PROVE  Serves(buildQueuedSpanProcessor(q), QueueSinks(q))
<1> DEFINE all == q.senders \o q.exporters
           queues == [i \in DOMAIN all |-> Queue(all[i], q.retry, Sink(all[i]))]
<1>1. IsSlice(all)
  BY ConcatSlices
<1>2. Len(all) \in Nat /\ DOMAIN all = 1..Len(all)
  BY <1>1, SliceElements
<1>3. buildQueuedSpanProcessor(q) = IF all = <<>> THEN NoConsumer ELSE NewTraceProcessor(queues)
  BY DEF buildQueuedSpanProcessor
<1>4. \A i \in 1..Len(all) : Serves(queues[i], {all[i]})
  BY <1>2, QueueServes
<1>5. queues = [i \in 1..Len(all) |-> queues[i]]
  BY <1>2
<1>6. QueueSinks(q) = Range(all)
  BY DEF QueueSinks
<1>7. IsInjective(all)
  OBVIOUS
<1> HIDE DEF queues, all
<1>8. Serves(NewTraceProcessor(queues), Range(all))
  BY <1>1, <1>4, <1>5, <1>7, NamesServe
<1> QED  BY <1>3, <1>6, <1>8, SinkServes

(* The sinks of the i-th consumer, and of those with a name.               *)
PartOf(cfg, i) ==
  IF i <= AfterExporters(cfg) THEN Range(cfg.exporters)
  ELSE IF i <= AfterDebug(cfg) THEN {"debug"}
  ELSE QueueSinks(cfg.queues[i - AfterDebug(cfg)])

NamePart(cfg, name) ==
  UNION {PartOf(cfg, i) : i \in {j \in DOMAIN namedConsumers(cfg) :
                                    namedConsumers(cfg)[j][1] = name}}

LEMMA ConsumersServe ==
  ASSUME NEW cfg, SlicesOf(cfg), NamedOnceBy(cfg)
  PROVE  /\ \A i \in DOMAIN namedConsumers(cfg) :
              Serves(namedConsumers(cfg)[i][2], PartOf(cfg, i))
         /\ \A i, j \in DOMAIN namedConsumers(cfg) :
              i # j => PartOf(cfg, i) \cap PartOf(cfg, j) = {}
<1> DEFINE a == AfterExporters(cfg)
           b == AfterDebug(cfg)
           N == DOMAIN namedConsumers(cfg)
           IsExporters(i) == i = 1 /\ i = a /\ PartOf(cfg, i) = Range(cfg.exporters)
           IsDebug(i) == i = a + 1 /\ i = b /\ PartOf(cfg, i) = {"debug"}
           IsQueue(i) == /\ i - b \in DOMAIN cfg.queues
                         /\ PartOf(cfg, i) = QueueSinks(cfg.queues[i - b])
<1>1. a \in 0..1 /\ b \in Nat /\ b - a \in 0..1 /\ N \subseteq Nat
  BY NamedElements
<1>2. DOMAIN cfg.queues = 1..Len(cfg.queues) /\ Len(cfg.queues) \in Nat
  BY SliceElements DEF SlicesOf
<1>3. ASSUME NEW i \in N
      PROVE  \/ IsExporters(i) /\ namedConsumers(cfg)[i][2] = ExportersNode(cfg)
             \/ IsDebug(i) /\ namedConsumers(cfg)[i][2] = Sink("debug")
             \/ IsQueue(i) /\ namedConsumers(cfg)[i][2] = buildQueuedSpanProcessor(cfg.queues[i - b])
  <2>1. i \in Nat
    BY <1>1
  <2>2. CASE i = 1 /\ i = a /\ namedConsumers(cfg)[i] = <<"exporters", ExportersNode(cfg)>>
    BY <1>1, <2>2 DEF PartOf
  <2>3. CASE i = a + 1 /\ i = b /\ namedConsumers(cfg)[i] = <<"debug", Sink("debug")>>
    <3>1. ~(i <= a) /\ i <= b
      BY <1>1, <2>3
    <3> QED  BY <2>3, <3>1 DEF PartOf
  <2>4. CASE /\ i - b \in DOMAIN cfg.queues
             /\ namedConsumers(cfg)[i] =
                  <<cfg.queues[i - b].name, buildQueuedSpanProcessor(cfg.queues[i - b])>>
    <3>1. ~(i <= a) /\ ~(i <= b)
      BY <1>1, <1>2, <2>1, <2>4
    <3> QED  BY <2>4, <3>1 DEF PartOf
  <2> QED  BY <2>2, <2>3, <2>4, NamedElements
<1>4. Serves(ExportersNode(cfg), Range(cfg.exporters))
  <2> DEFINE next == [j \in DOMAIN cfg.exporters |-> Sink(cfg.exporters[j])]
             names == cfg.exporters
  <2>1. IsSlice(names) /\ IsInjective(names)
    BY DEF SlicesOf, NamedOnceBy
  <2>2. DOMAIN names = 1..Len(names)
    BY <2>1, SliceElements
  <2>3. next = [j \in 1..Len(names) |-> next[j]] /\ \A j \in 1..Len(names) : next[j] = Sink(names[j])
    BY <2>2
  <2>4. ExportersNode(cfg) = NewTraceProcessor(next)
    BY DEF ExportersNode
  <2> HIDE DEF next, names
  <2>5. \A j \in 1..Len(names) : Serves(next[j], {names[j]})
    BY <2>3, SinkServes
  <2>6. Serves(NewTraceProcessor(next), Range(names))
    BY <2>1, <2>3, <2>5, NamesServe
  <2> QED  BY <2>4, <2>6 DEF names
<1>5. Serves(Sink("debug"), {"debug"})
  BY SinkServes
<1>6. \A k \in DOMAIN cfg.queues :
        Serves(buildQueuedSpanProcessor(cfg.queues[k]), QueueSinks(cfg.queues[k]))
  BY QueuedServes DEF SlicesOf, NamedOnceBy
<1>7. ASSUME NEW i \in N PROVE Serves(namedConsumers(cfg)[i][2], PartOf(cfg, i))
  BY <1>3, <1>4, <1>5, <1>6
<1>8. ASSUME NEW i \in N, NEW j \in N, i # j PROVE PartOf(cfg, i) \cap PartOf(cfg, j) = {}
  <2>1. /\ IsExporters(i) \/ IsDebug(i) \/ IsQueue(i)
        /\ IsExporters(j) \/ IsDebug(j) \/ IsQueue(j)
    BY <1>3
  <2>2. ~(IsExporters(i) /\ IsExporters(j)) /\ ~(IsDebug(i) /\ IsDebug(j))
    BY <1>8
  <2>3. IsQueue(i) /\ IsQueue(j) => i - b # j - b
    BY <1>1, <1>8
  <2>4. /\ "debug" \notin Range(cfg.exporters)
        /\ \A k \in DOMAIN cfg.queues :
             QueueSinks(cfg.queues[k]) \cap ({"debug"} \cup Range(cfg.exporters)) = {}
        /\ \A k, l \in DOMAIN cfg.queues :
             k # l => QueueSinks(cfg.queues[k]) \cap QueueSinks(cfg.queues[l]) = {}
    BY DEF NamedOnceBy
  <2> HIDE DEF b
  <2> QED  BY <2>1, <2>2, <2>3, <2>4
<1> QED  BY <1>7, <1>8

LEMMA NameServes ==
  ASSUME NEW cfg, SlicesOf(cfg), NamedOnceBy(cfg)
  PROVE  /\ \A name : Serves(nameToTraceConsumer(cfg, name), NamePart(cfg, name))
         /\ \A name, other : name # other => NamePart(cfg, name) \cap NamePart(cfg, other) = {}
<1>1. ASSUME NEW name PROVE Serves(nameToTraceConsumer(cfg, name), NamePart(cfg, name))
  <2>1. CASE nameToTraceConsumer(cfg, name) = NoConsumer
    BY <2>1, SinkServes
  <2>2. CASE \E i \in DOMAIN namedConsumers(cfg) :
              /\ namedConsumers(cfg)[i][1] = name
              /\ nameToTraceConsumer(cfg, name) = namedConsumers(cfg)[i][2]
    <3>1. PICK i \in DOMAIN namedConsumers(cfg) :
              /\ namedConsumers(cfg)[i][1] = name
              /\ nameToTraceConsumer(cfg, name) = namedConsumers(cfg)[i][2]
      BY <2>2
    <3>2. PartOf(cfg, i) \subseteq NamePart(cfg, name)
      BY <3>1 DEF NamePart
    <3>3. Serves(nameToTraceConsumer(cfg, name), PartOf(cfg, i))
      BY <3>1, ConsumersServe
    <3> QED  BY <3>2, <3>3, ServesMore
  <2> QED  BY <2>1, <2>2, NameFound
<1>2. ASSUME NEW name, NEW other, name # other
      PROVE  NamePart(cfg, name) \cap NamePart(cfg, other) = {}
  <2> SUFFICES ASSUME NEW s \in NamePart(cfg, name), s \in NamePart(cfg, other) PROVE FALSE
    OBVIOUS
  <2>1. PICK i \in DOMAIN namedConsumers(cfg) : namedConsumers(cfg)[i][1] = name /\ s \in PartOf(cfg, i)
    BY DEF NamePart
  <2>2. PICK j \in DOMAIN namedConsumers(cfg) : namedConsumers(cfg)[j][1] = other /\ s \in PartOf(cfg, j)
    BY DEF NamePart
  <2> QED  BY <1>2, <2>1, <2>2, ConsumersServe
<1> QED  BY <1>1, <1>2

PolicyPart(cfg, policy) == UNION {NamePart(cfg, policy.exporters[i]) : i \in DOMAIN policy.exporters}

LEMMA DestinationServes ==
  ASSUME NEW cfg, SlicesOf(cfg), NamedOnceBy(cfg), NEW policy, IsSlice(policy.exporters),
         IsInjective(policy.exporters)
  PROVE  Serves(Destination(cfg, policy), PolicyPart(cfg, policy))
<1> DEFINE m == Len(policy.exporters)
           next == [i \in DOMAIN policy.exporters |-> nameToTraceConsumer(cfg, policy.exporters[i])]
           part == [i \in DOMAIN policy.exporters |-> NamePart(cfg, policy.exporters[i])]
           all == PolicyPart(cfg, policy)
<1>1. m \in Nat /\ DOMAIN policy.exporters = 1..m
  BY SliceElements
<1>2. next = [i \in 1..m |-> next[i]]
  BY <1>1
<1>3. \A i \in 1..m : Serves(next[i], part[i])
  BY <1>1, NameServes
<1>4. \A i \in 1..m : part[i] \subseteq all
  BY <1>1 DEF PolicyPart
<1>5. \A i, j \in 1..m : i # j => part[i] \cap part[j] = {}
  <2>1. \A i, j \in 1..m : i # j => policy.exporters[i] # policy.exporters[j]
    BY <1>1 DEF IsInjective
  <2> QED  BY <1>1, <2>1, NameServes
<1>6. Destination(cfg, policy) = IF Len(next) = 1 THEN next[1] ELSE NewTraceProcessor(next)
  BY DEF Destination
<1> HIDE DEF next, part, m, all
<1>7. Len(next) = m
  BY <1>1, <1>2, SliceOf
<1>8. Serves(NewTraceProcessor(next), all)
  BY <1>1, <1>2, <1>3, <1>4, <1>5, EachServes
<1>9. m = 1 => Serves(next[1], all)
  <2> SUFFICES ASSUME m = 1 PROVE Serves(next[1], all)
    OBVIOUS
  <2>1. 1 \in 1..m
    OBVIOUS
  <2>2. Serves(next[1], part[1]) /\ part[1] \subseteq all
    BY <1>3, <1>4, <2>1
  <2> QED  BY <2>2, ServesMore
<1> QED  BY <1>6, <1>7, <1>8, <1>9 DEF all

LEMMA WrappedServes ==
  ASSUME NEW cfg, NEW tp, NEW names, Serves(tp, names)
  PROVE  /\ Serves(withGlobalAttributes(cfg, tp), names)
         /\ Serves(Sampler(withGlobalAttributes(cfg, tp)), names)
<1> DEFINE added == IF "add-attributes" \in cfg.global THEN Stage("add-attributes", tp) ELSE tp
           tp2 == IF "attribute-key" \in cfg.global THEN Stage("attribute-key", added) ELSE added
<1>1. withGlobalAttributes(cfg, tp) = tp2
  BY DEF withGlobalAttributes
<1>2. Serves(added, names)
  BY StageServes
<1> HIDE DEF added
<1>3. Serves(tp2, names)
  BY <1>2, StageServes
<1> HIDE DEF tp2
<1> QED  BY <1>1, <1>3, StageServes

LEMMA StartServes ==
  ASSUME NEW cfg, SlicesOf(cfg), NamedOnceBy(cfg), startProcessor(cfg) # NoConsumer
  PROVE  \E names : Serves(startProcessor(cfg), names)
<1> DEFINE consumers == traceConsumers(cfg)
           tail == IF cfg.mode = "tail" THEN buildSamplingProcessor(cfg)
                   ELSE TailSampler(<<NewTraceProcessor(consumers)>>)
           useTail == cfg.mode = "tail" \/ (cfg.mode # "head" /\ cfg.debugTail)
           tps == IF useTail THEN <<tail>> ELSE consumers
           tp == withGlobalAttributes(cfg, NewTraceProcessor(tps))
<1>1. startProcessor(cfg) = IF cfg.mode = "head" THEN Sampler(tp) ELSE tp
  BY DEF startProcessor
<1>2. \E names : Serves(NewTraceProcessor(consumers), names)
  <2> DEFINE m == AfterDebug(cfg) + Len(cfg.queues)
             part == [i \in 1..m |-> PartOf(cfg, i)]
             names == UNION {part[i] : i \in 1..m}
  <2>1. m \in Nat /\ DOMAIN namedConsumers(cfg) = 1..m
    BY NamedElements
  <2>2. consumers = [i \in 1..m |-> consumers[i]] /\ \A i \in 1..m : consumers[i] = namedConsumers(cfg)[i][2]
    BY <2>1 DEF traceConsumers
  <2> HIDE DEF m
  <2>3. \A i \in 1..m : Serves(consumers[i], part[i]) /\ part[i] \subseteq names
    BY <2>1, <2>2, ConsumersServe
  <2>4. \A i, j \in 1..m : i # j => part[i] \cap part[j] = {}
    BY <2>1, ConsumersServe
  <2> HIDE DEF part, names, consumers
  <2> QED  BY <2>1, <2>2, <2>3, <2>4, EachServes
<1> HIDE DEF consumers
<1>3. ASSUME NEW x, NEW names, Serves(x, names)
      PROVE  Serves(NewTraceProcessor(<<x>>), names) /\ Serves(TailSampler(<<x>>), names)
  <2> DEFINE part == [i \in 1..1 |-> names]
             next == <<x>>
  <2>1. 1 \in Nat /\ next = [i \in 1..1 |-> next[i]] /\ \A i \in 1..1 : Serves(next[i], part[i])
    BY <1>3
  <2>2. (\A i, j \in 1..1 : i # j => part[i] \cap part[j] = {}) /\ \A i \in 1..1 : part[i] \subseteq names
    OBVIOUS
  <2> HIDE DEF part, next
  <2>3. Serves(NewTraceProcessor(next), names) /\ Serves(TailSampler(next), names)
    BY <2>1, <2>2, EachServes
  <2> QED  BY <2>3 DEF next
<1>4. \E names : Serves(tail, names)
  <2>1. CASE cfg.mode = "tail" /\ SamplingAccepted(cfg)
    <3> DEFINE m == Len(cfg.policies)
               next == [p \in DOMAIN cfg.policies |-> Destination(cfg, cfg.policies[p])]
               part == [p \in DOMAIN cfg.policies |-> PolicyPart(cfg, cfg.policies[p])]
               names == UNION {part[p] : p \in DOMAIN cfg.policies}
    <3>1. tail = TailSampler(next)
      BY <2>1 DEF buildSamplingProcessor
    <3>2. m \in Nat /\ DOMAIN cfg.policies = 1..m
      BY SliceElements DEF SlicesOf
    <3>3. \A p, q \in DOMAIN cfg.policies :
            \A i \in DOMAIN cfg.policies[p].exporters, j \in DOMAIN cfg.policies[q].exporters :
              cfg.policies[p].exporters[i] = cfg.policies[q].exporters[j] => p = q /\ i = j
      BY <2>1 DEF SamplingAccepted
    <3>4. \A p \in DOMAIN cfg.policies : IsInjective(cfg.policies[p].exporters) /\ IsSlice(cfg.policies[p].exporters)
      BY <3>3 DEF IsInjective, SlicesOf
    <3>5. \A p \in 1..m : Serves(next[p], part[p]) /\ part[p] \subseteq names
      BY <3>2, <3>4, DestinationServes
    <3>6. \A p, q \in 1..m : p # q => part[p] \cap part[q] = {}
      <4> SUFFICES ASSUME NEW p \in 1..m, NEW q \in 1..m, p # q,
                          NEW s \in PolicyPart(cfg, cfg.policies[p]),
                          s \in PolicyPart(cfg, cfg.policies[q])
                   PROVE  FALSE
        BY <3>2
      <4>1. PICK i \in DOMAIN cfg.policies[p].exporters : s \in NamePart(cfg, cfg.policies[p].exporters[i])
        BY DEF PolicyPart
      <4>2. PICK j \in DOMAIN cfg.policies[q].exporters : s \in NamePart(cfg, cfg.policies[q].exporters[j])
        BY DEF PolicyPart
      <4>3. cfg.policies[p].exporters[i] # cfg.policies[q].exporters[j]
        BY <3>2, <3>3
      <4> QED  BY <4>1, <4>2, <4>3, NameServes
    <3>7. next = [p \in 1..m |-> next[p]]
      BY <3>2
    <3> HIDE DEF next, part, names, m, tail
    <3>8. Serves(TailSampler(next), names)
      BY <3>2, <3>5, <3>6, <3>7, EachServes
    <3> QED  BY <3>1, <3>8
  <2>2. CASE cfg.mode = "tail" /\ ~SamplingAccepted(cfg)
    BY <2>2, SinkServes DEF buildSamplingProcessor
  <2>3. CASE cfg.mode # "tail"
    BY <2>3, <1>2, <1>3
  <2> QED  BY <2>1, <2>2, <2>3
<1> HIDE DEF tail, useTail
<1>5. \E names : Serves(NewTraceProcessor(tps), names)
  BY <1>2, <1>3, <1>4
<1> HIDE DEF tps
<1> QED  BY <1>1, <1>5, WrappedServes

LEMMA PipelineServes ==
  ASSUME NEW cfg, NEW key, IsSlice(cfg.pipelines[key].exporters),
         IsSlice(cfg.pipelines[key].processors), IsInjective(cfg.pipelines[key].exporters)
  PROVE  \E names : Serves(buildPipeline(cfg, key), names)
<1> DEFINE names == cfg.pipelines[key].exporters
           processors == cfg.pipelines[key].processors
           all == Range(names)
           Built(name) == IF key.type = "traces" THEN buildExporter(cfg, name).tc
                                                 ELSE buildExporter(cfg, name).mc
           next == [i \in DOMAIN names |-> Built(names[i])]
           first == buildFanoutExportersConsumer(cfg, key)
<1>1. Len(names) \in Nat /\ DOMAIN names = 1..Len(names)
  BY SliceElements
<1>2. ASSUME NEW name PROVE Serves(Built(name), {name})
  <2>1. Built(name) \in {Sink(name), NoConsumer}
    BY DEF buildExporter
  <2> QED  BY <2>1, SinkServes
<1>3. first = IF Len(names) = 1 THEN Built(names[1]) ELSE NewTraceProcessor(next)
  BY DEF buildFanoutExportersConsumer
<1>4. next = [i \in 1..Len(names) |-> next[i]] /\ \A i \in 1..Len(names) : next[i] = Built(names[i])
  BY <1>1
<1>5. IsSlice(names) /\ IsInjective(names)
  OBVIOUS
<1> HIDE DEF next, Built, names, first
<1>6. Serves(NewTraceProcessor(next), all)
  BY <1>2, <1>4, <1>5, NamesServe
<1>7. Serves(first, all)
  <2>1. CASE Len(names) = 1
    <3>1. 1 \in DOMAIN names
      BY <1>1, <2>1
    <3>2. {names[1]} \subseteq all
      BY <3>1 DEF Range
    <3> QED  BY <1>2, <1>3, <2>1, <3>2, ServesMore
  <2> QED  BY <1>3, <1>6, <2>1
<1> HIDE DEF all
<1>8. PICK g : /\ g[0] = first
               /\ \A n \in 1..Len(processors) : g[n] = Wrapped(g[n - 1], processors, n)
               /\ buildPipeline(cfg, key) = g[Len(processors)]
  BY BuildingSteps DEF first
<1> DEFINE L == Len(processors)
           T == {n \in Nat : n <= L => Serves(g[n], all)}
<1>9. 0 \in T
  BY <1>7, <1>8
<1>10. L \in Nat
  BY SliceElements
<1>11. ASSUME NEW n \in Nat, n \in T PROVE n + 1 \in T
  <2> HIDE DEF L
  <2> SUFFICES ASSUME n + 1 <= L PROVE Serves(g[n + 1], all)
    OBVIOUS
  <2>1. n <= L /\ n + 1 \in 1..L /\ (n + 1) - 1 = n
    BY <1>10
  <2>2. Serves(g[n], all)
    BY <1>11, <2>1
  <2>3. g[n + 1] = Wrapped(g[n], processors, n + 1)
    BY <1>8, <2>1 DEF L
  <2> QED  BY <2>2, <2>3, StageServes DEF Wrapped
<1> HIDE DEF T
<1>12. L \in T
  BY <1>9, <1>10, <1>11, SetInduction
<1> QED  BY <1>8, <1>10, <1>12 DEF T

LEMMA RouteServes ==
  NamedOnce /\ RouteInit /\ route # NoConsumer => \E names : Serves(route, names)
<1> SUFFICES ASSUME NamedOnce, RouteInit, route # NoConsumer PROVE \E names : Serves(route, names)
  OBVIOUS
<1>1. ASSUME NEW cfg \in Configs, route = startProcessor(cfg)
      PROVE  \E names : Serves(route, names)
  <2>1. SlicesOf(cfg) /\ NamedOnceBy(cfg)
    BY ConfigsAssumption DEF SlicesOf, NamedOnce, NamedOnceBy
  <2> QED  BY <1>1, <2>1, StartServes
<1>2. ASSUME NEW cfg \in UnifiedConfigs, NEW key \in DOMAIN cfg.pipelines, route = buildPipeline(cfg, key)
      PROVE  \E names : Serves(route, names)
  <2>1. \E names : Serves(buildPipeline(cfg, key), names)
    BY UnifiedConfigsAssumption, PipelineServes DEF NamedOnce
  <2> QED  BY <1>2, <2>1
<1> QED  BY <1>1, <1>2 DEF RouteInit

-----------------------------------------------------------------------------
(* The sinks that a goroutine may still call.                              *)

AllOf(todo, d) == UNION {d[todo[i].node] : i \in DOMAIN todo}

EachApart(todo, d) ==
  /\ \A i \in DOMAIN todo : todo[i].node \in DOMAIN d
  /\ \A i, j \in DOMAIN todo : i # j => d[todo[i].node] \cap d[todo[j].node] = {}

(* A worker keeps its sink until it has delivered the batch: it may try    *)
(* again.                                                                  *)
OwnSinks(t, d) ==
  IF t.by # "worker" THEN AllOf(t.todo, d)
  ELSE IF t.todo = <<>> /\ ~t.failed THEN {}
  ELSE d[t.item.node]

Apart(t, d) ==
  /\ EachApart(t.todo, d)
  /\ t.by = "worker" => /\ t.item.node \in DOMAIN d
                        /\ t.todo = <<>> \/ (t.todo = Attempt(t.item) /\ ~t.failed)

(* No two goroutines may call the same sink, and none of them one that has *)
(* the batch already.                                                      *)
AloneInv(d) ==
  /\ \A t \in tasks : Apart(t, d)
  /\ \A t, u \in tasks : t # u => OwnSinks(t, d) \cap OwnSinks(u, d) = {}

Refusing(s) == \A i \in DOMAIN got[s] : ~got[s][i].ok

RetryInv(d) ==
  /\ Splits(d)
  /\ route # NoConsumer => route \in DOMAIN d
  /\ AloneInv(d)
  /\ \A t \in tasks : \A s \in OwnSinks(t, d) \cap DOMAIN got : Refusing(s)
  /\ RetriesOnlyTheFailed
  /\ answer = "none" => tasks = {} /\ DOMAIN got = {}

LEMMA TailApart ==
  ASSUME NEW C, NEW todo \in Seq(C), todo # <<>>, NEW d, EachApart(todo, d)
  PROVE  /\ EachApart(Tail(todo), d) /\ AllOf(Tail(todo), d) \subseteq AllOf(todo, d)
         /\ Head(todo).node \in DOMAIN d
         /\ d[Head(todo).node] \subseteq AllOf(todo, d)
         /\ d[Head(todo).node] \cap AllOf(Tail(todo), d) = {}
<1>1. /\ DOMAIN Tail(todo) = 1..(Len(todo) - 1) /\ DOMAIN todo = 1..Len(todo) /\ Len(todo) \in Nat
      /\ Len(todo) > 0
      /\ \A i \in 1..(Len(todo) - 1) : Tail(todo)[i] = todo[i + 1]
      /\ Head(todo) = todo[1]
  BY HeadTailProperties, LenProperties, EmptySeq
<1>2. /\ 1 \in DOMAIN todo
      /\ \A i \in DOMAIN Tail(todo) : i + 1 \in DOMAIN todo /\ i + 1 # 1 /\ Tail(todo)[i] = todo[i + 1]
  BY <1>1
<1>3. \A i, j \in DOMAIN Tail(todo) : i # j => i + 1 # j + 1
  BY <1>1
<1> QED  BY <1>1, <1>2, <1>3 DEF EachApart, AllOf

LEMMA ConcatApart ==
  ASSUME NEW C, NEW s \in Seq(C), NEW todo \in Seq(C), NEW d, EachApart(s, d), EachApart(todo, d),
         AllOf(s, d) \cap AllOf(todo, d) = {}
  PROVE  /\ EachApart(s \o todo, d)
         /\ AllOf(s \o todo, d) \subseteq AllOf(s, d) \cup AllOf(todo, d)
<1> DEFINE both == s \o todo
           m == Len(s)
<1>1. /\ DOMAIN s = 1..m /\ DOMAIN todo = 1..Len(todo) /\ DOMAIN both = 1..(m + Len(todo))
      /\ m \in Nat /\ Len(todo) \in Nat
      /\ \A i \in DOMAIN s : both[i] = s[i]
      /\ \A i \in DOMAIN todo : both[m + i] = todo[i]
      /\ \A i \in DOMAIN both : i \in DOMAIN s \/ i - m \in DOMAIN todo
  BY ConcatElements
<1>2. \A i \in DOMAIN both : i - m \in DOMAIN todo => both[i] = todo[i - m]
  <2> SUFFICES ASSUME NEW i \in DOMAIN both, i - m \in DOMAIN todo PROVE both[i] = todo[i - m]
    OBVIOUS
  <2>1. m + (i - m) = i
    BY <1>1
  <2> QED  BY <1>1, <2>1
<1>3. \A i, j \in DOMAIN both : i # j => i - m # j - m
  BY <1>1
<1> HIDE DEF both, m
<1>4. ASSUME NEW i \in DOMAIN both
      PROVE  \/ i \in DOMAIN s /\ both[i] = s[i] /\ d[both[i].node] \subseteq AllOf(s, d)
             \/ i - m \in DOMAIN todo /\ both[i] = todo[i - m] /\ d[both[i].node] \subseteq AllOf(todo, d)
  BY <1>1, <1>2 DEF AllOf
<1>5. \A i \in DOMAIN both : both[i].node \in DOMAIN d
  BY <1>4 DEF EachApart
<1>6. ASSUME NEW i \in DOMAIN both, NEW j \in DOMAIN both, i # j
      PROVE  d[both[i].node] \cap d[both[j].node] = {}
  <2>1. CASE i \in DOMAIN s /\ both[i] = s[i] /\ j \in DOMAIN s /\ both[j] = s[j]
    BY <1>6, <2>1 DEF EachApart
  <2>2. CASE /\ i - m \in DOMAIN todo /\ both[i] = todo[i - m]
             /\ j - m \in DOMAIN todo /\ both[j] = todo[j - m]
    BY <1>3, <1>6, <2>2 DEF EachApart
  <2>3. CASE d[both[i].node] \subseteq AllOf(s, d) /\ d[both[j].node] \subseteq AllOf(todo, d)
    BY <2>3
  <2>4. CASE d[both[j].node] \subseteq AllOf(s, d) /\ d[both[i].node] \subseteq AllOf(todo, d)
    BY <2>4
  <2> QED  BY <1>4, <2>1, <2>2, <2>3, <2>4
<1>7. AllOf(both, d) \subseteq AllOf(s, d) \cup AllOf(todo, d)
  BY <1>4 DEF AllOf
<1> QED  BY <1>5, <1>6, <1>7 DEF EachApart, both

LEMMA OneApart ==
  ASSUME NEW c, NEW d, c.node \in DOMAIN d
  PROVE  EachApart(<<c>>, d) /\ AllOf(<<c>>, d) = d[c.node] /\ EachApart(<<>>, d) /\ AllOf(<<>>, d) = {}
<1>1. DOMAIN <<c>> = 1..1 /\ <<c>>[1] = c /\ DOMAIN <<>> = {}
  OBVIOUS
<1>2. \A i \in 1..1 : i = 1
  OBVIOUS
<1>3. 1 \in 1..1
  OBVIOUS
<1> QED  BY <1>1, <1>2, <1>3 DEF EachApart, AllOf

LEMMA CallsApart ==
  ASSUME NEW n, NEW d, n \in DOMAIN d, Splits(d), n.kind \in {"fanout", "tail"}, NEW stages
  PROVE  EachApart(CallEach(n.next, stages), d) /\ AllOf(CallEach(n.next, stages), d) \subseteq d[n]
<1>1. SplitAt(n, d[n], d)
  BY DEF Splits
<1>2. /\ DOMAIN CallEach(n.next, stages) = DOMAIN n.next
      /\ \A i \in DOMAIN n.next : CallEach(n.next, stages)[i].node = n.next[i]
  BY DEF CallEach, Call
<1> QED  BY <1>1, <1>2 DEF SplitAt, EachApart, AllOf

(* Those of the destinations that are picked.                              *)
LEMMA PickedApart ==
  ASSUME NEW n, NEW d, n \in DOMAIN d, Splits(d), n.kind \in {"fanout", "tail"}, NEW stages,
         NEW picked \in Seq(DOMAIN n.next), NoRepeat(picked)
  PROVE  /\ EachApart([i \in DOMAIN picked |-> Call(n.next[picked[i]], stages)], d)
         /\ AllOf([i \in DOMAIN picked |-> Call(n.next[picked[i]], stages)], d) \subseteq d[n]
<1> DEFINE todo == [i \in DOMAIN picked |-> Call(n.next[picked[i]], stages)]
<1>1. SplitAt(n, d[n], d)
  BY DEF Splits
<1>2. \A i \in DOMAIN picked : picked[i] \in DOMAIN n.next
  BY LenProperties, ElementOfSeq
<1>3. DOMAIN todo = DOMAIN picked /\ \A i \in DOMAIN picked : todo[i].node = n.next[picked[i]]
  BY DEF Call
<1> HIDE DEF todo
<1>4. \A i, j \in DOMAIN picked : i # j => picked[i] # picked[j]
  BY DEF NoRepeat
<1>5. EachApart(todo, d) /\ AllOf(todo, d) \subseteq d[n]
  BY <1>1, <1>2, <1>3, <1>4 DEF SplitAt, EachApart, AllOf
<1> QED  BY <1>5 DEF todo

(* One goroutine goes on as others, which divide what it held.             *)
LEMMA Divided ==
  ASSUME NEW d, AloneInv(d), NEW t \in tasks, NEW W,
         \A w \in W : Apart(w, d) /\ OwnSinks(w, d) \subseteq OwnSinks(t, d),
         \A v, w \in W : v # w => OwnSinks(v, d) \cap OwnSinks(w, d) = {},
         tasks' \subseteq (tasks \ {t}) \cup W
  PROVE  /\ AloneInv(d)'
         /\ \A u \in tasks' : u \in tasks \ {t} \/ u \in W
         /\ \A u \in tasks' : \E v \in tasks : OwnSinks(u, d) \subseteq OwnSinks(v, d)
<1>1. \A u \in tasks' : u \in tasks \ {t} \/ u \in W
  OBVIOUS
<1>2. \A u \in tasks' : Apart(u, d)
  BY <1>1 DEF AloneInv
<1>3. \A u \in tasks' : \E v \in tasks : OwnSinks(u, d) \subseteq OwnSinks(v, d)
  BY <1>1
<1>4. ASSUME NEW u \in tasks', NEW v \in tasks', u # v PROVE OwnSinks(u, d) \cap OwnSinks(v, d) = {}
  <2>1. CASE u \in tasks \ {t} /\ v \in tasks \ {t}
    BY <1>4, <2>1 DEF AloneInv
  <2>2. CASE u \in W /\ v \in W
    BY <1>4, <2>2
  <2>3. CASE u \in tasks \ {t} /\ v \in W
    BY <2>3 DEF AloneInv
  <2>4. CASE u \in W /\ v \in tasks \ {t}
    BY <2>4 DEF AloneInv
  <2> QED  BY <1>1, <2>1, <2>2, <2>3, <2>4
<1> QED  BY <1>1, <1>2, <1>3, <1>4 DEF AloneInv

(* What a worker is about to call.                                         *)
LEMMA WorkerCalls ==
  ASSUME NEW C, NEW d, Splits(d), NEW t, Works(t, C), Apart(t, d), t.by = "worker", t.todo # <<>>
  PROVE  /\ Head(t.todo).node = t.item.node.next /\ Head(t.todo).node.kind = "sink"
         /\ Head(t.todo).node.name \in d[t.item.node]
         /\ Tail(t.todo) = <<>> /\ ~t.failed /\ OwnSinks(t, d) = d[t.item.node]
<1>1. t.todo = Attempt(t.item) /\ ~t.failed /\ t.item.node \in DOMAIN d
  BY DEF Apart
<1>2. t.item.node.kind = "queue"
  BY DEF Works
<1>3. SplitAt(t.item.node, d[t.item.node], d)
  BY <1>1 DEF Splits
<1>4. t.item.node.next.kind = "sink" /\ t.item.node.next \in DOMAIN d
      /\ d[t.item.node.next] \subseteq d[t.item.node]
  BY <1>2, <1>3 DEF SplitAt
<1>5. t.item.node.next.name \in d[t.item.node.next]
  BY <1>4 DEF Splits, SplitAt
<1>6. Head(t.todo) = Call(t.item.node.next, t.item.stages) /\ Tail(t.todo) = <<>>
  BY <1>1 DEF Attempt
<1>7. Head(t.todo).node = t.item.node.next
  BY <1>6 DEF Call
<1> QED  BY <1>1, <1>4, <1>5, <1>6, <1>7 DEF OwnSinks

(* Another goroutine goes on with calls of its own sinks, at most one      *)
(* starts beside it with others of them.                                   *)
Beside(started, t, todo, d) ==
  /\ \A v, w \in started : v = w
  /\ \A w \in started : /\ Apart(w, d)
                         /\ OwnSinks(w, d) \subseteq AllOf(t.todo, d)
                         /\ OwnSinks(w, d) \cap AllOf(todo, d) = {}

LEMMA Advances ==
  ASSUME NEW C, NEW d, AloneInv(d), NEW t \in tasks, Works(t, C), t.by # "worker",
         NEW todo \in Seq(C), EachApart(todo, d), AllOf(todo, d) \subseteq AllOf(t.todo, d),
         NEW started, Beside(started, t, todo, d),
         GoOn(t, todo, FALSE, started) \/ GoOn(t, todo, TRUE, started)
  PROVE  /\ AloneInv(d)'
         /\ \A u \in tasks' : \E v \in tasks : OwnSinks(u, d) \subseteq OwnSinks(v, d)
         /\ \A u \in tasks' : \/ u \in tasks \ {t} \/ u \in started
                              \/ OwnSinks(u, d) = AllOf(todo, d)
<1>1. PICK failed \in BOOLEAN : GoOn(t, todo, failed, started)
  OBVIOUS
<1> DEFINE next == [t EXCEPT !.todo = todo, !.failed = @ \/ failed]
<1>2. next.by = t.by /\ next.todo = todo
  BY DEF Works, Goroutine
<1>3. tasks' = (tasks \ {t}) \cup started \cup {next}
  BY <1>1 DEF GoOn
<1> HIDE DEF next
<1>4. Apart(next, d) /\ OwnSinks(next, d) = AllOf(todo, d) /\ OwnSinks(t, d) = AllOf(t.todo, d)
  BY <1>2 DEF Apart, OwnSinks
<1> DEFINE W == started \cup {next}
<1>5. \A w \in W : Apart(w, d) /\ OwnSinks(w, d) \subseteq OwnSinks(t, d)
  BY <1>4 DEF Beside
<1>6. \A v, w \in W : v # w => OwnSinks(v, d) \cap OwnSinks(w, d) = {}
  BY <1>4 DEF Beside
<1>7. tasks' \subseteq (tasks \ {t}) \cup W
  BY <1>3
<1> HIDE DEF W
<1>8. /\ AloneInv(d)'
      /\ \A u \in tasks' : \E v \in tasks : OwnSinks(u, d) \subseteq OwnSinks(v, d)
  BY <1>5, <1>6, <1>7, Divided
<1> QED  BY <1>3, <1>4, <1>8

LEMMA AdvancesAlone ==
  ASSUME NEW C, NEW d, AloneInv(d), NEW t \in tasks, Works(t, C), t.by # "worker",
         NEW todo \in Seq(C), EachApart(todo, d), AllOf(todo, d) \subseteq AllOf(t.todo, d),
         GoOn(t, todo, FALSE, {}) \/ GoOn(t, todo, TRUE, {})
  PROVE  /\ AloneInv(d)'
         /\ \A u \in tasks' : \E v \in tasks : OwnSinks(u, d) \subseteq OwnSinks(v, d)
         /\ \A u \in tasks' : u \in tasks \ {t} \/ OwnSinks(u, d) \subseteq AllOf(todo, d)
<1>1. PICK failed \in BOOLEAN : GoOn(t, todo, failed, {})
  OBVIOUS
<1> DEFINE next == [t EXCEPT !.todo = todo, !.failed = @ \/ failed]
<1>2. next.by = t.by /\ next.todo = todo
  BY DEF Works, Goroutine
<1>3. tasks' = (tasks \ {t}) \cup {next}
  BY <1>1 DEF GoOn
<1> HIDE DEF next
<1>4. Apart(next, d) /\ OwnSinks(next, d) = AllOf(todo, d) /\ OwnSinks(t, d) = AllOf(t.todo, d)
  BY <1>2 DEF Apart, OwnSinks
<1> DEFINE W == {next}
<1>5. /\ \A w \in W : Apart(w, d) /\ OwnSinks(w, d) \subseteq OwnSinks(t, d)
      /\ \A v, w \in W : v # w => OwnSinks(v, d) \cap OwnSinks(w, d) = {}
      /\ tasks' \subseteq (tasks \ {t}) \cup W
  BY <1>3, <1>4
<1> HIDE DEF W
<1>6. /\ AloneInv(d)'
      /\ \A u \in tasks' : \E v \in tasks : OwnSinks(u, d) \subseteq OwnSinks(v, d)
  BY <1>5, Divided
<1> QED  BY <1>3, <1>4, <1>6

(* A goroutine ends.                                                       *)
LEMMA EndsAlone ==
  ASSUME NEW d, AloneInv(d), NEW t \in tasks, tasks' = tasks \ {t}
  PROVE  /\ AloneInv(d)'
         /\ \A u \in tasks' : \E v \in tasks : OwnSinks(u, d) \subseteq OwnSinks(v, d)
  BY DEF AloneInv

(* At first nobody holds a sink.                                           *)
LEMMA RetryInit == NamedOnce /\ RouteInit => \E d : RetryInv(d)
<1> SUFFICES ASSUME NamedOnce, RouteInit PROVE \E d : RetryInv(d)
  OBVIOUS
<1>1. tasks = {} /\ DOMAIN got = {}
  BY DEF RouteInit
<1>2. PICK d : Splits(d) /\ (route # NoConsumer => route \in DOMAIN d)
  <2>1. CASE route = NoConsumer
    <3> DEFINE d == [n \in {} |-> {}]
    <3>1. DOMAIN d = {}
      OBVIOUS
    <3> HIDE DEF d
    <3>2. Splits(d)
      BY <3>1 DEF Splits
    <3> QED  BY <2>1, <3>2
  <2>2. CASE route # NoConsumer
    BY <2>2, RouteServes DEF Serves
  <2> QED  BY <2>1, <2>2
<1> QED  BY <1>1, <1>2 DEF RetryInv, AloneInv, RetriesOnlyTheFailed

(* A step that calls no exporter.                                          *)
LEMMA RetryKept ==
  ASSUME NEW d, RetryInv(d), got' = got, route' = route, AloneInv(d)',
         \A u \in tasks' : \E v \in tasks : OwnSinks(u, d) \subseteq OwnSinks(v, d),
         answer' # "none"
  PROVE  RetryInv(d)'
<1>1. (\A t \in tasks : \A s \in OwnSinks(t, d) \cap DOMAIN got : Refusing(s))'
  <2> SUFFICES ASSUME NEW u \in tasks', NEW s \in OwnSinks(u, d), s \in DOMAIN got
               PROVE  \A i \in DOMAIN got[s] : ~got[s][i].ok
    BY DEF Refusing
  <2>1. PICK v \in tasks : s \in OwnSinks(v, d)
    OBVIOUS
  <2> QED  BY <2>1 DEF RetryInv, Refusing
<1>2. RetriesOnlyTheFailed'
  BY DEF RetryInv, RetriesOnlyTheFailed
<1> QED  BY <1>1, <1>2 DEF RetryInv

LEMMA RetrySink ==
  ASSUME NEW C, StagesInv(C), NEW d, RetryInv(d), NEW t \in tasks, CallSink(t)
  PROVE  RetryInv(d)'
<1> DEFINE sink == Target(t).name
           tried == IF sink \in DOMAIN got THEN got[sink] ELSE <<>>
           stages == Head(t.todo).stages
<1>1. PICK ok \in BOOLEAN :
        /\ got' = [s \in DOMAIN got \cup {sink} |->
                      IF s # sink THEN got[s] ELSE Append(tried, [ok |-> ok, stages |-> stages])]
        /\ GoOn(t, Tail(t.todo), ~ok, {})
  BY DEF CallSink
<1>2. /\ t.todo # <<>> /\ Target(t) = Head(t.todo).node /\ Target(t).kind = "sink"
      /\ route' = route /\ answer' = answer
  BY DEF CallSink, Calling, Target
<1>3. Works(t, C) /\ Apart(t, d) /\ AloneInv(d) /\ Splits(d)
  BY DEF StagesInv, RetryInv, AloneInv
<1>4. t.todo \in Seq(C) /\ Tail(t.todo) \in Seq(C)
  BY <1>2, <1>3, HeadTailProperties DEF Works, Goroutine
(* The sink is one of those that t holds; it keeps it if it may try again. *)
<1>5. /\ sink \in OwnSinks(t, d)
      /\ AloneInv(d)'
      /\ \A u \in tasks' : \E v \in tasks : OwnSinks(u, d) \subseteq OwnSinks(v, d)
      /\ \A u \in tasks' : u \in tasks \ {t} \/ sink \notin OwnSinks(u, d) \/ ~ok
  <2>1. CASE t.by # "worker"
    <3>1. EachApart(t.todo, d) /\ OwnSinks(t, d) = AllOf(t.todo, d)
      BY <1>3, <2>1 DEF Apart, OwnSinks
    <3>2. /\ EachApart(Tail(t.todo), d) /\ AllOf(Tail(t.todo), d) \subseteq AllOf(t.todo, d)
          /\ Target(t) \in DOMAIN d /\ d[Target(t)] \subseteq AllOf(t.todo, d)
          /\ d[Target(t)] \cap AllOf(Tail(t.todo), d) = {}
      BY <1>2, <1>4, <3>1, TailApart
    <3>3. sink \in d[Target(t)]
      BY <1>2, <1>3, <3>2 DEF Splits, SplitAt
    <3>4. GoOn(t, Tail(t.todo), FALSE, {}) \/ GoOn(t, Tail(t.todo), TRUE, {})
      <4>1. CASE ok
        BY <1>1, <4>1
      <4>2. CASE ~ok
        BY <1>1, <4>2
      <4> QED  BY <4>1, <4>2
    <3> HIDE DEF sink, tried
    <3>5. PICK rest \in Seq(C) : rest = Tail(t.todo)
      BY <1>4
    <3>6. /\ EachApart(rest, d) /\ AllOf(rest, d) \subseteq AllOf(t.todo, d)
          /\ sink \notin AllOf(rest, d)
          /\ GoOn(t, rest, FALSE, {}) \/ GoOn(t, rest, TRUE, {})
      BY <3>2, <3>3, <3>4, <3>5
    <3>7. /\ AloneInv(d)'
          /\ \A u \in tasks' : \E v \in tasks : OwnSinks(u, d) \subseteq OwnSinks(v, d)
          /\ \A u \in tasks' : u \in tasks \ {t} \/ OwnSinks(u, d) \subseteq AllOf(rest, d)
      BY <1>3, <2>1, <3>5, <3>6, AdvancesAlone
    <3>8. sink \in OwnSinks(t, d)
      BY <3>1, <3>2, <3>3
    <3>9. \A u \in tasks' : u \in tasks \ {t} \/ sink \notin OwnSinks(u, d) \/ ~ok
      BY <3>6, <3>7
    <3> QED  BY <3>7, <3>8, <3>9
  <2>2. CASE t.by = "worker"
    <3>1. /\ sink \in d[t.item.node] /\ Tail(t.todo) = <<>> /\ ~t.failed
          /\ OwnSinks(t, d) = d[t.item.node]
      BY <1>2, <1>3, <2>2, WorkerCalls
    <3> DEFINE next == [t EXCEPT !.todo = <<>>, !.failed = ~ok]
               W == {next}
    <3>2. /\ next.by = "worker" /\ next.item = t.item /\ next.todo = <<>> /\ next.failed = ~ok
          /\ [t EXCEPT !.todo = <<>>, !.failed = @ \/ ~ok] = next
      BY <1>3, <2>2, <3>1 DEF Works, Goroutine
    <3>3. tasks' = (tasks \ {t}) \cup {next}
      BY <1>1, <3>1, <3>2 DEF GoOn
    <3> HIDE DEF next, sink, tried
    <3>4. OwnSinks(next, d) = IF ok THEN {} ELSE d[t.item.node]
      <4>1. CASE ok
        <5>1. ~next.failed
          BY <3>2, <4>1
        <5>2. AllOf(<<>>, d) = {}
          BY DEF AllOf
        <5> QED  BY <3>2, <4>1, <5>1, <5>2 DEF OwnSinks
      <4>2. CASE ~ok
        <5>1. next.failed
          BY <3>2, <4>2
        <5> QED  BY <3>2, <4>2, <5>1 DEF OwnSinks
      <4> QED  BY <4>1, <4>2
    <3>5. Apart(next, d)
      <4>1. EachApart(<<>>, d)
        BY DEF EachApart
      <4> QED  BY <1>3, <2>2, <3>2, <4>1 DEF Apart
    <3>6. /\ \A w \in W : Apart(w, d) /\ OwnSinks(w, d) \subseteq OwnSinks(t, d)
          /\ \A v, w \in W : v # w => OwnSinks(v, d) \cap OwnSinks(w, d) = {}
          /\ tasks' \subseteq (tasks \ {t}) \cup W
      BY <3>1, <3>3, <3>4, <3>5
    <3>7. \A u \in tasks' : u \in tasks \ {t} \/ sink \notin OwnSinks(u, d) \/ ~ok
      BY <3>3, <3>4
    <3> HIDE DEF W
    <3>8. /\ AloneInv(d)'
          /\ \A u \in tasks' : \E v \in tasks : OwnSinks(u, d) \subseteq OwnSinks(v, d)
      BY <1>3, <3>6, Divided
    <3> QED  BY <3>1, <3>7, <3>8
  <2> QED  BY <2>1, <2>2
(* What it kept of earlier calls: all refused.                             *)
<1> DEFINE R == Record(asked.stages)
           e == [ok |-> ok, stages |-> stages]
<1>6. tried \in Seq(R) /\ e \in [ok : BOOLEAN, stages : {stages}] /\ e.ok = ok
      /\ \A i \in DOMAIN tried : ~tried[i].ok
  <2> HIDE DEF sink
  <2>1. CASE sink \in DOMAIN got
    BY <1>5, <2>1 DEF StagesInv, RetryInv, Refusing
  <2>2. CASE sink \notin DOMAIN got
    <3>1. tried = <<>> /\ <<>> \in Seq(R) /\ DOMAIN <<>> = {}
      BY <2>2
    <3> QED  BY <3>1
  <2> QED  BY <2>1, <2>2
<1> HIDE DEF sink, tried, R, e
<1>7. PICK S : tried \in Seq(S) /\ e \in S
  <2> DEFINE S == R \cup {e}
  <2>1. R \subseteq S /\ e \in S
    OBVIOUS
  <2> HIDE DEF S
  <2>2. Range(tried) \subseteq S
    BY <1>6, <2>1, LenProperties, ElementOfSeq DEF Range
  <2>3. tried \in Seq(S)
    BY <1>6, <2>2, WiderSeq
  <2> QED  BY <2>1, <2>3
<1>8. /\ Len(tried) \in Nat /\ DOMAIN tried = 1..Len(tried)
      /\ Len(Append(tried, e)) = Len(tried) + 1
      /\ DOMAIN Append(tried, e) = 1..(Len(tried) + 1)
      /\ \A i \in 1..Len(tried) : Append(tried, e)[i] = tried[i]
      /\ Append(tried, e)[Len(tried) + 1] = e
  BY <1>7, AppendProperties, LenProperties
<1>9. /\ DOMAIN got' = DOMAIN got \cup {sink} /\ got'[sink] = Append(tried, e)
      /\ \A s \in DOMAIN got : s # sink => got'[s] = got[s]
  BY <1>1 DEF e
<1>10. RetriesOnlyTheFailed'
  <2> SUFFICES ASSUME NEW s \in DOMAIN got', NEW i \in 1..(Len(got'[s]) - 1)
               PROVE  ~got'[s][i].ok
    BY DEF RetriesOnlyTheFailed
  <2>1. CASE s # sink
    BY <1>9, <2>1 DEF RetryInv, RetriesOnlyTheFailed
  <2>2. CASE s = sink
    <3>1. i \in 1..Len(tried)
      BY <1>8, <1>9, <2>2
    <3> QED  BY <1>6, <1>8, <1>9, <2>2, <3>1
  <2> QED  BY <2>1, <2>2
<1>11. (\A u \in tasks : \A s \in OwnSinks(u, d) \cap DOMAIN got : Refusing(s))'
  <2> SUFFICES ASSUME NEW u \in tasks', NEW s \in OwnSinks(u, d), s \in DOMAIN got',
                      NEW i \in DOMAIN got'[s]
               PROVE  ~got'[s][i].ok
    BY DEF Refusing
  <2>1. CASE s # sink
    <3>1. PICK v \in tasks : s \in OwnSinks(v, d)
      BY <1>5
    <3> QED  BY <1>9, <2>1, <3>1 DEF RetryInv, Refusing
  <2>2. CASE s = sink
    <3>1. u \notin tasks \ {t}
      BY <1>3, <1>5, <2>2 DEF AloneInv
    <3>2. ~ok
      BY <1>5, <2>2, <3>1
    <3>3. i \in 1..Len(tried) \/ i = Len(tried) + 1
      BY <1>8, <1>9, <2>2
    <3> QED  BY <1>6, <1>8, <1>9, <2>2, <3>2, <3>3
  <2> QED  BY <2>1, <2>2
<1>12. answer' # "none"
  BY <1>2 DEF RetryInv
<1> QED  BY <1>2, <1>5, <1>10, <1>11, <1>12 DEF RetryInv

LEMMA RetryStep ==
  ASSUME NEW C, StagesInv(C), NEW d, RetryInv(d), RouteNext
  PROVE  RetryInv(d)'
<1>1. Splits(d) /\ AloneInv(d)
  BY DEF RetryInv
<1>2. route' = route
  BY DEF RouteNext, TaskStep, Receive, CallFanout, CallStage, CallSampler, CallSink,
         CallQueue, CallTailSampler, Decide, Answer, TailSamplerEnds, WorkerEnds
<1>3. CASE Receive
  <2>1. route \in DOMAIN d /\ tasks = {} /\ DOMAIN got = {} /\ got' = got /\ answer' = "pending"
    BY <1>3 DEF Receive, RetryInv
  <2>2. PICK c : c = Call(route, <<>>)
    OBVIOUS
  <2>3. PICK w : w = Task("receiver", NoCall, <<c>>, 1)
    OBVIOUS
  <2>4. tasks' = {w} /\ w.todo = <<c>> /\ w.by = "receiver" /\ c.node \in DOMAIN d
    BY <1>3, <2>1, <2>2, <2>3 DEF Receive, Task, Call
  <2>5. Apart(w, d)
    <3>1. EachApart(<<c>>, d)
      BY <2>4, OneApart
    <3> QED  BY <2>4, <3>1 DEF Apart
  <2>6. RetriesOnlyTheFailed'
    BY <2>1 DEF RetriesOnlyTheFailed
  <2> QED  BY <1>1, <1>2, <2>1, <2>4, <2>5, <2>6 DEF RetryInv, AloneInv
<1>4. ASSUME NEW t \in tasks, TaskStep(t) PROVE RetryInv(d)'
  <2> DEFINE c == Head(t.todo)
             Kept == /\ AloneInv(d)'
                     /\ \A u \in tasks' : \E v \in tasks : OwnSinks(u, d) \subseteq OwnSinks(v, d)
  <2>1. /\ Works(t, C) /\ Apart(t, d) /\ EachApart(t.todo, d) /\ t.todo \in Seq(C)
        /\ answer # "none" /\ Closed(C, asked.stages)
    BY <1>1 DEF StagesInv, RetryInv, AloneInv, Apart, Works, Goroutine
  <2>2. ASSUME Kept, got' = got, answer' # "none" PROVE RetryInv(d)'
    BY <1>2, <2>2, RetryKept
  <2>3. ASSUME NEW k, Calling(t, k)
        PROVE  /\ t.todo # <<>> /\ c.node = Target(t) /\ c.node.kind = k /\ c \in C
               /\ Tail(t.todo) \in Seq(C) /\ Follow(c, C, asked.stages)
               /\ EachApart(Tail(t.todo), d) /\ AllOf(Tail(t.todo), d) \subseteq AllOf(t.todo, d)
               /\ c.node \in DOMAIN d /\ d[c.node] \subseteq AllOf(t.todo, d)
               /\ d[c.node] \cap AllOf(Tail(t.todo), d) = {}
               /\ SplitAt(c.node, d[c.node], d)
               /\ k # "sink" => t.by # "worker"
    <3>1. t.todo # <<>> /\ c.node = Target(t) /\ c.node.kind = k
      BY <2>3 DEF Calling, Target
    <3>2. c \in C /\ Tail(t.todo) \in Seq(C) /\ Follow(c, C, asked.stages)
      BY <2>1, <3>1, HeadFollows
    <3>3. /\ EachApart(Tail(t.todo), d) /\ AllOf(Tail(t.todo), d) \subseteq AllOf(t.todo, d)
          /\ c.node \in DOMAIN d /\ d[c.node] \subseteq AllOf(t.todo, d)
          /\ d[c.node] \cap AllOf(Tail(t.todo), d) = {}
      BY <2>1, <3>1, TailApart
    <3>4. SplitAt(c.node, d[c.node], d)
      BY <1>1, <3>3 DEF Splits
    <3>5. t.by = "worker" => c.node.kind = "sink"
      BY <1>1, <2>1, <3>1, WorkerCalls
    <3> QED  BY <3>1, <3>2, <3>3, <3>4, <3>5
  (* The calls that come first are replaced by calls of what they held. *)
  <2>4. ASSUME NEW first \in Seq(C), EachApart(first, d), NEW k, Calling(t, k), k # "sink",
               AllOf(first, d) \subseteq d[c.node], GoOn(t, first \o Tail(t.todo), FALSE, {})
        PROVE  Kept
    <3>1. /\ Tail(t.todo) \in Seq(C) /\ EachApart(Tail(t.todo), d)
          /\ AllOf(Tail(t.todo), d) \subseteq AllOf(t.todo, d)
          /\ d[c.node] \subseteq AllOf(t.todo, d)
          /\ d[c.node] \cap AllOf(Tail(t.todo), d) = {} /\ t.by # "worker"
      BY <2>3, <2>4
    <3>2. /\ EachApart(first \o Tail(t.todo), d)
          /\ AllOf(first \o Tail(t.todo), d) \subseteq AllOf(first, d) \cup AllOf(Tail(t.todo), d)
      <4>1. AllOf(first, d) \cap AllOf(Tail(t.todo), d) = {}
        BY <2>4, <3>1
      <4> QED  BY <2>4, <3>1, <4>1, ConcatApart
    <3>3. first \o Tail(t.todo) \in Seq(C)
      BY <3>1, ConcatProperties
    <3>4. AllOf(first \o Tail(t.todo), d) \subseteq AllOf(t.todo, d)
      BY <2>4, <3>1, <3>2
    <3> QED  BY <1>1, <2>1, <2>4, <3>1, <3>2, <3>3, <3>4, AdvancesAlone
  <2>5. ASSUME NEW x \in C, x.node \in DOMAIN d, NEW k, Calling(t, k), k # "sink",
               d[x.node] \subseteq d[c.node], GoOn(t, <<x>> \o Tail(t.todo), FALSE, {})
        PROVE  Kept
    <3>1. EachApart(<<x>>, d) /\ AllOf(<<x>>, d) = d[x.node] /\ <<x>> \in Seq(C)
      BY <2>5, OneApart, OneCall
    <3> QED  BY <2>4, <2>5, <3>1
  <2>6. ASSUME NEW k, Calling(t, k), k # "sink", GoOn(t, Tail(t.todo), FALSE, {})
        PROVE  Kept
    <3>1. /\ Tail(t.todo) \in Seq(C) /\ EachApart(Tail(t.todo), d)
          /\ AllOf(Tail(t.todo), d) \subseteq AllOf(t.todo, d) /\ t.by # "worker"
      BY <2>3, <2>6
    <3> QED  BY <1>1, <2>1, <2>6, <3>1, AdvancesAlone
  <2>7. ASSUME NEW k, Calling(t, k), k # "sink", NEW w, Apart(w, d), OwnSinks(w, d) \subseteq d[c.node],
               GoOn(t, Tail(t.todo), FALSE, {w})
        PROVE  Kept
    <3>1. /\ Tail(t.todo) \in Seq(C) /\ EachApart(Tail(t.todo), d)
          /\ AllOf(Tail(t.todo), d) \subseteq AllOf(t.todo, d) /\ t.by # "worker"
          /\ d[c.node] \subseteq AllOf(t.todo, d)
          /\ d[c.node] \cap AllOf(Tail(t.todo), d) = {}
      BY <2>3, <2>7
    <3>2. Beside({w}, t, Tail(t.todo), d)
      BY <2>7, <3>1 DEF Beside
    <3> QED  BY <1>1, <2>1, <2>7, <3>1, <3>2, Advances
  <2> HIDE DEF c, Kept
  <2>8. CASE CallFanout(t)
    <3> DEFINE first == CallEach(c.node.next, c.stages)
    <3>1. /\ Calling(t, "fanout") /\ GoOn(t, first \o Tail(t.todo), FALSE, {})
          /\ got' = got /\ answer' = answer
      BY <2>8 DEF CallFanout, Target, c
    <3>2. c.node \in DOMAIN d /\ c.node.kind = "fanout" /\ first \in Seq(C)
      BY <2>3, <3>1 DEF Follow
    <3>3. EachApart(first, d) /\ AllOf(first, d) \subseteq d[c.node]
      BY <1>1, <3>2, CallsApart
    <3> HIDE DEF first
    <3>4. Kept
      BY <2>4, <3>1, <3>2, <3>3
    <3> QED  BY <2>1, <2>2, <3>1, <3>4
  <2>9. CASE CallStage(t)
    <3> DEFINE x == Call(c.node.next, Append(c.stages, c.node.name))
    <3>1. /\ Calling(t, "stage") /\ GoOn(t, <<x>> \o Tail(t.todo), FALSE, {})
          /\ got' = got /\ answer' = answer
      BY <2>9 DEF CallStage, Target, c
    <3>2. x \in C /\ x.node = c.node.next /\ x.node \in DOMAIN d /\ d[x.node] \subseteq d[c.node]
      BY <2>3, <3>1 DEF Follow, SplitAt, Call
    <3> HIDE DEF x
    <3>3. Kept
      BY <2>5, <3>1, <3>2
    <3> QED  BY <2>1, <2>2, <3>1, <3>3
  <2>10. CASE CallSampler(t)
    <3> DEFINE x == Call(c.node.next, Append(c.stages, "sample"))
    <3>1. /\ Calling(t, "sampler") /\ got' = got /\ answer' = answer
          /\ \/ GoOn(t, <<x>> \o Tail(t.todo), FALSE, {})
             \/ GoOn(t, Tail(t.todo), FALSE, {})
      BY <2>10 DEF CallSampler, Target, c
    <3>2. x \in C /\ x.node = c.node.next /\ x.node \in DOMAIN d /\ d[x.node] \subseteq d[c.node]
      BY <2>3, <3>1 DEF Follow, SplitAt, Call
    <3> HIDE DEF x
    <3>3. Kept
      BY <2>5, <2>6, <3>1, <3>2
    <3> QED  BY <2>1, <2>2, <3>1, <3>3
  <2>11. CASE CallSink(t)
    BY <2>11, RetrySink
  <2>12. CASE CallQueue(t)
    <3> DEFINE w == Task("worker", c, Attempt(c), 1)
    <3>1. /\ Calling(t, "queue") /\ got' = got /\ answer' = answer
          /\ GoOn(t, Tail(t.todo), FALSE, {w}) \/ GoOn(t, Tail(t.todo), FALSE, {})
      BY <2>12 DEF CallQueue, c
    <3>2. c.node \in DOMAIN d /\ c.node.next \in DOMAIN d
      BY <2>3, <3>1 DEF SplitAt
    <3>3. /\ w.by = "worker" /\ w.item = c /\ w.todo = Attempt(c) /\ w.failed = FALSE
      BY DEF Task
    <3>4. EachApart(Attempt(c), d) /\ Attempt(c) # <<>>
      <4>1. PICK x : x = Call(c.node.next, c.stages)
        OBVIOUS
      <4>2. x.node \in DOMAIN d /\ Attempt(c) = <<x>>
        BY <3>2, <4>1 DEF Call, Attempt
      <4> QED  BY <4>2, OneApart
    <3> HIDE DEF w
    <3>5. Apart(w, d) /\ OwnSinks(w, d) \subseteq d[c.node]
      BY <3>2, <3>3, <3>4 DEF Apart, OwnSinks
    <3>6. Kept
      BY <2>6, <2>7, <3>1, <3>5
    <3> QED  BY <2>1, <2>2, <3>1, <3>6
  <2>13. CASE CallTailSampler(t)
    <3> DEFINE w == Task("tail", NoCall, <<c>>, 1)
    <3>1. /\ Calling(t, "tail") /\ got' = got /\ answer' = answer
          /\ GoOn(t, Tail(t.todo), FALSE, {w})
      BY <2>13 DEF CallTailSampler, c
    <3>2. c.node \in DOMAIN d
      BY <2>3, <3>1
    <3>3. w.by = "tail" /\ w.todo = <<c>>
      BY DEF Task
    <3>4. EachApart(<<c>>, d) /\ AllOf(<<c>>, d) = d[c.node]
      BY <3>2, OneApart
    <3> HIDE DEF w
    <3>5. Apart(w, d) /\ OwnSinks(w, d) \subseteq d[c.node]
      BY <3>3, <3>4 DEF Apart, OwnSinks
    <3>6. Kept
      BY <2>7, <3>1, <3>5
    <3> QED  BY <2>1, <2>2, <3>1, <3>6
  <2>14. CASE Decide(t)
    <3> DEFINE indices == [i \in DOMAIN c.node.next |-> i]
               todo(p) == [i \in DOMAIN p |-> Call(c.node.next[p[i]], c.stages)]
    <3>1. Calling(t, "tail") /\ got' = got /\ answer' = answer /\ t.by # "worker"
      BY <2>14 DEF Decide
    <3>2. PICK sampled : GoOn(t, todo(Only(indices, sampled)), FALSE, {})
      BY <2>14 DEF Decide, Target, c
    <3>3. /\ c.node \in DOMAIN d /\ c.node.kind = "tail" /\ d[c.node] \subseteq AllOf(t.todo, d)
          /\ CallEach(c.node.next, c.stages) \in Seq(C)
      BY <2>3, <3>1 DEF Follow
    <3>4. PICK m \in Nat : DOMAIN c.node.next = 1..m
      BY <3>3, LenProperties DEF CallEach
    <3>5. indices \in Seq(DOMAIN c.node.next) /\ NoRepeat(indices)
      BY <3>4 DEF NoRepeat
    <3>6. PICK picked \in Seq(DOMAIN c.node.next) : picked = Only(indices, sampled) /\ NoRepeat(picked)
      <4> HIDE DEF indices
      <4> QED  BY <3>5, OnlyKeeps
    <3>7. EachApart(todo(picked), d) /\ AllOf(todo(picked), d) \subseteq d[c.node]
      BY <1>1, <3>3, <3>6, PickedApart
    <3>8. todo(picked) \in Seq(C)
      <4>1. /\ Len(picked) \in Nat /\ DOMAIN picked = 1..Len(picked)
            /\ \A i \in 1..Len(picked) : picked[i] \in DOMAIN c.node.next
        BY LenProperties, ElementOfSeq
      <4>2. \A i \in DOMAIN c.node.next : Call(c.node.next[i], c.stages) \in C
        <5>1. /\ DOMAIN CallEach(c.node.next, c.stages) = DOMAIN c.node.next
              /\ \A i \in DOMAIN c.node.next :
                   CallEach(c.node.next, c.stages)[i] = Call(c.node.next[i], c.stages)
          BY DEF CallEach
        <5>2. \A i \in DOMAIN CallEach(c.node.next, c.stages) : CallEach(c.node.next, c.stages)[i] \in C
          BY <3>3, LenProperties, ElementOfSeq
        <5> QED  BY <5>1, <5>2
      <4> QED  BY <4>1, <4>2
    <3>9. GoOn(t, todo(picked), FALSE, {})
      BY <3>2, <3>6
    <3> HIDE DEF todo, indices
    <3>10. AllOf(todo(picked), d) \subseteq AllOf(t.todo, d)
      BY <3>3, <3>7
    <3>11. Kept
      BY <1>1, <2>1, <3>1, <3>7, <3>8, <3>9, <3>10, AdvancesAlone DEF Kept
    <3> QED  BY <2>1, <2>2, <3>1, <3>11
  <2>15. CASE Answer(t)
    <3>1. tasks' = tasks \ {t} /\ got' = got /\ answer' # "none"
      BY <2>15 DEF Answer
    <3> QED  BY <1>1, <2>2, <3>1, EndsAlone DEF Kept
  <2>16. CASE TailSamplerEnds(t)
    <3>1. tasks' = tasks \ {t} /\ got' = got /\ answer' = answer
      BY <2>16 DEF TailSamplerEnds
    <3> QED  BY <1>1, <2>1, <2>2, <3>1, EndsAlone DEF Kept
  <2>17. CASE WorkerEnds(t)
    <3>1. t.todo = <<>> /\ t.by = "worker" /\ got' = got /\ answer' = answer
      BY <2>17 DEF WorkerEnds
    <3>2. CASE tasks' = tasks \ {t}
      BY <1>1, <2>1, <2>2, <3>1, <3>2, EndsAlone DEF Kept
    <3>3. CASE /\ t.failed
               /\ tasks' = (tasks \ {t}) \cup {Task("worker", t.item, Attempt(t.item), t.tries + 1)}
      <4> DEFINE w == Task("worker", t.item, Attempt(t.item), t.tries + 1)
                 W == {w}
      <4>1. w.by = "worker" /\ w.item = t.item /\ w.todo = Attempt(t.item) /\ w.failed = FALSE
        BY DEF Task
      <4>2. /\ t.item.node \in DOMAIN d /\ OwnSinks(t, d) = d[t.item.node]
            /\ SplitAt(t.item.node, d[t.item.node], d) /\ t.item.node.kind = "queue"
        BY <1>1, <2>1, <3>1, <3>3 DEF Apart, OwnSinks, Splits, Works
      <4>3. EachApart(Attempt(t.item), d) /\ Attempt(t.item) # <<>>
        <5>1. PICK x : x = Call(t.item.node.next, t.item.stages)
          OBVIOUS
        <5>2. x.node \in DOMAIN d /\ Attempt(t.item) = <<x>>
          BY <4>2, <5>1 DEF Call, Attempt, SplitAt
        <5> QED  BY <5>2, OneApart
      <4>4. tasks' = (tasks \ {t}) \cup W
        BY <3>3
      <4> HIDE DEF w
      <4>5. Apart(w, d) /\ OwnSinks(w, d) \subseteq OwnSinks(t, d)
        BY <4>1, <4>2, <4>3 DEF Apart, OwnSinks
      <4>6. /\ \A v \in W : Apart(v, d) /\ OwnSinks(v, d) \subseteq OwnSinks(t, d)
            /\ \A u, v \in W : u # v => OwnSinks(u, d) \cap OwnSinks(v, d) = {}
            /\ tasks' \subseteq (tasks \ {t}) \cup W
        BY <4>4, <4>5
      <4> HIDE DEF W
      <4>7. Kept
        BY <1>1, <4>6, Divided DEF Kept
      <4> QED  BY <2>1, <2>2, <3>1, <4>7
    <3> QED  BY <2>17, <3>2, <3>3 DEF WorkerEnds
  <2> QED  BY <1>4, <2>8, <2>9, <2>10, <2>11, <2>12, <2>13, <2>14, <2>15, <2>16, <2>17 DEF TaskStep
<1> QED  BY <1>3, <1>4 DEF RouteNext

(* A sink is not called again once it took the batch, whatever is wired    *)
(* and retried: every sender has a queue of its own, so what is tried      *)
(* again is tried for the sender that failed, and no two goroutines may    *)
(* still call the same sink.  Each sink has to be named once.              *)
THEOREM RetriesForOne == NamedOnce => (RouteSpec => []RetriesOnlyTheFailed)
<1> SUFFICES ASSUME NamedOnce PROVE RouteSpec => []RetriesOnlyTheFailed
  OBVIOUS
<1>1. RouteInit => \E d : RetryInv(d)
  BY RetryInit
<1>2. /\ \E C : StagesInv(C)
      /\ \E d : RetryInv(d)
      /\ [RouteNext]_routeVars
      => (\E d : RetryInv(d))'
  <2> SUFFICES ASSUME NEW C, StagesInv(C), NEW d, RetryInv(d), [RouteNext]_routeVars
               PROVE  RetryInv(d)'
    OBVIOUS
  <2>1. CASE RouteNext
    BY <2>1, RetryStep
  <2>2. CASE UNCHANGED routeVars
    BY <2>2 DEF routeVars, RetryInv, AloneInv, Refusing, RetriesOnlyTheFailed
  <2> QED  BY <2>1, <2>2
<1>3. (\E d : RetryInv(d)) => RetriesOnlyTheFailed
  BY DEF RetryInv
<1> QED  BY <1>1, <1>2, <1>3, StagesAlways, PTL DEF RouteSpec
=============================================================================
