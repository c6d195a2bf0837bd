-------------------------- MODULE QueuedProcessor ---------------------------
(***************************************************************************)
(* internal/collector/processor/queued/queued_processor.go: a bounded      *)
(* queue of span batches between the receivers and a sender, with workers, *)
(* retries and back-off.                                                   *)
(*                                                                         *)
(* queue.BoundedQueue is Jaeger's (not in this repository).  What the code *)
(* relies on: Produce appends, or refuses when the queue is full or was    *)
(* stopped; each worker of StartConsumers takes an item and calls the      *)
(* callback, until the queue is stopped (a worker may still take an item   *)
(* then: its select has both cases ready); Stop refuses new items, lets    *)
(* the workers finish and returns when all have, leaving what is queued.   *)
(*                                                                         *)
(* The sender is whatever SendReturns says: a composition with an exporter *)
(* restricts it (QueuedExport).                                            *)
(***************************************************************************)
EXTENDS Naturals, Sequences, Functions

CONSTANTS
  Items,      \* batches of spans, each given to ConsumeTraceData once
  Workers,
  QueueSize

ASSUME QueueAssumption == QueueSize \in Nat \ {0}

VARIABLES
  retry,       \* retryOnProcessingFailure, chosen when the processor is made
  queue,       \* the BoundedQueue's items
  stopCh,      \* close(sp.stopCh) was executed
  queueStopped,\* BoundedQueue.Stop was called
  stopPc,      \* "notCalled", "queue", "wait" or "returned"
  workerPc,    \* where each worker is
  inHand,      \* [Workers -> the item processed, none or one]
  received,    \* items given to ConsumeTraceData
  processed,   \* [Items -> times it was sent without error]
  dropped      \* [Items -> times onItemDropped counted it]

queueVars == <<retry, queue, stopCh, queueStopped, stopPc, workerPc, inHand, received, processed, dropped>>

QueueTypeOK ==
  /\ retry \in BOOLEAN
  /\ queue \in Seq(Items) /\ Len(queue) <= QueueSize
  /\ stopCh \in BOOLEAN /\ queueStopped \in BOOLEAN
  /\ stopPc \in {"notCalled", "queue", "wait", "returned"}
  /\ workerPc \in [Workers -> {"idle", "sending", "failed", "backoff", "exited"}]
  /\ inHand \in [Workers -> SUBSET Items]
  /\ received \subseteq Items
  /\ processed \in [Items -> Nat]
  /\ dropped \in [Items -> Nat]

QueueInit ==
  /\ retry \in BOOLEAN
  /\ queue = <<>>
  /\ stopCh = FALSE /\ queueStopped = FALSE /\ stopPc = "notCalled"
  /\ workerPc = [w \in Workers |-> "idle"]
  /\ inHand = [w \in Workers |-> {}]
  /\ received = {}
  /\ processed = [i \in Items |-> 0]
  /\ dropped = [i \in Items |-> 0]

-----------------------------------------------------------------------------
Refuses == queueStopped \/ Len(queue) >= QueueSize

(* Produce(i), and onItemDropped when it is refused.                       *)
ProduceOrDrop(i) ==
  IF Refuses
    THEN /\ dropped' = [dropped EXCEPT ![i] = @ + 1]
         /\ UNCHANGED queue
    ELSE /\ queue' = Append(queue, i)
         /\ UNCHANGED dropped

ConsumeTraceData(i) ==
  /\ i \notin received
  /\ received' = received \cup {i}
  /\ ProduceOrDrop(i)
  /\ UNCHANGED <<retry, stopCh, queueStopped, stopPc, workerPc, inHand, processed>>

-----------------------------------------------------------------------------
WorkerTakes(w) ==
  /\ workerPc[w] = "idle"
  /\ queue # <<>>
  /\ inHand' = [inHand EXCEPT ![w] = {Head(queue)}]
  /\ queue' = Tail(queue)
  /\ workerPc' = [workerPc EXCEPT ![w] = "sending"]
  /\ UNCHANGED <<retry, stopCh, queueStopped, stopPc, received, processed, dropped>>

WorkerExits(w) ==
  /\ workerPc[w] = "idle"
  /\ queueStopped
  /\ workerPc' = [workerPc EXCEPT ![w] = "exited"]
  /\ UNCHANGED <<retry, queue, stopCh, queueStopped, stopPc, inHand, received, processed, dropped>>

(* processItemFromQueue: sender.ConsumeTraceData returns.                  *)
SendReturns(w, ok) ==
  /\ workerPc[w] = "sending"
  /\ IF ok
       THEN /\ processed' = [i \in Items |-> IF i \in inHand[w] THEN processed[i] + 1 ELSE processed[i]]
            /\ inHand' = [inHand EXCEPT ![w] = {}]
            /\ workerPc' = [workerPc EXCEPT ![w] = "idle"]
       ELSE /\ workerPc' = [workerPc EXCEPT ![w] = "failed"]
            /\ UNCHANGED <<processed, inHand>>
  /\ UNCHANGED <<retry, queue, stopCh, queueStopped, stopPc, received, dropped>>

(* Bug: a batch that was put back is counted as dropped too.                *)
BugRetryAndDrop(w) ==
  /\ workerPc[w] = "failed"
  /\ \E i \in inHand[w] :
       /\ queue' = IF retry /\ ~Refuses THEN Append(queue, i) ELSE queue
       /\ dropped' = [dropped EXCEPT ![i] = @ + 1]
  /\ inHand' = [inHand EXCEPT ![w] = {}]
  /\ workerPc' = [workerPc EXCEPT ![w] = "backoff"]
  /\ UNCHANGED <<retry, stopCh, queueStopped, stopPc, received, processed>>

(* Bug: a batch that failed is put back at the front.                       *)
BugRequeueFront(w) ==
  /\ workerPc[w] = "failed"
  /\ \E i \in inHand[w] :
       IF retry /\ ~Refuses
         THEN /\ queue' = <<i>> \o queue
              /\ UNCHANGED dropped
         ELSE /\ dropped' = [dropped EXCEPT ![i] = @ + 1]
              /\ UNCHANGED queue
  /\ inHand' = [inHand EXCEPT ![w] = {}]
  /\ workerPc' = [workerPc EXCEPT ![w] = "backoff"]
  /\ UNCHANGED <<retry, stopCh, queueStopped, stopPc, received, processed>>

(* After an error: the batch is discarded, or put back on the queue.       *)
HandleFailure(w) ==
  /\ workerPc[w] = "failed"
  /\ \E i \in inHand[w] :
       IF retry
         THEN ProduceOrDrop(i)
         ELSE /\ dropped' = [dropped EXCEPT ![i] = @ + 1]
              /\ UNCHANGED queue
  /\ inHand' = [inHand EXCEPT ![w] = {}]
  /\ workerPc' = [workerPc EXCEPT ![w] = "backoff"]
  /\ UNCHANGED <<retry, stopCh, queueStopped, stopPc, received, processed>>

(* The timer fires, or stopCh is closed: either way the worker goes on.    *)
BackoffEnds(w) ==
  /\ workerPc[w] = "backoff"
  /\ workerPc' = [workerPc EXCEPT ![w] = "idle"]
  /\ UNCHANGED <<retry, queue, stopCh, queueStopped, stopPc, inHand, received, processed, dropped>>

-----------------------------------------------------------------------------
(* Stop: close(sp.stopCh), then sp.queue.Stop(), which waits.              *)
StopCall ==
  /\ stopPc = "notCalled"
  /\ stopCh' = TRUE
  /\ stopPc' = "queue"
  /\ UNCHANGED <<retry, queue, queueStopped, workerPc, inHand, received, processed, dropped>>

StopQueue ==
  /\ stopPc = "queue"
  /\ queueStopped' = TRUE
  /\ stopPc' = "wait"
  /\ UNCHANGED <<retry, queue, stopCh, workerPc, inHand, received, processed, dropped>>

StopReturn ==
  /\ stopPc = "wait"
  /\ \A w \in Workers : workerPc[w] = "exited"
  /\ stopPc' = "returned"
  /\ UNCHANGED <<retry, queue, stopCh, queueStopped, workerPc, inHand, received, processed, dropped>>

-----------------------------------------------------------------------------
WorkerInQueue(w) == WorkerTakes(w) \/ WorkerExits(w) \/ HandleFailure(w) \/ BackoffEnds(w)

StopSteps == StopQueue \/ StopReturn

QueueStep ==
  \/ \E i \in Items : ConsumeTraceData(i)
  \/ \E w \in Workers : WorkerInQueue(w)
  \/ StopCall
  \/ StopSteps

QueueNext ==
  \/ QueueStep
  \/ \E w \in Workers, ok \in BOOLEAN : SendReturns(w, ok)

QueueSpec == QueueInit /\ [][QueueNext]_queueVars

-----------------------------------------------------------------------------
(* Every batch received is in exactly one place: once in the queue, with   *)
(* one worker, sent once or counted as dropped once.  A retry does not     *)
(* duplicate a batch, and a drop does not hide one that was sent.          *)
Queued(i)  == i \in Range(queue)
Held(i)    == \E w \in Workers : i \in inHand[w]
Counted(i) == processed[i] + dropped[i]

QueuedOnce == \A m, n \in DOMAIN queue : queue[m] = queue[n] => m = n
HeldOnce   == \A w, x \in Workers : w # x => inHand[w] \cap inHand[x] = {}

Accounted(i) ==
  /\ (i \in received) = (Queued(i) \/ Held(i) \/ Counted(i) > 0)
  /\ ~(Queued(i) /\ Held(i))
  /\ Queued(i) \/ Held(i) => Counted(i) = 0
  /\ Counted(i) <= 1

EveryBatchAccounted == QueuedOnce /\ HeldOnce /\ \A i \in Items : Accounted(i)

(* A batch in the queue is tried in the end, whatever the other batches    *)
(* do: one that always fails goes behind it.  (Unless Stop is called: the  *)
(* batches still queued are then left there, and counted nowhere.)         *)
QueuedIsTried ==
  \A i \in Items : Queued(i) ~> Held(i) \/ stopCh

(* Stop returns once it was called.                                        *)
QueueStopReturns == stopPc # "notCalled" ~> stopPc = "returned"

=============================================================================
