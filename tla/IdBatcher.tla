----------------------------- MODULE IdBatcher ------------------------------
(***************************************************************************)
(* internal/collector/processor/idbatcher/id_batcher.go: the pipeline of   *)
(* id batches that delays the tail sampling decision.                      *)
(*                                                                         *)
(* Who runs: any number of callers of AddToCurrentBatch, the goroutine of  *)
(* New that fills the current batch ("filler"), one reader that calls      *)
(* CloseCurrentAndTakeFirstBatch in a loop (the policy ticker), and one    *)
(* caller of Stop.  cbMutex is not a variable: each of its two critical    *)
(* sections is one step, and SendHasRoom says that the channel send inside *)
(* the reader's section never blocks with the lock held.                   *)
(*                                                                         *)
(* An element of Ids is one call of AddToCurrentBatch.  A batch is the set *)
(* of its ids: nobody uses their order.                                    *)
(***************************************************************************)
EXTENDS Naturals, Sequences, Functions

CONSTANTS
  Ids,
  NumBatches,         \* numBatches of New
  ChannelSize         \* batchChannelSize of New

ASSUME BatcherAssumption ==      \* the two checks of New
  /\ NumBatches \in Nat \ {0}
  /\ ChannelSize \in Nat \ {0}

VARIABLES
  added,          \* ids whose AddToCurrentBatch has returned
  pendingIds,     \* chan ID
  pendingClosed,  \* close(b.pendingIds) was executed
  fillerPc,       \* "receive", "append", "signal" or "done"
  fillerIds,      \* the id received and not yet appended, if any
  currentBatch,
  batches,        \* chan Batch
  batchesClosed,  \* close(b.batches) was executed
  stopped,        \* b.stopped
  stopPc,         \* "notCalled", "wait", "close" or "returned"
  readerPc,       \* "idle", "check", "swap", "panicked" or "finished"
  readBatch,      \* the batch received by the call in progress
  delivered       \* ids of the batches returned so far

stopVars   == <<pendingClosed, stopped, stopPc, batchesClosed>>
fillerVars == <<fillerPc, fillerIds>>
readerVars == <<readerPc, readBatch, delivered>>
vars == <<added, pendingIds, currentBatch, batches, stopVars, fillerVars, readerVars>>

TypeOK ==
  /\ added \subseteq Ids
  /\ pendingIds \in Seq(Ids) /\ Len(pendingIds) <= ChannelSize
  /\ fillerPc \in {"receive", "append", "signal", "done"}
  /\ fillerIds \subseteq Ids
  /\ currentBatch \subseteq Ids
  /\ batches \in Seq(SUBSET Ids)
  /\ readBatch \subseteq Ids /\ delivered \subseteq Ids
  /\ stopPc \in {"notCalled", "wait", "close", "returned"}
  /\ readerPc \in {"idle", "check", "swap", "panicked", "finished"}
  /\ pendingClosed \in BOOLEAN /\ batchesClosed \in BOOLEAN /\ stopped \in BOOLEAN

(* Bug: the pipe is prefilled with one batch too few.                      *)
BugFillShort ==
  /\ added = {}
  /\ pendingIds = <<>> /\ pendingClosed = FALSE
  /\ fillerPc = "receive" /\ fillerIds = {}
  /\ currentBatch = {}
  /\ batches = [i \in 1..(NumBatches - 1) |-> {}]
  /\ batchesClosed = FALSE /\ stopped = FALSE
  /\ stopPc = "notCalled"
  /\ readerPc = "idle" /\ readBatch = {} /\ delivered = {}

(* New: the pipe is prefilled with NumBatches empty batches.               *)
Init ==
  /\ added = {}
  /\ pendingIds = <<>> /\ pendingClosed = FALSE
  /\ fillerPc = "receive" /\ fillerIds = {}
  /\ currentBatch = {}
  /\ batches = [i \in 1..NumBatches |-> {}]
  /\ batchesClosed = FALSE /\ stopped = FALSE
  /\ stopPc = "notCalled"
  /\ readerPc = "idle" /\ readBatch = {} /\ delivered = {}

-----------------------------------------------------------------------------
(* AddToCurrentBatch: the send waits for room.  Adding after Stop panics,  *)
(* as its comment says; no caller does.                                    *)
AddToCurrentBatch(id) ==
  /\ id \notin added
  /\ ~pendingClosed
  /\ Len(pendingIds) < ChannelSize
  /\ pendingIds' = Append(pendingIds, id)
  /\ added' = added \cup {id}
  /\ UNCHANGED <<currentBatch, batches, stopVars, fillerVars, readerVars>>

(* The goroutine of New: for id := range pendingIds.                       *)
FillerReceive ==
  /\ fillerPc = "receive"
  /\ pendingIds # <<>>
  /\ fillerIds' = {Head(pendingIds)}
  /\ pendingIds' = Tail(pendingIds)
  /\ fillerPc' = "append"
  /\ UNCHANGED <<added, currentBatch, batches, stopVars, readerVars>>

FillerAppend ==
  /\ fillerPc = "append"
  /\ currentBatch' = currentBatch \cup fillerIds
  /\ fillerIds' = {}
  /\ fillerPc' = "receive"
  /\ UNCHANGED <<added, pendingIds, batches, stopVars, readerVars>>

(* The range loop ends when the closed channel is empty.                   *)
FillerExit ==
  /\ fillerPc = "receive"
  /\ pendingClosed /\ pendingIds = <<>>
  /\ fillerPc' = "signal"
  /\ UNCHANGED <<added, pendingIds, fillerIds, currentBatch, batches, stopVars, readerVars>>

-----------------------------------------------------------------------------
(* Bug: the front batch is looked at, and stays in the pipe.               *)
BugPeek ==
  /\ readerPc = "idle"
  /\ batches # <<>>
  /\ readBatch' = Head(batches)
  /\ readerPc' = "check"
  /\ UNCHANGED <<added, pendingIds, currentBatch, batches, stopVars, fillerVars, delivered>>

(* CloseCurrentAndTakeFirstBatch.  The receive, the unlocked read of       *)
(* b.stopped and the critical section are three steps; Stop may run        *)
(* between any two of them.                                                *)
ReaderReceive ==
  /\ readerPc = "idle"
  /\ batches # <<>>
  /\ readBatch' = Head(batches)
  /\ batches' = Tail(batches)
  /\ readerPc' = "check"
  /\ UNCHANGED <<added, pendingIds, currentBatch, stopVars, fillerVars, delivered>>

ReaderCheck ==
  /\ readerPc = "check"
  /\ IF stopped
       THEN /\ delivered' = delivered \cup readBatch
            /\ readBatch' = {}
            /\ readerPc' = "idle"
       ELSE /\ readerPc' = "swap"
            /\ UNCHANGED <<delivered, readBatch>>
  /\ UNCHANGED <<added, pendingIds, currentBatch, batches, stopVars, fillerVars>>

(* Bug: the slice pushed to the pipe goes on being filled.                 *)
BugNoNextBatch ==
  /\ readerPc = "swap"
  /\ ~batchesClosed
  /\ Len(batches) < NumBatches
  /\ batches' = Append(batches, currentBatch)
  /\ delivered' = delivered \cup readBatch
  /\ readBatch' = {}
  /\ readerPc' = "idle"
  /\ UNCHANGED <<added, pendingIds, currentBatch, stopVars, fillerVars>>

(* The critical section: the current batch is pushed and replaced.         *)
ReaderSwap ==
  /\ readerPc = "swap"
  /\ ~batchesClosed
  /\ Len(batches) < NumBatches
  /\ batches' = Append(batches, currentBatch)
  /\ currentBatch' = {}
  /\ delivered' = delivered \cup readBatch
  /\ readBatch' = {}
  /\ readerPc' = "idle"
  /\ UNCHANGED <<added, pendingIds, stopVars, fillerVars>>

(* A send on a closed channel panics.                                      *)
ReaderPanic ==
  /\ readerPc = "swap"
  /\ batchesClosed
  /\ readerPc' = "panicked"
  /\ UNCHANGED <<added, pendingIds, currentBatch, batches, stopVars, fillerVars, readBatch, delivered>>

(* Bug: the batch still open is not returned at the end.                   *)
BugForgetLast ==
  /\ readerPc = "idle"
  /\ batches = <<>> /\ batchesClosed
  /\ readerPc' = "finished"
  /\ UNCHANGED <<added, pendingIds, currentBatch, batches, stopVars, fillerVars, readBatch, delivered>>

(* The range loop ends: the current batch is returned, with false.         *)
ReaderFinish ==
  /\ readerPc = "idle"
  /\ batches = <<>> /\ batchesClosed
  /\ delivered' = delivered \cup currentBatch
  /\ currentBatch' = {}
  /\ readerPc' = "finished"
  /\ UNCHANGED <<added, pendingIds, batches, stopVars, fillerVars, readBatch>>

-----------------------------------------------------------------------------
(* Stop: close(pendingIds); stopped = <-stopchan; close(batches).          *)
StopCall ==
  /\ stopPc = "notCalled"
  /\ pendingClosed' = TRUE
  /\ stopPc' = "wait"
  /\ UNCHANGED <<added, pendingIds, currentBatch, batches, stopped, batchesClosed, fillerVars, readerVars>>

(* Bug: Stop does not wait for the filler to have emptied the queue.       *)
BugStopEarly ==
  /\ stopPc = "wait"
  /\ stopped' = TRUE
  /\ stopPc' = "close"
  /\ UNCHANGED <<added, pendingIds, currentBatch, batches, pendingClosed, batchesClosed, fillerVars, readerVars>>

(* stopchan is unbuffered: the filler's send and this receive are one step. *)
StopReceive ==
  /\ stopPc = "wait" /\ fillerPc = "signal"
  /\ stopped' = TRUE
  /\ fillerPc' = "done"
  /\ stopPc' = "close"
  /\ UNCHANGED <<added, pendingIds, fillerIds, currentBatch, batches, pendingClosed, batchesClosed, readerVars>>

StopClose ==
  /\ stopPc = "close"
  /\ batchesClosed' = TRUE
  /\ stopPc' = "returned"
  /\ UNCHANGED <<added, pendingIds, currentBatch, batches, pendingClosed, stopped, fillerVars, readerVars>>

-----------------------------------------------------------------------------
Filler == FillerReceive \/ FillerAppend \/ FillerExit
Reader == ReaderReceive \/ ReaderCheck \/ ReaderSwap \/ ReaderPanic \/ ReaderFinish
Stop   == StopCall \/ StopReceive \/ StopClose

Next ==
  \/ \E id \in Ids : AddToCurrentBatch(id)
  \/ Filler
  \/ Reader
  \/ Stop

(* The runtime schedules the filler; the policy ticker calls the reader    *)
(* for as long as the process runs; a Stop that was called goes on.        *)
Fairness ==
  /\ WF_vars(Filler)
  /\ WF_vars(ReaderReceive \/ ReaderFinish)
  /\ WF_vars(ReaderCheck \/ ReaderSwap \/ ReaderPanic)
  /\ WF_vars(StopReceive) /\ WF_vars(StopClose)

Spec == Init /\ [][Next]_vars
FairSpec == Spec /\ Fairness

-----------------------------------------------------------------------------
(* The places an added id can be in.                                       *)
InPending == Range(pendingIds)
InPipe    == UNION Range(batches)

(* Every added id is in exactly one place, and in one batch of the pipe:   *)
(* no interleaving of the filler, the reader and Stop loses an id or       *)
(* returns it twice.                                                       *)
NoIdLost ==
  added = InPending \cup fillerIds \cup currentBatch \cup InPipe \cup readBatch \cup delivered

PendingOnce ==
  /\ \A i, j \in DOMAIN pendingIds : pendingIds[i] = pendingIds[j] => i = j
  /\ InPending \cap (fillerIds \cup currentBatch \cup InPipe \cup readBatch \cup delivered) = {}

HeldOnce ==
  /\ fillerIds \cap (currentBatch \cup InPipe \cup readBatch \cup delivered) = {}
  /\ currentBatch \cap (InPipe \cup readBatch \cup delivered) = {}

PipedOnce ==
  /\ \A i, j \in DOMAIN batches : i # j => batches[i] \cap batches[j] = {}
  /\ InPipe \cap (readBatch \cup delivered) = {}
  /\ readBatch \cap delivered = {}

ExactlyOnce == NoIdLost /\ PendingOnce /\ HeldOnce /\ PipedOnce

(* The send the reader makes with cbMutex locked always finds room in the  *)
(* pipe: if it blocked, the filler could not append, and nobody would ever *)
(* read the pipe.                                                          *)
SendHasRoom ==
  readerPc = "swap" => Len(batches) < NumBatches

(* When the reader is told that there are no more batches (the false that  *)
(* CloseCurrentAndTakeFirstBatch returns) every id ever added has been     *)
(* delivered.                                                              *)
DrainedMeansAllDelivered ==
  readerPc = "finished" => delivered = added

(* Every added id reaches the reader, with or without a Stop, unless the   *)
(* call that has it in hand panics.                                        *)
EveryIdDelivered ==
  \A id \in Ids : id \in added ~> id \in delivered \/ readerPc = "panicked"

(* The pipeline the interface describes.  A call of the reader takes       *)
(* effect when it swaps the current batch: until then the batch it has     *)
(* received still counts as the front of the pipe.                         *)
InCall == readerPc \in {"check", "swap", "panicked"}

PipePhase ==
  IF readerPc = "finished" THEN "drained"
  ELSE IF pendingClosed THEN "stopping" ELSE "running"

FullPipe == IF InCall THEN <<readBatch>> \o batches ELSE batches

Pipeline == INSTANCE IdPipeline WITH
  pending <- InPending \cup fillerIds,
  open    <- currentBatch,
  pipe    <- FullPipe,
  taken   <- delivered,
  phase   <- PipePhase

(* The batcher implements the pipeline: closing and taking look atomic,    *)
(* and an id is delayed by exactly NumBatches closes.                      *)
ImplementsPipeline == Pipeline!Spec

=============================================================================
