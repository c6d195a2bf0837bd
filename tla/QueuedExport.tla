---------------------------- MODULE QueuedExport ----------------------------
(***************************************************************************)
(* The queued processor with an OpenCensus exporter as its sender: the     *)
(* workers are the callers of PushTraceData (through the wrapper of        *)
(* exporterhelper, which adds only a trace span and metrics), and share    *)
(* its connections.  The processor and the exporter are stopped            *)
(* independently, in any order.                                            *)
(***************************************************************************)
EXTENDS QueuedProcessor, FiniteSets

CONSTANT Exporters

ASSUME ExportersAssumption == IsFiniteSet(Exporters)   \* the capacity of a channel

VARIABLES pool, poolClosed, pushPc, holding, collected, stoppedExp, stopExpPc

Exporter == INSTANCE OCExporter WITH Pushers <- Workers

exporterVars == <<pool, poolClosed, pushPc, holding, collected, stoppedExp, stopExpPc>>
vars == <<queueVars, exporterVars>>

TypeOK == QueueTypeOK /\ Exporter!PoolTypeOK

Init == QueueInit /\ Exporter!PoolInit

-----------------------------------------------------------------------------
InQueue == QueueStep /\ UNCHANGED exporterVars

InPool == (Exporter!StopExporters \/ Exporter!StopStep) /\ UNCHANGED queueVars

(* A worker that has an item calls the exporter, and waits for it.         *)
Push(w) ==
  /\ workerPc[w] = "sending"
  /\ \/ Exporter!PushCall(w)
     \/ Exporter!PushTakes(w)
  /\ UNCHANGED queueVars

Exported(w) ==
  /\ Exporter!PushReturns(w)
  /\ \E ok \in BOOLEAN : SendReturns(w, ok)

AlreadyStopped(w) ==
  /\ Exporter!PushFindsClosed(w)
  /\ SendReturns(w, FALSE)

Sending(w) == Push(w) \/ Exported(w) \/ AlreadyStopped(w)

Next ==
  \/ InQueue
  \/ InPool
  \/ \E w \in Workers : Sending(w)

(* Workers run; a connection's export and Stop return; the receivers that  *)
(* wait on a Go channel are served in turn, so that neither a worker nor   *)
(* stop is passed over for ever by others taking exporters; so are the     *)
(* workers waiting for an item.                                            *)
Fairness ==
  /\ \A w \in Workers :
       /\ SF_vars(Push(w))
       /\ WF_vars(Exported(w) \/ AlreadyStopped(w))
       /\ WF_vars(WorkerInQueue(w) /\ UNCHANGED exporterVars)
  /\ WF_vars(StopSteps /\ UNCHANGED exporterVars)
  /\ SF_vars(Exporter!CollectExporter /\ UNCHANGED queueVars)
  /\ WF_vars(Exporter!StopStep /\ UNCHANGED queueVars)

Spec == Init /\ [][Next]_vars
FairSpec == Spec /\ Fairness

-----------------------------------------------------------------------------
(* Every exporter is in the pool, or with one worker, or taken by stop.    *)
ExportersConserved == Exporter!ExportersConserved

(* Both stops return once called, in whatever order and overlap: the       *)
(* workers that wait for a connection are released when the pool is        *)
(* closed, and a worker always gives its connection back.                  *)
StopsReturn ==
  /\ QueueStopReturns
  /\ stopExpPc # "notCalled" ~> stopExpPc = "returned"

=============================================================================
