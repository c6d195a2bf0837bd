----------------------------- MODULE OCExporter -----------------------------
(***************************************************************************)
(* exporter/opencensusexporter/opencensus.go: a pool of connections to an  *)
(* OpenCensus agent, kept in a channel.  PushTraceData takes one, exports  *)
(* with it and puts it back; stop takes all of them, stops each in a       *)
(* goroutine of its own, waits, and closes the channel.                    *)
(*                                                                         *)
(* ocagent.Exporter (not in this repository) exports with or without an    *)
(* error, and stops.                                                       *)
(***************************************************************************)
EXTENDS Naturals, FiniteSets

CONSTANTS
  Pushers,     \* goroutines that call PushTraceData
  Exporters    \* numWorkers connections: the capacity of the channel

VARIABLES
  pool,          \* the channel's content (the order does not matter)
  poolClosed,    \* close(oce.exporters) was executed
  pushPc,        \* "out", "waiting", "exporting" or "panicked"
  holding,       \* [Pushers -> the exporter taken, none or one]
  collected,     \* the exporters that stop has taken
  stoppedExp,    \* those whose Stop has returned
  stopExpPc      \* "notCalled", "collect", "wait" or "returned"

poolVars == <<pool, poolClosed, pushPc, holding, collected, stoppedExp, stopExpPc>>

PoolTypeOK ==
  /\ pool \subseteq Exporters
  /\ poolClosed \in BOOLEAN
  /\ pushPc \in [Pushers -> {"out", "waiting", "exporting", "panicked"}]
  /\ holding \in [Pushers -> SUBSET Exporters]
  /\ collected \subseteq Exporters
  /\ stoppedExp \subseteq Exporters
  /\ stopExpPc \in {"notCalled", "collect", "wait", "returned"}

PoolInit ==
  /\ pool = Exporters
  /\ poolClosed = FALSE
  /\ pushPc = [p \in Pushers |-> "out"]
  /\ holding = [p \in Pushers |-> {}]
  /\ collected = {} /\ stoppedExp = {}
  /\ stopExpPc = "notCalled"

-----------------------------------------------------------------------------
PushCall(p) ==
  /\ pushPc[p] = "out"
  /\ pushPc' = [pushPc EXCEPT ![p] = "waiting"]
  /\ UNCHANGED <<pool, poolClosed, holding, collected, stoppedExp, stopExpPc>>

PushTakes(p) ==
  /\ pushPc[p] = "waiting"
  /\ \E e \in pool :
       /\ holding' = [holding EXCEPT ![p] = {e}]
       /\ pool' = pool \ {e}
  /\ pushPc' = [pushPc EXCEPT ![p] = "exporting"]
  /\ UNCHANGED <<poolClosed, collected, stoppedExp, stopExpPc>>

(* errAlreadyStopped.                                                      *)
PushFindsClosed(p) ==
  /\ pushPc[p] = "waiting"
  /\ poolClosed /\ pool = {}
  /\ pushPc' = [pushPc EXCEPT ![p] = "out"]
  /\ UNCHANGED <<pool, poolClosed, holding, collected, stoppedExp, stopExpPc>>

(* The request returned, with an error or not: the exporter goes back.  A  *)
(* send on the closed channel would panic.                                 *)
PushReturns(p) ==
  /\ pushPc[p] = "exporting"
  /\ IF poolClosed
       THEN /\ pushPc' = [pushPc EXCEPT ![p] = "panicked"]
            /\ UNCHANGED <<pool, holding>>
       ELSE /\ pool' = pool \cup holding[p]
            /\ holding' = [holding EXCEPT ![p] = {}]
            /\ pushPc' = [pushPc EXCEPT ![p] = "out"]
  /\ UNCHANGED <<poolClosed, collected, stoppedExp, stopExpPc>>

-----------------------------------------------------------------------------
(* stop, called once (a second call would close the channel again).        *)
StopExporters ==
  /\ stopExpPc = "notCalled"
  /\ stopExpPc' = "collect"
  /\ UNCHANGED <<pool, poolClosed, pushPc, holding, collected, stoppedExp>>

(* Bug: stop takes the exporters that are free, and does not wait for the   *)
(* others.                                                                  *)
BugCollectFree ==
  /\ stopExpPc = "collect"
  /\ pool' = {}
  /\ collected' = pool
  /\ stopExpPc' = "wait"
  /\ UNCHANGED <<poolClosed, pushPc, holding, stoppedExp>>

(* The loop ends when it has visited as many as the channel can hold.      *)
CollectExporter ==
  /\ stopExpPc = "collect"
  /\ \E e \in pool :
       /\ pool' = pool \ {e}
       /\ collected' = collected \cup {e}
  /\ stopExpPc' = IF Cardinality(collected') = Cardinality(Exporters) THEN "wait" ELSE "collect"
  /\ UNCHANGED <<poolClosed, pushPc, holding, stoppedExp>>

ExporterStops(e) ==
  /\ e \in collected \ stoppedExp
  /\ stoppedExp' = stoppedExp \cup {e}
  /\ UNCHANGED <<pool, poolClosed, pushPc, holding, collected, stopExpPc>>

(* Bug: the channel is not closed.                                          *)
BugNoClose ==
  /\ stopExpPc = "wait"
  /\ stoppedExp = collected
  /\ stopExpPc' = "returned"
  /\ UNCHANGED <<pool, poolClosed, pushPc, holding, collected, stoppedExp>>

ClosePool ==
  /\ stopExpPc = "wait"
  /\ stoppedExp = collected
  /\ poolClosed' = TRUE
  /\ stopExpPc' = "returned"
  /\ UNCHANGED <<pool, pushPc, holding, collected, stoppedExp>>

StopStep == CollectExporter \/ ClosePool \/ \E e \in Exporters : ExporterStops(e)

PoolNext ==
  \/ \E p \in Pushers : PushCall(p) \/ PushTakes(p) \/ PushFindsClosed(p) \/ PushReturns(p)
  \/ StopExporters
  \/ StopStep

PoolSpec == PoolInit /\ [][PoolNext]_poolVars

-----------------------------------------------------------------------------
(* Every exporter is in the pool, or with one caller of PushTraceData, or  *)
(* taken by stop: no export runs on an exporter that is being stopped, and *)
(* the channel is never closed while a push has an exporter to put back    *)
(* (which would panic).                                                    *)
ExportersConserved ==
  /\ \A e \in Exporters : e \in pool \cup collected \/ \E p \in Pushers : e \in holding[p]
  /\ pool \cap collected = {}
  /\ \A p \in Pushers : holding[p] \cap (pool \cup collected) = {}
  /\ \A p, q \in Pushers : p # q => holding[p] \cap holding[q] = {}
  /\ \A p \in Pushers : pushPc[p] = "exporting" => ~poolClosed

=============================================================================
