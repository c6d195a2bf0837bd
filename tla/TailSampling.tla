---------------------------- MODULE TailSampling ----------------------------
(***************************************************************************)
(* internal/collector/processor/tailsampling/processor.go: the processor   *)
(* keeps the spans of a trace until the sampling policies have decided     *)
(* about it, decisionWait after its first span.                            *)
(*                                                                         *)
(* Who runs: one goroutine for each call of ConsumeTraceData, the ticker's *)
(* goroutine (samplingPolicyOnTick) and the goroutine of the id batcher.   *)
(* They share idToTrace (a sync.Map), the TraceData entries it holds, the  *)
(* channel deleteChan and the batcher, which is used here through the      *)
(* abstract IdPipeline that IdBatcher implements.                          *)
(*                                                                         *)
(* A call is named by its batch b; it carries spans of the traces of       *)
(* TracesOf[b], and the pair <<b, t>> names its spans of t.  The TraceData *)
(* that call b stores in the map for t is named <<b, t>> too: an entry     *)
(* that was evicted and a later one for the same trace are different, and  *)
(* so are their two ids in the batcher.                                    *)
(***************************************************************************)
EXTENDS Integers, Sequences, FiniteSets, Functions

CONSTANTS
  Batches,       \* calls of ConsumeTraceData
  Traces,        \* trace ids
  TracesOf,      \* [Batches -> SUBSET Traces]
  NumPolicies,
  NumBatches,    \* numDecisionBatches, the decision wait in ticks
  MaxNumTraces   \* maxNumTraces, the capacity of deleteChan

ASSUME TailSamplingAssumption ==
  /\ TracesOf \in [Batches -> SUBSET Traces]
  /\ NumPolicies \in Nat \ {0}
  /\ NumBatches \in Nat \ {0}
  /\ MaxNumTraces \in Nat \ {0}

Policies == 1..NumPolicies
Spans    == {s \in Batches \X Traces : s[2] \in TracesOf[s[1]]}
NoTrace  == <<>>

VARIABLES
  idToTrace,       \* [Traces -> the entry stored, or NoTrace]
  decision,        \* TraceData.Decision of each entry
  received,        \* TraceData.ReceivedBatches of each entry
  deleteChan,      \* the ids of the map, oldest first
  numTracesOnMap,
  pending, open, pipe, taken, phase,  \* decisionBatcher
  pc,              \* where each call is
  todo,            \* traces of the call not yet looked at
  entry,           \* [Batches -> actualData, the entry the call works on]
  victim,          \* [Batches -> traceKeyToDrop, none or one]
  policy,          \* [Batches -> the policy of the call's inner loop]
  tickPc,          \* where samplingPolicyOnTick is
  tickBatch,       \* ids of the batch not yet looked at
  tickId,          \* the id looked at
  tickTrace,       \* the entry loaded for it
  tickPolicy,
  sent,            \* [Spans -> [Policies -> times sent to that destination]]
  joined,          \* history: the entry each call found or made for a trace
  evicted          \* history: the entries dropTrace removed

batcherVars == <<pending, open, pipe, taken, phase>>
tickVars    == <<tickPc, tickBatch, tickId, tickTrace, tickPolicy>>
callVars    == <<pc, todo, entry, victim, policy>>
mapVars     == <<idToTrace, deleteChan, numTracesOnMap, evicted>>
traceVars   == <<decision, received, sent>>
vars == <<batcherVars, tickVars, callVars, mapVars, traceVars, joined>>

DecisionBatcher == INSTANCE IdPipeline WITH Ids <- Spans

Decisions == {"pending", "sampled", "notSampled"}

TypeOK ==
  /\ idToTrace \in [Traces -> Spans \cup {NoTrace}]
  /\ decision \in [Spans -> [Policies -> Decisions]]
  /\ received \in [Spans -> SUBSET Batches]
  /\ deleteChan \in Seq(Traces) /\ Len(deleteChan) <= MaxNumTraces
  /\ numTracesOnMap \in Int
  /\ pending \subseteq Spans /\ open \subseteq Spans /\ taken \subseteq Spans
  /\ pipe \in Seq(SUBSET Spans)
  /\ pc \in [Batches -> {"next", "add", "post", "take", "drop", "policies", "done"}]
  /\ todo \in [Batches -> SUBSET Traces]
  /\ entry \in [Batches -> Spans \cup {NoTrace}]
  /\ victim \in [Batches -> SUBSET Traces]
  /\ policy \in [Batches -> Policies]
  /\ tickPc \in {"idle", "load", "evaluate", "send", "clear"}
  /\ tickBatch \subseteq Spans
  /\ tickId \in Spans \cup {NoTrace} /\ tickTrace \in Spans \cup {NoTrace}
  /\ tickPolicy \in Policies
  /\ sent \in [Spans -> [Policies -> Nat]]
  /\ joined \in [Spans -> Spans \cup {NoTrace}]
  /\ evicted \subseteq Spans

Init ==
  /\ idToTrace = [t \in Traces |-> NoTrace]
  /\ decision = [s \in Spans |-> [p \in Policies |-> "pending"]]
  /\ received = [s \in Spans |-> {}]
  /\ deleteChan = <<>> /\ numTracesOnMap = 0
  /\ DecisionBatcher!Init
  /\ pc = [b \in Batches |-> "next"]
  /\ todo = [b \in Batches |-> TracesOf[b]]
  /\ victim = [b \in Batches |-> {}]
  /\ entry = [b \in Batches |-> NoTrace]
  /\ policy = [b \in Batches |-> 1]
  /\ tickPc = "idle" /\ tickBatch = {} /\ tickId = NoTrace
  /\ tickTrace = NoTrace /\ tickPolicy = 1
  /\ sent = [s \in Spans |-> [p \in Policies |-> 0]]
  /\ joined = [s \in Spans |-> NoTrace]
  /\ evicted = {}

-----------------------------------------------------------------------------
(* Bug: the new entry replaces the one stored (Store for LoadOrStore).      *)
BugStoreAlways(b) ==
  /\ pc[b] = "next"
  /\ \E t \in todo[b] :
       /\ todo' = [todo EXCEPT ![b] = @ \ {t}]
       /\ idToTrace' = [idToTrace EXCEPT ![t] = <<b, t>>]
       /\ entry' = [entry EXCEPT ![b] = <<b, t>>]
       /\ joined' = [joined EXCEPT ![<<b, t>>] = <<b, t>>]
  /\ pc' = [pc EXCEPT ![b] = "add"]
  /\ policy' = [policy EXCEPT ![b] = 1]
  /\ UNCHANGED <<batcherVars, tickVars, traceVars, victim, deleteChan, numTracesOnMap, evicted>>

(* ConsumeTraceData, the loop over the traces of the batch (a Go map: in   *)
(* any order).  LoadOrStore makes the entry, with every policy pending, or *)
(* finds the one stored.                                                   *)
LoadOrStore(b) ==
  /\ pc[b] = "next"
  /\ \E t \in todo[b] :
       /\ todo' = [todo EXCEPT ![b] = @ \ {t}]
       /\ IF idToTrace[t] = NoTrace
            THEN /\ idToTrace' = [idToTrace EXCEPT ![t] = <<b, t>>]
                 /\ pc' = [pc EXCEPT ![b] = "add"]
            ELSE /\ UNCHANGED idToTrace
                 /\ pc' = [pc EXCEPT ![b] = "policies"]
       /\ entry' = [entry EXCEPT ![b] = idToTrace'[t]]
       /\ joined' = [joined EXCEPT ![<<b, t>>] = idToTrace'[t]]
  /\ policy' = [policy EXCEPT ![b] = 1]
  /\ UNCHANGED <<batcherVars, tickVars, traceVars, victim, deleteChan, numTracesOnMap, evicted>>

Return(b) ==
  /\ pc[b] = "next" /\ todo[b] = {}
  /\ pc' = [pc EXCEPT ![b] = "done"]
  /\ UNCHANGED <<batcherVars, tickVars, traceVars, mapVars, todo, entry, victim, policy, joined>>

(* decisionBatcher.AddToCurrentBatch, for a new trace, and the atomic      *)
(* increment after it.                                                     *)
AddToBatcher(b) ==
  /\ pc[b] = "add"
  /\ DecisionBatcher!Add(entry[b])
  /\ numTracesOnMap' = numTracesOnMap + 1
  /\ pc' = [pc EXCEPT ![b] = "post"]
  /\ UNCHANGED <<tickVars, traceVars, idToTrace, deleteChan, evicted,
                 todo, entry, victim, policy, joined>>

(* The select: post the new trace for deletion if there is room, else the  *)
(* default case, which receives the oldest and drops it.                   *)
PostDeletion(b) ==
  /\ pc[b] = "post"
  /\ IF Len(deleteChan) < MaxNumTraces
       THEN /\ deleteChan' = Append(deleteChan, entry[b][2])
            /\ pc' = [pc EXCEPT ![b] = "policies"]
       ELSE /\ pc' = [pc EXCEPT ![b] = "take"]
            /\ UNCHANGED deleteChan
  /\ UNCHANGED <<batcherVars, tickVars, traceVars, idToTrace, numTracesOnMap, evicted,
                 todo, entry, victim, policy, joined>>

TakeOldest(b) ==
  /\ pc[b] = "take"
  /\ deleteChan # <<>>
  /\ victim' = [victim EXCEPT ![b] = {Head(deleteChan)}]
  /\ deleteChan' = Tail(deleteChan)
  /\ pc' = [pc EXCEPT ![b] = "drop"]
  /\ UNCHANGED <<batcherVars, tickVars, traceVars, idToTrace, numTracesOnMap, evicted,
                 todo, entry, policy, joined>>

(* Bug: the trace is counted out and left in the map.                       *)
BugDropKeeps(b) ==
  /\ pc[b] = "drop"
  /\ numTracesOnMap' = numTracesOnMap - 1
  /\ victim' = [victim EXCEPT ![b] = {}]
  /\ pc' = [pc EXCEPT ![b] = "post"]
  /\ UNCHANGED <<batcherVars, tickVars, traceVars, idToTrace, evicted, deleteChan,
                 todo, entry, policy, joined>>

(* dropTrace: Load, Delete and the atomic decrement.  (No evaluator does   *)
(* anything in OnDroppedSpans.)                                            *)
DropTrace(b) ==
  /\ pc[b] = "drop"
  /\ \E t \in victim[b] :
       IF idToTrace[t] = NoTrace
         THEN UNCHANGED <<idToTrace, evicted, numTracesOnMap>>
         ELSE /\ idToTrace' = [idToTrace EXCEPT ![t] = NoTrace]
              /\ evicted' = evicted \cup {idToTrace[t]}
              /\ numTracesOnMap' = numTracesOnMap - 1
  /\ victim' = [victim EXCEPT ![b] = {}]
  /\ pc' = [pc EXCEPT ![b] = "post"]
  /\ UNCHANGED <<batcherVars, tickVars, traceVars, deleteChan, todo, entry, policy, joined>>

(* The loop over the policies.  While the decision is pending the spans    *)
(* are kept in the entry, under its lock, and the loop ends; else they go  *)
(* to the destination if the trace is sampled, and the loop goes on.       *)
KeepSpans(b) ==
  /\ pc[b] = "policies"
  /\ decision[entry[b]][policy[b]] = "pending"
  /\ received' = [received EXCEPT ![entry[b]] = @ \cup {b}]
  /\ pc' = [pc EXCEPT ![b] = "next"]
  /\ UNCHANGED <<batcherVars, tickVars, decision, sent, mapVars,
                 todo, entry, victim, policy, joined>>

LateSpans(b) ==
  LET p == policy[b]
      s == <<b, entry[b][2]>>
  IN /\ pc[b] = "policies"
     /\ decision[entry[b]][p] # "pending"
     /\ sent' = IF decision[entry[b]][p] = "sampled"
                  THEN [sent EXCEPT ![s][p] = @ + 1] ELSE sent
     /\ IF p < NumPolicies
          THEN /\ policy' = [policy EXCEPT ![b] = p + 1]
               /\ UNCHANGED pc
          ELSE /\ pc' = [pc EXCEPT ![b] = "next"]
               /\ UNCHANGED policy
     /\ UNCHANGED <<batcherVars, tickVars, decision, received, mapVars,
                    todo, entry, victim, joined>>

-----------------------------------------------------------------------------
(* samplingPolicyOnTick.  The ticker starts with the first call: ticks     *)
(* before it would only move empty batches.                                *)
NextId(batch) == IF batch = {} THEN "idle" ELSE "load"

TickTake ==
  /\ tickPc = "idle"
  /\ DecisionBatcher!CloseAndTake
  /\ tickBatch' = Head(pipe)
  /\ tickPc' = NextId(tickBatch')
  /\ UNCHANGED <<tickId, tickTrace, tickPolicy, callVars, mapVars, traceVars, joined>>

(* Bug: the id looked at stays in the batch.                                *)
BugLoadAgain ==
  /\ tickPc = "load"
  /\ \E id \in tickBatch :
       IF idToTrace[id[2]] = NoTrace
         THEN /\ tickPc' = NextId(tickBatch \ {id})
              /\ UNCHANGED <<tickId, tickTrace>>
         ELSE /\ tickId' = id
              /\ tickTrace' = idToTrace[id[2]]
              /\ tickPc' = "evaluate"
  /\ tickPolicy' = 1
  /\ UNCHANGED <<tickBatch, batcherVars, callVars, mapVars, traceVars, joined>>

(* Bug: an id that is not on the map ends the tick (return for continue).   *)
BugLoadReturns ==
  /\ tickPc = "load"
  /\ \E id \in tickBatch :
       IF idToTrace[id[2]] = NoTrace
         THEN /\ tickPc' = "idle" /\ tickBatch' = {}
              /\ UNCHANGED <<tickId, tickTrace>>
         ELSE /\ tickId' = id
              /\ tickTrace' = idToTrace[id[2]]
              /\ tickPc' = "evaluate"
              /\ tickBatch' = tickBatch \ {id}
  /\ tickPolicy' = 1
  /\ UNCHANGED <<batcherVars, callVars, mapVars, traceVars, joined>>

TickLoad ==
  /\ tickPc = "load"
  /\ \E id \in tickBatch :
       /\ tickBatch' = tickBatch \ {id}
       /\ IF idToTrace[id[2]] = NoTrace       \* idNotFoundOnMapCount++
            THEN /\ tickPc' = NextId(tickBatch')
                 /\ UNCHANGED <<tickId, tickTrace>>
            ELSE /\ tickId' = id
                 /\ tickTrace' = idToTrace[id[2]]
                 /\ tickPc' = "evaluate"
  /\ tickPolicy' = 1
  /\ UNCHANGED <<batcherVars, callVars, mapVars, traceVars, joined>>

NextPolicy ==
  IF tickPolicy < NumPolicies
    THEN tickPolicy' = tickPolicy + 1 /\ tickPc' = "evaluate"
    ELSE tickPolicy' = tickPolicy /\ tickPc' = "clear"

(* Evaluate returns sampled or notSampled (an error counts as notSampled); *)
(* the decision is written without the entry's lock.                       *)
Evaluate ==
  /\ tickPc = "evaluate"
  /\ \E d \in {"sampled", "notSampled"} :
       /\ decision' = [decision EXCEPT ![tickTrace][tickPolicy] = d]
       /\ IF d = "sampled"
            THEN tickPc' = "send" /\ UNCHANGED tickPolicy
            ELSE NextPolicy
  /\ UNCHANGED <<tickBatch, tickId, tickTrace, batcherVars, callVars, mapVars, received, sent, joined>>

(* Bug: the batches are released with the first policy that sends them.     *)
BugSendAndClear ==
  LET ready == {<<b, tickTrace[2]>> : b \in received[tickTrace]}
  IN /\ tickPc = "send"
     /\ sent' = [s \in Spans |->
                   IF s \in ready THEN [sent[s] EXCEPT ![tickPolicy] = @ + 1] ELSE sent[s]]
     /\ received' = [received EXCEPT ![tickTrace] = {}]
     /\ NextPolicy
     /\ UNCHANGED <<tickBatch, tickId, tickTrace, batcherVars, callVars, mapVars, decision, joined>>

(* The batches received so far, read under the lock, go to the policy's    *)
(* destination.                                                            *)
SendReceived ==
  LET ready == {<<b, tickTrace[2]>> : b \in received[tickTrace]}
  IN /\ tickPc = "send"
     /\ sent' = [s \in Spans |->
                   IF s \in ready THEN [sent[s] EXCEPT ![tickPolicy] = @ + 1] ELSE sent[s]]
     /\ NextPolicy
     /\ UNCHANGED <<tickBatch, tickId, tickTrace, batcherVars, callVars, mapVars, decision, received, joined>>

ClearReceived ==
  /\ tickPc = "clear"
  /\ received' = [received EXCEPT ![tickTrace] = {}]
  /\ tickId' = NoTrace /\ tickTrace' = NoTrace /\ tickPolicy' = 1
  /\ tickPc' = NextId(tickBatch)
  /\ UNCHANGED <<tickBatch, batcherVars, callVars, mapVars, decision, sent, joined>>

(* The goroutine of the id batcher.                                        *)
FillBatch ==
  /\ \E id \in Spans : DecisionBatcher!Absorb(id)
  /\ UNCHANGED <<tickVars, callVars, mapVars, traceVars, joined>>

-----------------------------------------------------------------------------
ConsumeTraceData(b) ==
  \/ LoadOrStore(b)
  \/ Return(b)
  \/ AddToBatcher(b)
  \/ PostDeletion(b)
  \/ TakeOldest(b)
  \/ DropTrace(b)
  \/ KeepSpans(b)
  \/ LateSpans(b)

samplingPolicyOnTick ==
  \/ TickTake
  \/ TickLoad
  \/ Evaluate
  \/ SendReceived
  \/ ClearReceived

Next ==
  \/ \E b \in Batches : ConsumeTraceData(b)
  \/ samplingPolicyOnTick
  \/ FillBatch

(* Goroutines are scheduled fairly, destinations return, and the ticker is *)
(* never stopped.  No fairness between the callers waiting on deleteChan   *)
(* is assumed.                                                             *)
Fairness ==
  /\ \A b \in Batches : WF_vars(ConsumeTraceData(b))
  /\ WF_vars(samplingPolicyOnTick)
  /\ WF_vars(FillBatch)

Spec == Init /\ [][Next]_vars
FairSpec == Spec /\ Fairness

-----------------------------------------------------------------------------
(* The calls between the store of a new trace in the map and its post for  *)
(* deletion, and those between a receive from deleteChan and the deletion. *)
StoringCalls  == {b \in Batches : pc[b] \in {"add", "post", "take", "drop"}}
DroppingCalls == {b \in Batches : pc[b] = "drop"}

Storing(t)  == {b \in StoringCalls : entry[b][2] = t}
Dropping(t) == {b \in Batches : t \in victim[b]}

AtMostOne(S) == \A x, y \in S : x = y

(* A trace of the map is in exactly one place: with the call that stores   *)
(* it, in deleteChan, or with a call that drops it; a trace that is not in *)
(* the map is in none.  So dropTrace always finds its trace ("Attempt to   *)
(* delete traceID not on table" is never logged), and no trace stays in    *)
(* the map with nobody able to evict it.                                   *)
EachTraceEvictableOnce ==
  /\ IsInjective(deleteChan)
  /\ \A t \in Traces :
       /\ AtMostOne(Storing(t)) /\ AtMostOne(Dropping(t))
       /\ Storing(t) # {} => t \notin Range(deleteChan) /\ Dropping(t) = {}
       /\ Dropping(t) # {} => t \notin Range(deleteChan)
       /\ idToTrace[t] # NoTrace
            <=> Storing(t) # {} \/ t \in Range(deleteChan) \/ Dropping(t) # {}

(* numTracesOnMap is off by the calls that have stored a trace and not yet *)
(* counted it: the subtraction in dropTrace never wraps the unsigned       *)
(* counter.  Over the traces in deleteChan the map holds one for each call *)
(* in the middle of storing, and another one for each that drops one then. *)
OnMap == {t \in Traces : idToTrace[t] # NoTrace}

TracesCounted ==
  /\ numTracesOnMap \in Nat
  /\ numTracesOnMap = Cardinality(OnMap) - Cardinality({b \in Batches : pc[b] = "add"})
  /\ Cardinality(OnMap)
       = Len(deleteChan) + Cardinality(StoringCalls) + Cardinality(DroppingCalls)
  /\ Len(deleteChan) <= MaxNumTraces

(* The map, the deletion channel, the calls and the counter agree, however *)
(* calls that store and evict traces interleave.                           *)
EvictionAgrees == EachTraceEvictableOnce /\ TracesCounted

(* The entry the ticker evaluates is the one whose id came out of the      *)
(* batcher, so it has waited decisionWait; the exception is a trace that   *)
(* was evicted and stored again while its first id was still in the pipe.  *)
EvaluatedOnTime ==
  tickTrace # NoTrace => tickTrace = tickId \/ tickId \in evicted

(* The entries of traces that were never stored twice.                     *)
StoredOnce(e) == \A f \in evicted : f[2] = e[2] => f = e

Settled(s) == joined[s] # NoTrace /\ ~(pc[s[1]] \in {"add", "post", "take", "drop", "policies"}
                                       /\ entry[s[1]][2] = s[2])

(* What happens to the spans s of a call that has dealt with them, for     *)
(* every policy: kept in the entry while the decision is pending, sent to  *)
(* the destination (or about to be) if it is sampled, not sent if it is    *)
(* not.  No interleaving of the call with the ticker loses them.           *)
SpansFollowDecision ==
  \A s \in Spans : Settled(s) /\ StoredOnce(joined[s]) =>
    LET e == joined[s] IN
    \A p \in Policies :
      CASE decision[e][p] = "pending"    -> s[1] \in received[e]
        [] decision[e][p] = "sampled"    ->
             \/ sent[s][p] > 0
             \/ s[1] \in received[e] /\ tickTrace = e /\ tickPc = "send" /\ tickPolicy = p
        [] decision[e][p] = "notSampled" -> sent[s][p] = 0

(* "Add the spans to the trace, but only once for all policies, otherwise  *)
(* same spans will be duplicated in the final trace": no destination gets  *)
(* the same spans of a trace twice.                                        *)
SpansSentOnce ==
  \A s \in Spans, p \in Policies : sent[s][p] <= 1

(* A decision is final: no step changes it once it is made, except for a   *)
(* trace that was evicted and stored again.                                *)
DecisionIsFinal ==
  [][\A e \in Spans, p \in Policies :
       decision[e][p] # "pending" /\ StoredOnce(e) => decision'[e][p] = decision[e][p]]_vars

(* Every call returns (nobody is left waiting on deleteChan), and every    *)
(* trace that is in the map is decided by every policy, its spans released:*)
(* only an eviction can leave a trace undecided.                           *)
EverythingSettles ==
  <>[]( /\ \A b \in Batches : pc[b] = "done"
        /\ \A t \in Traces : idToTrace[t] # NoTrace =>
             /\ \A p \in Policies : decision[idToTrace[t]][p] # "pending"
             /\ received[idToTrace[t]] = {} )

=============================================================================
