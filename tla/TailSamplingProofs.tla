------------------------- MODULE TailSamplingProofs -------------------------
(***************************************************************************)
(* Theorems about TailSampling, for any calls, traces, policies and sizes: *)
(* the types, that a trace is evaluated after its wait, that decisions are *)
(* final and the spans of every call follow them, and that the map, the    *)
(* deletion channel and the counter agree.                                 *)
(***************************************************************************)
EXTENDS TailSampling, DataLemmas

InBatcher == pending \cup open \cup (UNION Range(pipe)) \cup taken

(* Entries that are, or were, in the map.                                  *)
Stored == {e \in Spans : idToTrace[e[2]] = e} \cup evicted

(* The map has a trace's entry under its id; a call has an entry from      *)
(* LoadOrStore on, and a victim while it drops one.                        *)
MapInv == \A t \in Traces : idToTrace[t] # NoTrace => idToTrace[t][2] = t

CallInv(b) ==
  /\ pc[b] \notin {"next", "done"} => entry[b] \in Spans
  /\ pc[b] = "add" => entry[b] \in Stored
  /\ todo[b] \subseteq TracesOf[b]
  /\ IF pc[b] = "drop" THEN \E t \in Traces : victim[b] = {t} ELSE victim[b] = {}

(* The ticker looks at ids that came out of the batcher, each at a time.   *)
TickInv ==
  /\ tickBatch \subseteq taken
  /\ tickPc = "idle" => tickBatch = {}
  /\ IF tickPc \in {"idle", "load"} THEN tickTrace = NoTrace
     ELSE /\ tickTrace \in Spans /\ tickId \in taken \ tickBatch
          /\ tickId[2] = tickTrace[2]

BaseInv ==
  /\ TypeOK /\ MapInv /\ TickInv /\ EvaluatedOnTime
  /\ \A b \in Batches : CallInv(b)
  /\ InBatcher \subseteq Stored

(* An id is in one place of the batcher.                                   *)
InPipe == UNION Range(pipe)

PipeInv ==
  /\ Disjoint(pipe)
  /\ pending \cap open = {} /\ pending \cap InPipe = {} /\ open \cap InPipe = {}
  /\ taken \cap (pending \cup open \cup InPipe) = {}

(* How far the ticker is with the policies of an entry: it has not begun   *)
(* before the entry's id came out, decides one by one, and leaves none.    *)
Decided(e, p) == decision[e][p] # "pending"

Progress(e) ==
  /\ e \notin taken \ tickBatch => \A p \in Policies : ~Decided(e, p)
  /\ IF tickTrace = e
     THEN \A p \in Policies : Decided(e, p) <=>
            p < tickPolicy \/ (p = tickPolicy /\ tickPc \in {"send", "clear"})
     ELSE (\A p \in Policies : ~Decided(e, p)) \/ \A p \in Policies : Decided(e, p)

DecisionInv ==
  /\ PipeInv
  /\ \A e \in Spans : StoredOnce(e) => Progress(e)
  /\ tickPc = "send" => decision[tickTrace][tickPolicy] = "sampled"
  /\ tickPc = "clear" => tickPolicy = NumPolicies

(* A call joins one entry for each of its traces, the one that it has in   *)
(* hand for the trace that it looks at.                                    *)
JoinInv ==
  /\ \A s \in Spans : joined[s] = NoTrace <=> s[2] \in todo[s[1]]
  /\ \A s \in Spans : joined[s] # NoTrace => joined[s][2] = s[2]
  /\ \A b \in Batches : pc[b] \notin {"next", "done"} =>
       <<b, entry[b][2]>> \in Spans /\ joined[<<b, entry[b][2]>>] = entry[b]

(* An entry keeps spans of calls that joined it and are through with it.   *)
KeptInv ==
  \A e \in Spans : \A b \in received[e] :
    LET s == <<b, e[2]>> IN s \in Spans /\ joined[s] = e /\ Settled(s)

(* The policies that a call has passed have decided.                       *)
LoopInv ==
  \A b \in Batches :
    /\ pc[b] \in {"add", "post", "take", "drop"} => policy[b] = 1
    /\ pc[b] = "policies" => \A p \in Policies : p < policy[b] => Decided(entry[b], p)

(* What SpansFollowDecision says, for each policy as soon as the call has  *)
(* passed it; and spans are only sent for a decision.                      *)
Passed(s, p) ==
  \/ Settled(s)
  \/ /\ joined[s] # NoTrace
     /\ pc[s[1]] = "policies" /\ entry[s[1]][2] = s[2] /\ p < policy[s[1]]

Sending(e, p) == tickTrace = e /\ tickPc = "send" /\ tickPolicy = p

Follows(s, p) ==
  LET e == joined[s] IN
  /\ decision[e][p] # "sampled" => sent[s][p] = 0
  /\ decision[e][p] = "pending" /\ Passed(s, p) => s[1] \in received[e]
  /\ decision[e][p] = "sampled" /\ Passed(s, p) =>
       sent[s][p] > 0 \/ (s[1] \in received[e] /\ Sending(e, p))

(* Spans that no entry has are not sent.                                   *)
NotSent(s) == joined[s] = NoTrace => \A p \in Policies : sent[s][p] = 0

FollowInv ==
  /\ \A s \in Spans : NotSent(s)
  /\ \A s \in Spans, p \in Policies :
       joined[s] # NoTrace /\ StoredOnce(joined[s]) => Follows(s, p)

SpanInv == JoinInv /\ KeptInv /\ LoopInv /\ FollowInv

(* The sets that are counted are finite.  A call counts its trace between  *)
(* the store and the post, so the counter is not below zero.               *)
AddCalls == {b \in Batches : pc[b] = "add"}

Finite ==
  /\ IsFiniteSet(OnMap) /\ IsFiniteSet(StoringCalls) /\ IsFiniteSet(DroppingCalls)
  /\ IsFiniteSet(AddCalls)

Counts ==
  /\ numTracesOnMap = Cardinality(OnMap) - Cardinality(AddCalls)
  /\ Cardinality(OnMap) = Len(deleteChan) + Cardinality(StoringCalls) + Cardinality(DroppingCalls)

(* EachTraceEvictableOnce, for a trace.                                    *)
Evictable(t) ==
  /\ AtMostOne(Storing(t)) /\ AtMostOne(Dropping(t))
  /\ Storing(t) # {} => t \notin Range(deleteChan) /\ Dropping(t) = {}
  /\ Dropping(t) # {} => t \notin Range(deleteChan)
  /\ idToTrace[t] # NoTrace <=> Storing(t) # {} \/ t \in Range(deleteChan) \/ Dropping(t) # {}

EvictInv == NoRepeat(deleteChan) /\ (\A t \in Traces : Evictable(t)) /\ Finite /\ Counts
-----------------------------------------------------------------------------
LEMMA SpanFacts ==
  /\ NoTrace \notin Spans
  /\ \A e \in Spans : /\ e = <<e[1], e[2]>> /\ e[1] \in Batches
                      /\ e[2] \in Traces /\ e[2] \in TracesOf[e[1]]
  /\ \A b \in Batches : \A t \in TracesOf[b] :
       t \in Traces /\ <<b, t>> \in Spans /\ <<b, t>>[1] = b /\ <<b, t>>[2] = t
BY TailSamplingAssumption DEF TailSamplingAssumption, Spans, NoTrace

LEMMA PolicyFacts ==
  /\ 1 \in Policies /\ NumPolicies \in Policies
  /\ \A p \in Policies : p \in Nat /\ (p < NumPolicies => p + 1 \in Policies)
BY TailSamplingAssumption DEF TailSamplingAssumption, Policies

LEMMA KnownIds == DecisionBatcher!Known = InBatcher
BY DEF DecisionBatcher!Known, DecisionBatcher!Range, InBatcher, Range

LEMMA BaseInit == Init => BaseInv
<1> SUFFICES ASSUME Init PROVE BaseInv
  OBVIOUS
<1> USE TailSamplingAssumption DEF TailSamplingAssumption, Init, DecisionBatcher!Init
<1>1. pipe \in Seq(SUBSET Spans) /\ UNION Range(pipe) = {}
  <2>1. pipe \in Seq(SUBSET Spans)
    BY IsASeq
  <2> QED  BY <2>1 DEF Range
<1>2. TypeOK
  BY <1>1 DEF TypeOK, Policies, Decisions
<1>3. MapInv /\ TickInv /\ EvaluatedOnTime /\ \A b \in Batches : CallInv(b)
  BY DEF MapInv, TickInv, EvaluatedOnTime, CallInv
<1>4. InBatcher = {}
  BY <1>1 DEF InBatcher
<1> QED  BY <1>2, <1>3, <1>4 DEF BaseInv

(* Nothing leaves Stored.                                                  *)
LEMMA StoredGrows ==
  ASSUME BaseInv, [Next]_vars
  PROVE  Stored \subseteq Stored' /\ evicted \subseteq evicted'
<1> USE DEF Stored
<1>1. ASSUME NEW b \in Batches, LoadOrStore(b) PROVE Stored \subseteq Stored' /\ evicted' = evicted
  BY <1>1, SpanFacts DEF LoadOrStore, BaseInv, TypeOK
<1>2. ASSUME NEW b \in Batches, DropTrace(b) PROVE Stored \subseteq Stored' /\ evicted \subseteq evicted'
  BY <1>2, SpanFacts DEF DropTrace, BaseInv, TypeOK, mapVars
<1>3. ASSUME NEW b \in Batches, ConsumeTraceData(b), ~LoadOrStore(b), ~DropTrace(b)
      PROVE  UNCHANGED <<idToTrace, evicted>>
  BY <1>3 DEF ConsumeTraceData, Return, AddToBatcher, PostDeletion, TakeOldest, KeepSpans,
              LateSpans, mapVars
<1>4. CASE samplingPolicyOnTick \/ FillBatch \/ UNCHANGED vars
  BY <1>4 DEF samplingPolicyOnTick, TickTake, TickLoad, Evaluate, SendReceived, ClearReceived,
              FillBatch, vars, mapVars
<1> QED  BY <1>1, <1>2, <1>3, <1>4 DEF Next

(* Types, by action.                                                       *)
LEMMA CallTypes ==
  ASSUME BaseInv, NEW b \in Batches, ConsumeTraceData(b)
  PROVE  TypeOK'
<1>0. TypeOK /\ CallInv(b)
  BY DEF BaseInv
<1>1. CASE LoadOrStore(b)
  <2>1. PICK t \in todo[b] :
          /\ idToTrace' = IF idToTrace[t] = NoTrace THEN [idToTrace EXCEPT ![t] = <<b, t>>] ELSE idToTrace
          /\ entry' = [entry EXCEPT ![b] = idToTrace'[t]]
          /\ joined' = [joined EXCEPT ![<<b, t>>] = idToTrace'[t]]
          /\ todo' = [todo EXCEPT ![b] = @ \ {t}]
    BY <1>1 DEF LoadOrStore
  <2>2. t \in Traces /\ t \in TracesOf[b] /\ <<b, t>> \in Spans
    BY <1>0, <2>1, SpanFacts DEF CallInv
  <2>3. idToTrace' \in [Traces -> Spans \cup {NoTrace}] /\ idToTrace'[t] \in Spans \cup {NoTrace}
    BY <1>0, <2>1, <2>2 DEF TypeOK
  <2>4. /\ entry' \in [Batches -> Spans \cup {NoTrace}]
        /\ joined' \in [Spans -> Spans \cup {NoTrace}]
        /\ todo' \in [Batches -> SUBSET Traces]
    BY <1>0, <2>1, <2>2, <2>3 DEF TypeOK
  <2>5. /\ pc' \in [Batches -> {"next", "add", "post", "take", "drop", "policies", "done"}]
        /\ policy' \in [Batches -> Policies]
    <3>1. pc' = [pc EXCEPT ![b] = "add"] \/ pc' = [pc EXCEPT ![b] = "policies"]
      BY <1>1 DEF LoadOrStore
    <3>2. policy' = [policy EXCEPT ![b] = 1]
      BY <1>1 DEF LoadOrStore
    <3> QED  BY <1>0, <3>1, <3>2, PolicyFacts DEF TypeOK
  <2> QED  BY <1>0, <1>1, <2>3, <2>4, <2>5 DEF LoadOrStore, TypeOK, batcherVars, tickVars, traceVars
<1>2. CASE Return(b)
  BY <1>0, <1>2 DEF TypeOK, Return, batcherVars, tickVars, traceVars, mapVars
<1>3. CASE AddToBatcher(b)
  <2>1. pending' \subseteq Spans /\ UNCHANGED <<open, pipe, taken>>
    BY <1>0, <1>3 DEF AddToBatcher, CallInv, DecisionBatcher!Add, TypeOK
  <2> QED  BY <1>0, <1>3, <2>1 DEF TypeOK, AddToBatcher, tickVars, traceVars
<1>4. CASE PostDeletion(b)
  <2>1. deleteChan' \in Seq(Traces) /\ Len(deleteChan') <= MaxNumTraces
    <3>1. entry[b][2] \in Traces
      BY <1>0, <1>4, SpanFacts DEF PostDeletion, CallInv, TypeOK
    <3>2. CASE deleteChan' = Append(deleteChan, entry[b][2]) /\ Len(deleteChan) < MaxNumTraces
      BY <1>0, <3>1, <3>2, AppendProperties, TailSamplingAssumption, LenProperties
         DEF TypeOK, TailSamplingAssumption
    <3> QED  BY <1>0, <1>4, <3>2 DEF PostDeletion, TypeOK
  <2> QED  BY <1>0, <1>4, <2>1 DEF TypeOK, PostDeletion, batcherVars, tickVars, traceVars
<1>5. CASE TakeOldest(b)
  <2>1. Head(deleteChan) \in Traces /\ Tail(deleteChan) \in Seq(Traces) /\ Len(Tail(deleteChan)) <= MaxNumTraces
    BY <1>0, <1>5, HeadTailProperties, EmptySeq, TailSamplingAssumption
       DEF TypeOK, TakeOldest, TailSamplingAssumption
  <2> QED  BY <1>0, <1>5, <2>1 DEF TypeOK, TakeOldest, batcherVars, tickVars, traceVars
<1>6. CASE DropTrace(b)
  <2>1. PICK t \in victim[b] :
          \/ UNCHANGED <<idToTrace, evicted, numTracesOnMap>>
          \/ /\ idToTrace[t] # NoTrace
             /\ idToTrace' = [idToTrace EXCEPT ![t] = NoTrace]
             /\ evicted' = evicted \cup {idToTrace[t]}
             /\ numTracesOnMap' = numTracesOnMap - 1
    BY <1>6 DEF DropTrace
  <2>2. idToTrace' \in [Traces -> Spans \cup {NoTrace}] /\ evicted' \subseteq Spans /\ numTracesOnMap' \in Int
    <3>1. t \in Traces
      BY <1>0 DEF TypeOK
    <3>2. idToTrace' \in [Traces -> Spans \cup {NoTrace}]
      BY <1>0, <2>1, <3>1 DEF TypeOK
    <3>3. evicted' \subseteq Spans
      BY <1>0, <2>1, <3>1 DEF TypeOK
    <3>4. numTracesOnMap' \in Int
      BY <1>0, <2>1 DEF TypeOK
    <3> QED  BY <3>2, <3>3, <3>4
  <2> QED  BY <1>0, <1>6, <2>2 DEF TypeOK, DropTrace, batcherVars, tickVars, traceVars
<1>7. CASE KeepSpans(b)
  <2>1. received' \in [Spans -> SUBSET Batches]
    BY <1>0, <1>7 DEF KeepSpans, TypeOK
  <2> QED  BY <1>0, <1>7, <2>1 DEF TypeOK, KeepSpans, batcherVars, tickVars, mapVars
<1>8. CASE LateSpans(b)
  <2>1. \/ sent' = [sent EXCEPT ![<<b, entry[b][2]>>][policy[b]] = @ + 1]
        \/ sent' = sent
    BY <1>8 DEF LateSpans
  <2>2. policy[b] \in Policies
    BY <1>0 DEF TypeOK
  <2>3. policy' \in [Batches -> Policies]
    <3>1. policy' = policy \/ (policy[b] < NumPolicies /\ policy' = [policy EXCEPT ![b] = policy[b] + 1])
      BY <1>8 DEF LateSpans
    <3> QED  BY <1>0, <2>2, <3>1, PolicyFacts DEF TypeOK
  <2>4. pc' \in [Batches -> {"next", "add", "post", "take", "drop", "policies", "done"}]
    BY <1>0, <1>8 DEF LateSpans, TypeOK
  <2>5. sent' \in [Spans -> [Policies -> Nat]]
    <3> DEFINE s == <<b, entry[b][2]>>
    <3>1. CASE s \in Spans /\ sent' = [sent EXCEPT ![s][policy[b]] = @ + 1]
      <4>1. sent[s] \in [Policies -> Nat]
        BY <1>0, <3>1 DEF TypeOK
      <4>2. [sent[s] EXCEPT ![policy[b]] = @ + 1] \in [Policies -> Nat]
        BY <2>2, <4>1
      <4> HIDE DEF s
      <4>3. sent' = [sent EXCEPT ![s] = [sent[s] EXCEPT ![policy[b]] = @ + 1]]
        BY <3>1
      <4> QED  BY <1>0, <4>2, <4>3 DEF TypeOK
    <3>2. CASE s \notin Spans
      <4> HIDE DEF s
      <4>1. \/ sent' = [sent EXCEPT ![s][policy[b]] = @ + 1]
            \/ sent' = sent
        BY <2>1 DEF s
      <4> QED  BY <1>0, <3>2, <4>1 DEF TypeOK
    <3> QED  BY <1>0, <2>1, <3>1, <3>2 DEF TypeOK
  <2> QED  BY <1>0, <1>8, <2>3, <2>4, <2>5 DEF TypeOK, LateSpans, batcherVars, tickVars, mapVars
<1> QED  BY <1>1, <1>2, <1>3, <1>4, <1>5, <1>6, <1>7, <1>8 DEF ConsumeTraceData

LEMMA TickTypes ==
  ASSUME BaseInv, samplingPolicyOnTick \/ FillBatch
  PROVE  TypeOK'
<1>0. TypeOK /\ TickInv
  BY DEF BaseInv
<1>1. CASE TickTake
  <2>1. Head(pipe) \subseteq Spans /\ pipe' \in Seq(SUBSET Spans)
    BY <1>0, <1>1, HeadTailProperties, AppendProperties DEF TypeOK, TickTake, DecisionBatcher!CloseAndTake
  <2> QED  BY <1>0, <1>1, <2>1
           DEF TypeOK, TickTake, DecisionBatcher!CloseAndTake, NextId, callVars, mapVars, traceVars
<1>2. CASE TickLoad
  <2>1. /\ tickId' \in Spans \cup {NoTrace} /\ tickTrace' \in Spans \cup {NoTrace}
        /\ tickBatch' \subseteq Spans /\ tickPolicy' \in Policies
        /\ tickPc' \in {"idle", "load", "evaluate", "send", "clear"}
    <3>1. PICK id \in tickBatch :
            /\ tickBatch' = tickBatch \ {id}
            /\ \/ UNCHANGED <<tickId, tickTrace>> /\ tickPc' = NextId(tickBatch')
               \/ tickId' = id /\ tickTrace' = idToTrace[id[2]] /\ tickPc' = "evaluate"
      BY <1>2 DEF TickLoad
    <3>2. id \in Spans /\ idToTrace[id[2]] \in Spans \cup {NoTrace}
      BY <1>0, SpanFacts DEF TypeOK
    <3>3. tickPolicy' = 1
      BY <1>2 DEF TickLoad
    <3> QED  BY <1>0, <3>1, <3>2, <3>3, PolicyFacts DEF TypeOK, NextId
  <2> QED  BY <1>0, <1>2, <2>1 DEF TypeOK, TickLoad, batcherVars, callVars, mapVars, traceVars
<1>3. CASE Evaluate
  <2>1. PICK d \in {"sampled", "notSampled"} :
          decision' = [decision EXCEPT ![tickTrace][tickPolicy] = d]
    BY <1>3 DEF Evaluate
  <2>2. decision' \in [Spans -> [Policies -> Decisions]]
    BY <1>0, <2>1 DEF TypeOK, Decisions
  <2>3. tickPolicy' \in Policies /\ tickPc' \in {"idle", "load", "evaluate", "send", "clear"}
    BY <1>0, <1>3, TailSamplingAssumption DEF TypeOK, Evaluate, NextPolicy, Policies, TailSamplingAssumption
  <2> QED  BY <1>0, <1>3, <2>2, <2>3 DEF TypeOK, Evaluate, batcherVars, callVars, mapVars
<1>4. CASE SendReceived
  <2>1. sent' \in [Spans -> [Policies -> Nat]]
    BY <1>0, <1>4 DEF TypeOK, SendReceived
  <2>2. tickPolicy' \in Policies /\ tickPc' \in {"idle", "load", "evaluate", "send", "clear"}
    BY <1>0, <1>4, TailSamplingAssumption DEF TypeOK, SendReceived, NextPolicy, Policies, TailSamplingAssumption
  <2> QED  BY <1>0, <1>4, <2>1, <2>2 DEF TypeOK, SendReceived, batcherVars, callVars, mapVars
<1>5. CASE ClearReceived
  <2>1. received' \in [Spans -> SUBSET Batches]
    BY <1>0, <1>5 DEF TypeOK, ClearReceived
  <2>2. tickPolicy' \in Policies /\ tickPc' \in {"idle", "load", "evaluate", "send", "clear"}
    BY <1>0, <1>5, TailSamplingAssumption DEF ClearReceived, NextId, Policies, TailSamplingAssumption
  <2> QED  BY <1>0, <1>5, <2>1, <2>2 DEF TypeOK, ClearReceived, batcherVars, callVars, mapVars
<1>6. CASE FillBatch
  BY <1>0, <1>6 DEF TypeOK, FillBatch, DecisionBatcher!Absorb, tickVars, callVars, mapVars, traceVars
<1> QED  BY <1>1, <1>2, <1>3, <1>4, <1>5, <1>6 DEF samplingPolicyOnTick

LEMMA TypeStep ==
  ASSUME BaseInv, [Next]_vars
  PROVE  TypeOK'
<1>1. CASE UNCHANGED vars
  BY <1>1 DEF vars, batcherVars, tickVars, callVars, mapVars, traceVars, BaseInv, TypeOK
<1> QED  BY <1>1, CallTypes, TickTypes DEF Next

LEMMA MapStep ==
  ASSUME BaseInv, [Next]_vars
  PROVE  MapInv'
<1>1. ASSUME NEW b \in Batches, LoadOrStore(b) PROVE MapInv'
  <2>1. PICK t \in todo[b] :
          idToTrace' = IF idToTrace[t] = NoTrace THEN [idToTrace EXCEPT ![t] = <<b, t>>] ELSE idToTrace
    BY <1>1 DEF LoadOrStore
  <2> QED  BY <2>1 DEF BaseInv, TypeOK, MapInv
<1>2. ASSUME NEW b \in Batches, DropTrace(b) PROVE MapInv'
  <2>1. PICK t \in victim[b] : idToTrace' = [idToTrace EXCEPT ![t] = NoTrace] \/ idToTrace' = idToTrace
    BY <1>2 DEF DropTrace
  <2> QED  BY <2>1 DEF BaseInv, TypeOK, MapInv
<1>3. ASSUME idToTrace' = idToTrace PROVE MapInv'
  BY <1>3 DEF BaseInv, MapInv
<1>4. ASSUME NEW b \in Batches, ConsumeTraceData(b), ~LoadOrStore(b), ~DropTrace(b)
      PROVE  idToTrace' = idToTrace
  BY <1>4 DEF ConsumeTraceData, Return, AddToBatcher, PostDeletion, TakeOldest, KeepSpans,
              LateSpans, mapVars
<1>5. CASE samplingPolicyOnTick \/ FillBatch \/ UNCHANGED vars
  BY <1>3, <1>5 DEF samplingPolicyOnTick, TickTake, TickLoad, Evaluate, SendReceived, ClearReceived,
                    FillBatch, vars, mapVars
<1> QED  BY <1>1, <1>2, <1>3, <1>4, <1>5 DEF Next

(* Ids go through the batcher; only AddToBatcher brings a new one.         *)
LEMMA PipeMoves ==
  ASSUME TypeOK, pipe # <<>>, pipe' = Append(Tail(pipe), open)
  PROVE  /\ Range(pipe') = Range(Tail(pipe)) \cup {open}
         /\ Range(pipe) = {Head(pipe)} \cup Range(Tail(pipe))
<1> DEFINE Batch == SUBSET Spans
<1>1. pipe \in Seq(Batch) /\ open \in Batch
  BY DEF TypeOK
<1> HIDE DEF Batch
<1>2. Tail(pipe) \in Seq(Batch)
  BY <1>1, HeadTailProperties
<1>3. ASSUME NEW s \in Seq(Batch), NEW e \in Batch, s = Tail(pipe), e = open
      PROVE  Range(pipe') = Range(Tail(pipe)) \cup {open}
  <2>1. Range(Append(s, e)) = Range(s) \cup {e}
    BY RangeAppend
  <2> QED  BY <1>3, <2>1
<1>4. Range(pipe) = {Head(pipe)} \cup Range(Tail(pipe))
  BY <1>1, RangeHeadTail
<1> QED  BY <1>1, <1>2, <1>3, <1>4

LEMMA BatcherStep ==
  ASSUME BaseInv, [Next]_vars
  PROVE  InBatcher' \subseteq Stored'
<1> USE DEF InBatcher
<1>1. InBatcher \subseteq Stored /\ Stored \subseteq Stored'
  BY StoredGrows DEF BaseInv
<1>2. ASSUME NEW b \in Batches, AddToBatcher(b) PROVE InBatcher' \subseteq Stored'
  <2>1. InBatcher' = InBatcher \cup {entry[b]} /\ entry[b] \in Stored
    BY <1>2 DEF AddToBatcher, DecisionBatcher!Add, BaseInv, CallInv
  <2> QED  BY <1>1, <2>1
<1>3. CASE TickTake
  <2>1. /\ pipe # <<>> /\ pipe' = Append(Tail(pipe), open)
        /\ pending' = pending /\ open' = {} /\ taken' = taken \cup Head(pipe)
    BY <1>3 DEF TickTake, DecisionBatcher!CloseAndTake
  <2> QED  BY <1>1, <2>1, PipeMoves DEF BaseInv
<1>4. CASE FillBatch
  <2>1. pending' \cup open' = pending \cup open /\ pipe' = pipe /\ taken' = taken
    BY <1>4 DEF FillBatch, DecisionBatcher!Absorb
  <2> QED  BY <1>1, <2>1
<1>5. ASSUME NEW b \in Batches, ConsumeTraceData(b), ~AddToBatcher(b)
      PROVE  UNCHANGED batcherVars
  BY <1>5 DEF ConsumeTraceData, Return, LoadOrStore, DropTrace, PostDeletion, TakeOldest, KeepSpans,
              LateSpans
<1>6. CASE TickLoad \/ Evaluate \/ SendReceived \/ ClearReceived \/ UNCHANGED vars
  BY <1>1, <1>6 DEF TickLoad, Evaluate, SendReceived, ClearReceived, vars, batcherVars
<1> QED  BY <1>1, <1>2, <1>3, <1>4, <1>5, <1>6 DEF Next, samplingPolicyOnTick, batcherVars

(* The ticker's step; what the calls do to it is to evict.                 *)
LEMMA TickStep ==
  ASSUME BaseInv, [Next]_vars
  PROVE  TickInv' /\ EvaluatedOnTime'
<1>1. TypeOK /\ TickInv /\ EvaluatedOnTime /\ MapInv /\ InBatcher \subseteq Stored
  BY DEF BaseInv
<1>2. evicted \subseteq evicted'
  BY StoredGrows
<1>3. CASE UNCHANGED <<tickVars, taken>>
  BY <1>1, <1>2, <1>3 DEF tickVars, TickInv, EvaluatedOnTime
<1>4. CASE TickTake
  <2>1. /\ tickTrace = NoTrace /\ UNCHANGED <<tickId, tickTrace>>
        /\ tickBatch' = Head(pipe) /\ taken' = taken \cup Head(pipe)
        /\ tickPc' = NextId(tickBatch')
    BY <1>1, <1>4 DEF TickTake, DecisionBatcher!CloseAndTake, TickInv
  <2> QED  BY <2>1 DEF TickInv, EvaluatedOnTime, NextId
<1>5. CASE TickLoad
  <2>1. PICK id \in tickBatch :
          /\ tickBatch' = tickBatch \ {id}
          /\ IF idToTrace[id[2]] = NoTrace
             THEN tickPc' = NextId(tickBatch') /\ UNCHANGED <<tickId, tickTrace>>
             ELSE tickId' = id /\ tickTrace' = idToTrace[id[2]] /\ tickPc' = "evaluate"
    BY <1>5 DEF TickLoad
  <2>2. tickTrace = NoTrace /\ UNCHANGED <<taken, evicted>>
    BY <1>1, <1>5 DEF TickLoad, TickInv, batcherVars, mapVars
  <2>3. id \in taken /\ id \in Stored /\ id \in Spans /\ id[2] \in Traces
    BY <1>1, SpanFacts DEF TickInv, InBatcher, TypeOK
  <2>4. CASE idToTrace[id[2]] = NoTrace
    BY <1>1, <2>1, <2>2, <2>4 DEF TickInv, EvaluatedOnTime, NextId
  <2>5. CASE idToTrace[id[2]] # NoTrace
    <3>1. idToTrace[id[2]] \in Spans /\ idToTrace[id[2]][2] = id[2]
      BY <1>1, <2>3, <2>5 DEF TypeOK, MapInv
    <3>2. idToTrace[id[2]] = id \/ id \in evicted
      BY <2>3 DEF Stored
    <3>3. TickInv'
      BY <1>1, <2>1, <2>2, <2>3, <2>5, <3>1 DEF TickInv
    <3> QED  BY <2>1, <2>2, <2>5, <3>2, <3>3 DEF EvaluatedOnTime
  <2> QED  BY <2>4, <2>5
<1>6. CASE Evaluate \/ SendReceived
  BY <1>1, <1>6 DEF Evaluate, SendReceived, NextPolicy, TickInv, EvaluatedOnTime, batcherVars, mapVars
<1>7. CASE ClearReceived
  BY <1>1, <1>7 DEF ClearReceived, NextId, TickInv, EvaluatedOnTime, batcherVars, mapVars
<1>8. ASSUME NEW b \in Batches, ConsumeTraceData(b) PROVE UNCHANGED <<tickVars, taken>>
  BY <1>8 DEF ConsumeTraceData, Return, AddToBatcher, LoadOrStore, DropTrace, PostDeletion, TakeOldest,
              KeepSpans, LateSpans, DecisionBatcher!Add, batcherVars
<1>9. CASE FillBatch \/ UNCHANGED vars
  BY <1>3, <1>9 DEF FillBatch, DecisionBatcher!Absorb, vars, batcherVars
<1> QED  BY <1>3, <1>4, <1>5, <1>6, <1>7, <1>8, <1>9 DEF Next, samplingPolicyOnTick

(* A call works on its own.                                                *)
LEMMA OtherCalls ==
  ASSUME TypeOK, NEW b \in Batches, NEW c \in Batches, b # c, ConsumeTraceData(b)
  PROVE  UNCHANGED <<pc[c], entry[c], todo[c], victim[c], policy[c]>>
<1> USE DEF TypeOK
<1>1. CASE LoadOrStore(b)
  BY <1>1 DEF LoadOrStore
<1>2. CASE Return(b) \/ AddToBatcher(b) \/ PostDeletion(b)
  BY <1>2 DEF Return, AddToBatcher, PostDeletion
<1>3. CASE TakeOldest(b) \/ DropTrace(b)
  BY <1>3 DEF TakeOldest, DropTrace
<1>4. CASE KeepSpans(b) \/ LateSpans(b)
  BY <1>4 DEF KeepSpans, LateSpans
<1> QED  BY <1>1, <1>2, <1>3, <1>4 DEF ConsumeTraceData

LEMMA CallStep ==
  ASSUME BaseInv, [Next]_vars, NEW c \in Batches
  PROVE  CallInv(c)'
<1>1. TypeOK /\ CallInv(c) /\ InBatcher \subseteq Stored /\ Stored \subseteq Stored'
  BY StoredGrows DEF BaseInv
<1>2. CASE UNCHANGED <<pc[c], entry[c], todo[c], victim[c]>>
  BY <1>1, <1>2 DEF CallInv
<1>3. CASE LoadOrStore(c)
  <2>1. PICK t \in todo[c] :
          /\ todo' = [todo EXCEPT ![c] = @ \ {t}]
          /\ IF idToTrace[t] = NoTrace
             THEN idToTrace' = [idToTrace EXCEPT ![t] = <<c, t>>]
             ELSE idToTrace' = idToTrace /\ pc' = [pc EXCEPT ![c] = "policies"]
          /\ entry' = [entry EXCEPT ![c] = idToTrace'[t]]
    BY <1>3 DEF LoadOrStore
  <2>2. t \in Traces /\ <<c, t>> \in Spans /\ <<c, t>>[2] = t
    BY <1>1, SpanFacts DEF CallInv
  <2>3. entry'[c] = idToTrace'[t] /\ entry'[c] \in Spans
    BY <1>1, <2>1, <2>2 DEF TypeOK
  <2>4. pc'[c] = "add" => entry'[c] \in Stored'
    BY <1>1, <2>1, <2>2, <2>3 DEF TypeOK, Stored
  <2>5. pc'[c] \in {"add", "policies"} /\ victim' = victim /\ pc[c] = "next" /\ todo'[c] \subseteq todo[c]
    BY <1>1, <1>3, <2>1 DEF LoadOrStore, TypeOK
  <2> QED  BY <1>1, <2>3, <2>4, <2>5 DEF CallInv
<1>4. CASE Return(c)
  BY <1>1, <1>4 DEF Return, CallInv, TypeOK
<1>5. CASE AddToBatcher(c)
  BY <1>1, <1>5 DEF AddToBatcher, CallInv, TypeOK
<1>6. CASE PostDeletion(c)
  BY <1>1, <1>6 DEF PostDeletion, CallInv, TypeOK
<1>7. CASE TakeOldest(c)
  <2>1. Head(deleteChan) \in Traces
    BY <1>1, <1>7, HeadTailProperties, EmptySeq DEF TakeOldest, TypeOK
  <2> QED  BY <1>1, <1>7, <2>1 DEF TakeOldest, CallInv, TypeOK
<1>8. CASE DropTrace(c)
  BY <1>1, <1>8 DEF DropTrace, CallInv, TypeOK
<1>9. CASE KeepSpans(c) \/ LateSpans(c)
  BY <1>1, <1>9 DEF KeepSpans, LateSpans, CallInv, TypeOK
<1>10. ASSUME NEW b \in Batches, b # c, ConsumeTraceData(b)
       PROVE  UNCHANGED <<pc[c], entry[c], todo[c], victim[c]>>
  BY <1>1, <1>10, OtherCalls
<1>11. CASE samplingPolicyOnTick \/ FillBatch \/ UNCHANGED vars
  BY <1>2, <1>11 DEF samplingPolicyOnTick, TickTake, TickLoad, Evaluate, SendReceived, ClearReceived,
                     FillBatch, vars, callVars
<1> QED  BY <1>2, <1>3, <1>4, <1>5, <1>6, <1>7, <1>8, <1>9, <1>10, <1>11 DEF Next, ConsumeTraceData

LEMMA BaseStep == BaseInv /\ [Next]_vars => BaseInv'
BY TypeStep, MapStep, BatcherStep, TickStep, CallStep DEF BaseInv

LEMMA BaseHolds == Spec => []BaseInv
BY BaseInit, BaseStep, PTL DEF Spec

(* Every variable of the processor keeps its type, and the deletion        *)
(* channel its bound, for any calls, traces, policies and sizes.           *)
THEOREM ProcessorTypes == Spec => []TypeOK
<1>1. BaseInv => TypeOK
  BY DEF BaseInv
<1> QED  BY <1>1, BaseHolds, PTL

(* The entry that the ticker evaluates has gone through the batcher, or    *)
(* its trace was evicted and stored again in the meantime.                 *)
THEOREM TimelyEvaluation == Spec => []EvaluatedOnTime
<1>1. BaseInv => EvaluatedOnTime
  BY DEF BaseInv
<1> QED  BY <1>1, BaseHolds, PTL

-----------------------------------------------------------------------------
(* An id stays in one place of the batcher as it moves on.                 *)
LEMMA PipeInit == Init => PipeInv
<1> SUFFICES ASSUME Init PROVE PipeInv
  OBVIOUS
<1>1. pending = {} /\ open = {} /\ taken = {} /\ \A i \in DOMAIN pipe : pipe[i] = {}
  BY DEF Init, DecisionBatcher!Init
<1> QED  BY <1>1 DEF PipeInv, Disjoint, InPipe, Range

LEMMA UnionWith ==
  ASSUME NEW A, NEW x
  PROVE  UNION (A \cup {x}) = (UNION A) \cup x /\ UNION ({x} \cup A) = x \cup UNION A
OBVIOUS

LEMMA DisjointMoves ==
  ASSUME TypeOK, PipeInv, pipe # <<>>, pipe' = Append(Tail(pipe), open)
  PROVE  /\ Disjoint(pipe')
         /\ InPipe' = (UNION Range(Tail(pipe))) \cup open
         /\ InPipe = Head(pipe) \cup UNION Range(Tail(pipe))
         /\ Head(pipe) \cap UNION Range(Tail(pipe)) = {}
<1>1. pipe \in Seq(SUBSET Spans) /\ open \in SUBSET Spans /\ Disjoint(pipe)
  BY DEF TypeOK, PipeInv
<1>2. Tail(pipe) \in Seq(SUBSET Spans)
  BY <1>1, HeadTailProperties
<1>3. Disjoint(Tail(pipe)) /\ Head(pipe) \cap UNION Range(Tail(pipe)) = {}
  BY <1>1, DisjointTail
<1>4. /\ InPipe' = (UNION Range(Tail(pipe))) \cup open
      /\ InPipe = Head(pipe) \cup UNION Range(Tail(pipe))
  <2>1. /\ Range(pipe') = Range(Tail(pipe)) \cup {open}
        /\ Range(pipe) = {Head(pipe)} \cup Range(Tail(pipe))
    BY PipeMoves
  <2>2. UNION (Range(Tail(pipe)) \cup {open}) = (UNION Range(Tail(pipe))) \cup open
    BY UnionWith
  <2>3. UNION ({Head(pipe)} \cup Range(Tail(pipe))) = Head(pipe) \cup UNION Range(Tail(pipe))
    BY UnionWith
  <2>4. UNION Range(pipe') = UNION (Range(Tail(pipe)) \cup {open})
    BY <2>1
  <2>5. InPipe' = UNION Range(pipe')
    BY DEF InPipe
  <2>6. InPipe = UNION ({Head(pipe)} \cup Range(Tail(pipe)))
    BY <2>1 DEF InPipe
  <2> QED  BY <2>2, <2>3, <2>4, <2>5, <2>6
<1>5. open \cap UNION Range(Tail(pipe)) = {}
  BY <1>4 DEF PipeInv
<1>6. ASSUME NEW s \in Seq(SUBSET Spans), NEW e \in SUBSET Spans, s = Tail(pipe), e = open
      PROVE  Disjoint(pipe')
  <2>1. Disjoint(s) /\ e \cap UNION Range(s) = {}
    BY <1>3, <1>5, <1>6
  <2>2. Disjoint(Append(s, e))
    BY <2>1, DisjointAppend
  <2>3. Append(s, e) = pipe'
    BY <1>6
  <2> QED  BY <2>2, <2>3
<1> QED  BY <1>1, <1>2, <1>3, <1>4, <1>6

LEMMA PipeStep ==
  ASSUME BaseInv, PipeInv, [Next]_vars
  PROVE  PipeInv'
<1>1. CASE UNCHANGED batcherVars
  BY <1>1 DEF batcherVars, PipeInv, InPipe
<1>2. ASSUME NEW b \in Batches, AddToBatcher(b) PROVE PipeInv'
  <2>1. /\ entry[b] \notin InBatcher /\ pending' = pending \cup {entry[b]}
        /\ UNCHANGED <<open, pipe, taken>>
    BY <1>2, KnownIds DEF AddToBatcher, DecisionBatcher!Add
  <2> QED  BY <2>1 DEF PipeInv, InPipe, InBatcher
<1>3. CASE TickTake
  <2>1. /\ pipe # <<>> /\ pipe' = Append(Tail(pipe), open)
        /\ pending' = pending /\ open' = {} /\ taken' = taken \cup Head(pipe)
    BY <1>3 DEF TickTake, DecisionBatcher!CloseAndTake
  <2>2. /\ Disjoint(pipe')
        /\ InPipe' = (UNION Range(Tail(pipe))) \cup open
        /\ InPipe = Head(pipe) \cup UNION Range(Tail(pipe))
        /\ Head(pipe) \cap UNION Range(Tail(pipe)) = {}
    BY <2>1, DisjointMoves DEF BaseInv
  <2>3. /\ pending \cap open = {} /\ pending \cap InPipe = {} /\ open \cap InPipe = {}
        /\ taken \cap (pending \cup open \cup InPipe) = {}
    BY DEF PipeInv
  <2>4. /\ pending' \cap open' = {} /\ pending' \cap InPipe' = {} /\ open' \cap InPipe' = {}
        /\ taken' \cap (pending' \cup open' \cup InPipe') = {}
    <3> DEFINE rest == UNION Range(Tail(pipe))
    <3>1. /\ InPipe' = rest \cup open /\ InPipe = Head(pipe) \cup rest
          /\ Head(pipe) \cap rest = {}
      BY <2>2
    <3> HIDE DEF rest
    <3>2. pending \cap rest = {} /\ taken \cap rest = {} /\ Head(pipe) \cap open = {}
          /\ Head(pipe) \cap pending = {} /\ taken \cap open = {} /\ taken \cap pending = {}
      BY <2>3, <3>1
    <3>3. pending' \cap InPipe' = {}
      BY <2>1, <2>3, <3>1, <3>2
    <3>4. taken' \cap (pending' \cup open' \cup InPipe') = {}
      BY <2>1, <2>3, <3>1, <3>2
    <3> QED  BY <2>1, <3>3, <3>4
  <2> QED  BY <2>2, <2>4 DEF PipeInv
<1>4. CASE FillBatch
  <2>1. PICK id \in pending : /\ pending' = pending \ {id} /\ open' = open \cup {id}
                              /\ UNCHANGED <<pipe, taken>>
    BY <1>4 DEF FillBatch, DecisionBatcher!Absorb
  <2> QED  BY <2>1 DEF PipeInv, InPipe
<1>5. ASSUME NEW b \in Batches, ConsumeTraceData(b), ~AddToBatcher(b)
      PROVE  UNCHANGED batcherVars
  BY <1>5 DEF ConsumeTraceData, Return, LoadOrStore, DropTrace, PostDeletion, TakeOldest, KeepSpans,
              LateSpans
<1>6. CASE TickLoad \/ Evaluate \/ SendReceived \/ ClearReceived \/ UNCHANGED vars
  BY <1>1, <1>6 DEF TickLoad, Evaluate, SendReceived, ClearReceived, vars
<1> QED  BY <1>1, <1>2, <1>3, <1>4, <1>5, <1>6 DEF Next, samplingPolicyOnTick

(* The entry of a trace stored once is evaluated for its own id.           *)
LEMMA PickedId ==
  ASSUME BaseInv, tickTrace # NoTrace, StoredOnce(tickTrace)
  PROVE  tickId = tickTrace /\ tickTrace \in taken \ tickBatch
<1>1. tickId[2] = tickTrace[2] /\ tickId \in taken \ tickBatch
  BY DEF BaseInv, TickInv
<1>2. tickTrace = tickId \/ tickId \in evicted
  BY DEF BaseInv, EvaluatedOnTime
<1> QED  BY <1>1, <1>2 DEF StoredOnce

(* How the ticker goes through the policies of an entry.                   *)
LEMMA ProgressStep ==
  ASSUME BaseInv, DecisionInv, [Next]_vars
  PROVE  DecisionInv'
<1>1. TypeOK /\ TickInv /\ PipeInv'
  BY PipeStep DEF BaseInv, DecisionInv
<1>2. \A e : StoredOnce(e)' => StoredOnce(e)
  BY StoredGrows DEF StoredOnce
<1>3. ASSUME NEW e \in Spans, StoredOnce(e) PROVE Progress(e)
  BY <1>3 DEF DecisionInv
<1>4. CASE UNCHANGED <<decision, taken, tickVars>>
  BY <1>1, <1>2, <1>3, <1>4 DEF DecisionInv, Progress, Decided, tickVars
<1>5. CASE TickTake
  <2>1. /\ tickTrace = NoTrace /\ tickBatch = {} /\ UNCHANGED <<decision, tickTrace>>
        /\ tickBatch' = Head(pipe) /\ taken' = taken \cup Head(pipe)
        /\ tickPc' \in {"idle", "load"}
    BY <1>1, <1>5 DEF TickTake, DecisionBatcher!CloseAndTake, TickInv, NextId, traceVars
  <2>2. taken \cap Head(pipe) = {}
    <3>1. pipe # <<>> /\ pipe' = Append(Tail(pipe), open)
      BY <1>5 DEF TickTake, DecisionBatcher!CloseAndTake
    <3>2. Head(pipe) \subseteq InPipe
      BY <1>1, <3>1, DisjointMoves DEF DecisionInv
    <3> QED  BY <3>2 DEF DecisionInv, PipeInv
  <2>3. ASSUME NEW e \in Spans, StoredOnce(e) PROVE Progress(e)'
    BY <1>3, <2>1, <2>2, <2>3, SpanFacts DEF Progress, Decided
  <2> QED  BY <1>1, <1>2, <2>1, <2>3 DEF DecisionInv
<1>6. CASE TickLoad
  <2>1. PICK id \in tickBatch :
          /\ tickBatch' = tickBatch \ {id}
          /\ IF idToTrace[id[2]] = NoTrace
             THEN tickPc' = NextId(tickBatch') /\ UNCHANGED <<tickId, tickTrace>>
             ELSE tickId' = id /\ tickTrace' = idToTrace[id[2]] /\ tickPc' = "evaluate"
    BY <1>6 DEF TickLoad
  <2>2. tickTrace = NoTrace /\ tickPolicy' = 1 /\ UNCHANGED <<decision, taken, evicted>>
    BY <1>1, <1>6 DEF TickLoad, TickInv, batcherVars, mapVars, traceVars
  <2>3. ASSUME NEW e \in Spans, StoredOnce(e) PROVE Progress(e)'
    <3>1. Progress(e) /\ tickTrace # e
      BY <1>3, <2>2, <2>3, SpanFacts
    <3>2. CASE tickTrace' # e
      BY <2>1, <2>2, <3>1, <3>2 DEF Progress, Decided
    <3>3. CASE tickTrace' = e
      <4>1. tickId' = id /\ tickPc' = "evaluate"
        BY <2>1, <3>1, <3>3
      <4>2. BaseInv' /\ tickTrace' # NoTrace /\ StoredOnce(tickTrace)'
        BY <2>2, <2>3, <3>3, BaseStep, SpanFacts DEF StoredOnce
      <4>3. tickId' = tickTrace' /\ e \in taken' \ tickBatch'
        <5>1. tickId'[2] = tickTrace'[2] /\ tickId' \in taken' \ tickBatch'
          BY <4>2 DEF BaseInv, TickInv
        <5>2. tickTrace' = tickId' \/ tickId' \in evicted'
          BY <4>2 DEF BaseInv, EvaluatedOnTime
        <5> QED  BY <3>3, <4>2, <5>1, <5>2 DEF StoredOnce
      <4>4. e \in tickBatch
        BY <2>1, <3>3, <4>1, <4>3
      <4>5. \A p \in Policies : ~Decided(e, p)
        BY <3>1, <4>4 DEF Progress
      <4>6. \A p \in Policies : ~(p < 1)
        BY DEF Policies
      <4> QED  BY <2>2, <3>3, <4>1, <4>3, <4>5, <4>6 DEF Progress, Decided
    <3> QED  BY <3>2, <3>3
  <2>4. tickPc' \in {"idle", "load", "evaluate"}
    BY <2>1 DEF NextId
  <2> QED  BY <1>1, <1>2, <2>3, <2>4 DEF DecisionInv
<1>7. CASE Evaluate
  <2>1. PICK d \in {"sampled", "notSampled"} :
          /\ decision' = [decision EXCEPT ![tickTrace][tickPolicy] = d]
          /\ IF d = "sampled" THEN tickPc' = "send" /\ UNCHANGED tickPolicy ELSE NextPolicy
    BY <1>7 DEF Evaluate
  <2>2. /\ UNCHANGED <<tickTrace, tickBatch, taken, evicted>>
        /\ tickPc = "evaluate" /\ tickTrace \in Spans /\ tickPolicy \in Policies
    BY <1>1, <1>7 DEF Evaluate, TickInv, TypeOK, batcherVars, mapVars
  <2>3. /\ \A e \in Spans \ {tickTrace} : \A p \in Policies : decision'[e][p] = decision[e][p]
        /\ \A p \in Policies \ {tickPolicy} : decision'[tickTrace][p] = decision[tickTrace][p]
        /\ decision'[tickTrace][tickPolicy] = d
    BY <1>1, <2>1, <2>2 DEF TypeOK
  <2>4. ASSUME NEW e \in Spans, StoredOnce(e) PROVE Progress(e)'
    <3>1. CASE e # tickTrace
      BY <1>3, <2>2, <2>3, <2>4, <3>1 DEF Progress, Decided
    <3>2. CASE e = tickTrace
      <4>1. e \in taken' \ tickBatch' /\ tickTrace' = e
        BY <2>2, <2>4, <3>2, PickedId, SpanFacts
      <4>2. \A p \in Policies : Decided(e, p)' <=> p < tickPolicy \/ p = tickPolicy
        BY <1>3, <2>1, <2>2, <2>3, <2>4, <3>2, PolicyFacts DEF Progress, Decided
      <4>3. CASE d = "sampled"
        BY <2>1, <4>1, <4>2, <4>3 DEF Progress
      <4>4. CASE tickPolicy < NumPolicies /\ tickPolicy' = tickPolicy + 1 /\ tickPc' = "evaluate"
        BY <2>2, <4>1, <4>2, <4>4, PolicyFacts DEF Progress
      <4>5. CASE tickPolicy' = tickPolicy /\ tickPc' = "clear"
        BY <4>1, <4>2, <4>5 DEF Progress
      <4> QED  BY <2>1, <4>3, <4>4, <4>5 DEF NextPolicy
    <3> QED  BY <3>1, <3>2
  <2>5. tickPc' = "send" => decision'[tickTrace'][tickPolicy'] = "sampled"
    BY <2>1, <2>2, <2>3 DEF NextPolicy
  <2>6. tickPc' = "clear" => tickPolicy' = NumPolicies
    BY <2>1, <2>2, TailSamplingAssumption DEF NextPolicy, Policies, TailSamplingAssumption
  <2> QED  BY <1>1, <1>2, <2>4, <2>5, <2>6 DEF DecisionInv
<1>8. CASE SendReceived
  <2>1. /\ UNCHANGED <<decision, tickTrace, tickBatch, taken>>
        /\ tickPc = "send" /\ tickPolicy \in Policies
        /\ \/ tickPolicy < NumPolicies /\ tickPolicy' = tickPolicy + 1 /\ tickPc' = "evaluate"
           \/ tickPolicy' = tickPolicy /\ tickPc' = "clear" /\ tickPolicy = NumPolicies
    BY <1>1, <1>8, TailSamplingAssumption
       DEF SendReceived, NextPolicy, TypeOK, Policies, batcherVars, TailSamplingAssumption
  <2>2. ASSUME NEW e \in Spans, StoredOnce(e) PROVE Progress(e)'
    <3>1. CASE e # tickTrace
      BY <1>3, <2>1, <2>2, <3>1 DEF Progress, Decided
    <3>2. CASE e = tickTrace
      <4>1. e \in taken' \ tickBatch' /\ tickTrace' = e
        BY <2>1, <2>2, <3>2, PickedId, SpanFacts
      <4>2. \A p \in Policies : Decided(e, p)' <=> p < tickPolicy \/ p = tickPolicy
        BY <1>3, <2>1, <2>2, <3>2 DEF Progress, Decided
      <4> QED  BY <2>1, <4>1, <4>2, PolicyFacts DEF Progress
    <3> QED  BY <3>1, <3>2
  <2> QED  BY <1>1, <1>2, <2>1, <2>2 DEF DecisionInv
<1>9. CASE ClearReceived
  <2>1. /\ UNCHANGED <<decision, tickBatch, taken>> /\ tickTrace' = NoTrace
        /\ tickPc = "clear" /\ tickPc' \in {"idle", "load"} /\ tickPolicy = NumPolicies
    BY <1>9 DEF ClearReceived, NextId, batcherVars, DecisionInv
  <2>2. ASSUME NEW e \in Spans, StoredOnce(e) PROVE Progress(e)'
    <3>1. \A p \in Policies : p < NumPolicies \/ p = NumPolicies
      BY TailSamplingAssumption DEF Policies, TailSamplingAssumption
    <3> QED  BY <1>3, <2>1, <2>2, <3>1, SpanFacts DEF Progress, Decided
  <2> QED  BY <1>1, <1>2, <2>1, <2>2 DEF DecisionInv
<1>10. ASSUME NEW b \in Batches, ConsumeTraceData(b)
       PROVE  UNCHANGED <<decision, taken, tickVars>>
  BY <1>10 DEF ConsumeTraceData, Return, AddToBatcher, LoadOrStore, DropTrace, PostDeletion, TakeOldest,
               KeepSpans, LateSpans, DecisionBatcher!Add, batcherVars, traceVars
<1>11. CASE FillBatch \/ UNCHANGED vars
  BY <1>4, <1>11 DEF FillBatch, DecisionBatcher!Absorb, vars, batcherVars, traceVars
<1> QED  BY <1>4, <1>5, <1>6, <1>7, <1>8, <1>9, <1>10, <1>11 DEF Next, samplingPolicyOnTick

LEMMA DecisionInit == Init => DecisionInv
<1> SUFFICES ASSUME Init PROVE DecisionInv
  OBVIOUS
<1>1. PipeInv /\ tickTrace = NoTrace /\ tickPc = "idle"
  BY PipeInit DEF Init
<1>2. \A e \in Spans : \A p \in Policies : ~Decided(e, p)
  BY DEF Init, Decided
<1> QED  BY <1>1, <1>2, SpanFacts DEF DecisionInv, Progress

LEMMA DecisionHolds == Spec => [](BaseInv /\ DecisionInv)
BY BaseInit, BaseStep, DecisionInit, ProgressStep, PTL DEF Spec

(* No policy is evaluated again for an entry once it has decided: only the *)
(* ticker decides, and when it comes to a policy of an entry that was not  *)
(* evicted and stored again, that policy is still pending.                 *)
THEOREM DecisionsStay == Spec => DecisionIsFinal
<1>1. ASSUME BaseInv, DecisionInv, [Next]_vars
      PROVE  [\A e \in Spans, p \in Policies :
                decision[e][p] # "pending" /\ StoredOnce(e) => decision'[e][p] = decision[e][p]]_vars
  <2>1. CASE Evaluate
    <3>1. PICK d : decision' = [decision EXCEPT ![tickTrace][tickPolicy] = d]
      BY <2>1 DEF Evaluate
    <3>2. tickPc = "evaluate" /\ tickTrace \in Spans
      BY <1>1, <2>1 DEF Evaluate, BaseInv, TickInv
    <3>3. ASSUME NEW e \in Spans, NEW p \in Policies, decision[e][p] # "pending", StoredOnce(e)
          PROVE  decision'[e][p] = decision[e][p]
      <4>1. Progress(e) /\ tickPolicy \in Policies
        BY <1>1, <3>3 DEF DecisionInv, BaseInv, TypeOK
      <4>2. e # tickTrace \/ p # tickPolicy
        BY <3>2, <3>3, <4>1, PolicyFacts DEF Progress, Decided
      <4> QED  BY <1>1, <3>1, <3>2, <4>1, <4>2 DEF BaseInv, TypeOK
    <3> QED  BY <3>3
  <2>2. CASE decision' = decision
    BY <2>2
  <2>3. ASSUME NEW b \in Batches, ConsumeTraceData(b) PROVE decision' = decision
    BY <2>3 DEF ConsumeTraceData, Return, AddToBatcher, LoadOrStore, DropTrace, PostDeletion, TakeOldest,
                KeepSpans, LateSpans, traceVars
  <2>4. CASE TickTake \/ TickLoad \/ SendReceived \/ ClearReceived \/ FillBatch \/ UNCHANGED vars
    BY <2>2, <2>4 DEF TickTake, TickLoad, SendReceived, ClearReceived, FillBatch, vars, traceVars
  <2> QED  BY <1>1, <2>1, <2>2, <2>3, <2>4 DEF Next, samplingPolicyOnTick
<1> QED  BY <1>1, DecisionHolds, PTL DEF DecisionIsFinal, Spec

-----------------------------------------------------------------------------
(* A call has an entry in hand between LoadOrStore and the end of the loop.*)
Busy == {"add", "post", "take", "drop", "policies"}

LEMMA JoinsTrace ==
  ASSUME BaseInv, JoinInv, NEW b \in Batches, LoadOrStore(b)
  PROVE  \E t \in Traces :
           /\ <<b, t>> \in Spans /\ joined[<<b, t>>] = NoTrace
           /\ todo' = [todo EXCEPT ![b] = @ \ {t}]
           /\ entry'[b] \in Spans /\ entry'[b][2] = t
           /\ joined' = [joined EXCEPT ![<<b, t>>] = entry'[b]]
           /\ pc[b] = "next" /\ pc'[b] \in {"add", "policies"} /\ policy'[b] = 1
<1>1. TypeOK /\ CallInv(b) /\ MapInv
  BY DEF BaseInv
<1>2. PICK t \in todo[b] :
        /\ todo' = [todo EXCEPT ![b] = @ \ {t}]
        /\ IF idToTrace[t] = NoTrace
             THEN /\ idToTrace' = [idToTrace EXCEPT ![t] = <<b, t>>]
                  /\ pc' = [pc EXCEPT ![b] = "add"]
             ELSE idToTrace' = idToTrace /\ pc' = [pc EXCEPT ![b] = "policies"]
        /\ entry' = [entry EXCEPT ![b] = idToTrace'[t]]
        /\ joined' = [joined EXCEPT ![<<b, t>>] = idToTrace'[t]]
  BY DEF LoadOrStore
<1>3. t \in Traces /\ <<b, t>> \in Spans /\ <<b, t>>[1] = b /\ <<b, t>>[2] = t
  BY <1>1, <1>2, SpanFacts DEF CallInv
<1>4. idToTrace'[t] \in Spans /\ idToTrace'[t][2] = t
  <2>1. CASE idToTrace[t] = NoTrace
    <3>1. idToTrace'[t] = <<b, t>>
      BY <1>1, <1>2, <1>3, <2>1 DEF TypeOK
    <3> QED  BY <1>3, <3>1
  <2>2. CASE idToTrace[t] # NoTrace
    BY <1>1, <1>2, <1>3, <2>2 DEF TypeOK, MapInv
  <2> QED  BY <2>1, <2>2
<1>5. entry'[b] = idToTrace'[t]
  BY <1>1, <1>2 DEF TypeOK
<1>6. joined[<<b, t>>] = NoTrace
  BY <1>2, <1>3 DEF JoinInv
<1>7. pc[b] = "next" /\ pc'[b] \in {"add", "policies"} /\ policy'[b] = 1
  BY <1>1, <1>2 DEF LoadOrStore, TypeOK
<1> QED  BY <1>2, <1>3, <1>4, <1>5, <1>6, <1>7

(* The entries a call joined, as the other steps leave them.               *)
LEMMA NoJoin ==
  ASSUME BaseInv, NEW b \in Batches, ConsumeTraceData(b), ~LoadOrStore(b)
  PROVE  /\ UNCHANGED <<joined, todo, entry>>
         /\ pc[b] \in Busy \/ (pc[b] = "next" /\ pc'[b] = "done")
         /\ pc'[b] \in Busy \cup {"next", "done"}
  BY DEF BaseInv, TypeOK, ConsumeTraceData, Return, AddToBatcher, PostDeletion, TakeOldest, DropTrace,
         KeepSpans, LateSpans, Busy

LEMMA NoCall ==
  ASSUME [Next]_vars, \A b \in Batches : ~ConsumeTraceData(b)
  PROVE  UNCHANGED <<joined, callVars>>
  BY DEF Next, samplingPolicyOnTick, TickTake, TickLoad, Evaluate, SendReceived, ClearReceived,
         FillBatch, vars

LEMMA JoinStep ==
  ASSUME BaseInv, JoinInv, [Next]_vars
  PROVE  JoinInv'
<1>1. TypeOK
  BY DEF BaseInv
<1>2. ASSUME NEW b \in Batches, LoadOrStore(b) PROVE JoinInv'
  <2>1. PICK t \in Traces :
           /\ <<b, t>> \in Spans /\ joined[<<b, t>>] = NoTrace
           /\ todo' = [todo EXCEPT ![b] = @ \ {t}]
           /\ entry'[b] \in Spans /\ entry'[b][2] = t
           /\ joined' = [joined EXCEPT ![<<b, t>>] = entry'[b]]
    BY <1>2, JoinsTrace
  <2>2. joined'[<<b, t>>] = entry'[b] /\ entry'[b] # NoTrace
    BY <1>1, <2>1, SpanFacts DEF TypeOK
  <2>3. \A s \in Spans : s # <<b, t>> => joined'[s] = joined[s]
    BY <1>1, <2>1 DEF TypeOK
  <2>4. /\ todo'[b] = todo[b] \ {t}
        /\ \A c \in Batches : c # b =>
             todo'[c] = todo[c] /\ pc'[c] = pc[c] /\ entry'[c] = entry[c]
    BY <1>1, <1>2, <2>1, OtherCalls DEF TypeOK, ConsumeTraceData
  <2>5. ASSUME NEW s \in Spans
        PROVE  /\ joined'[s] = NoTrace <=> s[2] \in todo'[s[1]]
               /\ joined'[s] # NoTrace => joined'[s][2] = s[2]
    <3>0. s = <<s[1], s[2]>> /\ s[1] \in Batches
      BY SpanFacts
    <3>1. CASE s = <<b, t>>
      <4>1. s[1] = b /\ s[2] = t
        BY <3>1
      <4> QED  BY <2>1, <2>2, <2>4, <3>1, <4>1
    <3>2. CASE s # <<b, t>>
      <4>1. s[1] # b \/ s[2] # t
        BY <3>0, <3>2
      <4>2. joined[s] = NoTrace <=> s[2] \in todo[s[1]]
        BY DEF JoinInv
      <4>3. joined[s] # NoTrace => joined[s][2] = s[2]
        BY DEF JoinInv
      <4>4. joined'[s] = joined[s]
        BY <2>3, <3>2
      <4>5. s[2] \in todo'[s[1]] <=> s[2] \in todo[s[1]]
        BY <2>4, <3>0, <4>1
      <4> QED  BY <4>2, <4>3, <4>4, <4>5
    <3> QED  BY <3>1, <3>2
  <2>6. ASSUME NEW c \in Batches, pc'[c] \notin {"next", "done"}
        PROVE  <<c, entry'[c][2]>> \in Spans /\ joined'[<<c, entry'[c][2]>>] = entry'[c]
    <3>1. CASE c = b
      BY <2>1, <2>2, <3>1
    <3>2. CASE c # b
      <4>1. <<c, entry[c][2]>> \in Spans /\ joined[<<c, entry[c][2]>>] = entry[c]
        BY <2>4, <2>6, <3>2 DEF JoinInv
      <4>2. <<c, entry[c][2]>> # <<b, t>>
        BY <3>2
      <4> QED  BY <2>3, <2>4, <3>2, <4>1, <4>2
    <3> QED  BY <3>1, <3>2
  <2> QED  BY <2>5, <2>6 DEF JoinInv
<1>3. ASSUME NEW b \in Batches, ConsumeTraceData(b), ~LoadOrStore(b) PROVE JoinInv'
  <2>1. /\ UNCHANGED <<joined, todo, entry>>
        /\ \A c \in Batches : pc'[c] \notin {"next", "done"} => pc[c] \notin {"next", "done"}
    BY <1>1, <1>3, NoJoin, OtherCalls DEF Busy
  <2> QED  BY <2>1 DEF JoinInv
<1>4. CASE \A b \in Batches : ~ConsumeTraceData(b)
  BY <1>4, NoCall DEF JoinInv, callVars
<1> QED  BY <1>2, <1>3, <1>4 DEF Next, ConsumeTraceData

(* A call that is through with a trace stays so.                           *)
LEMMA SettledStays ==
  ASSUME BaseInv, JoinInv, [Next]_vars, NEW s \in Spans, Settled(s)
  PROVE  Settled(s)' /\ joined'[s] = joined[s]
<1>1. TypeOK /\ s = <<s[1], s[2]>> /\ s[1] \in Batches
  BY SpanFacts DEF BaseInv
<1>2. joined[s] # NoTrace /\ (pc[s[1]] \in Busy => entry[s[1]][2] # s[2])
  BY DEF Settled, Busy
<1>3. ASSUME joined'[s] = joined[s], pc'[s[1]] \in Busy => entry'[s[1]][2] # s[2]
      PROVE  Settled(s)' /\ joined'[s] = joined[s]
  BY <1>2, <1>3 DEF Settled, Busy
<1>4. ASSUME NEW b \in Batches, LoadOrStore(b) PROVE Settled(s)' /\ joined'[s] = joined[s]
  <2>1. PICK t \in Traces :
           /\ <<b, t>> \in Spans /\ joined[<<b, t>>] = NoTrace
           /\ entry'[b] \in Spans /\ entry'[b][2] = t
           /\ joined' = [joined EXCEPT ![<<b, t>>] = entry'[b]]
    BY <1>4, JoinsTrace
  <2>2. s # <<b, t>>
    BY <1>2, <2>1
  <2>3. joined'[s] = joined[s]
    BY <1>1, <2>1, <2>2 DEF TypeOK
  <2>4. CASE s[1] = b
    <3>1. s[2] # t
      BY <1>1, <2>2, <2>4
    <3> QED  BY <1>3, <2>1, <2>3, <2>4, <3>1
  <2>5. CASE s[1] # b
    BY <1>1, <1>2, <1>3, <1>4, <2>3, <2>5, OtherCalls DEF ConsumeTraceData
  <2> QED  BY <2>4, <2>5
<1>5. ASSUME NEW b \in Batches, ConsumeTraceData(b), ~LoadOrStore(b)
      PROVE  Settled(s)' /\ joined'[s] = joined[s]
  <2>1. UNCHANGED <<joined, entry>> /\ (pc'[s[1]] \in Busy => pc[s[1]] \in Busy)
    BY <1>1, <1>5, NoJoin, OtherCalls DEF Busy
  <2> QED  BY <1>2, <1>3, <2>1
<1>6. CASE \A b \in Batches : ~ConsumeTraceData(b)
  BY <1>2, <1>3, <1>6, NoCall DEF callVars
<1> QED  BY <1>4, <1>5, <1>6 DEF Next, ConsumeTraceData

LEMMA KeptStep ==
  ASSUME BaseInv, JoinInv, KeptInv, [Next]_vars
  PROVE  KeptInv'
<1>1. TypeOK
  BY DEF BaseInv
<1>2. ASSUME NEW e \in Spans, NEW b \in received[e]
      PROVE  /\ <<b, e[2]>> \in Spans /\ joined'[<<b, e[2]>>] = e /\ Settled(<<b, e[2]>>)'
  <2>1. <<b, e[2]>> \in Spans /\ joined[<<b, e[2]>>] = e /\ Settled(<<b, e[2]>>)
    BY DEF KeptInv
  <2> QED  BY <2>1, SettledStays
<1>3. ASSUME \A e \in Spans : received'[e] \subseteq received[e] PROVE KeptInv'
  BY <1>2, <1>3 DEF KeptInv
<1>4. ASSUME NEW b \in Batches, KeepSpans(b) PROVE KeptInv'
  <2>1. /\ received' = [received EXCEPT ![entry[b]] = @ \cup {b}]
        /\ pc[b] = "policies" /\ pc'[b] = "next" /\ UNCHANGED <<entry, joined>>
        /\ entry[b] \in Spans /\ <<b, entry[b][2]>> \in Spans
        /\ joined[<<b, entry[b][2]>>] = entry[b]
    BY <1>1, <1>4 DEF KeepSpans, TypeOK, BaseInv, CallInv, JoinInv
  <2>2. Settled(<<b, entry[b][2]>>)'
    BY <2>1, SpanFacts DEF Settled
  <2>3. ASSUME NEW e \in Spans, NEW c \in received'[e], ~(e = entry[b] /\ c = b)
        PROVE  c \in received[e]
    BY <1>1, <2>1, <2>3 DEF TypeOK
  <2>4. ASSUME NEW e \in Spans, NEW c \in received'[e]
        PROVE  /\ <<c, e[2]>> \in Spans /\ joined'[<<c, e[2]>>] = e /\ Settled(<<c, e[2]>>)'
    <3>1. CASE e = entry[b] /\ c = b
      BY <2>1, <2>2, <3>1
    <3>2. CASE ~(e = entry[b] /\ c = b)
      BY <1>2, <2>3, <3>2
    <3> QED  BY <3>1, <3>2
  <2> QED  BY <2>4 DEF KeptInv
<1>5. CASE ClearReceived
  BY <1>1, <1>3, <1>5 DEF ClearReceived, TypeOK
<1>6. ASSUME NEW b \in Batches, ConsumeTraceData(b), ~KeepSpans(b) PROVE received' = received
  BY <1>6 DEF ConsumeTraceData, Return, AddToBatcher, LoadOrStore, DropTrace, PostDeletion, TakeOldest,
              LateSpans, traceVars
<1>7. CASE TickTake \/ TickLoad \/ Evaluate \/ SendReceived \/ FillBatch \/ UNCHANGED vars
  BY <1>3, <1>7 DEF TickTake, TickLoad, Evaluate, SendReceived, FillBatch, vars, traceVars
<1> QED  BY <1>3, <1>4, <1>5, <1>6, <1>7 DEF Next, samplingPolicyOnTick

(* A decision is never pending again.                                      *)
LEMMA DecidedStays ==
  ASSUME BaseInv, [Next]_vars, NEW e \in Spans, NEW p \in Policies, Decided(e, p)
  PROVE  Decided(e, p)'
<1>1. CASE Evaluate
  <2>1. PICK d \in {"sampled", "notSampled"} :
          decision' = [decision EXCEPT ![tickTrace][tickPolicy] = d]
    BY <1>1 DEF Evaluate
  <2>2. decision'[e][p] = decision[e][p] \/ decision'[e][p] = d
    BY <2>1 DEF BaseInv, TypeOK
  <2> QED  BY <2>2 DEF Decided
<1>2. ASSUME decision' = decision PROVE Decided(e, p)'
  BY <1>2 DEF Decided
<1>3. ASSUME NEW b \in Batches, ConsumeTraceData(b) PROVE decision' = decision
  BY <1>3 DEF ConsumeTraceData, Return, AddToBatcher, LoadOrStore, DropTrace, PostDeletion, TakeOldest,
              KeepSpans, LateSpans, traceVars
<1>4. CASE TickTake \/ TickLoad \/ SendReceived \/ ClearReceived \/ FillBatch \/ UNCHANGED vars
  BY <1>2, <1>4 DEF TickTake, TickLoad, SendReceived, ClearReceived, FillBatch, vars, traceVars
<1> QED  BY <1>1, <1>2, <1>3, <1>4 DEF Next, samplingPolicyOnTick

LEMMA LoopStep ==
  ASSUME BaseInv, JoinInv, LoopInv, [Next]_vars
  PROVE  LoopInv'
<1>1. TypeOK
  BY DEF BaseInv
<1> DEFINE Loop(c) ==
      /\ pc[c] \in {"add", "post", "take", "drop"} => policy[c] = 1
      /\ pc[c] = "policies" => \A p \in Policies : p < policy[c] => Decided(entry[c], p)
<1>2. ASSUME NEW c \in Batches PROVE Loop(c)
  BY DEF LoopInv
<1>3. ASSUME NEW c \in Batches, UNCHANGED <<pc[c], entry[c], policy[c]>> PROVE Loop(c)'
  <2>1. pc[c] = "policies" => entry[c] \in Spans
    BY DEF BaseInv, CallInv
  <2> QED  BY <1>2, <1>3, <2>1, DecidedStays
<1>4. ASSUME NEW b \in Batches, ConsumeTraceData(b) PROVE Loop(b)'
  <2>1. CASE LoadOrStore(b)
    <3>1. policy'[b] = 1
      BY <2>1, JoinsTrace
    <3>2. \A p \in Policies : ~(p < 1)
      BY DEF Policies
    <3> QED  BY <3>1, <3>2
  <2>2. CASE Return(b) \/ KeepSpans(b)
    BY <1>1, <2>2 DEF Return, KeepSpans, TypeOK
  <2>3. CASE AddToBatcher(b) \/ PostDeletion(b) \/ TakeOldest(b) \/ DropTrace(b)
    <3>1. policy' = policy /\ policy[b] = 1
      BY <1>2, <2>3 DEF AddToBatcher, PostDeletion, TakeOldest, DropTrace
    <3>2. \A p \in Policies : ~(p < 1)
      BY DEF Policies
    <3> QED  BY <3>1, <3>2
  <2>4. CASE LateSpans(b)
    <3>1. /\ pc[b] = "policies" /\ Decided(entry[b], policy[b]) /\ entry' = entry
          /\ entry[b] \in Spans /\ policy[b] \in Policies
          /\ pc'[b] \in {"policies", "next"} /\ UNCHANGED decision
          /\ pc'[b] = "policies" => policy'[b] = policy[b] + 1
      BY <1>1, <2>4 DEF LateSpans, Decided, TypeOK, BaseInv, CallInv
    <3>2. \A p \in Policies : p < policy[b] + 1 => p < policy[b] \/ p = policy[b]
      BY <3>1 DEF Policies
    <3>3. \A p \in Policies : p < policy[b] + 1 => Decided(entry[b], p)
      BY <1>2, <3>1, <3>2
    <3> QED  BY <3>1, <3>3 DEF Decided
  <2> QED  BY <1>4, <2>1, <2>2, <2>3, <2>4 DEF ConsumeTraceData
<1>5. ASSUME NEW c \in Batches, NEW b \in Batches, b # c, ConsumeTraceData(b)
      PROVE  UNCHANGED <<pc[c], entry[c], policy[c]>>
  BY <1>1, <1>5, OtherCalls
<1>6. ASSUME NEW c \in Batches PROVE Loop(c)'
  <2>1. CASE \E b \in Batches : ConsumeTraceData(b)
    BY <1>3, <1>4, <1>5, <2>1
  <2>2. CASE \A b \in Batches : ~ConsumeTraceData(b)
    BY <1>3, <2>2, NoCall DEF callVars
  <2> QED  BY <2>1, <2>2
<1> QED  BY <1>6 DEF LoopInv

-----------------------------------------------------------------------------
(* A destination gets spans from SendReceived, for the policy that decided *)
(* to send them, and from LateSpans.                                       *)
LEMMA LateSent ==
  ASSUME BaseInv, JoinInv, NEW b \in Batches, LateSpans(b)
  PROVE  /\ <<b, entry[b][2]>> \in Spans /\ entry[b] \in Spans /\ policy[b] \in Policies
         /\ joined[<<b, entry[b][2]>>] = entry[b] /\ Decided(entry[b], policy[b])
         /\ \A r \in Spans, q \in Policies :
              sent'[r][q] = IF /\ r = <<b, entry[b][2]>> /\ q = policy[b]
                               /\ decision[entry[b]][policy[b]] = "sampled"
                            THEN sent[r][q] + 1 ELSE sent[r][q]
<1> DEFINE s == <<b, entry[b][2]>>
<1>1. TypeOK /\ pc[b] = "policies"
  BY DEF BaseInv, LateSpans
<1>2. s \in Spans /\ entry[b] \in Spans /\ policy[b] \in Policies /\ joined[s] = entry[b]
  BY <1>1 DEF TypeOK, BaseInv, CallInv, JoinInv
<1>4. Decided(entry[b], policy[b])
  BY DEF LateSpans, Decided
<1>5. sent' = IF decision[entry[b]][policy[b]] = "sampled"
              THEN [sent EXCEPT ![s][policy[b]] = @ + 1] ELSE sent
  BY DEF LateSpans
<1> HIDE DEF s
<1>6. \A r \in Spans, q \in Policies :
        sent'[r][q] = IF r = s /\ q = policy[b] /\ decision[entry[b]][policy[b]] = "sampled"
                      THEN sent[r][q] + 1 ELSE sent[r][q]
  BY <1>1, <1>2, <1>5 DEF TypeOK
<1> QED  BY <1>2, <1>4, <1>6 DEF s

LEMMA TickSent ==
  ASSUME BaseInv, JoinInv, KeptInv, SendReceived
  PROVE  /\ tickTrace \in Spans /\ tickPolicy \in Policies
         /\ \A r \in Spans, q \in Policies :
              sent'[r][q] = IF joined[r] = tickTrace /\ r[1] \in received[tickTrace] /\ q = tickPolicy
                            THEN sent[r][q] + 1 ELSE sent[r][q]
<1>1. TypeOK /\ tickTrace \in Spans /\ tickPolicy \in Policies
  BY DEF BaseInv, SendReceived, TickInv, TypeOK
<1>2. ASSUME NEW r \in Spans
      PROVE  r \in {<<b, tickTrace[2]>> : b \in received[tickTrace]}
               <=> joined[r] = tickTrace /\ r[1] \in received[tickTrace]
  <2>1. r = <<r[1], r[2]>>
    BY SpanFacts
  <2>2. joined[r] = tickTrace => r[2] = tickTrace[2]
    BY <1>1, SpanFacts DEF JoinInv
  <2>3. \A b \in received[tickTrace] : joined[<<b, tickTrace[2]>>] = tickTrace
    BY <1>1 DEF KeptInv
  <2>4. \A b : r = <<b, tickTrace[2]>> => r[1] = b
    OBVIOUS
  <2> QED  BY <2>1, <2>2, <2>3, <2>4
<1>3. ASSUME NEW r \in Spans, NEW q \in Policies
      PROVE  sent'[r][q] = IF joined[r] = tickTrace /\ r[1] \in received[tickTrace] /\ q = tickPolicy
                           THEN sent[r][q] + 1 ELSE sent[r][q]
  <2> DEFINE ready == {<<b, tickTrace[2]>> : b \in received[tickTrace]}
  <2>1. sent' = [r1 \in Spans |->
                   IF r1 \in ready THEN [sent[r1] EXCEPT ![tickPolicy] = @ + 1] ELSE sent[r1]]
    BY DEF SendReceived
  <2>2. r \in ready <=> joined[r] = tickTrace /\ r[1] \in received[tickTrace]
    BY <1>2
  <2> HIDE DEF ready
  <2> QED  BY <1>1, <2>1, <2>2 DEF TypeOK
<1> QED  BY <1>1, <1>3

LEMMA NotSentStep ==
  ASSUME BaseInv, JoinInv, KeptInv, [Next]_vars, NEW s \in Spans, NotSent(s)
  PROVE  NotSent(s)'
<1>1. joined'[s] = NoTrace => joined[s] = NoTrace
  <2>1. ASSUME NEW b \in Batches, LoadOrStore(b), joined'[s] = NoTrace PROVE joined[s] = NoTrace
    <3>1. PICK t \in Traces : /\ <<b, t>> \in Spans /\ joined[<<b, t>>] = NoTrace
                              /\ joined' = [joined EXCEPT ![<<b, t>>] = entry'[b]]
      BY <2>1, JoinsTrace
    <3> QED  BY <2>1, <3>1 DEF BaseInv, TypeOK
  <2>2. CASE \A b \in Batches : ~ConsumeTraceData(b)
    BY <2>2, NoCall
  <2>3. ASSUME NEW b \in Batches, ConsumeTraceData(b), ~LoadOrStore(b) PROVE joined' = joined
    BY <2>3, NoJoin
  <2> QED  BY <2>1, <2>2, <2>3
<1>2. ASSUME NEW b \in Batches, LateSpans(b), joined[s] = NoTrace, NEW q \in Policies
      PROVE  sent'[s][q] = sent[s][q]
  <2>1. s # <<b, entry[b][2]>>
    BY <1>2, LateSent, SpanFacts
  <2>2. \A r \in Spans, p \in Policies :
          sent'[r][p] = IF /\ r = <<b, entry[b][2]>> /\ p = policy[b]
                           /\ decision[entry[b]][policy[b]] = "sampled"
                        THEN sent[r][p] + 1 ELSE sent[r][p]
    BY <1>2, LateSent
  <2> QED  BY <2>1, <2>2
<1>3. ASSUME SendReceived, joined[s] = NoTrace, NEW q \in Policies PROVE sent'[s][q] = sent[s][q]
  <2>1. joined[s] # tickTrace
    BY <1>3, TickSent, SpanFacts
  <2> QED  BY <1>3, <2>1, TickSent
<1>4. ASSUME NEW b \in Batches, ConsumeTraceData(b), ~LateSpans(b) PROVE sent' = sent
  BY <1>4 DEF ConsumeTraceData, Return, AddToBatcher, LoadOrStore, DropTrace, PostDeletion, TakeOldest,
              KeepSpans, traceVars
<1>5. CASE TickTake \/ TickLoad \/ Evaluate \/ ClearReceived \/ FillBatch \/ UNCHANGED vars
  BY <1>1, <1>5 DEF TickTake, TickLoad, Evaluate, ClearReceived, FillBatch, vars, traceVars, NotSent
<1>6. ASSUME sent' = sent PROVE NotSent(s)'
  BY <1>1, <1>6 DEF NotSent
<1>7. ASSUME NEW b \in Batches, LateSpans(b) PROVE NotSent(s)'
  BY <1>1, <1>2, <1>7 DEF NotSent
<1>8. CASE SendReceived
  BY <1>1, <1>3, <1>8 DEF NotSent
<1> QED  BY <1>4, <1>5, <1>6, <1>7, <1>8 DEF Next, samplingPolicyOnTick

(* Who passes a policy: a call in its loop, and nobody else.               *)
LEMMA PassedCalls ==
  ASSUME UNCHANGED <<callVars, joined>>, NEW s, NEW p
  PROVE  Passed(s, p)' => Passed(s, p)
BY DEF Passed, Settled, callVars

LEMMA PassedBefore ==
  ASSUME BaseInv, JoinInv, LoopInv, NEW s \in Spans, NEW p \in Policies, joined[s] # NoTrace,
         joined'[s] = joined[s], NEW b \in Batches, ConsumeTraceData(b),
         ~(s[1] = b /\ s[2] = entry[b][2] /\ (KeepSpans(b) \/ LateSpans(b)))
  PROVE  Passed(s, p)' => Passed(s, p)
<1>1. TypeOK /\ s[1] \in Batches
  BY SpanFacts DEF BaseInv
<1>2. CASE s[1] # b
  <2>1. UNCHANGED <<pc[s[1]], entry[s[1]], policy[s[1]]>>
    BY <1>1, <1>2, OtherCalls
  <2> QED  BY <2>1 DEF Passed, Settled
<1>3. CASE s[1] = b /\ (pc[b] \notin Busy \/ entry[b][2] # s[2])
  BY <1>3 DEF Passed, Settled, Busy
<1>4. CASE s[1] = b /\ pc[b] \in Busy /\ entry[b][2] = s[2]
  <2>1. AddToBatcher(b) \/ PostDeletion(b) \/ TakeOldest(b) \/ DropTrace(b)
    BY <1>4 DEF ConsumeTraceData, LoadOrStore, Return, Busy
  <2>2. /\ UNCHANGED <<entry, policy>> /\ policy[b] = 1 /\ pc'[b] \in Busy
    BY <1>1, <2>1 DEF AddToBatcher, PostDeletion, TakeOldest, DropTrace, LoopInv, Busy, TypeOK
  <2>3. ~(p < 1)
    BY DEF Policies
  <2> QED  BY <1>4, <2>2, <2>3 DEF Passed, Settled, Busy
<1> QED  BY <1>2, <1>3, <1>4

(* A step that changes neither the entries nor what is sent.               *)
LEMMA FollowFrame ==
  ASSUME NEW s \in Spans, NEW p \in Policies, Follows(s, p),
         joined'[s] = joined[s], UNCHANGED <<decision, received, sent>>,
         Passed(s, p)' => Passed(s, p),
         tickPc = "send" => UNCHANGED <<tickTrace, tickPc, tickPolicy>>
  PROVE  Follows(s, p)'
BY DEF Follows, Sending

(* A call joins an entry: it has not passed a policy yet.                  *)
LEMMA FollowJoin ==
  ASSUME BaseInv, JoinInv, NEW b \in Batches, LoadOrStore(b), NEW s \in Spans, NotSent(s),
         NEW p \in Policies, joined[s] = NoTrace, joined'[s] # NoTrace
  PROVE  Follows(s, p)'
<1>1. PICK t \in Traces :
         /\ <<b, t>> \in Spans /\ joined' = [joined EXCEPT ![<<b, t>>] = entry'[b]]
         /\ entry'[b][2] = t /\ pc'[b] \in {"add", "policies"} /\ policy'[b] = 1
  BY JoinsTrace
<1>2. s = <<b, t>>
  BY <1>1 DEF BaseInv, TypeOK
<1>3. ~(p < 1) /\ s[1] = b /\ s[2] = t
  BY <1>2 DEF Policies
<1>4. ~Passed(s, p)'
  BY <1>1, <1>3 DEF Passed, Settled
<1>5. sent'[s][p] = 0
  BY DEF LoadOrStore, traceVars, NotSent
<1> QED  BY <1>4, <1>5 DEF Follows

(* A call keeps its spans: the policies after the pending one have not     *)
(* decided either.                                                         *)
LEMMA FollowKeep ==
  ASSUME BaseInv, DecisionInv, JoinInv, LoopInv, NEW b \in Batches, KeepSpans(b), NEW s \in Spans,
         NEW p \in Policies, joined[s] # NoTrace, StoredOnce(joined[s]), Follows(s, p)
  PROVE  Follows(s, p)'
<1>1. /\ TypeOK /\ pc[b] = "policies" /\ UNCHANGED <<joined, decision, sent, tickVars>>
      /\ received' = [received EXCEPT ![entry[b]] = @ \cup {b}]
      /\ decision[entry[b]][policy[b]] = "pending"
      /\ entry[b] \in Spans /\ policy[b] \in Policies
      /\ joined[<<b, entry[b][2]>>] = entry[b]
  BY DEF BaseInv, TypeOK, CallInv, KeepSpans, JoinInv
<1>2. \A e \in Spans : received[e] \subseteq received'[e]
  BY <1>1 DEF TypeOK
<1>3. joined[s] \in Spans /\ s = <<s[1], s[2]>>
  BY <1>1, SpanFacts DEF TypeOK
<1>4. CASE ~(s[1] = b /\ s[2] = entry[b][2])
  <2>1. Passed(s, p)' => Passed(s, p)
    BY <1>1, <1>4, PassedBefore DEF ConsumeTraceData
  <2> QED  BY <1>1, <1>2, <1>3, <2>1 DEF Follows, Sending, tickVars
<1>5. CASE s[1] = b /\ s[2] = entry[b][2]
  <2>1. joined[s] = entry[b] /\ b \in received'[entry[b]]
    BY <1>1, <1>3, <1>5 DEF TypeOK
  <2>2. decision[entry[b]][p] = "sampled" => p < policy[b]
    <3>1. Progress(entry[b])
      BY <1>1, <2>1 DEF DecisionInv
    <3>2. ~Decided(entry[b], policy[b]) /\ p \in Nat /\ policy[b] \in Nat /\ tickPolicy \in Nat
      BY <1>1, PolicyFacts DEF Decided, TypeOK
    <3>3. decision[entry[b]][p] = "sampled" => Decided(entry[b], p)
      BY DEF Decided
    <3> QED  BY <1>1, <3>1, <3>2, <3>3 DEF Progress
  <2>3. p < policy[b] => Passed(s, p)
    BY <1>1, <1>5 DEF Passed
  <2> QED  BY <1>1, <1>2, <1>3, <1>5, <2>1, <2>2, <2>3 DEF Follows, Sending, tickVars
<1> QED  BY <1>4, <1>5

(* A call sends its spans itself, or not, and goes on.                     *)
LEMMA FollowLate ==
  ASSUME BaseInv, JoinInv, LoopInv, NEW b \in Batches, LateSpans(b), NEW s \in Spans,
         NEW p \in Policies, joined[s] # NoTrace, Follows(s, p)
  PROVE  Follows(s, p)'
<1>1. TypeOK /\ UNCHANGED <<joined, decision, received, tickVars, entry>>
  BY DEF BaseInv, LateSpans
<1>2. PICK r \in Spans : r = <<b, entry[b][2]>>
  BY LateSent
<1>3. PICK q \in Policies : q = policy[b]
  BY <1>1 DEF TypeOK
<1>4. /\ r[1] = b /\ r[2] = entry[b][2] /\ joined[r] = entry[b] /\ Decided(entry[b], q)
      /\ \A u \in Spans, v \in Policies :
           sent'[u][v] = IF u = r /\ v = q /\ decision[entry[b]][q] = "sampled"
                         THEN sent[u][v] + 1 ELSE sent[u][v]
  BY <1>2, <1>3, LateSent
<1>5. s = r <=> s[1] = b /\ s[2] = entry[b][2]
  BY <1>2, <1>4, SpanFacts
<1>6. sent[s][p] \in Nat
  BY <1>1 DEF TypeOK
<1>7. CASE s # r
  <2>1. Passed(s, p)' => Passed(s, p)
    BY <1>1, <1>5, <1>7, PassedBefore DEF ConsumeTraceData
  <2>2. sent'[s][p] = sent[s][p]
    BY <1>4, <1>7
  <2> QED  BY <1>1, <2>1, <2>2 DEF Follows, Sending, tickVars
<1>8. CASE s = r /\ p = q
  <2>1. decision[joined[s]][p] # "pending"
    BY <1>4, <1>8 DEF Decided
  <2>2. sent'[s][p] = IF decision[joined[s]][p] = "sampled" THEN sent[s][p] + 1 ELSE sent[s][p]
    BY <1>4, <1>8
  <2> QED  BY <1>1, <1>6, <2>1, <2>2 DEF Follows
<1>9. CASE s = r /\ p # q
  <2>1. sent'[s][p] = sent[s][p]
    BY <1>4, <1>9
  <2>2. Passed(s, p)' => Passed(s, p)
    <3>1. pc[b] = "policies" /\ (pc'[b] = "policies" => policy'[b] = q + 1)
          /\ (pc'[b] # "policies" => q = NumPolicies)
      <4>1. pc[b] = "policies" /\ q \in Nat /\ NumPolicies \in Nat /\ q <= NumPolicies
        BY <1>3, TailSamplingAssumption DEF LateSpans, Policies, TailSamplingAssumption
      <4>2. CASE q < NumPolicies
        <5>1. policy' = [policy EXCEPT ![b] = q + 1] /\ pc' = pc
          BY <1>3, <4>2 DEF LateSpans
        <5> QED  BY <1>1, <4>1, <5>1 DEF TypeOK
      <4>3. CASE ~(q < NumPolicies)
        <5>1. pc' = [pc EXCEPT ![b] = "next"]
          BY <1>3, <4>3 DEF LateSpans
        <5> QED  BY <1>1, <4>1, <4>3, <5>1 DEF TypeOK
      <4> QED  BY <4>2, <4>3
    <3>2. Passed(s, p)' => p < q + 1 \/ q = NumPolicies
      BY <1>1, <1>4, <1>5, <1>9, <3>1 DEF Passed, Settled
    <3>3. Passed(s, p)' => p < q
      BY <1>9, <3>2, TailSamplingAssumption DEF Policies, TailSamplingAssumption
    <3>4. p < q => Passed(s, p)
      BY <1>3, <1>5, <1>9, <3>1 DEF Passed
    <3> QED  BY <3>3, <3>4
  <2> QED  BY <1>1, <2>1, <2>2 DEF Follows, Sending, tickVars
<1> QED  BY <1>7, <1>8, <1>9

(* The ticker decides: the spans of who passed are in the entry.           *)
LEMMA FollowEvaluate ==
  ASSUME BaseInv, DecisionInv, Evaluate, NEW s \in Spans, NEW p \in Policies,
         joined[s] # NoTrace, StoredOnce(joined[s]), Follows(s, p)
  PROVE  Follows(s, p)'
<1>1. /\ TypeOK /\ UNCHANGED <<callVars, joined, received, sent, tickTrace>> /\ tickPc = "evaluate"
      /\ tickTrace \in Spans /\ tickPolicy \in Policies /\ joined[s] \in Spans
  BY DEF BaseInv, TypeOK, TickInv, Evaluate
<1>2. PICK d \in {"sampled", "notSampled"} :
        /\ decision' = [decision EXCEPT ![tickTrace][tickPolicy] = d]
        /\ d = "sampled" => tickPc' = "send" /\ tickPolicy' = tickPolicy
  BY DEF Evaluate
<1>3. Passed(s, p)' => Passed(s, p)
  BY <1>1, PassedCalls
<1>4. CASE joined[s] = tickTrace /\ p = tickPolicy
  <2>1. decision[joined[s]][p] = "pending"
    <3>1. Progress(joined[s])
      BY <1>1 DEF DecisionInv
    <3> QED  BY <1>1, <1>4, <3>1, PolicyFacts DEF Progress, Decided
  <2>2. decision'[joined[s]][p] = d
    BY <1>1, <1>2, <1>4 DEF TypeOK
  <2>3. sent[s][p] = 0 /\ (Passed(s, p) => s[1] \in received[joined[s]])
    BY <2>1 DEF Follows
  <2> QED  BY <1>1, <1>2, <1>3, <1>4, <2>2, <2>3 DEF Follows, Sending
<1>5. CASE ~(joined[s] = tickTrace /\ p = tickPolicy)
  <2>1. decision'[joined[s]][p] = decision[joined[s]][p]
    BY <1>1, <1>2, <1>5 DEF TypeOK
  <2> QED  BY <1>1, <1>3, <2>1 DEF Follows, Sending
<1> QED  BY <1>4, <1>5

(* The ticker sends what was received until then.                          *)
LEMMA FollowSend ==
  ASSUME BaseInv, DecisionInv, JoinInv, KeptInv, SendReceived, NEW s \in Spans, NEW p \in Policies,
         joined[s] # NoTrace, Follows(s, p)
  PROVE  Follows(s, p)'
<1>1. /\ TypeOK /\ UNCHANGED <<callVars, joined, decision, received>> /\ tickPc = "send"
      /\ decision[tickTrace][tickPolicy] = "sampled"
  BY DEF BaseInv, TypeOK, SendReceived, DecisionInv
<1>2. Passed(s, p)' => Passed(s, p)
  BY <1>1, PassedCalls
<1>3. sent'[s][p] = IF joined[s] = tickTrace /\ s[1] \in received[tickTrace] /\ p = tickPolicy
                    THEN sent[s][p] + 1 ELSE sent[s][p]
  BY TickSent
<1>4. sent[s][p] \in Nat
  BY <1>1 DEF TypeOK
<1> QED  BY <1>1, <1>2, <1>3, <1>4 DEF Follows, Sending

(* When the ticker releases the spans every policy has decided.            *)
LEMMA FollowClear ==
  ASSUME BaseInv, DecisionInv, ClearReceived, NEW s \in Spans, NEW p \in Policies,
         joined[s] # NoTrace, StoredOnce(joined[s]), Follows(s, p)
  PROVE  Follows(s, p)'
<1>1. /\ TypeOK /\ UNCHANGED <<callVars, joined, decision, sent>> /\ tickPc = "clear"
      /\ received' = [received EXCEPT ![tickTrace] = {}] /\ joined[s] \in Spans
      /\ tickPolicy = NumPolicies
  BY DEF BaseInv, TypeOK, ClearReceived, DecisionInv
<1>2. Passed(s, p)' => Passed(s, p)
  BY <1>1, PassedCalls
<1>3. CASE joined[s] = tickTrace
  <2>1. decision[joined[s]][p] # "pending"
    <3>1. Progress(joined[s]) /\ (p < NumPolicies \/ p = NumPolicies)
      BY <1>1, TailSamplingAssumption DEF DecisionInv, Policies, TailSamplingAssumption
    <3> QED  BY <1>1, <1>3, <3>1 DEF Progress, Decided
  <2> QED  BY <1>1, <1>2, <2>1 DEF Follows, Sending
<1>4. CASE joined[s] # tickTrace
  <2>1. received'[joined[s]] = received[joined[s]]
    BY <1>1, <1>4 DEF TypeOK
  <2> QED  BY <1>1, <1>2, <2>1 DEF Follows, Sending
<1> QED  BY <1>3, <1>4

LEMMA FollowStep ==
  ASSUME BaseInv, DecisionInv, SpanInv, [Next]_vars
  PROVE  FollowInv'
<1>1. TypeOK /\ JoinInv /\ KeptInv /\ LoopInv /\ FollowInv
  BY DEF BaseInv, SpanInv
<1>3. \A s \in Spans : NotSent(s)'
  BY <1>1, NotSentStep DEF FollowInv
<1>4. ASSUME NEW s \in Spans, NEW p \in Policies, joined'[s] # NoTrace, StoredOnce(joined[s])'
      PROVE  Follows(s, p)'
  <2>1. CASE joined[s] = NoTrace
    <3>1. PICK b \in Batches : LoadOrStore(b)
      <4>1. joined' # joined
        BY <1>4, <2>1
      <4> QED  BY <4>1, NoCall, NoJoin
    <3> QED  BY <1>1, <1>4, <2>1, <3>1, FollowJoin DEF FollowInv
  <2>2. CASE joined[s] # NoTrace
    <3>1. joined'[s] = joined[s]
      <4>1. ASSUME NEW b \in Batches, LoadOrStore(b) PROVE joined'[s] = joined[s]
        <5>1. PICK t \in Traces : /\ <<b, t>> \in Spans /\ joined[<<b, t>>] = NoTrace
                                  /\ joined' = [joined EXCEPT ![<<b, t>>] = entry'[b]]
          BY <1>1, <4>1, JoinsTrace
        <5> QED  BY <1>1, <2>2, <5>1 DEF TypeOK
      <4> QED  BY <4>1, NoCall, NoJoin
    <3>2. StoredOnce(joined[s]) /\ Follows(s, p)
      <4>1. \A f \in evicted' : f[2] = joined[s][2] => f = joined[s]
        BY <1>4, <3>1 DEF StoredOnce
      <4>2. StoredOnce(joined[s])
        BY <4>1, StoredGrows DEF StoredOnce
      <4> QED  BY <1>1, <2>2, <4>2 DEF FollowInv
    <3>3. ASSUME NEW b \in Batches, KeepSpans(b) PROVE Follows(s, p)'
      BY <1>1, <2>2, <3>2, <3>3, FollowKeep
    <3>4. ASSUME NEW b \in Batches, LateSpans(b) PROVE Follows(s, p)'
      BY <1>1, <2>2, <3>2, <3>4, FollowLate
    <3>5. ASSUME NEW b \in Batches, ConsumeTraceData(b), ~KeepSpans(b), ~LateSpans(b)
          PROVE  Follows(s, p)'
      <4>1. UNCHANGED <<decision, received, sent, tickVars>>
        BY <3>5 DEF ConsumeTraceData, LoadOrStore, Return, AddToBatcher, PostDeletion, TakeOldest,
                    DropTrace, traceVars
      <4>2. Passed(s, p)' => Passed(s, p)
        BY <1>1, <2>2, <3>1, <3>5, PassedBefore
      <4> QED  BY <3>1, <3>2, <4>1, <4>2, FollowFrame DEF tickVars
    <3>6. CASE TickTake \/ TickLoad \/ FillBatch \/ UNCHANGED vars
      <4>1. /\ UNCHANGED <<callVars, joined, decision, received, sent>>
            /\ tickPc = "send" => UNCHANGED <<tickTrace, tickPc, tickPolicy>>
        BY <3>6 DEF TickTake, TickLoad, FillBatch, vars, traceVars, tickVars
      <4>2. Passed(s, p)' => Passed(s, p)
        BY <4>1, PassedCalls
      <4> QED  BY <3>2, <4>1, <4>2, FollowFrame
    <3>7. CASE Evaluate \/ SendReceived \/ ClearReceived
      BY <1>1, <2>2, <3>2, <3>7, FollowEvaluate, FollowSend, FollowClear
    <3> QED  BY <3>3, <3>4, <3>5, <3>6, <3>7 DEF Next, samplingPolicyOnTick
  <2> QED  BY <2>1, <2>2
<1> QED  BY <1>3, <1>4 DEF FollowInv

LEMMA SpanInit == Init => SpanInv
<1> SUFFICES ASSUME Init PROVE SpanInv
  OBVIOUS
<1>1. ASSUME NEW s \in Spans PROVE s[2] \in TracesOf[s[1]] /\ s[1] \in Batches
  BY SpanFacts
<1>2. \A s \in Spans : joined[s] = NoTrace /\ s[2] \in todo[s[1]]
  BY <1>1 DEF Init
<1>3. \A b \in Batches : pc[b] = "next"
  BY DEF Init
<1>4. \A e \in Spans : received[e] = {}
  BY DEF Init
<1>5. \A s \in Spans, p \in Policies : sent[s][p] = 0
  BY DEF Init
<1> QED  BY <1>2, <1>3, <1>4, <1>5 DEF SpanInv, JoinInv, KeptInv, LoopInv, FollowInv, NotSent

(* No interleaving of the calls with the ticker loses spans of a trace that*)
(* was not evicted and stored again: when a call is through with them they *)
(* are in the entry for as long as a policy is pending, at the destination *)
(* of a policy that sampled the trace (or on the way), and nowhere else.   *)
THEOREM SpansFollow == Spec => []SpansFollowDecision
<1>1. ASSUME BaseInv, DecisionInv, SpanInv, [Next]_vars PROVE SpanInv'
  BY <1>1, JoinStep, KeptStep, LoopStep, FollowStep DEF SpanInv
<1>2. ASSUME BaseInv, SpanInv PROVE SpansFollowDecision
  <2> SUFFICES ASSUME NEW s \in Spans, Settled(s), StoredOnce(joined[s]), NEW p \in Policies
               PROVE  LET e == joined[s] IN
                        CASE decision[e][p] = "pending" -> s[1] \in received[e]
                          [] decision[e][p] = "sampled" ->
                               \/ sent[s][p] > 0
                               \/ s[1] \in received[e] /\ tickTrace = e /\ tickPc = "send"
                                  /\ tickPolicy = p
                          [] decision[e][p] = "notSampled" -> sent[s][p] = 0
    BY DEF SpansFollowDecision
  <2>1. joined[s] # NoTrace /\ joined[s] \in Spans
    BY <1>2 DEF Settled, BaseInv, TypeOK
  <2>2. Follows(s, p) /\ Passed(s, p)
    BY <1>2, <2>1 DEF SpanInv, FollowInv, Passed
  <2>3. decision[joined[s]][p] \in {"pending", "sampled", "notSampled"}
    BY <1>2, <2>1 DEF BaseInv, TypeOK, Decisions
  <2> QED  BY <2>2, <2>3 DEF Follows, Sending
<1>3. Spec => [](BaseInv /\ DecisionInv /\ SpanInv)
  BY <1>1, BaseInit, BaseStep, DecisionInit, ProgressStep, SpanInit, PTL DEF Spec
<1> QED  BY <1>2, <1>3, PTL

-----------------------------------------------------------------------------
(* EvictInv is what EvictionAgrees says and that the sets are finite.      *)
LEMMA EvictAgrees == BaseInv /\ EvictInv => EvictionAgrees
<1> SUFFICES ASSUME BaseInv, EvictInv PROVE EvictionAgrees
  OBVIOUS
<1>1. EachTraceEvictableOnce
  BY DEF EvictInv, NoRepeat, IsInjective, EachTraceEvictableOnce, Evictable
<1>2. AddCalls \subseteq StoringCalls
  BY DEF AddCalls, StoringCalls
<1>3. /\ Cardinality(AddCalls) \in Nat /\ Cardinality(StoringCalls) \in Nat
      /\ Cardinality(DroppingCalls) \in Nat /\ Cardinality(OnMap) \in Nat
      /\ Cardinality(AddCalls) <= Cardinality(StoringCalls)
  BY <1>2, FS_Subset, FS_CardinalityType DEF EvictInv, Finite
<1>4. Len(deleteChan) \in Nat /\ Len(deleteChan) <= MaxNumTraces
  BY LenProperties DEF BaseInv, TypeOK
<1>5. numTracesOnMap \in Nat
  BY <1>3, <1>4 DEF EvictInv, Counts
<1>6. TracesCounted
  BY <1>4, <1>5 DEF EvictInv, Counts, TracesCounted, AddCalls
<1> QED  BY <1>1, <1>6 DEF EvictionAgrees

LEMMA EvictInit == Init => EvictInv
<1> SUFFICES ASSUME Init PROVE EvictInv
  OBVIOUS
<1>1. /\ OnMap = {} /\ StoringCalls = {} /\ DroppingCalls = {} /\ AddCalls = {}
      /\ deleteChan = <<>> /\ numTracesOnMap = 0
  BY DEF Init, OnMap, StoringCalls, DroppingCalls, AddCalls
<1>2. IsFiniteSet({}) /\ Cardinality({}) = 0 /\ Len(<<>>) = 0 /\ NoRepeat(<<>>)
  BY FS_EmptySet DEF NoRepeat
<1>3. ASSUME NEW t \in Traces PROVE Evictable(t)
  <2>1. Storing(t) = {} /\ Dropping(t) = {} /\ Range(deleteChan) = {} /\ idToTrace[t] = NoTrace
    BY <1>1, EmptyRange DEF Init, Storing, Dropping
  <2> QED  BY <2>1 DEF Evictable, AtMostOne
<1> QED  BY <1>1, <1>2, <1>3 DEF EvictInv, Finite, Counts

(* Storing a trace that is not in the map.                                 *)
LEMMA StoreEvict ==
  ASSUME BaseInv, EvictInv, NEW b \in Batches, LoadOrStore(b)
  PROVE  EvictInv'
<1>0. TypeOK /\ CallInv(b) /\ pc[b] = "next" /\ victim[b] = {} /\ victim' = victim
  BY DEF BaseInv, CallInv, LoadOrStore
<1>1. PICK t \in todo[b] :
        /\ IF idToTrace[t] = NoTrace
           THEN idToTrace' = [idToTrace EXCEPT ![t] = <<b, t>>] /\ pc' = [pc EXCEPT ![b] = "add"]
           ELSE idToTrace' = idToTrace /\ pc' = [pc EXCEPT ![b] = "policies"]
        /\ entry' = [entry EXCEPT ![b] = idToTrace'[t]]
  BY DEF LoadOrStore
<1>2. /\ t \in Traces /\ <<b, t>> \in Spans /\ <<b, t>>[2] = t
      /\ b \notin StoringCalls /\ b \notin DroppingCalls /\ b \notin AddCalls
      /\ UNCHANGED <<deleteChan, numTracesOnMap>>
  BY <1>0, <1>1, SpanFacts DEF CallInv, StoringCalls, DroppingCalls, AddCalls, LoadOrStore
<1>3. \A u \in Traces : Dropping(u)' = Dropping(u)
  BY <1>0 DEF Dropping
<1>4. CASE idToTrace[t] # NoTrace
  <2>1. /\ StoringCalls' = StoringCalls /\ DroppingCalls' = DroppingCalls /\ AddCalls' = AddCalls
        /\ idToTrace' = idToTrace
    BY <1>0, <1>1, <1>2, <1>4 DEF TypeOK, StoringCalls, DroppingCalls, AddCalls
  <2>2. \A u \in Traces : Storing(u)' = Storing(u)
    BY <1>0, <1>1, <1>2, <2>1 DEF Storing, StoringCalls, TypeOK
  <2>3. OnMap' = OnMap
    BY <2>1 DEF OnMap
  <2> QED  BY <1>2, <1>3, <2>1, <2>2, <2>3 DEF EvictInv, Evictable, Finite, Counts
<1>5. CASE idToTrace[t] = NoTrace
  <2>1. /\ StoringCalls' = StoringCalls \cup {b} /\ DroppingCalls' = DroppingCalls
        /\ AddCalls' = AddCalls \cup {b}
    BY <1>0, <1>1, <1>2, <1>5 DEF TypeOK, StoringCalls, DroppingCalls, AddCalls
  <2>2. OnMap' = OnMap \cup {t} /\ t \notin OnMap
    <3>1. idToTrace'[t] # NoTrace
      <4>1. idToTrace'[t] = <<b, t>>
        BY <1>0, <1>1, <1>2, <1>5 DEF TypeOK
      <4>2. <<b, t>> # NoTrace
        BY <1>2, SpanFacts
      <4> QED  BY <4>1, <4>2
    <3>2. \A u \in Traces : u # t => idToTrace'[u] = idToTrace[u]
      BY <1>0, <1>1, <1>2, <1>5 DEF TypeOK
    <3> QED  BY <1>2, <1>5, <3>1, <3>2 DEF OnMap
  <2>3. entry'[b] = <<b, t>> /\ \A c \in Batches \ {b} : entry'[c] = entry[c]
    BY <1>0, <1>1, <1>2, <1>5 DEF TypeOK
  <2>4. \A u \in Traces : Storing(u)' = IF u = t THEN Storing(t) \cup {b} ELSE Storing(u)
    BY <1>2, <2>1, <2>3 DEF Storing, StoringCalls
  <2>5. Storing(t) = {} /\ Dropping(t) = {} /\ t \notin Range(deleteChan)
    BY <1>2, <1>5 DEF EvictInv, Evictable
  <2>6. ASSUME NEW u \in Traces PROVE Evictable(u)'
    <3>1. Evictable(u)
      BY DEF EvictInv
    <3>2. CASE u # t
      <4>1. idToTrace'[u] = idToTrace[u] /\ Storing(u)' = Storing(u) /\ Dropping(u)' = Dropping(u)
        BY <1>0, <1>1, <1>2, <1>3, <2>4, <3>2 DEF TypeOK
      <4> QED  BY <1>2, <3>1, <4>1 DEF Evictable
    <3>3. CASE u = t
      <4>1. idToTrace'[t] # NoTrace /\ Storing(t)' = {b} /\ Dropping(t)' = {}
        BY <1>2, <1>3, <2>2, <2>4, <2>5 DEF OnMap
      <4> QED  BY <1>2, <2>5, <3>3, <4>1 DEF Evictable, AtMostOne
    <3> QED  BY <3>2, <3>3
  <2>7. /\ IsFiniteSet(OnMap') /\ Cardinality(OnMap') = Cardinality(OnMap) + 1
        /\ IsFiniteSet(StoringCalls') /\ Cardinality(StoringCalls') = Cardinality(StoringCalls) + 1
        /\ IsFiniteSet(AddCalls') /\ Cardinality(AddCalls') = Cardinality(AddCalls) + 1
    BY <1>2, <2>1, <2>2, FS_AddElement DEF EvictInv, Finite
  <2>8. /\ Cardinality(OnMap) \in Nat /\ Cardinality(StoringCalls) \in Nat
        /\ Cardinality(AddCalls) \in Nat /\ Cardinality(DroppingCalls) \in Nat
        /\ Len(deleteChan) \in Nat
    BY <1>0, FS_CardinalityType, LenProperties DEF EvictInv, Finite, TypeOK
  <2>9. Finite' /\ Counts'
    BY <1>2, <2>1, <2>7, <2>8 DEF EvictInv, Finite, Counts
  <2> QED  BY <1>2, <2>6, <2>9 DEF EvictInv
<1> QED  BY <1>4, <1>5

(* Counting the trace.                                                     *)
LEMMA AddEvict ==
  ASSUME BaseInv, EvictInv, NEW b \in Batches, AddToBatcher(b)
  PROVE  EvictInv'
<1>1. /\ TypeOK /\ pc[b] = "add" /\ pc' = [pc EXCEPT ![b] = "post"]
      /\ numTracesOnMap' = numTracesOnMap + 1
      /\ UNCHANGED <<idToTrace, deleteChan, entry, victim>>
  BY DEF BaseInv, AddToBatcher
<1>2. /\ StoringCalls' = StoringCalls /\ DroppingCalls' = DroppingCalls
      /\ AddCalls' = AddCalls \ {b} /\ b \in AddCalls
  BY <1>1 DEF TypeOK, StoringCalls, DroppingCalls, AddCalls
<1>3. \A u \in Traces : Storing(u)' = Storing(u) /\ Dropping(u)' = Dropping(u)
  BY <1>1, <1>2 DEF Storing, Dropping
<1>4. OnMap' = OnMap
  BY <1>1 DEF OnMap
<1>5. /\ IsFiniteSet(AddCalls') /\ Cardinality(AddCalls') = Cardinality(AddCalls) - 1
      /\ Cardinality(AddCalls) \in Nat /\ Cardinality(OnMap) \in Nat
  BY <1>2, FS_RemoveElement, FS_CardinalityType DEF EvictInv, Finite
<1>6. Finite' /\ Counts'
  BY <1>1, <1>2, <1>4, <1>5 DEF EvictInv, Finite, Counts
<1>7. \A u \in Traces : Evictable(u)'
  BY <1>1, <1>3 DEF EvictInv, Evictable
<1> QED  BY <1>1, <1>6, <1>7 DEF EvictInv

(* The trace goes from the call to the channel.                            *)
LEMMA PostEvict ==
  ASSUME BaseInv, EvictInv, NEW b \in Batches, PostDeletion(b)
  PROVE  EvictInv'
<1>0. PICK t \in Traces : t = entry[b][2]
  BY SpanFacts DEF BaseInv, CallInv, PostDeletion
<1>1. /\ TypeOK /\ pc[b] = "post"
      /\ UNCHANGED <<idToTrace, numTracesOnMap, entry, victim>>
  BY DEF BaseInv, PostDeletion
<1>2. (\A u \in Traces : Dropping(u)' = Dropping(u)) /\ OnMap' = OnMap
  BY <1>1 DEF Dropping, OnMap
<1>3. CASE deleteChan' = deleteChan /\ pc' = [pc EXCEPT ![b] = "take"]
  <2>1. /\ StoringCalls' = StoringCalls /\ DroppingCalls' = DroppingCalls /\ AddCalls' = AddCalls
    BY <1>1, <1>3 DEF TypeOK, StoringCalls, DroppingCalls, AddCalls
  <2>2. \A u \in Traces : Storing(u)' = Storing(u)
    BY <1>1, <2>1 DEF Storing
  <2> QED  BY <1>1, <1>2, <1>3, <2>1, <2>2 DEF EvictInv, Evictable, Finite, Counts
<1>4. CASE deleteChan' = Append(deleteChan, t) /\ pc' = [pc EXCEPT ![b] = "policies"]
  <2>1. /\ StoringCalls' = StoringCalls \ {b} /\ b \in StoringCalls
        /\ DroppingCalls' = DroppingCalls /\ AddCalls' = AddCalls
    BY <1>1, <1>4 DEF TypeOK, StoringCalls, DroppingCalls, AddCalls
  <2>2. b \in Storing(t) /\ \A u \in Traces : Storing(u)' = Storing(u) \ {b}
    BY <1>0, <1>1, <2>1 DEF Storing
  <2>3. Storing(t) = {b} /\ t \notin Range(deleteChan) /\ Dropping(t) = {}
    BY <1>1, <2>2 DEF EvictInv, Evictable, AtMostOne
  <2>4. deleteChan \in Seq(Traces) /\ Len(deleteChan) \in Nat
    BY <1>1, LenProperties DEF TypeOK
  <2>5. /\ NoRepeat(deleteChan') /\ Range(deleteChan') = Range(deleteChan) \cup {t}
        /\ Len(deleteChan') = Len(deleteChan) + 1
    <3>1. NoRepeat(Append(deleteChan, t))
      BY <2>3, <2>4, NoRepeatAppend DEF EvictInv
    <3>2. Range(Append(deleteChan, t)) = Range(deleteChan) \cup {t}
      BY <2>4, RangeAppend
    <3>3. Len(Append(deleteChan, t)) = Len(deleteChan) + 1
      BY <2>4, AppendProperties
    <3> QED  BY <1>4, <3>1, <3>2, <3>3
  <2>6. ASSUME NEW u \in Traces PROVE Evictable(u)'
    <3>1. Evictable(u) /\ Range(deleteChan') = Range(deleteChan) \cup {t}
      BY <1>1, <2>5 DEF EvictInv
    <3>2. CASE u # t
      <4>1. Storing(u)' = Storing(u)
        BY <1>0, <1>1, <2>2, <3>2 DEF Storing
      <4> QED  BY <1>1, <1>2, <3>1, <3>2, <4>1 DEF Evictable
    <3>3. CASE u = t
      <4>1. Storing(t)' = {}
        BY <1>1, <2>2, <2>3
      <4>2. idToTrace[t] # NoTrace
        BY <1>1, <2>2 DEF EvictInv, Evictable
      <4> QED  BY <1>1, <1>2, <2>3, <3>1, <3>3, <4>1, <4>2 DEF Evictable, AtMostOne
    <3> QED  BY <3>2, <3>3
  <2>7. /\ IsFiniteSet(StoringCalls') /\ Cardinality(StoringCalls') = Cardinality(StoringCalls) - 1
        /\ Cardinality(StoringCalls) \in Nat /\ Cardinality(DroppingCalls) \in Nat
    BY <2>1, FS_RemoveElement, FS_CardinalityType DEF EvictInv, Finite
  <2>8. Finite' /\ Counts'
    BY <1>1, <1>2, <2>1, <2>4, <2>5, <2>7 DEF EvictInv, Finite, Counts
  <2> QED  BY <1>1, <2>5, <2>6, <2>8 DEF EvictInv
<1> QED  BY <1>0, <1>3, <1>4 DEF PostDeletion

(* The oldest trace goes from the channel to a call.                       *)
LEMMA TakeEvict ==
  ASSUME BaseInv, EvictInv, NEW b \in Batches, TakeOldest(b)
  PROVE  EvictInv'
<1>0. deleteChan \in Seq(Traces) /\ deleteChan # <<>>
  BY DEF BaseInv, TypeOK, TakeOldest
<1>t. PICK t \in Traces : t = Head(deleteChan)
  BY <1>0, HeadTailProperties, EmptySeq
<1>1. /\ TypeOK /\ CallInv(b) /\ pc[b] = "take" /\ pc' = [pc EXCEPT ![b] = "drop"]
      /\ deleteChan # <<>> /\ deleteChan' = Tail(deleteChan)
      /\ victim' = [victim EXCEPT ![b] = {t}]
      /\ UNCHANGED <<idToTrace, numTracesOnMap, entry>>
  BY <1>t DEF BaseInv, TakeOldest
<1>2. /\ StoringCalls' = StoringCalls /\ AddCalls' = AddCalls
      /\ DroppingCalls' = DroppingCalls \cup {b} /\ b \notin DroppingCalls
  BY <1>1 DEF TypeOK, StoringCalls, DroppingCalls, AddCalls
<1>3. /\ NoRepeat(Tail(deleteChan)) /\ t \notin Range(Tail(deleteChan))
      /\ Range(deleteChan) = {t} \cup Range(Tail(deleteChan))
      /\ Len(Tail(deleteChan)) = Len(deleteChan) - 1 /\ Len(deleteChan) \in Nat
  BY <1>0, <1>t, NoRepeatTail, RangeHeadTail, HeadTailProperties, LenProperties, EmptySeq
     DEF EvictInv
<1>4. /\ \A u \in Traces : Storing(u)' = Storing(u)
      /\ \A u \in Traces : Dropping(u)' = IF u = t THEN Dropping(u) \cup {b} ELSE Dropping(u)
      /\ OnMap' = OnMap
  <2>1. /\ \A u \in Traces : Storing(u)' = Storing(u)
        /\ OnMap' = OnMap
    BY <1>1, <1>2 DEF Storing, OnMap
  <2>2. victim[b] = {} /\ victim'[b] = {t} /\ \A c \in Batches \ {b} : victim'[c] = victim[c]
    BY <1>1 DEF CallInv, TypeOK
  <2> QED  BY <2>1, <2>2 DEF Dropping
<1>5. t \in Range(deleteChan) /\ Storing(t) = {} /\ Dropping(t) = {} /\ idToTrace[t] # NoTrace
  BY <1>3 DEF EvictInv, Evictable
<1>6. ASSUME NEW u \in Traces PROVE Evictable(u)'
  <2>1. Evictable(u)
    BY DEF EvictInv
  <2>2. CASE u # t
    BY <1>1, <1>3, <1>4, <2>1, <2>2 DEF Evictable
  <2>3. CASE u = t
    <3>1. Storing(t)' = {} /\ Dropping(t)' = {b} /\ t \notin Range(deleteChan')
      BY <1>1, <1>3, <1>4, <1>5
    <3> QED  BY <1>1, <1>5, <2>3, <3>1 DEF Evictable, AtMostOne
  <2> QED  BY <2>2, <2>3
<1>7. /\ IsFiniteSet(DroppingCalls') /\ Cardinality(DroppingCalls') = Cardinality(DroppingCalls) + 1
      /\ Cardinality(StoringCalls) \in Nat /\ Cardinality(DroppingCalls) \in Nat
  BY <1>2, FS_AddElement, FS_CardinalityType DEF EvictInv, Finite
<1>8. Finite' /\ Counts'
  BY <1>1, <1>2, <1>3, <1>4, <1>7 DEF EvictInv, Finite, Counts
<1> QED  BY <1>1, <1>3, <1>6, <1>8 DEF EvictInv

(* The trace leaves the map; dropTrace always finds it there.              *)
LEMMA DropEvict ==
  ASSUME BaseInv, EvictInv, NEW b \in Batches, DropTrace(b)
  PROVE  EvictInv'
<1>1. /\ TypeOK /\ CallInv(b) /\ pc[b] = "drop" /\ pc' = [pc EXCEPT ![b] = "post"]
      /\ victim' = [victim EXCEPT ![b] = {}]
      /\ UNCHANGED <<deleteChan, entry>>
  BY DEF BaseInv, DropTrace
<1>2. PICK t \in Traces : victim[b] = {t}
  BY <1>1 DEF CallInv
<1>3. b \in Dropping(t) /\ Evictable(t)
  BY <1>2 DEF Dropping, EvictInv
<1>4. idToTrace[t] # NoTrace /\ Dropping(t) = {b} /\ Storing(t) = {} /\ t \notin Range(deleteChan)
  BY <1>3 DEF Evictable, AtMostOne
<1>5. idToTrace' = [idToTrace EXCEPT ![t] = NoTrace] /\ numTracesOnMap' = numTracesOnMap - 1
  BY <1>2, <1>4 DEF DropTrace
<1>6. /\ StoringCalls' = StoringCalls /\ AddCalls' = AddCalls
      /\ DroppingCalls' = DroppingCalls \ {b} /\ b \in DroppingCalls
  BY <1>1 DEF TypeOK, StoringCalls, DroppingCalls, AddCalls
<1>7. /\ \A u \in Traces : Storing(u)' = Storing(u)
      /\ \A u \in Traces : Dropping(u)' = IF u = t THEN {} ELSE Dropping(u)
      /\ OnMap' = OnMap \ {t} /\ t \in OnMap
  <2>1. \A u \in Traces : Storing(u)' = Storing(u)
    BY <1>1, <1>6 DEF Storing
  <2>2. victim'[b] = {} /\ \A c \in Batches \ {b} : victim'[c] = victim[c]
    BY <1>1 DEF TypeOK
  <2>3. \A u \in Traces : Dropping(u)' = Dropping(u) \ {b}
    BY <2>2 DEF Dropping
  <2>4. \A u \in Traces : u # t => b \notin Dropping(u)
    BY <1>2 DEF Dropping
  <2>5. OnMap' = OnMap \ {t} /\ t \in OnMap
    BY <1>1, <1>4, <1>5 DEF OnMap, TypeOK
  <2>6. ASSUME NEW u \in Traces PROVE Dropping(u)' = IF u = t THEN {} ELSE Dropping(u)
    BY <1>4, <2>3, <2>4
  <2> QED  BY <2>1, <2>5, <2>6
<1>8. ASSUME NEW u \in Traces PROVE Evictable(u)'
  <2>1. Evictable(u)
    BY DEF EvictInv
  <2>2. CASE u # t
    <3>1. idToTrace'[u] = idToTrace[u]
      BY <1>1, <1>5, <2>2 DEF TypeOK
    <3> QED  BY <1>1, <1>7, <2>1, <2>2, <3>1 DEF Evictable
  <2>3. CASE u = t
    <3>1. idToTrace'[t] = NoTrace /\ Storing(t)' = {} /\ Dropping(t)' = {}
      BY <1>1, <1>4, <1>5, <1>7 DEF TypeOK
    <3> QED  BY <1>1, <1>4, <2>3, <3>1 DEF Evictable, AtMostOne
  <2> QED  BY <2>2, <2>3
<1>9. /\ IsFiniteSet(DroppingCalls') /\ Cardinality(DroppingCalls') = Cardinality(DroppingCalls) - 1
      /\ IsFiniteSet(OnMap') /\ Cardinality(OnMap') = Cardinality(OnMap) - 1
      /\ Cardinality(StoringCalls) \in Nat /\ Cardinality(DroppingCalls) \in Nat
      /\ Cardinality(AddCalls) \in Nat /\ Cardinality(OnMap) \in Nat /\ Len(deleteChan) \in Nat
  BY <1>1, <1>6, <1>7, FS_RemoveElement, FS_CardinalityType, LenProperties DEF EvictInv, Finite, TypeOK
<1>10. Finite' /\ Counts'
  BY <1>1, <1>5, <1>6, <1>7, <1>9 DEF EvictInv, Finite, Counts
<1> QED  BY <1>1, <1>8, <1>10 DEF EvictInv

LEMMA EvictStep ==
  ASSUME BaseInv, EvictInv, [Next]_vars
  PROVE  EvictInv'
<1>1. ASSUME UNCHANGED <<idToTrace, deleteChan, numTracesOnMap, pc, entry, victim>> PROVE EvictInv'
  BY <1>1 DEF EvictInv, Evictable, Finite, Counts, Storing, Dropping, StoringCalls, DroppingCalls,
              AddCalls, OnMap
<1>2. ASSUME NEW b \in Batches, Return(b) \/ KeepSpans(b) \/ LateSpans(b) PROVE EvictInv'
  <2>1. /\ TypeOK /\ pc[b] \in {"next", "policies"}
        /\ \E x \in {"done", "next", "policies"} : pc' = [pc EXCEPT ![b] = x]
        /\ UNCHANGED <<idToTrace, deleteChan, numTracesOnMap, entry, victim>>
    <3>1. pc[b] = "policies" => pc = [pc EXCEPT ![b] = "policies"]
      BY DEF BaseInv, TypeOK
    <3> QED  BY <1>2, <3>1 DEF BaseInv, Return, KeepSpans, LateSpans, mapVars
  <2>2. \A c \in Batches : \A x \in {"add", "post", "take", "drop"} : pc'[c] = x <=> pc[c] = x
    BY <2>1 DEF TypeOK
  <2>3. StoringCalls' = StoringCalls /\ DroppingCalls' = DroppingCalls /\ AddCalls' = AddCalls
    BY <2>2 DEF StoringCalls, DroppingCalls, AddCalls
  <2>4. /\ \A u \in Traces : Storing(u)' = Storing(u) /\ Dropping(u)' = Dropping(u)
        /\ OnMap' = OnMap
    BY <2>1, <2>3 DEF Storing, Dropping, OnMap
  <2> QED  BY <2>1, <2>3, <2>4 DEF EvictInv, Evictable, Finite, Counts
<1>3. CASE samplingPolicyOnTick \/ FillBatch \/ UNCHANGED vars
  BY <1>1, <1>3 DEF samplingPolicyOnTick, TickTake, TickLoad, Evaluate, SendReceived, ClearReceived,
                    FillBatch, vars, callVars, mapVars
<1> QED  BY <1>2, <1>3, StoreEvict, AddEvict, PostEvict, TakeEvict, DropEvict
         DEF Next, ConsumeTraceData

(* The map, the deletion channel, the calls and the counter agree, for any *)
(* calls at once and any size: a trace of the map is with the call that    *)
(* stores it, in the channel or with the call that drops it, once; the     *)
(* counter is the map's size less the traces not yet counted, never        *)
(* negative; and the map is as large as the channel and the calls allow.   *)
THEOREM MapAgrees == Spec => []EvictionAgrees
<1>1. Spec => [](BaseInv /\ EvictInv)
  BY BaseInit, BaseStep, EvictInit, EvictStep, PTL DEF Spec
<1> QED  BY <1>1, EvictAgrees, PTL

=============================================================================
