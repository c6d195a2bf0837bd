----------------------------- MODULE Pipelines -----------------------------
(* One batch on its way through the consumers a collector was wired from,  *)
(* by either configuration format: the calls the receiver's goroutine      *)
(* makes before it gets its answer, the workers of the queues and the      *)
(* timer of the tail sampler that go on with the batch after it.           *)
EXTENDS CollectorPipeline, UnifiedPipeline

CONSTANTS Configs,         \* of the first format
          UnifiedConfigs,
          MaxTries         \* a sender with retries succeeds at this try

ASSUME TriesAssumption == MaxTries \in Nat \ {0}

(* The lists of a configuration are lists, of whatever they are.           *)
IsSlice(s) == s \in Seq(Range(s))

ASSUME ConfigsAssumption ==
    \A cfg \in Configs :
       /\ IsSlice(cfg.exporters) /\ IsSlice(cfg.queues) /\ IsSlice(cfg.policies)
       /\ \A i \in DOMAIN cfg.queues :
             IsSlice(cfg.queues[i].senders) /\ IsSlice(cfg.queues[i].exporters)
       /\ \A p \in DOMAIN cfg.policies : IsSlice(cfg.policies[p].exporters)

ASSUME UnifiedConfigsAssumption ==
    \A cfg \in UnifiedConfigs : \A key \in DOMAIN cfg.pipelines :
       /\ IsSlice(cfg.pipelines[key].exporters)
       /\ IsSlice(cfg.pipelines[key].processors)

VARIABLES
    route,     \* the first consumer, NoConsumer when the collector exits
    asked,     \* the sinks and the stages the configuration asks for
    tasks,     \* the goroutines that hold the batch
    answer,    \* what the receiver was told
    got,       \* the calls of each sink
    lost       \* the consumers that did not pass the batch on, nor said so

routeVars == <<route, asked, tasks, answer, got, lost>>

(* A goroutine: whose it is, the queued call it works on, the calls    *)
(* still to make, which try this is, whether one of them failed.           *)
NoCall == Call(NoConsumer, <<>>)

Task(by, item, calls, tries) ==
    [by |-> by, item |-> item, todo |-> calls, tries |-> tries, failed |-> FALSE]

RouteInit ==
    /\ \/ \E cfg \in Configs :
            /\ route = startProcessor(cfg)
            /\ asked = [sinks |-> AskedSinks(cfg), stages |-> AskedStages(cfg)]
       \/ \E cfg \in UnifiedConfigs : \E key \in DOMAIN cfg.pipelines :
            /\ route = IF Builds(cfg) THEN buildPipeline(cfg, key) ELSE NoConsumer
            /\ asked = [sinks  |-> Range(cfg.pipelines[key].exporters),
                        stages |-> cfg.pipelines[key].processors]
    /\ tasks = {}
    /\ answer = "none"
    /\ got = << >>
    /\ lost = {}

(* A receiver hands a batch over.                                          *)
Receive ==
    /\ route # NoConsumer
    /\ answer = "none"
    /\ answer' = "pending"
    /\ tasks' = {Task("receiver", NoCall, <<Call(route, <<>>)>>, 1)}
    /\ UNCHANGED <<route, asked, got, lost>>

-----------------------------------------------------------------------------
(* The calls of a task, one after the other.  There is no step for the     *)
(* call of a nil consumer: the process panics and the batch stays.         *)

Calling(t, kind) == t.todo # <<>> /\ Head(t.todo).node.kind = kind

Target(t) == Head(t.todo).node

(* What a worker calls for a batch taken from the queue.                   *)
Attempt(call) == <<Call(call.node.next, call.stages)>>

(* t goes on with the calls todo, others start beside it.                  *)
GoOn(t, todo, failed, started) ==
    tasks' = (tasks \ {t}) \cup started
                \cup {[t EXCEPT !.todo = todo, !.failed = @ \/ failed]}

(* multiconsumer: one consumer after the other, whatever they return.      *)
CallFanout(t) ==
    /\ Calling(t, "fanout")
    /\ GoOn(t, CallEach(Target(t).next, Head(t.todo).stages) \o Tail(t.todo), FALSE, {})
    /\ UNCHANGED <<route, asked, answer, got, lost>>

(* A processor changes the batch and passes it on.                         *)
CallStage(t) ==
    /\ Calling(t, "stage")
    /\ GoOn(t, <<Call(Target(t).next, Append(Head(t.todo).stages, Target(t).name))>>
                  \o Tail(t.todo), FALSE, {})
    /\ UNCHANGED <<route, asked, answer, got, lost>>

(* An exporter takes the batch or fails.  A sender that is retried takes   *)
(* it at last; what fails behind the tail sampler nobody hears of.         *)
CallSink(t) ==
    /\ Calling(t, "sink")
    /\ LET sink == Target(t).name
           tried == IF sink \in DOMAIN got THEN got[sink] ELSE <<>>
       IN  \E ok \in BOOLEAN :
            /\ ok \/ t.tries < MaxTries \/ t.by # "worker"
            /\ got' = [s \in DOMAIN got \cup {sink} |->
                          IF s # sink THEN got[s]
                          ELSE Append(tried, [ok |-> ok,
                                              stages |-> Head(t.todo).stages])]
            /\ GoOn(t, Tail(t.todo), ~ok, {})
            /\ lost' = lost \cup (IF ~ok /\ t.by = "tail" THEN {Target(t)} ELSE {})
    /\ UNCHANGED <<route, asked, answer>>

(* The head sampler: its consumer is called for the traces it keeps.       *)
CallSampler(t) ==
    /\ Calling(t, "sampler")
    /\ \/ /\ GoOn(t, <<Call(Target(t).next, Append(Head(t.todo).stages, "sample"))>>
                        \o Tail(t.todo), FALSE, {})
          /\ UNCHANGED lost
       \/ /\ GoOn(t, Tail(t.todo), FALSE, {})
          /\ lost' = lost \cup {Target(t)}
    /\ UNCHANGED <<route, asked, answer, got>>

(* The queue takes the batch, or is full and drops it; it answers nil.     *)
CallQueue(t) ==
    /\ Calling(t, "queue")
    /\ \/ /\ GoOn(t, Tail(t.todo), FALSE,
                  {Task("worker", Head(t.todo), Attempt(Head(t.todo)), 1)})
          /\ UNCHANGED lost
       \/ /\ GoOn(t, Tail(t.todo), FALSE, {})
          /\ lost' = lost \cup {Target(t)}
    /\ UNCHANGED <<route, asked, answer, got>>

(* The tail sampler keeps the spans until it decides, and answers nil.     *)
CallTailSampler(t) ==
    /\ Calling(t, "tail")
    /\ t.by # "tail"
    /\ GoOn(t, Tail(t.todo), FALSE, {Task("tail", NoCall, <<Head(t.todo)>>, 1)})
    /\ UNCHANGED <<route, asked, answer, got, lost>>

(* Its timer calls the destinations of the policies that sample the trace. *)
Decide(t) ==
    /\ Calling(t, "tail")
    /\ t.by = "tail"
    /\ LET destinations == Target(t).next
       IN  \E sampled \in SUBSET DOMAIN destinations :
            LET picked == Only([i \in DOMAIN destinations |-> i], sampled)
            IN  /\ GoOn(t, [i \in DOMAIN picked |->
                               Call(destinations[picked[i]], Head(t.todo).stages)],
                        FALSE, {})
                /\ lost' = lost \cup {destinations[i] : i \in DOMAIN destinations \ sampled}
    /\ UNCHANGED <<route, asked, answer, got>>

-----------------------------------------------------------------------------
(* The end of a task: all its calls were made.                             *)

Answer(t) ==
    /\ t.todo = <<>>
    /\ t.by = "receiver"
    /\ answer' = IF t.failed THEN "error" ELSE "ok"
    /\ tasks' = tasks \ {t}
    /\ UNCHANGED <<route, asked, got, lost>>

TailSamplerEnds(t) ==
    /\ t.todo = <<>>
    /\ t.by = "tail"
    /\ tasks' = tasks \ {t}
    /\ UNCHANGED <<route, asked, answer, got, lost>>

(* A worker puts what its sender refused back, if the queue retries and    *)
(* has room; else it drops the batch.                                      *)
WorkerEnds(t) ==
    /\ t.todo = <<>>
    /\ t.by = "worker"
    /\ \/ /\ t.failed /\ t.item.node.retry
          /\ tasks' = (tasks \ {t}) \cup {Task("worker", t.item, Attempt(t.item), t.tries + 1)}
          /\ UNCHANGED lost
       \/ /\ tasks' = tasks \ {t}
          /\ lost' = lost \cup (IF t.failed THEN {t.item.node} ELSE {})
    /\ UNCHANGED <<route, asked, answer, got>>

TaskStep(t) ==
    \/ CallFanout(t) \/ CallStage(t) \/ CallSampler(t)
    \/ CallSink(t) \/ CallQueue(t) \/ CallTailSampler(t)
    \/ Decide(t)
    \/ Answer(t) \/ TailSamplerEnds(t) \/ WorkerEnds(t)

RouteNext == Receive \/ \E t \in tasks : TaskStep(t)

RouteSpec == RouteInit /\ [][RouteNext]_routeVars

(* Go runs every goroutine, and the batch arrives.                         *)
FairRouteSpec == RouteSpec /\ WF_routeVars(RouteNext)

-----------------------------------------------------------------------------

QueueSinks(q) == Range(q.senders \o q.exporters)

(* No sink is named twice.  In the first format a name stands for one      *)
(* sender or exporter; the second lets a pipeline name an exporter twice,  *)
(* and then calls it twice.                                                *)
NamedOnce ==
    /\ \A cfg \in Configs :
          /\ IsInjective(cfg.exporters) /\ "debug" \notin Range(cfg.exporters)
          /\ \A i \in DOMAIN cfg.queues :
                /\ IsInjective(cfg.queues[i].senders \o cfg.queues[i].exporters)
                /\ QueueSinks(cfg.queues[i]) \cap ({"debug"} \cup Range(cfg.exporters)) = {}
          /\ \A i, j \in DOMAIN cfg.queues :
                i # j => QueueSinks(cfg.queues[i]) \cap QueueSinks(cfg.queues[j]) = {}
    /\ \A cfg \in UnifiedConfigs : \A key \in DOMAIN cfg.pipelines :
          IsInjective(cfg.pipelines[key].exporters)

(* A sink is not called again once it took the batch: what is tried again  *)
(* is tried for the sender that failed, not for those beside it.           *)
RetriesOnlyTheFailed ==
    \A s \in DOMAIN got : \A i \in 1 .. Len(got[s]) - 1 : ~got[s][i].ok

(* Whatever reaches an exporter went through the stages the configuration  *)
(* asks for, each once and in its order, on every route.                   *)
StagesKept ==
    \A s \in DOMAIN got : \A i \in DOMAIN got[s] : got[s][i].stages = asked.stages

=============================================================================
