------------------------- MODULE CollectorPipeline -------------------------
(* How the collector wires its consumers from the first configuration      *)
(* format: exporters, queued exporters, sampling and global attributes.    *)
EXTENDS PipelineGraph

PolicyTypes == {"always-sample", "numeric-attribute-filter",
                "string-attribute-filter", "rate-limiting"}

(* A plausible bug: one queue for all of them.                             *)
BugOneQueue(q) ==
    LET all == q.senders \o q.exporters
    IN  IF all = <<>> THEN NoConsumer
        ELSE Queue(all[1], q.retry,
                   NewTraceProcessor([i \in DOMAIN all |-> Sink(all[i])]))

(* One queue for each sender or exporter, so that what one of them refuses *)
(* is retried for it alone.  Without any the collector exits.              *)
buildQueuedSpanProcessor(q) ==
    LET allSendersAndExporters == q.senders \o q.exporters
    IN  IF allSendersAndExporters = <<>> THEN NoConsumer
        ELSE NewTraceProcessor(
                [i \in DOMAIN allSendersAndExporters |->
                    Queue(allSendersAndExporters[i], q.retry,
                          Sink(allSendersAndExporters[i]))])

(* nameToTraceConsumer, as the pairs in the order they are appended.       *)
namedConsumers(cfg) ==
    (IF cfg.exporters = <<>> THEN <<>>
     ELSE << <<"exporters", NewTraceProcessor(
                [i \in DOMAIN cfg.exporters |-> Sink(cfg.exporters[i])])>> >>)
    \o (IF cfg.debug THEN << <<"debug", Sink("debug")>> >> ELSE <<>>)
    \o [i \in DOMAIN cfg.queues |->
            <<cfg.queues[i].name, buildQueuedSpanProcessor(cfg.queues[i])>>]

traceConsumers(cfg) ==
    [i \in DOMAIN namedConsumers(cfg) |-> namedConsumers(cfg)[i][2]]

(* The map keeps the last consumer of a name.                              *)
nameToTraceConsumer(cfg, name) ==
    LET named == {i \in DOMAIN namedConsumers(cfg) : namedConsumers(cfg)[i][1] = name}
    IN  IF named = {} THEN NoConsumer
        ELSE traceConsumers(cfg)[CHOOSE i \in named : \A j \in named : j <= i]

Destination(cfg, policy) ==
    LET processors == [i \in DOMAIN policy.exporters |->
                            nameToTraceConsumer(cfg, policy.exporters[i])]
    IN  IF Len(processors) = 1 THEN processors[1]
        ELSE NewTraceProcessor(processors)

(* Refused: an unknown type, an exporter named twice or that the collector *)
(* does not have, a policy without exporters, no policy.                   *)
SamplingAccepted(cfg) ==
    /\ cfg.policies # <<>>
    /\ \A p \in DOMAIN cfg.policies :
          /\ cfg.policies[p].type \in PolicyTypes
          /\ cfg.policies[p].exporters # <<>>
          /\ \A name \in Range(cfg.policies[p].exporters) :
                nameToTraceConsumer(cfg, name) # NoConsumer
    /\ \A p, q \in DOMAIN cfg.policies :
          \A i \in DOMAIN cfg.policies[p].exporters, j \in DOMAIN cfg.policies[q].exporters :
             cfg.policies[p].exporters[i] = cfg.policies[q].exporters[j] => p = q /\ i = j

buildSamplingProcessor(cfg) ==
    IF SamplingAccepted(cfg)
    THEN TailSampler([i \in DOMAIN cfg.policies |-> Destination(cfg, cfg.policies[i])])
    ELSE NoConsumer

(* What the global section, the innermost of the wrappers, puts in front.  *)
withGlobalAttributes(cfg, tp) ==
    LET added == IF "add-attributes" \in cfg.global
                 THEN Stage("add-attributes", tp) ELSE tp
    IN  IF "attribute-key" \in cfg.global
        THEN Stage("attribute-key", added) ELSE added

(* The consumer of every receiver, or NoConsumer: the collector exits.     *)
startProcessor(cfg) ==
    LET consumers == traceConsumers(cfg)
        tail == IF cfg.mode = "tail" THEN buildSamplingProcessor(cfg)
                ELSE TailSampler(<<NewTraceProcessor(consumers)>>)
        useTail == cfg.mode = "tail" \/ (cfg.mode # "head" /\ cfg.debugTail)
        tp == withGlobalAttributes(cfg,
                NewTraceProcessor(IF useTail THEN <<tail>> ELSE consumers))
    IN  IF \/ consumers = <<>>
           \/ \E i \in DOMAIN consumers : consumers[i] = NoConsumer
           \/ useTail /\ tail = NoConsumer
        THEN NoConsumer
        ELSE IF cfg.mode = "head" THEN Sampler(tp) ELSE tp

-----------------------------------------------------------------------------
(* What the configuration asks for, read from it alone.                    *)

ExportersOf(cfg, name) ==
    (IF name = "exporters" THEN Range(cfg.exporters) ELSE {})
    \cup (IF name = "debug" /\ cfg.debug THEN {"debug"} ELSE {})
    \cup UNION {Range(cfg.queues[i].senders \o cfg.queues[i].exporters) :
                    i \in {j \in DOMAIN cfg.queues : cfg.queues[j].name = name}}

(* With policies, the exporters they name; else all of them.               *)
AskedSinks(cfg) ==
    IF cfg.mode = "tail"
    THEN UNION {ExportersOf(cfg, e) :
                    e \in UNION {Range(cfg.policies[i].exporters) :
                                    i \in DOMAIN cfg.policies}}
    ELSE UNION {ExportersOf(cfg, e) :
                    e \in {"exporters", "debug"}
                          \cup {cfg.queues[i].name : i \in DOMAIN cfg.queues}}

(* Sampling comes before any work on the data, keys are replaced before    *)
(* attributes are added under the new ones.                                *)
AskedStages(cfg) ==
    LET With(s, stages) == IF s \in cfg.global THEN Append(stages, s) ELSE stages
    IN  With("add-attributes",
             With("attribute-key", IF cfg.mode = "head" THEN <<"sample">> ELSE <<>>))

=============================================================================
