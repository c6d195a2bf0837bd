-------------------------- MODULE UnifiedPipeline --------------------------
(* The second configuration format: sections of receivers, exporters and   *)
(* processors, and pipelines that name them; how it is loaded, validated   *)
(* and wired.  A key is [type, name, padded]: the text before the slash,   *)
(* the text after it or NoName, and whether it has spaces around them.     *)
EXTENDS PipelineGraph

CONSTANTS ReceiverTypes,      \* the registered factories
          ExporterTypes, ProcessorTypes,
          TracesExporters,    \* exporter types that take traces
          MetricsExporters    \* exporter types that take metrics

NoName == "no name"

Decodes(key) == key.type # "" /\ key.name # ""

(* The full name has neither spaces nor an empty part.                     *)
FullName(key) == [type |-> key.type, name |-> key.name, padded |-> FALSE]

(* A section is refused for one bad key: no type, an empty name, a type    *)
(* without a factory, settings that do not unmarshal, a name already read. *)
SectionLoads(section, types) ==
    /\ \A k \in DOMAIN section :
          Decodes(k) /\ k.type \in types /\ section[k].readable
    /\ \A j, k \in DOMAIN section : FullName(j) = FullName(k) => j = k

Loaded(section) == {FullName(k) : k \in DOMAIN section}

(* A reference is compared as it is written, a key after it is normalised. *)
validatePipeline(cfg, key) ==
    LET pipeline == cfg.pipelines[key]
    IN  /\ pipeline.receivers # <<>>
        /\ Range(pipeline.receivers) \subseteq Loaded(cfg.receivers)
        /\ pipeline.exporters # <<>>
        /\ Range(pipeline.exporters) \subseteq Loaded(cfg.exporters)
        /\ key.type = "traces" => pipeline.processors # <<>>
        /\ key.type = "metrics" => pipeline.processors = <<>>
        /\ Range(pipeline.processors) \subseteq Loaded(cfg.processors)

Load(cfg) ==
    /\ SectionLoads(cfg.receivers, ReceiverTypes)
    /\ SectionLoads(cfg.exporters, ExporterTypes)
    /\ SectionLoads(cfg.processors, ProcessorTypes)
    /\ SectionLoads(cfg.pipelines, {"traces", "metrics"})
    /\ DOMAIN cfg.pipelines # {}
    /\ \A key \in DOMAIN cfg.pipelines : validatePipeline(cfg, key)

-----------------------------------------------------------------------------
(* A plausible bug: a pipeline's requirement replaces those before it.     *)
BugLastPipeline(cfg, exporter) ==
    LET naming == {k \in DOMAIN cfg.pipelines :
                        exporter \in Range(cfg.pipelines[k].exporters)}
    IN  IF naming = {} THEN {} ELSE {(CHOOSE k \in naming : TRUE).type}

(* The data types of all the pipelines that name the exporter.             *)
calcExportersRequiredDataTypes(cfg, exporter) ==
    {key.type : key \in {k \in DOMAIN cfg.pipelines :
                            exporter \in Range(cfg.pipelines[k].exporters)}}

Supports(exporter, dataType) ==
    exporter.type \in (IF dataType = "traces" THEN TracesExporters
                                              ELSE MetricsExporters)

(* An exporter no pipeline names is built without a consumer.              *)
buildExporter(cfg, exporter) ==
    LET required == calcExportersRequiredDataTypes(cfg, exporter)
        Consumer(t) == IF t \in required THEN Sink(exporter) ELSE NoConsumer
    IN  [tc |-> Consumer("traces"), mc |-> Consumer("metrics")]

ExportersBuild(cfg) ==
    \A exporter \in Loaded(cfg.exporters) :
        \A t \in calcExportersRequiredDataTypes(cfg, exporter) :
            Supports(exporter, t)

buildFanoutExportersConsumer(cfg, key) ==
    LET Built(name) == IF key.type = "traces" THEN buildExporter(cfg, name).tc
                                              ELSE buildExporter(cfg, name).mc
        names == cfg.pipelines[key].exporters
    IN  IF Len(names) = 1 THEN Built(names[1])
        ELSE NewTraceProcessor([i \in DOMAIN names |-> Built(names[i])])

(* A plausible bug: the processors are wrapped from the first to the last. *)
BugForwards(cfg, key) ==
    FoldLeft(LAMBDA next, name : IF next = NoConsumer THEN NoConsumer
                                                      ELSE Stage(name, next),
             buildFanoutExportersConsumer(cfg, key),
             cfg.pipelines[key].processors)

(* Backwards: the last processor passes on to the exporters, each other    *)
(* one to the processor after it.  A processor refuses a nil consumer.     *)
buildPipeline(cfg, key) ==
    LET names == cfg.pipelines[key].processors
        built[n \in 0 .. Len(names)] ==   \* once n processors are built
          IF n = 0 THEN buildFanoutExportersConsumer(cfg, key)
          ELSE IF built[n - 1] = NoConsumer THEN NoConsumer
          ELSE Stage(names[Len(names) + 1 - n], built[n - 1])
    IN  built[Len(names)]

(* Whether the collector starts: nothing is refused on the way.            *)
Builds(cfg) ==
    /\ Load(cfg)
    /\ ExportersBuild(cfg)
    /\ \A key \in DOMAIN cfg.pipelines : buildPipeline(cfg, key) # NoConsumer

=============================================================================
