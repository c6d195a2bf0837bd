---------------------------- MODULE MCPipelines ----------------------------
(* Configurations of both formats that a collector accepts or refuses,     *)
(* with up to three sinks, queues with and without retries, all modes.     *)
EXTENDS BatchAccount

Base == [exporters |-> <<"zipkin", "kafka">>, debug |-> FALSE, queues |-> <<>>,
         mode |-> "no-sampling", policies |-> <<>>, global |-> {},
         debugTail |-> FALSE]

QueueOf(senders, exporters, retry) ==
    [name |-> "queue", senders |-> senders, exporters |-> exporters,
     retry |-> retry]

TwoSenders == QueueOf(<<"jaeger">>, <<"opencensus">>, TRUE)

Policy(type, exporters) == [type |-> type, exporters |-> exporters]

(* Every mode over exporters and a queue, with and without stages.         *)
Modes ==
    {[Base EXCEPT !.mode = m, !.global = g, !.queues = q, !.debugTail = d] :
        m \in {"no-sampling", "head"},
        g \in {{}, {"attribute-key", "add-attributes"}},
        q \in {<<>>, <<QueueOf(<<"jaeger">>, <<>>, TRUE)>>},
        d \in BOOLEAN}

(* Queues: two senders of one, without retries, nothing to send to.        *)
Queues ==
    {[Base EXCEPT !.exporters = <<>>, !.debug = d, !.queues = <<q>>] :
        d \in BOOLEAN,
        q \in {TwoSenders, QueueOf(<<"jaeger">>, <<>>, FALSE),
               QueueOf(<<>>, <<>>, TRUE)}}

(* Policies of tail sampling, most of them refused.                        *)
Policies ==
    {[Base EXCEPT !.mode = "tail", !.debug = TRUE, !.queues = <<TwoSenders>>,
                  !.global = {"add-attributes"}, !.policies = p] :
        p \in {<<>>,
               <<Policy("always-sample", <<"exporters">>)>>,
               <<Policy("rate-limiting", <<"queue", "debug">>)>>,
               <<Policy("rate-limiting", <<"queue">>),
                 Policy("always-sample", <<"debug">>)>>,
               <<Policy("always-sample", <<"queue">>),
                 Policy("always-sample", <<"queue">>)>>,
               <<Policy("latency", <<"queue">>)>>,
               <<Policy("always-sample", <<"nothing">>)>>,
               <<Policy("always-sample", <<>>)>>}}

Nothing == {[Base EXCEPT !.exporters = <<>>]}

ConfigsChecked == Modes \cup Queues \cup Policies \cup Nothing

-----------------------------------------------------------------------------
Key(type, name) == [type |-> type, name |-> name, padded |-> FALSE]
Padded(key) == [key EXCEPT !.padded = TRUE]
Good == [readable |-> TRUE]

Section(keys) == [k \in keys |-> Good]

One(key) == [k \in {key} |-> Good]

Pipe(receivers, processors, exporters) ==
    [receivers |-> receivers, processors |-> processors,
     exporters |-> exporters, readable |-> TRUE]

Oc     == Key("opencensus", NoName)
Ex     == Key("example", NoName)
Ex2    == Key("example", "2")
Attr   == Key("attributes", NoName)
Attr2  == Key("attributes", "2")
Traces == Key("traces", NoName)
Traces2  == Key("traces", "2")
MetricsK == Key("metrics", NoName)

Unified == [receivers  |-> Section({Oc}),
            exporters  |-> Section({Oc, Ex, Ex2}),
            processors |-> Section({Attr, Attr2}),
            pipelines  |-> [k \in {Traces} |->
                                Pipe(<<Oc>>, <<Attr, Attr2>>, <<Oc, Ex>>)]]

PipelinesOf(p) == [Unified EXCEPT !.pipelines = p]

(* Pipelines that share exporters and processors.                          *)
Accepted ==
    {PipelinesOf([k \in {Traces} |-> Pipe(<<Oc>>, procs, <<Oc, Ex>>)]) :
        procs \in {<<Attr>>, <<Attr, Attr2>>, <<Attr2, Attr>>}}
    \cup
    {PipelinesOf([k \in {Traces, MetricsK} |->
                     IF k = Traces THEN Pipe(<<Oc>>, <<Attr>>, <<Ex>>)
                                   ELSE Pipe(<<Oc>>, <<>>, exps)]) :
        exps \in {<<Ex>>, <<Ex, Ex2>>, <<Oc>>}}
    \cup
    {PipelinesOf([k \in {Traces, MetricsK} |->
                     IF k = Traces THEN Pipe(<<Oc>>, <<Attr>>, <<Oc, Ex, Ex2>>)
                                   ELSE Pipe(<<Oc>>, <<>>, <<Ex2, Ex>>)])}
    \cup
    {[Unified EXCEPT !.exporters = Section({Oc, Padded(Ex)})]}

(* One mistake each: references, processors, keys, settings.               *)
Refused ==
    {PipelinesOf([k \in {key} |-> p]) :
        key \in {Traces, MetricsK, Key("logs", NoName), Key("traces", "")},
        p \in {Pipe(<<>>, <<Attr>>, <<Ex>>), Pipe(<<Oc>>, <<Attr>>, <<>>),
               Pipe(<<Oc>>, <<>>, <<Ex>>), Pipe(<<Oc>>, <<Attr>>, <<Ex>>),
               Pipe(<<Oc>>, <<Attr>>, <<Padded(Ex)>>),
               Pipe(<<Oc>>, <<Attr, Key("attributes", "3")>>, <<Ex>>)}}
    \cup
    {[Unified EXCEPT !.exporters = s] :
        s \in {Section({Oc, Ex, Padded(Ex)}), Section({Oc, Ex, Key("", NoName)}),
               Section({Oc, Ex, Key("kafka", NoName)}),
               [k \in {Oc, Ex} |-> [readable |-> k = Oc]]}}

UnifiedChecked == Accepted \cup Refused

(* Each of them names a sink once.                                         *)
ASSUME NamedOnce

=============================================================================
