-------------------------- MODULE MCServiceLifecycle --------------------------
(* ServiceLifecycle for an agent and a collector with each kind of          *)
(* component, and with the addresses that clash or loop.                    *)
EXTENDS ServiceLifecycle

At(host, port) == [host |-> host, port |-> port]

AgentConfig(sections, servers, disabled, exporters, zipkinOut) ==
  [process |-> "agent", sections |-> sections, servers |-> servers, disabled |-> disabled,
   exporters |-> exporters, zipkinOut |-> zipkinOut]
CollectorConfig(sections, servers, exporters) ==
  [process |-> "collector", sections |-> sections, servers |-> servers,
   disabled |-> {}, exporters |-> exporters, zipkinOut |-> NoAddress]

Jaeger(thrift, http) == "jaeger" :> <<thrift, http>>
Open(name) == name :> NoAddress

Agents ==
  { AgentConfig(Open("opencensus") @@ Open("scribe") @@ Open("vmmetrics"), "pprof" :> Port(55679),
                {}, <<"jaeger-exporter", "zipkin-exporter">>, NoAddress),
    AgentConfig(Jaeger(NoAddress, Port(9411)) @@ ("zipkin" :> Port(9411)), <<>>, {"zpages"},
                <<"opencensus-exporter">>, NoAddress),
    AgentConfig(Open("prometheus") @@ Open("zipkin") @@ Open("opencensus"), <<>>,
                {"tracing", "metrics", "zpages"}, <<"prometheus-exporter">>, NoAddress) }

(* An agent between a Zipkin receiver and a Zipkin exporter.                *)
Loops ==
  { AgentConfig("zipkin" :> in, <<>>, {"zpages"}, <<"zipkin-exporter">>, out) :
      in \in {NoAddress} \union [host : {"", "127.0.0.1", "alias", "0.0.0.0"}, port : {9411}],
      out \in [host : {"localhost", "127.0.0.1", "alias", "0.0.0.0", "collector"}, port : {9411, 9412}] }

AllReceivers == Jaeger(NoAddress, NoAddress) @@ Open("opencensus") @@ Open("zipkin") @@ Open("scribe")

Collectors(exporters) ==
  { CollectorConfig(AllReceivers, Open("telemetry"), exporters),
    CollectorConfig(Open("zipkin") @@ Open("opencensus"), ("pprof" :> Port(9411)) @@ Open("telemetry"), exporters),
    CollectorConfig(Jaeger(Port(13133), NoAddress), <<>>, exporters),
    CollectorConfig(("zipkin" :> Port(9412)) @@ Open("scribe"), <<>>, exporters),
    CollectorConfig(<<>>, Open("telemetry"), exporters) }

MCConfigs == Agents \union Loops \union Collectors(<<"opencensus-exporter">>)
MCTwoExporters == Collectors(<<"opencensus-exporter", "jaeger-exporter">>)
MCForeign == {Port(9410), Port(8888)}
===============================================================================
