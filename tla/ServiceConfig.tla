---------------------------- MODULE ServiceConfig ----------------------------
(***************************************************************************)
(* What the configuration of the agent and of the collector says: which    *)
(* components run, at which addresses, and which configurations the agent  *)
(* refuses.  internal/config/config.go, cmd/occollector/app/builder.       *)
(*                                                                         *)
(* A configuration is a record                                             *)
(*   process    "agent" or "collector"                                     *)
(*   sections   the receivers' sections that are present, with the address *)
(*              of each (NoAddress when the section leaves it open);       *)
(*              Jaeger's is a pair, of its Thrift and its HTTP port        *)
(*   servers    the other servers, likewise                                *)
(*   disabled   what a section of its own turns off: "tracing", "metrics"  *)
(*              of the OpenCensus receiver, "zpages"                       *)
(*   exporters  the names of the exporters in the order they are created   *)
(*   zipkinOut  the address the Zipkin exporter sends to, or NoAddress     *)
(***************************************************************************)
EXTENDS Lists, SequencesExt

NoAddress == [host |-> "none", port |-> 0]
Port(p) == [host |-> "", port |-> p]

DefaultAddress ==
  [opencensus |-> Port(55678), zipkin |-> [host |-> "localhost", port |-> 9411],
   scribe |-> Port(9410), thrift |-> Port(14267), http |-> Port(14268),
   zpages |-> Port(55679), healthcheck |-> Port(13133), telemetry |-> Port(8888)]
CollectorDefaultAddress == [DefaultAddress EXCEPT !.zipkin = Port(9411)]

OrDefault(cfg, address, name) ==
  IF address # NoAddress THEN address
  ELSE IF cfg.process = "agent" THEN DefaultAddress[name] ELSE CollectorDefaultAddress[name]

ReceiverEnabled(cfg, name) == name \in DOMAIN cfg.sections

AddressOf(sections, name) == IF name \in DOMAIN sections THEN sections[name] ELSE NoAddress

(* The section a component is configured by.  The collector initialises    *)
(* the Scribe receiver from the section of the Zipkin receiver.            *)
SectionOf(cfg, name) ==
  IF cfg.process = "collector" /\ name = "scribe" THEN "zipkin" ELSE name

(* Where a component listens: at the address in its section, else at its   *)
(* default.                                                                *)
ReceiverAddress(cfg, name) ==
  OrDefault(cfg, AddressOf(cfg.sections, SectionOf(cfg, name)), name)
OpenCensusReceiverAddress(cfg) == ReceiverAddress(cfg, "opencensus")
ZipkinReceiverAddress(cfg) == ReceiverAddress(cfg, "zipkin")
ZipkinScribeConfig(cfg) == ReceiverAddress(cfg, "scribe")
JaegerReceiverPorts(cfg) ==
  <<OrDefault(cfg, cfg.sections.jaeger[1], "thrift"), OrDefault(cfg, cfg.sections.jaeger[2], "http")>>
ServerAddress(cfg, name) == OrDefault(cfg, AddressOf(cfg.servers, name), name)

CanRunOpenCensusReceiver(cfg) ==
  ReceiverEnabled(cfg, "opencensus") /\ ~({"tracing", "metrics"} \subseteq cfg.disabled)

ZPagesEnabled(cfg) == "zpages" \notin cfg.disabled

(***************************************************************************)
(* Hosts.  Resolve is the system's resolver: "alias" is one more name of   *)
(* this machine.  Whoever listens at a wildcard takes connections to every *)
(* address of the machine.                                                 *)
(***************************************************************************)
Resolve(host) == CASE host \in {"localhost", "127.0.0.1", "alias"} -> "127.0.0.1"
                   [] OTHER -> host
Wildcard(host) == host \in {"", "0.0.0.0"}
Local(host) == Wildcard(host) \/ Resolve(host) = "127.0.0.1"

(* Whether a connection to (or a second listener at) b meets a listener    *)
(* at a.                                                                   *)
Meets(a, b) ==
  /\ a.port = b.port
  /\ \/ Resolve(a.host) = Resolve(b.host)
     \/ (Wildcard(a.host) \/ Wildcard(b.host)) /\ Local(a.host) /\ Local(b.host)

eqLocalHost(host) == host \in {"", "localhost", "127.0.0.1"}
eqHosts(host1, host2) == host1 = host2 \/ (eqLocalHost(host1) /\ eqLocalHost(host2))

(* The agent refuses a Zipkin exporter that sends to its Zipkin receiver.  *)
LogicalConflict(cfg) ==
  LET out == cfg.zipkinOut
      in  == ZipkinReceiverAddress(cfg)
  IN /\ out # NoAddress
     /\ ReceiverEnabled(cfg, "zipkin")
     /\ out.port = in.port
     /\ eqHosts(out.host, in.host) \/ Resolve(out.host) = Resolve(in.host)

(***************************************************************************)
(* The components in the order the two processes set them up.              *)
(***************************************************************************)
Receivers == {"jaeger", "opencensus", "zipkin", "scribe"}

AgentOrder == <<"pprof", "exporters", "opencensus", "zpages", "zipkin", "scribe",
                "jaeger", "prometheus", "vmmetrics">>
CollectorOrder == <<"pprof", "healthcheck", "exporters", "zpages", "jaeger", "opencensus",
                    "zipkin", "scribe", "telemetry">>

(* The agent binds the OpenCensus receiver whatever its section says; the  *)
(* collector always has its health check.                                  *)
Enabled(cfg, c) ==
  CASE c \in {"pprof", "telemetry"} -> c \in DOMAIN cfg.servers
    [] c = "zpages" -> ZPagesEnabled(cfg)
    [] c \in {"exporters", "healthcheck"} -> TRUE
    [] c = "opencensus" /\ cfg.process = "agent" -> TRUE
    [] OTHER -> ReceiverEnabled(cfg, c)

SetupOrder(cfg) ==
  LET order == IF cfg.process = "agent" THEN AgentOrder ELSE CollectorOrder
  IN Only(order, {c \in Range(order) : Enabled(cfg, c)})

(* The addresses of a component, in the order it binds them.               *)
Addresses(cfg, c) ==
  CASE c = "jaeger" -> JaegerReceiverPorts(cfg)
    [] c = "opencensus" -> <<OpenCensusReceiverAddress(cfg)>>
    [] c = "zipkin" -> <<ZipkinReceiverAddress(cfg)>>
    [] c = "scribe" -> <<ZipkinScribeConfig(cfg)>>
    [] c \in {"pprof", "zpages", "healthcheck", "telemetry"} -> <<ServerAddress(cfg, c)>>
    [] OTHER -> <<>>
==============================================================================
