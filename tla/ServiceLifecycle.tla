--------------------------- MODULE ServiceLifecycle ---------------------------
(***************************************************************************)
(* Start, running and shutdown of the two processes, the agent             *)
(* (cmd/ocagent/main.go) and the collector                                 *)
(* (cmd/occollector/app/collector), with the receivers and servers they    *)
(* start.  The main goroutine sets the components up one by one, waits for *)
(* a signal or for an error on asyncErrorChan, and closes what it has.     *)
(* The servers run in goroutines of their own, and may fail at any time.   *)
(* asyncErrorChan has no buffer: who reports an error is blocked until the *)
(* main goroutine receives, which it does once at most.                    *)
(*                                                                         *)
(* Init, Next and the like are named for the process, so that a module can *)
(* speak of it and of a receiver that it starts.                           *)
(***************************************************************************)
EXTENDS ServiceConfig, FiniteSets

CONSTANTS Configs,   \* the configurations the process may be started with
          Foreign    \* the addresses other processes may hold

VARIABLES
  cfg,        \* the configuration read
  foreign,    \* the addresses held by other processes
  mainPc,     \* of the main goroutine: check, setup, stuck, wait, close or ended
  todo,       \* components still to be set up, or functions still to be called
  state,      \* of each component: off, starting, idle, serving, broken, deaf or stopped
  reporting,  \* the components blocked on their send to asyncErrorChan
  health,     \* what the collector's health check answers
  started,    \* the components set up, in order
  closes,     \* how often each component and exporter was closed
  signal,     \* whether a signal to terminate has arrived
  ending      \* how the process ended

processVars ==
  <<cfg, foreign, mainPc, todo, state, reporting, health, started, closes, signal, ending>>

Components == Range(AgentOrder) \union Range(CollectorOrder)

(* Exporters are told apart by name, from each other and from components.  *)
ASSUME ConfigsAssumption ==
  \A c \in Configs : /\ c.exporters \in Seq(Range(c.exporters)) /\ IsInjective(c.exporters)
                     /\ Range(c.exporters) \intersect Components = {}

Agent == cfg.process = "agent"

ProcessInit ==
  /\ cfg \in Configs
  /\ foreign \in SUBSET Foreign
  /\ mainPc = "check"
  /\ todo = SetupOrder(cfg)
  /\ state = [c \in Components |-> "off"]
  /\ reporting = {}
  /\ health = "unavailable"
  /\ started = <<>>
  /\ closes = [x \in Components \union Range(cfg.exporters) |-> 0]
  /\ signal = FALSE
  /\ ending = "none"

(* The reading of the configuration; only the agent looks for conflicts.   *)
CheckConfig ==
  /\ mainPc = "check"
  /\ IF Agent /\ LogicalConflict(cfg)
     THEN mainPc' = "ended" /\ ending' = "fatal"
     ELSE mainPc' = "setup" /\ UNCHANGED ending
  /\ UNCHANGED <<cfg, foreign, todo, state, reporting, health, started, closes, signal>>

(***************************************************************************)
(* Listening.  A component that stopped, or never came to be, holds no     *)
(* address.                                                                *)
(***************************************************************************)
Bound == foreign \union
  UNION {Range(Addresses(cfg, c)) : c \in {c \in Components : state[c] \in {"serving", "idle", "deaf"}}}
Free(a) == \A b \in Bound : ~Meets(b, a)
CanBind(c) ==
  LET as == Addresses(cfg, c)
  IN \A i \in 1..Len(as) : Free(as[i]) /\ \A j \in 1..(i - 1) : ~Meets(as[j], as[i])

Bind(c) == IF CanBind(c) THEN "serving" ELSE "error"

(***************************************************************************)
(* How the setting up of each component can end: "serving", "starting"     *)
(* when the goroutine it leaves behind still has to bind, "idle" when an   *)
(* address is held and nobody serves there, "error" when it fails, and     *)
(* "blocked" when it does not return.                                      *)
(***************************************************************************)
SetupFromViper == {"starting"}          \* pprof
newHealthCheck == {Bind("healthcheck")}
RunZPages == {Bind("zpages")}
InitTelemetry == {"starting", "error"}
ExportersFromViperConfig == {"serving", "error"}

(* Three goroutines send what they return with to a channel of one; the    *)
(* caller takes the first error within a second, and no later one.         *)
startServer == {"serving", "error"}
NewOpenCensus ==
  IF Bind("opencensus") = "error" THEN {"error"}
  ELSE IF CanRunOpenCensusReceiver(cfg) THEN startServer
  ELSE {"idle"}

StartZipkin == {Bind("zipkin")}
StartScribe == {Bind("scribe")}

(* Jaeger's agent listens at UDP ports of its own; then the two servers of *)
(* the collector bind.  What was started before an error is stopped again. *)
startAgent == {"serving", "error"}
startCollector ==
  LET ports == JaegerReceiverPorts(cfg)
  IN IF Free(ports[1]) /\ Free(ports[2]) /\ ~Meets(ports[1], ports[2]) THEN "serving" ELSE "error"
StartJaeger == {IF agent = "error" THEN agent ELSE startCollector : agent \in startAgent}

(* An error of ApplyConfig is sent to asyncErrorChan by the goroutine that *)
(* would receive it, the main one.                                         *)
StartPrometheus == {"serving", "error", "blocked"}
StartVMMetrics == {"serving", "error"}

Outcomes(c) ==
  CASE c = "pprof" -> SetupFromViper
    [] c = "healthcheck" -> newHealthCheck
    [] c = "exporters" -> ExportersFromViperConfig
    [] c = "zpages" -> RunZPages
    [] c = "opencensus" -> NewOpenCensus
    [] c = "zipkin" -> StartZipkin
    [] c = "scribe" -> StartScribe
    [] c = "jaeger" -> StartJaeger
    [] c = "prometheus" -> StartPrometheus
    [] c = "vmmetrics" -> StartVMMetrics
    [] c = "telemetry" -> InitTelemetry

(* What the closing of a component calls: the exporters have a function    *)
(* each, pprof, telemetry and the health check none.                       *)
CloseFns(c) ==
  CASE c = "exporters" -> cfg.exporters
    [] c \in {"pprof", "telemetry", "healthcheck"} -> <<>>
    [] OTHER -> <<c>>

(* createExporters: the functions it returns all refer to the one loop     *)
(* variable, and so call the function of the last exporter.                *)
WrappedDoneFns(fns) == [i \in DOMAIN fns |-> Last(fns)]
DoneFns(c) ==
  IF c = "exporters" /\ ~Agent THEN WrappedDoneFns(CloseFns(c)) ELSE CloseFns(c)

(* Stop of the OpenCensus receiver closes its listener; the collector      *)
(* calls StopTraceReception, which ends its workers and leaves it open.    *)
StoppedState(c) == IF c = "opencensus" /\ ~Agent THEN "deaf" ELSE "stopped"

(* Component c is set up, and noted to be closed.                           *)
SetUp(c) ==
  \E outcome \in Outcomes(c) \ {"error", "blocked"} :
    /\ state' = [state EXCEPT ![c] = outcome]
    /\ started' = Append(started, c)
    /\ todo' = Tail(todo)
    /\ UNCHANGED <<mainPc, reporting, closes, ending>>

(* Mutant of FailSetUp: the receivers before are left as they are.         *)
BugFailAtOnce(c) ==
  /\ "error" \in Outcomes(c)
  /\ mainPc' = "ended" /\ ending' = "fatal"
  /\ UNCHANGED <<todo, state, started, closes, reporting>>

(* A failure ends the process; in createReceivers the receivers started    *)
(* before are stopped first.                                               *)
FailSetUp(c) ==
  /\ "error" \in Outcomes(c)
  /\ LET stopped == IF ~Agent /\ c \in Receivers THEN Range(started) \intersect Receivers ELSE {}
     IN /\ state' = [x \in Components |-> IF x \in stopped THEN StoppedState(x) ELSE state[x]]
        /\ closes' = [x \in DOMAIN closes |-> closes[x] + IF x \in stopped THEN 1 ELSE 0]
  /\ mainPc' = "ended"
  /\ ending' = "fatal"
  /\ UNCHANGED <<todo, started, reporting>>

Blocks(c) ==
  /\ "blocked" \in Outcomes(c)
  /\ mainPc' = "stuck"
  /\ reporting' = reporting \union {c}
  /\ UNCHANGED <<todo, state, started, closes, ending>>

NothingToDo ==
  /\ mainPc = "setup" /\ ~Agent
  /\ Range(todo) \subseteq {"telemetry"}
  /\ \A c \in Receivers : ~ReceiverEnabled(cfg, c)

Setup ==
  /\ mainPc = "setup" /\ todo # <<>> /\ ~NothingToDo
  /\ LET c == Head(todo) IN SetUp(c) \/ FailSetUp(c) \/ Blocks(c)
  /\ UNCHANGED <<cfg, foreign, health, signal>>

(* runAndWaitForShutdownEvent; from here on signals are received.          *)
SetupDone ==
  /\ mainPc = "setup" /\ todo = <<>> /\ ~NothingToDo
  /\ mainPc' = "wait"
  /\ health' = IF Agent THEN health ELSE "ready"
  /\ UNCHANGED <<cfg, foreign, todo, state, reporting, started, closes, signal, ending>>

(* The collector ends when it has no receiver to create.                   *)
SetupNothing ==
  /\ NothingToDo
  /\ mainPc' = "ended" /\ ending' = "fatal"
  /\ UNCHANGED <<cfg, foreign, todo, state, reporting, health, started, closes, signal>>

(***************************************************************************)
(* The goroutines of the servers.                                          *)
(***************************************************************************)

(* Whose goroutines send an error of theirs to asyncErrorChan.             *)
Reports(c) == c \in {"pprof", "telemetry", "zpages", "zipkin", "prometheus"}
HasServer(c) == Reports(c) \/ c \in Receivers

Running == mainPc # "ended"

Breaks(c) ==
  /\ state' = [state EXCEPT ![c] = "broken"]
  /\ reporting' = IF Reports(c) THEN reporting \union {c} ELSE reporting

BindLater(c) ==
  /\ Running /\ state[c] = "starting"
  /\ IF CanBind(c) THEN state' = [state EXCEPT ![c] = "serving"] /\ UNCHANGED reporting
     ELSE Breaks(c)
  /\ UNCHANGED <<cfg, foreign, mainPc, todo, health, started, closes, signal, ending>>

(* A server fails while it serves.  Jaeger's and Scribe's ignore the       *)
(* error; the one of startServer of OpenCensus has nobody who receives it  *)
(* after the first second.                                                 *)
ServerFails(c) ==
  /\ Running /\ HasServer(c) /\ state[c] = "serving"
  /\ Breaks(c)
  /\ UNCHANGED <<cfg, foreign, mainPc, todo, health, started, closes, signal, ending>>

(***************************************************************************)
(* The end.                                                                *)
(***************************************************************************)
(* Mutant of ClosingOrder: the collector closes in the order of setup.     *)
BugSetupOrder == FlattenSeq([i \in DOMAIN started |-> DoneFns(started[i])])

ClosingOrder ==
  LET fns(cs) == FlattenSeq([i \in DOMAIN cs |-> DoneFns(cs[i])])
  IN IF Agent THEN fns(started)
     ELSE Only(started, Receivers) \o fns(Only(started, Components \ Receivers))

BeginShutdown ==
  /\ mainPc' = "close"
  /\ health' = "unavailable"
  /\ todo' = ClosingOrder
  /\ UNCHANGED ending

(* Before the main goroutine asks for them, a signal kills the process.    *)
Signal ==
  /\ Running /\ ~signal
  /\ signal' = TRUE
  /\ IF mainPc \in {"wait", "close"} THEN UNCHANGED <<mainPc, ending>>
     ELSE mainPc' = "ended" /\ ending' = "killed"
  /\ UNCHANGED <<cfg, foreign, todo, state, reporting, health, started, closes>>

TakeSignal ==
  /\ mainPc = "wait" /\ signal
  /\ BeginShutdown
  /\ UNCHANGED <<cfg, foreign, state, reporting, started, closes, signal>>

(* Mutant of TakeError: the agent only waits for a signal.                 *)
BugSignalOnly ==
  /\ mainPc = "wait" /\ ~Agent
  /\ \E c \in reporting : reporting' = reporting \ {c}
  /\ BeginShutdown
  /\ UNCHANGED <<cfg, foreign, state, started, closes, signal>>

(* The agent ends with log.Fatalf, without the deferred closing; the       *)
(* collector shuts down as after a signal.                                 *)
TakeError ==
  /\ mainPc = "wait"
  /\ \E c \in reporting : reporting' = reporting \ {c}
  /\ IF Agent THEN mainPc' = "ended" /\ ending' = "fatal" /\ UNCHANGED <<health, todo>>
     ELSE BeginShutdown
  /\ UNCHANGED <<cfg, foreign, state, started, closes, signal>>

(* The server of Zipkin returns when it is closed, and its goroutine sends *)
(* that to asyncErrorChan like any error.                                  *)
CloseNext ==
  /\ mainPc = "close" /\ todo # <<>>
  /\ LET x == Head(todo)
     IN /\ closes' = [closes EXCEPT ![x] = @ + 1]
        /\ state' = IF x \in Components THEN [state EXCEPT ![x] = StoppedState(x)] ELSE state
        /\ reporting' = IF x = "zipkin" /\ state[x] = "serving" THEN reporting \union {x} ELSE reporting
  /\ todo' = Tail(todo)
  /\ UNCHANGED <<cfg, foreign, mainPc, health, started, signal, ending>>

CloseDone ==
  /\ mainPc = "close" /\ todo = <<>>
  /\ mainPc' = "ended" /\ ending' = "orderly"
  /\ UNCHANGED <<cfg, foreign, todo, state, reporting, health, started, closes, signal>>

Main == CheckConfig \/ Setup \/ SetupDone \/ SetupNothing \/ TakeSignal \/ TakeError
          \/ CloseNext \/ CloseDone

ProcessNext == Main \/ Signal \/ \E c \in Components : BindLater(c) \/ ServerFails(c)

ProcessSpec ==
  ProcessInit /\ [][ProcessNext]_processVars /\ WF_processVars(Main)

(***************************************************************************)
(* Properties                                                              *)
(***************************************************************************)
StartedReceivers == Range(started) \intersect Receivers

(* An orderly end has called the closing function of everything that was   *)
(* set up, each once; and the collector that cannot start a receiver stops *)
(* the ones before it.  main.go, "Always cleanup finally"; closeFns of     *)
(* Application; createReceivers.                                           *)
EndsClean ==
  /\ \A x \in DOMAIN closes : closes[x] <= 1
  /\ ending = "orderly" =>
       \A c \in Range(started) : \A x \in Range(CloseFns(c)) : closes[x] = 1
  /\ ~Agent /\ ending = "fatal" /\ todo # <<>> /\ Head(todo) \in Receivers =>
       \A r \in StartedReceivers : closes[r] = 1

(* The collector reports itself unavailable before it stops a receiver,    *)
(* and stops every receiver before it closes what they send to.  (The      *)
(* agent closes its exporters first.)  execute of Application.             *)
ShutdownOrder ==
  ~Agent => /\ health = "ready" => \A r \in Receivers : closes[r] = 0
            /\ (\E x \in Range(cfg.exporters) : closes[x] > 0) =>
                 \A r \in StartedReceivers : closes[r] = 1

(* A signal, or the failure of a server that reports it, ends the process: *)
(* whoever sends an error before anyone receives is heard later.  Excepted *)
(* is the process that waits on its own error (Blocks).        *)
EndsWhenTold ==
  (signal \/ \E c \in Components : Reports(c) /\ state[c] = "broken")
    ~> (mainPc \in {"ended", "stuck"})

===============================================================================
