# OpenCensus Service in TLA+

TLA+ models, TLC runs and TLAPS proofs for the OpenCensus Service: the agent
(`cmd/ocagent`) and the collector (`cmd/occollector`), which receive spans and
metrics, process them and export them. The models are written from the code;
`PROJECT.json` maps each definition to the lines it stands for.

Contents: 1 the system, 2 what is hard in it, 3 the modules, 4 the runs,
5 fairness, 6 the proofs, 7 disagreements with comments, 8 what is not
modelled, 9 plan.

## 1. The system

Data flows in one direction, by synchronous calls of `ConsumeTraceData` and
`ConsumeMetricsData`:

    receivers -> [multiconsumer] -> processors -> queue -> exporters

| Component | State it keeps | Operations | Correct when |
|---|---|---|---|
| **Receivers**: OpenCensus (`receiver/opencensusreceiver`), Jaeger, Zipkin, Zipkin scribe, VM metrics | listeners, start and stop `sync.Once`s; per stream the last node and resource; worker channel | Start*, Stop*, Export / ServeHTTP / SubmitBatches | every accepted message is passed on with the node of its own stream; start and stop are idempotent; stop releases every goroutine |
| **Prometheus receiver** (`receiver/prometheusreceiver`) | the store (state, metadata service), a transaction and its families for each scrape | Start, Stop, `Appender`, `Add`, `Commit`, `Rollback` | what is sent of a scrape is its page; nothing after the stop |
| **Metrics adjuster** (`prometheusreceiver/internal/metrics_adjuster.go`) | per job a map of timeseries with their initial and previous points, marks, time of the last collection | `JobsMap.get`, `maybeGC`, `gc`, `AdjustMetrics` | differences are relative to the right point; a fall is never reported; nothing in use is forgotten, nothing unused is kept |
| **Tail sampling processor** (`collector/processor/tailsampling`) | `idToTrace`, the entries (decisions, received batches), `deleteChan`, `numTracesOnMap` | `ConsumeTraceData`, `samplingPolicyOnTick`, `dropTrace` | each trace is decided once, after the wait; all of its spans follow the decision; memory is bounded |
| **Id batcher** (`collector/processor/idbatcher`) | channel of ids, current batch, pipe of batches | `AddToCurrentBatch`, `CloseCurrentAndTakeFirstBatch`, `Stop` | each id comes out once, a fixed number of closes after it went in |
| **Sampling policies** (`collector/sampling`) | spans in the current second | `Evaluate` | the limit is respected |
| **Node batcher** (`collector/processor/nodebatcher`) | map of buckets; in each its spans, count, age, dead flag; per ticker its buckets | `ConsumeTraceData`, `processNodeBatch` | every span is sent once and in time; idle buckets go away |
| **Queued processor** (`collector/processor/queued`) | bounded queue, workers, stop channel | `ConsumeTraceData`, `processItemFromQueue`, `Stop` | each batch is sent, dropped and counted, or still held: exactly one of them |
| **OpenCensus exporter** (`exporter/opencensusexporter`) | pool of connections in a channel | `PushTraceData`, `stop` | a connection has one user; stop waits for it |
| **Multiconsumer**, head sampler, attribute processors | none | `Consume*Data` | every consumer is called, errors are joined; a trace is sampled as a whole in every process |
| **Wiring** (`cmd/occollector/app/collector/processors.go`, `app/builder`) | none once built | `startProcessor`, exporter and pipeline builders | what the configuration asks for gets every batch, through the stages asked for in their order; a retry repeats only what failed |
| **Translators** (`translator/trace`, what the Zipkin receiver and exporter make of a batch) | none | functions between span formats | a span keeps its identity, parents and attributes; both transports of a format agree; a second hop loses nothing more |
| **Agent and collector processes** | list of close functions, error channel | start, wait for a signal, close | what was started is closed, senders before what they send to |
| **Configuration, telemetry, zPages, pprof** | none | reading and validation, counters | a configuration that cannot work is refused |

Interactions that matter: goroutines of receivers call the tail sampling
processor concurrently, and it shares its entries with a ticker and its ids
with the batcher's goroutine. The node batcher is called by receivers and
tickers and calls the queued processor; the queue's workers call the
exporter. The scrape loops of the Prometheus receiver share the jobs map with
collections that they start themselves.

## 2. What is hard

The code persists nothing, so there is no crash recovery; a message between
processes is lost or repeated only through a retry. The hard part is goroutines
that share state under several locks, `sync.Map`s and channels: steps of two
of them in an order nobody tested, values read before an unlock and used after
it, bounded channels whose senders wait, shutdown while others work, and marks
and counters that must agree with what they count. `PROJECT.json` lists each
hazard at its line with the properties that cover it.

Every process is itself a chain of such components, and processes form chains:
an agent exports in some format to a collector that receives it.

## 3. The modules

| Module | Models | Notes |
|---|---|---|
| `IdPipeline` | the promise of the interface `Batcher` | abstract specification: pending ids, the open batch, the pipe, what was taken |
| `IdBatcher` | `id_batcher.go` | implements `IdPipeline` |
| `TailSampling` | `processor.go` of tailsampling | uses `IdPipeline` as its batcher (`INSTANCE`) |
| `NodeBatcher` | `node_batcher.go` | |
| `QueuedProcessor` | `queued_processor.go` | sender left open |
| `OCExporter` | pool, push and stop of `opencensus.go` | |
| `QueuedExport` | the workers of the queue as callers of the exporter | composes the last two |
| `OCTraceReceiver` | `octrace/opencensus.go`, `StopTraceReception` | gRPC is a stream that may break |
| `PrometheusMetrics` | `metricsbuilder.go`, `metricfamily.go` | operators: a page of samples to metric families |
| `PrometheusScrape` | `metrics_receiver.go`, `ocastore.go`, `transaction.go`, `metadata.go` | uses `PrometheusMetrics`; the scrape manager is external |
| `MetricsAdjuster` | `metrics_adjuster.go`, `transaction.Commit` | |
| `OCSpan` | ids, times, spans and nodes as the translators see them | `big_endian_converter.go`, `internal.go` |
| `JaegerTranslation` | `translator/trace/jaeger`: to Thrift and gRPC, from Thrift | operators |
| `ZipkinTranslation` | Zipkin version 1, JSON and Thrift, to spans | operators |
| `ZipkinV2` | version 2 in the Zipkin receiver; `translator/trace/spandata` and the Zipkin exporter | operators |
| `SpanProcessors` | attribute processors, head sampler, tag filters | operators |
| `SpanJourney` | a batch on its way through several processes | composes the translators and `SpanProcessors` |
| `ServiceConfig` | receivers' and servers' sections, defaults, addresses, conflicts (`config.go`, `builder.go`, `receivers.go`) | operators |
| `ServiceLifecycle` | `cmd/ocagent/main.go`, `app/collector/collector.go`; start, stop and failure of each receiver and server | uses `ServiceConfig` |
| `PipelineGraph` | the consumers a collector is wired from, and a call of one | operators |
| `CollectorPipeline` | `processors.go`: wiring from the first configuration format | operators |
| `UnifiedPipeline` | `configv2.go`, `exporters_builder.go`, `pipelines_builder.go`: the unified format, its validation and wiring | operators |
| `Pipelines` | a batch in the consumers wired either way: receivers' calls, queue workers, tail sampler; a step is a call of one consumer | composes the last three |
| `BatchAccount` | where that batch is in the end | property of `Pipelines`, with recursive operators |
| `MC*` | the instances for TLC | `IdBatcher` and `QueuedExport` need none |
| `Lists` | the loop that keeps some elements of a slice, in a form the provers can unfold | operators |
| `DataLemmas` | facts about sequences used as queues, what a loop keeps, induction over the naturals, sums over finite sets | proofs |
| `TailSamplingProofs`, `NodeBatcherProofs`, `MetricsAdjusterProofs`, `PrometheusScrapeProofs` | theorems about the module of the name | proofs |
| `ExportProofs` | theorems about `QueuedExport` and `Pipelines` | proofs |
| `SamplingProofs` | theorems about `IdBatcher` and `SpanJourney` | proofs |
| `ServiceProofs` | theorems about `OCTraceReceiver` and `ServiceLifecycle`, whose names do not meet | proofs |

How they read: the variables have the names of the Go fields where there is
one; a `pc` variable says where each goroutine is; an action is what a
goroutine does between two points where others can interfere. A critical
section is one step when everything it shares is under its lock, or when the
lock is modelled (`locked` in `NodeBatcher`, `gcRunning` in
`MetricsAdjuster`). An unlocked access is a step of its own: the read of
`b.stopped`, the write of `trace.Decision`, the deletion of a bucket before
it is marked dead, the two assignments of the Prometheus store, the look of a
transaction at its context before the sample is added. `maybeGC` reads
`lastGC` without its lock, a data race: against a running collection both
answers are possible.

What is abstracted: in the concurrent modules spans are named by the call that
brings them; a batch of ids is a set, as nobody uses its order; a policy's
verdict and a sender's answer are any of the two; time is a Boolean that says
whether a timeout has run out, set by an action of its own. Statistics and logging
are left out. Objects that Go tells apart by their address are named by who made
them: an entry of the tail sampling map is `<<call, trace>>`, a bucket is the
call that stored it, a map of timeseries is `<<job, scrape>>`. In the
translators a span is a record with all of its fields; bytes of an id are the
64-bit numbers that they hold, a text is a word, and a number in a text is a word
that reads as one, so that what conversions lose (nanoseconds, types of
attributes, absent against empty or zero) shows, and what they do not (UTF-8,
hex digits, JSON) is left out. The head sampler's hash is any function on trace
ids. In the Prometheus modules a name is the sequence of its parts between
underscores, because suffixes decide what is one family; what a page says is
defined there a second time, from the names and types of its metadata alone, so that
`WholePages` compares the builder with the page and not with itself. In `ServiceLifecycle`
an address is a host and a port, and a failure of a bind or a server is a step of
its own. Histories (`delivered`, `sent`, `joined`, `evicted`, `last`, `base`,
`swept`, `idle`, `handled`, `closes`, `got`, `asked`, `path`, `whole`) are only read by
properties.

Each property of a passing run has a mutant: an operator `Bug...` placed
before the definition it replaces, with a plausible mistake, under which TLC
finds that property violated.

Type invariants are stated in the concurrent modules and proved, where there are
proofs; the runs spend their time on properties that the code could break.

## 4. The runs

| Run | Instance | What it shows |
|---|---|---|
| `id_batcher` | 3 ids, 2 batches, channel of 2 | exactly-once, room under the lock, all delivered at the end, refinement of `IdPipeline`, delivery of every id |
| `tail_sampling` | 2 calls that share a trace, 2 policies, room for 1 of 2 traces | evaluation after the wait and once, spans follow the decision, map, channel and counter agree, decisions are final, no call waits for ever and what stays is decided |
| `tail_sampling_once` (violation) | the same | spans reach a destination twice |
| `node_batcher` | 3 calls, 2 buckets, 2 tickers, channel of 1 | no stranded span, one ticker for a bucket, all sent once |
| `queued_export` | 3 batches, 2 workers, queue of 2, 1 connection | each batch accounted for, connections conserved, fair retry, both stops return |
| `metrics_adjuster` | 1 job, 2 timeseries, 4 scrapes, 2 collections, 3 points | differences, resets, no early and no late collection |
| `oc_trace_receiver` | 3 streams, 6 messages, 2 workers, channel of 1 | node and resource of the right stream and time, each message handled once, spans passed on, workers end |
| `span_journey` | some 200 batches in 5 formats, ways of 3 steps | identity and attributes survive; hops are idempotent; traces sampled as a whole; both forms of a format agree, but for named differences; policies decide alike after a hop |
| `lifecycle` | 3 agents, 50 combinations of Zipkin in and out, collectors with one exporter; 2 ports taken by others | an orderly end closes all once and in order; a signal or reported failure ends the process |
| `lifecycle_close` (violation) | collectors with two exporters | one exporter is never closed |
| `pipelines` | 31 configurations of the first format, some 35 of the unified one, 3 tries | a batch reaches every exporter asked for, through the stages asked for, or is accounted for; a retry repeats only what failed |
| `prometheus_scrape` | 2 targets, 14 and 3 pages, stale markers, 1 scrape each | what is sent of a scrape is its page, as far as its families can be told apart; no transaction without metadata, nothing after the stop |

Bounds, and why they are enough to be interesting:

- `IdBatcher`: with a channel of 2 the third adder waits, with 2 batches the
  pipe has a front and a back, and 3 ids can be in the channel, with the filler
  and in a batch at once. The reader and the filler run without a bound.
- `TailSampling`: two calls share a trace, so they race for its creation; a
  second policy is what distinguishes pending from decided within one entry.
  There are more traces than the map has room for, so a trace is evicted and
  stored again while its first id is in the pipe, and the calls compete for
  `deleteChan`. The number of calls is the only bound; ticks are not bounded. This
  is the largest run (726,000 states, under two minutes).
- `NodeBatcher`: two calls go over the batch size together and not alone, a
  call for a second node fills the other channel, and a bucket can be removed
  and made again under the same id. `RemoveAfterCycles` is 1, so the count
  matters.
- `QueuedExport`: a third batch meets a full queue or a worker that puts one
  back; one connection for two workers makes them wait for each other. A batch
  may fail any number of times.
- `MetricsAdjuster`: `MaxScrapes` and `MaxGCs` bound it. Four scrapes allow
  first point, adjusted point, reset, adjusted point; with two collections one
  unmarks and one removes. The points let a checked field rise, stay and fall, and
  fall to a value that is more than the difference last reported, which
  is where the in-place adjustment is delicate.
- `OCTraceReceiver`: with two workers messages of a stream overtake each
  other, and a channel of 1 makes streams wait. One stream changes its node,
  one sets its resource late, one breaks the protocol; two messages have no
  spans, as many as there are workers. `Messages` is the bound.
- `SpanJourney`: `MaxSteps = 3` counts hops and processors after the first
  reception; two hops of one format show whether a second one changes more, and
  a third step is a processor or another format between or after them. The
  first span of a batch varies one or two parts at a time around an ordinary
  one: absent, empty and zero of each field, ids of a wrong length, attributes
  with the names that translators reserve, events of both kinds, times with
  nanoseconds or none, links to span 0, attributes with the names of tags that
  gRPC adds. Two other spans share or do not share its trace. Version 1 of Zipkin
  has batches at its edges: ports above 32767, ids that are zero, negative, short and
  typed values, hosts without a name, a timestamp of 0. Jaeger's batches have
  blank spans.
- `ServiceLifecycle`: each kind of component is in some configuration, with
  default and with equal ports. `Foreign` ports belong to other programs, so some
  binds fail, at once or a while later. Nothing else is bounded.
- `Pipelines`: `MaxTries = 3`: a sender with retries fails up to twice, enough
  to repeat a failure; a queue without retries fails once. Queues of two
  senders, policies that share a destination and configurations that must be
  refused are among the configurations. 7,400 states: every order in which the
  goroutines that hold the batch can make their calls.
- `PrometheusScrape`: `MaxScrapes = 1` scrape for a target, followed by its stale markers
  and its report, which are transactions of their own; the pages hold histograms,
  summaries, families without type, groups that miss their count, label sets that
  differ, and stale markers; a gauge `foo` and a counter `foo_count`, and untyped
  `free` and `free_sum`, in either order; families whose samples are scattered over the
  page, and a sample that comes twice. Two loops share the store with start and stop.

Deadlock is not checked where the system comes to rest (all calls returned,
stopped, or a bound reached).

## 5. Fairness

Liveness is checked under weak fairness of each goroutine: the Go scheduler
runs what can run. Strong fairness is assumed in two places. The tickers of
`NodeBatcher` choose between ready channels in a `select`, which Go does at
random, so none is passed over for ever. Receivers that wait on a Go channel
are queued in order, so a worker that waits for a connection, or `stop`,
gets one although others take them in between (`QueuedExport`). Destinations
and exporters are assumed to return, time to pass, and the policy ticker to
go on; streams to end. Nobody is assumed to call `Stop`. Callers that wait on `deleteChan` in
`TailSampling` need no strong fairness. `ServiceLifecycle` assumes only that
the main goroutine goes on: no signal and no failure has to come.
`Pipelines` assumes (`FairRouteSpec`) that some goroutine that can run does; since
every task of a batch is finite, that lets each of them finish. The safety runs without liveness
properties (`metrics_adjuster`, `prometheus_scrape`, `span_journey`) assume
none.

## 6. The proofs

TLAPS proves these for all values of the constants (ids, batches, calls, keys,
workers, queue sizes, connections, streams, pages).

`SamplingProofs`, of the id batcher under `BatcherAssumption` (the two checks that
`New` makes):

- `TypeCorrect`: type correctness, inductive as it stands.
- `PipeNeverFull`: `SendHasRoom`. Its invariant, `PipeRoom`, counts: the pipe
  has at most `NumBatches` batches, and one fewer while the reader has one in
  hand.
- `ShutdownOrder`: `Shutdown` ties the program counters to the flags: the
  filler ends only with its channel closed and empty, `stopped` is set only
  after that, the pipe is closed only after that.
- `DeliveredExactlyOnce`: `ExactlyOnce` is inductive with the types; it is
  written without a bag or a cardinality, as disjointness of the places an
  id can be in, so each step moves a set from one place to the next.
- `DrainedCompletely`: needs `Shutdown`, as "finished" must imply that every
  other place is empty for good.
- `BatcherImplementsPipeline`: each step is a step of `IdPipeline` or leaves
  its variables alone. The reader's call takes effect at its critical section;
  a batch it has received before that still counts as the front of the pipe.

and of a batch on its way, under `WiresAssumption` (what a client sends decodes to
slices, and OpenCensus' spans have two ids):

- `TracesStayWhole`: `WholeTraces`, for any batches, rates, attributes, replacements
  and length of the way. The invariant `WholeInv` says of the batch that it
  has, of each trace that was received and of which it has a span, all spans,
  and that its ids are slices. It needs what the translators do to ids:
  `ThriftKeepsIds`, a hop in Thrift leaves a span that it accepts both its ids,
  and the lemmas on reception, that every format's receiver makes a batch at all. A
  hop in Zipkin's format is not covered, there a batch is split by endpoints.

`TailSamplingProofs`, under `TailSamplingAssumption` (a call names traces, and there
is a policy, a batch and room for a trace), by inductive invariants that build on
each other:

- `ProcessorTypes` and `TimelyEvaluation` (`EvaluatedOnTime`), from `BaseInv`: every
  id in the batcher is that of an entry which is in the map or was evicted
  (`Stored`), the map has an entry under its own trace, and the ticker works on
  ids that came out.
- `DecisionsStay` (`DecisionIsFinal`), from `DecisionInv`: an id is in one place of
  the batcher (`PipeInv`), so it comes out once; before that no policy of its entry
  has decided, and while the ticker has it just those before `tickPolicy` have
  (`Progress`).
- `SpansFollow` (`SpansFollowDecision`), from `SpanInv` with the two above: the property
  holds for each policy as soon as the call's loop has passed it (`Passed`), not
  only when the call is through. When a call keeps its spans because policy p is
  pending, `Progress` says that no later policy has decided, which is why
  leaving the loop there loses nothing.
- `MapAgrees` (`EvictionAgrees`), from `EvictInv`: the map is the channel, the calls
  that store and the calls that drop, counted with the theorems on finite sets; a
  call counts its trace before it posts it, so `numTracesOnMap` is at least the
  channel's length and the subtraction never wraps.

`Progress` and `Follows` speak of the entries whose trace was not evicted and stored
again, as the properties do; every other part speaks of all entries.

`NodeBatcherProofs`, under `NodeBatcherAssumption` (sizes are numbers, a channel has
room, "no bucket" is not a call):

- `BatcherTypes`, `OneTicker` (`OneTickerPerBucket`) and `NothingStranded`
  (`NoStrandedSpans`) rest on one inductive invariant, `IInv`. Its parts say that
  the map holds exactly the buckets that were stored and that no ticker has
  begun to remove (`MapIsLive`, `LiveIsInMap`), that only those have spans
  (`SpansInMap`), and what a ticker knows in each phase (`VisitInv`): the
  bucket that it looks at is the one in the map until it removes it itself. That
  last part needs `OneTickerPerBucket`: with two tickers on one id, one could
  remove what the other looks at. And `OneTickerPerBucket` needs `VisitInv`, so
  neither is inductive alone.
- `HeldOrSentOnce` (`SpansHeldOrSentOnce`), from `HeldInv` with `IInv`: what a bucket
  holds are calls that have added and are in no other bucket, a call was sent
  once or is held, and a bucket's count is the sum of its calls' spans, which the
  lemmas on sums keep through additions and the handing over of a batch.

`ExportProofs`, of the queue and the exporter:

- `QueueAccounts`: the queue alone, with any sender: each batch is in the
  queue, with one worker, sent or dropped, once.
- `PoolConserved`: the pool alone, with any callers, the connections a finite set
  (`ExportersAssumption`): the loop of `stop` counts them.
- `ComposedOfBoth`: a behaviour of `QueuedExport` is one of the queue and one
  of the pool.
- `ComposedSafe`: hence the composition has both invariants. No invariant is
  proved twice.

and of a batch in a collector, for every configuration of either format whose lists
are lists (`ConfigsAssumption`, `UnifiedConfigsAssumption`), and any number of tries:

- `WiredWithItsStages`: `StagesKept`. That a consumer leads where it should is said
  of a set of calls instead of a tree: `Closed(C, goal)` holds of a set that has,
  with a call, every call that the consumer makes of it (`Follow`), and whose calls of
  sinks are with the stages `goal`. A call leads to `goal` if it is in such a set
  (`Leads`). `StartLeads` and `PipelineLeads` follow the two builders of a collector
  backwards, from the exporters over queues and fanouts to the wrappers; the second is
  an induction over the processors, since `buildPipeline` is recursive. The
  invariant `StagesInv` then says that all calls of all goroutines, and the ones
  that queues keep for another try, are in one such set.
- `RetriesForOne`: `RetriesOnlyTheFailed`, under `NamedOnce` (no exporter or sender
  is named twice). It needs more than what each goroutine calls: that no two can
  come to the same sink. `Splits(d)` divides the sinks among the consumers, disjointly
  where a consumer has several next ones; `StartServes` and `PipelineServes` show that
  what is built has such a division. There the code's checks are needed: that two
  policies may not name the same consumer, and that a queue gives each sender a
  queue of its own. `OwnSinks` of a goroutine are those it may still call; a worker
  has its sink until the batch is delivered or given up. `RetryInv` says
  that those of two goroutines are disjoint (`AloneInv`), that the calls left
  to one goroutine are too (`Apart`), and that a sink which somebody may still call
  has refused every call so far (`Refusing`). Without `NamedOnce` it is false in the
  unified format: a pipeline that names an exporter twice calls it twice, and nothing
  checks it (section 7).

`ServiceProofs`, of the trace receiver under `ReceiverAssumption` (a channel has room, and
"not set" is not a name):

- `ReceiverTypes`: inductive with `StreamsUpToDate`, which says that Export's
  two variables are the last values that the stream has set and that the node
  is there once a message was accepted. Without it, what Export sends is not
  known to have a node.
- `NodesKept`: `KeepsItsNode`. A message gets its node and resource when it is
  sent, from `StreamsUpToDate`; no later step changes them.
- `MessagesHandledOnce`: `EachHandledOnce`, inductive with `OneInHand`: a
  worker holds a message only while it exports.

Of the process, for any configurations whose exporters have names of their own
(`ConfigsAssumption`; the names are keys of the configuration):

- `ReceiversBeforeExporters`: `ShutdownOrder`. `LifeInv` says, while the process
  closes, which components are closed: those that are owed (were set up and have
  something to close) and are no longer in the list, once (`Settled`); and that in
  a collector's list no receiver comes after an exporter (`ReceiversFirst`). That
  the list begins so is a lemma about `ClosingOrder`, by induction over what it
  selects and flattens.
- `ClosedExactlyOnce`: `EndsClean`, for collectors with one exporter at most
  (`OneExporter`). With two it is false (section 7), at one place: the functions
  that are called are no longer those that are owed (`Tells`).
- `ComponentsClosedOnce`: without that hypothesis, the same of everything
  that is not an exporter.

`MetricsAdjusterProofs`, for any jobs, points, numbers of scrapes and of collections:

- `TypeCorrect` and `RelativeToTheBase` (`ReportedFromBase`): the initial and
  previous points of a timeseries are those that the histories name as long as
  the map is the one of the job.
- `GoneAfterTwo` (`NothingOutlivesTwoCollections`), `FallsNotReported`
  (`NoFallReported`) and `DroppedForAReason` (`DropsAreJustified`) under
  `SignaturesDiffer`, that no two timeseries of a job share a signature. Without it
  they are false: two timeseries of one signature share an entry, which each
  marks for the other and compares with the other's points (section 7).
- The invariant `AdjusterInv` has a part for types, for the points, for
  the age of what is unmarked against the collections since its use, and for
  what a scrape in progress has adjusted. Adjusting a page is a recursive function
  over its points; what it preserves is proved by induction over them.

`PrometheusScrapeProofs`:

- `ServiceAlwaysThere`: `ServiceIsThere`. The store is ready before it has its
  metadata service; that no transaction sees the gap follows because the
  loops start last. The invariant ties the phases of the start to the two
  fields.
- `StopHolds`: `StopIsFinal`, an action property: what is sent after the stop
  belongs to a page whose values had all passed their check of the context
  before it, because a transaction asks for the stop at each value. The last
  value may be added after the stop, between its check and its addition. The
  invariant says that `whole` keeps those targets.
- `SentIsBuilt`: what the consumer got was built from all samples of one page
  that its target answers, none refused. `BuilderInv` says so of the samples added
  so far, of each open transaction.

`WholePages` itself is only model-checked. Its behaviour is `SentIsBuilt`; what
remains, what the builder makes of a page, is a statement about data by folds over
samples and families, with the exceptions of section 7, and checked on the pages
of the instance.

`DataLemmas` holds what the proofs need of data: what appending to and taking from a
queue does to the set of its elements, to their distinctness and to their
disjointness; concatenation; sums over finite sets. Induction is used as
`SetInduction`: the set of the numbers of which the statement holds contains all,
since the library's theorem takes an operator, which the provers cannot instantiate.
Recursive functions and folds are unfolded with it, after showing that a function
that satisfies the equation exists.

Model-checked only:

- all liveness: temporal logic with fairness, and `ENABLED`, are out of the
  prover's reach;
- the other properties of `SpanJourney`: they say what compositions of translators do
  to all attributes, names and times, and hold with exceptions for values
  (`Timed`, `ButErrorText`) that the instance lists; a proof would be an induction over
  attribute lists for each pair of formats;
- what the builder makes of a page (`WholePages`), and the two violations of section 7.

## 7. Disagreements between code and comments

Two runs expect a violation; each checks what a comment says.

1. `tail_sampling_once`: `processor.go:245` says spans are added once for all
   policies, lest they be duplicated; a call between the write of one policy's
   decision and the snapshot of the batches forwards and adds them.
2. `lifecycle_close`: `processors.go:51` wraps the exporters' closing functions
   in closures that share the loop variable, so with two exporters one is never
   closed and the other is closed twice; `collector.go:62` says that they are
   called for cleanup.

The models contain more that a comment, a name or the other side contradicts. They
have no run of their own; a property that would claim otherwise is stated with the
exception, at the definition.

- Id batcher: a reader between its check of `stopped` (`id_batcher.go:124`) and
  its send (127) panics when `Stop` closes the channel. The tail sampling
  processor never stops its batcher.
- Metrics adjuster: the signature "is unique" (`metrics_adjuster.go:100`) but
  drops empty labels (104), so `{"", x}` and `{x, ""}` share one. A map is
  "marked each time it is accessed" (27), but `get` (155) does not mark it, and
  the collection it starts may remove it.
- OpenCensus receiver: `StopTraceReception` (`opencensus.go:167`) says it is a
  noop, but ends the workers and not the streams, so what they send
  afterwards is never passed on. The receiver keeps listening after the
  collector has stopped it.
- Errors of servers: `receiver.go:38` asks for serious errors to be reported.
  Jaeger's and Scribe's servers do not report any, OpenCensus' only within
  a second. The Prometheus receiver reports an error of its configuration from
  the main goroutine, to the channel that only that goroutine reads: it waits for
  ever (`Blocks`). The Zipkin receiver's goroutine waits with its `ErrServerClosed` at
  every close.
- Ends: the agent closes its exporters before its receivers; an asynchronous error
  of the agent, or of the collector's telemetry, ends the process without the
  closing functions.
- Configuration: the Scribe receiver reads the section `zipkin`
  (`builder.go:218`); a Zipkin receiver on all addresses is not seen to loop
  with an exporter to the same port; queued exporters named `exporters` or `debug`
  replace those of that name; the unified format's names are cut from blanks
  as keys and not where they are referred to, and only keys become lower case.
  An exporter that no pipeline names has no closing function, and closing it
  panics (`exporters_builder.go:37`); one named twice in a pipeline gets
  batches twice. `Enabled` is ignored by its builders. In tail mode
  an exporter that no policy names gets nothing.
- Translators: a span without a start time moves by each Thrift hop; a status'
  message becomes the name of its code at the second Zipkin hop; Thrift drops
  status and tracestate, which gRPC makes tags; a link to span 0 is accepted by Thrift and
  refused by gRPC; gRPC may carry `span.kind` twice. The Zipkin exporter drops
  floating-point attributes, cuts or fills ids of a wrong length, stops at the first span
  with a bad tracestate, and panics on a Jaeger log without fields
  (`protospan_to_spandata.go:226`). Version 1 in JSON and in Thrift differ
  for a port over 32767, an id that is zero, values whose text does not tell
  their type (Thrift integers are read without their sign), a last host without
  name, and a timestamp of 0. `FormsAgree` states each of these as an exception, of
  the gRPC tags and of the link to span 0 too, and where it can what becomes of
  it; the instance has them all, and without any one of them the property fails.
- Prometheus: `metricfamily.go:78` takes `foo_count` for a sample of the family
  `foo`, and 174 overwrites the value of `foo` with it: a gauge `foo` of 3 and a
  counter `foo_count` of 4 are sent as a metric `foo` of 4, where the receiver's
  `README.md:16` says that it respects names and values and drops no data. A family whose
  samples are scattered over the page is sent in pieces, and of a sample that comes
  twice one value is lost. `WholePages` excepts these families, but even of them it
  asks for each plain value that no later one overwrites. A stop before the start
  calls a nil function; the stop cancels a context only, nobody closes the store or
  stops the manager.

## 8. Not modelled

See the components of `PROJECT.json`. The exporters other than OpenCensus and Zipkin
are adapters to clients of other projects: options are read, and calls passed on. The
same is true of the collector's gRPC and TChannel senders; in `Pipelines` any sender
may fail. Statistics, what zPages and health checks show, TLS options, content types
and compression have no state that another part depends on. The VM metrics receiver
reads `/proc` on a timer; only its start and stop are modelled. The metrics half of the
OpenCensus receiver hands each message to a bundler of another project.

Within modelled parts: `JobsMap`'s key joins job and instance with a colon, and a
pair that gives the same key as another pair is left out, and so is the case
of two scrape loops for one job and instance. Of a distribution's buckets the model
takes their counts, not a change of their number (`adjustBuckets` indexes one list by
the other). The rate limiter's count of a second is among the verdicts that
`TailSampling` allows. Timestamps of samples, and units made from metric names, are left
out. A `maxNumTraces` of 0, which no default gives, is excluded by an assumption.

Smaller steps and inputs that are left out, as no property depends on them:

- An annotation `null` in a Zipkin version 1 batch panics (`zipkinv1_to_protospan.go:243`);
  clients' batches have none here. Spans that are nil, which the Jaeger
  translator skips with blank ones, come out of no decoder.
- A signature joins label values with commas (`metrics_adjuster.go:101`), so values with
  commas can collide. The model has the other collision, of empty labels, and the theorems
  assume of signatures only that they differ (`SignaturesDiffer`).
- The read of `tsm.mark` before a job's map is deleted (`metrics_adjuster.go:131`) and the
  deletion are one step. The map of jobs is locked meanwhile, so only a scrape
  that already has its map could mark it in between, and it keeps that map as it does
  when it marks it after the deletion.
- `dropTrace` deletes the trace and subtracts from the counter in one step
  (`processor.go:286`). Between the two the counter is one higher than
  `EvictionAgrees` says, which is the side that cannot wrap.
- The builders' "error creating exporter" (`exporters_builder.go:177`, 192) has the same
  result as an unsupported type: the configuration is refused.
- A client that sends a batch again because the multiconsumer's combined error told it that
  one destination failed. The receivers have no such retry; it would repeat the
  batch for every destination.

## 9. Plan

Done: the core (`IdBatcher`, `TailSampling`, `NodeBatcher`, `QueuedExport`,
`MetricsAdjuster`, `OCTraceReceiver`), then the processes (`ServiceLifecycle`),
the wiring (`Pipelines`), the translators and processors (`SpanJourney`), the
Prometheus receiver, and the proofs of section 6.

Left, in this order:

1. What one hop of a format keeps of one span beyond its ids (`SpanJourney`), as lemmas about the
   translators' operators for a span and its attributes.
2. Time as a number, where two timeouts race: the tail sampler's wait against
   the batches' ages, and the rate limiter's second.
