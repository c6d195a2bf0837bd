----------------------------- MODULE SpanJourney -----------------------------
(***************************************************************************)
(* A batch of spans on its way through agents and collectors.  A process   *)
(* receives it in one of the formats, adds and renames attributes, samples *)
(* it, and exports it in the same or another format to the next process.   *)
(* The way is one that the configurations of these processes lay out: any  *)
(* is possible.                                                            *)
(***************************************************************************)
EXTENDS JaegerTranslation, ZipkinTranslation, SpanProcessors

V2 == INSTANCE ZipkinV2

CONSTANTS
  Wires,           \* what clients send: [format, and batch, or json and thrift, ...]
  DefaultService,  \* defaultServiceName of the Zipkin exporter
  Added,           \* the attributes to add
  Overwrite,       \* whether to overwrite attributes
  Replacements,    \* the keys to replace
  Rates,           \* scaled sampling rates
  PolicyKeys,      \* the tags that policies read
  PolicyValues,    \* and the texts that they look for
  MaxSteps         \* bounds the way

ASSUME JourneyAssumption == ReplacementsOk(Replacements)

(* What the decoders of the formats give: slices, and structs with ids.    *)
Listed(s) == s \in Seq(Range(s))

HasIds(s) == {"traceId", "spanId"} \subseteq DOMAIN s /\ Listed(s.traceId) /\ Listed(s.spanId)

IsBatch(td) ==
  "spans" \in DOMAIN td /\ Listed(td.spans) /\ \A i \in DOMAIN td.spans : HasIds(td.spans[i])

ASSUME WiresAssumption ==
  \A w \in Wires :
    /\ w.format = "oc" => IsBatch(w.batch)
    /\ w.format = "jaeger" => Listed(w.batch.spans)
    /\ w.format = "v1" => Listed(w.json) /\ Listed(w.thrift)
    /\ w.format = "v2" => Listed(w.batch)

VARIABLES
  wire,   \* what the client has sent
  place,  \* "client", "process", "refused" (an error) or "panicked"
  sent,   \* the batch as it was first received
  data,   \* the batch now
  path    \* what was done to it, in order

journeyVars == <<wire, place, sent, data, path>>

JourneyInit ==
  /\ wire \in Wires
  /\ place = "client" /\ sent = None /\ data = None /\ path = <<>>

-----------------------------------------------------------------------------
(* Reception: tds are the batches that the receiver makes, none if it      *)
(* answers with an error.  One of them is followed on its way.             *)
Receive(tds) ==
  /\ place = "client"
  /\ IF tds = {} THEN place' = "refused" /\ UNCHANGED <<sent, data>>
     ELSE \E td \in tds : place' = "process" /\ sent' = td /\ data' = td
  /\ UNCHANGED <<wire, path>>

ReceiveOC       == wire.format = "oc"     /\ Receive({wire.batch})
ReceiveJaeger   == wire.format = "jaeger" /\ Receive({ThriftBatchToOCProto(wire.batch)})
ReceiveV1JSON   == wire.format = "v1"     /\ Receive(V1JSONBatchToOCProto(wire.json))
ReceiveV1Thrift == wire.format = "v1"     /\ Receive(V1ThriftBatchToOCProto(wire.thrift))
ReceiveV2       == wire.format = "v2"     /\ Receive(V2!v2ToTraceSpans(wire.batch))

-----------------------------------------------------------------------------
Step(name) ==
  /\ place = "process" /\ Len(path) < MaxSteps
  /\ path' = Append(path, name)
  /\ UNCHANGED <<wire, sent>>

Arrive(td) == place' = "process" /\ data' = td
Fail(how)  == place' = how /\ UNCHANGED data

(* The Jaeger exporter over Thrift, to the Jaeger receiver of the next     *)
(* process.  Thrift cannot write a process that is nil.                    *)
ThriftHop ==
  /\ Step("thrift")
  /\ LET batch == OCProtoToJaegerThrift(data)
     IN IF batch = None \/ batch.process = None THEN Fail("refused")
        ELSE Arrive(ThriftBatchToOCProto(batch))

(* The Zipkin exporter, to the Zipkin receiver of the next process.        *)
ZipkinHop ==
  /\ Step("zipkin")
  /\ LET exported == V2!Exported(data.spans)
         zs       == V2!ConsumeTraceData(data, DefaultService)
         tds      == V2!v2ToTraceSpans([i \in DOMAIN zs |-> V2!JSON(zs[i])])
     IN IF \E i \in DOMAIN exported : V2!Panics(exported[i]) THEN Fail("panicked")
        ELSE IF tds = {} \/ \E i \in DOMAIN zs : ~V2!JSONOk(zs[i]) THEN Fail("refused")
        ELSE \E td \in tds : Arrive(td)

Add ==
  /\ Step("add")
  /\ Arrive(MapSpans(data, LAMBDA s : AddAttributes(s, Added, Overwrite)))

Rename ==
  /\ Step("rename")
  /\ Arrive(MapSpans(data, LAMBDA s : ReplaceKeys(s, Replacements)))

Sample ==
  /\ Step("sample")
  /\ \E rate \in Rates : Arrive(SampleByTraceId(data, rate))

JourneyNext ==
  \/ ReceiveOC \/ ReceiveJaeger \/ ReceiveV1JSON \/ ReceiveV1Thrift \/ ReceiveV2
  \/ ThriftHop \/ ZipkinHop \/ Add \/ Rename \/ Sample

JourneySpec == JourneyInit /\ [][JourneyNext]_journeyVars

-----------------------------------------------------------------------------
(* Properties.                                                             *)
Took(step) == \E i \in DOMAIN path : path[i] = step

(* A span whose ids have the right lengths and are not zero.               *)
WellFormed(s) ==
  /\ IsTraceID(s.traceId) /\ s.traceId # <<0, 0>> /\ IsSpanID(s.spanId) /\ s.spanId # <<0>>
  /\ s.parentId # <<>> => IsSpanID(s.parentId)

Parent(s) == IF s.parentId = <<0>> THEN <<>> ELSE s.parentId

Near(t, u) == IF t = None \/ u = None THEN t = u ELSE t - u \in -1000..1000

(* The attribute span.kind, when there is one, takes the place of the kind *)
(* in Jaeger's formats.                                                    *)
KindTag(s) == IF Carries(s, "span.kind") /\ s.attrs["span.kind"] # None THEN s.attrs["span.kind"].v ELSE ""

SameSpan(s, o) ==
  /\ s.traceId = o.traceId /\ s.spanId = o.spanId /\ Parent(s) = Parent(o)
  /\ truncableStringToStr(s.name) = truncableStringToStr(o.name)
  /\ KindTag(o) \in {"", o.kind} => s.kind = o.kind
  /\ Near(s.start, o.start)

(* Wherever a batch of well-formed spans gets, and in whatever formats,    *)
(* each of its spans is one that was sent: with its ids, parent, name and  *)
(* kind, and its start to the microsecond.                                 *)
IdentityKept ==
  place = "process" /\ (\A j \in DOMAIN sent.spans : WellFormed(sent.spans[j])) =>
    \A i \in DOMAIN data.spans : \E j \in DOMAIN sent.spans : SameSpan(data.spans[i], sent.spans[j])

Touched ==
  DOMAIN Added \cup {V2!statusCodeTagKey, V2!statusDescriptionTagKey} \cup
  UNION {{Replacements[i].key, Replacements[i].newKey} : i \in DOMAIN Replacements}

(* An attribute that no processor is configured to change still says the   *)
(* same, whatever type it got; Zipkin drops floating point numbers.        *)
TextKept ==
  place = "process" =>
    \A i \in DOMAIN data.spans, j \in DOMAIN sent.spans :
      LET s == data.spans[i]  o == sent.spans[j]
      IN s.spanId = o.spanId =>
           \A k \in Keys(o.attrs) \ Touched :
             o.attrs[k] # None /\ (o.attrs[k].t = "double" => ~Took("zipkin"))
               => k \in Keys(s.attrs) /\ s.attrs[k].v = o.attrs[k].v

(* A span survives its journey, as what it is and with what it says.       *)
SpansSurvive == IdentityKept /\ TextKept

(* A second hop in the same format changes nothing any more: what a format *)
(* cannot say is lost at once, and nothing drifts.  There are exceptions:  *)
(* the text of an error, of which Zipkin makes the name of a code, and a   *)
(* span without a start, whose end wraps around again at each hop.         *)
Timed(td) == \A i \in DOMAIN td.spans : td.spans[i].start = None => td.spans[i].end = None

ButErrorText(td) ==
  MapSpans(td, LAMBDA s : IF Carries(s, V2!statusCodeTagKey)
                            THEN [s EXCEPT !.attrs = Without(@, V2!statusCodeTagKey)] ELSE s)

SecondHopChangesNothing ==
  [][path # <<>> /\ place' = "process" /\ path' = Append(path, Last(path))
     /\ Last(path) \in {"thrift", "zipkin"} /\ Timed(data) => ButErrorText(data') = ButErrorText(data)]_journeyVars

(* All layers sample a trace alike: of a trace, all its spans are left or  *)
(* none.                                                                   *)
SameIds(s, o) == s.traceId = o.traceId /\ s.spanId = o.spanId

Left(o) == \E i \in DOMAIN data.spans : SameIds(data.spans[i], o)

WholeTraces ==
  place = "process" /\ ~Took("zipkin") =>
    \A i, j \in DOMAIN sent.spans :
      sent.spans[i].traceId = sent.spans[j].traceId => Left(sent.spans[i]) = Left(sent.spans[j])

(* A tail sampling policy decides the same wherever on a way through       *)
(* Jaeger's format it looks at the batch: Zipkin makes text of numbers.    *)
PoliciesSeeTheSame ==
  place = "process" /\ ~Took("zipkin") /\ ~Took("sample") => \A key \in PolicyKeys \ Touched :
    /\ \A n \in 0..4 : NumericEvaluate(data, key, n, 4) = NumericEvaluate(sent, key, n, 4)
    /\ \A v \in PolicyValues : StringEvaluate(data, key, {v}) = StringEvaluate(sent, key, {v})

(* The two Jaeger formats say the same of a span: its ids, name and parent *)
(* (in gRPC one more reference), its start and duration to the microsecond *)
(* if it has them, its links, and the last tag of each key.  Both take it  *)
(* or neither.  The exceptions: a link to span 0 is refused by gRPC alone; *)
(* gRPC has tags of its own, which hide an attribute of the same name, and *)
(* writes the kind beside an attribute span.kind, Thrift only without one. *)
LinksToNoSpan(s) == s.links # None /\ \E i \in DOMAIN s.links : s.links[i].spanId = <<0>>

StateKeys(s) == IF s.state = None THEN {} ELSE {s.state[i].key : i \in DOMAIN s.state}

GRPCOnly(s) ==
  StateKeys(s) \cup {"span.status", "oc.sameprocessasparentspan", "oc.span.childcount"}
  \cup (IF "span.kind" \in Keys(s.attrs) THEN {"span.kind"} ELSE {})

Elements(s) == IF s = None THEN <<>> ELSE s

JaegerFormsAgree ==
  place = "process" => \A i \in DOMAIN data.spans :
    LET s == data.spans[i]
        t == ocSpanToJaegerSpan(s)
        p == ocSpanToJaegerSpanProto(s)
        parent == [high |-> t.high, low |-> t.low, spanId |-> t.parentId, type |-> "CHILD_OF"]
    IN /\ AcceptedByProto(s) = (AcceptedByThrift(s) /\ ~LinksToNoSpan(s))
       /\ AcceptedByThrift(s) =>
            /\ <<t.high, t.low, t.spanId, t.name>> = <<p.high, p.low, p.spanId, p.name>>
            /\ p.references = Elements(t.references) \o (IF s.parentId = <<>> THEN <<>> ELSE << parent >>)
            /\ s.start # None => t.start = p.start \div 1000
            /\ s.start # None /\ s.end # None => t.duration - p.duration \div 1000 \in -1..1
            /\ \A k \in (TagKeys(t.tags) \cup TagKeys(p.tags)) \ GRPCOnly(s) :
                 LastTag(t.tags, {k}) = LastTag(p.tags, {k})

(* The text of a value in JSON tells the type that it has in Thrift, and   *)
(* Thrift's reading of it, which is unsigned but for 64 bits, is the same. *)
TellsType(b) ==
  CASE b.t = "string"         -> ~IsInt(b.v) /\ b.v \notin BoolWords
    [] b.t = "bool"           -> b.v \in BoolWords \ {"0", "1"}
    [] b.t \in {"i16", "i32"} -> IsInt(b.v) /\ b.v # "-1"
    [] b.t = "i64"            -> IsInt(b.v)
    [] OTHER                  -> FALSE

Untold(z) == {OCKey(z.bins[i].key) : i \in {j \in DOMAIN z.bins : ~TellsType(z.bins[j])}}

Host(b) == IF b.ep = None THEN "nil" ELSE b.ep.service

(* The host that is last, which counts in Thrift, has a name if one has.   *)
HostsNamed(z) ==
  \A i, j \in DOMAIN z.bins : i < j /\ Host(z.bins[i]) \notin {"nil", ""} => Host(z.bins[j]) # ""

HasZeroId(z) ==
  z.id = <<0>> \/ z.parentId = <<0>> \/ \A i \in DOMAIN z.traceId : z.traceId[i] = 0

(* The ports of a batch as signed numbers of 16 bits.                      *)
Signed(ep) ==
  IF ep = None \/ ep.port < 2^15 THEN ep ELSE [ep EXCEPT !.port = @ - 2^16]

WithSignedPorts(zs) ==
  [i \in DOMAIN zs |-> [zs[i] EXCEPT !.annotations =
     [j \in DOMAIN @ |-> [@[j] EXCEPT !.ep = Signed(@)]]]]

(* What both forms of a version 1 batch must say of it.                    *)
SaidByBoth(td, json, thrift) ==
  LET named  == \A i \in DOMAIN json : HostsNamed(json[i])
      untold == UNION {Untold(json[i]) : i \in DOMAIN json}
      timed  == \A i \in DOMAIN thrift : thrift[i].time # 0
      Span(s) == [s EXCEPT !.attrs = IF @ = None THEN None ELSE Restrict(@, DOMAIN @ \ untold),
                           !.start = IF timed THEN @ ELSE None,
                           !.end   = IF timed THEN @ ELSE None]
  IN [node  |-> IF named THEN td.node ELSE [td.node EXCEPT !.service = ""],
      spans |-> [i \in DOMAIN td.spans |-> Span(td.spans[i])]]

(* A batch of Zipkin's version 1 becomes the same whether it is sent as    *)
(* JSON or as Thrift.  The exceptions: a port of 2^15 or more loses 2^16   *)
(* in Thrift; an id that is zero is refused in JSON only; the values whose *)
(* text does not tell their type; the service when the last host of the    *)
(* binary annotations has no name but one before it has; the times of a    *)
(* span whose timestamp is 0 in Thrift, which is none in JSON.             *)
V1FormsAgree ==
  wire.format = "v1" =>
    LET json   == V1JSONBatchToOCProto(WithSignedPorts(wire.json))
        thrift == V1ThriftBatchToOCProto(wire.thrift)
    IN IF \E i \in DOMAIN wire.json : HasZeroId(wire.json[i]) THEN json = {} /\ thrift # {}
       ELSE {SaidByBoth(td, wire.json, wire.thrift) : td \in json}
              = {SaidByBoth(td, wire.json, wire.thrift) : td \in thrift}

(* But for the exceptions above, what a span says does not depend on which *)
(* of the two forms of its format it is sent in.                           *)
FormsAgree == JaegerFormsAgree /\ V1FormsAgree

=============================================================================
