------------------------------ MODULE ZipkinV2 ------------------------------
(***************************************************************************)
(* Version 2 of Zipkin: the exporter (exporter/zipkinexporter) makes of a  *)
(* span first the SpanData of OpenCensus' library (translator/trace/       *)
(* spandata), then a Zipkin span, which the library sends as JSON; the     *)
(* receiver (receiver/zipkinreceiver) reads it.                            *)
(*                                                                         *)
(* A Zipkin span has numbers for ids, text for the values of its tags, and *)
(* its status among them, under the keys that follow.                      *)
(***************************************************************************)
EXTENDS OCSpan

statusCodeTagKey        == "error"
statusDescriptionTagKey == "opencensus.status_description"

canonicalCodes ==
  << "OK", "CANCELLED", "UNKNOWN", "INVALID_ARGUMENT", "DEADLINE_EXCEEDED", "NOT_FOUND",
     "ALREADY_EXISTS", "PERMISSION_DENIED", "RESOURCE_EXHAUSTED", "FAILED_PRECONDITION",
     "ABORTED", "OUT_OF_RANGE", "UNIMPLEMENTED", "INTERNAL", "UNAVAILABLE", "DATA_LOSS",
     "UNAUTHENTICATED" >>

canonicalCodeString(code) ==
  IF code + 1 \in DOMAIN canonicalCodes THEN canonicalCodes[code + 1]
  ELSE "error code " \o ToString(code)

(* The code that a text names; other texts, and none, are UNKNOWN.         *)
canonicalCodesMap(text) ==
  IF text \in Range(canonicalCodes) THEN (CHOOSE i \in DOMAIN canonicalCodes : canonicalCodes[i] = text) - 1
  ELSE 2

-----------------------------------------------------------------------------
(* OpenCensus to SpanData.  Ids are copied into arrays of 16 and 8 bytes:  *)
(* what is missing is zero, what is too much is left out.                  *)
CopyTraceID(bytes) == [i \in 1..2 |-> IF i \in DOMAIN bytes THEN bytes[i] ELSE 0]
CopySpanID(bytes)  == IF bytes = <<>> THEN 0 ELSE bytes[1]

protoAttributesToOCAttributes(attrs) ==
  LET kept == {k \in Keys(attrs) : attrs[k] # None /\ attrs[k].t \in {"bool", "int", "str"}}
  IN [k \in kept |-> attrs[k]]

protoStatusToOCStatus(s) == IF s = None THEN [code |-> 0, message |-> ""] ELSE s

EventsOf(events, type) ==
  IF events = None THEN <<>> ELSE SelectSeq(events, LAMBDA e : e.type = type)

(* The annotation of an event is used without a look whether there is one. *)
protoTimeEventsToOCAnnotations(events) ==
  LET of == EventsOf(events, "annotation")
  IN [i \in DOMAIN of |-> [time |-> of[i].time, message |-> truncableStringToStr(of[i].value.desc)]]

protoTimeEventsToOCMessageEvents(events) ==
  LET of == EventsOf(events, "message")
  IN [i \in DOMAIN of |-> [time |-> of[i].time,
        type |-> IF of[i].value.type \in {"SENT", "RECEIVED"} THEN of[i].value.type ELSE "unspecified"]]

(* The conversion panics on an event with a nil annotation or message.     *)
Panics(span) ==
  \E type \in {"annotation", "message"} :
    \E i \in DOMAIN EventsOf(span.events, type) : EventsOf(span.events, type)[i].value = None

(* tracestate.New refuses what it finds no valid key in, or one twice.     *)
StateOk(state) ==
  state = None \/ /\ \A i \in DOMAIN state : state[i].key # ""
                  /\ \A i, j \in DOMAIN state : state[i].key = state[j].key => i = j

ProtoSpanToOCSpanData(span) ==
  [traceId |-> CopyTraceID(span.traceId), spanId |-> CopySpanID(span.spanId),
   parentId |-> CopySpanID(span.parentId), name |-> truncableStringToStr(span.name),
   start |-> span.start, end |-> span.end, kind |-> span.kind,
   attrs |-> protoAttributesToOCAttributes(span.attrs),
   status |-> protoStatusToOCStatus(span.status),
   annotations |-> protoTimeEventsToOCAnnotations(span.events),
   messages |-> protoTimeEventsToOCMessageEvents(span.events)]

-----------------------------------------------------------------------------
(* SpanData and node to a Zipkin span.                                     *)
NodeAttr(node, key) == IF node # None /\ key \in DOMAIN node.attrs THEN node.attrs[key] ELSE ""

Prefix(local) == IF local THEN "" ELSE "zipkin.remoteEndpoint."

PortOf(word) == IF IsInt(word) /\ word # "-1" THEN IntOf(word) ELSE 0

zipkinEndpointFromNode(node, service, local) ==
  LET ipv4 == NodeAttr(node, Prefix(local) \o "ipv4")
      ipv6 == IF ipv4 # "" THEN "" ELSE NodeAttr(node, Prefix(local) \o "ipv6")
      port == PortOf(NodeAttr(node, Prefix(local) \o "port"))
  IN IF node = None \/ (service = "" /\ ipv4 = "" /\ ipv6 = "" /\ port = 0) THEN None
     ELSE [service |-> service, ipv4 |-> ipv4, ipv6 |-> ipv6, port |-> port]

serviceNameOrDefault(node, default) ==
  IF node = None \/ node.service = "" THEN default ELSE node.service

StatusTags(status) ==
  (IF status.code = 0 THEN <<>> ELSE statusCodeTagKey :> canonicalCodeString(status.code))
  @@ (IF status.message = "" THEN <<>> ELSE statusDescriptionTagKey :> status.message)

(* Message events follow the annotations, whatever their times.            *)
MessageText(type) == CASE type = "SENT" -> "SENT" [] type = "RECEIVED" -> "RECV" [] OTHER -> "<?>"

zipkinSpan(node, default, s) ==
  [high |-> s.traceId[1], low |-> s.traceId[2], id |-> s.spanId,
   parent |-> IF s.parentId = 0 THEN None ELSE s.parentId,
   kind |-> s.kind, name |-> s.name, time |-> s.start,
   duration |-> IF s.start # None /\ s.end # None THEN s.end - s.start ELSE 0,
   local  |-> zipkinEndpointFromNode(node, serviceNameOrDefault(node, default), TRUE),
   remote |-> zipkinEndpointFromNode(node, NodeAttr(node, "zipkin.remoteEndpoint.serviceName"), FALSE),
   tags   |-> StatusTags(s.status) @@ [k \in DOMAIN s.attrs |-> s.attrs[k].v],
   annotations |-> [i \in DOMAIN s.annotations |-> [time |-> s.annotations[i].time, v |-> s.annotations[i].message]]
                   \o [i \in DOMAIN s.messages |-> [time |-> s.messages[i].time, v |-> MessageText(s.messages[i].type)]]]

(* The spans sent before the first that cannot be converted; the rest of   *)
(* the batch is not looked at.                                             *)
Exported(spans) ==
  LET bad == {i \in DOMAIN spans : ~StateOk(spans[i].state)}
  IN IF bad = {} THEN spans ELSE SubSeq(spans, 1, Min(bad) - 1)

ConsumeTraceData(td, default) ==
  LET spans == Exported(td.spans)
  IN [i \in DOMAIN spans |-> zipkinSpan(td.node, default, ProtoSpanToOCSpanData(spans[i]))]

(* The library's JSON: times to the microsecond, at least one for a span   *)
(* that took any, and no span with a negative duration.                    *)
Round(t) == IF t = None THEN None ELSE ((t + 500) \div 1000) * 1000

JSON(z) ==
  [z EXCEPT !.time = Round(@),
            !.duration = IF @ = 0 THEN 0 ELSE Max({Round(@), 1000}),
            !.annotations = [i \in DOMAIN @ |-> [@[i] EXCEPT !.time = Round(@)]]]

JSONOk(z) == z.duration >= 0 /\ (z.time # None => z.time > 0)

-----------------------------------------------------------------------------
(* Zipkin to OpenCensus.                                                   *)
zipkinEndpointIntoAttributes(ep, local) ==
  LET p == Prefix(local)
      all == ((p \o "ipv4") :> ep.ipv4) @@ ((p \o "ipv6") :> ep.ipv6)
             @@ ((p \o "port") :> IF ep.port = 0 THEN "" ELSE ToString(ep.port))
             @@ ((p \o "serviceName") :> ep.service)
  IN [k \in {k \in DOMAIN all : all[k] # ""} |-> all[k]]

nodeFromZipkinEndpoints(z) ==
  IF z.local = None /\ z.remote = None THEN None
  ELSE [BareNode(IF z.local = None THEN "" ELSE z.local.service) EXCEPT
          !.attrs = (IF z.remote = None THEN <<>> ELSE zipkinEndpointIntoAttributes(z.remote, FALSE))
                    @@ (IF z.local = None THEN <<>> ELSE zipkinEndpointIntoAttributes(z.local, TRUE))]

TagOf(z, key) == IF key \in DOMAIN z.tags THEN z.tags[key] ELSE ""

extractProtoStatus(z) ==
  LET code == TagOf(z, statusCodeTagKey)
      text == TagOf(z, statusDescriptionTagKey)
  IN IF code = "" /\ text = "" THEN None ELSE [code |-> canonicalCodesMap(code), message |-> text]

(* Tags that name the status are kept as attributes too.                   *)
zipkinTagsToTraceAttributes(tags) ==
  IF DOMAIN tags = {} THEN None
  ELSE [k \in DOMAIN tags |-> Attr(IF tags[k] \in {"true", "false"} THEN "bool" ELSE "str", tags[k])]

zipkinAnnotationsToProtoTimeEvents(annotations) ==
  LET kept == SelectSeq(annotations, LAMBDA a : a.time # None \/ a.v # "")
  IN IF kept = <<>> THEN None
     ELSE [i \in DOMAIN kept |-> [time |-> kept[i].time, type |-> "annotation",
                                  value |-> [desc |-> kept[i].v, attrs |-> None]]]

(* The spans that are converted; the others are skipped.                   *)
ZipkinOk(z) == (z.high # 0 \/ z.low # 0) /\ z.id # 0 /\ z.parent # 0

zipkinSpanToTraceSpan(z) ==
  [BareSpan(UInt64ToByteTraceID(z.high, z.low), UInt64ToByteSpanID(z.id),
            IF z.parent = None THEN <<>> ELSE UInt64ToByteSpanID(z.parent)) EXCEPT
     !.name = z.name, !.kind = z.kind, !.status = extractProtoStatus(z),
     !.start = z.time, !.end = TimeAdd(z.time, z.duration),
     !.attrs = zipkinTagsToTraceAttributes(z.tags),
     !.events = zipkinAnnotationsToProtoTimeEvents(z.annotations)]

v2ToTraceSpans(zs) ==
  LET good == Only(zs, {z \in Range(zs) : ZipkinOk(z)})
  IN {[node |-> n, spans |-> LET of == Only(good, {z \in Range(good) : nodeFromZipkinEndpoints(z) = n})
                             IN [i \in DOMAIN of |-> zipkinSpanToTraceSpan(of[i])]] :
      n \in {nodeFromZipkinEndpoints(good[i]) : i \in DOMAIN good}}

=============================================================================
