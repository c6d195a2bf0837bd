-------------------------- MODULE JaegerTranslation --------------------------
(***************************************************************************)
(* translator/trace/jaeger: spans of OpenCensus as Jaeger's, for its two   *)
(* transports (Thrift and gRPC), and back from Thrift.                     *)
(*                                                                         *)
(* A Jaeger tag is [key, t, v]: its type and the word it holds.  A Jaeger  *)
(* span has numbers for ids, microseconds for times, and no status.        *)
(***************************************************************************)
EXTENDS OCSpan

Tag(key, t, v) == [key |-> key, t |-> t, v |-> v]

(* The getters of thrift give a zero value for a tag of another type.      *)
VStr(tag)  == IF tag # None /\ tag.t = "str" THEN tag.v ELSE ""
VLong(tag) == IF tag.t = "int" THEN IntOf(tag.v) ELSE 0

(* Bug: numbers become text.                                               *)
BugAllText(tag) == Attr("str", tag.v)

(* Binary values become text; those of a type unknown, a message.          *)
TagValue(tag) ==
  IF tag.t = "binary" THEN Attr("str", "base64 " \o tag.v)
  ELSE IF tag.t = "other" THEN Attr("str", "<Unknown Jaeger TagType>")
  ELSE Attr(tag.t, tag.v)

(* The last tag of a key is the one that counts.                           *)
LastTag(tags, keys) ==
  LET at == {i \in DOMAIN tags : tags[i].key \in keys} IN IF at = {} THEN None ELSE tags[Max(at)]

TagKeys(tags) == {tags[i].key : i \in DOMAIN tags}

-----------------------------------------------------------------------------
(* Jaeger's Thrift to OpenCensus.                                          *)
jProcessToOCProtoNode(p) ==
  IF p = None THEN None ELSE
  LET special == {"hostname", "jaeger.version"}
      version == LastTag(p.tags, {"jaeger.version"})
  IN [BareNode(p.service) EXCEPT
        !.host = VStr(LastTag(p.tags, {"hostname"})),
        !.exporter = IF version = None THEN "" ELSE "Jaeger-" \o VStr(version),
        !.attrs = [k \in TagKeys(p.tags) \ special |-> TagValue(LastTag(p.tags, {k})).v]]

(* The tags of a span or a log: what has a place of its own is kept among  *)
(* the attributes as well.                                                 *)
jtagsToAttributes(tags) ==
  LET kinds == SelectSeq(tags, LAMBDA tag : tag.key = "span.kind" /\ VStr(tag) \in {"client", "server"})
      code  == LastTag(tags, {"http.status_code", "status.code"})
      text  == VStr(LastTag(tags, {"http.status_message", "status.message"}))
  IN [message |-> VStr(LastTag(tags, {"message"})),
      kind    |-> IF kinds = <<>> THEN "unspecified" ELSE VStr(Last(kinds)),
      status  |-> IF code = None /\ text = "" THEN None
                  ELSE [code |-> IF code = None THEN 0 ELSE VLong(code), message |-> text],
      attrs   |-> IF tags = <<>> THEN None
                  ELSE [k \in TagKeys(tags) |-> TagValue(LastTag(tags, {k}))]]

epochMicrosecondsAsTime(us) == IF us = 0 THEN None ELSE us * 1000

(* A log without fields becomes an event whose annotation is nil.          *)
jLogToEvent(log) ==
  LET f == jtagsToAttributes(log.fields)
  IN [time |-> epochMicrosecondsAsTime(log.time), type |-> "annotation",
      value |-> IF f.attrs = None THEN None
                ELSE [desc |-> strToTruncatableString(f.message), attrs |-> f.attrs]]

jReferenceToLink(ref) ==
  [traceId |-> UInt64ToByteTraceID(ref.high, ref.low), spanId |-> UInt64ToByteSpanID(ref.spanId),
   type |-> IF ref.type = "CHILD_OF" THEN "parent" ELSE "unspecified"]

MapOrNil(s, Op(_)) == IF s = None THEN None ELSE [i \in DOMAIN s |-> Op(s[i])]

jLogsToOCProtoTimeEvents(logs)   == MapOrNil(logs, jLogToEvent)
jReferencesToOCProtoLinks(jrefs) == MapOrNil(jrefs, jReferenceToLink)

(* Bug: the duration is taken for nanoseconds.                             *)
BugDuration(jspan) ==
  LET start == epochMicrosecondsAsTime(jspan.start)
      t     == jtagsToAttributes(jspan.tags)
  IN [BareSpan(UInt64ToByteTraceID(jspan.high, jspan.low), UInt64ToByteSpanID(jspan.spanId),
               UInt64ToByteSpanID(jspan.parentId)) EXCEPT
        !.name = strToTruncatableString(jspan.name), !.kind = t.kind, !.status = t.status,
        !.attrs = t.attrs, !.start = start, !.end = TimeAdd(start, jspan.duration)]

jSpanToOCProtoSpan(jspan) ==
  LET start == epochMicrosecondsAsTime(jspan.start)
      t     == jtagsToAttributes(jspan.tags)
  IN [BareSpan(UInt64ToByteTraceID(jspan.high, jspan.low), UInt64ToByteSpanID(jspan.spanId),
               UInt64ToByteSpanID(jspan.parentId)) EXCEPT
        !.name   = strToTruncatableString(jspan.name),
        !.kind   = t.kind, !.status = t.status, !.attrs = t.attrs,
        !.start  = start,  !.end = TimeAdd(start, jspan.duration * 1000),
        !.events = jLogsToOCProtoTimeEvents(jspan.logs),
        !.links  = jReferencesToOCProtoLinks(jspan.references)]

(* A span that says nothing at all is left out.  (So is a nil one, which   *)
(* no decoder makes.)                                                      *)
blankJaegerSpan ==
  [high |-> 0, low |-> 0, spanId |-> 0, parentId |-> 0, name |-> "", references |-> None,
   start |-> 0, duration |-> 0, tags |-> <<>>, logs |-> None]

jSpansToOCProtoSpans(jspans) ==
  LET kept == Only(jspans, Range(jspans) \ {blankJaegerSpan})
  IN [i \in DOMAIN kept |-> jSpanToOCProtoSpan(kept[i])]

ThriftBatchToOCProto(batch) ==
  [node  |-> jProcessToOCProtoNode(batch.process),
   spans |-> jSpansToOCProtoSpans(batch.spans)]

-----------------------------------------------------------------------------
(* OpenCensus to Jaeger's Thrift.                                          *)
ocNodeToJaegerProcess(node) ==
  IF node = None THEN [service |-> "unknown-service-name", tags |-> <<>>] ELSE
  LET own  == InSomeOrder(DOMAIN node.attrs, LAMBDA k : Tag(k, "str", node.attrs[k]))
      more == << Tag("hostname", "str", node.host), Tag("pid", "int", node.pid),
                 Tag("start.time", "str", node.started),
                 Tag("opencensus.language", "str", node.language),
                 Tag("opencensus.exporterversion", "str", node.exporter),
                 Tag("opencensus.corelibversion", "str", node.core) >>
      tags == own \o SelectSeq(more, LAMBDA tag : tag.v # "")
  IN IF node.service = "" /\ tags = <<>> THEN None ELSE [service |-> node.service, tags |-> tags]

(* Bug: the case of booleans is missing.                                   *)
BugNoBools(attrs) ==
  InSomeOrder({k \in Keys(attrs) : attrs[k] # None /\ attrs[k].t # "bool"},
              LAMBDA k : Tag(k, attrs[k].t, attrs[k].v))

(* Attributes without a value are skipped.                                 *)
ocSpanAttributesToJaegerTags(attrs) ==
  InSomeOrder({k \in Keys(attrs) : attrs[k] # None}, LAMBDA k :
    IF attrs[k].t \in {"str", "int", "bool", "double"} THEN Tag(k, attrs[k].t, attrs[k].v)
    ELSE Tag(k, "str", "<Unknown OpenCensus Attribute>"))

(* Bug: the case of servers is missing.                                    *)
BugClientsOnly(tags, kind) ==
  IF kind = "client" THEN Append(tags, Tag("span.kind", "str", kind)) ELSE tags

appendJaegerTagFromOCSpanKind(tags, kind) ==
  IF kind \in {"client", "server"} THEN Append(tags, Tag("span.kind", "str", kind)) ELSE tags

ocAnnotationToJagerTags(a) ==
  IF a = None THEN <<>>
  ELSE ocSpanAttributesToJaegerTags(a.attrs) \o
       (IF truncableStringToStr(a.desc) = "" THEN <<>> ELSE << Tag("description", "str", a.desc) >>)

ocMessageEventToJaegerTags(m) ==
  IF m = None THEN <<>>
  ELSE << Tag("message.id", "int", m.id), Tag("message.type", "str", m.type) >> \o
       (IF m.csize = "0" /\ m.usize = "0" THEN <<>>
        ELSE << Tag("message.compressed_size", "int", m.csize),
                Tag("message.uncompressed_size", "int", m.usize) >>)

UnknownEvent == << Tag("oc.timeevent.unknown.type", "str", "An unknown OpenCensus TimeEvent type") >>

timestampToEpochMicroseconds(t) == IF t = None THEN 0 ELSE t \div 1000

ocTimeEventToJaegerLog(e) ==
  [time   |-> timestampToEpochMicroseconds(e.time),
   fields |-> CASE e.type = "annotation" -> ocAnnotationToJagerTags(e.value)
                [] e.type = "message"    -> ocMessageEventToJaegerTags(e.value)
                [] OTHER                 -> UnknownEvent]

ocTimeEventsToJaegerLogs(events) == MapOrNil(events, ocTimeEventToJaegerLog)

LinkOk(link) == IsTraceID(link.traceId) /\ IsSpanID(link.spanId)

ocLinkToJaegerReference(link) ==
  [high |-> link.traceId[1], low |-> link.traceId[2], spanId |-> link.spanId[1],
   type |-> IF link.type = "parent" THEN "CHILD_OF" ELSE "FOLLOWS_FROM"]

ocLinksToJaegerReferences(links) == MapOrNil(links, ocLinkToJaegerReference)

(* The spans for which the conversion returns no error; one error refuses  *)
(* the whole batch.                                                        *)
LinksOk(links) == links = None \/ \A i \in DOMAIN links : LinkOk(links[i])

AcceptedByThrift(s) ==
  /\ IsTraceID(s.traceId) /\ s.traceId # <<0, 0>>
  /\ LinksOk(s.links)
  /\ IsSpanID(s.spanId) /\ s.spanId # <<0>>
  /\ s.parentId # <<>> => IsSpanID(s.parentId)

ocSpanToJaegerSpan(s) ==
  LET start == timestampToEpochMicroseconds(s.start)
      tags  == ocSpanAttributesToJaegerTags(s.attrs)
  IN [high |-> s.traceId[1], low |-> s.traceId[2], spanId |-> s.spanId[1],
      parentId |-> BytesToUInt64SpanID(s.parentId), name |-> truncableStringToStr(s.name),
      references |-> ocLinksToJaegerReferences(s.links),
      start |-> start, duration |-> timestampToEpochMicroseconds(s.end) - start,
      tags  |-> IF "span.kind" \in Keys(s.attrs) THEN tags
                ELSE appendJaegerTagFromOCSpanKind(tags, s.kind),
      logs  |-> ocTimeEventsToJaegerLogs(s.events)]

OCProtoToJaegerThrift(td) ==
  IF \E i \in DOMAIN td.spans : ~AcceptedByThrift(td.spans[i]) THEN None
  ELSE [process |-> ocNodeToJaegerProcess(td.node),
        spans   |-> [i \in DOMAIN td.spans |-> ocSpanToJaegerSpan(td.spans[i])]]

-----------------------------------------------------------------------------
(* OpenCensus to Jaeger's gRPC: the same code for another type of struct,  *)
(* but for what follows.  It has references for a parent, and times.       *)
ocNodeToJaegerProcessProto(node)         == ocNodeToJaegerProcess(node)
ocSpanAttributesToJaegerTagsProto(attrs) == ocSpanAttributesToJaegerTags(attrs)
appendJaegerTagFromOCSpanKindProto(tags, kind) == appendJaegerTagFromOCSpanKind(tags, kind)

(* The description has another key than in Thrift, and sizes are always    *)
(* there.                                                                  *)
ocAnnotationToJagerTagsProto(a) ==
  IF a = None THEN <<>>
  ELSE ocSpanAttributesToJaegerTagsProto(a.attrs) \o
       (IF truncableStringToStr(a.desc) = "" THEN <<>>
        ELSE << Tag("oc.timeevent.annotation.description", "str", a.desc) >>)

ocMessageEventToJaegerTagsProto(m) ==
  IF m = None THEN <<>>
  ELSE << Tag("oc.timeevent.messageevent.type", "str", m.type),
          Tag("oc.timeevent.messageevent.id", "int", m.id),
          Tag("oc.timeevent.messageevent.usize", "int", m.usize),
          Tag("oc.timeevent.messageevent.csize", "int", m.csize) >>

ocTimeEventToJaegerLogProto(e) ==
  [time   |-> e.time,
   fields |-> CASE e.type = "annotation" -> ocAnnotationToJagerTagsProto(e.value)
                [] e.type = "message"    -> ocMessageEventToJaegerTagsProto(e.value)
                [] OTHER                 -> UnknownEvent]

ocTimeEventsToJaegerLogsProto(events) == MapOrNil(events, ocTimeEventToJaegerLogProto)

(* The tracestate, the status (code and message in one tag) and two more.  *)
MoreTags(s) ==
  (IF s.state = None THEN <<>> ELSE [i \in DOMAIN s.state |-> Tag(s.state[i].key, "str", s.state[i].v)])
  \o appendJaegerTagFromOCSpanKindProto(<<>>, s.kind)
  \o (IF s.status = None THEN <<>>
      ELSE << [key |-> "span.status", t |-> "str", v |-> s.status.message, code |-> s.status.code] >>)
  \o (IF s.same = None THEN <<>> ELSE << Tag("oc.sameprocessasparentspan", "bool", s.same) >>)
  \o (IF s.children = None THEN <<>> ELSE << Tag("oc.span.childcount", "int", s.children) >>)

(* The error of the span id is ignored: it is then zero.  A link to span 0 *)
(* is refused here, in Thrift it is not.                                   *)
AcceptedByProto(s) ==
  /\ IsTraceID(s.traceId) /\ s.traceId # <<0, 0>>
  /\ BytesToUInt64SpanID(s.spanId) # 0
  /\ s.links = None \/ \A i \in DOMAIN s.links : LinkOk(s.links[i]) /\ s.links[i].spanId # <<0>>
  /\ s.parentId # <<>> => IsSpanID(s.parentId)

(* The zero time of a nil timestamp is in the year 1: Sub, of another      *)
(* time, gives the largest duration there is.                              *)
MaxDuration == 9000000
Sub(end, start) ==
  IF end = start THEN 0 ELSE IF end = None THEN -MaxDuration
  ELSE IF start = None THEN MaxDuration ELSE end - start

ocLinksToJaegerReferencesProto(links) ==
  IF links = None THEN <<>> ELSE ocLinksToJaegerReferences(links)

ocSpanToJaegerSpanProto(s) ==
  [high |-> s.traceId[1], low |-> s.traceId[2], spanId |-> s.spanId[1],
   name |-> truncableStringToStr(s.name),
   references |-> ocLinksToJaegerReferencesProto(s.links) \o
     (IF s.parentId = <<>> THEN <<>>
      ELSE << [high |-> s.traceId[1], low |-> s.traceId[2], spanId |-> s.parentId[1],
               type |-> "CHILD_OF"] >>),
   start |-> s.start, duration |-> Sub(s.end, s.start),
   tags  |-> ocSpanAttributesToJaegerTagsProto(s.attrs) \o MoreTags(s),
   logs  |-> ocTimeEventsToJaegerLogsProto(s.events)]

OCProtoToJaegerProto(td) ==
  IF \E i \in DOMAIN td.spans : ~AcceptedByProto(td.spans[i]) THEN None
  ELSE [process |-> ocNodeToJaegerProcessProto(td.node),
        spans   |-> [i \in DOMAIN td.spans |-> ocSpanToJaegerSpanProto(td.spans[i])]]

=============================================================================
