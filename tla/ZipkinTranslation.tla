-------------------------- MODULE ZipkinTranslation --------------------------
(***************************************************************************)
(* Spans of Zipkin to OpenCensus: version 1 as JSON and as Thrift          *)
(* (translator/trace/zipkin) and version 2 (receiver/zipkinreceiver), and  *)
(* back to version 2 (translator/trace/spandata, exporter/zipkinexporter). *)
(*                                                                         *)
(* Hex text is the sequence of the 64-bit numbers that it writes, one for  *)
(* 16 digits and two for 32; three stand for text of another length, or    *)
(* that is not hex.                                                        *)
(***************************************************************************)
EXTENDS OCSpan

(* The words that ParseInt and ParseBool accept.                           *)
BoolWords == {"1", "t", "T", "TRUE", "true", "True", "0", "f", "F", "FALSE", "false", "False"}
BoolWord(word) == IF word \in {"1", "t", "T", "TRUE", "true", "True"} THEN "true" ELSE "false"

unknownServiceName == "unknown-service"

Endpoint(service, ipv4, ipv6, port) ==
  [service |-> service, ipv4 |-> ipv4, ipv6 |-> ipv6, port |-> port]

-----------------------------------------------------------------------------
(* Version 1: annotations have a time; cs, cr, ss and sr also tell the     *)
(* kind of the span and the endpoint it was at.                            *)
epochMicrosecondsToTimestamp(us) == IF us <= 0 THEN None ELSE us * 1000

Special == {"cs", "cr", "ss", "sr"}

NameOf(ep) == IF ep # None /\ ep.service # "" THEN ep.service ELSE unknownServiceName

parseZipkinV1Annotations(annotations) ==
  LET times == {annotations[i].time : i \in DOMAIN annotations}
      marks == SelectSeq(annotations, LAMBDA a : a.v \in Special)
      named == SelectSeq(marks, LAMBDA a : NameOf(a.ep) # unknownServiceName)
      event(a) == [time |-> epochMicrosecondsToTimestamp(a.time), type |-> "annotation",
                   value |-> [desc |-> None, attrs |-> (a.v :> Attr("str", NameOf(a.ep)))]]
  IN [kind  |-> IF marks = <<>> THEN "unspecified"
                ELSE IF marks[1].v \in {"cs", "cr"} THEN "client" ELSE "server",
      ep    |-> IF named = <<>> THEN Endpoint(unknownServiceName, "", "", 0) ELSE named[1].ep,
      early |-> IF times = {} THEN None ELSE epochMicrosecondsToTimestamp(Min(times)),
      late  |-> IF times = {} THEN None ELSE epochMicrosecondsToTimestamp(Max(times)),
      events |-> IF annotations = <<>> THEN None
                 ELSE [i \in DOMAIN annotations |-> event(annotations[i])]]

(* The last binary annotation of a key counts.  The service is that of the *)
(* last that has one, else that of the component.                          *)
OCKey(key) == IF key = "lc" THEN "component" ELSE key

LastOf(s, P(_)) ==
  LET at == {i \in DOMAIN s : P(s[i])} IN IF at = {} THEN None ELSE s[Max(at)]

AttributesOf(bins, values) ==
  IF bins = <<>> THEN None
  ELSE [k \in {OCKey(bins[i].key) : i \in DOMAIN bins} |->
          values[Max({i \in DOMAIN bins : OCKey(bins[i].key) = k})]]

ComponentOf(bins) ==
  LET lc == LastOf(bins, LAMBDA b : b.key = "lc") IN IF lc = None THEN "" ELSE lc.v

(* JSON: integers and booleans are recognised in the text.                 *)
JSONValue(b) ==
  IF IsInt(b.v) THEN Attr("int", b.v)
  ELSE IF b.v \in BoolWords THEN Attr("bool", BoolWord(b.v)) ELSE Attr("str", b.v)

zipkinV1BinAnnotationsToOCAttributes(bins) ==
  LET at == LastOf(bins, LAMBDA b : b.ep # None /\ b.ep.service # "")
  IN [attrs |-> AttributesOf(bins, [i \in DOMAIN bins |-> JSONValue(bins[i])]),
      fallback |-> IF at # None THEN at.ep.service ELSE ComponentOf(bins)]

(* Thrift: values have a type.  16 and 32 bits are read as unsigned ones,  *)
(* and a value too short for its type becomes an error text.               *)
Integer(b) ==
  IF b.v = "-1" THEN CASE b.t = "i16" -> "65535" [] b.t = "i32" -> "4294967295" [] b.t = "i64" -> "-1"
  ELSE b.v

ThriftValue(b) ==
  CASE b.t = "bool"   -> Attr("bool", BoolWord(b.v))
    [] b.t = "string" -> Attr("str", b.v)
    [] b.t = "bytes"  -> Attr("str", "base64 " \o b.v)
    [] b.t \in {"double", "i16", "i32", "i64"} ->
         IF b.v = "short" THEN Attr("str", "<not enough bytes representing the number>")
         ELSE IF b.t = "double" THEN Attr("double", b.v) ELSE Attr("int", Integer(b))
    [] OTHER          -> Attr("str", "<unknown zipkin v1 binary annotation type>")

ThriftValues(bins) == [i \in DOMAIN bins |-> ThriftValue(bins[i])]

(* Bug: the service of a host is not used.                                 *)
BugNoHost(bins) == [attrs |-> AttributesOf(bins, ThriftValues(bins)), fallback |-> ComponentOf(bins)]

(* The last host counts here, even one without a name.                     *)
zipkinV1ThriftBinAnnotationsToOCAttributes(bins) ==
  LET at == LastOf(bins, LAMBDA b : b.ep # None)
  IN [attrs |-> AttributesOf(bins, ThriftValues(bins)),
      fallback |-> IF at # None /\ at.ep.service # "" THEN at.ep.service ELSE ComponentOf(bins)]

(* The span of either form, given its ids: its times are those of its      *)
(* annotations when it has none itself.                                    *)
V1Span(z, traceId, spanId, parentId, hasTime, bins) ==
  LET parsed == parseZipkinV1Annotations(z.annotations)
      ep == IF parsed.ep.service = unknownServiceName /\ bins.fallback # ""
              THEN [parsed.ep EXCEPT !.service = bins.fallback] ELSE parsed.ep
  IN [span |-> [BareSpan(traceId, spanId, parentId) EXCEPT
                  !.name   = strToTruncatableString(z.name),
                  !.kind   = parsed.kind, !.events = parsed.events, !.attrs = bins.attrs,
                  !.start  = IF hasTime THEN epochMicrosecondsToTimestamp(z.time) ELSE parsed.early,
                  !.end    = IF hasTime THEN epochMicrosecondsToTimestamp(z.time + z.duration)
                             ELSE parsed.late],
      ep   |-> ep]

HexTraceIdOk(hex) == Len(hex) \in {1, 2} /\ \E i \in DOMAIN hex : hex[i] # 0
HexIdOk(hex)      == Len(hex) = 1 /\ hex # <<0>>

hexTraceIDToOCTraceID(hex) == UInt64ToByteTraceID(IF Len(hex) = 2 THEN hex[1] ELSE 0, Last(hex))
hexIDToOCID(hex)           == UInt64ToByteSpanID(hex[1])

JSONSpanOk(z) ==
  HexTraceIdOk(z.traceId) /\ HexIdOk(z.id) /\ (z.parentId # <<>> => HexIdOk(z.parentId))

zipkinV1ToOCSpan(z) ==
  V1Span(z, hexTraceIDToOCTraceID(z.traceId), hexIDToOCID(z.id),
         IF z.parentId = <<>> THEN <<>> ELSE hexIDToOCID(z.parentId), z.time # 0,
         zipkinV1BinAnnotationsToOCAttributes(z.bins))

(* Thrift has numbers for ids, any of which may be zero and high and       *)
(* parent absent: an id that is zero becomes nil.  The port of an endpoint *)
(* is a signed number of 16 bits there, and is extended with its sign.     *)
toTranslatorEndpoint(e) ==
  IF e = None THEN None ELSE [e EXCEPT !.port = IF @ < 2^15 THEN @ ELSE @ - 2^16]

parseZipkinV1ThriftAnnotations(annotations) ==
  [i \in DOMAIN annotations |->
    [annotations[i] EXCEPT !.ep = toTranslatorEndpoint(@)]]

zipkinV1ThriftToOCSpan(z) ==
  V1Span([z EXCEPT !.time = IF @ = None THEN 0 ELSE @,
                   !.duration = IF @ = None THEN 0 ELSE @,
                   !.annotations = parseZipkinV1ThriftAnnotations(@)],
         UInt64ToByteTraceID(IF z.high = None THEN 0 ELSE z.high, z.low),
         UInt64ToByteSpanID(z.id),
         IF z.parent = None THEN <<>> ELSE UInt64ToByteSpanID(z.parent), z.time # None,
         zipkinV1ThriftBinAnnotationsToOCAttributes(z.bins))

(* The spans grouped by their endpoints, a node for each.                  *)
EndpointAttributes(ep) ==
  LET all == ("ipv4" :> ep.ipv4) @@ ("ipv6" :> ep.ipv6)
             @@ ("port" :> IF ep.port = 0 THEN "" ELSE ToString(ep.port))
  IN [k \in {k \in DOMAIN all : all[k] # ""} |-> all[k]]

zipkinToOCProtoBatch(results) ==
  {[node  |-> [BareNode(ep.service) EXCEPT !.attrs = EndpointAttributes(ep)],
    spans |-> LET of == Only(results, {r \in Range(results) : r.ep = ep})
              IN [i \in DOMAIN of |-> of[i].span]] : ep \in {results[i].ep : i \in DOMAIN results}}

(* One span in error refuses the blob.                                     *)
V1JSONBatchToOCProto(zs) ==
  IF \E i \in DOMAIN zs : ~JSONSpanOk(zs[i]) THEN {}
  ELSE zipkinToOCProtoBatch([i \in DOMAIN zs |-> zipkinV1ToOCSpan(zs[i])])

V1ThriftBatchToOCProto(zs) ==
  zipkinToOCProtoBatch([i \in DOMAIN zs |-> zipkinV1ThriftToOCSpan(zs[i])])

=============================================================================
