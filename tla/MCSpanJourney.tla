---------------------------- MODULE MCSpanJourney ----------------------------
(* SpanJourney on batches of two spans of a trace and one of another.  The *)
(* first span varies, a part or two at a time, around an ordinary one.     *)
EXTENDS SpanJourney

MCHash(traceId) == IF traceId = <<>> THEN 0 ELSE traceId[1] + 3 * Last(traceId)

IntAttr(n) == Attr("int", ToString(n))

Plain(id, parent) ==
  [BareSpan(<<1, 2>>, <<id>>, parent) EXCEPT
     !.name = "get", !.kind = "client", !.start = 1500, !.end = 4200,
     !.attrs = ("http.path" :> Attr("str", "/a")) @@ ("retries" :> IntAttr(3)) @@ ("cached" :> Attr("bool", "true"))
               @@ ("tier" :> Attr("str", "gold"))]

Annotated(a) == << [time |-> 2000, type |-> "annotation", value |-> a] >>
Message(csize) ==
  << [time |-> 2500, type |-> "message",
      value |-> [id |-> "7", type |-> "SENT", csize |-> csize, usize |-> csize]] >>
Link(id, type) == << [traceId |-> <<0, 9>>, spanId |-> id, type |-> type] >>
Status(code, message) == [code |-> code, message |-> message]

(* Each with the fields that it changes.                                   *)
Variations ==
  LET p == Plain(5, <<4>>)
  IN { p, Plain(5, <<>>), Plain(5, <<0>>),
       [p EXCEPT !.kind = "server", !.name = None],
       [p EXCEPT !.kind = "unspecified", !.name = ""],
       [p EXCEPT !.attrs = None, !.status = Status(5, "gone")],
       [p EXCEPT !.status = Status(5, "gone")],
       [p EXCEPT !.status = Status(0, "fine")],
       [p EXCEPT !.status = Status(19, "")],
       [p EXCEPT !.attrs = ("span.kind" :> Attr("str", "server")) @@ @],
       [p EXCEPT !.attrs = ("status.code" :> IntAttr(4)) @@ ("status.message" :> Attr("str", "late")) @@ @],
       [p EXCEPT !.attrs = ("message" :> Attr("str", "m")) @@ ("ratio" :> Attr("double", "0.5"))
                           @@ ("nil" :> None) @@ @],
       [p EXCEPT !.events = Annotated([desc |-> "cache miss", attrs |-> ("key" :> Attr("str", "k"))])],
       [p EXCEPT !.events = Annotated([desc |-> "cache miss", attrs |-> None])],
       [p EXCEPT !.events = Annotated([desc |-> None, attrs |-> ("key" :> Attr("str", "k"))])],
       [p EXCEPT !.events = Message("0") \o Annotated([desc |-> "d", attrs |-> None]) \o Message("8")],
       [p EXCEPT !.links = Link(<<8>>, "parent") \o Link(<<7>>, "child")],
       [p EXCEPT !.links = Link(<<>>, "unspecified")],
       [p EXCEPT !.links = Link(<<8>>, "parent") \o Link(<<0>>, "child")],
       [p EXCEPT !.attrs = ("span.status" :> Attr("str", "s")) @@ ("v" :> Attr("str", "w")) @@ @,
                 !.status = Status(5, "gone"), !.state = <<[key |-> "v", v |-> "x"]>>],
       [p EXCEPT !.end = None], [p EXCEPT !.start = None, !.end = None],
       [p EXCEPT !.end = 1500], [p EXCEPT !.end = 1600],
       [p EXCEPT !.state = <<[key |-> "v", v |-> "x"]>>, !.same = "true", !.children = "2"],
       [p EXCEPT !.state = <<[key |-> "", v |-> "x"]>>],
       [p EXCEPT !.traceId = <<0, 0>>], [p EXCEPT !.traceId = <<1>>],
       [p EXCEPT !.spanId = <<>>], [p EXCEPT !.spanId = <<5, 5>>], [p EXCEPT !.parentId = <<4, 4>>] }

Nodes ==
  LET n == BareNode("shop")
  IN { None, BareNode(""),
       [n EXCEPT !.host = "h", !.pid = "12", !.started = "noon", !.language = "GO",
                 !.exporter = "0.1", !.core = "0.2", !.attrs = ("zone" :> "z")],
       [n EXCEPT !.attrs = ("ipv4" :> "10.0.0.1") @@ ("port" :> "8") @@
                 ("zipkin.remoteEndpoint.serviceName" :> "db") @@ ("zipkin.remoteEndpoint.ipv6" :> "::1")] }

OCWire(n, s) ==
  [format |-> "oc",
   batch |-> [node |-> n, spans |-> << s, Plain(6, <<5>>), [Plain(7, <<>>) EXCEPT !.traceId = <<3, 3>>] >>]]

OCWires ==
  {OCWire(BareNode("shop"), s) : s \in Variations} \cup {OCWire(n, Plain(5, <<4>>)) : n \in Nodes}

(* Jaeger: tags of each type, some of them twice, and logs.                *)
JSpan(tags, logs, start) ==
  [high |-> 0, low |-> 2, spanId |-> 5, parentId |-> 0, name |-> "get", references |-> None,
   start |-> start, duration |-> 3, tags |-> tags, logs |-> logs]

JTags == { <<>>, << Tag("span.kind", "str", "server"), Tag("a", "binary", "x"), Tag("b", "other", "") >>,
           << Tag("http.status_code", "int", "4"), Tag("a", "str", "1"), Tag("a", "str", "2"),
              Tag("http.status_message", "str", "late") >>,
           << Tag("span.kind", "str", "client"), Tag("status.code", "str", "4"), Tag("message", "str", "m") >> }

JLog(fields) == << [time |-> 2, fields |-> fields] >>

JWire(spans) ==
  [format |-> "jaeger",
   batch |-> [process |-> [service |-> "shop", tags |-> << Tag("hostname", "str", "h"), Tag("n", "int", "3") >>],
              spans |-> spans]]

JaegerWires ==
  {JWire(<<JSpan(tags, logs, start)>>) :
     tags \in JTags, logs \in {None} \cup {JLog(f) : f \in JTags}, start \in {0, 1}}
  \cup {JWire(<<blankJaegerSpan>>), JWire(<<blankJaegerSpan, JSpan(<<>>, None, 1)>>)}

(* Zipkin, version 1: the JSON and the Thrift of one batch.                *)
Z1(ids, parent, name, time, duration, annotations, bins) ==
  [format |-> "v1",
   json   |-> << [traceId |-> ids[1], id |-> ids[2], parentId |-> parent, name |-> name,
                  time |-> time, duration |-> duration, annotations |-> annotations, bins |-> bins] >>,
   thrift |-> << [high |-> IF Len(ids[1]) = 1 THEN None ELSE ids[1][1], low |-> Last(ids[1]),
                  id |-> ids[2][1], parent |-> IF parent = <<>> THEN None ELSE parent[1],
                  name |-> name, time |-> IF time = 0 THEN None ELSE time,
                  duration |-> IF time = 0 THEN None ELSE duration,
                  annotations |-> annotations, bins |-> bins] >>]

Ep(service, port) == Endpoint(service, "10.0.0.1", "", port)
Mark(v, time, ep) == [time |-> time, v |-> v, ep |-> ep]
Bin(key, t, v, ep) == [key |-> key, t |-> t, v |-> v, ep |-> ep]

Marks(port) ==
  { <<>>, << Mark("sr", 1, Ep("shop", port)), Mark("ss", 3, Ep("shop", port)) >>,
    << Mark("wake", 2, None), Mark("cs", 3, None), Mark("cr", 5, Ep("web", port)) >> }

BinLists ==
  { <<>>, << Bin("n", "i32", "7", None), Bin("ok", "bool", "true", Ep("db", 0)) >>,
    << Bin("lc", "string", "spark", None), Bin("a", "string", "x", None), Bin("a", "string", "y", None) >> }

(* Values whose text in JSON tells another type than they have or none,    *)
(* numbers below zero and too short ones, a last host without a name.      *)
EdgeBins ==
  { << Bin("s", "string", "7", None), Bin("w", "string", "t", None), Bin("i", "i32", "-1", None),
       Bin("j", "i16", "-1", None), Bin("k", "i64", "-1", None), Bin("b", "bool", "1", None) >>,
    << Bin("x", "bytes", "b", None), Bin("d", "double", "0.5", None), Bin("i", "i16", "short", None),
       Bin("u", "unknown", "z", Ep("db", 0)), Bin("a", "string", "x", Ep("", 0)) >> }

(* The ids, ports and timestamps that the two forms read differently.      *)
V1EdgeWires ==
  {Z1(<< <<2>>, <<5>> >>, <<4>>, "get", time, 4, marks, bins) :
     time \in {0, 6}, marks \in Marks(80) \cup Marks(40000), bins \in EdgeBins \cup {<<>>}}
  \cup {Z1(<< t, id >>, p, "get", 6, 4, <<>>, <<>>) :
          t \in {<<2>>, <<0>>, <<0, 0>>}, id \in {<<5>>, <<0>>}, p \in {<<>>, <<0>>}}
  \cup {[Z1(<< <<2>>, <<5>> >>, <<4>>, "get", 0, 4, marks, <<>>) EXCEPT !.thrift[1].time = 0] :
          marks \in Marks(80)}

V1Wires(port) ==
  {Z1(<<t, <<5>> >>, p, "get", time, 4, marks, bins) :
     t \in {<<2>>, <<1, 2>>}, p \in {<<>>, <<4>>}, time \in {0, 6}, marks \in Marks(port), bins \in BinLists}

V2Wires ==
  {[format |-> "v2",
    batch |-> << [high |-> 0, low |-> low, id |-> 5, parent |-> None, kind |-> "server", name |-> "get",
                  time |-> 2000, duration |-> 3000, local |-> Endpoint("shop", "", "", 8), remote |-> r,
                  tags |-> tags, annotations |-> << [time |-> 3000, v |-> "x"], [time |-> None, v |-> ""] >>] >>] :
     low \in {0, 2}, r \in {None, Endpoint("db", "", "::1", 0)},
     tags \in {<<>>, "error" :> "NOT_FOUND", "error" :> "true"}}

MCWires == OCWires \cup JaegerWires \cup V1Wires(80) \cup V1EdgeWires \cup V2Wires

MCAdded == ("region" :> Attr("str", "eu")) @@ ("cached" :> Attr("bool", "false"))
MCReplacements == << [key |-> "http.path", newKey |-> "path", overwrite |-> FALSE, keep |-> FALSE],
                     [key |-> "path", newKey |-> "p", overwrite |-> TRUE, keep |-> TRUE] >>
MCRates == {0, 4, 8}

=============================================================================
