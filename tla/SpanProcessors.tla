--------------------------- MODULE SpanProcessors ---------------------------
(***************************************************************************)
(* What is done to spans between a receiver and an exporter: attributes    *)
(* are added (processor/addattributesprocessor) and renamed (processor/    *)
(* attributekeyprocessor), traces are sampled by their ids (processor/     *)
(* tracesamplerprocessor) and by what the tail sampling policies read      *)
(* (internal/collector/sampling).                                          *)
(***************************************************************************)
EXTENDS OCSpan

MapSpans(td, Op(_)) == [td EXCEPT !.spans = [i \in DOMAIN @ |-> Op(@[i])]]

(* added: a function from keys to attributes.                              *)
AddAttributes(span, added, overwrite) ==
  LET old == IF span.attrs = None THEN <<>> ELSE span.attrs
  IN IF added = <<>> THEN span
     ELSE [span EXCEPT !.attrs = IF overwrite THEN added @@ old ELSE old @@ added]

(* A replacement is [key, newKey, overwrite, keep].  NewTraceProcessor     *)
(* refuses a key given twice and a new key that an earlier one replaces.   *)
Without(f, key) == [k \in DOMAIN f \ {key} |-> f[k]]

ReplacementsOk(rs) ==
  \A i, j \in DOMAIN rs : /\ rs[i].key = rs[j].key => i = j
                          /\ i <= j => rs[j].newKey # rs[i].key

Replace(attrs, r) ==
  IF r.key \in DOMAIN attrs /\ (r.overwrite \/ r.newKey \notin DOMAIN attrs)
    THEN LET new == (r.newKey :> attrs[r.key]) @@ attrs
         IN IF r.keep THEN new ELSE Without(new, r.key)
    ELSE attrs

(* The replacements are made one after the other: the last may replace     *)
(* what the first has made.                                                *)
ReplaceKeys(span, rs) ==
  IF Keys(span.attrs) = {} THEN span ELSE [span EXCEPT !.attrs = FoldLeft(Replace, @, rs)]

(* The hash of a trace id, in one of the buckets, stands for murmur3.      *)
CONSTANTS HashOf(_), NumHashBuckets

hash(traceId) == HashOf(traceId) % NumHashBuckets

(* Bug: each span is sampled by its own id.                                *)
BugSampleBySpanId(td, scaledSamplingRate) ==
  [td EXCEPT !.spans = Only(@, {s \in Range(@) : hash(s.spanId) < scaledSamplingRate})]

SampleByTraceId(td, scaledSamplingRate) ==
  IF scaledSamplingRate >= NumHashBuckets THEN td
  ELSE [td EXCEPT !.spans = Only(@, {s \in Range(@) : hash(s.traceId) < scaledSamplingRate})]

-----------------------------------------------------------------------------
(* The policies.  A numeric one takes an attribute that is no integer for  *)
(* zero; a textual one looks at the node as well.                          *)
Carries(span, key) == key \in Keys(span.attrs)

IntValue(attr) == IF attr # None /\ attr.t = "int" THEN IntOf(attr.v) ELSE 0

NumericEvaluate(td, key, min, max) ==
  \E i \in DOMAIN td.spans :
    Carries(td.spans[i], key) /\ IntValue(td.spans[i].attrs[key]) \in min..max

StringEvaluate(td, key, values) ==
  \/ td.node # None /\ key \in DOMAIN td.node.attrs /\ td.node.attrs[key] \in values \ {""}
  \/ \E i \in DOMAIN td.spans :
       /\ Carries(td.spans[i], key) /\ td.spans[i].attrs[key] # None
       /\ td.spans[i].attrs[key].t = "str" /\ td.spans[i].attrs[key].v \in values \ {""}

=============================================================================
