------------------------- MODULE PrometheusMetrics -------------------------
(* How a scraped page of samples becomes metrics: metricsbuilder.go and    *)
(* metricfamily.go.  A sample is [name, labels, v]: the parts of its name  *)
(* between underscores, its labels besides the target's own, its value.    *)
(* Label values are numbers, those of le and quantile the boundary itself, *)
(* and NoValue an empty one.  Timestamps are left out: the        *)
(* samples of a page have that of the scrape.                              *)
EXTENDS Integers, Sequences, SequencesExt, TLC

CONSTANTS Metadata    \* the types of the page, by family name

NoValue == 0
NaN == -1             \* the value of a stale marker
Infinity == 1000      \* the boundary of the last bucket

trimmableSuffixes == {"bucket", "count", "sum"}
HasSuffix(name, suffixes) == Len(name) > 1 /\ Last(name) \in suffixes

normalizeMetricName(name) ==
    IF HasSuffix(name, trimmableSuffixes) THEN Front(name) ELSE name

(* up and scrape_*: what the scrape loop reports of the scrape itself.     *)
shouldSkip(name) == name = <<"up">> \/ (name[1] = "scrape" /\ Len(name) > 1)

isUsefulLabel(type, label) ==
    /\ label = "le" => type # "histogram"
    /\ label = "quantile" => type # "summary"

-----------------------------------------------------------------------------
(* A family: the name and type of its metric, every label key seen in it,  *)
(* and a group of points for each set of labels, in order of appearance.   *)

NoFamily == [name |-> <<>>, type |-> "none", keys |-> {}, groups |-> <<>>]

(* The type is that of the name without suffix, else that of the name.     *)
newMetricFamily(metricName) ==
    LET trimmed == normalizeMetricName(metricName)
        name == IF trimmed \in DOMAIN Metadata THEN trimmed ELSE metricName
    IN  [NoFamily EXCEPT
            !.name = name,
            !.type = IF name \in DOMAIN Metadata THEN Metadata[name]
                                                 ELSE "unspecified"]

(* A plausible bug: the name is compared as it is.                         *)
BugSameName(mf, metricName) == mf.name = metricName

IsSameFamily(mf, metricName) == mf.name \in {normalizeMetricName(metricName), metricName}

(* Labels with an empty value never get here: what is left tells groups.   *)
dpgSignature(mf, ls) ==
    [k \in {l \in DOMAIN ls : isUsefulLabel(mf.type, l)} |-> ls[k]]

Absent == {}

NewGroup(mf, ls) ==
    [signature |-> dpgSignature(mf, ls), ls |-> ls,
     count |-> Absent, sum |-> Absent, value |-> Absent, points |-> <<>>]

(* The group of the labels, which is the last one when it is new.          *)
GroupsWith(mf, ls) ==
    IF \E i \in DOMAIN mf.groups : mf.groups[i].signature = dpgSignature(mf, ls)
    THEN mf.groups ELSE Append(mf.groups, NewGroup(mf, ls))

(* The label that bounds a point of a histogram or a summary.              *)
Boundary(type) == IF type = "histogram" THEN "le" ELSE "quantile"

Refuses(mf, s) ==
    /\ mf.type \in {"histogram", "summary"}
    /\ ~HasSuffix(s.name, {"sum", "count"})
    /\ Boundary(mf.type) \notin DOMAIN s.labels

AddToGroup(mf, g, s) ==
    CASE mf.type \notin {"histogram", "summary"} -> [g EXCEPT !.value = {s.v}]
      [] mf.type \in {"histogram", "summary"} /\ HasSuffix(s.name, {"sum"}) ->
            [g EXCEPT !.sum = {s.v}]
      [] mf.type \in {"histogram", "summary"} /\ HasSuffix(s.name, {"count"}) ->
            [g EXCEPT !.count = {s.v}]
      [] OTHER ->
            [g EXCEPT !.points =
                Append(@, [boundary |-> s.labels[Boundary(mf.type)], value |-> s.v])]

AddToFamily(mf, s) ==
    LET groups == GroupsWith(mf, s.labels)
    IN  [mf EXCEPT
            !.keys = @ \cup DOMAIN dpgSignature(mf, s.labels),
            !.groups = [i \in DOMAIN groups |->
                IF groups[i].signature = dpgSignature(mf, s.labels)
                THEN AddToGroup(mf, groups[i], s) ELSE groups[i]]]

-----------------------------------------------------------------------------
(* From the groups to the time series.  A label the group does not have,   *)
(* because it was first seen later in the family, has no value.            *)

populateLabelValues(keys, ls) ==
    [k \in keys |-> IF k \in DOMAIN ls THEN ls[k] ELSE NoValue]

sortPoints(points) ==
    SortSeq(points, LAMBDA p, q : p.boundary < q.boundary)

(* Prometheus counts in each bucket what is in those below it as well.     *)
toDistribution(g) ==
    LET ps == sortPoints(g.points)
    IN  [bounds  |-> [i \in 1 .. Len(ps) - 1 |-> ps[i].boundary],
         buckets |-> [i \in DOMAIN ps |->
                        ps[i].value - (IF i = 1 THEN 0 ELSE ps[i - 1].value)]]

(* Without a count and a sum, or a histogram without buckets: no series.   *)
Complete(type, g) ==
    /\ type \in {"histogram", "summary"} => g.count # Absent /\ g.sum # Absent
    /\ type = "histogram" => g.points # <<>>

TimeSeries(mf, g) ==
    [labels |-> populateLabelValues(mf.keys, g.ls), count |-> g.count,
     sum |-> g.sum, value |-> g.value,
     points |-> CASE mf.type = "histogram" -> toDistribution(g)
                  [] mf.type = "summary"   -> sortPoints(g.points)
                  [] OTHER -> <<>>]

(* No metric at all when no group is complete.                             *)
ToMetric(mf) ==
    LET groups == SelectSeq(mf.groups, LAMBDA g : Complete(mf.type, g))
    IN  IF groups = <<>> THEN <<>>
        ELSE << [name |-> mf.name, type |-> mf.type,
                 series |-> [i \in DOMAIN groups |-> TimeSeries(mf, groups[i])]] >>

-----------------------------------------------------------------------------
(* The builder of one page.                                                *)

newMetricBuilder ==
    [hasData |-> FALSE, metrics |-> <<>>, mf |-> NoFamily]

(* The family a sample goes to: the current one or one of its own.         *)
FamilyFor(b, name) ==
    IF b.mf # NoFamily /\ IsSameFamily(b.mf, name) THEN b.mf
    ELSE newMetricFamily(name)

AddFails(b, s) == ~shouldSkip(s.name) /\ Refuses(FamilyFor(b, s.name), s)

AddDataPoint(b, s) ==
    IF shouldSkip(s.name) THEN b
    ELSE [hasData |-> TRUE,
          metrics |-> IF b.mf = NoFamily \/ IsSameFamily(b.mf, s.name)
                      THEN b.metrics ELSE b.metrics \o ToMetric(b.mf),
          mf |-> AddToFamily(FamilyFor(b, s.name), s)]

(* Nothing for a page of internal metrics.                                 *)
Build(b) == IF b.hasData THEN b.metrics \o ToMetric(b.mf) ELSE <<>>

-----------------------------------------------------------------------------
(* What a page says, read as a whole and by the exposition format alone: a *)
(* sample of a histogram has its name with _bucket, _sum or _count, one of *)
(* a summary its name, or its name with _sum or _count; any other sample   *)
(* has the name of its family.  Stale and internal samples say nothing.    *)

TypeOf(f) == IF f \in DOMAIN Metadata THEN Metadata[f] ELSE "unspecified"

SampleSuffixes(type) == CASE type = "histogram" -> {"bucket", "sum", "count"}
                          [] type = "summary"   -> {"sum", "count"}
                          [] OTHER              -> {}

FamilyOf(s) ==
    IF Len(s.name) > 1 /\ Last(s.name) \in SampleSuffixes(TypeOf(Front(s.name)))
    THEN Front(s.name) ELSE s.name

Kept(page) == SelectSeq(page, LAMBDA s : s.v # NaN /\ ~shouldSkip(s.name))
FamiliesOf(page) == {FamilyOf(s) : s \in Range(Kept(page))}

(* The labels that tell the series of a family apart.                      *)
OwnLabels(f, s) ==
    Restrict(s.labels, DOMAIN s.labels \ (CASE TypeOf(f) = "histogram" -> {"le"}
                                            [] TypeOf(f) = "summary"   -> {"quantile"}
                                            [] OTHER                   -> {}))

(* What a sample gives the value of: a sum or a count of a series, or the  *)
(* one point with its labels.                                              *)
PlaceOf(f, s) ==
    IF Last(s.name) \in SampleSuffixes(TypeOf(f)) \cap {"sum", "count"}
    THEN <<Last(s.name), OwnLabels(f, s)>> ELSE <<"point", s.labels>>

(* The values of the samples of a series whose name ends so.               *)
ValuesOf(samples, suffix) == {s.v : s \in {q \in samples : Last(q.name) = suffix}}

(* What is in a bucket but not in the next smaller one.                    *)
OwnCount(points, p) ==
    LET below == {q \in points : q.labels["le"] < p.labels["le"]}
    IN  p.v - (IF below = {} THEN 0
               ELSE (CHOOSE q \in below :
                        \A r \in below : r.labels["le"] <= q.labels["le"]).v)

SeriesOf(f, keys, samples) ==
    LET points == {s \in samples : PlaceOf(f, s)[1] = "point"}
        complete == ValuesOf(samples, "sum") # {} /\ ValuesOf(samples, "count") # {}
        labels == LET own == OwnLabels(f, CHOOSE s \in samples : TRUE)
                  IN  [k \in keys |-> IF k \in DOMAIN own THEN own[k] ELSE NoValue]
    IN  CASE TypeOf(f) = "histogram" ->
               IF ~complete \/ points = {} THEN {}
               ELSE {[labels |-> labels, count |-> ValuesOf(samples, "count"),
                      sum |-> ValuesOf(samples, "sum"),
                      points |-> {<<p.labels["le"], OwnCount(points, p)>> : p \in points}]}
          [] TypeOf(f) = "summary" ->
               IF ~complete THEN {}
               ELSE {[labels |-> labels, count |-> ValuesOf(samples, "count"),
                      sum |-> ValuesOf(samples, "sum"),
                      points |-> {<<p.labels["quantile"], p.v>> : p \in points}]}
          [] OTHER -> {[labels |-> labels, value |-> {s.v : s \in samples}]}

(* A family of a page: a series for each set of labels in it.              *)
Says(page, f) ==
    LET samples == {s \in Range(Kept(page)) : FamilyOf(s) = f}
        keys == UNION {DOMAIN OwnLabels(f, s) : s \in samples}
        groups == {{s \in samples : OwnLabels(f, s) = OwnLabels(f, q)} : q \in samples}
    IN  [name |-> f, type |-> TypeOf(f),
         series |-> UNION {SeriesOf(f, keys, g) : g \in groups}]

(* A built metric in the same terms.                                       *)
Means(m) ==
    LET Series(ts) ==
            CASE m.type = "histogram" ->
                   [labels |-> ts.labels, count |-> ts.count, sum |-> ts.sum,
                    points |-> {<<Append(ts.points.bounds, Infinity)[i],
                                  ts.points.buckets[i]>> : i \in DOMAIN ts.points.buckets}]
              [] m.type = "summary" ->
                   [labels |-> ts.labels, count |-> ts.count, sum |-> ts.sum,
                    points |-> {<<p.boundary, p.value>> : p \in Range(ts.points)}]
              [] OTHER -> [labels |-> ts.labels, value |-> ts.value]
    IN  [name |-> m.name, type |-> m.type,
         series |-> {Series(ts) : ts \in Range(m.series)}]

(* The family is there once, whole, and none of its series twice; or not   *)
(* at all when no series of it is complete.                                *)
Rendered(metrics, page, f) ==
    LET found == {i \in DOMAIN metrics : metrics[i].name = f}
    IN  IF Says(page, f).series = {} THEN found = {}
        ELSE \E i \in found :
                /\ found = {i}
                /\ Means(metrics[i]) = Says(page, f)
                /\ IsInjective([k \in DOMAIN metrics[i].series |->
                                    metrics[i].series[k].labels])

(* Families of the page or of the types that are named like this one but   *)
(* for a suffix: the builder may take the samples of one for the other's.  *)
Neighbours(page, f) ==
    {g \in FamiliesOf(page) \cup DOMAIN Metadata :
        \E suffix \in trimmableSuffixes : g = Append(f, suffix) \/ f = Append(g, suffix)}

(* The samples of the family stand together and no two say the same thing. *)
WellFormed(page, f) ==
    LET kept == Kept(page)
        at == {i \in DOMAIN kept : FamilyOf(kept[i]) = f}
    IN  \A i, j \in at :
            /\ i .. j \subseteq at
            /\ PlaceOf(f, kept[i]) = PlaceOf(f, kept[j]) => i = j

(* A family's own name, and a neighbour's that is it without the suffix.   *)
NamesFor(page, f) == {f} \cup {g \in Neighbours(page, f) : Len(g) < Len(f)}

(* A plain value is in a metric that is named for its family and has its   *)
(* labels, unless a later sample of the family or of a neighbour has them. *)
KeepsValues(metrics, page) ==
    LET kept == Kept(page)
    IN  \A i \in DOMAIN kept :
            LET s == kept[i]
                f == FamilyOf(s)
                Has(ts) == /\ ts.value = {s.v}
                           /\ Restrict(ts.labels, DOMAIN s.labels) = s.labels
                Later(q) == FamilyOf(q) \in {f} \cup Neighbours(page, f) /\ q.labels = s.labels
            IN  \/ SampleSuffixes(TypeOf(f)) # {}
                \/ \E j \in i + 1 .. Len(kept) : Later(kept[j])
                \/ \E m \in Range(metrics) :
                      m.name \in NamesFor(page, f) /\ \E ts \in Range(m.series) : Has(ts)

(* The metrics render each well-formed family without neighbours and keep  *)
(* the values of all plain ones, and none is named after anything but a    *)
(* family of the page or what is left of its name without a suffix.        *)
Renders(metrics, page) ==
    /\ KeepsValues(metrics, page)
    /\ \A f \in FamiliesOf(page) :
          WellFormed(page, f) /\ Neighbours(page, f) = {} => Rendered(metrics, page, f)
    /\ \A m \in Range(metrics) :
          \/ m.name \in FamiliesOf(page)
          \/ \E suffix \in trimmableSuffixes : Append(m.name, suffix) \in FamiliesOf(page)

=============================================================================
