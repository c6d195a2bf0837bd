-------------------------- MODULE MetricsAdjuster ---------------------------
(***************************************************************************)
(* receiver/prometheusreceiver/internal: metrics_adjuster.go, and the      *)
(* Commit of transaction.go that calls it.  A Prometheus counter counts    *)
(* from the start of its process; an OpenCensus cumulative point counts    *)
(* from the point where the receiver first saw its timeseries.  So the     *)
(* adjuster keeps, for each job and timeseries, the initial point and the  *)
(* previous one, drops the initial point, reports the following ones       *)
(* relative to it, and starts again when a value goes back (a reset).      *)
(*                                                                         *)
(* Who runs: one scrape loop per job (a job and instance: a target), which *)
(* commits one transaction after another, and the goroutines that collect  *)
(* the jobs and timeseries that are no longer seen.  They share the        *)
(* JobsMap and, through it, the timeseriesMap of each job.  An operation   *)
(* made under a timeseriesMap's lock is one step.                          *)
(*                                                                         *)
(* A point is what a scrape read, field by field: a counter has one field; *)
(* a distribution has its count, its sum and its buckets, a summary its    *)
(* count and its sum.  Only the fields of Checked tell a reset.  The map   *)
(* that the n-th scrape of job j makes is named <<j, n>>.                  *)
(***************************************************************************)
EXTENDS Integers, Sequences

CONSTANTS
  Jobs,
  LabelsOf,      \* sequence: the label values of each timeseries of a job
  Fields,        \* of a point
  Checked,       \* the fields compared to find a reset
  ScrapedPoints, \* the points a scrape may read
  MaxScrapes,    \* bound: scrapes of each job
  MaxGCs         \* bound: collections

ASSUME AdjusterAssumption ==
  /\ LabelsOf \in Seq(Seq(STRING))
  /\ Checked \subseteq Fields
  /\ ScrapedPoints \subseteq [Fields -> Nat]
  /\ MaxScrapes \in Nat /\ MaxGCs \in Nat

Series == DOMAIN LabelsOf
Maps   == Jobs \X (1..MaxScrapes)
None   == <<>>

(* What a collection may take: a timeseries, or (0) the map of the job.    *)
Watched == Series \cup {0}

(* getTimeseriesSignature: the label values that are set, in their order.  *)
Signature(s) == SelectSeq(LabelsOf[s], LAMBDA v : v # "")
Signatures   == {Signature(s) : s \in Series}

VARIABLES
  jobsMap,    \* [Jobs -> the job's map, or None]
  tsmMark,    \* [Maps -> mark]
  tsiMap,     \* [Maps -> [Signatures -> timeseriesinfo, or None]]
  gcDue,      \* now - lastGC > gcInterval
  gcPending,  \* goroutines started by maybeGC that have not run
  gcRunning,  \* a collection holds the lock of the JobsMap
  gcLeft,     \* jobs it has yet to look at
  gcs,        \* collections done
  pc,         \* where the transaction of each job is
  scrapes,    \* [Jobs -> scrapes begun]
  using,      \* [Jobs -> the map that get returned, or None]
  out,        \* [Jobs -> [Series -> the point last sent to the sink, or None]]
  last,       \* history: [Jobs -> [Series -> the point last scraped, or None]]
  base,       \* history: [Jobs -> [Series -> the last point that was dropped]]
  swept,      \* history: collections since a watched entry was last adjusted
  idle        \* history: times gcInterval passed since then

gcVars   == <<gcDue, gcPending, gcRunning, gcLeft, gcs>>
histVars == <<out, last, base>>
ageVars  == <<swept, idle>>
vars == <<jobsMap, tsmMark, tsiMap, gcVars, pc, scrapes, using, histVars, ageVars>>

Infos == [mark : BOOLEAN, initial : ScrapedPoints, previous : [Fields -> Int],
          same : BOOLEAN, start : 1..MaxScrapes]

TypeOK ==
  /\ jobsMap \in [Jobs -> Maps \cup {None}]
  /\ tsmMark \in [Maps -> BOOLEAN]
  /\ \A m \in Maps, sig \in Signatures : tsiMap[m][sig] \in Infos \cup {None}
  /\ gcDue \in BOOLEAN /\ gcRunning \in BOOLEAN
  /\ gcPending \in Nat /\ gcs \in 0..MaxGCs
  /\ gcLeft \subseteq Jobs
  /\ pc \in [Jobs -> {"idle", "create", "maybeGC", "adjust"}]
  /\ scrapes \in [Jobs -> 0..MaxScrapes]
  /\ using \in [Jobs -> Maps \cup {None}]
  /\ \A j \in Jobs : using[j] # None <=> pc[j] \in {"maybeGC", "adjust"}

Init ==
  /\ jobsMap = [j \in Jobs |-> None]
  /\ tsmMark = [m \in Maps |-> FALSE]
  /\ tsiMap = [m \in Maps |-> [sig \in Signatures |-> None]]
  /\ gcDue = FALSE /\ gcPending = 0 /\ gcRunning = FALSE /\ gcLeft = {} /\ gcs = 0
  /\ pc = [j \in Jobs |-> "idle"]
  /\ scrapes = [j \in Jobs |-> 0]
  /\ using = [j \in Jobs |-> None]
  /\ out = [j \in Jobs |-> [s \in Series |-> None]]
  /\ last = [j \in Jobs |-> [s \in Series |-> None]]
  /\ base = [j \in Jobs |-> [s \in Series |-> None]]
  /\ swept = [j \in Jobs |-> [w \in Watched |-> 0]]
  /\ idle = [j \in Jobs |-> [w \in Watched |-> 0]]

-----------------------------------------------------------------------------
(* Commit: jobsMap.get.  The look-up under the read lock, the creation     *)
(* under the write lock and the deferred maybeGC are three steps.          *)
GetJob(j) ==
  /\ pc[j] = "idle"
  /\ scrapes[j] < MaxScrapes
  /\ ~gcRunning
  /\ scrapes' = [scrapes EXCEPT ![j] = @ + 1]
  /\ using' = [using EXCEPT ![j] = jobsMap[j]]
  /\ pc' = [pc EXCEPT ![j] = IF jobsMap[j] = None THEN "create" ELSE "maybeGC"]
  /\ UNCHANGED <<jobsMap, tsmMark, tsiMap, gcVars, histVars, ageVars>>

(* The second look-up, under the write lock, finds what the first found:   *)
(* a job has one scrape loop, and a collection adds nothing.               *)
CreateJob(j) ==
  LET m == <<j, scrapes[j]>>
  IN /\ pc[j] = "create"
     /\ ~gcRunning
     /\ jobsMap' = [jobsMap EXCEPT ![j] = m]
     /\ tsmMark' = [tsmMark EXCEPT ![m] = TRUE]
     /\ using' = [using EXCEPT ![j] = m]
     /\ pc' = [pc EXCEPT ![j] = "maybeGC"]
     /\ swept' = [swept EXCEPT ![j][0] = 0]
     /\ idle' = [idle EXCEPT ![j][0] = 0]
     /\ UNCHANGED <<tsiMap, gcVars, scrapes, histVars>>

(* maybeGC reads lastGC without the lock: against a collection that writes *)
(* it, either answer is possible.                                          *)
MaybeGC(j) ==
  /\ pc[j] = "maybeGC"
  /\ \E looksDue \in IF gcRunning THEN BOOLEAN ELSE {gcDue} :
       gcPending' = IF looksDue THEN gcPending + 1 ELSE gcPending
  /\ pc' = [pc EXCEPT ![j] = "adjust"]
  /\ UNCHANGED <<jobsMap, tsmMark, tsiMap, gcDue, gcRunning, gcLeft, gcs,
                 scrapes, using, histVars, ageVars>>

-----------------------------------------------------------------------------
(* Bug: the previous point is taken as if it were still as scraped.        *)
BugPreviousRaw(i) == [f \in Fields |-> IF i.same THEN i.initial[f] ELSE i.previous[f]]

(* adjustPoint.  The previous point was adjusted in place, unless it is    *)
(* the initial one: what was scraped is its sum with the initial one.      *)
PreviousScraped(i) ==
  [f \in Fields |-> IF i.same THEN i.initial[f] ELSE i.initial[f] + i.previous[f]]

IsReset(p, i) == \E f \in Checked : p[f] < PreviousScraped(i)[f]

Adjusted(p, i) == [f \in Fields |-> p[f] - i.initial[f]]

Initial(p, n) == [mark |-> TRUE, initial |-> p, previous |-> p, same |-> TRUE, start |-> n]

(* Bug: at a reset only the previous point is replaced.                    *)
BugKeepInitial(page, n, acc, s) ==
  LET sig == Signature(s)
      p   == page[s]
      i   == acc.infos[sig]
  IN IF i = None
       THEN [infos |-> [acc.infos EXCEPT ![sig] = Initial(p, n)],
             sent  |-> [acc.sent EXCEPT ![s] = None]]
     ELSE IF IsReset(p, i)
       THEN [infos |-> [acc.infos EXCEPT ![sig].previous = Adjusted(p, i), ![sig].same = FALSE,
                                         ![sig].mark = TRUE],
             sent  |-> [acc.sent EXCEPT ![s] = None]]
       ELSE [infos |-> [acc.infos EXCEPT ![sig].previous = Adjusted(p, i), ![sig].same = FALSE,
                                         ![sig].mark = TRUE],
             sent  |-> [acc.sent EXCEPT ![s] = [value |-> Adjusted(p, i), start |-> i.start]]]

(* adjustMetricTimeseries, for one timeseries of the n-th page: tsm.get,   *)
(* which marks, and the initial point, a reset, or an adjusted point.      *)
AdjustTimeseries(page, n, acc, s) ==
  LET sig == Signature(s)
      p   == page[s]
      i   == acc.infos[sig]
  IN IF i = None \/ IsReset(p, i)
       THEN [infos |-> [acc.infos EXCEPT ![sig] = Initial(p, n)],
             sent  |-> [acc.sent EXCEPT ![s] = None]]
       ELSE [infos |-> [acc.infos EXCEPT ![sig].previous = Adjusted(p, i), ![sig].same = FALSE,
                                         ![sig].mark = TRUE],
             sent  |-> [acc.sent EXCEPT ![s] = [value |-> Adjusted(p, i), start |-> i.start]]]

(* adjustMetricTimeseries, the loop: the timeseries of the page, in the    *)
(* order of the series, each on what the ones before it left.              *)
AdjustPage(page, n, zero) ==
  LET adjusted[k \in 0..Len(LabelsOf)] ==
        IF k = 0 THEN zero
        ELSE IF k \in DOMAIN page THEN AdjustTimeseries(page, n, adjusted[k - 1], k)
        ELSE adjusted[k - 1]
  IN adjusted[Len(LabelsOf)]

(* The ages after the series of seen were adjusted in the job's map.       *)
Touched(age, seen) ==
  [w \in Watched |-> IF w \in seen \/ (w = 0 /\ seen # {}) THEN 0 ELSE age[w]]

(* AdjustMetrics, under the lock of the map, and ConsumeMetricsData.  The  *)
(* page is what the scrape read, in the order of the series; a page with   *)
(* gauges only leaves the map alone.                                       *)
AdjustMetrics(j) ==
  /\ pc[j] = "adjust"
  /\ \E seen \in SUBSET Series : \E page \in [seen -> ScrapedPoints] :
       LET m    == using[j]
           zero == [infos |-> tsiMap[m], sent |-> [s \in Series |-> None]]
           done == AdjustPage(page, scrapes[j], zero)
       IN /\ tsiMap' = [tsiMap EXCEPT ![m] = done.infos]
          /\ tsmMark' = [tsmMark EXCEPT ![m] = @ \/ seen # {}]
          /\ out' = [out EXCEPT ![j] = done.sent]
          /\ last' = [last EXCEPT ![j] = [s \in Series |-> IF s \in seen THEN page[s] ELSE @[s]]]
          /\ base' = [base EXCEPT ![j] = [s \in Series |->
                        IF s \in seen /\ done.sent[s] = None
                          THEN [point |-> page[s], start |-> scrapes[j]] ELSE @[s]]]
          /\ IF m = jobsMap[j]
               THEN /\ swept' = [swept EXCEPT ![j] = Touched(@, seen)]
                    /\ idle' = [idle EXCEPT ![j] = Touched(@, seen)]
               ELSE UNCHANGED ageVars
  /\ using' = [using EXCEPT ![j] = None]
  /\ pc' = [pc EXCEPT ![j] = "idle"]
  /\ UNCHANGED <<jobsMap, gcVars, scrapes>>

-----------------------------------------------------------------------------
(* Bug: a goroutine does not look again whether a collection is due.       *)
BugNoRecheck ==
  /\ gcPending > 0 /\ ~gcRunning
  /\ gcs < MaxGCs
  /\ gcPending' = gcPending - 1
  /\ gcRunning' = TRUE /\ gcLeft' = {j \in Jobs : jobsMap[j] # None}
  /\ UNCHANGED <<jobsMap, tsmMark, tsiMap, gcDue, gcs, pc, scrapes, using, histVars, ageVars>>

(* JobsMap.gc: takes the lock and looks again whether it is due.           *)
StartGC ==
  /\ gcPending > 0 /\ ~gcRunning
  /\ gcPending' = gcPending - 1
  /\ IF gcDue
       THEN gcRunning' = TRUE /\ gcLeft' = {j \in Jobs : jobsMap[j] # None}
       ELSE UNCHANGED <<gcRunning, gcLeft>>
  /\ UNCHANGED <<jobsMap, tsmMark, tsiMap, gcDue, gcs, pc, scrapes, using, histVars, ageVars>>

(* Bug: the marks of the timeseries are left.                              *)
BugKeepMarks(infos) == [sig \in Signatures |->
  IF infos[sig] = None \/ ~infos[sig].mark THEN None ELSE infos[sig]]

(* timeseriesMap.gc: an unmarked timeseries goes, the others are unmarked. *)
Swept(infos) == [sig \in Signatures |->
  IF infos[sig] = None \/ ~infos[sig].mark THEN None ELSE [infos[sig] EXCEPT !.mark = FALSE]]

(* A job whose map is not marked is removed; else its map is swept.        *)
SweepJob(j) ==
  LET m == jobsMap[j]
  IN /\ j \in gcLeft
     /\ gcLeft' = gcLeft \ {j}
     /\ IF tsmMark[m]
          THEN /\ tsiMap' = [tsiMap EXCEPT ![m] = Swept(@)]
               /\ tsmMark' = [tsmMark EXCEPT ![m] = FALSE]
               /\ UNCHANGED jobsMap
          ELSE /\ jobsMap' = [jobsMap EXCEPT ![j] = None]
               /\ UNCHANGED <<tsiMap, tsmMark>>
     /\ swept' = [swept EXCEPT ![j] = [w \in Watched |-> @[w] + 1]]
     /\ UNCHANGED <<gcDue, gcPending, gcRunning, gcs, pc, scrapes, using, histVars, idle>>

EndGC ==
  /\ gcRunning /\ gcLeft = {}
  /\ gcRunning' = FALSE
  /\ gcDue' = FALSE
  /\ gcs' = gcs + 1
  /\ UNCHANGED <<jobsMap, tsmMark, tsiMap, gcPending, gcLeft, pc, scrapes, using, histVars, ageVars>>

GCIntervalPasses ==
  /\ ~gcDue /\ gcs < MaxGCs
  /\ gcDue' = TRUE
  /\ idle' = [j \in Jobs |-> [w \in Watched |-> idle[j][w] + 1]]
  /\ UNCHANGED <<jobsMap, tsmMark, tsiMap, gcPending, gcRunning, gcLeft, gcs, pc, scrapes, using,
                 histVars, swept>>

-----------------------------------------------------------------------------
Commit(j) == GetJob(j) \/ CreateJob(j) \/ MaybeGC(j) \/ AdjustMetrics(j)

Next ==
  \/ \E j \in Jobs : Commit(j) \/ SweepJob(j)
  \/ StartGC \/ EndGC \/ GCIntervalPasses

Spec == Init /\ [][Next]_vars

-----------------------------------------------------------------------------
(* A point is reported relative to the last point of its timeseries that   *)
(* was dropped, with that point's start (adjustPoint, adjustTimeseries),   *)
(* whatever was collected in between: the difference and the start that a  *)
(* consumer reads belong together.                                         *)
ReportedFromBase ==
  \A j \in Jobs, s \in Series : out[j][s] # None =>
    /\ base[j][s] # None
    /\ out[j][s].start = base[j][s].start
    /\ out[j][s].value = [f \in Fields |-> last[j][s][f] - base[j][s].point[f]]

(* The scrape of a timeseries that was scraped before: a step in which     *)
(* the transaction of j adjusted s.                                        *)
AdjustsAgain(j, s) == pc[j] = "adjust" /\ pc'[j] = "idle" /\ last[j][s] # None

(* No fall of a checked field is reported as progress: a point that is     *)
(* sent is at least the one scraped before it, although the adjuster kept  *)
(* only the difference of that one (adjustPoint, the note above it).       *)
NoFallReported ==
  [][\A j \in Jobs, s \in Series : AdjustsAgain(j, s) /\ out'[j][s] # None =>
       \A f \in Checked : last'[j][s][f] >= last[j][s][f]]_vars

(* A point is dropped only if a checked field fell, or if gcInterval has   *)
(* passed since its timeseries was last adjusted in the job's map: the     *)
(* collections of several goroutines do not run together and take a        *)
(* timeseries in use (the second look at the time in JobsMap.gc).          *)
DropsAreJustified ==
  [][\A j \in Jobs, s \in Series : AdjustsAgain(j, s) /\ base'[j][s] # base[j][s] =>
       \/ \E f \in Checked : last'[j][s][f] < last[j][s][f]
       \/ idle[j][s] >= 1]_vars

(* No leak: what a collection has looked at twice since it was last        *)
(* adjusted is gone, the timeseries of a live job and the job itself; for  *)
(* timeseries whose signatures differ, as two that share one share an age. *)
NothingOutlivesTwoCollections ==
  \A j \in Jobs : jobsMap[j] # None =>
    /\ swept[j][0] < 2
    /\ \A s \in Series : tsiMap[jobsMap[j]][Signature(s)] # None => swept[j][s] < 2

=============================================================================
