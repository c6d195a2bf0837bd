-------------------------- MODULE PrometheusScrape --------------------------
(* The Prometheus receiver: its start and stop, the store the scrape loops *)
(* take their transactions from, and the transactions themselves, while a  *)
(* loop for each target, the manager's and external, scrapes and reports.  *)
(* What Commit builds goes to the consumer as it is, as with adjust_metrics*)
(* off; MetricsAdjuster models what is done to it otherwise.               *)
EXTENDS PrometheusMetrics

CONSTANTS Targets,
          Pages,         \* what each target may answer
          StalePages,    \* the stale markers of what it answered before
          ReportPage,    \* the internal metrics of a scrape
          MaxScrapes     \* scrapes of each target, to bound the run

ASSUME ScrapesAssumption == MaxScrapes \in Nat

(* The scrape loop sends markers alone for what a target no longer says,   *)
(* and reports under names of its own.                                     *)
ASSUME PagesAssumption ==
    /\ \A p \in (UNION {Pages[t] : t \in Targets}) \cup StalePages \cup {ReportPage} :
          p \in Seq(Range(p))
    /\ \A p \in StalePages : \A i \in DOMAIN p : p[i].v = NaN
    /\ \A i \in DOMAIN ReportPage : shouldSkip(ReportPage[i].name)

VARIABLES
    started,     \* how far StartMetricsReception is
    running,     \* the store's state: "init" or "ready"
    mc,          \* whether the store has its metadata service
    stopped,     \* whether ctx was cancelled
    known,       \* the targets the manager still knows
    loop,        \* what each scrape loop appends: "page", "stale", "report"
    scrapes,     \* the scrapes each loop has begun
    tx,          \* the transaction of each loop
    sent,        \* the pages committed, with the metrics sent for them
    whole        \* the loops whose last value had passed its check at the stop

vars == <<started, running, mc, stopped, known, loop, scrapes, tx, sent, whole>>

NoTx == [open |-> FALSE, page |-> <<>>, at |-> 0, checked |-> FALSE, ms |-> FALSE,
         isNew |-> TRUE, b |-> newMetricBuilder]

Init ==
    /\ started = "no"
    /\ running = "init"
    /\ mc = FALSE
    /\ stopped = FALSE
    /\ known = Targets
    /\ loop = [t \in Targets |-> "idle"]
    /\ scrapes = [t \in Targets |-> 0]
    /\ tx = [t \in Targets |-> NoTx]
    /\ sent = {}
    /\ whole = {}

-----------------------------------------------------------------------------
(* The receiver.  The scrape manager runs once it has been set.            *)

NewOcaStore ==
    /\ started = "no"
    /\ started' = "store"
    /\ UNCHANGED <<running, mc, stopped, known, loop, scrapes, tx, sent, whole>>

(* SetScrapeManager: the state first, then the service.                    *)
BecomeReady ==
    /\ started = "store"
    /\ running = "init"
    /\ started' = "ready"
    /\ running' = "ready"
    /\ UNCHANGED <<mc, stopped, known, loop, scrapes, tx, sent, whole>>

SetService ==
    /\ started = "ready"
    /\ started' = "set"
    /\ mc' = TRUE
    /\ UNCHANGED <<running, stopped, known, loop, scrapes, tx, sent, whole>>

Run ==
    /\ started = "set"
    /\ started' = "running"
    /\ UNCHANGED <<running, mc, stopped, known, loop, scrapes, tx, sent, whole>>

(* The first sample that has not passed its check of the context.          *)
Unchecked(t) == tx[t].at + (IF tx[t].checked THEN 2 ELSE 1)

OnlyStaleLeft(t) ==
    \A i \in Unchecked(t) .. Len(tx[t].page) : tx[t].page[i].v = NaN

(* StopMetricsReception cancels the context and no more: the loops go on.  *)
StopMetricsReception ==
    /\ started = "running"
    /\ ~stopped
    /\ stopped' = TRUE
    /\ whole' = {t \in Targets : tx[t].open /\ OnlyStaleLeft(t)}
    /\ UNCHANGED <<started, running, mc, known, loop, scrapes, tx, sent>>

(* Discovery no longer finds a target; its loop may be in the middle.      *)
Vanish(t) ==
    /\ started = "running"
    /\ t \in known
    /\ known' = known \ {t}
    /\ UNCHANGED <<started, running, mc, stopped, loop, scrapes, tx, sent, whole>>

-----------------------------------------------------------------------------
(* A scrape loop: a transaction for the page; when that is aborted one for *)
(* the stale markers alone; one for the report on the scrape.              *)

(* A plausible bug: the loops run as soon as the store accepts them.       *)
BugReadyIsEnough == running = "ready"

(* The loops run when the manager does, which has been set before that.    *)
LoopsRun == started = "running"

BeginScrape(t) ==
    /\ LoopsRun
    /\ loop[t] = "idle"
    /\ scrapes[t] < MaxScrapes
    /\ loop' = [loop EXCEPT ![t] = "page"]
    /\ scrapes' = [scrapes EXCEPT ![t] = @ + 1]
    /\ UNCHANGED <<started, running, mc, stopped, known, tx, sent, whole>>

PagesFor(t) == CASE loop[t] = "page" -> Pages[t]
                 [] loop[t] = "stale" -> StalePages
                 [] loop[t] = "report" -> {ReportPage}

(* Appender: a transaction with the store's service as it is now.          *)
Appender(t) ==
    /\ loop[t] # "idle"
    /\ tx[t] = NoTx
    /\ running = "ready"
    /\ \E page \in PagesFor(t) :
          tx' = [tx EXCEPT ![t] = [NoTx EXCEPT !.open = TRUE, !.page = page, !.ms = mc]]
    /\ UNCHANGED <<started, running, mc, stopped, known, loop, scrapes, sent, whole>>

AllAdded(t) == tx[t].at = Len(tx[t].page)
Sample(t) == tx[t].page[tx[t].at + 1]

(* Stale markers are skipped, whatever the state of the transaction.       *)
SkipStale(t) ==
    /\ tx[t].open /\ ~AllAdded(t)
    /\ Sample(t).v = NaN
    /\ tx' = [tx EXCEPT ![t].at = @ + 1]
    /\ UNCHANGED <<started, running, mc, stopped, known, loop, scrapes, sent, whole>>

(* A plausible bug: the context is looked at for the first sample only.    *)
BugFirstOnly(t) == stopped /\ tx[t].isNew

(* A value is not even begun with once the context is done.                *)
Aborted(t) == stopped

CheckContext(t) ==
    /\ tx[t].open /\ ~AllAdded(t)
    /\ Sample(t).v # NaN
    /\ ~tx[t].checked
    /\ ~Aborted(t)
    /\ tx' = [tx EXCEPT ![t].checked = TRUE]
    /\ UNCHANGED <<started, running, mc, stopped, known, loop, scrapes, sent, whole>>

(* After its check a value is refused when the target of the first one is  *)
(* not known or when it does not fit its family.                           *)
AddFastFails(t) ==
    \/ tx[t].isNew /\ t \notin known
    \/ AddFails(tx[t].b, Sample(t))

AddFast(t) ==
    /\ tx[t].open /\ tx[t].checked
    /\ ~AddFastFails(t)
    /\ tx' = [tx EXCEPT ![t].at = @ + 1, ![t].checked = FALSE, ![t].isNew = FALSE,
                        ![t].b = AddDataPoint(@, Sample(t))]
    /\ UNCHANGED <<started, running, mc, stopped, known, loop, scrapes, sent, whole>>

AfterFailure(kind) == CASE kind = "page" -> "stale"
                        [] kind = "stale" -> "report"
                        [] kind = "report" -> "idle"

(* The loop rolls back what it could not add all of.                       *)
Rollback(t) ==
    /\ tx[t].open /\ ~AllAdded(t)
    /\ Sample(t).v # NaN
    /\ IF tx[t].checked THEN AddFastFails(t) ELSE Aborted(t)
    /\ tx' = [tx EXCEPT ![t] = NoTx]
    /\ loop' = [loop EXCEPT ![t] = AfterFailure(@)]
    /\ UNCHANGED <<started, running, mc, stopped, known, scrapes, sent, whole>>

(* What is built goes to the consumer, which may fail; the loop then acts  *)
(* as after any other failure.  There may be nothing to send.              *)
Commit(t) ==
    /\ tx[t].open /\ AllAdded(t)
    /\ LET metrics == IF tx[t].isNew THEN <<>> ELSE Build(tx[t].b)
       IN  \E failed \in {FALSE, metrics # <<>>} :
            /\ sent' = IF metrics = <<>> THEN sent
                       ELSE sent \cup {[target |-> t, scrape |-> scrapes[t],
                                        page |-> tx[t].page, metrics |-> metrics]}
            /\ loop' = [loop EXCEPT ![t] =
                            IF failed THEN AfterFailure(@)
                            ELSE IF @ = "report" THEN "idle" ELSE "report"]
    /\ tx' = [tx EXCEPT ![t] = NoTx]
    /\ whole' = whole \ {t}
    /\ UNCHANGED <<started, running, mc, stopped, known, scrapes>>

LoopStep(t) ==
    \/ BeginScrape(t) \/ Appender(t) \/ SkipStale(t) \/ CheckContext(t)
    \/ AddFast(t) \/ Rollback(t) \/ Commit(t)

Next ==
    \/ NewOcaStore \/ BecomeReady \/ SetService \/ Run \/ StopMetricsReception
    \/ \E t \in Targets : Vanish(t) \/ LoopStep(t)

Spec == Init /\ [][Next]_vars

-----------------------------------------------------------------------------

(* A page as one transaction adds it, whatever runs beside it: the builder *)
(* after its first k samples, and whether none of them is refused.         *)
BuilderAfter(page) ==
    LET after[k \in 0 .. Len(page)] ==
            IF k = 0 THEN newMetricBuilder
            ELSE IF page[k].v = NaN THEN after[k - 1]
            ELSE AddDataPoint(after[k - 1], page[k])
    IN  after

Accepted(page, k) == page[k].v = NaN \/ ~AddFails(BuilderAfter(page)[k - 1], page[k])
Metrics(page) == Build(BuilderAfter(page)[Len(page)])

(* What the consumer gets of a scrape is a page that the target answered,  *)
(* each family of it once, with the labels of all its points, each series  *)
(* once, buckets that hold their own counts; and nothing of a page that    *)
(* was aborted on the way or of the report.  The exceptions are a family   *)
(* with a neighbour, whose name is its own but for _bucket, _count or      *)
(* _sum, one whose samples are scattered over the page, and one that says  *)
(* a thing twice.  Even of these a plain value is sent, unless a later one *)
(* overwrites it, of the family or of the neighbour: a counter foo_count   *)
(* after a gauge foo is sent as the value of foo.                          *)
WholePages ==
    \A m \in sent : m.page \in Pages[m.target] /\ Renders(m.metrics, m.page)

(* No transaction asks a metadata service that is not there: the store is  *)
(* declared ready before it has one.                                       *)
ServiceIsThere == \A t \in Targets : tx[t].open => tx[t].ms

(* The loops go on after the stop, and nothing they scrape is sent: only   *)
(* pages of which every value had passed its check of the context when the *)
(* receiver stopped.                                                       *)
StopIsFinal ==
    [][\A m \in sent' \ sent : stopped => m.target \in whole]_vars

=============================================================================
