----------------------- MODULE PrometheusScrapeProofs -----------------------
(***************************************************************************)
(* The Prometheus receiver, for any targets, pages and number of scrapes:  *)
(* no transaction is without its metadata service, nothing scraped after   *)
(* the stop is sent, and what is sent is built from a whole page that its  *)
(* target answered.                                                        *)
(***************************************************************************)
EXTENDS PrometheusScrape, DataLemmas

-----------------------------------------------------------------------------
(* What the steps need to know of the shape of the state; what passed its  *)
(* check is the next sample, and not a stale marker.                       *)
Shape ==
  /\ DOMAIN loop = Targets
  /\ DOMAIN tx = Targets
  /\ \A t \in Targets :
        /\ DOMAIN tx[t] = {"open", "page", "at", "checked", "ms", "isNew", "b"}
        /\ tx[t].at \in Nat
        /\ tx[t].checked => ~AllAdded(t) /\ Sample(t).v # NaN

(* The loops are idle until the manager runs, and by then it was set.      *)
ServiceInv ==
  /\ Shape
  /\ started \in {"set", "running"} => mc
  /\ \A t \in Targets : loop[t] # "idle" \/ tx[t].open => started = "running"
  /\ ServiceIsThere

(* A value is left that can no longer pass its check.                      *)
Unfinished(t) ==
  \E i \in Unchecked(t) .. Len(tx[t].page) : tx[t].page[i].v # NaN

(* Once stopped, a transaction that was not whole sends nothing: it has    *)
(* no value that passed its check, or one that still has to.               *)
StopInv ==
  /\ Shape
  /\ stopped => \A t \in Targets \ whole :
                    tx[t].open => (tx[t].isNew /\ ~tx[t].checked) \/ Unfinished(t)

-----------------------------------------------------------------------------
LEMMA NoTxShape ==
  /\ DOMAIN NoTx = {"open", "page", "at", "checked", "ms", "isNew", "b"}
  /\ NoTx.at = 0 /\ NoTx.isNew /\ ~NoTx.open /\ ~NoTx.checked
BY DEF NoTx

LEMMA ShapeInit == Init => Shape
BY NoTxShape DEF Init, Shape

LEMMA ShapeStep == Shape /\ [Next]_vars => Shape'
<1> SUFFICES ASSUME Shape, [Next]_vars PROVE Shape'
  OBVIOUS
<1> USE DEF Shape
<1>1. CASE UNCHANGED <<loop, tx>>
  BY <1>1 DEF AllAdded, Sample
<1>2. ASSUME NEW t \in Targets, BeginScrape(t)
      PROVE  Shape'
  BY <1>2 DEF BeginScrape, AllAdded, Sample
<1>3. ASSUME NEW t \in Targets, Appender(t)
      PROVE  Shape'
  <2>1. PICK page \in PagesFor(t) :
           tx' = [tx EXCEPT ![t] = [NoTx EXCEPT !.open = TRUE, !.page = page, !.ms = mc]]
    BY <1>3 DEF Appender
  <2>2. tx'[t] = [NoTx EXCEPT !.open = TRUE, !.page = page, !.ms = mc]
    BY <2>1
  <2>3. /\ DOMAIN tx'[t] = {"open", "page", "at", "checked", "ms", "isNew", "b"}
        /\ tx'[t].at = 0 /\ ~tx'[t].checked
    BY <2>2, NoTxShape
  <2>4. \A u \in Targets \ {t} : tx'[u] = tx[u]
    BY <2>1
  <2> QED  BY <1>3, <2>1, <2>3, <2>4 DEF Appender, AllAdded, Sample
<1>4. ASSUME NEW t \in Targets, SkipStale(t)
      PROVE  Shape'
  <2>1. ~tx[t].checked
    BY <1>4 DEF SkipStale
  <2> QED  BY <1>4, <2>1 DEF SkipStale, AllAdded, Sample
<1>5. ASSUME NEW t \in Targets, AddFast(t)
      PROVE  Shape'
  <2>1. /\ ~tx'[t].checked /\ tx'[t].at = tx[t].at + 1
        /\ DOMAIN tx'[t] = DOMAIN tx[t] /\ DOMAIN tx' = DOMAIN tx
        /\ loop' = loop
        /\ \A u \in Targets \ {t} : tx'[u] = tx[u]
    BY <1>5 DEF AddFast
  <2> QED  BY <2>1 DEF AllAdded, Sample
<1>6. ASSUME NEW t \in Targets, Rollback(t)
      PROVE  Shape'
  <2>1. tx' = [tx EXCEPT ![t] = NoTx] /\ DOMAIN loop' = DOMAIN loop
    BY <1>6 DEF Rollback
  <2> QED  BY <2>1, NoTxShape DEF AllAdded, Sample
<1>7. ASSUME NEW t \in Targets, Commit(t)
      PROVE  Shape'
  <2>1. tx' = [tx EXCEPT ![t] = NoTx]
    BY <1>7 DEF Commit
  <2>2. DOMAIN loop' = DOMAIN loop
    BY <1>7 DEF Commit
  <2> QED  BY <2>1, <2>2, NoTxShape DEF AllAdded, Sample
<1>8. ASSUME NEW t \in Targets, CheckContext(t)
      PROVE  Shape'
  BY <1>8 DEF CheckContext, AllAdded, Sample
<1> QED
  BY <1>1, <1>2, <1>3, <1>4, <1>5, <1>6, <1>7, <1>8
     DEF Next, LoopStep, vars, NewOcaStore, BecomeReady, SetService, Run,
         StopMetricsReception, Vanish

-----------------------------------------------------------------------------
LEMMA ServiceInit == Init => ServiceInv
BY ShapeInit, NoTxShape DEF Init, ServiceInv, ServiceIsThere

LEMMA ServiceStep == ServiceInv /\ [Next]_vars => ServiceInv'
<1> SUFFICES ASSUME ServiceInv, [Next]_vars PROVE ServiceInv'
  OBVIOUS
<1>0. Shape'
  BY ShapeStep DEF ServiceInv
<1> USE DEF ServiceInv, Shape, ServiceIsThere
<1>1. CASE NewOcaStore \/ BecomeReady \/ SetService \/ Run \/ StopMetricsReception
  BY <1>0, <1>1 DEF NewOcaStore, BecomeReady, SetService, Run, StopMetricsReception
<1>2. ASSUME NEW t \in Targets, Vanish(t)
      PROVE  ServiceInv'
  BY <1>0, <1>2 DEF Vanish
<1>3. ASSUME NEW t \in Targets, BeginScrape(t)
      PROVE  ServiceInv'
  BY <1>0, <1>3 DEF BeginScrape, LoopsRun
<1>4. ASSUME NEW t \in Targets, Appender(t)
      PROVE  ServiceInv'
  <2>1. PICK page \in PagesFor(t) :
           tx' = [tx EXCEPT ![t] = [NoTx EXCEPT !.open = TRUE, !.page = page, !.ms = mc]]
    BY <1>4 DEF Appender
  <2>2. tx'[t].ms = mc
    BY <2>1, NoTxShape
  <2>3. \A u \in Targets \ {t} : tx'[u] = tx[u]
    BY <2>1
  <2>4. mc /\ started = "running" /\ UNCHANGED <<started, mc, loop>>
    BY <1>4 DEF Appender
  <2> QED  BY <1>0, <2>2, <2>3, <2>4
<1>5. ASSUME NEW t \in Targets, SkipStale(t)
      PROVE  ServiceInv'
  BY <1>0, <1>5 DEF SkipStale
<1>6. ASSUME NEW t \in Targets, CheckContext(t) \/ AddFast(t)
      PROVE  ServiceInv'
  BY <1>0, <1>6 DEF CheckContext, AddFast
<1>7. ASSUME NEW t \in Targets, Rollback(t) \/ Commit(t)
      PROVE  ServiceInv'
  <2>1. started = "running"
    BY <1>7 DEF Rollback, Commit
  <2>2. UNCHANGED <<started, mc>> /\ tx' = [tx EXCEPT ![t] = NoTx]
    BY <1>7 DEF Rollback, Commit
  <2>3. tx'[t] = NoTx /\ \A u \in Targets \ {t} : tx'[u] = tx[u]
    BY <2>2
  <2> QED  BY <1>0, <2>1, <2>2, <2>3, NoTxShape
<1>8. CASE UNCHANGED vars
  BY <1>0, <1>8 DEF vars
<1> QED
  BY <1>1, <1>2, <1>3, <1>4, <1>5, <1>6, <1>7, <1>8 DEF Next, LoopStep

(* The store says it is ready before it has a metadata service; no         *)
(* transaction is created between the two, whatever the loops do.          *)
THEOREM ServiceAlwaysThere == Spec => []ServiceIsThere
<1>1. ServiceInv => ServiceIsThere
  BY DEF ServiceInv
<1> QED  BY ServiceInit, ServiceStep, <1>1, PTL DEF Spec

-----------------------------------------------------------------------------
LEMMA StopInit == Init => StopInv
BY ShapeInit, NoTxShape DEF Init, StopInv

(* Until it stops the transaction goes on as it was; a stale marker is not *)
(* the value that is left.                                                 *)
LEMMA StopStep == StopInv /\ [Next]_vars => StopInv'
<1> SUFFICES ASSUME StopInv, [Next]_vars PROVE StopInv'
  OBVIOUS
<1>0. Shape'
  BY ShapeStep DEF StopInv
<1> USE DEF StopInv, Shape
<1>1. CASE UNCHANGED <<stopped, tx, whole>>
  BY <1>0, <1>1 DEF Unfinished, Unchecked
<1>2. CASE StopMetricsReception
  BY <1>0, <1>2 DEF StopMetricsReception, OnlyStaleLeft, Unfinished, Unchecked
<1>3. ASSUME NEW t \in Targets, Appender(t)
      PROVE  StopInv'
  <2>1. PICK page \in PagesFor(t) :
           tx' = [tx EXCEPT ![t] = [NoTx EXCEPT !.open = TRUE, !.page = page, !.ms = mc]]
    BY <1>3 DEF Appender
  <2>2. tx'[t].isNew /\ ~tx'[t].checked
    BY <2>1, NoTxShape
  <2>3. \A u \in Targets \ {t} : tx'[u] = tx[u]
    BY <2>1
  <2>4. UNCHANGED <<stopped, whole>>
    BY <1>3 DEF Appender
  <2>5. \A u \in Targets \ {t} : Unfinished(u) => Unfinished(u)'
    BY <2>3 DEF Unfinished, Unchecked
  <2> QED  BY <1>0, <2>2, <2>3, <2>4, <2>5
<1>4. ASSUME NEW t \in Targets, SkipStale(t)
      PROVE  StopInv'
  <2>1. /\ tx'[t].isNew = tx[t].isNew /\ tx'[t].page = tx[t].page
        /\ tx'[t].open = tx[t].open /\ tx'[t].at = tx[t].at + 1
        /\ tx'[t].checked = tx[t].checked
        /\ \A u \in Targets \ {t} : tx'[u] = tx[u]
    BY <1>4 DEF SkipStale
  <2>2. tx[t].page[tx[t].at + 1].v = NaN /\ ~tx[t].checked
    BY <1>4 DEF SkipStale, Sample
  <2>3. Unfinished(t) => Unfinished(t)'
    <3>1. SUFFICES ASSUME NEW i \in tx[t].at + 1 .. Len(tx[t].page),
                          tx[t].page[i].v # NaN
                   PROVE  Unfinished(t)'
      BY <2>2 DEF Unfinished, Unchecked
    <3>2. i # tx[t].at + 1
      BY <2>2, <3>1
    <3>3. i \in (tx[t].at + 1) + 1 .. Len(tx[t].page)
      BY <3>2
    <3> QED  BY <2>1, <2>2, <3>1, <3>3 DEF Unfinished, Unchecked
  <2>4. UNCHANGED <<stopped, whole>>
    BY <1>4 DEF SkipStale
  <2>5. \A u \in Targets \ {t} : Unfinished(u) => Unfinished(u)'
    BY <2>1 DEF Unfinished, Unchecked
  <2> QED  BY <1>0, <2>1, <2>3, <2>4, <2>5
<1>5. ASSUME NEW t \in Targets, CheckContext(t)
      PROVE  StopInv'
  BY <1>0, <1>5 DEF CheckContext, Aborted
<1>6. ASSUME NEW t \in Targets, AddFast(t)
      PROVE  StopInv'
  <2>1. /\ tx[t].checked /\ ~tx'[t].checked
        /\ tx'[t].page = tx[t].page /\ tx'[t].at = tx[t].at + 1
        /\ tx'[t].open = tx[t].open
        /\ UNCHANGED <<stopped, whole>>
        /\ \A u \in Targets \ {t} : tx'[u] = tx[u]
    BY <1>6 DEF AddFast
  <2>2. Unchecked(t)' = Unchecked(t)
    BY <2>1 DEF Unchecked
  <2>3. Unfinished(t) => Unfinished(t)'
    BY <2>1, <2>2 DEF Unfinished
  <2>4. \A u \in Targets \ {t} : Unfinished(u) => Unfinished(u)'
    BY <2>1 DEF Unfinished, Unchecked
  <2> QED  BY <1>0, <2>1, <2>3, <2>4
<1>7. ASSUME NEW t \in Targets, Rollback(t) \/ Commit(t)
      PROVE  StopInv'
  <2>1. /\ stopped' = stopped /\ tx' = [tx EXCEPT ![t] = NoTx]
        /\ whole \subseteq whole' \cup {t}
    BY <1>7 DEF Rollback, Commit
  <2>2. ~tx'[t].open /\ \A u \in Targets \ {t} : tx'[u] = tx[u]
    BY <2>1, NoTxShape
  <2> QED  BY <1>0, <2>1, <2>2 DEF Unfinished, Unchecked
<1> QED
  BY <1>1, <1>2, <1>3, <1>4, <1>5, <1>6, <1>7
     DEF Next, LoopStep, vars, NewOcaStore, BecomeReady, SetService, Run,
         Vanish, BeginScrape

(* A commit after the stop is of a page that was whole at the stop.        *)
LEMMA SendsOnlyWhole ==
  ASSUME StopInv, [Next]_vars
  PROVE  \A m \in sent' \ sent : stopped => m.target \in whole
<1>1. CASE UNCHANGED sent
  BY <1>1
<1>2. ASSUME NEW t \in Targets, Commit(t)
      PROVE  \A m \in sent' \ sent : stopped => m.target \in whole
  <2>1. tx[t].open /\ tx[t].at = Len(tx[t].page) /\ tx[t].at \in Nat
    BY <1>2 DEF Commit, AllAdded, StopInv, Shape
  <2>2. ~Unfinished(t)
    <3>1. Unchecked(t) \in {tx[t].at + 1, tx[t].at + 2}
      BY DEF Unchecked
    <3>2. Unchecked(t) .. Len(tx[t].page) = {}
      BY <2>1, <3>1
    <3> QED  BY <3>2 DEF Unfinished
  <2>3. \/ sent' = sent
        \/ /\ ~tx[t].isNew
           /\ \A m \in sent' \ sent : m.target = t
    BY <1>2 DEF Commit
  <2> QED  BY <2>1, <2>2, <2>3 DEF StopInv
<1> QED
  BY <1>1, <1>2
     DEF Next, LoopStep, vars, NewOcaStore, BecomeReady, SetService, Run,
         StopMetricsReception, Vanish, BeginScrape, Appender, SkipStale,
         CheckContext, AddFast, Rollback

(* The scrape loops outlive the stop, which only cancels the context their *)
(* transactions look at before each value: none of them sends a page some  *)
(* of whose values had still to pass that check.                           *)
THEOREM StopHolds == Spec => StopIsFinal
<1>1. StopInv /\ [Next]_vars => [\A m \in sent' \ sent : stopped => m.target \in whole]_vars
  BY SendsOnlyWhole
<1> QED  BY StopInit, StopStep, <1>1, PTL DEF Spec, StopIsFinal

-----------------------------------------------------------------------------
(* The builder of a page after k of its samples, as a loop.                *)
AfterSample(page, b, k) == IF page[k].v = NaN THEN b ELSE AddDataPoint(b, page[k])
Building(page, K, g) ==
  g = [k \in 0..K |-> IF k = 0 THEN newMetricBuilder ELSE AfterSample(page, g[k - 1], k)]

LEMMA BuildingExists ==
  ASSUME NEW page
  PROVE  \A K \in Nat : \E g : Building(page, K, g)
<1> DEFINE T == {K \in Nat : \E g : Building(page, K, g)}
<1>1. 0 \in T
  <2> DEFINE g == [k \in 0..0 |-> newMetricBuilder]
  <2>1. Building(page, 0, g)
    <3>1. \A k \in 0..0 : k = 0
      OBVIOUS
    <3> QED  BY <3>1 DEF Building
  <2> QED  BY <2>1
<1>2. ASSUME NEW K \in Nat, K \in T PROVE K + 1 \in T
  <2>1. PICK g : Building(page, K, g)
    BY <1>2
  <2> DEFINE h == [k \in 0..(K + 1) |->
                     IF k = 0 THEN newMetricBuilder ELSE AfterSample(page, g[k - 1], k)]
  <2>2. \A k \in 0..K : h[k] = g[k]
    <3>1. \A k \in 0..K : k \in 0..(K + 1)
      OBVIOUS
    <3>2. \A k \in 0..K : g[k] = IF k = 0 THEN newMetricBuilder
                                 ELSE AfterSample(page, g[k - 1], k)
      BY <2>1 DEF Building
    <3> QED  BY <3>1, <3>2
  <2>3. \A k \in 0..(K + 1) : k # 0 => k - 1 \in 0..K
    OBVIOUS
  <2>4. \A k \in 0..(K + 1) : h[k] = IF k = 0 THEN newMetricBuilder
                                     ELSE AfterSample(page, h[k - 1], k)
    BY <2>2, <2>3
  <2>5. h = [k \in 0..(K + 1) |-> h[k]]
    OBVIOUS
  <2> HIDE DEF h
  <2>6. Building(page, K + 1, h)
    BY <2>4, <2>5 DEF Building
  <2> QED  BY <2>6
<1> HIDE DEF T
<1>3. \A K \in Nat : K \in T
  BY <1>1, <1>2, SetInduction
<1> QED  BY <1>3 DEF T

(* BuilderAfter is that loop: it starts with a new builder and each sample *)
(* that is not a stale marker is added.                                    *)
LEMMA BuilderSteps ==
  ASSUME NEW page, Len(page) \in Nat
  PROVE  /\ BuilderAfter(page)[0] = newMetricBuilder
         /\ \A k \in 1..Len(page) :
               BuilderAfter(page)[k] = AfterSample(page, BuilderAfter(page)[k - 1], k)
<1> DEFINE g == CHOOSE g : Building(page, Len(page), g)
<1>1. Building(page, Len(page), g)
  BY BuildingExists
<1>2. BuilderAfter(page) = g
  BY DEF BuilderAfter, Building, AfterSample
<1> HIDE DEF g
<1>3. 0 \in 0..Len(page) /\ \A k \in 1..Len(page) : k \in 0..Len(page) /\ k # 0
  OBVIOUS
<1>4. \A k \in 0..Len(page) : g[k] = IF k = 0 THEN newMetricBuilder
                                     ELSE AfterSample(page, g[k - 1], k)
  BY <1>1 DEF Building
<1> QED  BY <1>2, <1>3, <1>4

-----------------------------------------------------------------------------
(* An open transaction has added the samples of its page one by one, as if *)
(* it were alone; it has data only if a value was added, and never data of *)
(* the report.                                                             *)
Follows(t) ==
  /\ loop[t] \in {"page", "stale", "report"}
  /\ tx[t].page \in PagesFor(t)
  /\ tx[t].at \in 0..Len(tx[t].page)
  /\ tx[t].b = BuilderAfter(tx[t].page)[tx[t].at]
  /\ \A k \in 1..tx[t].at : Accepted(tx[t].page, k)
  /\ ~tx[t].isNew => \E k \in 1..tx[t].at : tx[t].page[k].v # NaN
  /\ loop[t] = "report" => ~tx[t].b.hasData

(* What was sent: the metrics of a page that its target answered, none of  *)
(* whose samples was refused.                                              *)
BuiltFromPage ==
  \A m \in sent : /\ m.page \in Pages[m.target]
                  /\ m.target \in Targets
                  /\ \A k \in 1..Len(m.page) : Accepted(m.page, k)
                  /\ m.metrics = Metrics(m.page)
                  /\ m.metrics # <<>>

BuilderInv ==
  /\ Shape
  /\ \A t \in Targets : loop[t] \in {"idle", "page", "stale", "report"}
  /\ \A t \in Targets : tx[t].open => Follows(t)
  /\ BuiltFromPage

-----------------------------------------------------------------------------
(* Whatever a loop appends is a sequence of samples.                       *)
LEMMA PagesAreSequences ==
  ASSUME NEW t \in Targets, loop[t] \in {"page", "stale", "report"},
         NEW page \in PagesFor(t)
  PROVE  /\ Len(page) \in Nat /\ DOMAIN page = 1..Len(page)
         /\ loop[t] = "page" => page \in Pages[t]
         /\ loop[t] = "stale" => \A k \in 1..Len(page) : page[k].v = NaN
         /\ loop[t] = "report" => \A k \in 1..Len(page) : shouldSkip(page[k].name)
<1>1. CASE loop[t] = "page"
  <2>1. page \in Pages[t]
    BY <1>1 DEF PagesFor
  <2>2. page \in Seq(Range(page))
    BY <2>1, PagesAssumption
  <2> QED  BY <1>1, <2>1, <2>2, LenProperties
<1>2. CASE loop[t] = "stale"
  <2>1. page \in StalePages
    BY <1>2 DEF PagesFor
  <2>2. page \in Seq(Range(page)) /\ \A k \in DOMAIN page : page[k].v = NaN
    BY <2>1, PagesAssumption
  <2> QED  BY <1>2, <2>2, LenProperties
<1>3. CASE loop[t] = "report"
  <2>1. page = ReportPage
    BY <1>3 DEF PagesFor
  <2>2. page \in Seq(Range(page)) /\ \A k \in DOMAIN page : shouldSkip(page[k].name)
    BY <2>1, PagesAssumption
  <2> QED  BY <1>3, <2>2, LenProperties
<1> QED  BY <1>1, <1>2, <1>3

LEMMA BuilderInit == Init => BuilderInv
BY ShapeInit, NoTxShape DEF Init, BuilderInv, BuiltFromPage

(* The steps of others leave a transaction as it follows its page.         *)
LEMMA OthersFollow ==
  ASSUME NEW t \in Targets, Follows(t), loop'[t] = loop[t], tx'[t] = tx[t]
  PROVE  Follows(t)'
BY DEF Follows, PagesFor

LEMMA AppenderFollows ==
  ASSUME BuilderInv, NEW t \in Targets, Appender(t), Shape'
  PROVE  BuilderInv'
<1>1. PICK page \in PagesFor(t) :
         tx' = [tx EXCEPT ![t] = [NoTx EXCEPT !.open = TRUE, !.page = page, !.ms = mc]]
  BY DEF Appender
<1>2. UNCHANGED <<loop, sent>> /\ loop[t] \in {"page", "stale", "report"}
  BY DEF Appender, BuilderInv
<1>3. Len(page) \in Nat
  BY <1>2, PagesAreSequences
<1>4. tx'[t] = [NoTx EXCEPT !.open = TRUE, !.page = page, !.ms = mc]
  BY <1>1 DEF BuilderInv, Shape
<1>5. /\ tx'[t].page = page /\ tx'[t].at = 0 /\ tx'[t].b = newMetricBuilder
      /\ tx'[t].isNew
  BY <1>4 DEF NoTx
<1>6. PagesFor(t)' = PagesFor(t)
  BY <1>2 DEF PagesFor
<1>7. ~newMetricBuilder.hasData
  BY DEF newMetricBuilder
<1>8. BuilderAfter(page)[0] = newMetricBuilder
  BY <1>3, BuilderSteps
<1>9. Follows(t)'
  BY <1>2, <1>3, <1>5, <1>6, <1>7, <1>8 DEF Follows
<1>10. \A u \in Targets \ {t} : tx'[u] = tx[u]
  BY <1>1 DEF BuilderInv, Shape
<1>11. ASSUME NEW u \in Targets, tx'[u].open PROVE Follows(u)'
  BY <1>2, <1>9, <1>10, <1>11, OthersFollow DEF BuilderInv
<1> QED  BY <1>2, <1>11 DEF BuilderInv, BuiltFromPage

(* A check of the context changes nothing that follows the page.           *)
LEMMA CheckFollows ==
  ASSUME BuilderInv, NEW t \in Targets, CheckContext(t), Shape'
  PROVE  BuilderInv'
<1>1. /\ UNCHANGED <<loop, sent>>
      /\ tx'[t].page = tx[t].page /\ tx'[t].at = tx[t].at /\ tx'[t].b = tx[t].b
      /\ tx'[t].isNew = tx[t].isNew /\ tx'[t].open = tx[t].open
      /\ \A u \in Targets \ {t} : tx'[u] = tx[u]
  BY DEF CheckContext, BuilderInv, Shape
<1>2. ASSUME NEW u \in Targets, tx'[u].open PROVE Follows(u)'
  <2>1. CASE u = t
    BY <1>1, <1>2, <2>1 DEF BuilderInv, Follows, PagesFor
  <2>2. CASE u # t
    BY <1>1, <1>2, <2>2, OthersFollow DEF BuilderInv
  <2> QED  BY <2>1, <2>2
<1> QED  BY <1>1, <1>2 DEF BuilderInv, BuiltFromPage

(* One more sample of the page, skipped or added.                          *)
LEMMA SampleFollows ==
  ASSUME BuilderInv, NEW t \in Targets, SkipStale(t) \/ AddFast(t), Shape'
  PROVE  BuilderInv'
<1> DEFINE page == tx[t].page
           k == tx[t].at + 1
<1>0. Shape /\ tx[t].open /\ UNCHANGED <<loop, sent>>
  BY DEF BuilderInv, SkipStale, AddFast
<1>1. Follows(t)
  BY <1>0 DEF BuilderInv
<1>2. /\ tx'[t].page = page /\ tx'[t].at = k
      /\ tx'[t].open = tx[t].open
      /\ \A u \in Targets \ {t} : tx'[u] = tx[u]
  BY DEF SkipStale, AddFast, BuilderInv, Shape
<1>3. loop[t] \in {"page", "stale", "report"} /\ page \in PagesFor(t)
  BY <1>1 DEF Follows
<1>4. /\ Len(page) \in Nat
      /\ loop[t] = "report" => \A i \in 1..Len(page) : shouldSkip(page[i].name)
  BY <1>3, PagesAreSequences
<1>5. tx[t].at \in 0..Len(page) /\ tx[t].at # Len(page)
  BY <1>0, <1>1 DEF Follows, SkipStale, AddFast, AllAdded, Shape
<1>6. /\ k \in 1..Len(page) /\ k - 1 = tx[t].at /\ k \in 0..Len(page)
      /\ \A i \in 1..k : i \in 1..tx[t].at \/ i = k
      /\ \A i \in 1..tx[t].at : i \in 1..k
      /\ k \in 1..k
  BY <1>4, <1>5
<1>7. Sample(t) = page[k]
  BY DEF Sample
<1>8. tx[t].b = BuilderAfter(page)[k - 1]
  BY <1>1, <1>6 DEF Follows
<1>9. BuilderAfter(page)[k] = AfterSample(page, BuilderAfter(page)[k - 1], k)
  BY <1>4, <1>6, BuilderSteps
<1>10. /\ Accepted(page, k)
       /\ tx'[t].b = BuilderAfter(page)[k]
       /\ ~tx'[t].isNew => \E i \in 1..k : page[i].v # NaN
       /\ loop[t] = "report" => ~tx'[t].b.hasData
  <2>1. CASE SkipStale(t)
    <3>1. tx'[t].b = tx[t].b /\ tx'[t].isNew = tx[t].isNew /\ page[k].v = NaN
      BY <1>7, <2>1 DEF SkipStale, BuilderInv, Shape
    <3>2. Accepted(page, k) /\ tx'[t].b = BuilderAfter(page)[k]
      BY <1>8, <1>9, <3>1 DEF Accepted, AfterSample
    <3>3. ~tx'[t].isNew => \E i \in 1..k : page[i].v # NaN
      BY <1>1, <1>6, <3>1 DEF Follows
    <3> QED  BY <1>1, <3>1, <3>2, <3>3 DEF Follows
  <2>2. CASE AddFast(t)
    <3>1. /\ tx'[t].b = AddDataPoint(tx[t].b, Sample(t))
          /\ Sample(t).v # NaN /\ ~AddFails(tx[t].b, Sample(t))
          /\ tx'[t].isNew = FALSE
      BY <2>2 DEF AddFast, AddFastFails, BuilderInv, Shape
    <3>2. Accepted(page, k) /\ tx'[t].b = BuilderAfter(page)[k]
      BY <1>7, <1>8, <1>9, <3>1 DEF Accepted, AfterSample
    <3>3. \E i \in 1..k : page[i].v # NaN
      BY <1>6, <1>7, <3>1
    <3>4. loop[t] = "report" => tx'[t].b = tx[t].b
      BY <1>4, <1>6, <1>7, <3>1 DEF AddDataPoint
    <3> QED  BY <1>1, <3>2, <3>3, <3>4 DEF Follows
  <2> QED  BY <2>1, <2>2
<1>11. PagesFor(t)' = PagesFor(t)
  BY <1>0 DEF PagesFor
<1> HIDE DEF k, page
<1>12. \A i \in 1..k : Accepted(page, i)
  BY <1>1, <1>6, <1>10 DEF Follows, page
<1>13. Follows(t)'
  BY <1>0, <1>2, <1>3, <1>6, <1>10, <1>11, <1>12 DEF Follows
<1>14. ASSUME NEW u \in Targets, tx'[u].open PROVE Follows(u)'
  BY <1>0, <1>2, <1>13, <1>14, OthersFollow DEF BuilderInv
<1> QED  BY <1>0, <1>14 DEF BuilderInv, BuiltFromPage

(* What a commit sends: only a page has values that are not skipped.       *)
LEMMA CommitSends ==
  ASSUME BuilderInv, NEW t \in Targets, Commit(t)
  PROVE  BuiltFromPage'
<1>1. CASE sent' = sent
  BY <1>1 DEF BuiltFromPage, BuilderInv
<1>2. CASE /\ ~tx[t].isNew /\ Build(tx[t].b) # <<>>
           /\ sent' = sent \cup {[target |-> t, scrape |-> scrapes[t],
                                  page |-> tx[t].page, metrics |-> Build(tx[t].b)]}
  <2>1. Follows(t) /\ tx[t].at = Len(tx[t].page)
    BY DEF Commit, AllAdded, BuilderInv
  <2>2. loop[t] \in {"page", "stale", "report"} /\ tx[t].page \in PagesFor(t)
    BY <2>1 DEF Follows
  <2>3. loop[t] # "report"
    BY <1>2, <2>1 DEF Follows, Build
  <2>4. \E k \in 1..Len(tx[t].page) : tx[t].page[k].v # NaN
    BY <1>2, <2>1 DEF Follows
  <2>5. loop[t] # "stale"
    BY <2>2, <2>4, PagesAreSequences
  <2>6. tx[t].page \in Pages[t]
    BY <2>2, <2>3, <2>5, PagesAreSequences
  <2>7. \A k \in 1..Len(tx[t].page) : Accepted(tx[t].page, k)
    BY <2>1 DEF Follows
  <2>8. Build(tx[t].b) = Metrics(tx[t].page)
    BY <2>1 DEF Follows, Metrics
  <2> QED  BY <1>2, <2>6, <2>7, <2>8 DEF BuiltFromPage, BuilderInv
<1> QED  BY <1>1, <1>2 DEF Commit

LEMMA CommitFollows ==
  ASSUME BuilderInv, NEW t \in Targets, Rollback(t) \/ Commit(t), Shape'
  PROVE  BuilderInv'
<1>1. /\ tx[t].open /\ tx' = [tx EXCEPT ![t] = NoTx]
      /\ \A u \in Targets \ {t} : loop'[u] = loop[u]
  BY DEF Rollback, Commit, BuilderInv, Shape
<1>2. ~tx'[t].open /\ \A u \in Targets \ {t} : tx'[u] = tx[u]
  BY <1>1, NoTxShape DEF BuilderInv, Shape
<1>3. loop[t] \in {"page", "stale", "report"}
  BY <1>1 DEF BuilderInv, Follows
<1>4. loop'[t] \in {"idle", "page", "stale", "report"}
  BY <1>3 DEF Rollback, Commit, AfterFailure, BuilderInv, Shape
<1>5. BuiltFromPage'
  BY CommitSends DEF Rollback, BuilderInv, BuiltFromPage
<1>6. ASSUME NEW u \in Targets, tx'[u].open PROVE Follows(u)'
  BY <1>1, <1>2, <1>6, OthersFollow DEF BuilderInv
<1> QED  BY <1>1, <1>4, <1>5, <1>6 DEF BuilderInv

LEMMA BuilderStep == BuilderInv /\ [Next]_vars => BuilderInv'
<1> SUFFICES ASSUME BuilderInv, [Next]_vars PROVE BuilderInv'
  OBVIOUS
<1>0. Shape'
  BY ShapeStep DEF BuilderInv
<1>1. CASE UNCHANGED <<loop, tx, sent>>
  BY <1>0, <1>1, OthersFollow DEF BuilderInv, BuiltFromPage
<1>2. ASSUME NEW t \in Targets, BeginScrape(t)
      PROVE  BuilderInv'
  <2>1. /\ loop[t] = "idle" /\ UNCHANGED <<tx, sent>>
        /\ loop'[t] = "page" /\ \A u \in Targets \ {t} : loop'[u] = loop[u]
    BY <1>2 DEF BeginScrape, BuilderInv, Shape
  <2>2. ~tx[t].open
    BY <2>1 DEF BuilderInv, Follows
  <2>3. ASSUME NEW u \in Targets, tx'[u].open PROVE Follows(u)'
    BY <2>1, <2>2, <2>3, OthersFollow DEF BuilderInv
  <2> QED  BY <1>0, <2>1, <2>3 DEF BuilderInv, BuiltFromPage
<1>3. ASSUME NEW t \in Targets, LoopStep(t)
      PROVE  BuilderInv'
  BY <1>0, <1>2, <1>3, AppenderFollows, CheckFollows,
     SampleFollows, CommitFollows DEF LoopStep
<1> QED
  BY <1>1, <1>3
     DEF Next, vars, NewOcaStore, BecomeReady, SetService, Run,
         StopMetricsReception, Vanish

(* Whatever the loops, the stop, discovery and the consumer do meanwhile,  *)
(* what the consumer gets was built from every sample of one page of the   *)
(* target, none of them refused: nothing of two pages, of a page that was  *)
(* aborted on the way, of stale markers or of the report on the scrape.    *)
THEOREM SentIsBuilt == Spec => []BuiltFromPage
<1>1. BuilderInv => BuiltFromPage
  BY DEF BuilderInv
<1> QED  BY BuilderInit, BuilderStep, <1>1, PTL DEF Spec

=============================================================================
