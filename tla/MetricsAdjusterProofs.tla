------------------------ MODULE MetricsAdjusterProofs -----------------------
(***************************************************************************)
(* Theorems about MetricsAdjuster, for any jobs, timeseries, points and    *)
(* bounds: what is reported is relative to the last dropped point, falls   *)
(* are not reported, points are dropped for a reason only, and nothing     *)
(* outlives two collections.  They hold for timeseries whose signatures    *)
(* differ; the shapes of the maps hold for any.                            *)
(***************************************************************************)
EXTENDS MetricsAdjuster, DataLemmas

(* The hypothesis of the theorems: no other timeseries of the job has the  *)
(* signature of s, under which the map keeps it.                           *)
Alone(s) == \A r \in Series : Signature(r) = Signature(s) => r = s
SignaturesDiffer == \A s \in Series : Alone(s)

Entry(m, s) == tsiMap[m][Signature(s)]

(* What the variables that TypeOK leaves open hold.                        *)
Shapes ==
  /\ tsiMap \in [Maps -> [Signatures -> Infos \cup {None}]]
  /\ out \in [Jobs -> [Series -> [value : [Fields -> Int], start : 1..MaxScrapes] \cup {None}]]
  /\ last \in [Jobs -> [Series -> ScrapedPoints \cup {None}]]
  /\ base \in [Jobs -> [Series -> [point : ScrapedPoints, start : 1..MaxScrapes] \cup {None}]]
  /\ swept \in [Jobs -> [Watched -> Nat]]
  /\ idle \in [Jobs -> [Watched -> Nat]]

(* The map of job j, and the one its transaction uses, are maps that a     *)
(* scrape of j made; a transaction uses another map than the job's only    *)
(* when the job has none, and the map that a scrape will make is empty.    *)
MapOf(j, m) == \E n \in 1..scrapes[j] : m = <<j, n>>
Unmade(j, n) == n > scrapes[j] \/ (pc[j] = "create" /\ n = scrapes[j])

MapsOf(j) ==
  /\ jobsMap[j] # None => MapOf(j, jobsMap[j])
  /\ using[j] # None => MapOf(j, using[j]) /\ jobsMap[j] \in {None, using[j]}
  /\ pc[j] # "idle" => scrapes[j] >= 1
  /\ pc[j] = "create" => jobsMap[j] = None
  /\ \A n \in 1..MaxScrapes : Unmade(j, n) =>
       \A sig \in Signatures : tsiMap[<<j, n>>][sig] = None

(* A collection runs only when one is due, and has jobs with maps to see.  *)
Collecting ==
  /\ gcRunning => gcDue
  /\ gcDue => gcs < MaxGCs
  /\ \A j \in gcLeft : gcRunning /\ jobsMap[j] # None

TypesInv == TypeOK /\ Shapes /\ Collecting /\ \A j \in Jobs : MapsOf(j)

(* The entry of s in a map that j has or uses belongs to the last dropped  *)
(* point and to the last scraped one.                                      *)
Remembers(j, s, m) == Entry(m, s) # None =>
  /\ base[j][s] # None
  /\ Entry(m, s).initial = base[j][s].point
  /\ Entry(m, s).start = base[j][s].start
  /\ PreviousScraped(Entry(m, s)) = last[j][s]

Reported(j, s) == out[j][s] # None =>
  /\ base[j][s] # None
  /\ out[j][s].start = base[j][s].start
  /\ out[j][s].value = [f \in Fields |-> last[j][s][f] - base[j][s].point[f]]

PointsOf(j, s) ==
  /\ Reported(j, s)
  /\ \A m \in {jobsMap[j], using[j]} \ {None} : Remembers(j, s, m)

(* No collection will look at job j before gcInterval passes once more.    *)
NotDue(j) == gcDue => gcRunning /\ j \notin gcLeft

(* What was adjusted since gcInterval passed is in the map of the job and  *)
(* marked, or no collection will look at it before it passes again.        *)
FreshJob(j) ==
  /\ \A s \in Series : idle[j][0] <= idle[j][s]
  /\ idle[j][0] = 0 /\ jobsMap[j] # None => tsmMark[jobsMap[j]] \/ NotDue(j)
  /\ using[j] \notin {None, jobsMap[j]} => \A s \in Series : idle[j][s] >= 1
FreshSeries(j, s) == idle[j][s] = 0 /\ last[j][s] # None =>
  /\ jobsMap[j] # None
  /\ Entry(jobsMap[j], s) # None
  /\ Entry(jobsMap[j], s).mark \/ NotDue(j)

(* What a collection has unmarked, the next one takes.                     *)
AgeOfJob(j) == jobsMap[j] # None =>
  swept[j][0] = 0 \/ (swept[j][0] = 1 /\ ~tsmMark[jobsMap[j]])
AgeOfSeries(j, s) == jobsMap[j] # None /\ Entry(jobsMap[j], s) # None =>
  swept[j][s] = 0 \/ (swept[j][s] = 1 /\ ~Entry(jobsMap[j], s).mark)

-----------------------------------------------------------------------------
(* The constants, and what is not None.                                    *)
LEMMA Constants ==
  /\ Len(LabelsOf) \in Nat
  /\ Series = 1..Len(LabelsOf)
  /\ 0 \notin Series
  /\ \A s \in Series : Signature(s) \in Signatures /\ s \in Watched
  /\ 0 \in Watched
<1>1. Len(LabelsOf) \in Nat /\ Series = 1..Len(LabelsOf)
  BY AdjusterAssumption DEF AdjusterAssumption, Series
<1> QED  BY <1>1 DEF Signatures, Watched

Sents == [value : [Fields -> Int], start : 1..MaxScrapes]
Bases == [point : ScrapedPoints, start : 1..MaxScrapes]

LEMMA NotNone ==
  /\ \A i \in Infos : i # None
  /\ \A r \in Sents : r # None
  /\ \A b \in Bases : b # None
  /\ \A m \in Maps : m # None
<1>1. ASSUME NEW i \in Infos PROVE i # None
  BY DEF Infos, None
<1>2. ASSUME NEW r \in Sents PROVE r # None
  <2>1. "start" \in DOMAIN r
    BY DEF Sents
  <2>2. DOMAIN None = {}
    BY DEF None
  <2> QED  BY <2>1, <2>2
<1>3. ASSUME NEW b \in Bases PROVE b # None
  BY DEF Bases, None
<1>4. ASSUME NEW m \in Maps PROVE m # None
  BY DEF Maps, None
<1> QED  BY <1>1, <1>2, <1>3, <1>4

-----------------------------------------------------------------------------
(* What adjusting point p of the n-th page makes of entry i of the map,    *)
(* and what it sends.                                                      *)
Starts(p, i)     == i = None \/ IsReset(p, i)
NewEntry(p, n, i) ==
  IF Starts(p, i) THEN Initial(p, n)
  ELSE [i EXCEPT !.previous = Adjusted(p, i), !.same = FALSE, !.mark = TRUE]
NewSent(p, i) ==
  IF Starts(p, i) THEN None ELSE [value |-> Adjusted(p, i), start |-> i.start]

LEMMA NewEntryFacts ==
  ASSUME NEW p \in ScrapedPoints, NEW n \in 1..MaxScrapes, NEW i \in Infos \cup {None}
  PROVE  /\ NewEntry(p, n, i) \in Infos
         /\ NewSent(p, i) \in Sents \cup {None}
         /\ NewSent(p, i) = None <=> Starts(p, i)
         /\ NewEntry(p, n, i).mark = TRUE
         /\ NewEntry(p, n, i).initial = IF Starts(p, i) THEN p ELSE i.initial
         /\ NewEntry(p, n, i).start = IF Starts(p, i) THEN n ELSE i.start
         /\ PreviousScraped(NewEntry(p, n, i)) = p
<1>1. p \in [Fields -> Nat] /\ p \in [Fields -> Int]
  BY AdjusterAssumption DEF AdjusterAssumption
<1>2. CASE Starts(p, i)
  <2>1. NewEntry(p, n, i) = Initial(p, n) /\ NewSent(p, i) = None
    BY <1>2 DEF NewEntry, NewSent
  <2>2. Initial(p, n) \in Infos
    BY <1>1 DEF Initial, Infos
  <2>3. PreviousScraped(Initial(p, n)) = p
    BY <1>1 DEF Initial, PreviousScraped
  <2> QED  BY <1>2, <2>1, <2>2, <2>3 DEF Initial
<1>3. CASE ~Starts(p, i)
  <2>1. i \in Infos
    BY <1>3 DEF Starts
  <2>2. i.initial \in [Fields -> Nat]
    BY <2>1, AdjusterAssumption DEF AdjusterAssumption, Infos
  <2>3. Adjusted(p, i) \in [Fields -> Int]
    BY <1>1, <2>2 DEF Adjusted
  <2> DEFINE e == NewEntry(p, n, i)
  <2>4. e = [mark |-> TRUE, initial |-> i.initial, previous |-> Adjusted(p, i),
             same |-> FALSE, start |-> i.start]
    BY <1>3, <2>1 DEF NewEntry, Infos
  <2>5. e \in Infos
    BY <2>1, <2>3, <2>4 DEF Infos
  <2>6. PreviousScraped(e) = [f \in Fields |-> i.initial[f] + Adjusted(p, i)[f]]
    BY <2>4 DEF PreviousScraped
  <2>7. \A f \in Fields : i.initial[f] + Adjusted(p, i)[f] = p[f]
    BY <1>1, <2>2 DEF Adjusted
  <2>8. PreviousScraped(e) = p
    BY <1>1, <2>6, <2>7
  <2>9. NewSent(p, i) = [value |-> Adjusted(p, i), start |-> i.start]
    BY <1>3 DEF NewSent
  <2>10. NewSent(p, i) \in Sents
    BY <2>1, <2>3, <2>9 DEF Sents, Infos
  <2> QED  BY <1>3, <2>4, <2>5, <2>8, <2>10, NotNone
<1> QED  BY <1>2, <1>3

Accs == [infos : [Signatures -> Infos \cup {None}], sent : [Series -> Sents \cup {None}]]

(* One round of the loop changes one entry and one point.                  *)
LEMMA OneTimeseries ==
  ASSUME NEW page, NEW n \in 1..MaxScrapes, NEW acc \in Accs, NEW s \in Series,
         page[s] \in ScrapedPoints
  PROVE  LET new == AdjustTimeseries(page, n, acc, s)
             i   == acc.infos[Signature(s)]
         IN  /\ new \in Accs
             /\ \A sig \in Signatures : new.infos[sig] =
                  IF sig = Signature(s) THEN NewEntry(page[s], n, i) ELSE acc.infos[sig]
             /\ \A r \in Series : new.sent[r] =
                  IF r = s THEN NewSent(page[s], i) ELSE acc.sent[r]
<1> DEFINE sig == Signature(s)
           i   == acc.infos[sig]
           new == AdjustTimeseries(page, n, acc, s)
<1>1. /\ acc.infos \in [Signatures -> Infos \cup {None}]
      /\ acc.sent \in [Series -> Sents \cup {None}]
      /\ sig \in Signatures /\ i \in Infos \cup {None}
  BY Constants DEF Accs
<1>2. new = [infos |-> [acc.infos EXCEPT ![sig] = NewEntry(page[s], n, i)],
             sent  |-> [acc.sent EXCEPT ![s] = NewSent(page[s], i)]]
  <2>1. CASE Starts(page[s], i)
    BY <2>1 DEF AdjustTimeseries, Starts, NewEntry, NewSent
  <2>2. CASE ~Starts(page[s], i)
    <3>1. i \in Infos
      BY <1>1, <2>2 DEF Starts
    <3>2. [acc.infos EXCEPT ![sig].previous = Adjusted(page[s], i), ![sig].same = FALSE,
                            ![sig].mark = TRUE]
          = [acc.infos EXCEPT ![sig] = NewEntry(page[s], n, i)]
      BY <1>1, <2>2, <3>1 DEF NewEntry
    <3> QED  BY <2>2, <3>2 DEF AdjustTimeseries, Starts, NewSent
  <2> QED  BY <2>1, <2>2
<1>3. NewEntry(page[s], n, i) \in Infos /\ NewSent(page[s], i) \in Sents \cup {None}
  BY <1>1, NewEntryFacts
<1> HIDE DEF i, sig, new
<1>4. new \in Accs
  BY <1>1, <1>2, <1>3 DEF Accs
<1>5. /\ \A t \in Signatures : new.infos[t] =
           IF t = sig THEN NewEntry(page[s], n, i) ELSE acc.infos[t]
      /\ \A r \in Series : new.sent[r] = IF r = s THEN NewSent(page[s], i) ELSE acc.sent[r]
  BY <1>1, <1>2
<1> QED  BY <1>4, <1>5 DEF i, sig, new

-----------------------------------------------------------------------------
(* The loop over the page as a function of the number of rounds.           *)
Round(page, n, acc, k) ==
  IF k \in DOMAIN page THEN AdjustTimeseries(page, n, acc, k) ELSE acc
Loop(page, n, zero, K, g) ==
  g = [k \in 0..K |-> IF k = 0 THEN zero ELSE Round(page, n, g[k - 1], k)]

LEMMA LoopExists ==
  ASSUME NEW page, NEW n, NEW zero
  PROVE  \A K \in Nat : \E g : Loop(page, n, zero, K, g)
<1> DEFINE T == {K \in Nat : \E g : Loop(page, n, zero, K, g)}
<1>1. 0 \in T
  <2> DEFINE g == [k \in 0..0 |-> zero]
  <2>1. Loop(page, n, zero, 0, g)
    <3>1. \A k \in 0..0 : k = 0
      OBVIOUS
    <3> QED  BY <3>1 DEF Loop
  <2> QED  BY <2>1
<1>2. ASSUME NEW K \in Nat, K \in T PROVE K + 1 \in T
  <2>1. PICK g : Loop(page, n, zero, K, g)
    BY <1>2
  <2> DEFINE h == [k \in 0..(K + 1) |-> IF k = 0 THEN zero ELSE Round(page, n, g[k - 1], k)]
  <2>2. \A k \in 0..K : h[k] = g[k]
    <3>1. \A k \in 0..K : k \in 0..(K + 1)
      OBVIOUS
    <3>2. \A k \in 0..K : g[k] = IF k = 0 THEN zero ELSE Round(page, n, g[k - 1], k)
      BY <2>1 DEF Loop
    <3> QED  BY <3>1, <3>2
  <2>3. \A k \in 0..(K + 1) : k # 0 => k - 1 \in 0..K
    OBVIOUS
  <2>4. \A k \in 0..(K + 1) : h[k] = IF k = 0 THEN zero ELSE Round(page, n, h[k - 1], k)
    BY <2>2, <2>3
  <2>5. h = [k \in 0..(K + 1) |-> h[k]]
    OBVIOUS
  <2> HIDE DEF h
  <2>6. Loop(page, n, zero, K + 1, h)
    BY <2>4, <2>5 DEF Loop
  <2> QED  BY <2>6
<1> HIDE DEF T
<1>3. \A K \in Nat : K \in T
  BY <1>1, <1>2, SetInduction
<1> QED  BY <1>3 DEF T

LEMMA PageIsLoop ==
  ASSUME NEW page, NEW n, NEW zero
  PROVE  \E g : /\ Loop(page, n, zero, Len(LabelsOf), g)
                /\ AdjustPage(page, n, zero) = g[Len(LabelsOf)]
<1> DEFINE g == CHOOSE g : Loop(page, n, zero, Len(LabelsOf), g)
<1>1. Loop(page, n, zero, Len(LabelsOf), g)
  BY Constants, LoopExists
<1>2. AdjustPage(page, n, zero) = g[Len(LabelsOf)]
  BY DEF AdjustPage, Loop, Round
<1> QED  BY <1>1, <1>2

(* What AdjustPage leaves: its types, no point of a timeseries that was    *)
(* not on the page, and for the others what their own round does to the    *)
(* entry that was there before the page.                                   *)
PageLeaves(seen, page, n, infos, done) ==
  /\ done \in Accs
  /\ \A s \in Series \ seen : done.sent[s] = None
  /\ \A s \in Series : Alone(s) =>
       /\ done.infos[Signature(s)] = IF s \in seen
            THEN NewEntry(page[s], n, infos[Signature(s)]) ELSE infos[Signature(s)]
       /\ s \in seen => done.sent[s] = NewSent(page[s], infos[Signature(s)])

LEMMA WholePage ==
  ASSUME NEW seen \in SUBSET Series, NEW page \in [seen -> ScrapedPoints],
         NEW n \in 1..MaxScrapes, NEW infos \in [Signatures -> Infos \cup {None}],
         NEW zero, zero = [infos |-> infos, sent |-> [s \in Series |-> None]],
         NEW done, done = AdjustPage(page, n, zero)
  PROVE  PageLeaves(seen, page, n, infos, done)
<1> DEFINE N == Len(LabelsOf)
<1>1. PICK g : Loop(page, n, zero, N, g) /\ done = g[N]
  BY PageIsLoop
<1> DEFINE UpToRound(k, acc) ==
             /\ acc \in Accs
             /\ \A s \in Series : s \notin seen \/ s > k => acc.sent[s] = None
             /\ \A s \in Series : Alone(s) =>
                  /\ acc.infos[Signature(s)] = IF s \in seen /\ s <= k
                       THEN NewEntry(page[s], n, infos[Signature(s)]) ELSE infos[Signature(s)]
                  /\ s \in seen /\ s <= k =>
                       acc.sent[s] = NewSent(page[s], infos[Signature(s)])
           T == {k \in Nat : k <= N => UpToRound(k, g[k])}
<1>2. g[0] = zero /\ \A k \in 1..N : g[k] = Round(page, n, g[k - 1], k)
  <2>1. /\ N \in Nat /\ 0 \in 0..N
        /\ \A k \in 1..N : k \in 0..N /\ k # 0
    BY Constants
  <2> QED  BY <1>1, <2>1 DEF Loop
<1>3. 0 \in T
  <2>1. \A s \in Series : s > 0 /\ ~(s <= 0)
    BY Constants
  <2>2. zero \in Accs
    BY DEF Accs
  <2> QED  BY <1>2, <2>1, <2>2
<1>4. ASSUME NEW k \in Nat, k \in T PROVE k + 1 \in T
  <2> SUFFICES ASSUME k + 1 <= N PROVE UpToRound(k + 1, g[k + 1])
    OBVIOUS
  <2> DEFINE acc == g[k]
             new == g[k + 1]
  <2>1. k + 1 \in Series /\ k <= N /\ k + 1 \in 1..N /\ (k + 1) - 1 = k
    BY Constants
  <2>2. UpToRound(k, acc) /\ new = Round(page, n, acc, k + 1)
    BY <1>2, <1>4, <2>1
  <2>3. \A s \in Series : s <= k + 1 <=> s <= k \/ s = k + 1
    BY Constants
  <2>4. \A s \in Series : ~(s > k) <=> s <= k
    BY Constants
  <2> HIDE DEF acc, new, UpToRound
  <2>5. CASE k + 1 \notin seen
    <3>1. new = acc
      BY <2>2, <2>5 DEF Round
    <3>2. \A s \in Series : s > k + 1 => s > k
      BY Constants
    <3> QED  BY <2>2, <2>3, <2>5, <3>1, <3>2 DEF UpToRound, new
  <2>6. CASE k + 1 \in seen
    <3> DEFINE i == acc.infos[Signature(k + 1)]
    <3>0. acc \in Accs
      BY <2>2 DEF UpToRound
    <3>1. new = AdjustTimeseries(page, n, acc, k + 1) /\ page[k + 1] \in ScrapedPoints
      BY <2>2, <2>6 DEF Round
    <3>2. /\ new \in Accs
          /\ \A sig \in Signatures : new.infos[sig] =
               IF sig = Signature(k + 1) THEN NewEntry(page[k + 1], n, i) ELSE acc.infos[sig]
          /\ \A r \in Series : new.sent[r] =
               IF r = k + 1 THEN NewSent(page[k + 1], i) ELSE acc.sent[r]
      BY <2>1, <3>0, <3>1, OneTimeseries
    <3>3. \A s \in Series : s \notin seen \/ s > k + 1 => new.sent[s] = None
      <4>1. \A s \in Series : s > k + 1 => s > k /\ s # k + 1
        BY Constants
      <4> QED  BY <2>2, <2>6, <3>2, <4>1 DEF UpToRound
    <3>4. ASSUME NEW s \in Series, Alone(s)
          PROVE  /\ new.infos[Signature(s)] = IF s \in seen /\ s <= k + 1
                      THEN NewEntry(page[s], n, infos[Signature(s)]) ELSE infos[Signature(s)]
                 /\ s \in seen /\ s <= k + 1 =>
                      new.sent[s] = NewSent(page[s], infos[Signature(s)])
      <4>1. Signature(s) \in Signatures
        BY Constants
      <4>2. CASE s = k + 1
        <5>1. ~(s <= k) /\ s <= k + 1
          BY <4>2
        <5>2. i = infos[Signature(s)]
          BY <2>2, <3>4, <4>2, <5>1 DEF UpToRound
        <5> QED  BY <2>6, <3>2, <4>1, <4>2, <5>1, <5>2
      <4>3. CASE s # k + 1
        <5>1. Signature(s) # Signature(k + 1)
          BY <2>1, <3>4, <4>3 DEF Alone
        <5>2. new.infos[Signature(s)] = acc.infos[Signature(s)] /\ new.sent[s] = acc.sent[s]
          BY <3>2, <4>1, <4>3, <5>1
        <5> QED  BY <2>2, <2>3, <3>4, <4>3, <5>2 DEF UpToRound
      <4> QED  BY <4>2, <4>3
    <3> QED  BY <3>2, <3>3, <3>4 DEF UpToRound, new
  <2> QED  BY <2>5, <2>6
<1> HIDE DEF T, UpToRound
<1>5. \A k \in Nat : k \in T
  BY <1>3, <1>4, SetInduction
<1>6. UpToRound(N, done)
  BY <1>1, <1>5, Constants DEF T
<1>7. \A s \in Series : s <= N
  BY Constants
<1> QED  BY <1>6, <1>7 DEF UpToRound, PageLeaves

-----------------------------------------------------------------------------
(* A step of AdjustMetrics for job j, which uses map m and read page, says *)
(* of each job, each map and each timeseries what follows.                 *)
AdjustsMap(m, n, seen, page) ==
  /\ tsiMap' \in [Maps -> [Signatures -> Infos \cup {None}]]
  /\ \A k \in Maps : k # m => tsiMap'[k] = tsiMap[k]
  /\ \A k \in Maps : tsmMark'[k] = IF k = m THEN tsmMark[k] \/ seen # {} ELSE tsmMark[k]
  /\ \A s \in Series : Alone(s) =>
       tsiMap'[m][Signature(s)] =
         IF s \in seen THEN NewEntry(page[s], n, Entry(m, s)) ELSE Entry(m, s)
AdjustsOut(j, m, seen, page) ==
  /\ out' \in [Jobs -> [Series -> Sents \cup {None}]]
  /\ \A i \in Jobs : i # j => out'[i] = out[i]
  /\ \A s \in Series : s \notin seen => out'[j][s] = None
  /\ \A s \in Series : Alone(s) /\ s \in seen => out'[j][s] = NewSent(page[s], Entry(m, s))
AdjustsHistory(j, n, seen, page) ==
  /\ last' \in [Jobs -> [Series -> ScrapedPoints \cup {None}]]
  /\ base' \in [Jobs -> [Series -> Bases \cup {None}]]
  /\ \A i \in Jobs : i # j => last'[i] = last[i] /\ base'[i] = base[i]
  /\ \A s \in Series : last'[j][s] = IF s \in seen THEN page[s] ELSE last[j][s]
  /\ \A s \in Series : base'[j][s] =
       IF s \in seen /\ out'[j][s] = None THEN [point |-> page[s], start |-> n] ELSE base[j][s]
AdjustsAges(j, m, seen) ==
  /\ swept' \in [Jobs -> [Watched -> Nat]] /\ idle' \in [Jobs -> [Watched -> Nat]]
  /\ \A i \in Jobs : i # j \/ m # jobsMap[j] => swept'[i] = swept[i] /\ idle'[i] = idle[i]
  /\ m = jobsMap[j] => \A w \in Watched :
       IF w \in seen \/ (w = 0 /\ seen # {}) THEN swept'[j][w] = 0 /\ idle'[j][w] = 0
       ELSE swept'[j][w] = swept[j][w] /\ idle'[j][w] = idle[j][w]

Adjusts(j, seen, page) ==
  /\ AdjustsMap(using[j], scrapes[j], seen, page)
  /\ AdjustsOut(j, using[j], seen, page)
  /\ AdjustsHistory(j, scrapes[j], seen, page)
  /\ AdjustsAges(j, using[j], seen)

LEMMA UsingIsMap ==
  ASSUME TypesInv, NEW j \in Jobs, using[j] # None
  PROVE  using[j] \in Maps /\ scrapes[j] \in 1..MaxScrapes
<1>1. using[j] \in Maps
  BY DEF TypesInv, TypeOK
<1>2. \E n \in 1..scrapes[j] : using[j] = <<j, n>>
  BY DEF TypesInv, MapsOf, MapOf
<1>3. scrapes[j] \in 0..MaxScrapes
  BY DEF TypesInv, TypeOK
<1> QED  BY <1>1, <1>2, <1>3, AdjusterAssumption DEF AdjusterAssumption

LEMMA TouchedFacts ==
  ASSUME NEW age \in [Watched -> Nat], NEW seen
  PROVE  /\ Touched(age, seen) \in [Watched -> Nat]
         /\ \A w \in Watched : Touched(age, seen)[w] =
              IF w \in seen \/ (w = 0 /\ seen # {}) THEN 0 ELSE age[w]
  BY DEF Touched

AdjustedBy(j, seen, page, done) ==
  /\ tsiMap' = [tsiMap EXCEPT ![using[j]] = done.infos]
  /\ tsmMark' = [tsmMark EXCEPT ![using[j]] = @ \/ seen # {}]
  /\ out' = [out EXCEPT ![j] = done.sent]
  /\ last' = [last EXCEPT ![j] = [s \in Series |-> IF s \in seen THEN page[s] ELSE @[s]]]
  /\ base' = [base EXCEPT ![j] = [s \in Series |->
                IF s \in seen /\ done.sent[s] = None
                  THEN [point |-> page[s], start |-> scrapes[j]] ELSE @[s]]]
  /\ IF using[j] = jobsMap[j]
       THEN /\ swept' = [swept EXCEPT ![j] = Touched(@, seen)]
            /\ idle' = [idle EXCEPT ![j] = Touched(@, seen)]
       ELSE UNCHANGED ageVars

LEMMA AdjustStep ==
  ASSUME TypesInv, NEW j \in Jobs, AdjustMetrics(j)
  PROVE  \E seen \in SUBSET Series : \E page \in [seen -> ScrapedPoints] :
           Adjusts(j, seen, page)
<1> DEFINE m == using[j]
           n == scrapes[j]
           Zero == [infos |-> tsiMap[m], sent |-> [s \in Series |-> None]]
<1>1. PICK seen \in SUBSET Series : \E page \in [seen -> ScrapedPoints] :
        AdjustedBy(j, seen, page, AdjustPage(page, n, Zero))
  BY DEF AdjustMetrics, AdjustedBy
<1>2. PICK page \in [seen -> ScrapedPoints] :
        AdjustedBy(j, seen, page, AdjustPage(page, n, Zero))
  BY <1>1
<1> DEFINE done == AdjustPage(page, n, Zero)
<1> HIDE DEF done
<1>3. /\ tsiMap' = [tsiMap EXCEPT ![m] = done.infos]
      /\ tsmMark' = [tsmMark EXCEPT ![m] = @ \/ seen # {}]
      /\ out' = [out EXCEPT ![j] = done.sent]
      /\ last' = [last EXCEPT ![j] = [s \in Series |-> IF s \in seen THEN page[s] ELSE @[s]]]
      /\ base' = [base EXCEPT ![j] = [s \in Series |->
                    IF s \in seen /\ done.sent[s] = None
                      THEN [point |-> page[s], start |-> n] ELSE @[s]]]
      /\ IF m = jobsMap[j]
           THEN /\ swept' = [swept EXCEPT ![j] = Touched(@, seen)]
                /\ idle' = [idle EXCEPT ![j] = Touched(@, seen)]
           ELSE UNCHANGED ageVars
  BY <1>2 DEF done, AdjustedBy
<1>4. m # None /\ m \in Maps /\ n \in 1..MaxScrapes
  <2>1. using[j] # None
    BY DEF AdjustMetrics, TypesInv, TypeOK
  <2> QED  BY <2>1, UsingIsMap
<1>5. /\ tsiMap \in [Maps -> [Signatures -> Infos \cup {None}]]
      /\ tsmMark \in [Maps -> BOOLEAN]
      /\ out \in [Jobs -> [Series -> Sents \cup {None}]]
      /\ last \in [Jobs -> [Series -> ScrapedPoints \cup {None}]]
      /\ base \in [Jobs -> [Series -> Bases \cup {None}]]
      /\ swept \in [Jobs -> [Watched -> Nat]] /\ idle \in [Jobs -> [Watched -> Nat]]
  BY DEF TypesInv, TypeOK, Shapes, Sents, Bases
<1> DEFINE infos == tsiMap[m]
<1>6. infos \in [Signatures -> Infos \cup {None}]
  BY <1>4, <1>5
<1>7. /\ done \in Accs
      /\ \A s \in Series \ seen : done.sent[s] = None
      /\ \A s \in Series : Alone(s) =>
           /\ done.infos[Signature(s)] = IF s \in seen
                THEN NewEntry(page[s], n, infos[Signature(s)]) ELSE infos[Signature(s)]
           /\ s \in seen => done.sent[s] = NewSent(page[s], infos[Signature(s)])
  <2>1. \E k, e, z, d : k = n /\ e = infos /\ z = Zero /\ d = done
    OBVIOUS
  <2>2. PICK k, e, z, d : k = n /\ e = infos /\ z = Zero /\ d = done
    BY <2>1
  <2>3. z = [infos |-> e, sent |-> [s \in Series |-> None]] /\ d = AdjustPage(page, k, z)
    BY <2>2 DEF done
  <2>4. k \in 1..MaxScrapes /\ e \in [Signatures -> Infos \cup {None}]
    BY <1>4, <1>6, <2>2
  <2>5. PageLeaves(seen, page, k, e, d)
    BY <2>3, <2>4, WholePage
  <2> QED  BY <2>2, <2>5 DEF PageLeaves
<1>8. done.infos \in [Signatures -> Infos \cup {None}] /\ done.sent \in [Series -> Sents \cup {None}]
  BY <1>7 DEF Accs
<1>9. AdjustsMap(m, n, seen, page)
  <2>1. tsiMap' \in [Maps -> [Signatures -> Infos \cup {None}]] /\ tsiMap'[m] = done.infos
    BY <1>3, <1>4, <1>5, <1>8
  <2>2. \A k \in Maps : k # m => tsiMap'[k] = tsiMap[k]
    BY <1>3, <1>4, <1>5
  <2>3. \A k \in Maps : tsmMark'[k] = IF k = m THEN tsmMark[k] \/ seen # {} ELSE tsmMark[k]
    BY <1>3, <1>4, <1>5
  <2> QED  BY <1>7, <2>1, <2>2, <2>3 DEF AdjustsMap, Entry
<1>10. AdjustsOut(j, m, seen, page)
  <2>1. out' \in [Jobs -> [Series -> Sents \cup {None}]] /\ out'[j] = done.sent
    BY <1>3, <1>5, <1>8
  <2>2. \A i \in Jobs : i # j => out'[i] = out[i]
    BY <1>3, <1>5
  <2> QED  BY <1>7, <2>1, <2>2 DEF AdjustsOut, Entry
<1>11. AdjustsHistory(j, n, seen, page)
  <2>1. \A s \in seen : s \in Series /\ page[s] \in ScrapedPoints
    OBVIOUS
  <2>2. /\ last' = [last EXCEPT ![j] = last'[j]]
        /\ last'[j] = [s \in Series |-> IF s \in seen THEN page[s] ELSE last[j][s]]
    BY <1>3, <1>5
  <2>3. last'[j] \in [Series -> ScrapedPoints \cup {None}]
    BY <1>5, <2>1, <2>2
  <2>4. /\ base' = [base EXCEPT ![j] = base'[j]]
        /\ base'[j] = [s \in Series |-> IF s \in seen /\ done.sent[s] = None
                         THEN [point |-> page[s], start |-> n] ELSE base[j][s]]
    BY <1>3, <1>5
  <2>5. \A s \in seen : [point |-> page[s], start |-> n] \in Bases
    BY <1>4, <2>1 DEF Bases
  <2>6. base'[j] \in [Series -> Bases \cup {None}]
    BY <1>5, <2>4, <2>5
  <2>7. out'[j] = done.sent
    BY <1>3, <1>5
  <2>8. /\ last' \in [Jobs -> [Series -> ScrapedPoints \cup {None}]]
        /\ base' \in [Jobs -> [Series -> Bases \cup {None}]]
        /\ \A i \in Jobs : i # j => last'[i] = last[i] /\ base'[i] = base[i]
    BY <1>5, <2>2, <2>3, <2>4, <2>6
  <2>9. /\ \A s \in Series : last'[j][s] = IF s \in seen THEN page[s] ELSE last[j][s]
        /\ \A s \in Series : base'[j][s] = IF s \in seen /\ out'[j][s] = None
             THEN [point |-> page[s], start |-> n] ELSE base[j][s]
    BY <2>2, <2>4, <2>7
  <2> QED  BY <2>8, <2>9 DEF AdjustsHistory
<1>12. AdjustsAges(j, m, seen)
  <2>1. CASE m = jobsMap[j]
    <3>1. swept' = [swept EXCEPT ![j] = Touched(swept[j], seen)]
          /\ idle' = [idle EXCEPT ![j] = Touched(idle[j], seen)]
      BY <1>3, <2>1
    <3>2. swept[j] \in [Watched -> Nat] /\ idle[j] \in [Watched -> Nat]
      BY <1>5
    <3>3. /\ Touched(swept[j], seen) \in [Watched -> Nat]
          /\ Touched(idle[j], seen) \in [Watched -> Nat]
          /\ \A w \in Watched : IF w \in seen \/ (w = 0 /\ seen # {})
               THEN Touched(swept[j], seen)[w] = 0 /\ Touched(idle[j], seen)[w] = 0
               ELSE /\ Touched(swept[j], seen)[w] = swept[j][w]
                    /\ Touched(idle[j], seen)[w] = idle[j][w]
      BY <3>2, TouchedFacts
    <3>4. /\ swept' \in [Jobs -> [Watched -> Nat]] /\ idle' \in [Jobs -> [Watched -> Nat]]
          /\ swept'[j] = Touched(swept[j], seen) /\ idle'[j] = Touched(idle[j], seen)
          /\ \A i \in Jobs : i # j => swept'[i] = swept[i] /\ idle'[i] = idle[i]
      BY <1>5, <3>1, <3>3
    <3> QED  BY <2>1, <3>3, <3>4 DEF AdjustsAges
  <2>2. CASE m # jobsMap[j]
    BY <1>3, <1>5, <2>2 DEF AdjustsAges, ageVars
  <2> QED  BY <2>1, <2>2
<1> QED  BY <1>9, <1>10, <1>11, <1>12 DEF Adjusts

-----------------------------------------------------------------------------
(* The types and the maps are invariant, whatever the signatures.          *)
LEMMA TypesInit == Init => TypesInv
<1> SUFFICES ASSUME Init PROVE TypesInv
  OBVIOUS
<1> USE AdjusterAssumption DEF AdjusterAssumption
<1>1. TypeOK
  <2>1. \A m \in Maps, sig \in Signatures : tsiMap[m][sig] \in Infos \cup {None}
    BY DEF Init
  <2>2. \A j \in Jobs : using[j] # None <=> pc[j] \in {"maybeGC", "adjust"}
    BY DEF Init
  <2>3. scrapes \in [Jobs -> 0..MaxScrapes] /\ gcs \in 0..MaxGCs
    BY DEF Init
  <2>4. tsmMark \in [Maps -> BOOLEAN] /\ jobsMap \in [Jobs -> Maps \cup {None}]
    BY DEF Init
  <2>5. /\ using \in [Jobs -> Maps \cup {None}]
        /\ pc \in [Jobs -> {"idle", "create", "maybeGC", "adjust"}]
    BY DEF Init
  <2>6. /\ gcDue \in BOOLEAN /\ gcRunning \in BOOLEAN
        /\ gcPending \in Nat /\ gcLeft \subseteq Jobs
    BY DEF Init
  <2> QED  BY <2>1, <2>2, <2>3, <2>4, <2>5, <2>6 DEF TypeOK
<1>2. Shapes
  BY DEF Init, Shapes
<1>3. Collecting
  BY DEF Init, Collecting
<1>4. ASSUME NEW j \in Jobs PROVE MapsOf(j)
  <2>1. \A n \in 1..MaxScrapes, sig \in Signatures : tsiMap[<<j, n>>][sig] = None
    BY <1>4 DEF Init, Maps
  <2> QED  BY <1>4, <2>1 DEF Init, MapsOf
<1> QED  BY <1>1, <1>2, <1>3, <1>4 DEF TypesInv

(* The maps of j stay when another job's transaction takes a step.         *)
LEMMA SameMaps ==
  ASSUME NEW j \in Jobs, MapsOf(j),
         jobsMap'[j] = jobsMap[j], using'[j] = using[j], pc'[j] = pc[j],
         scrapes'[j] = scrapes[j],
         \A n \in 1..MaxScrapes : tsiMap'[<<j, n>>] = tsiMap[<<j, n>>]
  PROVE  MapsOf(j)'
  BY DEF MapsOf, MapOf, Unmade

LEMMA SweptTypes ==
  ASSUME NEW infos \in [Signatures -> Infos \cup {None}]
  PROVE  /\ Swept(infos) \in [Signatures -> Infos \cup {None}]
         /\ \A sig \in Signatures : Swept(infos)[sig] # None =>
              /\ infos[sig] # None /\ infos[sig].mark
              /\ Swept(infos)[sig] = [infos[sig] EXCEPT !.mark = FALSE]
         /\ \A sig \in Signatures : infos[sig] # None /\ infos[sig].mark =>
              Swept(infos)[sig] = [infos[sig] EXCEPT !.mark = FALSE]
<1>1. ASSUME NEW sig \in Signatures, infos[sig] # None
      PROVE  [infos[sig] EXCEPT !.mark = FALSE] \in Infos
  BY <1>1 DEF Infos
<1> QED  BY <1>1 DEF Swept

LEMMA GetJobTypes ==
  ASSUME TypesInv, NEW j \in Jobs, GetJob(j) PROVE TypesInv'
<1> USE AdjusterAssumption DEF AdjusterAssumption
<1>1. /\ scrapes' = [scrapes EXCEPT ![j] = @ + 1]
      /\ using' = [using EXCEPT ![j] = jobsMap[j]]
      /\ pc' = [pc EXCEPT ![j] = IF jobsMap[j] = None THEN "create" ELSE "maybeGC"]
      /\ UNCHANGED <<jobsMap, tsmMark, tsiMap, gcVars, histVars, ageVars>>
      /\ pc[j] = "idle" /\ scrapes[j] < MaxScrapes
  BY DEF GetJob
<1>2. TypeOK /\ Shapes /\ Collecting /\ \A i \in Jobs : MapsOf(i)
  BY DEF TypesInv
<1>3. scrapes[j] \in Nat /\ scrapes'[j] = scrapes[j] + 1 /\ scrapes'[j] \in 0..MaxScrapes
  BY <1>1, <1>2 DEF TypeOK
<1>4. TypeOK'
  <2>1. scrapes' \in [Jobs -> 0..MaxScrapes]
    BY <1>1, <1>2, <1>3 DEF TypeOK
  <2>2. \A i \in Jobs : using'[i] # None <=> pc'[i] \in {"maybeGC", "adjust"}
    BY <1>1, <1>2 DEF TypeOK
  <2> QED  BY <1>1, <1>2, <2>1, <2>2 DEF TypeOK, gcVars
<1>5. Shapes' /\ Collecting'
  BY <1>1, <1>2 DEF Shapes, Collecting, gcVars, histVars, ageVars
<1>6. MapsOf(j)'
  <2>1. /\ using'[j] = jobsMap[j] /\ jobsMap'[j] = jobsMap[j] /\ tsiMap' = tsiMap
        /\ pc'[j] = "create" => jobsMap[j] = None
    BY <1>1, <1>2 DEF TypeOK
  <2>2. \A m : MapOf(j, m) => MapOf(j, m)'
    <3>1. \A n \in 1..scrapes[j] : n \in 1..scrapes'[j]
      BY <1>3
    <3> QED  BY <3>1 DEF MapOf
  <2>3. \A n \in 1..MaxScrapes : Unmade(j, n)' => Unmade(j, n)
    BY <1>3 DEF Unmade
  <2>4. scrapes'[j] >= 1
    BY <1>3
  <2> QED  BY <1>2, <2>1, <2>2, <2>3, <2>4 DEF MapsOf
<1>7. \A i \in Jobs : i # j => MapsOf(i)'
  <2>1. ASSUME NEW i \in Jobs, i # j PROVE MapsOf(i)'
    BY <1>1, <1>2, <2>1, SameMaps DEF TypeOK
  <2> QED  BY <2>1
<1> QED  BY <1>4, <1>5, <1>6, <1>7 DEF TypesInv

LEMMA CreateJobTypes ==
  ASSUME TypesInv, NEW j \in Jobs, CreateJob(j) PROVE TypesInv'
<1> USE AdjusterAssumption DEF AdjusterAssumption
<1> DEFINE m == <<j, scrapes[j]>>
<1>1. /\ jobsMap' = [jobsMap EXCEPT ![j] = m]
      /\ tsmMark' = [tsmMark EXCEPT ![m] = TRUE]
      /\ using' = [using EXCEPT ![j] = m]
      /\ pc' = [pc EXCEPT ![j] = "maybeGC"]
      /\ swept' = [swept EXCEPT ![j][0] = 0]
      /\ idle' = [idle EXCEPT ![j][0] = 0]
      /\ UNCHANGED <<tsiMap, gcVars, scrapes, histVars>>
      /\ pc[j] = "create" /\ ~gcRunning
  BY DEF CreateJob
<1>2. TypeOK /\ Shapes /\ Collecting /\ \A i \in Jobs : MapsOf(i)
  BY DEF TypesInv
<1>3. scrapes[j] \in 1..MaxScrapes /\ m \in Maps /\ m # None
  <2>1. scrapes[j] \in 0..MaxScrapes /\ scrapes[j] >= 1
    BY <1>1, <1>2 DEF TypeOK, MapsOf
  <2> QED  BY <2>1, NotNone DEF Maps
<1> HIDE DEF m
<1>4. TypeOK'
  <2>1. \A i \in Jobs : using'[i] # None <=> pc'[i] \in {"maybeGC", "adjust"}
    BY <1>1, <1>2, <1>3 DEF TypeOK
  <2> QED  BY <1>1, <1>2, <1>3, <2>1 DEF TypeOK, gcVars
<1>5. Shapes'
  <2>1. swept' \in [Jobs -> [Watched -> Nat]] /\ idle' \in [Jobs -> [Watched -> Nat]]
    BY <1>1, <1>2, Constants DEF Shapes
  <2> QED  BY <1>1, <1>2, <2>1 DEF Shapes, histVars
<1>6. Collecting'
  BY <1>1, <1>2 DEF Collecting, gcVars
<1>7. MapsOf(j)'
  <2>1. using'[j] = m /\ jobsMap'[j] = m /\ tsiMap' = tsiMap /\ pc'[j] = "maybeGC"
    BY <1>1, <1>2 DEF TypeOK
  <2>2. \E n \in 1..scrapes'[j] : using'[j] = <<j, n>> /\ jobsMap'[j] = <<j, n>>
    BY <1>1, <1>3, <2>1 DEF m
  <2>3. \A n \in 1..MaxScrapes : Unmade(j, n)' => Unmade(j, n)
    BY <1>1, <2>1 DEF Unmade
  <2>4. scrapes'[j] >= 1
    BY <1>1, <1>3
  <2> QED  BY <1>2, <2>1, <2>2, <2>3, <2>4 DEF MapsOf, MapOf
<1>8. \A i \in Jobs : i # j => MapsOf(i)'
  <2>1. ASSUME NEW i \in Jobs, i # j PROVE MapsOf(i)'
    BY <1>1, <1>2, <2>1, SameMaps DEF TypeOK
  <2> QED  BY <2>1
<1> QED  BY <1>4, <1>5, <1>6, <1>7, <1>8 DEF TypesInv

LEMMA MaybeGCTypes ==
  ASSUME TypesInv, NEW j \in Jobs, MaybeGC(j) PROVE TypesInv'
<1>1. /\ gcPending' \in {gcPending, gcPending + 1}
      /\ pc' = [pc EXCEPT ![j] = "adjust"]
      /\ UNCHANGED <<jobsMap, tsmMark, tsiMap, gcDue, gcRunning, gcLeft, gcs,
                     scrapes, using, histVars, ageVars>>
      /\ pc[j] = "maybeGC"
  BY DEF MaybeGC
<1>2. TypeOK /\ Shapes /\ Collecting /\ \A i \in Jobs : MapsOf(i)
  BY DEF TypesInv
<1>3. TypeOK'
  <2>1. gcPending' \in Nat
    BY <1>1, <1>2 DEF TypeOK
  <2>2. \A i \in Jobs : using'[i] # None <=> pc'[i] \in {"maybeGC", "adjust"}
    BY <1>1, <1>2 DEF TypeOK
  <2> QED  BY <1>1, <1>2, <2>1, <2>2 DEF TypeOK
<1>4. Shapes' /\ Collecting'
  BY <1>1, <1>2 DEF Shapes, Collecting, histVars, ageVars
<1>5. \A i \in Jobs : MapsOf(i)'
  <2>1. ASSUME NEW i \in Jobs PROVE MapsOf(i)'
    <3>1. pc'[i] = pc[i] \/ (pc[i] = "maybeGC" /\ pc'[i] = "adjust")
      BY <1>1, <1>2 DEF TypeOK
    <3> QED  BY <1>1, <1>2, <3>1 DEF MapsOf, MapOf, Unmade
  <2> QED  BY <2>1
<1> QED  BY <1>3, <1>4, <1>5 DEF TypesInv

LEMMA AdjustTypes ==
  ASSUME TypesInv, NEW j \in Jobs, AdjustMetrics(j) PROVE TypesInv'
<1>1. /\ pc[j] = "adjust"
      /\ using' = [using EXCEPT ![j] = None]
      /\ pc' = [pc EXCEPT ![j] = "idle"]
      /\ UNCHANGED <<jobsMap, gcVars, scrapes>>
      /\ \E t : tsmMark' = [tsmMark EXCEPT ![using[j]] = t]
  BY DEF AdjustMetrics
<1>2. TypeOK /\ Shapes /\ Collecting /\ \A i \in Jobs : MapsOf(i)
  BY DEF TypesInv
<1>3. PICK seen \in SUBSET Series : \E page \in [seen -> ScrapedPoints] : Adjusts(j, seen, page)
  BY AdjustStep
<1>3a. PICK page \in [seen -> ScrapedPoints] : Adjusts(j, seen, page)
  BY <1>3
<1>4. Shapes'
  BY <1>3a DEF Adjusts, AdjustsMap, AdjustsOut, AdjustsHistory, AdjustsAges, Shapes, Sents, Bases
<1>5. TypeOK'
  <2>1. tsmMark' \in [Maps -> BOOLEAN]
    <3>1. \A k \in Maps : tsmMark'[k] \in BOOLEAN
      BY <1>2, <1>3a DEF Adjusts, AdjustsMap, TypeOK
    <3>2. DOMAIN tsmMark' = Maps /\ tsmMark' = [k \in Maps |-> tsmMark'[k]]
      BY <1>1, <1>2 DEF TypeOK
    <3> QED  BY <3>1, <3>2
  <2>2. \A i \in Jobs : using'[i] # None <=> pc'[i] \in {"maybeGC", "adjust"}
    BY <1>1, <1>2 DEF TypeOK
  <2> QED  BY <1>1, <1>2, <1>4, <2>1, <2>2 DEF TypeOK, Shapes, gcVars
<1>6. Collecting'
  BY <1>1, <1>2 DEF Collecting, gcVars
<1>7. using[j] # None /\ using[j] \in Maps /\ MapOf(j, using[j])
  BY <1>1, <1>2, UsingIsMap DEF TypeOK, MapsOf
<1>8. \A k \in Maps : k # using[j] => tsiMap'[k] = tsiMap[k]
  BY <1>3a DEF Adjusts, AdjustsMap
<1>9. MapsOf(j)'
  <2>1. using'[j] = None /\ jobsMap' = jobsMap /\ scrapes' = scrapes /\ pc'[j] = "idle"
    BY <1>1, <1>2 DEF TypeOK
  <2>2. ASSUME NEW n \in 1..MaxScrapes, Unmade(j, n)'
        PROVE  /\ Unmade(j, n)
               /\ tsiMap'[<<j, n>>] = tsiMap[<<j, n>>]
    <3>1. n > scrapes[j]
      BY <2>1, <2>2 DEF Unmade
    <3>2. <<j, n>> # using[j]
      <4>1. \A k \in 1..scrapes[j] : k # n
        BY <1>2, <3>1 DEF TypeOK
      <4> QED  BY <1>7, <4>1 DEF MapOf
    <3> QED  BY <1>8, <3>1, <3>2 DEF Unmade, Maps
  <2> QED  BY <1>2, <2>1, <2>2 DEF MapsOf, MapOf
<1>10. \A i \in Jobs : i # j => MapsOf(i)'
  <2>1. ASSUME NEW i \in Jobs, i # j PROVE MapsOf(i)'
    <3>1. \A n \in 1..MaxScrapes : <<i, n>> \in Maps /\ <<i, n>> # using[j]
      BY <1>7, <2>1 DEF MapOf, Maps
    <3> QED  BY <1>1, <1>2, <1>8, <2>1, <3>1, SameMaps DEF TypeOK
  <2> QED  BY <2>1
<1> QED  BY <1>4, <1>5, <1>6, <1>9, <1>10 DEF TypesInv

LEMMA CollectTypes ==
  ASSUME TypesInv, StartGC \/ EndGC \/ GCIntervalPasses PROVE TypesInv'
<1> USE AdjusterAssumption DEF AdjusterAssumption
<1>1. UNCHANGED <<jobsMap, tsmMark, tsiMap, pc, scrapes, using, histVars, swept>>
  BY DEF StartGC, EndGC, GCIntervalPasses, ageVars
<1>2. TypeOK /\ Shapes /\ Collecting /\ \A i \in Jobs : MapsOf(i)
  BY DEF TypesInv
<1>3. \A i \in Jobs : MapsOf(i)'
  <2>1. ASSUME NEW i \in Jobs PROVE MapsOf(i)'
    BY <1>1, <1>2, SameMaps
  <2> QED  BY <2>1
<1>4. idle' \in [Jobs -> [Watched -> Nat]]
  <2>1. CASE GCIntervalPasses
    BY <1>2, <2>1 DEF GCIntervalPasses, Shapes
  <2>2. CASE StartGC \/ EndGC
    BY <1>2, <2>2 DEF StartGC, EndGC, Shapes, ageVars
  <2> QED  BY <2>1, <2>2
<1>5. Shapes'
  BY <1>1, <1>2, <1>4 DEF Shapes, histVars
<1>6. TypeOK' /\ Collecting'
  <2>1. CASE StartGC
    <3>1. /\ gcPending > 0 /\ ~gcRunning /\ gcPending' = gcPending - 1
          /\ UNCHANGED <<gcDue, gcs>>
          /\ \/ gcDue /\ gcRunning' = TRUE /\ gcLeft' = {j \in Jobs : jobsMap[j] # None}
             \/ UNCHANGED <<gcRunning, gcLeft>>
      BY <2>1 DEF StartGC
    <3>2. gcPending' \in Nat
      BY <1>2, <3>1 DEF TypeOK
    <3>3. gcLeft' \subseteq Jobs /\ gcRunning' \in BOOLEAN
      BY <1>2, <3>1 DEF TypeOK
    <3>4. TypeOK'
      BY <1>1, <1>2, <3>1, <3>2, <3>3 DEF TypeOK
    <3>5. Collecting'
      BY <1>1, <1>2, <3>1 DEF Collecting
    <3> QED  BY <3>4, <3>5
  <2>2. CASE EndGC
    <3>1. /\ gcRunning /\ gcLeft = {} /\ gcRunning' = FALSE /\ gcDue' = FALSE
          /\ gcs' = gcs + 1 /\ UNCHANGED <<gcPending, gcLeft>>
      BY <2>2 DEF EndGC
    <3>2. gcs \in 0..MaxGCs /\ gcs < MaxGCs
      BY <1>2, <3>1 DEF TypeOK, Collecting
    <3>3. gcs' \in 0..MaxGCs
      BY <3>1, <3>2
    <3>4. TypeOK'
      BY <1>1, <1>2, <3>1, <3>3 DEF TypeOK
    <3>5. Collecting'
      BY <3>1 DEF Collecting
    <3> QED  BY <3>4, <3>5
  <2>3. CASE GCIntervalPasses
    <3>1. gcs < MaxGCs /\ gcDue' = TRUE /\ UNCHANGED <<gcPending, gcRunning, gcLeft, gcs>>
      BY <2>3 DEF GCIntervalPasses
    <3> QED  BY <1>1, <1>2, <3>1 DEF TypeOK, Collecting
  <2> QED  BY <2>1, <2>2, <2>3
<1> QED  BY <1>3, <1>5, <1>6 DEF TypesInv

LEMMA SweepTypes ==
  ASSUME TypesInv, NEW j \in Jobs, SweepJob(j) PROVE TypesInv'
<1> DEFINE m == jobsMap[j]
<1>1. /\ j \in gcLeft /\ gcLeft' = gcLeft \ {j}
      /\ \/ /\ tsiMap' = [tsiMap EXCEPT ![m] = Swept(tsiMap[m])]
            /\ tsmMark' = [tsmMark EXCEPT ![m] = FALSE]
            /\ jobsMap' = jobsMap
         \/ /\ jobsMap' = [jobsMap EXCEPT ![j] = None]
            /\ tsiMap' = tsiMap /\ tsmMark' = tsmMark
      /\ swept' = [swept EXCEPT ![j] = [w \in Watched |-> @[w] + 1]]
      /\ UNCHANGED <<gcDue, gcPending, gcRunning, gcs, pc, scrapes, using, histVars, idle>>
  BY DEF SweepJob
<1>2. TypeOK /\ Shapes /\ Collecting /\ \A i \in Jobs : MapsOf(i)
  BY DEF TypesInv
<1>3. gcRunning /\ m # None /\ m \in Maps /\ MapOf(j, m)
  BY <1>1, <1>2 DEF TypeOK, Collecting, MapsOf
<1>4. /\ tsiMap' \in [Maps -> [Signatures -> Infos \cup {None}]]
      /\ \A k \in Maps : k # m => tsiMap'[k] = tsiMap[k]
  <2>1. tsiMap[m] \in [Signatures -> Infos \cup {None}]
    BY <1>2, <1>3 DEF Shapes
  <2>2. Swept(tsiMap[m]) \in [Signatures -> Infos \cup {None}]
    <3>1. \A infos \in [Signatures -> Infos \cup {None}] :
            Swept(infos) \in [Signatures -> Infos \cup {None}]
      BY SweptTypes
    <3> QED  BY <2>1, <3>1 DEF Swept
  <2> QED  BY <1>1, <1>2, <1>3, <2>2 DEF Shapes
<1>5. Shapes'
  <2>1. swept' \in [Jobs -> [Watched -> Nat]]
    BY <1>1, <1>2 DEF Shapes
  <2> QED  BY <1>1, <1>2, <1>4, <2>1 DEF Shapes, histVars
<1>6. TypeOK'
  <2>1. tsmMark' \in [Maps -> BOOLEAN] /\ jobsMap' \in [Jobs -> Maps \cup {None}]
    BY <1>1, <1>2, <1>3 DEF TypeOK
  <2>2. gcLeft' \subseteq Jobs
    BY <1>1, <1>2 DEF TypeOK
  <2> QED  BY <1>1, <1>2, <1>4, <2>1, <2>2 DEF TypeOK
<1>7. Collecting'
  <2>1. \A i \in Jobs : i # j => jobsMap'[i] = jobsMap[i]
    BY <1>1, <1>2 DEF TypeOK
  <2>2. \A i \in gcLeft' : i \in gcLeft /\ i # j /\ i \in Jobs
    BY <1>1, <1>2 DEF TypeOK
  <2> QED  BY <1>1, <1>2, <2>1, <2>2 DEF Collecting
<1>8. MapsOf(j)'
  <2>1. jobsMap'[j] \in {jobsMap[j], None} /\ pc' = pc /\ scrapes' = scrapes /\ using' = using
    BY <1>1, <1>2 DEF TypeOK
  <2>2. pc[j] # "create"
    BY <1>2, <1>3 DEF MapsOf
  <2>3. ASSUME NEW n \in 1..MaxScrapes, Unmade(j, n)'
        PROVE  Unmade(j, n) /\ tsiMap'[<<j, n>>] = tsiMap[<<j, n>>]
    <3>1. Unmade(j, n) /\ n > scrapes[j]
      BY <2>1, <2>2, <2>3 DEF Unmade
    <3>2. \A k \in 1..scrapes[j] : k # n
      BY <1>2, <3>1 DEF TypeOK
    <3>3. <<j, n>> # m
      BY <1>3, <3>2 DEF MapOf
    <3> QED  BY <1>4, <3>1, <3>3 DEF Maps
  <2> QED  BY <1>2, <2>1, <2>3 DEF MapsOf, MapOf
<1>9. \A i \in Jobs : i # j => MapsOf(i)'
  <2>1. ASSUME NEW i \in Jobs, i # j PROVE MapsOf(i)'
    <3>1. \A n \in 1..MaxScrapes : <<i, n>> \in Maps /\ <<i, n>> # m
      BY <1>3, <2>1 DEF MapOf, Maps
    <3>2. jobsMap'[i] = jobsMap[i]
      BY <1>1, <1>2, <2>1 DEF TypeOK
    <3> QED  BY <1>1, <1>2, <1>4, <2>1, <3>1, <3>2, SameMaps
  <2> QED  BY <2>1
<1> QED  BY <1>5, <1>6, <1>7, <1>8, <1>9 DEF TypesInv

LEMMA TypesStep == TypesInv /\ [Next]_vars => TypesInv'
<1> SUFFICES ASSUME TypesInv, [Next]_vars PROVE TypesInv'
  OBVIOUS
<1>1. ASSUME NEW j \in Jobs, Commit(j) PROVE TypesInv'
  BY <1>1, GetJobTypes, CreateJobTypes, MaybeGCTypes, AdjustTypes DEF Commit
<1>2. ASSUME NEW j \in Jobs, SweepJob(j) PROVE TypesInv'
  BY <1>2, SweepTypes
<1>3. CASE StartGC \/ EndGC \/ GCIntervalPasses
  BY <1>3, CollectTypes
<1>4. CASE UNCHANGED vars
  <2> USE <1>4 DEF TypesInv, vars, gcVars, histVars, ageVars
  <2>1. TypeOK' /\ Shapes' /\ Collecting'
    BY DEF TypeOK, Shapes, Collecting
  <2>2. \A j \in Jobs : MapsOf(j)'
    BY SameMaps
  <2> QED  BY <2>1, <2>2
<1> QED  BY <1>1, <1>2, <1>3, <1>4 DEF Next

-----------------------------------------------------------------------------
(* The maps that two jobs have or use differ.                              *)
LEMMA OthersMap ==
  ASSUME TypesInv, NEW i \in Jobs, NEW j \in Jobs, i # j,
         NEW k \in {jobsMap[i], using[i]} \ {None}, NEW m \in {jobsMap[j], using[j]} \ {None}
  PROVE  k \in Maps /\ m \in Maps /\ k # m
<1>1. MapOf(i, k) /\ MapOf(j, m)
  BY DEF TypesInv, MapsOf
<1>2. k # m
  BY <1>1 DEF MapOf
<1>3. k \in Maps /\ m \in Maps
  BY DEF TypesInv, TypeOK
<1> QED  BY <1>2, <1>3

(* What a sweep leaves of an entry.                                        *)
SweepsEntry(k, s) ==
  LET e == tsiMap'[k][Signature(s)]
  IN  /\ e # None =>
           /\ Entry(k, s) # None /\ Entry(k, s).mark /\ ~e.mark
           /\ e.initial = Entry(k, s).initial /\ e.start = Entry(k, s).start
           /\ PreviousScraped(e) = PreviousScraped(Entry(k, s))
      /\ Entry(k, s) # None /\ Entry(k, s).mark => e # None

LEMMA SweptEntry ==
  ASSUME TypesInv, NEW k \in Maps, NEW s \in Series,
         tsiMap'[k] = Swept(tsiMap[k])
  PROVE  SweepsEntry(k, s)
<1> DEFINE i == Entry(k, s)
           e == tsiMap'[k][Signature(s)]
<1>1. i \in Infos \cup {None} /\ Signature(s) \in Signatures
  BY Constants DEF TypesInv, Shapes, Entry
<1>2. e = IF i = None \/ ~i.mark THEN None ELSE [i EXCEPT !.mark = FALSE]
  BY <1>1 DEF Swept, Entry
<1>3. ASSUME i # None
      PROVE  LET r == [i EXCEPT !.mark = FALSE]
             IN  /\ r \in Infos /\ ~r.mark
                 /\ r.initial = i.initial /\ r.start = i.start
                 /\ PreviousScraped(r) = PreviousScraped(i)
  BY <1>1, <1>3 DEF Infos, PreviousScraped
<1> HIDE DEF i, e
<1> QED  BY <1>2, <1>3, NotNone DEF SweepsEntry, i, e

(* A sweep takes an entry or clears its mark, and changes no other map.    *)
LEMMA SweepEntries ==
  ASSUME TypesInv, NEW j \in Jobs, SweepJob(j), NEW m, m = jobsMap[j]
  PROVE  /\ m \in Maps /\ m # None /\ gcRunning /\ gcDue /\ j \in gcLeft
         /\ \A k \in Maps : k # m => tsiMap'[k] = tsiMap[k] /\ tsmMark'[k] = tsmMark[k]
         /\ \A i \in Jobs : i # j => jobsMap'[i] = jobsMap[i] /\ swept'[i] = swept[i]
         /\ \A w \in Watched : swept'[j][w] = swept[j][w] + 1
         /\ ~tsmMark[m] => jobsMap'[j] = None /\ tsiMap' = tsiMap
         /\ tsmMark[m] =>
              /\ jobsMap'[j] = m /\ tsmMark'[m] = FALSE
              /\ \A s \in Series : SweepsEntry(m, s)
<1>1. /\ m = jobsMap[j] /\ j \in gcLeft
      /\ IF tsmMark[m]
           THEN /\ tsiMap' = [tsiMap EXCEPT ![m] = Swept(@)]
                /\ tsmMark' = [tsmMark EXCEPT ![m] = FALSE]
                /\ UNCHANGED jobsMap
           ELSE /\ jobsMap' = [jobsMap EXCEPT ![j] = None]
                /\ UNCHANGED <<tsiMap, tsmMark>>
      /\ swept' = [swept EXCEPT ![j] = [w \in Watched |-> @[w] + 1]]
  BY DEF SweepJob
<1>2. TypeOK /\ Shapes /\ Collecting
  BY DEF TypesInv
<1>3. m # None /\ m \in Maps /\ gcRunning /\ gcDue
  BY <1>1, <1>2 DEF TypeOK, Collecting
<1>4. \A k \in Maps : k # m => tsiMap'[k] = tsiMap[k] /\ tsmMark'[k] = tsmMark[k]
  BY <1>1, <1>2, <1>3 DEF TypeOK, Shapes
<1>5. /\ \A i \in Jobs : i # j => jobsMap'[i] = jobsMap[i] /\ swept'[i] = swept[i]
      /\ \A w \in Watched : swept'[j][w] = swept[j][w] + 1
  BY <1>1, <1>2 DEF TypeOK, Shapes
<1>6. ~tsmMark[m] => jobsMap'[j] = None /\ tsiMap' = tsiMap
  BY <1>1, <1>2 DEF TypeOK
<1>7. tsmMark[m] =>
        /\ jobsMap'[j] = m /\ tsmMark'[m] = FALSE
        /\ \A s \in Series : SweepsEntry(m, s)
  <2> SUFFICES ASSUME tsmMark[m]
               PROVE  /\ jobsMap'[j] = m /\ tsmMark'[m] = FALSE
                      /\ \A s \in Series : SweepsEntry(m, s)
    OBVIOUS
  <2>1. jobsMap'[j] = m /\ tsmMark'[m] = FALSE
    BY <1>1, <1>2, <1>3 DEF TypeOK, Shapes
  <2>2. tsiMap'[m] = Swept(tsiMap[m])
    BY <1>1, <1>2, <1>3 DEF Shapes
  <2> QED  BY <1>3, <2>1, <2>2, SweptEntry
<1> QED  BY <1>1, <1>3, <1>4, <1>5, <1>6, <1>7

-----------------------------------------------------------------------------
(* Points: a step that leaves the points of s, and the entries it knows    *)
(* but for their marks, keeps what is known of them.                       *)
LEMMA SamePoints ==
  ASSUME NEW j \in Jobs, NEW s \in Series, PointsOf(j, s),
         base'[j][s] = base[j][s], last'[j][s] = last[j][s], out'[j][s] = out[j][s],
         \A m \in {jobsMap'[j], using'[j]} \ {None} :
           \/ tsiMap'[m][Signature(s)] = None
           \/ /\ m \in {jobsMap[j], using[j]} /\ Entry(m, s) # None
              /\ tsiMap'[m][Signature(s)].initial = Entry(m, s).initial
              /\ tsiMap'[m][Signature(s)].start = Entry(m, s).start
              /\ PreviousScraped(tsiMap'[m][Signature(s)]) = PreviousScraped(Entry(m, s))
  PROVE  PointsOf(j, s)'
<1>1. Reported(j, s)'
  BY DEF PointsOf, Reported
<1>2. ASSUME NEW m \in {jobsMap'[j], using'[j]} \ {None} PROVE Remembers(j, s, m)'
  <2>1. CASE tsiMap'[m][Signature(s)] = None
    BY <2>1 DEF Remembers, Entry
  <2>2. CASE /\ m \in {jobsMap[j], using[j]} /\ Entry(m, s) # None
             /\ tsiMap'[m][Signature(s)].initial = Entry(m, s).initial
             /\ tsiMap'[m][Signature(s)].start = Entry(m, s).start
             /\ PreviousScraped(tsiMap'[m][Signature(s)]) = PreviousScraped(Entry(m, s))
    <3>1. Remembers(j, s, m)
      BY <1>2, <2>2 DEF PointsOf
    <3> QED  BY <2>2, <3>1 DEF Remembers, Entry
  <2> QED  BY <1>2, <2>1, <2>2
<1> QED  BY <1>1, <1>2 DEF PointsOf

PointsInv == \A j \in Jobs, s \in Series : Alone(s) => PointsOf(j, s)

LEMMA PointsInit == Init => PointsInv
  BY DEF Init, PointsInv, PointsOf, Reported, Remembers

(* The page of a scrape: the entry that is used is that of the point that  *)
(* was dropped last, or it starts again with the point that is now.        *)
LEMMA AdjustPoints ==
  ASSUME TypesInv, NEW j \in Jobs, AdjustMetrics(j), NEW s \in Series, Alone(s), PointsOf(j, s)
  PROVE  PointsOf(j, s)'
<1>0. PICK m, n, i : m = using[j] /\ n = scrapes[j] /\ i = Entry(m, s)
  OBVIOUS
<1>1. PICK seen \in SUBSET Series : \E page \in [seen -> ScrapedPoints] : Adjusts(j, seen, page)
  BY AdjustStep
<1>2. PICK page \in [seen -> ScrapedPoints] : Adjusts(j, seen, page)
  BY <1>1
<1>3. /\ m # None /\ m \in Maps /\ n \in 1..MaxScrapes
      /\ using'[j] = None /\ jobsMap'[j] \in {None, m}
      /\ i \in Infos \cup {None}
  <2>1. using[j] # None
    BY DEF AdjustMetrics, TypesInv, TypeOK
  <2>2. using'[j] = None /\ jobsMap' = jobsMap
    BY DEF AdjustMetrics, TypesInv, TypeOK
  <2>3. jobsMap[j] \in {None, using[j]}
    BY <2>1 DEF TypesInv, MapsOf
  <2>4. i \in Infos \cup {None}
    BY <1>0, <2>1, UsingIsMap, Constants DEF TypesInv, Shapes, Entry
  <2> QED  BY <1>0, <2>1, <2>2, <2>3, <2>4, UsingIsMap
<1>4. Remembers(j, s, m)
  BY <1>0, <1>3 DEF PointsOf
<1>5. /\ tsiMap'[m][Signature(s)] = IF s \in seen THEN NewEntry(page[s], n, i) ELSE i
      /\ out'[j][s] = IF s \in seen THEN NewSent(page[s], i) ELSE None
      /\ last'[j][s] = IF s \in seen THEN page[s] ELSE last[j][s]
      /\ base'[j][s] = IF s \in seen /\ out'[j][s] = None
           THEN [point |-> page[s], start |-> n] ELSE base[j][s]
  BY <1>0, <1>2 DEF Adjusts, AdjustsMap, AdjustsOut, AdjustsHistory
<1>6. CASE s \notin seen
  <2>1. /\ tsiMap'[m][Signature(s)] = Entry(m, s) /\ out'[j][s] = None
        /\ last'[j][s] = last[j][s] /\ base'[j][s] = base[j][s]
    BY <1>0, <1>5, <1>6
  <2>2. Reported(j, s)'
    BY <2>1 DEF Reported
  <2>3. ASSUME NEW k \in {jobsMap'[j], using'[j]} \ {None} PROVE Remembers(j, s, k)'
    <3>1. k = m
      BY <1>3, <2>3
    <3> QED  BY <1>4, <2>1, <3>1 DEF Remembers, Entry
  <2> QED  BY <2>2, <2>3 DEF PointsOf
<1>7. CASE s \in seen
  <2>0. PICK p, e : p = page[s] /\ e = NewEntry(p, n, i)
    OBVIOUS
  <2>1. /\ p \in ScrapedPoints /\ tsiMap'[m][Signature(s)] = e /\ last'[j][s] = p
        /\ out'[j][s] = NewSent(p, i)
        /\ base'[j][s] = IF NewSent(p, i) = None THEN [point |-> p, start |-> n] ELSE base[j][s]
    BY <1>5, <1>7, <2>0
  <2>2. /\ NewSent(p, i) = None <=> Starts(p, i)
        /\ e.initial = IF Starts(p, i) THEN p ELSE i.initial
        /\ e.start = IF Starts(p, i) THEN n ELSE i.start
        /\ PreviousScraped(e) = p
    <3>1. p \in ScrapedPoints /\ n \in 1..MaxScrapes /\ i \in Infos \cup {None}
      BY <1>3, <2>1
    <3>2. NewSent(p, i) = None <=> Starts(p, i)
      BY <3>1, NewEntryFacts
    <3>3. NewEntry(p, n, i).initial = IF Starts(p, i) THEN p ELSE i.initial
      BY <3>1, NewEntryFacts
    <3>4. NewEntry(p, n, i).start = IF Starts(p, i) THEN n ELSE i.start
      BY <3>1, NewEntryFacts
    <3>5. PreviousScraped(NewEntry(p, n, i)) = p
      BY <3>1, NewEntryFacts
    <3> QED  BY <2>0, <3>2, <3>3, <3>4, <3>5
  <2>3. CASE Starts(p, i)
    <3>1. /\ base'[j][s] = [point |-> p, start |-> n] /\ out'[j][s] = None
          /\ [point |-> p, start |-> n] \in Bases
      BY <1>3, <2>1, <2>2, <2>3 DEF Bases
    <3>2. base'[j][s] # None /\ base'[j][s].point = p /\ base'[j][s].start = n
      BY <3>1, NotNone
    <3>3. Reported(j, s)'
      BY <3>1 DEF Reported
    <3>4. ASSUME NEW k \in {jobsMap'[j], using'[j]} \ {None} PROVE Remembers(j, s, k)'
      <4>1. k = m
        BY <1>3, <3>4
      <4> QED  BY <2>1, <2>2, <2>3, <3>2, <4>1 DEF Remembers, Entry
    <3> QED  BY <3>3, <3>4 DEF PointsOf
  <2>4. CASE ~Starts(p, i)
    <3>1. /\ base[j][s] # None /\ i.initial = base[j][s].point /\ i.start = base[j][s].start
      BY <1>0, <1>4, <2>4 DEF Remembers, Starts
    <3>2. /\ base'[j][s] = base[j][s]
          /\ out'[j][s] = [value |-> Adjusted(p, i), start |-> i.start]
      BY <2>1, <2>2, <2>4 DEF NewSent
    <3>3. Reported(j, s)'
      <4>1. Adjusted(p, i) = [f \in Fields |-> last'[j][s][f] - base'[j][s].point[f]]
        BY <2>1, <3>1, <3>2 DEF Adjusted
      <4> QED  BY <3>1, <3>2, <4>1 DEF Reported
    <3>4. ASSUME NEW k \in {jobsMap'[j], using'[j]} \ {None} PROVE Remembers(j, s, k)'
      <4>1. k = m
        BY <1>3, <3>4
      <4> QED  BY <2>1, <2>2, <2>4, <3>1, <3>2, <4>1 DEF Remembers, Entry
    <3> QED  BY <3>3, <3>4 DEF PointsOf
  <2> QED  BY <2>3, <2>4
<1> QED  BY <1>6, <1>7

LEMMA PointsStep == TypesInv /\ PointsInv /\ [Next]_vars => PointsInv'
<1> SUFFICES ASSUME TypesInv, PointsInv, [Next]_vars,
                    NEW i \in Jobs, NEW s \in Series, Alone(s)
             PROVE  PointsOf(i, s)'
  BY DEF PointsInv
<1>0. PointsOf(i, s) /\ TypeOK /\ Shapes /\ \A j \in Jobs : MapsOf(j)
  BY DEF PointsInv, TypesInv
<1>1. ASSUME NEW j \in Jobs, GetJob(j) PROVE PointsOf(i, s)'
  <2>1. /\ UNCHANGED <<jobsMap, tsiMap, out, last, base>>
        /\ using'[i] \in {using[i], jobsMap[i]}
    BY <1>0, <1>1 DEF GetJob, histVars, TypeOK
  <2> QED  BY <1>0, <2>1, SamePoints DEF Entry
<1>2. ASSUME NEW j \in Jobs, CreateJob(j) PROVE PointsOf(i, s)'
  <2>1. /\ UNCHANGED <<tsiMap, scrapes, out, last, base>>
        /\ pc[j] = "create"
        /\ jobsMap' = [jobsMap EXCEPT ![j] = <<j, scrapes[j]>>]
        /\ using' = [using EXCEPT ![j] = <<j, scrapes[j]>>]
    BY <1>2 DEF CreateJob, histVars
  <2>2. CASE i = j
    <3>1. scrapes[j] \in 1..MaxScrapes
      BY <1>0, <2>1 DEF MapsOf, TypeOK
    <3>2. tsiMap'[<<j, scrapes[j]>>][Signature(s)] = None
      BY <1>0, <2>1, <3>1, Constants DEF MapsOf, Unmade
    <3>3. jobsMap'[j] = <<j, scrapes[j]>> /\ using'[j] = <<j, scrapes[j]>>
      BY <1>0, <2>1 DEF TypeOK
    <3> QED  BY <1>0, <2>1, <2>2, <3>2, <3>3, SamePoints
  <2>3. CASE i # j
    <3>1. jobsMap'[i] = jobsMap[i] /\ using'[i] = using[i]
      BY <1>0, <2>1, <2>3 DEF TypeOK
    <3> QED  BY <1>0, <2>1, <3>1, SamePoints DEF Entry
  <2> QED  BY <2>2, <2>3
<1>3. ASSUME NEW j \in Jobs, MaybeGC(j) PROVE PointsOf(i, s)'
  BY <1>0, <1>3, SamePoints DEF MaybeGC, histVars, Entry
<1>4. ASSUME NEW j \in Jobs, AdjustMetrics(j) PROVE PointsOf(i, s)'
  <2>1. CASE i = j
    BY <1>0, <1>4, <2>1, AdjustPoints
  <2>2. CASE i # j
    <3>1. PICK seen \in SUBSET Series :
            \E page \in [seen -> ScrapedPoints] : Adjusts(j, seen, page)
      BY <1>4, AdjustStep
    <3>2. PICK page \in [seen -> ScrapedPoints] : Adjusts(j, seen, page)
      BY <3>1
    <3>3. /\ out'[i] = out[i] /\ last'[i] = last[i] /\ base'[i] = base[i]
          /\ \A k \in Maps : k # using[j] => tsiMap'[k] = tsiMap[k]
      BY <2>2, <3>2 DEF Adjusts, AdjustsMap, AdjustsOut, AdjustsHistory
    <3>4. jobsMap'[i] = jobsMap[i] /\ using'[i] = using[i] /\ using[j] # None
      BY <1>0, <1>4, <2>2 DEF AdjustMetrics, TypeOK
    <3>5. ASSUME NEW k \in {jobsMap[i], using[i]} \ {None} PROVE tsiMap'[k] = tsiMap[k]
      BY <2>2, <3>3, <3>4, <3>5, OthersMap
    <3> QED  BY <1>0, <3>3, <3>4, <3>5, SamePoints DEF Entry
  <2> QED  BY <2>1, <2>2
<1>5. ASSUME NEW j \in Jobs, SweepJob(j) PROVE PointsOf(i, s)'
  <2>1. UNCHANGED <<out, last, base, using>>
    BY <1>5 DEF SweepJob, histVars
  <2>0. PICK m : m = jobsMap[j]
    OBVIOUS
  <2>2. /\ m # None /\ m \in Maps
        /\ \A k \in Maps : k # m => tsiMap'[k] = tsiMap[k]
        /\ i # j => jobsMap'[i] = jobsMap[i]
        /\ ~tsmMark[m] => jobsMap'[j] = None /\ tsiMap' = tsiMap
        /\ tsmMark[m] => jobsMap'[j] = m /\ SweepsEntry(m, s)
    BY <1>5, <2>0, SweepEntries
  <2>3. CASE i # j
    <3>1. ASSUME NEW k \in {jobsMap[i], using[i]} \ {None} PROVE tsiMap'[k] = tsiMap[k]
      BY <2>0, <2>2, <2>3, <3>1, OthersMap
    <3> QED  BY <1>0, <2>1, <2>2, <2>3, <3>1, SamePoints DEF Entry
  <2>4. CASE i = j /\ ~tsmMark[m]
    BY <1>0, <2>0, <2>1, <2>2, <2>4, SamePoints DEF Entry
  <2>5. CASE i = j /\ tsmMark[m]
    <3>1. using[j] \in {None, m}
      BY <1>0, <2>0, <2>2 DEF MapsOf
    <3> DEFINE e == tsiMap'[m][Signature(s)]
    <3>2. e # None => /\ Entry(m, s) # None
                      /\ e.initial = Entry(m, s).initial
                      /\ e.start = Entry(m, s).start
                      /\ PreviousScraped(e) = PreviousScraped(Entry(m, s))
      BY <2>2, <2>5 DEF SweepsEntry
    <3> QED  BY <1>0, <2>0, <2>1, <2>2, <2>5, <3>1, <3>2, SamePoints
  <2> QED  BY <2>3, <2>4, <2>5
<1>6. CASE StartGC \/ EndGC \/ GCIntervalPasses
  <2>1. UNCHANGED <<jobsMap, tsiMap, using, out, last, base>>
    BY <1>6 DEF StartGC, EndGC, GCIntervalPasses, histVars
  <2> QED  BY <1>0, <2>1, SamePoints DEF Entry
<1>7. CASE UNCHANGED vars
  BY <1>0, <1>7, SamePoints DEF vars, histVars, Entry
<1> QED  BY <1>1, <1>2, <1>3, <1>4, <1>5, <1>6, <1>7 DEF Next, Commit

-----------------------------------------------------------------------------
(* What CreateJob gives a job: a marked map, without entries.              *)
LEMMA CreateFacts ==
  ASSUME TypesInv, NEW j \in Jobs, CreateJob(j)
  PROVE  /\ jobsMap[j] = None /\ using[j] = None
         /\ jobsMap'[j] # None /\ using'[j] = jobsMap'[j]
         /\ tsmMark'[jobsMap'[j]] = TRUE
         /\ \A s \in Series : tsiMap'[jobsMap'[j]][Signature(s)] = None
         /\ \A s \in Series : idle'[j][s] = idle[j][s] /\ swept'[j][s] = swept[j][s]
         /\ idle'[j][0] = 0 /\ swept'[j][0] = 0
         /\ \A i \in Jobs : i # j =>
              /\ jobsMap'[i] = jobsMap[i] /\ using'[i] = using[i]
              /\ idle'[i] = idle[i] /\ swept'[i] = swept[i]
              /\ jobsMap[i] # None => tsmMark'[jobsMap[i]] = tsmMark[jobsMap[i]]
         /\ UNCHANGED <<tsiMap, gcVars, last>>
<1>1. PICK m : m = <<j, scrapes[j]>>
  OBVIOUS
<1>2. /\ pc[j] = "create"
      /\ jobsMap' = [jobsMap EXCEPT ![j] = m]
      /\ tsmMark' = [tsmMark EXCEPT ![m] = TRUE]
      /\ using' = [using EXCEPT ![j] = m]
      /\ swept' = [swept EXCEPT ![j][0] = 0]
      /\ idle' = [idle EXCEPT ![j][0] = 0]
      /\ UNCHANGED <<tsiMap, gcVars, last>>
  BY <1>1 DEF CreateJob, histVars
<1>3. TypeOK /\ Shapes /\ MapsOf(j) /\ \A i \in Jobs : MapsOf(i)
  BY DEF TypesInv
<1>4. scrapes[j] \in 1..MaxScrapes /\ jobsMap[j] = None /\ using[j] = None
  BY <1>2, <1>3 DEF TypeOK, MapsOf
<1>5. m \in Maps /\ m # None
  BY <1>1, <1>4, NotNone DEF Maps
<1>6. jobsMap'[j] = m /\ using'[j] = m /\ tsmMark'[m] = TRUE
  BY <1>2, <1>3, <1>5 DEF TypeOK
<1>7. \A s \in Series : tsiMap'[m][Signature(s)] = None
  BY <1>1, <1>2, <1>3, <1>4, Constants DEF MapsOf, Unmade
<1>8. /\ \A s \in Series : idle'[j][s] = idle[j][s] /\ swept'[j][s] = swept[j][s]
      /\ idle'[j][0] = 0 /\ swept'[j][0] = 0
  <2>1. \A s \in Series : s # 0
    BY Constants
  <2> QED  BY <1>2, <1>3, <2>1, Constants DEF Shapes
<1>9. ASSUME NEW i \in Jobs, i # j
      PROVE  /\ jobsMap'[i] = jobsMap[i] /\ using'[i] = using[i]
             /\ idle'[i] = idle[i] /\ swept'[i] = swept[i]
             /\ jobsMap[i] # None => tsmMark'[jobsMap[i]] = tsmMark[jobsMap[i]]
  <2>1. /\ jobsMap'[i] = jobsMap[i] /\ using'[i] = using[i]
        /\ idle'[i] = idle[i] /\ swept'[i] = swept[i]
    BY <1>2, <1>3, <1>9 DEF TypeOK, Shapes
  <2>2. jobsMap[i] # None => jobsMap[i] # m /\ jobsMap[i] \in Maps
    BY <1>1, <1>3, <1>9 DEF MapsOf, MapOf, TypeOK
  <2> QED  BY <1>2, <1>3, <2>1, <2>2 DEF TypeOK
<1> QED  BY <1>2, <1>4, <1>5, <1>6, <1>7, <1>8, <1>9

(* What AdjustMetrics does to the jobs other than its own.                 *)
LEMMA AdjustOthers ==
  ASSUME TypesInv, NEW j \in Jobs, AdjustMetrics(j), NEW i \in Jobs, i # j
  PROVE  /\ jobsMap'[i] = jobsMap[i] /\ using'[i] = using[i]
         /\ idle'[i] = idle[i] /\ swept'[i] = swept[i] /\ last'[i] = last[i]
         /\ UNCHANGED gcVars
         /\ jobsMap[i] # None => /\ tsmMark'[jobsMap[i]] = tsmMark[jobsMap[i]]
                                 /\ tsiMap'[jobsMap[i]] = tsiMap[jobsMap[i]]
<1>1. PICK seen \in SUBSET Series : \E page \in [seen -> ScrapedPoints] : Adjusts(j, seen, page)
  BY AdjustStep
<1>2. PICK page \in [seen -> ScrapedPoints] : Adjusts(j, seen, page)
  BY <1>1
<1>3. TypeOK
  BY DEF TypesInv
<1>4. jobsMap' = jobsMap /\ using'[i] = using[i] /\ using[j] # None /\ UNCHANGED gcVars
  BY <1>3 DEF AdjustMetrics, TypeOK
<1>5. last'[i] = last[i] /\ idle'[i] = idle[i] /\ swept'[i] = swept[i]
  BY <1>2 DEF Adjusts, AdjustsHistory, AdjustsAges
<1>6. jobsMap[i] # None => jobsMap[i] \in Maps /\ jobsMap[i] # using[j]
  BY <1>4, OthersMap
<1> QED  BY <1>2, <1>4, <1>5, <1>6 DEF Adjusts, AdjustsMap

(* What it does to its own job: with the job's map, what it adjusted gets  *)
(* young and marked; with a map that was collected, nothing does.          *)
OwnJob(j, seen) ==
  /\ jobsMap'[j] = jobsMap[j] /\ using'[j] = None /\ using[j] # None
  /\ UNCHANGED gcVars
  /\ \A s \in Series \ seen : last'[j][s] = last[j][s]
  /\ jobsMap[j] = None => idle'[j] = idle[j] /\ swept'[j] = swept[j]
  /\ jobsMap[j] # None =>
       /\ IF seen = {}
            THEN /\ tsmMark'[jobsMap[j]] = tsmMark[jobsMap[j]]
                 /\ idle'[j][0] = idle[j][0] /\ swept'[j][0] = swept[j][0]
            ELSE /\ tsmMark'[jobsMap[j]] = TRUE
                 /\ idle'[j][0] = 0 /\ swept'[j][0] = 0
       /\ \A s \in Series \ seen :
            idle'[j][s] = idle[j][s] /\ swept'[j][s] = swept[j][s]
       /\ \A s \in seen : idle'[j][s] = 0 /\ swept'[j][s] = 0
       /\ \A s \in Series : Alone(s) =>
            IF s \in seen
              THEN /\ tsiMap'[jobsMap[j]][Signature(s)] # None
                   /\ tsiMap'[jobsMap[j]][Signature(s)].mark
              ELSE tsiMap'[jobsMap[j]][Signature(s)] = Entry(jobsMap[j], s)

LEMMA AdjustOwn ==
  ASSUME TypesInv, NEW j \in Jobs, AdjustMetrics(j)
  PROVE  \E seen \in SUBSET Series : OwnJob(j, seen)
<1>1. PICK seen \in SUBSET Series : \E page \in [seen -> ScrapedPoints] : Adjusts(j, seen, page)
  BY AdjustStep
<1>2. PICK page \in [seen -> ScrapedPoints] : Adjusts(j, seen, page)
  BY <1>1
<1>3. PICK m, n : m = using[j] /\ n = scrapes[j]
  OBVIOUS
<1>4. TypeOK /\ Shapes /\ MapsOf(j)
  BY DEF TypesInv
<1>5. jobsMap' = jobsMap /\ using'[j] = None /\ using[j] # None /\ UNCHANGED gcVars
  BY <1>4 DEF AdjustMetrics, TypeOK
<1>6. m \in Maps /\ n \in 1..MaxScrapes /\ jobsMap[j] \in {None, m} /\ m # None
  BY <1>3, <1>4, <1>5, UsingIsMap DEF MapsOf
<1>7. \A s \in Series \ seen : last'[j][s] = last[j][s]
  BY <1>2 DEF Adjusts, AdjustsHistory
<1>8. /\ m # jobsMap[j] => swept'[j] = swept[j] /\ idle'[j] = idle[j]
      /\ m = jobsMap[j] => \A w \in Watched :
           IF w \in seen \/ (w = 0 /\ seen # {}) THEN swept'[j][w] = 0 /\ idle'[j][w] = 0
           ELSE swept'[j][w] = swept[j][w] /\ idle'[j][w] = idle[j][w]
  BY <1>2, <1>3 DEF Adjusts, AdjustsAges
<1>9. /\ tsmMark'[m] = (tsmMark[m] \/ seen # {})
      /\ \A s \in Series : Alone(s) =>
           tsiMap'[m][Signature(s)] =
             IF s \in seen THEN NewEntry(page[s], n, Entry(m, s)) ELSE Entry(m, s)
  BY <1>2, <1>3, <1>6 DEF Adjusts, AdjustsMap
<1>10. ASSUME m = jobsMap[j]
       PROVE  /\ IF seen = {}
                   THEN /\ tsmMark'[m] = tsmMark[m]
                        /\ idle'[j][0] = idle[j][0] /\ swept'[j][0] = swept[j][0]
                   ELSE /\ tsmMark'[m] = TRUE
                        /\ idle'[j][0] = 0 /\ swept'[j][0] = 0
              /\ \A s \in Series \ seen :
                   idle'[j][s] = idle[j][s] /\ swept'[j][s] = swept[j][s]
              /\ \A s \in seen : idle'[j][s] = 0 /\ swept'[j][s] = 0
  <2>1. tsmMark[m] \in BOOLEAN
    BY <1>4, <1>6 DEF TypeOK
  <2>2. IF seen = {} THEN tsmMark'[m] = tsmMark[m] ELSE tsmMark'[m] = TRUE
    BY <1>9, <2>1
  <2>3. \A s \in Series : s # 0 /\ s \in Watched
    BY Constants
  <2>4. 0 \in Watched /\ 0 \notin seen
    BY Constants
  <2> QED  BY <1>8, <1>10, <2>2, <2>3, <2>4
<1>11. ASSUME NEW s \in Series, Alone(s)
       PROVE  IF s \in seen
                THEN /\ tsiMap'[m][Signature(s)] # None
                     /\ tsiMap'[m][Signature(s)].mark
                ELSE tsiMap'[m][Signature(s)] = Entry(m, s)
  <2>1. PICK i : i = Entry(m, s)
    OBVIOUS
  <2>2. i \in Infos \cup {None}
    BY <1>4, <1>6, <2>1, Constants DEF Shapes, Entry
  <2>3. CASE s \in seen
    <3>1. page[s] \in ScrapedPoints /\ tsiMap'[m][Signature(s)] = NewEntry(page[s], n, i)
      BY <1>9, <1>11, <2>1, <2>3
    <3>2. NewEntry(page[s], n, i) \in Infos /\ NewEntry(page[s], n, i).mark = TRUE
      BY <1>6, <2>2, <3>1, NewEntryFacts
    <3> QED  BY <2>3, <3>1, <3>2, NotNone
  <2>4. CASE s \notin seen
    BY <1>9, <1>11, <2>4
  <2> QED  BY <2>3, <2>4
<1>12. CASE m = jobsMap[j]
  BY <1>5, <1>6, <1>7, <1>10, <1>11, <1>12 DEF OwnJob
<1>13. CASE jobsMap[j] = None
  BY <1>5, <1>6, <1>7, <1>8, <1>13 DEF OwnJob
<1> QED  BY <1>6, <1>12, <1>13

-----------------------------------------------------------------------------
(* Ages: what is in force is younger than two collections.                 *)
AgesInv ==
  /\ \A j \in Jobs : AgeOfJob(j)
  /\ \A j \in Jobs, s \in Series : Alone(s) => AgeOfSeries(j, s)

LEMMA AgesInit == Init => AgesInv
  BY DEF Init, AgesInv, AgeOfJob, AgeOfSeries

LEMMA SameAges ==
  ASSUME NEW j \in Jobs, jobsMap'[j] = jobsMap[j], swept'[j] = swept[j],
         jobsMap[j] # None => /\ tsmMark'[jobsMap[j]] = tsmMark[jobsMap[j]]
                              /\ tsiMap'[jobsMap[j]] = tsiMap[jobsMap[j]]
  PROVE  /\ AgeOfJob(j) => AgeOfJob(j)'
         /\ \A s \in Series : AgeOfSeries(j, s) => AgeOfSeries(j, s)'
  BY DEF AgeOfJob, AgeOfSeries, Entry

LEMMA AgesStep == TypesInv /\ AgesInv /\ [Next]_vars => AgesInv'
<1> SUFFICES ASSUME TypesInv, AgesInv, [Next]_vars, NEW i \in Jobs
             PROVE  /\ AgeOfJob(i)'
                    /\ \A s \in Series : Alone(s) => AgeOfSeries(i, s)'
  BY DEF AgesInv
<1>0. /\ AgeOfJob(i) /\ \A s \in Series : Alone(s) => AgeOfSeries(i, s)
      /\ TypeOK /\ Shapes
  BY DEF AgesInv, TypesInv
<1> DEFINE Goal == /\ AgeOfJob(i)'
                   /\ \A s \in Series : Alone(s) => AgeOfSeries(i, s)'
           Same == /\ jobsMap'[i] = jobsMap[i] /\ swept'[i] = swept[i]
                   /\ jobsMap[i] # None => /\ tsmMark'[jobsMap[i]] = tsmMark[jobsMap[i]]
                                           /\ tsiMap'[jobsMap[i]] = tsiMap[jobsMap[i]]
<1>1. Same => Goal
  BY <1>0, SameAges
<1>2. ASSUME NEW j \in Jobs, CreateJob(j) PROVE Goal
  <2>1. CASE i = j
    BY <1>2, <2>1, CreateFacts DEF AgeOfJob, AgeOfSeries, Entry
  <2>2. CASE i # j
    <3>1. Same
      BY <1>2, <2>2, CreateFacts
    <3> QED  BY <1>1, <3>1
  <2> QED  BY <2>1, <2>2
<1>3. ASSUME NEW j \in Jobs, AdjustMetrics(j) PROVE Goal
  <2>1. CASE i = j
    <3>0. PICK seen \in SUBSET Series : OwnJob(j, seen)
      BY <1>3, AdjustOwn
    <3>1. /\ jobsMap'[j] = jobsMap[j]
          /\ jobsMap[j] # None =>
               /\ IF seen = {}
                    THEN /\ tsmMark'[jobsMap[j]] = tsmMark[jobsMap[j]]
                         /\ swept'[j][0] = swept[j][0]
                    ELSE swept'[j][0] = 0
               /\ \A s \in Series \ seen : swept'[j][s] = swept[j][s]
               /\ \A s \in seen : swept'[j][s] = 0
               /\ \A s \in Series : Alone(s) /\ s \notin seen =>
                    tsiMap'[jobsMap[j]][Signature(s)] = Entry(jobsMap[j], s)
      BY <3>0 DEF OwnJob
    <3>2. AgeOfJob(j)'
      BY <1>0, <2>1, <3>1 DEF AgeOfJob
    <3>3. ASSUME NEW s \in Series, Alone(s) PROVE AgeOfSeries(j, s)'
      <4>1. CASE s \in seen
        BY <3>1, <4>1 DEF AgeOfSeries
      <4>2. CASE s \notin seen
        BY <1>0, <2>1, <3>1, <3>3, <4>2 DEF AgeOfSeries, Entry
      <4> QED  BY <4>1, <4>2
    <3> QED  BY <2>1, <3>2, <3>3
  <2>2. CASE i # j
    <3>1. Same
      BY <1>3, <2>2, AdjustOthers
    <3> QED  BY <1>1, <3>1
  <2> QED  BY <2>1, <2>2
<1>4. ASSUME NEW j \in Jobs, SweepJob(j) PROVE Goal
  <2>0. PICK m : m = jobsMap[j]
    OBVIOUS
  <2>1. /\ m \in Maps /\ m # None
        /\ \A k \in Maps : k # m => tsiMap'[k] = tsiMap[k] /\ tsmMark'[k] = tsmMark[k]
        /\ \A k \in Jobs : k # j => jobsMap'[k] = jobsMap[k] /\ swept'[k] = swept[k]
        /\ \A w \in Watched : swept'[j][w] = swept[j][w] + 1
        /\ ~tsmMark[m] => jobsMap'[j] = None
        /\ tsmMark[m] => /\ jobsMap'[j] = m /\ tsmMark'[m] = FALSE
                         /\ \A s \in Series : SweepsEntry(m, s)
    BY <1>4, <2>0, SweepEntries
  <2>2. CASE i # j
    <3>1. jobsMap[i] # None => jobsMap[i] \in Maps /\ jobsMap[i] # m
      BY <2>0, <2>1, <2>2, OthersMap
    <3>2. Same
      BY <2>1, <2>2, <3>1
    <3> QED  BY <1>1, <3>2
  <2>3. CASE i = j /\ ~tsmMark[m]
    BY <2>1, <2>3 DEF AgeOfJob, AgeOfSeries
  <2>4. CASE i = j /\ tsmMark[m]
    <3>1. AgeOfJob(j)'
      <4>1. swept[j][0] = 0
        BY <1>0, <2>0, <2>1, <2>4 DEF AgeOfJob
      <4> QED  BY <2>1, <2>4, <4>1, Constants DEF AgeOfJob
    <3>2. ASSUME NEW s \in Series, Alone(s) PROVE AgeOfSeries(j, s)'
      <4> SUFFICES ASSUME tsiMap'[m][Signature(s)] # None
                   PROVE  swept'[j][s] = 1 /\ ~tsiMap'[m][Signature(s)].mark
        BY <2>1, <2>4 DEF AgeOfSeries, Entry
      <4>1. /\ Entry(m, s) # None /\ Entry(m, s).mark /\ ~tsiMap'[m][Signature(s)].mark
        BY <2>1, <2>4 DEF SweepsEntry
      <4>2. swept[j][s] = 0
        BY <1>0, <2>0, <2>1, <2>4, <3>2, <4>1 DEF AgeOfSeries
      <4> QED  BY <2>1, <4>1, <4>2, Constants
    <3> QED  BY <2>4, <3>1, <3>2
  <2> QED  BY <2>2, <2>3, <2>4
<1>5. CASE \/ \E j \in Jobs : GetJob(j) \/ MaybeGC(j)
           \/ StartGC \/ EndGC \/ GCIntervalPasses \/ UNCHANGED vars
  <2>1. UNCHANGED <<jobsMap, tsmMark, tsiMap, swept>>
    BY <1>5 DEF GetJob, MaybeGC, StartGC, EndGC, GCIntervalPasses, vars, ageVars
  <2> QED  BY <1>1, <2>1
<1> QED  BY <1>2, <1>3, <1>4, <1>5 DEF Next, Commit

-----------------------------------------------------------------------------
(* Freshness: what was adjusted since gcInterval passed is still there.    *)
FreshInv ==
  /\ \A j \in Jobs : FreshJob(j)
  /\ \A j \in Jobs, s \in Series : Alone(s) => FreshSeries(j, s)

LEMMA FreshInit == Init => FreshInv
<1> SUFFICES ASSUME Init, NEW j \in Jobs
             PROVE  FreshJob(j) /\ \A s \in Series : FreshSeries(j, s)
  BY DEF FreshInv
<1>1. \A s \in Series : idle[j][0] <= idle[j][s]
  BY Constants DEF Init
<1> QED  BY <1>1 DEF Init, FreshJob, FreshSeries

LEMMA SameFresh ==
  ASSUME NEW j \in Jobs, jobsMap'[j] = jobsMap[j], idle'[j] = idle[j], last'[j] = last[j],
         using'[j] \in {using[j], jobsMap[j], None}, NotDue(j) => NotDue(j)',
         jobsMap[j] # None => /\ tsmMark'[jobsMap[j]] = tsmMark[jobsMap[j]]
                              /\ tsiMap'[jobsMap[j]] = tsiMap[jobsMap[j]]
  PROVE  /\ FreshJob(j) => FreshJob(j)'
         /\ \A s \in Series : FreshSeries(j, s) => FreshSeries(j, s)'
<1>1. FreshJob(j) => FreshJob(j)'
  BY DEF FreshJob
<1>2. \A s \in Series : FreshSeries(j, s) => FreshSeries(j, s)'
  BY DEF FreshSeries, Entry
<1> QED  BY <1>1, <1>2

LEMMA FreshStep == TypesInv /\ FreshInv /\ [Next]_vars => FreshInv'
<1> SUFFICES ASSUME TypesInv, FreshInv, [Next]_vars, NEW i \in Jobs
             PROVE  /\ FreshJob(i)'
                    /\ \A s \in Series : Alone(s) => FreshSeries(i, s)'
  BY DEF FreshInv
<1>0. /\ FreshJob(i) /\ \A s \in Series : Alone(s) => FreshSeries(i, s)
      /\ TypeOK /\ Shapes /\ MapsOf(i) /\ Collecting
  BY DEF FreshInv, TypesInv
<1> DEFINE Goal == /\ FreshJob(i)'
                   /\ \A s \in Series : Alone(s) => FreshSeries(i, s)'
           Same == /\ jobsMap'[i] = jobsMap[i] /\ idle'[i] = idle[i] /\ last'[i] = last[i]
                   /\ using'[i] \in {using[i], jobsMap[i], None} /\ (NotDue(i) => NotDue(i)')
                   /\ jobsMap[i] # None => /\ tsmMark'[jobsMap[i]] = tsmMark[jobsMap[i]]
                                           /\ tsiMap'[jobsMap[i]] = tsiMap[jobsMap[i]]
<1>1. Same => Goal
  BY <1>0, SameFresh
<1>2. ASSUME NEW s \in Series
      PROVE idle[i][s] \in Nat /\ idle[i][0] \in Nat /\ s # 0
  BY <1>0, Constants DEF Shapes
<1>3. ASSUME NEW j \in Jobs, CreateJob(j) PROVE Goal
  <2>1. CASE i = j
    <3>1. \A s \in Series : Alone(s) /\ last[i][s] # None => idle[i][s] # 0
      BY <1>0, <1>3, <2>1, CreateFacts DEF FreshSeries
    <3>2. FreshJob(i)'
      <4>1. /\ idle'[i][0] = 0 /\ tsmMark'[jobsMap'[i]] = TRUE /\ using'[i] = jobsMap'[i]
            /\ \A s \in Series : idle'[i][s] = idle[i][s]
        BY <1>3, <2>1, CreateFacts
      <4>2. \A s \in Series : idle'[i][0] <= idle'[i][s]
        BY <1>2, <4>1
      <4> QED  BY <4>1, <4>2 DEF FreshJob
    <3>3. \A s \in Series : Alone(s) => FreshSeries(i, s)'
      BY <1>3, <2>1, <3>1, CreateFacts DEF FreshSeries
    <3> QED  BY <3>2, <3>3
  <2>2. CASE i # j
    <3>1. Same
      BY <1>3, <2>2, CreateFacts DEF NotDue, gcVars
    <3> QED  BY <1>1, <3>1
  <2> QED  BY <2>1, <2>2
<1>4. ASSUME NEW j \in Jobs, AdjustMetrics(j) PROVE Goal
  <2>1. CASE i # j
    <3>1. Same
      BY <1>4, <2>1, AdjustOthers DEF NotDue, gcVars
    <3> QED  BY <1>1, <3>1
  <2>2. CASE i = j
    <3>0. PICK seen \in SUBSET Series : OwnJob(j, seen)
      BY <1>4, AdjustOwn
    <3>1. /\ jobsMap'[j] = jobsMap[j] /\ using'[j] = None /\ using[j] # None
          /\ UNCHANGED gcVars
          /\ \A s \in Series \ seen : last'[j][s] = last[j][s]
          /\ jobsMap[j] = None => idle'[j] = idle[j]
          /\ jobsMap[j] # None =>
               /\ IF seen = {}
                    THEN /\ tsmMark'[jobsMap[j]] = tsmMark[jobsMap[j]]
                         /\ idle'[j][0] = idle[j][0]
                    ELSE /\ tsmMark'[jobsMap[j]] = TRUE
                         /\ idle'[j][0] = 0
               /\ \A s \in Series \ seen : idle'[j][s] = idle[j][s]
               /\ \A s \in seen : idle'[j][s] = 0
               /\ \A s \in Series : Alone(s) =>
                    IF s \in seen
                      THEN /\ tsiMap'[jobsMap[j]][Signature(s)] # None
                           /\ tsiMap'[jobsMap[j]][Signature(s)].mark
                      ELSE tsiMap'[jobsMap[j]][Signature(s)] = Entry(jobsMap[j], s)
      BY <3>0 DEF OwnJob
    <3>2. NotDue(j)' <=> NotDue(j)
      BY <3>1 DEF NotDue, gcVars
    <3>3. CASE jobsMap[j] = None
      <4>1. \A s \in Series : idle[j][s] >= 1
        BY <1>0, <2>2, <3>1, <3>3 DEF FreshJob
      <4>2. \A s \in Series : idle'[j][s] # 0
        BY <1>2, <2>2, <3>1, <3>3, <4>1
      <4>3. FreshJob(j)'
        BY <1>0, <2>2, <3>1, <3>3 DEF FreshJob
      <4> QED  BY <2>2, <4>2, <4>3 DEF FreshSeries
    <3>4. CASE jobsMap[j] # None
      <4>1. \A s \in Series : idle'[j][0] <= idle'[j][s]
        <5>1. ASSUME NEW s \in Series PROVE idle'[j][0] <= idle'[j][s]
          <6>1. idle[j][0] <= idle[j][s] /\ idle[j][0] \in Nat /\ idle[j][s] \in Nat
            BY <1>0, <1>2, <2>2 DEF FreshJob
          <6>2. seen # {} => idle'[j][0] = 0 /\ idle'[j][s] \in {0, idle[j][s]}
            BY <3>1, <3>4
          <6>3. seen = {} => idle'[j][0] = idle[j][0] /\ idle'[j][s] = idle[j][s]
            BY <3>1, <3>4
          <6> QED  BY <6>1, <6>2, <6>3
        <5> QED  BY <5>1
      <4>2. FreshJob(j)'
        BY <1>0, <2>2, <3>1, <3>2, <3>4, <4>1 DEF FreshJob
      <4>3. ASSUME NEW s \in Series, Alone(s) PROVE FreshSeries(j, s)'
        <5>1. CASE s \in seen
          BY <3>1, <3>4, <4>3, <5>1 DEF FreshSeries, Entry
        <5>2. CASE s \notin seen
          BY <1>0, <2>2, <3>1, <3>2, <3>4, <4>3, <5>2 DEF FreshSeries, Entry
        <5> QED  BY <5>1, <5>2
      <4> QED  BY <2>2, <4>2, <4>3
    <3> QED  BY <3>3, <3>4
  <2> QED  BY <2>1, <2>2
<1>5. ASSUME NEW j \in Jobs, SweepJob(j) PROVE Goal
  <2>0. PICK m : m = jobsMap[j]
    OBVIOUS
  <2>1. /\ m \in Maps /\ m # None /\ gcRunning /\ gcDue /\ j \in gcLeft
        /\ \A k \in Maps : k # m => tsiMap'[k] = tsiMap[k] /\ tsmMark'[k] = tsmMark[k]
        /\ \A k \in Jobs : k # j => jobsMap'[k] = jobsMap[k]
        /\ ~tsmMark[m] => jobsMap'[j] = None
        /\ tsmMark[m] => /\ jobsMap'[j] = m
                         /\ \A s \in Series : SweepsEntry(m, s)
    BY <1>5, <2>0, SweepEntries
  <2>2. gcLeft' = gcLeft \ {j} /\ UNCHANGED <<gcDue, gcRunning, using, last, idle>>
    BY <1>5 DEF SweepJob, histVars
  <2>3. CASE i # j
    <3>1. jobsMap[i] # None => jobsMap[i] \in Maps /\ jobsMap[i] # m
      BY <2>0, <2>1, <2>3, OthersMap
    <3>2. Same
      BY <2>1, <2>2, <2>3, <3>1 DEF NotDue
    <3> QED  BY <1>1, <3>2
  <2>4. CASE i = j /\ ~tsmMark[m]
    <3>1. idle[j][0] # 0
      BY <1>0, <2>0, <2>1, <2>4 DEF FreshJob, NotDue
    <3>2. \A s \in Series : idle[j][s] >= 1
      BY <1>0, <1>2, <2>4, <3>1 DEF FreshJob
    <3>3. FreshJob(j)'
      BY <1>0, <2>1, <2>2, <2>4, <3>2 DEF FreshJob
    <3>4. \A s \in Series : FreshSeries(j, s)'
      BY <2>2, <3>2 DEF FreshSeries
    <3> QED  BY <2>4, <3>3, <3>4
  <2>5. CASE i = j /\ tsmMark[m]
    <3>1. NotDue(j)' /\ ~NotDue(j)
      BY <2>1, <2>2 DEF NotDue
    <3>2. FreshJob(j)'
      BY <1>0, <2>0, <2>1, <2>2, <2>5, <3>1 DEF FreshJob
    <3>3. ASSUME NEW s \in Series, Alone(s) PROVE FreshSeries(j, s)'
      <4>1. idle[j][s] = 0 /\ last[j][s] # None => Entry(m, s) # None /\ Entry(m, s).mark
        BY <1>0, <2>0, <2>5, <3>1, <3>3 DEF FreshSeries
      <4> QED  BY <2>1, <2>2, <2>5, <3>1, <4>1 DEF FreshSeries, SweepsEntry, Entry
    <3> QED  BY <2>5, <3>2, <3>3
  <2> QED  BY <2>3, <2>4, <2>5
<1>6. CASE StartGC
  <2>1. /\ ~gcRunning /\ UNCHANGED <<jobsMap, tsmMark, tsiMap, using, last, idle, gcDue>>
        /\ ~gcDue => UNCHANGED <<gcRunning, gcLeft>>
    BY <1>6 DEF StartGC, histVars, ageVars
  <2>2. CASE gcDue
    <3>1. ~NotDue(i)
      BY <2>1, <2>2 DEF NotDue
    <3>2. FreshJob(i)'
      BY <1>0, <2>1, <3>1 DEF FreshJob
    <3>3. ASSUME NEW s \in Series, Alone(s) PROVE FreshSeries(i, s)'
      BY <1>0, <2>1, <3>1, <3>3 DEF FreshSeries, Entry
    <3> QED  BY <3>2, <3>3
  <2>3. CASE ~gcDue
    <3>1. Same
      BY <2>1, <2>3 DEF NotDue
    <3> QED  BY <1>1, <3>1
  <2> QED  BY <2>2, <2>3
<1>7. CASE EndGC
  <2>1. /\ UNCHANGED <<jobsMap, tsmMark, tsiMap, using, last, idle>> /\ gcDue' = FALSE
    BY <1>7 DEF EndGC, histVars, ageVars
  <2>2. Same
    BY <2>1 DEF NotDue
  <2> QED  BY <1>1, <2>2
<1>8. CASE GCIntervalPasses
  <2>1. /\ UNCHANGED <<jobsMap, tsmMark, tsiMap, using, last>>
        /\ \A w \in Watched : idle'[i][w] = idle[i][w] + 1
    BY <1>8 DEF GCIntervalPasses, histVars
  <2>2. ASSUME NEW s \in Series
        PROVE  /\ idle'[i][s] = idle[i][s] + 1 /\ idle'[i][0] = idle[i][0] + 1
               /\ idle'[i][s] >= 1 /\ idle'[i][s] # 0
               /\ idle[i][0] <= idle[i][s] => idle'[i][0] <= idle'[i][s]
    BY <1>2, <2>1, Constants
  <2>3. idle'[i][0] # 0
    BY <1>0, <2>1, Constants DEF Shapes
  <2>4. FreshJob(i)'
    BY <1>0, <2>1, <2>2, <2>3 DEF FreshJob
  <2>5. \A s \in Series : FreshSeries(i, s)'
    BY <2>2 DEF FreshSeries
  <2> QED  BY <2>4, <2>5
<1>9. CASE \/ \E j \in Jobs : GetJob(j) \/ MaybeGC(j)
           \/ UNCHANGED vars
  <2>1. UNCHANGED <<jobsMap, tsmMark, tsiMap, last, idle, gcDue, gcRunning, gcLeft>>
    BY <1>9 DEF GetJob, MaybeGC, vars, ageVars, histVars, gcVars
  <2>2. using'[i] \in {using[i], jobsMap[i]}
    BY <1>0, <1>9 DEF GetJob, MaybeGC, vars, TypeOK
  <2>3. Same
    BY <2>1, <2>2 DEF NotDue
  <2> QED  BY <1>1, <2>3
<1> QED  BY <1>3, <1>4, <1>5, <1>6, <1>7, <1>8, <1>9 DEF Next, Commit

-----------------------------------------------------------------------------
(* The whole invariant, for the timeseries that have a signature to        *)
(* themselves.                                                             *)
AdjusterInv == TypesInv /\ PointsInv /\ AgesInv /\ FreshInv

LEMMA AdjusterInvariant == Spec => []AdjusterInv
<1>1. Init => AdjusterInv
  BY TypesInit, PointsInit, AgesInit, FreshInit DEF AdjusterInv
<1>2. AdjusterInv /\ [Next]_vars => AdjusterInv'
  BY TypesStep, PointsStep, AgesStep, FreshStep DEF AdjusterInv
<1> QED  BY <1>1, <1>2, PTL DEF Spec

(* The variables keep their types, for any signatures: the map that a job  *)
(* has was made by one of its own scrapes (JobsMap.get).                   *)
THEOREM TypeCorrect == Spec => []TypeOK
<1>1. TypesInv => TypeOK
  BY DEF TypesInv
<1> QED  BY TypesInit, TypesStep, <1>1, PTL DEF Spec

(* A point is sent relative to the last point of its timeseries that was   *)
(* dropped, with the start of that point (adjustPoint, adjustTimeseries).  *)
THEOREM RelativeToTheBase == SignaturesDiffer => (Spec => []ReportedFromBase)
<1> SUFFICES ASSUME SignaturesDiffer PROVE Spec => []ReportedFromBase
  OBVIOUS
<1>1. AdjusterInv => ReportedFromBase
  BY DEF AdjusterInv, PointsInv, PointsOf, Reported, ReportedFromBase, SignaturesDiffer
<1> QED  BY AdjusterInvariant, <1>1, PTL

(* What a collection has looked at twice since it was last adjusted is     *)
(* gone (timeseriesMap.gc, JobsMap.gc).                                    *)
THEOREM GoneAfterTwo == SignaturesDiffer => (Spec => []NothingOutlivesTwoCollections)
<1> SUFFICES ASSUME SignaturesDiffer PROVE Spec => []NothingOutlivesTwoCollections
  OBVIOUS
<1>1. AdjusterInv => NothingOutlivesTwoCollections
  <2> SUFFICES ASSUME AdjusterInv, NEW j \in Jobs, jobsMap[j] # None
               PROVE  /\ swept[j][0] < 2
                      /\ \A s \in Series : tsiMap[jobsMap[j]][Signature(s)] # None =>
                           swept[j][s] < 2
    BY DEF NothingOutlivesTwoCollections
  <2>1. swept[j][0] = 0 \/ swept[j][0] = 1
    BY DEF AdjusterInv, AgesInv, AgeOfJob
  <2>2. ASSUME NEW s \in Series, tsiMap[jobsMap[j]][Signature(s)] # None
        PROVE  swept[j][s] = 0 \/ swept[j][s] = 1
    BY <2>2 DEF AdjusterInv, AgesInv, AgeOfSeries, Entry, SignaturesDiffer
  <2> QED  BY <2>1, <2>2
<1> QED  BY AdjusterInvariant, <1>1, PTL

-----------------------------------------------------------------------------
(* The step that adjusts a timeseries again is AdjustMetrics of its job,   *)
(* and what it read of s, what it sends of it and what it drops are told   *)
(* by the entry that s had in the map.                                     *)
AdjustedAgain(j, s, seen) ==
  /\ using[j] # None
  /\ s \notin seen => out'[j][s] = None /\ base'[j][s] = base[j][s]
  /\ s \in seen =>
       /\ last'[j][s] \in ScrapedPoints
       /\ out'[j][s] = None <=> Starts(last'[j][s], Entry(using[j], s))
       /\ out'[j][s] # None => base'[j][s] = base[j][s]
       /\ Entry(using[j], s) # None => PreviousScraped(Entry(using[j], s)) = last[j][s]

LEMMA AdjustsAgainStep ==
  ASSUME AdjusterInv, [Next]_vars, NEW j \in Jobs, NEW s \in Series, Alone(s),
         AdjustsAgain(j, s)
  PROVE  \E seen \in SUBSET Series : AdjustedAgain(j, s, seen)
<1>0. /\ TypesInv /\ TypeOK /\ Shapes /\ PointsOf(j, s)
      /\ pc[j] = "adjust" /\ pc'[j] = "idle"
  BY DEF AdjusterInv, TypesInv, PointsInv, AdjustsAgain
<1>1. AdjustMetrics(j)
  <2>1. ASSUME NEW i \in Jobs, GetJob(i) \/ CreateJob(i) \/ MaybeGC(i) PROVE FALSE
    <3>1. pc[i] # "adjust" /\ \E v : v # "idle" /\ pc' = [pc EXCEPT ![i] = v]
      BY <2>1 DEF GetJob, CreateJob, MaybeGC
    <3> QED  BY <1>0, <3>1 DEF TypeOK
  <2>2. ASSUME NEW i \in Jobs, AdjustMetrics(i) PROVE i = j
    BY <1>0, <2>2 DEF AdjustMetrics, TypeOK
  <2>3. CASE \/ \E i \in Jobs : SweepJob(i)
             \/ StartGC \/ EndGC \/ GCIntervalPasses \/ UNCHANGED vars
    BY <1>0, <2>3 DEF SweepJob, StartGC, EndGC, GCIntervalPasses, vars
  <2> QED  BY <2>1, <2>2, <2>3 DEF Next, Commit
<1>2. PICK seen \in SUBSET Series : \E page \in [seen -> ScrapedPoints] : Adjusts(j, seen, page)
  BY <1>0, <1>1, AdjustStep
<1>3. PICK page \in [seen -> ScrapedPoints] : Adjusts(j, seen, page)
  BY <1>2
<1>4. PICK m, n, i : m = using[j] /\ n = scrapes[j] /\ i = Entry(m, s)
  OBVIOUS
<1>5. m # None /\ m \in Maps /\ n \in 1..MaxScrapes /\ i \in Infos \cup {None}
  <2>1. using[j] # None
    BY <1>0 DEF TypeOK
  <2>2. using[j] \in Maps /\ scrapes[j] \in 1..MaxScrapes
    BY <1>0, <2>1, UsingIsMap
  <2> QED  BY <1>0, <1>4, <2>1, <2>2, Constants DEF Shapes, Entry
<1>6. i # None => PreviousScraped(i) = last[j][s]
  BY <1>0, <1>4, <1>5 DEF PointsOf, Remembers
<1>7. /\ out'[j][s] = IF s \in seen THEN NewSent(page[s], i) ELSE None
      /\ last'[j][s] = IF s \in seen THEN page[s] ELSE last[j][s]
      /\ base'[j][s] = IF s \in seen /\ out'[j][s] = None
           THEN [point |-> page[s], start |-> n] ELSE base[j][s]
  BY <1>3, <1>4 DEF Adjusts, AdjustsOut, AdjustsHistory
<1>8. ASSUME s \in seen
      PROVE  /\ last'[j][s] \in ScrapedPoints
             /\ out'[j][s] = None <=> Starts(last'[j][s], i)
  <2>1. page[s] \in ScrapedPoints
    BY <1>8
  <2>2. NewSent(page[s], i) = None <=> Starts(page[s], i)
    BY <1>5, <2>1, NewEntryFacts
  <2> QED  BY <1>7, <1>8, <2>1, <2>2
<1> QED  BY <1>4, <1>5, <1>6, <1>7, <1>8 DEF AdjustedAgain

(* No fall of a checked field is reported as progress (adjustPoint).       *)
THEOREM FallsNotReported == SignaturesDiffer => (Spec => NoFallReported)
<1> SUFFICES ASSUME SignaturesDiffer PROVE Spec => NoFallReported
  OBVIOUS
<1> DEFINE A == \A j \in Jobs, s \in Series : AdjustsAgain(j, s) /\ out'[j][s] # None =>
                  \A f \in Checked : last'[j][s][f] >= last[j][s][f]
<1>1. AdjusterInv /\ [Next]_vars => A
  <2> SUFFICES ASSUME AdjusterInv, [Next]_vars, NEW j \in Jobs, NEW s \in Series,
                      AdjustsAgain(j, s), out'[j][s] # None, NEW f \in Checked
               PROVE  last'[j][s][f] >= last[j][s][f]
    OBVIOUS
  <2>0. PICK seen \in SUBSET Series : AdjustedAgain(j, s, seen)
    BY AdjustsAgainStep DEF SignaturesDiffer
  <2>1. /\ using[j] # None
        /\ s \notin seen => out'[j][s] = None /\ base'[j][s] = base[j][s]
        /\ s \in seen =>
             /\ last'[j][s] \in ScrapedPoints
             /\ out'[j][s] = None <=> Starts(last'[j][s], Entry(using[j], s))
             /\ out'[j][s] # None => base'[j][s] = base[j][s]
             /\ Entry(using[j], s) # None => PreviousScraped(Entry(using[j], s)) = last[j][s]
    BY <2>0 DEF AdjustedAgain
  <2>2. ~Starts(last'[j][s], Entry(using[j], s)) /\ last'[j][s] \in ScrapedPoints
    BY <2>1
  <2>3. ~(last'[j][s][f] < last[j][s][f])
    BY <2>1, <2>2 DEF Starts, IsReset
  <2>4. last[j][s] \in ScrapedPoints
    BY DEF AdjustsAgain, AdjusterInv, TypesInv, Shapes
  <2>5. last'[j][s][f] \in Nat /\ last[j][s][f] \in Nat
    BY <2>2, <2>4, AdjusterAssumption DEF AdjusterAssumption
  <2> QED  BY <2>3, <2>5
<1>2. AdjusterInv /\ [Next]_vars => [A]_vars
  BY <1>1
<1> HIDE DEF A
<1>3. Spec => [][A]_vars
  BY AdjusterInvariant, <1>2, PTL DEF Spec
<1> QED  BY <1>3 DEF NoFallReported, A

(* A point is dropped only because a checked field fell, or because        *)
(* gcInterval has passed since its timeseries was last adjusted: the       *)
(* collections of several goroutines do not add up (JobsMap.gc).           *)
THEOREM DroppedForAReason == SignaturesDiffer => (Spec => DropsAreJustified)
<1> SUFFICES ASSUME SignaturesDiffer PROVE Spec => DropsAreJustified
  OBVIOUS
<1> DEFINE A == \A j \in Jobs, s \in Series : AdjustsAgain(j, s) /\ base'[j][s] # base[j][s] =>
                  \/ \E f \in Checked : last'[j][s][f] < last[j][s][f]
                  \/ idle[j][s] >= 1
<1>1. AdjusterInv /\ [Next]_vars => A
  <2> SUFFICES ASSUME AdjusterInv, [Next]_vars, NEW j \in Jobs, NEW s \in Series,
                      AdjustsAgain(j, s), base'[j][s] # base[j][s],
                      ~\E f \in Checked : last'[j][s][f] < last[j][s][f]
               PROVE  idle[j][s] >= 1
    OBVIOUS
  <2>0. PICK seen \in SUBSET Series : AdjustedAgain(j, s, seen)
    BY AdjustsAgainStep DEF SignaturesDiffer
  <2>1. /\ using[j] # None
        /\ s \notin seen => out'[j][s] = None /\ base'[j][s] = base[j][s]
        /\ s \in seen =>
             /\ last'[j][s] \in ScrapedPoints
             /\ out'[j][s] = None <=> Starts(last'[j][s], Entry(using[j], s))
             /\ out'[j][s] # None => base'[j][s] = base[j][s]
             /\ Entry(using[j], s) # None => PreviousScraped(Entry(using[j], s)) = last[j][s]
    BY <2>0 DEF AdjustedAgain
  <2>2. Starts(last'[j][s], Entry(using[j], s)) /\ s \in seen
    BY <2>1
  <2>3. Entry(using[j], s) = None
    BY <2>1, <2>2 DEF Starts, IsReset
  <2>4. FreshJob(j) /\ FreshSeries(j, s) /\ idle[j][s] \in Nat /\ last[j][s] # None
    BY Constants DEF AdjusterInv, FreshInv, TypesInv, Shapes, SignaturesDiffer, AdjustsAgain
  <2>5. CASE using[j] = jobsMap[j]
    BY <2>3, <2>4, <2>5 DEF FreshSeries
  <2>6. CASE using[j] # jobsMap[j]
    BY <2>1, <2>4, <2>6 DEF FreshJob
  <2> QED  BY <2>5, <2>6
<1>2. AdjusterInv /\ [Next]_vars => [A]_vars
  BY <1>1
<1> HIDE DEF A
<1>3. Spec => [][A]_vars
  BY AdjusterInvariant, <1>2, PTL DEF Spec
<1> QED  BY <1>3 DEF DropsAreJustified, A

=============================================================================
