------------------------- MODULE NodeBatcherProofs --------------------------
(***************************************************************************)
(* Theorems about NodeBatcher, for any calls, keys, tickers and sizes: the *)
(* types, that the id of a bucket is in one place, that no spans are left  *)
(* in a bucket that nobody will send, and that every span is held or was   *)
(* sent once.                                                              *)
(***************************************************************************)
EXTENDS NodeBatcher, DataLemmas

(* Bucket nb was stored in the map and no ticker has begun to remove it.   *)
InMap(nb) == bucket[nb] = nb /\ ~dead[nb] /\ nb \notin locked

(* A call has a bucket once it asked for one, its own if it was the first; *)
(* the bucket has the call's key and was stored by the call it is named    *)
(* after.                                                                  *)
GetsBucket  == \A c \in Calls : bucket[c] = None <=> pc[c] = "get"
OwnIfFirst  == \A c \in Calls : pc[c] = "register" => bucket[c] = c
BucketOfKey == \A c \in Calls : bucket[c] # None =>
                 KeyOf[bucket[c]] = KeyOf[c] /\ bucket[bucket[c]] = bucket[c]

(* The map holds exactly the buckets that are not being removed.           *)
MapIsLive   == \A k \in Keys : buckets[k] # None => KeyOf[buckets[k]] = k /\ InMap(buckets[k])
LiveIsInMap == \A nb \in Calls : InMap(nb) => buckets[KeyOf[nb]] = nb

(* Only stored buckets are locked or die, and those have no spans.         *)
StoredFirst == \A nb \in Calls : dead[nb] \/ nb \in locked => bucket[nb] = nb
SpansInMap  == \A nb \in Calls : totalItemCount[nb] > 0 => InMap(nb)

BucketsInv ==
  /\ GetsBucket /\ OwnIfFirst /\ BucketOfKey
  /\ MapIsLive /\ LiveIsInMap /\ StoredFirst /\ SpansInMap

(* A ticker visits keys that it watches, and looks at a bucket that the    *)
(* map has under the key until the ticker itself removes it.               *)
VisitInv(t) ==
  /\ toVisit[t] \subseteq nodes[t]
  /\ tickerPc[t] \in {"select", "visit"} => visiting[t] = {}
  /\ tickerPc[t] \in {"process", "bury"} =>
       /\ visited[t] \in Calls
       /\ visiting[t] = {KeyOf[visited[t]]}
       /\ KeyOf[visited[t]] \in nodes[t] \ toVisit[t]
  /\ tickerPc[t] = "process" => buckets[KeyOf[visited[t]]] = visited[t]
  /\ tickerPc[t] = "bury" => visited[t] \in locked

BuriedByOne ==
  \A t, u \in Tickers :
    tickerPc[t] = "bury" /\ tickerPc[u] = "bury" /\ visited[t] = visited[u] => t = u

TickersInv == BuriedByOne /\ \A t \in Tickers : VisitInv(t)

IInv == TypeOK /\ BucketsInv /\ TickersInv /\ OneTickerPerBucket

-----------------------------------------------------------------------------
LEMMA InvInit == Init => IInv
<1> SUFFICES ASSUME Init PROVE IInv
  OBVIOUS
<1> USE NodeBatcherAssumption DEF NodeBatcherAssumption, Init
<1>1. TypeOK
  BY DEF TypeOK
<1>2. BucketsInv
  BY DEF BucketsInv, InMap, GetsBucket, OwnIfFirst, BucketOfKey, MapIsLive, LiveIsInMap,
         StoredFirst, SpansInMap
<1>3. TickersInv
  BY DEF TickersInv, VisitInv, BuriedByOne
<1>4. OneTickerPerBucket
  BY EmptyRange DEF OneTickerPerBucket, Registering, Queued, Watching, Burying, AtMostOne, IsInjective
<1> QED  BY <1>1, <1>2, <1>3, <1>4 DEF IInv

(* Steps that move no id keep OneTickerPerBucket.                          *)
LEMMA SameTokens ==
  ASSUME OneTickerPerBucket, UNCHANGED <<buckets, pendingNodes>>,
         \A k \in Keys : Registering(k)' = Registering(k) /\ Watching(k)' = Watching(k)
  PROVE  OneTickerPerBucket'
<1>1. \A k \in Keys : Queued(k)' = Queued(k)
  BY DEF Queued
<1> QED  BY <1>1 DEF OneTickerPerBucket, AtMostOne

(* The tickers' part depends on what the tickers see.                      *)
LEMMA SameTickers ==
  ASSUME TypeOK, TickersInv, UNCHANGED <<nodes, tickerPc, toVisit, visiting, visited, locked>>,
         \A k \in Keys : buckets[k] # None => buckets'[k] = buckets[k]
  PROVE  TickersInv'
<1>1. BuriedByOne'
  BY DEF TickersInv, BuriedByOne
<1>2. ASSUME NEW t \in Tickers PROVE VisitInv(t)'
  BY NodeBatcherAssumption DEF TickersInv, VisitInv, TypeOK, NodeBatcherAssumption
<1> QED  BY <1>1, <1>2 DEF TickersInv

LEMMA GetStep ==
  ASSUME IInv, NEW c \in Calls, GetOrAddBucket(c)
  PROVE  IInv'
<1> DEFINE k == KeyOf[c]
<1>1. /\ pc[c] = "get" /\ k \in Keys /\ c # None
      /\ UNCHANGED <<items, totalItemCount, cyclesUntouched, dead, recentlySent, sent>>
      /\ UNCHANGED <<locked, pendingNodes, nodes, tickerPc, toVisit, visiting, visited>>
  BY NodeBatcherAssumption DEF NodeBatcherAssumption, GetOrAddBucket, bucketVars, tickerVars
<1>2. bucket[c] = None
  BY <1>1 DEF IInv, BucketsInv, GetsBucket
<1>3. ASSUME NEW d \in Calls, bucket[d] # None PROVE bucket[d] \in Calls /\ bucket[d] # c
  BY <1>1, <1>2, <1>3 DEF IInv, BucketsInv, BucketOfKey, TypeOK
<1>4. CASE buckets[k] = None
  <2>1. /\ buckets' = [buckets EXCEPT ![k] = c]
        /\ pc' = [pc EXCEPT ![c] = "register"]
        /\ bucket' = [bucket EXCEPT ![c] = c]
    BY <1>1, <1>4 DEF GetOrAddBucket, IInv, TypeOK
  <2>2. /\ \A j \in Keys : buckets'[j] = IF j = k THEN c ELSE buckets[j]
        /\ \A d \in Calls : bucket'[d] = IF d = c THEN c ELSE bucket[d]
        /\ \A d \in Calls : pc'[d] = IF d = c THEN "register" ELSE pc[d]
    BY <1>1, <2>1 DEF IInv, TypeOK
  <2>3. \A nb \in Calls : InMap(nb)' <=> InMap(nb) \/ nb = c
    BY <1>1, <1>2, <2>2 DEF IInv, BucketsInv, InMap, StoredFirst
  <2> HIDE DEF k
  <2>4. TypeOK'
    BY <1>1, <2>1 DEF IInv, TypeOK
  <2>5. GetsBucket' /\ OwnIfFirst' /\ BucketOfKey'
    BY <1>1, <1>3, <2>2 DEF IInv, BucketsInv, GetsBucket, OwnIfFirst, BucketOfKey
  <2>6. MapIsLive'
    <3>1. ~dead[c] /\ c \notin locked
      BY <1>1, <1>2 DEF IInv, BucketsInv, StoredFirst
    <3>2. ASSUME NEW j \in Keys, buckets'[j] # None, j # k
          PROVE  KeyOf[buckets'[j]] = j /\ InMap(buckets[j])'
      BY <1>1, <1>2, <2>2, <3>2 DEF IInv, BucketsInv, MapIsLive, InMap, TypeOK
    <3>3. KeyOf[buckets'[k]] = k /\ InMap(buckets[k])'
      BY <1>1, <2>2, <3>1 DEF InMap, k
    <3> QED  BY <3>2, <3>3 DEF MapIsLive
  <2>7. LiveIsInMap'
    BY <1>1, <1>4, <2>2, <2>3, NodeBatcherAssumption
       DEF IInv, BucketsInv, LiveIsInMap, k, NodeBatcherAssumption
  <2>8. StoredFirst' /\ SpansInMap'
    BY <1>1, <2>2, <2>3 DEF IInv, BucketsInv, StoredFirst, SpansInMap
  <2>9. TickersInv'
    BY <1>1, <1>4, <2>2, SameTickers DEF IInv
  <2>10. OneTickerPerBucket'
    <3>1. \A j \in Keys : Registering(j)' = IF j = k THEN Registering(j) \cup {c} ELSE Registering(j)
      BY <1>1, <2>2 DEF Registering, k
    <3>2. \A j \in Keys : Queued(j)' = Queued(j) /\ Watching(j)' = Watching(j)
      BY <1>1 DEF Queued, Watching, Burying
    <3> QED  BY <1>1, <1>4, <2>2, <3>1, <3>2 DEF IInv, OneTickerPerBucket, AtMostOne
  <2> QED  BY <2>4, <2>5, <2>6, <2>7, <2>8, <2>9, <2>10 DEF IInv, BucketsInv
<1>5. CASE buckets[k] # None
  <2>1. /\ buckets' = buckets
        /\ pc' = [pc EXCEPT ![c] = "add"]
        /\ bucket' = [bucket EXCEPT ![c] = buckets[k]]
    BY <1>1, <1>5 DEF GetOrAddBucket, IInv, TypeOK
  <2>2. /\ \A d \in Calls : bucket'[d] = IF d = c THEN buckets[k] ELSE bucket[d]
        /\ \A d \in Calls : pc'[d] = IF d = c THEN "add" ELSE pc[d]
    BY <1>1, <2>1 DEF IInv, TypeOK
  <2>3. /\ buckets[k] \in Calls /\ buckets[k] # c
        /\ KeyOf[buckets[k]] = k /\ bucket[buckets[k]] = buckets[k]
    BY <1>1, <1>2, <1>5 DEF IInv, BucketsInv, MapIsLive, InMap, TypeOK
  <2>4. \A nb \in Calls : InMap(nb)' <=> InMap(nb)
    BY <1>1, <1>2, <2>2, <2>3 DEF InMap
  <2> HIDE DEF k
  <2>5. TypeOK'
    BY <1>1, <2>1, <2>3 DEF IInv, TypeOK
  <2>6. GetsBucket' /\ OwnIfFirst' /\ BucketOfKey'
    BY <1>1, <1>3, <1>5, <2>2, <2>3 DEF IInv, BucketsInv, GetsBucket, OwnIfFirst, BucketOfKey, k
  <2>7. MapIsLive' /\ LiveIsInMap'
    BY <1>1, <2>1, <2>4 DEF IInv, BucketsInv, MapIsLive, LiveIsInMap, TypeOK
  <2>8. StoredFirst' /\ SpansInMap'
    BY <1>1, <1>2, <2>2, <2>4 DEF IInv, BucketsInv, StoredFirst, SpansInMap
  <2>9. TickersInv'
    BY <1>1, <2>1, SameTickers DEF IInv
  <2>10. OneTickerPerBucket'
    <3>1. \A j \in Keys : Registering(j)' = Registering(j)
      BY <1>1, <2>2 DEF Registering
    <3>2. \A j \in Keys : Watching(j)' = Watching(j)
      BY <1>1 DEF Watching, Burying
    <3> QED  BY <1>1, <2>1, <3>1, <3>2, SameTokens DEF IInv
  <2> QED  BY <2>5, <2>6, <2>7, <2>8, <2>9, <2>10 DEF IInv, BucketsInv
<1> QED  BY <1>4, <1>5

LEMMA RegisterStep ==
  ASSUME IInv, NEW c \in Calls, RegisterBucket(c)
  PROVE  IInv'
<1> DEFINE k == KeyOf[c]
<1>1. PICK t \in Tickers :
        /\ pc[c] = "register" /\ Len(pendingNodes[t]) < PendingNodes
        /\ pendingNodes' = [pendingNodes EXCEPT ![t] = Append(@, KeyOf[c])]
        /\ pc' = [pc EXCEPT ![c] = "add"]
        /\ UNCHANGED <<buckets, items, totalItemCount, cyclesUntouched, dead, recentlySent, sent>>
        /\ UNCHANGED <<locked, bucket, nodes, tickerPc, toVisit, visiting, visited>>
  BY DEF RegisterBucket, bucketVars, tickerVars
<1>2. k \in Keys /\ c # None
  BY NodeBatcherAssumption DEF NodeBatcherAssumption
<1>3. /\ \A d \in Calls : pc'[d] = IF d = c THEN "add" ELSE pc[d]
      /\ \A u \in Tickers : pendingNodes'[u] = IF u = t THEN Append(pendingNodes[t], k) ELSE pendingNodes[u]
      /\ \A u \in Tickers : pendingNodes[u] \in Seq(Keys)
  BY <1>1 DEF IInv, TypeOK
<1>4. Len(pendingNodes'[t]) <= PendingNodes /\ pendingNodes'[t] \in Seq(Keys)
  BY <1>1, <1>2, <1>3, AppendProperties, LenProperties, NodeBatcherAssumption DEF NodeBatcherAssumption
<1>5. c \in Registering(k)
  BY <1>1 DEF Registering
<1>6. k \notin Range(pendingNodes[t])
  BY <1>2, <1>5 DEF IInv, OneTickerPerBucket, Queued
<1> HIDE DEF k
<1>7. TypeOK'
  <2>1. pendingNodes' \in [Tickers -> Seq(Keys)] /\ pc' \in [Calls -> {"get", "register", "add", "done"}]
    BY <1>1, <1>2, <1>4 DEF IInv, TypeOK, k
  <2>2. \A u \in Tickers : Len(pendingNodes'[u]) <= PendingNodes
    BY <1>3, <1>4 DEF IInv, TypeOK
  <2> QED  BY <1>1, <2>1, <2>2 DEF IInv, TypeOK
<1>8. BucketsInv'
  <2>1. GetsBucket' /\ OwnIfFirst' /\ BucketOfKey'
    BY <1>1, <1>3 DEF IInv, BucketsInv, GetsBucket, OwnIfFirst, BucketOfKey
  <2>2. MapIsLive' /\ LiveIsInMap' /\ StoredFirst' /\ SpansInMap'
    BY <1>1 DEF IInv, BucketsInv, MapIsLive, LiveIsInMap, StoredFirst, SpansInMap, InMap
  <2> QED  BY <2>1, <2>2 DEF BucketsInv
<1>9. TickersInv'
  BY <1>1, SameTickers DEF IInv
<1>10. OneTickerPerBucket'
  <2>1. \A j \in Keys : Registering(j)' = IF j = k THEN Registering(j) \ {c} ELSE Registering(j)
    BY <1>1, <1>3 DEF Registering, k
  <2>2. \A j \in Keys : Watching(j)' = Watching(j)
    BY <1>1 DEF Watching, Burying
  <2>3. Range(pendingNodes'[t]) = Range(pendingNodes[t]) \cup {k}
    BY <1>2, <1>3, RangeAppend
  <2>4. \A j \in Keys : Queued(j)' = IF j = k THEN Queued(j) \cup {t} ELSE Queued(j)
    BY <1>3, <2>3 DEF Queued
  <2>5. \A u \in Tickers : IsInjective(pendingNodes'[u])
    <3>1. \A u \in Tickers : NoRepeat(pendingNodes[u])
      BY DEF IInv, OneTickerPerBucket, IsInjective, NoRepeat
    <3>2. NoRepeat(Append(pendingNodes[t], k))
      BY <1>2, <1>3, <1>6, <3>1, NoRepeatAppend
    <3>3. \A u \in Tickers : NoRepeat(pendingNodes'[u])
      BY <1>3, <3>1, <3>2
    <3> QED  BY <3>3 DEF NoRepeat, IsInjective
  <2>6. Registering(k) \ {c} = {} /\ Queued(k) = {} /\ Watching(k) = {} /\ buckets[k] # None
    BY <1>2, <1>5 DEF IInv, OneTickerPerBucket, AtMostOne
  <2> QED  BY <1>1, <1>2, <2>1, <2>2, <2>4, <2>5, <2>6 DEF IInv, OneTickerPerBucket, AtMostOne
<1> QED  BY <1>7, <1>8, <1>9, <1>10 DEF IInv

LEMMA AddStep ==
  ASSUME IInv, NEW c \in Calls, AddSpans(c)
  PROVE  IInv'
<1> DEFINE nb == bucket[c]
<1>1. /\ pc[c] = "add" /\ nb \notin locked
      /\ cyclesUntouched' = [cyclesUntouched EXCEPT ![nb] = 0]
      /\ pc' = [pc EXCEPT ![c] = "done"]
      /\ UNCHANGED <<buckets, dead, locked, bucket, pendingNodes>>
      /\ UNCHANGED <<nodes, tickerPc, toVisit, visiting, visited>>
  BY DEF AddSpans, tickerVars
<1>2. nb \in Calls /\ bucket[nb] = nb
  BY <1>1 DEF IInv, TypeOK, BucketsInv, GetsBucket, BucketOfKey
<1> HIDE DEF nb
<1>3. \/ /\ items' = [items EXCEPT ![nb] = {}]
         /\ totalItemCount' = [totalItemCount EXCEPT ![nb] = 0]
         /\ recentlySent' = [recentlySent EXCEPT ![nb] = TRUE]
         /\ sent' = [d \in Calls |-> IF d \in items[nb] \cup {c} THEN sent[d] + 1 ELSE sent[d]]
      \/ /\ ~dead[nb]
         /\ items' = [items EXCEPT ![nb] = items[nb] \cup {c}]
         /\ totalItemCount' = [totalItemCount EXCEPT ![nb] = totalItemCount[nb] + SpansOf[c]]
         /\ UNCHANGED <<recentlySent, sent>>
  BY DEF AddSpans, GetResetAndSend, nb
<1>4. \A d \in Calls : pc'[d] = IF d = c THEN "done" ELSE pc[d]
  BY <1>1 DEF IInv, TypeOK
<1>5. TypeOK'
  <2>1. /\ items' \in [Calls -> SUBSET Calls] /\ totalItemCount' \in [Calls -> Nat]
        /\ recentlySent' \in [Calls -> BOOLEAN] /\ sent' \in [Calls -> Nat]
    <3>1. /\ SpansOf[c] \in Nat /\ items \in [Calls -> SUBSET Calls]
          /\ totalItemCount \in [Calls -> Nat] /\ sent \in [Calls -> Nat]
          /\ recentlySent \in [Calls -> BOOLEAN]
      BY NodeBatcherAssumption DEF NodeBatcherAssumption, IInv, TypeOK
    <3>2. CASE /\ items' = [items EXCEPT ![nb] = {}]
               /\ totalItemCount' = [totalItemCount EXCEPT ![nb] = 0]
               /\ recentlySent' = [recentlySent EXCEPT ![nb] = TRUE]
               /\ sent' = [d \in Calls |-> IF d \in items[nb] \cup {c} THEN sent[d] + 1 ELSE sent[d]]
      BY <1>2, <3>1, <3>2
    <3>3. CASE /\ items' = [items EXCEPT ![nb] = items[nb] \cup {c}]
               /\ totalItemCount' = [totalItemCount EXCEPT ![nb] = totalItemCount[nb] + SpansOf[c]]
               /\ UNCHANGED <<recentlySent, sent>>
      <4>1. items[nb] \cup {c} \in SUBSET Calls /\ totalItemCount[nb] + SpansOf[c] \in Nat
        BY <1>2, <3>1
      <4> QED  BY <3>1, <3>3, <4>1
    <3> QED  BY <1>3, <3>2, <3>3
  <2> QED  BY <1>1, <1>2, <2>1 DEF IInv, TypeOK
<1>6. BucketsInv'
  <2>1. GetsBucket' /\ OwnIfFirst' /\ BucketOfKey'
    BY <1>1, <1>4 DEF IInv, BucketsInv, GetsBucket, OwnIfFirst, BucketOfKey
  <2>2. MapIsLive' /\ LiveIsInMap' /\ StoredFirst'
    BY <1>1 DEF IInv, BucketsInv, MapIsLive, LiveIsInMap, StoredFirst, InMap
  <2>3. \A d \in Calls : totalItemCount'[d] > 0 => totalItemCount[d] > 0 \/ (d = nb /\ ~dead[nb])
    BY <1>2, <1>3 DEF IInv, TypeOK
  <2>4. SpansInMap'
    BY <1>1, <1>2, <2>3 DEF IInv, BucketsInv, SpansInMap, InMap
  <2> QED  BY <2>1, <2>2, <2>4 DEF BucketsInv
<1>7. TickersInv'
  BY <1>1, SameTickers DEF IInv
<1>8. OneTickerPerBucket'
  <2>1. \A j \in Keys : Registering(j)' = Registering(j)
    BY <1>1, <1>4 DEF Registering
  <2>2. \A j \in Keys : Watching(j)' = Watching(j)
    BY <1>1 DEF Watching, Burying
  <2> QED  BY <1>1, <2>1, <2>2, SameTokens DEF IInv
<1> QED  BY <1>5, <1>6, <1>7, <1>8 DEF IInv

LEMMA ReceiveStep ==
  ASSUME IInv, NEW t \in Tickers, ReceiveNode(t)
  PROVE  IInv'
<1>0. /\ tickerPc[t] = "select" /\ pendingNodes[t] # <<>> /\ pendingNodes[t] \in Seq(Keys)
      /\ Head(pendingNodes[t]) \in Keys /\ Tail(pendingNodes[t]) \in Seq(Keys)
      /\ Len(Tail(pendingNodes[t])) <= Len(pendingNodes[t])
  BY HeadTailProperties, LenProperties DEF ReceiveNode, IInv, TypeOK
<1>1. PICK k \in Keys :
        /\ k = Head(pendingNodes[t])
        /\ nodes' = [nodes EXCEPT ![t] = @ \cup {k}]
        /\ pendingNodes' = [pendingNodes EXCEPT ![t] = Tail(@)]
        /\ UNCHANGED <<buckets, items, totalItemCount, cyclesUntouched, dead, recentlySent, sent>>
        /\ UNCHANGED <<locked, pc, bucket, tickerPc, toVisit, visiting, visited>>
  BY <1>0 DEF ReceiveNode, bucketVars, callVars
<1>3. /\ \A u \in Tickers : nodes'[u] = IF u = t THEN nodes[t] \cup {k} ELSE nodes[u]
      /\ \A u \in Tickers : pendingNodes'[u] = IF u = t THEN Tail(pendingNodes[t]) ELSE pendingNodes[u]
  BY <1>1 DEF IInv, TypeOK
<1>4. NoRepeat(Tail(pendingNodes[t])) /\ k \notin Range(Tail(pendingNodes[t]))
  <2>1. NoRepeat(pendingNodes[t])
    BY DEF IInv, OneTickerPerBucket, IsInjective, NoRepeat
  <2> QED  BY <1>0, <1>1, <2>1, NoRepeatTail
<1>5. Range(pendingNodes[t]) = {k} \cup Range(Tail(pendingNodes[t]))
  BY <1>0, <1>1, RangeHeadTail
<1>6. TypeOK'
  <2>1. nodes' \in [Tickers -> SUBSET Keys] /\ pendingNodes' \in [Tickers -> Seq(Keys)]
    BY <1>0, <1>1 DEF IInv, TypeOK
  <2>2. \A u \in Tickers : Len(pendingNodes'[u]) <= PendingNodes
    BY <1>0, <1>1, <1>3, LenProperties, NodeBatcherAssumption DEF IInv, TypeOK, NodeBatcherAssumption
  <2> QED  BY <1>1, <2>1, <2>2 DEF IInv, TypeOK
<1>7. BucketsInv'
  BY <1>1 DEF IInv, BucketsInv, GetsBucket, OwnIfFirst, BucketOfKey, MapIsLive, LiveIsInMap,
              StoredFirst, SpansInMap, InMap
<1>8. TickersInv'
  <2>1. BuriedByOne'
    BY <1>1 DEF IInv, TickersInv, BuriedByOne
  <2>2. ASSUME NEW u \in Tickers PROVE VisitInv(u)'
    BY <1>0, <1>1, <1>3 DEF IInv, TickersInv, VisitInv
  <2> QED  BY <2>1, <2>2 DEF TickersInv
<1>9. OneTickerPerBucket'
  <2>1. \A j \in Keys : Registering(j)' = Registering(j)
    BY <1>1 DEF Registering
  <2>2. \A j \in Keys : Watching(j)' = IF j = k THEN Watching(j) \cup {t} ELSE Watching(j)
    BY <1>0, <1>1, <1>3 DEF Watching, Burying
  <2>3. t \in Queued(k)
    BY <1>1, <1>5 DEF Queued
  <2>4. \A j \in Keys : Queued(j)' = IF j = k THEN Queued(j) \ {t} ELSE Queued(j)
    BY <1>3, <1>4, <1>5 DEF Queued
  <2>5. \A u \in Tickers : IsInjective(pendingNodes'[u])
    BY <1>3, <1>4 DEF IInv, OneTickerPerBucket, IsInjective, NoRepeat
  <2>6. Queued(k) \ {t} = {} /\ Registering(k) = {} /\ Watching(k) = {} /\ buckets[k] # None
    BY <1>1, <2>3 DEF IInv, OneTickerPerBucket, AtMostOne
  <2>7. Registering(k)' = {} /\ Queued(k)' = {} /\ Watching(k)' = {t} /\ buckets'[k] # None
    BY <1>0, <1>1, <2>1, <2>2, <2>4, <2>6
  <2>8. ASSUME NEW j \in Keys, j # k
        PROVE  /\ Registering(j)' = Registering(j) /\ Queued(j)' = Queued(j)
               /\ Watching(j)' = Watching(j) /\ buckets'[j] = buckets[j]
    BY <1>1, <2>1, <2>2, <2>4, <2>8
  <2> QED  BY <2>5, <2>7, <2>8 DEF IInv, OneTickerPerBucket, AtMostOne
<1> QED  BY <1>6, <1>7, <1>8, <1>9 DEF IInv

LEMMA TickStep ==
  ASSUME IInv, NEW t \in Tickers, Tick(t)
  PROVE  IInv'
<1>1. /\ tickerPc[t] = "select"
      /\ toVisit' = [toVisit EXCEPT ![t] = nodes[t]]
      /\ tickerPc' = [tickerPc EXCEPT ![t] = "visit"]
      /\ UNCHANGED <<buckets, items, totalItemCount, cyclesUntouched, dead, recentlySent, sent>>
      /\ UNCHANGED <<locked, pc, bucket, pendingNodes, nodes, visiting, visited>>
  BY DEF Tick, bucketVars, callVars
<1>2. /\ \A u \in Tickers : toVisit'[u] = IF u = t THEN nodes[t] ELSE toVisit[u]
      /\ \A u \in Tickers : tickerPc'[u] = IF u = t THEN "visit" ELSE tickerPc[u]
  BY <1>1 DEF IInv, TypeOK
<1>3. TypeOK'
  BY <1>1 DEF IInv, TypeOK
<1>4. BucketsInv'
  BY <1>1 DEF IInv, BucketsInv, GetsBucket, OwnIfFirst, BucketOfKey, MapIsLive, LiveIsInMap,
              StoredFirst, SpansInMap, InMap
<1>5. TickersInv'
  <2>1. BuriedByOne'
    BY <1>1, <1>2 DEF IInv, TickersInv, BuriedByOne
  <2>2. ASSUME NEW u \in Tickers PROVE VisitInv(u)'
    BY <1>1, <1>2 DEF IInv, TickersInv, VisitInv
  <2> QED  BY <2>1, <2>2 DEF TickersInv
<1>6. OneTickerPerBucket'
  <2>1. \A j \in Keys : Registering(j)' = Registering(j) /\ Watching(j)' = Watching(j)
    BY <1>1, <1>2 DEF Registering, Watching, Burying
  <2> QED  BY <1>1, <2>1, SameTokens DEF IInv
<1> QED  BY <1>3, <1>4, <1>5, <1>6 DEF IInv

(* The branch of VisitNode for a key without a bucket is never taken.      *)
LEMMA VisitStep ==
  ASSUME IInv, NEW t \in Tickers, VisitNode(t)
  PROVE  IInv'
<1>1. PICK k \in toVisit[t] :
        /\ tickerPc[t] = "visit"
        /\ toVisit' = [toVisit EXCEPT ![t] = @ \ {k}]
        /\ IF buckets[k] = None
             THEN /\ nodes' = [nodes EXCEPT ![t] = @ \ {k}]
                  /\ tickerPc' = [tickerPc EXCEPT ![t] = NextKey(t)']
                  /\ UNCHANGED <<visiting, visited>>
             ELSE /\ visiting' = [visiting EXCEPT ![t] = {k}]
                  /\ visited' = [visited EXCEPT ![t] = buckets[k]]
                  /\ tickerPc' = [tickerPc EXCEPT ![t] = "process"]
                  /\ UNCHANGED nodes
        /\ UNCHANGED <<buckets, items, totalItemCount, cyclesUntouched, dead, recentlySent, sent>>
        /\ UNCHANGED <<locked, pc, bucket, pendingNodes>>
  BY DEF VisitNode, bucketVars, callVars
<1>2. k \in Keys /\ k \in nodes[t] /\ visiting[t] = {}
  BY <1>1 DEF IInv, TypeOK, TickersInv, VisitInv
<1>3. t \in Watching(k)
  BY <1>2 DEF Watching, Burying
<1>4. /\ buckets[k] # None /\ buckets[k] \in Calls /\ KeyOf[buckets[k]] = k
  BY <1>2, <1>3 DEF IInv, OneTickerPerBucket, TypeOK, BucketsInv, MapIsLive
<1>5. /\ visiting' = [visiting EXCEPT ![t] = {k}]
      /\ visited' = [visited EXCEPT ![t] = buckets[k]]
      /\ tickerPc' = [tickerPc EXCEPT ![t] = "process"]
      /\ UNCHANGED nodes
  BY <1>1, <1>4
<1>6. /\ \A u \in Tickers : toVisit'[u] = IF u = t THEN toVisit[t] \ {k} ELSE toVisit[u]
      /\ \A u \in Tickers : visiting'[u] = IF u = t THEN {k} ELSE visiting[u]
      /\ \A u \in Tickers : visited'[u] = IF u = t THEN buckets[k] ELSE visited[u]
      /\ \A u \in Tickers : tickerPc'[u] = IF u = t THEN "process" ELSE tickerPc[u]
  BY <1>1, <1>5 DEF IInv, TypeOK
<1>7. TypeOK'
  BY <1>1, <1>2, <1>4, <1>5 DEF IInv, TypeOK
<1>8. BucketsInv'
  BY <1>1 DEF IInv, BucketsInv, GetsBucket, OwnIfFirst, BucketOfKey, MapIsLive, LiveIsInMap,
              StoredFirst, SpansInMap, InMap
<1>9. TickersInv'
  <2>1. BuriedByOne'
    BY <1>1, <1>6 DEF IInv, TickersInv, BuriedByOne
  <2>2. ASSUME NEW u \in Tickers PROVE VisitInv(u)'
    <3>1. CASE u = t
      BY <1>1, <1>2, <1>4, <1>5, <1>6, <3>1 DEF IInv, TickersInv, VisitInv
    <3>2. CASE u # t
      BY <1>1, <1>5, <1>6, <3>2 DEF IInv, TickersInv, VisitInv
    <3> QED  BY <3>1, <3>2
  <2> QED  BY <2>1, <2>2 DEF TickersInv
<1>10. OneTickerPerBucket'
  <2>1. \A j \in Keys : Registering(j)' = Registering(j) /\ Watching(j)' = Watching(j)
    BY <1>1, <1>5, <1>6 DEF Registering, Watching, Burying
  <2> QED  BY <1>1, <2>1, SameTokens DEF IInv
<1> QED  BY <1>7, <1>8, <1>9, <1>10 DEF IInv

(* The ticker's look at a bucket is over: the key it looked at stays       *)
(* watched.                                                                *)
LEMMA EndVisitKeeps ==
  ASSUME IInv, NEW t \in Tickers, tickerPc[t] = "process", EndVisit(t),
         UNCHANGED <<buckets, locked, pc, pendingNodes, nodes, toVisit>>
  PROVE  TickersInv' /\ OneTickerPerBucket'
<1>1. /\ \A u \in Tickers : visiting'[u] = IF u = t THEN {} ELSE visiting[u]
      /\ \A u \in Tickers : visited'[u] = IF u = t THEN None ELSE visited[u]
      /\ \A u \in Tickers : u # t => tickerPc'[u] = tickerPc[u]
      /\ tickerPc'[t] \in {"select", "visit"}
  BY DEF IInv, TypeOK, EndVisit, NextKey
<1>2. BuriedByOne'
  BY <1>1 DEF IInv, TickersInv, BuriedByOne
<1>3. ASSUME NEW u \in Tickers PROVE VisitInv(u)'
  <2>1. CASE u = t
    BY <1>1, <2>1 DEF IInv, TickersInv, VisitInv
  <2>2. CASE u # t
    BY <1>1, <2>2 DEF IInv, TickersInv, VisitInv
  <2> QED  BY <2>1, <2>2
<1>4. OneTickerPerBucket'
  <2>1. \A j \in Keys : Registering(j)' = Registering(j) /\ Watching(j)' = Watching(j)
    BY <1>1 DEF Registering, Watching, Burying
  <2> QED  BY <2>1, SameTokens DEF IInv
<1> QED  BY <1>2, <1>3, <1>4 DEF TickersInv

LEMMA EndVisitTypes ==
  ASSUME TypeOK, NEW t \in Tickers, EndVisit(t)
  PROVE  /\ visiting' \in [Tickers -> SUBSET Keys] /\ visited' \in [Tickers -> Calls \cup {None}]
         /\ tickerPc' \in [Tickers -> {"select", "visit", "process", "bury"}]
BY DEF TypeOK, EndVisit, NextKey

LEMMA FlushStep ==
  ASSUME IInv, NEW t \in Tickers, FlushBucket(t)
  PROVE  IInv'
<1> DEFINE nb == visited[t]
<1>1. /\ tickerPc[t] = "process" /\ EndVisit(t) /\ totalItemCount[nb] > 0
      /\ UNCHANGED <<buckets, cyclesUntouched, dead, locked, pc, bucket, pendingNodes, nodes, toVisit>>
  BY DEF FlushBucket, callVars
<1>2. nb \in Calls
  BY <1>1 DEF IInv, TickersInv, VisitInv
<1> HIDE DEF nb
<1>3. /\ items' \in [Calls -> SUBSET Calls] /\ totalItemCount' \in [Calls -> Nat]
      /\ recentlySent' \in [Calls -> BOOLEAN] /\ sent' \in [Calls -> Nat]
      /\ \A d \in Calls : totalItemCount'[d] > 0 => totalItemCount[d] > 0
  <2>1. /\ items \in [Calls -> SUBSET Calls] /\ totalItemCount \in [Calls -> Nat]
        /\ sent \in [Calls -> Nat] /\ recentlySent \in [Calls -> BOOLEAN]
    BY DEF IInv, TypeOK
  <2>2. CASE recentlySent[nb]
    BY <2>1, <2>2 DEF FlushBucket, nb
  <2>3. CASE ~recentlySent[nb]
    <3>1. /\ items' = [items EXCEPT ![nb] = {}]
          /\ totalItemCount' = [totalItemCount EXCEPT ![nb] = 0]
          /\ recentlySent' = [recentlySent EXCEPT ![nb] = TRUE]
          /\ sent' = [d \in Calls |-> IF d \in items[nb] THEN sent[d] + 1 ELSE sent[d]]
      BY <2>3 DEF FlushBucket, GetResetAndSend, nb
    <3> QED  BY <1>2, <2>1, <3>1
  <2> QED  BY <2>2, <2>3
<1>4. TypeOK'
  BY <1>1, <1>3, EndVisitTypes DEF IInv, TypeOK
<1>5. BucketsInv'
  BY <1>1, <1>3 DEF IInv, BucketsInv, GetsBucket, OwnIfFirst, BucketOfKey, MapIsLive, LiveIsInMap,
                    StoredFirst, SpansInMap, InMap
<1>6. TickersInv' /\ OneTickerPerBucket'
  BY <1>1, EndVisitKeeps
<1> QED  BY <1>4, <1>5, <1>6 DEF IInv

LEMMA TimeoutStep ==
  ASSUME IInv, NEW nb \in Calls, TimeoutPasses(nb)
  PROVE  IInv'
<1>1. /\ recentlySent' = [recentlySent EXCEPT ![nb] = FALSE]
      /\ UNCHANGED <<buckets, items, totalItemCount, cyclesUntouched, dead, sent, locked>>
      /\ UNCHANGED <<pc, bucket, pendingNodes, nodes, tickerPc, toVisit, visiting, visited>>
  BY DEF TimeoutPasses, callVars, tickerVars
<1>2. TypeOK'
  BY <1>1 DEF IInv, TypeOK
<1>3. BucketsInv'
  BY <1>1 DEF IInv, BucketsInv, GetsBucket, OwnIfFirst, BucketOfKey, MapIsLive, LiveIsInMap,
              StoredFirst, SpansInMap, InMap
<1>4. TickersInv'
  BY <1>1, SameTickers DEF IInv
<1>5. OneTickerPerBucket'
  BY <1>1, SameTokens DEF IInv, Registering, Watching, Burying
<1> QED  BY <1>2, <1>3, <1>4, <1>5 DEF IInv

LEMMA AgeStep ==
  ASSUME IInv, NEW t \in Tickers, AgeBucket(t)
  PROVE  IInv'
<1>1. PICK nb \in Calls : nb = visited[t]
  BY DEF AgeBucket, IInv, TickersInv, VisitInv
<1> DEFINE k == KeyOf[nb]
<1>2. /\ tickerPc[t] = "process" /\ nb \notin locked /\ totalItemCount[nb] = 0
      /\ cyclesUntouched' = [cyclesUntouched EXCEPT ![nb] = cyclesUntouched[nb] + 1]
      /\ UNCHANGED <<items, totalItemCount, recentlySent, sent, dead, pc, bucket, pendingNodes, nodes, toVisit>>
  BY <1>1 DEF AgeBucket, callVars
<1>3. /\ k \in Keys /\ buckets[k] = nb /\ nb # None /\ visiting[t] = {k}
      /\ k \in nodes[t] /\ k \notin toVisit[t]
  BY <1>1, <1>2, NodeBatcherAssumption DEF IInv, TickersInv, VisitInv, NodeBatcherAssumption
<1>4. cyclesUntouched' \in [Calls -> Nat]
  BY <1>2 DEF IInv, TypeOK
<1>5. CASE cyclesUntouched[nb] + 1 <= RemoveAfterCycles
  <2>1. EndVisit(t) /\ UNCHANGED <<buckets, locked>>
    BY <1>1, <1>5, NodeBatcherAssumption DEF AgeBucket, IInv, TypeOK, NodeBatcherAssumption
  <2>2. TypeOK'
    BY <1>2, <1>4, <2>1, EndVisitTypes DEF IInv, TypeOK
  <2>3. BucketsInv'
    BY <1>2, <2>1 DEF IInv, BucketsInv, GetsBucket, OwnIfFirst, BucketOfKey, MapIsLive, LiveIsInMap,
                      StoredFirst, SpansInMap, InMap
  <2>4. TickersInv' /\ OneTickerPerBucket'
    BY <1>2, <2>1, EndVisitKeeps
  <2> QED  BY <2>2, <2>3, <2>4 DEF IInv
<1>6. CASE cyclesUntouched[nb] + 1 > RemoveAfterCycles
  <2>1. /\ buckets' = [j \in Keys |-> IF j \in visiting[t] THEN None ELSE buckets[j]]
        /\ locked' = locked \cup {nb}
        /\ tickerPc' = [tickerPc EXCEPT ![t] = "bury"]
        /\ UNCHANGED <<visiting, visited>>
    BY <1>1, <1>6 DEF AgeBucket
  <2>2. /\ \A j \in Keys : buckets'[j] = IF j = k THEN None ELSE buckets[j]
        /\ \A u \in Tickers : tickerPc'[u] = IF u = t THEN "bury" ELSE tickerPc[u]
    BY <1>3, <2>1 DEF IInv, TypeOK
  <2>3. InMap(nb)
    BY <1>3 DEF IInv, BucketsInv, MapIsLive
  <2>4. \A b \in Calls : InMap(b)' <=> InMap(b) /\ b # nb
    BY <1>2, <2>1, <2>3 DEF InMap
  <2>5. t \in Watching(k)
    BY <1>2, <1>3 DEF Watching, Burying
  <2> HIDE DEF k
  <2>6. TypeOK'
    BY <1>2, <1>4, <2>1 DEF IInv, TypeOK
  <2>7. GetsBucket' /\ OwnIfFirst' /\ BucketOfKey'
    BY <1>2 DEF IInv, BucketsInv, GetsBucket, OwnIfFirst, BucketOfKey
  <2>8. MapIsLive'
    <3>1. SUFFICES ASSUME NEW j \in Keys, buckets'[j] # None
                   PROVE  KeyOf[buckets'[j]] = j /\ InMap(buckets[j])'
      BY DEF MapIsLive
    <3>2. j # k /\ buckets'[j] = buckets[j] /\ buckets[j] \in Calls
      BY <2>2, <3>1 DEF IInv, TypeOK
    <3>3. KeyOf[buckets[j]] = j /\ InMap(buckets[j]) /\ buckets[j] # nb
      BY <3>1, <3>2 DEF IInv, BucketsInv, MapIsLive, k
    <3> QED  BY <1>2, <2>1, <3>2, <3>3 DEF InMap
  <2>9. LiveIsInMap'
    <3>1. ASSUME NEW b \in Calls, InMap(b), b # nb PROVE KeyOf[b] # k /\ KeyOf[b] \in Keys
      BY <1>3, <3>1, NodeBatcherAssumption DEF IInv, BucketsInv, LiveIsInMap, NodeBatcherAssumption
    <3> QED  BY <2>2, <2>4, <3>1 DEF IInv, BucketsInv, LiveIsInMap
  <2>10. StoredFirst' /\ SpansInMap'
    BY <1>2, <2>1, <2>3, <2>4 DEF IInv, BucketsInv, StoredFirst, SpansInMap, InMap
  <2>11. TickersInv'
    <3>1. \A u \in Tickers : tickerPc[u] = "bury" => visited[u] # nb
      BY <1>2 DEF IInv, TickersInv, VisitInv
    <3>2. BuriedByOne'
      BY <1>1, <2>1, <2>2, <3>1 DEF IInv, TickersInv, BuriedByOne
    <3>3. ASSUME NEW u \in Tickers PROVE VisitInv(u)'
      <4>1. CASE u = t
        BY <1>1, <1>2, <1>3, <2>1, <2>2, <4>1 DEF VisitInv, IInv, TickersInv, k
      <4>2. CASE u # t
        <5>1. VisitInv(u) /\ tickerPc'[u] = tickerPc[u]
          BY <2>2, <4>2 DEF IInv, TickersInv
        <5>2. ASSUME tickerPc[u] = "process"
              PROVE  buckets'[KeyOf[visited[u]]] = visited[u]
          <6>1. visited[u] \in Calls /\ KeyOf[visited[u]] \in nodes[u] /\ KeyOf[visited[u]] \in Keys
            BY <5>1, <5>2, NodeBatcherAssumption DEF VisitInv, NodeBatcherAssumption
          <6>2. u \in Watching(KeyOf[visited[u]])
            BY <5>2, <6>1 DEF Watching, Burying
          <6>3. KeyOf[visited[u]] # k
            BY <1>3, <2>5, <4>2, <6>2 DEF IInv, OneTickerPerBucket, AtMostOne
          <6> QED  BY <2>2, <5>1, <5>2, <6>1, <6>3 DEF VisitInv
        <5> QED  BY <1>2, <2>1, <5>1, <5>2 DEF VisitInv
      <4> QED  BY <4>1, <4>2
    <3> QED  BY <3>2, <3>3 DEF TickersInv
  <2>12. OneTickerPerBucket'
    <3>1. \A j \in Keys : Registering(j)' = Registering(j) /\ Queued(j)' = Queued(j)
      BY <1>2 DEF Registering, Queued
    <3>2. \A j \in Keys : Watching(j)' = IF j = k THEN Watching(j) \ {t} ELSE Watching(j)
      BY <1>2, <1>3, <2>1, <2>2 DEF Watching, Burying
    <3>3. Registering(k) = {} /\ Queued(k) = {} /\ Watching(k) \ {t} = {}
      BY <1>3, <2>5 DEF IInv, OneTickerPerBucket, AtMostOne
    <3>4. Registering(k)' = {} /\ Queued(k)' = {} /\ Watching(k)' = {} /\ buckets'[k] = None
      BY <1>3, <2>2, <3>1, <3>2, <3>3
    <3>5. ASSUME NEW j \in Keys, j # k
          PROVE  /\ Registering(j)' = Registering(j) /\ Queued(j)' = Queued(j)
                 /\ Watching(j)' = Watching(j) /\ buckets'[j] = buckets[j]
      BY <2>2, <3>1, <3>2, <3>5
    <3> QED  BY <1>2, <3>4, <3>5 DEF IInv, OneTickerPerBucket, AtMostOne
  <2> QED  BY <2>6, <2>7, <2>8, <2>9, <2>10, <2>11, <2>12 DEF IInv, BucketsInv
<1> QED  BY <1>5, <1>6, NodeBatcherAssumption DEF IInv, TypeOK, NodeBatcherAssumption

LEMMA BuryStep ==
  ASSUME IInv, NEW t \in Tickers, BuryBucket(t)
  PROVE  IInv'
<1>1. PICK nb \in Calls : nb = visited[t]
  BY DEF BuryBucket, IInv, TickersInv, VisitInv
<1> DEFINE k == KeyOf[nb]
<1>2. /\ tickerPc[t] = "bury" /\ EndVisit(t)
      /\ nodes' = [nodes EXCEPT ![t] = @ \ visiting[t]]
      /\ dead' = [dead EXCEPT ![nb] = TRUE]
      /\ locked' = locked \ {nb}
      /\ UNCHANGED <<buckets, items, totalItemCount, cyclesUntouched, recentlySent, sent>>
      /\ UNCHANGED <<pc, bucket, pendingNodes, toVisit>>
  BY <1>1 DEF BuryBucket, callVars
<1>3. k \in Keys /\ visiting[t] = {k} /\ k \notin toVisit[t] /\ nb \in locked
  BY <1>1, <1>2, NodeBatcherAssumption DEF IInv, TickersInv, VisitInv, NodeBatcherAssumption
<1>4. /\ \A u \in Tickers : nodes'[u] = IF u = t THEN nodes[t] \ {k} ELSE nodes[u]
      /\ \A u \in Tickers : visiting'[u] = IF u = t THEN {} ELSE visiting[u]
      /\ \A u \in Tickers : visited'[u] = IF u = t THEN None ELSE visited[u]
      /\ \A u \in Tickers : u # t => tickerPc'[u] = tickerPc[u]
      /\ tickerPc'[t] \in {"select", "visit"}
      /\ \A b \in Calls : dead'[b] <=> dead[b] \/ b = nb
  BY <1>2, <1>3 DEF IInv, TypeOK, EndVisit, NextKey
<1> HIDE DEF k
<1>5. TypeOK'
  <2>1. /\ nodes' \in [Tickers -> SUBSET Keys] /\ dead' \in [Calls -> BOOLEAN]
        /\ locked' \subseteq Calls
    BY <1>2, <1>3 DEF IInv, TypeOK
  <2> QED  BY <1>2, <2>1, EndVisitTypes DEF IInv, TypeOK
<1>6. BucketsInv'
  <2>1. GetsBucket' /\ OwnIfFirst' /\ BucketOfKey'
    BY <1>2 DEF IInv, BucketsInv, GetsBucket, OwnIfFirst, BucketOfKey
  <2>2. \A b \in Calls : (bucket[b] = b /\ ~dead'[b] /\ b \notin locked') <=> InMap(b)
    BY <1>2, <1>3, <1>4 DEF InMap
  <2>3. MapIsLive' /\ LiveIsInMap' /\ SpansInMap'
    BY <1>2, <2>2 DEF IInv, BucketsInv, MapIsLive, LiveIsInMap, SpansInMap, InMap, TypeOK
  <2>4. StoredFirst'
    BY <1>2, <1>3, <1>4 DEF IInv, BucketsInv, StoredFirst
  <2> QED  BY <2>1, <2>3, <2>4 DEF BucketsInv
<1>7. TickersInv'
  <2>1. BuriedByOne'
    BY <1>4 DEF IInv, TickersInv, BuriedByOne
  <2>2. ASSUME NEW u \in Tickers PROVE VisitInv(u)'
    <3>1. CASE u = t
      BY <1>2, <1>3, <1>4, <3>1 DEF IInv, TickersInv, VisitInv
    <3>2. CASE u # t
      <4>1. tickerPc[u] = "bury" => visited[u] # nb
        BY <1>1, <1>2, <3>2 DEF IInv, TickersInv, BuriedByOne
      <4> QED  BY <1>2, <1>4, <3>2, <4>1 DEF IInv, TickersInv, VisitInv
    <3> QED  BY <3>1, <3>2
  <2> QED  BY <2>1, <2>2 DEF TickersInv
<1>8. OneTickerPerBucket'
  <2>1. \A j \in Keys : Registering(j)' = Registering(j)
    BY <1>2 DEF Registering
  <2>2. \A j \in Keys : Watching(j)' = Watching(j)
    BY <1>2, <1>3, <1>4 DEF Watching, Burying
  <2> QED  BY <1>2, <2>1, <2>2, SameTokens DEF IInv
<1> QED  BY <1>5, <1>6, <1>7, <1>8 DEF IInv

LEMMA InvStep == IInv /\ [Next]_vars => IInv'
<1> SUFFICES ASSUME IInv, [Next]_vars PROVE IInv'
  OBVIOUS
<1>1. ASSUME NEW c \in Calls, ConsumeTraceData(c) PROVE IInv'
  BY <1>1, GetStep, RegisterStep, AddStep DEF ConsumeTraceData
<1>2. ASSUME NEW c \in Calls, TimeoutPasses(c) PROVE IInv'
  BY <1>2, TimeoutStep
<1>3. ASSUME NEW t \in Tickers, ReceiveNode(t) \/ Tick(t) \/ VisitNode(t) PROVE IInv'
  BY <1>3, ReceiveStep, TickStep, VisitStep
<1>4. ASSUME NEW t \in Tickers, processNodeBatch(t) PROVE IInv'
  BY <1>4, FlushStep, AgeStep, BuryStep DEF processNodeBatch
<1>5. CASE UNCHANGED vars
  <2>1. /\ UNCHANGED <<buckets, items, totalItemCount, cyclesUntouched, dead, recentlySent, sent, locked>>
        /\ UNCHANGED <<pc, bucket, pendingNodes, nodes, tickerPc, toVisit, visiting, visited>>
    BY <1>5 DEF vars, bucketVars, callVars, tickerVars
  <2>2. TypeOK' /\ TickersInv'
    BY <2>1, SameTickers DEF IInv, TypeOK
  <2>3. BucketsInv'
    BY <2>1 DEF IInv, BucketsInv, GetsBucket, OwnIfFirst, BucketOfKey, MapIsLive, LiveIsInMap,
                StoredFirst, SpansInMap, InMap
  <2>4. OneTickerPerBucket'
    BY <2>1, SameTokens DEF IInv, Registering, Watching, Burying
  <2> QED  BY <2>2, <2>3, <2>4 DEF IInv
<1> QED  BY <1>1, <1>2, <1>3, <1>4, <1>5 DEF Next

-----------------------------------------------------------------------------
(* Every variable of the node batcher keeps its type, and the channels     *)
(* their bound.                                                            *)
THEOREM BatcherTypes == Spec => []TypeOK
<1>1. IInv => TypeOK
  BY DEF IInv
<1> QED  BY InvInit, InvStep, <1>1, PTL DEF Spec

(* Whatever calls and tickers do in which order, the id of a bucket of the *)
(* map is in exactly one place: with the call that registers it, in one    *)
(* channel or with one ticker.                                             *)
THEOREM OneTicker == Spec => []OneTickerPerBucket
<1>1. IInv => OneTickerPerBucket
  BY DEF IInv
<1> QED  BY InvInit, InvStep, <1>1, PTL DEF Spec

(* No spans are in a bucket that is not in the map: an add that comes late *)
(* finds the bucket dead and sends them.                                   *)
THEOREM NothingStranded == Spec => []NoStrandedSpans
<1>1. IInv => NoStrandedSpans
  BY DEF IInv, BucketsInv, SpansInMap, LiveIsInMap, NoStrandedSpans
<1> QED  BY InvInit, InvStep, <1>1, PTL DEF Spec

-----------------------------------------------------------------------------
(* A bucket holds calls that finished with it; the spans of a finished     *)
(* call were sent once unless its bucket holds them; and a bucket counts   *)
(* the spans it holds.                                                     *)
HeldIn(c)   == \A nb \in Calls : c \in items[nb] => pc[c] = "done" /\ bucket[c] = nb
TimesSent(c) == IF pc[c] = "done" /\ c \notin items[bucket[c]] THEN 1 ELSE 0
Counted(nb) ==
  /\ IsFiniteSet(items[nb])
  /\ totalItemCount[nb] <= SendBatchSize
  /\ totalItemCount[nb] = Total(SpansOf, items[nb])

HeldInv ==
  /\ \A c \in Calls : HeldIn(c) /\ sent[c] = TimesSent(c)
  /\ \A nb \in Calls : Counted(nb)

LEMMA HeldInit == Init => HeldInv
<1> SUFFICES ASSUME Init PROVE HeldInv
  OBVIOUS
<1>1. \A nb \in Calls : items[nb] = {} /\ totalItemCount[nb] = 0 /\ sent[nb] = 0 /\ pc[nb] = "get"
  BY DEF Init
<1>2. IsFiniteSet({})
  BY FS_EmptySet
<1>3. Total(SpansOf, {}) = 0
  BY TotalEmpty
<1>4. 0 <= SendBatchSize
  BY NodeBatcherAssumption DEF NodeBatcherAssumption
<1> QED  BY <1>1, <1>2, <1>3, <1>4 DEF HeldInv, HeldIn, TimesSent, Counted

(* Steps that leave the buckets' contents alone.                           *)
LEMMA SameHeld ==
  ASSUME TypeOK, HeldInv, UNCHANGED <<items, totalItemCount, sent>>,
         \A c \in Calls : pc[c] = "done" <=> pc'[c] = "done",
         \A c \in Calls : pc[c] = "done" => bucket'[c] = bucket[c]
  PROVE  HeldInv'
BY DEF HeldInv, HeldIn, TimesSent, Counted

(* getAndReset and sendItems of bucket nb, with the call that adds to it,  *)
(* if one does: what was in the bucket was not sent before.                *)
LEMMA SendHeld ==
  ASSUME IInv, HeldInv, NEW nb \in Calls, NEW added \in SUBSET Calls,
         \A c \in added : pc[c] = "add" /\ pc'[c] = "done",
         \A c \in Calls \ added : pc'[c] = pc[c],
         UNCHANGED bucket,
         NEW held \in SUBSET Calls, held = items[nb] \cup added,
         GetResetAndSend(nb, held)
  PROVE  HeldInv'
<1>1. /\ items \in [Calls -> SUBSET Calls] /\ totalItemCount \in [Calls -> Nat]
      /\ sent \in [Calls -> Nat]
  BY DEF IInv, TypeOK
<1>2. /\ \A b \in Calls : items'[b] = IF b = nb THEN {} ELSE items[b]
      /\ \A b \in Calls : totalItemCount'[b] = IF b = nb THEN 0 ELSE totalItemCount[b]
      /\ \A c \in Calls : sent'[c] = IF c \in items[nb] \cup added THEN sent[c] + 1 ELSE sent[c]
  BY <1>1 DEF GetResetAndSend
<1>3. \A b \in Calls : Counted(b)'
  <2>1. IsFiniteSet({}) /\ Total(SpansOf, {}) = 0 /\ 0 <= SendBatchSize
    BY FS_EmptySet, TotalEmpty, NodeBatcherAssumption DEF NodeBatcherAssumption
  <2> QED  BY <1>2, <2>1 DEF HeldInv, Counted
<1>4. \A c \in Calls : HeldIn(c)'
  BY <1>2 DEF HeldInv, HeldIn
<1>5. ASSUME NEW c \in Calls PROVE sent'[c] = TimesSent(c)'
  <2>1. CASE c \in added
    <3>1. pc'[c] = "done" /\ sent[c] = 0
      BY <2>1 DEF HeldInv, TimesSent
    <3>2. \A b \in Calls : c \notin items[b]
      BY <2>1 DEF HeldInv, HeldIn
    <3>3. c \notin items'[bucket'[c]]
      <4>1. bucket[c] \in Calls
        BY <2>1 DEF IInv, TypeOK, BucketsInv, GetsBucket
      <4> QED  BY <1>2, <3>2, <4>1
    <3> QED  BY <1>2, <2>1, <3>1, <3>3 DEF TimesSent
  <2>2. CASE c \in items[nb]
    <3>1. pc[c] = "done" /\ bucket[c] = nb /\ sent[c] = 0
      BY <2>2 DEF HeldInv, HeldIn, TimesSent
    <3>2. pc'[c] = "done" /\ bucket'[c] = nb /\ c \notin items'[nb]
      BY <1>2, <3>1
    <3> QED  BY <1>2, <2>2, <3>1, <3>2 DEF TimesSent
  <2>3. CASE c \notin items[nb] \cup added
    <3>1. sent'[c] = sent[c] /\ pc'[c] = pc[c] /\ bucket'[c] = bucket[c]
      BY <1>2, <2>3
    <3>2. pc[c] = "done" => bucket[c] \in Calls
      BY DEF IInv, TypeOK, BucketsInv, GetsBucket
    <3>3. pc[c] = "done" => (c \in items'[bucket[c]] <=> c \in items[bucket[c]])
      BY <1>2, <2>3, <3>2
    <3> QED  BY <3>1, <3>3 DEF HeldInv, TimesSent
  <2> QED  BY <2>1, <2>2, <2>3
<1> QED  BY <1>3, <1>4, <1>5 DEF HeldInv

LEMMA AddHeld ==
  ASSUME IInv, HeldInv, NEW c \in Calls, AddSpans(c)
  PROVE  HeldInv'
<1>1. PICK nb \in Calls : nb = bucket[c]
  BY DEF AddSpans, IInv, TypeOK, BucketsInv, GetsBucket
<1>2. /\ pc[c] = "add" /\ pc' = [pc EXCEPT ![c] = "done"] /\ UNCHANGED bucket
      /\ \A d \in Calls : pc'[d] = IF d = c THEN "done" ELSE pc[d]
  BY DEF AddSpans, IInv, TypeOK
<1>3. CASE GetResetAndSend(nb, items[nb] \cup {c})
  <2>1. PICK held \in SUBSET Calls : held = items[nb] \cup {c}
    BY DEF IInv, TypeOK
  <2>2. GetResetAndSend(nb, held)
    BY <1>3, <2>1 DEF GetResetAndSend
  <2>3. \A d \in {c} : pc[d] = "add" /\ pc'[d] = "done"
    BY <1>2
  <2>4. \A d \in Calls \ {c} : pc'[d] = pc[d]
    BY <1>2
  <2> QED  BY <1>2, <2>1, <2>2, <2>3, <2>4, SendHeld
<1>4. CASE /\ ~(totalItemCount[nb] + SpansOf[c] > SendBatchSize)
           /\ items' = [items EXCEPT ![nb] = items[nb] \cup {c}]
           /\ totalItemCount' = [totalItemCount EXCEPT ![nb] = totalItemCount[nb] + SpansOf[c]]
           /\ UNCHANGED sent
  <2>1. /\ items \in [Calls -> SUBSET Calls] /\ totalItemCount \in [Calls -> Nat]
        /\ \A d \in Calls : SpansOf[d] \in Nat
        /\ SendBatchSize \in Nat
    BY NodeBatcherAssumption DEF NodeBatcherAssumption, IInv, TypeOK
  <2>2. /\ \A b \in Calls : items'[b] = IF b = nb THEN items[nb] \cup {c} ELSE items[b]
        /\ \A b \in Calls : totalItemCount'[b] =
              IF b = nb THEN totalItemCount[nb] + SpansOf[c] ELSE totalItemCount[b]
    BY <1>4, <2>1
  <2>3. \A b \in Calls : c \notin items[b]
    BY <1>2 DEF HeldInv, HeldIn
  <2>4. Counted(nb)'
    <3>1. IsFiniteSet(items[nb]) /\ totalItemCount[nb] = Total(SpansOf, items[nb])
      BY DEF HeldInv, Counted
    <3>2. \A x \in items[nb] \cup {c} : SpansOf[x] \in Nat
      BY <2>1
    <3>3. Total(SpansOf, items[nb] \cup {c}) = Total(SpansOf, items[nb]) + SpansOf[c]
      BY <2>3, <3>1, <3>2, TotalAdd
    <3>4. IsFiniteSet(items[nb] \cup {c})
      BY <3>1, FS_AddElement
    <3>5. totalItemCount[nb] + SpansOf[c] <= SendBatchSize
      BY <1>4, <2>1
    <3> QED  BY <2>2, <3>1, <3>3, <3>4, <3>5 DEF Counted
  <2>5. \A b \in Calls : Counted(b)'
    BY <2>2, <2>4 DEF HeldInv, Counted
  <2>6. \A d \in Calls : HeldIn(d)'
    BY <1>1, <1>2, <2>2, <2>3 DEF HeldInv, HeldIn
  <2>7. ASSUME NEW d \in Calls PROVE sent'[d] = TimesSent(d)'
    <3>1. sent'[d] = sent[d] /\ bucket'[d] = bucket[d]
      BY <1>2, <1>4
    <3>2. CASE d = c
      <4>1. d \in items'[bucket'[d]] /\ sent[d] = 0
        BY <1>1, <1>2, <2>2, <3>2 DEF HeldInv, TimesSent
      <4> QED  BY <3>1, <4>1 DEF TimesSent
    <3>3. CASE d # c
      <4>1. pc[d] = "done" => bucket[d] \in Calls
        BY DEF IInv, TypeOK, BucketsInv, GetsBucket
      <4>2. pc[d] = "done" => (d \in items'[bucket[d]] <=> d \in items[bucket[d]])
        BY <2>2, <3>3, <4>1
      <4> QED  BY <1>2, <3>1, <3>3, <4>2 DEF HeldInv, TimesSent
    <3> QED  BY <3>2, <3>3
  <2> QED  BY <2>5, <2>6, <2>7 DEF HeldInv
<1> QED  BY <1>1, <1>3, <1>4 DEF AddSpans

LEMMA HeldStep == IInv /\ HeldInv /\ [Next]_vars => HeldInv'
<1> SUFFICES ASSUME IInv, HeldInv, [Next]_vars PROVE HeldInv'
  OBVIOUS
<1>0. TypeOK
  BY DEF IInv
<1>1. ASSUME NEW c \in Calls, GetOrAddBucket(c) \/ RegisterBucket(c) PROVE HeldInv'
  <2>1. UNCHANGED <<items, totalItemCount, sent>> /\ pc[c] \in {"get", "register"}
    BY <1>1 DEF GetOrAddBucket, RegisterBucket, bucketVars
  <2>2. \A d \in Calls : d # c => pc'[d] = pc[d] /\ bucket'[d] = bucket[d]
    BY <1>0, <1>1 DEF GetOrAddBucket, RegisterBucket, TypeOK
  <2>3. pc'[c] \in {"register", "add"}
    BY <1>0, <1>1 DEF GetOrAddBucket, RegisterBucket, TypeOK
  <2> QED  BY <1>0, <2>1, <2>2, <2>3, SameHeld
<1>2. ASSUME NEW c \in Calls, AddSpans(c) PROVE HeldInv'
  BY <1>2, AddHeld
<1>3. ASSUME NEW t \in Tickers, FlushBucket(t) PROVE HeldInv'
  <2>1. PICK nb \in Calls : nb = visited[t]
    BY <1>3 DEF FlushBucket, IInv, TickersInv, VisitInv
  <2>2. UNCHANGED <<pc, bucket>>
    BY <1>3 DEF FlushBucket, callVars
  <2>3. CASE UNCHANGED <<items, totalItemCount, sent>>
    BY <1>0, <2>2, <2>3, SameHeld
  <2>4. CASE GetResetAndSend(nb, items[nb])
    <3>1. PICK held \in SUBSET Calls : held = items[nb] \cup {} /\ held = items[nb]
      BY DEF IInv, TypeOK
    <3>2. GetResetAndSend(nb, held)
      BY <2>4, <3>1 DEF GetResetAndSend
    <3>3. \A d \in Calls \ {} : pc'[d] = pc[d]
      BY <2>2
    <3> QED  BY <2>2, <3>1, <3>2, <3>3, SendHeld
  <2> QED  BY <1>3, <2>1, <2>3, <2>4 DEF FlushBucket
<1>4. CASE UNCHANGED <<items, totalItemCount, sent, pc, bucket>>
  BY <1>0, <1>4, SameHeld
<1> QED
  BY <1>1, <1>2, <1>3, <1>4
     DEF Next, ConsumeTraceData, TimeoutPasses, ReceiveNode, Tick, VisitNode, processNodeBatch,
         AgeBucket, BuryBucket, vars, bucketVars, callVars

(* The spans of a call that returned are in one bucket or were sent, and   *)
(* then once; a bucket's count, which decides when it is sent, is the      *)
(* number of its spans.                                                    *)
THEOREM HeldOrSentOnce == Spec => []SpansHeldOrSentOnce
<1>1. IInv /\ HeldInv => SpansHeldOrSentOnce
  <2> SUFFICES ASSUME IInv, HeldInv PROVE SpansHeldOrSentOnce
    OBVIOUS
  <2>1. ASSUME NEW c \in Calls, pc[c] = "done"
        PROVE  Cardinality({nb \in Calls : c \in items[nb]}) + sent[c] = 1
    <3>1. bucket[c] \in Calls
      BY <2>1 DEF IInv, TypeOK, BucketsInv, GetsBucket
    <3>2. CASE c \in items[bucket[c]]
      <4>1. {nb \in Calls : c \in items[nb]} = {bucket[c]} /\ sent[c] = 0
        BY <2>1, <3>1, <3>2 DEF HeldInv, HeldIn, TimesSent
      <4>2. Cardinality({bucket[c]}) = 1
        BY FS_Singleton
      <4> QED  BY <4>1, <4>2
    <3>3. CASE c \notin items[bucket[c]]
      <4>1. {nb \in Calls : c \in items[nb]} = {} /\ sent[c] = 1
        BY <2>1, <3>1, <3>3 DEF HeldInv, HeldIn, TimesSent
      <4> QED  BY <4>1, FS_EmptySet
    <3> QED  BY <3>2, <3>3
  <2>2. \A nb \in Calls : /\ totalItemCount[nb] <= SendBatchSize
                          /\ totalItemCount[nb] = Total(SpansOf, items[nb])
    BY DEF HeldInv, Counted
  <2> QED  BY <2>1, <2>2 DEF SpansHeldOrSentOnce, Total
<1>2. Init => IInv /\ HeldInv
  BY InvInit, HeldInit
<1>3. IInv /\ HeldInv /\ [Next]_vars => (IInv /\ HeldInv)'
  BY InvStep, HeldStep
<1> QED  BY <1>1, <1>2, <1>3, PTL DEF Spec

=============================================================================
