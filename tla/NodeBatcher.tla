---------------------------- MODULE NodeBatcher -----------------------------
(***************************************************************************)
(* internal/collector/processor/nodebatcher/node_batcher.go: spans are     *)
(* gathered in one bucket per node, resource and format, and sent when the *)
(* bucket is over its size or a ticker finds it old enough; an idle bucket *)
(* is removed by its ticker.                                               *)
(*                                                                         *)
(* Who runs: one goroutine for each call of ConsumeTraceData and one for   *)
(* each bucketTicker.  They share the map of buckets (a sync.Map), the     *)
(* buckets (each with its lock) and the tickers' pendingNodes channels.    *)
(*                                                                         *)
(* A call c brings SpansOf[c] spans for the bucket id KeyOf[c].  The       *)
(* nodeBatch that call c stores is named c: the bucket removed and the one *)
(* made later under the same id are different objects.                     *)
(***************************************************************************)
EXTENDS Naturals, Sequences, FiniteSets, Functions

CONSTANTS
  Calls,
  Keys,               \* bucket ids
  KeyOf,              \* [Calls -> Keys], genBucketID
  SpansOf,            \* [Calls -> Nat], len(td.Spans)
  Tickers,
  PendingNodes,       \* tickerPendingNodesBuffer
  SendBatchSize,      \* sendBatchSize
  RemoveAfterCycles,  \* removeAfterCycles
  None                \* no bucket

ASSUME NodeBatcherAssumption ==
  /\ KeyOf \in [Calls -> Keys]
  /\ SpansOf \in [Calls -> Nat]
  /\ PendingNodes \in Nat \ {0}
  /\ SendBatchSize \in Nat /\ RemoveAfterCycles \in Nat
  /\ None \notin Calls

VARIABLES
  buckets,          \* [Keys -> the bucket stored, or None]
  items,            \* [Calls -> the calls whose spans the bucket holds]
  totalItemCount,   \* [Calls -> Nat]
  cyclesUntouched,  \* [Calls -> Nat]
  dead,             \* [Calls -> BOOLEAN]
  recentlySent,     \* [Calls -> BOOLEAN], lastSent + timeout >= now
  locked,           \* buckets whose mu a ticker holds across steps
  pc,               \* where each call is
  bucket,           \* [Calls -> the bucket the call got]
  pendingNodes,     \* [Tickers -> Seq(Keys)]
  nodes,            \* [Tickers -> SUBSET Keys]
  tickerPc,         \* where each ticker is
  toVisit,          \* keys the range over nodes has yet to visit
  visiting,         \* [Tickers -> the key visited, none or one]
  visited,          \* [Tickers -> the bucket found under it, or None]
  sent              \* [Calls -> times its spans were sent downstream]

bucketVars == <<items, totalItemCount, cyclesUntouched, dead, recentlySent, sent>>
callVars   == <<pc, bucket>>
tickerVars == <<nodes, tickerPc, toVisit, visiting, visited>>
vars == <<buckets, bucketVars, locked, callVars, pendingNodes, tickerVars>>

TypeOK ==
  /\ buckets \in [Keys -> Calls \cup {None}]
  /\ items \in [Calls -> SUBSET Calls]
  /\ totalItemCount \in [Calls -> Nat]
  /\ cyclesUntouched \in [Calls -> Nat]
  /\ dead \in [Calls -> BOOLEAN] /\ recentlySent \in [Calls -> BOOLEAN]
  /\ locked \subseteq Calls
  /\ pc \in [Calls -> {"get", "register", "add", "done"}]
  /\ bucket \in [Calls -> Calls \cup {None}]
  /\ pendingNodes \in [Tickers -> Seq(Keys)]
  /\ \A k \in Tickers : Len(pendingNodes[k]) <= PendingNodes
  /\ nodes \in [Tickers -> SUBSET Keys]
  /\ tickerPc \in [Tickers -> {"select", "visit", "process", "bury"}]
  /\ toVisit \in [Tickers -> SUBSET Keys]
  /\ visiting \in [Tickers -> SUBSET Keys]
  /\ visited \in [Tickers -> Calls \cup {None}]
  /\ sent \in [Calls -> Nat]

Init ==
  /\ buckets = [k \in Keys |-> None]
  /\ items = [c \in Calls |-> {}]
  /\ totalItemCount = [c \in Calls |-> 0]
  /\ cyclesUntouched = [c \in Calls |-> 0]
  /\ dead = [c \in Calls |-> FALSE]
  /\ recentlySent = [c \in Calls |-> FALSE]      \* lastSent is 0
  /\ locked = {}
  /\ pc = [c \in Calls |-> "get"]
  /\ bucket = [c \in Calls |-> None]
  /\ pendingNodes = [t \in Tickers |-> <<>>]
  /\ nodes = [t \in Tickers |-> {}]
  /\ tickerPc = [t \in Tickers |-> "select"]
  /\ toVisit = [t \in Tickers |-> {}]
  /\ visiting = [t \in Tickers |-> {}]
  /\ visited = [t \in Tickers |-> None]
  /\ sent = [c \in Calls |-> 0]

-----------------------------------------------------------------------------
(* Bug: a bucket that was found is registered again.                        *)
BugRegisterAlways(c) ==
  /\ pc[c] = "get"
  /\ buckets' = [buckets EXCEPT ![KeyOf[c]] = IF @ = None THEN c ELSE @]
  /\ pc' = [pc EXCEPT ![c] = "register"]
  /\ bucket' = [bucket EXCEPT ![c] = buckets'[KeyOf[c]]]
  /\ UNCHANGED <<bucketVars, locked, pendingNodes, tickerVars>>

(* getOrAddBucket: the Load only saves the LoadOrStore an allocation, so   *)
(* the two are one step.                                                   *)
GetOrAddBucket(c) ==
  /\ pc[c] = "get"
  /\ IF buckets[KeyOf[c]] = None
       THEN /\ buckets' = [buckets EXCEPT ![KeyOf[c]] = c]
            /\ pc' = [pc EXCEPT ![c] = "register"]
       ELSE /\ pc' = [pc EXCEPT ![c] = "add"]
            /\ UNCHANGED buckets
  /\ bucket' = [bucket EXCEPT ![c] = buckets'[KeyOf[c]]]
  /\ UNCHANGED <<bucketVars, locked, pendingNodes, tickerVars>>

(* bucketTicker.add, on a random ticker: the send waits for room.          *)
RegisterBucket(c) ==
  /\ pc[c] = "register"
  /\ \E t \in Tickers :
       /\ Len(pendingNodes[t]) < PendingNodes
       /\ pendingNodes' = [pendingNodes EXCEPT ![t] = Append(@, KeyOf[c])]
  /\ pc' = [pc EXCEPT ![c] = "add"]
  /\ UNCHANGED <<buckets, bucketVars, locked, bucket, tickerVars>>

(* Bug: the items sent stay in the bucket.                                  *)
BugSendAndKeep(nb, held) ==
  /\ items' = [items EXCEPT ![nb] = held]
  /\ totalItemCount' = [totalItemCount EXCEPT ![nb] = 0]
  /\ recentlySent' = [recentlySent EXCEPT ![nb] = TRUE]
  /\ sent' = [c \in Calls |-> IF c \in held THEN sent[c] + 1 ELSE sent[c]]

(* getAndReset of bucket nb, holding the items held, and sendItems once it *)
(* is unlocked: what the sender returns is ignored.                        *)
GetResetAndSend(nb, held) ==
  /\ items' = [items EXCEPT ![nb] = {}]
  /\ totalItemCount' = [totalItemCount EXCEPT ![nb] = 0]
  /\ recentlySent' = [recentlySent EXCEPT ![nb] = TRUE]
  /\ sent' = [c \in Calls |-> IF c \in held THEN sent[c] + 1 ELSE sent[c]]

(* Bug: a bucket that is dead keeps what is added to it.                    *)
BugAddToDead(c) ==
  LET nb    == bucket[c]
      total == totalItemCount[nb] + SpansOf[c]
      held  == items[nb] \cup {c}
  IN /\ pc[c] = "add"
     /\ nb \notin locked
     /\ cyclesUntouched' = [cyclesUntouched EXCEPT ![nb] = 0]
     /\ IF total > SendBatchSize
          THEN GetResetAndSend(nb, held)
          ELSE /\ items' = [items EXCEPT ![nb] = held]
               /\ totalItemCount' = [totalItemCount EXCEPT ![nb] = total]
               /\ UNCHANGED <<recentlySent, sent>>
     /\ pc' = [pc EXCEPT ![c] = "done"]
     /\ UNCHANGED <<buckets, dead, locked, bucket, pendingNodes, tickerVars>>

(* nodeBatch.add.                                                          *)
AddSpans(c) ==
  LET nb    == bucket[c]
      total == totalItemCount[nb] + SpansOf[c]
      held  == items[nb] \cup {c}
  IN /\ pc[c] = "add"
     /\ nb \notin locked
     /\ cyclesUntouched' = [cyclesUntouched EXCEPT ![nb] = 0]
     /\ IF total > SendBatchSize \/ dead[nb]
          THEN GetResetAndSend(nb, held)
          ELSE /\ items' = [items EXCEPT ![nb] = held]
               /\ totalItemCount' = [totalItemCount EXCEPT ![nb] = total]
               /\ UNCHANGED <<recentlySent, sent>>
     /\ pc' = [pc EXCEPT ![c] = "done"]
     /\ UNCHANGED <<buckets, dead, locked, bucket, pendingNodes, tickerVars>>

-----------------------------------------------------------------------------
(* Bug: the new node replaces those the ticker watches.                     *)
BugReceiveReplaces(t) ==
  /\ tickerPc[t] = "select"
  /\ pendingNodes[t] # <<>>
  /\ nodes' = [nodes EXCEPT ![t] = {Head(pendingNodes[t])}]
  /\ pendingNodes' = [pendingNodes EXCEPT ![t] = Tail(@)]
  /\ UNCHANGED <<buckets, bucketVars, locked, callVars, tickerPc, toVisit, visiting, visited>>

(* bucketTicker.runTicker, one loop of the select.                         *)
ReceiveNode(t) ==
  /\ tickerPc[t] = "select"
  /\ pendingNodes[t] # <<>>
  /\ nodes' = [nodes EXCEPT ![t] = @ \cup {Head(pendingNodes[t])}]
  /\ pendingNodes' = [pendingNodes EXCEPT ![t] = Tail(@)]
  /\ UNCHANGED <<buckets, bucketVars, locked, callVars, tickerPc, toVisit, visiting, visited>>

Tick(t) ==
  /\ tickerPc[t] = "select"
  /\ nodes[t] # {}
  /\ toVisit' = [toVisit EXCEPT ![t] = nodes[t]]
  /\ tickerPc' = [tickerPc EXCEPT ![t] = "visit"]
  /\ UNCHANGED <<buckets, bucketVars, locked, callVars, pendingNodes, nodes, visiting, visited>>

NextKey(t) == IF toVisit[t] = {} THEN "select" ELSE "visit"

VisitNode(t) ==
  /\ tickerPc[t] = "visit"
  /\ \E k \in toVisit[t] :
       /\ toVisit' = [toVisit EXCEPT ![t] = @ \ {k}]
       /\ IF buckets[k] = None
            THEN /\ nodes' = [nodes EXCEPT ![t] = @ \ {k}]
                 /\ tickerPc' = [tickerPc EXCEPT ![t] = NextKey(t)']
                 /\ UNCHANGED <<visiting, visited>>
            ELSE /\ visiting' = [visiting EXCEPT ![t] = {k}]
                 /\ visited' = [visited EXCEPT ![t] = buckets[k]]
                 /\ tickerPc' = [tickerPc EXCEPT ![t] = "process"]
                 /\ UNCHANGED nodes
  /\ UNCHANGED <<buckets, bucketVars, locked, callVars, pendingNodes>>

EndVisit(t) ==
  /\ visiting' = [visiting EXCEPT ![t] = {}]
  /\ visited' = [visited EXCEPT ![t] = None]
  /\ tickerPc' = [tickerPc EXCEPT ![t] = NextKey(t)]

(* processNodeBatch, a bucket with spans: sent if its last batch is older  *)
(* than the timeout.                                                       *)
FlushBucket(t) ==
  LET nb == visited[t]
  IN /\ tickerPc[t] = "process"
     /\ nb \notin locked
     /\ totalItemCount[nb] > 0
     /\ IF recentlySent[nb]
          THEN UNCHANGED <<items, totalItemCount, recentlySent, sent>>
          ELSE GetResetAndSend(nb, items[nb])
     /\ EndVisit(t)
     /\ UNCHANGED <<buckets, cyclesUntouched, dead, locked, callVars, pendingNodes, nodes, toVisit>>

(* processNodeBatch, an empty bucket: removed once it was found empty more *)
(* than RemoveAfterCycles times in a row.  Its lock is held until it is    *)
(* dead (BuryBucket); the map has no lock.                                 *)
AgeBucket(t) ==
  LET nb     == visited[t]
      cycles == cyclesUntouched[nb] + 1
  IN /\ tickerPc[t] = "process"
     /\ nb \notin locked
     /\ totalItemCount[nb] = 0
     /\ cyclesUntouched' = [cyclesUntouched EXCEPT ![nb] = cycles]
     /\ IF cycles > RemoveAfterCycles
          THEN /\ buckets' = [k \in Keys |-> IF k \in visiting[t] THEN None ELSE buckets[k]]
               /\ locked' = locked \cup {nb}
               /\ tickerPc' = [tickerPc EXCEPT ![t] = "bury"]
               /\ UNCHANGED <<visiting, visited>>
          ELSE /\ EndVisit(t)
               /\ UNCHANGED <<buckets, locked>>
     /\ UNCHANGED <<items, totalItemCount, recentlySent, sent, dead, callVars, pendingNodes, nodes, toVisit>>

BuryBucket(t) ==
  /\ tickerPc[t] = "bury"
  /\ nodes' = [nodes EXCEPT ![t] = @ \ visiting[t]]
  /\ dead' = [dead EXCEPT ![visited[t]] = TRUE]
  /\ locked' = locked \ {visited[t]}
  /\ EndVisit(t)
  /\ UNCHANGED <<buckets, items, totalItemCount, cyclesUntouched, recentlySent, sent,
                 callVars, pendingNodes, toVisit>>

(* The timeout of the bucket's last batch runs out.                        *)
TimeoutPasses(nb) ==
  /\ recentlySent[nb]
  /\ recentlySent' = [recentlySent EXCEPT ![nb] = FALSE]
  /\ UNCHANGED <<buckets, items, totalItemCount, cyclesUntouched, dead, sent, locked,
                 callVars, pendingNodes, tickerVars>>

-----------------------------------------------------------------------------
ConsumeTraceData(c) == GetOrAddBucket(c) \/ RegisterBucket(c) \/ AddSpans(c)

processNodeBatch(t) == FlushBucket(t) \/ AgeBucket(t) \/ BuryBucket(t)

Next ==
  \/ \E c \in Calls : ConsumeTraceData(c) \/ TimeoutPasses(c)
  \/ \E t \in Tickers : ReceiveNode(t) \/ Tick(t) \/ VisitNode(t) \/ processNodeBatch(t)

(* Goroutines run, time passes, the sender returns.  When both channels of *)
(* a ticker's select are ready Go picks one at random: neither is passed   *)
(* over for ever.                                                          *)
Fairness ==
  /\ \A c \in Calls : WF_vars(ConsumeTraceData(c)) /\ WF_vars(TimeoutPasses(c))
  /\ \A t \in Tickers : /\ SF_vars(ReceiveNode(t)) /\ SF_vars(Tick(t))
                        /\ WF_vars(VisitNode(t) \/ processNodeBatch(t))

Spec == Init /\ [][Next]_vars
FairSpec == Spec /\ Fairness

-----------------------------------------------------------------------------
Registering(k) == {c \in Calls : pc[c] = "register" /\ KeyOf[c] = k}
Queued(k)      == {t \in Tickers : k \in Range(pendingNodes[t])}
Burying(t, k)  == tickerPc[t] = "bury" /\ k \in visiting[t]
Watching(k)    == {t \in Tickers : k \in nodes[t] /\ ~Burying(t, k)}

AtMostOne(S) == \A x, y \in S : x = y

(* The id of a bucket of the map is with the call that registers it, or in *)
(* one pendingNodes, or watched by one ticker, never by two: a second one  *)
(* could remove by its key a newer bucket that is still in use.  Ids that  *)
(* are not in the map are nowhere but with the ticker removing them, so a  *)
(* ticker always finds the buckets it visits.                              *)
OneTickerPerBucket ==
  /\ \A t \in Tickers : IsInjective(pendingNodes[t])
  /\ \A k \in Keys :
       /\ AtMostOne(Registering(k)) /\ AtMostOne(Queued(k)) /\ AtMostOne(Watching(k))
       /\ Registering(k) # {} => Queued(k) = {} /\ Watching(k) = {}
       /\ Queued(k) # {} => Watching(k) = {}
       /\ buckets[k] = None <=> Registering(k) = {} /\ Queued(k) = {} /\ Watching(k) = {}

(* A bucket that holds spans is in the map, where its ticker finds it: no  *)
(* interleaving of a late add with the removal strands spans in a bucket   *)
(* nobody will send.                                                       *)
NoStrandedSpans ==
  \A nb \in Calls : totalItemCount[nb] > 0 => buckets[KeyOf[nb]] = nb

(* The spans of a finished call are in one bucket or were sent, once, and  *)
(* a bucket's count is the number of its spans, never over SendBatchSize.  *)
SpansHeldOrSentOnce ==
  /\ \A c \in Calls : pc[c] = "done" =>
       Cardinality({nb \in Calls : c \in items[nb]}) + sent[c] = 1
  /\ \A nb \in Calls : totalItemCount[nb] <= SendBatchSize
  /\ \A nb \in Calls : totalItemCount[nb] = FoldFunctionOnSet(LAMBDA x, y : x + y, 0, SpansOf, items[nb])

(* All the spans received are sent in the end.                             *)
EverySpanSent ==
  <>(\A c \in Calls : SpansOf[c] > 0 => sent[c] > 0)

=============================================================================
