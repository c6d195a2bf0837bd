----------------------------- MODULE ServiceProofs ----------------------------
(***************************************************************************)
(* Safety of a process and of the receiver it starts.  The trace receiver, *)
(* for any streams, messages, workers and channel size: whatever is passed *)
(* on has the node and resource of its stream at the time it was sent, and *)
(* is handled once.  The agent or the collector, for any configurations:   *)
(* what it closes when it ends, and in which order.                        *)
(***************************************************************************)
EXTENDS OCTraceReceiver, ServiceLifecycle, DataLemmas

-----------------------------------------------------------------------------
(* Export's variables agree with what the stream has sent so far.          *)
UpToDate(s) ==
  /\ received[s] <= Len(Messages[s])
  /\ pc[s] = "send" => received[s] > 0
  /\ received[s] > 0 => lastNode[s] # None
  /\ LastSet(s, received[s], "node", lastNode[s])
  /\ LastSet(s, received[s], "resource", resource[s])

StreamsUpToDate == \A s \in Streams : UpToDate(s)

RecvInv == TypeOK /\ StreamsUpToDate

LEMMA MessageTypes ==
  ASSUME NEW s \in Streams
  PROVE  /\ Messages[s] \in Seq(Message)
         /\ DOMAIN Messages[s] = 1..Len(Messages[s]) /\ Len(Messages[s]) \in Nat
         /\ \A n \in DOMAIN Messages[s] : Messages[s][n] \in Message /\ <<s, n>> \in Sent
<1>1. Messages[s] \in Seq(Message)
  BY ReceiverAssumption
<1>2. DOMAIN Messages[s] = 1..Len(Messages[s]) /\ Len(Messages[s]) \in Nat
  BY <1>1, LenProperties
<1>3. \A n \in DOMAIN Messages[s] : Messages[s][n] \in Message
  BY <1>1, <1>2, ElementOfSeq
<1>4. \A n \in DOMAIN Messages[s] : <<s, n>> \in Sent
  BY DEF Sent
<1> QED  BY <1>1, <1>2, <1>3, <1>4

(* One more message: its field if it is set, else what was set before.     *)
LEMMA LastSetStep ==
  ASSUME NEW s, NEW n \in Nat, NEW f, NEW v, LastSet(s, n, f, v)
  PROVE  LastSet(s, n + 1, f, IF Messages[s][n + 1][f] # None THEN Messages[s][n + 1][f] ELSE v)
<1>1. \A k \in 1..(n + 1) : k \in 1..n \/ k = n + 1
  OBVIOUS
<1>2. \A k \in 1..n : k \in 1..(n + 1) /\ n + 1 > k
  OBVIOUS
<1>3. n + 1 \in 1..(n + 1) /\ \A k \in 1..(n + 1) : ~(k > n + 1)
  OBVIOUS
<1>4. CASE Messages[s][n + 1][f] # None
  BY <1>3, <1>4 DEF LastSet
<1>5. CASE Messages[s][n + 1][f] = None
  BY <1>1, <1>2, <1>5 DEF LastSet
<1> QED  BY <1>4, <1>5

(* What a stream is about to send is well-formed.                          *)
LEMMA CurrentDataTypes ==
  ASSUME RecvInv, NEW s \in Streams, pc[s] = "send"
  PROVE  CurrentData(s) \in TraceData
<1>1. received[s] \in Nat /\ received[s] > 0 /\ received[s] <= Len(Messages[s]) /\ lastNode[s] # None
  BY DEF RecvInv, TypeOK, StreamsUpToDate, UpToDate
<1>2. received[s] \in DOMAIN Messages[s]
  BY <1>1, MessageTypes
<1>3. <<s, received[s]>> \in Sent
  BY <1>2, MessageTypes
<1>4. lastNode[s] \in Names /\ resource[s] \in Names \cup {None}
  BY <1>1 DEF RecvInv, TypeOK
<1> QED  BY <1>3, <1>4 DEF CurrentData, TraceData

-----------------------------------------------------------------------------
LEMMA RecvInit == Init => RecvInv
<1> SUFFICES ASSUME Init PROVE RecvInv  OBVIOUS
<1>1. TypeOK
  <2>1. messageChan \in Seq(TraceData) /\ Len(messageChan) <= ChannelSize
    BY ReceiverAssumption DEF Init
  <2>2. 0 \in Nat
    OBVIOUS
  <2> QED  BY <2>1, <2>2 DEF Init, TypeOK
<1>2. ASSUME NEW s \in Streams PROVE UpToDate(s)
  <2>1. Len(Messages[s]) \in Nat
    BY MessageTypes
  <2>2. received[s] = 0 /\ lastNode[s] = None /\ resource[s] = None /\ pc[s] = "recv" /\ 1..0 = {}
    BY DEF Init
  <2> QED  BY <2>1, <2>2 DEF UpToDate, LastSet
<1> QED  BY <1>1, <1>2 DEF RecvInv, StreamsUpToDate

LEMMA RecvStep ==
  ASSUME RecvInv, [Next]_vars
  PROVE  RecvInv'
<1> USE DEF RecvInv
<1>1. ASSUME NEW s \in Streams, Receive(s) PROVE RecvInv'
  <2> DEFINE n == received[s] + 1
             recv == Messages[s][n]
  <2>1. /\ n \in DOMAIN Messages[s] /\ received[s] \in Nat /\ pc[s] = "recv"
        /\ UNCHANGED <<messageChan, workerVars, stopVars>>
    BY <1>1 DEF Receive, TypeOK
  <2>2. recv \in Message /\ n <= Len(Messages[s])
    BY <2>1, MessageTypes
  <2>3. CASE n = 1 /\ recv.node = None
    <3>1. pc' = [pc EXCEPT ![s] = "ended"] /\ UNCHANGED <<received, lastNode, resource>>
      BY <1>1, <2>3 DEF Receive
    <3>2. TypeOK'
      BY <2>1, <3>1 DEF TypeOK, workerVars, stopVars
    <3>3. ASSUME NEW t \in Streams PROVE UpToDate(t)'
      <4>1. UpToDate(t) /\ pc'[t] \in {pc[t], "ended"}
        BY <3>1 DEF TypeOK, StreamsUpToDate
      <4> QED  BY <3>1, <4>1 DEF UpToDate, LastSet
    <3> QED  BY <3>2, <3>3 DEF StreamsUpToDate
  <2>4. CASE ~(n = 1 /\ recv.node = None)
    <3>1. /\ pc' = [pc EXCEPT ![s] = "send"]
          /\ received' = [received EXCEPT ![s] = n]
          /\ lastNode' = [lastNode EXCEPT ![s] = IF recv.node # None THEN recv.node ELSE @]
          /\ resource' = [resource EXCEPT ![s] = IF recv.resource # None THEN recv.resource ELSE @]
      BY <1>1, <2>4 DEF Receive
    <3>2. TypeOK'
      BY <2>1, <2>2, <3>1 DEF TypeOK, workerVars, stopVars, Message
    <3>3. UpToDate(s)
      BY DEF StreamsUpToDate
    <3>4. UpToDate(s)'
      <4>1. /\ received'[s] = n /\ pc'[s] = "send"
            /\ lastNode'[s] = IF recv.node # None THEN recv.node ELSE lastNode[s]
            /\ resource'[s] = IF recv.resource # None THEN recv.resource ELSE resource[s]
        BY <3>1 DEF TypeOK
      <4>2. LastSet(s, n, "node", lastNode'[s])
        BY <2>1, <3>3, <4>1, LastSetStep DEF UpToDate
      <4>3. LastSet(s, n, "resource", resource'[s])
        BY <2>1, <3>3, <4>1, LastSetStep DEF UpToDate
      <4>4. lastNode'[s] # None
        <5>1. CASE recv.node # None
          BY <4>1, <5>1
        <5>2. CASE recv.node = None
          BY <2>1, <2>4, <3>3, <4>1, <5>2 DEF UpToDate
        <5> QED  BY <5>1, <5>2
      <4>5. received'[s] <= Len(Messages[s]) /\ received'[s] > 0
        BY <2>1, <2>2, <4>1
      <4> HIDE DEF n
      <4> QED  BY <4>1, <4>2, <4>3, <4>4, <4>5 DEF UpToDate
    <3>5. ASSUME NEW t \in Streams \ {s} PROVE UpToDate(t)'
      <4>1. /\ UpToDate(t) /\ pc'[t] = pc[t] /\ received'[t] = received[t]
            /\ lastNode'[t] = lastNode[t] /\ resource'[t] = resource[t]
        BY <3>1 DEF TypeOK, StreamsUpToDate
      <4> QED  BY <4>1 DEF UpToDate, LastSet
    <3> QED  BY <3>2, <3>4, <3>5 DEF StreamsUpToDate
  <2> QED  BY <2>3, <2>4
<1>2. ASSUME NEW s \in Streams, EndOfStream(s) PROVE RecvInv'
  <2>1. /\ pc' = [pc EXCEPT ![s] = "ended"]
        /\ UNCHANGED <<received, lastNode, resource, messageChan, workerVars, stopVars>>
    BY <1>2 DEF EndOfStream
  <2>2. TypeOK'
    BY <2>1 DEF TypeOK, workerVars, stopVars
  <2>3. ASSUME NEW t \in Streams PROVE UpToDate(t)'
    <3>1. UpToDate(t) /\ pc'[t] \in {pc[t], "ended"}
      BY <2>1 DEF TypeOK, StreamsUpToDate
    <3> QED  BY <2>1, <3>1 DEF UpToDate, LastSet
  <2> QED  BY <2>2, <2>3 DEF StreamsUpToDate
<1>3. ASSUME NEW s \in Streams, SendToWorkers(s) PROVE RecvInv'
  <2>1. /\ pc[s] = "send" /\ Len(messageChan) < ChannelSize
        /\ messageChan' = Append(messageChan, CurrentData(s))
        /\ pc' = [pc EXCEPT ![s] = "recv"]
        /\ UNCHANGED <<received, lastNode, resource, workerVars, stopVars>>
    BY <1>3 DEF SendToWorkers
  <2>2. CurrentData(s) \in TraceData
    BY <2>1, CurrentDataTypes
  <2>3. messageChan' \in Seq(TraceData) /\ Len(messageChan') <= ChannelSize
    BY <2>1, <2>2, AppendProperties, LenProperties, ReceiverAssumption DEF TypeOK
  <2>4. TypeOK'
    BY <2>1, <2>3 DEF TypeOK, workerVars, stopVars
  <2>5. ASSUME NEW t \in Streams PROVE UpToDate(t)'
    <3>1. UpToDate(t) /\ pc'[t] \in {pc[t], "recv"}
      BY <2>1 DEF TypeOK, StreamsUpToDate
    <3> QED  BY <2>1, <3>1 DEF UpToDate, LastSet
  <2> QED  BY <2>4, <2>5 DEF StreamsUpToDate
<1>4. ASSUME NEW w \in Workers, WorkerTakes(w) PROVE RecvInv'
  <2>1. /\ messageChan # <<>> /\ messageChan' = Tail(messageChan)
        /\ inHand' = [inHand EXCEPT ![w] = {Head(messageChan)}]
        /\ workerPc' = [workerPc EXCEPT ![w] = "export"]
        /\ UNCHANGED <<streamVars, consumed, handled, stopVars>>
    BY <1>4 DEF WorkerTakes
  <2>2. /\ messageChan' \in Seq(TraceData) /\ Len(messageChan') <= ChannelSize
        /\ Head(messageChan) \in TraceData
    BY <2>1, HeadTailProperties, LenProperties, ReceiverAssumption DEF TypeOK
  <2>3. TypeOK'
    BY <2>1, <2>2 DEF TypeOK, streamVars, stopVars
  <2> QED  BY <2>1, <2>3 DEF StreamsUpToDate, UpToDate, LastSet, streamVars
<1>5. ASSUME NEW w \in Workers, WorkerExports(w) PROVE RecvInv'
  <2>1. /\ consumed' = consumed \cup {td \in inHand[w] : HasSpans(td.of)}
        /\ handled' = Done(w)
        /\ inHand' = [inHand EXCEPT ![w] = {}]
        /\ workerPc' = [workerPc EXCEPT ![w] = "select"]
        /\ UNCHANGED <<streamVars, messageChan, stopVars>>
    BY <1>5 DEF WorkerExports
  <2>2. consumed' \subseteq TraceData
    BY <2>1 DEF TypeOK
  <2>3. handled' \in [Sent -> Nat]
    <3>1. \A m \in Sent : handled[m] \in Nat /\ handled[m] + 1 \in Nat
      BY DEF TypeOK
    <3> QED  BY <2>1, <3>1 DEF Done
  <2>4. TypeOK'
    BY <2>1, <2>2, <2>3 DEF TypeOK, streamVars, stopVars
  <2> QED  BY <2>1, <2>4 DEF StreamsUpToDate, UpToDate, LastSet, streamVars
<1>6. ASSUME NEW w \in Workers, WorkerReturns(w) PROVE RecvInv'
  BY <1>6 DEF WorkerReturns, TypeOK, StreamsUpToDate, UpToDate, LastSet, streamVars, stopVars
<1>7. ASSUME StopTraceReception \/ StopListening PROVE RecvInv'
  <2>1. /\ cancelled' \subseteq Workers /\ stopPc' \in {"closing", "returned"}
        /\ UNCHANGED <<streamVars, messageChan, workerVars>>
    BY <1>7 DEF StopTraceReception, StopListening, TypeOK
  <2>2. TypeOK'
    BY <2>1 DEF TypeOK, streamVars, workerVars
  <2> QED  BY <2>1, <2>2 DEF StreamsUpToDate, UpToDate, LastSet, streamVars
<1>8. CASE UNCHANGED vars
  BY <1>8 DEF vars, streamVars, workerVars, stopVars, TypeOK, StreamsUpToDate, UpToDate, LastSet
<1> QED  BY <1>1, <1>2, <1>3, <1>4, <1>5, <1>6, <1>7, <1>8 DEF Next, Export, listenOn

(* Streams, channel, workers and Stop keep the types of their variables.   *)
THEOREM ReceiverTypes == Spec => []TypeOK
<1>1. Init => RecvInv
  BY RecvInit
<1>2. RecvInv /\ [Next]_vars => RecvInv'
  BY RecvStep
<1>3. RecvInv => TypeOK
  BY DEF RecvInv
<1> QED  BY <1>1, <1>2, <1>3, PTL DEF Spec

-----------------------------------------------------------------------------
(* The node and resource of td are those of its stream when it sent td.    *)
Kept(td) ==
  /\ td.node # None
  /\ LastSet(td.of[1], td.of[2], "node", td.node)
  /\ LastSet(td.of[1], td.of[2], "resource", td.resource)

LEMMA KeptStep ==
  ASSUME RecvInv, KeepsItsNode, [Next]_vars
  PROVE  KeepsItsNode'
<1> USE DEF RecvInv
<1>1. \A td \in InChan \cup InHands \cup consumed : Kept(td)
  BY DEF KeepsItsNode, Kept
<1>2. SUFFICES ASSUME NEW td \in (InChan \cup InHands \cup consumed)' PROVE Kept(td)
  BY DEF KeepsItsNode, Kept, LastSet
<1>3. CASE UNCHANGED <<messageChan, inHand, consumed>>
  BY <1>1, <1>3 DEF InChan, InHands
<1>4. ASSUME NEW s \in Streams, SendToWorkers(s) PROVE Kept(td)
  <2>1. /\ pc[s] = "send" /\ messageChan' = Append(messageChan, CurrentData(s))
        /\ UNCHANGED <<inHand, consumed>>
    BY <1>4 DEF SendToWorkers, workerVars
  <2>2. CurrentData(s) \in TraceData
    BY <2>1, CurrentDataTypes
  <2>3. InChan' = InChan \cup {CurrentData(s)}
    BY <2>1, <2>2, RangeAppend DEF TypeOK, InChan
  <2>4. Kept(CurrentData(s))
    <3>1. UpToDate(s)
      BY DEF StreamsUpToDate
    <3> QED  BY <2>1, <3>1 DEF UpToDate, Kept, CurrentData, TypeOK
  <2>5. InHands' = InHands /\ consumed' = consumed
    BY <2>1 DEF InHands
  <2> QED  BY <1>1, <2>3, <2>4, <2>5
<1>5. ASSUME NEW w \in Workers, WorkerTakes(w) PROVE Kept(td)
  <2>1. /\ messageChan # <<>> /\ messageChan' = Tail(messageChan)
        /\ inHand' = [inHand EXCEPT ![w] = {Head(messageChan)}]
        /\ UNCHANGED consumed
    BY <1>5 DEF WorkerTakes
  <2>2. InChan = {Head(messageChan)} \cup InChan'
    BY <2>1, RangeHeadTail DEF TypeOK, InChan
  <2>3. InHands' \subseteq InHands \cup {Head(messageChan)}
    BY <2>1 DEF TypeOK, InHands
  <2> QED  BY <1>1, <2>1, <2>2, <2>3
<1>6. ASSUME NEW w \in Workers, WorkerExports(w) PROVE Kept(td)
  <2>1. /\ consumed' \subseteq consumed \cup inHand[w]
        /\ inHand' = [inHand EXCEPT ![w] = {}]
        /\ UNCHANGED messageChan
    BY <1>6 DEF WorkerExports
  <2>2. InHands' \subseteq InHands /\ inHand[w] \subseteq InHands /\ InChan' = InChan
    BY <2>1 DEF TypeOK, InHands, InChan
  <2> QED  BY <1>1, <2>1, <2>2
<1>7. ASSUME NEW s \in Streams, Receive(s) \/ EndOfStream(s) PROVE Kept(td)
  BY <1>3, <1>7 DEF Receive, EndOfStream, workerVars
<1>8. ASSUME NEW w \in Workers, WorkerReturns(w) PROVE Kept(td)
  BY <1>3, <1>8 DEF WorkerReturns
<1>9. CASE StopTraceReception \/ StopListening \/ UNCHANGED vars
  BY <1>3, <1>9 DEF StopTraceReception, StopListening, workerVars, vars
<1> QED  BY <1>4, <1>5, <1>6, <1>7, <1>8, <1>9 DEF Next, Export, listenOn

(* Whatever is passed on has the node and resource that its own stream had *)
(* sent last, whichever worker takes it and however late.                  *)
THEOREM NodesKept == Spec => []KeepsItsNode
<1>1. Init => RecvInv /\ KeepsItsNode
  <2>1. ASSUME Init PROVE InChan \cup InHands \cup consumed = {}
    BY <2>1, EmptyRange DEF Init, InChan, InHands
  <2> QED  BY <2>1, RecvInit DEF KeepsItsNode
<1>2. RecvInv /\ KeepsItsNode /\ [Next]_vars => (RecvInv /\ KeepsItsNode)'
  BY RecvStep, KeptStep
<1> QED  BY <1>1, <1>2, PTL DEF Spec

-----------------------------------------------------------------------------
(* A worker has one traceData in hand while it exports, else none.         *)
OneInHand ==
  \A w \in Workers :
    IF workerPc[w] = "export" THEN \E td \in TraceData : inHand[w] = {td} ELSE inHand[w] = {}

OnceInv == RecvInv /\ OneInHand /\ EachHandledOnce

LEMMA SentPairs ==
  ASSUME NEW m \in Sent
  PROVE  m[1] \in Streams /\ m[2] \in Nat \ {0} /\ m = <<m[1], m[2]>>
<1>1. PICK s \in Streams : m \in {s} \X DOMAIN Messages[s]
  BY DEF Sent
<1>2. DOMAIN Messages[s] \subseteq Nat \ {0}
  BY MessageTypes
<1> QED  BY <1>1, <1>2

LEMMA OnceInit == Init => OnceInv
<1> SUFFICES ASSUME Init PROVE OnceInv  OBVIOUS
<1>1. RecvInv
  BY RecvInit
<1>2. OneInHand /\ HeldOnce
  BY DEF Init, OneInHand, HeldOnce
<1>3. WaitingOnce
  BY DEF Init, WaitingOnce
<1>4. ASSUME NEW m \in Sent PROVE HandledOnce(m)
  <2>1. ~Waiting(m) /\ ~Held(m) /\ handled[m] = 0
    BY EmptyRange DEF Init, Waiting, InChan, Held
  <2>2. ~Accepted(m)
    <3>1. m[1] \in Streams /\ m[2] \in Nat \ {0}
      BY SentPairs
    <3>2. received[m[1]] = 0
      BY <3>1 DEF Init
    <3>3. ~(m[2] < 0) /\ m[2] # 0
      BY <3>1
    <3> QED  BY <3>2, <3>3 DEF Accepted
  <2>3. ~(handled[m] > 0) /\ handled[m] <= 1
    BY <2>1
  <2>4. Accepted(m) = (Waiting(m) \/ Held(m) \/ handled[m] > 0)
    BY <2>1, <2>2, <2>3 DEF Accepted
  <2> QED  BY <2>1, <2>3, <2>4, Zenon DEF HandledOnce
<1> QED  BY <1>1, <1>2, <1>3, <1>4 DEF OnceInv, EachHandledOnce

(* A step that moves no traceData and accepts no message.                  *)
LEMMA NothingMoves ==
  ASSUME OnceInv, UNCHANGED <<messageChan, inHand, handled>>,
         \A m \in Sent : Accepted(m)' = Accepted(m)
  PROVE  EachHandledOnce'
<1> USE DEF OnceInv, EachHandledOnce
<1>1. WaitingOnce' /\ HeldOnce'
  BY DEF WaitingOnce, HeldOnce
<1>2. ASSUME NEW m \in Sent PROVE HandledOnce(m)'
  <2>1. HandledOnce(m) /\ Waiting(m)' = Waiting(m) /\ Held(m)' = Held(m)
    BY DEF Waiting, Held, InChan
  <2> QED  BY <2>1 DEF HandledOnce
<1> QED  BY <1>1, <1>2

LEMMA OnceStep ==
  ASSUME OnceInv, [Next]_vars
  PROVE  OnceInv'
<1> USE DEF OnceInv, EachHandledOnce, RecvInv
<1>0. RecvInv'
  BY RecvStep
<1>1. ASSUME NEW s \in Streams, Receive(s) \/ EndOfStream(s) PROVE OnceInv'
  <2>1. /\ pc[s] = "recv" /\ UNCHANGED <<messageChan, workerPc, inHand, handled>>
        /\ \/ pc' = [pc EXCEPT ![s] = "ended"] /\ UNCHANGED received
           \/ /\ pc' = [pc EXCEPT ![s] = "send"]
              /\ received' = [received EXCEPT ![s] = received[s] + 1]
    BY <1>1 DEF Receive, EndOfStream, workerVars
  <2>2. ASSUME NEW m \in Sent PROVE Accepted(m)' = Accepted(m)
    <3>1. m[1] \in Streams /\ m[2] \in Nat /\ received[m[1]] \in Nat
      BY SentPairs DEF TypeOK
    <3>2. CASE m[1] # s
      BY <2>1, <3>1, <3>2 DEF Accepted, TypeOK
    <3>3. CASE m[1] = s
      BY <2>1, <3>1, <3>3 DEF Accepted, TypeOK
    <3> QED  BY <3>2, <3>3
  <2>3. OneInHand'
    BY <2>1 DEF OneInHand
  <2>4. EachHandledOnce'
    BY <2>1, <2>2, NothingMoves
  <2> QED  BY <1>0, <2>3, <2>4
<1>2. ASSUME NEW s \in Streams, SendToWorkers(s) PROVE OnceInv'
  <2> DEFINE td == CurrentData(s)
             k == <<s, received[s]>>
  <2>1. /\ pc[s] = "send" /\ messageChan' = Append(messageChan, td)
        /\ pc' = [pc EXCEPT ![s] = "recv"]
        /\ UNCHANGED <<received, workerPc, inHand, handled>>
    BY <1>2 DEF SendToWorkers, workerVars
  <2>2. td \in TraceData /\ td.of = k
    BY <2>1, CurrentDataTypes DEF CurrentData
  <2>3. k \in Sent
    BY <2>2 DEF TraceData
  <2>4. ~Waiting(k) /\ ~Held(k) /\ ~(handled[k] > 0)
    <3>1. ~Accepted(k)
      BY <2>1 DEF Accepted, TypeOK
    <3> QED  BY <2>3, <3>1 DEF HandledOnce
  <2>5. ASSUME NEW m \in Sent PROVE Accepted(m)' = (Accepted(m) \/ m = k)
    <3>1. m[1] \in Streams /\ m[2] \in Nat /\ m = <<m[1], m[2]>> /\ received[m[1]] \in Nat
      BY SentPairs DEF TypeOK
    <3>2. CASE m[1] # s
      BY <2>1, <3>1, <3>2 DEF Accepted, TypeOK
    <3>3. CASE m[1] = s
      BY <2>1, <3>1, <3>3 DEF Accepted, TypeOK
    <3> QED  BY <3>2, <3>3
  <2>6. \A m \in Sent : Waiting(m)' = (Waiting(m) \/ m = k)
    <3>1. InChan' = InChan \cup {td}
      BY <2>1, <2>2, RangeAppend DEF TypeOK, InChan
    <3> QED  BY <2>2, <3>1 DEF Waiting
  <2>7. OneInHand' /\ HeldOnce' /\ \A m \in Sent : Held(m)' = Held(m)
    BY <2>1 DEF OneInHand, HeldOnce, Held
  <2>8. WaitingOnce'
    <3>1. /\ Len(messageChan) \in Nat /\ DOMAIN messageChan = 1..Len(messageChan)
          /\ DOMAIN messageChan' = 1..(Len(messageChan) + 1)
          /\ \A i \in 1..Len(messageChan) : messageChan'[i] = messageChan[i]
          /\ messageChan'[Len(messageChan) + 1] = td
      BY <2>1, <2>2, AppendProperties, LenProperties DEF TypeOK
    <3>2. \A i \in 1..Len(messageChan) : messageChan'[i].of # k
      BY <2>4, <3>1 DEF Waiting, InChan, Range
    <3>3. \A i \in 1..(Len(messageChan) + 1) : i \in 1..Len(messageChan) \/ i = Len(messageChan) + 1
      BY <3>1
    <3> QED  BY <2>2, <3>1, <3>2, <3>3 DEF WaitingOnce
  <2>9. ASSUME NEW m \in Sent PROVE HandledOnce(m)'
    <3>1. HandledOnce(m) /\ handled'[m] = handled[m] /\ handled[m] \in Nat
      BY <2>1 DEF TypeOK
    <3>2. CASE m = k
      <4>1. Accepted(m)' /\ Waiting(m)'
        BY <2>5, <2>6, <3>2
      <4>2. ~Held(m)'
        BY <2>4, <2>7, <3>2
      <4>3. handled'[m] = 0 /\ handled'[m] <= 1
        BY <2>4, <3>1, <3>2
      <4> QED  BY <4>1, <4>2, <4>3, Zenon DEF HandledOnce
    <3>3. CASE m # k
      BY <2>5, <2>6, <2>7, <3>1, <3>3 DEF HandledOnce
    <3> QED  BY <3>2, <3>3
  <2> QED  BY <1>0, <2>7, <2>8, <2>9
<1>3. ASSUME NEW w \in Workers, WorkerTakes(w) PROVE OnceInv'
  <2>0. PICK td \in TraceData : td = Head(messageChan)
    BY <1>3, HeadTailProperties DEF WorkerTakes, TypeOK
  <2>1. /\ workerPc[w] = "select" /\ messageChan # <<>> /\ messageChan' = Tail(messageChan)
        /\ inHand' = [inHand EXCEPT ![w] = {td}]
        /\ workerPc' = [workerPc EXCEPT ![w] = "export"]
        /\ UNCHANGED <<pc, received, handled>>
    BY <1>3, <2>0 DEF WorkerTakes, streamVars
  <2>2. InChan = {td} \cup InChan' /\ td.of \in Sent
    <3>1. messageChan \in Seq(TraceData) /\ td.of \in Sent
      BY DEF TypeOK, TraceData
    <3> QED  BY <2>0, <2>1, <3>1, RangeHeadTail DEF InChan
  <2>3. inHand[w] = {}
    BY <2>1 DEF OneInHand
  <2>4. WaitingOnce' /\ ~Waiting(td.of)'
    <3>1. /\ Len(messageChan) \in Nat /\ Len(messageChan) > 0
          /\ DOMAIN messageChan = 1..Len(messageChan) /\ td = messageChan[1]
          /\ DOMAIN messageChan' = 1..(Len(messageChan) - 1)
          /\ \A i \in 1..(Len(messageChan) - 1) : messageChan'[i] = messageChan[i + 1]
      BY <2>0, <2>1, EmptySeq, HeadTailProperties, LenProperties DEF TypeOK
    <3>2. /\ 1 \in 1..Len(messageChan)
          /\ \A i \in 1..(Len(messageChan) - 1) : i + 1 \in 1..Len(messageChan) /\ i + 1 # 1
          /\ \A i, j \in 1..(Len(messageChan) - 1) : i + 1 = j + 1 => i = j
      BY <3>1
    <3>3. WaitingOnce'
      BY <3>1, <3>2 DEF WaitingOnce
    <3>4. \A i \in 1..(Len(messageChan) - 1) : messageChan'[i].of # td.of
      BY <3>1, <3>2 DEF WaitingOnce
    <3> QED  BY <3>1, <3>3, <3>4 DEF Waiting, InChan, Range
  <2>5. \A m \in Sent : Waiting(m) = (Waiting(m)' \/ m = td.of)
    BY <2>2 DEF Waiting
  <2>6. ~Held(td.of) /\ ~(handled[td.of] > 0)
    <3>1. HandledOnce(td.of) /\ Waiting(td.of) /\ handled[td.of] \in Nat
      BY <2>2, <2>5 DEF TypeOK
    <3> QED  BY <3>1 DEF HandledOnce
  <2>7. OneInHand'
    BY <2>1, <2>2 DEF OneInHand, TypeOK
  <2>8. \A m \in Sent : Held(m)' = (Held(m) \/ m = td.of)
    BY <2>1, <2>3 DEF Held, TypeOK
  <2>9. HeldOnce'
    <3> SUFFICES ASSUME NEW x \in Workers, NEW y \in Workers,
                        NEW a \in inHand'[x], NEW b \in inHand'[y], a.of = b.of
                 PROVE  x = y
      BY DEF HeldOnce
    <3>1. CASE x # w /\ y # w
      BY <2>1, <3>1 DEF HeldOnce, TypeOK
    <3>2. CASE x = w /\ y # w
      BY <2>1, <2>6, <3>2 DEF Held, TypeOK
    <3>3. CASE x # w /\ y = w
      BY <2>1, <2>6, <3>3 DEF Held, TypeOK
    <3> QED  BY <3>1, <3>2, <3>3
  <2>10. ASSUME NEW m \in Sent PROVE HandledOnce(m)'
    <3>1. HandledOnce(m) /\ handled'[m] = handled[m] /\ Accepted(m)' = Accepted(m)
      BY <2>1 DEF Accepted
    <3>2. CASE m = td.of
      BY <2>4, <2>5, <2>8, <3>1, <3>2 DEF HandledOnce
    <3>3. CASE m # td.of
      BY <2>5, <2>8, <3>1, <3>3 DEF HandledOnce
    <3> QED  BY <3>2, <3>3
  <2> QED  BY <1>0, <2>4, <2>7, <2>9, <2>10
<1>4. ASSUME NEW w \in Workers, WorkerExports(w) PROVE OnceInv'
  <2>1. /\ workerPc[w] = "export" /\ handled' = Done(w)
        /\ inHand' = [inHand EXCEPT ![w] = {}]
        /\ workerPc' = [workerPc EXCEPT ![w] = "select"]
        /\ UNCHANGED <<pc, received, messageChan>>
    BY <1>4 DEF WorkerExports, streamVars
  <2>2. PICK td \in TraceData : inHand[w] = {td}
    BY <2>1 DEF OneInHand
  <2>3. td.of \in Sent
    BY DEF TraceData
  <2>4. handled' = [m \in Sent |-> IF m = td.of THEN handled[m] + 1 ELSE handled[m]]
    BY <2>1, <2>2 DEF Done
  <2>5. OneInHand' /\ HeldOnce' /\ WaitingOnce'
    BY <2>1 DEF OneInHand, HeldOnce, WaitingOnce, TypeOK
  <2>6. Held(td.of) /\ ~Held(td.of)'
    <3>1. \A x \in Workers \ {w} : \A e \in inHand[x] : e.of # td.of
      BY <2>2 DEF HeldOnce
    <3> QED  BY <2>1, <2>2, <3>1 DEF Held, TypeOK
  <2>7. \A m \in Sent : Held(m) = (Held(m)' \/ m = td.of)
    BY <2>1, <2>2 DEF Held, TypeOK
  <2>8. ASSUME NEW m \in Sent PROVE HandledOnce(m)'
    <3>1. /\ HandledOnce(m) /\ Accepted(m)' = Accepted(m) /\ Waiting(m)' = Waiting(m)
          /\ handled[m] \in Nat
      BY <2>1 DEF Accepted, Waiting, InChan, TypeOK
    <3>2. CASE m = td.of
      <4>1. handled'[m] = handled[m] + 1
        BY <2>4, <3>2
      <4> QED  BY <2>6, <3>1, <3>2, <4>1 DEF HandledOnce
    <3>3. CASE m # td.of
      <4>1. handled'[m] = handled[m]
        BY <2>4, <3>3
      <4> QED  BY <2>7, <3>1, <3>3, <4>1 DEF HandledOnce
    <3> QED  BY <3>2, <3>3
  <2> QED  BY <1>0, <2>5, <2>8
<1>5. ASSUME NEW w \in Workers, WorkerReturns(w) PROVE OnceInv'
  <2>1. /\ workerPc[w] = "select" /\ workerPc' = [workerPc EXCEPT ![w] = "returned"]
        /\ UNCHANGED <<pc, received, messageChan, inHand, handled>>
    BY <1>5 DEF WorkerReturns, streamVars
  <2>2. OneInHand'
    BY <2>1 DEF OneInHand, TypeOK
  <2>3. EachHandledOnce'
    BY <2>1, NothingMoves DEF Accepted
  <2> QED  BY <1>0, <2>2, <2>3
<1>6. ASSUME StopTraceReception \/ StopListening \/ UNCHANGED vars PROVE OnceInv'
  <2>1. UNCHANGED <<pc, received, messageChan, workerPc, inHand, handled>>
    BY <1>6 DEF StopTraceReception, StopListening, vars, streamVars, workerVars
  <2>2. OneInHand'
    BY <2>1 DEF OneInHand
  <2>3. EachHandledOnce'
    BY <2>1, NothingMoves DEF Accepted
  <2> QED  BY <1>0, <2>2, <2>3
<1> QED  BY <1>1, <1>2, <1>3, <1>4, <1>5, <1>6 DEF Next, Export, listenOn

(* A message that Export has put in the channel is there, with one worker  *)
(* or was handled, and only once, whatever else streams, workers and Stop  *)
(* do.                                                                     *)
THEOREM MessagesHandledOnce == Spec => []EachHandledOnce
<1>1. Init => OnceInv
  BY OnceInit
<1>2. OnceInv /\ [Next]_vars => OnceInv'
  BY OnceStep
<1>3. OnceInv => EachHandledOnce
  BY DEF OnceInv
<1> QED  BY <1>1, <1>2, <1>3, PTL DEF Spec

-----------------------------------------------------------------------------
(* The agent or the collector.                                             *)

(* FlattenSeq(seqs), as a loop over seqs.                                  *)
Joining(seqs, K, g) ==
  g = [i \in 1..K |-> IF i = 1 THEN seqs[i] ELSE g[i - 1] \o seqs[i]]

LEMMA JoiningExists ==
  ASSUME NEW seqs
  PROVE  \A K \in Nat : \E g : Joining(seqs, K, g)
<1> DEFINE T == {K \in Nat : \E g : Joining(seqs, K, g)}
<1>1. 0 \in T
  <2> DEFINE g == [i \in 1..0 |-> <<>>]
  <2>1. Joining(seqs, 0, g)
    <3>1. 1..0 = {}
      OBVIOUS
    <3> QED  BY <3>1 DEF Joining
  <2> QED  BY <2>1
<1>2. ASSUME NEW K \in Nat, K \in T PROVE K + 1 \in T
  <2>1. PICK g : Joining(seqs, K, g)
    BY <1>2
  <2> DEFINE h == [i \in 1..(K + 1) |-> IF i = 1 THEN seqs[i] ELSE g[i - 1] \o seqs[i]]
  <2>2. \A i \in 1..K : h[i] = g[i]
    <3>1. \A i \in 1..K : i \in 1..(K + 1)
      OBVIOUS
    <3>2. \A i \in 1..K : g[i] = IF i = 1 THEN seqs[i] ELSE g[i - 1] \o seqs[i]
      BY <2>1 DEF Joining
    <3> QED  BY <3>1, <3>2
  <2>3. \A i \in 1..(K + 1) : i # 1 => i - 1 \in 1..K
    OBVIOUS
  <2>4. \A i \in 1..(K + 1) : h[i] = IF i = 1 THEN seqs[i] ELSE h[i - 1] \o seqs[i]
    BY <2>2, <2>3
  <2>5. h = [i \in 1..(K + 1) |-> h[i]]
    OBVIOUS
  <2> HIDE DEF h
  <2>6. Joining(seqs, K + 1, h)
    BY <2>4, <2>5 DEF Joining
  <2> QED  BY <2>6
<1> HIDE DEF T
<1>3. \A K \in Nat : K \in T
  BY <1>1, <1>2, SetInduction
<1> QED  BY <1>3 DEF T

(* Sequences make one that has the elements of all; what of X each has not *)
(* twice, and no two have in common, is not twice in it.                   *)
LEMMA FlattenKeeps ==
  ASSUME NEW X, NEW S, NEW seqs \in Seq(Seq(S)),
         \A i \in DOMAIN seqs : OnceIn(X, seqs[i]),
         \A i, j \in DOMAIN seqs : i # j => Range(seqs[i]) \cap Range(seqs[j]) \cap X = {}
  PROVE  /\ FlattenSeq(seqs) \in Seq(S)
         /\ Range(FlattenSeq(seqs)) = UNION {Range(seqs[i]) : i \in DOMAIN seqs}
         /\ OnceIn(X, FlattenSeq(seqs))
<1> DEFINE N == Len(seqs)
           g == CHOOSE g : Joining(seqs, N, g)
           First(k) == UNION {Range(seqs[i]) : i \in 1..k}
           Joined(k) == /\ g[k] \in Seq(S)
                        /\ Range(g[k]) = First(k)
                        /\ OnceIn(X, g[k])
           T == {k \in Nat : k >= 1 /\ k <= N => Joined(k)}
<1>0. N \in Nat /\ DOMAIN seqs = 1..N /\ \A i \in 1..N : seqs[i] \in Seq(S)
  BY LenProperties, ElementOfSeq
<1>1. CASE N = 0
  <2>1. FlattenSeq(seqs) = seqs /\ seqs = <<>>
    BY <1>1, EmptySeq DEF FlattenSeq
  <2>2. DOMAIN seqs = {}
    BY <1>0, <1>1
  <2>3. <<>> \in Seq(S) /\ Range(<<>>) = {} /\ OnceIn(X, <<>>)
    BY EmptyRange DEF OnceIn
  <2>4. UNION {Range(seqs[i]) : i \in DOMAIN seqs} = {}
    BY <2>2
  <2> QED  BY <2>1, <2>3, <2>4
<1>2. CASE N # 0
  <2>1. Joining(seqs, N, g)
    BY <1>0, JoiningExists
  <2>2. FlattenSeq(seqs) = g[N]
    BY <1>2 DEF FlattenSeq, Joining
  <2> HIDE DEF g
  <2>3. \A k \in 1..N : g[k] = IF k = 1 THEN seqs[k] ELSE g[k - 1] \o seqs[k]
    BY <2>1 DEF Joining
  <2>4. 0 \in T
    OBVIOUS
  <2>5. ASSUME NEW k \in Nat, k \in T PROVE k + 1 \in T
    <3> SUFFICES ASSUME k + 1 <= N PROVE Joined(k + 1)
      OBVIOUS
    <3>0. k + 1 \in 1..N
      BY <1>0
    <3>1. seqs[k + 1] \in Seq(S) /\ OnceIn(X, seqs[k + 1])
      BY <1>0, <3>0
    <3>2. First(k + 1) = First(k) \cup Range(seqs[k + 1])
      <4>1. 1..(k + 1) = 1..k \cup {k + 1}
        OBVIOUS
      <4> QED  BY <4>1
    <3>3. CASE k = 0
      <4>1. g[k + 1] = seqs[k + 1]
        BY <2>3, <3>0, <3>3
      <4>2. First(k) = {}
        BY <3>3
      <4> QED  BY <3>1, <3>2, <4>1, <4>2
    <3>4. CASE k # 0
      <4>1. Joined(k)
        BY <1>0, <2>5, <3>4
      <4>2. (k + 1) - 1 = k /\ k + 1 # 1
        BY <3>4
      <4>3. g[k + 1] = g[k] \o seqs[k + 1]
        BY <2>3, <3>0, <4>2
      <4>4. \A i \in 1..k : i \in DOMAIN seqs /\ i # k + 1 /\ k + 1 \in DOMAIN seqs
        BY <1>0
      <4>5. First(k) \cap Range(seqs[k + 1]) \cap X = {}
        BY <4>4
      <4> HIDE DEF First
      <4>6. PICK before \in Seq(S), next \in Seq(S) : before = g[k] /\ next = seqs[k + 1]
        BY <3>1, <4>1
      <4>7. OnceIn(X, before) /\ OnceIn(X, next) /\ Range(before) = First(k)
        BY <3>1, <4>1, <4>6
      <4>8. Range(before) \cap Range(next) \cap X = {} /\ First(k + 1) = First(k) \cup Range(next)
        BY <3>2, <4>5, <4>6, <4>7
      <4>9. g[k + 1] = before \o next
        BY <4>3, <4>6
      <4> HIDE DEF Joined
      <4>10. before \o next \in Seq(S)
        BY ConcatProperties
      <4>11. Range(before \o next) = Range(before) \cup Range(next)
        BY RangeConcat
      <4>12. OnceIn(X, before \o next)
        BY <4>7, <4>8, OnceConcat
      <4> QED  BY <4>7, <4>8, <4>9, <4>10, <4>11, <4>12 DEF Joined
    <3> QED  BY <3>3, <3>4
  <2> HIDE DEF T
  <2>6. N \in T
    BY <1>0, <2>4, <2>5, SetInduction
  <2>7. Joined(N)
    BY <1>0, <1>2, <2>6 DEF T
  <2> QED  BY <1>0, <2>2, <2>7
<1> QED  BY <1>1, <1>2

-----------------------------------------------------------------------------
(* The closing functions that an end owes: those of what was set up.       *)
Exporters == Range(cfg.exporters)
Closable == Components \cup Exporters
Owed == UNION {Range(CloseFns(c)) : c \in Range(started)}

(* What of X was closed: everything that is owed and no longer to be done, *)
(* once.                                                                   *)
Settled(X) ==
  /\ OnceIn(X, todo)
  /\ \A x \in X \cap Closable : closes[x] = IF x \in Owed \ Range(todo) THEN 1 ELSE 0

ReceiversFirst ==
  /\ \A i, j \in DOMAIN todo : todo[i] \in Exporters /\ todo[j] \in Receivers => j < i
  /\ (\E x \in Exporters : closes[x] > 0) => Range(todo) \cap Receivers = {}

LifeInv ==
  /\ cfg \in Configs
  /\ closes \in [Closable -> Nat]
  /\ mainPc \in {"check", "setup", "stuck", "wait", "close", "ended"}
  /\ ending # "none" => mainPc = "ended"
  /\ health = "ready" => mainPc = "wait" /\ ~Agent
  /\ started \in Seq(Components) /\ NoRepeat(started)
  /\ mainPc \in {"check", "setup"} =>
        todo \in Seq(Components) /\ NoRepeat(todo) /\ Range(started) \cap Range(todo) = {}
  /\ mainPc \in {"check", "setup", "stuck", "wait"} => \A x \in Closable : closes[x] = 0
  /\ mainPc = "close" =>
        todo \in Seq(Owed) /\ Settled(Components) /\ (~Agent => ReceiversFirst)
  /\ mainPc = "ended" => ShutdownOrder

(* EndsClean, of what is in X.                                             *)
Clean(X) ==
  /\ \A x \in X \cap Closable : closes[x] <= 1
  /\ ending = "orderly" =>
       \A c \in Range(started) : \A x \in X \cap Range(CloseFns(c)) : closes[x] = 1
  /\ ~Agent /\ ending = "fatal" /\ todo # <<>> /\ Head(todo) \in Receivers =>
       \A r \in X \cap StartedReceivers : closes[r] = 1

CleanInv(X) ==
  /\ mainPc = "close" => Settled(X)
  /\ mainPc = "ended" => Clean(X)

-----------------------------------------------------------------------------
LEMMA ReceiversAreComponents == Receivers \subseteq Components
<1>1. /\ AgentOrder[3] = "opencensus" /\ AgentOrder[5] = "zipkin"
      /\ AgentOrder[6] = "scribe" /\ AgentOrder[7] = "jaeger"
      /\ {3, 5, 6, 7} \subseteq DOMAIN AgentOrder
  BY DEF AgentOrder
<1> QED  BY <1>1 DEF Components, Receivers, Range

LEMMA Orders ==
  /\ AgentOrder \in Seq(Components) /\ NoRepeat(AgentOrder)
  /\ CollectorOrder \in Seq(Components) /\ NoRepeat(CollectorOrder)
<1>1. AgentOrder = [i \in 1..9 |-> AgentOrder[i]] /\ NoRepeat(AgentOrder)
  BY DEF AgentOrder, NoRepeat
<1>2. /\ CollectorOrder = [i \in 1..9 |-> CollectorOrder[i]]
      /\ NoRepeat(CollectorOrder)
  BY DEF CollectorOrder, NoRepeat
<1>3. /\ Range(AgentOrder) \subseteq Components
      /\ Range(CollectorOrder) \subseteq Components
  BY DEF Components
<1> QED  BY <1>1, <1>2, <1>3, SeqOfElements

LEMMA SetupOrderKeeps ==
  ASSUME NEW c
  PROVE  SetupOrder(c) \in Seq(Components) /\ NoRepeat(SetupOrder(c))
BY Orders, OnlyKeeps DEF SetupOrder

LEMMA LifeInit == ProcessInit => LifeInv
<1> SUFFICES ASSUME ProcessInit PROVE LifeInv
  OBVIOUS
<1>1. todo \in Seq(Components) /\ NoRepeat(todo)
  BY SetupOrderKeeps DEF ProcessInit
<1>2. started \in Seq(Components) /\ NoRepeat(started) /\ Range(started) = {}
  BY EmptyRange DEF ProcessInit, NoRepeat
<1>3. cfg \in Configs /\ closes = [x \in Closable |-> 0]
  BY DEF ProcessInit, Closable, Exporters
<1> QED  BY <1>1, <1>2, <1>3 DEF ProcessInit, LifeInv

LEMMA CleanInit == ASSUME NEW X PROVE ProcessInit => CleanInv(X)
BY DEF ProcessInit, CleanInv

-----------------------------------------------------------------------------
(* The closing functions of a component, and those that are called in its  *)
(* place.                                                                  *)
LEMMA Exporting ==
  ASSUME cfg \in Configs
  PROVE  /\ cfg.exporters \in Seq(Exporters) /\ NoRepeat(cfg.exporters)
         /\ Exporters \cap Components = {}
BY ConfigsAssumption DEF Exporters, NoRepeat, IsInjective

LEMMA CloseFnsOf ==
  ASSUME cfg \in Configs, NEW c \in Components
  PROVE  /\ CloseFns(c) \in Seq(Closable) /\ NoRepeat(CloseFns(c))
         /\ Range(CloseFns(c)) \subseteq IF c = "exporters" THEN Exporters ELSE {c}
         /\ c \in Receivers => Range(CloseFns(c)) = {c}
<1>1. CASE c = "exporters"
  <2>1. CloseFns(c) = cfg.exporters
    BY <1>1 DEF CloseFns
  <2>2. cfg.exporters \in Seq(Closable) /\ NoRepeat(cfg.exporters)
    BY Exporting, SeqMonotonic DEF Closable
  <2> QED  BY <1>1, <2>1, <2>2 DEF Exporters, Receivers
<1>2. CASE c \in {"pprof", "telemetry", "healthcheck"}
  <2>1. CloseFns(c) = <<>>
    BY <1>2 DEF CloseFns
  <2>2. <<>> \in Seq(Closable) /\ NoRepeat(<<>>) /\ Range(<<>>) = {}
    BY EmptyRange DEF NoRepeat
  <2> QED  BY <1>2, <2>1, <2>2 DEF Receivers
<1>3. CASE c \notin {"exporters", "pprof", "telemetry", "healthcheck"}
  <2>1. CloseFns(c) = <<c>>
    BY <1>3 DEF CloseFns
  <2>2. <<c>> \in Seq(Closable) /\ NoRepeat(<<c>>) /\ Range(<<c>>) = {c}
    BY DEF NoRepeat, Range, Closable
  <2> QED  BY <1>3, <2>1, <2>2
<1> QED  BY <1>1, <1>2, <1>3

LEMMA CloseFnsApart ==
  ASSUME cfg \in Configs, NEW c \in Components, NEW d \in Components, c # d
  PROVE  Range(CloseFns(c)) \cap Range(CloseFns(d)) = {}
BY CloseFnsOf, Exporting

(* What is called closes nothing else, and of X the same, once.            *)
Tells(X) ==
  \A c \in Components :
    /\ Range(DoneFns(c)) \cap X = Range(CloseFns(c)) \cap X
    /\ OnceIn(X, DoneFns(c))

LEMMA DoneFnsOf ==
  ASSUME cfg \in Configs, NEW c \in Components
  PROVE  /\ DoneFns(c) \in Seq(Closable)
         /\ Range(DoneFns(c)) \subseteq Range(CloseFns(c))
         /\ DoneFns(c) = CloseFns(c) \/ c = "exporters"
<1>1. CASE c = "exporters" /\ ~Agent
  <2> DEFINE fns == CloseFns(c)
  <2>1. fns \in Seq(Closable)
    BY CloseFnsOf
  <2>2. Len(fns) \in Nat /\ DOMAIN fns = 1..Len(fns)
    BY <2>1, LenProperties
  <2>3. DoneFns(c) = [i \in 1..Len(fns) |-> fns[Len(fns)]]
    BY <1>1, <2>2 DEF DoneFns, WrappedDoneFns, Last
  <2>4. \A i \in 1..Len(fns) : Len(fns) \in DOMAIN fns
    BY <2>2
  <2>5. Range(DoneFns(c)) \subseteq Range(fns)
    BY <2>3, <2>4 DEF Range
  <2>6. Range(fns) \subseteq Closable
    BY <2>1, <2>2, ElementOfSeq DEF Range
  <2>7. DoneFns(c) = [i \in 1..Len(fns) |-> DoneFns(c)[i]]
    BY <2>3
  <2> HIDE DEF fns
  <2>8. DoneFns(c) \in Seq(Closable)
    BY <2>2, <2>5, <2>6, <2>7, SeqOfElements
  <2> QED  BY <1>1, <2>5, <2>8 DEF fns
<1>2. CASE ~(c = "exporters" /\ ~Agent)
  BY <1>2, CloseFnsOf DEF DoneFns
<1> QED  BY <1>1, <1>2

LEMMA TellsComponents ==
  ASSUME cfg \in Configs
  PROVE  Tells(Components)
<1> SUFFICES ASSUME NEW c \in Components
             PROVE  /\ Range(DoneFns(c)) \cap Components = Range(CloseFns(c)) \cap Components
                    /\ OnceIn(Components, DoneFns(c))
  BY DEF Tells
<1>1. CASE DoneFns(c) = CloseFns(c)
  BY <1>1, CloseFnsOf DEF NoRepeat, OnceIn
<1>2. CASE c = "exporters"
  <2>1. Range(CloseFns(c)) \cap Components = {}
    BY <1>2, CloseFnsOf, Exporting
  <2>2. Range(DoneFns(c)) \cap Components = {}
    BY <2>1, DoneFnsOf
  <2>3. OnceIn(Components, DoneFns(c))
    BY <2>2 DEF OnceIn, Range
  <2> QED  BY <2>1, <2>2, <2>3
<1> QED  BY <1>1, <1>2, DoneFnsOf

(* With one exporter it is closed by its own function.                     *)
OneExporter == \A c \in Configs : c.process # "agent" => Len(c.exporters) <= 1

LEMMA TellsEverything ==
  ASSUME cfg \in Configs, OneExporter, NEW X
  PROVE  Tells(X)
<1> SUFFICES ASSUME NEW c \in Components PROVE DoneFns(c) = CloseFns(c)
  BY CloseFnsOf DEF Tells, NoRepeat, OnceIn
<1>1. CASE c = "exporters" /\ ~Agent
  <2> DEFINE fns == cfg.exporters
  <2>1. CloseFns(c) = fns
    BY <1>1 DEF CloseFns
  <2>2. Len(fns) \in Nat /\ DOMAIN fns = 1..Len(fns) /\ fns = [i \in 1..Len(fns) |-> fns[i]]
    BY Exporting, LenProperties
  <2>3. Len(fns) <= 1
    BY <1>1 DEF OneExporter, Agent
  <2>4. DoneFns(c) = [i \in 1..Len(fns) |-> fns[Len(fns)]]
    BY <1>1, <2>1, <2>2 DEF DoneFns, WrappedDoneFns, Last
  <2>5. \A i \in 1..Len(fns) : i = Len(fns)
    BY <2>2, <2>3
  <2> HIDE DEF fns
  <2>6. DoneFns(c) = [i \in 1..Len(fns) |-> fns[i]]
    BY <2>4, <2>5
  <2> QED  BY <2>1, <2>2, <2>6
<1>2. CASE ~(c = "exporters" /\ ~Agent)
  BY <1>2 DEF DoneFns
<1> QED  BY <1>1, <1>2

-----------------------------------------------------------------------------
(* What is called to close the components of cs.                           *)
LEMMA FnsOf ==
  ASSUME cfg \in Configs, NEW X, Tells(X),
         NEW cs \in Seq(Components), NoRepeat(cs),
         NEW fns, fns = [i \in DOMAIN cs |-> DoneFns(cs[i])]
  PROVE  /\ FlattenSeq(fns) \in Seq(Closable)
         /\ OnceIn(X, FlattenSeq(fns))
         /\ Range(FlattenSeq(fns)) = UNION {Range(DoneFns(c)) : c \in Range(cs)}
<1>1. Len(cs) \in Nat /\ DOMAIN cs = 1..Len(cs) /\ \A i \in 1..Len(cs) : cs[i] \in Components
  BY LenProperties, ElementOfSeq
<1>2. /\ DOMAIN fns = 1..Len(cs) /\ fns = [i \in 1..Len(cs) |-> fns[i]]
      /\ \A i \in 1..Len(cs) : fns[i] = DoneFns(cs[i])
  BY <1>1
<1>3. \A i \in 1..Len(cs) : fns[i] \in Seq(Closable) /\ OnceIn(X, fns[i])
  BY <1>1, <1>2, DoneFnsOf DEF Tells
<1>4. Range(fns) \subseteq Seq(Closable)
  BY <1>2, <1>3 DEF Range
<1>5. fns \in Seq(Seq(Closable))
  BY <1>1, <1>2, <1>4, SeqOfElements
<1>6. ASSUME NEW i \in DOMAIN fns, NEW j \in DOMAIN fns, i # j
      PROVE  Range(fns[i]) \cap Range(fns[j]) \cap X = {}
  <2>1. /\ cs[i] \in Components /\ cs[j] \in Components
        /\ fns[i] = DoneFns(cs[i]) /\ fns[j] = DoneFns(cs[j])
    BY <1>1, <1>2
  <2>2. cs[i] # cs[j]
    BY <1>1, <1>2, <1>6 DEF NoRepeat
  <2> QED  BY <2>1, <2>2, CloseFnsApart, DoneFnsOf
<1>7. \A i \in DOMAIN fns : OnceIn(X, fns[i])
  BY <1>2, <1>3
<1>8. /\ FlattenSeq(fns) \in Seq(Closable)
      /\ Range(FlattenSeq(fns)) = UNION {Range(fns[i]) : i \in DOMAIN fns}
      /\ OnceIn(X, FlattenSeq(fns))
  BY <1>5, <1>6, <1>7, FlattenKeeps
<1>9. {Range(fns[i]) : i \in DOMAIN fns} = {Range(DoneFns(c)) : c \in Range(cs)}
  <2>1. Range(cs) = {cs[i] : i \in 1..Len(cs)}
    BY <1>1 DEF Range
  <2>2. \A i \in 1..Len(cs) : Range(fns[i]) = Range(DoneFns(cs[i]))
    BY <1>2
  <2> QED  BY <1>2, <2>1, <2>2
<1> QED  BY <1>8, <1>9

(* What ClosingOrder calls is owed, and all of it that is in X once; the   *)
(* collector's receivers come first.                                       *)
LEMMA ClosingOrderKeeps ==
  ASSUME cfg \in Configs, NEW X, Tells(X),
         started \in Seq(Components), NoRepeat(started)
  PROVE  /\ ClosingOrder \in Seq(Owed)
         /\ OnceIn(X, ClosingOrder)
         /\ Range(ClosingOrder) \cap X = Owed \cap X
         /\ ~Agent => \A i, j \in DOMAIN ClosingOrder :
           ClosingOrder[i] \in Exporters /\ ClosingOrder[j] \in Receivers => j < i
<1>0. Range(started) \subseteq Components
  <2>1. DOMAIN started = 1..Len(started)
    BY LenProperties
  <2> QED  BY <2>1, ElementOfSeq DEF Range
<1>1. \A c \in Components :
        /\ Range(DoneFns(c)) \subseteq Range(CloseFns(c))
        /\ Range(DoneFns(c)) \cap X = Range(CloseFns(c)) \cap X
  BY DoneFnsOf DEF Tells
<1>2. CASE Agent
  <2> DEFINE fns == [i \in DOMAIN started |-> DoneFns(started[i])]
  <2>1. ClosingOrder = FlattenSeq(fns)
    BY <1>2 DEF ClosingOrder
  <2>2. /\ ClosingOrder \in Seq(Closable)
        /\ OnceIn(X, ClosingOrder)
        /\ Range(ClosingOrder) = UNION {Range(DoneFns(c)) : c \in Range(started)}
    BY <2>1, FnsOf
  <2>3. Range(ClosingOrder) \subseteq Owed /\ Range(ClosingOrder) \cap X = Owed \cap X
    BY <1>0, <1>1, <2>2 DEF Owed
  <2>4. ClosingOrder \in Seq(Owed)
    BY <2>2, <2>3, WiderSeq
  <2> QED  BY <1>2, <2>2, <2>3, <2>4
<1>3. CASE ~Agent
  <2>1. PICK rs \in Seq(Components), cs \in Seq(Components) :
           rs = Only(started, Receivers) /\ cs = Only(started, Components \ Receivers)
    BY OnlyKeeps
  <2>2. /\ NoRepeat(rs) /\ NoRepeat(cs)
        /\ Range(rs) = Range(started) \cap Receivers
        /\ Range(cs) = Range(started) \cap (Components \ Receivers)
    BY <2>1, OnlyKeeps
  <2> DEFINE fns == [i \in DOMAIN cs |-> DoneFns(cs[i])]
  <2>3. PICK rest \in Seq(Closable) :
           /\ rest = FlattenSeq(fns)
           /\ OnceIn(X, rest)
           /\ Range(rest) = UNION {Range(DoneFns(c)) : c \in Range(cs)}
    <3> DEFINE all == FlattenSeq(fns)
    <3>1. all \in Seq(Closable) /\ OnceIn(X, all)
      BY <2>2, FnsOf
    <3>2. Range(all) = UNION {Range(DoneFns(c)) : c \in Range(cs)}
      BY <2>2, FnsOf
    <3> QED  BY <3>1, <3>2
  <2>4. ClosingOrder = rs \o rest
    BY <1>3, <2>1, <2>3 DEF ClosingOrder
  <2>5. \A r \in Range(rs) : Range(CloseFns(r)) = {r}
    BY <1>0, <2>2, CloseFnsOf
  <2>6. Range(rest) \cap Receivers = {}
    <3>1. \A c \in Range(cs) : c \in Components /\ c \notin Receivers
      BY <1>0, <2>2
    <3>2. \A c \in Range(cs) : Range(CloseFns(c)) \cap Receivers = {}
      BY <3>1, CloseFnsOf, Exporting, ReceiversAreComponents
    <3> QED  BY <1>1, <2>3, <3>1, <3>2
  <2>7. rs \in Seq(Closable) /\ OnceIn(X, rs)
    BY <2>2, SeqMonotonic DEF Closable, NoRepeat, OnceIn
  <2>8. /\ rs \o rest \in Seq(Closable)
        /\ Range(rs \o rest) = Range(rs) \cup Range(rest)
        /\ OnceIn(X, rs \o rest)
    BY <2>2, <2>3, <2>6, <2>7, ConcatProperties, RangeConcat, OnceConcat
  <2>9. /\ Range(rs) \cup Range(rest) \subseteq Owed
        /\ (Range(rs) \cup Range(rest)) \cap X = Owed \cap X
    <3>0. Range(started) = Range(rs) \cup Range(cs)
      BY <1>0, <2>2
    <3>1. Owed = (UNION {Range(CloseFns(c)) : c \in Range(rs)}) \cup
                 (UNION {Range(CloseFns(c)) : c \in Range(cs)})
      BY <3>0 DEF Owed
    <3>2. UNION {Range(CloseFns(c)) : c \in Range(rs)} = Range(rs)
      BY <2>5
    <3>3. Range(cs) \subseteq Components
      BY <1>0, <2>2
    <3>4. /\ Range(rest) \subseteq UNION {Range(CloseFns(c)) : c \in Range(cs)}
          /\ Range(rest) \cap X = (UNION {Range(CloseFns(c)) : c \in Range(cs)}) \cap X
      <4>1. \A c \in Range(cs) : /\ Range(DoneFns(c)) \subseteq Range(CloseFns(c))
                                 /\ Range(DoneFns(c)) \cap X = Range(CloseFns(c)) \cap X
        BY <1>1, <3>3
      <4>2. Range(rest) = UNION {Range(DoneFns(c)) : c \in Range(cs)}
        BY <2>3
      <4> HIDE DEF fns
      <4>3. ASSUME NEW x \in Range(rest)
            PROVE  \E c \in Range(cs) : x \in Range(CloseFns(c))
        BY <4>1, <4>2
      <4>4. ASSUME NEW x \in X, NEW c \in Range(cs), x \in Range(CloseFns(c))
            PROVE  x \in Range(rest)
        BY <4>1, <4>2, <4>4
      <4> QED  BY <4>3, <4>4
    <3> QED  BY <3>1, <3>2, <3>4
  <2>10. rs \o rest \in Seq(Owed)
    BY <2>8, <2>9, WiderSeq
  <2>11. ASSUME NEW i \in DOMAIN (rs \o rest), NEW j \in DOMAIN (rs \o rest),
                (rs \o rest)[i] \in Exporters, (rs \o rest)[j] \in Receivers
         PROVE  j < i
    <3> HIDE DEF fns
    <3>1. /\ Len(rs) \in Nat /\ Len(rest) \in Nat
          /\ DOMAIN rs = 1..Len(rs) /\ DOMAIN rest = 1..Len(rest)
          /\ i \in 1..(Len(rs) + Len(rest)) /\ j \in 1..(Len(rs) + Len(rest))
      BY <2>7, ConcatElements
    <3>2. i \notin 1..Len(rs)
      <4>1. \A k \in 1..Len(rs) : (rs \o rest)[k] = rs[k] /\ rs[k] \in Components
        BY <2>7, ConcatElements, ElementOfSeq
      <4> QED  BY <2>11, <4>1, Exporting
    <3>3. j \in 1..Len(rs)
      <4>1. \A k \in 1..Len(rest) : (rs \o rest)[Len(rs) + k] = rest[k] /\ rest[k] \in Range(rest)
        BY <2>7, <3>1, ConcatElements DEF Range
      <4>2. j \in 1..Len(rs) \/ j - Len(rs) \in 1..Len(rest)
        BY <3>1
      <4>3. j = Len(rs) + (j - Len(rs))
        BY <3>1
      <4>4. j - Len(rs) \in 1..Len(rest) => (rs \o rest)[j] \in Range(rest)
        BY <4>1, <4>3
      <4> QED  BY <2>6, <2>11, <4>2, <4>4
    <3> QED  BY <3>1, <3>2, <3>3
  <2> QED  BY <2>4, <2>8, <2>9, <2>10, <2>11
<1> QED  BY <1>2, <1>3

-----------------------------------------------------------------------------
(* The steps.                                                              *)
lifeVars == <<cfg, mainPc, todo, health, started, closes, ending>>

LEMMA SameLife ==
  ASSUME LifeInv, NEW X, CleanInv(X), UNCHANGED lifeVars
  PROVE  LifeInv' /\ CleanInv(X)'
<1>1. UNCHANGED <<cfg, mainPc, todo, health, started, closes, ending>>
  BY DEF lifeVars
<1>2. Exporters' = Exporters /\ Agent' = Agent /\ Closable' = Closable
  BY <1>1 DEF Exporters, Agent, Closable
<1>3. \A c : CloseFns(c)' = CloseFns(c)
  BY <1>1 DEF CloseFns
<1>4. Owed' = Owed
  BY <1>1, <1>3 DEF Owed
<1>5. ASSUME NEW Y PROVE Settled(Y)' <=> Settled(Y)
  BY <1>1, <1>2, <1>4 DEF Settled
<1>6. ReceiversFirst' <=> ReceiversFirst
  BY <1>1, <1>2 DEF ReceiversFirst
<1>7. ShutdownOrder' <=> ShutdownOrder
  BY <1>1, <1>2 DEF ShutdownOrder, StartedReceivers
<1>8. Clean(X)' <=> Clean(X)
  BY <1>1, <1>2, <1>3 DEF Clean, StartedReceivers
<1>9. LifeInv'
  BY <1>1, <1>2, <1>4, <1>5, <1>6, <1>7 DEF LifeInv
<1>10. CleanInv(X)'
  BY <1>1, <1>5, <1>8 DEF CleanInv
<1> QED  BY <1>9, <1>10

(* Before the closing, whatever ends the process has closed nothing.       *)
LEMMA EarlyEnd ==
  ASSUME LifeInv, NEW X, UNCHANGED <<cfg, todo, health, started, closes>>,
         mainPc \in {"check", "setup", "stuck", "wait"}, mainPc' = "ended",
         health # "ready", ending' \in {"fatal", "killed"},
         ending' = "fatal" => Agent \/ NothingToDo
  PROVE  LifeInv' /\ CleanInv(X)'
<1>1. /\ \A x \in Closable : closes'[x] = 0
      /\ Closable' = Closable /\ Agent' = Agent /\ Exporters' = Exporters
  BY DEF LifeInv, Closable, Exporters, Agent
<1>2. NothingToDo /\ todo # <<>> => Head(todo) \notin Receivers
  <2> SUFFICES ASSUME NothingToDo, todo # <<>> PROVE Head(todo) \notin Receivers
    OBVIOUS
  <2>1. todo \in Seq(Components) /\ Range(todo) \subseteq {"telemetry"}
    BY DEF NothingToDo, LifeInv
  <2>2. Head(todo) \in Range(todo)
    BY <2>1, RangeHeadTail
  <2> QED  BY <2>1, <2>2 DEF Receivers
<1>3. Clean(X)'
  BY <1>1, <1>2 DEF Clean
<1>4. ShutdownOrder'
  BY <1>1 DEF ShutdownOrder, Closable, Exporters
<1> QED  BY <1>1, <1>3, <1>4 DEF LifeInv, CleanInv

LEMMA SetupStep ==
  ASSUME LifeInv, NEW X, Setup
  PROVE  LifeInv' /\ CleanInv(X)'
<1>1. PICK c : c = Head(todo) /\ (SetUp(c) \/ FailSetUp(c) \/ Blocks(c))
  BY DEF Setup
<1>2. /\ mainPc = "setup" /\ todo # <<>> /\ UNCHANGED <<cfg, health>>
      /\ health # "ready" /\ ending = "none"
  BY DEF Setup, LifeInv
<1>3. /\ Closable' = Closable /\ Agent' = Agent /\ Exporters' = Exporters
      /\ \A x \in Closable : closes[x] = 0
  BY <1>2 DEF Closable, Exporters, Agent, LifeInv
<1>4. /\ todo \in Seq(Components) /\ NoRepeat(todo) /\ Range(started) \cap Range(todo) = {}
      /\ started \in Seq(Components) /\ NoRepeat(started)
  BY <1>2 DEF LifeInv
<1>5. c \in Components /\ c \in Range(todo)
  BY <1>1, <1>2, <1>4, HeadTailProperties, RangeHeadTail
<1>6. CASE SetUp(c)
  <2>1. /\ started' = Append(started, c) /\ todo' = Tail(todo)
        /\ UNCHANGED <<mainPc, closes, ending>>
    BY <1>6 DEF SetUp
  <2>2. started' \in Seq(Components) /\ NoRepeat(started') /\ Range(started') = Range(started) \cup {c}
    BY <1>4, <1>5, <2>1, AppendProperties, NoRepeatAppend, RangeAppend
  <2>3. /\ todo' \in Seq(Components) /\ NoRepeat(todo') /\ c \notin Range(todo')
        /\ Range(todo) = {c} \cup Range(todo')
    BY <1>1, <1>2, <1>4, <2>1, HeadTailProperties, NoRepeatTail, RangeHeadTail
  <2>4. Range(started') \cap Range(todo') = {}
    BY <1>4, <2>2, <2>3
  <2> QED  BY <1>2, <1>3, <2>1, <2>2, <2>3, <2>4 DEF LifeInv, CleanInv
<1>7. CASE FailSetUp(c)
  <2>1. PICK stopped : stopped = IF ~Agent /\ c \in Receivers THEN Range(started) \cap Receivers ELSE {}
    OBVIOUS
  <2>2. /\ closes' = [x \in DOMAIN closes |-> closes[x] + IF x \in stopped THEN 1 ELSE 0]
        /\ mainPc' = "ended" /\ ending' = "fatal" /\ UNCHANGED <<todo, started>>
    BY <1>7, <2>1 DEF FailSetUp
  <2>3. closes \in [Closable -> Nat]
    BY DEF LifeInv
  <2>4. \A x \in Closable : closes'[x] = IF x \in stopped THEN 1 ELSE 0
    BY <1>3, <2>2, <2>3
  <2>5. closes' \in [Closable -> Nat]
    BY <2>2, <2>3, <2>4
  <2>6. stopped \subseteq Components /\ Receivers \subseteq Closable
    BY <2>1, ReceiversAreComponents DEF Closable
  <2>7. Clean(X)'
    BY <1>1, <1>3, <2>1, <2>2, <2>4, <2>6 DEF Clean, StartedReceivers
  <2>8. ShutdownOrder'
    <3>1. \A x \in Exporters : x \in Closable /\ x \notin stopped
      BY <2>6, Exporting DEF LifeInv, Closable
    <3>2. Range(cfg'.exporters) = Exporters
      BY <1>2 DEF Exporters
    <3> QED  BY <1>2, <2>4, <3>1, <3>2 DEF ShutdownOrder
  <2> QED  BY <1>2, <1>3, <1>4, <2>2, <2>5, <2>7, <2>8 DEF LifeInv, CleanInv
<1>8. CASE Blocks(c)
  <2>1. mainPc' = "stuck" /\ UNCHANGED <<todo, started, closes, ending>>
    BY <1>8 DEF Blocks
  <2> QED  BY <1>2, <1>3, <1>4, <2>1 DEF LifeInv, CleanInv
<1> QED  BY <1>1, <1>6, <1>7, <1>8

LEMMA ShutdownStep ==
  ASSUME LifeInv, NEW X, Tells(X), mainPc = "wait", BeginShutdown,
         UNCHANGED <<cfg, started, closes>>
  PROVE  LifeInv' /\ CleanInv(X)'
<1>1. /\ mainPc' = "close" /\ health' = "unavailable" /\ todo' = ClosingOrder /\ ending' = ending
      /\ Closable' = Closable /\ Agent' = Agent /\ Exporters' = Exporters /\ Owed' = Owed
     
  BY DEF BeginShutdown, Closable, Exporters, Agent, Owed, CloseFns
<1>2. /\ cfg \in Configs /\ started \in Seq(Components) /\ NoRepeat(started)
      /\ \A x \in Closable : closes[x] = 0
  BY DEF LifeInv
<1>3. Tells(Components)
  BY <1>2, TellsComponents
<1>4. ASSUME NEW Y, Tells(Y) PROVE Settled(Y)'
  <2>1. OnceIn(Y, ClosingOrder) /\ Range(ClosingOrder) \cap Y = Owed \cap Y
    BY <1>2, <1>4, ClosingOrderKeeps
  <2> QED  BY <1>1, <1>2, <2>1 DEF Settled
<1>5. ClosingOrder \in Seq(Owed)
  BY <1>2, <1>3, ClosingOrderKeeps
<1>6. ~Agent => \A i, j \in DOMAIN ClosingOrder :
         ClosingOrder[i] \in Exporters /\ ClosingOrder[j] \in Receivers => j < i
  BY <1>2, <1>3, ClosingOrderKeeps
<1>7. ~Agent => ReceiversFirst'
  <2>1. \A x \in Exporters : closes'[x] = 0
    BY <1>2 DEF Closable
  <2> QED  BY <1>1, <1>6, <2>1 DEF ReceiversFirst
<1>8. todo' \in Seq(Owed')
  BY <1>1, <1>5
<1> QED  BY <1>1, <1>2, <1>3, <1>4, <1>7, <1>8 DEF LifeInv, CleanInv

LEMMA OwedIsClosable ==
  ASSUME cfg \in Configs, started \in Seq(Components)
  PROVE  Owed \subseteq Closable /\ StartedReceivers \subseteq Owed
<1>1. Range(started) \subseteq Components
  <2>1. DOMAIN started = 1..Len(started)
    BY LenProperties
  <2> QED  BY <2>1, ElementOfSeq DEF Range
<1>2. \A c \in Components : Range(CloseFns(c)) \subseteq Exporters \cup Components
  BY CloseFnsOf
<1>3. \A c \in Range(started) \cap Receivers : c \in Range(CloseFns(c))
  BY <1>1, CloseFnsOf
<1> QED  BY <1>1, <1>2, <1>3 DEF Owed, Closable, StartedReceivers

LEMMA CloseNextStep ==
  ASSUME LifeInv, NEW X, CleanInv(X), CloseNext
  PROVE  LifeInv' /\ CleanInv(X)'
<1>1. PICK x : x = Head(todo)
  OBVIOUS
<1>2. /\ mainPc = "close" /\ todo # <<>> /\ todo' = Tail(todo)
      /\ closes' = [closes EXCEPT ![x] = @ + 1]
      /\ UNCHANGED <<cfg, mainPc, health, started, ending>>
  BY <1>1 DEF CloseNext
<1>3. /\ Exporters' = Exporters /\ Agent' = Agent /\ Closable' = Closable
      /\ Owed' = Owed
  BY <1>2 DEF Exporters, Agent, Closable, Owed, CloseFns
<1>4. /\ cfg \in Configs /\ started \in Seq(Components) /\ closes \in [Closable -> Nat]
      /\ todo \in Seq(Owed) /\ Settled(Components) /\ Settled(X)
      /\ ~Agent => ReceiversFirst
  BY <1>2 DEF LifeInv, CleanInv
<1>5. /\ todo' \in Seq(Owed) /\ x \in Owed
      /\ Range(todo) = {x} \cup Range(todo')
  BY <1>1, <1>2, <1>4, HeadTailProperties, RangeHeadTail
<1>6. x \in Closable
  BY <1>4, <1>5, OwedIsClosable
<1>7. /\ closes' \in [Closable -> Nat] /\ closes'[x] = closes[x] + 1
      /\ \A y \in Closable : y # x => closes'[y] = closes[y]
  BY <1>2, <1>4, <1>6
<1>8. ASSUME NEW Y, Settled(Y) PROVE Settled(Y)'
  <2>1. OnceIn(Y, todo)
    BY <1>8 DEF Settled
  <2>2. OnceIn(Y, todo') /\ (x \in Y => x \notin Range(todo'))
    BY <1>1, <1>2, <1>4, <2>1, OnceTail
  <2>3. ASSUME NEW y \in Y \cap Closable
        PROVE  closes'[y] = IF y \in Owed \ Range(todo') THEN 1 ELSE 0
    <3>1. closes[y] = IF y \in Owed \ Range(todo) THEN 1 ELSE 0
      BY <1>8 DEF Settled
    <3>2. CASE y = x
      BY <1>5, <1>7, <2>2, <3>1, <3>2
    <3>3. CASE y # x
      BY <1>5, <1>7, <3>1, <3>3
    <3> QED  BY <3>2, <3>3
  <2> QED  BY <1>3, <2>2, <2>3 DEF Settled
<1>9. ~Agent => ReceiversFirst'
  <2> SUFFICES ASSUME ~Agent PROVE ReceiversFirst'
    OBVIOUS
  <2>1. /\ Len(todo) \in Nat /\ Len(todo) > 0 /\ DOMAIN todo = 1..Len(todo) /\ x = todo[1]
        /\ DOMAIN todo' = 1..(Len(todo) - 1)
        /\ \A i \in 1..(Len(todo) - 1) : todo'[i] = todo[i + 1]
    BY <1>1, <1>2, <1>4, EmptySeq, LenProperties, HeadTailProperties
  <2>2. \A i, j \in 1..Len(todo) : todo[i] \in Exporters /\ todo[j] \in Receivers => j < i
    BY <1>4, <2>1 DEF ReceiversFirst
  <2>3. ASSUME NEW i \in DOMAIN todo', NEW j \in DOMAIN todo',
               todo'[i] \in Exporters, todo'[j] \in Receivers
        PROVE  j < i
    <3>1. i + 1 \in 1..Len(todo) /\ j + 1 \in 1..Len(todo)
      BY <2>1
    <3>2. todo[i + 1] \in Exporters /\ todo[j + 1] \in Receivers
      BY <2>1, <2>3
    <3>3. j + 1 < i + 1
      BY <2>2, <3>1, <3>2
    <3> QED  BY <2>1, <3>3
  <2>4. x \in Exporters => Range(todo) \cap Receivers = {}
    <3> SUFFICES ASSUME x \in Exporters, NEW j \in 1..Len(todo), todo[j] \in Receivers
                 PROVE  FALSE
      BY <2>1 DEF Range
    <3>1. 1 \in 1..Len(todo) /\ j >= 1
      BY <2>1
    <3>2. j < 1
      BY <2>1, <2>2, <3>1
    <3> QED  BY <3>1, <3>2
  <2>5. ASSUME NEW y \in Exporters, closes'[y] > 0
        PROVE  Range(todo) \cap Receivers = {}
    <3>1. y \in Closable
      BY DEF Closable
    <3>2. CASE y = x
      BY <2>4, <3>2
    <3>3. CASE y # x
      BY <1>4, <1>7, <2>5, <3>1, <3>3 DEF ReceiversFirst
    <3> QED  BY <3>2, <3>3
  <2> QED  BY <1>3, <1>5, <2>3, <2>5 DEF ReceiversFirst
<1>10. Settled(Components)' /\ Settled(X)'
  BY <1>4, <1>8
<1>11. LifeInv'
  BY <1>2, <1>3, <1>5, <1>7, <1>9, <1>10 DEF LifeInv
<1>12. CleanInv(X)'
  BY <1>2, <1>10 DEF CleanInv
<1> QED  BY <1>11, <1>12

LEMMA CloseDoneStep ==
  ASSUME LifeInv, NEW X, CleanInv(X), CloseDone
  PROVE  LifeInv' /\ CleanInv(X)'
<1>1. /\ mainPc = "close" /\ todo = <<>> /\ mainPc' = "ended" /\ ending' = "orderly"
      /\ UNCHANGED <<cfg, todo, health, started, closes>>
  BY DEF CloseDone
<1>2. /\ Exporters' = Exporters /\ Agent' = Agent /\ Closable' = Closable
      /\ StartedReceivers' = StartedReceivers /\ \A c : CloseFns(c)' = CloseFns(c)
  BY <1>1 DEF Exporters, Agent, Closable, CloseFns, StartedReceivers
<1>3. /\ cfg \in Configs /\ started \in Seq(Components) /\ Settled(Components) /\ Settled(X)
      /\ health # "ready"
  BY <1>1 DEF LifeInv, CleanInv
<1>4. ASSUME NEW Y, Settled(Y)
      PROVE  \A y \in Y \cap Closable : closes[y] = IF y \in Owed THEN 1 ELSE 0
  BY <1>1, <1>4, EmptyRange DEF Settled
<1>5. Owed \subseteq Closable /\ StartedReceivers \subseteq Owed
  BY <1>3, OwedIsClosable
<1>6. Clean(X)'
  <2>1. \A c \in Range(started) : Range(CloseFns(c)) \subseteq Owed
    BY DEF Owed
  <2>2. \A y \in X \cap Closable : closes[y] = IF y \in Owed THEN 1 ELSE 0
    BY <1>3, <1>4
  <2>3. \A y \in X \cap Closable : closes[y] <= 1
    BY <2>2
  <2>4. \A c \in Range(started) : \A y \in X \cap Range(CloseFns(c)) : closes[y] = 1
    BY <1>5, <2>1, <2>2
  <2> QED  BY <1>1, <1>2, <2>3, <2>4 DEF Clean
<1>7. ShutdownOrder'
  <2>1. \A r \in StartedReceivers : r \in Components \cap Closable
    BY ReceiversAreComponents DEF StartedReceivers, Closable
  <2>2. \A r \in StartedReceivers : closes[r] = 1
    BY <1>3, <1>4, <1>5, <2>1
  <2> QED  BY <1>1, <1>2, <1>3, <2>2 DEF ShutdownOrder
<1> QED  BY <1>1, <1>2, <1>3, <1>6, <1>7 DEF LifeInv, CleanInv

LEMMA LifeStep ==
  ASSUME LifeInv, NEW X, Tells(X), CleanInv(X), [ProcessNext]_processVars
  PROVE  LifeInv' /\ CleanInv(X)'
<1>1. CASE CheckConfig
  <2>1. /\ mainPc = "check" /\ UNCHANGED <<cfg, todo, health, started, closes>>
        /\ \/ Agent /\ mainPc' = "ended" /\ ending' = "fatal"
           \/ mainPc' = "setup" /\ ending' = ending
    BY <1>1 DEF CheckConfig
  <2>2. health # "ready" /\ ending = "none"
    BY <2>1 DEF LifeInv
  <2>3. CASE mainPc' = "ended" /\ ending' = "fatal" /\ Agent
    BY <2>1, <2>2, <2>3, EarlyEnd
  <2>4. CASE mainPc' = "setup" /\ ending' = ending
    <3>1. /\ Exporters' = Exporters /\ Agent' = Agent /\ Closable' = Closable
         
      BY <2>1 DEF Exporters, Agent, Closable
    <3> QED  BY <2>1, <2>2, <2>4, <3>1 DEF LifeInv, CleanInv
  <2> QED  BY <2>1, <2>3, <2>4
<1>2. CASE Setup
  BY <1>2, SetupStep
<1>3. CASE SetupDone
  <2>1. /\ mainPc = "setup" /\ mainPc' = "wait" /\ UNCHANGED <<cfg, todo, started, closes, ending>>
        /\ health' = IF Agent THEN health ELSE "ready"
    BY <1>3 DEF SetupDone
  <2>2. /\ Exporters' = Exporters /\ Agent' = Agent /\ Closable' = Closable
       
    BY <2>1 DEF Exporters, Agent, Closable
  <2> QED  BY <2>1, <2>2 DEF LifeInv, CleanInv
<1>4. CASE SetupNothing
  <2>1. /\ NothingToDo /\ mainPc = "setup" /\ mainPc' = "ended" /\ ending' = "fatal"
        /\ UNCHANGED <<cfg, todo, health, started, closes>>
    BY <1>4 DEF SetupNothing, NothingToDo
  <2>2. health # "ready"
    BY <2>1 DEF LifeInv
  <2> QED  BY <2>1, <2>2, EarlyEnd
<1>5. CASE Signal
  <2>1. UNCHANGED <<cfg, todo, health, started, closes>>
    BY <1>5 DEF Signal
  <2>2. CASE mainPc \in {"wait", "close"}
    <3>1. UNCHANGED lifeVars
      BY <1>5, <2>1, <2>2 DEF Signal, lifeVars
    <3> QED  BY <3>1, SameLife
  <2>3. CASE mainPc \notin {"wait", "close"}
    <3>1. /\ mainPc' = "ended" /\ ending' = "killed"
          /\ mainPc \in {"check", "setup", "stuck"} /\ health # "ready"
      BY <1>5, <2>3 DEF Signal, Running, LifeInv
    <3> QED  BY <2>1, <3>1, EarlyEnd
  <2> QED  BY <2>2, <2>3
<1>6. CASE TakeSignal
  <2>1. mainPc = "wait" /\ BeginShutdown /\ UNCHANGED <<cfg, started, closes>>
    BY <1>6 DEF TakeSignal
  <2> QED  BY <2>1, ShutdownStep
<1>7. CASE TakeError
  <2>1. mainPc = "wait" /\ UNCHANGED <<cfg, started, closes>>
    BY <1>7 DEF TakeError
  <2>2. CASE Agent
    <3>1. mainPc' = "ended" /\ ending' = "fatal" /\ UNCHANGED <<health, todo>>
      BY <1>7, <2>2 DEF TakeError
    <3>2. health # "ready"
      BY <2>2 DEF LifeInv
    <3> QED  BY <2>1, <2>2, <3>1, <3>2, EarlyEnd
  <2>3. CASE ~Agent
    <3>1. BeginShutdown
      BY <1>7, <2>3 DEF TakeError
    <3> QED  BY <2>1, <3>1, ShutdownStep
  <2> QED  BY <2>2, <2>3
<1>8. CASE CloseNext
  BY <1>8, CloseNextStep
<1>9. CASE CloseDone
  BY <1>9, CloseDoneStep
<1>10. CASE \E c \in Components : BindLater(c) \/ ServerFails(c)
  <2>1. UNCHANGED lifeVars
    BY <1>10 DEF BindLater, ServerFails, lifeVars
  <2> QED  BY <2>1, SameLife
<1>11. CASE UNCHANGED processVars
  <2>1. UNCHANGED lifeVars
    BY <1>11 DEF processVars, lifeVars
  <2> QED  BY <2>1, SameLife
<1> QED
  BY <1>1, <1>2, <1>3, <1>4, <1>5, <1>6, <1>7, <1>8, <1>9, <1>10, <1>11 DEF ProcessNext, Main

-----------------------------------------------------------------------------
LEMMA OrderHolds == LifeInv => ShutdownOrder
<1> SUFFICES ASSUME LifeInv PROVE ShutdownOrder
  OBVIOUS
<1>1. \A r \in Receivers : r \in Components \cap Closable
  BY ReceiversAreComponents DEF Closable
<1>2. \A x \in Exporters : x \in Closable
  BY DEF Closable
<1>3. CASE mainPc \in {"check", "setup", "stuck", "wait"}
  <2>1. \A x \in Closable : closes[x] = 0
    BY <1>3 DEF LifeInv
  <2> QED  BY <1>1, <1>2, <2>1 DEF ShutdownOrder, Exporters
<1>4. CASE mainPc = "close" /\ ~Agent
  <2>1. /\ health # "ready" /\ cfg \in Configs /\ started \in Seq(Components)
        /\ Settled(Components) /\ ReceiversFirst
    BY <1>4 DEF LifeInv
  <2>2. StartedReceivers \subseteq Owed
    BY <2>1, OwedIsClosable
  <2>3. ASSUME NEW x \in Exporters, closes[x] > 0
        PROVE  \A r \in StartedReceivers : closes[r] = 1
    <3>1. Range(todo) \cap Receivers = {}
      BY <2>1, <2>3 DEF ReceiversFirst
    <3>2. \A r \in StartedReceivers : r \in Components \cap Closable /\ r \in Owed \ Range(todo)
      BY <1>1, <2>2, <3>1 DEF StartedReceivers
    <3> QED  BY <2>1, <3>2 DEF Settled
  <2> QED  BY <2>1, <2>3 DEF ShutdownOrder, Exporters
<1>5. CASE Agent
  BY <1>5 DEF ShutdownOrder
<1>6. CASE mainPc = "ended"
  BY <1>6 DEF LifeInv
<1> QED  BY <1>3, <1>4, <1>5, <1>6 DEF LifeInv

LEMMA CleanHolds == ASSUME NEW X, LifeInv, CleanInv(X) PROVE Clean(X)
<1>1. CASE mainPc = "ended"
  BY <1>1 DEF CleanInv
<1>2. CASE mainPc # "ended"
  <2>1. ending = "none"
    BY <1>2 DEF LifeInv
  <2>2. \A x \in X \cap Closable : closes[x] <= 1
    <3>1. CASE mainPc = "close"
      BY <3>1 DEF CleanInv, Settled
    <3>2. CASE mainPc # "close"
      <4>1. \A x \in Closable : closes[x] = 0
        BY <1>2, <3>2 DEF LifeInv
      <4> QED  BY <4>1
    <3> QED  BY <3>1, <3>2
  <2> QED  BY <2>1, <2>2 DEF Clean
<1> QED  BY <1>1, <1>2

(* A collector answers that it is available only while nothing of it was   *)
(* closed, and closes an exporter only after every receiver it started:    *)
(* whatever configuration it runs, whichever server fails, and whenever    *)
(* the signal arrives.                                                     *)
THEOREM ReceiversBeforeExporters ==
  ProcessSpec => []ShutdownOrder
<1> DEFINE IInv == LifeInv /\ CleanInv(Components)
<1>1. ProcessInit => IInv
  BY LifeInit, CleanInit
<1>2. IInv /\ [ProcessNext]_processVars => IInv'
  <2> SUFFICES ASSUME IInv, [ProcessNext]_processVars PROVE IInv'
    OBVIOUS
  <2>1. Tells(Components)
    BY TellsComponents DEF LifeInv
  <2> QED  BY <2>1, LifeStep
<1>3. IInv => ShutdownOrder
  BY OrderHolds
<1> HIDE DEF IInv
<1> QED  BY <1>1, <1>2, <1>3, PTL DEF ProcessSpec

(* Nothing is closed twice, an orderly end has closed everything that was  *)
(* set up, and a failing receiver leaves none of those before it running.  *)
(* Under OneExporter: a collector with more closes the last one for each.  *)
THEOREM ClosedExactlyOnce ==
  OneExporter => (ProcessSpec => []EndsClean)
<1> SUFFICES ASSUME OneExporter PROVE ProcessSpec => []EndsClean
  OBVIOUS
<1> DEFINE X == Components \cup UNION {Range(c.exporters) : c \in Configs}
           IInv == LifeInv /\ CleanInv(X)
<1>1. ProcessInit => IInv
  BY LifeInit, CleanInit
<1>2. IInv /\ [ProcessNext]_processVars => IInv'
  <2> SUFFICES ASSUME IInv, [ProcessNext]_processVars PROVE IInv'
    OBVIOUS
  <2> HIDE DEF X
  <2>1. Tells(X)
    BY TellsEverything DEF LifeInv
  <2> QED  BY <2>1, LifeStep
<1>3. IInv => EndsClean
  <2> SUFFICES ASSUME IInv PROVE EndsClean
    OBVIOUS
  <2>1. cfg \in Configs /\ started \in Seq(Components) /\ DOMAIN closes = Closable
    BY DEF LifeInv
  <2>2. Closable \subseteq X
    BY <2>1 DEF Closable, Exporters
  <2> HIDE DEF X
  <2>3. Clean(X)
    BY CleanHolds
  <2>4. \A c \in Range(started) : Range(CloseFns(c)) \subseteq Closable
    BY <2>1, OwedIsClosable DEF Owed
  <2>5. StartedReceivers \subseteq Closable
    BY <2>1, OwedIsClosable
  <2> QED  BY <2>1, <2>2, <2>3, <2>4, <2>5 DEF Clean, EndsClean
<1> HIDE DEF IInv
<1> QED  BY <1>1, <1>2, <1>3, PTL DEF ProcessSpec

(* The same for a collector with any number of exporters, of all but the   *)
(* exporters: no component is closed twice, and at an orderly end each one *)
(* that was set up and has something to close has been closed.             *)
THEOREM ComponentsClosedOnce ==
  ProcessSpec => []Clean(Components)
<1> DEFINE IInv == LifeInv /\ CleanInv(Components)
<1>1. ProcessInit => IInv
  BY LifeInit, CleanInit
<1>2. IInv /\ [ProcessNext]_processVars => IInv'
  <2> SUFFICES ASSUME IInv, [ProcessNext]_processVars PROVE IInv'
    OBVIOUS
  <2>1. Tells(Components)
    BY TellsComponents DEF LifeInv
  <2> QED  BY <2>1, LifeStep
<1>3. IInv => Clean(Components)
  BY CleanHolds
<1> HIDE DEF IInv
<1> QED  BY <1>1, <1>2, <1>3, PTL DEF ProcessSpec

==============================================================================
