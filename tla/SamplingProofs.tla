--------------------------- MODULE SamplingProofs ---------------------------
(***************************************************************************)
(* Safety of the id batcher, behind which the tail sampler decides, for    *)
(* every number of ids, batches and channel slots: types, room in the      *)
(* pipe, no id lost or delivered twice, nothing left when the reader is    *)
(* told so, and that the batcher implements IdPipeline.  And of the head   *)
(* samplers on the way of a batch of any spans: traces stay whole.         *)
(***************************************************************************)
EXTENDS IdBatcher, SpanJourney, DataLemmas

-----------------------------------------------------------------------------
(* Types.                                                                  *)
THEOREM TypeCorrect == Spec => []TypeOK
<1>1. Init => TypeOK
  <2> SUFFICES ASSUME Init PROVE TypeOK  OBVIOUS
  <2>1. batches \in Seq(SUBSET Ids)
    BY BatcherAssumption, IsASeq DEF Init
  <2>2. pendingIds \in Seq(Ids) /\ Len(pendingIds) <= ChannelSize
    BY BatcherAssumption DEF Init
  <2> QED  BY <2>1, <2>2 DEF Init, TypeOK
<1>2. TypeOK /\ [Next]_vars => TypeOK'
  <2> SUFFICES ASSUME TypeOK, [Next]_vars PROVE TypeOK'  OBVIOUS
  <2> USE DEF TypeOK
  <2>1. ASSUME NEW id \in Ids, AddToCurrentBatch(id) PROVE TypeOK'
    BY <2>1, BatcherAssumption DEF AddToCurrentBatch, stopVars, fillerVars, readerVars
  <2>2. CASE FillerReceive
    BY <2>2, BatcherAssumption, HeadTailProperties DEF FillerReceive, stopVars, readerVars
  <2>3. CASE FillerAppend
    BY <2>3 DEF FillerAppend, stopVars, readerVars
  <2>4. CASE FillerExit
    BY <2>4 DEF FillerExit, stopVars, readerVars
  <2>5. CASE ReaderReceive
    BY <2>5, HeadTailProperties DEF ReaderReceive, stopVars, fillerVars
  <2>6. CASE ReaderCheck
    BY <2>6 DEF ReaderCheck, stopVars, fillerVars
  <2>7. CASE ReaderSwap
    BY <2>7 DEF ReaderSwap, stopVars, fillerVars
  <2>8. CASE ReaderPanic
    BY <2>8 DEF ReaderPanic, stopVars, fillerVars
  <2>9. CASE ReaderFinish
    BY <2>9 DEF ReaderFinish, stopVars, fillerVars
  <2>10. CASE StopCall
    BY <2>10 DEF StopCall, fillerVars, readerVars
  <2>11. CASE StopReceive
    BY <2>11 DEF StopReceive, readerVars
  <2>12. CASE StopClose
    BY <2>12 DEF StopClose, fillerVars, readerVars
  <2>13. CASE UNCHANGED vars
    BY <2>13 DEF vars, stopVars, fillerVars, readerVars
  <2> QED
    BY <2>1, <2>2, <2>3, <2>4, <2>5, <2>6, <2>7, <2>8, <2>9, <2>10, <2>11, <2>12, <2>13
    DEF Next, Filler, Reader, Stop
<1> QED  BY <1>1, <1>2, PTL DEF Spec

-----------------------------------------------------------------------------
(* A batch in the reader's hand leaves a free slot in the pipe, so the     *)
(* send under cbMutex never blocks.                                        *)
PipeRoom ==
  /\ Len(batches) <= NumBatches
  /\ InCall => Len(batches) < NumBatches

THEOREM PipeNeverFull == Spec => []SendHasRoom
<1>1. Init => PipeRoom
  BY BatcherAssumption DEF Init, PipeRoom, InCall
<1>2. TypeOK /\ PipeRoom /\ [Next]_vars => PipeRoom'
  <2> SUFFICES ASSUME TypeOK, PipeRoom, [Next]_vars PROVE PipeRoom'  OBVIOUS
  <2> USE BatcherAssumption DEF TypeOK, PipeRoom, InCall
  <2>1. CASE ReaderReceive
    BY <2>1, HeadTailProperties, EmptySeq DEF ReaderReceive
  <2>2. CASE ReaderSwap
    BY <2>2, AppendProperties DEF ReaderSwap
  <2>3. CASE ReaderCheck \/ ReaderPanic \/ ReaderFinish
    BY <2>3 DEF ReaderCheck, ReaderPanic, ReaderFinish
  <2>4. CASE Filler \/ \E id \in Ids : AddToCurrentBatch(id)
    BY <2>4 DEF Filler, FillerReceive, FillerAppend, FillerExit, AddToCurrentBatch, readerVars
  <2>5. CASE Stop
    BY <2>5 DEF Stop, StopCall, StopReceive, StopClose, readerVars
  <2>6. CASE UNCHANGED vars
    BY <2>6 DEF vars, readerVars
  <2> QED  BY <2>1, <2>2, <2>3, <2>4, <2>5, <2>6 DEF Next, Reader
<1>3. PipeRoom => SendHasRoom
  BY DEF PipeRoom, InCall, SendHasRoom
<1> QED  BY <1>1, <1>2, <1>3, TypeCorrect, PTL DEF Spec

-----------------------------------------------------------------------------
(* The order in which Stop shuts the batcher down: the filler has emptied  *)
(* the queue and its hands before stopped is set and batches is closed;    *)
(* the reader that finds batches closed and empty leaves nothing behind.   *)
Shutdown ==
  /\ IF fillerPc = "append" THEN \E id \in Ids : fillerIds = {id} ELSE fillerIds = {}
  /\ fillerPc \in {"signal", "done"} => pendingClosed /\ pendingIds = <<>>
  /\ stopPc = "notCalled" => ~pendingClosed
  /\ stopped => stopPc \in {"close", "returned"}
  /\ stopPc \in {"close", "returned"} => fillerPc = "done"
  /\ batchesClosed => stopPc = "returned"
  /\ readerPc \in {"idle", "finished"} => readBatch = {}
  /\ readerPc = "finished" => batchesClosed /\ batches = <<>> /\ currentBatch = {}

THEOREM ShutdownOrder == Spec => []Shutdown
<1>1. Init => Shutdown
  BY DEF Init, Shutdown
<1>2. TypeOK /\ Shutdown /\ [Next]_vars => Shutdown'
  <2> SUFFICES ASSUME TypeOK, Shutdown, [Next]_vars PROVE Shutdown'  OBVIOUS
  <2> USE DEF Shutdown
  <2>1. ASSUME NEW id \in Ids, AddToCurrentBatch(id) PROVE Shutdown'
    BY <2>1 DEF AddToCurrentBatch, stopVars, fillerVars, readerVars
  <2>2. CASE FillerReceive
    <3>1. Head(pendingIds) \in Ids
      BY <2>2, HeadTailProperties DEF FillerReceive, TypeOK
    <3> QED  BY <2>2, <3>1 DEF FillerReceive, stopVars, readerVars
  <2>7. CASE FillerAppend \/ FillerExit
    BY <2>7 DEF FillerAppend, FillerExit, stopVars, readerVars
  <2>3. CASE ReaderReceive \/ ReaderCheck \/ ReaderPanic
    BY <2>3 DEF ReaderReceive, ReaderCheck, ReaderPanic, stopVars, fillerVars
  <2>4. CASE ReaderSwap \/ ReaderFinish
    BY <2>4 DEF ReaderSwap, ReaderFinish, stopVars, fillerVars
  <2>5. CASE Stop
    BY <2>5 DEF Stop, StopCall, StopReceive, StopClose, fillerVars, readerVars
  <2>6. CASE UNCHANGED vars
    BY <2>6 DEF vars, stopVars, fillerVars, readerVars
  <2> QED  BY <2>1, <2>2, <2>3, <2>4, <2>5, <2>6, <2>7 DEF Next, Filler, Reader
<1> QED  BY <1>1, <1>2, TypeCorrect, PTL DEF Spec

-----------------------------------------------------------------------------
(* No id is lost and none is delivered twice.                              *)
THEOREM DeliveredExactlyOnce == Spec => []ExactlyOnce
<1>1. Init => ExactlyOnce
  <2> SUFFICES ASSUME Init PROVE ExactlyOnce  OBVIOUS
  <2>1. InPending = {} /\ \A i, j \in DOMAIN pendingIds : pendingIds[i] = pendingIds[j] => i = j
    BY EmptyRange DEF Init, InPending
  <2>2. InPipe = {} /\ \A i, j \in DOMAIN batches : i # j => batches[i] \cap batches[j] = {}
    BY DEF Init, InPipe, Range
  <2> QED  BY <2>1, <2>2 DEF Init, ExactlyOnce, NoIdLost, PendingOnce, HeldOnce, PipedOnce
<1>2. TypeOK /\ Shutdown /\ ExactlyOnce /\ [Next]_vars => ExactlyOnce'
  <2> SUFFICES ASSUME TypeOK, Shutdown, ExactlyOnce, [Next]_vars PROVE ExactlyOnce'  OBVIOUS
  <2> USE DEF ExactlyOnce, NoIdLost, PendingOnce, HeldOnce, PipedOnce
  <2>1. ASSUME NEW id \in Ids, AddToCurrentBatch(id) PROVE ExactlyOnce'
    <3>1. InPending' = InPending \cup {id} /\ id \notin InPending
      BY <2>1, RangeAppend DEF AddToCurrentBatch, InPending, TypeOK
    <3>2. NoRepeat(pendingIds')
      BY <2>1, <3>1, NoRepeatAppend DEF AddToCurrentBatch, InPending, TypeOK, NoRepeat
    <3>3. UNCHANGED <<fillerIds, currentBatch, InPipe, batches, readBatch, delivered>>
      BY <2>1 DEF AddToCurrentBatch, InPipe, fillerVars, readerVars
    <3> QED  BY <2>1, <3>1, <3>2, <3>3 DEF AddToCurrentBatch, NoRepeat
  <2>2. CASE FillerReceive
    <3>1. InPending = InPending' \cup fillerIds'
      BY <2>2, RangeHeadTail DEF FillerReceive, InPending, TypeOK
    <3>2. NoRepeat(pendingIds') /\ fillerIds' \cap InPending' = {}
      BY <2>2, NoRepeatTail DEF FillerReceive, InPending, TypeOK, NoRepeat
    <3>3. fillerIds = {}
      BY <2>2 DEF FillerReceive, Shutdown
    <3>4. UNCHANGED <<added, currentBatch, InPipe, batches, readBatch, delivered>>
      BY <2>2 DEF FillerReceive, InPipe, readerVars
    <3> QED  BY <3>1, <3>2, <3>3, <3>4 DEF NoRepeat
  <2>3. CASE FillerAppend
    <3>1. UNCHANGED <<added, InPending, pendingIds, InPipe, batches, readBatch, delivered>>
      BY <2>3 DEF FillerAppend, InPipe, InPending, readerVars
    <3> QED  BY <2>3, <3>1 DEF FillerAppend
  <2>4. CASE ReaderReceive
    <3>1. InPipe = InPipe' \cup readBatch'
      BY <2>4, RangeHeadTail DEF ReaderReceive, InPipe, TypeOK
    <3>2. Disjoint(batches') /\ readBatch' \cap InPipe' = {}
      BY <2>4, DisjointTail DEF ReaderReceive, InPipe, TypeOK, Disjoint
    <3>3. readBatch = {}
      BY <2>4 DEF ReaderReceive, Shutdown
    <3>4. UNCHANGED <<added, InPending, pendingIds, fillerIds, currentBatch, delivered>>
      BY <2>4 DEF ReaderReceive, InPending, fillerVars
    <3> QED  BY <3>1, <3>2, <3>3, <3>4 DEF Disjoint
  <2>5. CASE ReaderCheck
    <3>1. UNCHANGED <<added, InPending, pendingIds, fillerIds, currentBatch, InPipe, batches>>
      BY <2>5 DEF ReaderCheck, InPending, InPipe, fillerVars
    <3>2. CASE stopped
      BY <2>5, <3>1, <3>2 DEF ReaderCheck
    <3>3. CASE ~stopped
      BY <2>5, <3>1, <3>3 DEF ReaderCheck
    <3> QED  BY <3>2, <3>3
  <2>6. CASE ReaderSwap
    <3>1. InPipe' = InPipe \cup currentBatch
      <4>1. Range(batches') = Range(batches) \cup {currentBatch}
        BY <2>6, RangeAppend DEF ReaderSwap, TypeOK
      <4> QED  BY <4>1 DEF InPipe
    <3>2. Disjoint(batches')
      <4>1. batches \in Seq(SUBSET Ids) /\ currentBatch \in SUBSET Ids
        BY DEF TypeOK
      <4>2. Disjoint(batches) /\ currentBatch \cap UNION Range(batches) = {}
        BY DEF Disjoint, InPipe
      <4>3. batches' = Append(batches, currentBatch)
        BY <2>6 DEF ReaderSwap
      <4> HIDE DEF ExactlyOnce, NoIdLost, PendingOnce, HeldOnce, PipedOnce
      <4> QED  BY <4>1, <4>2, <4>3, DisjointAppend
    <3>3. UNCHANGED <<added, InPending, pendingIds, fillerIds>>
      BY <2>6 DEF ReaderSwap, InPending, fillerVars
    <3> QED  BY <2>6, <3>1, <3>2, <3>3 DEF ReaderSwap, Disjoint
  <2>7. CASE ReaderFinish
    <3>1. UNCHANGED <<added, InPending, pendingIds, fillerIds, InPipe, batches, readBatch>>
      BY <2>7 DEF ReaderFinish, InPending, InPipe, fillerVars
    <3> QED  BY <2>7, <3>1 DEF ReaderFinish
  <2>8. CASE FillerExit \/ ReaderPanic \/ Stop \/ UNCHANGED vars
    <3>1. UNCHANGED <<added, pendingIds, fillerIds, currentBatch, batches, readBatch, delivered>>
      BY <2>8 DEF FillerExit, ReaderPanic, Stop, StopCall, StopReceive, StopClose,
                  vars, stopVars, fillerVars, readerVars
    <3>2. UNCHANGED <<InPending, InPipe>>
      BY <3>1 DEF InPending, InPipe
    <3> QED  BY <3>1, <3>2
  <2> QED
    BY <2>1, <2>2, <2>3, <2>4, <2>5, <2>6, <2>7, <2>8 DEF Next, Filler, Reader
<1> QED  BY <1>1, <1>2, TypeCorrect, ShutdownOrder, PTL DEF Spec

(* Told that there are no more batches, the reader has received every id.  *)
THEOREM DrainedCompletely == Spec => []DrainedMeansAllDelivered
<1>1. ExactlyOnce /\ Shutdown => DrainedMeansAllDelivered
  <2> SUFFICES ASSUME ExactlyOnce, Shutdown, readerPc = "finished" PROVE delivered = added
    BY DEF DrainedMeansAllDelivered
  <2>1. InPending = {} /\ InPipe = {} /\ fillerIds = {} /\ currentBatch = {} /\ readBatch = {}
    BY EmptyRange DEF Shutdown, InPending, InPipe
  <2> QED  BY <2>1 DEF ExactlyOnce, NoIdLost
<1> QED  BY <1>1, DeliveredExactlyOnce, ShutdownOrder, PTL

-----------------------------------------------------------------------------
(* The batcher implements the pipeline its interface describes: closing    *)
(* the current batch and taking the first one look like one step, and Stop *)
(* only lets the reader empty the pipe.                                    *)
THEOREM BatcherImplementsPipeline == Spec => ImplementsPipeline
<1>1. Init => Pipeline!Init
  BY EmptyRange DEF Init, Pipeline!Init, InPending, InCall, FullPipe, PipePhase
<1>2. TypeOK /\ Shutdown /\ ExactlyOnce /\ [Next]_vars => [Pipeline!Next]_(Pipeline!vars)
  <2> SUFFICES ASSUME TypeOK, Shutdown, ExactlyOnce, [Next]_vars
               PROVE  Pipeline!Next \/ UNCHANGED Pipeline!vars
    OBVIOUS
  <2>1. ASSUME NEW id \in Ids, AddToCurrentBatch(id) PROVE Pipeline!Add(id)
    <3>1. InPending' = InPending \cup {id} /\ id \notin added /\ ~pendingClosed
      BY <2>1, RangeAppend DEF AddToCurrentBatch, InPending, TypeOK
    <3>2. UNCHANGED <<fillerIds, currentBatch, FullPipe, delivered, PipePhase>>
      BY <2>1 DEF AddToCurrentBatch, fillerVars, readerVars, stopVars, InCall, FullPipe, PipePhase
    <3>3. PipePhase = "running"
      BY <3>1 DEF PipePhase, Shutdown
    <3>4. id \notin Pipeline!Known
      <4>1. CASE InCall
        <5>1. Range(FullPipe) = {readBatch} \cup Range(batches)
          BY <4>1, RangeOfPipe DEF FullPipe, TypeOK
        <5> QED  BY <5>1, <3>1 DEF Pipeline!Known, Pipeline!Range, Range, ExactlyOnce, NoIdLost, InPipe
      <4>2. CASE ~InCall
        BY <4>2, <3>1 DEF FullPipe, Pipeline!Known, Pipeline!Range, Range, ExactlyOnce, NoIdLost, InPipe
      <4> QED  BY <4>1, <4>2
    <3> QED  BY <3>1, <3>2, <3>3, <3>4 DEF Pipeline!Add
  <2>2. CASE FillerReceive
    <3>1. InPending = InPending' \cup fillerIds' /\ fillerIds = {}
      BY <2>2, RangeHeadTail DEF FillerReceive, InPending, TypeOK, Shutdown
    <3>2. UNCHANGED <<currentBatch, FullPipe, delivered, PipePhase>>
      BY <2>2 DEF FillerReceive, stopVars, readerVars, InCall, FullPipe, PipePhase
    <3> QED  BY <3>1, <3>2 DEF Pipeline!vars
  <2>3. CASE FillerAppend
    <3>1. PICK id \in Ids : fillerIds = {id}
      BY <2>3 DEF FillerAppend, Shutdown
    <3>2. UNCHANGED <<InPending, FullPipe, delivered, PipePhase>>
      BY <2>3 DEF FillerAppend, stopVars, readerVars, InCall, FullPipe, PipePhase, InPending
    <3>3. id \notin InPending
      BY <3>1 DEF ExactlyOnce, PendingOnce
    <3>4. Pipeline!Absorb(id)
      BY <2>3, <3>1, <3>2, <3>3 DEF FillerAppend, Pipeline!Absorb
    <3> QED  BY <3>4 DEF Pipeline!Next
  <2>4. CASE ReaderReceive
    <3>1. <<Head(batches)>> \o Tail(batches) = batches
      BY <2>4, TakenFromPipe DEF ReaderReceive, TypeOK
    <3>2. UNCHANGED FullPipe
      BY <2>4, <3>1 DEF ReaderReceive, InCall, FullPipe
    <3>3. UNCHANGED <<InPending, fillerIds, currentBatch, delivered, PipePhase>>
      BY <2>4 DEF ReaderReceive, stopVars, fillerVars, PipePhase, InPending
    <3> QED  BY <3>2, <3>3 DEF Pipeline!vars
  <2>5. CASE ReaderCheck
    <3>1. UNCHANGED <<InPending, fillerIds, currentBatch, PipePhase>>
      BY <2>5 DEF ReaderCheck, stopVars, fillerVars, PipePhase, InPending
    <3>2. CASE ~stopped
      <4>1. UNCHANGED <<FullPipe, delivered>>
        BY <2>5, <3>2 DEF ReaderCheck, InCall, FullPipe
      <4> QED  BY <3>1, <4>1 DEF Pipeline!vars
    <3>3. CASE stopped
      <4>1. FullPipe = <<readBatch>> \o batches /\ FullPipe' = batches
        BY <2>5, <3>3 DEF ReaderCheck, InCall, FullPipe
      <4>2. FullPipe # <<>> /\ Head(FullPipe) = readBatch /\ FullPipe' = Tail(FullPipe)
        BY <4>1, FrontOfPipe DEF TypeOK
      <4>3. PipePhase = "stopping" /\ InPending \cup fillerIds = {}
        BY <2>5, <3>3, EmptyRange DEF Shutdown, ReaderCheck, PipePhase, InPending
      <4>4. Pipeline!Drain
        BY <2>5, <3>1, <3>3, <4>2, <4>3 DEF ReaderCheck, Pipeline!Drain
      <4> QED  BY <4>4 DEF Pipeline!Next
    <3> QED  BY <3>2, <3>3
  <2>6. CASE ReaderSwap
    <3>1. UNCHANGED <<InPending, fillerIds, PipePhase>> /\ PipePhase # "drained"
      BY <2>6 DEF ReaderSwap, stopVars, fillerVars, PipePhase, InPending
    <3>2. FullPipe = <<readBatch>> \o batches /\ FullPipe' = Append(batches, currentBatch)
      BY <2>6 DEF ReaderSwap, InCall, FullPipe
    <3>3. FullPipe # <<>> /\ Head(FullPipe) = readBatch /\ Tail(FullPipe) = batches
      BY <3>2, FrontOfPipe DEF TypeOK
    <3>4. Pipeline!CloseAndTake
      BY <2>6, <3>1, <3>2, <3>3 DEF ReaderSwap, Pipeline!CloseAndTake
    <3> QED  BY <3>4 DEF Pipeline!Next
  <2>7. CASE ReaderFinish
    <3>1. InPending \cup fillerIds = {} /\ PipePhase = "stopping" /\ PipePhase' = "drained"
      BY <2>7, EmptyRange DEF ReaderFinish, Shutdown, PipePhase, InPending
    <3>2. UNCHANGED <<InPending, fillerIds>>
      BY <2>7 DEF ReaderFinish, fillerVars, InPending
    <3>3. FullPipe = <<>> /\ FullPipe' = <<>>
      BY <2>7 DEF ReaderFinish, InCall, FullPipe
    <3>4. Pipeline!TakeLast
      BY <2>7, <3>1, <3>2, <3>3 DEF ReaderFinish, Pipeline!TakeLast
    <3> QED  BY <3>4 DEF Pipeline!Next
  <2>8. CASE StopCall
    <3>1. PipePhase = "running" /\ PipePhase' = "stopping"
      BY <2>8 DEF StopCall, Shutdown, PipePhase, readerVars
    <3>2. UNCHANGED <<InPending, fillerIds, currentBatch, FullPipe, delivered>>
      BY <2>8 DEF StopCall, fillerVars, readerVars, InPending, InCall, FullPipe
    <3>3. Pipeline!Stop
      BY <3>1, <3>2 DEF Pipeline!Stop
    <3> QED  BY <3>3 DEF Pipeline!Next
  <2>9. CASE FillerExit \/ ReaderPanic \/ StopReceive \/ StopClose \/ UNCHANGED vars
    <3>1. UNCHANGED <<pendingIds, fillerIds, currentBatch, batches, readBatch, delivered,
                      pendingClosed, InCall>>
      BY <2>9 DEF FillerExit, ReaderPanic, StopReceive, StopClose, vars, stopVars, fillerVars,
                  readerVars, InCall
    <3>2. UNCHANGED (readerPc = "finished")
      BY <2>9 DEF FillerExit, ReaderPanic, StopReceive, StopClose, vars, stopVars, fillerVars,
                  readerVars
    <3>3. UNCHANGED <<InPending, FullPipe, PipePhase>>
      BY <3>1, <3>2 DEF InPending, FullPipe, PipePhase
    <3> QED  BY <3>1, <3>3 DEF Pipeline!vars
  <2> QED
    BY <2>1, <2>2, <2>3, <2>4, <2>5, <2>6, <2>7, <2>8, <2>9
    DEF Next, Filler, Reader, Stop, Pipeline!Next
<1> QED
  BY <1>1, <1>2, TypeCorrect, ShutdownOrder, DeliveredExactlyOnce, PTL
  DEF Spec, ImplementsPipeline, Pipeline!Spec

-----------------------------------------------------------------------------
(* A batch on its way: slices.                                             *)
LEMMA ListedHasLength ==
  ASSUME NEW s, Listed(s)
  PROVE  Len(s) \in Nat /\ DOMAIN s = 1..Len(s)
BY LenProperties DEF Listed

(* A slice of what is made of each element of a slice.                     *)
LEMMA ListedMap ==
  ASSUME NEW s, Listed(s), NEW f, f = [i \in DOMAIN s |-> f[i]]
  PROVE  Listed(f)
<1>1. PICK n \in Nat : DOMAIN s = 1..n
  BY ListedHasLength
<1>2. DOMAIN f = 1..n /\ \A i \in 1..n : f[i] \in Range(f)
  BY <1>1 DEF Range
<1>3. f = [i \in 1..n |-> f[i]]
  BY <1>1
<1>4. f \in [1..n -> Range(f)]
  BY <1>2, <1>3
<1> QED  BY <1>4, SeqDef DEF Listed

(* What is kept of a slice is a slice.                                     *)
LEMMA ListedOnly ==
  ASSUME NEW s, Listed(s), NEW set
  PROVE  Listed(Only(s, set)) /\ Range(Only(s, set)) = Range(s) \cap set
<1>1. PICK t \in Seq(Range(s)) : t = Only(s, set)
  BY OnlyKeeps DEF Listed
<1>2. Range(t) = Range(s) \cap set
  BY <1>1, OnlyKeeps DEF Listed
<1>3. t \in Seq(Range(t))
  BY <1>1, WiderSeq
<1> QED  BY <1>1, <1>2, <1>3 DEF Listed

(* The ids that the translators make of numbers.                           *)
LEMMA ListedIds ==
  /\ \A a, b : Listed(UInt64ToByteTraceID(a, b))
  /\ \A a : Listed(UInt64ToByteSpanID(a))
  /\ Listed(<<>>)
<1>1. Listed(<<>>)
  BY DEF Listed
<1>2. ASSUME NEW a PROVE Listed(<<a>>)
  <2>1. Range(<<a>>) = {a}
    BY DEF Range
  <2> QED  BY <2>1 DEF Listed
<1>3. ASSUME NEW a, NEW b PROVE Listed(<<a, b>>)
  <2>1. a \in Range(<<a, b>>) /\ b \in Range(<<a, b>>)
    <3>1. DOMAIN <<a, b>> = 1..2 /\ <<a, b>>[1] = a /\ <<a, b>>[2] = b
      OBVIOUS
    <3> QED  BY <3>1 DEF Range
  <2> QED  BY <2>1 DEF Listed
<1> QED  BY <1>1, <1>2, <1>3 DEF UInt64ToByteTraceID, UInt64ToByteSpanID

(* The spans that the translators make have ids.                           *)
LEMMA BareSpanHasIds ==
  ASSUME NEW s, NEW traceId, NEW spanId, NEW parentId,
         DOMAIN s = DOMAIN BareSpan(traceId, spanId, parentId),
         s.traceId = traceId, s.spanId = spanId, Listed(traceId), Listed(spanId)
  PROVE  HasIds(s)
BY DEF HasIds, BareSpan

LEMMA JaegerSpanHasIds ==
  ASSUME NEW j
  PROVE  /\ HasIds(jSpanToOCProtoSpan(j))
         /\ jSpanToOCProtoSpan(j).traceId = UInt64ToByteTraceID(j.high, j.low)
         /\ jSpanToOCProtoSpan(j).spanId = UInt64ToByteSpanID(j.spanId)
<1> DEFINE s == jSpanToOCProtoSpan(j)
           traceId == UInt64ToByteTraceID(j.high, j.low)
           spanId == UInt64ToByteSpanID(j.spanId)
           parentId == UInt64ToByteSpanID(j.parentId)
           bare == BareSpan(traceId, spanId, parentId)
<1>1. bare.traceId = traceId /\ bare.spanId = spanId /\ {"traceId", "spanId"} \subseteq DOMAIN bare
  BY DEF BareSpan
<1> DEFINE start == epochMicrosecondsAsTime(j.start)
           end == TimeAdd(start, j.duration * 1000)
           t == jtagsToAttributes(j.tags)
           name == strToTruncatableString(j.name)
           events == jLogsToOCProtoTimeEvents(j.logs)
           links == jReferencesToOCProtoLinks(j.references)
<1>2. s = [bare EXCEPT !.name = name, !.kind = t.kind, !.status = t.status, !.attrs = t.attrs,
                       !.start = start, !.end = end, !.events = events, !.links = links]
  BY DEF jSpanToOCProtoSpan
<1> HIDE DEF s, bare, start, end, t, name, events, links
<1>3. DOMAIN s = DOMAIN bare /\ s.traceId = bare.traceId /\ s.spanId = bare.spanId
  BY <1>1, <1>2
<1>4. HasIds(s)
  BY <1>1, <1>3, BareSpanHasIds, ListedIds DEF bare
<1> QED  BY <1>1, <1>3, <1>4 DEF s

LEMMA V1SpanHasIds ==
  ASSUME NEW z, NEW traceId, NEW spanId, NEW parentId, NEW hasTime, NEW bins,
         Listed(traceId), Listed(spanId)
  PROVE  HasIds(V1Span(z, traceId, spanId, parentId, hasTime, bins).span)
<1> DEFINE s == V1Span(z, traceId, spanId, parentId, hasTime, bins).span
<1>1. /\ DOMAIN s = DOMAIN BareSpan(traceId, spanId, parentId)
      /\ s.traceId = traceId /\ s.spanId = spanId
  BY DEF V1Span, BareSpan
<1> QED  BY <1>1, BareSpanHasIds

LEMMA V2SpanHasIds == \A z : HasIds(V2!zipkinSpanToTraceSpan(z))
<1> TAKE z
<1> DEFINE s == V2!zipkinSpanToTraceSpan(z)
           traceId == UInt64ToByteTraceID(z.high, z.low)
           spanId == UInt64ToByteSpanID(z.id)
           parentId == IF z.parent = None THEN <<>> ELSE UInt64ToByteSpanID(z.parent)
<1>1. /\ DOMAIN s = DOMAIN BareSpan(traceId, spanId, parentId)
      /\ s.traceId = traceId /\ s.spanId = spanId
  BY DEF V2!zipkinSpanToTraceSpan, BareSpan, V2!BareSpan, V2!UInt64ToByteTraceID, V2!UInt64ToByteSpanID,
     UInt64ToByteTraceID, UInt64ToByteSpanID
<1> QED  BY <1>1, BareSpanHasIds, ListedIds

-----------------------------------------------------------------------------
(* What the receivers make of what is sent is a batch.                     *)
LEMMA MappedBatch ==
  ASSUME NEW td, NEW s, "spans" \in DOMAIN td, Listed(s), td.spans = [i \in DOMAIN s |-> td.spans[i]],
         \A i \in DOMAIN s : HasIds(td.spans[i])
  PROVE  IsBatch(td)
<1> DEFINE f == td.spans
<1>1. f = [i \in DOMAIN s |-> f[i]]
  OBVIOUS
<1>2. DOMAIN f = DOMAIN s
  BY <1>1
<1> HIDE DEF f
<1>3. Listed(f)
  BY <1>1, ListedMap
<1> QED  BY <1>2, <1>3 DEF f, IsBatch

(* The spans of a batch that are not blank.                                *)
RealSpans(jspans) == Only(jspans, Range(jspans) \ {blankJaegerSpan})

LEMMA RealSpansListed ==
  ASSUME NEW jspans, Listed(jspans)
  PROVE  /\ Listed(RealSpans(jspans))
         /\ Range(RealSpans(jspans)) = Range(jspans) \ {blankJaegerSpan}
BY ListedOnly DEF RealSpans

LEMMA JaegerSpans ==
  ASSUME NEW batch
  PROVE  LET td == ThriftBatchToOCProto(batch)
             real == RealSpans(batch.spans)
         IN "spans" \in DOMAIN td /\ td.spans = [i \in DOMAIN real |-> jSpanToOCProtoSpan(real[i])]
BY DEF ThriftBatchToOCProto, jSpansToOCProtoSpans, RealSpans

LEMMA JaegerBatch ==
  ASSUME NEW batch, Listed(batch.spans)
  PROVE  IsBatch(ThriftBatchToOCProto(batch))
<1> DEFINE td == ThriftBatchToOCProto(batch)
           real == RealSpans(batch.spans)
<1>1. "spans" \in DOMAIN td /\ td.spans = [i \in DOMAIN real |-> jSpanToOCProtoSpan(real[i])]
  BY JaegerSpans
<1>2. Listed(real)
  BY RealSpansListed
<1> HIDE DEF td, real
<1>3. \A i \in DOMAIN real : td.spans[i] = jSpanToOCProtoSpan(real[i])
  BY <1>1
<1>4. td.spans = [i \in DOMAIN real |-> td.spans[i]]
  BY <1>1, <1>3
<1> QED  BY <1>1, <1>2, <1>3, <1>4, JaegerSpanHasIds, MappedBatch DEF td

LEMMA V1Batches ==
  ASSUME NEW results, Listed(results), \A i \in DOMAIN results : HasIds(results[i].span),
         NEW td \in zipkinToOCProtoBatch(results)
  PROVE  IsBatch(td)
<1>1. PICK ep : td = [node |-> [BareNode(ep.service) EXCEPT !.attrs = EndpointAttributes(ep)],
                      spans |-> LET of == Only(results, {r \in Range(results) : r.ep = ep})
                                IN [i \in DOMAIN of |-> of[i].span]]
  BY DEF zipkinToOCProtoBatch
<1> DEFINE of == Only(results, {r \in Range(results) : r.ep = ep})
<1>2. "spans" \in DOMAIN td /\ td.spans = [i \in DOMAIN of |-> of[i].span]
  BY <1>1
<1>3. Listed(of) /\ Range(of) \subseteq Range(results)
  BY ListedOnly
<1> HIDE DEF of
<1>4. \A i \in DOMAIN of : HasIds(of[i].span)
  BY <1>3 DEF Range
<1>5. \A i \in DOMAIN of : td.spans[i] = of[i].span
  BY <1>2
<1>6. td.spans = [i \in DOMAIN of |-> td.spans[i]]
  BY <1>2, <1>5
<1> QED  BY <1>2, <1>3, <1>4, <1>5, <1>6, MappedBatch

LEMMA V1JSONBatches ==
  ASSUME NEW zs, Listed(zs), NEW td \in V1JSONBatchToOCProto(zs)
  PROVE  IsBatch(td)
<1> DEFINE results == [i \in DOMAIN zs |-> zipkinV1ToOCSpan(zs[i])]
<1>1. td \in zipkinToOCProtoBatch(results)
  BY DEF V1JSONBatchToOCProto
<1>2. \A i \in DOMAIN zs : HasIds(results[i].span)
  BY V1SpanHasIds, ListedIds DEF zipkinV1ToOCSpan, hexTraceIDToOCTraceID, hexIDToOCID
<1>3. results = [i \in DOMAIN zs |-> results[i]] /\ DOMAIN results = DOMAIN zs
  OBVIOUS
<1> HIDE DEF results
<1>4. Listed(results)
  BY <1>3, ListedMap
<1> QED  BY <1>1, <1>2, <1>3, <1>4, V1Batches

LEMMA V1ThriftBatches ==
  ASSUME NEW zs, Listed(zs), NEW td \in V1ThriftBatchToOCProto(zs)
  PROVE  IsBatch(td)
<1> DEFINE results == [i \in DOMAIN zs |-> zipkinV1ThriftToOCSpan(zs[i])]
<1>1. td \in zipkinToOCProtoBatch(results)
  BY DEF V1ThriftBatchToOCProto
<1>2. \A i \in DOMAIN zs : HasIds(results[i].span)
  BY V1SpanHasIds, ListedIds DEF zipkinV1ThriftToOCSpan
<1>3. results = [i \in DOMAIN zs |-> results[i]] /\ DOMAIN results = DOMAIN zs
  OBVIOUS
<1> HIDE DEF results
<1>4. Listed(results)
  BY <1>3, ListedMap
<1> QED  BY <1>1, <1>2, <1>3, <1>4, V1Batches

(* The instance of ZipkinV2 has its own names for the loops.                *)
LEMMA V2Lists == \A s, set : V2!Only(s, set) = Only(s, set) /\ V2!Range(s) = Range(s)
BY DEF V2!Only, Only, V2!Range, Range

LEMMA V2Batches ==
  ASSUME NEW zs, Listed(zs), NEW td \in V2!v2ToTraceSpans(zs)
  PROVE  IsBatch(td)
<1> DEFINE good == Only(zs, {z \in Range(zs) : V2!ZipkinOk(z)})
           good2 == V2!Only(zs, {z \in V2!Range(zs) : V2!ZipkinOk(z)})
           of2(n) == V2!Only(good2, {z \in V2!Range(good2) : V2!nodeFromZipkinEndpoints(z) = n})
<1>0. PICK n : td = [node |-> n, spans |-> [i \in DOMAIN of2(n) |-> V2!zipkinSpanToTraceSpan(of2(n)[i])]]
  BY Zenon DEF V2!v2ToTraceSpans
<1> DEFINE of == Only(good, {z \in Range(good) : V2!nodeFromZipkinEndpoints(z) = n})
<1>1. good2 = good /\ of2(n) = of
  BY V2Lists
<1> HIDE DEF of2, of
<1>2. "spans" \in DOMAIN td /\ td.spans = [i \in DOMAIN of |-> V2!zipkinSpanToTraceSpan(of[i])]
  BY <1>0, <1>1
<1> USE DEF of
<1>3. Listed(good)
  BY ListedOnly
<1> HIDE DEF good
<1>4. Listed(of)
  BY <1>3, ListedOnly
<1> HIDE DEF of
<1>5. \A i \in DOMAIN of : td.spans[i] = V2!zipkinSpanToTraceSpan(of[i])
  BY <1>2
<1>6. td.spans = [i \in DOMAIN of |-> td.spans[i]]
  BY <1>2, <1>5
<1> QED  BY <1>2, <1>4, <1>5, <1>6, V2SpanHasIds, MappedBatch

-----------------------------------------------------------------------------
(* A hop in Thrift leaves a span that it accepts its ids: they have the    *)
(* right lengths, and the one trace id that becomes nil is refused.        *)
LEMMA ThriftKeepsIds ==
  ASSUME NEW s, HasIds(s), AcceptedByThrift(s)
  PROVE  SameIds(jSpanToOCProtoSpan(ocSpanToJaegerSpan(s)), s)
<1> DEFINE j == ocSpanToJaegerSpan(s)
<1>1. j.high = s.traceId[1] /\ j.low = s.traceId[2] /\ j.spanId = s.spanId[1]
  BY DEF ocSpanToJaegerSpan
<1> HIDE DEF j
<1>2. \A S : \A t \in Seq(S) : Len(t) = 2 => t = <<t[1], t[2]>>
  OBVIOUS
<1>3. \A S : \A t \in Seq(S) : Len(t) = 1 => t = <<t[1]>>
  OBVIOUS
<1>4. s.traceId = <<s.traceId[1], s.traceId[2]>> /\ s.spanId = <<s.spanId[1]>>
  BY <1>2, <1>3 DEF HasIds, Listed, AcceptedByThrift, IsTraceID, IsSpanID
<1>5. UInt64ToByteTraceID(j.high, j.low) = s.traceId /\ UInt64ToByteSpanID(j.spanId) = s.spanId
  BY <1>1, <1>4 DEF AcceptedByThrift, UInt64ToByteTraceID, UInt64ToByteSpanID
<1> QED  BY <1>5, JaegerSpanHasIds DEF SameIds, j

(* td holds, of each trace of orig, all spans or none.                     *)
WholeIn(td, orig) ==
  \A n \in DOMAIN orig.spans :
    (\E m \in DOMAIN td.spans : td.spans[m].traceId = orig.spans[n].traceId)
      => \E m \in DOMAIN td.spans : SameIds(td.spans[m], orig.spans[n])

LEMMA SameIdsWhole ==
  ASSUME NEW td, NEW new, NEW orig, WholeIn(td, orig), DOMAIN new.spans = DOMAIN td.spans,
         \A i \in DOMAIN td.spans : SameIds(new.spans[i], td.spans[i])
  PROVE  WholeIn(new, orig)
BY DEF WholeIn, SameIds

(* Sampling decides by the trace id alone.                                 *)
LEMMA SampledWhole ==
  ASSUME NEW td, IsBatch(td), NEW orig, WholeIn(td, orig), NEW rate
  PROVE  IsBatch(SampleByTraceId(td, rate)) /\ WholeIn(SampleByTraceId(td, rate), orig)
<1> DEFINE new == SampleByTraceId(td, rate)
           good == {s \in Range(td.spans) : hash(s.traceId) < rate}
<1>1. CASE new = td
  BY <1>1
<1>2. CASE new = [td EXCEPT !.spans = Only(@, good)]
  <2>1. "spans" \in DOMAIN new /\ new.spans = Only(td.spans, good)
    BY <1>2 DEF IsBatch
  <2>2. Listed(new.spans) /\ Range(new.spans) = good
    BY <2>1, ListedOnly DEF IsBatch
  <2> HIDE DEF new, good
  <2>3. ASSUME NEW i \in DOMAIN new.spans
        PROVE  \E m \in DOMAIN td.spans : new.spans[i] = td.spans[m] /\ hash(td.spans[m].traceId) < rate
    BY <2>2 DEF Range, good
  <2>4. ASSUME NEW m \in DOMAIN td.spans, hash(td.spans[m].traceId) < rate
        PROVE  \E i \in DOMAIN new.spans : new.spans[i] = td.spans[m]
    BY <2>2, <2>4 DEF Range, good
  <2>5. IsBatch(new)
    BY <2>1, <2>2, <2>3 DEF IsBatch
  <2>6. ASSUME NEW n \in DOMAIN orig.spans, NEW i \in DOMAIN new.spans,
               new.spans[i].traceId = orig.spans[n].traceId
        PROVE  \E j \in DOMAIN new.spans : SameIds(new.spans[j], orig.spans[n])
    <3>1. PICK m \in DOMAIN td.spans : new.spans[i] = td.spans[m] /\ hash(td.spans[m].traceId) < rate
      BY <2>3
    <3>2. PICK k \in DOMAIN td.spans : SameIds(td.spans[k], orig.spans[n])
      BY <2>6, <3>1 DEF WholeIn
    <3>3. td.spans[k].traceId = td.spans[m].traceId
      BY <2>6, <3>1, <3>2 DEF SameIds
    <3>4. PICK j \in DOMAIN new.spans : new.spans[j] = td.spans[k]
      BY <2>4, <3>1, <3>3
    <3> QED  BY <3>2, <3>4
  <2>7. WholeIn(new, orig)
    BY <2>6 DEF WholeIn
  <2> QED  BY <2>5, <2>7 DEF new
<1> QED  BY <1>1, <1>2 DEF SampleByTraceId

(* A step that leaves the spans their ids.                                 *)
LEMMA KeepsWhole ==
  ASSUME NEW td, IsBatch(td), NEW orig, WholeIn(td, orig), NEW new, "spans" \in DOMAIN new,
         new.spans = [i \in DOMAIN td.spans |-> new.spans[i]],
         \A i \in DOMAIN td.spans : HasIds(new.spans[i]) /\ SameIds(new.spans[i], td.spans[i])
  PROVE  IsBatch(new) /\ WholeIn(new, orig)
<1>1. IsBatch(new)
  BY MappedBatch DEF IsBatch
<1>2. DOMAIN new.spans = DOMAIN td.spans
  OBVIOUS
<1> QED  BY <1>1, <1>2, SameIdsWhole

(* No span that a hop writes is blank: it has a trace id.                  *)
LEMMA NotBlank ==
  ASSUME NEW s, HasIds(s), AcceptedByThrift(s)
  PROVE  ocSpanToJaegerSpan(s) # blankJaegerSpan
<1> DEFINE j == ocSpanToJaegerSpan(s)
<1>1. jSpanToOCProtoSpan(j).traceId = s.traceId
  BY ThriftKeepsIds DEF SameIds
<1>2. jSpanToOCProtoSpan(j).traceId = UInt64ToByteTraceID(j.high, j.low)
  BY JaegerSpanHasIds
<1>3. Len(s.traceId) = 2
  BY DEF AcceptedByThrift, IsTraceID
<1> HIDE DEF j
<1>4. j.high # 0 \/ j.low # 0
  BY <1>1, <1>2, <1>3 DEF UInt64ToByteTraceID
<1>5. blankJaegerSpan.high = 0 /\ blankJaegerSpan.low = 0
  BY DEF blankJaegerSpan
<1>6. j # blankJaegerSpan
  BY Zenon, <1>4, <1>5
<1> QED  BY <1>6 DEF j

LEMMA ThriftWhole ==
  ASSUME NEW td, IsBatch(td), NEW orig, WholeIn(td, orig), OCProtoToJaegerThrift(td) # None
  PROVE  LET new == ThriftBatchToOCProto(OCProtoToJaegerThrift(td)) IN IsBatch(new) /\ WholeIn(new, orig)
<1> DEFINE batch == OCProtoToJaegerThrift(td)
           new == ThriftBatchToOCProto(batch)
<1>1. \A i \in DOMAIN td.spans : AcceptedByThrift(td.spans[i])
  BY Zenon DEF OCProtoToJaegerThrift
<1>2. batch.spans = [i \in DOMAIN td.spans |-> ocSpanToJaegerSpan(td.spans[i])]
  BY <1>1 DEF OCProtoToJaegerThrift
<1> HIDE DEF batch
<1> DEFINE real == RealSpans(batch.spans)
<1>3. "spans" \in DOMAIN new /\ new.spans = [i \in DOMAIN real |-> jSpanToOCProtoSpan(real[i])]
  BY JaegerSpans
<1>4. Listed(td.spans) /\ Listed(batch.spans)
  BY <1>2, ListedMap DEF IsBatch
<1>5. Range(real) = Range(batch.spans) \ {blankJaegerSpan}
  BY <1>4, RealSpansListed
<1>6. IsBatch(new)
  BY <1>4, JaegerBatch
<1> HIDE DEF new, real
<1>7. ASSUME NEW m \in DOMAIN td.spans
      PROVE  \E i \in DOMAIN new.spans : SameIds(new.spans[i], td.spans[m])
  <2>1. HasIds(td.spans[m]) /\ AcceptedByThrift(td.spans[m])
    BY <1>1 DEF IsBatch
  <2>2. batch.spans[m] = ocSpanToJaegerSpan(td.spans[m]) /\ m \in DOMAIN batch.spans
    BY <1>2
  <2>3. batch.spans[m] \in Range(real)
    BY <1>5, <2>1, <2>2, NotBlank DEF Range
  <2>4. PICK i \in DOMAIN real : real[i] = batch.spans[m]
    BY <2>3 DEF Range
  <2> QED  BY <1>3, <2>1, <2>2, <2>4, ThriftKeepsIds
<1>8. ASSUME NEW i \in DOMAIN new.spans
      PROVE  \E m \in DOMAIN td.spans : SameIds(new.spans[i], td.spans[m])
  <2>1. real[i] \in Range(batch.spans) /\ i \in DOMAIN real
    BY <1>3, <1>5, <1>8 DEF Range
  <2>2. PICK m \in DOMAIN td.spans : real[i] = ocSpanToJaegerSpan(td.spans[m])
    BY <1>2, <2>1 DEF Range
  <2>3. HasIds(td.spans[m]) /\ AcceptedByThrift(td.spans[m])
    BY <1>1 DEF IsBatch
  <2> QED  BY <1>3, <2>1, <2>2, <2>3, ThriftKeepsIds
<1>9. WholeIn(new, orig)
  <2>1. ASSUME NEW n \in DOMAIN orig.spans, NEW i \in DOMAIN new.spans,
               new.spans[i].traceId = orig.spans[n].traceId
        PROVE  \E k \in DOMAIN new.spans : SameIds(new.spans[k], orig.spans[n])
    <3>1. PICK m \in DOMAIN td.spans : SameIds(new.spans[i], td.spans[m])
      BY <1>8
    <3>2. PICK o \in DOMAIN td.spans : SameIds(td.spans[o], orig.spans[n])
      BY <2>1, <3>1 DEF WholeIn, SameIds
    <3>3. PICK k \in DOMAIN new.spans : SameIds(new.spans[k], td.spans[o])
      BY <1>7
    <3> QED  BY <3>2, <3>3 DEF SameIds
  <2> QED  BY <2>1 DEF WholeIn
<1> QED  BY <1>6, <1>9 DEF new, batch

(* An attribute processor changes attributes only.                         *)
LEMMA AttributesKeepIds ==
  ASSUME NEW s, HasIds(s)
  PROVE  /\ HasIds(AddAttributes(s, Added, Overwrite)) /\ SameIds(AddAttributes(s, Added, Overwrite), s)
         /\ HasIds(ReplaceKeys(s, Replacements)) /\ SameIds(ReplaceKeys(s, Replacements), s)
<1>1. ASSUME NEW a PROVE HasIds([s EXCEPT !.attrs = a]) /\ SameIds([s EXCEPT !.attrs = a], s)
  BY DEF HasIds, SameIds
<1>2. HasIds(s) /\ SameIds(s, s)
  BY DEF SameIds
<1>3. AddAttributes(s, Added, Overwrite) = s \/ \E a : AddAttributes(s, Added, Overwrite) = [s EXCEPT !.attrs = a]
  BY Zenon DEF AddAttributes
<1>4. ReplaceKeys(s, Replacements) = s \/ \E a : ReplaceKeys(s, Replacements) = [s EXCEPT !.attrs = a]
  BY Zenon DEF ReplaceKeys
<1> QED  BY <1>1, <1>2, <1>3, <1>4

LEMMA AddWhole ==
  ASSUME NEW td, IsBatch(td), NEW orig, WholeIn(td, orig)
  PROVE  LET new == MapSpans(td, LAMBDA s : AddAttributes(s, Added, Overwrite))
         IN IsBatch(new) /\ WholeIn(new, orig)
<1> DEFINE f == [i \in DOMAIN td.spans |-> AddAttributes(td.spans[i], Added, Overwrite)]
           new == [td EXCEPT !.spans = f]
<1>1. "spans" \in DOMAIN new /\ new.spans = f
  BY DEF IsBatch
<1>2. \A i \in DOMAIN td.spans : f[i] = AddAttributes(td.spans[i], Added, Overwrite)
  OBVIOUS
<1>3. f = [i \in DOMAIN td.spans |-> f[i]]
  OBVIOUS
<1>4. \A i \in DOMAIN td.spans : HasIds(f[i]) /\ SameIds(f[i], td.spans[i])
  BY <1>2, AttributesKeepIds DEF IsBatch
<1> HIDE DEF f, new
<1>5. IsBatch(new) /\ WholeIn(new, orig)
  BY <1>1, <1>3, <1>4, KeepsWhole
<1> QED  BY <1>5 DEF MapSpans, new, f

LEMMA RenameWhole ==
  ASSUME NEW td, IsBatch(td), NEW orig, WholeIn(td, orig)
  PROVE  LET new == MapSpans(td, LAMBDA s : ReplaceKeys(s, Replacements))
         IN IsBatch(new) /\ WholeIn(new, orig)
<1> DEFINE f == [i \in DOMAIN td.spans |-> ReplaceKeys(td.spans[i], Replacements)]
           new == [td EXCEPT !.spans = f]
<1>1. "spans" \in DOMAIN new /\ new.spans = f
  BY DEF IsBatch
<1>2. \A i \in DOMAIN td.spans : f[i] = ReplaceKeys(td.spans[i], Replacements)
  OBVIOUS
<1>3. f = [i \in DOMAIN td.spans |-> f[i]]
  OBVIOUS
<1>4. \A i \in DOMAIN td.spans : HasIds(f[i]) /\ SameIds(f[i], td.spans[i])
  BY <1>2, AttributesKeepIds DEF IsBatch
<1> HIDE DEF f, new
<1>5. IsBatch(new) /\ WholeIn(new, orig)
  BY <1>1, <1>3, <1>4, KeepsWhole
<1> QED  BY <1>5 DEF MapSpans, new, f

-----------------------------------------------------------------------------
(* The batch has, of each trace that was received, all spans or none.      *)
StepNames == {"thrift", "zipkin", "add", "rename", "sample"}

WholeInv ==
  /\ wire \in Wires
  /\ path \in Seq(StepNames)
  /\ place = "process" /\ ~Took("zipkin") => IsBatch(data) /\ WholeIn(data, sent)

LEMMA ReceivedWhole ==
  ASSUME NEW tds, \A td \in tds : IsBatch(td), WholeInv, Receive(tds)
  PROVE  WholeInv'
<1>1. path' \in Seq(StepNames) /\ wire' \in Wires
  BY DEF WholeInv, Receive
<1>2. CASE place' = "process"
  <2>1. IsBatch(data') /\ sent' = data'
    BY <1>2 DEF Receive
  <2>2. \A td : WholeIn(td, td)
    BY DEF WholeIn, SameIds
  <2>3. IsBatch(data)' /\ WholeIn(data, sent)'
    BY <2>1, <2>2
  <2> QED  BY <1>1, <2>3 DEF WholeInv
<1> QED  BY <1>1, <1>2 DEF WholeInv

(* The way only gets longer.                                               *)
LEMMA SteppedWhole ==
  ASSUME NEW name \in StepNames, Step(name), WholeInv,
         NEW td, td = data, NEW orig, orig = sent,
         name = "zipkin" \/ (place' = "process" /\ IsBatch(td) /\ WholeIn(td, orig)
                               => IsBatch(data') /\ WholeIn(data', orig))
  PROVE  WholeInv'
<1>1. path \in Seq(StepNames) /\ path' = Append(path, name) /\ place = "process"
  BY DEF WholeInv, Step
<1>2. path' \in Seq(StepNames) /\ wire' \in Wires
  BY <1>1 DEF WholeInv, Step
<1>3. Took("zipkin") \/ name = "zipkin" => Took("zipkin")'
  <2>1. /\ \A i \in DOMAIN path : i \in DOMAIN path' /\ path'[i] = path[i]
        /\ Len(path) + 1 \in DOMAIN path' /\ path'[Len(path) + 1] = name
    BY <1>1
  <2> QED  BY <2>1 DEF Took
<1>4. sent' = orig
  BY DEF Step
<1> QED  BY <1>1, <1>2, <1>3, <1>4 DEF WholeInv

(* Each step keeps it: reception and the five steps on the way.            *)
LEMMA WholeStep ==
  ASSUME WholeInv, [JourneyNext]_journeyVars
  PROVE  WholeInv'
<1> PICK td : td = data
  OBVIOUS
<1> PICK orig : orig = sent
  OBVIOUS
<1> PICK w : w = wire
  OBVIOUS
<1>0. w \in Wires
  BY DEF WholeInv
<1>1. CASE ReceiveOC
  <2>1. \A b \in {wire.batch} : IsBatch(b)
    BY <1>0, <1>1, WiresAssumption DEF ReceiveOC
  <2> QED  BY <1>1, <2>1, ReceivedWhole DEF ReceiveOC
<1>2. CASE ReceiveJaeger
  <2>1. \A b \in {ThriftBatchToOCProto(wire.batch)} : IsBatch(b)
    <3>1. Listed(w.batch.spans)
      BY <1>0, <1>2, WiresAssumption DEF ReceiveJaeger
    <3> QED  BY <3>1, JaegerBatch
  <2> QED  BY <1>2, <2>1, ReceivedWhole DEF ReceiveJaeger
<1>3. CASE ReceiveV1JSON
  <2>1. \A b \in V1JSONBatchToOCProto(wire.json) : IsBatch(b)
    <3>1. Listed(w.json)
      BY <1>0, <1>3, WiresAssumption DEF ReceiveV1JSON
    <3> QED  BY <3>1, V1JSONBatches
  <2> QED  BY <1>3, <2>1, ReceivedWhole DEF ReceiveV1JSON
<1>4. CASE ReceiveV1Thrift
  <2>1. \A b \in V1ThriftBatchToOCProto(wire.thrift) : IsBatch(b)
    <3>1. Listed(w.thrift)
      BY <1>0, <1>4, WiresAssumption DEF ReceiveV1Thrift
    <3> QED  BY <3>1, V1ThriftBatches
  <2> QED  BY <1>4, <2>1, ReceivedWhole DEF ReceiveV1Thrift
<1>5. CASE ReceiveV2
  <2>1. \A b \in V2!v2ToTraceSpans(wire.batch) : IsBatch(b)
    <3>1. Listed(w.batch)
      BY <1>0, <1>5, WiresAssumption DEF ReceiveV2
    <3> QED  BY <3>1, V2Batches
  <2> QED  BY <1>5, <2>1, ReceivedWhole DEF ReceiveV2
<1>6. CASE ThriftHop
  <2>1. IsBatch(td) /\ WholeIn(td, orig) /\ place' = "process" => IsBatch(data') /\ WholeIn(data', orig)
    <3>1. place' = "process" => OCProtoToJaegerThrift(td) # None
                               /\ data' = ThriftBatchToOCProto(OCProtoToJaegerThrift(td))
      BY <1>6 DEF ThriftHop, Arrive, Fail
    <3> QED  BY <3>1, ThriftWhole
  <2>2. Step("thrift")
    BY <1>6 DEF ThriftHop, Step
  <2> QED  BY <2>1, <2>2, SteppedWhole DEF StepNames
<1>7. CASE ZipkinHop
  <2>1. Step("zipkin")
    BY <1>7 DEF ZipkinHop
  <2> QED  BY <2>1, SteppedWhole DEF StepNames
<1>8. CASE Add
  <2>1. IsBatch(td) /\ WholeIn(td, orig) => IsBatch(data') /\ WholeIn(data', orig)
    <3>1. data' = MapSpans(td, LAMBDA s : AddAttributes(s, Added, Overwrite))
      BY <1>8 DEF Add, Arrive
    <3> QED  BY <3>1, AddWhole
  <2>2. Step("add")
    BY <1>8 DEF Add, Step
  <2> QED  BY <2>1, <2>2, SteppedWhole DEF StepNames
<1>9. CASE Rename
  <2>1. IsBatch(td) /\ WholeIn(td, orig) => IsBatch(data') /\ WholeIn(data', orig)
    <3>1. data' = MapSpans(td, LAMBDA s : ReplaceKeys(s, Replacements))
      BY <1>9 DEF Rename, Arrive
    <3> QED  BY <3>1, RenameWhole
  <2>2. Step("rename")
    BY <1>9 DEF Rename, Step
  <2> QED  BY <2>1, <2>2, SteppedWhole DEF StepNames
<1>10. CASE Sample
  <2>1. IsBatch(td) /\ WholeIn(td, orig) => IsBatch(data') /\ WholeIn(data', orig)
    <3>1. PICK rate \in Rates : data' = SampleByTraceId(td, rate)
      BY <1>10 DEF Sample, Arrive
    <3> QED  BY <3>1, SampledWhole
  <2>2. Step("sample")
    BY <1>10 DEF Sample, Step
  <2> QED  BY <2>1, <2>2, SteppedWhole DEF StepNames
<1>11. CASE UNCHANGED journeyVars
  BY <1>11 DEF WholeInv, journeyVars, Took
<1> QED  BY <1>1, <1>2, <1>3, <1>4, <1>5, <1>6, <1>7, <1>8, <1>9, <1>10, <1>11 DEF JourneyNext

(* WholeTraces: however many times a batch is received, sampled, changed   *)
(* and sent on in Jaeger's format, of a trace all its spans are there or   *)
(* none.                                                                   *)
THEOREM TracesStayWhole == JourneySpec => []WholeTraces
<1>1. JourneyInit => WholeInv
  BY DEF JourneyInit, WholeInv
<1>2. WholeInv /\ [JourneyNext]_journeyVars => WholeInv'
  BY WholeStep
<1>3. WholeInv => WholeTraces
  BY DEF WholeInv, WholeTraces, WholeIn, Left, SameIds
<1> QED  BY <1>1, <1>2, <1>3, PTL DEF JourneySpec

=============================================================================
