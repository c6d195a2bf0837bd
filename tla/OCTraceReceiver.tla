-------------------------- MODULE OCTraceReceiver --------------------------
(***************************************************************************)
(* receiver/opencensusreceiver/octrace/opencensus.go: each stream of       *)
(* messages is read by a goroutine of gRPC that runs Export; the messages  *)
(* go through one channel to a pool of workers, which pass them on.  Only  *)
(* the first message of a stream must have a node: a later one without a   *)
(* node or resource belongs to the last that the stream has sent.          *)
(*                                                                         *)
(* The n-th message of stream s is named <<s, n>>.  gRPC is not modelled:  *)
(* a stream delivers its messages in order, and may break at any time.     *)
(***************************************************************************)
EXTENDS Naturals, Sequences, Functions

CONSTANTS
  Streams,
  Messages,      \* [Streams -> Seq([node, resource : a name or None, spans : BOOLEAN])]
  Workers,
  ChannelSize,   \* messageChannelSize
  Names,         \* of nodes and resources
  None           \* not set

Message == [node : Names \cup {None}, resource : Names \cup {None}, spans : BOOLEAN]

ASSUME ReceiverAssumption ==
  /\ Messages \in [Streams -> Seq(Message)]
  /\ ChannelSize \in Nat \ {0}
  /\ None \notin Names

(* The messages there are, by name, and the traceData made of them.        *)
Sent == UNION {{s} \X DOMAIN Messages[s] : s \in Streams}

TraceData == [of : Sent, node : Names, resource : Names \cup {None}]

VARIABLES
  pc,           \* [Streams -> "recv", "send" or "ended"]
  received,     \* [Streams -> messages received]
  lastNode,     \* [Streams -> lastNonNilNode, or None]
  resource,     \* [Streams -> resource, or None]
  messageChan,  \* the traceData of messages on their way to a worker
  workerPc,     \* [Workers -> "select", "export" or "returned"]
  inHand,       \* [Workers -> the traceData exported, none or one]
  cancelled,    \* workers whose cancel channel is closed
  stopPc,       \* StopTraceReception: "notCalled", "closing" or "returned"
  consumed,     \* traceData given to the next consumer
  handled       \* [Sent -> times a worker was done with the message]

streamVars == <<pc, received, lastNode, resource>>
workerVars == <<workerPc, inHand, consumed, handled>>
stopVars   == <<cancelled, stopPc>>
vars == <<streamVars, messageChan, workerVars, stopVars>>

TypeOK ==
  /\ pc \in [Streams -> {"recv", "send", "ended"}]
  /\ received \in [Streams -> Nat]
  /\ lastNode \in [Streams -> Names \cup {None}]
  /\ resource \in [Streams -> Names \cup {None}]
  /\ messageChan \in Seq(TraceData) /\ Len(messageChan) <= ChannelSize
  /\ workerPc \in [Workers -> {"select", "export", "returned"}]
  /\ inHand \in [Workers -> SUBSET TraceData]
  /\ cancelled \subseteq Workers
  /\ stopPc \in {"notCalled", "closing", "returned"}
  /\ consumed \subseteq TraceData
  /\ handled \in [Sent -> Nat]

Init ==
  /\ pc = [s \in Streams |-> "recv"]
  /\ received = [s \in Streams |-> 0]
  /\ lastNode = [s \in Streams |-> None]
  /\ resource = [s \in Streams |-> None]
  /\ messageChan = <<>>
  /\ workerPc = [w \in Workers |-> "select"]
  /\ inHand = [w \in Workers |-> {}]
  /\ cancelled = {} /\ stopPc = "notCalled"
  /\ consumed = {}
  /\ handled = [m \in Sent |-> 0]

-----------------------------------------------------------------------------
(* Export: Recv returns a message.  The first one must have a node, else   *)
(* the stream ends with errTraceExportProtocolViolation.                   *)
Receive(s) ==
  LET n == received[s] + 1
      recv == Messages[s][n]
  IN /\ pc[s] = "recv"
     /\ n \in DOMAIN Messages[s]
     /\ IF n = 1 /\ recv.node = None
          THEN /\ pc' = [pc EXCEPT ![s] = "ended"]
               /\ UNCHANGED <<received, lastNode, resource>>
          ELSE /\ pc' = [pc EXCEPT ![s] = "send"]
               /\ received' = [received EXCEPT ![s] = n]
               /\ lastNode' = [lastNode EXCEPT ![s] = IF recv.node # None THEN recv.node ELSE @]
               /\ resource' = [resource EXCEPT ![s] = IF recv.resource # None THEN recv.resource ELSE @]
     /\ UNCHANGED <<messageChan, workerVars, stopVars>>

(* Recv fails: the client has closed the stream (io.EOF) or is gone.       *)
EndOfStream(s) ==
  /\ pc[s] = "recv"
  /\ pc' = [pc EXCEPT ![s] = "ended"]
  /\ UNCHANGED <<received, lastNode, resource, messageChan, workerVars, stopVars>>

(* The traceData of the last message that stream s has received.           *)
CurrentData(s) == [of |-> <<s, received[s]>>, node |-> lastNode[s], resource |-> resource[s]]

(* Bug: a select with an empty default drops the message.                  *)
BugDropWhenFull(s) ==
  /\ pc[s] = "send"
  /\ messageChan' = IF Len(messageChan) < ChannelSize
                      THEN Append(messageChan, CurrentData(s)) ELSE messageChan
  /\ pc' = [pc EXCEPT ![s] = "recv"]
  /\ UNCHANGED <<received, lastNode, resource, workerVars, stopVars>>

(* The send to messageChan, which waits for room whatever the client does. *)
SendToWorkers(s) ==
  /\ pc[s] = "send"
  /\ Len(messageChan) < ChannelSize
  /\ messageChan' = Append(messageChan, CurrentData(s))
  /\ pc' = [pc EXCEPT ![s] = "recv"]
  /\ UNCHANGED <<received, lastNode, resource, workerVars, stopVars>>

-----------------------------------------------------------------------------
(* listenOn: a select between a message and the worker's cancel channel.   *)
WorkerTakes(w) ==
  /\ workerPc[w] = "select"
  /\ messageChan # <<>>
  /\ inHand' = [inHand EXCEPT ![w] = {Head(messageChan)}]
  /\ messageChan' = Tail(messageChan)
  /\ workerPc' = [workerPc EXCEPT ![w] = "export"]
  /\ UNCHANGED <<streamVars, consumed, handled, stopVars>>

HasSpans(m) == Messages[m[1]][m[2]].spans

Done(w) == [m \in Sent |-> IF \E td \in inHand[w] : td.of = m THEN handled[m] + 1 ELSE handled[m]]

(* Bug: the node is looked up when the message is passed on.               *)
BugLateNode(w) ==
  /\ workerPc[w] = "export"
  /\ consumed' = consumed \cup {[td EXCEPT !.node = lastNode[td.of[1]]] :
                                  td \in {e \in inHand[w] : HasSpans(e.of)}}
  /\ handled' = Done(w)
  /\ inHand' = [inHand EXCEPT ![w] = {}]
  /\ workerPc' = [workerPc EXCEPT ![w] = "select"]
  /\ UNCHANGED <<streamVars, messageChan, stopVars>>

(* Bug: the return for a message without spans ends the worker.            *)
BugEmptyEndsWorker(w) ==
  /\ workerPc[w] = "export"
  /\ consumed' = consumed \cup {td \in inHand[w] : HasSpans(td.of)}
  /\ handled' = Done(w)
  /\ inHand' = [inHand EXCEPT ![w] = {}]
  /\ workerPc' = [workerPc EXCEPT ![w] =
                     IF \E td \in inHand[w] : HasSpans(td.of) THEN "select" ELSE "returned"]
  /\ UNCHANGED <<streamVars, messageChan, stopVars>>

(* export: a message without spans is skipped; an error of the next        *)
(* consumer is ignored.                                                    *)
WorkerExports(w) ==
  /\ workerPc[w] = "export"
  /\ consumed' = consumed \cup {td \in inHand[w] : HasSpans(td.of)}
  /\ handled' = Done(w)
  /\ inHand' = [inHand EXCEPT ![w] = {}]
  /\ workerPc' = [workerPc EXCEPT ![w] = "select"]
  /\ UNCHANGED <<streamVars, messageChan, stopVars>>

WorkerReturns(w) ==
  /\ workerPc[w] = "select"
  /\ w \in cancelled
  /\ workerPc' = [workerPc EXCEPT ![w] = "returned"]
  /\ UNCHANGED <<streamVars, messageChan, inHand, consumed, handled, stopVars>>

-----------------------------------------------------------------------------
(* StopTraceReception calls Stop, once (a second call would close the      *)
(* cancel channels again, and panic).                                      *)
StopTraceReception ==
  /\ stopPc = "notCalled"
  /\ stopPc' = "closing"
  /\ UNCHANGED <<streamVars, messageChan, workerVars, cancelled>>

(* Bug: the loop over the workers returns after the first.                 *)
BugStopOne ==
  /\ stopPc = "closing"
  /\ \E w \in Workers : cancelled' = {w}
  /\ stopPc' = "returned"
  /\ UNCHANGED <<streamVars, messageChan, workerVars>>

(* The loop of Stop: stopListening closes the worker's cancel channel.     *)
StopListening ==
  /\ stopPc = "closing"
  /\ \E w \in Workers \ cancelled : cancelled' = cancelled \cup {w}
  /\ stopPc' = IF cancelled' = Workers THEN "returned" ELSE "closing"
  /\ UNCHANGED <<streamVars, messageChan, workerVars>>

-----------------------------------------------------------------------------
Export(s) == Receive(s) \/ EndOfStream(s) \/ SendToWorkers(s)

listenOn(w) == WorkerTakes(w) \/ WorkerExports(w) \/ WorkerReturns(w)

Next ==
  \/ \E s \in Streams : Export(s)
  \/ \E w \in Workers : listenOn(w)
  \/ StopTraceReception
  \/ StopListening

(* Goroutines run, the next consumer returns, streams end.                 *)
Fairness ==
  /\ \A s \in Streams : WF_vars(Export(s))
  /\ \A w \in Workers : WF_vars(listenOn(w))
  /\ WF_vars(StopListening)

Spec == Init /\ [][Next]_vars
FairSpec == Spec /\ Fairness

-----------------------------------------------------------------------------
(* v is the value that field f had the last time the first n messages of s *)
(* set it, None if they did not.                                           *)
LastSet(s, n, f, v) ==
  \/ v = None /\ \A k \in 1..n : Messages[s][k][f] = None
  \/ \E k \in 1..n : /\ Messages[s][k][f] = v /\ v # None
                     /\ \A m \in 1..n : m > k => Messages[s][m][f] = None

InChan == Range(messageChan)
InHands == UNION {inHand[w] : w \in Workers}

(* What is passed on, and what is on its way, has the node and resource    *)
(* that its own stream had sent last when it sent the message, not those   *)
(* of another stream or of a later message, whichever worker takes it when *)
(* (lastNonNilNode and resource in Export).                                *)
KeepsItsNode ==
  \A td \in InChan \cup InHands \cup consumed :
    /\ td.node # None
    /\ LastSet(td.of[1], td.of[2], "node", td.node)
    /\ LastSet(td.of[1], td.of[2], "resource", td.resource)

(* A message that Export has put in the channel is there, with one worker  *)
(* or was handled, once: streams and workers lose and repeat nothing.      *)
Accepted(m) == m[2] < received[m[1]] \/ (m[2] = received[m[1]] /\ pc[m[1]] # "send")
Waiting(m)  == \E td \in InChan : td.of = m
Held(m)     == \E w \in Workers : \E td \in inHand[w] : td.of = m

WaitingOnce == \A i, j \in DOMAIN messageChan : messageChan[i].of = messageChan[j].of => i = j
HeldOnce ==
  \A w, x \in Workers : \A td \in inHand[w], te \in inHand[x] : td.of = te.of => w = x

HandledOnce(m) ==
  /\ Accepted(m) = (Waiting(m) \/ Held(m) \/ handled[m] > 0)
  /\ ~(Waiting(m) /\ Held(m))
  /\ Waiting(m) \/ Held(m) => handled[m] = 0
  /\ handled[m] <= 1

EachHandledOnce == WaitingOnce /\ HeldOnce /\ \A m \in Sent : HandledOnce(m)

(* The spans of an accepted message are passed on, and the streams come to *)
(* an end, unless the reception is stopped: no set of streams waits for    *)
(* ever on the workers.                                                    *)
PassedOn(m) == \E td \in consumed : td.of = m

SpansArePassedOn ==
  /\ \A m \in Sent : Accepted(m) /\ HasSpans(m) ~> PassedOn(m) \/ stopPc # "notCalled"
  /\ <>(stopPc # "notCalled" \/ \A s \in Streams : pc[s] = "ended")

(* Stop ends every worker, whatever is in the channel and in their hands.  *)
WorkersEnd ==
  stopPc # "notCalled" ~> \A w \in Workers : workerPc[w] = "returned"

=============================================================================
