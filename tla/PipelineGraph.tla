--------------------------- MODULE PipelineGraph ---------------------------
(* The consumers a collector is wired from: each is called with a batch    *)
(* and calls the next ones before it returns, except the queues and the    *)
(* tail sampler, which take the batch over and return at once.             *)
EXTENDS Lists, SequencesExt

(* No consumer: a nil interface, calling it panics.                        *)
NoConsumer == [kind |-> "nil"]

(* An exporter or a sender, the end of a route.                            *)
Sink(name) == [kind |-> "sink", name |-> name]

(* multiconsumer: calls every consumer, in order, whatever the others say. *)
NewTraceProcessor(tcs) == [kind |-> "fanout", next |-> tcs]

(* A processor that changes the batch and passes it on.                    *)
Stage(name, next) == [kind |-> "stage", name |-> name, next |-> next]

(* The head sampler passes the batch on or drops it.                       *)
Sampler(next) == [kind |-> "sampler", next |-> next]

(* A queued processor; its workers call the sender.                        *)
Queue(name, retry, sender) ==
    [kind |-> "queue", name |-> name, retry |-> retry, next |-> sender]

(* The tail sampler calls the destinations of the policies that sampled.   *)
TailSampler(destinations) == [kind |-> "tail", next |-> destinations]

(* The call of a consumer with a batch that went through these stages.     *)
Call(node, stages) == [node |-> node, stages |-> stages]

CallEach(nodes, stages) == [i \in DOMAIN nodes |-> Call(nodes[i], stages)]

=============================================================================
