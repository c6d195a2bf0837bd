---------------------------- MODULE BatchAccount ----------------------------
(* Where the batch of Pipelines is in the end: every exporter that the     *)
(* configuration asks for is accounted for.                                *)
EXTENDS Pipelines

(* The ends of the routes through a consumer.                              *)
RECURSIVE Sinks(_)
Sinks(node) ==
    CASE node.kind \in {"fanout", "tail"} ->
           UNION {Sinks(node.next[i]) : i \in DOMAIN node.next}
      [] node.kind \in {"stage", "sampler", "queue"} -> Sinks(node.next)
      [] node.kind = "sink" -> {node.name}
      [] OTHER -> {}

(* The batch reached s, was knowingly dropped before it, or the receiver   *)
(* was told of a failure.                                                  *)
AccountedFor(s) ==
    \/ s \in DOMAIN got /\ Last(got[s]).ok
    \/ s \in UNION {Sinks(n) : n \in lost}
    \/ s \in DOMAIN got /\ answer = "error"

(* A batch given to a wired collector is taken to every exporter the       *)
(* configuration asks for, and no other, and ends everywhere: no consumer  *)
(* is missing, none is skipped for the failure of another.                 *)
EveryDestinationSettles ==
    <>(\/ route = NoConsumer
       \/ /\ tasks = {}
          /\ answer \in {"ok", "error"}
          /\ DOMAIN got \subseteq asked.sinks
          /\ \A s \in asked.sinks : AccountedFor(s))

=============================================================================
