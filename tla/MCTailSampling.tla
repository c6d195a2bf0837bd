--------------------------- MODULE MCTailSampling ---------------------------
(* TailSampling on small instances.  The map has room for one trace, so    *)
(* that a trace is evicted, and stored again, while its id is in the pipe. *)
EXTENDS TailSampling, TLC

CONSTANTS b1, b2, t1, t2

(* Two calls: the second brings the trace of the first and another.        *)
TwoCalls  == {b1, b2}
TwoTraces == {t1, t2}
TwoTracesOf == (b1 :> {t1}) @@ (b2 :> {t1, t2})

=============================================================================
