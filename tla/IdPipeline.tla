----------------------------- MODULE IdPipeline -----------------------------
(***************************************************************************)
(* What idbatcher.Batcher promises its callers (the interface of           *)
(* internal/collector/processor/idbatcher/id_batcher.go): a pipe that      *)
(* holds NumBatches closed batches, and one open batch outside of it.      *)
(*                                                                         *)
(* An added id is pending until it is absorbed by the open batch: the      *)
(* interface does not say how long that takes.  Closing the open batch     *)
(* pushes it at the end of the pipe and takes the batch at the front, in   *)
(* one step.  So an id comes out exactly once, in the NumBatches-th close  *)
(* after the one that closed its batch.  Once stopped, the pipe is read    *)
(* until it is empty; the last thing read is the batch still open.         *)
(***************************************************************************)
EXTENDS Naturals, Sequences, Functions

CONSTANTS
  Ids,         \* each is added at most once: an addition, not a trace
  NumBatches   \* length of the pipe

VARIABLES
  pending,   \* ids added, not yet in the open batch
  open,      \* the batch being built
  pipe,      \* the closed batches, oldest first
  taken,     \* ids handed to the reader
  phase      \* "running", "stopping" (Stop was called) or "drained"

vars == <<pending, open, pipe, taken, phase>>

Init ==
  /\ pending = {}
  /\ open = {}
  /\ pipe = [i \in 1..NumBatches |-> {}]
  /\ taken = {}
  /\ phase = "running"

Known == pending \cup open \cup (UNION Range(pipe)) \cup taken

Add(id) ==
  /\ phase = "running"
  /\ id \notin Known
  /\ pending' = pending \cup {id}
  /\ UNCHANGED <<open, pipe, taken, phase>>

Absorb(id) ==
  /\ id \in pending
  /\ pending' = pending \ {id}
  /\ open' = open \cup {id}
  /\ UNCHANGED <<pipe, taken, phase>>

CloseAndTake ==
  /\ phase # "drained"
  /\ pipe # <<>>
  /\ taken' = taken \cup Head(pipe)
  /\ pipe' = Append(Tail(pipe), open)
  /\ open' = {}
  /\ UNCHANGED <<pending, phase>>

Stop ==
  /\ phase = "running"
  /\ phase' = "stopping"
  /\ UNCHANGED <<pending, open, pipe, taken>>

Drain ==
  /\ phase = "stopping"
  /\ pending = {}
  /\ pipe # <<>>
  /\ taken' = taken \cup Head(pipe)
  /\ pipe' = Tail(pipe)
  /\ UNCHANGED <<pending, open, phase>>

TakeLast ==
  /\ phase = "stopping"
  /\ pending = {}
  /\ pipe = <<>>
  /\ taken' = taken \cup open
  /\ open' = {}
  /\ phase' = "drained"
  /\ UNCHANGED <<pending, pipe>>

Next ==
  \/ \E id \in Ids : Add(id) \/ Absorb(id)
  \/ CloseAndTake
  \/ Stop
  \/ Drain
  \/ TakeLast

Spec == Init /\ [][Next]_vars

=============================================================================
