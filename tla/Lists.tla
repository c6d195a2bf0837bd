-------------------------------- MODULE Lists --------------------------------
(***************************************************************************)
(* The loops over a slice that keep some of its elements.  SelectSeq says  *)
(* the same; the provers know nothing of it.                               *)
(***************************************************************************)
EXTENDS Naturals, Sequences

(* What of a sequence is in a set, in its order.                           *)
Only(seq, set) ==
  LET chosen[i \in 0..Len(seq)] ==
        IF i = 0 THEN <<>>
        ELSE IF seq[i] \in set THEN Append(chosen[i - 1], seq[i]) ELSE chosen[i - 1]
  IN chosen[Len(seq)]

=============================================================================
