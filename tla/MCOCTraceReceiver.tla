------------------------- MODULE MCOCTraceReceiver -------------------------
(* OCTraceReceiver with three streams: the first changes its node, in a    *)
(* message without spans, and sends one that has none; the second sends no *)
(* spans at first and sets its resource late.  The third breaks the        *)
(* protocol.                                                               *)
EXTENDS OCTraceReceiver

CONSTANTS s1, s2, s3, n1, n2, r1

Msg(n, r, spans) == [node |-> n, resource |-> r, spans |-> spans]

MCMessages == [s \in {s1, s2, s3} |->
  CASE s = s1 -> << Msg(n1, r1, TRUE), Msg(n2, None, FALSE), Msg(None, None, TRUE) >>
    [] s = s2 -> << Msg(n1, None, FALSE), Msg(None, r1, TRUE) >>
    [] s = s3 -> << Msg(None, r1, TRUE) >>]

=============================================================================
