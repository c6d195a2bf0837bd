--------------------------- MODULE MCNodeBatcher ----------------------------
(* NodeBatcher on a small instance: two calls for one node, over the batch *)
(* size together but not alone, a call for another node, and two tickers.  *)
EXTENDS NodeBatcher, TLC

CONSTANTS c1, c2, c3, k1, k2

MCCalls   == {c1, c2, c3}
MCKeyOf   == (c1 :> k1) @@ (c2 :> k1) @@ (c3 :> k2)
MCSpansOf == (c1 :> 1) @@ (c2 :> 2) @@ (c3 :> 1)

=============================================================================
