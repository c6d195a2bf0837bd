------------------------- MODULE MCMetricsAdjuster -------------------------
(* MetricsAdjuster on a small instance: two timeseries of one job, whose   *)
(* distribution has a count, which tells resets, and a bucket, which does  *)
(* not.  The points let the count rise, stay and fall, and fall to a value *)
(* over the difference last reported.                                      *)
EXTENDS MetricsAdjuster, TLC

CONSTANT j1

MCFields  == {"count", "bucket"}
MCChecked == {"count"}
MCPoints  == {("count" :> 1) @@ ("bucket" :> 1), ("count" :> 2) @@ ("bucket" :> 1),
              ("count" :> 3) @@ ("bucket" :> 0)}

MCLabels  == << <<"x", "y">>, <<"x", "z">> >>

=============================================================================
