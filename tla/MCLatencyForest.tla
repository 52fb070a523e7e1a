--------------------------- MODULE MCLatencyForest ---------------------------
(***************************************************************************)
(* LatencyForest with four units to a millisecond, rows at whole and half  *)
(* milliseconds and cuts at every unit, so that a cut falls on a row,      *)
(* between two, and above a row of the same millisecond.  No row, one,     *)
(* equal ones, and more than a sub-sample.                                 *)
(***************************************************************************)
EXTENDS LatencyForest

MCDatasets == {<<>>, <<6>>, <<6, 6>>, <<6, 8, 10>>}
MCLive == {4, 6, 8, 10}
MCTreeCounts == {0, 1, 2}
MCSubSamples == {0, 3, 7}
==============================================================================
