--------------------------- MODULE MCLaneAnalysis ---------------------------
(***************************************************************************)
(* Lane analysis on every repository of a few commits.  The native backend *)
(* keeps ranges of up to RetainLimit commits and the shell backend passes  *)
(* ArgLimit tips to one merge-base; both limits lie within the bounds.     *)
(***************************************************************************)
EXTENDS LaneAnalysis
=============================================================================
