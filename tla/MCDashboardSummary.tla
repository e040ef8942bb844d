-------------------------- MODULE MCDashboardSummary --------------------------
(* Instances of DashboardSummary, and of the TpsWindow in it, for TLC. *)
EXTENDS DashboardSummary, TLC

CONSTANTS r1, r2

MCSymmetry == Permutations(Recorders)
===============================================================================
