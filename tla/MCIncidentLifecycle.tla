-------------------------- MODULE MCIncidentLifecycle --------------------------
(* Instances of IncidentLifecycle for TLC. *)
EXTENDS IncidentLifecycle, TLC

CONSTANTS r1, r2, r3, r4

MCSymmetry == Permutations(Requests)
===============================================================================
