----------------------------- MODULE MCRateLimit -----------------------------
(* Instances of RateLimit for TLC. *)
EXTENDS RateLimit, TLC

CONSTANTS p1, p2

MCSymmetry == Permutations(Processes)
===============================================================================
