---------------------------- MODULE MCRemediation ----------------------------
(* Instances of Remediation for TLC. *)
EXTENDS Remediation, TLC

CONSTANTS j1, j2

MCSymmetry == Permutations(Jobs)
===============================================================================
