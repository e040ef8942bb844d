---------------------------- MODULE MCRecoveryQueue ----------------------------
(* Instances of RecoveryQueue for TLC. *)
EXTENDS RecoveryQueue, TLC

CONSTANTS r1, r2, r3, r4, t1, t2, w1, w2

MCSymmetry == Permutations(Requests) \cup Permutations(Transactions)
                \cup Permutations(Workers)
===============================================================================
