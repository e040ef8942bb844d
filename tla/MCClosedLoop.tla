----------------------------- MODULE MCClosedLoop -----------------------------
(* Instances of ClosedLoop for TLC: all records are about one transaction. *)
EXTENDS ClosedLoop

CONSTANTS r1, r2, r3, t1, w1, w2

MCSubject == [e \in Records |-> <<t1, "online_order">>]
===============================================================================
