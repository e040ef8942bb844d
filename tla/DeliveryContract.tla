--------------------------- MODULE DeliveryContract ---------------------------
(***************************************************************************)
(* What becomes of the records of a topic, for whoever relies on their     *)
(* being handled: they are settled in the order of the topic, each for     *)
(* good.  A record is lost only with a failure, at most a batch of them at *)
(* a time; but as long as the group has committed no offset, a start after *)
(* a failure may skip all that wait.  Redelivery is not part of the        *)
(* promise.                                                                *)
(***************************************************************************)
EXTENDS Naturals

CONSTANTS Records, BatchSize

VARIABLES fate,       \* of each record; "none" while the group does not have it
          anchored,   \* an offset is committed
          failed      \* failures so far

vars == <<fate, anchored, failed>>

Fates == {"none", "pending", "handled", "lost"}

Pending == {e \in Records : fate[e] = "pending"}

Init == /\ fate = [e \in Records |-> "none"]
        /\ anchored = FALSE /\ failed = 0

Settle(S, as) == fate' = [e \in Records |-> IF e \in S THEN as ELSE fate[e]]

\* S are the oldest of those that wait.
Oldest(S) == \A e \in S, d \in Pending : d < e => d \in S

\* S are of one batch.
OneBatch(S) == \A d, e \in S : e < d + BatchSize

Arrive(e) ==
  /\ fate[e] = "none" /\ \A d \in Records : e < d => fate[d] = "none"
  /\ Settle({e}, "pending")
  /\ UNCHANGED <<anchored, failed>>

Handle(e) ==
  /\ e \in Pending /\ Oldest({e})
  /\ Settle({e}, "handled")
  /\ UNCHANGED <<anchored, failed>>

Anchor == anchored' = TRUE /\ UNCHANGED <<fate, failed>>

\* A failure may come with one of the commit that follows it.
Fail ==
  /\ failed' \in failed + 1 .. failed + 2
  /\ \E S \in SUBSET Pending : /\ Oldest(S) /\ OneBatch(S)
                               /\ Settle(S, "lost")
  /\ anchored' \in BOOLEAN /\ (anchored => anchored')

Skip ==
  /\ ~ anchored /\ failed > 0
  /\ Settle(Pending, "lost")
  /\ UNCHANGED <<anchored, failed>>

Next == (\E e \in Records : Arrive(e) \/ Handle(e)) \/ Anchor \/ Fail \/ Skip

Spec == Init /\ [][Next]_vars
===============================================================================
