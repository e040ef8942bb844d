--------------------------- MODULE RecoveryContract ---------------------------
(***************************************************************************)
(* What the replay engine promises about the recovery queue ("idempotent   *)
(* retry pipeline with ... deduplication keys"): a (transaction, flow)     *)
(* pair enters the queue at most once and is replayed at most once, by a   *)
(* single request.  Events, replies and failures are not part of the       *)
(* promise.                                                                *)
(***************************************************************************)
CONSTANTS Keys,      \* deduplication keys
          Clients    \* the requests that may replay

VARIABLES status,     \* where each key stands
          replayedBy  \* the requests that replayed it

vars == <<status, replayedBy>>

Init == /\ status = [k \in Keys |-> "absent"]
        /\ replayedBy = [k \in Keys |-> {}]

\* A failed transaction is queued for recovery.
Enqueue(k) == /\ status[k] = "absent"
              /\ status' = [status EXCEPT ![k] = "queued"]
              /\ UNCHANGED replayedBy

\* A queued transaction is replayed, and can never be queued again.
Replay(k, c) == /\ status[k] = "queued"
                /\ status' = [status EXCEPT ![k] = "replayed"]
                /\ replayedBy' = [replayedBy EXCEPT ![k] = @ \cup {c}]

Next == \/ \E k \in Keys : Enqueue(k)
        \/ \E k \in Keys, c \in Clients : Replay(k, c)

Spec == Init /\ [][Next]_vars
===============================================================================
