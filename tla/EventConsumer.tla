----------------------------- MODULE EventConsumer -----------------------------
(***************************************************************************)
(* The Kafka consumer loop that orchestrator                               *)
(* (EventOrchestrator.run) and sre-agent (consume_diagnostic_events)       *)
(* share: one background task of the process, one partition, offsets       *)
(* committed automatically, auto_offset_reset = "latest".                  *)
(*                                                                         *)
(* The client library is external and modelled from this use: a getmany()  *)
(* of at most BatchSize records moves the position past all of them, and   *)
(* what is committed, in the background or by consumer.stop(), is the      *)
(* position, whether or not the handler has seen the records.              *)
(*                                                                         *)
(* Bounds: MaxEvents records, MaxFaults crashes and failed starts,         *)
(* MaxStops orderly shutdowns.                                             *)
(***************************************************************************)
EXTENDS Integers, FiniteSets

CONSTANTS MaxEvents, BatchSize, MaxFaults, MaxStops,
          Faults    \* what may go wrong: a subset of AllFaults

AllFaults == {"start", "raise", "crash", "commit"}

ASSUME BoundsAssumption == /\ {MaxEvents, MaxFaults, MaxStops} \subseteq Nat
                           /\ BatchSize \in Nat \ {0}
ASSUME FaultsAssumption == Faults \subseteq AllFaults

VARIABLES logEnd,     \* records 0 .. logEnd-1 are on the topic
          committed,  \* the offset committed for the group, or NoOffset
          position,   \* next record getmany() fetches
          cursor,     \* next record of the batch to hand to the handler
          loop,       \* where the task is
          stopping,   \* stop_event
          handled,    \* records whose handler returned
          attempts,   \* how often the handler was entered, per record
          base,       \* first record the group ever had to read, or NoOffset
          skipped,    \* records jumped over by a start from "latest"
          failures,   \* how often each fault struck
          stops       \* orderly shutdowns requested

vars == <<logEnd, committed, position, cursor, loop, stopping, handled,
          attempts, base, skipped, failures, stops>>

NoOffset == -1

Offsets == 0 .. (MaxEvents - 1)

Running == {"polling", "batch", "handling"}   \* the consumer is a group member

TypeOK ==
  /\ logEnd \in 0 .. MaxEvents
  /\ committed \in Int /\ committed >= NoOffset
  /\ position \in Nat
  /\ cursor \in Nat
  /\ loop \in {"down", "starting", "dead"} \cup Running
  /\ stopping \in BOOLEAN
  /\ handled \subseteq Offsets
  /\ attempts \in [Offsets -> Nat]
  /\ base \in Int /\ base >= NoOffset
  /\ skipped \subseteq Offsets
  /\ failures \in [AllFaults -> Nat]
  /\ stops \in Nat

\* The faults in F strike together.
Strike(F) ==
  /\ F \subseteq Faults
  /\ \A f \in F : failures[f] < MaxFaults
  /\ failures' = [f \in AllFaults |-> failures[f] + IF f \in F THEN 1 ELSE 0]

Min2(a, b) == IF a <= b THEN a ELSE b

-------------------------------------------------------------------------------
\* Another service publishes a record.
Produce ==
  /\ logEnd < MaxEvents
  /\ logEnd' = logEnd + 1
  /\ UNCHANGED <<committed, position, cursor, loop, stopping, handled, attempts,
                 base, skipped, failures, stops>>

\* Mutant: the group resumes one record after the committed offset.
StartOffsetPast == IF committed = NoOffset THEN logEnd ELSE committed + 1

\* Where a starting consumer resumes.
StartOffset == IF committed = NoOffset THEN logEnd ELSE committed

\* Records below the frontier will never be handed to the handler again
\* unless the process ends without committing.
Frontier == IF loop \in Running THEN cursor
            ELSE IF committed = NoOffset THEN base ELSE committed

\* consumer.start() succeeds: the loop is entered with nothing fetched.
StartOk ==
  /\ loop = "starting"
  /\ position' = StartOffset
  /\ cursor' = StartOffset
  /\ base' = IF base = NoOffset THEN StartOffset ELSE base
  /\ skipped' = skipped \cup
       {e \in Offsets : /\ base # NoOffset
                        /\ Frontier <= e /\ e < StartOffset
                        /\ e \notin handled}
  /\ loop' = "batch"
  /\ UNCHANGED <<logEnd, committed, stopping, handled, attempts, failures, stops>>

\* consumer.start() fails: the task ends, with an exception (orchestrator) or
\* quietly (sre-agent); the process and its /healthz live on.
StartFails ==
  /\ loop = "starting"
  /\ Strike({"start"})
  /\ loop' = "dead"
  /\ UNCHANGED <<logEnd, committed, position, cursor, stopping, handled, attempts,
                 base, skipped, stops>>

\* The batch is exhausted and stop_event is not set: getmany() is awaited.
NextRound ==
  /\ loop = "batch" /\ cursor = position /\ ~ stopping
  /\ loop' = "polling"
  /\ UNCHANGED <<logEnd, committed, position, cursor, stopping, handled, attempts,
                 base, skipped, failures, stops>>

\* getmany() returns records: as many as there are, up to max_records.
Fetch ==
  /\ loop = "polling" /\ position < logEnd
  /\ position' = Min2(position + BatchSize, logEnd)
  /\ loop' = "batch"
  /\ UNCHANGED <<logEnd, committed, cursor, stopping, handled, attempts, base,
                 skipped, failures, stops>>

\* The record at the cursor is decoded and its handler awaited.
Begin ==
  /\ loop = "batch" /\ cursor < position
  /\ attempts' = [attempts EXCEPT ![cursor] = @ + 1]
  /\ loop' = "handling"
  /\ UNCHANGED <<logEnd, committed, position, cursor, stopping, handled, base,
                 skipped, failures, stops>>

\* The handler returns and the loop moves to the next record.
Return ==
  /\ loop = "handling"
  /\ handled' = handled \cup {cursor}
  /\ cursor' = cursor + 1
  /\ loop' = "batch"
  /\ UNCHANGED <<logEnd, committed, position, stopping, attempts, base, skipped,
                 failures, stops>>

\* The background commit of enable_auto_commit.
AutoCommit ==
  /\ loop \in Running
  /\ committed' = position
  /\ UNCHANGED <<logEnd, position, cursor, loop, stopping, handled, attempts, base,
                 skipped, failures, stops>>

\* Mutant: the consumer is closed without its last commit.
StopConsumerForgets(F) == Strike(F) /\ UNCHANGED committed

\* consumer.stop() commits the position a last time, unless the broker is out
\* of reach; the library logs that and goes on.  F has struck already.
StopConsumer(F) ==
  \E G \in {F, F \cup {"commit"}} :
    /\ Strike(G)
    /\ committed' = IF "commit" \in G THEN committed ELSE position

\* The exception of a handler ends the task: there is no except clause, only
\* the finally that stops the consumer.  /healthz still answers "ok".
Raise ==
  /\ loop = "handling"
  /\ StopConsumer({"raise"})
  /\ loop' = "dead"
  /\ UNCHANGED <<logEnd, position, cursor, stopping, handled, attempts, base,
                 skipped, stops>>

-------------------------------------------------------------------------------
\* The server shuts down: stop_event is set.
RequestStop ==
  /\ loop # "down" /\ ~ stopping
  /\ stops < MaxStops
  /\ stops' = stops + 1
  /\ stopping' = TRUE
  /\ UNCHANGED <<logEnd, committed, position, cursor, loop, handled, attempts, base,
                 skipped, failures>>

\* Mutant: stop_event is honoured in the middle of a batch.
CloseAtOnce ==
  /\ loop \in {"polling", "batch"} /\ stopping
  /\ StopConsumer({})
  /\ loop' = "down"
  /\ UNCHANGED <<logEnd, position, cursor, stopping, handled, attempts, base,
                 skipped, stops>>

\* The loop sees stop_event only between two batches.
Close ==
  /\ loop \in {"polling", "batch"} /\ cursor = position /\ stopping
  /\ StopConsumer({})
  /\ loop' = "down"
  /\ UNCHANGED <<logEnd, position, cursor, stopping, handled, attempts, base,
                 skipped, stops>>

\* Shutdown of a process whose task had already ended.
Exit ==
  /\ loop = "dead" /\ stopping
  /\ loop' = "down"
  /\ UNCHANGED <<logEnd, committed, position, cursor, stopping, handled, attempts,
                 base, skipped, failures, stops>>

Crash ==
  /\ loop # "down"
  /\ Strike({"crash"})
  /\ loop' = "down"
  /\ UNCHANGED <<logEnd, committed, position, cursor, stopping, handled, attempts,
                 base, skipped, stops>>

\* Mutant: the stop event of the last shutdown is still set.
RestartStopped ==
  /\ loop = "down"
  /\ loop' = "starting"
  /\ UNCHANGED <<logEnd, committed, position, cursor, stopping, handled, attempts,
                 base, skipped, failures, stops>>

Restart ==
  /\ loop = "down"
  /\ loop' = "starting"
  /\ stopping' = FALSE
  /\ UNCHANGED <<logEnd, committed, position, cursor, handled, attempts, base,
                 skipped, failures, stops>>

-------------------------------------------------------------------------------
Init ==
  /\ logEnd = 0 /\ committed = NoOffset /\ position = 0 /\ cursor = 0
  /\ loop = "starting" /\ stopping = FALSE
  /\ handled = {} /\ attempts = [e \in Offsets |-> 0]
  /\ base = NoOffset /\ skipped = {}
  /\ failures = [f \in AllFaults |-> 0] /\ stops = 0

Consume == StartOk \/ NextRound \/ Fetch \/ Begin \/ Return \/ Close \/ Exit

Next == \/ Produce
        \/ Consume
        \/ AutoCommit
        \/ StartFails \/ Raise \/ Crash
        \/ RequestStop \/ Restart

Spec == Init /\ [][Next]_vars

\* The event loop runs the task, the handlers' HTTP timeouts make every
\* handler end, and the deployment restarts a process that went down.
FairSpec == Spec /\ WF_vars(Consume) /\ WF_vars(Restart)

-------------------------------------------------------------------------------
InHandler == IF loop = "handling" THEN {cursor} ELSE {}

\* Records the group had to read and gave up.
Lost == {e \in Offsets : /\ base # NoOffset
                         /\ base <= e /\ e < Frontier
                         /\ e \notin handled \cup skipped \cup InHandler}

\* A handler runs again for the same record only when the process ended
\* without its last commit: a crash, or a stop with the broker out of reach.
RedeliveryBounded ==
  \A e \in Offsets : attempts[e] <= 1 + failures["crash"] + failures["commit"]

\* Committing what was fetched, before it is handled, loses at most one batch
\* per handler exception or crash.
LossBounded ==
  Cardinality(Lost) <= BatchSize * (failures["raise"] + failures["crash"])

\* While no handler raises and no process crashes or misses its last commit,
\* every record the group passed was handed to the handler, exactly once, and
\* handled, whatever starts, stops and commits happened.
CleanRunsLoseNothing ==
  (\A f \in {"raise", "crash", "commit"} : failures[f] = 0)
     => /\ Lost = {} /\ skipped = {}
        /\ \A e \in handled : attempts[e] = 1

\* The promise of DeliveryContract, read off the offsets.
FateOf(e) ==
  IF base = NoOffset \/ e < base \/ e >= logEnd THEN "none"
  ELSE IF e \in handled THEN "handled"
  ELSE IF e \in Lost \cup skipped THEN "lost" ELSE "pending"

Delivery == INSTANCE DeliveryContract
              WITH Records <- Offsets,
                   fate <- [e \in Offsets |-> FateOf(e)],
                   anchored <- committed # NoOffset,
                   failed <- failures["raise"] + failures["crash"] + failures["commit"]

\* The offsets, which move past records before their handlers run and go back when
\* the process ends, amount to one settled end for each record, in the order of the
\* topic: none that is given up comes back, and none is lost but by a failure.
ImplementsDelivery == Delivery!Spec

\* Every record that reaches a group which has joined the topic is handled in
\* the end, or is one of those given up to a failure (which LossBounded counts),
\* or waits behind a task that is dead for good: the loop never gets stuck.
EveryEventSettled ==
  \A e \in Offsets :
    (base # NoOffset /\ base <= e /\ e < logEnd)
      ~> (e \in handled \cup Lost \cup skipped \/ [](loop = "dead"))

\* Every record that reaches a group which has joined the topic is handled
\* ("Consume carop.anomaly.detected and call Diagnostic Engine",
\* docs/architecture.md).
EveryEventHandled ==
  \A e \in Offsets :
    (base # NoOffset /\ base <= e /\ e < logEnd) ~> e \in handled
===============================================================================
