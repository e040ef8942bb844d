------------------------------ MODULE ClosedLoop ------------------------------
(***************************************************************************)
(* The way of a failed transaction into the recovery queue: orchestrator's *)
(* consumer (EventConsumer) hands each record of carop.anomaly.detected to *)
(* EventOrchestrator._handle_anomaly, which calls diagnostic-engine and    *)
(* then replay-engine (RecoveryQueue), one after the other.                *)
(*                                                                         *)
(* The handler looks at no answer, whatever its status; an exception (a    *)
(* timeout after 20 seconds, a broken connection) ends it, and with it the *)
(* consumer task.  The service goes on with a request whose client is gone *)
(* or has come back with the same record.                                  *)
(*                                                                         *)
(* ingest_event, the only producer of the topic, always sends an id, a     *)
(* transaction_id and a flow_type, so the handler's two guards hold.       *)
(***************************************************************************)
EXTENDS RecoveryQueue, Integers, FiniteSets

CONSTANTS MaxEvents, BatchSize, MaxFaults, MaxStops, LoopFaults,
          Posts,     \* the requests that the handler may send
          Subject    \* the transaction and flow that a record is about

ASSUME LoopAssumption == /\ {MaxEvents, MaxFaults, MaxStops} \subseteq Nat
                         /\ BatchSize \in Nat \ {0}
                         /\ LoopFaults \subseteq {"start", "raise", "crash", "commit"}
                         /\ Posts \subseteq Requests
                         /\ Subject \in [0 .. (MaxEvents - 1) -> Keys]

VARIABLES logEnd, committed, position, cursor, loop, stopping, handled, attempts,
          base, skipped, failures, stops,   \* see EventConsumer
          step,       \* what the handler is at, "idle" when there is none
          sent,       \* the request whose answer it awaits, or none
          source,     \* the record each request was sent for
          diagnoses   \* how often diagnostic-engine diagnosed a record's incident

consumerVars == <<logEnd, committed, position, cursor, loop, stopping, handled,
                  attempts, base, skipped, failures, stops>>
handlerVars == <<step, sent, source, diagnoses>>
loopVars == <<vars, consumerVars, handlerVars>>

Consumer == INSTANCE EventConsumer WITH Faults <- LoopFaults

Records == 0 .. (MaxEvents - 1)
NoRecord == -1
NoPost == "none"

HandlerTypeOK ==
  /\ step \in {"idle", "diagnosing", "queueing", "waiting"}
  /\ sent \in Posts \cup {NoPost}
  /\ source \in [Posts -> Records \cup {NoRecord}]
  /\ diagnoses \in [Records -> Nat]
  /\ step # "idle" <=> loop = "handling"
  /\ step = "waiting" => sent \in Posts /\ source[sent] = cursor

-------------------------------------------------------------------------------
(* orchestrator: _handle_anomaly().                                        *)

HandlerBegins ==
  /\ Consumer!Begin
  /\ step' = "diagnosing"
  /\ UNCHANGED <<sent, source, diagnoses, vars>>

\* A diagnosis of the record's incident, made or not.
Diagnosed(made) ==
  diagnoses' = IF made THEN [diagnoses EXCEPT ![cursor] = @ + 1] ELSE diagnoses

\* Mutant: the diagnosis is asked for until it is answered with success.
DiagnoseRetried ==
  /\ step = "diagnosing"
  /\ step' \in {"diagnosing", "queueing"}
  /\ Diagnosed(TRUE)
  /\ UNCHANGED <<sent, source, vars, consumerVars>>

\* diagnostic-engine answers, with success or with an error.
Diagnose ==
  /\ step = "diagnosing"
  /\ step' = "queueing"
  /\ \E made \in BOOLEAN : Diagnosed(made)
  /\ UNCHANGED <<sent, source, vars, consumerVars>>

SendPost(r) ==
  /\ step = "queueing"
  /\ source[r] = NoRecord
  /\ call[r].op = "queue"
  /\ DedupKey(call[r].txn, call[r].flow) = Subject[cursor]
  /\ step' = "waiting"
  /\ sent' = r
  /\ source' = [source EXCEPT ![r] = cursor]
  /\ UNCHANGED <<diagnoses, vars, consumerVars>>

\* Mutant: the answer of replay-engine is not awaited.
NotAwaited == sent \in Posts

Answered == sent \in Posts /\ pc[sent] = "done"

\* The answer is there and the handler returns.
HandlerReturns ==
  /\ step = "waiting" /\ Answered
  /\ Consumer!Return
  /\ step' = "idle" /\ sent' = NoPost
  /\ UNCHANGED <<source, diagnoses, vars>>

\* Mutant: the call of replay-engine has no timeout.
RaisesAtOnce ==
  /\ step = "diagnosing"
  /\ Consumer!Raise
  /\ step' = "idle" /\ sent' = NoPost
  /\ \E made \in BOOLEAN : Diagnosed(made)
  /\ UNCHANGED <<source, vars>>

\* A call raises: it timed out or its service died.
HandlerRaises ==
  /\ Consumer!Raise
  /\ step' = "idle" /\ sent' = NoPost
  /\ \E made \in BOOLEAN : Diagnosed(made /\ step = "diagnosing")
  /\ UNCHANGED <<source, vars>>

\* Bound: the process dies only while Posts are left to send all records again.
OrchestratorCrash ==
  /\ Consumer!Crash
  /\ Cardinality({r \in Posts : source[r] = NoRecord}) >= MaxEvents
  /\ step' = "idle" /\ sent' = NoPost
  /\ UNCHANGED <<source, diagnoses, vars>>

\* What the consumer does without the handler.
ConsumerStep ==
  /\ Consumer!StartOk \/ Consumer!NextRound \/ Consumer!Fetch \/ Consumer!Close
     \/ Consumer!Exit \/ Consumer!Restart
  /\ UNCHANGED <<handlerVars, vars>>

AroundConsumer ==
  /\ Consumer!Produce \/ Consumer!StartFails \/ Consumer!AutoCommit
     \/ Consumer!RequestStop
  /\ UNCHANGED <<handlerVars, vars>>

-------------------------------------------------------------------------------
(* replay-engine, for the handler and for its other clients.               *)

\* A request of the handler arrives after it was sent.
Serve(r) ==
  /\ r \in Posts => source[r] # NoRecord
  /\ QueueTransaction(r) \/ ReplayTransaction(r) \/ Publish(r) \/ Fault(r)
  /\ UNCHANGED <<consumerVars, handlerVars>>

\* Bound: while the handler waits, a process dies only if the exception that
\* follows is within MaxFaults.
ServerCrash(w) ==
  /\ step = "waiting" => "raise" \in LoopFaults /\ failures["raise"] < MaxFaults
  /\ Crash(w)
  /\ UNCHANGED <<consumerVars, handlerVars>>

-------------------------------------------------------------------------------
LoopInit ==
  /\ Init
  /\ \A r \in Posts : /\ call[r].op = "queue"
                      /\ \E e \in Records : DedupKey(call[r].txn, call[r].flow) = Subject[e]
  /\ Consumer!Init
  /\ step = "idle" /\ sent = NoPost
  /\ source = [r \in Posts |-> NoRecord]
  /\ diagnoses = [e \in Records |-> 0]

Handler == \/ HandlerBegins \/ Diagnose \/ HandlerReturns
           \/ \E r \in Posts : SendPost(r)

LoopNext == \/ ConsumerStep \/ AroundConsumer \/ Handler \/ HandlerRaises \/ OrchestratorCrash
            \/ \E r \in Requests : Serve(r)
            \/ \E w \in Workers : ServerCrash(w)

LoopSpec == LoopInit /\ [][LoopNext]_loopVars

\* The answer will never come.
Unanswered == step = "waiting" /\ pc[sent] \in {"dropped", "lost"}

Underway(r) == pc[r] # "new" \/ r \in Posts

\* Both event loops run, calls that are not answered time out, and the
\* deployment restarts a process that went down.
FairLoopSpec ==
  /\ LoopSpec
  /\ WF_loopVars(Handler \/ ConsumerStep)
  /\ WF_loopVars(Unanswered /\ HandlerRaises)
  /\ \A r \in Requests : WF_loopVars(Underway(r) /\ Serve(r))

-------------------------------------------------------------------------------
InTable(k) == \E i \in DOMAIN queue : KeyOf(i) = k

\* replay-engine answered a request for record e with 500.
Refused(e) == \E r \in Posts : source[r] = e /\ reply[r] = "500"

\* A record whose handler returned has its transaction in the recovery queue,
\* whatever diagnostic-engine answered, however often the record was delivered
\* and whichever process of replay-engine died, unless replay-engine answered 500
\* (which the handler does not look at).
HandledMeansQueued ==
  \A e \in handled : InTable(Subject[e]) \/ Refused(e)

\* An incident is diagnosed, and its root cause announced to sre-agent, once more
\* for each crash or missed commit of orchestrator at most: no error answer and
\* no exception makes the handler ask again.
DiagnosesBounded ==
  \A e \in Records : diagnoses[e] <= 1 + failures["crash"] + failures["commit"]

\* Every record that reaches the group gets its transaction into the queue in the
\* end, unless replay-engine answers 500, a failure costs the record, or the task
\* is dead for good: the handler waits for nothing for ever.
EveryAnomalySettled ==
  \A e \in Records :
    (base # Consumer!NoOffset /\ base <= e /\ e < logEnd)
      ~> (\/ InTable(Subject[e]) \/ Refused(e)
          \/ e \in Consumer!Lost \cup skipped
          \/ [](loop = "dead"))
===============================================================================
