------------------------------ MODULE Remediation ------------------------------
(***************************************************************************)
(* sre-agent's remediation of an incident (SreAgentService.process_        *)
(* incident): a runbook is decided on and executed, recovery is verified,  *)
(* the secondary runbook is executed when it failed, and a report is       *)
(* stored.  Jobs come from the Kafka consumer, one after the other, and    *)
(* from the APIs, beside them; they interleave at every awaited call.      *)
(*                                                                         *)
(* How a decision is found is RunbookDecision's matter; here a decision is *)
(* the incident's own runbook or the fallback, scale_kubernetes, which an  *)
(* admin may switch off.  The services called are external: a call returns *)
(* a success or an error status, or times out, with or without effect.     *)
(*                                                                         *)
(* Bounds: the Jobs of a run, MaxToggles toggles of the fallback.          *)
(***************************************************************************)
EXTENDS Naturals

CONSTANTS Jobs, Incidents,
          Faults,       \* what may go wrong: a subset of AllFaults
          MaxToggles

AllFaults == {"status", "timeout", "db", "crash"}

ASSUME FaultsAssumption == Faults \subseteq AllFaults
ASSUME TogglesAssumption == MaxToggles \in Nat

VARIABLES kind,       \* how a job came in
          inc,        \* the incident it is about
          pc,         \* where it is
          round,      \* 1: primary remediation, 2: secondary
          runbook,    \* the runbook it executes
          reply,      \* automation-engine's answer to the current execution
          primary,    \* the status the primary execution was given
          checks,     \* which results the last verification has
          performed,  \* <<job, round>>: automation-engine took the action
          recorded,   \* <<job, round, status>>: in automation_actions and audit_logs
          closed,     \* incidents set to resolved by sre-agent
          reports,    \* <<job, status>>: in incident_history and audit_logs
          consumer,   \* the consumer task: idle, busy or dead
          enabled,    \* the fallback is enabled
          toggles

vars == <<kind, inc, pc, round, runbook, reply, primary, checks, performed, recorded,
          closed, reports, consumer, enabled, toggles>>

origin == <<kind, inc>>
plan == <<round, runbook>>
answers == <<reply, primary, checks>>
ledger == <<performed, recorded, closed, reports>>
control == <<enabled, toggles>>

Kinds == {"none", "event", "analyze", "manual"}

\* The fallback and the incident's own runbook.
RunbookNames == {"own", "fallback"}

Replies == {"success", "failed"}

TypeOK ==
  /\ kind \in [Jobs -> Kinds]
  /\ inc \in [Jobs -> Incidents]
  /\ pc \in [Jobs -> {"new", "deciding", "automating", "running", "recording",
                      "verifying", "closing", "reporting", "done", "raised", "lost"}]
  /\ round \in [Jobs -> {1, 2}]
  /\ runbook \in [Jobs -> RunbookNames]
  /\ reply \in [Jobs -> Replies]
  /\ primary \in [Jobs -> Replies]
  /\ checks \in [Jobs -> SUBSET BOOLEAN]
  /\ performed \subseteq Jobs \X {1, 2}
  /\ recorded \subseteq Jobs \X {1, 2} \X Replies
  /\ closed \subseteq Incidents
  /\ reports \subseteq Jobs \X {"resolved", "mitigated", "failed"}
  /\ consumer \in {"idle", "busy", "dead"}
  /\ enabled \in BOOLEAN
  /\ toggles \in 0 .. MaxToggles

Goto(j, from, to) == pc[j] = from /\ pc' = [pc EXCEPT ![j] = to]

\* The end of a job, in pc to: the consumer goes on after an event that was
\* handled and its task ends with an exception that was raised.
End(j, from, to) ==
  /\ Goto(j, from, to)
  /\ consumer' = IF kind[j] # "event" THEN consumer
                 ELSE IF to = "raised" THEN "dead" ELSE "idle"

-------------------------------------------------------------------------------
(* A job comes in.                                                         *)

Begin(j, k, i, to) ==
  /\ Goto(j, "new", to)
  /\ kind' = [kind EXCEPT ![j] = k]
  /\ inc' = [inc EXCEPT ![j] = i]
  /\ UNCHANGED <<round, answers, ledger, control>>

\* The consumer hands over the next RCA event.
Consume(j, i) == /\ consumer = "idle" /\ consumer' = "busy"
                 /\ Begin(j, "event", i, "deciding")
                 /\ UNCHANGED runbook

\* POST /incident/analyze.
Analyze(j, i) == /\ Begin(j, "analyze", i, "deciding")
                 /\ UNCHANGED <<consumer, runbook>>

\* POST /runbook/execute: any runbook, and no more than its execution.
Manual(j, i) == /\ Begin(j, "manual", i, "automating")
                /\ \E rb \in RunbookNames : runbook' = [runbook EXCEPT ![j] = rb]
                /\ UNCHANGED consumer

-------------------------------------------------------------------------------
(* process_incident(): decision.                                           *)

Decide(j) ==
  \E rb \in RunbookNames :
    /\ rb = "fallback" => enabled
    /\ Goto(j, "deciding", "automating")
    /\ runbook' = [runbook EXCEPT ![j] = rb]
    /\ UNCHANGED <<origin, round, answers, ledger, consumer, control>>

\* 403, when the fallback is decided on and disabled.
Refuse(j) ==
  /\ ~ enabled
  /\ End(j, "deciding", "raised")
  /\ UNCHANGED <<origin, plan, answers, ledger, control>>

-------------------------------------------------------------------------------
(* RunbookExecutor.execute().                                              *)

\* automation-engine's answer decides the status.
Automate(j) ==
  /\ Goto(j, "automating", "running")
  /\ \/ /\ reply' = [reply EXCEPT ![j] = "success"]
        /\ performed' = performed \cup {<<j, round[j]>>}
     \/ /\ "status" \in Faults
        /\ reply' = [reply EXCEPT ![j] = "failed"]
        /\ UNCHANGED performed
  /\ UNCHANGED <<origin, plan, primary, checks, recorded, closed, reports,
                 consumer, control>>

\* A timeout skips the call of runbook-executor and means "failed", although
\* the action may have been performed.
AutomateTimeout(j) ==
  /\ "timeout" \in Faults
  /\ Goto(j, "automating", "recording")
  /\ reply' = [reply EXCEPT ![j] = "failed"]
  /\ performed' \in {performed, performed \cup {<<j, round[j]>>}}
  /\ UNCHANGED <<origin, plan, primary, checks, recorded, closed, reports,
                 consumer, control>>

\* Mutant: what runbook-executor answers decides the status.
RunDecides(status) == Replies

\* What runbook-executor answers is noted and does not matter; a timeout does.
AfterRun(status) == {status} \cup (IF "timeout" \in Faults THEN {"failed"} ELSE {})

Run(j) ==
  /\ Goto(j, "running", "recording")
  /\ \E status \in AfterRun(reply[j]) : reply' = [reply EXCEPT ![j] = status]
  /\ UNCHANGED <<origin, plan, primary, checks, ledger, consumer, control>>

\* Mutant: only what succeeded is recorded.
RowSuccess(j) == IF reply[j] = "success" THEN {<<j, round[j], "success">>} ELSE {}

\* The action and its audit row, in one COMMIT, whatever the status.
Row(j) == {<<j, round[j], reply[j]>>}

Record(j) ==
  /\ IF kind[j] = "manual" THEN End(j, "recording", "done")
                           ELSE Goto(j, "recording", "verifying") /\ UNCHANGED consumer
  /\ recorded' = recorded \cup Row(j)
  /\ primary' = [primary EXCEPT ![j] = IF round[j] = 1 THEN reply[j] ELSE @]
  /\ UNCHANGED <<origin, plan, reply, checks, performed, closed, reports,
                 control>>

-------------------------------------------------------------------------------
(* VerificationEngine.verify().                                            *)

\* Two services are asked in turn; each leaves one check, ok or not, or none
\* when its status is not 200.  An exception ends the questions with a check
\* that is not ok, so it adds no outcome.
Answers == {{TRUE}, {FALSE}} \cup (IF "status" \in Faults THEN {{}} ELSE {})

Outcomes == {dashboard \cup incidents : dashboard, incidents \in Answers}

\* Mutant: one check that is ok is enough.
VerifiedByAny(c) == TRUE \in c

\* There are checks and all of them are ok.
Verified(c) == c = {TRUE}

\* Mutant: an incident that is not recovered is given up at once.
NoSecondary(j, c) == FALSE

\* Mutant: the secondary runbook is executed until it helps.
SecondaryForever(j, c) == ~ Verified(c)

\* After a failed verification the secondary runbook, once, without asking
\* whether it is enabled.
Secondary(j, c) == ~ Verified(c) /\ round[j] = 1

Verify(j) ==
  /\ \E c \in Outcomes :
       /\ checks' = [checks EXCEPT ![j] = c]
       /\ \/ /\ Verified(c)
             /\ Goto(j, "verifying", "closing")
             /\ UNCHANGED plan
          \/ /\ Secondary(j, c)
             /\ Goto(j, "verifying", "automating")
             /\ round' = [round EXCEPT ![j] = 2]
             /\ runbook' = [runbook EXCEPT ![j] = "fallback"]
          \/ /\ ~ Verified(c) /\ ~ Secondary(j, c)
             /\ Goto(j, "verifying", "reporting")
             /\ UNCHANGED plan
  /\ UNCHANGED <<origin, reply, primary, ledger, consumer, control>>

\* PATCH /incidents/{id} at incident-service; the answer is not looked at.
Close(j) ==
  /\ Goto(j, "closing", "reporting")
  /\ \/ closed' = closed \cup {inc[j]}
     \/ "status" \in Faults /\ UNCHANGED closed
  /\ UNCHANGED <<origin, plan, answers, performed, recorded, reports, consumer,
                 control>>

\* This call is outside the try: the job ends without a report.
CloseTimeout(j) ==
  /\ "timeout" \in Faults
  /\ End(j, "closing", "raised")
  /\ closed' \in {closed, closed \cup {inc[j]}}
  /\ UNCHANGED <<origin, plan, answers, performed, recorded, reports, control>>

-------------------------------------------------------------------------------
\* The status of the report; only the primary execution mitigates.
Status(j) == IF Verified(checks[j]) THEN "resolved"
             ELSE IF primary[j] = "success" THEN "mitigated" ELSE "failed"

\* incident_history and audit_logs, in one COMMIT.
Report(j) ==
  /\ End(j, "reporting", "done")
  /\ reports' = reports \cup {<<j, Status(j)>>}
  /\ UNCHANGED <<origin, plan, answers, performed, recorded, closed, control>>

\* A COMMIT fails: the exception ends the job.
DbFails(j) ==
  /\ "db" \in Faults
  /\ End(j, "recording", "raised") \/ End(j, "reporting", "raised")
  /\ UNCHANGED <<origin, plan, answers, ledger, control>>

\* PATCH /runbook/catalog/scale_kubernetes.
Toggle ==
  /\ toggles < MaxToggles
  /\ toggles' = toggles + 1
  /\ enabled' = ~ enabled
  /\ UNCHANGED <<origin, pc, plan, answers, ledger, consumer>>

\* The process dies with the jobs it was at, and comes back.
Crash ==
  /\ "crash" \in Faults
  /\ pc' = [j \in Jobs |-> IF pc[j] \in {"new", "done", "raised"} THEN pc[j] ELSE "lost"]
  /\ pc' # pc \/ consumer = "dead"
  /\ consumer' = "idle"
  /\ UNCHANGED <<origin, plan, answers, ledger, control>>

Init ==
  /\ kind = [j \in Jobs |-> "none"]
  /\ inc \in [Jobs -> Incidents]
  /\ pc = [j \in Jobs |-> "new"]
  /\ round = [j \in Jobs |-> 1]
  /\ runbook = [j \in Jobs |-> "own"]
  /\ reply = [j \in Jobs |-> "failed"]
  /\ primary = [j \in Jobs |-> "failed"]
  /\ checks = [j \in Jobs |-> {}]
  /\ performed = {} /\ recorded = {} /\ closed = {} /\ reports = {}
  /\ consumer = "idle"
  /\ enabled = TRUE
  /\ toggles = 0

Arrive(j) == \E i \in Incidents : Consume(j, i) \/ Analyze(j, i) \/ Manual(j, i)

Proceed(j) == \/ Decide(j) \/ Refuse(j)
              \/ Automate(j) \/ AutomateTimeout(j) \/ Run(j) \/ Record(j)
              \/ Verify(j) \/ Close(j) \/ CloseTimeout(j) \/ Report(j)

Next == \/ \E j \in Jobs : Arrive(j) \/ Proceed(j) \/ DbFails(j)
        \/ Toggle \/ Crash

Spec == Init /\ [][Next]_vars

\* The event loop goes on with a job: every awaited call returns or times out
\* (httpx, 20 seconds).
FairSpec == Spec /\ \A j \in Jobs : WF_vars(Proceed(j))

-------------------------------------------------------------------------------
\* An action recorded as a success was performed, whatever failed around it.
SuccessesHappened == \A r \in recorded : r[3] = "success" => <<r[1], r[2]>> \in performed

\* sre-agent gives an incident up only after the secondary runbook was tried
\* and recorded.
EscalatedBeforeGivingUp ==
  \A r \in reports : r[2] # "resolved" => \E s \in Replies :
                                             <<r[1], 2, s>> \in recorded

\* An incident is closed only on behalf of a job whose last verification has
\* no failed check, so that no report of that job can say otherwise.
ClosedWasVerified ==
  \A i \in closed :
    \E j \in Jobs : inc[j] = i /\ kind[j] \in {"event", "analyze"} /\ checks[j] = {TRUE}

\* An action that is neither in automation_actions nor in audit_logs is the last
\* one of its job, which is still at it or was cut short by a crash or a failed
\* COMMIT: no job goes on, let alone reports, past an unrecorded action.
UnrecordedEndsJob ==
  \A a \in performed :
    \/ \E s \in Replies : <<a[1], a[2], s>> \in recorded
    \/ /\ a[2] = round[a[1]]
       /\ pc[a[1]] \in {"running", "recording", "raised", "lost"}

\* Every incident that a remediation starts to decide on is reported about, unless
\* the process dies or an exception ends the job (the runbook decided on is
\* disabled, the closing call times out, a COMMIT fails): no sequence of failed
\* actions, timeouts and verifications goes on for ever.
EveryJobReported ==
  \A j \in Jobs : pc[j] = "deciding" ~>
    \/ pc[j] \in {"raised", "lost"}
    \/ \E s \in {"resolved", "mitigated", "failed"} : <<j, s>> \in reports

Starts(j, rb) == pc[j] # "automating" /\ pc'[j] = "automating" /\ runbook'[j] = rb

\* Automation does not start a disabled runbook ("Runbook catalog supports
\* admin-controlled enable/disable to prevent unauthorized automation",
\* docs/security-controls.md).
DisabledNotStarted ==
  [][\A j \in Jobs : Starts(j, "fallback") /\ kind'[j] # "manual" => enabled]_vars
===============================================================================
