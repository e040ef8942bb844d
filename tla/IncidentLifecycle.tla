--------------------------- MODULE IncidentLifecycle ---------------------------
(***************************************************************************)
(* The incidents table and the handlers of four services that write it:    *)
(* transaction-monitor (ingest, create), diagnostic-engine (diagnose),     *)
(* automation-engine (execute) and incident-service (create, update), with *)
(* the Kafka messages they publish after COMMIT.                           *)
(*                                                                         *)
(* A handler's database section has no await, so the requests of one       *)
(* process take their sections one at a time; those of different processes *)
(* interleave between a SELECT and its COMMIT.  SQLAlchemy's UPDATE writes *)
(* only the columns whose value differs from the one that was loaded.      *)
(*                                                                         *)
(* Bound: a run serves the finitely many Requests.                         *)
(***************************************************************************)
EXTENDS Naturals, Sequences, FiniteSets

CONSTANTS Requests,   \* the HTTP requests of a run
          Replicas,   \* the number of processes of each service
          Ids,        \* incident ids requests name, known to the table or not
          PatchStatuses,   \* statuses a PATCH may carry
          Causes,     \* root causes a PATCH may carry
          Faults      \* what may go wrong: a subset of AllFaults

AllFaults == {"db", "kafka", "crash"}

Rca == "wms timeout"      \* the cause diagnose_incident always finds
NoCause == "none"         \* NULL, or a PATCH without root_cause

ASSUME ReplicasAssumption == Replicas \in Nat \ {0}
ASSUME IdsAssumption == Ids \subseteq Nat \ {0}
ASSUME CausesAssumption == NoCause \notin Causes
ASSUME FaultsAssumption == Faults \subseteq AllFaults

VARIABLES incidents,   \* the rows, in order of insertion
          events,      \* requests whose transaction event is committed
          diagnoses,   \* requests whose diagnostics rows are committed
          executions,  \* requests whose runbook execution is committed
          op,          \* what each request asked for
          target,      \* the incident it names or created, 0 if none
          arg,         \* the body of a PATCH
          seen,        \* the row its SELECT loaded
          pc,          \* its progress
          topic        \* messages: <<topic, publishing request>>

vars == <<incidents, events, diagnoses, executions, op, target, arg, seen, pc, topic>>

Statuses == {"detected", "diagnosed", "auto-fix-running", "pending-replay", "resolved"}

Rows == [status : Statuses, root_cause : Causes \cup {Rca, NoCause},
         resolved_at : BOOLEAN]

NoRow == [status |-> "missing"]

ASSUME PatchAssumption == PatchStatuses \subseteq Statuses

Bodies == [status : Statuses, root_cause : Causes \cup {NoCause}]

Ops == {"none", "ingest_ok", "ingest_failed", "create", "diagnose", "automate", "patch"}

\* The service whose process serves an operation ("create" is served by two
\* services; its section has no SELECT, so which one does not matter).
Service(o) == CASE o \in {"ingest_ok", "ingest_failed", "create"} -> "transaction-monitor"
                [] o = "diagnose" -> "diagnostic-engine"
                [] o = "automate" -> "automation-engine"
                [] o = "patch" -> "incident-service"
                [] OTHER -> "none"

Topics == {"transaction.events", "anomaly.detected", "rca.completed",
           "automation.requested"}

PCs == {"new", "loaded", "committed", "announcing", "done", "failed", "lost"}

TypeOK ==
  /\ incidents \in Seq(Rows)
  /\ events \subseteq Requests
  /\ diagnoses \subseteq Requests
  /\ executions \subseteq Requests
  /\ op \in [Requests -> Ops]
  /\ target \in [Requests -> Nat]
  /\ arg \in [Requests -> Bodies]
  /\ seen \in [Requests -> Rows \cup {NoRow}]
  /\ pc \in [Requests -> PCs]
  /\ topic \subseteq Topics \X Requests

Detected == [status |-> "detected", root_cause |-> NoCause, resolved_at |-> FALSE]

Row(i) == IF i \in DOMAIN incidents THEN incidents[i] ELSE NoRow

\* Some process of service s is not between a SELECT and its COMMIT.
Free(s) == Cardinality({r \in Requests : pc[r] = "loaded" /\ Service(op[r]) = s}) < Replicas

Start(r, o) == /\ pc[r] = "new"
               /\ Free(Service(o))
               /\ op' = [op EXCEPT ![r] = o]

Goto(r, p) == pc' = [pc EXCEPT ![r] = p]

\* How a COMMIT ends: seen by the handler, or effective with its
\* acknowledgement lost, so that the handler raises and answers 500.
Outcomes(next) == {next} \cup (IF "db" \in Faults THEN {"failed"} ELSE {})

\* What an assigned column holds after the UPDATE: it is written only when the
\* assignment changed the loaded value.
Written(current, loaded, assigned) == IF assigned = loaded THEN current ELSE assigned

-------------------------------------------------------------------------------
(* transaction-monitor: POST /transactions/events and POST /incidents, and *)
(* incident-service: POST /incidents.                                      *)

\* The event row and, when the step failed, the incident: one COMMIT.
Ingest(r, failed) ==
  /\ Start(r, IF failed THEN "ingest_failed" ELSE "ingest_ok")
  /\ events' = events \cup {r}
  /\ IF failed THEN /\ incidents' = Append(incidents, Detected)
                    /\ target' = [target EXCEPT ![r] = Len(incidents) + 1]
               ELSE UNCHANGED <<incidents, target>>
  /\ \E p \in Outcomes("committed") : Goto(r, p)
  /\ UNCHANGED <<diagnoses, executions, arg, seen, topic>>

\* An incident reported by hand is stored and answered, but not announced.
Create(r) ==
  /\ Start(r, "create")
  /\ incidents' = Append(incidents, Detected)
  /\ target' = [target EXCEPT ![r] = Len(incidents) + 1]
  /\ \E p \in Outcomes("done") : Goto(r, p)
  /\ UNCHANGED <<events, diagnoses, executions, arg, seen, topic>>

-------------------------------------------------------------------------------
(* diagnostic-engine: POST /incidents/{id}/diagnose                        *)

\* The COMMIT of a request that loaded its row.
Commits(r, o, next) == /\ pc[r] = "loaded" /\ op[r] = o
                       /\ \E p \in Outcomes(next) : Goto(r, p)

Load(r, o, i) ==
  /\ Start(r, o)
  /\ target' = [target EXCEPT ![r] = i]
  /\ seen' = [seen EXCEPT ![r] = Row(i)]
  /\ Goto(r, "loaded")
  /\ UNCHANGED <<incidents, events, diagnoses, executions, topic>>

DiagnoseLoad(r) == \E i \in Ids : Load(r, "diagnose", i) /\ UNCHANGED arg

\* Mutant: the diagnosis forgets the incident row's root cause.
DiagnosedNoCause(cur, old) ==
  [cur EXCEPT !.status = Written(cur.status, old.status, "diagnosed")]

Diagnosed(cur, old) ==
  [status |-> Written(cur.status, old.status, "diagnosed"),
   root_cause |-> Written(cur.root_cause, old.root_cause, Rca),
   resolved_at |-> cur.resolved_at]

\* An unknown incident gets its diagnostics rows and its message all the same.
DiagnoseCommit(r) ==
  /\ Commits(r, "diagnose", "committed")
  /\ diagnoses' = diagnoses \cup {r}
  /\ incidents' = IF seen[r] = NoRow THEN incidents
                  ELSE [incidents EXCEPT ![target[r]] = Diagnosed(@, seen[r])]
  /\ UNCHANGED <<events, executions, op, target, arg, seen, topic>>

-------------------------------------------------------------------------------
(* automation-engine: POST /automation/execute                             *)

AutomateLoad(r) == \E i \in Ids : Load(r, "automate", i) /\ UNCHANGED arg

Automated(cur, old) ==
  [cur EXCEPT !.status = Written(cur.status, old.status, "auto-fix-running")]

AutomateCommit(r) ==
  /\ Commits(r, "automate", "committed")
  /\ executions' = executions \cup {r}
  /\ incidents' = IF seen[r] = NoRow THEN incidents
                  ELSE [incidents EXCEPT ![target[r]] = Automated(@, seen[r])]
  /\ UNCHANGED <<events, diagnoses, op, target, arg, seen, topic>>

-------------------------------------------------------------------------------
(* incident-service: PATCH /incidents/{id}                                 *)

PatchLoad(r) ==
  \E i \in Ids, b \in Bodies :
    /\ b.status \in PatchStatuses
    /\ Row(i) # NoRow
    /\ Load(r, "patch", i)
    /\ arg' = [arg EXCEPT ![r] = b]

PatchMissing(r) ==
  \E i \in Ids :
    /\ Start(r, "patch")
    /\ Row(i) = NoRow
    /\ Goto(r, "failed")
    /\ UNCHANGED <<incidents, events, diagnoses, executions, target, arg, seen, topic>>

\* Mutant: a PATCH without a root cause writes NULL.
PatchedNull(cur, old, b) ==
  [status |-> Written(cur.status, old.status, b.status),
   root_cause |-> Written(cur.root_cause, old.root_cause, b.root_cause),
   resolved_at |-> cur.resolved_at \/ b.status = "resolved"]

\* resolved_at gets a new time, hence is written, whenever status is resolved.
Patched(cur, old, b) ==
  [status |-> Written(cur.status, old.status, b.status),
   root_cause |-> IF b.root_cause = NoCause THEN cur.root_cause
                  ELSE Written(cur.root_cause, old.root_cause, b.root_cause),
   resolved_at |-> cur.resolved_at \/ b.status = "resolved"]

PatchCommit(r) ==
  /\ Commits(r, "patch", "done")
  /\ incidents' = [incidents EXCEPT ![target[r]] = Patched(@, seen[r], arg[r])]
  /\ UNCHANGED <<events, diagnoses, executions, op, target, arg, seen, topic>>

-------------------------------------------------------------------------------
(* Publication.  publish() returns False on any failure and nobody looks.  *)

\* Mutant: the root cause is announced before the diagnosis is committed.
PublishableEarly(r) ==
  IF pc[r] = "loaded" /\ op[r] = "diagnose" THEN {"rca.completed"} ELSE {}

\* The message a request publishes next.
Publishable(r) ==
  CASE pc[r] = "committed" /\ op[r] \in {"ingest_ok", "ingest_failed"}
         -> {"transaction.events"}
    [] pc[r] = "announcing" -> {"anomaly.detected"}
    [] pc[r] = "committed" /\ op[r] = "diagnose" -> {"rca.completed"}
    [] pc[r] = "committed" /\ op[r] = "automate" -> {"automation.requested"}
    [] OTHER -> {}

\* A failed step is announced twice: as an event, then as an anomaly.
AfterPublish(r) ==
  IF op[r] = "ingest_failed" /\ pc[r] = "committed" THEN "announcing" ELSE "done"

Publish(r) ==
  /\ \E t \in Publishable(r) : topic' = topic \cup {<<t, r>>}
  /\ Goto(r, AfterPublish(r))
  /\ UNCHANGED <<incidents, events, diagnoses, executions, op, target, arg, seen>>

PublishFails(r) ==
  /\ "kafka" \in Faults
  /\ Publishable(r) # {}
  /\ Goto(r, AfterPublish(r))
  /\ UNCHANGED <<incidents, events, diagnoses, executions, op, target, arg, seen,
                 topic>>

\* The database refuses the write: rolled back, answered 500.
DbRefuses(r) ==
  /\ "db" \in Faults
  /\ pc[r] = "loaded"
  /\ Goto(r, "failed")
  /\ UNCHANGED <<incidents, events, diagnoses, executions, op, target, arg, seen,
                 topic>>

Serving(s) == {r \in Requests : /\ Service(op[r]) = s
                                /\ pc[r] \in {"loaded", "committed", "announcing"}}

\* A process of service s dies with the requests it was serving, all of the service
\* when it is the only one.
Crash(s) ==
  /\ "crash" \in Faults
  /\ \E dying \in (SUBSET Serving(s)) \ {{}} :
       /\ Replicas = 1 => dying = Serving(s)
       /\ pc' = [r \in Requests |-> IF r \in dying THEN "lost" ELSE pc[r]]
  /\ UNCHANGED <<incidents, events, diagnoses, executions, op, target, arg, seen,
                 topic>>

-------------------------------------------------------------------------------
Init ==
  /\ incidents = <<>>
  /\ events = {} /\ diagnoses = {} /\ executions = {}
  /\ op = [r \in Requests |-> "none"]
  /\ target = [r \in Requests |-> 0]
  /\ arg = [r \in Requests |-> [status |-> "detected", root_cause |-> NoCause]]
  /\ seen = [r \in Requests |-> NoRow]
  /\ pc = [r \in Requests |-> "new"]
  /\ topic = {}

Services == {"transaction-monitor", "diagnostic-engine", "automation-engine",
             "incident-service"}

Finish(r) == DiagnoseCommit(r) \/ AutomateCommit(r) \/ PatchCommit(r) \/ Publish(r)

Next == \/ \E r \in Requests :
             \/ Ingest(r, TRUE) \/ Ingest(r, FALSE) \/ Create(r)
             \/ DiagnoseLoad(r) \/ AutomateLoad(r) \/ PatchLoad(r) \/ PatchMissing(r)
             \/ Finish(r)
             \/ PublishFails(r) \/ DbRefuses(r)
        \/ \E s \in Services : Crash(s)

Spec == Init /\ [][Next]_vars

-------------------------------------------------------------------------------
\* An incident shown as resolved has a resolution time, also when the services
\* update the row concurrently from stale copies.
ResolvedHasTimestamp ==
  \A i \in DOMAIN incidents :
    incidents[i].status = "resolved" => incidents[i].resolved_at

\* Once a diagnosis of an existing incident is committed the incident has a
\* root cause for ever, whatever PATCHes run beside it.
DiagnosedHasRootCause ==
  \A r \in diagnoses :
    seen[r] # NoRow => incidents[target[r]].root_cause # NoCause

\* No message runs ahead of the tables: each one names rows that are there.
EventsFollowCommits ==
  \A m \in topic :
    LET r == m[2] IN
    CASE m[1] = "transaction.events" -> r \in events
      [] m[1] = "anomaly.detected" -> r \in events /\ target[r] \in DOMAIN incidents
      [] m[1] = "rca.completed" -> r \in diagnoses
      [] m[1] = "automation.requested" -> r \in executions

-------------------------------------------------------------------------------
(* The promise of IncidentContract, read off the table.                    *)
Told(row) == [status  |-> row.status,
              caused  |-> row.root_cause # NoCause,
              stamped |-> row.resolved_at]

Contract == INSTANCE IncidentContract
              WITH ledger <- [i \in DOMAIN incidents |-> Told(incidents[i])]

\* However many services write a row at once, each from a copy it loaded before,
\* with their COMMITs refused or their acknowledgements lost, readers see rows that
\* are written one at a time, each write in one step: an UPDATE of the changed
\* columns never forgets a cause, nor parts "resolved" from its time.
ImplementsIncidentContract == Contract!Spec
===============================================================================
