---------------------------- MODULE RunbookExecutor ----------------------------
(***************************************************************************)
(* runbook-executor: POST /api/v1/runbooks/{name}/execute and RunbookEngine *)
(* behind it.  The handler awaits nothing: it blocks its process while it  *)
(* performs the actions of a runbook one after the other, then stores one  *)
(* row per action in one COMMIT.                                           *)
(*                                                                         *)
(* An action patches a deployment of Kubernetes ("k8s"), restarts a        *)
(* service through ansible ("ansible"), only says that something was       *)
(* scheduled ("note": retries, failover, drain, replay, reconciliation),   *)
(* or is of no supported type or lacks a parameter ("bad").                *)
(*                                                                         *)
(* Bound: the Requests of a run.                                           *)
(***************************************************************************)
EXTENDS Startup, Sequences

CONSTANTS Executors,   \* the processes of runbook-executor
          Requests,
          Playbooks,   \* names with a file in RUNBOOK_DIR
          Actions      \* the types of the actions in each file

Types == {"k8s", "ansible", "note", "bad"}

ASSUME ExecutorAssumption == /\ Executors \subseteq Processes /\ Executors # {}
                             /\ Playbooks # {}
                             /\ Actions \in [Playbooks -> Seq(Types)]

VARIABLES pc,          \* progress of each request
          at,          \* the process it came to
          runbook,     \* the runbook it asks for
          results,     \* the results so far
          performed,   \* <<request, n>>: the n-th action changed something outside
          rows,        \* what a request stored in runbook_executions
          cut,         \* requests whose COMMIT the database was away for
          loaded       \* _k8s_loaded of each process

requestVars == <<pc, at, runbook, results, performed, rows, cut, loaded>>
vars == <<startupVars, requestVars>>

Statuses == {"success", "failed"}

TypeOK ==
  /\ StartupTypeOK
  /\ pc \in [Requests -> {"new", "acting", "completed", "404", "500", "lost"}]
  /\ at \in [Requests -> Executors]
  /\ runbook \in [Requests -> Playbooks]
  /\ results \in [Requests -> Seq(Statuses)]
  /\ performed \subseteq Requests \X (Nat \ {0})
  /\ rows \in [Requests -> Seq(Statuses)]
  /\ cut \subseteq Requests
  /\ loaded \in [Executors -> BOOLEAN]

Plan(r) == Actions[runbook[r]]

Free(p) == \A r \in Requests : pc[r] = "acting" => at[r] # p

\* A request comes to a process that serves.
Arrives(r, p, to) ==
  /\ boot[p] = "serving" /\ Free(p)
  /\ pc[r] = "new" /\ pc' = [pc EXCEPT ![r] = to]
  /\ at' = [at EXCEPT ![r] = p]
  /\ UNCHANGED <<startupVars, results, performed, rows, cut, loaded>>

\* _load_runbook(): the file is there, or not.
Accept(r, p) == /\ \E rb \in Playbooks : runbook' = [runbook EXCEPT ![r] = rb]
                /\ Arrives(r, p, "acting")

NotFound(r, p) == Arrives(r, p, "404") /\ UNCHANGED runbook

-------------------------------------------------------------------------------
(* execute_actions().                                                      *)

Current(r) == Len(results[r]) + 1

\* Mutant: a failed action ends the run.
StopsAtFailure(r) == "failed" \notin {results[r][i] : i \in DOMAIN results[r]}
                       /\ Current(r) <= Len(Plan(r))

HasNext(r) == Current(r) <= Len(Plan(r))

NextIs(r, type) ==
  pc[r] = "acting" /\ HasNext(r) /\ Plan(r)[Current(r)] = type

\* It gives this result, with or without an effect outside.
Result(r, status, effect) ==
  /\ results' = [results EXCEPT ![r] = Append(@, status)]
  /\ performed' = IF effect THEN performed \cup {<<r, Current(r)>>} ELSE performed
  /\ UNCHANGED <<startupVars, pc, at, runbook, rows, cut>>

\* The configuration is loaded once, from the cluster or else from a file; the
\* patch is answered, refused, or its answer is lost.  If neither can be loaded,
\* the flag stays as it is.
K8sConfigFails(r) ==
  /\ NextIs(r, "k8s") /\ ~ loaded[at[r]]
  /\ Result(r, "failed", FALSE)
  /\ UNCHANGED loaded

K8sPatch(r) ==
  /\ NextIs(r, "k8s")
  /\ Result(r, "success", TRUE) \/ \E effect \in BOOLEAN : Result(r, "failed", effect)
  /\ loaded' = [loaded EXCEPT ![at[r]] = TRUE]

\* Mutant: the exit code of ansible is not looked at.
AnsibleUnchecked(r) == \E effect \in BOOLEAN : Result(r, "success", effect)

\* The exit code of ansible decides; hosts of the group may have been restarted
\* all the same.
AnsibleResult(r) ==
  Result(r, "success", TRUE) \/ \E effect \in BOOLEAN : Result(r, "failed", effect)

Ansible(r) == /\ NextIs(r, "ansible")
              /\ AnsibleResult(r)
              /\ UNCHANGED loaded

Note(r) == /\ NextIs(r, "note")
           /\ Result(r, "success", FALSE)
           /\ UNCHANGED loaded

\* ValueError or KeyError, caught like every exception of an action.
Unsupported(r) == /\ NextIs(r, "bad")
                  /\ Result(r, "failed", FALSE)
                  /\ UNCHANGED loaded

-------------------------------------------------------------------------------
\* Mutant: commit() is forgotten.
SaveForgets(r) ==
  /\ pc[r] = "acting" /\ ~ HasNext(r) /\ tables
  /\ pc' = [pc EXCEPT ![r] = "completed"]
  /\ UNCHANGED <<startupVars, at, runbook, results, performed, rows, cut, loaded>>

\* The rows of all results in one COMMIT; "completed" whatever they are.
Save(r) ==
  /\ pc[r] = "acting" /\ ~ HasNext(r) /\ tables
  /\ rows' = [rows EXCEPT ![r] = results[r]]
  /\ pc' = [pc EXCEPT ![r] = "completed"]
  /\ UNCHANGED <<startupVars, at, runbook, results, performed, cut, loaded>>

\* The COMMIT fails: the database is away, before it took effect or after, or it
\* has no such table.
SaveFails(r) ==
  /\ pc[r] = "acting" /\ ~ HasNext(r)
  /\ \/ ~ tables /\ UNCHANGED <<outages, rows, cut>>
     \/ /\ tables /\ outages < MaxOutages
        /\ outages' = outages + 1
        /\ rows' \in {rows, [rows EXCEPT ![r] = results[r]]}
        /\ cut' = cut \cup {r}
  /\ pc' = [pc EXCEPT ![r] = "500"]
  /\ UNCHANGED <<tables, boot, attempt, observed, crashes, at, runbook, results,
                 performed, loaded>>

\* The process dies with the request it is at.
Dies(p) ==
  /\ ProcessDies(p)
  /\ pc' = [r \in Requests |-> IF pc[r] = "acting" /\ at[r] = p THEN "lost" ELSE pc[r]]
  /\ loaded' = [q \in Executors |-> loaded[q] /\ q # p]
  /\ UNCHANGED <<at, runbook, results, performed, rows, cut>>

Init ==
  /\ StartupInit
  /\ pc = [r \in Requests |-> "new"]
  /\ at = [r \in Requests |-> CHOOSE p \in Executors : TRUE]
  /\ runbook = [r \in Requests |-> CHOOSE rb \in Playbooks : TRUE]
  /\ results = [r \in Requests |-> <<>>]
  /\ performed = {}
  /\ rows = [r \in Requests |-> <<>>]
  /\ cut = {}
  /\ loaded = [p \in Executors |-> FALSE]

Execute(r) == \/ K8sConfigFails(r) \/ K8sPatch(r) \/ Ansible(r) \/ Note(r)
              \/ Unsupported(r) \/ Save(r) \/ SaveFails(r)

Starts(p) == Launch(p) /\ UNCHANGED requestVars
GetsOn(p) == InitDb(p) /\ UNCHANGED requestVars

Next == \/ \E p \in Processes : Starts(p) \/ GetsOn(p) \/ Dies(p)
        \/ \E r \in Requests : \/ \E p \in Executors : Accept(r, p) \/ NotFound(r, p)
                               \/ Execute(r)

Spec == Init /\ [][Next]_vars

\* A process gets on with its start, and Kubernetes restarts what it manages; of
\* the others nobody need start one that ended.  Nothing is assumed of the actions:
\* neither ansible nor the client of Kubernetes has a timeout here.
FairSpec == /\ Spec
            /\ \A p \in Processes : WF_vars(GetsOn(p))
            /\ \A p \in Managed : WF_vars(Starts(p))

-------------------------------------------------------------------------------
\* A run that was stored has a row for each action of its runbook, in order:
\* a failed action takes nothing from the ones after it, and a request stores all
\* of its results or none.
StoredRunsComplete ==
  \A r \in Requests : rows[r] # <<>> \/ pc[r] = "completed"
    => Len(rows[r]) = Len(Plan(r))

\* An action of Kubernetes or ansible that is stored as a success was performed.
StoredSuccessesHappened ==
  \A r \in Requests : \A i \in DOMAIN rows[r] :
    rows[r][i] = "success" /\ Plan(r)[i] \in {"k8s", "ansible"} => <<r, i>> \in performed

\* An action that was performed and has no row belongs to a request that is still
\* at it, died with its process or met a database that was away at its own COMMIT:
\* never for want of the tables, whatever else failed before or elsewhere.
UnstoredWasCutShort ==
  \A a \in performed : \/ a[2] \in DOMAIN rows[a[1]]
                       \/ pc[a[1]] \in {"acting", "lost"}
                       \/ pc[a[1]] = "500" /\ a[1] \in cut
===============================================================================
