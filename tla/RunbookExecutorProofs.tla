------------------------- MODULE RunbookExecutorProofs -------------------------
(***************************************************************************)
(* The start of any number of processes, with any number of attempts and   *)
(* outages, and the runs of any set of runbooks by any number of requests. *)
(***************************************************************************)
EXTENDS RunbookExecutor, SequenceTheorems, TLAPS

USE StartupAssumption, ExecutorAssumption

-------------------------------------------------------------------------------
(* The start.                                                              *)

\* A start that goes on has missed the database at each attempt before the one it
\* is at, one that gave it up at all of them.
AttemptsMissed ==
  \A p \in Processes :
    /\ missed[p] = IF excuse[p] = "outage" THEN Attempts ELSE attempt[p] - 1
    /\ excuse[p] # "none" => boot[p] = "down"

\* Who has lost the race once finds the tables and does not create them again.
RaceOver ==
  \A p \in Processes : raced[p] > 0 => raced[p] = 1 /\ tables /\ boot[p] # "creating"

StartupInv == StartupTypeOK /\ AttemptsMissed /\ RaceOver /\ ServingHasTables

LEMMA StartupInitial == StartupInit => StartupInv
BY DEF StartupInit, StartupInv, StartupTypeOK, AttemptsMissed, RaceOver, ServingHasTables

\* An attempt that does not reach the database leads to the next one or, the
\* last one, to the end of the process.
LEMMA RetryEffect ==
  ASSUME StartupTypeOK, NEW p \in Processes, NEW from, Retry(p, from)
  PROVE  \/ /\ attempt[p] = Attempts
            /\ boot' = [boot EXCEPT ![p] = "down"]
            /\ excuse' = [excuse EXCEPT ![p] = "outage"]
            /\ attempt' = attempt
         \/ /\ attempt[p] < Attempts
            /\ boot' = [boot EXCEPT ![p] = "checking"]
            /\ attempt' = [attempt EXCEPT ![p] = @ + 1]
            /\ excuse' = excuse
BY DEF Retry, StartFails, BootTo, StartupTypeOK

LEMMA OutageKeepsStartup ==
  ASSUME StartupInv, NEW p \in Processes, Outage(p)
  PROVE  StartupInv'
<1> USE DEF StartupInv
<1>1. /\ outages' = outages + 1 /\ outages < MaxOutages /\ crashes' = crashes
      /\ tables' \in {tables, TRUE} /\ raced' = raced
      /\ missed' = [missed EXCEPT ![p] = @ + 1]
      /\ Retry(p, "checking") \/ Retry(p, "creating")
      /\ boot[p] \in {"checking", "creating"}
  BY DEF Outage, Retry, StartFails, BootTo
<1>2. /\ tables \in BOOLEAN
      /\ outages \in 0 .. MaxOutages /\ crashes \in 0 .. MaxCrashes
      /\ attempt \in [Processes -> 1 .. Attempts]
      /\ boot \in [Processes -> {"down", "checking", "creating", "serving"}]
      /\ excuse \in [Processes -> {"none", "outage", "race"}]
      /\ missed \in [Processes -> 0 .. Attempts]
      /\ raced \in [Processes -> 0 .. 2]
  BY DEF StartupTypeOK
<1>3. outages' \in 0 .. MaxOutages /\ tables' \in BOOLEAN /\ (tables => tables')
  <2>1. outages' \in 0 .. MaxOutages
    BY <1>1, <1>2
  <2> QED
    BY <1>1, <1>2, <2>1, Zenon
<1>4. missed[p] = attempt[p] - 1 /\ excuse[p] = "none" /\ attempt[p] \in 1 .. Attempts
  BY <1>1, <1>2 DEF AttemptsMissed
<1>5. missed' \in [Processes -> 0 .. Attempts] /\ missed'[p] = attempt[p]
  <2>1. missed[p] + 1 = attempt[p] /\ attempt[p] \in 0 .. Attempts
    BY <1>4
  <2> QED
    BY <1>1, <1>2, <2>1
<1>6. CASE /\ attempt[p] = Attempts
           /\ boot' = [boot EXCEPT ![p] = "down"]
           /\ excuse' = [excuse EXCEPT ![p] = "outage"]
           /\ attempt' = attempt
  <2>1. StartupTypeOK'
    BY <1>1, <1>2, <1>3, <1>5, <1>6 DEF StartupTypeOK
  <2>2. AttemptsMissed'
    BY <1>1, <1>2, <1>5, <1>6 DEF AttemptsMissed
  <2>3. RaceOver'
    BY <1>1, <1>2, <1>3, <1>6 DEF RaceOver
  <2>4. ServingHasTables'
    BY <1>2, <1>3, <1>6 DEF ServingHasTables
  <2> QED
    BY <2>1, <2>2, <2>3, <2>4
<1>7. CASE /\ attempt[p] < Attempts
           /\ boot' = [boot EXCEPT ![p] = "checking"]
           /\ attempt' = [attempt EXCEPT ![p] = @ + 1]
           /\ excuse' = excuse
  <2>1. StartupTypeOK'
    BY <1>1, <1>2, <1>3, <1>5, <1>7 DEF StartupTypeOK
  <2>2. AttemptsMissed'
    BY <1>1, <1>2, <1>4, <1>5, <1>7 DEF AttemptsMissed
  <2>3. RaceOver'
    BY <1>1, <1>2, <1>3, <1>7 DEF RaceOver
  <2>4. ServingHasTables'
    BY <1>2, <1>3, <1>7 DEF ServingHasTables
  <2> QED
    BY <2>1, <2>2, <2>3, <2>4
<1> QED
  BY <1>1, <1>6, <1>7, RetryEffect

LEMMA StartupStep ==
  ASSUME StartupInv,
         \/ \E p \in Processes : Launch(p) \/ InitDb(p) \/ ProcessDies(p)
         \/ UNCHANGED <<tables, boot, attempt, observed, crashes>>
            /\ outages' \in {outages, outages + 1} /\ outages' <= MaxOutages
  PROVE  StartupInv'
<1> USE DEF StartupInv
<1>1. CASE UNCHANGED <<tables, boot, attempt, observed, crashes>>
           /\ outages' \in {outages, outages + 1} /\ outages' <= MaxOutages
  BY <1>1 DEF StartupTypeOK, AttemptsMissed, RaceOver, ServingHasTables, observed
<1>2. ASSUME NEW p \in Processes, Launch(p)  PROVE StartupInv'
  BY <1>2 DEF Launch, BootTo, StartupTypeOK, AttemptsMissed, RaceOver, ServingHasTables
<1>3. ASSUME NEW p \in Processes, Check(p) \/ Create(p) \/ CreateRaced(p)  PROVE StartupInv'
  BY <1>3 DEF Check, Create, CreateRaced, BootTo, StartupTypeOK, AttemptsMissed, RaceOver,
              ServingHasTables, observed
<1>4. ASSUME NEW p \in Processes, CreateTooLate(p)  PROVE StartupInv'
  BY <1>4 DEF CreateTooLate, StartFails, BootTo, StartupTypeOK, AttemptsMissed, RaceOver,
              ServingHasTables
<1>5. ASSUME NEW p \in Processes, ProcessDies(p)  PROVE StartupInv'
  BY <1>5 DEF ProcessDies, StartupTypeOK, AttemptsMissed, RaceOver, ServingHasTables, observed
<1> QED
  BY <1>1, <1>2, <1>3, <1>4, <1>5, OutageKeepsStartup DEF InitDb

-------------------------------------------------------------------------------
(* The requests.                                                           *)

\* What a request has done and stored, at each stage of its progress.
RunOf(r) ==
  /\ Len(results[r]) <= Len(Plan(r))
  /\ rows[r] = <<>> \/ rows[r] = results[r]
  /\ rows[r] # <<>> => pc[r] \in {"completed", "500"}
  /\ pc[r] \in {"new", "404"} => results[r] = <<>>
  /\ pc[r] \in {"completed", "500"} => Len(results[r]) = Len(Plan(r))
  /\ pc[r] = "completed" => rows[r] = results[r]
  /\ pc[r] = "500" => r \in cut
  /\ pc[r] = "acting" => boot[at[r]] = "serving"

RunsInStep == \A r \in Requests : RunOf(r)

\* A result that says success has its effect ...
SuccessesHappened ==
  \A r \in Requests : \A i \in DOMAIN results[r] :
    results[r][i] = "success" /\ Plan(r)[i] \in {"k8s", "ansible"} => <<r, i>> \in performed

\* ... and an effect has its result.
EffectsHaveResults == \A a \in performed : a[2] \in DOMAIN results[a[1]]

ExecutorInv == /\ StartupInv /\ TypeOK
               /\ RunsInStep /\ SuccessesHappened /\ EffectsHaveResults

LEMMA ExecutorInitial == Init => ExecutorInv
<1> SUFFICES ASSUME Init  PROVE ExecutorInv
  OBVIOUS
<1>1. /\ (CHOOSE p \in Executors : TRUE) \in Executors
      /\ (CHOOSE rb \in Playbooks : TRUE) \in Playbooks
  OBVIOUS
<1>2. StartupInv
  BY StartupInitial DEF Init
<1>3. TypeOK
  BY <1>1, <1>2 DEF Init, TypeOK, StartupInv
<1>4. \A r \in Requests : /\ pc[r] = "new" /\ results[r] = <<>> /\ rows[r] = <<>>
                          /\ Len(Plan(r)) \in Nat
  BY <1>1 DEF Init, Plan
<1>5. RunsInStep
  BY <1>4 DEF RunsInStep, RunOf
<1>6. SuccessesHappened
  BY <1>4 DEF SuccessesHappened
<1>7. EffectsHaveResults
  BY DEF Init, EffectsHaveResults
<1> QED
  BY <1>2, <1>3, <1>5, <1>6, <1>7 DEF ExecutorInv

\* An action of the runbook gives its result.
LEMMA ResultKeepsRuns ==
  ASSUME ExecutorInv, NEW r \in Requests, NEW status \in Statuses, NEW effect \in BOOLEAN,
         pc[r] = "acting", HasNext(r),
         status = "success" /\ Plan(r)[Current(r)] \in {"k8s", "ansible"} => effect,
         Result(r, status, effect), loaded' \in [Executors -> BOOLEAN]
  PROVE  ExecutorInv'
<1>1. /\ TypeOK /\ StartupInv /\ RunsInStep /\ SuccessesHappened /\ EffectsHaveResults
      /\ results' = [results EXCEPT ![r] = Append(@, status)]
      /\ UNCHANGED <<startupVars, pc, at, runbook, rows, cut>>
      /\ performed' = IF effect THEN performed \cup {<<r, Current(r)>>} ELSE performed
  BY DEF ExecutorInv, Result
<1>2. StartupInv'
  BY <1>1, StartupStep DEF startupVars, StartupInv, StartupTypeOK
<1>3. /\ results \in [Requests -> Seq(Statuses)]
      /\ \A q \in Requests : /\ results[q] \in Seq(Statuses) /\ Plan(q)' = Plan(q)
                             /\ Plan(q) \in Seq(Types)
  BY <1>1 DEF TypeOK, Plan
<1>4. /\ Append(results[r], status) \in Seq(Statuses)
      /\ Len(Append(results[r], status)) = Len(results[r]) + 1
      /\ DOMAIN Append(results[r], status) = 1 .. Len(results[r]) + 1
      /\ DOMAIN results[r] = 1 .. Len(results[r])
      /\ Current(r) = Len(results[r]) + 1
      /\ Len(results[r]) \in Nat
      /\ Append(results[r], status)[Current(r)] = status
      /\ \A i \in 1 .. Len(results[r]) : Append(results[r], status)[i] = results[r][i]
  BY <1>3 DEF Current
<1>5. \A q \in Requests : results'[q] = IF q = r THEN Append(results[r], status)
                                               ELSE results[q]
  BY <1>1, <1>3
<1>5a. /\ \A q \in Requests : DOMAIN results[q] \subseteq DOMAIN results'[q]
       /\ DOMAIN results'[r] = DOMAIN results[r] \cup {Current(r)}
       /\ results'[r][Current(r)] = status
  <2>1. results'[r] = Append(results[r], status)
    BY <1>5
  <2>2. DOMAIN results'[r] = DOMAIN results[r] \cup {Current(r)}
    <3>1. DOMAIN results'[r] = 1 .. Len(results[r]) + 1
      BY <2>1, <1>4, Zenon
    <3>2. 1 .. Len(results[r]) + 1 = 1 .. Len(results[r]) \cup {Len(results[r]) + 1}
      BY <1>4
    <3> QED
      BY <3>1, <3>2, <1>4, Zenon
  <2>3. \A q \in Requests : q # r => results'[q] = results[q]
    BY <1>5
  <2>4. results'[r][Current(r)] = status
    BY <2>1, <1>4, Zenon
  <2> QED
    BY <2>2, <2>3, <2>4, Zenon
<1>6. TypeOK'
  <2>1. results' \in [Requests -> Seq(Statuses)]
    BY <1>1, <1>3, <1>4
  <2>2. performed' \subseteq Requests \X (Nat \ {0})
    <3>1. <<r, Current(r)>> \in Requests \X (Nat \ {0})
      BY <1>4
    <3> QED
      BY <1>1, <3>1 DEF TypeOK
  <2> QED
    BY <1>1, <1>2, <2>1, <2>2 DEF TypeOK, StartupInv, startupVars
<1>7. RunsInStep'
  <2> SUFFICES ASSUME NEW q \in Requests  PROVE RunOf(q)'
    BY DEF RunsInStep
  <2>1. RunOf(q)
    BY <1>1 DEF RunsInStep
  <2>2. /\ pc' = pc /\ rows' = rows /\ at' = at /\ boot' = boot /\ cut' = cut
        /\ Plan(q)' = Plan(q)
    BY <1>1, <1>3 DEF startupVars
  <2>3. CASE q # r
    BY <2>1, <2>2, <2>3, <1>5 DEF RunOf
  <2>4. CASE q = r
    BY <2>1, <2>2, <2>4, <1>3, <1>4, <1>5 DEF RunOf, HasNext
  <2> QED
    BY <2>3, <2>4
<1>8. SuccessesHappened'
  <2> SUFFICES ASSUME NEW q \in Requests, NEW i \in DOMAIN results'[q],
                      results'[q][i] = "success", Plan(q)[i] \in {"k8s", "ansible"}
               PROVE  <<q, i>> \in performed'
    BY <1>3 DEF SuccessesHappened
  <2>1. performed \subseteq performed'
    BY <1>1
  <2>2. CASE q # r \/ i \in DOMAIN results[r]
    <3>1. /\ results'[q][i] = results[q][i] /\ i \in DOMAIN results[q]
      BY <2>2, <1>4, <1>5
    <3> QED
      BY <3>1, <2>1, <1>1 DEF SuccessesHappened
  <2>3. CASE q = r /\ i \notin DOMAIN results[r]
    <3>1. i = Current(r) /\ status = "success"
      BY <2>3, <1>5a, Zenon
    <3>2. effect
      BY <3>1, <2>3
    <3> QED
      BY <3>1, <3>2, <2>3, <1>1
  <2> QED
    BY <2>2, <2>3
<1>9. EffectsHaveResults'
  <2> SUFFICES ASSUME NEW a \in performed'  PROVE a[2] \in DOMAIN results'[a[1]]
    BY DEF EffectsHaveResults
  <2>1. CASE a \in performed
    <3>1. a[1] \in Requests /\ a[2] \in DOMAIN results[a[1]]
      BY <2>1, <1>1 DEF EffectsHaveResults, TypeOK
    <3> QED
      BY <3>1, <1>5a, Zenon
  <2>2. CASE a = <<r, Current(r)>>
    <3>1. a[1] = r /\ a[2] = Current(r)
      BY <2>2
    <3> QED
      BY <3>1, <1>5a, Zenon
  <2> QED
    BY <2>1, <2>2, <1>1
<1> QED
  BY <1>2, <1>6, <1>7, <1>8, <1>9 DEF ExecutorInv

\* The actions of a runbook.
LEMMA ActionKeepsRuns ==
  ASSUME ExecutorInv, NEW r \in Requests,
         K8sConfigFails(r) \/ K8sPatch(r) \/ Ansible(r) \/ Note(r) \/ Unsupported(r)
  PROVE  ExecutorInv'
<1>1. loaded \in [Executors -> BOOLEAN]
  BY DEF ExecutorInv, TypeOK
<1>2. PICK status \in Statuses, effect \in BOOLEAN :
        /\ Result(r, status, effect) /\ pc[r] = "acting" /\ HasNext(r)
        /\ status = "success" /\ Plan(r)[Current(r)] \in {"k8s", "ansible"} => effect
  <2>1. "success" \in Statuses /\ "failed" \in Statuses /\ "failed" # "success"
    BY DEF Statuses
  <2>2. CASE K8sConfigFails(r)
    BY <2>1, <2>2 DEF K8sConfigFails, NextIs
  <2>3. CASE K8sPatch(r)
    BY <2>1, <2>3 DEF K8sPatch, NextIs
  <2>4. CASE Ansible(r)
    BY <2>1, <2>4 DEF Ansible, AnsibleResult, NextIs
  <2>5. CASE Note(r)
    BY <2>1, <2>5 DEF Note, NextIs
  <2>6. CASE Unsupported(r)
    BY <2>1, <2>6 DEF Unsupported, NextIs
  <2> QED
    BY <2>2, <2>3, <2>4, <2>5, <2>6
<1>3. loaded' \in [Executors -> BOOLEAN]
  BY <1>1 DEF K8sConfigFails, K8sPatch, Ansible, Note, Unsupported
<1> QED
  BY <1>2, <1>3, ResultKeepsRuns

\* A request changes its place only: it arrives, stores its rows, fails to, or is
\* lost with its process.
LEMMA MoveKeepsRuns ==
  ASSUME ExecutorInv, StartupInv', UNCHANGED <<results, performed>>,
         TypeOK', RunsInStep',
         \A r \in Requests : runbook'[r] = runbook[r] \/ results[r] = <<>>
  PROVE  ExecutorInv'
<1>1. SuccessesHappened'
  <2> SUFFICES ASSUME NEW q \in Requests, NEW i \in DOMAIN results[q],
                      results[q][i] = "success", Plan(q)' [i] \in {"k8s", "ansible"}
               PROVE  <<q, i>> \in performed
    BY DEF SuccessesHappened
  <2>1. results[q] # <<>>
    OBVIOUS
  <2>2. Plan(q)' = Plan(q)
    BY <2>1 DEF Plan
  <2> QED
    BY <2>2 DEF ExecutorInv, SuccessesHappened
<1>2. EffectsHaveResults'
  BY DEF ExecutorInv, EffectsHaveResults
<1> QED
  BY <1>1, <1>2 DEF ExecutorInv

\* A request comes to a process that serves.
LEMMA ArrivalKeepsRuns ==
  ASSUME ExecutorInv, NEW r \in Requests, NEW p \in Executors, Accept(r, p) \/ NotFound(r, p)
  PROVE  ExecutorInv'
<1> DEFINE to == IF Accept(r, p) THEN "acting" ELSE "404"
<1>1. /\ pc[r] = "new" /\ boot[p] = "serving" /\ pc' = [pc EXCEPT ![r] = to]
      /\ at' = [at EXCEPT ![r] = p]
      /\ UNCHANGED <<startupVars, results, performed, rows, cut, loaded>>
      /\ runbook' = runbook \/ \E rb \in Playbooks : runbook' = [runbook EXCEPT ![r] = rb]
  BY DEF Accept, NotFound, Arrives
<1>2. to \in {"acting", "404"}
  OBVIOUS
<1> HIDE DEF to
<1>3. TypeOK /\ StartupInv /\ RunsInStep
  BY DEF ExecutorInv
<1>4. StartupInv'
  BY <1>1, <1>3, StartupStep DEF startupVars, StartupInv, StartupTypeOK
<1>5. runbook' \in [Requests -> Playbooks] /\ \A q \in Requests : q # r => runbook'[q] = runbook[q]
  BY <1>1, <1>3 DEF TypeOK
<1>6. TypeOK'
  <2>1. pc' \in [Requests -> {"new", "acting", "completed", "404", "500", "lost"}]
    BY <1>1, <1>2, <1>3 DEF TypeOK
  <2>2. at' \in [Requests -> Executors]
    BY <1>1, <1>3 DEF TypeOK
  <2> QED
    BY <1>1, <1>3, <1>4, <1>5, <2>1, <2>2 DEF TypeOK, StartupInv
<1>7. results[r] = <<>> /\ rows[r] = <<>>
  BY <1>1, <1>3 DEF RunsInStep, RunOf
<1>8. RunsInStep'
  <2> SUFFICES ASSUME NEW q \in Requests  PROVE RunOf(q)'
    BY DEF RunsInStep
  <2>1. RunOf(q) /\ boot' = boot /\ cut' = cut /\ rows' = rows /\ results' = results
    BY <1>1, <1>3 DEF RunsInStep, startupVars
  <2>2. CASE q # r
    <3>1. pc'[q] = pc[q] /\ at'[q] = at[q] /\ Plan(q)' = Plan(q)
      BY <1>1, <1>3, <1>5, <2>2 DEF TypeOK, Plan
    <3> QED
      BY <2>1, <3>1 DEF RunOf
  <2>3. CASE q = r
    <3>1. pc'[r] = to /\ at'[r] = p
      BY <1>1, <1>3 DEF TypeOK
    <3>2. Len(results[r]) = 0
      BY <1>7
    <3>3. Plan(r)' \in Seq(Types)
      BY <1>5 DEF Plan
    <3>4. Len(Plan(r)') \in Nat
      BY <3>3
    <3> QED
      BY <1>1, <1>2, <1>7, <2>1, <2>3, <3>1, <3>2, <3>4 DEF RunOf
  <2> QED
    BY <2>2, <2>3
<1> QED
  BY <1>1, <1>4, <1>5, <1>6, <1>7, <1>8, MoveKeepsRuns

\* The rows of a request are stored, or the COMMIT fails.
LEMMA SavingKeepsRuns ==
  ASSUME ExecutorInv, NEW r \in Requests, Save(r) \/ SaveFails(r)
  PROVE  ExecutorInv'
<1>1. TypeOK /\ StartupInv /\ RunsInStep
  BY DEF ExecutorInv
<1>2. /\ pc[r] = "acting" /\ ~ HasNext(r)
      /\ UNCHANGED <<tables, boot, attempt, observed, crashes, at, runbook, results,
                     performed, loaded>>
      /\ cut \subseteq cut' /\ cut' \subseteq Requests
      /\ rows' = rows \/ rows' = [rows EXCEPT ![r] = results[r]]
      /\ outages' \in {outages, outages + 1} /\ outages' <= MaxOutages
  <2>1. outages \in 0 .. MaxOutages
    BY <1>1 DEF TypeOK, StartupTypeOK
  <2>2. cut \subseteq Requests
    BY <1>1 DEF TypeOK
  <2> QED
    BY <2>1, <2>2 DEF Save, SaveFails, startupVars
<1>3. \/ pc' = [pc EXCEPT ![r] = "completed"] /\ rows' = [rows EXCEPT ![r] = results[r]]
      \/ pc' = [pc EXCEPT ![r] = "500"] /\ r \in cut'
  <2>1. RunOf(r)
    BY <1>1 DEF RunsInStep
  <2>2. tables
    BY <1>1, <1>2, <2>1 DEF RunOf, StartupInv, ServingHasTables, TypeOK
  <2>3. CASE Save(r)
    BY <2>3 DEF Save
  <2>4. CASE SaveFails(r)
    <3>1. r \in cut'
      BY <2>2, <2>4 DEF SaveFails
    <3> QED
      BY <2>4, <3>1, Zenon DEF SaveFails
  <2> QED
    BY <2>3, <2>4
<1>4. StartupInv'
  BY <1>1, <1>2, StartupStep
<1>5. TypeOK'
  <2>1. pc' \in [Requests -> {"new", "acting", "completed", "404", "500", "lost"}]
    BY <1>1, <1>3 DEF TypeOK
  <2>2. rows' \in [Requests -> Seq(Statuses)]
    BY <1>1, <1>2 DEF TypeOK
  <2> QED
    BY <1>1, <1>2, <1>4, <2>1, <2>2 DEF TypeOK, StartupInv
<1>6. RunsInStep'
  <2> SUFFICES ASSUME NEW q \in Requests  PROVE RunOf(q)'
    BY DEF RunsInStep
  <2>1. RunOf(q) /\ Plan(q)' = Plan(q) /\ results' = results /\ at' = at /\ boot' = boot
    BY <1>1, <1>2 DEF RunsInStep, Plan
  <2>2. CASE q # r
    <3>1. pc'[q] = pc[q] /\ rows'[q] = rows[q]
      BY <1>1, <1>2, <1>3, <2>2 DEF TypeOK
    <3> QED
      BY <1>2, <2>1, <3>1 DEF RunOf
  <2>3. CASE q = r
    <3>1. Len(results[r]) = Len(Plan(r))
      <4>1. results[r] \in Seq(Statuses) /\ Plan(r) \in Seq(Types)
        BY <1>1 DEF TypeOK, Plan
      <4>2. Len(results[r]) \in Nat /\ Len(Plan(r)) \in Nat
        BY <4>1
      <4> QED
        BY <4>2, <1>2, <2>1, <2>3 DEF RunOf, HasNext, Current
    <3>2. rows'[r] = rows[r] \/ rows'[r] = results[r]
      BY <1>1, <1>2 DEF TypeOK
    <3>3. \/ pc'[r] = "completed" /\ rows'[r] = results[r]
          \/ pc'[r] = "500" /\ r \in cut'
      BY <1>1, <1>3 DEF TypeOK
    <3> QED
      BY <2>1, <2>3, <3>1, <3>2, <3>3 DEF RunOf
  <2> QED
    BY <2>2, <2>3
<1> QED
  BY <1>2, <1>4, <1>5, <1>6, MoveKeepsRuns

\* A process dies, and takes the request it is at with it.
LEMMA DeathKeepsRuns ==
  ASSUME ExecutorInv, NEW p \in Processes, Dies(p)
  PROVE  ExecutorInv'
<1>1. /\ TypeOK /\ StartupInv /\ RunsInStep
      /\ UNCHANGED <<at, runbook, results, performed, rows, cut>>
      /\ boot' = [boot EXCEPT ![p] = "down"]
      /\ pc' = [r \in Requests |-> IF pc[r] = "acting" /\ at[r] = p THEN "lost" ELSE pc[r]]
      /\ loaded' = [q \in Executors |-> loaded[q] /\ q # p]
  BY DEF ExecutorInv, Dies, ProcessDies
<1>2. StartupInv'
  BY <1>1, StartupStep DEF Dies
<1>3. TypeOK'
  <2>1. pc' \in [Requests -> {"new", "acting", "completed", "404", "500", "lost"}]
    BY <1>1 DEF TypeOK
  <2>2. loaded' \in [Executors -> BOOLEAN]
    BY <1>1 DEF TypeOK
  <2> QED
    BY <1>1, <1>2, <2>1, <2>2 DEF TypeOK, StartupInv
<1>4. RunsInStep'
  <2> SUFFICES ASSUME NEW q \in Requests  PROVE RunOf(q)'
    BY DEF RunsInStep
  <2>1. RunOf(q) /\ Plan(q)' = Plan(q)
    BY <1>1 DEF RunsInStep, Plan
  <2>2. pc'[q] = IF pc[q] = "acting" /\ at[q] = p THEN "lost" ELSE pc[q]
    BY <1>1
  <2>3. at[q] # p => boot'[at[q]] = boot[at[q]]
    BY <1>1 DEF TypeOK, StartupTypeOK
  <2> QED
    BY <1>1, <2>1, <2>2, <2>3 DEF RunOf
<1> QED
  BY <1>1, <1>2, <1>3, <1>4, MoveKeepsRuns

\* The start of a process concerns no request: none is at a process that starts.
LEMMA StartKeepsRuns ==
  ASSUME ExecutorInv, NEW p \in Processes, Launch(p) \/ InitDb(p), UNCHANGED requestVars
  PROVE  ExecutorInv'
<1>1. TypeOK /\ StartupInv /\ RunsInStep
  BY DEF ExecutorInv
<1>2. StartupInv'
  BY <1>1, StartupStep
<1>3. TypeOK'
  BY <1>1, <1>2 DEF TypeOK, StartupInv, requestVars
<1>4. boot[p] # "serving" /\ \A q \in Processes : q # p => boot'[q] = boot[q]
  BY <1>1 DEF InitDb, Launch, Check, Create, CreateRaced, CreateTooLate, Outage, Retry,
              StartFails, BootTo, TypeOK, StartupTypeOK
<1>5. RunsInStep'
  <2> SUFFICES ASSUME NEW q \in Requests  PROVE RunOf(q)'
    BY DEF RunsInStep
  <2>1. RunOf(q) /\ Plan(q)' = Plan(q) /\ UNCHANGED <<pc, at, results, rows, cut>>
    BY <1>1 DEF RunsInStep, Plan, requestVars
  <2>2. pc[q] = "acting" => boot'[at[q]] = "serving"
    BY <1>1, <1>4, <2>1 DEF RunOf, TypeOK
  <2> QED
    BY <2>1, <2>2 DEF RunOf
<1> QED
  BY <1>2, <1>3, <1>5, MoveKeepsRuns DEF requestVars

THEOREM ExecutorInvariant == Spec => []ExecutorInv
<1>1. ExecutorInv /\ [Next]_vars => ExecutorInv'
  <2> SUFFICES ASSUME ExecutorInv, [Next]_vars  PROVE ExecutorInv'
    OBVIOUS
  <2>1. CASE UNCHANGED vars
    <3>1. StartupInv'
      BY <2>1, StartupStep DEF ExecutorInv, StartupInv, StartupTypeOK, vars, startupVars
    <3> QED
      BY <2>1, <3>1 DEF ExecutorInv, TypeOK, StartupInv, RunsInStep, RunOf, SuccessesHappened,
                        EffectsHaveResults, Plan, vars, startupVars, requestVars
  <2>2. ASSUME NEW p \in Processes, Starts(p) \/ GetsOn(p) \/ Dies(p)
        PROVE  ExecutorInv'
    BY <2>2, StartKeepsRuns, DeathKeepsRuns DEF Starts, GetsOn
  <2>3. ASSUME NEW r \in Requests,
               (\E p \in Executors : Accept(r, p) \/ NotFound(r, p)) \/ Execute(r)
        PROVE  ExecutorInv'
    BY <2>3, ArrivalKeepsRuns, ActionKeepsRuns, SavingKeepsRuns DEF Execute
  <2> QED
    BY <2>1, <2>2, <2>3 DEF Next
<1> QED
  BY <1>1, ExecutorInitial, PTL DEF Spec

\* Processes, requests and their results keep their types.
THEOREM ExecutorTypeCorrect == Spec => []TypeOK
<1>1. ExecutorInv => TypeOK
  BY DEF ExecutorInv
<1> QED
  BY <1>1, ExecutorInvariant, PTL

\* init_db() returns only when the tables are there, however many services race.
THEOREM ServersHaveTables == Spec => []ServingHasTables
<1>1. ExecutorInv => ServingHasTables
  BY DEF ExecutorInv, StartupInv
<1> QED
  BY <1>1, ExecutorInvariant, PTL

\* Each process gives the database up after Attempts attempts of its own missed it,
\* and not before.
THEOREM AttemptsAreMade == Spec => []GivesUpAfterAttempts
<1>1. ASSUME ExecutorInv  PROVE GivesUpAfterAttempts
  <2> SUFFICES ASSUME NEW p \in Processes
               PROVE  excuse[p] = "outage" <=> missed[p] = Attempts
    BY DEF GivesUpAfterAttempts
  <2>1. /\ attempt[p] \in 1 .. Attempts
        /\ missed[p] = IF excuse[p] = "outage" THEN Attempts ELSE attempt[p] - 1
    BY <1>1 DEF ExecutorInv, StartupInv, StartupTypeOK, AttemptsMissed
  <2> QED
    BY <2>1
<1> QED
  BY <1>1, ExecutorInvariant, PTL

\* The race for the tables costs a process one start at most.
THEOREM RacesAreLostOnce == Spec => []RaceLostOnce
<1>1. ASSUME ExecutorInv  PROVE RaceLostOnce
  <2> SUFFICES ASSUME NEW p \in Processes  PROVE raced[p] <= 1
    BY DEF RaceLostOnce
  <2>1. raced[p] \in 0 .. 2 /\ (raced[p] > 0 => raced[p] = 1)
    BY <1>1 DEF ExecutorInv, StartupInv, StartupTypeOK, RaceOver
  <2> QED
    BY <2>1
<1> QED
  BY <1>1, ExecutorInvariant, PTL

\* A request stores a row for each action of its runbook, or no row.
THEOREM RunsAreStoredWhole == Spec => []StoredRunsComplete
<1>1. ExecutorInv => StoredRunsComplete
  BY DEF ExecutorInv, RunsInStep, RunOf, StoredRunsComplete
<1> QED
  BY <1>1, ExecutorInvariant, PTL

\* What is stored as a success of Kubernetes or ansible has happened.
THEOREM StoredSuccessesAreReal == Spec => []StoredSuccessesHappened
<1>1. ASSUME ExecutorInv  PROVE StoredSuccessesHappened
  <2> SUFFICES ASSUME NEW r \in Requests, NEW i \in DOMAIN rows[r],
                      rows[r][i] = "success", Plan(r)[i] \in {"k8s", "ansible"}
               PROVE  <<r, i>> \in performed
    BY DEF StoredSuccessesHappened
  <2>1. rows[r] = results[r]
    <3>1. rows[r] # <<>>
      OBVIOUS
    <3> QED
      BY <1>1, <3>1 DEF ExecutorInv, RunsInStep, RunOf
  <2> QED
    BY <1>1, <2>1 DEF ExecutorInv, SuccessesHappened
<1> QED
  BY <1>1, ExecutorInvariant, PTL

\* What was done and not stored was cut short by a crash or by a database that was
\* away at the request's own COMMIT.
THEOREM UnstoredWorkIsExcused == Spec => []UnstoredWasCutShort
<1>1. ASSUME ExecutorInv  PROVE UnstoredWasCutShort
  <2> SUFFICES ASSUME NEW a \in performed
               PROVE  \/ a[2] \in DOMAIN rows[a[1]]
                      \/ pc[a[1]] \in {"acting", "lost"}
                      \/ pc[a[1]] = "500" /\ a[1] \in cut
    BY DEF UnstoredWasCutShort
  <2>1. a[1] \in Requests /\ a[2] \in DOMAIN results[a[1]] /\ RunOf(a[1])
    BY <1>1 DEF ExecutorInv, TypeOK, EffectsHaveResults, RunsInStep
  <2>2. results[a[1]] # <<>>
    BY <2>1
  <2>3. pc[a[1]] \in {"new", "acting", "completed", "404", "500", "lost"}
    BY <1>1, <2>1 DEF ExecutorInv, TypeOK
  <2> QED
    BY <2>1, <2>2, <2>3 DEF RunOf
<1> QED
  BY <1>1, ExecutorInvariant, PTL
===============================================================================
