------------------------ MODULE IncidentLifecycleProofs ------------------------
(***************************************************************************)
(* The incidents table keeps its meaning for every number of concurrent    *)
(* requests, although every handler writes from a copy it loaded earlier.  *)
(***************************************************************************)
EXTENDS IncidentLifecycle, TLAPS

USE PatchAssumption, IdsAssumption, CausesAssumption

\* What a request between SELECT and COMMIT knows about its row.
Loaded(r) ==
  pc[r] = "loaded" =>
    /\ op[r] \in {"diagnose", "automate", "patch"}
    /\ op[r] = "patch" => seen[r] # NoRow
    /\ seen[r] # NoRow =>
         /\ target[r] \in DOMAIN incidents
         /\ seen[r].root_cause # NoCause => incidents[target[r]].root_cause # NoCause

\* A committed diagnosis and the incident it was about.
Diagnosis(r) ==
  r \in diagnoses =>
    /\ pc[r] \notin {"new", "loaded"}
    /\ seen[r] # NoRow => /\ target[r] \in DOMAIN incidents
                          /\ incidents[target[r]].root_cause # NoCause

\* What a request has committed by the time it publishes.
Committed(r) ==
  /\ op[r] \in {"ingest_ok", "ingest_failed"} => r \in events
  /\ op[r] = "ingest_failed" => target[r] \in DOMAIN incidents
  /\ op[r] = "diagnose" => r \in diagnoses
  /\ op[r] = "automate" => r \in executions

Announces(t, r) ==
  /\ pc[r] # "new" /\ pc[r] # "loaded"
  /\ Committed(r)
  /\ t = "transaction.events" => op[r] \in {"ingest_ok", "ingest_failed"}
  /\ t = "anomaly.detected" => op[r] = "ingest_failed"
  /\ t = "rca.completed" => op[r] = "diagnose"
  /\ t = "automation.requested" => op[r] = "automate"

Publishing(r) ==
  /\ pc[r] \in {"committed", "announcing"} => Committed(r)
  /\ pc[r] = "announcing" => op[r] = "ingest_failed"
  /\ \A t \in Topics : <<t, r>> \in topic => Announces(t, r)

RequestInv(r) == Loaded(r) /\ Diagnosis(r) /\ Publishing(r)

IncidentInv == /\ TypeOK /\ ResolvedHasTimestamp
               /\ \A r \in Requests : RequestInv(r)

LEMMA IncidentInit == Init => IncidentInv
<1> SUFFICES ASSUME Init  PROVE IncidentInv
  OBVIOUS
<1>1. TypeOK
  BY DEF Init, TypeOK, Ops, Bodies, Statuses, PCs
<1> QED
  BY <1>1 DEF Init, IncidentInv, ResolvedHasTimestamp, RequestInv, Loaded, Diagnosis,
             Publishing

\* A row the handlers may write over row cur.
MayReplace(new, cur) ==
  /\ new \in Rows
  /\ new.status = "resolved" => new.resolved_at
  /\ cur.root_cause # NoCause => new.root_cause # NoCause

\* Each handler's UPDATE, computed from a row that may be stale, is of a kind
\* the invariant survives.
LEMMA DiagnosedMayReplace ==
  ASSUME NEW cur \in Rows, NEW old \in Rows,
         cur.status = "resolved" => cur.resolved_at,
         old.root_cause # NoCause => cur.root_cause # NoCause
  PROVE  /\ MayReplace(Diagnosed(cur, old), cur)
         /\ Diagnosed(cur, old).root_cause # NoCause
BY DEF MayReplace, Diagnosed, Written, Rows, Statuses, Rca, NoCause

LEMMA AutomatedMayReplace ==
  ASSUME NEW cur \in Rows, NEW old \in Rows,
         cur.status = "resolved" => cur.resolved_at
  PROVE  MayReplace(Automated(cur, old), cur)
<1> DEFINE s == Written(cur.status, old.status, "auto-fix-running")
<1>1. s \in Statuses /\ (s = "resolved" => cur.status = "resolved")
  BY DEF Written, Rows, Statuses
<1> HIDE DEF s
<1>2. [cur EXCEPT !.status = s] \in Rows
  BY <1>1, Zenon DEF Rows
<1>3. /\ [cur EXCEPT !.status = s].status = s
      /\ [cur EXCEPT !.status = s].resolved_at = cur.resolved_at
      /\ [cur EXCEPT !.status = s].root_cause = cur.root_cause
  BY Zenon DEF Rows
<1>4. MayReplace([cur EXCEPT !.status = s], cur)
  BY <1>1, <1>2, <1>3 DEF MayReplace
<1> QED
  BY <1>4 DEF Automated, s

LEMMA PatchedMayReplace ==
  ASSUME NEW cur \in Rows, NEW old \in Rows, NEW b \in Bodies,
         cur.status = "resolved" => cur.resolved_at,
         old.root_cause # NoCause => cur.root_cause # NoCause
  PROVE  MayReplace(Patched(cur, old, b), cur)
<1>1. (cur.resolved_at \/ b.status = "resolved") \in BOOLEAN
  BY DEF Rows
<1>2. Patched(cur, old, b) \in Rows
  BY <1>1 DEF Patched, Written, Rows, Bodies
<1>3. Patched(cur, old, b).status = "resolved" => Patched(cur, old, b).resolved_at
  BY DEF Patched, Written, Rows, Bodies
<1>4. cur.root_cause # NoCause => Patched(cur, old, b).root_cause # NoCause
  BY DEF Patched, Written, Rows, Bodies
<1> QED
  BY <1>2, <1>3, <1>4 DEF MayReplace

\* What every step may do to the table: rows stay, keep their meaning, and
\* root causes are never erased.
Grows ==
  /\ incidents' \in Seq(Rows)
  /\ ResolvedHasTimestamp'
  /\ \A i \in DOMAIN incidents :
       /\ i \in DOMAIN incidents'
       /\ incidents[i].root_cause # NoCause => incidents'[i].root_cause # NoCause

LEMMA UnchangedGrows ==
  ASSUME TypeOK, ResolvedHasTimestamp, incidents' = incidents
  PROVE  Grows
BY DEF Grows, TypeOK, ResolvedHasTimestamp

LEMMA InsertGrows ==
  ASSUME TypeOK, ResolvedHasTimestamp, incidents' = Append(incidents, Detected)
  PROVE  Grows /\ Len(incidents) + 1 \in DOMAIN incidents'
<1>1. Detected \in Rows /\ Detected.status # "resolved"
  BY DEF Detected, Rows, Statuses
<1>2. incidents \in Seq(Rows) /\ Len(incidents) \in Nat
  BY DEF TypeOK
<1>3. /\ incidents' \in Seq(Rows)
      /\ DOMAIN incidents' = 1 .. (Len(incidents) + 1)
      /\ \A i \in DOMAIN incidents : incidents'[i] = incidents[i]
      /\ incidents'[Len(incidents) + 1] = Detected
  BY <1>1, <1>2
<1>4. DOMAIN incidents = 1 .. Len(incidents)
  BY <1>2
<1>5. ResolvedHasTimestamp'
  BY <1>1, <1>2, <1>3, <1>4 DEF ResolvedHasTimestamp
<1> QED
  BY <1>2, <1>3, <1>4, <1>5 DEF Grows

LEMMA UpdateGrows ==
  ASSUME TypeOK, ResolvedHasTimestamp,
         NEW i \in DOMAIN incidents, NEW new, MayReplace(new, incidents[i]),
         incidents' = [incidents EXCEPT ![i] = new]
  PROVE  Grows /\ incidents'[i] = new
<1>1. incidents \in Seq(Rows) /\ new \in Rows
  BY DEF TypeOK, MayReplace
<1>2. /\ incidents' \in Seq(Rows)
      /\ DOMAIN incidents' = DOMAIN incidents
      /\ incidents'[i] = new
      /\ \A j \in DOMAIN incidents : j # i => incidents'[j] = incidents[j]
  BY <1>1
<1>3. ResolvedHasTimestamp'
  BY <1>2 DEF ResolvedHasTimestamp, MayReplace
<1> QED
  BY <1>2, <1>3 DEF Grows, MayReplace

\* The row a loaded request is about to write.
LEMMA LoadedRow ==
  ASSUME TypeOK, ResolvedHasTimestamp,
         NEW r \in Requests, Loaded(r), pc[r] = "loaded", seen[r] # NoRow
  PROVE  /\ target[r] \in DOMAIN incidents
         /\ seen[r] \in Rows
         /\ incidents[target[r]] \in Rows
         /\ incidents[target[r]].status = "resolved"
              => incidents[target[r]].resolved_at
         /\ seen[r].root_cause # NoCause
              => incidents[target[r]].root_cause # NoCause
<1>1. /\ target[r] \in DOMAIN incidents
      /\ seen[r].root_cause # NoCause
           => incidents[target[r]].root_cause # NoCause
  BY DEF Loaded
<1>2. seen[r] \in Rows /\ incidents \in Seq(Rows)
  BY DEF TypeOK
<1>3. incidents[target[r]] \in Rows
  BY <1>1, <1>2
<1> QED
  BY <1>1, <1>2, <1>3 DEF ResolvedHasTimestamp

\* A step of request r leaves the others' variables alone and commits only.
StepOf(r) ==
  /\ \A q \in Requests \ {r} :
       /\ pc'[q] = pc[q] /\ op'[q] = op[q]
       /\ target'[q] = target[q] /\ seen'[q] = seen[q]
  /\ events \subseteq events' /\ executions \subseteq executions'
  /\ diagnoses \subseteq diagnoses' /\ diagnoses' \subseteq diagnoses \cup {r}
  /\ topic' \subseteq topic \cup (Topics \X {r})

LEMMA OthersKeep ==
  ASSUME NEW r \in Requests, StepOf(r), Grows,
         NEW q \in Requests \ {r}, RequestInv(q)
  PROVE  RequestInv(q)'
<1>1. /\ pc'[q] = pc[q] /\ op'[q] = op[q]
      /\ target'[q] = target[q] /\ seen'[q] = seen[q]
  BY DEF StepOf
<1>2. Loaded(q)'
  BY <1>1 DEF RequestInv, Loaded, Grows
<1>3. Diagnosis(q)'
  BY <1>1 DEF RequestInv, Diagnosis, Grows, StepOf
<1>4. Committed(q) => Committed(q)'
  BY <1>1 DEF Committed, Grows, StepOf
<1>5. ASSUME NEW t \in Topics, <<t, q>> \in topic'
      PROVE  Announces(t, q)'
  <2>1. <<t, q>> \in topic
    BY <1>5 DEF StepOf
  <2> QED
    BY <2>1, <1>1, <1>4 DEF RequestInv, Publishing, Announces
<1>6. Publishing(q)'
  BY <1>1, <1>4, <1>5 DEF RequestInv, Publishing
<1> QED
  BY <1>2, <1>3, <1>6 DEF RequestInv

\* So a step of r preserves the invariant if it does for r itself.
LEMMA StepKeeps ==
  ASSUME IncidentInv, NEW r \in Requests, StepOf(r), Grows, TypeOK', RequestInv(r)'
  PROVE  IncidentInv'
<1>1. \A q \in Requests \ {r} : RequestInv(q)'
  BY OthersKeep DEF IncidentInv
<1>2. \A q \in Requests : RequestInv(q)'
  BY <1>1
<1> QED
  BY <1>2 DEF IncidentInv, Grows

\* A request that has published nothing yet.
LEMMA Silent ==
  ASSUME TypeOK, NEW r \in Requests, RequestInv(r), pc[r] \in {"new", "loaded"}
  PROVE  \A t \in Topics : <<t, r>> \notin topic
BY DEF RequestInv, Publishing, Announces

LEMMA IngestKeeps ==
  ASSUME IncidentInv, NEW r \in Requests, NEW failed \in BOOLEAN, Ingest(r, failed)
  PROVE  IncidentInv'
<1>0. TypeOK /\ ResolvedHasTimestamp /\ RequestInv(r)
  BY DEF IncidentInv
<1>1. pc[r] = "new"
  BY DEF Ingest, Start
<1>2. PICK p \in {"committed", "failed"} : pc' = [pc EXCEPT ![r] = p]
  BY DEF Ingest, Outcomes, Goto
<1>3. PICK o \in {"ingest_ok", "ingest_failed"} :
        op' = [op EXCEPT ![r] = o] /\ (o = "ingest_failed" <=> failed)
  BY DEF Ingest, Start
<1>4. Grows /\ (failed => target' = [target EXCEPT ![r] = Len(incidents) + 1]
                          /\ Len(incidents) + 1 \in DOMAIN incidents')
            /\ (~failed => target' = target)
  BY <1>0, InsertGrows, UnchangedGrows DEF Ingest
<1>5. target' \in [Requests -> Nat]
  BY <1>0, <1>4 DEF TypeOK
<1>6. TypeOK'
  BY <1>0, <1>2, <1>3, <1>4, <1>5 DEF TypeOK, Ingest, Grows, Ops, PCs
<1>7. StepOf(r)
  BY <1>0, <1>2, <1>3, <1>4 DEF StepOf, Ingest, TypeOK
<1>8. pc'[r] = p /\ op'[r] = o /\ r \in events'
  BY <1>0, <1>2, <1>3 DEF TypeOK, Ingest
<1>9. o = "ingest_failed" => target'[r] \in DOMAIN incidents'
  BY <1>0, <1>3, <1>4 DEF TypeOK
<1>10. Loaded(r)' /\ Diagnosis(r)'
  BY <1>0, <1>1, <1>8 DEF RequestInv, Loaded, Diagnosis, Ingest
<1>11. \A t \in Topics : <<t, r>> \notin topic'
  BY <1>0, <1>1, Silent DEF Ingest
<1>12. Publishing(r)'
  BY <1>8, <1>9, <1>11 DEF Publishing, Committed
<1> QED
  BY <1>4, <1>6, <1>7, <1>10, <1>12, StepKeeps DEF RequestInv

LEMMA CreateKeeps ==
  ASSUME IncidentInv, NEW r \in Requests, Create(r)
  PROVE  IncidentInv'
<1>0. TypeOK /\ ResolvedHasTimestamp /\ RequestInv(r)
  BY DEF IncidentInv
<1>1. pc[r] = "new" /\ op' = [op EXCEPT ![r] = "create"]
  BY DEF Create, Start
<1>2. PICK p \in {"done", "failed"} : pc' = [pc EXCEPT ![r] = p]
  BY DEF Create, Outcomes, Goto
<1>3. Grows
  BY <1>0, InsertGrows DEF Create
<1>4. target' \in [Requests -> Nat]
  BY <1>0 DEF TypeOK, Create
<1>5. TypeOK'
  BY <1>0, <1>1, <1>2, <1>3, <1>4 DEF TypeOK, Create, Grows, Ops, PCs
<1>6. StepOf(r)
  BY <1>0, <1>1, <1>2 DEF StepOf, Create, TypeOK
<1>7. pc'[r] = p
  BY <1>0, <1>2 DEF TypeOK
<1>8. \A t \in Topics : <<t, r>> \notin topic'
  BY <1>0, <1>1, Silent DEF Create
<1>9. RequestInv(r)'
  BY <1>0, <1>1, <1>7, <1>8
     DEF RequestInv, Loaded, Diagnosis, Publishing, Create
<1> QED
  BY <1>3, <1>5, <1>6, <1>9, StepKeeps

LEMMA LoadKeeps ==
  ASSUME IncidentInv, NEW r \in Requests, NEW i \in Ids,
         NEW o \in {"diagnose", "automate", "patch"}, Load(r, o, i),
         o = "patch" => Row(i) # NoRow, arg' \in [Requests -> Bodies]
  PROVE  IncidentInv'
<1>0. TypeOK /\ ResolvedHasTimestamp /\ RequestInv(r)
  BY DEF IncidentInv
<1>1. pc[r] = "new" /\ op' = [op EXCEPT ![r] = o] /\ pc' = [pc EXCEPT ![r] = "loaded"]
  BY DEF Load, Start, Goto
<1>2. /\ target' = [target EXCEPT ![r] = i] /\ seen' = [seen EXCEPT ![r] = Row(i)]
      /\ UNCHANGED <<incidents, events, diagnoses, executions, topic>>
  BY DEF Load
<1>3. Row(i) \in Rows \cup {NoRow} /\ (Row(i) # NoRow => i \in DOMAIN incidents
                                                       /\ Row(i) = incidents[i])
  BY <1>0 DEF Row, TypeOK
<1>4. Grows
  BY <1>0, <1>2, UnchangedGrows
<1>5. target' \in [Requests -> Nat]
  BY <1>0, <1>2, IdsAssumption DEF TypeOK
<1>6. seen' \in [Requests -> Rows \cup {NoRow}]
  BY <1>0, <1>2, <1>3 DEF TypeOK
<1>7. op' \in [Requests -> Ops] /\ pc' \in [Requests -> PCs]
  BY <1>0, <1>1 DEF TypeOK, Ops, PCs
<1>8. TypeOK'
  BY <1>0, <1>2, <1>5, <1>6, <1>7 DEF TypeOK
<1>9. StepOf(r)
  BY <1>0, <1>1, <1>2 DEF StepOf, TypeOK
<1>10. pc'[r] = "loaded" /\ op'[r] = o /\ seen'[r] = Row(i) /\ target'[r] = i
  BY <1>0, <1>1, <1>2 DEF TypeOK
<1>11. Loaded(r)'
  BY <1>2, <1>3, <1>10 DEF Loaded
<1>12. \A t \in Topics : <<t, r>> \notin topic'
  BY <1>0, <1>1, <1>2, Silent
<1>13. RequestInv(r)'
  BY <1>0, <1>1, <1>2, <1>10, <1>11, <1>12 DEF RequestInv, Diagnosis, Publishing
<1> QED
  BY <1>4, <1>8, <1>9, <1>13, StepKeeps

\* The request's own part of a step that ends its section.
LEMMA CommitKeeps ==
  ASSUME IncidentInv, NEW r \in Requests, pc[r] = "loaded", Grows,
         NEW p \in {"committed", "done", "failed"}, pc' = [pc EXCEPT ![r] = p],
         UNCHANGED <<events, op, target, arg, seen, topic>>,
         executions' \in SUBSET Requests, executions \subseteq executions',
         diagnoses' \in {diagnoses, diagnoses \cup {r}},
         r \in diagnoses' =>
           (seen[r] # NoRow => incidents'[target[r]].root_cause # NoCause),
         p = "committed" => /\ op[r] \in {"diagnose", "automate"}
                            /\ op[r] = "diagnose" => r \in diagnoses'
                            /\ op[r] = "automate" => r \in executions'
  PROVE  IncidentInv'
<1>0. TypeOK /\ ResolvedHasTimestamp /\ RequestInv(r)
  BY DEF IncidentInv
<1>1. TypeOK'
  BY <1>0 DEF TypeOK, Grows, PCs
<1>2. StepOf(r)
  BY <1>0 DEF StepOf, TypeOK
<1>3. pc'[r] = p
  BY <1>0 DEF TypeOK
<1>4. seen[r] # NoRow => target[r] \in DOMAIN incidents'
  BY <1>0 DEF RequestInv, Loaded, Grows
<1>5. Loaded(r)' /\ Diagnosis(r)'
  BY <1>3, <1>4 DEF Loaded, Diagnosis
<1>6. \A t \in Topics : <<t, r>> \notin topic'
  BY <1>0, Silent
<1>7. Publishing(r)'
  BY <1>3, <1>6 DEF Publishing, Committed
<1> QED
  BY <1>1, <1>2, <1>5, <1>7, StepKeeps DEF RequestInv

LEMMA DiagnoseKeeps ==
  ASSUME IncidentInv, NEW r \in Requests, DiagnoseCommit(r)
  PROVE  IncidentInv'
<1>0. TypeOK /\ ResolvedHasTimestamp /\ Loaded(r)
  BY DEF IncidentInv, RequestInv
<1>1. pc[r] = "loaded" /\ op[r] = "diagnose"
  BY DEF DiagnoseCommit, Commits
<1>2. PICK p \in {"committed", "failed"} : pc' = [pc EXCEPT ![r] = p]
  BY DEF DiagnoseCommit, Commits, Outcomes, Goto
<1>3. Grows /\ (seen[r] # NoRow => incidents'[target[r]].root_cause # NoCause)
  <2>1. CASE seen[r] = NoRow
    BY <2>1, <1>0, UnchangedGrows DEF DiagnoseCommit
  <2>2. CASE seen[r] # NoRow
    <3> DEFINE cur == incidents[target[r]]
               new == Diagnosed(cur, seen[r])
    <3>1. /\ target[r] \in DOMAIN incidents /\ seen[r] \in Rows /\ cur \in Rows
          /\ cur.status = "resolved" => cur.resolved_at
          /\ seen[r].root_cause # NoCause => cur.root_cause # NoCause
      BY <2>2, <1>0, <1>1, LoadedRow
    <3>2. MayReplace(new, cur) /\ new.root_cause # NoCause
      BY <3>1, DiagnosedMayReplace
    <3>3. incidents' = [incidents EXCEPT ![target[r]] = new]
      BY <2>2 DEF DiagnoseCommit
    <3> HIDE DEF new
    <3>4. Grows /\ incidents'[target[r]] = new
      BY <3>1, <3>2, <3>3, <1>0, UpdateGrows
    <3> QED
      BY <3>2, <3>4
  <2> QED
    BY <2>1, <2>2
<1>4. UNCHANGED <<events, op, target, arg, seen, topic>> /\ executions' = executions
      /\ diagnoses' = diagnoses \cup {r}
  BY DEF DiagnoseCommit
<1>5. executions' \in SUBSET Requests
  BY <1>0, <1>4 DEF TypeOK
<1> QED
  BY <1>1, <1>2, <1>3, <1>4, <1>5, CommitKeeps

LEMMA AutomateKeeps ==
  ASSUME IncidentInv, NEW r \in Requests, AutomateCommit(r)
  PROVE  IncidentInv'
<1>0. TypeOK /\ ResolvedHasTimestamp /\ Loaded(r) /\ Diagnosis(r)
  BY DEF IncidentInv, RequestInv
<1>1. pc[r] = "loaded" /\ op[r] = "automate"
  BY DEF AutomateCommit, Commits
<1>2. PICK p \in {"committed", "failed"} : pc' = [pc EXCEPT ![r] = p]
  BY DEF AutomateCommit, Commits, Outcomes, Goto
<1>3. Grows
  <2>1. CASE seen[r] = NoRow
    BY <2>1, <1>0, UnchangedGrows DEF AutomateCommit
  <2>2. CASE seen[r] # NoRow
    <3> DEFINE cur == incidents[target[r]]
               new == Automated(cur, seen[r])
    <3>1. /\ target[r] \in DOMAIN incidents /\ seen[r] \in Rows /\ cur \in Rows
          /\ cur.status = "resolved" => cur.resolved_at
      BY <2>2, <1>0, <1>1, LoadedRow
    <3>2. MayReplace(new, cur)
      BY <3>1, AutomatedMayReplace
    <3>3. incidents' = [incidents EXCEPT ![target[r]] = new]
      BY <2>2 DEF AutomateCommit
    <3> HIDE DEF new
    <3> QED
      BY <3>1, <3>2, <3>3, <1>0, UpdateGrows
  <2> QED
    BY <2>1, <2>2
<1>4. UNCHANGED <<events, op, target, arg, seen, topic>> /\ diagnoses' = diagnoses
      /\ executions' = executions \cup {r}
  BY DEF AutomateCommit
<1>5. executions' \in SUBSET Requests /\ r \notin diagnoses'
  BY <1>0, <1>1, <1>4 DEF TypeOK, Diagnosis
<1> QED
  BY <1>1, <1>2, <1>3, <1>4, <1>5, CommitKeeps

LEMMA PatchKeeps ==
  ASSUME IncidentInv, NEW r \in Requests, PatchCommit(r)
  PROVE  IncidentInv'
<1>0. TypeOK /\ ResolvedHasTimestamp /\ Loaded(r) /\ Diagnosis(r)
  BY DEF IncidentInv, RequestInv
<1>1. pc[r] = "loaded" /\ seen[r] # NoRow
  BY <1>0 DEF PatchCommit, Commits, Loaded
<1>2. PICK p \in {"done", "failed"} : pc' = [pc EXCEPT ![r] = p]
  BY DEF PatchCommit, Commits, Outcomes, Goto
<1>3. Grows
  <2> DEFINE cur == incidents[target[r]]
             new == Patched(cur, seen[r], arg[r])
  <2>1. /\ target[r] \in DOMAIN incidents /\ seen[r] \in Rows /\ cur \in Rows
        /\ cur.status = "resolved" => cur.resolved_at
        /\ seen[r].root_cause # NoCause => cur.root_cause # NoCause
    BY <1>0, <1>1, LoadedRow
  <2>2. arg[r] \in Bodies
    BY <1>0 DEF TypeOK
  <2>3. MayReplace(new, cur)
    BY <2>1, <2>2, PatchedMayReplace
  <2>4. incidents' = [incidents EXCEPT ![target[r]] = new]
    BY DEF PatchCommit
  <2> HIDE DEF new
  <2> QED
    BY <2>1, <2>3, <2>4, <1>0, UpdateGrows
<1>4. UNCHANGED <<events, op, target, arg, seen, topic, diagnoses, executions>>
  BY DEF PatchCommit
<1>5. executions' \in SUBSET Requests /\ r \notin diagnoses'
  BY <1>0, <1>1, <1>4 DEF TypeOK, Diagnosis
<1> QED
  BY <1>1, <1>2, <1>3, <1>4, <1>5, CommitKeeps

LEMMA DbRefusesKeeps ==
  ASSUME IncidentInv, NEW r \in Requests, DbRefuses(r)
  PROVE  IncidentInv'
<1>0. TypeOK /\ ResolvedHasTimestamp /\ Diagnosis(r)
  BY DEF IncidentInv, RequestInv
<1>1. /\ pc[r] = "loaded" /\ pc' = [pc EXCEPT ![r] = "failed"]
      /\ UNCHANGED <<incidents, events, diagnoses, executions, op, target, arg, seen,
                     topic>>
  BY DEF DbRefuses, Goto
<1>2. Grows
  BY <1>0, <1>1, UnchangedGrows
<1>3. executions' \in SUBSET Requests /\ r \notin diagnoses'
  BY <1>0, <1>1 DEF TypeOK, Diagnosis
<1> QED
  BY <1>1, <1>2, <1>3, CommitKeeps

LEMMA PatchMissingKeeps ==
  ASSUME IncidentInv, NEW r \in Requests, PatchMissing(r)
  PROVE  IncidentInv'
<1>0. TypeOK /\ ResolvedHasTimestamp /\ RequestInv(r)
  BY DEF IncidentInv
<1>1. /\ pc[r] = "new" /\ op' = [op EXCEPT ![r] = "patch"]
      /\ pc' = [pc EXCEPT ![r] = "failed"]
      /\ UNCHANGED <<incidents, events, diagnoses, executions, target, arg, seen, topic>>
  BY DEF PatchMissing, Start, Goto
<1>2. Grows
  BY <1>0, <1>1, UnchangedGrows
<1>3. TypeOK'
  BY <1>0, <1>1 DEF TypeOK, Ops, PCs
<1>4. StepOf(r)
  BY <1>0, <1>1 DEF StepOf, TypeOK
<1>5. pc'[r] = "failed"
  BY <1>0, <1>1 DEF TypeOK
<1>6. \A t \in Topics : <<t, r>> \notin topic'
  BY <1>0, <1>1, Silent
<1>7. RequestInv(r)'
  BY <1>0, <1>1, <1>5, <1>6 DEF RequestInv, Loaded, Diagnosis, Publishing
<1> QED
  BY <1>2, <1>3, <1>4, <1>7, StepKeeps

\* Sending a message, or failing to.
LEMMA PublicationKeeps ==
  ASSUME IncidentInv, NEW r \in Requests,
         NEW p \in {"announcing", "done"}, NEW t \in Topics,
         t \in Publishable(r), p = AfterPublish(r), pc' = [pc EXCEPT ![r] = p],
         topic' \in {topic, topic \cup {<<t, r>>}},
         UNCHANGED <<incidents, events, diagnoses, executions, op, target, arg, seen>>
  PROVE  IncidentInv'
<1>0. TypeOK /\ ResolvedHasTimestamp /\ RequestInv(r)
  BY DEF IncidentInv
<1>1. Grows
  BY <1>0, UnchangedGrows
<1>2. TypeOK'
  <2>1. topic' \subseteq Topics \X Requests
    BY <1>0 DEF TypeOK
  <2> QED
    BY <1>0, <2>1 DEF TypeOK, PCs
<1>3. StepOf(r)
  BY <1>0 DEF StepOf, TypeOK
<1>4. pc'[r] = p
  BY <1>0 DEF TypeOK
<1>5. pc[r] \in {"committed", "announcing"} /\ Committed(r)
  BY <1>0 DEF Publishable, RequestInv, Publishing
<1>6. Committed(r)' /\ (p = "announcing" => op'[r] = "ingest_failed")
  BY <1>5 DEF Committed, AfterPublish
<1>7. Announces(t, r)'
  BY <1>0, <1>4, <1>6 DEF Announces, Publishable, RequestInv, Publishing, Topics
<1>8. ASSUME NEW u \in Topics, <<u, r>> \in topic'
      PROVE  Announces(u, r)'
  <2>1. CASE u = t
    BY <2>1, <1>7
  <2>2. CASE u # t
    <3>1. <<u, r>> \in topic
      BY <1>8, <2>2
    <3> QED
      BY <3>1, <1>0, <1>4, <1>6 DEF RequestInv, Publishing, Announces
  <2> QED
    BY <2>1, <2>2
<1>9. Publishing(r)'
  BY <1>4, <1>6, <1>8 DEF Publishing
<1>10. Loaded(r)' /\ Diagnosis(r)'
  BY <1>0, <1>4 DEF RequestInv, Loaded, Diagnosis
<1> QED
  BY <1>1, <1>2, <1>3, <1>9, <1>10, StepKeeps DEF RequestInv

LEMMA PublishKeeps ==
  ASSUME IncidentInv, NEW r \in Requests, Publish(r) \/ PublishFails(r)
  PROVE  IncidentInv'
<1>1. Publishable(r) \subseteq Topics
  BY DEF Publishable, Topics
<1>2. AfterPublish(r) \in {"announcing", "done"}
  BY DEF AfterPublish
<1>3. PICK t \in Topics :
        t \in Publishable(r) /\ topic' \in {topic, topic \cup {<<t, r>>}}
  BY <1>1 DEF Publish, PublishFails
<1>4. /\ pc' = [pc EXCEPT ![r] = AfterPublish(r)]
      /\ UNCHANGED <<incidents, events, diagnoses, executions, op, target, arg, seen>>
  BY DEF Publish, PublishFails, Goto
<1> QED
  BY <1>2, <1>3, <1>4, PublicationKeeps

LEMMA CrashKeeps ==
  ASSUME IncidentInv, NEW s \in Services, Crash(s)
  PROVE  IncidentInv'
<1>0. TypeOK /\ ResolvedHasTimestamp
  BY DEF IncidentInv
<1>1. UNCHANGED <<incidents, events, diagnoses, executions, op, target, arg, seen, topic>>
  BY DEF Crash
<1>2. pc' \in [Requests -> PCs] /\ \A r \in Requests : pc'[r] = pc[r] \/ pc'[r] = "lost"
  BY <1>0 DEF Crash, TypeOK, PCs
<1>3. TypeOK' /\ ResolvedHasTimestamp'
  BY <1>0, <1>1, <1>2 DEF TypeOK, ResolvedHasTimestamp
<1>4. ASSUME NEW r \in Requests
      PROVE  RequestInv(r)'
  <2>1. RequestInv(r) /\ (Committed(r) => Committed(r)')
    BY <1>1 DEF IncidentInv, Committed
  <2>2. pc'[r] = pc[r] \/ pc'[r] = "lost"
    BY <1>2
  <2>3. Loaded(r)' /\ Diagnosis(r)'
    BY <2>1, <2>2, <1>1 DEF RequestInv, Loaded, Diagnosis
  <2>4. Publishing(r)'
    BY <2>1, <2>2, <1>1 DEF RequestInv, Publishing, Announces
  <2> QED
    BY <2>3, <2>4 DEF RequestInv
<1> QED
  BY <1>3, <1>4 DEF IncidentInv

LEMMA IncidentStep == IncidentInv /\ [Next]_vars => IncidentInv'
<1> SUFFICES ASSUME IncidentInv, [Next]_vars  PROVE IncidentInv'
  OBVIOUS
<1>1. ASSUME NEW r \in Requests, Ingest(r, TRUE) \/ Ingest(r, FALSE)
      PROVE  IncidentInv'
  BY <1>1, IngestKeeps
<1>2. ASSUME NEW r \in Requests, Create(r)  PROVE IncidentInv'
  BY <1>2, CreateKeeps
<1>3. ASSUME NEW r \in Requests, DiagnoseLoad(r) \/ AutomateLoad(r)
      PROVE  IncidentInv'
  <2>1. PICK i \in Ids, o \in {"diagnose", "automate"} : Load(r, o, i) /\ arg' = arg
    BY <1>3 DEF DiagnoseLoad, AutomateLoad
  <2>2. arg' \in [Requests -> Bodies]
    BY <2>1 DEF IncidentInv, TypeOK
  <2> QED
    BY <2>1, <2>2, LoadKeeps
<1>4. ASSUME NEW r \in Requests, PatchLoad(r)  PROVE IncidentInv'
  <2>1. PICK i \in Ids, b \in Bodies :
          Row(i) # NoRow /\ Load(r, "patch", i) /\ arg' = [arg EXCEPT ![r] = b]
    BY <1>4 DEF PatchLoad
  <2>2. arg' \in [Requests -> Bodies]
    BY <2>1 DEF IncidentInv, TypeOK
  <2> QED
    BY <2>1, <2>2, LoadKeeps
<1>5. ASSUME NEW r \in Requests, PatchMissing(r)  PROVE IncidentInv'
  BY <1>5, PatchMissingKeeps
<1>6. ASSUME NEW r \in Requests, DiagnoseCommit(r)  PROVE IncidentInv'
  BY <1>6, DiagnoseKeeps
<1>7. ASSUME NEW r \in Requests, AutomateCommit(r)  PROVE IncidentInv'
  BY <1>7, AutomateKeeps
<1>8. ASSUME NEW r \in Requests, PatchCommit(r)  PROVE IncidentInv'
  BY <1>8, PatchKeeps
<1>9. ASSUME NEW r \in Requests, Publish(r) \/ PublishFails(r)  PROVE IncidentInv'
  BY <1>9, PublishKeeps
<1>10. ASSUME NEW r \in Requests, DbRefuses(r)  PROVE IncidentInv'
  BY <1>10, DbRefusesKeeps
<1>11. ASSUME NEW s \in Services, Crash(s)  PROVE IncidentInv'
  BY <1>11, CrashKeeps
<1>12. CASE UNCHANGED vars
  BY <1>12 DEF vars, IncidentInv, TypeOK, ResolvedHasTimestamp, RequestInv, Loaded,
               Diagnosis, Publishing, Announces, Committed
<1> QED
  BY <1>1, <1>2, <1>3, <1>4, <1>5, <1>6, <1>7, <1>8, <1>9, <1>10, <1>11, <1>12
     DEF Next, Finish

LEMMA IncidentInvariant == Spec => []IncidentInv
BY IncidentInit, IncidentStep, PTL DEF Spec

\* The handlers keep every column within its values, whoever writes the row.
THEOREM IncidentTypeCorrect == Spec => []TypeOK
BY IncidentInvariant, PTL DEF IncidentInv

\* A resolved incident always has its resolution time: no stale UPDATE of
\* another service clears it, because an UPDATE writes the changed columns only.
THEOREM ResolutionIsStamped == Spec => []ResolvedHasTimestamp
BY IncidentInvariant, PTL DEF IncidentInv

\* The root cause a committed diagnosis wrote is never lost to a concurrent
\* PATCH or automation, however many run.
THEOREM RootCauseIsKept == Spec => []DiagnosedHasRootCause
<1>1. IncidentInv => DiagnosedHasRootCause
  <2> SUFFICES ASSUME IncidentInv, NEW r \in diagnoses, seen[r] # NoRow
               PROVE  incidents[target[r]].root_cause # NoCause
    BY DEF DiagnosedHasRootCause
  <2> QED
    BY DEF IncidentInv, TypeOK, RequestInv, Diagnosis
<1> QED
  BY <1>1, IncidentInvariant, PTL

\* No handler announces what it has not committed.
THEOREM AnnouncementsFollowCommits == Spec => []EventsFollowCommits
<1>1. IncidentInv => EventsFollowCommits
  <2> SUFFICES ASSUME IncidentInv, NEW m \in topic
               PROVE  LET r == m[2] IN
                      CASE m[1] = "transaction.events" -> r \in events
                        [] m[1] = "anomaly.detected"
                             -> r \in events /\ target[r] \in DOMAIN incidents
                        [] m[1] = "rca.completed" -> r \in diagnoses
                        [] m[1] = "automation.requested" -> r \in executions
    BY DEF EventsFollowCommits
  <2>1. PICK t \in Topics, r \in Requests : m = <<t, r>>
    BY DEF IncidentInv, TypeOK
  <2>2. Announces(t, r)
    BY <2>1 DEF IncidentInv, RequestInv, Publishing
  <2> QED
    BY <2>1, <2>2 DEF Announces, Committed, Topics
<1> QED
  BY <1>1, IncidentInvariant, PTL

-------------------------------------------------------------------------------
(* The table implements IncidentContract.                                  *)

Ledger == [i \in DOMAIN incidents |-> Told(incidents[i])]

LEMMA DiagnosedIsTold ==
  ASSUME NEW cur \in Rows, NEW old \in Rows, old.root_cause # NoCause => cur.root_cause # NoCause
  PROVE  \E s \in {"diagnosed", cur.status} :
           Told(Diagnosed(cur, old)) = [status |-> s, caused |-> TRUE,
                                        stamped |-> cur.resolved_at]
<1> DEFINE s == Diagnosed(cur, old).status
<1>1. s \in {"diagnosed", cur.status}
  BY DEF Diagnosed, Written
<1>2. Diagnosed(cur, old).root_cause # NoCause /\ Diagnosed(cur, old).resolved_at = cur.resolved_at
  BY DEF Diagnosed, Written, Rca, NoCause
<1> HIDE DEF s
<1>3. Told(Diagnosed(cur, old)) = [status |-> s, caused |-> TRUE, stamped |-> cur.resolved_at]
  BY <1>2 DEF Told, s
<1> QED
  BY <1>1, <1>3

LEMMA AutomatedIsTold ==
  ASSUME NEW cur \in Rows, NEW old \in Rows
  PROVE  \E s \in {"auto-fix-running", cur.status} :
           Told(Automated(cur, old)) = [status |-> s, caused |-> Told(cur).caused,
                                        stamped |-> cur.resolved_at]
<1> DEFINE s == Written(cur.status, old.status, "auto-fix-running")
<1>1. s \in {"auto-fix-running", cur.status}
  BY DEF Written
<1> HIDE DEF s
<1>2. /\ [cur EXCEPT !.status = s].status = s
      /\ [cur EXCEPT !.status = s].resolved_at = cur.resolved_at
      /\ [cur EXCEPT !.status = s].root_cause = cur.root_cause
  BY Zenon DEF Rows
<1>3. Told([cur EXCEPT !.status = s]) = [status |-> s, caused |-> Told(cur).caused,
                                         stamped |-> cur.resolved_at]
  BY <1>2 DEF Told
<1> QED
  BY <1>1, <1>3 DEF Automated, s

LEMMA PatchedIsTold ==
  ASSUME NEW cur \in Rows, NEW old \in Rows, NEW b \in Bodies,
         old.root_cause # NoCause => cur.root_cause # NoCause
  PROVE  \E s \in {b.status, cur.status} :
           Told(Patched(cur, old, b)) =
             [status |-> s, caused |-> Told(cur).caused \/ b.root_cause # NoCause,
              stamped |-> cur.resolved_at \/ b.status = "resolved"]
<1> DEFINE new == Patched(cur, old, b)
           s == new.status
<1>1. s \in {b.status, cur.status}
  BY DEF Patched, Written
<1>2. new.root_cause # NoCause <=> (cur.root_cause # NoCause \/ b.root_cause # NoCause)
  BY DEF Patched, Written
<1>3. new.resolved_at = (cur.resolved_at \/ b.status = "resolved")
  BY DEF Patched
<1> HIDE DEF new
<1>4. Told(new).caused = (Told(cur).caused \/ b.root_cause # NoCause)
  BY <1>2 DEF Told
<1>5. Told(new) = [status |-> new.status, caused |-> Told(new).caused,
                   stamped |-> new.resolved_at]
  BY DEF Told
<1> QED
  BY <1>1, <1>3, <1>4, <1>5 DEF new

\* A written row shows as a revision of the ledger.
LEMMA UpdateIsRevision ==
  ASSUME TypeOK, NEW i \in DOMAIN incidents, NEW new \in Rows,
         incidents' = [incidents EXCEPT ![i] = new],
         NEW s, NEW t \in {s, incidents[i].status},
         NEW caused \in BOOLEAN, NEW stamped \in BOOLEAN,
         Told(new) = [status |-> t, caused |-> Told(incidents[i]).caused \/ caused,
                      stamped |-> incidents[i].resolved_at \/ stamped]
  PROVE  Contract!Revise(i, s, caused, stamped)
<1>1. /\ DOMAIN incidents' = DOMAIN incidents /\ incidents'[i] = new
      /\ \A j \in DOMAIN incidents : j # i => incidents'[j] = incidents[j]
  BY DEF TypeOK
<1>2. Ledger' = [Ledger EXCEPT ![i] = Told(new)]
  <2>1. \A j \in DOMAIN incidents : j # i => Told(incidents'[j]) = Told(incidents[j])
    BY <1>1
  <2> QED
    BY <1>1, <2>1, Zenon DEF Ledger
<1>3. Ledger[i] = Told(incidents[i])
  BY DEF Ledger
<1>4. Ledger[i].status = incidents[i].status /\ Ledger[i].stamped = incidents[i].resolved_at
  BY <1>3 DEF Told
<1>5. Ledger' = [Ledger EXCEPT ![i] = [status  |-> t,
                                       caused  |-> @.caused \/ caused,
                                       stamped |-> @.stamped \/ stamped]]
  BY <1>2, <1>3, <1>4, Zenon
<1>6. t \in {s, Ledger[i].status}
  BY <1>4
<1> QED
  BY <1>5, <1>6, Zenon DEF Ledger, Contract!Revise

\* The row that a COMMIT writes, when its request found one.
LEMMA CommitIsRevision ==
  ASSUME IncidentInv, NEW r \in Requests, pc[r] = "loaded", seen[r] # NoRow
  PROVE  /\ DiagnoseCommit(r) => \E i \in DOMAIN incidents : Contract!Diagnose(i)
         /\ AutomateCommit(r) => \E i \in DOMAIN incidents : Contract!Automate(i)
         /\ PatchCommit(r) => \E i \in DOMAIN incidents : Contract!Patch(i)
<1> DEFINE i == target[r]
           cur == incidents[i]
           old == seen[r]
<1>1. TypeOK /\ ResolvedHasTimestamp /\ Loaded(r)
  BY DEF IncidentInv, RequestInv
<1>2. /\ i \in DOMAIN incidents /\ old \in Rows /\ cur \in Rows
      /\ cur.status = "resolved" => cur.resolved_at
      /\ old.root_cause # NoCause => cur.root_cause # NoCause
  BY <1>1, LoadedRow
<1>3. Told(cur).caused \in BOOLEAN /\ cur.resolved_at \in BOOLEAN
  BY <1>2 DEF Told, Rows
<1> HIDE DEF cur, old
<1>4. ASSUME DiagnoseCommit(r)  PROVE Contract!Diagnose(i)
  <2> DEFINE new == Diagnosed(cur, old)
  <2>1. incidents' = [incidents EXCEPT ![i] = new]
    BY <1>4 DEF DiagnoseCommit, cur, old
  <2>2. new \in Rows
    BY <1>2, DiagnosedMayReplace DEF MayReplace
  <2>3. PICK s \in {"diagnosed", cur.status} :
          Told(new) = [status |-> s, caused |-> TRUE, stamped |-> cur.resolved_at]
    BY <1>2, DiagnosedIsTold
  <2>4. Told(new) = [status |-> s, caused |-> Told(cur).caused \/ TRUE,
                     stamped |-> cur.resolved_at \/ FALSE]
    BY <2>3, <1>3
  <2> HIDE DEF new
  <2>5. Contract!Revise(i, "diagnosed", TRUE, FALSE)
    BY <1>1, <1>2, <2>1, <2>2, <2>3, <2>4, UpdateIsRevision, Zenon DEF cur
  <2> QED
    BY <2>5 DEF Contract!Diagnose
<1>5. ASSUME AutomateCommit(r)  PROVE Contract!Automate(i)
  <2> DEFINE new == Automated(cur, old)
  <2>1. incidents' = [incidents EXCEPT ![i] = new]
    BY <1>5 DEF AutomateCommit, cur, old
  <2>2. new \in Rows
    BY <1>2, AutomatedMayReplace DEF MayReplace
  <2>3. PICK s \in {"auto-fix-running", cur.status} :
          Told(new) = [status |-> s, caused |-> Told(cur).caused, stamped |-> cur.resolved_at]
    BY <1>2, AutomatedIsTold
  <2>4. Told(new) = [status |-> s, caused |-> Told(cur).caused \/ FALSE,
                     stamped |-> cur.resolved_at \/ FALSE]
    BY <2>3, <1>3
  <2> HIDE DEF new
  <2>5. Contract!Revise(i, "auto-fix-running", FALSE, FALSE)
    BY <1>1, <1>2, <2>1, <2>2, <2>3, <2>4, UpdateIsRevision, Zenon DEF cur
  <2> QED
    BY <2>5 DEF Contract!Automate
<1>6. ASSUME PatchCommit(r)  PROVE Contract!Patch(i)
  <2> DEFINE b == arg[r]
             new == Patched(cur, old, b)
  <2>1. incidents' = [incidents EXCEPT ![i] = new]
    BY <1>6 DEF PatchCommit, cur, old
  <2>2. b \in Bodies
    BY <1>1 DEF TypeOK
  <2>3. b.status \in Statuses /\ (b.root_cause # NoCause) \in BOOLEAN
        /\ (b.status = "resolved") \in BOOLEAN
    BY <2>2 DEF Bodies
  <2> HIDE DEF b
  <2>4. new \in Rows
    BY <1>2, <2>2, PatchedMayReplace DEF MayReplace
  <2>5. PICK s \in {b.status, cur.status} :
          Told(new) = [status |-> s, caused |-> Told(cur).caused \/ b.root_cause # NoCause,
                       stamped |-> cur.resolved_at \/ b.status = "resolved"]
    BY <1>2, <2>2, PatchedIsTold
  <2> HIDE DEF new
  <2>6. PICK caused \in BOOLEAN, stamped \in BOOLEAN :
          caused = (b.root_cause # NoCause) /\ stamped = (b.status = "resolved")
    BY <2>3
  <2>7. Told(new) = [status |-> s, caused |-> Told(cur).caused \/ caused,
                     stamped |-> cur.resolved_at \/ stamped]
    BY <2>5, <2>6, Zenon
  <2>8. Contract!Revise(i, b.status, caused, stamped)
    BY <1>1, <1>2, <2>1, <2>4, <2>7, UpdateIsRevision, Zenon DEF cur
  <2> QED
    BY <2>3, <2>6, <2>8, Zenon DEF Contract!Patch
<1> QED
  BY <1>2, <1>4, <1>5, <1>6

\* An inserted row shows as a report.
LEMMA InsertIsReport ==
  ASSUME TypeOK, incidents' = Append(incidents, Detected)
  PROVE  Contract!Report
<1>1. /\ incidents \in Seq(Rows) /\ Detected \in Rows
      /\ Told(Detected) = Contract!Detected
  BY DEF TypeOK, Detected, Rows, Statuses, Told, Contract!Detected
<1> DEFINE n == Len(incidents)
<1>2. /\ n \in Nat /\ DOMAIN incidents = 1 .. n /\ DOMAIN incidents' = 1 .. n + 1
      /\ incidents'[n + 1] = Detected
      /\ \A j \in 1 .. n : incidents'[j] = incidents[j]
  BY <1>1
<1>3. /\ Ledger = [j \in 1 .. n |-> Told(incidents[j])]
      /\ Ledger' = [j \in 1 .. n + 1 |-> Told(incidents'[j])]
  BY <1>2, Zenon DEF Ledger
<1> HIDE DEF n
<1>4. /\ Ledger \in Seq({Told(row) : row \in Rows}) /\ Len(Ledger) = n
  <2>1. \A j \in 1 .. n : Ledger[j] \in {Told(row) : row \in Rows}
    BY <1>1, <1>2, <1>3
  <2> QED
    BY <1>2, <1>3, <2>1
<1>5. Append(Ledger, Contract!Detected) =
        [j \in 1 .. n + 1 |-> IF j = n + 1 THEN Contract!Detected ELSE Ledger[j]]
  <2> DEFINE d == Contract!Detected
             L == Ledger
             S == {Told(row) : row \in Rows}
  <2>1. d \in S /\ L \in Seq(S) /\ Len(L) = n
    BY <1>1, <1>4
  <2> HIDE DEF d, L, S
  <2>2. /\ Append(L, d) \in Seq(S) /\ Len(Append(L, d)) = n + 1
        /\ \A j \in 1 .. n + 1 : Append(L, d)[j] = IF j = n + 1 THEN d ELSE L[j]
    BY <1>2, <2>1
  <2>3. Append(L, d) = [j \in 1 .. n + 1 |-> Append(L, d)[j]]
    <3> DEFINE A == Append(L, d)
    <3>1. A \in Seq(S) /\ Len(A) = n + 1
      BY <2>2
    <3> HIDE DEF A
    <3>2. A = [j \in 1 .. n + 1 |-> A[j]]
      BY <3>1
    <3> QED
      BY <3>2 DEF A
  <2>4. Append(L, d) = [j \in 1 .. n + 1 |-> IF j = n + 1 THEN d ELSE L[j]]
    BY <2>2, <2>3, Zenon
  <2> QED
    BY <2>4 DEF d, L
<1>6. \A j \in 1 .. n + 1 : Told(incidents'[j]) = IF j = n + 1 THEN Contract!Detected
                                                               ELSE Ledger[j]
  <2> TAKE j \in 1 .. n + 1
  <2>1. CASE j = n + 1
    BY <2>1, <1>1, <1>2
  <2>2. CASE j # n + 1
    <3>1. j \in 1 .. n
      BY <2>2, <1>2
    <3> QED
      BY <2>2, <3>1, <1>2, <1>3
  <2> QED
    BY <2>1, <2>2
<1>7. Ledger' = Append(Ledger, Contract!Detected)
  BY <1>3, <1>5, <1>6, Zenon
<1> QED
  BY <1>7 DEF Ledger, Contract!Report

\* Each step of the services is one step of the contract, or none that shows:
\* races, stale copies, lost acknowledgements and crashes do not come through.
THEOREM IncidentRefinement == Spec => ImplementsIncidentContract
<1>1. Init => Contract!Init
  <2> SUFFICES ASSUME Init  PROVE Ledger = <<>>
    BY DEF Ledger, Contract!Init
  <2> QED
    BY DEF Init, Ledger
<1>2. ASSUME IncidentInv, [Next]_vars  PROVE [Contract!Next]_Ledger
  <2>1. ASSUME incidents' = incidents  PROVE UNCHANGED Ledger
    BY <2>1 DEF Ledger
  <2>2. ASSUME incidents' = Append(incidents, Detected)  PROVE Contract!Next
    BY <1>2, <2>2, InsertIsReport DEF IncidentInv, Contract!Next
  <2>3. ASSUME NEW r \in Requests, Finish(r)  PROVE Contract!Next \/ UNCHANGED Ledger
    <3>1. CASE Publish(r)
      BY <3>1, <2>1 DEF Publish
    <3>2. CASE ~ Publish(r)
      <4>1. pc[r] = "loaded" /\ (DiagnoseCommit(r) \/ AutomateCommit(r) \/ PatchCommit(r))
        BY <2>3, <3>2 DEF Finish, DiagnoseCommit, AutomateCommit, PatchCommit, Commits
      <4>2. CASE seen[r] # NoRow
        BY <1>2, <4>1, <4>2, CommitIsRevision, Zenon DEF Contract!Next, Ledger
      <4>3. CASE seen[r] = NoRow
        <5>1. ~ PatchCommit(r)
          BY <1>2, <4>1, <4>3 DEF IncidentInv, RequestInv, Loaded, PatchCommit, Commits
        <5>2. incidents' = incidents
          BY <4>1, <4>3, <5>1 DEF DiagnoseCommit, AutomateCommit
        <5> QED
          BY <5>2, <2>1
      <4> QED
        BY <4>2, <4>3
    <3> QED
      BY <3>1, <3>2
  <2>4. ASSUME NEW r \in Requests, Ingest(r, TRUE) \/ Ingest(r, FALSE) \/ Create(r)
        PROVE  incidents' = incidents \/ incidents' = Append(incidents, Detected)
    BY <2>4 DEF Ingest, Create
  <2>5. ASSUME NEW r \in Requests,
               \/ DiagnoseLoad(r) \/ AutomateLoad(r) \/ PatchLoad(r) \/ PatchMissing(r)
               \/ PublishFails(r) \/ DbRefuses(r)
        PROVE  incidents' = incidents
    BY <2>5 DEF DiagnoseLoad, AutomateLoad, PatchLoad, Load, PatchMissing, PublishFails, DbRefuses
  <2>6. ASSUME NEW s \in Services, Crash(s)  PROVE incidents' = incidents
    BY <2>6 DEF Crash
  <2> QED
    BY <1>2, <2>1, <2>2, <2>3, <2>4, <2>5, <2>6 DEF Next, vars
<1> QED
  BY <1>1, <1>2, IncidentInvariant, PTL
     DEF Spec, ImplementsIncidentContract, Contract!Spec, Ledger
===============================================================================
