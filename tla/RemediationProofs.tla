--------------------------- MODULE RemediationProofs ---------------------------
(***************************************************************************)
(* What sre-agent records, reports and closes is true for any number of    *)
(* jobs and incidents, whatever fails.                                     *)
(*                                                                         *)
(* The argument: JobInv says what a job may rely on where it is; the       *)
(* properties speak of sets that only grow (performed, recorded, closed,   *)
(* reports), so the steps of other jobs leave them alone.                  *)
(***************************************************************************)
EXTENDS Remediation, TLAPS

USE FaultsAssumption, TogglesAssumption

\* What job j may rely on where it is.
JobInv(j) ==
  /\ pc[j] # "new" => kind[j] # "none"
  /\ pc[j] \in {"running", "recording"} /\ reply[j] = "success" => <<j, round[j]>> \in performed
  /\ pc[j] \in {"verifying", "closing", "reporting"} =>
       kind[j] # "manual" /\ \E s \in Replies : <<j, round[j], s>> \in recorded
  /\ pc[j] = "closing" => checks[j] = {TRUE}
  /\ pc[j] = "reporting" => checks[j] = {TRUE} \/ round[j] = 2
  /\ checks[j] = {TRUE} => pc[j] \in {"closing", "reporting", "done", "raised", "lost"}
                             /\ kind[j] \in {"event", "analyze"}

Truths == /\ SuccessesHappened
          /\ EscalatedBeforeGivingUp
          /\ ClosedWasVerified
          /\ UnrecordedEndsJob

RemediationInv == /\ TypeOK
                  /\ \A j \in Jobs : JobInv(j)
                  /\ Truths

LEMMA RemediationInit == Init => RemediationInv
<1> SUFFICES ASSUME Init  PROVE RemediationInv
  OBVIOUS
<1>1. TypeOK
  BY DEF Init, TypeOK, Kinds, RunbookNames, Replies
<1>2. \A j \in Jobs : JobInv(j)
  BY DEF Init, JobInv
<1>3. Truths
  BY DEF Init, Truths, SuccessesHappened, EscalatedBeforeGivingUp, ClosedWasVerified,
         UnrecordedEndsJob
<1> QED
  BY <1>1, <1>2, <1>3 DEF RemediationInv

JobStep(j) == Arrive(j) \/ Proceed(j) \/ DbFails(j)

\* A step of job j leaves the other jobs alone, and the sets only grow.
LEMMA Frame ==
  ASSUME TypeOK, NEW j \in Jobs, JobStep(j)
  PROVE  /\ \A k \in Jobs \ {j} :
              /\ kind'[k] = kind[k] /\ inc'[k] = inc[k] /\ pc'[k] = pc[k]
              /\ round'[k] = round[k] /\ reply'[k] = reply[k] /\ checks'[k] = checks[k]
         /\ performed \subseteq performed' /\ recorded \subseteq recorded'
         /\ closed \subseteq closed' /\ reports \subseteq reports'
<1> USE DEF TypeOK, Goto, End, origin, plan, answers, ledger, control
<1>1. CASE Arrive(j)
  BY <1>1 DEF Arrive, Consume, Analyze, Manual, Begin
<1>2. CASE Decide(j) \/ Refuse(j)
  BY <1>2 DEF Decide, Refuse
<1>3. CASE Automate(j) \/ AutomateTimeout(j)
  BY <1>3 DEF Automate, AutomateTimeout
<1>4. CASE Run(j) \/ Record(j)
  BY <1>4 DEF Run, Record
<1>5. CASE Verify(j)
  BY <1>5 DEF Verify
<1>6. CASE Close(j) \/ CloseTimeout(j)
  BY <1>6 DEF Close, CloseTimeout
<1>7. CASE Report(j) \/ DbFails(j)
  BY <1>7 DEF Report, DbFails
<1> QED
  BY <1>1, <1>2, <1>3, <1>4, <1>5, <1>6, <1>7 DEF JobStep, Proceed

LEMMA RemediationType == TypeOK /\ [Next]_vars => TypeOK'
<1> SUFFICES ASSUME TypeOK, [Next]_vars  PROVE TypeOK'
  OBVIOUS
<1> USE DEF TypeOK, Goto, End, origin, plan, answers, ledger, control
<1>1. ASSUME NEW j \in Jobs, Arrive(j)  PROVE TypeOK'
  BY <1>1 DEF Arrive, Consume, Analyze, Manual, Begin, Kinds
<1>2. ASSUME NEW j \in Jobs, Decide(j) \/ Refuse(j)  PROVE TypeOK'
  BY <1>2 DEF Decide, Refuse
<1>3. ASSUME NEW j \in Jobs, Automate(j) \/ AutomateTimeout(j)  PROVE TypeOK'
  BY <1>3 DEF Automate, AutomateTimeout, Replies
<1>4. ASSUME NEW j \in Jobs, Run(j) \/ Record(j)  PROVE TypeOK'
  BY <1>4 DEF Run, AfterRun, Record, Row, Replies
<1>5. ASSUME NEW j \in Jobs, Verify(j)  PROVE TypeOK'
  <2>1. Outcomes \subseteq SUBSET BOOLEAN
    <3>1. \A a \in Answers : a \subseteq BOOLEAN
      <4> SUFFICES ASSUME NEW a \in Answers  PROVE a \subseteq BOOLEAN
        OBVIOUS
      <4>1. a = {TRUE} \/ a = {FALSE} \/ a = {}
        BY Zenon DEF Answers
      <4>2. CASE a = {TRUE}
        BY <4>2, Zenon
      <4>3. CASE a = {FALSE}
        BY <4>3, Zenon
      <4>4. CASE a = {}
        BY <4>4
      <4> QED
        BY <4>1, <4>2, <4>3, <4>4
    <3>2. \A c \in Outcomes : c \subseteq BOOLEAN
      BY <3>1 DEF Outcomes
    <3> QED
      BY <3>2
  <2>2. PICK c \in Outcomes : checks' = [checks EXCEPT ![j] = c]
    BY <1>5 DEF Verify
  <2>4. checks' \in [Jobs -> SUBSET BOOLEAN]
    BY <2>1, <2>2
  <2>3. round' \in [Jobs -> {1, 2}] /\ runbook' \in [Jobs -> RunbookNames]
    BY <1>5 DEF Verify, RunbookNames
  <2> QED
    BY <1>5, <2>3, <2>4 DEF Verify, RunbookNames
<1>6. ASSUME NEW j \in Jobs, Close(j) \/ CloseTimeout(j)  PROVE TypeOK'
  BY <1>6 DEF Close, CloseTimeout
<1>7. ASSUME NEW j \in Jobs, Report(j) \/ DbFails(j)  PROVE TypeOK'
  BY <1>7 DEF Report, Status, DbFails
<1>8. CASE Toggle
  BY <1>8 DEF Toggle
<1>9. CASE Crash
  BY <1>9 DEF Crash
<1>10. CASE UNCHANGED vars
  BY <1>10 DEF vars
<1> QED
  BY <1>1, <1>2, <1>3, <1>4, <1>5, <1>6, <1>7, <1>8, <1>9, <1>10 DEF Next, Proceed

-------------------------------------------------------------------------------
LEMMA OwnStep ==
  ASSUME RemediationInv, NEW j \in Jobs, JobStep(j)
  PROVE  JobInv(j)'
<1> USE DEF TypeOK, Goto, End, origin, plan, answers, ledger, control, Replies
<1>0. TypeOK /\ JobInv(j)
  BY DEF RemediationInv
<1>1. CASE Arrive(j)
  BY <1>0, <1>1 DEF Arrive, Consume, Analyze, Manual, Begin, JobInv
<1>2. CASE Decide(j) \/ Refuse(j)
  BY <1>0, <1>2 DEF Decide, Refuse, JobInv
<1>3. CASE Automate(j) \/ AutomateTimeout(j)
  BY <1>0, <1>3 DEF Automate, AutomateTimeout, JobInv
<1>4. CASE Run(j)
  BY <1>0, <1>4 DEF Run, AfterRun, JobInv
<1>5. CASE Record(j)
  BY <1>0, <1>5 DEF Record, Row, JobInv
<1>6. CASE Verify(j)
  BY <1>0, <1>6 DEF Verify, Verified, Secondary, JobInv, Kinds
<1>7. CASE Close(j) \/ CloseTimeout(j)
  BY <1>0, <1>7 DEF Close, CloseTimeout, JobInv
<1>8. CASE Report(j) \/ DbFails(j)
  BY <1>0, <1>8 DEF Report, DbFails, JobInv
<1> QED
  BY <1>1, <1>2, <1>3, <1>4, <1>5, <1>6, <1>7, <1>8 DEF JobStep, Proceed

LEMMA JobsStep ==
  ASSUME RemediationInv, [Next]_vars
  PROVE  \A j \in Jobs : JobInv(j)'
<1> TAKE j \in Jobs
<1>0. TypeOK /\ JobInv(j)
  BY DEF RemediationInv
<1>1. ASSUME NEW k \in Jobs, JobStep(k)  PROVE JobInv(j)'
  <2>1. CASE k = j
    BY <1>1, <2>1, OwnStep
  <2>2. CASE k # j
    BY <1>0, <1>1, <2>2, Frame DEF JobInv
  <2> QED
    BY <2>1, <2>2
<1>2. CASE Toggle
  BY <1>0, <1>2 DEF Toggle, JobInv, origin, plan, answers, ledger
<1>3. CASE Crash
  BY <1>0, <1>3 DEF Crash, JobInv, TypeOK, origin, plan, answers, ledger
<1>4. CASE UNCHANGED vars
  BY <1>0, <1>4 DEF vars, JobInv
<1> QED
  BY <1>1, <1>2, <1>3, <1>4 DEF Next, JobStep

-------------------------------------------------------------------------------
(* Each of the four properties, one after the other.                       *)

LEMMA SuccessesStep ==
  ASSUME RemediationInv, NEW j \in Jobs, JobStep(j)
  PROVE  SuccessesHappened'
<1>1. TypeOK /\ JobInv(j) /\ SuccessesHappened
  BY DEF RemediationInv, Truths
<1>2. performed \subseteq performed'
  BY <1>1, Frame
<1>3. CASE Record(j)
  BY <1>1, <1>2, <1>3 DEF Record, Row, Goto, End, JobInv, SuccessesHappened
<1>4. CASE recorded' = recorded
  BY <1>1, <1>2, <1>4 DEF SuccessesHappened
<1>5. ~ Record(j) => recorded' = recorded
  BY DEF JobStep, Arrive, Consume, Analyze, Manual, Begin, Proceed, Decide, Refuse,
         Automate, AutomateTimeout, Run, Verify, Close, CloseTimeout, Report, DbFails, ledger
<1> QED
  BY <1>3, <1>4, <1>5

LEMMA EscalatedStep ==
  ASSUME RemediationInv, NEW j \in Jobs, JobStep(j)
  PROVE  EscalatedBeforeGivingUp'
<1>1. TypeOK /\ JobInv(j) /\ EscalatedBeforeGivingUp
  BY DEF RemediationInv, Truths
<1>2. recorded \subseteq recorded'
  BY <1>1, Frame
<1>3. CASE Report(j)
  <2>1. /\ pc[j] = "reporting" /\ recorded' = recorded
        /\ reports' = reports \cup {<<j, Status(j)>>}
    BY <1>3 DEF Report, End, Goto
  <2>2. Status(j) # "resolved" => \E s \in Replies : <<j, 2, s>> \in recorded
    <3>1. checks[j] = {TRUE} => Status(j) = "resolved"
      BY DEF Status, Verified
    <3>2. checks[j] # {TRUE} => round[j] = 2
      BY <1>1, <2>1 DEF JobInv
    <3> QED
      BY <1>1, <2>1, <3>1, <3>2 DEF JobInv
  <2>3. SUFFICES ASSUME NEW r \in reports', r[2] # "resolved"
                 PROVE  \E s \in Replies : <<r[1], 2, s>> \in recorded'
    BY DEF EscalatedBeforeGivingUp
  <2>4. CASE r \in reports
    BY <1>1, <1>2, <2>3, <2>4 DEF EscalatedBeforeGivingUp
  <2>5. CASE r = <<j, Status(j)>>
    BY <2>1, <2>2, <2>3, <2>5
  <2> QED
    BY <2>1, <2>4, <2>5
<1>4. CASE reports' = reports
  BY <1>1, <1>2, <1>4 DEF EscalatedBeforeGivingUp
<1>5. ~ Report(j) => reports' = reports
  BY DEF JobStep, Arrive, Consume, Analyze, Manual, Begin, Proceed, Decide, Refuse,
         Automate, AutomateTimeout, Run, Record, Verify, Close, CloseTimeout, DbFails, ledger
<1> QED
  BY <1>3, <1>4, <1>5

LEMMA ClosedStep ==
  ASSUME RemediationInv, NEW j \in Jobs, JobStep(j)
  PROVE  ClosedWasVerified'
<1>1. TypeOK /\ JobInv(j) /\ ClosedWasVerified
  BY DEF RemediationInv, Truths
<1>2. ASSUME NEW k \in Jobs, checks[k] = {TRUE}, kind[k] \in {"event", "analyze"}
      PROVE  /\ inc'[k] = inc[k] /\ kind'[k] = kind[k] /\ checks'[k] = checks[k]
  <2>1. pc[k] \notin {"new", "verifying"}
    BY <1>2 DEF RemediationInv, JobInv
  <2>2. CASE k = j
    BY <1>1, <1>2, <2>1, <2>2
       DEF JobStep, Arrive, Consume, Analyze, Manual, Begin, Proceed, Decide, Refuse,
           Automate, AutomateTimeout, Run, Record, Verify, Close, CloseTimeout, Report,
           DbFails, Goto, End, origin, answers
  <2>3. CASE k # j
    BY <1>1, <2>3, Frame
  <2> QED
    BY <2>2, <2>3
<1>6. ASSUME \/ closed' = closed
             \/ /\ checks[j] = {TRUE} /\ kind[j] \in {"event", "analyze"}
                /\ closed' \subseteq closed \cup {inc[j]}
      PROVE  ClosedWasVerified'
  <2> SUFFICES ASSUME NEW i \in closed'
               PROVE  \E k \in Jobs : /\ inc'[k] = i /\ kind'[k] \in {"event", "analyze"}
                                      /\ checks'[k] = {TRUE}
    BY DEF ClosedWasVerified
  <2>1. PICK k \in Jobs : inc[k] = i /\ kind[k] \in {"event", "analyze"} /\ checks[k] = {TRUE}
    BY <1>1, <1>6 DEF ClosedWasVerified
  <2> QED
    BY <1>2, <2>1
<1>3. CASE Close(j) \/ CloseTimeout(j)
  <2>1. /\ checks[j] = {TRUE} /\ kind[j] \in {"event", "analyze"}
        /\ closed' \subseteq closed \cup {inc[j]}
    BY <1>1, <1>3 DEF Close, CloseTimeout, Goto, End, JobInv
  <2> QED
    BY <1>6, <2>1
<1>4. CASE closed' = closed
  BY <1>4, <1>6
<1>5. ~ (Close(j) \/ CloseTimeout(j)) => closed' = closed
  BY DEF JobStep, Arrive, Consume, Analyze, Manual, Begin, Proceed, Decide, Refuse,
         Automate, AutomateTimeout, Run, Record, Verify, Report, DbFails, ledger
<1> QED
  BY <1>3, <1>4, <1>5

LEMMA UnrecordedStep ==
  ASSUME RemediationInv, NEW j \in Jobs, JobStep(j)
  PROVE  UnrecordedEndsJob'
<1> DEFINE Told(a) == \E s \in Replies : <<a[1], a[2], s>> \in recorded
           Open(a) == a[2] = round[a[1]] /\ pc[a[1]] \in {"running", "recording", "raised", "lost"}
<1>1. TypeOK /\ \A a \in performed : Told(a) \/ Open(a)
  BY DEF RemediationInv, Truths, UnrecordedEndsJob
<1>2. \A a \in performed : a \in Jobs \X {1, 2} /\ a[1] \in Jobs /\ a = <<a[1], a[2]>>
  BY <1>1 DEF TypeOK
<1>3. recorded \subseteq recorded' /\ \A k \in Jobs \ {j} : round'[k] = round[k] /\ pc'[k] = pc[k]
  BY <1>1, Frame
<1>4. ASSUME NEW a \in performed, a[1] # j  PROVE Told(a)' \/ Open(a)'
  BY <1>1, <1>2, <1>3, <1>4
<1>5. ASSUME \A a \in performed : a[1] = j => Told(a)' \/ Open(a)',
             \A a \in performed' \ performed : Told(a)' \/ Open(a)'
      PROVE  UnrecordedEndsJob'
  BY <1>4, <1>5 DEF UnrecordedEndsJob
<1>6. CASE Automate(j) \/ AutomateTimeout(j)
  <2>1. /\ pc[j] = "automating" /\ pc'[j] \in {"running", "recording"} /\ round' = round
        /\ performed' \subseteq performed \cup {<<j, round[j]>>}
        /\ recorded' = recorded
    BY <1>1, <1>6 DEF Automate, AutomateTimeout, Goto, plan, TypeOK
  <2> QED
    BY <1>1, <1>5, <2>1
<1>7. CASE Record(j)
  <2>1. /\ pc[j] = "recording" /\ performed' = performed
        /\ recorded' = recorded \cup {<<j, round[j], reply[j]>>} /\ reply[j] \in Replies
    BY <1>1, <1>7 DEF Record, Row, Goto, End, TypeOK
  <2> QED
    BY <1>1, <1>5, <2>1
<1>8. CASE Run(j)
  <2>1. /\ pc[j] = "running" /\ pc'[j] = "recording" /\ performed' = performed
        /\ round' = round
    BY <1>1, <1>8 DEF Run, Goto, ledger, plan, TypeOK
  <2> QED
    BY <1>1, <1>3, <1>5, <2>1
<1>9. CASE DbFails(j)
  <2>1. /\ pc'[j] = "raised" /\ performed' = performed /\ round' = round
    BY <1>1, <1>9 DEF DbFails, Goto, End, ledger, plan, TypeOK
  <2> QED
    BY <1>1, <1>3, <1>5, <2>1
<1>10. CASE pc[j] \notin {"running", "recording", "raised", "lost"} /\ performed' = performed
  BY <1>1, <1>3, <1>5, <1>10
<1>11. Arrive(j) \/ Decide(j) \/ Refuse(j) \/ Verify(j) \/ Close(j) \/ CloseTimeout(j) \/ Report(j)
         => pc[j] \notin {"running", "recording", "raised", "lost"} /\ performed' = performed
  BY DEF Arrive, Consume, Analyze, Manual, Begin, Decide, Refuse, Verify, Close, CloseTimeout,
         Report, Goto, End, ledger
<1> QED
  BY <1>6, <1>7, <1>8, <1>9, <1>10, <1>11 DEF JobStep, Proceed

-------------------------------------------------------------------------------
LEMMA RemediationInvariant == Spec => []RemediationInv
<1>1. ASSUME RemediationInv, [Next]_vars  PROVE Truths'
  <2>1. ASSUME NEW j \in Jobs, JobStep(j)  PROVE Truths'
    BY <1>1, <2>1, SuccessesStep, EscalatedStep, ClosedStep, UnrecordedStep DEF Truths
  <2>2. CASE Toggle \/ Crash \/ UNCHANGED vars
    <3>1. /\ UNCHANGED <<kind, inc, round, checks, performed, recorded, closed, reports>>
          /\ \A j \in Jobs : pc[j] \in {"running", "recording", "raised", "lost"}
                            => pc'[j] \in {"running", "recording", "raised", "lost"}
      BY <2>2 DEF Toggle, Crash, vars, origin, plan, answers, ledger
    <3>2. SuccessesHappened' /\ EscalatedBeforeGivingUp'
      BY <1>1, <3>1 DEF RemediationInv, Truths, SuccessesHappened, EscalatedBeforeGivingUp
    <3>3. ClosedWasVerified'
      BY <1>1, <3>1 DEF RemediationInv, Truths, ClosedWasVerified
    <3>4. \A a \in performed : a[1] \in Jobs
      BY <1>1 DEF RemediationInv, TypeOK
    <3>5. UnrecordedEndsJob'
      BY <1>1, <3>1, <3>4 DEF RemediationInv, Truths, UnrecordedEndsJob
    <3> QED
      BY <3>2, <3>3, <3>5 DEF Truths
  <2> QED
    BY <1>1, <2>1, <2>2 DEF Next, JobStep
<1>2. RemediationInv /\ [Next]_vars => RemediationInv'
  BY <1>1, RemediationType, JobsStep DEF RemediationInv
<1> QED
  BY RemediationInit, <1>2, PTL DEF Spec

\* Jobs, records, reports and the consumer keep their types.
THEOREM RemediationTypeCorrect == Spec => []TypeOK
<1>1. RemediationInv => TypeOK
  BY DEF RemediationInv
<1> QED
  BY RemediationInvariant, <1>1, PTL

\* What is recorded as a success was performed, for any number of jobs.
THEOREM RecordsAreTrue == Spec => []SuccessesHappened
<1>1. RemediationInv => SuccessesHappened
  BY DEF RemediationInv, Truths
<1> QED
  BY RemediationInvariant, <1>1, PTL

\* No incident is given up before the secondary runbook was tried and recorded.
THEOREM EscalationComesFirst == Spec => []EscalatedBeforeGivingUp
<1>1. RemediationInv => EscalatedBeforeGivingUp
  BY DEF RemediationInv, Truths
<1> QED
  BY RemediationInvariant, <1>1, PTL

\* What sre-agent closes was verified.
THEOREM ClosingFollowsVerification == Spec => []ClosedWasVerified
<1>1. RemediationInv => ClosedWasVerified
  BY DEF RemediationInv, Truths
<1> QED
  BY RemediationInvariant, <1>1, PTL

\* No job goes on past an action that it has not recorded.
THEOREM NothingAfterUnrecorded == Spec => []UnrecordedEndsJob
<1>1. RemediationInv => UnrecordedEndsJob
  BY DEF RemediationInv, Truths
<1> QED
  BY RemediationInvariant, <1>1, PTL
===============================================================================
