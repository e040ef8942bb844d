-------------------------- MODULE EventConsumerProofs --------------------------
(***************************************************************************)
(* Delivery guarantees of the consumer loop for every number of records,   *)
(* every batch size and every bound on faults and shutdowns.               *)
(***************************************************************************)
EXTENDS EventConsumer, FiniteSetTheorems, TLAPS

USE BoundsAssumption

\* Ends of the process that left the position uncommitted.
Unclean == failures["crash"] + failures["commit"]

\* The offsets of the group, of the loop and of the log never cross.
OffsetsOrdered ==
  /\ committed <= logEnd
  /\ base <= logEnd
  /\ base = NoOffset => loop \notin Running /\ committed = NoOffset
  /\ committed # NoOffset => base <= committed
  /\ loop \in Running => /\ base # NoOffset
                         /\ base <= cursor
                         /\ cursor <= position
                         /\ position <= logEnd
                         /\ committed <= position
  /\ loop = "handling" => cursor < position
  /\ loop = "polling" => cursor = position

\* Records from here on have not been handed out since the last unclean end.
Fresh == IF loop = "handling" THEN cursor + 1
         ELSE IF loop \in Running THEN cursor
         ELSE IF committed = NoOffset THEN logEnd ELSE committed

AttemptsInv ==
  \A e \in Offsets : /\ attempts[e] <= 1 + Unclean
                     /\ Fresh <= e => attempts[e] <= Unclean

\* What a history without handler exceptions, crashes and missed commits
\* looks like.
CleanInv ==
  (\A f \in {"raise", "crash", "commit"} : failures[f] = 0)
     => /\ skipped = {}
        /\ \A e \in Offsets :
             base # NoOffset /\ base <= e /\ e < Frontier => e \in handled
        /\ \A e \in handled : attempts[e] = 1
        /\ loop = "handling" => attempts[cursor] >= 1
        /\ loop \notin Running /\ committed = NoOffset => base = NoOffset

ConsumerInv == TypeOK /\ OffsetsOrdered /\ AttemptsInv /\ CleanInv

LEMMA ConsumerInit == Init => ConsumerInv
<1> SUFFICES ASSUME Init  PROVE ConsumerInv
  OBVIOUS
<1> USE DEF Init, NoOffset, Running
<1>1. TypeOK
  <2>1. stopping \in BOOLEAN
    OBVIOUS
  <2>2. /\ logEnd \in 0 .. MaxEvents
        /\ attempts \in [Offsets -> Nat]
        /\ failures \in [AllFaults -> Nat]
    BY DEF AllFaults
  <2> QED
    BY <2>1, <2>2 DEF TypeOK
<1>2. OffsetsOrdered
  BY DEF OffsetsOrdered
<1>3. AttemptsInv
  BY DEF AttemptsInv, Unclean, AllFaults
<1>4. CleanInv
  BY DEF CleanInv
<1> QED
  BY <1>1, <1>2, <1>3, <1>4 DEF ConsumerInv

\* A strike counts each of its faults once.
LEMMA StrikeEffect ==
  ASSUME TypeOK, NEW F \in SUBSET AllFaults, Strike(F)
  PROVE  /\ failures' \in [AllFaults -> Nat]
         /\ \A f \in AllFaults : /\ f \in F => failures'[f] = failures[f] + 1
                                 /\ f \notin F => failures'[f] = failures[f]
BY DEF TypeOK, Strike

\* The last commit of a stopping consumer happens or is counted as missed.
LEMMA StopEffect ==
  ASSUME TypeOK, NEW F \in SUBSET {"raise"}, StopConsumer(F)
  PROVE  /\ failures' \in [AllFaults -> Nat]
         /\ failures'["crash"] = failures["crash"]
         /\ "raise" \in F => failures'["raise"] = failures["raise"] + 1
         /\ "raise" \notin F => failures'["raise"] = failures["raise"]
         /\ \/ /\ committed' = position
               /\ failures'["commit"] = failures["commit"]
            \/ /\ committed' = committed
               /\ failures'["commit"] = failures["commit"] + 1
<1>1. PICK G \in {F, F \cup {"commit"}} :
        Strike(G) /\ committed' = IF "commit" \in G THEN committed ELSE position
  BY DEF StopConsumer
<1>2. G \in SUBSET AllFaults
  BY DEF AllFaults
<1> QED
  BY <1>1, <1>2, StrikeEffect DEF AllFaults

LEMMA ConsumerStep == ConsumerInv /\ [Next]_vars => ConsumerInv'
<1> SUFFICES ASSUME ConsumerInv, [Next]_vars  PROVE ConsumerInv'
  OBVIOUS
<1> USE DEF ConsumerInv, NoOffset, Running
<1>1. CASE Produce
  <2> USE <1>1 DEF Produce
  <2>1. TypeOK' /\ OffsetsOrdered'
    BY DEF TypeOK, OffsetsOrdered
  <2>2. AttemptsInv'
    BY DEF TypeOK, OffsetsOrdered, AttemptsInv, Unclean, Fresh, Offsets
  <2>3. CleanInv'
    BY DEF TypeOK, OffsetsOrdered, CleanInv, Frontier
  <2> QED
    BY <2>1, <2>2, <2>3
<1>2. CASE StartOk
  <2> USE <1>2 DEF StartOk
  <2>1. TypeOK' /\ OffsetsOrdered'
    BY DEF TypeOK, OffsetsOrdered, StartOffset
  <2>2. AttemptsInv'
    BY DEF TypeOK, OffsetsOrdered, AttemptsInv, Unclean, Fresh, Offsets, StartOffset
  <2>3. CASE base = NoOffset
    <3>1. skipped' = skipped
      BY <2>3
    <3>2. base' = StartOffset /\ Frontier' = StartOffset /\ StartOffset \in Int
      BY <2>3 DEF Frontier, TypeOK, StartOffset
    <3>3. CleanInv'
      BY <3>1, <3>2 DEF CleanInv, Offsets
    <3> QED
      BY <2>1, <2>2, <3>3
  <2>4. CASE base # NoOffset
    <3> SUFFICES ASSUME \A f \in {"raise", "crash", "commit"} : failures[f] = 0
                 PROVE  CleanInv'
      BY <2>1, <2>2 DEF CleanInv
    <3>1. committed # NoOffset /\ Frontier = committed /\ StartOffset = committed
      BY <2>4 DEF CleanInv, Frontier, StartOffset
    <3>2. skipped' = skipped
      BY <3>1 DEF TypeOK, Offsets
    <3>3. Frontier' = committed
      BY <3>1 DEF Frontier
    <3> QED
      BY <2>4, <3>1, <3>2, <3>3 DEF CleanInv
  <2> QED
    BY <2>3, <2>4
<1>3. CASE StartFails
  <2> USE <1>3 DEF StartFails
  <2>1. failures' \in [AllFaults -> Nat]
        /\ \A f \in {"raise", "crash", "commit"} : failures'[f] = failures[f]
    BY StrikeEffect DEF AllFaults
  <2>2. TypeOK' /\ OffsetsOrdered'
    BY <2>1 DEF TypeOK, OffsetsOrdered
  <2>3. AttemptsInv'
    BY <2>1 DEF AttemptsInv, Unclean, Fresh
  <2>4. CleanInv'
    BY <2>1 DEF CleanInv, Frontier
  <2> QED
    BY <2>2, <2>3, <2>4
<1>4. CASE NextRound
  <2> USE <1>4 DEF NextRound
  <2>1. TypeOK' /\ OffsetsOrdered'
    BY DEF TypeOK, OffsetsOrdered
  <2>2. AttemptsInv' /\ CleanInv'
    BY DEF AttemptsInv, Unclean, Fresh, CleanInv, Frontier
  <2> QED
    BY <2>1, <2>2
<1>5. CASE Fetch
  <2> USE <1>5 DEF Fetch, Min2
  <2>1. TypeOK' /\ OffsetsOrdered'
    BY DEF TypeOK, OffsetsOrdered
  <2>2. AttemptsInv' /\ CleanInv'
    BY DEF AttemptsInv, Unclean, Fresh, CleanInv, Frontier
  <2> QED
    BY <2>1, <2>2
<1>6. CASE Begin
  <2> USE <1>6 DEF Begin
  <2>0. cursor \in Offsets
    BY DEF TypeOK, OffsetsOrdered, Offsets
  <2>1. attempts' \in [Offsets -> Nat]
    BY <2>0 DEF TypeOK
  <2>2. TypeOK' /\ OffsetsOrdered'
    BY <2>1 DEF TypeOK, OffsetsOrdered
  <2>3. attempts[cursor] <= Unclean /\ attempts'[cursor] = attempts[cursor] + 1
    BY <2>0 DEF TypeOK, AttemptsInv, Fresh
  <2>4. AttemptsInv'
    <3>1. /\ Fresh' = cursor + 1 /\ Fresh = cursor /\ Unclean' = Unclean
          /\ cursor \in Int
          /\ \A e \in Offsets : e # cursor => attempts'[e] = attempts[e]
          /\ \A e \in Offsets : e \in Int
      BY <2>0 DEF TypeOK, Fresh, Unclean, Offsets
    <3>2. attempts[cursor] \in Nat /\ Unclean \in Int
      BY <2>0 DEF TypeOK, Unclean, AllFaults
    <3> QED
      BY <2>3, <3>1, <3>2 DEF AttemptsInv
  <2>5. CleanInv'
    <3> SUFFICES ASSUME \A f \in {"raise", "crash", "commit"} : failures[f] = 0
                 PROVE  CleanInv'
      BY DEF CleanInv
    <3>1. cursor \notin handled /\ attempts'[cursor] = 1
      BY <2>0, <2>3 DEF TypeOK, CleanInv, Unclean
    <3> QED
      BY <2>0, <3>1 DEF TypeOK, CleanInv, Frontier
  <2> QED
    BY <2>2, <2>4, <2>5
<1>7. CASE Return
  <2> USE <1>7 DEF Return
  <2>0. cursor \in Offsets
    BY DEF TypeOK, OffsetsOrdered, Offsets
  <2>1. TypeOK' /\ OffsetsOrdered'
    BY <2>0 DEF TypeOK, OffsetsOrdered
  <2>2. AttemptsInv'
    BY DEF AttemptsInv, Unclean, Fresh
  <2>3. CleanInv'
    <3> SUFFICES ASSUME \A f \in {"raise", "crash", "commit"} : failures[f] = 0
                 PROVE  CleanInv'
      BY DEF CleanInv
    <3>1. attempts[cursor] = 1
      BY <2>0 DEF TypeOK, CleanInv, AttemptsInv, Unclean
    <3> QED
      BY <2>0, <3>1 DEF TypeOK, CleanInv, Frontier, Offsets
  <2> QED
    BY <2>1, <2>2, <2>3
<1>8. CASE AutoCommit
  <2> USE <1>8 DEF AutoCommit
  <2>1. TypeOK' /\ OffsetsOrdered'
    BY DEF TypeOK, OffsetsOrdered
  <2>2. AttemptsInv' /\ CleanInv'
    BY DEF AttemptsInv, Unclean, Fresh, CleanInv, Frontier
  <2> QED
    BY <2>1, <2>2
<1>9. CASE Raise
  <2> USE <1>9 DEF Raise
  <2>1. /\ failures' \in [AllFaults -> Nat]
        /\ failures'["raise"] = failures["raise"] + 1
        /\ failures'["crash"] = failures["crash"]
        /\ \/ committed' = position /\ failures'["commit"] = failures["commit"]
           \/ committed' = committed /\ failures'["commit"] = failures["commit"] + 1
    BY StopEffect
  <2>2. failures["raise"] \in Nat /\ failures["crash"] \in Nat /\ failures["commit"] \in Nat
    BY DEF TypeOK, AllFaults
  <2>3. TypeOK' /\ OffsetsOrdered'
    BY <2>1 DEF TypeOK, OffsetsOrdered
  <2>4. AttemptsInv'
    <3>1. /\ \A e \in Offsets : e \in Int /\ attempts[e] \in Nat
          /\ Unclean \in Nat /\ position \in Int
      BY <2>2 DEF TypeOK, Offsets, Unclean
    <3>2. CASE committed' = position /\ failures'["commit"] = failures["commit"]
      <4>1. Unclean' = Unclean /\ Fresh' = position
        BY <2>1, <3>2 DEF TypeOK, Unclean, Fresh
      <4>2. Fresh <= position /\ Fresh \in Int
        BY DEF TypeOK, OffsetsOrdered, Fresh
      <4> QED
        BY <3>1, <4>1, <4>2 DEF AttemptsInv
    <3>3. CASE failures'["commit"] = failures["commit"] + 1
      <4>1. Unclean' = Unclean + 1
        BY <2>1, <2>2, <3>3 DEF Unclean
      <4> QED
        BY <3>1, <4>1 DEF AttemptsInv
    <3> QED
      BY <2>1, <3>2, <3>3
  <2>5. CleanInv'
    BY <2>1, <2>2 DEF CleanInv
  <2> QED
    BY <2>3, <2>4, <2>5
<1>10. CASE Close
  <2> USE <1>10 DEF Close
  <2>1. /\ failures' \in [AllFaults -> Nat]
        /\ failures'["raise"] = failures["raise"]
        /\ failures'["crash"] = failures["crash"]
        /\ \/ committed' = position /\ failures'["commit"] = failures["commit"]
           \/ committed' = committed /\ failures'["commit"] = failures["commit"] + 1
    BY StopEffect
  <2>2. failures["raise"] \in Nat /\ failures["crash"] \in Nat /\ failures["commit"] \in Nat
    BY DEF TypeOK, AllFaults
  <2>3. TypeOK' /\ OffsetsOrdered'
    BY <2>1 DEF TypeOK, OffsetsOrdered
  <2>4. AttemptsInv'
    <3>1. /\ \A e \in Offsets : e \in Int /\ attempts[e] \in Nat
          /\ Unclean \in Nat /\ position \in Int
      BY <2>2 DEF TypeOK, Offsets, Unclean
    <3>2. CASE committed' = position /\ failures'["commit"] = failures["commit"]
      <4>1. Unclean' = Unclean /\ Fresh' = position
        BY <2>1, <3>2 DEF TypeOK, Unclean, Fresh
      <4>2. Fresh <= position /\ Fresh \in Int
        BY DEF TypeOK, OffsetsOrdered, Fresh
      <4> QED
        BY <3>1, <4>1, <4>2 DEF AttemptsInv
    <3>3. CASE failures'["commit"] = failures["commit"] + 1
      <4>1. Unclean' = Unclean + 1
        BY <2>1, <2>2, <3>3 DEF Unclean
      <4> QED
        BY <3>1, <4>1 DEF AttemptsInv
    <3> QED
      BY <2>1, <3>2, <3>3
  <2>5. CleanInv'
    <3> SUFFICES ASSUME \A f \in {"raise", "crash", "commit"} : failures'[f] = 0
                 PROVE  CleanInv'
      BY DEF CleanInv
    <3>1. committed' = position /\ \A f \in {"raise", "crash", "commit"} : failures[f] = 0
      BY <2>1, <2>2
    <3>2. committed' # NoOffset /\ Frontier' = position /\ Frontier = position
      BY <3>1 DEF TypeOK, Frontier
    <3> QED
      BY <3>1, <3>2 DEF CleanInv
  <2> QED
    BY <2>3, <2>4, <2>5
<1>11. CASE Crash
  <2> USE <1>11 DEF Crash
  <2>1. /\ failures' \in [AllFaults -> Nat]
        /\ failures'["crash"] = failures["crash"] + 1
        /\ failures'["commit"] = failures["commit"]
    BY StrikeEffect DEF AllFaults
  <2>2. failures["crash"] \in Nat /\ failures["commit"] \in Nat
    BY DEF TypeOK, AllFaults
  <2>3. TypeOK' /\ OffsetsOrdered'
    BY <2>1 DEF TypeOK, OffsetsOrdered
  <2>4. AttemptsInv'
    BY <2>1, <2>2 DEF TypeOK, AttemptsInv, Unclean
  <2>5. CleanInv'
    BY <2>1, <2>2 DEF CleanInv
  <2> QED
    BY <2>3, <2>4, <2>5
<1>12. CASE RequestStop \/ Exit \/ Restart
  <2> USE <1>12 DEF RequestStop, Exit, Restart
  <2>0. stopping' \in BOOLEAN
    BY DEF TypeOK
  <2>1. TypeOK' /\ OffsetsOrdered'
    BY <2>0 DEF TypeOK, OffsetsOrdered
  <2>2. AttemptsInv' /\ CleanInv'
    BY DEF AttemptsInv, Unclean, Fresh, CleanInv, Frontier
  <2> QED
    BY <2>1, <2>2
<1>13. CASE UNCHANGED vars
  BY <1>13 DEF vars, TypeOK, OffsetsOrdered, AttemptsInv, Unclean, Fresh, CleanInv, Frontier
<1> QED
  BY <1>1, <1>2, <1>3, <1>4, <1>5, <1>6, <1>7, <1>8, <1>9, <1>10, <1>11, <1>12, <1>13
     DEF Next, Consume

LEMMA ConsumerInvariant == Spec => []ConsumerInv
BY ConsumerInit, ConsumerStep, PTL DEF Spec

\* The offsets, the loop and the fault counters keep their types.
THEOREM ConsumerTypeCorrect == Spec => []TypeOK
<1>1. ConsumerInv => TypeOK
  BY DEF ConsumerInv
<1> QED
  BY <1>1, ConsumerInvariant, PTL

\* A record is handed to its handler at most once more than the process ended
\* uncommitted, for every batch size and number of records.
THEOREM RedeliveryIsBounded == Spec => []RedeliveryBounded
<1>1. ConsumerInv => RedeliveryBounded
  BY DEF ConsumerInv, AttemptsInv, Unclean, RedeliveryBounded, TypeOK, AllFaults
<1> QED
  BY <1>1, ConsumerInvariant, PTL

\* Orderly starts, stops and background commits lose no record and repeat none.
THEOREM OrderlyRunsAreExact == Spec => []CleanRunsLoseNothing
<1>1. ConsumerInv => CleanRunsLoseNothing
  BY DEF ConsumerInv, CleanInv, CleanRunsLoseNothing, Lost
<1> QED
  BY <1>1, ConsumerInvariant, PTL

-------------------------------------------------------------------------------
(* How much is lost.                                                       *)

\* What has been fetched and not handled is part of one batch.
BatchBounded == loop \in Running => position <= cursor + BatchSize

LEMMA BatchStep == ConsumerInv /\ BatchBounded /\ [Next]_vars => BatchBounded'
<1> SUFFICES ASSUME TypeOK, OffsetsOrdered, BatchBounded, [Next]_vars
             PROVE  BatchBounded'
  BY DEF ConsumerInv
<1> QED
  BY DEF TypeOK, OffsetsOrdered, BatchBounded, Running, Next, Consume, vars, Produce,
     StartOk, StartOffset, StartFails, NextRound, Fetch, Min2, Begin, Return,
     AutoCommit, Raise, RequestStop, Close, Exit, Crash, Restart, NoOffset

\* Only a handler exception or a crash gives records up, and then records of
\* the batch at hand.
LEMMA LossStep ==
  ASSUME ConsumerInv, [Next]_vars
  PROVE  \/ /\ Lost' \subseteq Lost
            /\ failures'["raise"] = failures["raise"]
            /\ failures'["crash"] = failures["crash"]
         \/ /\ loop \in Running
            /\ Lost' \subseteq Lost \cup (cursor .. (position - 1))
            /\ failures'["raise"] + failures'["crash"]
                 = failures["raise"] + failures["crash"] + 1
         \/ /\ Lost' \subseteq Lost
            /\ failures'["raise"] = failures["raise"]
            /\ failures'["crash"] = failures["crash"] + 1
<1> USE DEF ConsumerInv, NoOffset, Running
<1>0. failures["raise"] \in Nat /\ failures["crash"] \in Nat
  BY DEF TypeOK, AllFaults
<1>1. CASE Produce \/ NextRound \/ Fetch \/ AutoCommit \/ RequestStop \/ Exit \/ Restart
  BY <1>1 DEF Produce, NextRound, Fetch, AutoCommit, RequestStop, Exit, Restart,
     Lost, Frontier, InHandler
<1>2. CASE UNCHANGED vars
  BY <1>2 DEF vars, Lost, Frontier, InHandler
<1>3. CASE StartOk
  <2> USE <1>3 DEF StartOk
  <2>1. Frontier' = StartOffset /\ InHandler' = {} /\ InHandler = {}
    BY DEF Frontier, InHandler
  <2>2. Lost' \subseteq Lost
    <3> SUFFICES ASSUME NEW e \in Lost'  PROVE e \in Lost
      OBVIOUS
    <3>1. /\ e \in Offsets /\ base' # NoOffset /\ base' <= e /\ e < StartOffset
          /\ e \notin handled /\ e \notin skipped'
      BY <2>1 DEF Lost
    <3>2. base # NoOffset /\ base' = base
      BY <3>1 DEF TypeOK, StartOffset, Offsets
    <3>3. e < Frontier
      BY <3>1, <3>2 DEF TypeOK, Frontier, Offsets
    <3> QED
      BY <2>1, <3>1, <3>2, <3>3 DEF Lost
  <2> QED
    BY <2>2
<1>4. CASE StartFails
  <2>1. failures'["raise"] = failures["raise"] /\ failures'["crash"] = failures["crash"]
    BY <1>4, StrikeEffect DEF StartFails, AllFaults
  <2> QED
    BY <1>4, <2>1 DEF StartFails, Lost, Frontier, InHandler
<1>5. CASE Begin
  BY <1>5 DEF Begin, Lost, Frontier, InHandler
<1>6. CASE Return
  <2> SUFFICES Lost' \subseteq Lost
    BY <1>6 DEF Return
  <2> QED
    BY <1>6 DEF Return, Lost, Frontier, InHandler, TypeOK, Offsets
<1>7. CASE Raise
  <2> USE <1>7 DEF Raise
  <2>1. /\ failures'["raise"] = failures["raise"] + 1
        /\ failures'["crash"] = failures["crash"]
        /\ committed' = position \/ committed' = committed
    BY StopEffect
  <2>2. Frontier' <= position /\ Frontier' \in Int
    BY <2>1 DEF Frontier, TypeOK, OffsetsOrdered
  <2>3. Lost' \subseteq Lost \cup (cursor .. (position - 1))
    BY <2>2 DEF Lost, Frontier, InHandler, TypeOK, OffsetsOrdered, Offsets
  <2> QED
    BY <1>0, <2>1, <2>3
<1>8. CASE Close
  <2> USE <1>8 DEF Close
  <2>1. /\ failures'["raise"] = failures["raise"]
        /\ failures'["crash"] = failures["crash"]
        /\ committed' = position \/ committed' = committed
    BY StopEffect
  <2>2. Frontier' <= cursor /\ Frontier = cursor /\ Frontier' \in Int
    BY <2>1 DEF Frontier, TypeOK, OffsetsOrdered
  <2>3. Lost' \subseteq Lost
    BY <2>2 DEF Lost, InHandler, TypeOK, Offsets
  <2> QED
    BY <2>1, <2>3
<1>9. CASE Crash
  <2> USE <1>9 DEF Crash
  <2>1. failures'["raise"] = failures["raise"] /\ failures'["crash"] = failures["crash"] + 1
    BY StrikeEffect DEF AllFaults
  <2>2. CASE loop \in Running
    <3>1. Frontier' <= position /\ Frontier' \in Int
      BY <2>2 DEF Frontier, TypeOK, OffsetsOrdered
    <3>2. Lost' \subseteq Lost \cup (cursor .. (position - 1))
      BY <2>2, <3>1 DEF Lost, Frontier, InHandler, TypeOK, OffsetsOrdered, Offsets
    <3> QED
      BY <1>0, <2>1, <2>2, <3>2
  <2>3. CASE loop \notin Running
    BY <2>1, <2>3 DEF Lost, Frontier, InHandler
  <2> QED
    BY <2>2, <2>3
<1> QED
  BY <1>1, <1>2, <1>3, <1>4, <1>5, <1>6, <1>7, <1>8, <1>9 DEF Next, Consume

\* Each handler exception and each crash costs at most one batch, for every
\* batch size, number of records and history of the group.
THEOREM LossIsBounded == Spec => []LossBounded
<1>1. Init => BatchBounded /\ LossBounded
  <2> SUFFICES ASSUME Init  PROVE BatchBounded /\ LossBounded
    OBVIOUS
  <2>1. Lost = {} /\ failures["raise"] = 0 /\ failures["crash"] = 0
    BY DEF Init, Lost, AllFaults
  <2> QED
    BY <2>1, FS_EmptySet DEF Init, BatchBounded, LossBounded, Running
<1>2. ASSUME ConsumerInv, BatchBounded, LossBounded, [Next]_vars  PROVE LossBounded'
  <2> DEFINE batch == cursor .. (position - 1)
  <2>1. IsFiniteSet(Lost)
    <3>1. IsFiniteSet(Offsets)
      BY FS_Interval DEF Offsets
    <3> QED
      BY <3>1, FS_Subset DEF Lost
  <2>2. failures["raise"] \in Nat /\ failures["crash"] \in Nat /\ Cardinality(Lost) \in Nat
    BY <1>2, <2>1, FS_CardinalityType DEF ConsumerInv, TypeOK, AllFaults
  <2>3. CASE Lost' \subseteq Lost
    <3>1. Cardinality(Lost') <= Cardinality(Lost) /\ Cardinality(Lost') \in Nat
      BY <2>1, <2>3, FS_Subset, FS_CardinalityType
    <3>2. PICK n \in Nat : /\ n = failures["raise"] + failures["crash"]
                           /\ failures'["raise"] + failures'["crash"] \in {n, n + 1}
      BY <1>2, <2>2, LossStep
    <3>3. BatchSize * n \in Nat /\ BatchSize * (n + 1) >= BatchSize * n
      BY <3>2
    <3> QED
      BY <1>2, <2>2, <3>1, <3>2, <3>3 DEF LossBounded
  <2>4. CASE /\ loop \in Running
             /\ Lost' \subseteq Lost \cup batch
             /\ failures'["raise"] + failures'["crash"]
                  = failures["raise"] + failures["crash"] + 1
    <3>1. /\ cursor \in Int /\ position \in Int /\ cursor <= position
          /\ position - cursor <= BatchSize
      BY <1>2, <2>4 DEF ConsumerInv, TypeOK, OffsetsOrdered, BatchBounded
    <3>2. IsFiniteSet(batch) /\ Cardinality(batch) <= BatchSize /\ Cardinality(batch) \in Nat
      <4>1. position - 1 \in Int
        BY <3>1
      <4>2. /\ IsFiniteSet(batch)
            /\ Cardinality(batch) = IF cursor > position - 1 THEN 0
                                    ELSE (position - 1) - cursor + 1
        BY <3>1, <4>1, FS_Interval
      <4> HIDE DEF batch
      <4>3. Cardinality(batch) <= BatchSize
        BY <3>1, <4>2
      <4> QED
        BY <4>2, <4>3, FS_CardinalityType
    <3> HIDE DEF batch
    <3>3. /\ IsFiniteSet(Lost \cup batch)
          /\ Cardinality(Lost \cup batch) <= Cardinality(Lost) + Cardinality(batch)
      <4>1. IsFiniteSet(Lost \cap batch)
        BY <2>1, FS_Subset
      <4>2. /\ IsFiniteSet(Lost \cup batch)
            /\ Cardinality(Lost \cup batch)
                 = Cardinality(Lost) + Cardinality(batch) - Cardinality(Lost \cap batch)
        BY <2>1, <3>2, FS_Union
      <4>3. Cardinality(Lost \cap batch) \in Nat
        BY <4>1, FS_CardinalityType
      <4> QED
        BY <2>2, <3>2, <4>2, <4>3
    <3>4. Cardinality(Lost') <= Cardinality(Lost) + Cardinality(batch)
      BY <2>2, <2>4, <3>2, <3>3, FS_Subset, FS_CardinalityType
    <3>5. Cardinality(Lost') \in Nat
      BY <2>4, <3>3, FS_Subset, FS_CardinalityType
    <3>6. PICK n \in Nat : n = failures["raise"] + failures["crash"]
      BY <2>2
    <3>7. BatchSize * (n + 1) = BatchSize * n + BatchSize /\ BatchSize * n \in Nat
      BY <3>6
    <3> QED
      BY <1>2, <2>2, <2>4, <3>2, <3>4, <3>5, <3>6, <3>7 DEF LossBounded
  <2> QED
    BY <1>2, <2>3, <2>4, LossStep
<1>3. LossBounded /\ BatchBounded /\ UNCHANGED vars => LossBounded' /\ BatchBounded'
  BY DEF LossBounded, BatchBounded, vars, Lost, Frontier, InHandler
<1> QED
  BY <1>1, <1>2, <1>3, BatchStep, ConsumerInvariant, PTL DEF Spec

-------------------------------------------------------------------------------
(* The offsets implement DeliveryContract.                                 *)

\* The group has the record.
Arrived(e) == base # NoOffset /\ base <= e /\ e < logEnd

Open(e) == e \notin handled \cup skipped

\* Nothing the group gave up comes back: what the loop has passed unhandled is
\* below the committed offset, and so is what a start skipped once there is one.
SettledInv ==
  /\ \A e \in handled \cup skipped : Arrived(e)
  /\ handled \cap skipped = {}
  /\ committed # NoOffset => \A e \in skipped : e < committed
  /\ loop \in Running => \A e \in skipped : e < cursor
  /\ loop \in Running =>
       \A e \in Offsets : base <= e /\ e < cursor /\ Open(e)
                            => committed # NoOffset /\ e < committed

FateRead(e) == IF ~ Arrived(e) THEN "none"
               ELSE IF e \in handled THEN "handled"
               ELSE IF e \in skipped \/ e < Frontier THEN "lost" ELSE "pending"

FatesRead == \A e \in Offsets : FateOf(e) = FateRead(e)

DeliveryInv == SettledInv /\ FatesRead

LEMMA FatesAreRead == TypeOK /\ OffsetsOrdered => FatesRead
<1> SUFFICES ASSUME TypeOK, OffsetsOrdered, NEW e \in Offsets
             PROVE  FateOf(e) = FateRead(e)
  BY DEF FatesRead
<1>1. e \in Int /\ base \in Int /\ logEnd \in Int /\ cursor \in Int
  BY DEF TypeOK, Offsets
<1>2. Arrived(e) /\ Open(e) => (e \in Lost <=> e < Frontier)
  BY <1>1 DEF Arrived, Open, Lost, InHandler, Frontier, Running
<1> QED
  BY <1>1, <1>2 DEF FateOf, FateRead, Arrived, Open

LEMMA SettledInit == Init => SettledInv
BY DEF Init, SettledInv, Running

LEMMA SettledStep ==
  ASSUME ConsumerInv, SettledInv, [Next]_vars
  PROVE  SettledInv'
<1> USE DEF ConsumerInv, NoOffset, Running, Open
<1>1. /\ TypeOK /\ OffsetsOrdered
      /\ \A e \in handled \cup skipped : e \in Offsets /\ Arrived(e)
      /\ \A e \in Offsets : e \in Nat
  BY DEF SettledInv, TypeOK, Offsets
\* Where the task stands, and what it has fetched, changes.
<1>2. CASE NextRound \/ Fetch \/ Begin \/ RequestStop \/ Exit \/ Restart \/ StartFails
           \/ UNCHANGED vars
  <2>1. /\ UNCHANGED <<logEnd, committed, cursor, handled, skipped, base>>
        /\ loop' \in Running => loop \in Running
    BY <1>2 DEF NextRound, Fetch, Begin, RequestStop, Exit, Restart, StartFails, vars
  <2> QED
    BY <2>1 DEF SettledInv, Arrived
<1>3. CASE Produce
  BY <1>1, <1>3 DEF Produce, SettledInv, Arrived, TypeOK
<1>4. CASE AutoCommit
  BY <1>1, <1>4 DEF AutoCommit, SettledInv, Arrived, TypeOK, OffsetsOrdered
\* The process leaves the group, and commits its position or does not.
<1>5. CASE Raise \/ Close \/ Crash
  <2>1. /\ UNCHANGED <<logEnd, cursor, handled, skipped, base>> /\ loop' \notin Running
        /\ committed' = committed \/ (loop \in Running /\ committed' = position)
    <3>1. CASE Raise
      BY <1>1, <3>1, StopEffect DEF Raise
    <3>2. CASE Close
      BY <1>1, <3>2, StopEffect DEF Close
    <3>3. CASE Crash
      BY <3>3 DEF Crash
    <3> QED
      BY <1>5, <3>1, <3>2, <3>3
  <2> QED
    BY <1>1, <2>1 DEF SettledInv, Arrived, TypeOK, OffsetsOrdered
<1>6. CASE Return
  <2> USE <1>6 DEF Return
  <2>1. /\ cursor \in Offsets /\ Arrived(cursor) /\ cursor \notin skipped
    BY <1>1 DEF SettledInv, Arrived, TypeOK, OffsetsOrdered, Offsets
  <2>2. \A e \in handled' \cup skipped' : Arrived(e)'
    BY <1>1, <2>1 DEF Arrived
  <2>3. handled' \cap skipped' = {}
    BY <2>1 DEF SettledInv
  <2>4. \A e \in skipped : e < cursor + 1
    BY <1>1 DEF SettledInv, TypeOK
  <2>5. \A e \in Offsets : base <= e /\ e < cursor + 1 /\ e \notin handled' \cup skipped
                             => committed # NoOffset /\ e < committed
    <3> SUFFICES ASSUME NEW e \in Offsets, base <= e, e < cursor + 1,
                        e \notin handled' \cup skipped
                 PROVE  committed # NoOffset /\ e < committed
      OBVIOUS
    <3>1. e # cursor /\ e \notin handled \cup skipped
      OBVIOUS
    <3>2. e < cursor
      BY <1>1, <3>1 DEF TypeOK
    <3> QED
      BY <3>1, <3>2 DEF SettledInv
  <2> QED
    BY <2>2, <2>3, <2>4, <2>5 DEF SettledInv
<1>7. CASE StartOk
  <2> USE <1>7 DEF StartOk
  <2>0. /\ loop \notin Running /\ loop' \in Running /\ handled' = handled
        /\ logEnd' = logEnd /\ committed' = committed /\ cursor' = StartOffset
        /\ StartOffset \in Nat /\ StartOffset <= logEnd
    BY <1>1 DEF StartOffset, TypeOK, OffsetsOrdered
  <2>1. CASE base = NoOffset
    <3>1. handled = {} /\ skipped = {} /\ skipped' = {} /\ base' = StartOffset
      BY <1>1, <2>1 DEF Arrived
    <3> QED
      BY <1>1, <2>0, <3>1 DEF SettledInv
  <2>2. CASE base # NoOffset /\ committed # NoOffset
    <3>1. Frontier = committed /\ StartOffset = committed /\ base' = base
      BY <2>0, <2>2 DEF Frontier, StartOffset
    <3>2. skipped' = skipped
      BY <1>1, <2>0, <3>1
    <3> QED
      BY <1>1, <2>0, <2>2, <3>1, <3>2 DEF SettledInv, Arrived
  <2>3. CASE base # NoOffset /\ committed = NoOffset
    <3>1. Frontier = base /\ StartOffset = logEnd /\ base' = base
      BY <2>0, <2>3 DEF Frontier, StartOffset
    <3>2. skipped' = skipped \cup {e \in Offsets : base <= e /\ e < logEnd /\ e \notin handled}
      BY <2>3, <3>1
    <3> QED
      BY <1>1, <2>0, <2>3, <3>1, <3>2 DEF SettledInv, Arrived
  <2> QED
    BY <2>1, <2>2, <2>3
<1> QED
  BY <1>2, <1>3, <1>4, <1>5, <1>6, <1>7 DEF Next, Consume

LEMMA DeliveryInvariant == Spec => [](ConsumerInv /\ BatchBounded /\ DeliveryInv)
<1>1. Init => BatchBounded
  BY DEF Init, BatchBounded, Running
<1>2. ConsumerInv /\ SettledInv => DeliveryInv
  BY FatesAreRead DEF ConsumerInv, DeliveryInv
<1>3. Spec => []SettledInv
  BY SettledInit, SettledStep, ConsumerInvariant, PTL DEF Spec
<1>4. Spec => []BatchBounded
  BY <1>1, BatchStep, ConsumerInvariant, PTL DEF Spec
<1> QED
  BY <1>2, <1>3, <1>4, ConsumerInvariant, PTL

Failed == failures["raise"] + failures["crash"] + failures["commit"]

LEMMA SettlesFates ==
  ASSUME NEW S, NEW as, \A e \in Offsets : FateOf(e)' = IF e \in S THEN as ELSE FateOf(e)
  PROVE  Delivery!Settle(S, as)
BY Zenon DEF Delivery!Settle

LEMMA PendingFates == Delivery!Pending = {e \in Offsets : FateOf(e) = "pending"}
BY Zenon DEF Delivery!Pending

\* The fates of the records are those of a step that moves no frontier.
LEMMA SameFates ==
  ASSUME FatesRead, FatesRead', UNCHANGED <<base, logEnd, handled, skipped>>,
         \A e \in Offsets : Arrived(e) /\ Open(e) => (e < Frontier' <=> e < Frontier)
  PROVE  \A e \in Offsets : FateOf(e)' = FateOf(e)
<1> SUFFICES ASSUME NEW e \in Offsets  PROVE FateOf(e)' = FateOf(e)
  OBVIOUS
<1>1. FateOf(e) = FateRead(e) /\ FateOf(e)' = FateRead(e)'
  BY DEF FatesRead
<1>2. FateRead(e)' = FateRead(e)
  BY DEF FateRead, Arrived, Open
<1> QED
  BY <1>1, <1>2

\* The process leaves the group with a failure, which may cost the rest of a batch.
LEMMA FailingIsFail ==
  ASSUME ConsumerInv, BatchBounded, DeliveryInv, FatesRead', loop' \notin Running,
         UNCHANGED <<base, logEnd, handled, skipped>>,
         committed' = committed \/ (loop \in Running /\ committed' = position),
         Failed' \in Failed + 1 .. Failed + 2
  PROVE  Delivery!Fail
<1> DEFINE S == {e \in Offsets : FateOf(e) = "pending" /\ e < Frontier'}
<1>0. /\ TypeOK /\ OffsetsOrdered /\ SettledInv /\ FatesRead
      /\ \A e \in Offsets : e \in Nat
  BY DEF ConsumerInv, DeliveryInv, Offsets
<1>1. Frontier' = (IF committed' = NoOffset THEN base ELSE committed') /\ Frontier' \in Int
  BY <1>0 DEF Frontier, TypeOK
<1>2. \A e \in S : loop \in Running /\ e \in cursor .. (position - 1)
  <2> SUFFICES ASSUME NEW e \in S  PROVE loop \in Running /\ e \in cursor .. (position - 1)
    OBVIOUS
  <2>1. FateRead(e) = "pending" /\ e \in Offsets /\ e < Frontier'
    BY <1>0 DEF FatesRead
  <2>2. Arrived(e) /\ ~ (e < Frontier)
    BY <2>1 DEF FateRead
  <2>3. CASE loop \notin Running
    BY <1>1, <2>1, <2>2, <2>3 DEF Frontier
  <2>4. CASE loop \in Running
    <3>1. Frontier = cursor /\ ~ (e < cursor)
      BY <2>2, <2>4 DEF Frontier
    <3>2. Frontier' <= position
      BY <1>0, <1>1, <2>4 DEF TypeOK, OffsetsOrdered
    <3> QED
      BY <1>0, <1>1, <2>1, <2>4, <3>1, <3>2 DEF TypeOK
  <2> QED
    BY <2>3, <2>4
<1>3. \A e \in Offsets : FateOf(e)' = IF e \in S THEN "lost" ELSE FateOf(e)
  <2> SUFFICES ASSUME NEW e \in Offsets
               PROVE  FateRead(e)' = IF FateRead(e) = "pending" /\ e < Frontier'
                                     THEN "lost" ELSE FateRead(e)
    BY <1>0 DEF FatesRead
  <2>1. Arrived(e)' <=> Arrived(e)
    BY DEF Arrived
  <2>2. FateRead(e) = "lost" => e \in skipped \/ e < Frontier'
    <3> SUFFICES ASSUME Arrived(e), Open(e), e < Frontier  PROVE e < Frontier'
      BY DEF FateRead, Open
    <3>1. CASE loop \in Running
      <4>1. committed # NoOffset /\ e < committed
        BY <1>0, <3>1 DEF SettledInv, Frontier, Arrived
      <4>2. committed' # NoOffset /\ committed <= committed'
        BY <1>0, <3>1, <4>1 DEF TypeOK, OffsetsOrdered, NoOffset
      <4> QED
        BY <1>0, <1>1, <4>1, <4>2 DEF TypeOK
    <3>2. CASE loop \notin Running
      BY <1>1, <3>2 DEF Frontier
    <3> QED
      BY <3>1, <3>2
  <2> QED
    BY <2>1, <2>2 DEF FateRead
<1>4. Delivery!Settle(S, "lost")
  BY <1>3, SettlesFates
<1>5. S \in SUBSET Delivery!Pending /\ Delivery!Oldest(S)
  <2>1. S \in SUBSET Delivery!Pending
    BY PendingFates
  <2>2. \A e \in S, d \in Delivery!Pending : d < e => d \in S
    BY <1>0, <1>1, PendingFates
  <2> QED
    BY <2>1, <2>2 DEF Delivery!Oldest
<1>6. Delivery!OneBatch(S)
  <2> SUFFICES ASSUME NEW d \in S, NEW e \in S  PROVE e < d + BatchSize
    BY DEF Delivery!OneBatch
  <2>1. loop \in Running /\ cursor <= d /\ e < position /\ d \in Nat /\ e \in Nat
    BY <1>0, <1>2 DEF TypeOK
  <2>2. position <= cursor + BatchSize /\ position \in Nat /\ cursor \in Nat /\ BatchSize \in Nat
    BY <1>0, <2>1 DEF TypeOK, BatchBounded
  <2> QED
    BY <2>1, <2>2
<1>7. committed # NoOffset => committed' # NoOffset
  BY <1>0 DEF TypeOK, OffsetsOrdered, NoOffset
<1> HIDE DEF S
<1>8. /\ (committed # NoOffset)' \in BOOLEAN
      /\ (committed # NoOffset) => (committed # NoOffset)'
      /\ Failed' \in Failed + 1 .. Failed + 2
      /\ \E T \in SUBSET Delivery!Pending : /\ Delivery!Oldest(T) /\ Delivery!OneBatch(T)
                                            /\ Delivery!Settle(T, "lost")
  BY <1>4, <1>5, <1>6, <1>7
<1>9. (failures["raise"] + failures["crash"] + failures["commit"])'
        \in (failures["raise"] + failures["crash"] + failures["commit"]) + 1 ..
            (failures["raise"] + failures["crash"] + failures["commit"]) + 2
  BY <1>8, Zenon DEF Failed
<1> QED
  BY <1>8, <1>9, Zenon DEF Delivery!Fail, NoOffset

LEMMA SameIsStutter ==
  ASSUME \A e \in Offsets : FateOf(e)' = FateOf(e),
         (committed # NoOffset)' = (committed # NoOffset), Failed' = Failed
  PROVE  UNCHANGED Delivery!vars
<1>1. [e \in Offsets |-> FateOf(e)]' = [e \in Offsets |-> FateOf(e)]
  BY Zenon
<1> QED
  BY <1>1, Zenon DEF Delivery!vars, Failed

\* A record is published: the group has it, if it has joined.
LEMMA ProduceIsArrive ==
  ASSUME ConsumerInv, DeliveryInv, FatesRead', Produce
  PROVE  Delivery!Next \/ UNCHANGED Delivery!vars
<1>0. /\ TypeOK /\ OffsetsOrdered /\ SettledInv /\ FatesRead
      /\ \A e \in Offsets : e \in Nat
  BY DEF ConsumerInv, DeliveryInv, Offsets
<1>1. /\ logEnd < MaxEvents /\ logEnd' = logEnd + 1 /\ logEnd \in Offsets
      /\ UNCHANGED <<committed, cursor, loop, handled, base, skipped, failures>>
      /\ Frontier' = Frontier
  BY <1>0 DEF Produce, TypeOK, Offsets, Frontier
<1>2. Failed' = Failed /\ (committed # NoOffset)' = (committed # NoOffset)
  BY <1>1 DEF Failed
<1>3. \A e \in Offsets : FateOf(e) = FateRead(e) /\ FateOf(e)' = FateRead(e)'
  BY <1>0 DEF FatesRead
<1>4. CASE base = NoOffset
  <2>1. \A e \in Offsets : FateRead(e)' = FateRead(e)
    BY <1>1, <1>4 DEF FateRead, Arrived
  <2> QED
    BY <1>2, <1>3, <2>1, SameIsStutter
<1>5. CASE base # NoOffset
  <2>1. /\ base <= logEnd /\ base \in Int /\ logEnd \in Nat
        /\ logEnd \notin handled /\ logEnd \notin skipped
    BY <1>0 DEF TypeOK, OffsetsOrdered, SettledInv, Arrived
  <2>2. Frontier <= logEnd /\ Frontier \in Int
    BY <1>0, <1>5 DEF TypeOK, OffsetsOrdered, Frontier
  <2>3. \A e \in Offsets : e = logEnd => FateRead(e) = "none" /\ FateRead(e)' = "pending"
    <3> SUFFICES ASSUME NEW e \in Offsets, e = logEnd
                 PROVE  FateRead(e) = "none" /\ FateRead(e)' = "pending"
      OBVIOUS
    <3>1. ~ Arrived(e) /\ Arrived(e)'
      BY <1>1, <1>5, <2>1 DEF Arrived
    <3>2. e \notin handled' /\ e \notin skipped' /\ ~ (e < Frontier')
      BY <1>1, <2>1, <2>2
    <3> QED
      BY <3>1, <3>2 DEF FateRead
  <2>4. \A e \in Offsets : e # logEnd => FateRead(e)' = FateRead(e)
    <3> SUFFICES ASSUME NEW e \in Offsets, e # logEnd  PROVE FateRead(e)' = FateRead(e)
      OBVIOUS
    <3>1. Arrived(e)' <=> Arrived(e)
      BY <1>0, <1>1, <2>1 DEF Arrived
    <3> QED
      BY <1>1, <3>1 DEF FateRead
  <2>5. \A e \in Offsets : FateOf(e)' = IF e \in {logEnd} THEN "pending" ELSE FateOf(e)
    BY <1>1, <1>3, <2>3, <2>4
  <2>6. \A d \in Offsets : logEnd < d => FateOf(d) = "none"
    <3> SUFFICES ASSUME NEW d \in Offsets, logEnd < d  PROVE FateRead(d) = "none"
      BY <1>3
    <3> QED
      BY <1>0, <2>1 DEF FateRead, Arrived
  <2>7. Delivery!Settle({logEnd}, "pending")
    BY <2>5, SettlesFates
  <2>8. FateOf(logEnd) = "none"
    BY <1>1, <1>3, <2>3
  <2>9. UNCHANGED <<committed # NoOffset, failures["raise"] + failures["crash"] + failures["commit"]>>
    BY <1>1
  <2>10. Delivery!Arrive(logEnd)
    BY <1>1, <2>6, <2>7, <2>8, <2>9, Zenon DEF Delivery!Arrive
  <2> QED
    BY <1>1, <2>10, Zenon DEF Delivery!Next
<1> QED
  BY <1>4, <1>5

\* A handler returns: its record is handled, again or for the first time, after
\* all before it were settled.
LEMMA ReturnIsHandle ==
  ASSUME ConsumerInv, DeliveryInv, FatesRead', Return
  PROVE  Delivery!Next \/ UNCHANGED Delivery!vars
<1>0. /\ TypeOK /\ OffsetsOrdered /\ SettledInv /\ FatesRead
      /\ \A e \in Offsets : e \in Nat
  BY DEF ConsumerInv, DeliveryInv, Offsets
<1>1. /\ loop = "handling" /\ loop' = "batch" /\ handled' = handled \cup {cursor}
      /\ cursor' = cursor + 1
      /\ UNCHANGED <<logEnd, committed, base, skipped, failures>>
  BY DEF Return
<1>2. Frontier = cursor /\ Frontier' = cursor + 1 /\ cursor \in Nat
  BY <1>0, <1>1 DEF Frontier, Running, TypeOK
<1>3. Arrived(cursor) /\ cursor \in Offsets /\ cursor \notin skipped
  BY <1>0, <1>1 DEF Arrived, Running, TypeOK, OffsetsOrdered, Offsets, SettledInv
<1>4. \A e \in Offsets : FateOf(e) = FateRead(e) /\ FateOf(e)' = FateRead(e)'
  BY <1>0 DEF FatesRead
<1>5. \A e \in Offsets : FateRead(e)' = IF e = cursor THEN "handled" ELSE FateRead(e)
  <2> SUFFICES ASSUME NEW e \in Offsets
               PROVE  FateRead(e)' = IF e = cursor THEN "handled" ELSE FateRead(e)
    OBVIOUS
  <2>1. Arrived(e)' <=> Arrived(e)
    BY <1>1 DEF Arrived
  <2>2. CASE e = cursor
    BY <1>1, <1>3, <2>1, <2>2 DEF FateRead
  <2>3. CASE e # cursor
    <3>1. e < Frontier' <=> e < Frontier
      BY <1>0, <1>2, <2>3
    <3> QED
      BY <1>1, <2>1, <2>3, <3>1 DEF FateRead
  <2> QED
    BY <2>2, <2>3
<1>6. UNCHANGED <<committed # NoOffset, failures["raise"] + failures["crash"] + failures["commit"]>>
  BY <1>1
<1>7. CASE cursor \in handled
  <2>1. \A e \in Offsets : FateOf(e)' = FateOf(e)
    BY <1>3, <1>4, <1>5, <1>7 DEF FateRead
  <2> QED
    BY <1>6, <2>1, SameIsStutter DEF Failed
<1>8. CASE cursor \notin handled
  <2>1. FateOf(cursor) = "pending"
    BY <1>2, <1>3, <1>4, <1>8 DEF FateRead
  <2>2. \A d \in Offsets : d < cursor => FateOf(d) # "pending"
    BY <1>2, <1>4 DEF FateRead
  <2>3. cursor \in Delivery!Pending /\ Delivery!Oldest({cursor})
    BY <1>3, <2>1, <2>2, PendingFates DEF Delivery!Oldest
  <2>4. \A e \in Offsets : FateOf(e)' = IF e \in {cursor} THEN "handled" ELSE FateOf(e)
    BY <1>4, <1>5
  <2>5. Delivery!Settle({cursor}, "handled")
    BY <2>4, SettlesFates
  <2>6. Delivery!Handle(cursor)
    BY <1>6, <2>3, <2>5, Zenon DEF Delivery!Handle
  <2> QED
    BY <1>3, <2>6, Zenon DEF Delivery!Next
<1> QED
  BY <1>7, <1>8

\* A start where no offset is committed skips what waits, and only after a failure.
LEMMA StartIsSkip ==
  ASSUME ConsumerInv, DeliveryInv, FatesRead', StartOk
  PROVE  Delivery!Next \/ UNCHANGED Delivery!vars
<1>0. /\ TypeOK /\ OffsetsOrdered /\ SettledInv /\ FatesRead
      /\ \A e \in Offsets : e \in Nat
  BY DEF ConsumerInv, DeliveryInv, Offsets
<1>1. /\ loop = "starting" /\ loop' = "batch" /\ cursor' = StartOffset
      /\ base' = IF base = NoOffset THEN StartOffset ELSE base
      /\ skipped' = skipped \cup {e \in Offsets : /\ base # NoOffset
                                                  /\ Frontier <= e /\ e < StartOffset
                                                  /\ e \notin handled}
      /\ UNCHANGED <<logEnd, committed, handled, failures>>
  BY DEF StartOk
<1>2. /\ Frontier = (IF committed = NoOffset THEN base ELSE committed)
      /\ Frontier' = StartOffset
      /\ StartOffset = (IF committed = NoOffset THEN logEnd ELSE committed)
  BY <1>1 DEF Frontier, Running, StartOffset
<1>3. \A e \in Offsets : FateOf(e) = FateRead(e) /\ FateOf(e)' = FateRead(e)'
  BY <1>0 DEF FatesRead
<1>4. /\ Failed' = Failed /\ (committed # NoOffset)' = (committed # NoOffset)
      /\ UNCHANGED <<committed # NoOffset, failures["raise"] + failures["crash"] + failures["commit"]>>
  BY <1>1 DEF Failed
<1>5. CASE base = NoOffset
  <2>1. committed = NoOffset /\ StartOffset = logEnd /\ base' = logEnd /\ logEnd \in Nat
    BY <1>0, <1>1, <1>2, <1>5 DEF OffsetsOrdered, TypeOK
  <2>2. \A e \in Offsets : ~ Arrived(e) /\ ~ Arrived(e)'
    BY <1>0, <1>1, <1>5, <2>1 DEF Arrived
  <2>3. \A e \in Offsets : FateRead(e)' = FateRead(e)
    BY <2>2 DEF FateRead
  <2> QED
    BY <1>3, <1>4, <2>3, SameIsStutter
<1>6. CASE base # NoOffset /\ committed # NoOffset
  <2>1. Frontier = committed /\ StartOffset = committed /\ base' = base
    BY <1>1, <1>2, <1>6
  <2>2. committed \in Int
    BY <1>0 DEF TypeOK
  <2>3. \A e \in Offsets : ~ (Frontier <= e /\ e < StartOffset)
    BY <1>0, <2>1, <2>2
  <2>4. skipped' = skipped
    BY <1>1, <2>3
  <2>5. \A e \in Offsets : Arrived(e) /\ Open(e) => (e < Frontier' <=> e < Frontier)
    BY <1>2, <2>1
  <2> QED
    BY <1>0, <1>1, <1>4, <2>1, <2>4, <2>5, SameFates, SameIsStutter
<1>7. CASE base # NoOffset /\ committed = NoOffset
  <2>1. Frontier = base /\ StartOffset = logEnd /\ base' = base /\ Frontier' = logEnd
    BY <1>1, <1>2, <1>7
  <2>2. \A e \in Offsets : FateRead(e)' = IF FateRead(e) = "pending" THEN "lost" ELSE FateRead(e)
    <3> SUFFICES ASSUME NEW e \in Offsets
                 PROVE  FateRead(e)' = IF FateRead(e) = "pending" THEN "lost" ELSE FateRead(e)
      OBVIOUS
    <3>1. Arrived(e)' <=> Arrived(e)
      BY <1>1, <2>1 DEF Arrived
    <3>2. Arrived(e) => /\ base <= e /\ e < logEnd /\ ~ (e < base)
                        /\ e \notin handled => e \in skipped'
      BY <1>0, <1>1, <1>7, <2>1 DEF Arrived, TypeOK
    <3>3. e \in skipped => e \in skipped'
      BY <1>1
    <3> QED
      BY <1>1, <2>1, <3>1, <3>2, <3>3 DEF FateRead
  <2>3. \A e \in Offsets : FateOf(e)' = IF e \in Delivery!Pending THEN "lost" ELSE FateOf(e)
    BY <1>3, <2>2, PendingFates
  <2>4. Delivery!Settle(Delivery!Pending, "lost")
    BY <2>3, SettlesFates
  <2>5. failures["raise"] + failures["crash"] + failures["commit"] > 0
    <3>1. \A f \in {"raise", "crash", "commit"} : failures[f] \in Nat
      BY <1>0 DEF TypeOK, AllFaults
    <3>2. ~ \A f \in {"raise", "crash", "commit"} : failures[f] = 0
      BY <1>1, <1>7 DEF ConsumerInv, CleanInv, Running
    <3>3. failures["raise"] # 0 \/ failures["crash"] # 0 \/ failures["commit"] # 0
      BY <3>2
    <3>4. /\ failures["raise"] \in Nat /\ failures["crash"] \in Nat
          /\ failures["commit"] \in Nat
      BY <3>1
    <3> QED
      BY <3>3, <3>4
  <2>6. Delivery!Skip
    BY <1>4, <1>7, <2>4, <2>5, Zenon DEF Delivery!Skip
  <2> QED
    BY <2>6, Zenon DEF Delivery!Next
<1> QED
  BY <1>5, <1>6, <1>7

\* A position that is committed anchors the group and settles nothing.
LEMMA CommitIsAnchor ==
  ASSUME ConsumerInv, DeliveryInv, FatesRead', AutoCommit \/ Close,
         committed' = position, Failed' = Failed
  PROVE  Delivery!Next
<1>0. TypeOK /\ OffsetsOrdered /\ FatesRead
  BY DEF ConsumerInv, DeliveryInv
<1>1. UNCHANGED <<base, logEnd, handled, skipped>> /\ (committed # NoOffset)' = TRUE
  BY <1>0 DEF AutoCommit, Close, TypeOK, NoOffset
<1>2. Frontier' = Frontier
  BY <1>0, <1>1 DEF AutoCommit, Close, Frontier, Running
<1>3. \A e \in Offsets : FateOf(e)' = FateOf(e)
  BY <1>0, <1>1, <1>2, SameFates
<1>4. [e \in Offsets |-> FateOf(e)]' = [e \in Offsets |-> FateOf(e)]
  BY <1>3, Zenon
<1>5. UNCHANGED (failures["raise"] + failures["crash"] + failures["commit"])
  BY Zenon DEF Failed
<1>6. Delivery!Anchor
  BY <1>1, <1>4, <1>5, Zenon DEF Delivery!Anchor
<1> QED
  BY <1>6, Zenon DEF Delivery!Next

\* Where the task stands, and what it has fetched, is no part of the promise.
LEMMA LoopIsStutter ==
  ASSUME ConsumerInv, DeliveryInv, FatesRead',
         NextRound \/ Fetch \/ Begin \/ RequestStop \/ Exit \/ Restart \/ StartFails
           \/ UNCHANGED vars
  PROVE  UNCHANGED Delivery!vars
<1>0. TypeOK /\ FatesRead
  BY DEF ConsumerInv, DeliveryInv
<1>1. UNCHANGED <<base, logEnd, handled, skipped, committed, cursor>>
  BY DEF NextRound, Fetch, Begin, RequestStop, Exit, Restart, StartFails, vars
<1>2. Frontier' = Frontier
  <2>1. loop' \in Running <=> loop \in Running
    BY DEF NextRound, Fetch, Begin, RequestStop, Exit, Restart, StartFails, vars, Running
  <2> QED
    BY <1>1, <2>1 DEF Frontier
<1>3. Failed' = Failed
  <2>1. CASE StartFails
    BY <1>0, <2>1, StrikeEffect DEF StartFails, AllFaults, Failed
  <2>2. CASE ~ StartFails
    <3>1. failures' = failures
      BY <2>2 DEF NextRound, Fetch, Begin, RequestStop, Exit, Restart, vars
    <3> QED
      BY <3>1 DEF Failed
  <2> QED
    BY <2>1, <2>2
<1>4. \A e \in Offsets : FateOf(e)' = FateOf(e)
  BY <1>0, <1>1, <1>2, SameFates
<1>5. (committed # NoOffset)' = (committed # NoOffset)
  BY <1>1
<1> QED
  BY <1>3, <1>4, <1>5, SameIsStutter

\* The task ends by an exception or a crash, or closes and misses its commit.
LEMMA EndingIsFail ==
  ASSUME ConsumerInv, BatchBounded, DeliveryInv, FatesRead',
         Raise \/ Crash \/ (Close /\ Failed' # Failed)
  PROVE  Delivery!Fail
<1>0. TypeOK /\ /\ failures["raise"] \in Nat /\ failures["crash"] \in Nat
                /\ failures["commit"] \in Nat
  BY DEF ConsumerInv, TypeOK, AllFaults
<1>1. UNCHANGED <<base, logEnd, handled, skipped>> /\ loop' \notin Running
  BY DEF Raise, Crash, Close, Running
<1>2. CASE Raise
  <2>1. /\ failures'["crash"] = failures["crash"]
        /\ failures'["raise"] = failures["raise"] + 1
        /\ \/ /\ committed' = position
              /\ failures'["commit"] = failures["commit"]
           \/ /\ committed' = committed
              /\ failures'["commit"] = failures["commit"] + 1
    BY <1>0, <1>2, StopEffect DEF Raise
  <2>2. Failed' \in Failed + 1 .. Failed + 2
    BY <1>0, <2>1 DEF Failed
  <2>3. loop \in Running
    BY <1>2 DEF Raise, Running
  <2> QED
    BY <1>1, <2>1, <2>2, <2>3, FailingIsFail
<1>3. CASE Crash
  <2>1. /\ failures'["raise"] = failures["raise"]
        /\ failures'["commit"] = failures["commit"]
        /\ failures'["crash"] = failures["crash"] + 1
    BY <1>0, <1>3, StrikeEffect DEF Crash, AllFaults
  <2>2. Failed' \in Failed + 1 .. Failed + 2
    BY <1>0, <2>1 DEF Failed
  <2>3. committed' = committed
    BY <1>3 DEF Crash
  <2> QED
    BY <1>1, <2>2, <2>3, FailingIsFail
<1>4. CASE Close /\ Failed' # Failed
  <2>1. /\ failures'["crash"] = failures["crash"]
        /\ failures'["raise"] = failures["raise"]
        /\ \/ failures'["commit"] = failures["commit"]
           \/ /\ committed' = committed
              /\ failures'["commit"] = failures["commit"] + 1
    BY <1>0, <1>4, StopEffect DEF Close
  <2>2. failures'["commit"] # failures["commit"]
    BY <1>4, <2>1 DEF Failed
  <2>3. committed' = committed /\ failures'["commit"] = failures["commit"] + 1
    BY <2>1, <2>2
  <2>4. Failed' \in Failed + 1 .. Failed + 2
    BY <1>0, <2>1, <2>3 DEF Failed
  <2> QED
    BY <1>1, <2>3, <2>4, FailingIsFail
<1> QED
  BY <1>2, <1>3, <1>4

\* For every number of records, batch size and set of faults, what the consumer does
\* with its offsets amounts to the promise of DeliveryContract: the records of the
\* topic are settled in order and for good, and lost only with a failure, one batch
\* at a time or, before the first commit, by a start that skips all that wait.
THEOREM DeliveryRefinement == Spec => ImplementsDelivery
<1>1. Init => Delivery!Init
  <2> SUFFICES ASSUME Init  PROVE Delivery!Init
    OBVIOUS
  <2>1. [e \in Offsets |-> FateOf(e)] = [e \in Offsets |-> "none"]
    BY DEF Init, FateOf
  <2>2. (committed # NoOffset) = FALSE
    BY DEF Init
  <2>3. failures["raise"] + failures["crash"] + failures["commit"] = 0
    BY DEF Init, AllFaults
  <2> QED
    BY <2>1, <2>2, <2>3, Zenon DEF Delivery!Init
<1>2. ASSUME ConsumerInv, BatchBounded, DeliveryInv, DeliveryInv', [Next]_vars
      PROVE  [Delivery!Next]_(Delivery!vars)
  <2> USE <1>2
  <2>0. FatesRead'
    BY DEF DeliveryInv
  <2>1. CASE Produce
    BY <2>0, <2>1, ProduceIsArrive
  <2>2. CASE StartOk
    BY <2>0, <2>2, StartIsSkip
  <2>3. CASE Return
    BY <2>0, <2>3, ReturnIsHandle
  <2>4. CASE NextRound \/ Fetch \/ Begin \/ RequestStop \/ Exit \/ Restart \/ StartFails
             \/ UNCHANGED vars
    BY <2>0, <2>4, LoopIsStutter
  <2>5. CASE AutoCommit
    <3>1. committed' = position /\ failures' = failures
      BY <2>5 DEF AutoCommit
    <3> QED
      BY <2>0, <2>5, <3>1, CommitIsAnchor DEF Failed
  <2>6. CASE Close /\ Failed' = Failed
    <3>1. TypeOK /\ failures["raise"] \in Nat /\ failures["crash"] \in Nat
          /\ failures["commit"] \in Nat
      BY DEF ConsumerInv, TypeOK, AllFaults
    <3>2. /\ failures'["crash"] = failures["crash"]
          /\ failures'["raise"] = failures["raise"]
          /\ committed' = position \/ failures'["commit"] = failures["commit"] + 1
      BY <2>6, <3>1, StopEffect DEF Close
    <3>3. committed' = position
      BY <2>6, <3>1, <3>2 DEF Failed
    <3> QED
      BY <2>0, <2>6, <3>3, CommitIsAnchor
  <2>7. CASE Raise \/ Crash \/ (Close /\ Failed' # Failed)
    <3>1. Delivery!Fail
      BY <2>0, <2>7, EndingIsFail
    <3> QED
      BY <3>1, Zenon DEF Delivery!Next
  <2> QED
    BY <2>1, <2>2, <2>3, <2>4, <2>5, <2>6, <2>7 DEF Next, Consume
<1> QED
  BY <1>1, <1>2, DeliveryInvariant, PTL DEF Spec, ImplementsDelivery, Delivery!Spec
===============================================================================
