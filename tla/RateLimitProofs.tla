--------------------------- MODULE RateLimitProofs ---------------------------
(***************************************************************************)
(* The rate limits hold for every limit, window and number of processes,   *)
(* and whatever fails.                                                     *)
(***************************************************************************)
EXTENDS RateLimit, FiniteSetTheorems, SequenceTheorems, TLAPS

USE LimitsAssumption, BoundsAssumption, BackendsAssumption

\* What a process has in memory: its requests in order, and the recent ones
\* among those it remembers.
LocalInv ==
  \A p \in Processes :
    /\ \A i, j \in DOMAIN passed[p] : i <= j => passed[p][i] <= passed[p][j]
    /\ bucket[p] \subseteq DOMAIN passed[p]
    /\ \A i \in DOMAIN passed[p] : now - passed[p][i] < Window => i \in bucket[p]

\* The requests of this minute that its counter knows.
Capped == IF counter[Slot] < Limit THEN counter[Slot] ELSE Limit

\* What Redis has: requests in order, no counts for minutes to come, and the
\* requests of this minute are the latest Capped, or as many as Redis forgot.
SharedInv ==
  /\ \A i, j \in DOMAIN admitted : i <= j => admitted[i] <= admitted[j]
  /\ \A s \in Slots : s > Slot => counter[s] = 0
  /\ \A i \in DOMAIN admitted :
       SlotOf(admitted[i]) = Slot => i > Len(admitted) - Capped - Limit * losses

Current == {i \in DOMAIN admitted : SlotOf(admitted[i]) = Slot}

\* Counts up to the limit stand for requests let through or not answered, and
\* the latest verdict is of a process that is there.
RefusalInv ==
  /\ Cardinality(Current) + wasted >= Capped
  /\ \A p \in Processes : backend[p] = "down" => \A v \in {"200", "429", "500"} : last # <<p, v>>

LEMMA DivFacts ==
  ASSUME NEW W \in Nat \ {0}, NEW a \in Nat
  PROVE  /\ a \div W \in Nat
         /\ W * (a \div W) <= a
         /\ a < W * (a \div W) + W
OBVIOUS

LEMMA DivMonotone ==
  ASSUME NEW W \in Nat \ {0}, NEW a \in Nat, NEW b \in Nat, a <= b
  PROVE  a \div W <= b \div W
<1>1. PICK q \in Nat : q = a \div W /\ W * q <= a
  BY DivFacts
<1>2. PICK r \in Nat : r = b \div W /\ b < W * r + W
  BY DivFacts
<1>3. W * q < W * (r + 1)
  BY <1>1, <1>2
<1>4. q < r + 1
  BY <1>3
<1> QED
  BY <1>1, <1>2, <1>4

\* Later times are in later minutes or in the same.
LEMMA SlotFacts ==
  ASSUME NEW t \in 0 .. MaxTime
  PROVE  /\ SlotOf(t) \in Slots
         /\ SlotOf(t) \in Nat
         /\ \A u \in 0 .. t : SlotOf(u) \in Nat /\ SlotOf(u) <= SlotOf(t)
<1>1. /\ SlotOf(t) \in Nat
      /\ SlotOf(t) <= MaxTime \div Window
  BY DivFacts, DivMonotone DEF SlotOf
<1>2. MaxTime \div Window \in Nat
  BY DivFacts
<1>3. ASSUME NEW u \in 0 .. t  PROVE SlotOf(u) \in Nat /\ SlotOf(u) <= SlotOf(t)
  BY <1>3, DivFacts, DivMonotone DEF SlotOf
<1> QED
  BY <1>1, <1>2, <1>3 DEF Slots

\* A history of n requests has an interval of them that is finite.
LEMMA CurrentFinite ==
  ASSUME TypeOK
  PROVE  IsFiniteSet(Current) /\ Cardinality(Current) \in Nat
<1>1. IsFiniteSet(1 .. Len(admitted))
  BY FS_Interval DEF TypeOK
<1>2. Current \in SUBSET (1 .. Len(admitted))
  BY DEF TypeOK, Current
<1> QED
  BY <1>1, <1>2, FS_Subset, FS_CardinalityType

-------------------------------------------------------------------------------
LEMMA InitCorrect == Init => TypeOK /\ LocalInv /\ SharedInv /\ RefusalInv /\ LocalLimit /\ SharedLimit
<1> SUFFICES ASSUME Init
             PROVE  TypeOK /\ LocalInv /\ SharedInv /\ RefusalInv /\ LocalLimit /\ SharedLimit
  OBVIOUS
<1>1. 0 \in Slots /\ Slot = 0 /\ Slots \subseteq Nat
  BY SlotFacts, DivFacts DEF Init, Slot, Slots, SlotOf
<1>2. TypeOK
  BY <1>1 DEF Init, TypeOK, Verdicts
<1>3. LocalInv /\ LocalLimit
  BY DEF Init, LocalInv, LocalLimit
<1>4. SharedInv /\ SharedLimit
  BY <1>1 DEF Init, SharedInv, SharedLimit
<1>5. RefusalInv
  <2>1. Capped = 0
    BY <1>1 DEF Init, Capped
  <2>2. Cardinality(Current) \in Nat /\ wasted = 0
    BY <1>2, CurrentFinite DEF Init
  <2> QED
    BY <2>1, <2>2 DEF Init, RefusalInv, NoVerdict
<1> QED
  BY <1>2, <1>3, <1>4, <1>5

LEMMA TypeStep == TypeOK /\ [Next]_vars => TypeOK'
<1> SUFFICES ASSUME TypeOK, [Next]_vars  PROVE TypeOK'
  OBVIOUS
<1> USE DEF TypeOK, Verdicts, Answer
<1>0. Slot \in Slots
  BY SlotFacts DEF Slot
<1>1. ASSUME NEW p \in Processes, Start(p)  PROVE TypeOK'
  BY <1>1 DEF Start
<1>2. ASSUME NEW p \in Processes, AllowLocal(p)  PROVE TypeOK'
  BY <1>2 DEF AllowLocal, Recent
<1>3. ASSUME NEW p \in Processes, RefuseLocal(p)  PROVE TypeOK'
  BY <1>3 DEF RefuseLocal, Recent
<1>4. ASSUME NEW p \in Processes, AllowShared(p)  PROVE TypeOK'
  BY <1>0, <1>4 DEF AllowShared, Incr
<1>5. ASSUME NEW p \in Processes, RefuseShared(p)  PROVE TypeOK'
  BY <1>0, <1>5 DEF RefuseShared, Incr
<1>6. ASSUME NEW p \in Processes, Unanswered(p)  PROVE TypeOK'
  BY <1>0, <1>6 DEF Unanswered, Incr
<1>7. ASSUME NEW p \in Processes, Crash(p)  PROVE TypeOK'
  BY <1>7 DEF Crash
<1>8. CASE Flush
  BY <1>8 DEF Flush
<1>9. CASE Tick
  <2>1. Seq(0 .. now) \subseteq Seq(0 .. now')
    BY <1>9 DEF Tick
  <2> QED
    BY <1>9, <2>1 DEF Tick
<1>10. CASE UNCHANGED vars
  BY <1>10 DEF vars
<1> QED
  BY <1>1, <1>2, <1>3, <1>4, <1>5, <1>6, <1>7, <1>8, <1>9, <1>10
     DEF Next, CheckLocal, CheckRedis

-------------------------------------------------------------------------------
\* Steps that leave the clock and the memories alone keep what is in memory.
LEMMA LocalFrame ==
  ASSUME LocalInv /\ LocalLimit, UNCHANGED <<now, passed, bucket>>
  PROVE  LocalInv' /\ LocalLimit'
BY DEF LocalInv, LocalLimit

\* One more request at time t keeps any Limit + 1 requests a minute apart, when
\* fewer than Limit of them are of the minute before t.
LEMMA OneMore ==
  ASSUME NEW t \in Nat, NEW n \in Nat, NEW f \in [1 .. n + 1 -> Nat],
         f[n + 1] = t,
         \A i, j \in 1 .. n : i <= j => f[i] <= f[j],
         \A i \in 1 .. n : i + Limit <= n => f[i + Limit] - f[i] >= Window,
         Cardinality({i \in 1 .. n : t - f[i] < Window}) < Limit
  PROVE  \A i \in 1 .. n + 1 : i + Limit <= n + 1 => f[i + Limit] - f[i] >= Window
<1> DEFINE R == {i \in 1 .. n : t - f[i] < Window}
<1> SUFFICES ASSUME NEW i \in 1 .. n + 1, i + Limit <= n + 1
             PROVE  f[i + Limit] - f[i] >= Window
  OBVIOUS
<1>1. i \in 1 .. n /\ i + Limit \in 1 .. n + 1
  OBVIOUS
<1>2. CASE i + Limit <= n
  BY <1>1, <1>2
<1>3. CASE i + Limit = n + 1
  <2>0. f[i + Limit] = t /\ f[i] \in Nat
    BY <1>1, <1>3
  <2> SUFFICES ASSUME t - f[i] < Window  PROVE FALSE
    BY <2>0
  <2>1. i .. n \in SUBSET R
    <3> SUFFICES ASSUME NEW j \in i .. n  PROVE j \in R
      OBVIOUS
    <3>1. j \in 1 .. n /\ f[i] <= f[j]
      BY <1>1
    <3> QED
      BY <1>1, <3>1
  <2>2. IsFiniteSet(R)
    <3>1. IsFiniteSet(1 .. n)
      BY FS_Interval
    <3>2. R \in SUBSET (1 .. n)
      OBVIOUS
    <3> QED
      BY <3>1, <3>2, FS_Subset
  <2>3. Cardinality(i .. n) = Limit
    <3>1. n - i + 1 = Limit /\ ~ i > n
      BY <1>1, <1>3
    <3>2. Cardinality(i .. n) = n - i + 1
      BY <1>1, <3>1, FS_Interval
    <3> QED
      BY <3>1, <3>2
  <2>4. Cardinality(i .. n) <= Cardinality(R) /\ Cardinality(R) \in Nat
    BY <2>1, <2>2, FS_Subset, FS_CardinalityType
  <2> QED
    BY <2>3, <2>4
<1>4. i + Limit <= n \/ i + Limit = n + 1
  BY <1>1
<1> QED
  BY <1>2, <1>3, <1>4

\* A process that lets one more through had fewer than Limit in the last minute.
LEMMA LocalAllow ==
  ASSUME TypeOK, LocalInv, LocalLimit, NEW p \in Processes, AllowLocal(p)
  PROVE  LocalInv' /\ LocalLimit'
<1>1. PICK s \in Seq(0 .. now) : s = passed[p]
  BY DEF TypeOK
<1>2. PICK n \in Nat : n = Len(s) /\ DOMAIN s = 1 .. n
  BY <1>1
<1>3. PICK t \in Nat : t = now /\ now' = t
  BY DEF TypeOK, AllowLocal
<1>4. PICK f \in [1 .. n + 1 -> Nat] :
        f = passed'[p] /\ f = Append(s, t)
  <2>1. passed'[p] = Append(s, t)
    BY <1>1, <1>3 DEF TypeOK, AllowLocal
  <2>2. s \in Seq(Nat)
    BY <1>3
  <2>3. Append(s, t) \in Seq(Nat) /\ Len(Append(s, t)) = n + 1
    BY <1>2, <2>2
  <2>4. Append(s, t) \in [1 .. n + 1 -> Nat]
    BY <2>3, LenProperties
  <2> QED
    BY <2>1, <2>4
<1>5. /\ Len(passed'[p]) = n + 1
      /\ f[n + 1] = t
      /\ \A i \in 1 .. n : f[i] = s[i] /\ f[i] <= t
  BY <1>1, <1>2, <1>3, <1>4
<1>6. /\ \A q \in Processes \ {p} : passed'[q] = passed[q] /\ bucket'[q] = bucket[q]
      /\ bucket'[p] = Recent(p) \cup {n + 1}
      /\ Cardinality(Recent(p)) < Limit
  BY <1>1, <1>2 DEF TypeOK, AllowLocal
<1>7. \A i, j \in 1 .. n : i <= j => f[i] <= f[j]
  BY <1>1, <1>2, <1>5 DEF LocalInv
<1>8. Recent(p) = {i \in 1 .. n : t - f[i] < Window}
  BY <1>1, <1>2, <1>3, <1>5 DEF LocalInv, Recent
<1>9. LocalInv'
  <2> SUFFICES ASSUME NEW q \in Processes
               PROVE  /\ \A i, j \in DOMAIN passed'[q] : i <= j => passed'[q][i] <= passed'[q][j]
                      /\ bucket'[q] \subseteq DOMAIN passed'[q]
                      /\ \A i \in DOMAIN passed'[q] :
                           now' - passed'[q][i] < Window => i \in bucket'[q]
    BY DEF LocalInv
  <2>1. CASE q = p
    <3>1. /\ passed'[q] = f /\ DOMAIN f = 1 .. n + 1 /\ now' = t
          /\ bucket'[q] = {i \in 1 .. n : t - f[i] < Window} \cup {n + 1}
      BY <1>3, <1>4, <1>6, <1>8, <2>1
    <3>2. \A i, j \in 1 .. n + 1 : i <= j => f[i] <= f[j]
      BY <1>5, <1>7
    <3>3. \A i \in 1 .. n + 1 : i \in 1 .. n \/ i = n + 1
      OBVIOUS
    <3> QED
      BY <3>1, <3>2, <3>3
  <2>2. CASE q # p
    BY <1>3, <1>6, <2>2 DEF LocalInv
  <2> QED
    BY <2>1, <2>2
<1>10. LocalLimit'
  <2>1. \A i \in 1 .. n : i + Limit <= n => f[i + Limit] - f[i] >= Window
    <3> SUFFICES ASSUME NEW i \in 1 .. n, i + Limit <= n
                 PROVE  f[i + Limit] - f[i] >= Window
      OBVIOUS
    <3>1. i + Limit \in 1 .. n
      OBVIOUS
    <3>2. s[i + Limit] - s[i] >= Window
      BY <1>1, <1>2 DEF LocalLimit
    <3> QED
      BY <1>5, <3>1, <3>2
  <2>2. Cardinality({i \in 1 .. n : t - f[i] < Window}) < Limit
    BY <1>6, <1>8
  <2>3. \A i \in 1 .. n + 1 : i + Limit <= n + 1 => f[i + Limit] - f[i] >= Window
    BY <1>5, <1>7, <2>1, <2>2, OneMore
  <2> QED
    BY <1>4, <1>5, <1>6, <2>3 DEF LocalLimit
<1> QED
  BY <1>9, <1>10

LEMMA LocalStep ==
  TypeOK /\ LocalInv /\ LocalLimit /\ [Next]_vars => LocalInv' /\ LocalLimit'
<1> SUFFICES ASSUME TypeOK, LocalInv, LocalLimit, [Next]_vars
             PROVE  LocalInv' /\ LocalLimit'
  OBVIOUS
<1>1. ASSUME NEW p \in Processes, Start(p) \/ CheckRedis(p)
      PROVE  LocalInv' /\ LocalLimit'
  BY <1>1, LocalFrame DEF Start, CheckRedis, AllowShared, RefuseShared, Unanswered
<1>2. ASSUME NEW p \in Processes, AllowLocal(p)  PROVE LocalInv' /\ LocalLimit'
  BY <1>2, LocalAllow
<1>3. ASSUME NEW p \in Processes, RefuseLocal(p)  PROVE LocalInv' /\ LocalLimit'
  <2>1. /\ UNCHANGED <<now, passed>>
        /\ bucket' = [bucket EXCEPT ![p] = Recent(p)]
    BY <1>3 DEF RefuseLocal
  <2>2. LocalInv'
    BY <2>1 DEF LocalInv, Recent, TypeOK
  <2> QED
    BY <2>1, <2>2 DEF LocalLimit
<1>4. ASSUME NEW p \in Processes, Crash(p)  PROVE LocalInv' /\ LocalLimit'
  <2>1. /\ now' = now
        /\ \A q \in Processes : \/ passed'[q] = <<>> /\ bucket'[q] = {}
                                \/ passed'[q] = passed[q] /\ bucket'[q] = bucket[q]
    BY <1>4 DEF Crash, TypeOK
  <2>2. LocalInv'
    BY <2>1 DEF LocalInv
  <2>3. LocalLimit'
    BY <2>1 DEF LocalLimit
  <2> QED
    BY <2>2, <2>3
<1>5. CASE Flush
  BY <1>5, LocalFrame DEF Flush
<1>6. CASE Tick
  <2>1. now' = now + 1 /\ UNCHANGED <<passed, bucket>>
    BY <1>6 DEF Tick
  <2>2. \A p \in Processes : \A i \in DOMAIN passed[p] : passed[p][i] \in Int
    BY DEF TypeOK
  <2>3. LocalInv'
    BY <2>1, <2>2 DEF LocalInv, TypeOK
  <2> QED
    BY <2>1, <2>3 DEF LocalLimit
<1>7. CASE UNCHANGED vars
  BY <1>7, LocalFrame DEF vars
<1> QED
  BY <1>1, <1>2, <1>3, <1>4, <1>5, <1>6, <1>7 DEF Next, CheckLocal

-------------------------------------------------------------------------------
LEMMA SlotNow ==
  ASSUME TypeOK
  PROVE  /\ Slot \in Slots /\ Slot \in Nat
         /\ counter[Slot] \in Nat
         /\ Capped \in 0 .. Limit
         /\ Limit * losses \in Nat
         /\ Limit * (1 + losses) = Limit + Limit * losses
         /\ \A u \in 0 .. now : SlotOf(u) \in Nat /\ SlotOf(u) <= Slot
<1>1. /\ Slot \in Slots /\ Slot \in Nat
      /\ \A u \in 0 .. now : SlotOf(u) \in Nat /\ SlotOf(u) <= Slot
  BY SlotFacts DEF TypeOK, Slot
<1>2. counter[Slot] \in Nat
  BY <1>1 DEF TypeOK
<1>3. Capped \in 0 .. Limit
  BY <1>2 DEF Capped
<1>4. PICK k \in Nat : k = losses
  BY DEF TypeOK
<1>5. Limit * k \in Nat /\ Limit * (1 + k) = Limit + Limit * k
  OBVIOUS
<1> QED
  BY <1>1, <1>2, <1>3, <1>4, <1>5

LEMMA SharedFrame ==
  ASSUME SharedInv /\ SharedLimit, UNCHANGED <<now, counter, admitted, losses>>
  PROVE  SharedInv' /\ SharedLimit'
BY DEF SharedInv, SharedLimit, Slot, Capped

\* What a request that is counted in Redis does to the counters.
LEMMA IncrFacts ==
  ASSUME TypeOK, SharedInv, NEW p \in Processes, Incr(p), now' = now
  PROVE  /\ Slot' = Slot
         /\ counter'[Slot] = counter[Slot] + 1
         /\ \A s \in Slots : s > Slot => counter'[s] = 0
         /\ Capped' = IF counter[Slot] + 1 < Limit THEN counter[Slot] + 1 ELSE Limit
<1>1. Slot' = Slot
  BY DEF Slot
<1>2. /\ counter' = [counter EXCEPT ![Slot] = @ + 1]
      /\ counter \in [Slots -> Nat] /\ Slot \in Slots /\ Slot \in Nat
  BY SlotNow DEF Incr, TypeOK
<1>3. counter'[Slot] = counter[Slot] + 1
  BY <1>2
<1>4. \A s \in Slots : s > Slot => counter'[s] = 0
  BY <1>2 DEF SharedInv
<1> QED
  BY <1>1, <1>3, <1>4 DEF Capped

\* What a request that is let through does to the history.
LEMMA AdmittedFacts ==
  ASSUME TypeOK, NEW p \in Processes, AllowShared(p)
  PROVE  \E n, f :
           /\ n \in Nat /\ f \in [1 .. n + 1 -> Nat]
           /\ Len(admitted) = n /\ DOMAIN admitted = 1 .. n
           /\ admitted' = f /\ Len(admitted') = n + 1 /\ DOMAIN admitted' = 1 .. n + 1
           /\ f[n + 1] = now
           /\ \A i \in 1 .. n : f[i] = admitted[i] /\ f[i] \in 0 .. now
<1>1. PICK s \in Seq(0 .. now) : s = admitted
  BY DEF TypeOK
<1>2. PICK n \in Nat : n = Len(s) /\ DOMAIN s = 1 .. n
  BY <1>1
<1>3. PICK t \in Nat : t = now
  BY DEF TypeOK
<1>4. PICK f \in [1 .. n + 1 -> Nat] : f = Append(s, t) /\ Len(f) = n + 1
  <2>1. s \in Seq(Nat)
    BY <1>3
  <2>2. Append(s, t) \in Seq(Nat) /\ Len(Append(s, t)) = n + 1
    BY <1>2, <2>1
  <2> QED
    BY <2>2, LenProperties
<1>5. f[n + 1] = t /\ \A i \in 1 .. n : f[i] = s[i] /\ f[i] \in 0 .. now
  BY <1>1, <1>2, <1>3, <1>4
<1>6. admitted' = f
  BY <1>1, <1>3, <1>4 DEF AllowShared
<1> QED
  BY <1>1, <1>2, <1>3, <1>4, <1>5, <1>6

\* A request let through is number Limit of its minute at most.
LEMMA SharedAllow ==
  ASSUME TypeOK, SharedInv, SharedLimit, NEW p \in Processes, AllowShared(p)
  PROVE  SharedInv' /\ SharedLimit'
<1>1. PICK n, f :
        /\ n \in Nat /\ f \in [1 .. n + 1 -> Nat]
        /\ Len(admitted) = n /\ DOMAIN admitted = 1 .. n
        /\ admitted' = f /\ Len(admitted') = n + 1 /\ DOMAIN admitted' = 1 .. n + 1
        /\ f[n + 1] = now
        /\ \A i \in 1 .. n : f[i] = admitted[i] /\ f[i] \in 0 .. now
  BY AdmittedFacts
<1>2. PICK c \in Nat, K \in Nat, S \in Nat :
        c = counter[Slot] /\ K = Limit * losses /\ S = Slot
  BY SlotNow
<1>3. now' = now /\ losses' = losses /\ now \in Nat /\ c + 1 <= Limit
  BY <1>2 DEF AllowShared, TypeOK
<1>4. /\ Slot' = S /\ Capped = c /\ Capped' = c + 1
      /\ \A s \in Slots : s > S => counter'[s] = 0
  BY <1>2, <1>3, IncrFacts DEF AllowShared, Capped
<1>5. /\ \A i \in 1 .. n : SlotOf(f[i]) \in Nat /\ SlotOf(f[i]) <= S
      /\ SlotOf(f[n + 1]) = S
  BY <1>1, <1>2, SlotNow DEF Slot
<1>6. \A i \in 1 .. n : SlotOf(f[i]) = S => i > n - c - K
  BY <1>1, <1>2, <1>4 DEF SharedInv
<1>7. SharedInv'
  <2>1. \A i, j \in 1 .. n + 1 : i <= j => f[i] <= f[j]
    <3>1. \A i, j \in 1 .. n : i <= j => f[i] <= f[j]
      BY <1>1 DEF SharedInv
    <3> QED
      BY <1>1, <1>3, <3>1
  <2>2. \A i \in 1 .. n + 1 : SlotOf(f[i]) = S => i > (n + 1) - (c + 1) - K
    BY <1>1, <1>6
  <2> QED
    BY <1>1, <1>2, <1>3, <1>4, <2>1, <2>2 DEF SharedInv
<1>8. SharedLimit'
  <2> SUFFICES ASSUME NEW i \in 1 .. n + 1, i + (Limit + K) <= n + 1
               PROVE  SlotOf(f[i + (Limit + K)]) > SlotOf(f[i])
    BY <1>1, <1>2, <1>3, SlotNow DEF SharedLimit
  <2>1. i \in 1 .. n
    BY <1>1
  <2>2. CASE i + (Limit + K) <= n
    <3>1. i + (Limit + K) \in 1 .. n
      BY <1>1, <2>2
    <3>2. SlotOf(admitted[i + (Limit + K)]) > SlotOf(admitted[i])
      BY <1>1, <1>2, <2>1, <2>2, SlotNow DEF SharedLimit
    <3> QED
      BY <1>1, <2>1, <3>1, <3>2
  <2>3. CASE i + (Limit + K) = n + 1
    <3>1. SlotOf(f[i]) # S
      BY <1>1, <1>3, <1>6, <2>1, <2>3
    <3> QED
      BY <1>5, <2>1, <2>3, <3>1
  <2>4. i + (Limit + K) <= n \/ i + (Limit + K) = n + 1
    BY <1>1
  <2> QED
    BY <2>2, <2>3, <2>4
<1> QED
  BY <1>7, <1>8

\* A request that is counted and not let through changes no promise.
LEMMA SharedCount ==
  ASSUME TypeOK, SharedInv, SharedLimit, NEW p \in Processes, Incr(p),
         UNCHANGED <<now, admitted, losses>>
  PROVE  SharedInv' /\ SharedLimit'
<1>1. PICK C \in Nat, D \in Nat, K \in Nat, n \in Nat :
        /\ C = Capped /\ D = Capped' /\ C <= D
        /\ K = Limit * losses /\ n = Len(admitted) /\ DOMAIN admitted = 1 .. n
  <2>1. Capped \in Nat /\ Capped' \in Nat /\ Capped <= Capped'
    BY IncrFacts, SlotNow DEF Capped
  <2>2. Limit * losses \in Nat /\ Len(admitted) \in Nat
        /\ DOMAIN admitted = 1 .. Len(admitted)
    BY SlotNow DEF TypeOK
  <2> QED
    BY <2>1, <2>2
<1>2. Slot' = Slot /\ \A s \in Slots : s > Slot => counter'[s] = 0
  BY IncrFacts
<1>3. \A i \in 1 .. n : SlotOf(admitted[i]) = Slot => i > n - D - K
  <2>1. \A i \in 1 .. n : SlotOf(admitted[i]) = Slot => i > n - C - K
    BY <1>1 DEF SharedInv
  <2> QED
    BY <1>1, <2>1
<1>4. SharedInv'
  BY <1>1, <1>2, <1>3 DEF SharedInv
<1> QED
  BY <1>4 DEF SharedLimit

LEMMA SharedFlush ==
  ASSUME TypeOK, SharedInv, SharedLimit, Flush
  PROVE  SharedInv' /\ SharedLimit'
<1>1. PICK n \in Nat, K \in Nat, C \in 0 .. Limit :
        /\ n = Len(admitted) /\ DOMAIN admitted = 1 .. n
        /\ K = Limit * losses /\ C = Capped
  <2>1. Len(admitted) \in Nat /\ DOMAIN admitted = 1 .. Len(admitted)
    BY DEF TypeOK
  <2> QED
    BY <2>1, SlotNow
<1>2. /\ now' = now /\ admitted' = admitted /\ losses' = losses + 1
      /\ counter' = [s \in Slots |-> 0] /\ Slot' = Slot
  BY DEF Flush, Slot
<1>3. Limit * losses' = K + Limit /\ Limit * (1 + losses') = K + Limit + Limit
  <2>1. PICK k \in Nat : k = losses
    BY DEF TypeOK
  <2>2. Limit * (k + 1) = Limit * k + Limit
        /\ Limit * (1 + (k + 1)) = Limit * k + Limit + Limit
    OBVIOUS
  <2> QED
    BY <1>1, <1>2, <2>1, <2>2
<1>4. Capped' = 0
  BY <1>2, SlotNow DEF Capped
<1>5. \A i \in 1 .. n : SlotOf(admitted[i]) = Slot => i > n - 0 - (K + Limit)
  BY <1>1 DEF SharedInv
<1>6. SharedInv'
  BY <1>1, <1>2, <1>3, <1>4, <1>5 DEF SharedInv
<1>7. SharedLimit'
  <2> SUFFICES ASSUME NEW i \in 1 .. n, i + (K + Limit + Limit) <= n
               PROVE  SlotOf(admitted[i + (K + Limit + Limit)]) > SlotOf(admitted[i])
    BY <1>1, <1>2, <1>3 DEF SharedLimit
  <2>1. PICK j \in 1 .. n, l \in 1 .. n :
          j = i + (K + Limit) /\ l = i + (K + Limit + Limit) /\ j <= l
    OBVIOUS
  <2>2. SlotOf(admitted[j]) > SlotOf(admitted[i])
    <3>1. Limit * (1 + losses) = K + Limit
      BY <1>1, SlotNow
    <3>2. \A k \in 1 .. n : k + (K + Limit) <= n
                            => SlotOf(admitted[k + (K + Limit)]) > SlotOf(admitted[k])
      BY <1>1, <3>1 DEF SharedLimit
    <3> QED
      BY <2>1, <3>2
  <2>3. /\ admitted[j] <= admitted[l]
        /\ admitted[j] \in 0 .. now /\ admitted[l] \in 0 .. now
        /\ admitted[i] \in 0 .. now /\ now \in 0 .. MaxTime
    <3>1. \A k \in 1 .. n : admitted[k] \in 0 .. now
      BY <1>1 DEF TypeOK
    <3>2. admitted[j] <= admitted[l]
      BY <1>1, <2>1 DEF SharedInv
    <3> QED
      BY <3>1, <3>2 DEF TypeOK
  <2>4. SlotOf(admitted[j]) <= SlotOf(admitted[l])
    BY <2>3, SlotFacts
  <2>5. /\ SlotOf(admitted[i]) \in Nat /\ SlotOf(admitted[j]) \in Nat
        /\ SlotOf(admitted[l]) \in Nat
    BY <2>3, SlotFacts
  <2> QED
    BY <2>1, <2>2, <2>4, <2>5
<1> QED
  BY <1>6, <1>7

\* A minute that begins has no requests yet.
LEMMA TickFacts ==
  ASSUME TypeOK, Tick
  PROVE  /\ Slot' = SlotOf(now + 1) /\ Slot' \in Slots /\ Slot' \in Nat /\ Slot <= Slot'
         /\ \A i \in DOMAIN admitted :
              SlotOf(admitted[i]) \in Nat /\ SlotOf(admitted[i]) <= Slot
<1>1. now \in Nat /\ now + 1 \in 0 .. MaxTime /\ now' = now + 1 /\ now \in 0 .. (now + 1)
  BY DEF TypeOK, Tick
<1>2. \A i \in DOMAIN admitted : admitted[i] \in 0 .. now
  BY DEF TypeOK
<1> QED
  BY <1>1, <1>2, SlotFacts, SlotNow DEF Slot

LEMMA SharedTick ==
  ASSUME TypeOK, SharedInv, SharedLimit, Tick
  PROVE  SharedInv' /\ SharedLimit'
<1>1. UNCHANGED <<counter, admitted, losses>>
  BY DEF Tick
<1>2. PICK S \in Nat, T \in Nat : S = Slot /\ T = Slot' /\ S <= T
  BY TickFacts, SlotNow
<1>3. \A s \in Slots : s > T => counter[s] = 0
  <2>1. Slots \subseteq Int
    BY DEF Slots
  <2> QED
    BY <1>2, <2>1 DEF SharedInv
<1>4. \A i \in DOMAIN admitted :
        SlotOf(admitted[i]) = T => i > Len(admitted) - Capped' - Limit * losses
  <2>1. CASE S = T
    <3>1. Capped' = Capped
      BY <1>1, <1>2, <2>1 DEF Capped
    <3> QED
      BY <1>2, <2>1, <3>1 DEF SharedInv
  <2>2. CASE S < T
    BY <1>2, <2>2, TickFacts
  <2> QED
    BY <1>2, <2>1, <2>2
<1>5. SharedInv'
  BY <1>1, <1>2, <1>3, <1>4 DEF SharedInv
<1> QED
  BY <1>1, <1>5 DEF SharedLimit

LEMMA SharedStep ==
  TypeOK /\ SharedInv /\ SharedLimit /\ [Next]_vars => SharedInv' /\ SharedLimit'
<1> SUFFICES ASSUME TypeOK, SharedInv, SharedLimit, [Next]_vars
             PROVE  SharedInv' /\ SharedLimit'
  OBVIOUS
<1>1. ASSUME NEW p \in Processes, Start(p) \/ CheckLocal(p) \/ Crash(p)
      PROVE  SharedInv' /\ SharedLimit'
  BY <1>1, SharedFrame DEF Start, CheckLocal, AllowLocal, RefuseLocal, Crash
<1>2. ASSUME NEW p \in Processes, CheckRedis(p)  PROVE SharedInv' /\ SharedLimit'
  <2>1. CASE AllowShared(p)
    BY <2>1, SharedAllow
  <2>2. CASE RefuseShared(p) \/ Unanswered(p)
    BY <2>2, SharedCount DEF RefuseShared, Unanswered
  <2> QED
    BY <1>2, <2>1, <2>2 DEF CheckRedis
<1>3. CASE Flush
  BY <1>3, SharedFlush
<1>4. CASE Tick
  BY <1>4, SharedTick
<1>5. CASE UNCHANGED vars
  BY <1>5, SharedFrame DEF vars
<1> QED
  BY <1>1, <1>2, <1>3, <1>4, <1>5 DEF Next

-------------------------------------------------------------------------------
\* Steps that touch no counter and no clock, and whose verdict, if they give
\* one, is another's.
LEMMA RefusalFrame ==
  ASSUME TypeOK, RefusalInv, UNCHANGED <<now, counter, admitted, wasted>>
  PROVE  Cardinality(Current') + wasted' >= Capped'
BY DEF RefusalInv, Current, Capped, Slot

\* The processes that are down after a step had no verdict, or it is gone.
LEMMA DownStep ==
  ASSUME TypeOK, RefusalInv, [Next]_vars
  PROVE  \A p \in Processes : backend'[p] = "down" =>
           \A v \in {"200", "429", "500"} : last' # <<p, v>>
<1> SUFFICES ASSUME NEW p \in Processes, backend'[p] = "down",
                    NEW v \in {"200", "429", "500"}, last' = <<p, v>>
             PROVE  FALSE
  OBVIOUS
<1>1. backend[p] = "down" => last # <<p, v>>
  BY DEF RefusalInv
<1>2. ASSUME NEW q \in Processes, Start(q)  PROVE FALSE
  BY <1>1, <1>2 DEF Start, TypeOK
<1>3. ASSUME NEW q \in Processes, CheckLocal(q) \/ CheckRedis(q)  PROVE FALSE
  <2>1. backend' = backend /\ backend[q] # "down"
    BY <1>3 DEF CheckLocal, AllowLocal, RefuseLocal, CheckRedis, AllowShared,
                RefuseShared, Unanswered, Incr
  <2>2. \E w \in {"200", "429", "500"} : last' = <<q, w>>
    BY <1>3 DEF CheckLocal, AllowLocal, RefuseLocal, CheckRedis, AllowShared,
                RefuseShared, Unanswered, Answer
  <2>3. p = q
    BY <2>2
  <2> QED
    BY <2>1, <2>3
<1>4. ASSUME NEW q \in Processes, Crash(q)  PROVE FALSE
  BY <1>4 DEF Crash, NoVerdict
<1>5. ASSUME Tick  PROVE FALSE
  BY <1>5 DEF Tick, NoVerdict
<1>6. ASSUME Flush \/ UNCHANGED vars  PROVE FALSE
  BY <1>1, <1>6 DEF Flush, vars
<1> QED
  BY <1>2, <1>3, <1>4, <1>5, <1>6 DEF Next

\* One more request let through is one more of this minute.
LEMMA CurrentGrows ==
  ASSUME TypeOK, NEW p \in Processes, AllowShared(p)
  PROVE  Cardinality(Current') = Cardinality(Current) + 1
<1>1. PICK n, f :
        /\ n \in Nat /\ f \in [1 .. n + 1 -> Nat]
        /\ Len(admitted) = n /\ DOMAIN admitted = 1 .. n
        /\ admitted' = f /\ Len(admitted') = n + 1 /\ DOMAIN admitted' = 1 .. n + 1
        /\ f[n + 1] = now
        /\ \A i \in 1 .. n : f[i] = admitted[i] /\ f[i] \in 0 .. now
  BY AdmittedFacts
<1>2. Slot' = Slot /\ Slot = SlotOf(now)
  BY DEF AllowShared, Slot
<1>3. Current' = {i \in 1 .. n + 1 : SlotOf(f[i]) = Slot}
  BY <1>1, <1>2 DEF Current
<1>4. Current = {i \in 1 .. n : SlotOf(f[i]) = Slot}
  BY <1>1 DEF Current
<1>5. \A i : i \in 1 .. n + 1 <=> i \in 1 .. n \/ i = n + 1
  BY <1>1
<1>6. Current' = Current \cup {n + 1}
  BY <1>1, <1>2, <1>3, <1>4, <1>5
<1>7. n + 1 \notin Current
  BY <1>1, <1>4
<1> QED
  BY <1>6, <1>7, CurrentFinite, FS_AddElement

LEMMA CountStep ==
  ASSUME TypeOK, TypeOK', SharedInv, RefusalInv, [Next]_vars
  PROVE  Cardinality(Current') + wasted' >= Capped'
<1>1. ASSUME NEW p \in Processes, Start(p) \/ CheckLocal(p) \/ Crash(p)
      PROVE  Cardinality(Current') + wasted' >= Capped'
  BY <1>1, RefusalFrame DEF Start, CheckLocal, AllowLocal, RefuseLocal, Crash
<1>2. PICK C \in Nat, w \in Nat, m \in Nat, c \in Nat :
        /\ C = Capped /\ w = wasted /\ m = Cardinality(Current) /\ c = counter[Slot]
        /\ m + w >= C
  <2>1. /\ Capped \in Nat /\ wasted \in Nat /\ Cardinality(Current) \in Nat
        /\ counter[Slot] \in Nat
    BY SlotNow, CurrentFinite DEF TypeOK
  <2> QED
    BY <2>1 DEF RefusalInv
<1>3. ASSUME NEW p \in Processes, AllowShared(p)
      PROVE  Cardinality(Current') + wasted' >= Capped'
  <2>1. Capped = c /\ Capped' = c + 1 /\ wasted' = w
    BY <1>2, <1>3, IncrFacts DEF AllowShared, Capped
  <2>2. Cardinality(Current') = m + 1
    BY <1>2, <1>3, CurrentGrows
  <2> QED
    BY <1>2, <2>1, <2>2
<1>4. ASSUME NEW p \in Processes, RefuseShared(p) \/ Unanswered(p)
      PROVE  Cardinality(Current') + wasted' >= Capped'
  <2>1. Incr(p) /\ now' = now /\ admitted' = admitted
    BY <1>4 DEF RefuseShared, Unanswered
  <2>2. Current' = Current
    BY <2>1 DEF Current, Slot
  <2>3. /\ C = IF c < Limit THEN c ELSE Limit
        /\ Capped' = IF c + 1 < Limit THEN c + 1 ELSE Limit
    BY <1>2, <2>1, IncrFacts DEF Capped
  <2>4. \/ c + 1 > Limit /\ wasted' = w
        \/ wasted' = w + 1
    BY <1>2, <1>4 DEF RefuseShared, Unanswered
  <2> QED
    BY <1>2, <2>2, <2>3, <2>4
<1>5. CASE Flush
  <2>1. /\ wasted' = w /\ now' = now /\ admitted' = admitted
        /\ counter' = [s \in Slots |-> 0] /\ Slot' = Slot
    BY <1>2, <1>5 DEF Flush, Slot
  <2>2. Capped' = 0
    BY <2>1, SlotNow DEF Capped
  <2>3. Current' = Current
    BY <2>1 DEF Current
  <2> QED
    BY <1>2, <2>1, <2>2, <2>3
<1>6. CASE Tick
  <2>1. UNCHANGED <<counter, admitted>> /\ Slot' = SlotOf(now + 1)
    BY <1>6, TickFacts DEF Tick
  <2>2. CASE Slot' = Slot
    <3>1. wasted' = w /\ Current' = Current /\ Capped' = Capped
      BY <1>2, <1>6, <2>1, <2>2 DEF Tick, Current, Capped
    <3> QED
      BY <1>2, <3>1
  <2>3. CASE Slot' # Slot
    <3>1. Slot' \in Slots /\ Slot' > Slot
      BY <1>6, <2>3, TickFacts, SlotNow
    <3>2. counter'[Slot'] = 0
      BY <2>1, <3>1 DEF SharedInv
    <3>3. Capped' = 0
      BY <3>2 DEF Capped
    <3>4. wasted' \in Nat /\ Cardinality(Current') \in Nat
      <4>1. IsFiniteSet(1 .. Len(admitted'))
        BY FS_Interval DEF TypeOK
      <4>2. Current' \in SUBSET (1 .. Len(admitted'))
        BY DEF TypeOK, Current
      <4> QED
        BY <4>1, <4>2, FS_Subset, FS_CardinalityType DEF TypeOK
    <3> QED
      BY <3>3, <3>4
  <2> QED
    BY <2>2, <2>3
<1>7. CASE UNCHANGED vars
  BY <1>7, RefusalFrame DEF vars
<1> QED
  BY <1>1, <1>3, <1>4, <1>5, <1>6, <1>7 DEF Next, CheckRedis

LEMMA RefusalStep ==
  TypeOK /\ TypeOK' /\ SharedInv /\ RefusalInv /\ [Next]_vars => RefusalInv'
BY CountStep, DownStep DEF RefusalInv

LEMMA JustifiedStep ==
  TypeOK /\ LocalInv /\ RefusalInv /\ RefusalInv' /\ RefusalJustified /\ [Next]_vars
    => RefusalJustified'
<1> SUFFICES ASSUME TypeOK, LocalInv, RefusalInv, RefusalInv', RefusalJustified, [Next]_vars,
                    NEW p \in Processes, last' = <<p, "429">>
             PROVE  CountedBefore(p)' >= Limit
  BY DEF RefusalJustified
<1>0. backend'[p] # "down"
  BY DEF RefusalInv
<1>1. ASSUME last' = last, UNCHANGED <<now, passed, admitted, wasted>>,
             backend'[p] = backend[p]
      PROVE  CountedBefore(p)' >= Limit
  <2>1. last = <<p, "429">>
    BY <1>1
  <2>2. CountedBefore(p) >= Limit
    BY <2>1 DEF RefusalJustified
  <2>3. Slot' = Slot
    BY <1>1 DEF Slot
  <2>4. CountedBefore(p)' = CountedBefore(p)
    BY <1>1, <2>3 DEF CountedBefore
  <2> QED
    BY <2>2, <2>4
<1>2. ASSUME NEW q \in Processes, Start(q)  PROVE CountedBefore(p)' >= Limit
  <2>1. last = <<p, "429">> /\ last' = last
    BY <1>2 DEF Start
  <2>2. p # q
    BY <1>2, <2>1 DEF Start, RefusalInv
  <2>3. backend'[p] = backend[p]
    BY <1>2, <2>2 DEF Start, TypeOK
  <2> QED
    BY <1>1, <1>2, <2>1, <2>3 DEF Start
<1>3. ASSUME NEW q \in Processes, RefuseLocal(q)  PROVE CountedBefore(p)' >= Limit
  <2>1. q = p
    BY <1>3 DEF RefuseLocal, Answer
  <2>2. /\ backend'[p] = "memory" /\ UNCHANGED <<now, passed>>
        /\ Cardinality(Recent(p)) >= Limit
    BY <1>3, <2>1 DEF RefuseLocal
  <2>3. Recent(p) = {i \in DOMAIN passed[p] : now - passed[p][i] < Window}
    BY DEF LocalInv, Recent
  <2> QED
    BY <2>2, <2>3 DEF CountedBefore
<1>4. ASSUME NEW q \in Processes, RefuseShared(q)  PROVE CountedBefore(p)' >= Limit
  <2>1. q = p
    BY <1>4 DEF RefuseShared, Answer
  <2>2. /\ Incr(p) /\ counter[Slot] + 1 > Limit
        /\ UNCHANGED <<now, backend, admitted, wasted>>
    BY <1>4, <2>1 DEF RefuseShared
  <2>3. Capped = Limit /\ backend'[p] = "redis"
    BY <2>2, SlotNow DEF Capped, Incr
  <2>4. Cardinality(Current) + wasted >= Limit
    BY <2>3 DEF RefusalInv
  <2>5. Slot' = Slot
    BY <2>2 DEF Slot
  <2> QED
    BY <2>2, <2>3, <2>4, <2>5 DEF CountedBefore, Current
<1>5. ASSUME NEW q \in Processes, AllowLocal(q) \/ AllowShared(q) \/ Unanswered(q)
      PROVE  FALSE
  BY <1>5 DEF AllowLocal, AllowShared, Unanswered, Answer
<1>6. ASSUME NEW q \in Processes, Crash(q)  PROVE FALSE
  BY <1>6 DEF Crash, NoVerdict
<1>7. CASE Flush
  BY <1>1, <1>7 DEF Flush
<1>8. ASSUME Tick  PROVE FALSE
  BY <1>8 DEF Tick, NoVerdict
<1>9. CASE UNCHANGED vars
  BY <1>1, <1>9 DEF vars
<1> QED
  BY <1>2, <1>3, <1>4, <1>5, <1>6, <1>7, <1>8, <1>9 DEF Next, CheckLocal, CheckRedis

-------------------------------------------------------------------------------
LimitInv == /\ TypeOK /\ LocalInv /\ SharedInv /\ RefusalInv
            /\ LocalLimit /\ SharedLimit /\ RefusalJustified

LEMMA LimitInvariant == Spec => []LimitInv
<1>1. Init => LimitInv
  <2>1. Init => RefusalJustified
    BY DEF Init, RefusalJustified, NoVerdict
  <2> QED
    BY <2>1, InitCorrect DEF LimitInv
<1>2. LimitInv /\ [Next]_vars => LimitInv'
  BY TypeStep, LocalStep, SharedStep, RefusalStep, JustifiedStep DEF LimitInv
<1> QED
  BY <1>1, <1>2, PTL DEF Spec

\* The rate limiters keep their types.
THEOREM LimiterTypeCorrect == Spec => []TypeOK
BY LimitInvariant, PTL DEF LimitInv

\* In memory a process lets at most Limit requests through in any minute,
\* wherever the minute begins.
THEOREM LocalLimitHolds == Spec => []LocalLimit
BY LimitInvariant, PTL DEF LimitInv

\* In Redis all processes together let at most Limit requests through in a
\* minute of the clock, and Limit more for each time Redis lost its counters.
THEOREM SharedLimitHolds == Spec => []SharedLimit
BY LimitInvariant, PTL DEF LimitInv

\* Nobody is refused before Limit requests counted against him.
THEOREM RefusalsJustified == Spec => []RefusalJustified
BY LimitInvariant, PTL DEF LimitInv
===============================================================================
