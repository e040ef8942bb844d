--------------------------- MODULE TpsWindowProofs ---------------------------
(***************************************************************************)
(* What the window promises holds for every length, every number of        *)
(* recorders and dashboards, and whatever fails.                           *)
(***************************************************************************)
EXTENDS DashboardSummary, FiniteSetTheorems, SequenceTheorems, TLAPS

USE WindowAssumption, BoundsAssumption, BackendsAssumption

\* While event i is young Redis has it, unless Redis lost it.
Safe(i) == i \notin lost /\ now - at[i] < Window => i \in zset

\* And the key does not expire while it is.
Kept(i) == Safe(i) /\ (i \in zset /\ i \notin lost => expiry >= at[i] + Window)

\* What a recorder may rely on where it is.
RecorderInv(p) ==
  /\ pc[p] # "idle" => backend[p] # "down" /\ event[p] \in Events
  /\ pc[p] \in {"added", "trimmed"} => backend[p] = "redis" /\ Safe(event[p])
  /\ pc[p] = "recorded" /\ backend[p] = "redis" => Kept(event[p])

WindowInv == /\ TypeOK
             /\ \A p \in Recorders : RecorderInv(p)
             /\ \A i \in stored : Kept(i)

LEMMA WindowInit == Init => WindowInv /\ MemoryBounded
<1> SUFFICES ASSUME Init  PROVE WindowInv /\ MemoryBounded
  OBVIOUS
<1>1. TypeOK
  BY DEF Init, TypeOK, Never
<1>2. \A p \in Recorders : RecorderInv(p)
  BY DEF Init, RecorderInv
<1>3. MemoryBounded
  BY DEF Init, MemoryBounded
<1> QED
  BY <1>1, <1>2, <1>3 DEF Init, WindowInv

LEMMA WindowType == WindowInv /\ [Next]_vars => TypeOK'
<1> SUFFICES ASSUME TypeOK, \A p \in Recorders : RecorderInv(p), [Next]_vars
             PROVE  TypeOK'
  BY DEF WindowInv
<1> USE DEF TypeOK, Goto, SetTo
<1>0. now \in Nat /\ now <= MaxTime /\ Never \in Nat /\ now + 1 <= Never
      /\ now + Window + Grace \in (now + 1) .. Never
  BY DEF Never
<1>13. at' = at => Events' = Events
  BY DEF Events
<1>1. ASSUME NEW p \in Processes, Start(p)  PROVE TypeOK'
  <2>1. backend' \in [Processes -> {"memory", "redis", "down"}]
    BY <1>1 DEF Start
  <2> QED
    BY <1>1, <1>13, <2>1 DEF Start
<1>2. ASSUME NEW p \in Processes, Crash(p)  PROVE TypeOK'
  BY <1>2, <1>13 DEF Crash
<1>3. ASSUME NEW p \in Recorders, NEW b, Observe(p, b)
      PROVE  /\ now' = now /\ backend' = backend /\ stored' = stored /\ lost' = lost
             /\ at' \in Seq(0 .. now) /\ Events' = Events \cup {Len(at) + 1}
             /\ event' \in [Recorders -> Events' \cup {0}]
  <2>1. /\ at' = Append(at, now) /\ now \in 0 .. now
        /\ Events = 1 .. Len(at) /\ Len(at) \in Nat
    BY <1>0, <1>3 DEF Observe, Events
  <2>2. at' \in Seq(0 .. now) /\ DOMAIN at' = 1 .. (Len(at) + 1)
    BY <2>1
  <2>3. Events' = Events \cup {Len(at) + 1}
    BY <2>1, <2>2 DEF Events
  <2> QED
    BY <1>3, <2>2, <2>3 DEF Observe
<1>4. ASSUME NEW p \in Recorders, Add(p)  PROVE TypeOK'
  <2>1. /\ pc' = [pc EXCEPT ![p] = "added"] /\ deque' = deque
        /\ zset' = zset \cup {Len(at) + 1} /\ expiry' \in {expiry, Never}
    BY <1>4 DEF Add
  <2> QED
    BY <1>0, <1>3, <1>4, <2>1 DEF Add
<1>5. ASSUME NEW p \in Recorders, Trim(p)  PROVE TypeOK'
  BY <1>0, <1>5, <1>13 DEF Trim, Scored
<1>6. ASSUME NEW p \in Recorders, Expire(p)  PROVE TypeOK'
  BY <1>0, <1>6, <1>13 DEF Expire
<1>7. ASSUME NEW p \in Recorders, RecordLocal(p)  PROVE TypeOK'
  <2>1. /\ pc' = [pc EXCEPT ![p] = "recorded"] /\ zset' = zset /\ expiry' = expiry
        /\ deque' = [deque EXCEPT ![p] =
                       Scored(@, now - Window, now) \cup {Len(at) + 1}]
    BY <1>7 DEF RecordLocal
  <2> QED
    BY <1>3, <1>7, <2>1 DEF RecordLocal, Scored, Processes
<1>8. ASSUME NEW p \in Recorders, Commit(p)  PROVE TypeOK'
  BY <1>8, <1>13 DEF Commit, RecorderInv
<1>9. ASSUME NEW p \in Recorders, Fail(p)  PROVE TypeOK'
  BY <1>9, <1>13 DEF Fail
<1>10. CASE Flush
  BY <1>0, <1>10, <1>13 DEF Flush
<1>11. CASE Tick
  <2>1. Exposed \subseteq Events
    BY DEF Exposed, RecorderInv
  <2>2. at \in Seq(0 .. (now + 1))
    <3>1. 0 .. now \subseteq 0 .. (now + 1)
      BY <1>0
    <3> QED
      BY <3>1
  <2>3. zset' \subseteq Events /\ lost' \subseteq Events /\ expiry' \in (now + 2) .. Never
    BY <1>0, <1>11, <2>1 DEF Tick, Never
  <2> QED
    BY <1>0, <1>11, <1>13, <2>2, <2>3 DEF Tick
<1>12. CASE UNCHANGED vars
  BY <1>12, <1>13 DEF vars
<1> QED
  BY <1>1, <1>2, <1>4, <1>5, <1>6, <1>7, <1>8, <1>9, <1>10, <1>11, <1>12 DEF Next, Ingest

-------------------------------------------------------------------------------
\* Events keep their times.
LEMMA AtStep ==
  ASSUME TypeOK, [Next]_vars, NEW i \in Events
  PROVE  at'[i] = at[i] /\ i \in Events' /\ at[i] \in 0 .. now /\ now \in 0 .. MaxTime
<1>1. /\ at[i] \in 0 .. now /\ now \in 0 .. MaxTime /\ i \in 1 .. Len(at)
      /\ Len(at) \in Nat
  BY DEF TypeOK, Events
<1>2. at' = at \/ at' = Append(at, now)
  BY DEF Next, Ingest, Start, Crash, Add, Trim, Expire, RecordLocal, Commit, Fail, Observe,
         Flush, Tick, vars
<1>3. CASE at' = at
  BY <1>1, <1>3 DEF Events
<1>4. CASE at' = Append(at, now)
  <2>1. now \in 0 .. now
    BY <1>1
  <2>2. at'[i] = at[i] /\ DOMAIN at' = 1 .. (Len(at) + 1)
    BY <1>1, <1>4, <2>1 DEF TypeOK
  <2> QED
    BY <1>1, <2>2 DEF Events
<1> QED
  BY <1>2, <1>3, <1>4

\* No step takes a young event away, but for losses of Redis and for an expiry
\* that is not set yet.
LEMMA Keeping ==
  ASSUME WindowInv, [Next]_vars, NEW i \in Events
  PROVE  /\ Kept(i) => Kept(i)'
         /\ Safe(i) /\ i \in Exposed => Safe(i)'
<1> DEFINE Goal == /\ Kept(i) => Kept(i)'
                   /\ Safe(i) /\ i \in Exposed => Safe(i)'
<1>0. TypeOK /\ \A p \in Recorders : RecorderInv(p)
  BY DEF WindowInv
<1>1. /\ at'[i] = at[i] /\ at[i] \in Nat /\ at[i] <= now /\ now \in Nat
      /\ now <= MaxTime /\ expiry \in Nat /\ expiry > now
      /\ Never \in Nat /\ Never >= at[i] + Window
  BY <1>0, AtStep DEF TypeOK, Never
<1>2. ASSUME UNCHANGED <<now, zset, expiry, lost>>  PROVE Goal
  BY <1>1, <1>2 DEF Kept, Safe
<1>3. ASSUME NEW p \in Recorders, Add(p)  PROVE Goal
  <2>1. /\ now' = now /\ lost' = lost /\ zset' = zset \cup {Len(at) + 1}
        /\ expiry' = expiry
    BY <1>3 DEF Add, Observe, SetTo
  <2>2. i # Len(at) + 1
    BY <1>0 DEF TypeOK, Events
  <2> QED
    BY <1>1, <2>1, <2>2 DEF Kept, Safe
<1>4. ASSUME NEW p \in Recorders, Trim(p)  PROVE Goal
  <2>1. at[event[p]] \in 0 .. now
    BY <1>0, <1>4 DEF Trim, Goto, RecorderInv, TypeOK, Events
  <2>2. /\ now' = now /\ lost' = lost /\ expiry' \in {expiry, Never}
        /\ zset' = zset \ Scored(zset, 0, at[event[p]] - Window)
    BY <1>4 DEF Trim, SetTo
  <2>3. i \in zset /\ now - at[i] < Window => i \in zset'
    BY <1>1, <2>1, <2>2 DEF Scored
  <2>4. zset' \subseteq zset
    BY <2>2
  <2> QED
    BY <1>1, <2>2, <2>3, <2>4 DEF Kept, Safe
<1>5. ASSUME NEW p \in Recorders, Expire(p)  PROVE Goal
  <2>1. UNCHANGED <<now, zset, lost>> /\ expiry' \in {now + Window + Grace, Never}
    BY <1>5 DEF Expire, SetTo
  <2>2. expiry' >= at[i] + Window
    BY <1>1, <2>1
  <2> QED
    BY <1>1, <2>1, <2>2 DEF Kept, Safe
<1>6. CASE Flush
  <2>1. i \in lost'
    BY <1>6 DEF Flush
  <2> QED
    BY <2>1 DEF Kept, Safe
<1>7. CASE Tick
  <2>1. now' = now + 1
    BY <1>7 DEF Tick
  <2>2. CASE expiry = now + 1
    <3>1. zset' = {} /\ lost' = lost \cup Exposed
      BY <1>7, <2>2 DEF Tick, SetTo
    <3>2. Safe(i) /\ i \in Exposed => Safe(i)'
      BY <3>1 DEF Safe
    <3>3. Kept(i) => Safe(i)'
      BY <1>1, <2>1, <2>2, <3>1 DEF Kept, Safe
    <3> QED
      BY <3>1, <3>2, <3>3 DEF Kept
  <2>3. CASE expiry # now + 1
    <3>1. UNCHANGED <<zset, expiry, lost>>
      BY <1>7, <2>3 DEF Tick
    <3> QED
      BY <1>1, <2>1, <3>1 DEF Kept, Safe
  <2> QED
    BY <2>2, <2>3
<1>8. \/ UNCHANGED <<now, zset, expiry, lost>>
      \/ \E p \in Recorders : Add(p) \/ Trim(p) \/ Expire(p)
      \/ Flush \/ Tick
  BY DEF Next, Ingest, Start, Crash, RecordLocal, Commit, Fail, Observe, vars
<1> QED
  BY <1>2, <1>3, <1>4, <1>5, <1>6, <1>7, <1>8

\* Steps of others leave a recorder what it relies on.
LEMMA OtherRecorders ==
  ASSUME WindowInv, [Next]_vars, NEW q \in Recorders,
         pc'[q] = pc[q], event'[q] = event[q], backend'[q] = backend[q]
  PROVE  RecorderInv(q)'
<1>0. RecorderInv(q) /\ TypeOK
  BY DEF WindowInv
<1>1. CASE pc[q] = "idle"
  BY <1>1 DEF RecorderInv
<1>2. CASE pc[q] # "idle"
  <2>1. PICK e \in Events : e = event[q]
    BY <1>0, <1>2 DEF RecorderInv
  <2>2. e \in Events'
    BY <1>0, AtStep
  <2>3. pc[q] \in {"added", "trimmed"} => Safe(e)'
    BY <1>0, <2>1, Keeping DEF Exposed, RecorderInv
  <2>4. pc[q] = "recorded" /\ backend[q] = "redis" => Kept(e)'
    BY <1>0, <2>1, Keeping DEF RecorderInv
  <2> QED
    BY <1>0, <2>1, <2>2, <2>3, <2>4 DEF RecorderInv, Kept, Safe
<1> QED
  BY <1>1, <1>2

\* A recorder is left what it will rely on by its own steps.
LEMMA OwnStep ==
  ASSUME WindowInv, [Next]_vars, NEW q \in Recorders, Ingest(q)
  PROVE  RecorderInv(q)'
<1>0. RecorderInv(q) /\ TypeOK
  BY DEF WindowInv
<1>1. CASE Commit(q) \/ Fail(q)
  <2>1. pc'[q] = "idle"
    BY <1>0, <1>1 DEF Commit, Fail, Goto, TypeOK
  <2> QED
    BY <2>1 DEF RecorderInv
<1>2. PICK n \in Nat, t \in Nat : n = Len(at) /\ t = now /\ Events = 1 .. n
  BY <1>0 DEF TypeOK, Events
<1>3. ASSUME NEW b, Observe(q, b)
      PROVE  /\ event'[q] = n + 1 /\ n + 1 \in Events' /\ at'[n + 1] = t
             /\ backend'[q] = b /\ now' = t
  <2>1. at' = Append(at, now) /\ now \in 0 .. now
    BY <1>0, <1>3 DEF Observe, TypeOK
  <2>2. at'[n + 1] = t /\ n + 1 \in DOMAIN at'
    BY <1>0, <1>2, <2>1 DEF TypeOK
  <2> QED
    BY <1>0, <1>2, <1>3, <2>2 DEF Observe, Events, TypeOK
<1>4. CASE Add(q)
  <2>1. pc'[q] = "added" /\ zset' = zset \cup {n + 1}
    BY <1>0, <1>2, <1>4 DEF Add, Goto, SetTo, TypeOK
  <2>2. event'[q] = n + 1 /\ n + 1 \in Events' /\ backend'[q] = "redis"
    BY <1>3, <1>4 DEF Add
  <2>3. Safe(n + 1)'
    BY <2>1 DEF Safe
  <2> QED
    BY <2>1, <2>2, <2>3 DEF RecorderInv, Safe
<1>5. CASE RecordLocal(q)
  <2>1. pc'[q] = "recorded"
    BY <1>0, <1>5 DEF RecordLocal, Goto, TypeOK
  <2>2. event'[q] = n + 1 /\ n + 1 \in Events' /\ backend'[q] = "memory"
    BY <1>3, <1>5 DEF RecordLocal
  <2> QED
    BY <2>1, <2>2 DEF RecorderInv
<1>6. CASE Trim(q) \/ Expire(q)
  <2>1. /\ pc[q] \in {"added", "trimmed"} /\ pc'[q] \in {"trimmed", "recorded"}
        /\ UNCHANGED <<event, backend, at, now>>
        /\ pc'[q] = "recorded" => Expire(q)
    BY <1>0, <1>6 DEF Trim, Expire, Goto, TypeOK
  <2>2. PICK e \in Events : e = event[q]
    BY <1>0, <2>1 DEF RecorderInv
  <2>3. Safe(e)' /\ e \in Events'
    BY <1>0, <2>1, <2>2, Keeping, AtStep DEF Exposed, RecorderInv
  <2>4. pc'[q] = "recorded" => Kept(e)'
    <3> SUFFICES ASSUME Expire(q)  PROVE expiry' >= at'[e] + Window
      BY <2>1, <2>3 DEF Kept
    <3>1. expiry' \in {now + Window + Grace, Never}
      BY DEF Expire, SetTo
    <3>2. at'[e] = at[e] /\ at[e] \in 0 .. now /\ now \in 0 .. MaxTime
      BY <1>0, AtStep
    <3> QED
      BY <3>1, <3>2 DEF Never
  <2>5. backend'[q] = "redis"
    BY <1>0, <2>1 DEF RecorderInv
  <2> QED
    BY <2>1, <2>2, <2>3, <2>4, <2>5 DEF RecorderInv, Kept, Safe
<1> QED
  BY <1>1, <1>4, <1>5, <1>6 DEF Ingest

LEMMA RecordersStep ==
  ASSUME WindowInv, [Next]_vars, NEW q \in Recorders
  PROVE  RecorderInv(q)'
<1>0. RecorderInv(q) /\ TypeOK
  BY DEF WindowInv
<1>1. ASSUME NEW p \in Recorders, Ingest(p)  PROVE RecorderInv(q)'
  <2>1. CASE p = q
    BY <1>1, <2>1, OwnStep
  <2>2. CASE p # q
    <3>1. pc'[q] = pc[q] /\ event'[q] = event[q] /\ backend'[q] = backend[q]
      BY <1>0, <1>1, <2>2 DEF Ingest, Add, Trim, Expire, RecordLocal, Commit, Fail, Observe,
                              Goto, TypeOK
    <3> QED
      BY <3>1, OtherRecorders
  <2> QED
    BY <2>1, <2>2
<1>2. ASSUME NEW p \in Processes, Start(p)  PROVE RecorderInv(q)'
  <2>1. UNCHANGED <<pc, event>>
    BY <1>2 DEF Start
  <2>2. CASE p = q
    BY <1>0, <1>2, <2>1, <2>2 DEF Start, RecorderInv
  <2>3. CASE p # q
    <3>1. backend'[q] = backend[q]
      BY <1>0, <1>2, <2>3 DEF Start, TypeOK, Processes
    <3> QED
      BY <2>1, <3>1, OtherRecorders
  <2> QED
    BY <2>2, <2>3
<1>3. ASSUME NEW p \in Processes, Crash(p)  PROVE RecorderInv(q)'
  <2>1. CASE p = q
    <3>1. pc'[q] = "idle"
      BY <1>3, <2>1 DEF Crash
    <3> QED
      BY <3>1 DEF RecorderInv
  <2>2. CASE p # q
    <3>1. pc'[q] = pc[q] /\ event'[q] = event[q] /\ backend'[q] = backend[q]
      BY <1>0, <1>3, <2>2 DEF Crash, TypeOK, Processes
    <3> QED
      BY <3>1, OtherRecorders
  <2> QED
    BY <2>1, <2>2
<1>4. CASE Flush \/ Tick \/ UNCHANGED vars
  BY <1>4, OtherRecorders DEF Flush, Tick, vars
<1> QED
  BY <1>1, <1>2, <1>3, <1>4 DEF Next

LEMMA StoredStep ==
  ASSUME WindowInv, [Next]_vars, NEW i \in stored'
  PROVE  Kept(i)'
<1>0. TypeOK /\ \A p \in Recorders : RecorderInv(p)
  BY DEF WindowInv
<1>1. CASE i \in stored
  BY <1>0, <1>1, Keeping DEF WindowInv, TypeOK
<1>2. CASE i \notin stored
  <2>1. \E p \in Recorders : Commit(p) /\ backend[p] = "redis" /\ i = event[p]
    BY <1>2 DEF Next, Ingest, Start, Crash, Add, Trim, Expire, RecordLocal, Commit, Fail,
                Observe, Flush, Tick, vars
  <2>2. i \in Events /\ Kept(i)
    BY <1>0, <2>1 DEF Commit, Goto, RecorderInv
  <2> QED
    BY <2>2, Keeping
<1> QED
  BY <1>1, <1>2

LEMMA MemoryStep ==
  ASSUME TypeOK, MemoryBounded, [Next]_vars
  PROVE  MemoryBounded'
<1>1. ASSUME NEW p \in Recorders, RecordLocal(p)  PROVE MemoryBounded'
  <2>1. PICK n \in Nat, t \in Nat : n = Len(at) /\ t = now /\ Events = 1 .. n
    BY DEF TypeOK, Events
  <2>2. /\ at' = Append(at, now) /\ now \in 0 .. now
        /\ deque' = [deque EXCEPT ![p] = Scored(@, now - Window, now) \cup {n + 1}]
    BY <1>1, <2>1 DEF RecordLocal, Observe, TypeOK
  <2>3. at'[n + 1] = t /\ \A i \in Events : at'[i] = at[i] /\ at[i] \in 0 .. t
    BY <2>1, <2>2 DEF TypeOK
  <2>4. \A i \in deque'[p] : at'[i] \in Nat /\ at'[i] <= t /\ t - at'[i] <= Window
    <3>1. deque'[p] = Scored(deque[p], t - Window, t) \cup {n + 1} /\ deque[p] \subseteq Events
      BY <2>1, <2>2 DEF TypeOK, Processes
    <3> QED
      BY <2>1, <2>3, <3>1 DEF Scored
  <2> SUFFICES ASSUME NEW q \in Processes, NEW i \in deque'[q], NEW j \in deque'[q]
               PROVE  at'[i] - at'[j] <= Window
    BY DEF MemoryBounded
  <2>5. CASE q = p
    BY <2>1, <2>4, <2>5
  <2>6. CASE q # p
    <3>1. deque'[q] = deque[q] /\ deque[q] \subseteq Events
      BY <2>2, <2>6 DEF TypeOK
    <3> QED
      BY <2>3, <3>1 DEF MemoryBounded
  <2> QED
    BY <2>5, <2>6
<1>2. ASSUME \A q \in Processes : deque'[q] \subseteq deque[q]  PROVE MemoryBounded'
  <2>1. \A q \in Processes : \A i \in deque'[q] : i \in deque[q] /\ at'[i] = at[i]
    BY <1>2, AtStep DEF TypeOK
  <2> QED
    BY <2>1 DEF MemoryBounded
<1>3. \/ \E p \in Recorders : RecordLocal(p)
      \/ deque' = deque
      \/ \E p \in Processes : Crash(p)
  BY DEF Next, Ingest, Start, Add, Trim, Expire, Commit, Fail, Observe, Flush, Tick, vars
<1>4. ASSUME NEW p \in Processes, Crash(p)  PROVE \A q \in Processes : deque'[q] \subseteq deque[q]
  BY <1>4 DEF Crash, TypeOK
<1> QED
  BY <1>1, <1>2, <1>3, <1>4

LEMMA WindowInvariant == Spec => [](WindowInv /\ MemoryBounded)
<1>1. WindowInv /\ [Next]_vars => WindowInv'
  BY WindowType, RecordersStep, StoredStep DEF WindowInv
<1>2. WindowInv /\ MemoryBounded /\ [Next]_vars => MemoryBounded'
  BY MemoryStep DEF WindowInv
<1> QED
  BY WindowInit, <1>1, <1>2, PTL DEF Spec

-------------------------------------------------------------------------------
\* The window keeps its types.
THEOREM WindowTypeCorrect == Spec => []TypeOK
<1>1. WindowInv => TypeOK
  BY DEF WindowInv
<1> QED
  BY WindowInvariant, <1>1, PTL

\* Every committed event of the window is counted by dashboards that reach
\* Redis, unless Redis lost it.
THEOREM NothingIsForgotten == Spec => []NothingForgotten
<1>1. WindowInv => NothingForgotten
  <2> SUFFICES ASSUME WindowInv, NEW p \in Watching, NEW i \in stored \ lost,
                      now - at[i] < Window
               PROVE  i \in Counted(p, Window)
    BY DEF NothingForgotten
  <2>1. i \in zset /\ backend[p] = "redis"
    BY DEF WindowInv, Kept, Safe, Watching
  <2>2. at[i] \in 0 .. now /\ now \in Nat
    BY DEF WindowInv, TypeOK, Events
  <2> QED
    BY <2>1, <2>2 DEF Counted, Scored
<1> QED
  BY WindowInvariant, <1>1, PTL

\* What a process remembers never spans more than a window.
THEOREM MemoryIsBounded == Spec => []MemoryBounded
BY WindowInvariant, PTL

-------------------------------------------------------------------------------
(* Pages beside the window.                                                *)

\* What page d may rely on where it is.
PageInv(d) ==
  /\ page[d] \in {"totalled", "rated"} =>
       total[d] \subseteq Selected(d, rows) /\ between[d] \subseteq rows
  /\ page[d] = "totalled" => Selected(d, rows \cap ok) \subseteq total[d] \cup between[d]
  /\ page[d] = "rated" => success[d] = Selected(d, (total[d] \cup between[d]) \cap ok)

PagesInv == /\ WindowInv
            /\ SummaryTypeOK
            /\ \A d \in Dashboards : PageInv(d)

\* The pages leave the window to itself.
LEMMA PagesOnWindow ==
  /\ SummaryInit => Init
  /\ [SummaryNext]_summaryVars => [Next]_vars
<1>1. SummaryInit => Init
  BY DEF SummaryInit
<1>2. ASSUME SummaryNext  PROVE Next \/ UNCHANGED vars
  <2>1. CASE Around
    BY <2>1 DEF Around, Next, Ingest
  <2>2. ASSUME NEW p \in Recorders, Arrives(p) \/ Commits(p) \/ Fails(p)  PROVE Next
    BY <2>2 DEF Arrives, Commits, Fails, Next, Ingest
  <2>3. ASSUME NEW p \in Processes, Ends(p)  PROVE Next
    BY <2>3 DEF Ends, Next
  <2>4. ASSUME NEW d \in Dashboards, Summary(d)  PROVE UNCHANGED vars
    BY <2>4 DEF Summary, Call, CountTotal, CountSuccess, Show, Raises, PageTo
  <2> QED
    BY <1>2, <2>1, <2>2, <2>3, <2>4 DEF SummaryNext
<1> QED
  BY <1>1, <1>2 DEF summaryVars

\* No page keeps a promise of the window from being kept.
THEOREM WindowUnderPages == SummarySpec => Spec
BY PagesOnWindow, PTL DEF SummarySpec, Spec

LEMMA PagesInit == SummaryInit => SummaryTypeOK /\ \A d \in Dashboards : PageInv(d)
<1> SUFFICES ASSUME SummaryInit
             PROVE  SummaryTypeOK /\ \A d \in Dashboards : PageInv(d)
  OBVIOUS
<1>1. TypeOK
  BY WindowInit DEF SummaryInit, WindowInv
<1>2. SummaryTypeOK
  BY <1>1, MinuteAssumption DEF SummaryInit, SummaryTypeOK
<1> QED
  BY <1>2 DEF SummaryInit, PageInv

\* What happens to the events and the rows.
LEMMA RowsStep ==
  ASSUME WindowInv, rows \subseteq Events, ok \subseteq Events, [SummaryNext]_summaryVars
  PROVE  /\ Events \subseteq Events' /\ \A i \in Events : at'[i] = at[i]
         /\ rows \subseteq rows' /\ rows' \subseteq Events'
         /\ ok \subseteq ok' /\ ok' \subseteq Events' /\ ok' \cap Events = ok
<1>1. [Next]_vars /\ TypeOK
  BY PagesOnWindow DEF WindowInv
<1>2. Events \subseteq Events' /\ \A i \in Events : at'[i] = at[i]
  BY <1>1, AtStep
<1>3. ASSUME NEW p \in Recorders, Arrives(p)
      PROVE  /\ rows' = rows /\ ok' \in {ok, ok \cup {Len(at) + 1}}
             /\ Len(at) + 1 \notin Events /\ Len(at) + 1 \in Events'
  <2>1. at' = Append(at, now) /\ now \in 0 .. now
    BY <1>1, <1>3 DEF Arrives, Add, RecordLocal, Observe, TypeOK
  <2>2. DOMAIN at' = 1 .. (Len(at) + 1) /\ DOMAIN at = 1 .. Len(at) /\ Len(at) \in Nat
    BY <1>1, <2>1 DEF TypeOK
  <2> QED
    BY <1>3, <2>2 DEF Arrives, pageVars, Events
<1>4. ASSUME NEW p \in Recorders, Commits(p) \/ Fails(p)
      PROVE  ok' = ok /\ (rows' = rows \/ rows' = rows \cup {event[p]})
  BY <1>4 DEF Commits, Fails, Inserted
<1>5. ASSUME NEW p \in Recorders, Commits(p) \/ Fails(p), rows' # rows
      PROVE  rows' \subseteq Events'
  <2>1. rows' = rows \cup {event[p]} /\ event[p] \in Events
    BY <1>5 DEF Commits, Fails, Inserted, Commit, Goto, WindowInv, RecorderInv
  <2> QED
    BY <1>2, <2>1, <1>5
<1>6. CASE UNCHANGED <<rows, ok>>
  BY <1>2, <1>6
<1>7. ASSUME NEW p \in Processes, Ends(p)  PROVE UNCHANGED <<rows, ok>>
  BY <1>7 DEF Ends, tableVars
<1>8. ASSUME NEW d \in Dashboards, Summary(d)  PROVE UNCHANGED <<rows, ok>>
  BY <1>8 DEF Summary, Call, CountTotal, CountSuccess, Show, Raises, PageTo, tableVars
<1> QED
  BY <1>2, <1>3, <1>4, <1>5, <1>6, <1>7, <1>8 DEF SummaryNext, summaryVars, tableVars

LEMMA PageStep ==
  ASSUME PagesInv, [SummaryNext]_summaryVars, NEW d \in Dashboards
  PROVE  PageInv(d)'
<1>1. /\ rows \subseteq Events /\ ok \subseteq Events
      /\ total[d] \subseteq Events /\ success[d] \subseteq Events
      /\ page \in [Dashboards -> {"idle", "called", "totalled", "rated"}]
      /\ total \in [Dashboards -> SUBSET Events] /\ success \in [Dashboards -> SUBSET Events]
      /\ between \in [Dashboards -> SUBSET Events] /\ DOMAIN since = Dashboards
  BY DEF PagesInv, SummaryTypeOK
<1>2. /\ \A i \in Events : at'[i] = at[i]
      /\ rows \subseteq rows' /\ ok \subseteq ok' /\ ok' \cap Events = ok
  BY <1>1, RowsStep DEF PagesInv
<1>3. PageInv(d)
  BY DEF PagesInv
\* The rows change, and the page stays where it is.
<1>4. ASSUME page'[d] = page[d], since'[d] = since[d], total'[d] = total[d],
             success'[d] = success[d],
             between[d] \subseteq between'[d], between'[d] \subseteq between[d] \cup rows',
             page[d] = "totalled" => rows' \ rows \subseteq between'[d],
             page[d] = "rated" => between'[d] = between[d],
             rows' \ rows # {} => rows' \subseteq Events
      PROVE  PageInv(d)'
  <2>1. rows' \subseteq Events
    BY <1>1, <1>2, <1>4
  <2>2. rows' \cap ok' \subseteq (rows \cap ok) \cup (rows' \ rows)
    BY <1>1, <1>2, <2>1
  <2>3. page[d] \in {"totalled", "rated"} =>
          total[d] \subseteq Selected(d, rows)' /\ between'[d] \subseteq rows'
    BY <1>1, <1>2, <1>3, <1>4 DEF PageInv, Selected
  <2>5. page[d] = "rated" =>
          success'[d] = {i \in (total'[d] \cup between'[d]) \cap ok' : at'[i] >= since'[d]}
    <3> SUFFICES ASSUME page[d] = "rated"
                 PROVE  success'[d] = {i \in (total'[d] \cup between'[d]) \cap ok' : at'[i] >= since'[d]}
      OBVIOUS
    <3>1. success[d] = {i \in (total[d] \cup between[d]) \cap ok : at[i] >= since[d]}
      BY <1>3 DEF PageInv, Selected
    <3>2. /\ total[d] \cup between[d] \subseteq Events
          /\ (total[d] \cup between[d]) \cap ok' = (total[d] \cup between[d]) \cap ok
      BY <1>1, <1>2
    <3> QED
      BY <1>2, <1>4, <3>1, <3>2
  <2>4. page[d] = "totalled" => Selected(d, rows \cap ok)' \subseteq total[d] \cup between'[d]
    BY <1>1, <1>2, <1>3, <1>4, <2>2 DEF PageInv, Selected
  <2> QED
    BY <1>4, <2>3, <2>4, <2>5 DEF PageInv, Selected
<1>5. CASE Summary(d)
  <2>1. UNCHANGED <<vars, rows, ok>>
    BY <1>5 DEF Summary, Call, CountTotal, CountSuccess, Show, Raises, PageTo, tableVars
  <2>2. CASE Call(d)
    BY <1>1, <2>2 DEF Call, PageTo, PageInv
  <2>3. CASE CountTotal(d)
    <3>1. page'[d] = "totalled" /\ total'[d] = Selected(d, rows) /\ since' = since /\ between'[d] = {}
      BY <1>1, <2>3 DEF CountTotal, PageTo
    <3>2. Selected(d, rows)' = Selected(d, rows)
      BY <2>1, <3>1 DEF Selected, vars
    <3>3. Selected(d, rows \cap ok)' \subseteq Selected(d, rows)
      BY <2>1, <3>1 DEF Selected, vars
    <3> QED
      BY <3>1, <3>2, <3>3 DEF PageInv
  <2>4. CASE CountSuccess(d)
    <3>1. /\ page[d] = "totalled" /\ page'[d] = "rated" /\ total' = total /\ since' = since
          /\ between' = between /\ success'[d] = Selected(d, rows \cap ok)
      BY <1>1, <2>4 DEF CountSuccess, PageTo, Successful
    <3>2. Selected(d, rows)' = Selected(d, rows)
      BY <2>1, <3>1 DEF Selected, vars
    <3>3. Selected(d, rows \cap ok) = Selected(d, (total[d] \cup between[d]) \cap ok)
      <4>1. \A i : i \in rows \cap ok /\ at[i] >= since[d] => i \in total[d] \cup between[d]
        BY <1>3, <3>1 DEF PageInv, Selected
      <4>2. total[d] \cup between[d] \subseteq rows
        BY <1>3, <3>1 DEF PageInv, Selected
      <4> QED
        BY <4>1, <4>2 DEF Selected
    <3>4. success'[d] = {i \in (total'[d] \cup between'[d]) \cap ok' : at'[i] >= since'[d]}
      BY <2>1, <3>1, <3>3 DEF Selected, vars
    <3>5. total'[d] \subseteq Selected(d, rows)' /\ between'[d] \subseteq rows'
      BY <1>3, <2>1, <3>1, <3>2 DEF PageInv
    <3> QED
      BY <3>1, <3>4, <3>5 DEF PageInv, Selected
  <2>5. CASE Show(d) \/ Raises(d)
    BY <1>1, <2>5 DEF Show, Raises, PageTo, PageInv
  <2> QED
    BY <1>5, <2>2, <2>3, <2>4, <2>5 DEF Summary
<1>6. ASSUME NEW e \in Dashboards \ {d}, Summary(e)  PROVE PageInv(d)'
  <2>1. /\ page'[d] = page[d] /\ since'[d] = since[d] /\ total'[d] = total[d]
        /\ success'[d] = success[d] /\ between'[d] = between[d] /\ rows' = rows
    BY <1>1, <1>6 DEF Summary, Call, CountTotal, CountSuccess, Show, Raises, PageTo, Forget, tableVars
  <2> QED
    BY <1>4, <2>1
<1>7. ASSUME NEW p \in Recorders, Arrives(p)  PROVE PageInv(d)'
  BY <1>4, <1>7 DEF Arrives, pageVars
<1>8. ASSUME NEW p \in Recorders, NEW x \in SUBSET Events, Inserted(p, x)  PROVE PageInv(d)'
  <2>1. /\ rows' = rows \cup x /\ rows' \subseteq Events
        /\ between'[d] = IF page[d] = "totalled" THEN between[d] \cup x ELSE between[d]
    BY <1>1, <1>8 DEF Inserted
  <2> QED
    BY <1>4, <1>8, <2>1 DEF Inserted
<1>9. ASSUME NEW p \in Recorders, Commits(p) \/ Fails(p)  PROVE PageInv(d)'
  <2>1. PICK x \in {{}, {event[p]}} : Inserted(p, x) /\ (x # {} => pc[p] = "recorded")
    BY <1>9 DEF Commits, Fails, Commit, Goto
  <2>2. x \subseteq Events
    BY <2>1 DEF PagesInv, WindowInv, RecorderInv
  <2> QED
    BY <1>8, <2>1, <2>2
<1>10. ASSUME NEW p \in Processes, Ends(p)  PROVE PageInv(d)'
  <2>1. CASE p = d
    BY <1>1, <1>10, <2>1 DEF Ends, PageInv
  <2>2. CASE p # d
    BY <1>1, <1>4, <1>10, <2>2 DEF Ends, Forget, pageVars, tableVars
  <2> QED
    BY <2>1, <2>2
<1>11. CASE UNCHANGED <<tableVars, pageVars>>
  BY <1>4, <1>11 DEF tableVars, pageVars
<1> QED
  BY <1>5, <1>6, <1>7, <1>9, <1>10, <1>11 DEF SummaryNext, summaryVars

LEMMA SummaryTypeStep ==
  PagesInv /\ [SummaryNext]_summaryVars => SummaryTypeOK'
<1> SUFFICES ASSUME PagesInv, [SummaryNext]_summaryVars  PROVE SummaryTypeOK'
  OBVIOUS
<1>1. TypeOK /\ TypeOK'
  BY PagesOnWindow, WindowType DEF PagesInv, WindowInv
<1>2. Events \subseteq Events' /\ rows' \subseteq Events' /\ ok' \subseteq Events'
  BY RowsStep DEF PagesInv, SummaryTypeOK
<1>3. /\ page \in [Dashboards -> {"idle", "called", "totalled", "rated"}]
      /\ since \in [Dashboards -> -Minute .. MaxTime]
      /\ total \in [Dashboards -> SUBSET Events] /\ success \in [Dashboards -> SUBSET Events]
      /\ between \in [Dashboards -> SUBSET Events]
      /\ rows \subseteq Events
  BY DEF PagesInv, SummaryTypeOK
<1>4. /\ total \in [Dashboards -> SUBSET Events'] /\ success \in [Dashboards -> SUBSET Events']
      /\ between \in [Dashboards -> SUBSET Events']
  BY <1>2, <1>3
<1>5. ASSUME page' \in [Dashboards -> {"idle", "called", "totalled", "rated"}],
             since' \in [Dashboards -> -Minute .. MaxTime],
             total' \in [Dashboards -> SUBSET Events'],
             success' \in [Dashboards -> SUBSET Events'],
             between' \in [Dashboards -> SUBSET Events']
      PROVE  SummaryTypeOK'
  BY <1>1, <1>2, <1>5 DEF SummaryTypeOK
<1>6. ASSUME NEW d \in Dashboards, Forget(d)
      PROVE  /\ since' \in [Dashboards -> -Minute .. MaxTime]
             /\ total' \in [Dashboards -> SUBSET Events']
             /\ success' \in [Dashboards -> SUBSET Events']
             /\ between' \in [Dashboards -> SUBSET Events']
  <2>1. 0 \in -Minute .. MaxTime
    BY MinuteAssumption
  <2> QED
    BY <1>3, <1>4, <1>6, <2>1 DEF Forget
<1>7. ASSUME NEW d \in Dashboards, Summary(d)  PROVE SummaryTypeOK'
  <2>1. page' \in [Dashboards -> {"idle", "called", "totalled", "rated"}]
    BY <1>3, <1>7 DEF Summary, Call, CountTotal, CountSuccess, Show, Raises, PageTo
  <2>2. CASE Call(d)
    <3>1. now - Minute \in -Minute .. MaxTime
      BY <1>1, MinuteAssumption DEF TypeOK
    <3> QED
      BY <1>3, <1>4, <1>5, <2>1, <2>2, <3>1 DEF Call
  <2>3. CASE CountTotal(d)
    <3>1. Selected(d, rows) \subseteq Events'
      BY <1>2, <1>3 DEF Selected
    <3> QED
      BY <1>3, <1>4, <1>5, <2>1, <2>3, <3>1 DEF CountTotal
  <2>4. CASE CountSuccess(d)
    <3>1. Successful(d) \subseteq Events'
      BY <1>2, <1>3 DEF Successful, Selected
    <3> QED
      BY <1>3, <1>4, <1>5, <2>1, <2>4, <3>1 DEF CountSuccess
  <2>5. CASE Show(d) \/ Raises(d)
    BY <1>5, <1>6, <2>1, <2>5 DEF Show, Raises
  <2> QED
    BY <1>7, <2>2, <2>3, <2>4, <2>5 DEF Summary
<1>8. ASSUME NEW p \in Recorders, Commits(p) \/ Fails(p)  PROVE SummaryTypeOK'
  <2>1. PICK x \in {{}, {event[p]}} : Inserted(p, x) /\ (x # {} => pc[p] = "recorded")
    BY <1>8 DEF Commits, Fails, Commit, Goto
  <2>2. x \subseteq Events
    BY <2>1 DEF PagesInv, WindowInv, RecorderInv
  <2>3. between' \in [Dashboards -> SUBSET Events']
    BY <1>2, <1>4, <2>1, <2>2 DEF Inserted
  <2> QED
    BY <1>3, <1>4, <1>5, <2>1, <2>3 DEF Inserted
<1>9. ASSUME NEW p \in Processes, Ends(p)  PROVE SummaryTypeOK'
  BY <1>3, <1>4, <1>5, <1>6, <1>9 DEF Ends, pageVars
<1>10. CASE UNCHANGED pageVars
  BY <1>3, <1>4, <1>5, <1>10 DEF pageVars
<1> QED
  BY <1>7, <1>8, <1>9, <1>10 DEF SummaryNext, summaryVars, Arrives

LEMMA PagesInvariant == SummarySpec => []PagesInv
<1>1. SummaryInit => PagesInv
  BY PagesInit, PagesOnWindow, WindowInit DEF PagesInv
<1>2. PagesInv /\ [SummaryNext]_summaryVars => WindowInv'
  BY PagesOnWindow, WindowType, RecordersStep, StoredStep DEF PagesInv, WindowInv
<1>3. PagesInv /\ [SummaryNext]_summaryVars => PagesInv'
  BY <1>2, PageStep, SummaryTypeStep DEF PagesInv
<1> QED
  BY <1>1, <1>3, PTL DEF SummarySpec

\* The window, the rows and the pages keep their types.
THEOREM SummaryTypeCorrect == SummarySpec => []SummaryTypeOK
<1>1. PagesInv => SummaryTypeOK
  BY DEF PagesInv
<1> QED
  BY PagesInvariant, <1>1, PTL

\* The successes of a page are those of its total and those committed since.
THEOREM CountsDiffer == SummarySpec => []CountsDifferByCommits
<1>1. PagesInv => CountsDifferByCommits
  BY DEF PagesInv, PageInv, CountsDifferByCommits
<1> QED
  BY PagesInvariant, <1>1, PTL

\* The payments that a page counts and its TPS alert agree.
THEOREM PagesAgree == SummarySpec => []HalvesAgree
<1>1. PagesInv => HalvesAgree
  <2> SUFFICES ASSUME PagesInv, NEW d \in Watching, page[d] = "rated",
                      total[d] \subseteq stored \ lost, now - since[d] < Window,
                      Status(d) = "drop"
               PROVE  Cardinality(total[d]) < DropBelow
    BY DEF HalvesAgree
  <2>1. /\ TypeOK /\ d \in Dashboards /\ backend[d] = "redis" /\ now \in Nat
        /\ since[d] \in Int
    BY MinuteAssumption DEF PagesInv, SummaryTypeOK, TypeOK, Watching
  <2>2. \A i \in Events : at[i] \in 0 .. now
    BY <2>1 DEF TypeOK, Events
  <2>3. \A i \in total[d] : i \in Events /\ at[i] >= since[d]
    BY <2>1 DEF PagesInv, PageInv, Selected, SummaryTypeOK
  <2>4. total[d] \subseteq Counted(d, Window)
    <3> SUFFICES ASSUME NEW i \in total[d]  PROVE i \in Counted(d, Window)
      OBVIOUS
    <3>1. now - at[i] < Window /\ at[i] \in 0 .. now
      BY <2>1, <2>2, <2>3
    <3>2. i \in zset
      BY <3>1 DEF PagesInv, WindowInv, Kept, Safe
    <3> QED
      BY <2>1, <3>1, <3>2 DEF Counted, Scored
  <2>5. IsFiniteSet(Counted(d, Window)) /\ IsFiniteSet(total[d])
    <3>1. Events = 1 .. Len(at) /\ Len(at) \in Nat
      BY <2>1 DEF TypeOK, Events
    <3>2. IsFiniteSet(Events)
      BY <3>1, FS_Interval
    <3>3. Counted(d, Window) \subseteq Events
      BY <2>1 DEF Counted, Scored, TypeOK
    <3> QED
      BY <2>4, <3>2, <3>3, FS_Subset
  <2>6. /\ Cardinality(total[d]) <= Cardinality(Counted(d, Window))
        /\ Cardinality(total[d]) \in Nat /\ Cardinality(Counted(d, Window)) \in Nat
    BY <2>4, <2>5, FS_Subset, FS_CardinalityType
  <2>7. Cardinality(Counted(d, Window)) < DropBelow
    BY DEF Status
  <2> QED
    BY <2>6, <2>7
<1> QED
  BY PagesInvariant, <1>1, PTL
===============================================================================
