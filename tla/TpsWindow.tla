------------------------------ MODULE TpsWindow ------------------------------
(***************************************************************************)
(* The window of recent transactions of one application (TpsMetricsStore): *)
(* transaction-monitor records each event it ingests and then commits it,  *)
(* dashboard-service counts what was recorded and raises alerts.           *)
(*                                                                         *)
(* A process that reaches Redis when it starts records in a sorted set     *)
(* there, and in its own memory otherwise.  ingest_event awaits nothing    *)
(* before its COMMIT, so a recorder takes one event at a time; its calls   *)
(* interleave with those of other recorders and with time.                 *)
(*                                                                         *)
(* A snapshot changes nothing and is an operator, Status.  The clocks of   *)
(* the processes agree.  Events of systems that are not tracked and the    *)
(* other five applications leave this window alone.                        *)
(*                                                                         *)
(* Bounds: time up to MaxTime, MaxEvents events.                           *)
(***************************************************************************)
EXTENDS Integers, Sequences, FiniteSets

CONSTANTS Recorders, Dashboards,
          Window,      \* window_seconds
          Grace,       \* how much longer the key lives
          DropBelow,   \* counts in the window below this are a drop,
          SpikeAbove,  \* above this a spike,
          SpikeNow,    \* and so are counts of the last second above this
          Backends,    \* what a starting process may find
          Faults,      \* what may go wrong: a subset of AllFaults
          MaxTime, MaxEvents

AllFaults == {"fail", "crash", "flush"}

ASSUME WindowAssumption == /\ Window \in Nat \ {0} /\ Grace \in Nat \ {0}
                           /\ DropBelow \in Nat \ {0}
                           /\ SpikeAbove \in Nat /\ SpikeNow \in Nat
ASSUME BoundsAssumption == MaxTime \in Nat /\ MaxEvents \in Nat
ASSUME BackendsAssumption == Backends \subseteq {"memory", "redis"}
ASSUME FaultsAssumption == Faults \subseteq AllFaults

VARIABLES now,
          backend,  \* where a process records and counts
          at,       \* the observation times of the events, in order
          pc,       \* where a recorder is in ingest_event
          event,    \* the event it is at
          zset,     \* events in the sorted set of Redis
          expiry,   \* when Redis drops the set
          deque,    \* events in the memory of a process
          stored,   \* committed events that had been recorded in Redis
          lost      \* events that Redis lost, by a restart or by an expiry in
                    \* the middle of their recording

vars == <<now, backend, at, pc, event, zset, expiry, deque, stored, lost>>

Processes == Recorders \cup Dashboards

Events == DOMAIN at

Never == MaxTime + Window + Grace + 1

TypeOK ==
  /\ now \in 0 .. MaxTime
  /\ backend \in [Processes -> {"memory", "redis", "down"}]
  /\ at \in Seq(0 .. now)
  /\ pc \in [Recorders -> {"idle", "added", "trimmed", "recorded"}]
  /\ event \in [Recorders -> Events \cup {0}]
  /\ zset \subseteq Events
  /\ expiry \in (now + 1) .. Never
  /\ deque \in [Processes -> SUBSET Events]
  /\ stored \subseteq Events
  /\ lost \subseteq Events

Goto(p, from, to) == pc[p] = from /\ pc' = [pc EXCEPT ![p] = to]

\* The events that scores of lo to hi select.
Scored(events, lo, hi) == {i \in events : lo <= at[i] /\ at[i] <= hi}

\* A sorted set that is empty is no key, and has no expiry.
SetTo(events, when) ==
  /\ zset' = events
  /\ expiry' = IF events = {} THEN Never ELSE when

-------------------------------------------------------------------------------
Start(p) ==
  /\ backend[p] = "down"
  /\ \E b \in Backends : backend' = [backend EXCEPT ![p] = b]
  /\ UNCHANGED <<now, at, pc, event, zset, expiry, deque, stored, lost>>

\* The next event is observed by a recorder.
Observe(p, b) ==
  /\ backend[p] = b
  /\ Len(at) < MaxEvents
  /\ at' = Append(at, now)
  /\ event' = [event EXCEPT ![p] = Len(at) + 1]
  /\ UNCHANGED <<now, backend, stored, lost>>

\* zadd; a uuid makes the member unique.
Add(p) ==
  /\ Observe(p, "redis")
  /\ Goto(p, "idle", "added")
  /\ SetTo(zset \cup {Len(at) + 1}, expiry)
  /\ UNCHANGED deque

\* zremrangebyscore, by the time of this event and up to the cutoff.
Trim(p) ==
  /\ Goto(p, "added", "trimmed")
  /\ SetTo(zset \ Scored(zset, 0, at[event[p]] - Window), expiry)
  /\ UNCHANGED <<now, backend, at, event, deque, stored, lost>>

\* Mutant: only a key that has no expiry gets one.
ExpireOnce(p) ==
  /\ Goto(p, "trimmed", "recorded")
  /\ SetTo(zset, IF expiry = Never THEN now + Window + Grace ELSE expiry)
  /\ UNCHANGED <<now, backend, at, event, deque, stored, lost>>

\* Mutant: the key expires by the time of the event, as expireat would.
ExpireByTime(p) ==
  /\ Goto(p, "trimmed", "recorded")
  /\ SetTo(zset, at[event[p]] + Window)
  /\ UNCHANGED <<now, backend, at, event, deque, stored, lost>>

\* expire: the key lives as long as there are events.
Expire(p) ==
  /\ Goto(p, "trimmed", "recorded")
  /\ SetTo(zset, now + Window + Grace)
  /\ UNCHANGED <<now, backend, at, event, deque, stored, lost>>

\* In memory: append, and forget what is older than the cutoff.
RecordLocal(p) ==
  /\ Observe(p, "memory")
  /\ Goto(p, "idle", "recorded")
  /\ deque' = [deque EXCEPT ![p] =
                 Scored(@, now - Window, now) \cup {Len(at) + 1}]
  /\ UNCHANGED <<zset, expiry>>

Commit(p) ==
  /\ Goto(p, "recorded", "idle")
  /\ stored' = IF backend[p] = "redis" THEN stored \cup {event[p]} ELSE stored
  /\ UNCHANGED <<now, backend, at, event, zset, expiry, deque, lost>>

\* Redis or the database raises: 500, the transaction is rolled back, what
\* Redis has done stays.
Fail(p) ==
  /\ "fail" \in Faults
  /\ pc[p] # "idle"
  /\ Goto(p, pc[p], "idle")
  /\ UNCHANGED <<now, backend, at, event, zset, expiry, deque, stored, lost>>

-------------------------------------------------------------------------------
\* A process ends, with what it remembers.
Crash(p) ==
  /\ "crash" \in Faults
  /\ backend[p] # "down"
  /\ backend' = [backend EXCEPT ![p] = "down"]
  /\ pc' = [q \in Recorders |-> IF q = p THEN "idle" ELSE pc[q]]
  /\ deque' = [deque EXCEPT ![p] = {}]
  /\ UNCHANGED <<now, at, event, zset, expiry, stored, lost>>

\* Redis restarts; it has no volume.
Flush ==
  /\ "flush" \in Faults
  /\ lost # Events
  /\ lost' = Events
  /\ SetTo({}, Never)
  /\ UNCHANGED <<now, backend, at, pc, event, deque, stored>>

\* Recorded so far by a request that has yet to set the expiry.
Exposed == {event[p] : p \in {q \in Recorders : pc[q] \in {"added", "trimmed"}}}

\* Time passes; at its expiry the set goes.
Tick ==
  /\ now < MaxTime
  /\ now' = now + 1
  /\ IF expiry = now + 1 THEN SetTo({}, Never) /\ lost' = lost \cup Exposed
                         ELSE UNCHANGED <<zset, expiry, lost>>
  /\ UNCHANGED <<backend, at, pc, event, deque, stored>>

Init ==
  /\ now = 0
  /\ backend = [p \in Processes |-> "down"]
  /\ at = <<>>
  /\ pc = [p \in Recorders |-> "idle"]
  /\ event = [p \in Recorders |-> 0]
  /\ zset = {} /\ expiry = Never
  /\ deque = [p \in Processes |-> {}]
  /\ stored = {} /\ lost = {}

Ingest(p) == Add(p) \/ Trim(p) \/ Expire(p) \/ RecordLocal(p) \/ Commit(p) \/ Fail(p)

Next == \/ \E p \in Processes : Start(p) \/ Crash(p)
        \/ \E p \in Recorders : Ingest(p)
        \/ Flush \/ Tick

Spec == Init /\ [][Next]_vars

-------------------------------------------------------------------------------
(* snapshot() *)

\* The events of the last length ticks, where the process looks for them.
Counted(p, length) ==
  Scored(IF backend[p] = "redis" THEN zset ELSE deque[p], now - length, now)

\* A second is a tick.
Status(p) ==
  LET n == Cardinality(Counted(p, Window))
  IN  IF n < DropBelow THEN "drop"
      ELSE IF n > SpikeAbove \/ Cardinality(Counted(p, 1)) > SpikeNow THEN "spike"
      ELSE "normal"

-------------------------------------------------------------------------------
Watching == {p \in Dashboards : backend[p] = "redis"}

\* A dashboard that reaches Redis counts every committed event of the window
\* that was recorded there, unless Redis has lost it: trimming and the expiry of
\* the key never take an event too early.
NothingForgotten ==
  \A p \in Watching : \A i \in stored \ lost :
    now - at[i] < Window => i \in Counted(p, Window)

\* What a process remembers never spans more than a window.
MemoryBounded ==
  \A p \in Processes : \A i, j \in deque[p] : at[i] - at[j] <= Window
===============================================================================
