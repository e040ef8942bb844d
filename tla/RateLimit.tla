------------------------------ MODULE RateLimit ------------------------------
(***************************************************************************)
(* The rate limiters of api-gateway (rate_limit_middleware) and sre-agent  *)
(* (SreRateLimitMiddleware), for one key: a client of the gateway, or a    *)
(* client and path of the agent.                                           *)
(*                                                                         *)
(* A process counts in memory, over the last minute, or in Redis, by       *)
(* minute of the clock.  The gateway always counts in memory; the agent    *)
(* tries Redis when it starts and keeps what it found.  No middleware      *)
(* awaits anything before its verdict, so a verdict is one step.           *)
(*                                                                         *)
(* The replicas' clocks agree.  The EXPIRE of a counter comes after its    *)
(* minute, when nobody reads it any more, and is left out.                 *)
(*                                                                         *)
(* Bounds: time up to MaxTime, MaxRequests counted in a minute, MaxLosses  *)
(* restarts of Redis.                                                      *)
(***************************************************************************)
EXTENDS Integers, Sequences, FiniteSets

CONSTANTS Processes,
          Limit,         \* requests per minute
          Window,        \* a minute, in ticks
          Backends,      \* where a starting process may count
          Faults,        \* what may go wrong: a subset of AllFaults
          MaxTime, MaxRequests, MaxLosses

AllFaults == {"crash", "reply", "flush"}

ASSUME LimitsAssumption == Limit \in Nat \ {0} /\ Window \in Nat \ {0}
ASSUME BoundsAssumption == MaxTime \in Nat /\ MaxRequests \in Nat /\ MaxLosses \in Nat
ASSUME BackendsAssumption == Backends \subseteq {"memory", "redis"}
ASSUME FaultsAssumption == Faults \subseteq AllFaults

VARIABLES now,
          backend,   \* where a process counts
          passed,    \* times of the requests it let through from memory since it started
          bucket,    \* those of them it remembers
          counter,   \* the counter of each minute in Redis
          admitted,  \* times of the requests let through by Redis
          wasted,    \* counted in this minute, and not answered
          losses,    \* times Redis lost its counters
          last       \* the latest verdict, if it was in this tick

vars == <<now, backend, passed, bucket, counter, admitted, wasted, losses, last>>

Slots == 0 .. (MaxTime \div Window)

SlotOf(t) == t \div Window

Slot == SlotOf(now)

NoVerdict == <<>>

Verdicts == {NoVerdict} \cup (Processes \X {"200", "429", "500"})

TypeOK ==
  /\ now \in 0 .. MaxTime
  /\ backend \in [Processes -> {"memory", "redis", "down"}]
  /\ passed \in [Processes -> Seq(0 .. now)]
  /\ bucket \in [Processes -> SUBSET Nat]
  /\ counter \in [Slots -> Nat]
  /\ admitted \in Seq(0 .. now)
  /\ wasted \in Nat
  /\ losses \in Nat
  /\ last \in Verdicts

Answer(p, verdict) == last' = <<p, verdict>>

-------------------------------------------------------------------------------
\* The middleware is created; Redis answers the ping or not.
Start(p) ==
  /\ backend[p] = "down"
  /\ \E b \in Backends : backend' = [backend EXCEPT ![p] = b]
  /\ UNCHANGED <<now, passed, bucket, counter, admitted, wasted, losses, last>>

(* In memory: _check_local() and rate_limit_middleware().                  *)

\* Mutant: a request of exactly one minute ago is still remembered.
RecentInclusive(p) == {i \in bucket[p] : now - passed[p][i] <= Window}

Recent(p) == {i \in bucket[p] : now - passed[p][i] < Window}

\* Mutant: len(bucket) > limit.
AllowLocalOneMore(p) ==
  /\ backend[p] = "memory"
  /\ Cardinality(Recent(p)) <= Limit
  /\ passed' = [passed EXCEPT ![p] = Append(@, now)]
  /\ bucket' = [bucket EXCEPT ![p] = Recent(p) \cup {Len(passed[p]) + 1}]
  /\ Answer(p, "200")
  /\ UNCHANGED <<now, backend, counter, admitted, wasted, losses>>

AllowLocal(p) ==
  /\ backend[p] = "memory"
  /\ Cardinality(Recent(p)) < Limit
  /\ passed' = [passed EXCEPT ![p] = Append(@, now)]
  /\ bucket' = [bucket EXCEPT ![p] = Recent(p) \cup {Len(passed[p]) + 1}]
  /\ Answer(p, "200")
  /\ UNCHANGED <<now, backend, counter, admitted, wasted, losses>>

RefuseLocal(p) ==
  /\ backend[p] = "memory"
  /\ Cardinality(Recent(p)) >= Limit
  /\ bucket' = [bucket EXCEPT ![p] = Recent(p)]
  /\ Answer(p, "429")
  /\ UNCHANGED <<now, backend, passed, counter, admitted, wasted, losses>>

-------------------------------------------------------------------------------
(* In Redis: _check_redis().                                               *)

Incr(p) == /\ backend[p] = "redis"
           /\ counter[Slot] < MaxRequests
           /\ counter' = [counter EXCEPT ![Slot] = @ + 1]

\* Mutant: the count before this request is compared.
AllowSharedOneMore(p) ==
  /\ Incr(p)
  /\ counter[Slot] <= Limit
  /\ admitted' = Append(admitted, now)
  /\ Answer(p, "200")
  /\ UNCHANGED <<now, backend, passed, bucket, wasted, losses>>

AllowShared(p) ==
  /\ Incr(p)
  /\ counter[Slot] + 1 <= Limit
  /\ admitted' = Append(admitted, now)
  /\ Answer(p, "200")
  /\ UNCHANGED <<now, backend, passed, bucket, wasted, losses>>

\* A refused request counts as well.
RefuseShared(p) ==
  /\ Incr(p)
  /\ counter[Slot] + 1 > Limit
  /\ Answer(p, "429")
  /\ UNCHANGED <<now, backend, passed, bucket, admitted, wasted, losses>>

\* The request is counted and the connection breaks: nothing catches that.
Unanswered(p) ==
  /\ "reply" \in Faults
  /\ Incr(p)
  /\ wasted' = wasted + 1
  /\ Answer(p, "500")
  /\ UNCHANGED <<now, backend, passed, bucket, admitted, losses>>

-------------------------------------------------------------------------------
\* A process ends and its memory with it.
Crash(p) ==
  /\ "crash" \in Faults
  /\ backend[p] # "down"
  /\ backend' = [backend EXCEPT ![p] = "down"]
  /\ passed' = [passed EXCEPT ![p] = <<>>]
  /\ bucket' = [bucket EXCEPT ![p] = {}]
  /\ last' = NoVerdict
  /\ UNCHANGED <<now, counter, admitted, wasted, losses>>

\* Redis restarts; it has no volume.
Flush ==
  /\ "flush" \in Faults
  /\ losses < MaxLosses
  /\ losses' = losses + 1
  /\ counter' = [s \in Slots |-> 0]
  /\ UNCHANGED <<now, backend, passed, bucket, admitted, wasted, last>>

Tick ==
  /\ now < MaxTime
  /\ now' = now + 1
  /\ wasted' = IF SlotOf(now + 1) = Slot THEN wasted ELSE 0
  /\ last' = NoVerdict
  /\ UNCHANGED <<backend, passed, bucket, counter, admitted, losses>>

Init ==
  /\ now = 0
  /\ backend = [p \in Processes |-> "down"]
  /\ passed = [p \in Processes |-> <<>>]
  /\ bucket = [p \in Processes |-> {}]
  /\ counter = [s \in Slots |-> 0]
  /\ admitted = <<>>
  /\ wasted = 0 /\ losses = 0
  /\ last = NoVerdict

CheckLocal(p) == AllowLocal(p) \/ RefuseLocal(p)

CheckRedis(p) == AllowShared(p) \/ RefuseShared(p) \/ Unanswered(p)

Next == \/ \E p \in Processes : Start(p) \/ CheckLocal(p) \/ CheckRedis(p) \/ Crash(p)
        \/ Flush \/ Tick

Spec == Init /\ [][Next]_vars

-------------------------------------------------------------------------------
\* A process that counts in memory lets no more than Limit requests through in
\* any minute, wherever it begins: Limit requests after a request, a minute has
\* passed.
LocalLimit ==
  \A p \in Processes : \A i \in DOMAIN passed[p] :
    i + Limit <= Len(passed[p]) => passed[p][i + Limit] - passed[p][i] >= Window

\* All processes that count in Redis let no more than Limit requests through in
\* a minute of the clock together, and Limit more each time Redis lost its
\* counters: refused, unanswered and concurrent requests do not add to that.
SharedLimit ==
  \A i \in DOMAIN admitted :
    i + Limit * (1 + losses) <= Len(admitted)
      => SlotOf(admitted[i + Limit * (1 + losses)]) > SlotOf(admitted[i])

\* A request is refused only when Limit requests counted against it: in memory,
\* let through by this process less than a minute ago; in Redis, let through or
\* left unanswered in this minute.
CountedBefore(p) ==
  IF backend[p] = "memory"
  THEN Cardinality({i \in DOMAIN passed[p] : now - passed[p][i] < Window})
  ELSE Cardinality({i \in DOMAIN admitted : SlotOf(admitted[i]) = Slot}) + wasted

RefusalJustified ==
  \A p \in Processes : last = <<p, "429">> => CountedBefore(p) >= Limit
===============================================================================
