---------------------------- MODULE RunbookDecision ----------------------------
(***************************************************************************)
(* The decision engine of sre-agent and its governance: the catalog of     *)
(* runbooks in the database, the decisions cached in Redis for TTL, the    *)
(* selection of a runbook for an incident pattern, the admin's toggle of a *)
(* runbook with its audit row, and the seeding at start-up.                *)
(*                                                                         *)
(* None of these handlers awaits anything between its first read and its   *)
(* last write, so a replica takes one at a time; the sections of different *)
(* replicas interleave at each database and Redis call.                    *)
(*                                                                         *)
(* Nothing ever writes a pattern after it was seeded, so the pattern of a  *)
(* key is a constant; the lookup by service and error type finds the row   *)
(* the lookup by pattern_key found, the key being made of the two.         *)
(*                                                                         *)
(* Bounds: MaxToggles committed toggles; held and off count up to MaxHeld  *)
(* and Overdue, more is as much.                                           *)
(***************************************************************************)
EXTENDS Naturals

CONSTANTS Replicas,    \* the processes of sre-agent
          Patterns,    \* pattern keys incidents have
          Runbooks,
          Default,     \* the seeded pattern row of a key: its default_runbook
          Fallback,    \* scale_kubernetes
          TTL,         \* lifetime of a cached decision, in ticks (300 seconds)
          Faults,      \* what may go wrong: a subset of {"redis", "crash"}
          MaxToggles,
          MaxHeld      \* held counts up to here

NoRunbook == "none"    \* Default of a key that has no pattern row
NoEntry == [runbook |-> NoRunbook]   \* a key that is not in Redis

ASSUME DecisionAssumption ==
  /\ NoRunbook \notin Runbooks /\ Patterns # {}
  /\ Default \in [Patterns -> Runbooks \cup {NoRunbook}]
  /\ Fallback \in Runbooks
  /\ TTL \in Nat \ {0}
  /\ MaxToggles \in Nat /\ MaxHeld \in Nat
  /\ Faults \subseteq {"redis", "crash"}

VARIABLES seeded,    \* the knowledge base has its rows
          off,       \* runbooks.enabled: 0 when enabled, else ticks since it is off
          cache,     \* sre:pattern:<key> in Redis
          pc,        \* the section a replica is in
          key,       \* the pattern a selection is for
          choice,    \* the decision it found, or what a toggle asked for
          loaded,    \* what the section read from the database
          todo,      \* cache keys a toggle has yet to delete
          redis,     \* the replica connected to Redis when it started
          toggles,   \* toggles committed
          audit,     \* what the latest audit row of a runbook says
          held,      \* ticks since a selection read the catalog
          overtaken, \* replicas whose section read what a toggle has changed since
          kept,      \* keys with an entry that a toggle failed to delete or that
                     \* an overtaken selection stored
          unclear,   \* runbooks whose latest toggle was cut short or met another
          late       \* the longest that a runbook which passed the gate had been
                     \* off, not counting held of the selection that decided

observed == <<held, overtaken, kept, unclear, late>>
vars == <<seeded, off, cache, pc, key, choice, loaded, todo, redis, toggles, audit,
          observed>>

Enabled(rb) == off[rb] = 0

Decisions == [runbook : Runbooks, enabled : BOOLEAN]

Entries == [runbook : Runbooks, enabled : BOOLEAN, age : 0 .. (TTL - 1), held : 0 .. MaxHeld]

\* off counts up to here; later is as late.
Overdue == TTL + MaxHeld

PCs == {"down", "seeding", "idle", "missed", "refused", "found", "toggling", "deleting"}

TypeOK ==
  /\ seeded \in BOOLEAN
  /\ off \in [Runbooks -> 0 .. Overdue]
  /\ cache \in [Patterns -> Entries \cup {NoEntry}]
  /\ pc \in [Replicas -> PCs]
  /\ key \in [Replicas -> Patterns]
  /\ choice \in [Replicas -> Decisions]
  /\ loaded \in [Replicas -> BOOLEAN]
  /\ todo \in [Replicas -> SUBSET Patterns]
  /\ redis \in [Replicas -> BOOLEAN]
  /\ toggles \in 0 .. MaxToggles
  /\ audit \in [Runbooks -> BOOLEAN]
  /\ held \in [Replicas -> 0 .. MaxHeld]
  /\ overtaken \subseteq Replicas
  /\ kept \subseteq Patterns
  /\ unclear \subseteq Runbooks
  /\ late \in 0 .. Overdue

Goto(p, from, to) == pc[p] = from /\ pc' = [pc EXCEPT ![p] = to]

Nothing == [runbook |-> Fallback, enabled |-> TRUE]
AnyKey == CHOOSE k \in Patterns : TRUE

\* A section ends, and its locals with it.
Ends(p, from, to) == /\ Goto(p, from, to)
                     /\ key' = [key EXCEPT ![p] = AnyKey]
                     /\ choice' = [choice EXCEPT ![p] = Nothing]
                     /\ loaded' = [loaded EXCEPT ![p] = FALSE]
                     /\ held' = [held EXCEPT ![p] = 0]
                     /\ overtaken' = overtaken \ {p}

-------------------------------------------------------------------------------
(* Start-up: DecisionEngine() and seed_knowledge_base().                   *)

\* The rows are looked for; the connection to Redis is tried once and for all.
Start(p) ==
  /\ Goto(p, "down", "seeding")
  /\ loaded' = [loaded EXCEPT ![p] = seeded]
  /\ \E up \in {TRUE} \cup (IF "redis" \in Faults THEN {FALSE} ELSE {}) :
       redis' = [redis EXCEPT ![p] = up]
  /\ UNCHANGED <<seeded, off, cache, key, choice, todo, toggles, audit, observed>>

\* Mutant: seeding puts the catalog back to its defaults.
SeedResets(p) ==
  /\ Ends(p, "seeding", "idle")
  /\ seeded' = TRUE
  /\ off' = [rb \in Runbooks |-> 0]
  /\ UNCHANGED <<cache, todo, redis, toggles, audit, kept, unclear, late>>

\* The rows found missing are inserted in one COMMIT; rows that exist are left
\* as they are.  When another replica was faster, the unique keys make the
\* COMMIT fail and the process exits.
Seed(p) ==
  /\ Ends(p, "seeding", IF seeded /\ ~ loaded[p] THEN "down" ELSE "idle")
  /\ seeded' = TRUE
  /\ UNCHANGED <<off, cache, todo, redis, toggles, audit, kept, unclear, late>>

-------------------------------------------------------------------------------
(* select_runbook() and the gate of process_incident().                    *)

\* An enabled decision is executed, any other is answered 403.
Gate(d, h) ==
  late' = IF d.enabled /\ h < MaxHeld /\ off[d.runbook] > h + late
          THEN off[d.runbook] - h ELSE late

\* Mutant: a hit renews the entry.
HitRenews(p, k) ==
  /\ pc[p] = "idle" /\ redis[p] /\ cache[k] # NoEntry
  /\ Gate(cache[k], cache[k].held)
  /\ cache' = [cache EXCEPT ![k].age = 0]
  /\ UNCHANGED <<seeded, off, pc, key, choice, loaded, todo, redis, toggles, audit,
                 held, overtaken, kept, unclear>>

\* The cached decision is taken as it is, the catalog is not looked at.
Hit(p, k) ==
  /\ pc[p] = "idle" /\ redis[p] /\ cache[k] # NoEntry
  /\ Gate(cache[k], cache[k].held)
  /\ UNCHANGED <<seeded, off, cache, pc, key, choice, loaded, todo, redis, toggles,
                 audit, held, overtaken, kept, unclear>>

Miss(p, k) ==
  /\ redis[p] => cache[k] = NoEntry
  /\ Goto(p, "idle", "missed")
  /\ key' = [key EXCEPT ![p] = k]
  /\ UNCHANGED <<seeded, off, cache, choice, loaded, todo, redis, toggles, audit,
                 observed>>

\* The runbook of the pattern, or the fallback for a key without a pattern, is
\* looked up among the enabled ones.
Lookup(p) ==
  LET selected == IF Default[key[p]] = NoRunbook THEN Fallback ELSE Default[key[p]]
  IN  /\ Goto(p, "missed", IF Enabled(selected) THEN "found" ELSE "refused")
      /\ choice' = [choice EXCEPT ![p] = [runbook |-> selected, enabled |-> TRUE]]
      /\ UNCHANGED <<seeded, off, cache, key, loaded, todo, redis, toggles, audit,
                     observed>>

\* Otherwise the fallback is taken whatever its state, which the gate will see.
LookupFallback(p) ==
  /\ Goto(p, "refused", "found")
  /\ choice' = [choice EXCEPT ![p] = [runbook |-> Fallback, enabled |-> Enabled(Fallback)]]
  /\ held' = [held EXCEPT ![p] = 0]
  /\ UNCHANGED <<seeded, off, cache, key, loaded, todo, redis, toggles, audit,
                 overtaken, kept, unclear, late>>

NewEntry(d, h) == [runbook |-> d.runbook, enabled |-> d.enabled, age |-> 0, held |-> h]

\* setex, then the gate.
Store(p) ==
  /\ Ends(p, "found", "idle")
  /\ cache' = IF redis[p] THEN [cache EXCEPT ![key[p]] = NewEntry(choice[p], held[p])]
              ELSE cache
  /\ kept' = IF ~ redis[p] THEN kept
             ELSE IF p \in overtaken THEN kept \cup {key[p]} ELSE kept \ {key[p]}
  /\ Gate(choice[p], held[p])
  /\ UNCHANGED <<seeded, off, todo, redis, toggles, audit, unclear>>

\* Redis raises: the request is answered 500 and nothing is executed.
StoreFails(p) ==
  /\ "redis" \in Faults /\ redis[p]
  /\ Ends(p, "found", "idle")
  /\ UNCHANGED <<seeded, off, cache, todo, redis, toggles, audit, kept, unclear,
                 late>>

-------------------------------------------------------------------------------
(* PATCH /runbook/catalog/{name}: set_runbook_enabled() and the audit row. *)

ToggleLoad(p, rb, on) ==
  /\ toggles < MaxToggles
  /\ Goto(p, "idle", "toggling")
  /\ choice' = [choice EXCEPT ![p] = [runbook |-> rb, enabled |-> on]]
  /\ loaded' = [loaded EXCEPT ![p] = Enabled(rb)]
  /\ UNCHANGED <<seeded, off, cache, key, todo, redis, toggles, audit, observed>>

\* The column after an UPDATE to the value asked for, which is made when it
\* differs from the value loaded.
Switched(d, old) ==
  IF d.enabled = old \/ d.enabled = Enabled(d.runbook) THEN off
  ELSE [off EXCEPT ![d.runbook] = IF d.enabled THEN 0 ELSE 1]

\* The patterns whose decision the toggle of rb invalidates.
Affected(rb) == {k \in Patterns : Default[k] = rb}

\* The replicas between the COMMIT of a toggle of rb and its audit row.
Toggling(rb) == {p \in Replicas : pc[p] = "deleting" /\ choice[p].runbook = rb}

\* The sections that have read what a change of rb makes stale.
Readers(rb) == {p \in Replicas : \/ pc[p] \in {"refused", "found"}
                                 \/ pc[p] = "toggling" /\ choice[p].runbook = rb}

WithEntry(keys) == {k \in keys : cache[k] # NoEntry}

\* The toggle of p changes the catalog.  It is unclear what its row will be worth
\* when another toggle of rb was committed since p read it, or has its row to come.
Commits(p, rb) ==
  /\ Goto(p, "toggling", "deleting")
  /\ toggles < MaxToggles
  /\ toggles' = toggles + 1
  /\ off' = Switched(choice[p], loaded[p])
  /\ overtaken' = (IF off' = off THEN overtaken ELSE overtaken \cup Readers(rb)) \ {p}
  /\ unclear' = IF p \in overtaken \/ Toggling(rb) # {} THEN unclear \cup {rb}
                ELSE unclear \ {rb}
  /\ UNCHANGED <<seeded, cache, key, choice, loaded, redis, audit, held, late>>

\* Mutant: the keys of the runbook's patterns stay in Redis.
ToggleKeepsCache(p) ==
  /\ Commits(p, choice[p].runbook)
  /\ UNCHANGED <<todo, kept>>

\* After the COMMIT the affected keys are due for deletion, if Redis was there
\* when the replica started.
ToggleCommit(p) ==
  LET rb == choice[p].runbook
  IN  /\ Commits(p, rb)
      /\ todo' = [todo EXCEPT ![p] = IF redis[p] THEN Affected(rb) ELSE {}]
      /\ kept' = IF redis[p] THEN kept ELSE kept \cup WithEntry(Affected(rb))

ToggleDelete(p) ==
  /\ pc[p] = "deleting"
  /\ \E k \in todo[p] : /\ cache' = [cache EXCEPT ![k] = NoEntry]
                        /\ todo' = [todo EXCEPT ![p] = @ \ {k}]
                        /\ kept' = kept \ {k}
  /\ UNCHANGED <<seeded, off, pc, key, choice, loaded, redis, toggles, audit, held,
                 overtaken, unclear, late>>

\* What the toggle of p has not deleted stays.
Abandons(p) ==
  /\ todo' = [todo EXCEPT ![p] = {}]
  /\ kept' = kept \cup WithEntry(todo[p])
  /\ unclear' = IF pc[p] = "deleting" THEN unclear \cup {choice[p].runbook} ELSE unclear
  /\ UNCHANGED <<seeded, off, cache, toggles, audit, late>>

\* Redis raises: answered 500, the toggle stays, its audit row is never written.
DeleteFails(p) ==
  /\ "redis" \in Faults /\ todo[p] # {}
  /\ Ends(p, "deleting", "idle")
  /\ Abandons(p)
  /\ UNCHANGED redis

Audited(p, enabled) ==
  /\ todo[p] = {}
  /\ Ends(p, "deleting", "idle")
  /\ audit' = [audit EXCEPT ![choice[p].runbook] = enabled]
  /\ UNCHANGED <<seeded, off, cache, todo, redis, toggles, kept, unclear, late>>

\* Mutant: the audit row tells the state before the toggle.
AuditOld(p) == Audited(p, loaded[p])

\* A second COMMIT, of the row that tells what was asked for.
Audit(p) == Audited(p, choice[p].enabled)

-------------------------------------------------------------------------------
Crash(p) ==
  /\ "crash" \in Faults
  /\ pc[p] # "down" /\ Ends(p, pc[p], "down")
  /\ redis' = [redis EXCEPT ![p] = FALSE]
  /\ Abandons(p)

\* Time passes: entries expire TTL ticks after they were set.
Tick ==
  /\ cache' = [k \in Patterns |->
                 IF cache[k] = NoEntry \/ cache[k].age = TTL - 1 THEN NoEntry
                 ELSE [cache[k] EXCEPT !.age = @ + 1]]
  /\ off' = [rb \in Runbooks |-> IF Enabled(rb) \/ off[rb] = Overdue THEN off[rb]
                                 ELSE off[rb] + 1]
  /\ held' = [p \in Replicas |->
                IF pc[p] \in {"refused", "found"} /\ held[p] < MaxHeld
                THEN held[p] + 1 ELSE held[p]]
  /\ kept' = {k \in kept : cache'[k] # NoEntry}
  /\ UNCHANGED <<seeded, pc, key, choice, loaded, todo, redis, toggles, audit,
                 overtaken, unclear, late>>

Init ==
  /\ seeded = FALSE
  /\ off = [rb \in Runbooks |-> 0]
  /\ cache = [k \in Patterns |-> NoEntry]
  /\ pc = [p \in Replicas |-> "down"]
  /\ key = [p \in Replicas |-> AnyKey]
  /\ choice = [p \in Replicas |-> Nothing]
  /\ loaded = [p \in Replicas |-> FALSE]
  /\ todo = [p \in Replicas |-> {}]
  /\ redis = [p \in Replicas |-> FALSE]
  /\ toggles = 0
  /\ audit = [rb \in Runbooks |-> TRUE]
  /\ held = [p \in Replicas |-> 0]
  /\ overtaken = {} /\ kept = {} /\ unclear = {}
  /\ late = 0

Next == \/ \E p \in Replicas :
             \/ Start(p) \/ Seed(p) \/ Crash(p)
             \/ \E k \in Patterns : Hit(p, k) \/ Miss(p, k)
             \/ Lookup(p) \/ LookupFallback(p) \/ Store(p) \/ StoreFails(p)
             \/ \E rb \in Runbooks, on \in BOOLEAN : ToggleLoad(p, rb, on)
             \/ ToggleCommit(p) \/ ToggleDelete(p) \/ DeleteFails(p) \/ Audit(p)
        \/ Tick

Spec == Init /\ [][Next]_vars

\* Only time is sure to pass.
FairSpec == Spec /\ WF_vars(Tick)

-------------------------------------------------------------------------------
\* The pattern has a runbook of its own.
HasOwn(k) == Default[k] # NoRunbook /\ Default[k] # Fallback

\* Between toggles a cached decision for a pattern's own runbook tells the state
\* of the runbook (it is the runbook when it is enabled, the fallback when not),
\* unless a crash or Redis kept a toggle from deleting this entry, or another
\* replica stored it with what it had read before the toggle.
DefaultEntriesFresh ==
  \A k \in Patterns \ (kept \cup UNION {todo[p] : p \in Replicas}) :
    cache[k] # NoEntry /\ HasOwn(k)
      => (cache[k].runbook = Default[k] <=> Enabled(Default[k]))

\* No selection lets a runbook pass the gate that has been off for more than TTL,
\* not counting the time some replica took from its look at the catalog to its
\* setex: not even when invalidations are lost or come too early.
StaleAtMostTTL == late <= TTL

\* Every entry that decides for a disabled runbook goes away: hits do not
\* keep it alive.
Stale(k) == cache[k] # NoEntry /\ cache[k].enabled /\ ~ Enabled(cache[k].runbook)

StaleEntriesExpire == \A k \in Patterns : Stale(k) ~> ~ Stale(k)

\* Restarts and seeding, of several replicas at once too, never undo the admin's
\* toggles: the catalog changes by toggles only.
SeedingKeepsCatalog ==
  [][\A rb \in Runbooks : Enabled(rb)' # Enabled(rb) => toggles' = toggles + 1]_vars

\* When the latest toggle of a runbook met no other of it and was not cut short,
\* the latest audit row tells the state of the runbook, whatever befell toggles
\* before it and those of other runbooks.
AuditTellsCatalog ==
  \A rb \in Runbooks \ unclear : Toggling(rb) = {} => audit[rb] = Enabled(rb)
===============================================================================
