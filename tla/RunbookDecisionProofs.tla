------------------------- MODULE RunbookDecisionProofs -------------------------
(***************************************************************************)
(* What the decision engine promises holds for any number of replicas, any *)
(* patterns, runbooks and TTL.                                             *)
(***************************************************************************)
EXTENDS RunbookDecision, TLAPS

USE DecisionAssumption

LEMMA Entry ==
  ASSUME NEW e \in Entries
  PROVE  /\ e.runbook \in Runbooks /\ e.enabled \in BOOLEAN /\ e.age \in 0 .. (TTL - 1)
         /\ e.held \in 0 .. MaxHeld /\ e # NoEntry
<1>1. /\ e.runbook \in Runbooks /\ e.enabled \in BOOLEAN /\ e.age \in 0 .. (TTL - 1)
      /\ e.held \in 0 .. MaxHeld
  BY Zenon DEF Entries
<1>2. NoEntry.runbook = NoRunbook
  BY Zenon DEF NoEntry
<1> QED
  BY <1>1, <1>2

LEMMA NewEntryIs ==
  ASSUME NEW d \in Decisions, NEW h \in 0 .. MaxHeld
  PROVE  /\ NewEntry(d, h) \in Entries
         /\ NewEntry(d, h).runbook = d.runbook /\ NewEntry(d, h).enabled = d.enabled
         /\ NewEntry(d, h).age = 0 /\ NewEntry(d, h).held = h
<1>1. 0 \in 0 .. (TTL - 1)
  OBVIOUS
<1>2. d.runbook \in Runbooks /\ d.enabled \in BOOLEAN
  BY Zenon DEF Decisions
<1> QED
  BY <1>1, <1>2, Zenon DEF Entries, NewEntry

LEMMA OlderEntry ==
  ASSUME NEW e \in Entries, e.age # TTL - 1
  PROVE  LET f == [e EXCEPT !.age = @ + 1]
         IN  /\ f \in Entries /\ f.runbook = e.runbook /\ f.enabled = e.enabled
             /\ f.age = e.age + 1 /\ f.held = e.held
<1>1. e.age \in 0 .. (TTL - 1)
  BY Entry
<1>2. e.age + 1 \in 0 .. (TTL - 1)
  BY <1>1
<1> QED
  BY <1>2, Zenon DEF Entries

LEMMA Decision ==
  ASSUME NEW rb \in Runbooks, NEW b \in BOOLEAN
  PROVE  LET d == [runbook |-> rb, enabled |-> b]
         IN  d \in Decisions /\ d.runbook = rb /\ d.enabled = b
BY Zenon DEF Decisions

LEMMA DecisionFields ==
  ASSUME NEW d \in Decisions
  PROVE  d.runbook \in Runbooks /\ d.enabled \in BOOLEAN
BY Zenon DEF Decisions

LEMMA Defaults == Nothing \in Decisions /\ AnyKey \in Patterns
<1>1. Nothing \in Decisions
  BY Decision DEF Nothing
<1> QED
  BY <1>1 DEF AnyKey

-------------------------------------------------------------------------------
(* What time does.                                                         *)

LEMMA TickEntry ==
  ASSUME TypeOK, Tick, NEW k \in Patterns
  PROVE  \/ cache'[k] = NoEntry
         \/ /\ cache[k] \in Entries /\ cache'[k] \in Entries
            /\ cache'[k].runbook = cache[k].runbook
            /\ cache'[k].enabled = cache[k].enabled
            /\ cache'[k].age = cache[k].age + 1
            /\ cache'[k].held = cache[k].held
<1>1. cache'[k] = IF cache[k] = NoEntry \/ cache[k].age = TTL - 1 THEN NoEntry
                  ELSE [cache[k] EXCEPT !.age = @ + 1]
  BY Zenon DEF Tick
<1>2. cache[k] \in Entries \/ cache[k] = NoEntry
  BY DEF TypeOK
<1>3. CASE cache[k] = NoEntry \/ cache[k].age = TTL - 1
  BY <1>1, <1>3
<1>4. CASE cache[k] \in Entries /\ cache[k].age # TTL - 1 /\ cache[k] # NoEntry
  <2>1. cache'[k] = [cache[k] EXCEPT !.age = @ + 1]
    BY <1>1, <1>4
  <2> QED
    BY <1>4, <2>1, OlderEntry
<1> QED
  BY <1>2, <1>3, <1>4

LEMMA TickCatalog ==
  ASSUME TypeOK, Tick, NEW rb \in Runbooks
  PROVE  /\ off[rb] \in 0 .. Overdue /\ off'[rb] \in 0 .. Overdue
         /\ Enabled(rb)' = Enabled(rb)
         /\ off'[rb] <= off[rb] + 1
<1>1. off'[rb] = IF off[rb] = 0 \/ off[rb] = Overdue THEN off[rb] ELSE off[rb] + 1
  BY DEF Tick, Enabled
<1>2. off[rb] \in 0 .. Overdue /\ Overdue \in Nat /\ Overdue # 0
  BY DEF TypeOK, Overdue
<1> QED
  BY <1>1, <1>2 DEF Enabled

LEMMA TickHeld ==
  ASSUME TypeOK, Tick, NEW p \in Replicas
  PROVE  /\ held[p] \in 0 .. MaxHeld /\ held'[p] \in 0 .. MaxHeld
         /\ pc[p] = "found" /\ held'[p] < MaxHeld => held'[p] = held[p] + 1
BY DEF Tick, TypeOK

-------------------------------------------------------------------------------
(* Types.                                                                  *)

LEMMA SwitchedType ==
  ASSUME TypeOK, NEW d \in Decisions, NEW old \in BOOLEAN
  PROVE  Switched(d, old) \in [Runbooks -> 0 .. Overdue]
<1>1. 0 \in 0 .. Overdue /\ 1 \in 0 .. Overdue
  BY DEF Overdue
<1>2. d.runbook \in Runbooks
  BY DecisionFields
<1> QED
  BY <1>1, <1>2 DEF Switched, TypeOK

LEMMA TypeInit == Init => TypeOK
<1> SUFFICES ASSUME Init  PROVE TypeOK
  OBVIOUS
<1>1. choice \in [Replicas -> Decisions] /\ key \in [Replicas -> Patterns]
  BY Defaults DEF Init
<1>2. 0 \in 0 .. Overdue
  BY DEF Overdue
<1>3. /\ seeded \in BOOLEAN /\ off \in [Runbooks -> 0 .. Overdue]
      /\ cache \in [Patterns -> Entries \cup {NoEntry}]
      /\ pc \in [Replicas -> PCs]
  BY <1>2 DEF Init, PCs
<1>4. /\ loaded \in [Replicas -> BOOLEAN] /\ todo \in [Replicas -> SUBSET Patterns]
      /\ redis \in [Replicas -> BOOLEAN] /\ toggles \in 0 .. MaxToggles
      /\ audit \in [Runbooks -> BOOLEAN]
  BY DEF Init
<1>5. /\ held \in [Replicas -> 0 .. MaxHeld] /\ overtaken \subseteq Replicas
      /\ kept \subseteq Patterns /\ unclear \subseteq Runbooks /\ late \in 0 .. Overdue
  BY <1>2 DEF Init
<1> QED
  BY <1>1, <1>3, <1>4, <1>5 DEF TypeOK

LEMMA EndsType ==
  ASSUME TypeOK, NEW p \in Replicas, NEW from, NEW to \in PCs, Ends(p, from, to)
  PROVE  /\ pc' \in [Replicas -> PCs] /\ key' \in [Replicas -> Patterns]
         /\ choice' \in [Replicas -> Decisions] /\ loaded' \in [Replicas -> BOOLEAN]
         /\ held' \in [Replicas -> 0 .. MaxHeld] /\ overtaken' \subseteq Replicas
BY Defaults DEF Ends, Goto, TypeOK

LEMMA AbandonsType ==
  ASSUME TypeOK, NEW p \in Replicas, Abandons(p)
  PROVE  /\ todo' \in [Replicas -> SUBSET Patterns] /\ kept' \subseteq Patterns
         /\ unclear' \subseteq Runbooks
<1>1. choice[p].runbook \in Runbooks
  BY DecisionFields DEF TypeOK
<1> QED
  BY <1>1 DEF Abandons, WithEntry, TypeOK

LEMMA GateType ==
  ASSUME TypeOK, NEW d, d.runbook \in Runbooks, NEW h \in 0 .. MaxHeld, Gate(d, h)
  PROVE  late' \in 0 .. Overdue
<1>1. off[d.runbook] \in 0 .. Overdue /\ Overdue \in Nat /\ late \in 0 .. Overdue
  BY DEF TypeOK, Overdue
<1> QED
  BY <1>1 DEF Gate

LEMMA CommitType ==
  ASSUME TypeOK, NEW p \in Replicas, ToggleCommit(p)
  PROVE  TypeOK'
<1>1. choice[p] \in Decisions /\ choice[p].runbook \in Runbooks /\ loaded[p] \in BOOLEAN
  BY DecisionFields DEF TypeOK
<1>2. off' \in [Runbooks -> 0 .. Overdue]
  BY <1>1, SwitchedType DEF ToggleCommit, Commits
<1>3. Affected(choice[p].runbook) \subseteq Patterns
  BY DEF Affected
<1>4. todo' \in [Replicas -> SUBSET Patterns] /\ kept' \subseteq Patterns
  BY <1>3 DEF ToggleCommit, WithEntry, TypeOK
<1>5. overtaken' \subseteq Replicas /\ unclear' \subseteq Runbooks
  BY <1>1 DEF ToggleCommit, Commits, Readers, TypeOK
<1>6. pc' \in [Replicas -> PCs] /\ toggles' \in 0 .. MaxToggles
  BY DEF ToggleCommit, Commits, Goto, TypeOK, PCs
<1> QED
  BY <1>2, <1>4, <1>5, <1>6 DEF ToggleCommit, Commits, TypeOK

LEMMA StoreType ==
  ASSUME TypeOK, NEW p \in Replicas, Store(p)
  PROVE  TypeOK'
<1>1. /\ choice[p] \in Decisions /\ choice[p].runbook \in Runbooks /\ key[p] \in Patterns
      /\ held[p] \in 0 .. MaxHeld
  BY DecisionFields DEF TypeOK
<1>2. NewEntry(choice[p], held[p]) \in Entries
  BY <1>1, NewEntryIs
<1>3. cache' \in [Patterns -> Entries \cup {NoEntry}]
  BY <1>2 DEF Store, TypeOK
<1>4. late' \in 0 .. Overdue
  BY <1>1, GateType DEF Store
<1>5. kept' \subseteq Patterns
  BY <1>1 DEF Store, TypeOK
<1>6. "idle" \in PCs
  BY DEF PCs
<1>7. Ends(p, "found", "idle")
  BY DEF Store
<1> QED
  BY <1>3, <1>4, <1>5, <1>6, <1>7, EndsType DEF Store, TypeOK

LEMMA TypeStep == TypeOK /\ [Next]_vars => TypeOK'
<1> SUFFICES ASSUME TypeOK, [Next]_vars  PROVE TypeOK'
  OBVIOUS
<1> "down" \in PCs /\ "idle" \in PCs
  BY DEF PCs
<1>1. ASSUME NEW p \in Replicas, Start(p)  PROVE TypeOK'
  BY <1>1 DEF Start, Goto, TypeOK, PCs, observed
<1>2. ASSUME NEW p \in Replicas, Seed(p)  PROVE TypeOK'
  <2>1. PICK to \in PCs : Ends(p, "seeding", to)
    BY <1>2 DEF Seed
  <2> QED
    BY <1>2, <2>1, EndsType DEF Seed, TypeOK
<1>3. ASSUME NEW p \in Replicas, NEW k \in Patterns, Hit(p, k)  PROVE TypeOK'
  <2>1. cache[k] \in Entries
    BY <1>3 DEF Hit, TypeOK
  <2>2. late' \in 0 .. Overdue
    BY <1>3, <2>1, Entry, GateType DEF Hit
  <2> QED
    BY <1>3, <2>2 DEF Hit, TypeOK
<1>4. ASSUME NEW p \in Replicas, NEW k \in Patterns, Miss(p, k)  PROVE TypeOK'
  BY <1>4 DEF Miss, Goto, TypeOK, PCs, observed
<1>5. ASSUME NEW p \in Replicas, Lookup(p) \/ LookupFallback(p)  PROVE TypeOK'
  <2>1. PICK rb \in Runbooks, b \in BOOLEAN : choice' = [choice EXCEPT ![p] = [runbook |-> rb, enabled |-> b]]
    BY <1>5 DEF Lookup, LookupFallback, Enabled, TypeOK
  <2>2. choice' \in [Replicas -> Decisions]
    <3>1. [runbook |-> rb, enabled |-> b] \in Decisions
      BY Decision
    <3> QED
      BY <2>1, <3>1 DEF TypeOK
  <2>3. held' \in [Replicas -> 0 .. MaxHeld] /\ pc' \in [Replicas -> PCs]
    BY <1>5 DEF Lookup, LookupFallback, Goto, TypeOK, PCs, observed
  <2> QED
    BY <1>5, <2>2, <2>3 DEF Lookup, LookupFallback, TypeOK, observed
<1>6. ASSUME NEW p \in Replicas, Store(p)  PROVE TypeOK'
  BY <1>6, StoreType
<1>7. ASSUME NEW p \in Replicas, StoreFails(p)  PROVE TypeOK'
  BY <1>7, EndsType DEF StoreFails, TypeOK
<1>8. ASSUME NEW p \in Replicas, ToggleDelete(p)  PROVE TypeOK'
  <2>1. PICK k \in todo[p] : /\ cache' = [cache EXCEPT ![k] = NoEntry]
                             /\ todo' = [todo EXCEPT ![p] = @ \ {k}]
                             /\ kept' = kept \ {k}
    BY <1>8 DEF ToggleDelete
  <2>2. cache' \in [Patterns -> Entries \cup {NoEntry}]
    BY <2>1 DEF TypeOK
  <2>3. todo' \in [Replicas -> SUBSET Patterns] /\ kept' \subseteq Patterns
    BY <2>1 DEF TypeOK
  <2> QED
    BY <1>8, <2>2, <2>3 DEF ToggleDelete, TypeOK
<1>9. ASSUME NEW p \in Replicas, NEW rb \in Runbooks, NEW on \in BOOLEAN, ToggleLoad(p, rb, on)
      PROVE  TypeOK'
  <2>1. choice' \in [Replicas -> Decisions]
    BY <1>9, Decision DEF ToggleLoad, TypeOK
  <2>2. loaded' \in [Replicas -> BOOLEAN] /\ pc' \in [Replicas -> PCs]
    BY <1>9 DEF ToggleLoad, Enabled, Goto, TypeOK, PCs
  <2> QED
    BY <1>9, <2>1, <2>2 DEF ToggleLoad, TypeOK, observed
<1>10. ASSUME NEW p \in Replicas, ToggleCommit(p)  PROVE TypeOK'
  BY <1>10, CommitType
<1>11. ASSUME NEW p \in Replicas, Audit(p)  PROVE TypeOK'
  <2>1. audit' \in [Runbooks -> BOOLEAN]
    BY <1>11, DecisionFields DEF Audit, Audited, TypeOK
  <2>2. Ends(p, "deleting", "idle")
    BY <1>11 DEF Audit, Audited
  <2> QED
    BY <1>11, <2>1, <2>2, EndsType DEF Audit, Audited, TypeOK
<1>12. ASSUME NEW p \in Replicas, DeleteFails(p) \/ Crash(p)  PROVE TypeOK'
  <2>1. Abandons(p) /\ redis' \in [Replicas -> BOOLEAN]
    BY <1>12 DEF DeleteFails, Crash, TypeOK
  <2>2. PICK to \in PCs : Ends(p, pc[p], to)
    BY <1>12 DEF DeleteFails, Crash, Ends, Goto
  <2> QED
    BY <2>1, <2>2, EndsType, AbandonsType DEF Abandons, TypeOK
<1>13. CASE Tick
  <2>1. cache' \in [Patterns -> Entries \cup {NoEntry}]
    BY <1>13, TickEntry DEF Tick
  <2>2. off' \in [Runbooks -> 0 .. Overdue]
    BY <1>13, TickCatalog DEF Tick
  <2>3. held' \in [Replicas -> 0 .. MaxHeld] /\ kept' \subseteq Patterns
    BY <1>13 DEF Tick, TypeOK
  <2> QED
    BY <1>13, <2>1, <2>2, <2>3 DEF Tick, TypeOK
<1>14. CASE UNCHANGED vars
  BY <1>14 DEF vars, observed, TypeOK
<1> QED
  BY <1>1, <1>2, <1>3, <1>4, <1>5, <1>6, <1>7, <1>8, <1>9, <1>10, <1>11, <1>12, <1>13,
     <1>14 DEF Next

\* The catalog, the cache and the replicas keep their types.
THEOREM DecisionTypeCorrect == Spec => []TypeOK
BY TypeInit, TypeStep, PTL DEF Spec

-------------------------------------------------------------------------------
(* What changes what.                                                      *)

\* A section that ends, in a step that is no toggle's COMMIT.
Leaves(p) == Seed(p) \/ StoreFails(p) \/ DeleteFails(p) \/ Crash(p) \/ Audit(p) \/ Store(p)

Others(p) == \/ Start(p) \/ Lookup(p) \/ LookupFallback(p) \/ ToggleDelete(p)
             \/ \E k \in Patterns : Hit(p, k) \/ Miss(p, k)
             \/ \E rb \in Runbooks, on \in BOOLEAN : ToggleLoad(p, rb, on)

LEMMA NextSteps ==
  ASSUME [Next]_vars
  PROVE  \/ \E p \in Replicas : Leaves(p) \/ Others(p) \/ ToggleCommit(p)
         \/ Tick \/ UNCHANGED vars
BY DEF Next, Leaves, Others

\* The catalog is changed by toggles and by time.
LEMMA CatalogKept ==
  ASSUME NEW p \in Replicas, Leaves(p) \/ Others(p)
  PROVE  off' = off
BY DEF Leaves, Others, Start, Seed, Crash, Hit, Miss, Lookup, LookupFallback, Store,
       StoreFails, ToggleLoad, ToggleDelete, DeleteFails, Abandons, Audit, Audited

\* The locals of the other replicas stay.
LEMMA OthersAlone ==
  ASSUME TypeOK, NEW p \in Replicas, Leaves(p) \/ Others(p) \/ ToggleCommit(p),
         NEW q \in Replicas, q # p
  PROVE  /\ pc'[q] = pc[q] /\ key'[q] = key[q] /\ choice'[q] = choice[q]
         /\ loaded'[q] = loaded[q] /\ held'[q] = held[q] /\ todo'[q] = todo[q]
         /\ q \in overtaken => q \in overtaken'
<1> USE DEF TypeOK, Goto
<1>1. CASE Seed(p) \/ StoreFails(p) \/ Audit(p) \/ Store(p)
  BY <1>1 DEF Seed, StoreFails, Audit, Audited, Store, Ends
<1>2. CASE DeleteFails(p) \/ Crash(p)
  BY <1>2 DEF DeleteFails, Crash, Abandons, Ends
<1>3. CASE Start(p) \/ Lookup(p) \/ LookupFallback(p)
  BY <1>3 DEF Start, Lookup, LookupFallback, observed
<1>4. CASE ToggleDelete(p)
  BY <1>4 DEF ToggleDelete
<1>5. ASSUME NEW k \in Patterns, Hit(p, k) \/ Miss(p, k)
      PROVE  /\ pc'[q] = pc[q] /\ key'[q] = key[q] /\ choice'[q] = choice[q]
             /\ loaded'[q] = loaded[q] /\ held'[q] = held[q] /\ todo'[q] = todo[q]
             /\ overtaken' = overtaken
  BY <1>5 DEF Hit, Miss, observed
<1>6. ASSUME NEW rb \in Runbooks, NEW on \in BOOLEAN, ToggleLoad(p, rb, on)
      PROVE  /\ pc'[q] = pc[q] /\ key'[q] = key[q] /\ choice'[q] = choice[q]
             /\ loaded'[q] = loaded[q] /\ held'[q] = held[q] /\ todo'[q] = todo[q]
             /\ overtaken' = overtaken
  BY <1>6 DEF ToggleLoad, observed
<1>7. CASE ToggleCommit(p)
  BY <1>7 DEF ToggleCommit, Commits
<1> QED
  BY <1>1, <1>2, <1>3, <1>4, <1>5, <1>6, <1>7 DEF Leaves, Others

\* After it a section is over.
LEMMA LeavesSection ==
  ASSUME TypeOK, NEW p \in Replicas, Leaves(p)
  PROVE  pc'[p] \in {"down", "idle"} /\ p \notin overtaken'
<1>1. PICK to \in {"down", "idle"} : Ends(p, pc[p], to)
  BY DEF Leaves, Seed, StoreFails, Audit, Audited, Store, DeleteFails, Crash, Ends, Goto
<1> QED
  BY <1>1 DEF Ends, Goto, TypeOK

LEMMA SwitchedEnabled ==
  ASSUME TypeOK, NEW d \in Decisions, NEW old \in BOOLEAN, off' = Switched(d, old)
  PROVE  /\ \A rb \in Runbooks \ {d.runbook} : off'[rb] = off[rb] /\ Enabled(rb)' = Enabled(rb)
         /\ \A rb \in Runbooks : off'[rb] \in {off[rb], 0, 1}
         /\ old = Enabled(d.runbook) => Enabled(d.runbook)' = d.enabled
<1>1. d.runbook \in Runbooks /\ d.enabled \in BOOLEAN
  BY DecisionFields
<1>2. CASE d.enabled = old \/ d.enabled = Enabled(d.runbook)
  <2>1. off' = off
    BY <1>2 DEF Switched
  <2>2. \A rb \in Runbooks : Enabled(rb)' = Enabled(rb)
    BY <2>1 DEF Enabled
  <2> QED
    BY <1>1, <1>2, <2>1, <2>2
<1>3. CASE ~ (d.enabled = old \/ d.enabled = Enabled(d.runbook))
  <2>1. off' = [off EXCEPT ![d.runbook] = IF d.enabled THEN 0 ELSE 1]
    BY <1>3 DEF Switched
  <2>2. \A rb \in Runbooks : off'[rb] = IF rb = d.runbook THEN (IF d.enabled THEN 0 ELSE 1) ELSE off[rb]
    BY <1>1, <2>1 DEF TypeOK
  <2>3. \A rb \in Runbooks \ {d.runbook} : off'[rb] = off[rb] /\ Enabled(rb)' = Enabled(rb)
    BY <2>2 DEF Enabled
  <2>4. Enabled(d.runbook)' = d.enabled
    <3>1. CASE d.enabled
      BY <1>1, <2>2, <3>1 DEF Enabled
    <3>2. CASE ~ d.enabled
      BY <1>1, <2>2, <3>2 DEF Enabled
    <3> QED
      BY <3>1, <3>2
  <2> QED
    BY <2>2, <2>3, <2>4
<1> QED
  BY <1>2, <1>3

\* Whatever restarts, seeds or crashes, and however many replicas there are, the
\* catalog changes by toggles only.
THEOREM CatalogIsKept == Spec => SeedingKeepsCatalog
<1>1. ASSUME TypeOK, [Next]_vars
      PROVE  [\A rb \in Runbooks : Enabled(rb)' # Enabled(rb) => toggles' = toggles + 1]_vars
  <2>1. CASE off' = off
    BY <2>1 DEF Enabled
  <2>2. CASE Tick
    <3>1. \A rb \in Runbooks : Enabled(rb)' = Enabled(rb)
      BY <1>1, <2>2, TickCatalog
    <3> QED
      BY <3>1, Zenon
  <2>3. CASE \E p \in Replicas : ToggleCommit(p)
    BY <2>3 DEF ToggleCommit, Commits
  <2>4. CASE UNCHANGED vars
    BY <2>4
  <2> QED
    BY <1>1, <2>1, <2>2, <2>3, <2>4, NextSteps, CatalogKept
<1> QED
  BY <1>1, DecisionTypeCorrect, PTL DEF Spec, SeedingKeepsCatalog
-------------------------------------------------------------------------------
(* FreshInv: an entry fits the catalog unless some toggle is about to      *)
(* delete it or it is in kept, and so does what a section that no toggle   *)
(* has overtaken is about to store.                                        *)

Fits(rb, k) == HasOwn(k) => (rb = Default[k] <=> Enabled(Default[k]))

EntryFits(k) == \/ cache[k] = NoEntry \/ k \in kept \/ \E p \in Replicas : k \in todo[p]
                \/ Fits(cache[k].runbook, k)

SectionFits(p) ==
  /\ pc[p] = "found" => Fits(choice[p].runbook, key[p])
  /\ pc[p] = "refused" /\ HasOwn(key[p]) => ~ Enabled(Default[key[p]])

FreshInv ==
  /\ \A k \in Patterns : EntryFits(k)
  /\ \A p \in Replicas \ overtaken : SectionFits(p)
  /\ \A p \in Replicas : pc[p] # "deleting" => todo[p] = {}

LEMMA FreshSection ==
  ASSUME TypeOK, FreshInv, NEW p \in Replicas, Leaves(p) \/ Others(p),
         NEW q \in Replicas, q \notin overtaken'
  PROVE  SectionFits(q)'
<1>0. off' = off
  BY CatalogKept
<1>1. CASE q # p
  <2>1. /\ pc'[q] = pc[q] /\ key'[q] = key[q] /\ choice'[q] = choice[q]
        /\ q \notin overtaken
    BY <1>1, OthersAlone
  <2>2. SectionFits(q)
    BY <2>1 DEF FreshInv
  <2> QED
    BY <1>0, <2>1, <2>2 DEF SectionFits, Fits, Enabled
<1>2. CASE q = p /\ Leaves(p)
  BY <1>2, LeavesSection DEF SectionFits
<1>3. CASE q = p /\ Others(p)
  <2>1. CASE Lookup(p)
    <3>1. PICK rb \in Runbooks :
            /\ rb = IF Default[key[p]] = NoRunbook THEN Fallback ELSE Default[key[p]]
            /\ pc'[p] = IF Enabled(rb) THEN "found" ELSE "refused"
            /\ choice' = [choice EXCEPT ![p] = [runbook |-> rb, enabled |-> TRUE]]
      BY <2>1 DEF Lookup, Goto, TypeOK
    <3>2. choice'[p].runbook = rb /\ key' = key
      BY <2>1, <3>1 DEF Lookup, TypeOK
    <3> QED
      BY <1>0, <1>3, <3>1, <3>2 DEF SectionFits, Fits, HasOwn, Enabled
  <2>2. CASE LookupFallback(p)
    <3>1. choice' = [choice EXCEPT ![p] = [runbook |-> Fallback, enabled |-> Enabled(Fallback)]]
      BY <2>2 DEF LookupFallback
    <3>2. choice'[p].runbook = Fallback
      BY <3>1 DEF TypeOK
    <3>3. key' = key /\ pc[p] = "refused" /\ pc'[p] = "found" /\ p \notin overtaken
      BY <1>3, <2>2 DEF LookupFallback, Goto, TypeOK
    <3>4. SectionFits(p)
      BY <3>3 DEF FreshInv
    <3> QED
      BY <1>0, <1>3, <3>2, <3>3, <3>4 DEF SectionFits, Fits, HasOwn, Enabled
  <2>3. CASE Start(p) \/ (\E rb \in Runbooks, on \in BOOLEAN : ToggleLoad(p, rb, on))
    <3>1. pc'[p] \in {"seeding", "toggling"}
      BY <2>3 DEF Start, ToggleLoad, Goto, TypeOK
    <3> QED
      BY <1>3, <3>1 DEF SectionFits
  <2>4. ASSUME NEW k \in Patterns, Hit(p, k) \/ Miss(p, k)  PROVE SectionFits(q)'
    <3>1. pc'[p] \in {"idle", "missed"}
      BY <2>4 DEF Hit, Miss, Goto, TypeOK
    <3> QED
      BY <1>3, <3>1 DEF SectionFits
  <2>5. CASE ToggleDelete(p)
    <3>1. pc'[p] = "deleting"
      BY <2>5 DEF ToggleDelete
    <3> QED
      BY <1>3, <3>1 DEF SectionFits
  <2> QED
    BY <1>3, <2>1, <2>2, <2>3, <2>4, <2>5 DEF Others
<1> QED
  BY <1>1, <1>2, <1>3

LEMMA FreshTodo ==
  ASSUME TypeOK, FreshInv, NEW p \in Replicas, Leaves(p) \/ Others(p) \/ ToggleCommit(p),
         NEW q \in Replicas, pc'[q] # "deleting"
  PROVE  todo'[q] = {}
<1>1. CASE q # p
  <2>1. pc'[q] = pc[q] /\ todo'[q] = todo[q]
    BY <1>1, OthersAlone
  <2> QED
    BY <2>1 DEF FreshInv
<1>2. CASE q = p /\ Leaves(p)
  <2>1. CASE Seed(p) \/ StoreFails(p) \/ Store(p)
    BY <1>2, <2>1 DEF Seed, StoreFails, Store, Ends, Goto, FreshInv
  <2>2. CASE DeleteFails(p) \/ Crash(p)
    BY <1>2, <2>2 DEF DeleteFails, Crash, Abandons, TypeOK
  <2>3. CASE Audit(p)
    BY <1>2, <2>3 DEF Audit, Audited
  <2> QED
    BY <1>2, <2>1, <2>2, <2>3 DEF Leaves
<1>3. CASE q = p /\ Others(p)
  <2>1. CASE Start(p) \/ Lookup(p) \/ LookupFallback(p)
    BY <1>3, <2>1 DEF Start, Lookup, LookupFallback, Goto, FreshInv
  <2>2. CASE ToggleDelete(p)
    BY <1>3, <2>2 DEF ToggleDelete
  <2>3. ASSUME NEW k \in Patterns, Hit(p, k) \/ Miss(p, k)  PROVE todo'[q] = {}
    BY <1>3, <2>3 DEF Hit, Miss, Goto, FreshInv
  <2>4. ASSUME NEW rb \in Runbooks, NEW on \in BOOLEAN, ToggleLoad(p, rb, on)
        PROVE  todo'[q] = {}
    BY <1>3, <2>4 DEF ToggleLoad, Goto, FreshInv
  <2> QED
    BY <1>3, <2>1, <2>2, <2>3, <2>4 DEF Others
<1>4. CASE q = p /\ ToggleCommit(p)
  BY <1>4 DEF ToggleCommit, Commits, Goto, TypeOK
<1> QED
  BY <1>1, <1>2, <1>3, <1>4

\* An entry that stays as it is, and its excuse with it.
LEMMA FreshEntry ==
  ASSUME TypeOK, NEW k \in Patterns, EntryFits(k), off' = off, cache'[k] = cache[k],
         k \in kept => k \in kept',
         \A p \in Replicas : k \in todo[p] => k \in todo'[p] \/ k \in kept' \/ cache[k] = NoEntry
  PROVE  EntryFits(k)'
BY DEF EntryFits, Fits, Enabled

LEMMA FreshEntries ==
  ASSUME TypeOK, FreshInv, NEW p \in Replicas, Leaves(p) \/ Others(p), NEW k \in Patterns
  PROVE  EntryFits(k)'
<1>0. off' = off /\ EntryFits(k)
  BY CatalogKept DEF FreshInv
<1>1. CASE Seed(p) \/ StoreFails(p) \/ Audit(p) \/ Start(p) \/ Lookup(p) \/ LookupFallback(p)
  <2>1. cache' = cache /\ kept' = kept /\ todo' = todo
    BY <1>1 DEF Seed, StoreFails, Audit, Audited, Start, Lookup, LookupFallback, observed
  <2> QED
    BY <1>0, <2>1, FreshEntry
<1>2. ASSUME NEW l \in Patterns, Hit(p, l) \/ Miss(p, l)  PROVE EntryFits(k)'
  <2>1. cache' = cache /\ kept' = kept /\ todo' = todo
    BY <1>2 DEF Hit, Miss, observed
  <2> QED
    BY <1>0, <2>1, FreshEntry
<1>3. ASSUME NEW rb \in Runbooks, NEW on \in BOOLEAN, ToggleLoad(p, rb, on)  PROVE EntryFits(k)'
  <2>1. cache' = cache /\ kept' = kept /\ todo' = todo
    BY <1>3 DEF ToggleLoad, observed
  <2> QED
    BY <1>0, <2>1, FreshEntry
<1>4. CASE DeleteFails(p) \/ Crash(p)
  <2>1. Abandons(p)
    BY <1>4 DEF DeleteFails, Crash
  <2>2. cache' = cache /\ kept' = kept \cup {l \in todo[p] : cache[l] # NoEntry}
    BY <2>1 DEF Abandons, WithEntry
  <2>3. \A q \in Replicas : q # p => todo'[q] = todo[q]
    BY <2>1 DEF Abandons, TypeOK
  <2>4. \A q \in Replicas : k \in todo[q] => k \in todo'[q] \/ k \in kept' \/ cache[k] = NoEntry
    BY <2>2, <2>3
  <2> QED
    BY <1>0, <2>2, <2>4, FreshEntry
<1>5. CASE ToggleDelete(p)
  <2>1. PICK l \in todo[p] : /\ cache' = [cache EXCEPT ![l] = NoEntry]
                             /\ todo' = [todo EXCEPT ![p] = @ \ {l}]
                             /\ kept' = kept \ {l}
    BY <1>5 DEF ToggleDelete
  <2>2. CASE k = l
    <3>1. cache'[k] = NoEntry
      BY <2>1, <2>2 DEF TypeOK
    <3> QED
      BY <3>1 DEF EntryFits
  <2>3. CASE k # l
    <3>1. cache'[k] = cache[k] /\ (k \in kept => k \in kept')
      BY <2>1, <2>3 DEF TypeOK
    <3>2. \A q \in Replicas : k \in todo[q] => k \in todo'[q]
      BY <2>1, <2>3 DEF TypeOK
    <3> QED
      BY <1>0, <3>1, <3>2, FreshEntry
  <2> QED
    BY <2>2, <2>3
<1>6. CASE Store(p)
  <2>1. /\ todo' = todo /\ pc[p] = "found"
        /\ cache' = IF redis[p] THEN [cache EXCEPT ![key[p]] = NewEntry(choice[p], held[p])]
                    ELSE cache
        /\ kept' = IF ~ redis[p] THEN kept
                   ELSE IF p \in overtaken THEN kept \cup {key[p]} ELSE kept \ {key[p]}
    BY <1>6 DEF Store, Ends, Goto
  <2>2. CASE ~ redis[p]
    BY <1>0, <2>1, <2>2, FreshEntry
  <2>3. CASE redis[p] /\ k # key[p]
    <3>1. cache'[k] = cache[k] /\ (k \in kept => k \in kept')
      BY <2>1, <2>3 DEF TypeOK
    <3> QED
      BY <1>0, <2>1, <3>1, FreshEntry
  <2>4. CASE redis[p] /\ k = key[p] /\ p \in overtaken
    <3>1. k \in kept'
      BY <2>1, <2>4
    <3> QED
      BY <3>1 DEF EntryFits
  <2>5. CASE redis[p] /\ k = key[p] /\ p \notin overtaken
    <3>1. cache'[k] = NewEntry(choice[p], held[p])
      BY <2>1, <2>5 DEF TypeOK
    <3>2. choice[p] \in Decisions /\ held[p] \in 0 .. MaxHeld
      BY DEF TypeOK
    <3>3. cache'[k].runbook = choice[p].runbook
      BY <3>1, <3>2, NewEntryIs
    <3>4. Fits(choice[p].runbook, k)
      BY <2>1, <2>5 DEF FreshInv, SectionFits
    <3> QED
      BY <1>0, <3>3, <3>4 DEF EntryFits, Fits, Enabled
  <2> QED
    BY <2>2, <2>3, <2>4, <2>5
<1> QED
  BY <1>1, <1>2, <1>3, <1>4, <1>5, <1>6 DEF Leaves, Others

\* The COMMIT of a toggle makes its own keys due or excused, and overtakes every
\* section that has read the catalog when it changes it.
LEMMA FreshCommit ==
  ASSUME TypeOK, FreshInv, NEW p \in Replicas, ToggleCommit(p)
  PROVE  FreshInv'
<1> DEFINE rb == choice[p].runbook
<1>0. choice[p] \in Decisions /\ rb \in Runbooks /\ loaded[p] \in BOOLEAN
  BY DecisionFields DEF TypeOK
<1>1. /\ cache' = cache /\ off' = Switched(choice[p], loaded[p])
      /\ todo' = [todo EXCEPT ![p] = IF redis[p] THEN Affected(rb) ELSE {}]
      /\ kept' = IF redis[p] THEN kept ELSE kept \cup WithEntry(Affected(rb))
      /\ overtaken' = (IF off' = off THEN overtaken ELSE overtaken \cup Readers(rb)) \ {p}
      /\ pc[p] = "toggling" /\ pc'[p] = "deleting"
  BY DEF ToggleCommit, Commits, Goto, TypeOK
<1>2. \A r \in Runbooks \ {rb} : Enabled(r)' = Enabled(r)
  BY <1>0, <1>1, SwitchedEnabled
<1>3. ASSUME NEW k \in Patterns  PROVE EntryFits(k)'
  <2>1. EntryFits(k)
    BY DEF FreshInv
  <2>2. CASE Default[k] = rb
    <3>1. k \in Affected(rb)
      BY <2>2 DEF Affected
    <3>2. CASE redis[p]
      <4>1. k \in todo'[p]
        BY <1>1, <3>1, <3>2 DEF TypeOK
      <4> QED
        BY <4>1 DEF EntryFits
    <3>3. CASE ~ redis[p]
      <4>1. k \in kept' \/ cache'[k] = NoEntry
        BY <1>1, <3>1, <3>3 DEF WithEntry
      <4> QED
        BY <4>1 DEF EntryFits
    <3> QED
      BY <3>2, <3>3
  <2>3. CASE Default[k] # rb
    <3>1. Fits(cache[k].runbook, k) => Fits(cache[k].runbook, k)'
      <4>1. HasOwn(k) => Default[k] \in Runbooks \ {rb}
        BY <2>3 DEF HasOwn
      <4>2. HasOwn(k) => Enabled(Default[k])' = Enabled(Default[k])
        BY <1>2, <4>1 DEF Enabled
      <4> QED
        BY <1>1, <4>2 DEF Fits, HasOwn
    <3>2. \A q \in Replicas : k \in todo[q] => k \in todo'[q]
      <4>1. todo[p] = {}
        BY <1>1 DEF FreshInv
      <4> QED
        BY <1>1, <4>1 DEF TypeOK
    <3>3. k \in kept => k \in kept'
      BY <1>1
    <3> QED
      BY <1>1, <2>1, <3>1, <3>2, <3>3 DEF EntryFits
  <2> QED
    BY <2>2, <2>3
<1>4. ASSUME NEW q \in Replicas, q \notin overtaken'  PROVE SectionFits(q)'
  <2>1. CASE q = p
    BY <1>1, <2>1 DEF SectionFits
  <2>2. CASE q # p /\ off' = off
    <3>1. /\ pc'[q] = pc[q] /\ key'[q] = key[q] /\ choice'[q] = choice[q]
          /\ q \notin overtaken
      BY <1>1, <1>4, <2>2, OthersAlone
    <3>2. SectionFits(q)
      BY <3>1 DEF FreshInv
    <3> QED
      BY <2>2, <3>1, <3>2 DEF SectionFits, Fits, Enabled
  <2>3. CASE q # p /\ off' # off
    <3>1. q \notin Readers(rb) /\ pc'[q] = pc[q]
      BY <1>1, <1>4, <2>3, OthersAlone
    <3> QED
      BY <3>1 DEF SectionFits, Readers
  <2> QED
    BY <2>1, <2>2, <2>3
<1>5. \A q \in Replicas : pc'[q] # "deleting" => todo'[q] = {}
  BY FreshTodo
<1> QED
  BY <1>3, <1>4, <1>5 DEF FreshInv

LEMMA FreshTick ==
  ASSUME TypeOK, FreshInv, Tick
  PROVE  FreshInv'
<1>1. UNCHANGED <<pc, key, choice, todo, overtaken>> /\ kept' = {k \in kept : cache'[k] # NoEntry}
  BY DEF Tick
<1>2. \A rb \in Runbooks : Enabled(rb)' = Enabled(rb)
  BY TickCatalog
<1>3. ASSUME NEW k \in Patterns, NEW rb, Fits(rb, k)  PROVE Fits(rb, k)'
  <2>1. HasOwn(k) => Default[k] \in Runbooks
    BY DEF HasOwn
  <2>2. HasOwn(k) => Enabled(Default[k])' = Enabled(Default[k])
    BY <1>2, <2>1 DEF Enabled
  <2> QED
    BY <1>3, <2>2 DEF Fits, HasOwn
<1>4. ASSUME NEW k \in Patterns  PROVE EntryFits(k)'
  <2>1. cache'[k] = NoEntry \/ (cache[k] # NoEntry /\ cache'[k].runbook = cache[k].runbook)
    BY TickEntry, Entry
  <2>2. EntryFits(k)
    BY DEF FreshInv
  <2>3. CASE cache'[k] = NoEntry
    BY <2>3 DEF EntryFits
  <2>4. CASE cache'[k] # NoEntry /\ (k \in kept \/ \E p \in Replicas : k \in todo[p])
    BY <1>1, <2>4 DEF EntryFits
  <2>5. CASE cache'[k] # NoEntry /\ Fits(cache[k].runbook, k)
    <3>1. PICK rb : rb = cache[k].runbook
      OBVIOUS
    <3>2. Fits(rb, k)'
      BY <1>3, <2>5, <3>1
    <3>3. cache'[k].runbook = rb
      BY <2>1, <2>5, <3>1
    <3> QED
      BY <3>2, <3>3 DEF EntryFits, Fits
  <2> QED
    BY <2>1, <2>2, <2>3, <2>4, <2>5 DEF EntryFits
<1>5. ASSUME NEW p \in Replicas \ overtaken  PROVE SectionFits(p)'
  <2>1. SectionFits(p) /\ key[p] \in Patterns
    BY DEF FreshInv, TypeOK
  <2>2. PICK rb \in {choice[p].runbook}, k \in Patterns : k = key[p]
    BY <2>1
  <2>3. pc[p] = "found" => Fits(rb, k)'
    BY <1>3, <2>1, <2>2 DEF SectionFits
  <2>4. pc[p] = "refused" /\ HasOwn(k) => ~ Enabled(Default[k])'
    <3>1. HasOwn(k) => Default[k] \in Runbooks
      BY DEF HasOwn
    <3> QED
      BY <1>2, <2>1, <2>2, <3>1 DEF SectionFits, Enabled
  <2> QED
    BY <1>1, <2>2, <2>3, <2>4 DEF SectionFits, Fits, HasOwn, Enabled
<1> QED
  BY <1>1, <1>4, <1>5 DEF FreshInv

LEMMA FreshStep == TypeOK /\ FreshInv /\ [Next]_vars => FreshInv'
<1> SUFFICES ASSUME TypeOK, FreshInv, [Next]_vars  PROVE FreshInv'
  OBVIOUS
<1>1. ASSUME NEW p \in Replicas, Leaves(p) \/ Others(p)  PROVE FreshInv'
  BY <1>1, FreshEntries, FreshSection, FreshTodo DEF FreshInv
<1>2. CASE UNCHANGED vars
  BY <1>2 DEF FreshInv, EntryFits, SectionFits, Fits, Enabled, vars, observed
<1> QED
  BY <1>1, <1>2, FreshCommit, FreshTick, NextSteps

\* For any number of replicas a cached decision for a pattern's own runbook tells
\* the runbook's state between toggles, unless a failure kept a toggle from
\* deleting it or another replica stored it too late.
THEOREM DecisionsAreFresh == Spec => []DefaultEntriesFresh
<1>1. Init => FreshInv
  BY DEF Init, FreshInv, EntryFits, SectionFits
<1>2. FreshInv => DefaultEntriesFresh
  BY DEF FreshInv, EntryFits, Fits, DefaultEntriesFresh
<1> QED
  BY <1>1, <1>2, FreshStep, DecisionTypeCorrect, PTL DEF Spec
-------------------------------------------------------------------------------
(* StaleInv: a decision that lets a runbook run is at most as old as the   *)
(* time it was held and has been in the cache.                             *)

Recent(d, h, age) == d.enabled /\ h < MaxHeld => off[d.runbook] <= age + h + 1

EntryRecent(k) == cache[k] # NoEntry => Recent(cache[k], cache[k].held, cache[k].age)

SectionRecent(p) == pc[p] = "found" => Recent(choice[p], held[p], 0)

StaleInv ==
  /\ \A k \in Patterns : EntryRecent(k)
  /\ \A p \in Replicas : SectionRecent(p)
  /\ late <= TTL

LEMMA GateBound ==
  ASSUME TypeOK, late <= TTL, NEW d, d.runbook \in Runbooks, NEW h \in 0 .. MaxHeld,
         NEW age \in 0 .. (TTL - 1), Recent(d, h, age), Gate(d, h)
  PROVE  late' <= TTL
<1>1. off[d.runbook] \in Nat /\ late \in Nat /\ TTL \in Nat
  BY DEF TypeOK, Overdue
<1>2. CASE d.enabled /\ h < MaxHeld /\ off[d.runbook] > h + late
  <2>1. late' = off[d.runbook] - h
    BY <1>2 DEF Gate
  <2>2. off[d.runbook] <= age + h + 1
    BY <1>2 DEF Recent
  <2> QED
    BY <1>1, <2>1, <2>2
<1>3. CASE ~ (d.enabled /\ h < MaxHeld /\ off[d.runbook] > h + late)
  BY <1>3 DEF Gate
<1> QED
  BY <1>2, <1>3

\* A step that leaves the catalog alone.
LEMMA RecentSections ==
  ASSUME TypeOK, StaleInv, NEW p \in Replicas, Leaves(p) \/ Others(p), NEW q \in Replicas
  PROVE  SectionRecent(q)'
<1>0. off' = off
  BY CatalogKept
<1>1. CASE q # p
  <2>1. pc'[q] = pc[q] /\ choice'[q] = choice[q] /\ held'[q] = held[q]
    BY <1>1, OthersAlone
  <2> QED
    BY <1>0, <2>1 DEF StaleInv, SectionRecent, Recent
<1>2. CASE q = p /\ Leaves(p)
  BY <1>2, LeavesSection DEF SectionRecent
<1>3. CASE q = p /\ Others(p)
  <2>1. CASE Lookup(p)
    <3>1. PICK rb \in Runbooks :
            /\ pc'[p] = IF Enabled(rb) THEN "found" ELSE "refused"
            /\ choice' = [choice EXCEPT ![p] = [runbook |-> rb, enabled |-> TRUE]]
      BY <2>1 DEF Lookup, Goto, TypeOK
    <3>2. choice'[p].runbook = rb /\ held' = held
      BY <2>1, <3>1 DEF Lookup, TypeOK, observed
    <3>3. held[p] \in Nat
      BY DEF TypeOK
    <3> QED
      BY <1>0, <1>3, <3>1, <3>2, <3>3 DEF SectionRecent, Recent, Enabled
  <2>2. CASE LookupFallback(p)
    <3>1. choice' = [choice EXCEPT ![p] = [runbook |-> Fallback, enabled |-> Enabled(Fallback)]]
      BY <2>2 DEF LookupFallback
    <3>2. choice'[p].runbook = Fallback /\ choice'[p].enabled = Enabled(Fallback)
      BY <3>1 DEF TypeOK
    <3>3. held'[p] = 0
      BY <2>2 DEF LookupFallback, TypeOK
    <3>4. choice'[p].enabled => off'[Fallback] = 0
      BY <1>0, <3>2, Zenon DEF Enabled
    <3>5. 0 < MaxHeld /\ choice'[p].enabled => off'[choice'[p].runbook] <= 0 + held'[p] + 1
      BY <3>2, <3>3, <3>4
    <3> QED
      BY <1>3, <3>3, <3>5 DEF SectionRecent, Recent
  <2>3. CASE Start(p) \/ (\E rb \in Runbooks, on \in BOOLEAN : ToggleLoad(p, rb, on))
    <3>1. pc'[p] \in {"seeding", "toggling"}
      BY <2>3 DEF Start, ToggleLoad, Goto, TypeOK
    <3> QED
      BY <1>3, <3>1 DEF SectionRecent
  <2>4. ASSUME NEW k \in Patterns, Hit(p, k) \/ Miss(p, k)  PROVE SectionRecent(q)'
    <3>1. pc'[p] \in {"idle", "missed"}
      BY <2>4 DEF Hit, Miss, Goto, TypeOK
    <3> QED
      BY <1>3, <3>1 DEF SectionRecent
  <2>5. CASE ToggleDelete(p)
    <3>1. pc'[p] = "deleting"
      BY <2>5 DEF ToggleDelete
    <3> QED
      BY <1>3, <3>1 DEF SectionRecent
  <2> QED
    BY <1>3, <2>1, <2>2, <2>3, <2>4, <2>5 DEF Others
<1> QED
  BY <1>1, <1>2, <1>3

LEMMA RecentEntries ==
  ASSUME TypeOK, StaleInv, NEW p \in Replicas, Leaves(p) \/ Others(p)
  PROVE  \A k \in Patterns : EntryRecent(k)'
<1>0. off' = off
  BY CatalogKept
<1>1. CASE cache' = cache
  BY <1>0, <1>1 DEF StaleInv, EntryRecent, Recent
<1>2. CASE ToggleDelete(p)
  <2>1. PICK l \in todo[p] : cache' = [cache EXCEPT ![l] = NoEntry]
    BY <1>2 DEF ToggleDelete
  <2>2. \A k \in Patterns : cache'[k] = NoEntry \/ cache'[k] = cache[k]
    BY <2>1 DEF TypeOK
  <2> QED
    BY <1>0, <2>2 DEF StaleInv, EntryRecent, Recent
<1>3. CASE Store(p) /\ redis[p]
  <2>1. pc[p] = "found" /\ cache' = [cache EXCEPT ![key[p]] = NewEntry(choice[p], held[p])]
    BY <1>3 DEF Store, Ends, Goto
  <2>2. choice[p] \in Decisions /\ held[p] \in 0 .. MaxHeld
    BY DEF TypeOK
  <2>3. PICK e \in Entries : /\ e = NewEntry(choice[p], held[p])
                             /\ e.runbook = choice[p].runbook
                             /\ e.enabled = choice[p].enabled
                             /\ e.age = 0 /\ e.held = held[p]
    BY <2>2, NewEntryIs
  <2>4. Recent(choice[p], held[p], 0)
    BY <2>1 DEF StaleInv, SectionRecent
  <2>5. \A k \in Patterns : cache'[k] = e \/ cache'[k] = cache[k]
    BY <2>1, <2>3 DEF TypeOK
  <2> QED
    BY <1>0, <2>3, <2>4, <2>5 DEF StaleInv, EntryRecent, Recent
<1>4. cache' = cache \/ ToggleDelete(p) \/ (Store(p) /\ redis[p])
  BY DEF Leaves, Others, Start, Seed, Crash, Hit, Miss, Lookup, LookupFallback, Store,
         StoreFails, ToggleLoad, DeleteFails, Abandons, Audit, Audited
<1> QED
  BY <1>1, <1>2, <1>3, <1>4

LEMMA RecentGate ==
  ASSUME TypeOK, StaleInv, NEW p \in Replicas, Leaves(p) \/ Others(p)
  PROVE  late' <= TTL
<1>0. late <= TTL
  BY DEF StaleInv
<1>1. CASE late' = late
  BY <1>0, <1>1
<1>2. ASSUME NEW k \in Patterns, Hit(p, k)  PROVE late' <= TTL
  <2>1. cache[k] \in Entries /\ cache[k] # NoEntry /\ Gate(cache[k], cache[k].held)
    BY <1>2 DEF Hit, TypeOK
  <2>2. /\ cache[k].runbook \in Runbooks /\ cache[k].held \in 0 .. MaxHeld
        /\ cache[k].age \in 0 .. (TTL - 1)
    BY <2>1, Entry
  <2>3. Recent(cache[k], cache[k].held, cache[k].age)
    BY <2>1 DEF StaleInv, EntryRecent
  <2> QED
    BY <1>0, <2>1, <2>2, <2>3, GateBound
<1>3. CASE Store(p)
  <2>1. pc[p] = "found" /\ Gate(choice[p], held[p])
    BY <1>3 DEF Store, Ends, Goto
  <2>2. choice[p].runbook \in Runbooks /\ held[p] \in 0 .. MaxHeld
    BY DecisionFields DEF TypeOK
  <2>3. Recent(choice[p], held[p], 0) /\ 0 \in 0 .. (TTL - 1)
    BY <2>1 DEF StaleInv, SectionRecent
  <2> QED
    BY <1>0, <2>1, <2>2, <2>3, GateBound
<1>4. late' = late \/ Store(p) \/ \E k \in Patterns : Hit(p, k)
  BY DEF Leaves, Others, Start, Seed, Crash, Miss, Lookup, LookupFallback, StoreFails,
         ToggleLoad, ToggleDelete, DeleteFails, Abandons, Audit, Audited, observed
<1> QED
  BY <1>1, <1>2, <1>3, <1>4

\* A runbook is off for one tick when its toggle commits.
LEMMA RecentCommit ==
  ASSUME TypeOK, StaleInv, NEW p \in Replicas, ToggleCommit(p)
  PROVE  StaleInv'
<1>0. choice[p] \in Decisions /\ loaded[p] \in BOOLEAN
  BY DEF TypeOK
<1>1. /\ cache' = cache /\ choice' = choice /\ held' = held /\ late' = late
      /\ off' = Switched(choice[p], loaded[p])
      /\ \A q \in Replicas : pc'[q] = "found" => pc[q] = "found"
  BY DEF ToggleCommit, Commits, Goto, TypeOK
<1>2. \A rb \in Runbooks : off'[rb] \in {off[rb], 0, 1} /\ off[rb] \in Nat
  BY <1>0, <1>1, SwitchedEnabled DEF TypeOK, Overdue
<1>3. ASSUME NEW k \in Patterns  PROVE EntryRecent(k)'
  <2>1. CASE cache[k] = NoEntry
    BY <1>1, <2>1 DEF EntryRecent
  <2>2. CASE cache[k] \in Entries /\ cache[k] # NoEntry
    <3>1. /\ cache[k].runbook \in Runbooks /\ cache[k].held \in 0 .. MaxHeld
          /\ cache[k].age \in 0 .. (TTL - 1)
      BY <2>2, Entry
    <3> QED
      BY <1>1, <1>2, <2>2, <3>1 DEF StaleInv, EntryRecent, Recent
  <2> QED
    BY <2>1, <2>2 DEF TypeOK
<1>4. ASSUME NEW q \in Replicas  PROVE SectionRecent(q)'
  <2>1. choice[q].runbook \in Runbooks /\ held[q] \in 0 .. MaxHeld
    BY DecisionFields DEF TypeOK
  <2> QED
    BY <1>1, <1>2, <2>1 DEF StaleInv, SectionRecent, Recent
<1> QED
  BY <1>1, <1>3, <1>4 DEF StaleInv

LEMMA RecentTick ==
  ASSUME TypeOK, StaleInv, Tick
  PROVE  StaleInv'
<1>1. UNCHANGED <<pc, choice, late>>
  BY DEF Tick
<1>2. \A rb \in Runbooks : off[rb] \in Nat /\ off'[rb] \in Nat /\ off'[rb] <= off[rb] + 1
  BY TickCatalog DEF Overdue
<1>3. ASSUME NEW k \in Patterns  PROVE EntryRecent(k)'
  <2>1. CASE cache'[k] = NoEntry
    BY <2>1 DEF EntryRecent
  <2>2. CASE cache'[k] # NoEntry
    <3>1. /\ cache[k] \in Entries
          /\ cache'[k].runbook = cache[k].runbook
          /\ cache'[k].enabled = cache[k].enabled
          /\ cache'[k].age = cache[k].age + 1
          /\ cache'[k].held = cache[k].held
      BY <2>2, TickEntry
    <3>2. /\ cache[k].runbook \in Runbooks /\ cache[k].held \in 0 .. MaxHeld
          /\ cache[k].age \in 0 .. (TTL - 1) /\ cache[k] # NoEntry
      BY <3>1, Entry
    <3>3. cache[k].enabled /\ cache[k].held < MaxHeld
            => off[cache[k].runbook] <= cache[k].age + cache[k].held + 1
      BY <3>2 DEF StaleInv, EntryRecent, Recent
    <3>4. cache[k].enabled /\ cache[k].held < MaxHeld
            => off'[cache[k].runbook] <= (cache[k].age + 1) + cache[k].held + 1
      <4>1. PICK n \in Nat, m \in Nat, a \in Nat, h \in Nat :
              /\ n = off[cache[k].runbook] /\ m = off'[cache[k].runbook] /\ m <= n + 1
              /\ a = cache[k].age /\ h = cache[k].held
        BY <1>2, <3>2
      <4> QED
        BY <3>3, <4>1
    <3>5. cache'[k].enabled /\ cache'[k].held < MaxHeld
            => off'[cache'[k].runbook] <= cache'[k].age + cache'[k].held + 1
      BY <3>1, <3>4, Zenon
    <3> QED
      BY <3>5 DEF EntryRecent, Recent
  <2> QED
    BY <2>1, <2>2
<1>4. ASSUME NEW p \in Replicas  PROVE SectionRecent(p)'
  <2>1. choice[p].runbook \in Runbooks
    BY DecisionFields DEF TypeOK
  <2>2. /\ held[p] \in 0 .. MaxHeld /\ held'[p] \in 0 .. MaxHeld
        /\ pc[p] = "found" /\ held'[p] < MaxHeld => held'[p] = held[p] + 1
    BY TickHeld
  <2> QED
    BY <1>1, <1>2, <2>1, <2>2 DEF StaleInv, SectionRecent, Recent
<1> QED
  BY <1>1, <1>3, <1>4 DEF StaleInv

LEMMA StaleStep == TypeOK /\ StaleInv /\ [Next]_vars => StaleInv'
<1> SUFFICES ASSUME TypeOK, StaleInv, [Next]_vars  PROVE StaleInv'
  OBVIOUS
<1>1. ASSUME NEW p \in Replicas, Leaves(p) \/ Others(p)  PROVE StaleInv'
  BY <1>1, RecentEntries, RecentSections, RecentGate DEF StaleInv
<1>2. CASE UNCHANGED vars
  BY <1>2 DEF StaleInv, EntryRecent, SectionRecent, Recent, vars, observed
<1> QED
  BY <1>1, <1>2, RecentCommit, RecentTick, NextSteps

\* For any number of replicas no selection lets a runbook pass the gate that has
\* been off for more than TTL, not counting the time between some replica's look
\* at the catalog and its setex.
THEOREM StalenessIsBounded == Spec => []StaleAtMostTTL
<1>1. Init => StaleInv
  BY DEF Init, StaleInv, EntryRecent, SectionRecent
<1>2. StaleInv => StaleAtMostTTL
  BY DEF StaleInv, StaleAtMostTTL
<1> QED
  BY <1>1, <1>2, StaleStep, DecisionTypeCorrect, PTL DEF Spec
-------------------------------------------------------------------------------
(* AuditInv: a toggle that no other has overtaken has loaded what the      *)
(* catalog says; while a runbook is clear at most one toggle of it has its *)
(* audit row to come, which will tell the catalog.                         *)

LoadedIsTrue(p) == pc[p] = "toggling" => loaded[p] = Enabled(choice[p].runbook)

Clear(rb) ==
  /\ Toggling(rb) = {} => audit[rb] = Enabled(rb)
  /\ \A p \in Toggling(rb) : /\ choice[p].enabled = Enabled(rb)
                             /\ Toggling(rb) = {p}

AuditInv ==
  /\ \A p \in Replicas \ overtaken : LoadedIsTrue(p)
  /\ \A rb \in Runbooks \ unclear : Clear(rb)

LEMMA LoadedSections ==
  ASSUME TypeOK, AuditInv, NEW p \in Replicas, Leaves(p) \/ Others(p),
         NEW q \in Replicas \ overtaken'
  PROVE  LoadedIsTrue(q)'
<1>0. off' = off
  BY CatalogKept
<1>1. CASE q # p
  <2>1. pc'[q] = pc[q] /\ choice'[q] = choice[q] /\ loaded'[q] = loaded[q] /\ q \notin overtaken
    BY <1>1, OthersAlone
  <2> QED
    BY <1>0, <2>1 DEF AuditInv, LoadedIsTrue, Enabled
<1>2. CASE q = p /\ Leaves(p)
  BY <1>2, LeavesSection DEF LoadedIsTrue
<1>3. ASSUME q = p, NEW rb \in Runbooks, NEW on \in BOOLEAN, ToggleLoad(p, rb, on)
      PROVE  LoadedIsTrue(q)'
  <2>1. choice' = [choice EXCEPT ![p] = [runbook |-> rb, enabled |-> on]]
    BY <1>3 DEF ToggleLoad
  <2>2. choice'[p].runbook = rb /\ loaded'[p] = Enabled(rb)
    BY <1>3, <2>1 DEF ToggleLoad, TypeOK
  <2> QED
    BY <1>0, <1>3, <2>2, Zenon DEF LoadedIsTrue, Enabled
<1>4. CASE /\ q = p
           /\ \/ Start(p) \/ Lookup(p) \/ LookupFallback(p) \/ ToggleDelete(p)
              \/ \E k \in Patterns : Hit(p, k) \/ Miss(p, k)
  <2>1. pc'[p] # "toggling"
    BY <1>4 DEF Start, Lookup, LookupFallback, ToggleDelete, Hit, Miss, Goto, TypeOK
  <2> QED
    BY <1>4, <2>1 DEF LoadedIsTrue
<1> QED
  BY <1>1, <1>2, <1>3, <1>4 DEF Others

\* A step that no toggle of rb commits, is cut short or ends with.
LEMMA ClearStays ==
  ASSUME NEW rb \in Runbooks, Clear(rb), Toggling(rb)' = Toggling(rb), audit'[rb] = audit[rb],
         Enabled(rb)' = Enabled(rb),
         \A p \in Toggling(rb) : choice'[p] = choice[p]
  PROVE  Clear(rb)'
<1>1. PICK T : T = Toggling(rb) /\ T = Toggling(rb)'
  OBVIOUS
<1>2. PICK b : b = Enabled(rb) /\ b = Enabled(rb)'
  OBVIOUS
<1>3. T = {} => audit'[rb] = b
  BY <1>1, <1>2, Zenon DEF Clear
<1>4. \A p \in T : choice'[p].enabled = b /\ T = {p}
  BY <1>1, <1>2, Zenon DEF Clear
<1> QED
  BY <1>1, <1>2, <1>3, <1>4, Zenon DEF Clear

\* Only a section between its COMMIT and its row is counted, and it stays there.
LEMMA TogglingStays ==
  ASSUME TypeOK, NEW p \in Replicas, Leaves(p) \/ Others(p), NEW rb \in Runbooks,
         \/ ToggleDelete(p) \/ pc[p] # "deleting" \/ choice[p].runbook # rb
  PROVE  /\ Toggling(rb)' = Toggling(rb)
         /\ \A q \in Toggling(rb) : choice'[q] = choice[q]
<1>1. \A q \in Replicas : q # p => pc'[q] = pc[q] /\ choice'[q] = choice[q]
  BY OthersAlone
<1>2. CASE ToggleDelete(p)
  <2>1. pc' = pc /\ choice' = choice
    BY <1>2 DEF ToggleDelete
  <2> QED
    BY <2>1 DEF Toggling
<1>3. CASE ~ ToggleDelete(p)
  <2>1. pc'[p] # "deleting"
    <3>1. CASE Leaves(p)
      BY <3>1, LeavesSection
    <3>2. CASE Others(p)
      <4>1. CASE Start(p) \/ Lookup(p) \/ LookupFallback(p)
        BY <4>1 DEF Start, Lookup, LookupFallback, Goto, TypeOK
      <4>2. ASSUME NEW k \in Patterns, Hit(p, k) \/ Miss(p, k)  PROVE pc'[p] # "deleting"
        BY <4>2 DEF Hit, Miss, Goto, TypeOK
      <4>3. ASSUME NEW r \in Runbooks, NEW on \in BOOLEAN, ToggleLoad(p, r, on)
            PROVE  pc'[p] # "deleting"
        BY <4>3 DEF ToggleLoad, Goto, TypeOK
      <4> QED
        BY <1>3, <3>2, <4>1, <4>2, <4>3 DEF Others
    <3> QED
      BY <3>1, <3>2
  <2>2. p \notin Toggling(rb)
    BY <1>3 DEF Toggling
  <2> QED
    BY <1>1, <2>1, <2>2 DEF Toggling
<1> QED
  BY <1>2, <1>3

\* The row that was to come has come.
LEMMA ClearAudit ==
  ASSUME TypeOK, NEW p \in Replicas, Audit(p),
         NEW rb \in Runbooks, rb = choice[p].runbook, Clear(rb)
  PROVE  Clear(rb)'
<1>1. PICK on \in BOOLEAN : on = choice[p].enabled
  BY DecisionFields DEF TypeOK
<1>2. pc[p] = "deleting" /\ pc'[p] = "idle" /\ off' = off /\ audit' = [audit EXCEPT ![rb] = on]
  BY <1>1 DEF Audit, Audited, Ends, Goto, TypeOK
<1>3. p \in Toggling(rb)
  BY <1>1, <1>2 DEF Toggling
<1>4. on = Enabled(rb) /\ Toggling(rb) = {p}
  BY <1>1, <1>3 DEF Clear
<1>5. audit'[rb] = on
  BY <1>2 DEF TypeOK
<1>6. Toggling(rb)' = {}
  <2>1. \A q \in Replicas : q # p => pc'[q] = pc[q] /\ choice'[q] = choice[q]
    BY OthersAlone DEF Leaves
  <2> QED
    BY <1>2, <1>4, <2>1 DEF Toggling
<1>7. Enabled(rb)' = Enabled(rb)
  BY <1>2 DEF Enabled
<1> QED
  BY <1>4, <1>5, <1>6, <1>7 DEF Clear
LEMMA ClearSteps ==
  ASSUME TypeOK, AuditInv, NEW p \in Replicas, Leaves(p) \/ Others(p),
         NEW rb \in Runbooks \ unclear'
  PROVE  Clear(rb)'
<1>0. off' = off /\ Enabled(rb)' = Enabled(rb)
  BY CatalogKept DEF Enabled
<1>1. CASE DeleteFails(p) \/ Crash(p)
  <2>1. /\ unclear' = IF pc[p] = "deleting" THEN unclear \cup {choice[p].runbook} ELSE unclear
        /\ audit' = audit
    BY <1>1 DEF DeleteFails, Crash, Abandons
  <2>2. rb \notin unclear /\ (pc[p] # "deleting" \/ choice[p].runbook # rb)
    BY <2>1
  <2>3. /\ Toggling(rb)' = Toggling(rb)
        /\ \A q \in Toggling(rb) : choice'[q] = choice[q]
    BY <2>2, TogglingStays
  <2>4. Clear(rb)
    BY <2>2 DEF AuditInv
  <2> QED
    BY <1>0, <2>1, <2>3, <2>4, ClearStays
<1>2. CASE Audit(p)
  <2>1. unclear' = unclear
    BY <1>2 DEF Audit, Audited
  <2>2. Clear(rb)
    BY <2>1 DEF AuditInv
  <2>3. CASE choice[p].runbook = rb
    BY <1>2, <2>2, <2>3, ClearAudit
  <2>4. CASE choice[p].runbook # rb
    <3>1. audit'[rb] = audit[rb]
      BY <1>2, <2>4 DEF Audit, Audited, TypeOK
    <3>2. /\ Toggling(rb)' = Toggling(rb)
          /\ \A q \in Toggling(rb) : choice'[q] = choice[q]
      BY <2>4, TogglingStays
    <3> QED
      BY <1>0, <2>2, <3>1, <3>2, ClearStays
  <2> QED
    BY <2>3, <2>4
<1>3. CASE ~ (DeleteFails(p) \/ Crash(p) \/ Audit(p))
  <2>1. unclear' = unclear /\ audit' = audit /\ (ToggleDelete(p) \/ pc[p] # "deleting")
    <3>1. CASE Leaves(p)
      BY <1>3, <3>1 DEF Leaves, Seed, StoreFails, Store, Ends, Goto
    <3>2. CASE Others(p)
      BY <3>2 DEF Others, Start, Lookup, LookupFallback, ToggleDelete, Hit, Miss, ToggleLoad,
                  Goto, observed
    <3> QED
      BY <3>1, <3>2
  <2>2. Clear(rb)
    BY <2>1 DEF AuditInv
  <2>3. /\ Toggling(rb)' = Toggling(rb)
        /\ \A q \in Toggling(rb) : choice'[q] = choice[q]
    BY <2>1, TogglingStays
  <2> QED
    BY <1>0, <2>1, <2>2, <2>3, ClearStays
<1> QED
  BY <1>1, <1>2, <1>3

LEMMA ClearCommit ==
  ASSUME TypeOK, AuditInv, NEW p \in Replicas, ToggleCommit(p)
  PROVE  AuditInv'
<1>1. PICK rb \in Runbooks, on \in BOOLEAN : rb = choice[p].runbook /\ on = choice[p].enabled
  BY DecisionFields DEF TypeOK
<1>2. choice[p] \in Decisions /\ loaded[p] \in BOOLEAN
  BY DEF TypeOK
<1>3. /\ pc[p] = "toggling" /\ pc' = [pc EXCEPT ![p] = "deleting"]
      /\ off' = Switched(choice[p], loaded[p]) /\ choice' = choice /\ loaded' = loaded
      /\ audit' = audit
      /\ overtaken' = (IF off' = off THEN overtaken ELSE overtaken \cup Readers(rb)) \ {p}
      /\ unclear' = IF p \in overtaken \/ Toggling(rb) # {} THEN unclear \cup {rb}
                    ELSE unclear \ {rb}
  BY <1>1 DEF ToggleCommit, Commits, Goto
<1>4. /\ \A r \in Runbooks \ {rb} : Enabled(r)' = Enabled(r)
      /\ loaded[p] = Enabled(rb) => Enabled(rb)' = on
  BY <1>1, <1>2, <1>3, SwitchedEnabled
<1>5. ASSUME NEW q \in Replicas \ overtaken'  PROVE LoadedIsTrue(q)'
  <2>1. CASE q = p
    BY <1>3, <2>1 DEF LoadedIsTrue, TypeOK
  <2>2. CASE q # p
    <3>1. pc'[q] = pc[q] /\ q \notin overtaken /\ (off' = off \/ q \notin Readers(rb))
      BY <1>3, <1>5, <2>2 DEF TypeOK
    <3>2. LoadedIsTrue(q)
      BY <3>1 DEF AuditInv
    <3>3. CASE off' = off
      BY <1>3, <3>1, <3>2, <3>3 DEF LoadedIsTrue, Enabled
    <3>4. CASE pc[q] # "toggling"
      BY <3>1, <3>4 DEF LoadedIsTrue
    <3>5. CASE pc[q] = "toggling" /\ q \notin Readers(rb)
      <4>1. PICK r \in Runbooks : r = choice[q].runbook
        BY DecisionFields DEF TypeOK
      <4>2. r # rb
        BY <3>5, <4>1 DEF Readers
      <4>3. Enabled(r)' = Enabled(r) /\ loaded[q] = Enabled(r)
        BY <1>4, <3>2, <3>5, <4>1, <4>2 DEF LoadedIsTrue
      <4>4. off'[r] = 0 <=> off[r] = 0
        BY <4>3 DEF Enabled
      <4> QED
        BY <1>3, <4>1, <4>3, <4>4 DEF LoadedIsTrue, Enabled
    <3> QED
      BY <3>1, <3>3, <3>4, <3>5
  <2> QED
    BY <2>1, <2>2
<1>6. ASSUME NEW r \in Runbooks \ unclear'  PROVE Clear(r)'
  <2>1. CASE r # rb
    <3>1. Clear(r)
      BY <1>3, <2>1 DEF AuditInv
    <3>2. p \notin Toggling(r) /\ choice'[p].runbook # r
      BY <1>1, <1>3, <2>1 DEF Toggling
    <3>3. Toggling(r)' = Toggling(r)
      BY <1>3, <3>2 DEF Toggling, TypeOK
    <3> QED
      BY <1>3, <1>4, <2>1, <3>1, <3>3, ClearStays
  <2>2. CASE r = rb
    <3>1. p \notin overtaken /\ Toggling(rb) = {}
      BY <1>3, <1>6, <2>2
    <3>2. loaded[p] = Enabled(rb)
      BY <1>1, <1>3, <3>1 DEF AuditInv, LoadedIsTrue
    <3>3. Toggling(rb)' = {p}
      BY <1>1, <1>3, <3>1 DEF Toggling, TypeOK
    <3>4. Enabled(rb)' = on
      BY <1>4, <3>2
    <3>5. choice'[p].enabled = on
      BY <1>1, <1>3
    <3>6. Toggling(rb)' # {} /\ \A q \in Toggling(rb)' : q = p
      BY <3>3
    <3>7. \A q \in Toggling(rb)' : choice'[q].enabled = Enabled(rb)' /\ Toggling(rb)' = {q}
      BY <3>3, <3>4, <3>5
    <3> QED
      BY <2>2, <3>6, <3>7 DEF Clear
  <2> QED
    BY <2>1, <2>2
<1> QED
  BY <1>5, <1>6 DEF AuditInv

LEMMA ClearTick ==
  ASSUME TypeOK, AuditInv, Tick
  PROVE  AuditInv'
<1>1. UNCHANGED <<pc, choice, loaded, overtaken, unclear, audit>>
  BY DEF Tick
<1>2. \A rb \in Runbooks : Enabled(rb)' = Enabled(rb)
  BY TickCatalog
<1>3. ASSUME NEW p \in Replicas \ overtaken'  PROVE LoadedIsTrue(p)'
  <2>1. PICK rb \in Runbooks : rb = choice[p].runbook
    BY DecisionFields DEF TypeOK
  <2>2. off'[rb] = 0 <=> off[rb] = 0
    BY <1>2 DEF Enabled
  <2>3. LoadedIsTrue(p)
    BY <1>1 DEF AuditInv
  <2> QED
    BY <1>1, <2>1, <2>2, <2>3 DEF LoadedIsTrue, Enabled
<1>4. ASSUME NEW rb \in Runbooks \ unclear'  PROVE Clear(rb)'
  <2>1. Clear(rb)
    BY <1>1 DEF AuditInv
  <2>2. Toggling(rb)' = Toggling(rb)
    BY <1>1 DEF Toggling
  <2> QED
    BY <1>1, <1>2, <2>1, <2>2, ClearStays
<1> QED
  BY <1>3, <1>4 DEF AuditInv

LEMMA AuditStep == TypeOK /\ AuditInv /\ [Next]_vars => AuditInv'
<1> SUFFICES ASSUME TypeOK, AuditInv, [Next]_vars  PROVE AuditInv'
  OBVIOUS
<1>1. ASSUME NEW p \in Replicas, Leaves(p) \/ Others(p)  PROVE AuditInv'
  BY <1>1, LoadedSections, ClearSteps DEF AuditInv
<1>2. CASE UNCHANGED vars
  BY <1>2 DEF AuditInv, LoadedIsTrue, Clear, Toggling, Enabled, vars, observed
<1> QED
  BY <1>1, <1>2, ClearCommit, ClearTick, NextSteps

\* For any number of replicas the latest audit row of a runbook tells its state,
\* when its latest toggle met no other toggle of it and was not cut short,
\* whatever befell the toggles before it.
THEOREM AuditIsTrue == Spec => []AuditTellsCatalog
<1>1. Init => AuditInv
  BY DEF Init, AuditInv, LoadedIsTrue, Clear, Toggling, Enabled
<1>2. AuditInv => AuditTellsCatalog
  BY DEF AuditInv, Clear, AuditTellsCatalog
<1> QED
  BY <1>1, <1>2, AuditStep, DecisionTypeCorrect, PTL DEF Spec
===============================================================================
