----------------------------- MODULE RecoveryQueue -----------------------------
(***************************************************************************)
(* replay-engine (backend/services/replay-engine/app/main.py): the         *)
(* recovery_queue table and the two handlers that write it.                *)
(*                                                                         *)
(* A handler is an async function whose database section (SELECT, decide,  *)
(* write, COMMIT) has no await: inside one uvicorn process no other        *)
(* handler runs during it, but handlers of another process do.  So a       *)
(* request takes one step for its SELECT, one for its COMMIT and one for   *)
(* its publication, and a worker has at most one request between SELECT    *)
(* and COMMIT.                                                             *)
(*                                                                         *)
(* Bound: a run serves the finitely many Requests.                         *)
(***************************************************************************)
EXTENDS Naturals, Sequences

CONSTANTS Workers,       \* uvicorn processes of the service
          Transactions,  \* transaction ids
          Flows,         \* flow types
          Requests,      \* the HTTP requests of a run
          Faults         \* what may go wrong: a subset of AllFaults

AllFaults == {"db", "kafka", "crash"}

ASSUME FaultsAssumption == Faults \subseteq AllFaults

VARIABLES queue,   \* the rows of recovery_queue, in order of insertion
          clock,   \* number of created_at values handed out
          call,    \* what each request asks of which worker (never changes)
          pc,      \* progress of each request
          item,    \* row a request loaded or inserted, 0 if none
          held,    \* value held between SELECT and COMMIT
          reply,   \* answer given to each request
          topic    \* messages on carop.recovery.queued and .replayed

vars == <<queue, clock, call, pc, item, held, reply, topic>>

Keys == Transactions \X Flows

\* sha256("<transaction>:<flow>"): injective, since no flow type holds a ':'.
DedupKey(t, f) == <<t, f>>

Calls == [op : {"queue", "replay"}, worker : Workers,
          txn : Transactions, flow : Flows]

Rows == [txn : Transactions, flow : Flows, status : {"queued", "replayed"},
         retry_count : Nat, created_at : Nat]

InSession == {"looked", "selected"}     \* between SELECT and COMMIT
Finished  == {"done", "dropped", "lost"}

PCs == {"new", "committed"} \cup InSession \cup Finished

Replies == {"none", "queued", "already_queued", "replayed", "404", "500"}

Messages == [event : {"queued", "replayed"}, item : Nat, by : Requests]

TypeOK ==
  /\ queue \in Seq(Rows)
  /\ clock \in Nat
  /\ call \in [Requests -> Calls]
  /\ pc \in [Requests -> PCs]
  /\ item \in [Requests -> Nat]
  /\ held \in [Requests -> Nat]
  /\ reply \in [Requests -> Replies]
  /\ topic \subseteq Messages

KeyOf(i) == DedupKey(queue[i].txn, queue[i].flow)

WithKey(t, f) == {i \in DOMAIN queue : KeyOf(i) = DedupKey(t, f)}

\* Mutant: the query forgets the status filter.
AnyStatusOf(t) == {i \in DOMAIN queue : queue[i].txn = t}

QueuedOf(t) == {i \in DOMAIN queue : /\ queue[i].txn = t
                                     /\ queue[i].status = "queued"}

\* order_by(created_at.asc()).first()
IsOldest(i, S) == /\ i \in S
                  /\ \A j \in S : queue[i].created_at <= queue[j].created_at

\* Mutant: a handler awaits between its SELECT and its COMMIT.
AlwaysFree(w) == w \in Workers

\* No handler of worker w is inside its database section.
Free(w) == \A r \in Requests : call[r].worker = w => pc[r] \notin InSession

Starts(r, op) == /\ call[r].op = op
                 /\ pc[r] = "new"
                 /\ Free(call[r].worker)

Answer(r, text) == /\ pc' = [pc EXCEPT ![r] = "done"]
                   /\ reply' = [reply EXCEPT ![r] = text]

-------------------------------------------------------------------------------
(* POST /api/v1/recovery/queue/{transaction_id}                            *)

QueueAlready(r) ==
  /\ Starts(r, "queue")
  /\ WithKey(call[r].txn, call[r].flow) # {}
  /\ Answer(r, "already_queued")
  /\ UNCHANGED <<queue, clock, call, item, held, topic>>

QueueLookup(r) ==
  /\ Starts(r, "queue")
  /\ WithKey(call[r].txn, call[r].flow) = {}
  /\ pc' = [pc EXCEPT ![r] = "looked"]
  /\ held' = [held EXCEPT ![r] = clock]
  /\ clock' = clock + 1
  /\ UNCHANGED <<queue, call, item, reply, topic>>

NewRow(r) == [txn |-> call[r].txn, flow |-> call[r].flow, status |-> "queued",
              retry_count |-> 0, created_at |-> held[r]]

InsertRow(r) ==
  /\ queue' = Append(queue, NewRow(r))
  /\ item' = [item EXCEPT ![r] = Len(queue) + 1]

QueueInsert(r) ==
  /\ pc[r] = "looked"
  /\ InsertRow(r)
  /\ pc' = [pc EXCEPT ![r] = "committed"]
  /\ UNCHANGED <<clock, call, held, reply, topic>>

\* The unique index on dedup_key raises IntegrityError, which nothing catches.
QueueConflict(r) ==
  /\ pc[r] = "looked"
  /\ Answer(r, "500")
  /\ UNCHANGED <<queue, clock, call, item, held, topic>>

\* Mutant: dedup_key without its unique constraint.
QueueCommitUnchecked(r) == QueueInsert(r)

\* The COMMIT; the SELECT may be out of date by then.
QueueCommit(r) == IF WithKey(call[r].txn, call[r].flow) = {}
                  THEN QueueInsert(r) ELSE QueueConflict(r)

-------------------------------------------------------------------------------
(* POST /api/v1/recovery/replay/{transaction_id}                           *)

ReplayMissing(r) ==
  /\ Starts(r, "replay")
  /\ QueuedOf(call[r].txn) = {}
  /\ Answer(r, "404")
  /\ UNCHANGED <<queue, clock, call, item, held, topic>>

\* Mutant: the query forgets its order_by.
ReplaySelectAny(r) ==
  /\ Starts(r, "replay")
  /\ \E i \in QueuedOf(call[r].txn) :
       /\ item' = [item EXCEPT ![r] = i]
       /\ held' = [held EXCEPT ![r] = queue[i].retry_count]
  /\ pc' = [pc EXCEPT ![r] = "selected"]
  /\ UNCHANGED <<queue, clock, call, reply, topic>>

ReplaySelect(r) ==
  /\ Starts(r, "replay")
  /\ \E i \in DOMAIN queue :
       /\ IsOldest(i, QueuedOf(call[r].txn))
       /\ item' = [item EXCEPT ![r] = i]
       /\ held' = [held EXCEPT ![r] = queue[i].retry_count]
  /\ pc' = [pc EXCEPT ![r] = "selected"]
  /\ UNCHANGED <<queue, clock, call, reply, topic>>

\* Mutant: the replay does not count itself.
UpdateRowUncounted(r) ==
  queue' = [queue EXCEPT ![item[r]].status = "replayed"]

\* UPDATE ... WHERE id: the row is not read again, and the counter written is
\* the one computed from the value loaded by the SELECT.
UpdateRow(r) ==
  queue' = [queue EXCEPT ![item[r]].status = "replayed",
                         ![item[r]].retry_count = held[r] + 1]

ReplayCommit(r) ==
  /\ pc[r] = "selected"
  /\ UpdateRow(r)
  /\ pc' = [pc EXCEPT ![r] = "committed"]
  /\ UNCHANGED <<clock, call, item, held, reply, topic>>

-------------------------------------------------------------------------------
(* After COMMIT: publish() returns False on any failure and its result is  *)
(* ignored, so the reply is the same either way.                           *)

EventOf(r) == IF call[r].op = "queue" THEN "queued" ELSE "replayed"

\* Mutant: the replay is announced before its COMMIT.
PublishEarly(r) ==
  /\ pc[r] \in {"committed", "selected"}
  /\ topic' = topic \cup {[event |-> EventOf(r), item |-> item[r], by |-> r]}
  /\ Answer(r, EventOf(r))
  /\ UNCHANGED <<queue, clock, call, item, held>>

Publish(r) ==
  /\ pc[r] = "committed"
  /\ topic' = topic \cup {[event |-> EventOf(r), item |-> item[r], by |-> r]}
  /\ Answer(r, EventOf(r))
  /\ UNCHANGED <<queue, clock, call, item, held>>

PublishFails(r) ==
  /\ "kafka" \in Faults
  /\ pc[r] = "committed"
  /\ Answer(r, EventOf(r))
  /\ UNCHANGED <<queue, clock, call, item, held, topic>>

\* The database refuses the write: the session is closed, the reply is a 500.
DbRefuses(r) ==
  /\ "db" \in Faults
  /\ pc[r] \in InSession
  /\ item' = [item EXCEPT ![r] = 0]
  /\ Answer(r, "500")
  /\ UNCHANGED <<queue, clock, call, held, topic>>

\* The connection breaks after the COMMIT took effect: the handler sees the
\* exception, replies 500 and publishes nothing, but the row is written.
DbLosesAck(r) ==
  /\ "db" \in Faults
  /\ \/ /\ pc[r] = "looked"
        /\ WithKey(call[r].txn, call[r].flow) = {}
        /\ InsertRow(r)
     \/ /\ pc[r] = "selected"
        /\ UpdateRow(r)
        /\ UNCHANGED item
  /\ Answer(r, "500")
  /\ UNCHANGED <<clock, call, held, topic>>

\* The process dies: an open transaction is rolled back ("dropped"), a
\* committed one loses its publication and its reply ("lost").
Crash(w) ==
  /\ "crash" \in Faults
  /\ \E r \in Requests : call[r].worker = w /\ pc[r] \in InSession \cup {"committed"}
  /\ pc' = [r \in Requests |->
             IF call[r].worker # w THEN pc[r]
             ELSE IF pc[r] \in InSession THEN "dropped"
             ELSE IF pc[r] = "committed" THEN "lost" ELSE pc[r]]
  /\ item' = [r \in Requests |->
               IF call[r].worker = w /\ pc[r] \in InSession THEN 0 ELSE item[r]]
  /\ UNCHANGED <<queue, clock, call, held, reply, topic>>

-------------------------------------------------------------------------------
Init ==
  /\ queue = <<>>
  /\ clock = 0
  /\ call \in [Requests -> Calls]
  /\ pc = [r \in Requests |-> "new"]
  /\ item = [r \in Requests |-> 0]
  /\ held = [r \in Requests |-> 0]
  /\ reply = [r \in Requests |-> "none"]
  /\ topic = {}

QueueTransaction(r) ==
  QueueAlready(r) \/ QueueLookup(r) \/ QueueCommit(r)

ReplayTransaction(r) == ReplayMissing(r) \/ ReplaySelect(r) \/ ReplayCommit(r)

Fault(r) == PublishFails(r) \/ DbRefuses(r) \/ DbLosesAck(r)

Next == \/ \E r \in Requests : QueueTransaction(r) \/ ReplayTransaction(r)
                               \/ Publish(r) \/ Fault(r)
        \/ \E w \in Workers : Crash(w)

Spec == Init /\ [][Next]_vars

-------------------------------------------------------------------------------
(* Request r wrote its row: it inserted or replayed item[r].               *)
Wrote(r, op) == /\ call[r].op = op
                /\ item[r] # 0
                /\ pc[r] \in {"committed", "done", "lost"}

Replayers(i) == {r \in Requests : Wrote(r, "replay") /\ item[r] = i}

\* One row per deduplication key, and each row inserted by one request:
\* two workers that both missed the key in their SELECT do not both insert.
OneRowPerKey ==
  /\ \A i, j \in DOMAIN queue : KeyOf(i) = KeyOf(j) => i = j
  /\ \A r, s \in Requests :
       Wrote(r, "queue") /\ Wrote(s, "queue") /\ item[r] = item[s] => r = s

\* A recovery row is replayed by at most one request, however requests
\* interleave: a second replay would recover the same sale twice.
ReplayedAtMostOnce ==
  \A r, s \in Requests :
    Wrote(r, "replay") /\ Wrote(s, "replay") /\ item[r] = item[s] => r = s

\* No message runs ahead of the table: a "queued" message names a row that is
\* there, a "replayed" message one that is marked replayed, and the publisher
\* is the request that wrote it.
MessagesFollowCommits ==
  \A m \in topic :
    /\ m.item \in DOMAIN queue
    /\ item[m.by] = m.item
    /\ m.event = "replayed" => queue[m.item].status = "replayed"

\* retry_count of a row is the number of replays performed on it.
RetryCountExact ==
  \A i \in DOMAIN queue :
    \/ queue[i].retry_count = 0 /\ Replayers(i) = {}
    \/ queue[i].retry_count = 1 /\ \E r \in Requests : Replayers(i) = {r}

\* The row a step turns from queued to replayed is the oldest queued one of
\* its transaction (order_by created_at), even if older ones appeared since
\* the SELECT.
OldestReplayedFirst ==
  [][\A i \in DOMAIN queue :
       queue[i].status = "queued" /\ queue'[i].status = "replayed"
         => IsOldest(i, QueuedOf(queue[i].txn))]_vars

-------------------------------------------------------------------------------
(* The promise of RecoveryContract, read off the table and the requests.   *)
StatusOf(k) ==
  LET rows == {i \in DOMAIN queue : KeyOf(i) = k}
  IN  IF rows = {} THEN "absent" ELSE queue[CHOOSE i \in rows : TRUE].status

ReplayersOf(k) ==
  {r \in Requests : Wrote(r, "replay") /\ KeyOf(item[r]) = k}

Contract == INSTANCE RecoveryContract
              WITH Clients <- Requests,
                   status <- [k \in Keys |-> StatusOf(k)],
                   replayedBy <- [k \in Keys |-> ReplayersOf(k)]

ImplementsContract == Contract!Spec
===============================================================================
