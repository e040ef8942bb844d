---------------------------- MODULE RecoveryProofs ----------------------------
(***************************************************************************)
(* What RecoveryQueue guarantees for any number of workers, requests and   *)
(* transactions, and what it guarantees only when one process serves; then *)
(* the same for the closed loop, with any number of records.               *)
(*                                                                         *)
(* What is proved of the consumer and of the recovery queue on their own   *)
(* carries over to the loop: each of its steps is a step of one of them,   *)
(* of both or of none.                                                     *)
(***************************************************************************)
EXTENDS ClosedLoop, TLAPS

\* What the progress of a request says about the row it holds.
Phases ==
  \A r \in Requests :
    /\ pc[r] \in {"new", "looked"} => item[r] = 0
    /\ pc[r] = "looked" => call[r].op = "queue"
    /\ pc[r] = "selected" => call[r].op = "replay"
    /\ pc[r] \in {"selected", "committed"} => item[r] # 0
    /\ item[r] # 0 => item[r] \in DOMAIN queue
    /\ Wrote(r, "replay") => queue[item[r]].status = "replayed"

\* What a message says about the request that published it.
Announced ==
  \A m \in topic : /\ pc[m.by] = "done"
                   /\ m.item # 0
                   /\ item[m.by] = m.item
                   /\ m.event = EventOf(m.by)

TableInv == TypeOK /\ Phases /\ Announced /\ OneRowPerKey

-------------------------------------------------------------------------------
(* The two writes of the table.                                            *)

\* An INSERT adds one row and leaves the others alone.
LEMMA InsertEffect ==
  ASSUME TypeOK, NEW r \in Requests, call[r] \in Calls, held[r] \in Nat, InsertRow(r)
  PROVE  /\ queue' \in Seq(Rows)
         /\ DOMAIN queue' = DOMAIN queue \cup {Len(queue) + 1}
         /\ Len(queue) + 1 \notin DOMAIN queue
         /\ Len(queue) + 1 \in Nat \ {0}
         /\ \A i \in DOMAIN queue : queue'[i] = queue[i]
         /\ queue'[Len(queue) + 1] = NewRow(r)
         /\ item' = [item EXCEPT ![r] = Len(queue) + 1]
<1>1. NewRow(r) \in Rows
  BY DEF NewRow, Rows, Calls
<1>2. queue \in Seq(Rows)
  BY DEF TypeOK
<1>3. queue' = Append(queue, NewRow(r)) /\ item' = [item EXCEPT ![r] = Len(queue) + 1]
  BY DEF InsertRow
<1>4. DOMAIN queue = 1 .. Len(queue) /\ Len(queue) \in Nat
  BY <1>2
<1>5. /\ queue' \in Seq(Rows)
      /\ Len(queue') = Len(queue) + 1
      /\ \A i \in 1 .. Len(queue) : queue'[i] = queue[i]
      /\ queue'[Len(queue) + 1] = NewRow(r)
  BY <1>1, <1>2, <1>3
<1>6. DOMAIN queue' = 1 .. (Len(queue) + 1)
  BY <1>5
<1> QED
  BY <1>3, <1>4, <1>5, <1>6

\* An UPDATE marks one row replayed and leaves everything else alone.
LEMMA UpdateEffect ==
  ASSUME TypeOK, NEW r \in Requests, held[r] \in Nat, item[r] \in DOMAIN queue,
         UpdateRow(r)
  PROVE  /\ queue' \in Seq(Rows)
         /\ DOMAIN queue' = DOMAIN queue
         /\ \A i \in DOMAIN queue :
              /\ queue'[i].txn = queue[i].txn
              /\ queue'[i].flow = queue[i].flow
              /\ i # item[r] => queue'[i] = queue[i]
         /\ queue'[item[r]].status = "replayed"
         /\ queue'[item[r]].retry_count = held[r] + 1
<1> DEFINE old == queue[item[r]]
           row == [old EXCEPT !.status = "replayed", !.retry_count = held[r] + 1]
<1>1. queue \in Seq(Rows) /\ old \in Rows
  BY DEF TypeOK
<1>2. queue' = [queue EXCEPT ![item[r]] = row]
  BY <1>1 DEF UpdateRow, Rows
<1>3. held[r] + 1 \in Nat
  OBVIOUS
<1> HIDE DEF old
<1>4. row \in Rows
  BY <1>1, <1>3, Zenon DEF Rows
<1>5. /\ row.status = "replayed"
      /\ row.retry_count = held[r] + 1
      /\ row.txn = old.txn
      /\ row.flow = old.flow
  BY <1>1, <1>3, Zenon DEF Rows
<1> HIDE DEF row
<1>6. DOMAIN queue' = DOMAIN queue /\ queue' \in Seq(Rows)
  BY <1>1, <1>2, <1>4
<1>7. queue'[item[r]] = row /\ \A i \in DOMAIN queue : i # item[r] => queue'[i] = queue[i]
  BY <1>1, <1>2
<1> QED
  BY <1>5, <1>6, <1>7 DEF old

-------------------------------------------------------------------------------
(* TableInv holds at the start and every step keeps it.                    *)

LEMMA TableInit == Init => TableInv
BY DEF Init, TableInv, TypeOK, Rows, Calls, PCs, Replies, Phases, Announced,
       OneRowPerKey, KeyOf, Wrote

\* The INSERT of a request that found no row with its key, seen by the handler
\* ("committed") or not ("done").
LEMMA InsertKeepsTable ==
  ASSUME TableInv, NEW r \in Requests, NEW p \in {"committed", "done"},
         pc[r] = "looked", WithKey(call[r].txn, call[r].flow) = {},
         InsertRow(r), pc' = [pc EXCEPT ![r] = p],
         reply' \in [Requests -> Replies], UNCHANGED <<clock, call, held, topic>>
  PROVE  TableInv'
<1> USE DEF TableInv
<1>1. call[r] \in Calls /\ held[r] \in Nat /\ call[r].op = "queue" /\ item[r] = 0
  BY DEF TypeOK, Phases
<1>2. /\ queue' \in Seq(Rows)
      /\ DOMAIN queue' = DOMAIN queue \cup {Len(queue) + 1}
      /\ Len(queue) + 1 \notin DOMAIN queue
      /\ Len(queue) + 1 \in Nat \ {0}
      /\ \A i \in DOMAIN queue : queue'[i] = queue[i]
      /\ queue'[Len(queue) + 1] = NewRow(r)
      /\ item' = [item EXCEPT ![r] = Len(queue) + 1]
  BY <1>1, InsertEffect
<1>3. PICK new \in Nat \ {0} :
        /\ DOMAIN queue' = DOMAIN queue \cup {new}
        /\ new \notin DOMAIN queue
        /\ \A i \in DOMAIN queue : queue'[i] = queue[i]
        /\ queue'[new] = NewRow(r)
        /\ item' = [item EXCEPT ![r] = new]
  BY <1>2
<1>4. TypeOK'
  BY <1>2, <1>3 DEF TypeOK, PCs, Finished
<1>5. Phases'
  BY <1>1, <1>3 DEF TypeOK, Phases, Wrote
<1>6. Announced'
  BY <1>1, <1>3 DEF TypeOK, Announced, EventOf, Messages
<1>7. \A i, j \in DOMAIN queue' : KeyOf(i)' = KeyOf(j)' => i = j
  <2>1. \A i \in DOMAIN queue : KeyOf(i)' = KeyOf(i)
    BY <1>3 DEF KeyOf
  <2>2. KeyOf(new)' = DedupKey(call[r].txn, call[r].flow)
    BY <1>3 DEF KeyOf, NewRow
  <2>3. \A i \in DOMAIN queue : KeyOf(i) # DedupKey(call[r].txn, call[r].flow)
    BY DEF WithKey
  <2> QED
    BY <1>3, <2>1, <2>2, <2>3 DEF OneRowPerKey
<1>8. ASSUME NEW q \in Requests, NEW t \in Requests,
             Wrote(q, "queue")', Wrote(t, "queue")', item'[q] = item'[t]
      PROVE  q = t
  <2>1. \A u \in Requests : u # r => item'[u] # new /\ (Wrote(u, "queue")' <=> Wrote(u, "queue"))
    BY <1>3 DEF TypeOK, Phases, Wrote
  <2>2. item'[r] = new
    BY <1>3 DEF TypeOK
  <2>3. \A u \in Requests : u # r => item'[u] = item[u]
    BY <1>3 DEF TypeOK
  <2> QED
    BY <1>8, <2>1, <2>2, <2>3 DEF OneRowPerKey
<1>9. OneRowPerKey'
  BY <1>7, <1>8 DEF OneRowPerKey
<1> QED
  BY <1>4, <1>5, <1>6, <1>9

\* The UPDATE of a request that selected its row, seen by the handler or not.
LEMMA UpdateKeepsTable ==
  ASSUME TableInv, NEW r \in Requests, NEW p \in {"committed", "done"},
         pc[r] = "selected", UpdateRow(r), pc' = [pc EXCEPT ![r] = p],
         reply' \in [Requests -> Replies], UNCHANGED <<clock, call, item, held, topic>>
  PROVE  TableInv'
<1> USE DEF TableInv
<1>1. item[r] \in DOMAIN queue /\ held[r] \in Nat /\ call[r].op = "replay"
  BY DEF TypeOK, Phases
<1>2. /\ queue' \in Seq(Rows)
      /\ DOMAIN queue' = DOMAIN queue
      /\ \A i \in DOMAIN queue : /\ queue'[i].txn = queue[i].txn
                                 /\ queue'[i].flow = queue[i].flow
                                 /\ i # item[r] => queue'[i] = queue[i]
      /\ queue'[item[r]].status = "replayed"
  BY <1>1, UpdateEffect
<1>3. TypeOK'
  BY <1>2 DEF TypeOK, PCs, Finished
<1>4. Phases'
  BY <1>1, <1>2 DEF TypeOK, Phases, Wrote
<1>5. Announced'
  BY <1>1 DEF TypeOK, Announced, EventOf, Messages
<1>6. OneRowPerKey'
  BY <1>1, <1>2 DEF TypeOK, OneRowPerKey, KeyOf, DedupKey, Wrote
<1> QED
  BY <1>3, <1>4, <1>5, <1>6

LEMMA TableStep == TableInv /\ [Next]_vars => TableInv'
<1> SUFFICES ASSUME TableInv, [Next]_vars  PROVE TableInv'
  OBVIOUS
<1> USE DEF TableInv
<1>1. ASSUME NEW r \in Requests, QueueAlready(r)  PROVE TableInv'
  <2> USE <1>1 DEF QueueAlready, Starts, Answer
  <2>1. TypeOK'
    BY DEF TypeOK, Calls, PCs, InSession, Finished, Replies
  <2>2. Phases'
    BY DEF TypeOK, Phases, Wrote
  <2>3. Announced'
    BY DEF TypeOK, Announced, EventOf, Messages, PCs, Phases
  <2>4. OneRowPerKey'
    BY DEF TypeOK, OneRowPerKey, KeyOf, Wrote, Phases
  <2> QED
    BY <2>1, <2>2, <2>3, <2>4 DEF TableInv
<1>2. ASSUME NEW r \in Requests, QueueLookup(r)  PROVE TableInv'
  <2> USE <1>2 DEF QueueLookup, Starts
  <2>1. TypeOK'
    BY DEF TypeOK, Calls, PCs, InSession, Finished, Replies
  <2>2. Phases'
    BY DEF TypeOK, Phases, Wrote
  <2>3. Announced'
    BY DEF TypeOK, Announced, EventOf, Messages, PCs, Phases
  <2>4. OneRowPerKey'
    BY DEF TypeOK, OneRowPerKey, KeyOf, Wrote, Phases
  <2> QED
    BY <2>1, <2>2, <2>3, <2>4 DEF TableInv
<1>3. ASSUME NEW r \in Requests, QueueConflict(r)  PROVE TableInv'
  <2> USE <1>3 DEF QueueConflict, Answer
  <2>1. TypeOK'
    BY DEF TypeOK, Calls, PCs, InSession, Finished, Replies
  <2>2. Phases'
    BY DEF TypeOK, Phases, Wrote
  <2>3. Announced'
    BY DEF TypeOK, Announced, EventOf, Messages, PCs, Phases
  <2>4. OneRowPerKey'
    BY DEF TypeOK, OneRowPerKey, KeyOf, Wrote, Phases
  <2> QED
    BY <2>1, <2>2, <2>3, <2>4 DEF TableInv
<1>4. ASSUME NEW r \in Requests, ReplayMissing(r)  PROVE TableInv'
  <2> USE <1>4 DEF ReplayMissing, Starts, Answer
  <2>1. TypeOK'
    BY DEF TypeOK, Calls, PCs, InSession, Finished, Replies
  <2>2. Phases'
    BY DEF TypeOK, Phases, Wrote
  <2>3. Announced'
    BY DEF TypeOK, Announced, EventOf, Messages, PCs, Phases
  <2>4. OneRowPerKey'
    BY DEF TypeOK, OneRowPerKey, KeyOf, Wrote, Phases
  <2> QED
    BY <2>1, <2>2, <2>3, <2>4 DEF TableInv
<1>5. ASSUME NEW r \in Requests, ReplaySelect(r)  PROVE TableInv'
  <2> USE DEF ReplaySelect, Starts, IsOldest, QueuedOf
  <2>0. PICK i \in DOMAIN queue : item' = [item EXCEPT ![r] = i]
                                /\ held' = [held EXCEPT ![r] = queue[i].retry_count]
    BY <1>5
  <2>1. TypeOK'
    <3>1. queue[i] \in Rows /\ i \in Nat
      BY DEF TypeOK
    <3>2. queue[i].retry_count \in Nat
      BY <3>1 DEF Rows
    <3> QED
      BY <1>5, <2>0, <3>1, <3>2 DEF TypeOK, PCs, InSession
  <2> USE <1>5
  <2>2. Phases'
    BY DEF TypeOK, Phases, Wrote
  <2>3. Announced'
    BY DEF TypeOK, Announced, EventOf, Messages, PCs, Phases
  <2>4. OneRowPerKey'
    BY DEF TypeOK, OneRowPerKey, KeyOf, Wrote, Phases
  <2> QED
    BY <2>1, <2>2, <2>3, <2>4 DEF TableInv
<1>6. ASSUME NEW r \in Requests, Publish(r)  PROVE TableInv'
  <2> USE <1>6 DEF Publish, Answer, EventOf
  <2>1. TypeOK'
    BY DEF TypeOK, Calls, PCs, InSession, Finished, Replies, Messages
  <2>2. Phases'
    BY DEF TypeOK, Phases, Wrote
  <2>3. Announced'
    BY DEF TypeOK, Announced, EventOf, Messages, PCs, Phases
  <2>4. OneRowPerKey'
    BY DEF TypeOK, OneRowPerKey, KeyOf, Wrote, Phases
  <2> QED
    BY <2>1, <2>2, <2>3, <2>4 DEF TableInv
<1>7. ASSUME NEW r \in Requests, PublishFails(r)  PROVE TableInv'
  <2> USE <1>7 DEF PublishFails, Answer, EventOf
  <2>1. TypeOK'
    BY DEF TypeOK, Calls, PCs, InSession, Finished, Replies
  <2>2. Phases'
    BY DEF TypeOK, Phases, Wrote
  <2>3. Announced'
    BY DEF TypeOK, Announced, EventOf, Messages, PCs, Phases
  <2>4. OneRowPerKey'
    BY DEF TypeOK, OneRowPerKey, KeyOf, Wrote, Phases
  <2> QED
    BY <2>1, <2>2, <2>3, <2>4 DEF TableInv
<1>8. ASSUME NEW r \in Requests, DbRefuses(r)  PROVE TableInv'
  <2> USE <1>8 DEF DbRefuses, InSession, Answer
  <2>1. TypeOK'
    BY DEF TypeOK, Calls, PCs, InSession, Finished, Replies
  <2>2. Phases'
    BY DEF TypeOK, Phases, Wrote
  <2>3. Announced'
    BY DEF TypeOK, Announced, EventOf, Messages, PCs, Phases
  <2>4. OneRowPerKey'
    BY DEF TypeOK, OneRowPerKey, KeyOf, Wrote, Phases
  <2> QED
    BY <2>1, <2>2, <2>3, <2>4 DEF TableInv
<1>9. ASSUME NEW r \in Requests, WithKey(call[r].txn, call[r].flow) = {}, QueueInsert(r)
      PROVE  TableInv'
  <2>1. reply' \in [Requests -> Replies]
    BY <1>9 DEF QueueInsert, TypeOK
  <2> QED
    BY <1>9, <2>1, InsertKeepsTable DEF QueueInsert
<1>10. ASSUME NEW r \in Requests, ReplayCommit(r)  PROVE TableInv'
  <2>1. reply' \in [Requests -> Replies]
    BY <1>10 DEF ReplayCommit, TypeOK
  <2> QED
    BY <1>10, <2>1, UpdateKeepsTable DEF ReplayCommit
<1>11. ASSUME NEW r \in Requests, DbLosesAck(r)  PROVE TableInv'
  <2>1. reply' \in [Requests -> Replies] /\ pc' = [pc EXCEPT ![r] = "done"]
    BY <1>11 DEF DbLosesAck, Answer, TypeOK, Replies
  <2>2. CASE pc[r] = "looked"
    BY <1>11, <2>1, <2>2, InsertKeepsTable DEF DbLosesAck
  <2>3. CASE pc[r] = "selected"
    BY <1>11, <2>1, <2>3, UpdateKeepsTable DEF DbLosesAck
  <2> QED
    BY <1>11, <2>2, <2>3 DEF DbLosesAck
<1>12. ASSUME NEW w \in Workers, Crash(w)  PROVE TableInv'
  <2> USE <1>12 DEF Crash
  <2>1. TypeOK'
    BY DEF TypeOK, PCs, InSession, Finished
  <2>2. Phases'
    BY DEF TypeOK, Phases, Wrote, InSession
  <2>3. Announced'
    BY DEF TypeOK, Announced, EventOf, Messages, InSession
  <2>4. OneRowPerKey'
    BY DEF TypeOK, OneRowPerKey, KeyOf, Wrote, InSession
  <2> QED
    BY <2>1, <2>2, <2>3, <2>4 DEF TableInv
<1>13. CASE UNCHANGED vars
  BY <1>13 DEF vars, TypeOK, Phases, Wrote, Announced, EventOf, OneRowPerKey, KeyOf
<1> QED
  BY <1>1, <1>2, <1>3, <1>4, <1>5, <1>6, <1>7, <1>8, <1>9, <1>10, <1>11, <1>12, <1>13
     DEF Next, QueueTransaction, QueueCommit, ReplayTransaction, Fault

\* TypeOK, for every number of workers, requests and transactions: the table,
\* the requests and the messages keep the shapes the handlers rely on.
THEOREM TypeCorrect == Spec => []TypeOK
<1>1. Spec => []TableInv
  BY TableInit, TableStep, PTL DEF Spec
<1> QED
  BY <1>1, PTL DEF TableInv

\* However many workers queue the same transaction at once, the unique index
\* leaves one row per deduplication key, inserted by one request.
THEOREM DeduplicationCorrect == Spec => []OneRowPerKey
<1>1. Spec => []TableInv
  BY TableInit, TableStep, PTL DEF Spec
<1> QED
  BY <1>1, PTL DEF TableInv

\* A message on the recovery topics never runs ahead of the table, whatever
\* the broker, the database and the processes do.
THEOREM AnnouncementsCorrect == Spec => []MessagesFollowCommits
<1>1. TableInv => MessagesFollowCommits
  BY DEF TableInv, TypeOK, Phases, Announced, MessagesFollowCommits, Wrote,
         EventOf, Messages, Calls
<1>2. Spec => []TableInv
  BY TableInit, TableStep, PTL DEF Spec
<1> QED
  BY <1>1, <1>2, PTL

-------------------------------------------------------------------------------
(* What the absence of awaits between SELECT and COMMIT buys when a single *)
(* process serves.                                                         *)

SingleWorker == \A v, w \in Workers : v = w

\* At most one request is between SELECT and COMMIT, and what it read is
\* still true; a row and the requests that replayed it agree.
Serial ==
  /\ \A r, s \in Requests : pc[r] \in InSession /\ pc[s] \in InSession => r = s
  /\ \A r \in Requests :
       pc[r] = "selected" => /\ IsOldest(item[r], QueuedOf(call[r].txn))
                             /\ held[r] = 0
  /\ \A i \in DOMAIN queue :
       \/ queue[i].status = "queued" /\ queue[i].retry_count = 0
       \/ /\ queue[i].status = "replayed" /\ queue[i].retry_count = 1
          /\ \E r \in Requests : Wrote(r, "replay") /\ item[r] = i
  /\ ReplayedAtMostOnce

SerialInv == SingleWorker => Serial

LEMMA SerialInit == Init => SerialInv
BY DEF Init, SerialInv, Serial, InSession, Wrote, ReplayedAtMostOnce

\* An INSERT during no other request's session.
LEMMA InsertKeepsSerial ==
  ASSUME TableInv, Serial, NEW r \in Requests, NEW p \in {"committed", "done"},
         pc[r] = "looked", InsertRow(r), pc' = [pc EXCEPT ![r] = p],
         UNCHANGED <<call, held>>
  PROVE  Serial'
<1> USE DEF TableInv
<1>1. call[r] \in Calls /\ held[r] \in Nat /\ call[r].op = "queue" /\ item[r] = 0
  BY DEF TypeOK, Phases
<1>2. PICK new \in Nat \ {0} :
        /\ DOMAIN queue' = DOMAIN queue \cup {new}
        /\ new \notin DOMAIN queue
        /\ \A i \in DOMAIN queue : queue'[i] = queue[i]
        /\ queue'[new] = NewRow(r)
        /\ item' = [item EXCEPT ![r] = new]
  BY <1>1, InsertEffect
<1>3. \A s \in Requests : pc'[s] \notin InSession
  BY DEF Serial, TypeOK, InSession
<1>4. \A s \in Requests : /\ Wrote(s, "replay")' <=> Wrote(s, "replay")
                          /\ Wrote(s, "replay") => item'[s] = item[s]
  BY <1>1, <1>2 DEF TypeOK, Wrote
<1>5. \A i \in DOMAIN queue' :
       \/ queue'[i].status = "queued" /\ queue'[i].retry_count = 0
       \/ /\ queue'[i].status = "replayed" /\ queue'[i].retry_count = 1
          /\ \E s \in Requests : Wrote(s, "replay")' /\ item'[s] = i
  BY <1>2, <1>4 DEF Serial, NewRow
<1>6. ReplayedAtMostOnce'
  BY <1>4 DEF Serial, ReplayedAtMostOnce
<1> QED
  BY <1>3, <1>5, <1>6 DEF Serial, InSession

\* An UPDATE of a row that is still queued, hence replayed by nobody yet.
LEMMA UpdateKeepsSerial ==
  ASSUME TableInv, Serial, NEW r \in Requests, NEW p \in {"committed", "done"},
         pc[r] = "selected", UpdateRow(r), pc' = [pc EXCEPT ![r] = p],
         UNCHANGED <<call, item, held>>
  PROVE  Serial'
<1> USE DEF TableInv
<1>1. item[r] \in DOMAIN queue /\ held[r] = 0 /\ call[r].op = "replay" /\ item[r] # 0
  BY DEF TypeOK, Phases, Serial
<1>2. /\ DOMAIN queue' = DOMAIN queue
      /\ \A i \in DOMAIN queue : i # item[r] => queue'[i] = queue[i]
      /\ queue'[item[r]].status = "replayed"
      /\ queue'[item[r]].retry_count = 1
  BY <1>1, UpdateEffect
<1>3. \A s \in Requests : pc'[s] \notin InSession
  BY DEF Serial, TypeOK, InSession
<1>4. /\ Wrote(r, "replay")'
      /\ \A s \in Requests : s # r => (Wrote(s, "replay")' <=> Wrote(s, "replay"))
  BY <1>1 DEF TypeOK, Wrote
<1>5. \A s \in Requests : Wrote(s, "replay") => item[s] # item[r]
  BY DEF Serial, IsOldest, QueuedOf, Phases
<1>6. \A i \in DOMAIN queue' :
       \/ queue'[i].status = "queued" /\ queue'[i].retry_count = 0
       \/ /\ queue'[i].status = "replayed" /\ queue'[i].retry_count = 1
          /\ \E s \in Requests : Wrote(s, "replay")' /\ item'[s] = i
  <2> SUFFICES ASSUME NEW i \in DOMAIN queue, i # item[r]
               PROVE  \/ queue[i].status = "queued" /\ queue[i].retry_count = 0
                      \/ /\ queue[i].status = "replayed" /\ queue[i].retry_count = 1
                         /\ \E s \in Requests : Wrote(s, "replay")' /\ item[s] = i
    BY <1>2, <1>4
  <2>1. CASE \E s \in Requests : Wrote(s, "replay") /\ item[s] = i
    BY <1>4, <2>1 DEF Serial
  <2>2. CASE ~ \E s \in Requests : Wrote(s, "replay") /\ item[s] = i
    BY <2>2 DEF Serial
  <2> QED
    BY <2>1, <2>2
<1>7. ReplayedAtMostOnce'
  BY <1>4, <1>5 DEF Serial, ReplayedAtMostOnce
<1> QED
  BY <1>3, <1>6, <1>7 DEF Serial, InSession

\* A step that writes no row and lets no second request into a session.
LEMMA QuietKeepsSerial ==
  ASSUME Serial, UNCHANGED <<queue, call>>,
         \A r, s \in Requests : pc'[r] \in InSession /\ pc'[s] \in InSession => r = s,
         \A r \in Requests :
           pc'[r] = "selected" => /\ IsOldest(item'[r], QueuedOf(call[r].txn))
                                  /\ held'[r] = 0,
         \A r \in Requests : /\ Wrote(r, "replay")' <=> Wrote(r, "replay")
                             /\ Wrote(r, "replay") => item'[r] = item[r]
  PROVE  Serial'
<1>1. \A i \in DOMAIN queue :
       \/ queue[i].status = "queued" /\ queue[i].retry_count = 0
       \/ /\ queue[i].status = "replayed" /\ queue[i].retry_count = 1
          /\ \E r \in Requests : Wrote(r, "replay")' /\ item'[r] = i
  BY DEF Serial
<1>2. ReplayedAtMostOnce'
  BY DEF Serial, ReplayedAtMostOnce
<1>3. \A r \in Requests : pc'[r] = "selected" => IsOldest(item[r], QueuedOf(call[r].txn))'
  BY DEF IsOldest, QueuedOf
<1> QED
  BY <1>1, <1>2, <1>3 DEF Serial, InSession

LEMMA SerialStep == TableInv /\ SerialInv /\ [Next]_vars => SerialInv'
<1> SUFFICES ASSUME TableInv, SingleWorker, Serial, [Next]_vars  PROVE Serial'
  BY DEF SerialInv
<1> USE DEF TableInv
<1>0. /\ \A r \in Requests : call[r] \in Calls /\ pc[r] \in PCs /\ item[r] \in Nat
      /\ \A r, s \in Requests : call[r].worker = call[s].worker
      /\ pc = [r \in Requests |-> pc[r]] /\ item = [r \in Requests |-> item[r]]
      /\ held = [r \in Requests |-> held[r]]
  BY DEF TypeOK, Calls, SingleWorker
<1>1. ASSUME NEW r \in Requests, QueueAlready(r) \/ ReplayMissing(r)  PROVE Serial'
  BY <1>0, <1>1, QuietKeepsSerial
     DEF QueueAlready, ReplayMissing, Starts, Answer, Serial, InSession, Phases, Wrote
<1>2. ASSUME NEW r \in Requests, QueueLookup(r)  PROVE Serial'
  BY <1>0, <1>2, QuietKeepsSerial
     DEF QueueLookup, Starts, Free, Serial, InSession, Phases, Wrote
<1>3. ASSUME NEW r \in Requests, QueueConflict(r)  PROVE Serial'
  BY <1>0, <1>3, QuietKeepsSerial
     DEF QueueConflict, Answer, Serial, InSession, Phases, Wrote
<1>4. ASSUME NEW r \in Requests, ReplaySelect(r)  PROVE Serial'
  <2>1. PICK i \in DOMAIN queue : /\ IsOldest(i, QueuedOf(call[r].txn))
                                  /\ item' = [item EXCEPT ![r] = i]
                                  /\ held' = [held EXCEPT ![r] = queue[i].retry_count]
    BY <1>4 DEF ReplaySelect
  <2>2. queue[i].retry_count = 0
    BY <2>1 DEF Serial, IsOldest, QueuedOf
  <2>3. \A s \in Requests : pc[s] \notin InSession
    BY <1>0, <1>4 DEF ReplaySelect, Starts, Free
  <2>4. UNCHANGED <<queue, call>> /\ pc[r] = "new" /\ item[r] = 0
        /\ pc' = [pc EXCEPT ![r] = "selected"]
    BY <1>4 DEF ReplaySelect, Starts, Phases
  <2>5. \A s, t \in Requests : pc'[s] \in InSession /\ pc'[t] \in InSession => s = t
    BY <1>0, <2>3, <2>4
  <2>6. \A s \in Requests :
          pc'[s] = "selected" => /\ IsOldest(item'[s], QueuedOf(call[s].txn))
                                 /\ held'[s] = 0
    BY <1>0, <2>1, <2>2, <2>3, <2>4 DEF InSession
  <2>7. \A s \in Requests : /\ Wrote(s, "replay")' <=> Wrote(s, "replay")
                            /\ Wrote(s, "replay") => item'[s] = item[s]
    BY <1>0, <2>1, <2>4 DEF Wrote
  <2> QED
    BY <2>4, <2>5, <2>6, <2>7, QuietKeepsSerial
<1>5. ASSUME NEW r \in Requests, Publish(r) \/ PublishFails(r)  PROVE Serial'
  BY <1>0, <1>5, QuietKeepsSerial
     DEF Publish, PublishFails, Answer, Serial, InSession, Wrote
<1>6. ASSUME NEW r \in Requests, DbRefuses(r)  PROVE Serial'
  BY <1>0, <1>6, QuietKeepsSerial DEF DbRefuses, Answer, Serial, InSession, Wrote
<1>7. ASSUME NEW w \in Workers, Crash(w)  PROVE Serial'
  BY <1>0, <1>7, QuietKeepsSerial DEF Crash, Serial, InSession, Wrote
<1>8. ASSUME NEW r \in Requests, QueueInsert(r)  PROVE Serial'
  BY <1>8, InsertKeepsSerial DEF QueueInsert
<1>9. ASSUME NEW r \in Requests, ReplayCommit(r)  PROVE Serial'
  BY <1>9, UpdateKeepsSerial DEF ReplayCommit
<1>10. ASSUME NEW r \in Requests, DbLosesAck(r)  PROVE Serial'
  BY <1>10, InsertKeepsSerial, UpdateKeepsSerial DEF DbLosesAck, Answer
<1>11. CASE UNCHANGED vars
  BY <1>11 DEF vars, Serial, InSession, IsOldest, QueuedOf, Wrote, ReplayedAtMostOnce
<1> QED
  BY <1>1, <1>2, <1>3, <1>4, <1>5, <1>6, <1>7, <1>8, <1>9, <1>10, <1>11
     DEF Next, QueueTransaction, QueueCommit, ReplayTransaction, Fault

LEMMA Invariants == Spec => [](TableInv /\ SerialInv)
BY TableInit, TableStep, SerialInit, SerialStep, PTL DEF Spec

\* With one process no two requests replay the same row, however their
\* database sections, failures and crashes interleave.
THEOREM NoDoubleReplay == Spec => [](SingleWorker => ReplayedAtMostOnce)
<1>1. SerialInv => (SingleWorker => ReplayedAtMostOnce)
  BY DEF SerialInv, Serial
<1> QED
  BY <1>1, Invariants, PTL

\* With one process retry_count is exactly the number of replays of the row.
THEOREM RetriesCounted == Spec => [](SingleWorker => RetryCountExact)
<1>1. TableInv /\ SerialInv => (SingleWorker => RetryCountExact)
  <2> SUFFICES ASSUME TableInv, Serial, NEW i \in DOMAIN queue
               PROVE  \/ queue[i].retry_count = 0 /\ Replayers(i) = {}
                      \/ /\ queue[i].retry_count = 1
                         /\ \E r \in Requests : Replayers(i) = {r}
    BY DEF SerialInv, RetryCountExact
  <2>1. CASE queue[i].status = "queued"
    BY <2>1 DEF TableInv, Phases, Serial, Replayers
  <2>2. CASE queue[i].status = "replayed"
    <3>1. PICK r \in Requests : Wrote(r, "replay") /\ item[r] = i
      BY <2>2 DEF Serial
    <3>2. Replayers(i) = {r}
      BY <3>1 DEF Serial, ReplayedAtMostOnce, Replayers
    <3> QED
      BY <2>2, <3>2 DEF Serial
  <2> QED
    BY <2>1, <2>2 DEF Serial
<1> QED
  BY <1>1, Invariants, PTL

\* With one process the row a replay takes is the oldest queued row of its
\* transaction when the replay commits, not only when it was selected.
THEOREM OldestFirst == ASSUME SingleWorker PROVE Spec => OldestReplayedFirst
<1>1. ASSUME TableInv, SerialInv, [Next]_vars
      PROVE  [\A i \in DOMAIN queue :
                queue[i].status = "queued" /\ queue'[i].status = "replayed"
                  => IsOldest(i, QueuedOf(queue[i].txn))]_vars
  <2> SUFFICES ASSUME Next, NEW i \in DOMAIN queue, queue[i].status = "queued",
                      queue'[i].status = "replayed"
               PROVE  IsOldest(i, QueuedOf(queue[i].txn))
    BY <1>1
  <2>1. \A r \in Requests : call[r] \in Calls /\ held[r] \in Nat
    BY <1>1 DEF TableInv, TypeOK
  <2>2. PICK r \in Requests : \/ InsertRow(r)
                              \/ pc[r] = "selected" /\ UpdateRow(r)
    BY <1>1 DEF Next, QueueTransaction, ReplayTransaction, Fault, QueueAlready,
       QueueLookup, QueueCommit, QueueInsert, QueueConflict, ReplayMissing,
       ReplaySelect, ReplayCommit, Publish, PublishFails, DbRefuses, DbLosesAck, Crash
  <2>3. ~ InsertRow(r)
    BY <1>1, <2>1, InsertEffect DEF TableInv
  <2>4. IsOldest(item[r], QueuedOf(call[r].txn))
    BY <1>1, <2>2, <2>3 DEF SerialInv, Serial
  <2>5. i = item[r]
    BY <1>1, <2>1, <2>2, <2>3, <2>4, UpdateEffect DEF TableInv, IsOldest, QueuedOf
  <2> QED
    BY <2>4, <2>5 DEF IsOldest, QueuedOf
<1> QED
  BY <1>1, Invariants, PTL DEF Spec, OldestReplayedFirst

-------------------------------------------------------------------------------
(* Refinement of RecoveryContract.                                         *)

\* With unique keys the status of a key is that of its only row.
LEMMA StatusOfKey ==
  ASSUME OneRowPerKey
  PROVE  /\ \A k : \A i \in DOMAIN queue : KeyOf(i) = k => StatusOf(k) = queue[i].status
         /\ \A k : (\A i \in DOMAIN queue : KeyOf(i) # k) => StatusOf(k) = "absent"
BY DEF OneRowPerKey, StatusOf

LEMMA StatusOfKeyNext ==
  ASSUME OneRowPerKey'
  PROVE  /\ \A k : \A i \in DOMAIN queue' : KeyOf(i)' = k => StatusOf(k)' = queue'[i].status
         /\ \A k : (\A i \in DOMAIN queue' : KeyOf(i)' # k) => StatusOf(k)' = "absent"
BY DEF OneRowPerKey, StatusOf

\* A step that writes no row is a stutter of the contract.
LEMMA QuietIsStutter ==
  ASSUME UNCHANGED <<queue, call>>,
         \A r \in Requests : /\ Wrote(r, "replay")' <=> Wrote(r, "replay")
                             /\ Wrote(r, "replay") => item'[r] = item[r]
  PROVE  UNCHANGED Contract!vars
<1>1. \A k \in Keys : StatusOf(k)' = StatusOf(k)
  BY DEF StatusOf, KeyOf
<1>2. \A k \in Keys : ReplayersOf(k)' = ReplayersOf(k)
  BY DEF ReplayersOf, KeyOf
<1> QED
  BY <1>1, <1>2 DEF Contract!vars

\* An INSERT queues a key that was absent.
LEMMA InsertIsEnqueue ==
  ASSUME TableInv, TableInv', NEW r \in Requests,
         pc[r] = "looked", WithKey(call[r].txn, call[r].flow) = {},
         InsertRow(r), UNCHANGED call,
         \A s \in Requests : /\ Wrote(s, "replay")' <=> Wrote(s, "replay")
                             /\ Wrote(s, "replay") => item'[s] = item[s]
  PROVE  Contract!Next
<1> USE DEF TableInv
<1> DEFINE key == DedupKey(call[r].txn, call[r].flow)
<1>1. call[r] \in Calls /\ held[r] \in Nat /\ key \in Keys
  BY DEF TypeOK, Calls, Keys, DedupKey
<1>2. PICK new \in Nat \ {0} :
        /\ DOMAIN queue' = DOMAIN queue \cup {new}
        /\ new \notin DOMAIN queue
        /\ \A i \in DOMAIN queue : queue'[i] = queue[i]
        /\ queue'[new] = NewRow(r)
  BY <1>1, InsertEffect
<1>3. /\ \A i \in DOMAIN queue : KeyOf(i)' = KeyOf(i) /\ KeyOf(i) # key
      /\ KeyOf(new)' = key
  BY <1>2 DEF KeyOf, NewRow, WithKey
<1>4. StatusOf(key) = "absent" /\ StatusOf(key)' = "queued"
  BY <1>2, <1>3, StatusOfKey, StatusOfKeyNext DEF NewRow
<1>5. \A k \in Keys : k # key => StatusOf(k)' = StatusOf(k)
  <2> SUFFICES ASSUME NEW k \in Keys, k # key  PROVE StatusOf(k)' = StatusOf(k)
    OBVIOUS
  <2> HIDE DEF key
  <2>1. CASE \E i \in DOMAIN queue : KeyOf(i) = k
    BY <1>2, <1>3, <2>1, StatusOfKey, StatusOfKeyNext
  <2>2. CASE \A i \in DOMAIN queue : KeyOf(i) # k
    BY <1>2, <1>3, <2>2, StatusOfKey, StatusOfKeyNext
  <2> QED
    BY <2>1, <2>2
<1>6. \A k \in Keys : ReplayersOf(k)' = ReplayersOf(k)
  BY <1>3 DEF ReplayersOf, Wrote, Phases
<1>7. Contract!Enqueue(key)
  BY <1>1, <1>4, <1>5, <1>6 DEF Contract!Enqueue
<1> QED
  BY <1>1, <1>7 DEF Contract!Next

\* An UPDATE of a queued row is a replay by the one request that holds it.
LEMMA UpdateIsReplay ==
  ASSUME TableInv, TableInv', Serial, NEW r \in Requests,
         pc[r] = "selected", UpdateRow(r), pc'[r] \in {"committed", "done"},
         UNCHANGED <<call, item>>,
         \A s \in Requests : s # r => (Wrote(s, "replay")' <=> Wrote(s, "replay"))
  PROVE  Contract!Next
<1> USE DEF TableInv
<1>1. /\ item[r] \in DOMAIN queue /\ item[r] # 0 /\ held[r] \in Nat
      /\ call[r].op = "replay" /\ call[r] \in Calls
      /\ queue[item[r]].status = "queued"
  BY DEF TypeOK, Phases, Serial, IsOldest, QueuedOf
<1>2. PICK key \in Keys : key = KeyOf(item[r])
  <2>1. queue[item[r]] \in Rows
    BY <1>1 DEF TypeOK
  <2> QED
    BY <2>1 DEF Rows, KeyOf, DedupKey, Keys
<1>3. /\ DOMAIN queue' = DOMAIN queue
      /\ \A i \in DOMAIN queue : i # item[r] => queue'[i] = queue[i]
      /\ queue'[item[r]].status = "replayed"
      /\ \A i \in DOMAIN queue : KeyOf(i)' = KeyOf(i)
  BY <1>1, UpdateEffect DEF KeyOf
<1>4. StatusOf(key) = "queued" /\ StatusOf(key)' = "replayed"
  BY <1>1, <1>2, <1>3, StatusOfKey, StatusOfKeyNext
<1>5. \A k \in Keys : k # key => StatusOf(k)' = StatusOf(k)
  <2> SUFFICES ASSUME NEW k \in Keys, k # key  PROVE StatusOf(k)' = StatusOf(k)
    OBVIOUS
  <2>1. CASE \E i \in DOMAIN queue : KeyOf(i) = k
    BY <1>2, <1>3, <2>1, StatusOfKey, StatusOfKeyNext
  <2>2. CASE \A i \in DOMAIN queue : KeyOf(i) # k
    BY <1>2, <1>3, <2>2, StatusOfKey, StatusOfKeyNext
  <2> QED
    BY <2>1, <2>2
<1>6. Wrote(r, "replay")' /\ ~ Wrote(r, "replay")
  BY <1>1 DEF Wrote
<1>7. ReplayersOf(key)' = ReplayersOf(key) \cup {r}
  <2>1. \A s \in Requests : Wrote(s, "replay") => KeyOf(item[s])' = KeyOf(item[s])
    BY <1>1, <1>3 DEF KeyOf, Wrote, Phases
  <2>2. KeyOf(item[r])' = key
    BY <1>1, <1>2, <1>3 DEF KeyOf
  <2>3. \A s \in Requests :
          (Wrote(s, "replay") /\ KeyOf(item[s]) = key)'
            <=> (s = r \/ (Wrote(s, "replay") /\ KeyOf(item[s]) = key))
    BY <1>6, <2>1, <2>2
  <2> QED
    BY <2>3 DEF ReplayersOf
<1>8. \A k \in Keys : k # key => ReplayersOf(k)' = ReplayersOf(k)
  BY <1>1, <1>2, <1>3, <1>6 DEF ReplayersOf, Phases, Wrote
<1>9. Contract!Replay(key, r)
  BY <1>4, <1>5, <1>7, <1>8 DEF Contract!Replay
<1> QED
  BY <1>9 DEF Contract!Next

\* With one process the replay engine keeps its contract: every key is queued
\* at most once and replayed at most once, by one request.
THEOREM Refinement == ASSUME SingleWorker PROVE Spec => ImplementsContract
<1>1. Init => Contract!Init
  BY DEF Init, Contract!Init, StatusOf, ReplayersOf, Wrote
<1>2. ASSUME TableInv, TableInv', SerialInv, [Next]_vars
      PROVE  [Contract!Next]_(Contract!vars)
  <2> USE DEF TableInv
  <2>1. Serial
    BY <1>2 DEF SerialInv
  <2>2. \A r \in Requests : /\ call[r] \in Calls /\ pc[r] \in PCs /\ item[r] \in Nat
                            /\ pc = [s \in Requests |-> pc[s]]
                            /\ item = [s \in Requests |-> item[s]]
    BY <1>2 DEF TypeOK
  <2>3. ASSUME NEW r \in Requests,
               \/ QueueAlready(r) \/ QueueLookup(r) \/ QueueConflict(r)
               \/ ReplayMissing(r) \/ ReplaySelect(r)
               \/ Publish(r) \/ PublishFails(r) \/ DbRefuses(r)
        PROVE  UNCHANGED Contract!vars
    <3>1. UNCHANGED <<queue, call>>
      BY <2>3 DEF QueueAlready, QueueLookup, QueueConflict, ReplayMissing,
         ReplaySelect, Publish, PublishFails, DbRefuses
    <3>2. \A s \in Requests : /\ Wrote(s, "replay")' <=> Wrote(s, "replay")
                              /\ Wrote(s, "replay") => item'[s] = item[s]
      BY <1>2, <2>2, <2>3 DEF QueueAlready, QueueLookup, QueueConflict,
         ReplayMissing, ReplaySelect, Publish, PublishFails, DbRefuses, Starts,
         Answer, InSession, Wrote, Phases
    <3> QED
      BY <3>1, <3>2, QuietIsStutter
  <2>4. ASSUME NEW w \in Workers, Crash(w)  PROVE UNCHANGED Contract!vars
    BY <2>2, <2>4, QuietIsStutter DEF Crash, InSession, Wrote
  <2>5. ASSUME NEW r \in Requests, pc[r] = "looked",
               \/ QueueInsert(r) /\ WithKey(call[r].txn, call[r].flow) = {}
               \/ DbLosesAck(r)
        PROVE  Contract!Next
    <3>1. /\ InsertRow(r) /\ UNCHANGED call
          /\ WithKey(call[r].txn, call[r].flow) = {}
          /\ \A s \in Requests : s # r => pc'[s] = pc[s] /\ item'[s] = item[s]
          /\ call[r].op = "queue"
      BY <1>2, <2>2, <2>5 DEF QueueInsert, DbLosesAck, Answer, InsertRow, Phases
    <3>2. \A s \in Requests : /\ Wrote(s, "replay")' <=> Wrote(s, "replay")
                              /\ Wrote(s, "replay") => item'[s] = item[s]
      BY <3>1 DEF Wrote
    <3> QED
      BY <1>2, <2>5, <3>1, <3>2, InsertIsEnqueue
  <2>6. ASSUME NEW r \in Requests, pc[r] = "selected",
               ReplayCommit(r) \/ DbLosesAck(r)
        PROVE  Contract!Next
    <3>1. /\ UpdateRow(r) /\ pc'[r] \in {"committed", "done"}
          /\ UNCHANGED <<call, item>>
          /\ \A s \in Requests : s # r => pc'[s] = pc[s]
      BY <2>2, <2>6 DEF ReplayCommit, DbLosesAck, Answer
    <3>2. \A s \in Requests : s # r => (Wrote(s, "replay")' <=> Wrote(s, "replay"))
      BY <3>1 DEF Wrote
    <3> QED
      BY <1>2, <2>1, <2>6, <3>1, <3>2, UpdateIsReplay
  <2>7. CASE UNCHANGED vars
    BY <2>7, QuietIsStutter DEF vars, Wrote
  <2>8. \A r \in Requests : /\ QueueInsert(r) => pc[r] = "looked"
                            /\ ReplayCommit(r) => pc[r] = "selected"
                            /\ DbLosesAck(r) => pc[r] \in {"looked", "selected"}
    BY DEF QueueInsert, ReplayCommit, DbLosesAck
  <2> QED
    BY <1>2, <2>3, <2>4, <2>5, <2>6, <2>7, <2>8
       DEF Next, QueueTransaction, QueueCommit, ReplayTransaction, Fault
<1> QED
  BY <1>1, <1>2, Invariants, PTL DEF Spec, ImplementsContract, Contract!Spec

-------------------------------------------------------------------------------
(* The closed loop.                                                        *)

CP == INSTANCE EventConsumerProofs WITH Faults <- LoopFaults

LEMMA ConsumerAssumptions == CP!BoundsAssumption /\ CP!FaultsAssumption
BY LoopAssumption DEF CP!BoundsAssumption, CP!FaultsAssumption, CP!AllFaults

\* The steps of the loop, by the part of the state they change.
LEMMA LoopSteps ==
  ASSUME [LoopNext]_loopVars
  PROVE  \/ UNCHANGED loopVars
         \/ Next /\ UNCHANGED <<consumerVars, handlerVars>>
         \/ /\ UNCHANGED vars
            /\ ConsumerStep \/ AroundConsumer \/ Handler \/ HandlerRaises \/ OrchestratorCrash
BY DEF LoopNext, ConsumerStep, AroundConsumer, Handler, HandlerBegins, Diagnose,
       HandlerReturns, SendPost, HandlerRaises, OrchestratorCrash, Serve, ServerCrash, Next,
       QueueTransaction, ReplayTransaction, Fault

\* Every behaviour of the loop is one of replay-engine alone: what holds there
\* holds in the loop.
THEOREM LoopRunsTheQueue == LoopSpec => Spec
<1>1. LoopInit => Init
  BY DEF LoopInit
<1>2. [LoopNext]_loopVars => [Next]_vars
  BY LoopSteps DEF loopVars
<1> QED
  BY <1>1, <1>2, PTL DEF LoopSpec, Spec

\* Every behaviour of the loop is one of the consumer alone: the handler with its
\* two calls implements the handler the consumer leaves open.
THEOREM LoopRunsTheConsumer == LoopSpec => Consumer!Spec
<1>1. LoopInit => Consumer!Init
  BY DEF LoopInit
<1>2. [LoopNext]_loopVars => [Consumer!Next]_(Consumer!vars)
  BY LoopSteps DEF loopVars, consumerVars, Consumer!vars, Consumer!Next, Consumer!Consume,
    ConsumerStep, AroundConsumer, Handler, HandlerBegins, Diagnose, HandlerReturns, SendPost,
    HandlerRaises, OrchestratorCrash
<1> QED
  BY <1>1, <1>2, PTL DEF LoopSpec, Consumer!Spec

LEMMA ConsumerIsProved == Consumer!Spec => CP!Spec
<1>1. Consumer!Init => CP!Init
  BY Zenon DEF Consumer!Init, CP!Init, Consumer!NoOffset, CP!NoOffset, Consumer!Offsets, CP!Offsets,
     Consumer!AllFaults, CP!AllFaults
<1>2. [Consumer!Next]_(Consumer!vars) => [CP!Next]_(CP!vars)
  BY Zenon DEF Consumer!Next, CP!Next, Consumer!vars, CP!vars, Consumer!Consume, CP!Consume,
    Consumer!Produce, CP!Produce, Consumer!StartOk, CP!StartOk, Consumer!StartOffset,
    CP!StartOffset, Consumer!NoOffset, CP!NoOffset, Consumer!Offsets, CP!Offsets,
    Consumer!Frontier, CP!Frontier, Consumer!Running, CP!Running, Consumer!StartFails,
    CP!StartFails, Consumer!Strike, CP!Strike, Consumer!AllFaults, CP!AllFaults,
    Consumer!NextRound, CP!NextRound, Consumer!Fetch, CP!Fetch, Consumer!Min2, CP!Min2,
    Consumer!Begin, CP!Begin, Consumer!Return, CP!Return, Consumer!AutoCommit, CP!AutoCommit,
    Consumer!StopConsumer, CP!StopConsumer, Consumer!Raise, CP!Raise, Consumer!RequestStop,
    CP!RequestStop, Consumer!Close, CP!Close, Consumer!Exit, CP!Exit, Consumer!Crash, CP!Crash,
    Consumer!Restart, CP!Restart
<1> QED
  BY <1>1, <1>2, PTL DEF Consumer!Spec, CP!Spec

\* What the loop's proofs use of the consumer.
ConsumerFacts ==
  /\ loop = "handling" => cursor \in Records
  /\ handled \subseteq Records
  /\ attempts \in [Records -> Nat]
  /\ failures["crash"] \in Nat /\ failures["commit"] \in Nat
  /\ \A e \in Records : attempts[e] <= 1 + failures["crash"] + failures["commit"]

LEMMA ConsumerKeepsFacts == LoopSpec => []ConsumerFacts
<1>1. CP!ConsumerInv => ConsumerFacts
  <2> SUFFICES ASSUME CP!ConsumerInv  PROVE ConsumerFacts
    OBVIOUS
  <2>1. CP!TypeOK /\ CP!OffsetsOrdered /\ CP!AttemptsInv /\ CP!Offsets = Records
    BY DEF CP!ConsumerInv, CP!Offsets, Records
  <2>2. loop = "handling" => cursor \in Records
    BY <2>1, LoopAssumption DEF CP!TypeOK, CP!OffsetsOrdered, CP!Running, Records, CP!NoOffset
  <2>3. failures["crash"] \in Nat /\ failures["commit"] \in Nat
    BY <2>1 DEF CP!TypeOK, CP!AllFaults
  <2>4. \A e \in Records : attempts[e] <= 1 + failures["crash"] + failures["commit"]
    BY <2>1, <2>3 DEF CP!TypeOK, CP!AttemptsInv, CP!Unclean
  <2> QED
    BY <2>1, <2>2, <2>3, <2>4 DEF ConsumerFacts, CP!TypeOK
<1> QED
  BY <1>1, LoopRunsTheConsumer, ConsumerIsProved, ConsumerAssumptions, CP!ConsumerInvariant, PTL

\* Racing workers and crashes insert no second row for a transaction in the loop
\* either, however often its record is redelivered.
THEOREM LoopDeduplicates == LoopSpec => []OneRowPerKey
BY LoopRunsTheQueue, DeduplicationCorrect, PTL

\* With one process of replay-engine the loop, too, queues and replays a transaction
\* at most once, whatever orchestrator's failures make it send again.
THEOREM LoopImplementsContract ==
  ASSUME SingleWorker PROVE LoopSpec => ImplementsContract
BY LoopRunsTheQueue, Refinement, PTL

\* In the loop the records of the topic are settled as DeliveryContract promises,
\* with _handle_anomaly and its two calls in the place of the handler.
THEOREM LoopDelivers == LoopSpec => CP!ImplementsDelivery
BY LoopRunsTheConsumer, ConsumerIsProved, ConsumerAssumptions, CP!DeliveryRefinement, PTL

-------------------------------------------------------------------------------
(* The handler keeps in step with the consumer.                            *)

HandlerInv ==
  /\ HandlerTypeOK
  /\ \A r \in Posts : /\ call[r].op = "queue"
                      /\ source[r] # NoRecord =>
                           DedupKey(call[r].txn, call[r].flow) = Subject[source[r]]
  /\ \A e \in Records :
       diagnoses[e] + (IF step = "diagnosing" /\ cursor = e THEN 1 ELSE 0) <= attempts[e]

\* What the consumer does around the handler leaves the handler's place alone.
LEMMA AroundHandler ==
  ASSUME HandlerInv, ConsumerFacts, UNCHANGED <<handlerVars, call, attempts>>,
         step = "idle" \/ cursor' = cursor, loop' = "handling" <=> loop = "handling"
  PROVE  HandlerInv'
BY DEF HandlerInv, HandlerTypeOK, handlerVars, NoPost, NoRecord, Records

LEMMA HandlerStep ==
  ASSUME HandlerInv, ConsumerFacts, ConsumerFacts', [LoopNext]_loopVars
  PROVE  HandlerInv'
<1>0. /\ HandlerTypeOK /\ (step # "idle" => cursor \in Records)
      /\ diagnoses \in [Records -> Nat] /\ attempts \in [Records -> Nat]
  BY DEF HandlerInv, HandlerTypeOK, ConsumerFacts
<1>1. CASE UNCHANGED loopVars
  BY <1>1, AroundHandler DEF loopVars, vars, consumerVars
<1>2. CASE Next /\ UNCHANGED <<consumerVars, handlerVars>>
  <2>1. call' = call
    BY <1>2 DEF Next, QueueTransaction, ReplayTransaction, Fault, QueueAlready, QueueLookup,
                QueueCommit, QueueInsert, QueueConflict, ReplayMissing, ReplaySelect, ReplayCommit,
                Publish, PublishFails, DbRefuses, DbLosesAck, Crash
  <2> QED
    BY <1>2, <2>1, AroundHandler DEF consumerVars
<1>3. CASE ConsumerStep
  <2>1. UNCHANGED <<handlerVars, call, attempts>>
    BY <1>3 DEF ConsumerStep, vars, Consumer!StartOk, Consumer!NextRound, Consumer!Fetch,
                Consumer!Close, Consumer!Exit, Consumer!Restart
  <2>2. loop # "handling" /\ loop' # "handling"
    BY <1>3 DEF ConsumerStep, Consumer!StartOk, Consumer!NextRound, Consumer!Fetch,
                Consumer!Close, Consumer!Exit, Consumer!Restart
  <2>3. step = "idle"
    BY <1>0, <2>2 DEF HandlerTypeOK
  <2> QED
    BY <2>1, <2>2, <2>3, AroundHandler
<1>4. CASE AroundConsumer
  <2>1. UNCHANGED <<handlerVars, call, attempts, cursor>>
    BY <1>4 DEF AroundConsumer, vars, Consumer!Produce, Consumer!StartFails,
                Consumer!AutoCommit, Consumer!RequestStop
  <2>2. loop' = "handling" <=> loop = "handling"
    BY <1>4 DEF AroundConsumer, Consumer!Produce, Consumer!StartFails,
                Consumer!AutoCommit, Consumer!RequestStop
  <2> QED
    BY <2>1, <2>2, AroundHandler
<1>5. CASE HandlerBegins /\ UNCHANGED vars
  <2>1. /\ loop = "batch" /\ loop' = "handling" /\ step' = "diagnosing" /\ cursor' = cursor
        /\ attempts' = [attempts EXCEPT ![cursor] = @ + 1]
        /\ UNCHANGED <<sent, source, diagnoses, call>>
    BY <1>5 DEF HandlerBegins, Consumer!Begin, vars
  <2>2. step = "idle" /\ cursor \in Records
    BY <1>0, <2>1 DEF HandlerTypeOK, ConsumerFacts
  <2>3. \A e \in Records : attempts'[e] = IF e = cursor THEN attempts[e] + 1 ELSE attempts[e]
    BY <1>0, <2>1
  <2> QED
    BY <1>0, <2>1, <2>2, <2>3 DEF HandlerInv, HandlerTypeOK
<1>6. CASE Diagnose
  <2>1. /\ step = "diagnosing" /\ step' = "queueing"
        /\ UNCHANGED <<sent, source, call, loop, cursor, attempts>>
    BY <1>6 DEF Diagnose, vars, consumerVars
  <2>2. diagnoses' \in {diagnoses, [diagnoses EXCEPT ![cursor] = @ + 1]}
    BY <1>6 DEF Diagnose, Diagnosed
  <2>3. diagnoses' \in [Records -> Nat]
    BY <1>0, <2>1, <2>2
  <2>4. \A e \in Records : diagnoses'[e] <= attempts[e]
    BY <1>0, <2>1, <2>2 DEF HandlerInv
  <2> QED
    BY <1>0, <2>1, <2>3, <2>4 DEF HandlerInv, HandlerTypeOK
<1>7. ASSUME NEW r \in Posts, SendPost(r)  PROVE HandlerInv'
  <2>1. /\ step = "queueing" /\ step' = "waiting" /\ sent' = r
        /\ source' = [source EXCEPT ![r] = cursor]
        /\ DedupKey(call[r].txn, call[r].flow) = Subject[cursor]
        /\ UNCHANGED <<diagnoses, call, loop, cursor, attempts>>
    BY <1>7 DEF SendPost, vars, consumerVars
  <2>2. source' \in [Posts -> Records \cup {NoRecord}] /\ source'[r] = cursor
    BY <1>0, <2>1 DEF HandlerTypeOK
  <2> QED
    BY <1>0, <2>1, <2>2 DEF HandlerInv, HandlerTypeOK
<1>8. CASE HandlerReturns
  <2>1. /\ step = "waiting" /\ step' = "idle" /\ sent' = NoPost /\ loop' = "batch"
        /\ UNCHANGED <<source, diagnoses, call, attempts>>
    BY <1>8 DEF HandlerReturns, Consumer!Return, vars
  <2> QED
    BY <1>0, <2>1 DEF HandlerInv, HandlerTypeOK
<1>9. CASE HandlerRaises
  <2>1. /\ loop = "handling" /\ loop' = "dead" /\ step' = "idle" /\ sent' = NoPost
        /\ UNCHANGED <<source, call, attempts, cursor>>
    BY <1>9 DEF HandlerRaises, Consumer!Raise, vars
  <2>2. \/ diagnoses' = diagnoses
        \/ step = "diagnosing" /\ diagnoses' = [diagnoses EXCEPT ![cursor] = @ + 1]
    BY <1>9 DEF HandlerRaises, Diagnosed
  <2>3. step # "idle"
    BY <1>0, <2>1 DEF HandlerTypeOK
  <2>4. diagnoses' \in [Records -> Nat]
    BY <1>0, <2>2, <2>3
  <2>5. \A e \in Records : diagnoses'[e] <= attempts[e]
    BY <1>0, <2>2, <2>3 DEF HandlerInv
  <2> QED
    BY <1>0, <2>1, <2>4, <2>5 DEF HandlerInv, HandlerTypeOK
<1>10. CASE OrchestratorCrash
  <2>1. /\ step' = "idle" /\ sent' = NoPost /\ loop' = "down"
        /\ UNCHANGED <<source, diagnoses, call, attempts>>
    BY <1>10 DEF OrchestratorCrash, Consumer!Crash, vars
  <2> QED
    BY <1>0, <2>1 DEF HandlerInv, HandlerTypeOK
<1> QED
  BY <1>1, <1>2, <1>3, <1>4, <1>5, <1>6, <1>7, <1>8, <1>9, <1>10, LoopSteps DEF Handler

LEMMA HandlerInit == LoopInit => HandlerInv
<1> SUFFICES ASSUME LoopInit  PROVE HandlerInv
  OBVIOUS
<1>1. /\ loop = "starting" /\ attempts = [e \in Records |-> 0]
      /\ step = "idle" /\ sent = NoPost /\ source = [r \in Posts |-> NoRecord]
      /\ diagnoses = [e \in Records |-> 0] /\ \A r \in Posts : call[r].op = "queue"
  BY DEF LoopInit, Consumer!Init, Consumer!Offsets, Records
<1> QED
  BY <1>1 DEF HandlerInv, HandlerTypeOK

LEMMA HandlerInvariant == LoopSpec => []HandlerInv
BY HandlerInit, HandlerStep, ConsumerKeepsFacts, PTL DEF LoopSpec

\* The handler is at a step exactly while the consumer awaits it, and the request
\* it awaits was sent for the record at the cursor.
THEOREM HandlerTypeCorrect == LoopSpec => []HandlerTypeOK
<1>1. HandlerInv => HandlerTypeOK
  BY DEF HandlerInv
<1> QED
  BY <1>1, HandlerInvariant, PTL

\* An incident is diagnosed once, and once more for each crash or missed commit
\* of orchestrator at most.
THEOREM DiagnosesAreBounded == LoopSpec => []DiagnosesBounded
<1>1. HandlerInv /\ ConsumerFacts => DiagnosesBounded
  <2> SUFFICES ASSUME HandlerInv, ConsumerFacts, NEW e \in Records
               PROVE  diagnoses[e] <= 1 + failures["crash"] + failures["commit"]
    BY DEF DiagnosesBounded
  <2>1. diagnoses[e] \in Nat /\ attempts[e] \in Nat
    BY DEF HandlerInv, HandlerTypeOK, ConsumerFacts
  <2>2. diagnoses[e] <= attempts[e]
    BY <2>1 DEF HandlerInv
  <2>3. attempts[e] <= 1 + failures["crash"] + failures["commit"]
    BY DEF ConsumerFacts
  <2>4. failures["crash"] \in Nat /\ failures["commit"] \in Nat
    BY DEF ConsumerFacts
  <2> QED
    BY <2>1, <2>2, <2>3, <2>4
<1> QED
  BY <1>1, HandlerInvariant, ConsumerKeepsFacts, PTL

-------------------------------------------------------------------------------
(* What an answer of replay-engine says.                                   *)

Asked(r) == DedupKey(call[r].txn, call[r].flow)

\* A queueing that is past its COMMIT has its transaction in the table.
Served(r) ==
  /\ pc[r] = "committed" => InTable(Asked(r))
  /\ pc[r] = "done" => InTable(Asked(r)) \/ reply[r] = "500"
  /\ reply[r] = "500" => pc[r] = "done"

QueueingsServed == \A r \in Requests : call[r].op = "queue" => Served(r)

\* Rows stay, with their keys.
LEMMA TableGrows ==
  ASSUME TableInv, [Next]_vars
  PROVE  \A k : InTable(k) => InTable(k)'
<1>1. CASE queue' = queue
  BY <1>1 DEF InTable, KeyOf
<1>2. ASSUME NEW r \in Requests, InsertRow(r)  PROVE \A k : InTable(k) => InTable(k)'
  <2>1. call[r] \in Calls /\ held[r] \in Nat /\ TypeOK
    BY DEF TableInv, TypeOK
  <2>2. DOMAIN queue \subseteq DOMAIN queue' /\ \A i \in DOMAIN queue : queue'[i] = queue[i]
    BY <1>2, <2>1, InsertEffect
  <2> QED
    BY <2>2 DEF InTable, KeyOf
<1>3. ASSUME NEW r \in Requests, pc[r] = "selected", UpdateRow(r)
      PROVE  \A k : InTable(k) => InTable(k)'
  <2>1. item[r] \in DOMAIN queue /\ held[r] \in Nat /\ TypeOK
    BY <1>3 DEF TableInv, TypeOK, Phases
  <2>2. DOMAIN queue' = DOMAIN queue
        /\ \A i \in DOMAIN queue : queue'[i].txn = queue[i].txn /\ queue'[i].flow = queue[i].flow
    BY <1>3, <2>1, UpdateEffect
  <2> QED
    BY <2>2 DEF InTable, KeyOf, DedupKey
<1>4. \/ queue' = queue
      \/ \E r \in Requests : InsertRow(r) \/ (pc[r] = "selected" /\ UpdateRow(r))
  BY DEF Next, vars, QueueTransaction, ReplayTransaction, Fault, QueueAlready, QueueLookup,
         QueueCommit, QueueInsert, QueueConflict, ReplayMissing, ReplaySelect, ReplayCommit,
         Publish, PublishFails, DbRefuses, DbLosesAck, Crash
<1> QED
  BY <1>1, <1>2, <1>3, <1>4

KeepsRows ==
  \A i \in DOMAIN queue :
    /\ i \in DOMAIN queue'
    /\ queue'[i].txn = queue[i].txn /\ queue'[i].flow = queue[i].flow
    /\ queue[i].status = "replayed" => queue'[i].status = "replayed"

\* Nothing undoes a replay: for any number of workers and whatever fails, a row keeps
\* its place and its key, and one that is marked replayed stays so.  Two workers may
\* replay a row twice, but none queues it again.
THEOREM ReplaysStay == Spec => [][KeepsRows]_vars
<1>1. ASSUME TableInv, [Next]_vars, NEW i \in DOMAIN queue
      PROVE  /\ i \in DOMAIN queue'
             /\ queue'[i].txn = queue[i].txn /\ queue'[i].flow = queue[i].flow
             /\ queue[i].status = "replayed" => queue'[i].status = "replayed"
  <2>1. CASE queue' = queue
    BY <1>1, <2>1
  <2>2. ASSUME NEW r \in Requests, InsertRow(r)
        PROVE  i \in DOMAIN queue' /\ queue'[i] = queue[i]
    <3>1. call[r] \in Calls /\ held[r] \in Nat /\ TypeOK
      BY <1>1 DEF TableInv, TypeOK
    <3> QED
      BY <1>1, <2>2, <3>1, InsertEffect
  <2>3. ASSUME NEW r \in Requests, pc[r] = "selected", UpdateRow(r)
        PROVE  /\ i \in DOMAIN queue'
               /\ queue'[i].txn = queue[i].txn /\ queue'[i].flow = queue[i].flow
               /\ queue[i].status = "replayed" => queue'[i].status = "replayed"
    <3>1. item[r] \in DOMAIN queue /\ held[r] \in Nat /\ TypeOK
      BY <1>1, <2>3 DEF TableInv, TypeOK, Phases
    <3> QED
      BY <1>1, <2>3, <3>1, UpdateEffect
  <2>4. \/ queue' = queue
        \/ \E r \in Requests : InsertRow(r) \/ (pc[r] = "selected" /\ UpdateRow(r))
    BY <1>1 DEF Next, vars, QueueTransaction, ReplayTransaction, Fault, QueueAlready,
       QueueLookup, QueueCommit, QueueInsert, QueueConflict, ReplayMissing, ReplaySelect,
       ReplayCommit, Publish, PublishFails, DbRefuses, DbLosesAck, Crash
  <2> QED
    BY <2>1, <2>2, <2>3, <2>4
<1>2. TableInv /\ [Next]_vars => [KeepsRows]_vars
  BY <1>1 DEF KeepsRows
<1> QED
  BY <1>2, Invariants, PTL DEF Spec

\* An answer given is final.
LEMMA AnswersStay ==
  ASSUME TypeOK, [Next]_vars, NEW r \in Requests, pc[r] = "done"
  PROVE  pc'[r] = "done" /\ reply'[r] = reply[r]
BY DEF Next, vars, TypeOK, QueueTransaction, ReplayTransaction, Fault, QueueAlready, QueueLookup,
       QueueCommit, QueueInsert, QueueConflict, ReplayMissing, ReplaySelect, ReplayCommit,
       Publish, PublishFails, DbRefuses, DbLosesAck, Crash, Answer, Starts, InSession

LEMMA CallsStay ==
  ASSUME [Next]_vars
  PROVE  call' = call
BY DEF Next, vars, QueueTransaction, ReplayTransaction, Fault, QueueAlready, QueueLookup,
       QueueCommit, QueueInsert, QueueConflict, ReplayMissing, ReplaySelect, ReplayCommit,
       Publish, PublishFails, DbRefuses, DbLosesAck, Crash

\* The row a request inserts is the one it was asked for.
LEMMA InsertServes ==
  ASSUME TableInv, NEW r \in Requests, InsertRow(r), call' = call
  PROVE  InTable(Asked(r))'
<1>1. call[r] \in Calls /\ held[r] \in Nat /\ TypeOK
  BY DEF TableInv, TypeOK
<1>2. /\ DOMAIN queue' = DOMAIN queue \cup {Len(queue) + 1}
      /\ queue'[Len(queue) + 1] = NewRow(r)
  BY <1>1, InsertEffect
<1>3. NewRow(r).txn = call[r].txn /\ NewRow(r).flow = call[r].flow
  BY DEF NewRow
<1> QED
  BY <1>2, <1>3 DEF InTable, KeyOf, Asked, DedupKey

LEMMA ServedStep ==
  ASSUME TableInv, QueueingsServed, [Next]_vars
  PROVE  QueueingsServed'
<1> SUFFICES ASSUME NEW r \in Requests, call[r].op = "queue"
             PROVE  Served(r)'
  BY CallsStay DEF QueueingsServed
<1>0. TypeOK /\ Phases /\ Served(r) /\ call' = call /\ reply[r] \in Replies
  BY CallsStay DEF TableInv, TypeOK, QueueingsServed
<1>1. Asked(r)' = Asked(r) /\ (InTable(Asked(r)) => InTable(Asked(r))')
  <2>1. Asked(r)' = Asked(r)
    BY <1>0 DEF Asked
  <2>2. \A k : InTable(k) => InTable(k)'
    BY TableGrows
  <2> QED
    BY <2>1, <2>2 DEF InTable, KeyOf
<1>2. CASE pc[r] = "done"
  BY <1>0, <1>1, <1>2, AnswersStay DEF Served
<1>3. CASE pc[r] # "done" /\ reply'[r] = "500" /\ pc'[r] = "done"
  BY <1>3 DEF Served
<1>4. CASE pc[r] # "done" /\ InTable(Asked(r))'
           /\ (reply'[r] = reply[r] \/ (pc'[r] = "done" /\ reply'[r] # "500"))
  BY <1>0, <1>4 DEF Served
<1>5. CASE /\ pc[r] # "done" /\ reply'[r] = reply[r]
           /\ pc'[r] = pc[r] \/ pc'[r] \notin {"done", "committed"}
  BY <1>0, <1>1, <1>5 DEF Served
<1>6. CASE UNCHANGED vars
  BY <1>2, <1>5, <1>6 DEF vars
<1>7. ASSUME NEW w \in Workers, Crash(w)  PROVE Served(r)'
  <2>1. reply' = reply /\ (pc'[r] = pc[r] \/ pc'[r] \in {"dropped", "lost"})
    BY <1>7 DEF Crash
  <2> QED
    BY <1>2, <1>5, <2>1
<1>8. ASSUME NEW s \in Requests, s # r,
             QueueTransaction(s) \/ ReplayTransaction(s) \/ Publish(s) \/ Fault(s)
      PROVE  Served(r)'
  <2>1. reply'[r] = reply[r] /\ pc'[r] = pc[r]
    BY <1>0, <1>8 DEF TypeOK, QueueTransaction, ReplayTransaction, Fault, QueueAlready,
       QueueLookup, QueueCommit, QueueInsert, QueueConflict, ReplayMissing, ReplaySelect,
       ReplayCommit, Publish, PublishFails, DbRefuses, DbLosesAck, Answer
  <2> QED
    BY <1>2, <1>5, <2>1
<1>9. CASE QueueAlready(r)
  <2>1. InTable(Asked(r)) /\ pc[r] = "new" /\ reply'[r] = "already_queued" /\ pc'[r] = "done"
    BY <1>0, <1>9 DEF QueueAlready, Starts, Answer, TypeOK, WithKey, InTable, Asked
  <2> QED
    BY <1>1, <1>4, <2>1
<1>10. CASE QueueLookup(r)
  <2>1. pc[r] = "new" /\ reply' = reply /\ pc'[r] = "looked"
    BY <1>0, <1>10 DEF QueueLookup, Starts, TypeOK
  <2> QED
    BY <1>5, <2>1
<1>11. CASE QueueInsert(r)
  <2>1. pc[r] = "looked" /\ reply' = reply /\ InsertRow(r)
    BY <1>11 DEF QueueInsert
  <2>2. InTable(Asked(r))'
    BY <1>0, <2>1, InsertServes
  <2> QED
    BY <1>4, <2>1, <2>2
<1>12. CASE QueueConflict(r) \/ DbRefuses(r) \/ DbLosesAck(r)
  <2>1. pc[r] # "done" /\ reply'[r] = "500" /\ pc'[r] = "done"
    BY <1>0, <1>12 DEF QueueConflict, DbRefuses, DbLosesAck, Answer, TypeOK, InSession
  <2> QED
    BY <1>3, <2>1
<1>13. CASE Publish(r) \/ PublishFails(r)
  <2>1. pc[r] = "committed" /\ reply'[r] = "queued" /\ pc'[r] = "done"
    BY <1>0, <1>13 DEF Publish, PublishFails, Answer, TypeOK, EventOf
  <2>2. InTable(Asked(r))
    BY <1>0, <2>1 DEF Served
  <2> QED
    BY <1>1, <1>4, <2>1, <2>2
<1>14. ~ ReplayTransaction(r)
  BY <1>0 DEF ReplayTransaction, ReplayMissing, ReplaySelect, ReplayCommit, Starts, Phases
<1> QED
  BY <1>6, <1>7, <1>8, <1>9, <1>10, <1>11, <1>12, <1>13, <1>14
     DEF Next, QueueTransaction, QueueCommit, Fault

LEMMA ServedInvariant == Spec => [](TableInv /\ QueueingsServed)
<1>1. Init => QueueingsServed
  BY DEF Init, QueueingsServed, Served
<1> QED
  BY <1>1, TableInit, TableStep, ServedStep, PTL DEF Spec

-------------------------------------------------------------------------------
LEMMA HandledStep ==
  ASSUME TableInv, QueueingsServed, HandlerInv, ConsumerFacts, HandledMeansQueued,
         [LoopNext]_loopVars
  PROVE  HandledMeansQueued'
<1>0. HandlerTypeOK /\ TypeOK
  BY DEF HandlerInv, TableInv
<1>1. \A e : InTable(Subject[e]) => InTable(Subject[e])'
  <2>1. [Next]_vars
    BY LoopSteps DEF loopVars
  <2> QED
    BY <2>1, TableGrows DEF InTable, KeyOf
<1>2. \A e \in Records : Refused(e) => Refused(e)'
  <2> SUFFICES ASSUME NEW e \in Records, NEW r \in Posts, source[r] = e, reply[r] = "500"
               PROVE  Refused(e)'
    BY DEF Refused
  <2>1. r \in Requests /\ pc[r] = "done"
    BY LoopAssumption DEF HandlerInv, QueueingsServed, Served
  <2>2. reply'[r] = "500"
    <3>1. [Next]_vars
      BY LoopSteps DEF loopVars
    <3> QED
      BY <1>0, <2>1, <3>1, AnswersStay
  <2>3. source'[r] = e
    <3>1. CASE source' = source
      BY <3>1
    <3>2. ASSUME NEW s \in Posts, SendPost(s)  PROVE source'[r] = e
      BY <1>0, <3>2 DEF SendPost, HandlerTypeOK, NoRecord, Records
    <3> QED
      BY <3>1, <3>2, LoopSteps DEF loopVars, handlerVars, ConsumerStep, AroundConsumer, Handler,
         HandlerBegins, Diagnose, HandlerReturns, HandlerRaises, OrchestratorCrash
  <2> QED
    BY <2>2, <2>3 DEF Refused
<1>3. CASE handled' = handled
  BY <1>1, <1>2, <1>3 DEF HandledMeansQueued, ConsumerFacts
<1>4. CASE HandlerReturns
  <2>1. /\ handled' = handled \cup {cursor} /\ sent \in Posts /\ source[sent] = cursor
        /\ pc[sent] = "done" /\ cursor \in Records
    BY <1>0, <1>4 DEF HandlerReturns, Answered, Consumer!Return, HandlerTypeOK, ConsumerFacts
  <2>2. InTable(Subject[cursor]) \/ reply[sent] = "500"
    BY <2>1, LoopAssumption DEF HandlerInv, QueueingsServed, Served, Asked, NoRecord, Records
  <2>3. InTable(Subject[cursor]) \/ Refused(cursor)
    BY <2>1, <2>2 DEF Refused
  <2> QED
    BY <1>1, <1>2, <2>1, <2>3 DEF HandledMeansQueued, ConsumerFacts
<1> QED
  BY <1>3, <1>4, LoopSteps DEF loopVars, consumerVars, ConsumerStep, AroundConsumer, Handler,
     HandlerBegins, Diagnose, SendPost, HandlerRaises, OrchestratorCrash, Consumer!StartOk,
     Consumer!NextRound, Consumer!Fetch, Consumer!Close, Consumer!Exit, Consumer!Restart,
     Consumer!Produce, Consumer!StartFails, Consumer!AutoCommit, Consumer!RequestStop,
     Consumer!Begin, Consumer!Raise, Consumer!Crash

\* A record whose handler returned has its transaction in the recovery queue, or
\* replay-engine answered 500 for it.
THEOREM HandledRecordsAreQueued == LoopSpec => []HandledMeansQueued
<1>1. LoopInit => HandledMeansQueued
  BY DEF LoopInit, Consumer!Init, HandledMeansQueued
<1> QED
  BY <1>1, HandledStep, HandlerInvariant, ConsumerKeepsFacts, ServedInvariant,
     LoopRunsTheQueue, PTL DEF LoopSpec
===============================================================================
