--------------------------- MODULE DashboardSummary ---------------------------
(***************************************************************************)
(* GET /api/v1/dashboard/summary beside the recorders of TpsWindow: the    *)
(* handler counts the rows of transaction_events of the last minute, first *)
(* all of them and then the successful ones, and ends with a TPS snapshot. *)
(* Each query sees what is committed by then (READ COMMITTED), and rows    *)
(* are never deleted.                                                      *)
(*                                                                         *)
(* The application is payment_gateway, for which the page shows a success  *)
(* rate.  The order and billing counts are single queries; the latencies,  *)
(* the queue and the incidents are of other tables.                        *)
(***************************************************************************)
EXTENDS TpsWindow

CONSTANTS Minute    \* how far back the rows are counted

ASSUME MinuteAssumption == Minute \in Nat /\ Minute < Window

VARIABLES rows,     \* events committed to transaction_events
          ok,       \* events of status "ok"
          page,     \* where each dashboard is in the handler
          since,    \* minute_ago
          total,    \* the rows that payment_total counts
          success,  \* the rows that payment_success counts
          between   \* rows committed since the first count

tableVars == <<rows, ok>>
pageVars == <<page, since, total, success, between>>
summaryVars == <<vars, tableVars, pageVars>>

SummaryTypeOK ==
  /\ TypeOK
  /\ rows \subseteq Events /\ ok \subseteq Events
  /\ page \in [Dashboards -> {"idle", "called", "totalled", "rated"}]
  /\ since \in [Dashboards -> -Minute .. MaxTime]
  /\ \A r \in {total, success, between} : r \in [Dashboards -> SUBSET Events]

-------------------------------------------------------------------------------
(* transaction-monitor: ingest_event().                                    *)

\* What the rows are while the recorder does what TpsWindow says.
Inserted(p, changes) ==
  /\ rows' = rows \cup changes
  /\ between' = [d \in Dashboards |->
                   IF page[d] = "totalled" THEN between[d] \cup changes ELSE between[d]]
  /\ UNCHANGED <<ok, page, since, total, success>>

Arrives(p) ==
  /\ Add(p) \/ RecordLocal(p)
  /\ ok' \in {ok, ok \cup {Len(at) + 1}}
  /\ UNCHANGED <<rows, pageVars>>

Commits(p) == Commit(p) /\ Inserted(p, {event[p]})

\* The answer to a COMMIT may be what is lost.
Fails(p) ==
  /\ Fail(p)
  /\ \/ Inserted(p, {})
     \/ pc[p] = "recorded" /\ Inserted(p, {event[p]})

-------------------------------------------------------------------------------
(* dashboard-service: dashboard_summary().                                 *)

PageTo(d, from, to) ==
  /\ backend[d] # "down"
  /\ page[d] = from
  /\ page' = [page EXCEPT ![d] = to]
  /\ UNCHANGED <<vars, tableVars>>

Call(d) ==
  /\ PageTo(d, "idle", "called")
  /\ since' = [since EXCEPT ![d] = now - Minute]
  /\ UNCHANGED <<total, success, between>>

Selected(d, events) == {i \in events : at[i] >= since[d]}

CountTotal(d) ==
  /\ PageTo(d, "called", "totalled")
  /\ total' = [total EXCEPT ![d] = Selected(d, rows)]
  /\ between' = [between EXCEPT ![d] = {}]
  /\ UNCHANGED <<since, success>>

\* Mutant: the second count goes back a minute from its own time.
SuccessfulNow(d) == {i \in rows \cap ok : at[i] >= now - Minute}

Successful(d) == Selected(d, rows \cap ok)

CountSuccess(d) ==
  /\ PageTo(d, "totalled", "rated")
  /\ success' = [success EXCEPT ![d] = Successful(d)]
  /\ UNCHANGED <<since, total, between>>

\* The counts are locals of the handler.
Forget(d) ==
  /\ since' = [since EXCEPT ![d] = 0]
  /\ total' = [total EXCEPT ![d] = {}]
  /\ success' = [success EXCEPT ![d] = {}]
  /\ between' = [between EXCEPT ![d] = {}]

\* snapshot() and the answer: Status(d) and the rate of the counts.
Show(d) == PageTo(d, "rated", "idle") /\ Forget(d)

\* A query raises: 500.
Raises(d) ==
  /\ "fail" \in Faults
  /\ page[d] # "idle" /\ PageTo(d, page[d], "idle")
  /\ Forget(d)

Summary(d) == Call(d) \/ CountTotal(d) \/ CountSuccess(d) \/ Show(d) \/ Raises(d)

\* A process ends, with the page it was at.
Ends(p) ==
  /\ Crash(p)
  /\ IF p \in Dashboards THEN page' = [page EXCEPT ![p] = "idle"] /\ Forget(p)
                         ELSE UNCHANGED pageVars
  /\ UNCHANGED tableVars

-------------------------------------------------------------------------------
SummaryInit ==
  /\ Init
  /\ rows = {} /\ ok = {}
  /\ page = [d \in Dashboards |-> "idle"]
  /\ since = [d \in Dashboards |-> 0]
  /\ total = [d \in Dashboards |-> {}]
  /\ success = [d \in Dashboards |-> {}]
  /\ between = [d \in Dashboards |-> {}]

Around == \/ \E p \in Processes : Start(p)
          \/ \E p \in Recorders : Trim(p) \/ Expire(p)
          \/ Flush \/ Tick

SummaryNext == \/ Around /\ UNCHANGED <<tableVars, pageVars>>
               \/ \E p \in Recorders : Arrives(p) \/ Commits(p) \/ Fails(p)
               \/ \E p \in Processes : Ends(p)
               \/ \E d \in Dashboards : Summary(d)

SummarySpec == SummaryInit /\ [][SummaryNext]_summaryVars

-------------------------------------------------------------------------------
\* The two counts of a success rate differ from those of one moment by exactly the
\* successful payments committed between them: of the total no success is missed,
\* none leaves the minute on the way and none is counted that was not committed.
\* These commits are an error of the page: they lift the rate, above 100 % when
\* all of the total succeeded, to one the payments never had.
CountsDifferByCommits ==
  \A d \in Dashboards : page[d] = "rated" =>
    success[d] = Selected(d, (total[d] \cup between[d]) \cap ok)

\* The two halves of a page agree: one that counts payments of the last minute
\* counts them in its TPS window as well, and tells no drop if they are enough,
\* when they were recorded in Redis and are still there and the page took no
\* longer than the window.
HalvesAgree ==
  \A d \in Watching :
    /\ page[d] = "rated" /\ total[d] \subseteq stored \ lost /\ now - since[d] < Window
    /\ Status(d) = "drop"
    => Cardinality(total[d]) < DropBelow
===============================================================================
