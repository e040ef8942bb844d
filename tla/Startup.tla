-------------------------------- MODULE Startup --------------------------------
(***************************************************************************)
(* init_db() (libs/common/carop_common/db.py), which every service with    *)
(* tables calls before it serves, all of them at once when the deployment  *)
(* starts.  Kubernetes restarts a process that ended; docker-compose has   *)
(* no restart policy here, and starts it when somebody asks.               *)
(*                                                                         *)
(* create_all() is one transaction: it looks which tables are missing,     *)
(* creates them and commits.  PostgreSQL is external: of two transactions  *)
(* that create a table, the later waits for the earlier, and fails with an *)
(* IntegrityError once that commits; but a CREATE that comes after that    *)
(* COMMIT fails with "already exists", a ProgrammingError.                 *)
(*                                                                         *)
(* Bounds: MaxOutages calls that do not reach the database, MaxCrashes     *)
(* deaths of a process; raced counts to two, more is as much.              *)
(***************************************************************************)
EXTENDS Naturals

CONSTANTS Processes,   \* the processes of all services
          Managed,     \* those of them that Kubernetes restarts
          Attempts,    \* 20
          MaxOutages, MaxCrashes

ASSUME StartupAssumption == /\ Managed \subseteq Processes
                            /\ Attempts \in Nat \ {0}
                            /\ MaxOutages \in Nat /\ MaxCrashes \in Nat

VARIABLES tables,    \* the tables are there
          boot,      \* where each process is
          attempt,   \* the attempt it is at
          excuse,    \* why its latest start failed
          missed,    \* attempts of that start that did not reach the database
          raced,     \* starts it has lost to the creation of the tables, up to two
          outages, crashes

observed == <<excuse, missed, raced>>
startupVars == <<tables, boot, attempt, observed, outages, crashes>>

StartupTypeOK ==
  /\ tables \in BOOLEAN
  /\ boot \in [Processes -> {"down", "checking", "creating", "serving"}]
  /\ attempt \in [Processes -> 1 .. Attempts]
  /\ excuse \in [Processes -> {"none", "outage", "race"}]
  /\ missed \in [Processes -> 0 .. Attempts]
  /\ raced \in [Processes -> 0 .. 2]
  /\ outages \in 0 .. MaxOutages
  /\ crashes \in 0 .. MaxCrashes

BootTo(p, from, to) == boot[p] = from /\ boot' = [boot EXCEPT ![p] = to]

\* The process is started, the first time or again.
Launch(p) ==
  /\ BootTo(p, "down", "checking")
  /\ attempt' = [attempt EXCEPT ![p] = 1]
  /\ excuse' = [excuse EXCEPT ![p] = "none"]
  /\ missed' = [missed EXCEPT ![p] = 0]
  /\ UNCHANGED <<tables, raced, outages, crashes>>

\* Mutant: create_all(checkfirst=False) creates the tables whether or not they exist.
CreatesUnchecked(p) ==
  /\ BootTo(p, "checking", "creating")
  /\ UNCHANGED <<tables, attempt, observed, outages, crashes>>

\* create_all() begins: which tables are missing?
Check(p) ==
  /\ BootTo(p, "checking", IF tables THEN "serving" ELSE "creating")
  /\ UNCHANGED <<tables, attempt, observed, outages, crashes>>

\* ... and commits.
Create(p) ==
  /\ ~ tables
  /\ BootTo(p, "creating", "serving")
  /\ tables' = TRUE
  /\ UNCHANGED <<attempt, observed, outages, crashes>>

\* IntegrityError: another process has created them, all in one COMMIT.
CreateRaced(p) ==
  /\ tables
  /\ BootTo(p, "creating", "serving")
  /\ UNCHANGED <<tables, attempt, observed, outages, crashes>>

\* The start fails, which ends the process.
StartFails(p, from, why) ==
  /\ BootTo(p, from, "down")
  /\ excuse' = [excuse EXCEPT ![p] = why]

\* ProgrammingError: nothing catches it.
CreateTooLate(p) ==
  /\ tables
  /\ StartFails(p, "creating", "race")
  /\ raced' = [raced EXCEPT ![p] = IF @ = 2 THEN @ ELSE @ + 1]
  /\ UNCHANGED <<tables, attempt, missed, outages, crashes>>

\* Mutant: an attempt that does not reach the database ends the loop quietly.
GivesUpQuietly(p, from) == BootTo(p, from, "serving") /\ UNCHANGED <<attempt, excuse>>

\* Mutant: the first attempt is the last.
RaisesAtOnce(p, from) == StartFails(p, from, "outage") /\ UNCHANGED attempt

\* Two seconds later the next attempt begins, unless this was the last.
Retry(p, from) ==
  IF attempt[p] = Attempts
  THEN StartFails(p, from, "outage") /\ UNCHANGED attempt
  ELSE /\ BootTo(p, from, "checking")
       /\ attempt' = [attempt EXCEPT ![p] = @ + 1]
       /\ UNCHANGED excuse

\* OperationalError: the database is not reached, or not any more when the
\* COMMIT takes effect.
Outage(p) ==
  /\ outages < MaxOutages
  /\ outages' = outages + 1
  /\ missed' = [missed EXCEPT ![p] = @ + 1]
  /\ \/ Retry(p, "checking") /\ UNCHANGED tables
     \/ Retry(p, "creating") /\ tables' \in {tables, TRUE}
  /\ UNCHANGED <<raced, crashes>>

ProcessDies(p) ==
  /\ boot[p] # "down"
  /\ crashes < MaxCrashes
  /\ crashes' = crashes + 1
  /\ boot' = [boot EXCEPT ![p] = "down"]
  /\ UNCHANGED <<tables, attempt, observed, outages>>

StartupInit ==
  /\ tables \in BOOLEAN
  /\ boot = [p \in Processes |-> "down"]
  /\ attempt = [p \in Processes |-> 1]
  /\ excuse = [p \in Processes |-> "none"]
  /\ missed = [p \in Processes |-> 0]
  /\ raced = [p \in Processes |-> 0]
  /\ outages = 0 /\ crashes = 0

InitDb(p) == \/ Check(p) \/ Create(p) \/ CreateRaced(p)
             \/ CreateTooLate(p) \/ Outage(p)

-------------------------------------------------------------------------------
\* A process that serves finds its tables: an IntegrityError is swallowed only
\* when the tables of the other process are committed.
ServingHasTables == \A p \in Processes : boot[p] = "serving" => tables

\* A process gives the database up after Attempts attempts of its own did not
\* reach it, no sooner and no later, whatever other processes met and wherever in
\* create_all() it was.
GivesUpAfterAttempts ==
  \A p \in Processes : excuse[p] = "outage" <=> missed[p] = Attempts

\* However many processes create the tables at once and however often they are
\* started, the race costs each of them one start at most: the tables that ended
\* it are found by the next.  That it costs one at all contradicts the comment of
\* init_db(), by which such races are swallowed.
RaceLostOnce == \A p \in Processes : raced[p] <= 1

\* Every start comes to an end, and a process that Kubernetes restarts serves in
\* the end, however many others start beside it, while the database stays down for
\* a time only.
EveryStartEnds ==
  \A p \in Processes :
    /\ boot[p] \in {"checking", "creating"} ~> boot[p] \in {"serving", "down"}
    /\ p \in Managed => (boot[p] = "down" ~> boot[p] = "serving")
===============================================================================
