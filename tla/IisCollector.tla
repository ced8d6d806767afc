---------------------------- MODULE IisCollector -----------------------------
(***************************************************************************)
(* The IIS collector service: one cycle of Worker.RunCycleAsync collects   *)
(* the sockets of every due IIS server into one run and hands the run to   *)
(* the SQL collector by its status.  Every action is what one SaveChanges  *)
(* commits, with the reads and computations before it.                     *)
(*                                                                         *)
(* IisServers has a row version: a save fails when the row was written     *)
(* since the worker read it.  iis[c].stale is the set of servers, of those *)
(* the cycle still has to save, for which that is the case.                *)
(***************************************************************************)
EXTENDS InventoryDatabase

CONSTANTS
    IisCollectors,   \* instances of the service
    MaxDuplicates    \* bound: entries of one list that repeat a socket of it

ASSUME DuplicatesAssumption == MaxDuplicates \in Nat

VARIABLE iis             \* the local state of each instance

IisWorker == [pc : {"Idle", "Attempt", "Collect", "Down"},
              run : RunIds \union {0},
              todo : SUBSET IisServers,
              current : SUBSET IisServers,
              stale : SUBSET IisServers]

IisIdle == [pc |-> "Idle", run |-> 0, todo |-> {}, current |-> {}, stale |-> {}]

IisDown == [IisIdle EXCEPT !.pc = "Down"]

IisTypeOK == iis \in [IisCollectors -> IisWorker]

IisInit == iis = [c \in IisCollectors |-> IisIdle]

Due == {s \in IisServers : iisServers[s].enabled /\ iisServers[s].age >= CollectionInterval}

\* Mutant: without a row version no copy is ever out of date.
OverwrittenUnversioned(s, D) == iis

\* What the write of server s does to the copies the instances in D hold of it.
Overwritten(s, D) ==
    [d \in IisCollectors |->
        IF d \in D /\ s \in iis[d].todo \union iis[d].current
        THEN [iis[d] EXCEPT !.stale = @ \union {s}] ELSE iis[d]]

\* The due servers are read and a run is inserted for them.  With none due
\* the cycle ends without a change.
StartCycle(c) ==
    /\ iis[c].pc = "Idle"
    /\ Due # {}
    /\ \E r \in RunIds :
        /\ runs[r].status = "Absent"
        /\ \A q \in RunIds : q < r => runs[q].status # "Absent"
        /\ runs' = [runs EXCEPT ![r] =
               [NoRun EXCEPT !.status = "PendingIis", !.servers = Cardinality(Due)]]
        /\ iis' = [iis EXCEPT ![c] =
               [IisIdle EXCEPT !.pc = "Attempt", !.run = r, !.todo = Due]]
    /\ UNCHANGED <<staging, inventory, iisServers, sqlServers, unknown, faults>>

\* The next server is marked Running, in a save outside the try block.
MarkAttempt(c) ==
    /\ iis[c].pc = "Attempt"
    /\ \E s \in iis[c].todo \ iis[c].stale :
        /\ iisServers' = [iisServers EXCEPT ![s].age = 0, ![s].status = "Running"]
        /\ iis' = [Overwritten(s, IisCollectors \ {c}) EXCEPT
               ![c].pc = "Collect", ![c].todo = @ \ {s}, ![c].current = {s}]
    /\ UNCHANGED <<runs, staging, inventory, sqlServers, unknown, faults>>

\* The row was written by someone else: the save throws and the cycle ends.
AttemptConflict(c) ==
    /\ iis[c].pc = "Attempt"
    /\ iis[c].todo \intersect iis[c].stale # {}
    /\ iis' = [iis EXCEPT ![c] = IisIdle]
    /\ UNCHANGED dbVars

\* How many entries a list may have that shows the given sockets: a socket may be
\* in it more than once.
ListLengths(sockets) ==
    IF sockets = {} THEN {0}
    ELSE Cardinality(sockets)..(Cardinality(sockets) + MaxDuplicates)

\* The sockets of the current server, its status and the counters of the run
\* are committed together.  The run counts the entries of the list, the table
\* gets each socket once.
CollectSucceeds(c) ==
    /\ iis[c].pc = "Collect"
    /\ iis[c].current \intersect iis[c].stale = {}
    /\ \E s \in iis[c].current, observed \in SUBSET Endpoints :
       \E listed \in ListLengths(observed) :
        /\ staging' = staging \union
               {[run |-> iis[c].run, server |-> s, ip |-> e, age |-> 0,
                 status |-> "Pending"] : e \in observed}
        /\ runs' = [runs EXCEPT
               ![iis[c].run].ok = @ + 1,
               ![iis[c].run].staged = @ + listed]
        /\ iisServers' = [iisServers EXCEPT ![s].status = "Success"]
        /\ iis' = [Overwritten(s, IisCollectors \ {c}) EXCEPT
               ![c].pc = "Attempt", ![c].current = {}]
    /\ UNCHANGED <<inventory, sqlServers, unknown, faults>>

\* PowerShell fails or exceeds its timeout: caught, and the server counts as failed.
CollectFails(c) ==
    /\ iis[c].pc = "Collect"
    /\ iis[c].current \intersect iis[c].stale = {}
    /\ \E s \in iis[c].current :
        /\ runs' = [runs EXCEPT ![iis[c].run].fail = @ + 1]
        /\ iisServers' = [iisServers EXCEPT ![s].status = "Failed"]
        /\ iis' = [Overwritten(s, IisCollectors \ {c}) EXCEPT
               ![c].pc = "Attempt", ![c].current = {}]
    /\ UNCHANGED <<staging, inventory, sqlServers, unknown, faults>>

\* The row was written during the collection: the save after it throws.
CollectConflict(c) ==
    /\ iis[c].pc = "Collect"
    /\ iis[c].current \intersect iis[c].stale # {}
    /\ iis' = [iis EXCEPT ![c] = IisIdle]
    /\ UNCHANGED dbVars

\* Mutant: the failed servers of a run are forgotten.
PublishedStatusOptimistic(run) == IF run.ok > 0 THEN "ReadyForSql" ELSE "Failed"

\* What the counters of a run that has visited all its servers make of it.
PublishedStatus(run) ==
    CASE run.ok > 0 /\ run.fail > 0 -> "Partial"
      [] run.ok > 0 /\ run.fail = 0 -> "ReadyForSql"
      [] OTHER                      -> "Failed"

PublishRun(c) ==
    /\ iis[c].pc = "Attempt"
    /\ iis[c].todo = {}
    /\ runs' = [runs EXCEPT
           ![iis[c].run].status = PublishedStatus(runs[iis[c].run]),
           ![iis[c].run].done = @ \/ PublishedStatus(runs[iis[c].run]) = "Failed"]
    /\ iis' = [iis EXCEPT ![c] = IisIdle]
    /\ UNCHANGED <<staging, inventory, iisServers, sqlServers, unknown, faults>>

\* A database error ends the cycle; the loop catches it and polls again.
IisError(c) ==
    /\ iis[c].pc \in {"Attempt", "Collect"}
    /\ Fault
    /\ iis' = [iis EXCEPT ![c] = IisIdle]
    /\ UNCHANGED <<runs, staging, inventory, iisServers, sqlServers, unknown>>

\* The service stops: killed, or the error heartbeat itself could not be written.
IisCrash(c) ==
    /\ iis[c].pc # "Down"
    /\ Fault
    /\ iis' = [iis EXCEPT ![c] = IisDown]
    /\ UNCHANGED <<runs, staging, inventory, iisServers, sqlServers, unknown>>

IisRestart(c) ==
    /\ iis[c].pc = "Down"
    /\ iis' = [iis EXCEPT ![c] = IisIdle]
    /\ UNCHANGED dbVars

\* An administrator enables or disables a server on the IIS servers page.
ToggleIisServer(s) ==
    /\ iisServers' = [iisServers EXCEPT ![s].enabled = ~@]
    /\ iis' = Overwritten(s, IisCollectors)
    /\ UNCHANGED <<runs, staging, inventory, sqlServers, unknown, faults>>

\* The steps of an instance that is running and whose database answers.
IisStep(c) ==
    \/ StartCycle(c) \/ MarkAttempt(c) \/ AttemptConflict(c)
    \/ CollectSucceeds(c) \/ CollectFails(c) \/ CollectConflict(c)
    \/ PublishRun(c)

IisNext ==
    \/ \E c \in IisCollectors : IisStep(c) \/ IisError(c) \/ IisCrash(c) \/ IisRestart(c)
    \/ \E s \in IisServers : ToggleIisServer(s)

-----------------------------------------------------------------------------
(* The collector on its own, with nobody consuming the runs it publishes.  *)

iisAll == <<dbVars, iis>>

IisSpecInit == DbInit /\ IisInit

IisSpecNext == IisNext \/ (Tick /\ UNCHANGED iis)

IisSpec == IisSpecInit /\ [][IisSpecNext]_iisAll

\* Of the IIS collectors that are collecting from a server at the same time, at
\* most one can still commit what it finds: the row version of the server
\* (saves of IisCollector/Worker.cs:75 and 106) fences off the others.
CollectionFenced ==
    \A c, d \in IisCollectors : c # d =>
        (iis[c].current \ iis[c].stale) \intersect (iis[d].current \ iis[d].stale) = {}

\* A run is handed over only when each of its servers has been accounted for,
\* and with the status its counters stand for; the sockets it offers come from
\* no more servers than have succeeded (IisCollector/Worker.cs:70 to 114).
PublishedRunsVisitedAll ==
    \A r \in RunIds : runs[r].status \notin {"Absent", "PendingIis"} =>
        /\ runs[r].ok + runs[r].fail = runs[r].servers
        /\ Cardinality({x.server : x \in RowsOf(r)}) <= runs[r].ok
        /\ runs[r].status = "ReadyForSql" => runs[r].fail = 0
        /\ runs[r].status = "Partial" => runs[r].ok > 0

\* The decision to collect from a server was made when the cycle began, and it
\* is still right when it is acted on: a copy that nothing has overtaken is of a
\* server that is enabled and due, so a server disabled meanwhile is not
\* collected from (IisCollector/Worker.cs:55 to 58 and 75).
DecisionStillValid ==
    \A c \in IisCollectors : iis[c].todo \ iis[c].stale \subseteq Due
=============================================================================
