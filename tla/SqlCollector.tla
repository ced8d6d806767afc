---------------------------- MODULE SqlCollector -----------------------------
(***************************************************************************)
(* The SQL collector service: one turn of Worker.ProcessNextRunAsync takes *)
(* the oldest run the IIS collector published, matches its sockets with    *)
(* the sessions of the SQL servers they lead to and turns them into        *)
(* inventory.  Every action is one statement or one SaveChanges against    *)
(* the database; what the worker holds in memory between them is sql[w].   *)
(*                                                                         *)
(* Entity Framework writes only what changed, and a save fails as a whole  *)
(* when a row it deletes or updates is gone, when a row version differs    *)
(* (SqlServers) or when a unique key exists already.                       *)
(***************************************************************************)
EXTENDS InventoryDatabase

CONSTANT SqlCollectors   \* instances of the service

VARIABLE sql             \* the local state of each instance

SocketId == [server : IisServers, ip : Endpoints]

\* What became of an endpoint group of the run being processed.
Outcome == {"None", "Unknown", "Success", "Failed"}

SqlWorker == [pc : {"Idle", "Pick", "Lease", "Load", "SaveEmpty", "SaveExpired",
                    "Match", "Delete", "Save", "Down"},
              run : RunIds \union {0},
              counted : [matched : Nat, unmatched : Nat],
              rows : SUBSET [server : IisServers, ip : Endpoints, status : RowStatus],
              outcome : [Endpoints -> Outcome],
              observed : [Endpoints -> Nat],
              matched : Nat,
              unmatched : Nat,
              found : SUBSET SocketId,
              writes : SUBSET Registered,
              stale : SUBSET Registered]

\* counted: the counters of the run as read; observed: the observation counts
\* of unknown endpoints as read; matched, unmatched: what this turn adds;
\* found: the sockets to go to the inventory; writes: the SqlServers rows this
\* turn has changed; stale: those rows another write has overtaken.
SqlIdle == [pc |-> "Idle", run |-> 0, counted |-> [matched |-> 0, unmatched |-> 0],
            rows |-> {}, outcome |-> [e \in Endpoints |-> "None"],
            observed |-> [e \in Endpoints |-> 0], matched |-> 0, unmatched |-> 0,
            found |-> {}, writes |-> {}, stale |-> {}]

SqlDown == [SqlIdle EXCEPT !.pc = "Down"]

SqlTypeOK == sql \in [SqlCollectors -> SqlWorker]

SqlInit == sql = [w \in SqlCollectors |-> SqlIdle]

-----------------------------------------------------------------------------
(* Taking a run.                                                           *)

\* A run whose processing started (with the run) longer ago than the lease
\* goes back to the queue.
Requeue(w) ==
    /\ sql[w].pc = "Idle"
    /\ runs' = [r \in RunIds |->
           IF runs[r].status = "ProcessingSql" /\ ~runs[r].done /\ runs[r].age > LeaseAge
           THEN [runs[r] EXCEPT !.status = "ReadyForSql"] ELSE runs[r]]
    /\ sql' = [sql EXCEPT ![w] = [SqlIdle EXCEPT !.pc = "Pick"]]
    /\ UNCHANGED <<staging, inventory, iisServers, sqlServers, unknown, faults>>

Queued == {r \in RunIds : runs[r].status \in {"ReadyForSql", "Partial"}}

NothingQueued(w) ==
    /\ sql[w].pc = "Pick"
    /\ Queued = {}
    /\ sql' = [sql EXCEPT ![w] = SqlIdle]
    /\ UNCHANGED dbVars

\* The oldest queued run is read ...
PickRun(w) ==
    /\ sql[w].pc = "Pick"
    /\ \E r \in Queued :
        /\ \A q \in Queued : r <= q
        /\ sql' = [sql EXCEPT ![w] = [SqlIdle EXCEPT
               !.pc = "Lease", !.run = r,
               !.counted = [matched |-> runs[r].matched, unmatched |-> runs[r].unmatched]]]
    /\ UNCHANGED dbVars

\* ... and marked in a statement of its own, whatever its status is by then.
LeaseRun(w) ==
    /\ sql[w].pc = "Lease"
    /\ runs' = [runs EXCEPT ![sql[w].run].status = "ProcessingSql"]
    /\ sql' = [sql EXCEPT ![w].pc = "Load"]
    /\ UNCHANGED <<staging, inventory, iisServers, sqlServers, unknown, faults>>

\* Mutant: the rows are taken out of the table when they are read.
LoadStagingDequeues(w) ==
    /\ sql[w].pc = "Load"
    /\ LET rows == RowsOf(sql[w].run)
       IN  /\ sql' = [sql EXCEPT
                  ![w].rows = {[server |-> x.server, ip |-> x.ip, status |-> x.status] : x \in rows},
                  ![w].pc = IF rows = {} THEN "SaveEmpty" ELSE "Match"]
           /\ staging' = staging \ rows
    /\ UNCHANGED <<runs, inventory, iisServers, sqlServers, unknown, faults>>

\* Mutant: the age of the snapshot is not looked at.
LoadStagingAnyAge(w) ==
    /\ sql[w].pc = "Load"
    /\ LET rows == RowsOf(sql[w].run)
       IN sql' = [sql EXCEPT
              ![w].rows = {[server |-> x.server, ip |-> x.ip, status |-> x.status] : x \in rows},
              ![w].pc = IF rows = {} THEN "SaveEmpty" ELSE "Match"]
    /\ UNCHANGED dbVars

\* Loading the rows decides what becomes of the run: nothing to do, too old,
\* or matched endpoint by endpoint.
LoadStaging(w) ==
    /\ sql[w].pc = "Load"
    /\ LET rows == RowsOf(sql[w].run)
       IN sql' = [sql EXCEPT
              ![w].rows = {[server |-> x.server, ip |-> x.ip, status |-> x.status] : x \in rows},
              ![w].pc = CASE rows = {} -> "SaveEmpty"
                          [] \E x \in rows : x.age > MaxSnapshotAge -> "SaveExpired"
                          [] OTHER -> "Match"]
    /\ UNCHANGED dbVars

\* A run without sockets is complete.
SaveEmpty(w) ==
    /\ sql[w].pc = "SaveEmpty"
    /\ runs' = [runs EXCEPT ![sql[w].run].status = "Completed",
                            ![sql[w].run].done = TRUE]
    /\ sql' = [sql EXCEPT ![w] = SqlIdle]
    /\ UNCHANGED <<staging, inventory, iisServers, sqlServers, unknown, faults>>

\* The staging row a loaded row is a copy of.
IsCopy(w, x, row) == x.run = sql[w].run /\ Socket(x) = Socket(row)

\* All the given copies still have their row in the table.
Present(w, rows) == \A row \in rows : \E x \in staging : IsCopy(w, x, row)

\* Mutant: only the rows that are themselves too old are marked.
SaveExpiredOldRows(w) ==
    /\ sql[w].pc = "SaveExpired"
    /\ Present(w, {row \in sql[w].rows : row.status # "Expired"})
    /\ runs' = [runs EXCEPT ![sql[w].run].status = "Expired",
                            ![sql[w].run].done = TRUE]
    /\ staging' = {IF x.age > MaxSnapshotAge /\ \E row \in sql[w].rows : IsCopy(w, x, row)
                   THEN [x EXCEPT !.status = "Expired"] ELSE x : x \in staging}
    /\ sql' = [sql EXCEPT ![w] = SqlIdle]
    /\ UNCHANGED <<inventory, iisServers, sqlServers, unknown, faults>>

\* Every row of the run is marked, whatever its own age.
SaveExpired(w) ==
    /\ sql[w].pc = "SaveExpired"
    /\ Present(w, {row \in sql[w].rows : row.status # "Expired"})
    /\ runs' = [runs EXCEPT ![sql[w].run].status = "Expired",
                            ![sql[w].run].done = TRUE]
    /\ staging' = {IF \E row \in sql[w].rows : IsCopy(w, x, row)
                   THEN [x EXCEPT !.status = "Expired"] ELSE x : x \in staging}
    /\ sql' = [sql EXCEPT ![w] = SqlIdle]
    /\ UNCHANGED <<inventory, iisServers, sqlServers, unknown, faults>>

-----------------------------------------------------------------------------
(* Matching, one endpoint group after the other.                           *)

\* The sockets of an endpoint group.
Group(w, e) == Sockets({row \in sql[w].rows : row.ip = e})

\* The endpoint groups not visited yet.
Remaining(w) == {e \in Endpoints : sql[w].outcome[e] = "None" /\ Group(w, e) # {}}

IsActiveTarget(e) == e \in Registered /\ sqlServers[e].enabled

\* Mutant: the sockets of an unknown endpoint are not counted.
EndpointUnknownUncounted(w) ==
    /\ sql[w].pc = "Match"
    /\ \E e \in Remaining(w) :
        /\ ~IsActiveTarget(e)
        /\ sql' = [sql EXCEPT
               ![w].outcome[e] = "Unknown",
               ![w].observed[e] = unknown[e]]
    /\ UNCHANGED dbVars

\* Mutant: the status of the row of a disabled server is written, too.
EndpointUnknownMarked(w) ==
    /\ sql[w].pc = "Match"
    /\ \E e \in Remaining(w) :
        /\ ~IsActiveTarget(e)
        /\ sql' = [sql EXCEPT
               ![w].outcome[e] = "Unknown",
               ![w].observed[e] = unknown[e],
               ![w].unmatched = @ + Cardinality(Group(w, e)),
               ![w].writes = @ \union {e}]
    /\ UNCHANGED dbVars

\* Mutant: the observation is saved at once.
EndpointUnknownSaved(w) ==
    /\ sql[w].pc = "Match"
    /\ \E e \in Remaining(w) :
        /\ ~IsActiveTarget(e)
        /\ sql' = [sql EXCEPT
               ![w].outcome[e] = "Unknown",
               ![w].observed[e] = unknown[e],
               ![w].unmatched = @ + Cardinality(Group(w, e))]
        /\ unknown' = [unknown EXCEPT ![e] = @ + Cardinality(Group(w, e))]
    /\ UNCHANGED <<runs, staging, inventory, iisServers, sqlServers, faults>>

\* No enabled server has the address: it is noted as an unknown endpoint.
EndpointUnknown(w) ==
    /\ sql[w].pc = "Match"
    /\ \E e \in Remaining(w) :
        /\ ~IsActiveTarget(e)
        /\ sql' = [sql EXCEPT
               ![w].outcome[e] = "Unknown",
               ![w].observed[e] = unknown[e],
               ![w].unmatched = @ + Cardinality(Group(w, e))]
    /\ UNCHANGED dbVars

\* Mutant: sockets that are no longer open go to the inventory as well.
EndpointMatchedAll(w) ==
    /\ sql[w].pc = "Match"
    /\ \E e \in Remaining(w) :
        /\ IsActiveTarget(e)
        /\ \E open \in SUBSET Group(w, e) :
            sql' = [sql EXCEPT
                ![w].outcome[e] = "Success",
                ![w].matched = @ + Cardinality(open),
                ![w].unmatched = @ + Cardinality(Group(w, e) \ open),
                ![w].found = @ \union Group(w, e),
                ![w].writes = IF sqlServers[e].status # "Success" THEN @ \union {e} ELSE @]
    /\ UNCHANGED dbVars

\* The server is read: the sockets still open there are found, the others are
\* unmatched.  Its status is only written when it changes.
EndpointMatched(w) ==
    /\ sql[w].pc = "Match"
    /\ \E e \in Remaining(w) :
        /\ IsActiveTarget(e)
        /\ \E open \in SUBSET Group(w, e) :
            sql' = [sql EXCEPT
                ![w].outcome[e] = "Success",
                ![w].matched = @ + Cardinality(open),
                ![w].unmatched = @ + Cardinality(Group(w, e) \ open),
                ![w].found = @ \union open,
                ![w].writes = IF sqlServers[e].status # "Success" THEN @ \union {e} ELSE @]
    /\ UNCHANGED dbVars

\* The catch block of an endpoint group.  A repeated failure changes the row of
\* the server only if its message is another one.
Failing(w, e, otherMessage) ==
    [sql EXCEPT
        ![w].outcome[e] = "Failed",
        ![w].writes = IF sqlServers[e].status # "Failed" \/ otherMessage
                      THEN @ \union {e} ELSE @]

\* The server cannot be reached or read: none of its sockets is counted.
ReadFailed(w) ==
    /\ sql[w].pc = "Match"
    /\ \E e \in Remaining(w), otherMessage \in BOOLEAN :
        /\ IsActiveTarget(e)
        /\ sql' = Failing(w, e, otherMessage)
    /\ UNCHANGED dbVars

\* The database fails between the aggregation of one IIS server's sockets and
\* the next: the endpoint has failed, but its sockets have been counted and
\* some of them are already on their way to the inventory.
AggregationFailed(w) ==
    /\ sql[w].pc = "Match"
    /\ Fault
    /\ \E e \in Remaining(w), otherMessage \in BOOLEAN :
        /\ IsActiveTarget(e)
        /\ \E open \in SUBSET Group(w, e) :
           \E aggregated \in SUBSET open :
            sql' = [Failing(w, e, otherMessage) EXCEPT
                ![w].matched = @ + Cardinality(open),
                ![w].unmatched = @ + Cardinality(Group(w, e) \ open),
                ![w].found = @ \union aggregated]
    /\ UNCHANGED <<runs, staging, inventory, iisServers, sqlServers, unknown>>

AllVisited(w) ==
    /\ sql[w].pc = "Match"
    /\ Remaining(w) = {}
    /\ sql' = [sql EXCEPT ![w].pc = "Delete"]
    /\ UNCHANGED dbVars

-----------------------------------------------------------------------------
(* Writing the result: a delete, and one save for everything else.         *)

FailedRows(w) == {row \in sql[w].rows : sql[w].outcome[row.ip] = "Failed"}

\* Mutant: the sockets that were not matched are left in the table.
RemovedRowsMatched(w) == {row \in sql[w].rows : Socket(row) \in sql[w].found}

\* Rows that were loaded as Failed stay Failed and are not removed either.
RemovedRows(w) == {row \in sql[w].rows \ FailedRows(w) : row.status # "Failed"}

UnknownHere(w) == {e \in Endpoints : sql[w].outcome[e] = "Unknown"}

NewInventory(w) ==
    {[run |-> sql[w].run, server |-> k.server, ip |-> k.ip] : k \in sql[w].found}

\* Mutant: the staging rows of the run are deleted with its inventory.
DeleteInventoryAndStaging(w) ==
    /\ sql[w].pc = "Delete"
    /\ inventory' = inventory \ InventoryOf(sql[w].run)
    /\ staging' = staging \ RowsOf(sql[w].run)
    /\ sql' = [sql EXCEPT ![w].pc = "Save"]
    /\ UNCHANGED <<runs, iisServers, sqlServers, unknown, faults>>

\* Mutant: the new inventory replaces the old one before the run is saved.
DeleteInventoryReplacing(w) ==
    /\ sql[w].pc = "Delete"
    /\ inventory' = (inventory \ InventoryOf(sql[w].run)) \union NewInventory(w)
    /\ sql' = [sql EXCEPT ![w].pc = "Save"]
    /\ UNCHANGED <<runs, staging, iisServers, sqlServers, unknown, faults>>

\* Mutant: the delete does not ask for the run.
DeleteInventoryOfAll(w) ==
    /\ sql[w].pc = "Delete"
    /\ inventory' = {}
    /\ sql' = [sql EXCEPT ![w].pc = "Save"]
    /\ UNCHANGED <<runs, staging, iisServers, sqlServers, unknown, faults>>

\* A statement of its own, executed outside the transaction of the save.
DeleteInventory(w) ==
    /\ sql[w].pc = "Delete"
    /\ inventory' = inventory \ InventoryOf(sql[w].run)
    /\ sql' = [sql EXCEPT ![w].pc = "Save"]
    /\ UNCHANGED <<runs, staging, iisServers, sqlServers, unknown, faults>>

\* What the save needs: the rows it updates or deletes exist, no unique key it
\* inserts does, and no row version has changed.
CanSave(w) ==
    /\ Present(w, FailedRows(w) \union RemovedRows(w))
    /\ NewInventory(w) \intersect inventory = {}
    /\ sql[w].writes \intersect sql[w].stale = {}
    /\ \A e \in UnknownHere(w) : sql[w].observed[e] = 0 => unknown[e] = 0

\* A counter column is written only if this turn added to it.
Written(old, read, added) == IF added = 0 THEN old ELSE read + added

\* The copies other workers hold of the SqlServers rows in E.
Overtaken(E, W) ==
    [v \in SqlCollectors |->
        IF v \in W
        THEN [sql[v] EXCEPT !.stale = @ \union
                 {e \in E : sql[v].outcome[e] \in {"Success", "Failed"}}]
        ELSE sql[v]]

SaveResult(w) ==
    LET me == sql[w]
    IN  /\ me.pc = "Save"
        /\ CanSave(w)
        /\ inventory' = inventory \union NewInventory(w)
        /\ staging' = {IF \E row \in FailedRows(w) : IsCopy(w, x, row)
                       THEN [x EXCEPT !.status = "Failed"] ELSE x :
                       x \in {y \in staging : ~\E row \in RemovedRows(w) : IsCopy(w, y, row)}}
        /\ runs' = [runs EXCEPT
               ![me.run].status = IF FailedRows(w) = {} THEN "Completed" ELSE "Failed",
               ![me.run].done = TRUE,
               ![me.run].matched = Written(@, me.counted.matched, me.matched),
               ![me.run].unmatched = Written(@, me.counted.unmatched, me.unmatched)]
        /\ sqlServers' = [e \in Registered |->
               IF e \in me.writes THEN [sqlServers[e] EXCEPT !.status = me.outcome[e]]
               ELSE sqlServers[e]]
        /\ unknown' = [e \in Endpoints |->
               IF e \in UnknownHere(w)
               THEN me.observed[e] + Cardinality(Group(w, e)) ELSE unknown[e]]
        /\ sql' = [Overtaken(me.writes, SqlCollectors \ {w}) EXCEPT ![w] = SqlIdle]
        /\ UNCHANGED <<iisServers, faults>>

\* A save that cannot be made throws; the run stays as the lease left it.
SaveConflict(w) ==
    /\ \/ sql[w].pc = "Save" /\ ~CanSave(w)
       \/ /\ sql[w].pc = "SaveExpired"
          /\ ~Present(w, {row \in sql[w].rows : row.status # "Expired"})
    /\ sql' = [sql EXCEPT ![w] = SqlIdle]
    /\ UNCHANGED dbVars

-----------------------------------------------------------------------------
(* Failures of the worker itself, and the administrator.                   *)

\* A database error ends the turn; the loop catches it and polls again.
SqlError(w) ==
    /\ sql[w].pc \notin {"Idle", "Down"}
    /\ Fault
    /\ sql' = [sql EXCEPT ![w] = SqlIdle]
    /\ UNCHANGED <<runs, staging, inventory, iisServers, sqlServers, unknown>>

\* The service stops: killed, or the error heartbeat itself could not be written.
SqlCrash(w) ==
    /\ sql[w].pc # "Down"
    /\ Fault
    /\ sql' = [sql EXCEPT ![w] = SqlDown]
    /\ UNCHANGED <<runs, staging, inventory, iisServers, sqlServers, unknown>>

SqlRestart(w) ==
    /\ sql[w].pc = "Down"
    /\ sql' = [sql EXCEPT ![w] = SqlIdle]
    /\ UNCHANGED dbVars

\* An administrator enables or disables a server on the SQL servers page.
ToggleSqlServer(e) ==
    /\ sqlServers' = [sqlServers EXCEPT ![e].enabled = ~@]
    /\ sql' = Overtaken({e}, SqlCollectors)
    /\ UNCHANGED <<runs, staging, inventory, iisServers, unknown, faults>>

\* The steps of an instance that is running and whose database answers.
SqlStep(w) ==
    \/ Requeue(w) \/ NothingQueued(w) \/ PickRun(w) \/ LeaseRun(w) \/ LoadStaging(w)
    \/ SaveEmpty(w) \/ SaveExpired(w)
    \/ EndpointUnknown(w) \/ EndpointMatched(w)
    \/ ReadFailed(w) \/ AggregationFailed(w) \/ AllVisited(w)
    \/ DeleteInventory(w) \/ SaveResult(w) \/ SaveConflict(w)

SqlNext ==
    \/ \E w \in SqlCollectors : SqlStep(w) \/ SqlError(w) \/ SqlCrash(w) \/ SqlRestart(w)
    \/ \E e \in Registered : ToggleSqlServer(e)
=============================================================================
