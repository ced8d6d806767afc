--------------------------- MODULE ConnectionPool ----------------------------
(***************************************************************************)
(* TestConnectionPoolService, the singleton behind the page that loads the *)
(* database with test connections.  All circuits of the page call it       *)
(* concurrently; a semaphore lets one call at a time through, the queries  *)
(* of the workload run on their own, and the database may drop any of      *)
(* their connections.                                                      *)
(***************************************************************************)
EXTENDS Integers, FiniteSets

CONSTANTS Target,      \* TargetConnectionCount
          Active,      \* ActiveTestConnectionCount
          Callers,     \* handlers of the page that may be under way at a time
          MaxFaults    \* bound on lost connections and failed statements

ASSUME PoolAssumption ==
    /\ Target \in Nat /\ Active \in Nat /\ Active < Target
    /\ MaxFaults \in Nat
    /\ IsFiniteSet(Callers)

Slots == 1..Target
Workers == 1..Active

ConnectionState == {"None", "Open", "Closed"}
TaskState == {"None", "Running", "Cancelled", "SqlFault", "OtherFault"}
Job == {"Start", "Stop", "StartActive", "StopActive", "Read"}

\* call: the method the page is awaiting; job: the one at work for it, which
\* differs while StartActive has Start do its part; readNext, activateNext:
\* what the handler goes on with.
Caller == [pc : {"Idle", "Check", "Wait", "Enter", "Await", "Stopped", "Open"},
           call : Job, job : Job, readNext : BOOLEAN, activateNext : BOOLEAN]

VARIABLES
    connections,    \* the list _connections; "None" in all slots: it is empty
    tasks,          \* the list _activeTasks; task i works on connection i
    cancellation,   \* _activeCancellation
    gate,           \* the callers _gate has let in
    calls,          \* the page handlers
    faults          \* faults so far

poolVars == <<connections, tasks, cancellation, gate, calls, faults>>

Idle == [pc |-> "Idle", call |-> "Read", job |-> "Read",
         readNext |-> FALSE, activateNext |-> FALSE]

PoolInit ==
    /\ connections = [i \in Slots |-> "None"]
    /\ tasks = [i \in Workers |-> "None"]
    /\ cancellation = "None"
    /\ gate = {}
    /\ calls = [c \in Callers |-> Idle]
    /\ faults = 0

IsRunning == \E i \in Slots : connections[i] = "Open"
WorkloadRuns == \E i \in Workers : tasks[i] = "Running"
Fails == faults < MaxFaults /\ faults' = faults + 1

-----------------------------------------------------------------------------
(* The page: a handler awaits one call of the service after the other.      *)

Calling(c, job) ==
    [calls EXCEPT ![c].pc = IF job = "StartActive" THEN "Check" ELSE "Wait",
                  ![c].call = job, ![c].job = job]

\* The page is opened, or its first button is clicked.
OpenPage(c) ==
    /\ calls[c].pc = "Idle"
    /\ \E activate \in BOOLEAN :
        calls' = [calls EXCEPT ![c] =
            [pc |-> "Wait", call |-> "Start", job |-> "Start",
             readNext |-> TRUE, activateNext |-> activate]]
    /\ UNCHANGED <<connections, tasks, cancellation, gate, faults>>

Click(c) ==
    /\ calls[c].pc = "Idle"
    /\ \E job \in {"Stop", "StartActive", "StopActive", "Read"} : calls' = Calling(c, job)
    /\ UNCHANGED <<connections, tasks, cancellation, gate, faults>>

\* The handler after the job at work for it has returned or thrown.  A failed
\* start is not followed by a read, but activation is tried all the same.
After(c, ok) ==
    IF ok /\ calls[c].job # calls[c].call
    THEN [calls[c] EXCEPT !.job = calls[c].call, !.pc = "Wait"]
    ELSE IF ok /\ calls[c].readNext
    THEN [calls[c] EXCEPT !.call = "Read", !.job = "Read", !.pc = "Wait", !.readNext = FALSE]
    ELSE IF calls[c].activateNext
    THEN [Idle EXCEPT !.call = "StartActive", !.job = "StartActive", !.pc = "Check"]
    ELSE Idle

Leave(c, ok) ==
    /\ calls' = [calls EXCEPT ![c] = After(c, ok)]
    /\ gate' = gate \ {c}

-----------------------------------------------------------------------------
(* Entering the service.                                                   *)

\* Whether the pool must be started first is decided before the gate is taken.
CheckRunning(c) ==
    /\ calls[c].pc = "Check"
    /\ calls' = [calls EXCEPT ![c].pc = "Wait",
                              ![c].job = IF IsRunning THEN "StartActive" ELSE "Start"]
    /\ UNCHANGED <<connections, tasks, cancellation, gate, faults>>

\* The list is counted while the caller inside the gate fills or clears it.
CheckRaced(c) ==
    /\ calls[c].pc = "Check"
    /\ \E d \in gate : calls[d].pc \in {"Stopped", "Open"} /\ calls[d].job \in {"Start", "Stop"}
    /\ calls' = [calls EXCEPT ![c] = After(c, FALSE)]
    /\ UNCHANGED <<connections, tasks, cancellation, gate, faults>>

Acquire(c) ==
    /\ calls[c].pc = "Wait"
    /\ gate = {}
    /\ gate' = {c}
    /\ calls' = [calls EXCEPT ![c].pc = "Enter"]
    /\ UNCHANGED <<connections, tasks, cancellation, faults>>

\* There is nothing to do: the pool, or a query of the workload, runs already.
AlreadyDone(c) ==
    \/ calls[c].job = "Start" /\ IsRunning
    \/ calls[c].job = "StartActive" /\ WorkloadRuns

ReturnEarly(c) ==
    /\ calls[c].pc = "Enter"
    /\ AlreadyDone(c)
    /\ Leave(c, TRUE)
    /\ UNCHANGED <<connections, tasks, cancellation, faults>>

-----------------------------------------------------------------------------
(* Every other call but a read first stops the workload.                   *)

\* Mutant: only queries that are still running need to be stopped.
NothingToStopIdle == ~WorkloadRuns

NothingToStop == cancellation = "None"

\* Mutant: the queries are cancelled, but nobody waits for them to end.
BeginStopNotAwaited(c) ==
    /\ calls[c].pc = "Enter"
    /\ calls[c].job # "Read"
    /\ ~AlreadyDone(c)
    /\ cancellation' = IF NothingToStop THEN cancellation ELSE "Cancelled"
    /\ calls' = [calls EXCEPT ![c].pc = "Stopped"]
    /\ UNCHANGED <<connections, tasks, gate, faults>>

BeginStop(c) ==
    /\ calls[c].pc = "Enter"
    /\ calls[c].job # "Read"
    /\ ~AlreadyDone(c)
    /\ cancellation' = IF NothingToStop THEN cancellation ELSE "Cancelled"
    /\ calls' = [calls EXCEPT ![c].pc = IF NothingToStop THEN "Stopped" ELSE "Await"]
    /\ UNCHANGED <<connections, tasks, gate, faults>>

\* Awaiting the tasks throws what the first of the failed ones threw.
ThrowsOther ==
    \E i \in Workers :
        /\ tasks[i] = "OtherFault"
        /\ \A j \in Workers : j < i => tasks[j] # "SqlFault"

\* Mutant: the source of the cancellation is not reset.
StopDoneKeepsSource(c) ==
    /\ calls[c].pc = "Await"
    /\ ~WorkloadRuns
    /\ ~ThrowsOther
    /\ tasks' = [i \in Workers |-> "None"]
    /\ calls' = [calls EXCEPT ![c].pc = "Stopped"]
    /\ UNCHANGED <<connections, cancellation, gate, faults>>

\* Cancellations and database errors are expected: the workload is forgotten.
StopDone(c) ==
    /\ calls[c].pc = "Await"
    /\ ~WorkloadRuns
    /\ ~ThrowsOther
    /\ tasks' = [i \in Workers |-> "None"]
    /\ cancellation' = "None"
    /\ calls' = [calls EXCEPT ![c].pc = "Stopped"]
    /\ UNCHANGED <<connections, gate, faults>>

\* Mutant: the gate is not released when the call throws.
StopThrowsInside(c) ==
    /\ calls[c].pc = "Await"
    /\ ~WorkloadRuns
    /\ ThrowsOther
    /\ calls' = [calls EXCEPT ![c] = After(c, FALSE)]
    /\ UNCHANGED <<connections, tasks, cancellation, gate, faults>>

\* Any other exception leaves the call, with tasks and cancellation in place.
StopThrows(c) ==
    /\ calls[c].pc = "Await"
    /\ ~WorkloadRuns
    /\ ThrowsOther
    /\ Leave(c, FALSE)
    /\ UNCHANGED <<connections, tasks, cancellation, faults>>

-----------------------------------------------------------------------------
(* The workload has been stopped.                                          *)

\* Stop closes the connections and returns, Start goes on to open new ones.
Close(c) ==
    /\ calls[c].pc = "Stopped"
    /\ calls[c].job \in {"Start", "Stop"}
    /\ connections' = [i \in Slots |-> "None"]
    /\ IF calls[c].job = "Stop"
       THEN Leave(c, TRUE)
       ELSE calls' = [calls EXCEPT ![c].pc = "Open"] /\ UNCHANGED gate
    /\ UNCHANGED <<tasks, cancellation, faults>>

WorkloadStopped(c) ==
    /\ calls[c].pc = "Stopped"
    /\ calls[c].job = "StopActive"
    /\ Leave(c, TRUE)
    /\ UNCHANGED <<connections, tasks, cancellation, faults>>

\* The connections the workload gets: all but the last, and none of no pool.
Loops == Workers \intersect 1..(Cardinality({i \in Slots : connections[i] # "None"}) - 1)

\* A query on a connection that is closed fails at once, and not with an error
\* of the database.
Launch(c) ==
    /\ calls[c].pc = "Stopped"
    /\ calls[c].job = "StartActive"
    /\ tasks' = [i \in Workers |->
           IF i \in Loops
           THEN IF connections[i] = "Open" THEN "Running" ELSE "OtherFault"
           ELSE "None"]
    /\ cancellation' = "Live"
    /\ Leave(c, TRUE)
    /\ UNCHANGED <<connections, faults>>

OpenAll(c) ==
    /\ calls[c].pc = "Open"
    /\ connections' = [i \in Slots |-> "Open"]
    /\ Leave(c, TRUE)
    /\ UNCHANGED <<tasks, cancellation, faults>>

\* Mutant: the connections that could be opened are kept.
OpenFailsKeeping(c) ==
    /\ calls[c].pc = "Open"
    /\ Fails
    /\ \E opened \in SUBSET Slots :
        connections' = [i \in Slots |-> IF i \in opened THEN "Open" ELSE "None"]
    /\ Leave(c, FALSE)
    /\ UNCHANGED <<tasks, cancellation>>

\* When one of the connections cannot be opened, all of them are disposed.
OpenFails(c) ==
    /\ calls[c].pc = "Open"
    /\ Fails
    /\ Leave(c, FALSE)
    /\ UNCHANGED <<connections, tasks, cancellation>>

-----------------------------------------------------------------------------
(* Reading the runs, over the last connection or one of its own.           *)

ReadRuns(c) ==
    /\ calls[c].pc = "Enter"
    /\ calls[c].job = "Read"
    /\ Leave(c, IsRunning => connections[Target] = "Open")
    /\ UNCHANGED <<connections, tasks, cancellation, faults>>

\* A failing statement may or may not have lost its connection.
ReadFails(c) ==
    /\ calls[c].pc = "Enter"
    /\ calls[c].job = "Read"
    /\ Fails
    /\ Leave(c, FALSE)
    /\ \/ UNCHANGED connections
       \/ /\ connections[Target] = "Open"
          /\ connections' = [connections EXCEPT ![Target] = "Closed"]
    /\ UNCHANGED <<tasks, cancellation>>

-----------------------------------------------------------------------------
(* The queries of the workload.                                            *)

\* A cancelled query ends as cancelled or with the error of its cancellation.
QueryCancelled(i) ==
    /\ tasks[i] = "Running"
    /\ cancellation = "Cancelled"
    /\ \E how \in {"Cancelled", "SqlFault"} : tasks' = [tasks EXCEPT ![i] = how]
    /\ UNCHANGED <<connections, cancellation, gate, calls, faults>>

\* The database drops the connection a query is running on.
ConnectionLost(i) ==
    /\ tasks[i] = "Running"
    /\ Fails
    /\ tasks' = [tasks EXCEPT ![i] = "SqlFault"]
    /\ connections' = [connections EXCEPT ![i] = "Closed"]
    /\ UNCHANGED <<cancellation, gate, calls>>

\* The steps of a call whose statements succeed, once it has the gate.
Proceed(c) ==
    \/ CheckRunning(c) \/ ReturnEarly(c) \/ BeginStop(c) \/ StopDone(c) \/ StopThrows(c)
    \/ Close(c) \/ WorkloadStopped(c) \/ Launch(c) \/ OpenAll(c) \/ ReadRuns(c)

PoolNext ==
    \/ \E c \in Callers :
        OpenPage(c) \/ Click(c) \/ CheckRaced(c) \/ Acquire(c) \/ Proceed(c)
        \/ OpenFails(c) \/ ReadFails(c)
    \/ \E i \in Workers : QueryCancelled(i) \/ ConnectionLost(i)

PoolSpec == PoolInit /\ [][PoolNext]_poolVars

(***************************************************************************)
(* A call that may go on does; the gate serves its waiters in the order    *)
(* they came, so that each of them gets it; a cancelled query ends.        *)
(***************************************************************************)
PoolFairness ==
    /\ \A c \in Callers : WF_poolVars(Proceed(c)) /\ SF_poolVars(Acquire(c))
    /\ \A i \in Workers : WF_poolVars(QueryCancelled(i))

FairPoolSpec == PoolSpec /\ PoolFairness

-----------------------------------------------------------------------------
\* The lists keep their shape: the pool has all of its connections or none,
\* and at most one caller is inside the gate.
PoolTypeOK ==
    /\ connections \in [Slots -> ConnectionState]
    /\ \A i, j \in Slots : connections[i] = "None" => connections[j] = "None"
    /\ tasks \in [Workers -> TaskState]
    /\ cancellation \in {"None", "Live", "Cancelled"}
    /\ gate \in SUBSET Callers
    /\ \A c, d \in gate : c = d
    /\ calls \in [Callers -> Caller]
    /\ faults \in 0..MaxFaults

\* No query of the workload runs on a connection that was closed or disposed,
\* and each of them can be cancelled: whatever the circuits call at once (TestConnectionPoolService.cs:60 to 64, 118 to 120, 132).
WorkloadUsesOpenConnections ==
    \A i \in Workers : tasks[i] = "Running" =>
        connections[i] = "Open" /\ cancellation # "None"

\* The job at work for a caller ends in this step, with or without an exception.
Ends(c, job) ==
    calls[c].pc \in {"Enter", "Await", "Stopped", "Open"} /\ calls[c].job = job /\ c \notin gate'

\* It ends and has not been ended by awaiting the workload.
Succeeds(c, job) == Ends(c, job) /\ calls[c].pc # "Await"

\* A call that stops the workload and succeeds has stopped all of it, even the
\* queries that failed before, and forgotten it (TestConnectionPoolService.cs:126
\* to 132), so that the workload can be started again.
StopsAreComplete ==
    [][\A c \in Callers :
          Succeeds(c, "StopActive") \/ Succeeds(c, "Stop") =>
              /\ \A i \in Workers : tasks'[i] = "None"
              /\ cancellation' = "None"]_poolVars

\* The lifecycle of the pool, read off the fields of the service.
Lifecycle == INSTANCE PoolLifecycle WITH
    Connections <- Slots,
    Queries <- Workers,
    open <- {i \in Slots : connections[i] = "Open"},
    running <- {i \in Workers : tasks[i] = "Running"},
    workload <- CASE cancellation = "None" -> "Off"
                  [] cancellation = "Live" -> "On"
                  [] OTHER                 -> "Stopping"

\* However the calls of all circuits interleave with each other, with lost
\* connections and with exceptions, the service goes through the lifecycle of one
\* pool: it never opens or closes a connection under a workload, never starts a
\* second workload beside one that is still being stopped, and never forgets a
\* connection it has open (TestConnectionPoolService.cs:20 to 45 and 54 to 133).
ImplementsLifecycle == Lifecycle!Spec

\* Whatever fails, no call keeps the gate: every handler of the page ends
\* (the finally blocks of TestConnectionPoolService.cs).
CallsReturn == \A c \in Callers : calls[c].pc # "Idle" ~> calls[c].pc = "Idle"

\* HOWTO_DEPLOY.md:823: when the test is over, stop the queries and close the
\* connections.  A stop that ends has closed all of them.
StopCloses ==
    [][\A c \in Callers :
          Ends(c, "Stop") => \A i \in Slots : connections'[i] = "None"]_poolVars
=============================================================================
