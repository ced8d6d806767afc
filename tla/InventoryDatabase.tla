-------------------------- MODULE InventoryDatabase --------------------------
(***************************************************************************)
(* The tables of the central inventory database that the IIS collector and *)
(* the SQL collector share, and the passing of time over them.  All        *)
(* coordination between the two services goes through these tables.        *)
(*                                                                         *)
(* Timestamps are kept as ages: a tick makes every timestamp one unit      *)
(* older, and an age stops growing once every comparison the code makes    *)
(* with it has been decided (StartedAtUtc beyond the lease, CollectedAtUtc *)
(* beyond the snapshot limit, LastCollectionAttemptUtc beyond the          *)
(* interval).  Runs are numbered in the order of their StartedAtUtc.       *)
(***************************************************************************)
EXTENDS Naturals, FiniteSets

CONSTANTS
    IisServers,          \* rows of IisServers
    Endpoints,           \* SQL addresses the sockets of IIS servers lead to
    Registered,          \* the endpoints that have a row in SqlServers
    CollectionInterval,  \* IisCollectorOptions.CollectionIntervalSeconds, in ticks
    LeaseAge,            \* the 30 seconds after which a run is requeued, in ticks
    MaxSnapshotAge,      \* SqlCollectorOptions.MaxSnapshotAgeSeconds, in ticks
    MaxRuns,             \* bound: number of collection runs ever started
    MaxFaults            \* bound: number of crashes and database errors

ASSUME ServersAssumption == IsFiniteSet(IisServers)
ASSUME EndpointsAssumption == IsFiniteSet(Endpoints) /\ Registered \subseteq Endpoints
ASSUME TimesAssumption ==
    CollectionInterval \in Nat /\ LeaseAge \in Nat /\ MaxSnapshotAge \in Nat
ASSUME BoundsAssumption == MaxRuns \in Nat /\ MaxFaults \in Nat

VARIABLES
    runs,        \* CollectionRuns
    staging,     \* IisConnectionStaging: the sockets seen, still to be matched
    inventory,   \* ConnectionInventory: the sockets a finished run matched
    iisServers,  \* IisServers
    sqlServers,  \* SqlServers
    unknown,     \* UnknownSqlEndpoints.ObservationCount, 0 where there is no row
    faults       \* crashes and database errors so far (bounded by MaxFaults)

dbVars == <<runs, staging, inventory, iisServers, sqlServers, unknown, faults>>

RunIds == 1..MaxRuns

\* CollectionRunStatus; "Absent" is a run that has not been inserted yet.
RunStatus == {"Absent", "PendingIis", "ReadyForSql", "ProcessingSql",
              "Completed", "Partial", "Failed", "Expired"}

\* CollectionStatus as the collectors write it; "None" is the null of the column.
ServerStatus == {"None", "Running", "Success", "Failed"}

\* StagingProcessingStatus; the code never writes Processing.
RowStatus == {"Pending", "Failed", "Expired"}

\* done stands for CompletedAtUtc IS NOT NULL.
Run == [status : RunStatus, age : Nat, done : BOOLEAN, servers : Nat,
        ok : Nat, fail : Nat, staged : Nat, matched : Nat, unmatched : Nat]

NoRun == [status |-> "Absent", age |-> 0, done |-> FALSE, servers |-> 0,
          ok |-> 0, fail |-> 0, staged |-> 0, matched |-> 0, unmatched |-> 0]

(***************************************************************************)
(* One staging row stands for one socket, and a model has at most one      *)
(* socket from an IIS server to an endpoint in one run: the application    *)
(* pool, process and port that tell sockets apart in the table's unique    *)
(* index are not needed by what the two workers decide.                    *)
(***************************************************************************)
StagingRow == [run : RunIds, server : IisServers, ip : Endpoints,
               age : Nat, status : RowStatus]

InventoryRow == [run : RunIds, server : IisServers, ip : Endpoints]

\* age is that of LastCollectionAttemptUtc.
IisServer == [enabled : BOOLEAN, age : Nat, status : ServerStatus]

SqlServer == [enabled : BOOLEAN, status : ServerStatus]

RowsOf(r) == {x \in staging : x.run = r}

InventoryOf(r) == {x \in inventory : x.run = r}

\* The socket a staging or an inventory row is about.
Socket(x) == [server |-> x.server, ip |-> x.ip]

Sockets(rows) == {Socket(x) : x \in rows}

DbTypeOK ==
    /\ runs \in [RunIds -> Run]
    /\ staging \subseteq StagingRow
    /\ inventory \subseteq InventoryRow
    /\ iisServers \in [IisServers -> IisServer]
    /\ sqlServers \in [Registered -> SqlServer]
    /\ unknown \in [Endpoints -> Nat]
    /\ faults \in Nat

\* Servers as an administrator adds them: enabled, never collected from
\* (an age at the limit is due, as a null LastCollectionAttemptUtc is).
DbInit ==
    /\ runs = [r \in RunIds |-> NoRun]
    /\ staging = {}
    /\ inventory = {}
    /\ iisServers = [s \in IisServers |->
           [enabled |-> TRUE, age |-> CollectionInterval, status |-> "None"]]
    /\ sqlServers = [e \in Registered |-> [enabled |-> TRUE, status |-> "None"]]
    /\ unknown = [e \in Endpoints |-> 0]
    /\ faults = 0

Older(age, limit) == IF age < limit THEN age + 1 ELSE age

\* One unit of time passes; the age of a run counts only until it is done.
Tick ==
    /\ runs' = [r \in RunIds |->
           IF runs[r].status = "Absent" \/ runs[r].done THEN runs[r]
           ELSE [runs[r] EXCEPT !.age = Older(@, LeaseAge + 1)]]
    /\ staging' = {[x EXCEPT !.age = Older(@, MaxSnapshotAge + 1)] : x \in staging}
    /\ iisServers' = [s \in IisServers |->
           [iisServers[s] EXCEPT !.age = Older(@, CollectionInterval)]]
    /\ UNCHANGED <<inventory, sqlServers, unknown, faults>>

\* A crash or a database error, of which there are at most MaxFaults.
Fault == faults < MaxFaults /\ faults' = faults + 1
=============================================================================
