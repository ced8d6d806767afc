# Verification of PSMCollector

PSMCollector finds out which application pools on IIS servers hold connections
to which SQL Server databases.  Two Windows services do the work and never talk
to each other: all they share is the central inventory database.  This directory
holds TLA+ models of that work, the TLC configurations that check them on small
instances, and proofs of the main results for instances of every size.

## 1. The system

| Part | Source | State | Operations | Modelled in |
|---|---|---|---|---|
| Inventory database | `Inventory.Infrastructure/Persistence/InventoryDbContext.cs`, `Inventory.Domain/Entities`, `Enums` | tables `CollectionRuns`, `IisConnectionStaging`, `ConnectionInventory`, `IisServers`, `SqlServers`, `UnknownSqlEndpoints`, `CollectorHeartbeats` (and commands, audit log) | one transaction per `SaveChanges`; row versions on the two server tables; unique keys | `InventoryDatabase`; the heartbeat row in `ServiceLoop` |
| IIS collector | `Inventory.IisCollector/Worker.cs` | list of due servers, run, change tracker | start a cycle, mark a server, commit its sockets or its failure, publish the run | `IisCollector` |
| SQL collector | `Inventory.SqlCollector/Worker.cs` | run, loaded staging rows, counters, inventory to write, change tracker | requeue, pick, lease, load, expire, match endpoint by endpoint, delete, save | `SqlCollector` |
| Collector loops, heartbeats | `ExecuteAsync` and `WriteHeartbeatAsync` of both `Worker.cs`, `CollectorHeartbeat.cs` | time of the last heartbeat | heartbeat, cycle, error heartbeat, delay | `ServiceLoop` |
| Aggregation | `Inventory.Application/Services/ConnectionInventoryAggregator.cs` | none | sockets and sessions to inventory rows | `SqlCollector` (which sockets; not the totals) |
| Registry pages | `Components/Pages/IisServers.razor`, `SqlServers.razor` | none | enable and disable servers; add servers | the toggles, in `IisCollector` and `SqlCollector` |
| Reading pages | `Home.razor`, `Inventory.razor` | the run the dashboard has chosen | queries | `ReadingPages` (`Home.razor`) |
| Test connection pool | `Inventory.Web/Services/TestConnectionPoolService.cs`, `TestConnections.razor` | gate, connections, tasks, cancellation | start, stop, workload, read | `ConnectionPool` |
| Reconnect dialog | `ReconnectModal.razor.js`, `ReconnectModal.razor` | listeners, the dialog's class, the calls awaited | show, hide, retry, resume, reload | `ReconnectModal` |
| Coordinator, command queue, writer | `CollectionRunCoordinator.cs`, `CollectorCommandQueue.cs`, `InventoryWriter.cs` | tables | lease in a transaction, lease and complete commands, write inventory | not modelled; nothing calls them |
| Hosting, migrations, scripts, assets | `Program.cs`, `Migrations`, `database`, `scripts`, `wwwroot` | none | wiring, generated and vendored code | not modelled |

How they interact.  The IIS collector inserts a run (`PendingIis`), commits the
sockets of one server after the other as staging rows, and hands the run over by
setting its status to `ReadyForSql` or `Partial`.  The SQL collector takes the
oldest such run (`ProcessingSql`), asks each SQL server its sockets lead to for
its sessions, and writes inventory, removes staging rows and finishes the run
(`Completed`, `Failed`, `Expired`).  Administrators write the server tables at
any time, which makes saves of the two services fail by their row versions.

Each service runs its cycle in a loop that leaves a heartbeat in the database.  The
dashboard reads what the SQL collector wrote, in two queries that are not one
transaction.  In the browser, the reconnect dialog shares a page with the framework's
own attempts to reconnect.

What is hard about it: several instances of a service against one database;
saves that fail as a whole because of a row someone else wrote, after which the
turn is repeated from the start; statements executed outside the save's
transaction; crashes between any two statements; decisions (due, enabled, fresh
enough) that are made once and acted on later; calls that overlap and answers that are
stale when they arrive.  `hazards` in `PROJECT.json` lists each of these at its line.

### What makes each part correct

- IIS collector: of two collections from a server at most one commits; a server
  that has been disabled meanwhile is not collected from; a run is handed over
  only when each of its servers is accounted for, with the status its counters
  stand for.
- SQL collector: no socket leaves the staging table before its run is finished;
  each socket of a completed run is counted exactly once although turns are
  repeated; a completed run keeps the inventory it counted; what stays behind in
  the staging table says why; every run handed over is finished.
- Test connection pool: whatever circuits call at once and whatever fails, queries
  run on open connections only, a stop that succeeds leaves none behind, no call
  keeps the gate, and all calls together go through the lifecycle of a single pool.
- Both collectors together: nobody sees inventory of an unfinished run; the pipeline is a
  ledger of runs that disposes of a run in one step and never touches it again.
- Collector loops: the heartbeat row of a service at work has a bounded age, an error
  stays visible long enough to be noticed, and heartbeats go on after every outage.
- Dashboard: its two queries describe the same, whole run, whatever is finished or
  deleted between them.
- Reconnect dialog: however retries overlap, a page the framework gave up on is always
  waiting for the user, being retried or being reloaded; the dialog, while it is open,
  offers the way back that there is; and the page recovers, unless it was paused and
  the user has closed the dialog.

## 2. The modules

- **`InventoryDatabase`** declares the tables, the constants with their
  assumptions, the initial state and the passing of time.  Timestamps are kept
  as ages that saturate once every comparison with them has been decided.
  `done` stands for `CompletedAtUtc IS NOT NULL`.  A staging row stands for a
  socket; a model has at most one socket from a server to an endpoint per run,
  because nothing the workers decide tells two such sockets apart.
- **`IisCollector`** models `RunCycleAsync`.  An action is what one `SaveChanges`
  commits, with the reads before it.  `iis[c]` holds the servers the cycle has
  still to visit, the one it is collecting from, and which of its copies another
  write has overtaken (`stale`): that is the row version, as a set.  The list a server
  returns may repeat sockets: line 94 counts its entries, the `DistinctBy` of line 79
  stages each socket once, and `ListLengths` is what the count may then be.
- **`SqlCollector`** models `ProcessNextRunAsync`.  `sql[w]` holds what the worker
  has in memory between two statements: the loaded rows, the counters as read and
  as added to, the outcome of each endpoint, the inventory to be written, the
  server rows it has changed and those that were overtaken.  Entity Framework
  writes only changed columns and fails a save as a whole; `CanSave` states when.
  One subtle consequence is modelled: a successful endpoint whose server already
  has the status `Success` is not written, so a toggle does not conflict with it.
- **`CollectionPipeline`** composes the two, adds fairness, and states the
  properties of the whole and the refinement of **`RunLedger`**, the abstract
  specification: phases of a run, its pending and its published sockets.
- **`MCCollectionPipeline`** adds the symmetry set for model checking.
- **`ConnectionPool`** models `TestConnectionPoolService` and the handlers of its page
  (`TestConnections.razor`), independent of the other modules.  `connections` and
  `tasks` are the two lists by position, since all of a list is filled and cleared
  at once and task i works on connection i; `calls[c]` is a handler on its way
  through the service, and the steps between `Acquire` and `Leave` are those the
  awaits separate.  What `StartActive` reads before the gate is a step of its own.
  The database may drop a connection with a query on it; an idle connection that
  was lost still reads as open until it is used, as `SqlConnection.State` does.
  **`PoolLifecycle`** is its abstract specification, one pool without callers, gate and
  exceptions: connections are opened and closed only while there is no workload, and a
  workload is over when it was cancelled and its last query has ended.
- **`ReadingPages`** puts the dashboard (`Home.razor`) beside the pipeline.  `finished` is
  the order of `CompletedAtUtc`, by which the page finds the newest rows; `last` is
  the run it holds between its first query (`ChooseRun`) and its second (`LoadRows`).
- **`ServiceLoop`** models `ExecuteAsync` and `WriteHeartbeatAsync`, which are alike in
  both services.  Time is discrete: a cycle takes up to `LongestCycle` ticks, the
  delay `PollInterval`, a statement none.  The error heartbeat is written outside the
  `try` block, so that its failure ends the service; the state `Failed` is that place.
- **`ReconnectModal`** models the script of the dialog: each handler is an action, each
  `await` a step of `attempts[a]`, and the code after an `await` the action that takes the
  answer.  The framework (`link`), the server (`session`, `reachable`) and the user
  (`visible`) are external.  A refusal is decided when the call is answered and acted on
  later, when it may be stale; success is taken with its handler at once, because the
  framework hides the dialog itself.  A late exception of a retry makes a page listen that is
  connected again; its next return to the page starts a retry that finds the connection up,
  and the invariants cover that.  The dialog is opened by `showModal()`, so that the
  browser closes it on Esc (`Dismiss`); the script hears nothing of it.
- **`IisCollectorProofs`**, **`ConnectionPoolProofs`**, **`ReconnectModalProofs`** and
  **`ServiceLoopProofs`** hold the theorems about one component each;
  **`CollectionPipelineProofs`**, **`SingleCollectorProofs`**, **`LedgerProofs`** and
  **`ReadingPagesProofs`**, each on top of the one before, those about the pipeline and
  the dashboard that reads what it writes.

Operators whose comment begins with "Mutant" are broken variants of the
definition after them.  They are used in no specification; they show that the
property named with them in `PROJECT.json` fails when the code has that bug.

## 3. The runs

| Run | Instance | Properties |
|---|---|---|
| `SingleCollector` | 2 IIS servers, 2 endpoints of which 1 registered, 1 run, 1 fault | `TypeOK`, `RowStatusFollowsRun`, `CompletedRunsKeepInventory`, `CompletionCountsSockets`, `ImplementsLedger` |
| `TwoRuns` | the dashboard over 1 IIS server, 1 endpoint, registered but disabled at times, 2 runs, 1 fault, fairness | `UnknownCountedOnce`, `HomeShowsWholeRun`, `QueuedRunsFinish` |
| `TwoCollectors` | 2 SQL collectors, 1 IIS server, 2 endpoints of which 1 registered, lists with up to 1 duplicate, 1 run, 2 faults | `StagedRowsCounted`, `InventoryOnlyOfFinishedRuns`, `RowsLeaveWithTheirRun` |
| `IisCycle` | 2 IIS collectors, 2 servers, 2 runs, 1 fault | `CollectionFenced`, `PublishedRunsVisitedAll`, `DecisionStillValid` |
| `PoolCalls` | 3 connections, 2 of them active, 2 handlers, 2 faults, fairness | `PoolTypeOK`, `WorkloadUsesOpenConnections`, `StopsAreComplete`, `ImplementsLifecycle`, `CallsReturn` |
| `Reconnect` | 3 overlapping calls, 2 losses or pauses, 2 outages, fairness | `ReconnectTypeOK`, `RetryArmed`, `DialogOffersWayBack`, `Recovers` |
| `ServiceLoop` | delay 1, heartbeat interval 3, cycles of up to 4 ticks, 4 faults, fairness | `LoopTypeOK`, `WorkingServiceIsFresh`, `ErrorsCanBeSeen`, `HeartbeatsGoOn` |

Five runs show that the code does not do what `CODEX_HANDOFF.md` or, of the
connection pool, `HOWTO_DEPLOY.md` says of it; each checks one property and TLC finds a
behaviour that violates it:

| Run | Property | What happens |
|---|---|---|
| `LostSummary` | `SummaryWrittenOnce` (line 333) | reading and marking a queued run are two statements, so two instances take it, against line 261; the second deletes the inventory of the completed run and its own save fails |
| `StaleMatch` | `FreshSnapshotOnly` (line 331) | the age is compared once, before the endpoints are read one after the other |
| `StuckPending` | `PendingRunsHandedOver` (line 254) | a toggle makes a save outside the `try` throw; the run stays `PendingIis` for good |
| `HomeShowsFailed` | `HomeShowsLastSuccess` (line 398) | the dashboard takes the run of the newest inventory row, and a run that failed at one endpoint leaves rows of the others |
| `PoolNeverCloses` | `StopCloses` (`HOWTO_DEPLOY.md:823`) | a query started on a lost connection fails with an exception that stopping does not expect: nothing is closed, then or later |

Three more sentences of the documents are stronger than the code; the models have the
behaviours, no run of its own is spent on them.  Collections from one server may overlap,
against `CODEX_HANDOFF.md:230`: the row version fences off the commit
(`CollectionFenced`).  An activation may succeed without a query, against
`HOWTO_DEPLOY.md:818`, when the pool is stopped between the check and the gate.  The
heartbeat of a service whose cycle is long may be older than the intervals of
`HOWTO_DEPLOY.md:745`; the bound that holds is `FreshAge` (`WorkingServiceIsFresh`).

The properties of `SingleCollector` and `TwoRuns` hold with one SQL collector, which
is how the deployment guide installs it; those of `TwoCollectors` are what is left
with more.

**Bounds.**  `MaxRuns` bounds the runs ever started and `MaxFaults` the crashes and
database errors; toggles, retries and conflicts are not bounded.  Interval, lease
and snapshot age are one tick each, so that each comparison is both true and
false in some state and a run may be requeued from a live worker.  Two servers,
two endpoints (one of them unknown) and two runs are the smallest numbers at which
rows of one group differ in age, a run is partly failed or partly unknown, and
counters carry over.  One fault suffices to interrupt each statement of a turn
once; conflicts interrupt it any number of times on top; two faults let both SQL
collectors be interrupted in one run.  `MaxDuplicates` bounds the entries of one list that
repeat a socket: it is 1 in `TwoCollectors`, which checks the counter of staged sockets,
and 0 in the other runs, whose properties do not read that counter.  In `TwoRuns` a run
has at most one inventory row, so that the run checks which run the dashboard shows and
that nothing of it has gone; that the numbers agree for larger runs is the theorem
`HomeShowsRunsWhole`.  Three connections of which
two are active keep one idle, as 50 and 40 do; two handlers and two faults reach each
race for the gate, a lost workload and one that is restarted on lost connections.

In `ReconnectModal`, three calls let an answer be stale for two later ones; two losses
bring a page back and lose it again under an old attempt, and two outages make an
attempt fail on each side of that.  In `ServiceLoop` the cycle may be shorter or longer
than the heartbeat interval and the interval is longer than the delay, so that
heartbeats are skipped and overdue; four faults combine an error, an outage, a failing
error heartbeat and a stop.

**Fairness** (`FairSpec`).  Time passes; a collector that is running takes its next
step, since its loop polls for ever and its waits all have timeouts; a service
that stopped is started again.  Nothing is assumed of faults (of which there are
finitely many) or administrators: they may toggle a server whenever a save is
due, and `QueuedRunsFinish` holds because the snapshot expires and the save that
expires it touches no server.

For the pool (`FairPoolSpec`): a call that has something to do does it, a cancelled
query ends, and each waiter gets the gate (`SF`), since `SemaphoreSlim` serves its
asynchronous waiters in order.  That no query ends by itself is part of it: the
workload runs until it is cancelled.

`TwoRuns` adds nothing to the collectors' fairness: no circuit has to read a page.

For the dialog (`FairReconnectSpec`): the framework goes on with its own attempts, the
server comes back, every call is answered and a reload ends.  The user returns to the
page again and again and clicks Resume as long as it is offered; nobody has to click
Retry, which is what `retryWhenDocumentBecomesVisible` is for.  Whether the user closes
the dialog is left open.  On a paused page that takes the Resume button away, and nothing
has to be listening there: `Recovers` leaves that page out, since the code promises
nothing for it.

For the loops (`FairLoopSpec`): no wait of a loop is without a timeout, time passes, the
database comes back, and a service that ended is started again, as for the collectors.

Deadlock is checked in all runs: toggles, ticks and clicks are always possible, so the
check says nothing beyond that.

## 4. The proofs

The theorems about the collectors hold for any finite set of IIS servers and of
endpoints, any set of IIS collectors, and any natural numbers as interval, lease, snapshot
age and bounds (the assumptions in `InventoryDatabase`).  Those of `SingleCollectorProofs`,
`LedgerProofs` and `ReadingPagesProofs` have the hypothesis `OneCollector`, that there is at
most one SQL collector; the others hold for any set of them.

- `CollectionsAreFenced` and `DecisionsStayValid` (`IisCollectorProofs`).  The
  inductive invariant is `FenceInv`: types, fencing and validity of decisions.
  Fencing is inductive by itself because every write of a server marks all other
  copies; validity needs the same fact (`OverwrittenFacts`) and that time only
  makes servers due.  `FencedInPipeline` carries both over to the composition: no
  step of a SQL collector writes an IIS server.
- `EveryServerIsAccountedFor` (`IisCollectorProofs`), of the IIS collectors on their own: the
  requeue of the SQL collector turns `Partial` into `ReadyForSql`.  `VisitInv` says that the
  servers of a run are those that succeeded, those that failed and those its collector has
  ahead (`WorkerSound`), which needs that no two collectors work on one run (`RunsApart`), and
  that sockets come from no more servers than have succeeded (`SourcesCounted`).
- `TypeCorrect` (`CollectionPipelineProofs`).  `TypeOK` alone is not inductive: a
  worker at work must hold a run (`WorkersHaveRuns`), and the outcome it saves to a
  server must be a status, so that it must have visited the endpoint of every
  server it writes (`WritesVisited`).  `TypeInv` is their conjunction.
- `InventoryIsOfFinishedRuns`.  `FinishedInv` adds that a run that does not exist is
  not finished.  `RunsStep` shows that no step reopens a run, `InventoryStep` that
  rows are added only by the step that finishes their run.
- `RowsStayUntilFinished` is an action property and follows from `TypeInv`: only
  `SaveResult` removes rows, and only rows of the run it finishes.
- `StagedSocketsAreCounted` (`CollectionPipelineProofs`) holds for any number of collectors of both
  kinds.  The invariant is `StagingInv`: beside the types, a run that does not exist is
  not done, rows of a run are distinct sockets (`SocketsUnique`) of a run that exists,
  two IIS collectors never work on one run (`WorkersApart`), and a server a cycle has
  still to visit has no row in its run (`ServersOnce`): without the last two, rows of a
  commit could be of sockets that have one already.  The count of a run is no lower than the number
  of its sockets and zero if there are none (`Covers`); it may be higher, because it is
  taken before duplicates are removed.
- `CompletedRunsAreAccounted`, `InventoryIsKept`, `RowsFollowTheirRun`
  (`SingleCollectorProofs`), from `OneCollector`.  The result of a turn is computed in
  memory and saved at the end, so the invariant `SingleInv` relates that memory to the
  tables: the run is the worker's own and nothing of it is counted yet (`Leased`, `Fresh`),
  the loaded rows are those of the table (`Loaded`), and as long as no endpoint has failed
  each socket visited is counted once and those matched are on their way to the inventory
  (`Counted`).  This survives the steps of others because nobody else takes a run that is
  `ProcessingSql` or touches its rows; with a second SQL collector it does not, which is
  what `LostSummary` shows.  Beside `StagingInv` it needs that `CompletedAtUtc` and the status
  agree (`RunsSound`), that IIS collectors work on `PendingIis` runs only, and that a run
  with sockets has a server that succeeded (`RowsOfSuccess`).  The first theorem is about a
  step: only `SaveEmpty` and `SaveResult` complete a run, and `Counted` and `Loaded` say
  that they have visited each of its rows (`CompletionStep`).
- `UnknownEndpointsCountedOnce` (`SingleCollectorProofs`), from `OneCollector`.  The two sums
  are stated as the sizes of sets of numbered pairs (`Observations`, `UnmatchedSockets`), so
  that the proof needs no induction: `NumberedGrows` says what raising one count adds to such
  a set.  `UnknownInv` adds `ObservedNow` to `SingleInv`: until its result is saved, the counts
  that the worker has read are still those of the table, and the sockets it has found to be of
  unknown endpoints are among the ones it will report as unmatched.  So the save adds one
  observation for each unknown endpoint of the run, and at least as many unmatched sockets;
  every other step leaves both sets alone (`CountsUnchanged`).
- `LedgerIsImplemented` (`LedgerProofs`), from `OneCollector`: `Spec` implements `RunLedger`.
  `LedgerInv` adds to `SingleInv` that a run is closed as expired only when it has sockets
  and that what goes to the inventory was loaded, also when endpoints have failed.  Each
  statement is one step of the ledger (`StartCycle` begins a run, `CollectSucceeds` stages
  sockets, `PublishRun` hands over, `LeaseRun` takes, `Requeue` puts back, `SaveEmpty` and
  `SaveResult` finish, `SaveExpired` expires) or none; `DeleteInventory` is none because a
  run that is not finished has no inventory.
- `HomeShowsRunsWhole` (`ReadingPagesProofs`), from `OneCollector`.  `PagesInv` adds to
  `LedgerInv` that the run the dashboard has chosen has inventory.  That it keeps it until it
  is shown follows from the refinement and not from the statements: rows are of finished runs
  (`InventoryOnlyOfFinishedRuns`), and no step of the ledger changes what a finished run has
  published (`FinishedForGood`), the deletion of `SqlCollector/Worker.cs:117` included.
- `PoolTypeCorrect`, `QueriesRunOnOpenConnections`, `StopsComplete`
  (`ConnectionPoolProofs`), for any numbers of connections with fewer active ones than
  there are.  The inductive invariant is `PoolInv`: who is past the gate is the one
  inside it, between the end of one workload and the start of the next there is none,
  and a workload that is remembered can be cancelled.
- `LifecycleIsImplemented` (`ConnectionPoolProofs`): `PoolSpec` implements `PoolLifecycle`.
  `LifecycleInv` adds to `PoolInv` that who is about to open connections has disposed of the
  old ones (so that none is forgotten) and that who awaits the queries has cancelled them.
  `OpenAll` fills the pool, `Close` drains it, `Launch` starts a workload on each open
  connection but the last (`LoopsOnOpen`), `BeginStop` cancels it and `StopDone` ends it;
  queries end and connections are lost one by one, and every other step of a call is none.
- `ReconnectTypeCorrect`, `RetryAlwaysArmed`, `DialogAlwaysOffersWayBack`
  (`ReconnectModalProofs`), for any number of overlapping calls, losses and outages.
- `LoopTypeCorrect`, `WorkingServicesAreFresh`, `ErrorsStay` (`ServiceLoopProofs`), for
  all intervals: the row is never older than what the service remembers of it.

Every invariant and every safety property of a step that a passing run checks is stated by
one of these theorems.  Only model-checked are the liveness properties `QueuedRunsFinish`,
`CallsReturn`, `Recovers` and `HeartbeatsGoOn`, since liveness under fairness is out of the
prover's reach; and the five runs that refute a sentence of the documents need no proof.

## 5. What is abstracted

- A save is atomic and fails or succeeds as a whole; single statements
  (`ExecuteUpdate`, `ExecuteDelete`) are atomic.
- Application pool, process, port, database and session of a socket: inventory has
  one row per matched socket instead of one per pool and database.
- Messages, error summaries, audit columns; of the heartbeat row, status and age.
- Which sockets a server shows and which of them the SQL server still knows are
  chosen freely.  Of the duplicates in a list only their number matters: line 94 of
  `IisCollector/Worker.cs` counts them and the `DistinctBy` of line 79 removes them.
- Servers are neither added nor removed.
- Rendering of the pool's page, which reads the two counts without the gate, and the
  rows it shows; a connection lost while idle is noticed when it is used.
- `InventoryDateUtc` orders runs as their completion does (`ReadingPages`), since a
  single collector dates the rows just before it saves them.
- A cycle in `ServiceLoop` only takes time and fails or not; what it does is in the
  other modules.

## 6. Not modelled

- `CollectionRunCoordinator`, `CollectorCommandQueue` and `InventoryWriter`: they are
  registered, but nothing in the repository calls them, so no behaviour of the program
  reaches them; and with `EnableRetryOnFailure` the transactions they open would be
  refused.
- The totals of `ConnectionInventoryAggregator`: a pure function over names and states
  of sessions.  What the workers, the ledger and the pages tell apart is which sockets
  reach the inventory.
- `Inventory.razor` and `Card.razor` of the reading pages, each one query or one number
  without state; adding servers, since the sets of servers are constants.
- The PowerShell and SQL the collectors run, and the parsing of their output.
- Hosting, options, authorization, migrations, scripts and assets: no state of their own
  that the program changes.
