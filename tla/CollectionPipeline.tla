------------------------- MODULE CollectionPipeline --------------------------
(***************************************************************************)
(* The two collector services around the inventory database: the IIS       *)
(* collectors produce runs, the SQL collectors consume them, and           *)
(* administrators enable and disable servers at any time.                  *)
(***************************************************************************)
EXTENDS IisCollector, SqlCollector

vars == <<dbVars, iis, sql>>

Init == DbInit /\ IisInit /\ SqlInit

Next ==
    \/ IisNext /\ UNCHANGED sql
    \/ SqlNext /\ UNCHANGED iis
    \/ Tick /\ UNCHANGED <<iis, sql>>

Spec == Init /\ [][Next]_vars

(***************************************************************************)
(* Time passes, a collector that is running takes its next step, and a     *)
(* service that stopped is started again by its operator.  Nothing is      *)
(* assumed of errors, crashes and administrators, except that there are    *)
(* finitely many faults.                                                   *)
(***************************************************************************)
Fairness ==
    /\ WF_vars(Tick /\ UNCHANGED <<iis, sql>>)
    /\ \A c \in IisCollectors :
        WF_vars(IisStep(c) /\ UNCHANGED sql) /\ WF_vars(IisRestart(c) /\ UNCHANGED sql)
    /\ \A w \in SqlCollectors :
        WF_vars(SqlStep(w) /\ UNCHANGED iis) /\ WF_vars(SqlRestart(w) /\ UNCHANGED iis)

FairSpec == Spec /\ Fairness

-----------------------------------------------------------------------------
(* Invariants for any number of collector instances.                       *)

\* Every table and every worker keeps the shape the code gives it.
TypeOK == DbTypeOK /\ IisTypeOK /\ SqlTypeOK

\* The inventory has rows of a run only when the run is finished, because they
\* are inserted by the save that sets CompletedAtUtc (SqlCollector/Worker.cs:118
\* to 123): a reader of the pages never sees the result of half a run.
InventoryOnlyOfFinishedRuns == \A x \in inventory : runs[x.run].done

\* As long as a run is not finished, its IIS collector has counted at least its
\* staging rows (a list is counted with its duplicates), and a run that counted
\* anything still has rows to be matched, however often processing it was begun,
\* failed, crashed or was begun by two workers (IisCollector/Worker.cs:79 and 94,
\* SqlCollector/Worker.cs:119).
StagedRowsCounted ==
    \A r \in RunIds : ~runs[r].done =>
        /\ Cardinality(RowsOf(r)) <= runs[r].staged
        /\ RowsOf(r) = {} => runs[r].staged = 0

\* A staging row leaves the table only in a step that finishes its run or once
\* the run is finished: no socket is dropped before its run has a result.
RowsLeaveWithTheirRun ==
    [][\A x \in staging :
          (\A y \in staging' : y.run # x.run \/ Socket(y) # Socket(x)) => runs'[x.run].done]_vars

-----------------------------------------------------------------------------
(* What holds with a single SQL collector, the deployment of the guide.    *)

\* The step that completes a run has counted each of the sockets staged for it
\* once, as matched or as unmatched, and takes them off the table, although its
\* processing may have been repeated (SqlCollector/Worker.cs:96, 97, 119).
CompletionCountsSockets ==
    [][\A r \in RunIds : runs[r].status # "Completed" /\ runs'[r].status = "Completed" =>
          /\ runs'[r].matched + runs'[r].unmatched = Cardinality(RowsOf(r))
          /\ RowsOf(r)' = {}]_vars

\* A completed run keeps the inventory it published: one row for each matched
\* socket (SqlCollector/Worker.cs:117 to 123).
CompletedRunsKeepInventory ==
    \A r \in RunIds : runs[r].status = "Completed" =>
        Cardinality(InventoryOf(r)) = runs[r].matched

\* Staging rows that outlive their run say why: those of an expired run are all
\* marked Expired, those of a failed run Failed, and a run that is still open has
\* Pending ones only (SqlCollector/Worker.cs:75, 112 and 119).
RowStatusFollowsRun ==
    \A x \in staging :
        x.status = IF runs[x.run].done THEN runs[x.run].status ELSE "Pending"

\* The observations of unknown endpoints and the sockets the runs report as
\* unmatched, numbered: the two sets are as large as the counts add up to.
Observations == UNION {{e} \X (1..unknown[e]) : e \in Endpoints}

UnmatchedSockets == UNION {{r} \X (1..runs[r].unmatched) : r \in RunIds}

\* The observation counts of unknown endpoints grow with finished runs only and
\* never by more than the sockets those runs report as unmatched: a repeated
\* turn does not count them twice (SqlCollector/Worker.cs:87, 88 and 177).
UnknownCountedOnce == Cardinality(Observations) <= Cardinality(UnmatchedSockets)

\* The run ledger, read off the tables.
Phase(run) ==
    CASE run.status = "PendingIis"                  -> "Collecting"
      [] run.status \in {"ReadyForSql", "Partial"}  -> "Queued"
      [] run.status = "ProcessingSql"               -> "Processing"
      [] OTHER                                      -> run.status

Ledger == INSTANCE RunLedger WITH
    Runs <- RunIds,
    Items <- SocketId,
    phase <- [r \in RunIds |-> Phase(runs[r])],
    pending <- [r \in RunIds |-> Sockets(RowsOf(r))],
    published <- [r \in RunIds |-> Sockets(InventoryOf(r))]

\* The statements the two services run one by one implement the ledger, which
\* disposes of a run in a single step and never touches it again.
ImplementsLedger == Ledger!Spec

\* Every run handed to the SQL collector is finished in the end, also when
\* administrators make every save of its result fail: the snapshot expires and
\* an expired run is closed by a save that no toggle can disturb
\* (SqlCollector/Worker.cs:52 to 54 and 70 to 78).
QueuedRunsFinish ==
    \A r \in RunIds : runs[r].status \in {"ReadyForSql", "Partial"} ~> runs[r].done

-----------------------------------------------------------------------------
(* What the hand-off document says of the program and the code does not do. *)

\* CODEX_HANDOFF.md:333: the summary is written idempotently and in a
\* transaction.  A completed run has the inventory rows it counted.
SummaryWrittenOnce == CompletedRunsKeepInventory

\* CODEX_HANDOFF.md:331: a snapshot older than the limit is not processed.
\* An endpoint group is matched only while its rows are within the limit.
FreshSnapshotOnly ==
    [][\A w \in SqlCollectors, e \in Endpoints :
          sql[w].outcome[e] = "None" /\ sql'[w].outcome[e] = "Success" =>
              \A x \in RowsOf(sql[w].run) : x.ip = e => x.age <= MaxSnapshotAge]_vars

\* CODEX_HANDOFF.md:254: when the work on the IIS servers is done, the run is
\* handed over.  A run does not stay pending forever.
PendingRunsHandedOver ==
    \A r \in RunIds : runs[r].status = "PendingIis" ~> runs[r].status # "PendingIis"
=============================================================================
