---------------------- MODULE CollectionPipelineProofs -----------------------
(***************************************************************************)
(* Invariants of the pipeline for any number of IIS servers, endpoints and *)
(* collector instances, and for any interval, lease and snapshot age.      *)
(***************************************************************************)
EXTENDS CollectionPipeline, IisCollectorProofs, FiniteSetTheorems, FunctionTheorems

-----------------------------------------------------------------------------
(* Finite sets.                                                            *)

LEMMA SocketIdFinite == IsFiniteSet(SocketId)
<1> DEFINE f == [p \in IisServers \X Endpoints |-> [server |-> p[1], ip |-> p[2]]]
<1>1. IsFiniteSet(IisServers \X Endpoints)
  BY FS_Product, ServersAssumption, EndpointsAssumption
<1>2. f \in Surjection(IisServers \X Endpoints, SocketId)
  <2>1. f \in [IisServers \X Endpoints -> SocketId]
    BY DEF SocketId
  <2>2. ASSUME NEW k \in SocketId PROVE \E p \in IisServers \X Endpoints : f[p] = k
    <3>1. <<k.server, k.ip>> \in IisServers \X Endpoints
      BY DEF SocketId
    <3>2. f[<<k.server, k.ip>>] = k
      BY <3>1 DEF SocketId
    <3> QED
      BY <3>1, <3>2
  <2> QED
    BY <2>1, <2>2 DEF Surjection
<1> QED
  BY <1>1, <1>2, FS_Surjection

LEMMA SubsetCounts ==
    /\ \A S \in SUBSET SocketId : Cardinality(S) \in Nat
    /\ \A S \in SUBSET Endpoints : Cardinality(S) \in Nat
    /\ \A S \in SUBSET IisServers : Cardinality(S) \in Nat
  BY SocketIdFinite, ServersAssumption, EndpointsAssumption, FS_Subset, FS_CardinalityType

-----------------------------------------------------------------------------
(* Type correctness.                                                       *)

\* A worker that is at work has a run; types alone would let it work on none.
WorkersHaveRuns ==
    /\ \A c \in IisCollectors : iis[c].pc \in {"Attempt", "Collect"} => iis[c].run \in RunIds
    /\ \A w \in SqlCollectors : sql[w].pc \notin {"Idle", "Pick", "Down"} => sql[w].run \in RunIds

\* A worker changes the row of a server only when it has visited its endpoint,
\* so that the outcome it saves is a status.
WritesVisited ==
    \A w \in SqlCollectors : \A e \in sql[w].writes : sql[w].outcome[e] \in {"Success", "Failed"}

TypeInv == TypeOK /\ WorkersHaveRuns /\ WritesVisited

LEMMA SqlIdleType ==
    /\ SqlIdle \in SqlWorker
    /\ SqlDown \in SqlWorker
    /\ [SqlIdle EXCEPT !.pc = "Pick"] \in SqlWorker
  BY DEF SqlIdle, SqlDown, SqlWorker, Outcome

\* The ways the code updates a run.
LEMMA RunType ==
    ASSUME NEW run \in Run
    PROVE  /\ \A t \in RunStatus : [run EXCEPT !.status = t] \in Run
           /\ \A t \in RunStatus, b \in BOOLEAN :
                 [run EXCEPT !.status = t, !.done = b] \in Run
           /\ \A t \in RunStatus, b \in BOOLEAN, m, u \in Nat :
                 [run EXCEPT !.status = t, !.done = b, !.matched = m, !.unmatched = u] \in Run
           /\ \A n \in Nat : [run EXCEPT !.ok = run.ok + 1, !.staged = run.staged + n] \in Run
           /\ [run EXCEPT !.fail = run.fail + 1] \in Run
           /\ \A n \in Nat : [run EXCEPT !.age = n] \in Run
<1>1. ASSUME NEW t \in RunStatus PROVE [run EXCEPT !.status = t] \in Run
  BY DEF Run
<1>2. ASSUME NEW t \in RunStatus, NEW b \in BOOLEAN
      PROVE  [run EXCEPT !.status = t, !.done = b] \in Run
  BY DEF Run
<1>3. ASSUME NEW t \in RunStatus, NEW b \in BOOLEAN, NEW m \in Nat, NEW u \in Nat
      PROVE  [run EXCEPT !.status = t, !.done = b, !.matched = m, !.unmatched = u] \in Run
  <2> DEFINE q == [run EXCEPT !.status = t, !.done = b]
  <2>1. q \in Run
    BY <1>2
  <2>2. [q EXCEPT !.matched = m, !.unmatched = u] \in Run
    <3> HIDE DEF q
    <3> QED
      BY <2>1 DEF Run
  <2> QED
    BY <2>2
<1>4. ASSUME NEW n \in Nat
      PROVE  /\ [run EXCEPT !.ok = run.ok + 1, !.staged = run.staged + n] \in Run
             /\ [run EXCEPT !.age = n] \in Run
  <2>1. run.ok + 1 \in Nat /\ run.staged + n \in Nat
    BY DEF Run
  <2> QED
    BY <2>1 DEF Run
<1>5. [run EXCEPT !.fail = run.fail + 1] \in Run
  BY DEF Run
<1> QED
  BY <1>1, <1>2, <1>3, <1>4, <1>5

\* IIS collectors keep the tables well-formed.
LEMMA IisDbTypeStep == TypeInv /\ IisNext /\ UNCHANGED sql => DbTypeOK'
<1> SUFFICES ASSUME TypeInv, IisNext, UNCHANGED sql PROVE DbTypeOK'
  OBVIOUS
<1>0. /\ runs \in [RunIds -> Run] /\ staging \subseteq StagingRow
      /\ inventory \subseteq InventoryRow /\ iisServers \in [IisServers -> IisServer]
      /\ sqlServers \in [Registered -> SqlServer] /\ unknown \in [Endpoints -> Nat]
      /\ faults \in Nat /\ iis \in [IisCollectors -> IisWorker]
  BY DEF TypeInv, TypeOK, DbTypeOK, IisTypeOK
<1>1. iisServers' \in [IisServers -> IisServer]
  BY <1>0, ServersStep DEF ServersOK, TypeInv, TypeOK
<1>2. ASSUME NEW c \in IisCollectors, StartCycle(c) PROVE DbTypeOK'
  <2>1. Cardinality(Due) \in Nat
    BY SubsetCounts DEF Due
  <2>2. [NoRun EXCEPT !.status = "PendingIis", !.servers = Cardinality(Due)] \in Run
    BY <2>1 DEF NoRun, Run, RunStatus
  <2> QED
    BY <1>0, <1>1, <1>2, <2>2 DEF StartCycle, DbTypeOK
<1>3. ASSUME NEW c \in IisCollectors, CollectSucceeds(c) PROVE DbTypeOK'
  <2>1. PICK s \in iis[c].current, observed \in SUBSET Endpoints : \E listed \in ListLengths(observed) :
            /\ staging' = staging \union
                   {[run |-> iis[c].run, server |-> s, ip |-> e, age |-> 0,
                     status |-> "Pending"] : e \in observed}
            /\ runs' = [runs EXCEPT
                   ![iis[c].run].ok = @ + 1,
                   ![iis[c].run].staged = @ + listed]
    BY <1>3 DEF CollectSucceeds
  <2>0. PICK listed \in ListLengths(observed) :
            /\ runs' = [runs EXCEPT
                   ![iis[c].run].ok = @ + 1,
                   ![iis[c].run].staged = @ + listed]
    BY <2>1
  <2>2. s \in IisServers /\ iis[c].run \in RunIds
    BY <1>0, <1>3, <2>1 DEF TypeInv, WorkersHaveRuns, CollectSucceeds, IisWorker
  <2>3. staging' \subseteq StagingRow
    BY <1>0, <2>1, <2>2 DEF StagingRow, RowStatus
  <2>4. listed \in Nat
    BY ListFacts
  <2>5. runs' = [runs EXCEPT ![iis[c].run] =
                    [runs[iis[c].run] EXCEPT !.ok = runs[iis[c].run].ok + 1,
                         !.staged = runs[iis[c].run].staged + listed]]
    BY <1>0, <2>0, <2>2
  <2>6. runs' \in [RunIds -> Run]
    BY <1>0, <2>2, <2>4, <2>5, RunType
  <2> QED
    BY <1>0, <1>1, <1>3, <2>3, <2>6 DEF CollectSucceeds, DbTypeOK
<1>4. ASSUME NEW c \in IisCollectors, CollectFails(c) PROVE DbTypeOK'
  <2>1. runs' = [runs EXCEPT ![iis[c].run].fail = @ + 1]
    BY <1>4 DEF CollectFails
  <2>2. iis[c].run \in RunIds
    BY <1>4 DEF TypeInv, WorkersHaveRuns, CollectFails
  <2>3. runs' = [runs EXCEPT ![iis[c].run] =
                    [runs[iis[c].run] EXCEPT !.fail = runs[iis[c].run].fail + 1]]
    BY <1>0, <2>1, <2>2
  <2>4. runs' \in [RunIds -> Run]
    BY <1>0, <2>2, <2>3, RunType
  <2> QED
    BY <1>0, <1>1, <1>4, <2>4 DEF CollectFails, DbTypeOK
<1>5. ASSUME NEW c \in IisCollectors, PublishRun(c) PROVE DbTypeOK'
  <2> DEFINE r == iis[c].run
             t == PublishedStatus(runs[r])
             b == runs[r].done \/ t = "Failed"
  <2>1. runs' = [runs EXCEPT ![r].status = t, ![r].done = @ \/ t = "Failed"]
    BY <1>5 DEF PublishRun
  <2>2. r \in RunIds
    BY <1>5 DEF TypeInv, WorkersHaveRuns, PublishRun
  <2>3. t \in RunStatus /\ b \in BOOLEAN
    BY DEF PublishedStatus, RunStatus
  <2>4. runs' = [runs EXCEPT ![r] = [runs[r] EXCEPT !.status = t, !.done = b]]
    BY <1>0, <2>1, <2>2
  <2> HIDE DEF r, t, b
  <2>5. runs' \in [RunIds -> Run]
    BY <1>0, <2>2, <2>3, <2>4, RunType
  <2> QED
    BY <1>0, <1>1, <1>5, <2>5 DEF PublishRun, DbTypeOK
<1>6. ASSUME NEW c \in IisCollectors, MarkAttempt(c) PROVE DbTypeOK'
  BY <1>0, <1>1, <1>6 DEF MarkAttempt, DbTypeOK
<1>7. ASSUME NEW c \in IisCollectors,
             AttemptConflict(c) \/ CollectConflict(c) \/ IisRestart(c)
      PROVE  DbTypeOK'
  BY <1>0, <1>7 DEF AttemptConflict, CollectConflict, IisRestart, dbVars, DbTypeOK
<1>8. ASSUME NEW c \in IisCollectors, IisError(c) \/ IisCrash(c) PROVE DbTypeOK'
  BY <1>0, <1>8 DEF IisError, IisCrash, Fault, DbTypeOK
<1>9. ASSUME NEW s \in IisServers, ToggleIisServer(s) PROVE DbTypeOK'
  BY <1>0, <1>1, <1>9 DEF ToggleIisServer, DbTypeOK
<1> QED
  BY <1>2, <1>3, <1>4, <1>5, <1>6, <1>7, <1>8, <1>9 DEF IisNext, IisStep

\* A worker with one of its fields changed.
LEMMA SqlWorkerField ==
    ASSUME NEW l \in SqlWorker
    PROVE  /\ [l EXCEPT !.pc = "Load"] \in SqlWorker
           /\ [l EXCEPT !.pc = "Delete"] \in SqlWorker
           /\ [l EXCEPT !.pc = "Save"] \in SqlWorker
           /\ \A S \in SUBSET Registered : [l EXCEPT !.stale = S] \in SqlWorker
  BY DEF SqlWorker

LEMMA LoadedType ==
    ASSUME NEW l \in SqlWorker,
           NEW rows \in SUBSET [server : IisServers, ip : Endpoints, status : RowStatus],
           NEW pc \in {"SaveEmpty", "SaveExpired", "Match"}
    PROVE  [l EXCEPT !.rows = rows, !.pc = pc] \in SqlWorker
  BY DEF SqlWorker

LEMMA PickedType ==
    ASSUME NEW r \in RunIds, NEW m \in Nat, NEW u \in Nat
    PROVE  [SqlIdle EXCEPT !.pc = "Lease", !.run = r,
                !.counted = [matched |-> m, unmatched |-> u]] \in SqlWorker
  BY DEF SqlIdle, SqlWorker, Outcome

LEMMA UnknownType ==
    ASSUME NEW l \in SqlWorker, NEW e \in Endpoints, NEW n \in Nat, NEW u \in Nat
    PROVE  [l EXCEPT !.outcome[e] = "Unknown", !.observed[e] = n, !.unmatched = u] \in SqlWorker
  BY DEF SqlWorker, Outcome

LEMMA VisitedType ==
    ASSUME NEW l \in SqlWorker, NEW e \in Endpoints, NEW o \in {"Success", "Failed"},
           NEW m \in Nat, NEW u \in Nat, NEW found \in SUBSET SocketId,
           NEW writes \in SUBSET Registered
    PROVE  /\ [l EXCEPT !.outcome[e] = o, !.matched = m, !.unmatched = u,
                        !.found = found, !.writes = writes] \in SqlWorker
           /\ [l EXCEPT !.outcome[e] = o, !.writes = writes] \in SqlWorker
           /\ [l EXCEPT !.matched = m, !.unmatched = u, !.found = found] \in SqlWorker
<1>1. ASSUME NEW k \in SqlWorker
      PROVE  /\ [k EXCEPT !.outcome[e] = o] \in SqlWorker
             /\ [k EXCEPT !.writes = writes] \in SqlWorker
             /\ [k EXCEPT !.matched = m] \in SqlWorker
             /\ [k EXCEPT !.unmatched = u] \in SqlWorker
             /\ [k EXCEPT !.found = found] \in SqlWorker
  BY DEF SqlWorker, Outcome
<1>2. ASSUME NEW k \in SqlWorker
      PROVE  [k EXCEPT !.matched = m, !.unmatched = u, !.found = found] \in SqlWorker
  <2> DEFINE k1 == [k EXCEPT !.matched = m]
             k2 == [k1 EXCEPT !.unmatched = u]
  <2>1. k1 \in SqlWorker
    BY <1>1
  <2>2. k2 \in SqlWorker
    <3> HIDE DEF k1
    <3> QED
      BY <1>1, <2>1
  <2>3. [k2 EXCEPT !.found = found] \in SqlWorker
    <3> HIDE DEF k2
    <3> QED
      BY <1>1, <2>2
  <2> QED
    BY <2>3
<1>3. [l EXCEPT !.outcome[e] = o, !.writes = writes] \in SqlWorker
  <2> DEFINE l1 == [l EXCEPT !.outcome[e] = o]
  <2>1. l1 \in SqlWorker
    BY <1>1
  <2>2. [l1 EXCEPT !.writes = writes] \in SqlWorker
    <3> HIDE DEF l1
    <3> QED
      BY <1>1, <2>1
  <2> QED
    BY <2>2
<1>4. [l EXCEPT !.outcome[e] = o, !.matched = m, !.unmatched = u,
                !.found = found, !.writes = writes] \in SqlWorker
  <2> DEFINE l1 == [l EXCEPT !.outcome[e] = o]
             l2 == [l1 EXCEPT !.matched = m, !.unmatched = u, !.found = found]
  <2>1. l1 \in SqlWorker
    BY <1>1
  <2>2. l2 \in SqlWorker
    <3> HIDE DEF l1
    <3> QED
      BY <1>2, <2>1
  <2>3. [l2 EXCEPT !.writes = writes] \in SqlWorker
    <3> HIDE DEF l2
    <3> QED
      BY <1>1, <2>2
  <2> QED
    BY <2>3
<1> QED
  BY <1>2, <1>3, <1>4

LEMMA OvertakenType ==
    ASSUME SqlTypeOK, NEW E \in SUBSET Registered, NEW W \in SUBSET SqlCollectors
    PROVE  Overtaken(E, W) \in [SqlCollectors -> SqlWorker]
<1>1. ASSUME NEW v \in SqlCollectors PROVE Overtaken(E, W)[v] \in SqlWorker
  <2>1. sql[v] \in SqlWorker
    BY DEF SqlTypeOK
  <2>2. ASSUME NEW F \in SUBSET E PROVE [sql[v] EXCEPT !.stale = sql[v].stale \union F] \in SqlWorker
    <3>1. sql[v].stale \union F \in SUBSET Registered
      BY <2>1 DEF SqlWorker
    <3> QED
      BY <2>1, <3>1, SqlWorkerField
  <2> QED
    BY <2>1, <2>2 DEF Overtaken
<1> QED
  BY <1>1 DEF Overtaken

\* SQL collectors, and the toggles of SQL servers, keep the local states
\* well-formed.
LEMMA SqlTypeStep == TypeInv /\ SqlNext => SqlTypeOK'
<1> SUFFICES ASSUME TypeInv, SqlNext PROVE SqlTypeOK'
  OBVIOUS
<1>0. /\ sql \in [SqlCollectors -> SqlWorker] /\ SqlTypeOK
      /\ runs \in [RunIds -> Run] /\ staging \subseteq StagingRow
      /\ unknown \in [Endpoints -> Nat]
  BY DEF TypeInv, TypeOK, DbTypeOK, SqlTypeOK
<1>1. ASSUME NEW w \in SqlCollectors, PickRun(w) PROVE SqlTypeOK'
  <2>1. PICK r \in Queued : sql' = [sql EXCEPT ![w] = [SqlIdle EXCEPT
               !.pc = "Lease", !.run = r,
               !.counted = [matched |-> runs[r].matched, unmatched |-> runs[r].unmatched]]]
    BY <1>1 DEF PickRun
  <2>2. r \in RunIds /\ runs[r].matched \in Nat /\ runs[r].unmatched \in Nat
    BY <1>0 DEF Queued, Run
  <2> QED
    BY <1>0, <2>1, <2>2, PickedType DEF SqlTypeOK
<1>2. ASSUME NEW w \in SqlCollectors,
             \/ Requeue(w) \/ NothingQueued(w) \/ SaveEmpty(w) \/ SaveExpired(w)
             \/ SaveConflict(w) \/ SqlError(w) \/ SqlCrash(w) \/ SqlRestart(w)
      PROVE  SqlTypeOK'
  <2>1. \/ sql' = [sql EXCEPT ![w] = SqlIdle] \/ sql' = [sql EXCEPT ![w] = SqlDown]
        \/ sql' = [sql EXCEPT ![w] = [SqlIdle EXCEPT !.pc = "Pick"]]
    BY <1>2 DEF Requeue, NothingQueued, SaveEmpty, SaveExpired, SaveConflict,
                SqlError, SqlCrash, SqlRestart
  <2> QED
    BY <1>0, <2>1, SqlIdleType DEF SqlTypeOK
<1>3. ASSUME NEW w \in SqlCollectors, LeaseRun(w) \/ AllVisited(w) \/ DeleteInventory(w)
      PROVE  SqlTypeOK'
  <2>1. PICK p \in {"Load", "Delete", "Save"} : sql' = [sql EXCEPT ![w].pc = p]
    BY <1>3 DEF LeaseRun, AllVisited, DeleteInventory
  <2>2. sql' = [sql EXCEPT ![w] = [sql[w] EXCEPT !.pc = p]]
    BY <1>0, <2>1
  <2>3. sql[w] \in SqlWorker
    BY <1>0
  <2>4. [sql[w] EXCEPT !.pc = p] \in SqlWorker
    BY <2>1, <2>3, SqlWorkerField
  <2> QED
    BY <1>0, <2>2, <2>4 DEF SqlTypeOK
<1>4. ASSUME NEW w \in SqlCollectors, LoadStaging(w) PROVE SqlTypeOK'
  <2> DEFINE loaded == {[server |-> x.server, ip |-> x.ip, status |-> x.status] :
                            x \in RowsOf(sql[w].run)}
             next == CASE RowsOf(sql[w].run) = {} -> "SaveEmpty"
                       [] \E x \in RowsOf(sql[w].run) : x.age > MaxSnapshotAge -> "SaveExpired"
                       [] OTHER -> "Match"
  <2>1. sql' = [sql EXCEPT ![w].rows = loaded, ![w].pc = next]
    BY <1>4 DEF LoadStaging
  <2>2. loaded \in SUBSET [server : IisServers, ip : Endpoints, status : RowStatus]
    BY <1>0 DEF RowsOf, StagingRow
  <2>3. next \in {"SaveEmpty", "SaveExpired", "Match"}
    OBVIOUS
  <2> HIDE DEF loaded, next
  <2>4. sql' = [sql EXCEPT ![w] = [sql[w] EXCEPT !.rows = loaded, !.pc = next]]
    BY <1>0, <2>1
  <2> QED
    BY <1>0, <2>2, <2>3, <2>4, LoadedType DEF SqlTypeOK
<1>5. ASSUME NEW w \in SqlCollectors, NEW e \in Endpoints
      PROVE  /\ Group(w, e) \in SUBSET SocketId
             /\ Cardinality(Group(w, e)) \in Nat
             /\ sql[w].matched \in Nat /\ sql[w].unmatched \in Nat
             /\ sql[w].found \in SUBSET SocketId
             /\ sql[w].writes \in SUBSET Registered
  <2>1. Group(w, e) \in SUBSET SocketId
    BY <1>0 DEF Group, Sockets, Socket, SocketId, SqlWorker
  <2> QED
    BY <1>0, <2>1, SubsetCounts DEF SqlWorker
<1>6. ASSUME NEW w \in SqlCollectors, EndpointUnknown(w) PROVE SqlTypeOK'
  <2>1. PICK e \in Endpoints : sql' = [sql EXCEPT
               ![w].outcome[e] = "Unknown",
               ![w].observed[e] = unknown[e],
               ![w].unmatched = @ + Cardinality(Group(w, e))]
    BY <1>6 DEF EndpointUnknown, Remaining
  <2> DEFINE u == sql[w].unmatched + Cardinality(Group(w, e))
             n == unknown[e]
  <2>2. u \in Nat /\ n \in Nat
    BY <1>0, <1>5
  <2>3. sql' = [sql EXCEPT ![w] = [sql[w] EXCEPT
                   !.outcome[e] = "Unknown", !.observed[e] = n, !.unmatched = u]]
    BY <1>0, <2>1
  <2> HIDE DEF u, n
  <2> QED
    BY <1>0, <2>2, <2>3, UnknownType DEF SqlTypeOK
<1>7. ASSUME NEW w \in SqlCollectors, EndpointMatched(w) PROVE SqlTypeOK'
  <2>1. PICK e \in Remaining(w) :
           /\ IsActiveTarget(e)
           /\ \E open \in SUBSET Group(w, e) : sql' = [sql EXCEPT
                ![w].outcome[e] = "Success",
                ![w].matched = @ + Cardinality(open),
                ![w].unmatched = @ + Cardinality(Group(w, e) \ open),
                ![w].found = @ \union open,
                ![w].writes = IF sqlServers[e].status # "Success" THEN @ \union {e} ELSE @]
    BY <1>7 DEF EndpointMatched
  <2>2. PICK open \in SUBSET Group(w, e) : sql' = [sql EXCEPT
                ![w].outcome[e] = "Success",
                ![w].matched = @ + Cardinality(open),
                ![w].unmatched = @ + Cardinality(Group(w, e) \ open),
                ![w].found = @ \union open,
                ![w].writes = IF sqlServers[e].status # "Success" THEN @ \union {e} ELSE @]
    BY <2>1
  <2> DEFINE m == sql[w].matched + Cardinality(open)
             u == sql[w].unmatched + Cardinality(Group(w, e) \ open)
             f == sql[w].found \union open
             d == IF sqlServers[e].status # "Success" THEN sql[w].writes \union {e}
                  ELSE sql[w].writes
  <2>3. e \in Endpoints /\ e \in Registered
    BY <2>1 DEF Remaining, IsActiveTarget
  <2>4. open \in SUBSET SocketId /\ Group(w, e) \ open \in SUBSET SocketId
    BY <1>5, <2>3
  <2>5. m \in Nat /\ u \in Nat
    BY <1>5, <2>3, <2>4, SubsetCounts
  <2>6. f \in SUBSET SocketId /\ d \in SUBSET Registered
    BY <1>5, <2>3, <2>4
  <2>7. sql' = [sql EXCEPT ![w] = [sql[w] EXCEPT !.outcome[e] = "Success",
                    !.matched = m, !.unmatched = u, !.found = f, !.writes = d]]
    BY <1>0, <2>2
  <2> HIDE DEF m, u, f, d
  <2>8. [sql[w] EXCEPT !.outcome[e] = "Success",
             !.matched = m, !.unmatched = u, !.found = f, !.writes = d] \in SqlWorker
    BY <1>0, <2>3, <2>5, <2>6, VisitedType
  <2> QED
    BY <1>0, <2>7, <2>8 DEF SqlTypeOK
<1>8. ASSUME NEW w \in SqlCollectors, NEW e \in Remaining(w), NEW b \in BOOLEAN,
             IsActiveTarget(e)
      PROVE  Failing(w, e, b) \in [SqlCollectors -> SqlWorker]
  <2> DEFINE d == IF sqlServers[e].status # "Failed" \/ b THEN sql[w].writes \union {e}
                  ELSE sql[w].writes
  <2>1. e \in Endpoints /\ e \in Registered
    BY <1>8 DEF Remaining, IsActiveTarget
  <2>2. d \in SUBSET Registered
    BY <1>5, <2>1
  <2>3. Failing(w, e, b) = [sql EXCEPT ![w] = [sql[w] EXCEPT !.outcome[e] = "Failed", !.writes = d]]
    BY <1>0 DEF Failing
  <2> HIDE DEF d
  <2>4. [sql[w] EXCEPT !.outcome[e] = "Failed", !.writes = d] \in SqlWorker
    BY <1>0, <2>1, <2>2, VisitedType, 0 \in Nat, {} \in SUBSET SocketId
  <2> QED
    BY <1>0, <2>3, <2>4
<1>9. ASSUME NEW w \in SqlCollectors, ReadFailed(w) PROVE SqlTypeOK'
  BY <1>8, <1>9 DEF ReadFailed, SqlTypeOK
<1>10. ASSUME NEW w \in SqlCollectors, AggregationFailed(w) PROVE SqlTypeOK'
  <2>1. PICK e \in Remaining(w), b \in BOOLEAN :
           /\ IsActiveTarget(e)
           /\ \E open \in SUBSET Group(w, e) : \E aggregated \in SUBSET open :
                sql' = [Failing(w, e, b) EXCEPT
                    ![w].matched = @ + Cardinality(open),
                    ![w].unmatched = @ + Cardinality(Group(w, e) \ open),
                    ![w].found = @ \union aggregated]
    BY <1>10 DEF AggregationFailed
  <2>2. PICK open \in SUBSET Group(w, e) : \E aggregated \in SUBSET open :
                sql' = [Failing(w, e, b) EXCEPT
                    ![w].matched = @ + Cardinality(open),
                    ![w].unmatched = @ + Cardinality(Group(w, e) \ open),
                    ![w].found = @ \union aggregated]
    BY <2>1
  <2>3. PICK aggregated \in SUBSET open :
                sql' = [Failing(w, e, b) EXCEPT
                    ![w].matched = @ + Cardinality(open),
                    ![w].unmatched = @ + Cardinality(Group(w, e) \ open),
                    ![w].found = @ \union aggregated]
    BY <2>2
  <2> DEFINE F == Failing(w, e, b)
             m == F[w].matched + Cardinality(open)
             u == F[w].unmatched + Cardinality(Group(w, e) \ open)
             f == F[w].found \union aggregated
  <2>4. e \in Endpoints
    BY DEF Remaining
  <2>5. F \in [SqlCollectors -> SqlWorker]
    BY <1>8, <2>1
  <2>6. /\ open \in SUBSET SocketId /\ Group(w, e) \ open \in SUBSET SocketId
        /\ aggregated \in SUBSET SocketId
    BY <1>5, <2>4
  <2>7. sql' = [F EXCEPT ![w].matched = @ + Cardinality(open),
                         ![w].unmatched = @ + Cardinality(Group(w, e) \ open),
                         ![w].found = @ \union aggregated]
    BY <2>3
  <2> HIDE DEF F
  <2>8. m \in Nat /\ u \in Nat /\ f \in SUBSET SocketId
    <3>1. F[w] \in SqlWorker
      BY <2>5
    <3>2. F[w].matched \in Nat /\ F[w].unmatched \in Nat /\ F[w].found \in SUBSET SocketId
      BY <3>1 DEF SqlWorker
    <3>3. Cardinality(open) \in Nat /\ Cardinality(Group(w, e) \ open) \in Nat
      BY <2>6, SubsetCounts
    <3> QED
      BY <2>6, <3>2, <3>3
  <2>9. sql' = [F EXCEPT ![w] = [F[w] EXCEPT !.matched = m, !.unmatched = u, !.found = f]]
    BY <2>5, <2>7
  <2> HIDE DEF m, u, f
  <2>10. [F[w] EXCEPT !.matched = m, !.unmatched = u, !.found = f] \in SqlWorker
    BY <2>4, <2>5, <2>8, VisitedType, {} \in SUBSET Registered, "Failed" \in {"Success", "Failed"}
  <2> QED
    BY <2>5, <2>9, <2>10 DEF SqlTypeOK
<1>11. ASSUME NEW w \in SqlCollectors, SaveResult(w) PROVE SqlTypeOK'
  <2>1. sql[w].writes \in SUBSET Registered
    BY <1>0 DEF SqlWorker
  <2>2. Overtaken(sql[w].writes, SqlCollectors \ {w}) \in [SqlCollectors -> SqlWorker]
    BY <1>0, <2>1, OvertakenType
  <2>3. sql' = [Overtaken(sql[w].writes, SqlCollectors \ {w}) EXCEPT ![w] = SqlIdle]
    BY <1>11 DEF SaveResult
  <2> QED
    BY <2>2, <2>3, SqlIdleType DEF SqlTypeOK
<1>12. ASSUME NEW e \in Registered, ToggleSqlServer(e) PROVE SqlTypeOK'
  <2>1. Overtaken({e}, SqlCollectors) \in [SqlCollectors -> SqlWorker]
    BY <1>0, OvertakenType
  <2> QED
    BY <1>12, <2>1 DEF ToggleSqlServer, SqlTypeOK
<1> QED
  BY <1>1, <1>2, <1>3, <1>4, <1>6, <1>7, <1>9, <1>10, <1>11, <1>12 DEF SqlNext, SqlStep

\* SQL collectors keep what they hold consistent.
LEMMA SqlWorkersStep == TypeInv /\ SqlNext /\ UNCHANGED iis => (WorkersHaveRuns /\ WritesVisited)'
<1> SUFFICES ASSUME TypeInv, SqlNext, UNCHANGED iis PROVE (WorkersHaveRuns /\ WritesVisited)'
  OBVIOUS
<1> DEFINE Visited(l) == \A e \in l.writes : l.outcome[e] \in {"Success", "Failed"}
           Running(l) == l.pc \notin {"Idle", "Pick", "Down"} => l.run \in RunIds
           OK == \A v \in SqlCollectors : Visited(sql'[v]) /\ Running(sql'[v])
<1>0. /\ sql \in [SqlCollectors -> SqlWorker]
      /\ \A v \in SqlCollectors : Visited(sql[v]) /\ Running(sql[v])
      /\ iisServers \in [IisServers -> IisServer]
  BY DEF TypeInv, TypeOK, SqlTypeOK, DbTypeOK, WorkersHaveRuns, WritesVisited
<1>1. ASSUME NEW w \in SqlCollectors, PickRun(w) PROVE OK
  <2>1. PICK r \in Queued : sql' = [sql EXCEPT ![w] = [SqlIdle EXCEPT
               !.pc = "Lease", !.run = r,
               !.counted = [matched |-> runs[r].matched, unmatched |-> runs[r].unmatched]]]
    BY <1>1 DEF PickRun
  <2>2. /\ sql'[w].run = r /\ sql'[w].writes = {} /\ r \in RunIds
        /\ \A v \in SqlCollectors \ {w} : sql'[v] = sql[v]
    BY <1>0, <2>1 DEF SqlIdle, Queued
  <2> QED
    BY <1>0, <2>2
<1>2. ASSUME NEW w \in SqlCollectors,
             \/ Requeue(w) \/ NothingQueued(w) \/ SaveEmpty(w) \/ SaveExpired(w)
             \/ SaveConflict(w) \/ SqlError(w) \/ SqlCrash(w) \/ SqlRestart(w)
      PROVE  OK
  <2>1. \/ sql' = [sql EXCEPT ![w] = SqlIdle] \/ sql' = [sql EXCEPT ![w] = SqlDown]
        \/ sql' = [sql EXCEPT ![w] = [SqlIdle EXCEPT !.pc = "Pick"]]
    BY <1>2 DEF Requeue, NothingQueued, SaveEmpty, SaveExpired, SaveConflict,
                SqlError, SqlCrash, SqlRestart
  <2>2. /\ sql'[w].pc \in {"Idle", "Pick", "Down"} /\ sql'[w].writes = {}
        /\ \A v \in SqlCollectors \ {w} : sql'[v] = sql[v]
    BY <1>0, <2>1 DEF SqlIdle, SqlDown
  <2> QED
    BY <1>0, <2>2
<1>3. ASSUME NEW w \in SqlCollectors,
             LeaseRun(w) \/ LoadStaging(w) \/ AllVisited(w) \/ DeleteInventory(w)
      PROVE  OK
  <2>1. /\ sql'[w].run = sql[w].run /\ sql'[w].writes = sql[w].writes
        /\ sql'[w].outcome = sql[w].outcome
        /\ \A v \in SqlCollectors \ {w} : sql'[v] = sql[v]
        /\ sql[w].pc \notin {"Idle", "Pick", "Down"}
    BY <1>0, <1>3 DEF LeaseRun, LoadStaging, AllVisited, DeleteInventory, SqlWorker
  <2> QED
    BY <1>0, <2>1
<1>4. ASSUME NEW w \in SqlCollectors, NEW e \in Remaining(w), NEW o \in Outcome,
             sql[w].pc = "Match",
             sql'[w].run = sql[w].run,
             sql'[w].outcome[e] = o,
             \A f \in Endpoints \ {e} : sql'[w].outcome[f] = sql[w].outcome[f],
             \/ sql'[w].writes = sql[w].writes
             \/ sql'[w].writes = sql[w].writes \union {e} /\ o \in {"Success", "Failed"},
             \A v \in SqlCollectors \ {w} : sql'[v] = sql[v]
      PROVE  OK
  <2>1. e \in Endpoints /\ sql[w].outcome[e] = "None" /\ sql[w].outcome \in [Endpoints -> Outcome]
        /\ sql[w].writes \subseteq Endpoints
    BY <1>0, EndpointsAssumption DEF Remaining, SqlWorker
  <2>2. e \notin sql[w].writes
    BY <1>0, <2>1
  <2>3. Visited(sql'[w])
    BY <1>0, <1>4, <2>1, <2>2
  <2>4. Running(sql'[w])
    BY <1>0, <1>4
  <2> QED
    BY <1>0, <1>4, <2>3, <2>4
<1>5. ASSUME NEW w \in SqlCollectors, EndpointUnknown(w) PROVE OK
  <2>1. PICK e \in Remaining(w) : sql' = [sql EXCEPT
               ![w].outcome[e] = "Unknown",
               ![w].observed[e] = unknown[e],
               ![w].unmatched = @ + Cardinality(Group(w, e))]
    BY <1>5 DEF EndpointUnknown
  <2>2. /\ sql'[w].run = sql[w].run /\ sql'[w].writes = sql[w].writes
        /\ sql'[w].outcome[e] = "Unknown"
        /\ \A f \in Endpoints \ {e} : sql'[w].outcome[f] = sql[w].outcome[f]
        /\ \A v \in SqlCollectors \ {w} : sql'[v] = sql[v]
    BY <1>0, <2>1 DEF SqlWorker, Remaining
  <2>3. sql[w].pc = "Match" /\ "Unknown" \in Outcome
    BY <1>5 DEF EndpointUnknown, Outcome
  <2> HIDE DEF OK
  <2> QED
    BY <1>4, <2>2, <2>3
<1>6. ASSUME NEW w \in SqlCollectors, EndpointMatched(w) PROVE OK
  <2>1. PICK e \in Remaining(w) : \E open \in SUBSET Group(w, e) : sql' = [sql EXCEPT
                ![w].outcome[e] = "Success",
                ![w].matched = @ + Cardinality(open),
                ![w].unmatched = @ + Cardinality(Group(w, e) \ open),
                ![w].found = @ \union open,
                ![w].writes = IF sqlServers[e].status # "Success" THEN @ \union {e} ELSE @]
    BY <1>6 DEF EndpointMatched
  <2>2. PICK open \in SUBSET Group(w, e) : sql' = [sql EXCEPT
                ![w].outcome[e] = "Success",
                ![w].matched = @ + Cardinality(open),
                ![w].unmatched = @ + Cardinality(Group(w, e) \ open),
                ![w].found = @ \union open,
                ![w].writes = IF sqlServers[e].status # "Success" THEN @ \union {e} ELSE @]
    BY <2>1
  <2>3. /\ sql'[w].run = sql[w].run
        /\ sql'[w].outcome[e] = "Success"
        /\ \A f \in Endpoints \ {e} : sql'[w].outcome[f] = sql[w].outcome[f]
        /\ sql'[w].writes = sql[w].writes \/ sql'[w].writes = sql[w].writes \union {e}
        /\ \A v \in SqlCollectors \ {w} : sql'[v] = sql[v]
    BY <1>0, <2>2 DEF SqlWorker, Remaining
  <2> QED
    BY <1>4, <1>6, <2>3 DEF EndpointMatched, Outcome
<1>7. ASSUME NEW w \in SqlCollectors, NEW e \in Remaining(w), NEW b \in BOOLEAN
      PROVE  /\ Failing(w, e, b)[w].run = sql[w].run
             /\ Failing(w, e, b)[w].outcome[e] = "Failed"
             /\ \A f \in Endpoints \ {e} : Failing(w, e, b)[w].outcome[f] = sql[w].outcome[f]
             /\ \/ Failing(w, e, b)[w].writes = sql[w].writes
                \/ Failing(w, e, b)[w].writes = sql[w].writes \union {e}
             /\ \A v \in SqlCollectors \ {w} : Failing(w, e, b)[v] = sql[v]
  BY <1>0 DEF Failing, SqlWorker, Remaining
<1>8. ASSUME NEW w \in SqlCollectors, ReadFailed(w) PROVE OK
  <2>1. PICK e \in Remaining(w), b \in BOOLEAN : sql' = Failing(w, e, b)
    BY <1>8 DEF ReadFailed
  <2>2. sql[w].pc = "Match" /\ "Failed" \in Outcome
    BY <1>8 DEF ReadFailed, Outcome
  <2> HIDE DEF OK
  <2> QED
    BY <1>4, <1>7, <2>1, <2>2
<1>9. ASSUME NEW w \in SqlCollectors, AggregationFailed(w) PROVE OK
  <2>1. PICK e \in Remaining(w), b \in BOOLEAN :
           \E open \in SUBSET Group(w, e) : \E aggregated \in SUBSET open :
                sql' = [Failing(w, e, b) EXCEPT
                    ![w].matched = @ + Cardinality(open),
                    ![w].unmatched = @ + Cardinality(Group(w, e) \ open),
                    ![w].found = @ \union aggregated]
    BY <1>9 DEF AggregationFailed
  <2> DEFINE F == Failing(w, e, b)
  <2>2. PICK open \in SUBSET Group(w, e) : \E aggregated \in SUBSET open :
                sql' = [F EXCEPT
                    ![w].matched = @ + Cardinality(open),
                    ![w].unmatched = @ + Cardinality(Group(w, e) \ open),
                    ![w].found = @ \union aggregated]
    BY <2>1
  <2>3. PICK aggregated \in SUBSET open :
                sql' = [F EXCEPT
                    ![w].matched = @ + Cardinality(open),
                    ![w].unmatched = @ + Cardinality(Group(w, e) \ open),
                    ![w].found = @ \union aggregated]
    BY <2>2
  <2>4. w \in DOMAIN F /\ DOMAIN F = SqlCollectors
    BY <1>0 DEF Failing
  <2>5. /\ sql'[w].run = F[w].run /\ sql'[w].outcome = F[w].outcome
        /\ sql'[w].writes = F[w].writes
        /\ \A v \in SqlCollectors \ {w} : sql'[v] = F[v]
    <3> HIDE DEF F
    <3> QED
      BY <2>3, <2>4
  <2>6. sql[w].pc = "Match" /\ "Failed" \in Outcome
    BY <1>9 DEF AggregationFailed, Outcome
  <2>7. /\ sql'[w].run = sql[w].run
        /\ sql'[w].outcome[e] = "Failed"
        /\ \A f \in Endpoints \ {e} : sql'[w].outcome[f] = sql[w].outcome[f]
        /\ sql'[w].writes = sql[w].writes \/ sql'[w].writes = sql[w].writes \union {e}
        /\ \A v \in SqlCollectors \ {w} : sql'[v] = sql[v]
    <3>1. /\ F[w].run = sql[w].run
          /\ F[w].outcome[e] = "Failed"
          /\ \A f \in Endpoints \ {e} : F[w].outcome[f] = sql[w].outcome[f]
          /\ F[w].writes = sql[w].writes \/ F[w].writes = sql[w].writes \union {e}
          /\ \A v \in SqlCollectors \ {w} : F[v] = sql[v]
      BY <1>7, <2>1
    <3> HIDE DEF F
    <3> QED
      BY <2>5, <3>1
  <2> HIDE DEF OK, F
  <2> QED
    BY <1>4, <2>1, <2>6, <2>7
<1>10. ASSUME NEW E \in SUBSET Registered, NEW W \in SUBSET SqlCollectors,
              NEW v \in SqlCollectors
       PROVE  Visited(Overtaken(E, W)[v]) /\ Running(Overtaken(E, W)[v])
  <2>1. /\ Overtaken(E, W)[v].pc = sql[v].pc /\ Overtaken(E, W)[v].run = sql[v].run
        /\ Overtaken(E, W)[v].writes = sql[v].writes
        /\ Overtaken(E, W)[v].outcome = sql[v].outcome
    BY <1>0 DEF Overtaken, SqlWorker
  <2> QED
    BY <1>0, <2>1
<1>11. ASSUME NEW w \in SqlCollectors, SaveResult(w) PROVE OK
  <2> DEFINE F == Overtaken(sql[w].writes, SqlCollectors \ {w})
  <2>1. sql' = [F EXCEPT ![w] = SqlIdle]
    BY <1>11 DEF SaveResult
  <2>2. DOMAIN F = SqlCollectors
    BY DEF Overtaken
  <2>3. sql[w].writes \in SUBSET Registered
    BY <1>0 DEF SqlWorker
  <2>4. \A v \in SqlCollectors : Visited(F[v]) /\ Running(F[v])
    BY <1>10, <2>3
  <2>5. sql'[w] = SqlIdle /\ \A v \in SqlCollectors \ {w} : sql'[v] = F[v]
    <3> HIDE DEF F
    <3> QED
      BY <2>1, <2>2
  <2>6. Visited(SqlIdle) /\ Running(SqlIdle)
    BY DEF SqlIdle
  <2> QED
    BY <2>4, <2>5, <2>6
<1>12. ASSUME NEW e \in Registered, ToggleSqlServer(e) PROVE OK
  BY <1>10, <1>12 DEF ToggleSqlServer
<1>13. OK
  BY <1>1, <1>2, <1>3, <1>5, <1>6, <1>8, <1>9, <1>11, <1>12 DEF SqlNext, SqlStep
<1> QED
  BY <1>13 DEF TypeInv, WorkersHaveRuns, WritesVisited

\* SQL collectors, and the toggles of SQL servers, keep the tables well-formed.
LEMMA SqlDbTypeStep == TypeInv /\ SqlNext => DbTypeOK'
<1> SUFFICES ASSUME TypeInv, SqlNext PROVE DbTypeOK'
  OBVIOUS
<1>0. /\ runs \in [RunIds -> Run] /\ staging \subseteq StagingRow
      /\ inventory \subseteq InventoryRow /\ iisServers \in [IisServers -> IisServer]
      /\ sqlServers \in [Registered -> SqlServer] /\ unknown \in [Endpoints -> Nat]
      /\ faults \in Nat /\ sql \in [SqlCollectors -> SqlWorker]
      /\ \A w \in SqlCollectors :
            sql[w].pc \notin {"Idle", "Pick", "Down"} => sql[w].run \in RunIds
      /\ \A w \in SqlCollectors : \A e \in sql[w].writes :
            sql[w].outcome[e] \in {"Success", "Failed"}
  BY DEF TypeInv, TypeOK, DbTypeOK, SqlTypeOK, WorkersHaveRuns, WritesVisited
<1>1. ASSUME NEW w \in SqlCollectors,
             \/ NothingQueued(w) \/ PickRun(w) \/ LoadStaging(w) \/ EndpointUnknown(w)
             \/ EndpointMatched(w) \/ ReadFailed(w) \/ AllVisited(w)
             \/ SaveConflict(w) \/ SqlRestart(w)
      PROVE  DbTypeOK'
  BY <1>0, <1>1 DEF NothingQueued, PickRun, LoadStaging, EndpointUnknown,
       EndpointMatched, ReadFailed, AllVisited, SaveConflict, SqlRestart, dbVars, DbTypeOK
<1>2. ASSUME NEW w \in SqlCollectors, AggregationFailed(w) \/ SqlError(w) \/ SqlCrash(w)
      PROVE  DbTypeOK'
  <2>1. /\ UNCHANGED <<runs, staging, inventory, iisServers, sqlServers, unknown>>
        /\ faults' = faults + 1
    BY <1>2 DEF AggregationFailed, SqlError, SqlCrash, Fault
  <2> QED
    BY <1>0, <2>1 DEF DbTypeOK
<1>3. ASSUME NEW w \in SqlCollectors, DeleteInventory(w) PROVE DbTypeOK'
  BY <1>0, <1>3 DEF DeleteInventory, DbTypeOK
<1>4. ASSUME NEW w \in SqlCollectors, Requeue(w) PROVE DbTypeOK'
  <2>1. ASSUME NEW r \in RunIds PROVE runs'[r] \in Run
    <3>1. runs[r] \in Run /\ "ReadyForSql" \in RunStatus
      BY <1>0 DEF RunStatus
    <3>2. [runs[r] EXCEPT !.status = "ReadyForSql"] \in Run
      BY <3>1, RunType
    <3> QED
      BY <1>4, <3>1, <3>2 DEF Requeue
  <2>2. runs' \in [RunIds -> Run]
    BY <1>4, <2>1 DEF Requeue
  <2> QED
    BY <1>0, <1>4, <2>2 DEF Requeue, DbTypeOK
<1>5. ASSUME NEW w \in SqlCollectors, LeaseRun(w) PROVE DbTypeOK'
  <2>1. sql[w].run \in RunIds /\ runs[sql[w].run] \in Run /\ "ProcessingSql" \in RunStatus
    BY <1>0, <1>5 DEF LeaseRun, RunStatus
  <2>2. runs' = [runs EXCEPT ![sql[w].run] =
                    [runs[sql[w].run] EXCEPT !.status = "ProcessingSql"]]
    BY <1>0, <1>5, <2>1 DEF LeaseRun
  <2>3. runs' \in [RunIds -> Run]
    BY <1>0, <2>1, <2>2, RunType
  <2> QED
    BY <1>0, <1>5, <2>3 DEF LeaseRun, DbTypeOK
<1>6. ASSUME NEW w \in SqlCollectors, NEW t \in RunStatus, sql[w].run \in RunIds,
             runs' = [runs EXCEPT ![sql[w].run].status = t, ![sql[w].run].done = TRUE]
      PROVE  runs' \in [RunIds -> Run]
  <2>1. runs' = [runs EXCEPT ![sql[w].run] =
                    [runs[sql[w].run] EXCEPT !.status = t, !.done = TRUE]]
    BY <1>0, <1>6
  <2>2. runs[sql[w].run] \in Run
    BY <1>0, <1>6
  <2>3. [runs[sql[w].run] EXCEPT !.status = t, !.done = TRUE] \in Run
    BY <2>2, RunType
  <2> QED
    BY <1>0, <2>1, <2>3
<1>7. ASSUME NEW w \in SqlCollectors, SaveEmpty(w) PROVE DbTypeOK'
  <2>1. sql[w].run \in RunIds /\ "Completed" \in RunStatus
    BY <1>0, <1>7 DEF SaveEmpty, RunStatus
  <2>2. runs' \in [RunIds -> Run]
    BY <1>6, <1>7, <2>1 DEF SaveEmpty
  <2> QED
    BY <1>0, <1>7, <2>2 DEF SaveEmpty, DbTypeOK
<1>8. ASSUME NEW w \in SqlCollectors, SaveExpired(w) PROVE DbTypeOK'
  <2>1. sql[w].run \in RunIds /\ "Expired" \in RunStatus
    BY <1>0, <1>8 DEF SaveExpired, RunStatus
  <2>2. runs' \in [RunIds -> Run]
    BY <1>6, <1>8, <2>1 DEF SaveExpired
  <2>3. staging' \subseteq StagingRow
    BY <1>0, <1>8 DEF SaveExpired, StagingRow, RowStatus
  <2> QED
    BY <1>0, <1>8, <2>2, <2>3 DEF SaveExpired, DbTypeOK
<1>9. ASSUME NEW e \in Registered, ToggleSqlServer(e) PROVE DbTypeOK'
  <2>1. sqlServers' \in [Registered -> SqlServer]
    BY <1>0, <1>9 DEF ToggleSqlServer, SqlServer
  <2> QED
    BY <1>0, <1>9, <2>1 DEF ToggleSqlServer, DbTypeOK
<1>10. ASSUME NEW w \in SqlCollectors, SaveResult(w) PROVE DbTypeOK'
  <2> DEFINE l == sql[w]
             r == sql[w].run
             t == IF FailedRows(w) = {} THEN "Completed" ELSE "Failed"
             m == Written(runs[r].matched, l.counted.matched, l.matched)
             u == Written(runs[r].unmatched, l.counted.unmatched, l.unmatched)
  <2>1. l \in SqlWorker /\ r \in RunIds
    BY <1>0, <1>10 DEF SaveResult
  <2>2. inventory' \subseteq InventoryRow
    <3>1. l.found \subseteq SocketId
      BY <2>1 DEF SqlWorker
    <3>2. NewInventory(w) \subseteq InventoryRow
      BY <2>1, <3>1 DEF NewInventory, InventoryRow, SocketId
    <3>3. inventory' = inventory \union NewInventory(w)
      BY <1>10 DEF SaveResult
    <3> QED
      BY <1>0, <3>2, <3>3
  <2>3. staging' \subseteq StagingRow
    <3>1. \A x \in StagingRow : [x EXCEPT !.status = "Failed"] \in StagingRow
      BY DEF StagingRow, RowStatus
    <3>2. staging' = {IF \E row \in FailedRows(w) : IsCopy(w, x, row)
                      THEN [x EXCEPT !.status = "Failed"] ELSE x :
                      x \in {y \in staging : ~\E row \in RemovedRows(w) : IsCopy(w, y, row)}}
      BY <1>10 DEF SaveResult
    <3> QED
      BY <1>0, <3>1, <3>2
  <2>4. t \in RunStatus /\ m \in Nat /\ u \in Nat
    <3>1. runs[r] \in Run
      BY <1>0, <2>1
    <3> QED
      BY <2>1, <3>1 DEF Written, SqlWorker, Run, RunStatus
  <2>5. runs' = [runs EXCEPT ![r].status = t, ![r].done = TRUE,
                     ![r].matched = Written(@, l.counted.matched, l.matched),
                     ![r].unmatched = Written(@, l.counted.unmatched, l.unmatched)]
    BY <1>10 DEF SaveResult
  <2>6. runs' \in [RunIds -> Run]
    <3>1. runs[r] \in Run
      BY <1>0, <2>1
    <3>2. runs' = [runs EXCEPT ![r] = [runs[r] EXCEPT !.status = t, !.done = TRUE,
                                            !.matched = m, !.unmatched = u]]
      BY <1>0, <2>1, <2>5
    <3> HIDE DEF t, m, u
    <3>3. [runs[r] EXCEPT !.status = t, !.done = TRUE, !.matched = m, !.unmatched = u] \in Run
      BY <2>4, <3>1, RunType
    <3> QED
      BY <1>0, <3>2, <3>3
  <2>7. sqlServers' \in [Registered -> SqlServer]
    <3>1. ASSUME NEW e \in Registered PROVE sqlServers'[e] \in SqlServer
      <4>1. sqlServers[e] \in SqlServer /\ (e \in l.writes => l.outcome[e] \in ServerStatus)
        BY <1>0 DEF ServerStatus
      <4>2. sqlServers'[e] = IF e \in l.writes
                             THEN [sqlServers[e] EXCEPT !.status = l.outcome[e]] ELSE sqlServers[e]
        BY <1>10 DEF SaveResult
      <4> QED
        BY <4>1, <4>2 DEF SqlServer
    <3> QED
      BY <1>10, <3>1 DEF SaveResult
  <2>8. unknown' \in [Endpoints -> Nat]
    <3>1. ASSUME NEW e \in Endpoints PROVE unknown'[e] \in Nat
      <4>1. Group(w, e) \in SUBSET SocketId
        BY <2>1 DEF Group, Sockets, Socket, SocketId, SqlWorker
      <4>2. Cardinality(Group(w, e)) \in Nat /\ l.observed[e] \in Nat
        BY <2>1, <4>1, SubsetCounts DEF SqlWorker
      <4>3. unknown'[e] = IF e \in UnknownHere(w)
                          THEN l.observed[e] + Cardinality(Group(w, e)) ELSE unknown[e]
        BY <1>10 DEF SaveResult
      <4> QED
        BY <1>0, <4>2, <4>3
    <3> QED
      BY <1>10, <3>1 DEF SaveResult
  <2> QED
    BY <1>0, <1>10, <2>2, <2>3, <2>6, <2>7, <2>8 DEF SaveResult, DbTypeOK
<1> QED
  BY <1>1, <1>2, <1>3, <1>4, <1>5, <1>7, <1>8, <1>9, <1>10 DEF SqlNext, SqlStep

\* IIS collectors have a run as long as they are at work.
LEMMA IisWorkersStep == TypeInv /\ IisNext /\ UNCHANGED sql => (WorkersHaveRuns /\ WritesVisited)'
<1> SUFFICES ASSUME TypeInv, IisNext, UNCHANGED sql PROVE (WorkersHaveRuns /\ WritesVisited)'
  OBVIOUS
<1> DEFINE Running(l) == l.pc \in {"Attempt", "Collect"} => l.run \in RunIds
           OK == \A d \in IisCollectors : Running(iis'[d])
<1>0. /\ iis \in [IisCollectors -> IisWorker]
      /\ \A d \in IisCollectors : Running(iis[d])
  BY DEF TypeInv, TypeOK, IisTypeOK, WorkersHaveRuns
<1>1. ASSUME NEW c \in IisCollectors,
             iis' = [iis EXCEPT ![c] = IisIdle] \/ iis' = [iis EXCEPT ![c] = IisDown]
      PROVE  OK
  BY <1>0, <1>1 DEF IisIdle, IisDown
<1>2. ASSUME NEW c \in IisCollectors,
             \/ AttemptConflict(c) \/ CollectConflict(c) \/ PublishRun(c)
             \/ IisError(c) \/ IisCrash(c) \/ IisRestart(c)
      PROVE  OK
  <2>1. iis' = [iis EXCEPT ![c] = IisIdle] \/ iis' = [iis EXCEPT ![c] = IisDown]
    BY <1>2 DEF AttemptConflict, CollectConflict, PublishRun, IisError, IisCrash, IisRestart
  <2> QED
    BY <1>1, <2>1
<1>3. ASSUME NEW c \in IisCollectors, StartCycle(c) PROVE OK
  BY <1>0, <1>3 DEF StartCycle, IisIdle
<1>4. ASSUME NEW c \in IisCollectors, MarkAttempt(c) \/ CollectSucceeds(c) \/ CollectFails(c)
      PROVE  OK
  <2>1. PICK s \in IisServers :
           \/ iis' = [Overwritten(s, IisCollectors \ {c}) EXCEPT
                        ![c].pc = "Collect", ![c].todo = @ \ {s}, ![c].current = {s}]
           \/ iis' = [Overwritten(s, IisCollectors \ {c}) EXCEPT
                        ![c].pc = "Attempt", ![c].current = {}]
    BY <1>0, <1>4 DEF MarkAttempt, CollectSucceeds, CollectFails, IisWorker
  <2> DEFINE F == Overwritten(s, IisCollectors \ {c})
  <2>2. /\ F \in [IisCollectors -> IisWorker]
        /\ \A d \in IisCollectors : F[d].pc = iis[d].pc /\ F[d].run = iis[d].run
    BY OverwrittenFacts DEF TypeInv, TypeOK
  <2>3. /\ iis'[c].run = F[c].run
        /\ \A d \in IisCollectors \ {c} : iis'[d] = F[d]
    <3>1. \/ iis' = [F EXCEPT ![c].pc = "Collect", ![c].todo = @ \ {s}, ![c].current = {s}]
          \/ iis' = [F EXCEPT ![c].pc = "Attempt", ![c].current = {}]
      BY <2>1
    <3> HIDE DEF F
    <3> QED
      BY <2>2, <3>1 DEF IisWorker
  <2>4. iis[c].run \in RunIds
    BY <1>0, <1>4 DEF MarkAttempt, CollectSucceeds, CollectFails
  <2> HIDE DEF F
  <2> QED
    BY <1>0, <2>2, <2>3, <2>4
<1>5. ASSUME NEW s \in IisServers, ToggleIisServer(s) PROVE OK
  BY <1>0, <1>5, OverwrittenFacts DEF ToggleIisServer, TypeInv, TypeOK
<1>6. OK
  BY <1>2, <1>3, <1>4, <1>5 DEF IisNext, IisStep
<1> QED
  BY <1>6 DEF TypeInv, WorkersHaveRuns, WritesVisited

LEMMA TickType == TypeInv /\ Tick /\ UNCHANGED <<iis, sql>> => TypeInv'
<1> SUFFICES ASSUME TypeInv, Tick, UNCHANGED <<iis, sql>> PROVE TypeInv'
  OBVIOUS
<1>0. /\ runs \in [RunIds -> Run] /\ staging \subseteq StagingRow
      /\ iisServers \in [IisServers -> IisServer]
  BY DEF TypeInv, TypeOK, DbTypeOK
<1>1. \A n, limit \in Nat : Older(n, limit) \in Nat
  BY DEF Older
<1>2. runs' \in [RunIds -> Run]
  <2>1. ASSUME NEW r \in RunIds PROVE runs'[r] \in Run
    <3>1. runs[r] \in Run /\ Older(runs[r].age, LeaseAge + 1) \in Nat
      <4>1. runs[r] \in Run
        BY <1>0
      <4>2. runs[r].age \in Nat /\ LeaseAge + 1 \in Nat
        BY <4>1, TimesAssumption DEF Run
      <4> QED
        BY <1>1, <4>1, <4>2
    <3>2. [runs[r] EXCEPT !.age = Older(runs[r].age, LeaseAge + 1)] \in Run
      BY <3>1, RunType
    <3> QED
      BY <3>1, <3>2 DEF Tick
  <2> QED
    BY <2>1 DEF Tick
<1>3. staging' \subseteq StagingRow
  <2>1. \A x \in StagingRow : [x EXCEPT !.age = Older(@, MaxSnapshotAge + 1)] \in StagingRow
    BY <1>1, TimesAssumption DEF StagingRow
  <2> QED
    BY <1>0, <2>1 DEF Tick
<1>4. iisServers' \in [IisServers -> IisServer]
  <2>1. \A x \in IisServer : [x EXCEPT !.age = Older(@, CollectionInterval)] \in IisServer
    BY <1>1, TimesAssumption DEF IisServer
  <2> QED
    BY <1>0, <2>1 DEF Tick
<1>5. DbTypeOK'
  BY <1>2, <1>3, <1>4 DEF Tick, TypeInv, TypeOK, DbTypeOK
<1> QED
  BY <1>5 DEF TypeInv, TypeOK, IisTypeOK, SqlTypeOK, WorkersHaveRuns, WritesVisited

LEMMA TypeStart == Init => TypeInv
<1> SUFFICES ASSUME Init PROVE TypeInv
  OBVIOUS
<1>1. DbTypeOK
  BY TimesAssumption DEF Init, DbInit, DbTypeOK, NoRun, Run, RunStatus, IisServer, SqlServer, ServerStatus
<1>2. IisTypeOK /\ SqlTypeOK
  BY IisIdleType, SqlIdleType DEF Init, IisInit, SqlInit, IisTypeOK, SqlTypeOK
<1>3. WorkersHaveRuns /\ WritesVisited
  BY DEF Init, IisInit, SqlInit, IisIdle, SqlIdle, WorkersHaveRuns, WritesVisited
<1> QED
  BY <1>1, <1>2, <1>3 DEF TypeInv, TypeOK

LEMMA TypeStutter == TypeInv /\ UNCHANGED vars => TypeInv'
  BY DEF vars, dbVars, TypeInv, TypeOK, DbTypeOK, IisTypeOK, SqlTypeOK, WorkersHaveRuns, WritesVisited

LEMMA TypeStep == TypeInv /\ [Next]_vars => TypeInv'
<1> SUFFICES ASSUME TypeInv, [Next]_vars PROVE TypeInv'
  OBVIOUS
<1>1. CASE IisNext /\ UNCHANGED sql
  <2>1. IisTypeOK' /\ DbTypeOK' /\ (WorkersHaveRuns /\ WritesVisited)'
    BY <1>1, IisTypeStep, IisDbTypeStep, IisWorkersStep DEF TypeInv, TypeOK
  <2>2. SqlTypeOK'
    BY <1>1 DEF TypeInv, TypeOK, SqlTypeOK
  <2> QED
    BY <2>1, <2>2 DEF TypeInv, TypeOK
<1>2. CASE SqlNext /\ UNCHANGED iis
  <2>1. SqlTypeOK' /\ DbTypeOK' /\ (WorkersHaveRuns /\ WritesVisited)'
    BY <1>2, SqlTypeStep, SqlDbTypeStep, SqlWorkersStep
  <2>2. IisTypeOK'
    BY <1>2 DEF TypeInv, TypeOK, IisTypeOK
  <2> QED
    BY <2>1, <2>2 DEF TypeInv, TypeOK
<1>3. CASE Tick /\ UNCHANGED <<iis, sql>>
  BY <1>3, TickType
<1>4. CASE UNCHANGED vars
  BY <1>4, TypeStutter
<1> QED
  BY <1>1, <1>2, <1>3, <1>4 DEF Next

LEMMA TypeInvariant == Spec => []TypeInv
<1>1. Init => TypeInv
  BY TypeStart
<1>2. TypeInv /\ [Next]_vars => TypeInv'
  BY TypeStep
<1> QED
  BY <1>1, <1>2, PTL DEF Spec

\* The tables and the workers of the pipeline are always well-formed.
THEOREM TypeCorrect == Spec => []TypeOK
<1>1. TypeInv => TypeOK
  BY DEF TypeInv
<1> QED
  BY <1>1, TypeInvariant, PTL

-----------------------------------------------------------------------------
(* Finished runs stay finished, and only they have inventory.              *)

\* A run that does not exist yet is not finished.
AbsentNotDone == \A r \in RunIds : runs[r].status = "Absent" => ~runs[r].done

FinishedInv == TypeInv /\ AbsentNotDone /\ InventoryOnlyOfFinishedRuns

\* What a step may do to a run: it is never reopened, and it does not vanish.
RunKept(r) ==
    /\ runs[r].status # "Absent" /\ runs[r].done => runs'[r].done
    /\ runs'[r].status = "Absent" => runs[r].status = "Absent" /\ (runs'[r].done => runs[r].done)

\* No step reopens a run.
LEMMA RunsStep == TypeInv /\ [Next]_vars => \A r \in RunIds : RunKept(r)
<1> SUFFICES ASSUME TypeInv, [Next]_vars, NEW q \in RunIds PROVE RunKept(q)
  OBVIOUS
<1>0. /\ runs \in [RunIds -> Run]
      /\ \A r \in RunIds : DOMAIN runs[r] = {"status", "age", "done", "servers", "ok", "fail",
                                              "staged", "matched", "unmatched"}
  <2>1. runs \in [RunIds -> Run]
    BY DEF TypeInv, TypeOK, DbTypeOK
  <2> QED
    BY <2>1 DEF Run
<1>1. ASSUME NEW c \in IisCollectors, StartCycle(c) PROVE RunKept(q)
  <2>1. PICK r \in RunIds : /\ runs[r].status = "Absent"
                            /\ runs' = [runs EXCEPT ![r] = [NoRun EXCEPT
                                 !.status = "PendingIis", !.servers = Cardinality(Due)]]
    BY <1>1 DEF StartCycle
  <2>2. runs'[r].status # "Absent" /\ (q # r => runs'[q] = runs[q])
    BY <1>0, <2>1 DEF NoRun
  <2> QED
    BY <2>1, <2>2 DEF RunKept
<1>2. ASSUME NEW c \in IisCollectors, CollectSucceeds(c) PROVE RunKept(q)
  <2>1. PICK listed :
           runs' = [runs EXCEPT ![iis[c].run].ok = @ + 1, ![iis[c].run].staged = @ + listed]
    BY <1>2 DEF CollectSucceeds
  <2>2. runs'[q].status = runs[q].status /\ runs'[q].done = runs[q].done
    BY <1>0, <2>1
  <2> QED
    BY <2>2 DEF RunKept
<1>3. ASSUME NEW c \in IisCollectors, CollectFails(c) PROVE RunKept(q)
  <2>1. runs' = [runs EXCEPT ![iis[c].run].fail = @ + 1]
    BY <1>3 DEF CollectFails
  <2>2. runs'[q].status = runs[q].status /\ runs'[q].done = runs[q].done
    BY <1>0, <2>1
  <2> QED
    BY <2>2 DEF RunKept
<1>4. ASSUME NEW c \in IisCollectors, PublishRun(c) PROVE RunKept(q)
  <2> DEFINE t == PublishedStatus(runs[iis[c].run])
  <2>1. runs' = [runs EXCEPT ![iis[c].run].status = t, ![iis[c].run].done = @ \/ t = "Failed"]
    BY <1>4 DEF PublishRun
  <2>2. t # "Absent"
    BY DEF PublishedStatus
  <2> HIDE DEF t
  <2>3. \/ runs'[q] = runs[q]
        \/ runs'[q].status = t /\ runs'[q].done = (runs[q].done \/ t = "Failed")
    BY <1>0, <2>1
  <2> QED
    BY <2>2, <2>3 DEF RunKept
<1>5. ASSUME UNCHANGED runs PROVE RunKept(q)
  BY <1>5 DEF RunKept
<1>6. ASSUME NEW c \in IisCollectors,
             \/ MarkAttempt(c) \/ AttemptConflict(c) \/ CollectConflict(c)
             \/ IisError(c) \/ IisCrash(c) \/ IisRestart(c)
      PROVE  RunKept(q)
  <2>1. UNCHANGED runs
    BY <1>6 DEF MarkAttempt, AttemptConflict, CollectConflict, IisError, IisCrash, IisRestart, dbVars
  <2> QED
    BY <1>5, <2>1
<1>7. ASSUME NEW w \in SqlCollectors,
             \/ NothingQueued(w) \/ PickRun(w) \/ LoadStaging(w) \/ EndpointUnknown(w)
             \/ EndpointMatched(w) \/ ReadFailed(w) \/ AggregationFailed(w) \/ AllVisited(w)
             \/ DeleteInventory(w) \/ SaveConflict(w)
             \/ SqlError(w) \/ SqlCrash(w) \/ SqlRestart(w)
      PROVE  RunKept(q)
  <2>1. UNCHANGED runs
    BY <1>7 DEF NothingQueued, PickRun, LoadStaging, EndpointUnknown, EndpointMatched,
       ReadFailed, AggregationFailed, AllVisited, DeleteInventory, SaveConflict,
       SqlError, SqlCrash, SqlRestart, dbVars
  <2> QED
    BY <1>5, <2>1
<1>8. ASSUME NEW w \in SqlCollectors, Requeue(w) PROVE RunKept(q)
  <2>1. runs'[q] = runs[q] \/ runs'[q] = [runs[q] EXCEPT !.status = "ReadyForSql"]
    BY <1>8 DEF Requeue
  <2>2. runs'[q] = runs[q] \/ (runs'[q].status = "ReadyForSql" /\ runs'[q].done = runs[q].done)
    BY <1>0, <2>1
  <2> QED
    BY <2>2 DEF RunKept
<1>9. ASSUME NEW w \in SqlCollectors, LeaseRun(w) PROVE RunKept(q)
  <2>1. runs' = [runs EXCEPT ![sql[w].run].status = "ProcessingSql"]
    BY <1>9 DEF LeaseRun
  <2>2. runs'[q] = runs[q] \/ (runs'[q].status = "ProcessingSql" /\ runs'[q].done = runs[q].done)
    BY <1>0, <2>1
  <2> QED
    BY <2>2 DEF RunKept
<1>10. ASSUME NEW w \in SqlCollectors, SaveEmpty(w) \/ SaveExpired(w) PROVE RunKept(q)
  <2>1. PICK t \in {"Completed", "Expired"} :
           runs' = [runs EXCEPT ![sql[w].run].status = t, ![sql[w].run].done = TRUE]
    BY <1>10 DEF SaveEmpty, SaveExpired
  <2>2. ASSUME q = sql[w].run PROVE runs'[q].status = t /\ runs'[q].done = TRUE
    BY <1>0, <2>1, <2>2
  <2>3. ASSUME q # sql[w].run PROVE runs'[q] = runs[q]
    BY <1>0, <2>1, <2>3
  <2> QED
    BY <2>1, <2>2, <2>3 DEF RunKept
<1>11. ASSUME NEW w \in SqlCollectors, SaveResult(w) PROVE RunKept(q)
  <2> DEFINE t == IF FailedRows(w) = {} THEN "Completed" ELSE "Failed"
             m(n) == Written(n, sql[w].counted.matched, sql[w].matched)
             u(n) == Written(n, sql[w].counted.unmatched, sql[w].unmatched)
  <2>1. runs' = [runs EXCEPT ![sql[w].run].status = t, ![sql[w].run].done = TRUE,
                     ![sql[w].run].matched = m(@), ![sql[w].run].unmatched = u(@)]
    BY <1>11 DEF SaveResult
  <2>2. t # "Absent"
    OBVIOUS
  <2> HIDE DEF t, m, u
  <2>3. ASSUME q = sql[w].run PROVE runs'[q].status = t /\ runs'[q].done = TRUE
    BY <1>0, <2>1, <2>3
  <2>4. ASSUME q # sql[w].run PROVE runs'[q] = runs[q]
    BY <1>0, <2>1, <2>4
  <2> QED
    BY <2>2, <2>3, <2>4 DEF RunKept
<1>12. ASSUME Tick PROVE RunKept(q)
  <2>1. \/ runs'[q] = runs[q]
        \/ runs'[q] = [runs[q] EXCEPT !.age = Older(runs[q].age, LeaseAge + 1)]
    BY <1>12 DEF Tick
  <2>2. runs'[q].status = runs[q].status /\ runs'[q].done = runs[q].done
    BY <1>0, <2>1
  <2> QED
    BY <2>2 DEF RunKept
<1>13. ASSUME (\E s \in IisServers : ToggleIisServer(s)) \/ (\E e \in Registered : ToggleSqlServer(e))
       PROVE  RunKept(q)
  <2>1. UNCHANGED runs
    BY <1>13 DEF ToggleIisServer, ToggleSqlServer
  <2> QED
    BY <1>5, <2>1
<1> QED
  BY <1>1, <1>2, <1>3, <1>4, <1>5, <1>6, <1>7, <1>8, <1>9, <1>10, <1>11, <1>12, <1>13
     DEF Next, IisNext, IisStep, SqlNext, SqlStep, vars, dbVars

\* What a step may do to the inventory: add rows of a run it finishes.
LEMMA InventoryStep ==
    TypeInv /\ [Next]_vars =>
        \A x \in inventory' : x \in inventory \/ (x.run \in RunIds /\ runs'[x.run].done)
<1> DEFINE Goal == \A x \in inventory' : x \in inventory \/ (x.run \in RunIds /\ runs'[x.run].done)
<1> SUFFICES ASSUME TypeInv, [Next]_vars PROVE Goal
  OBVIOUS
<1>1. ASSUME NEW w \in SqlCollectors, SaveResult(w) PROVE Goal
  <2> DEFINE r == sql[w].run
             t == IF FailedRows(w) = {} THEN "Completed" ELSE "Failed"
             m(n) == Written(n, sql[w].counted.matched, sql[w].matched)
             u(n) == Written(n, sql[w].counted.unmatched, sql[w].unmatched)
  <2>1. r \in RunIds
    BY <1>1 DEF SaveResult, TypeInv, WorkersHaveRuns
  <2>2. runs' = [runs EXCEPT ![r].status = t, ![r].done = TRUE, ![r].matched = m(@), ![r].unmatched = u(@)]
    BY <1>1 DEF SaveResult
  <2>3. runs \in [RunIds -> Run]
    BY DEF TypeInv, TypeOK, DbTypeOK
  <2>4. runs'[r].done
    <3> HIDE DEF t, m, u, r
    <3>1. runs[r] \in Run
      BY <2>1, <2>3
    <3> QED
      BY <2>1, <2>2, <2>3, <3>1 DEF Run
  <2>5. inventory' = inventory \union NewInventory(w)
    BY <1>1 DEF SaveResult
  <2>6. \A x \in NewInventory(w) : x.run = r
    BY DEF NewInventory
  <2> HIDE DEF r
  <2> QED
    BY <2>1, <2>4, <2>5, <2>6
<1>2. ASSUME NEW w \in SqlCollectors, DeleteInventory(w) PROVE Goal
  <2>1. inventory' \subseteq inventory
    BY <1>2 DEF DeleteInventory
  <2> QED
    BY <2>1
<1>3. ASSUME NEW w \in SqlCollectors, SqlStep(w), ~SaveResult(w), ~DeleteInventory(w)
      PROVE  UNCHANGED inventory
  <2>1. CASE Requeue(w) \/ NothingQueued(w) \/ PickRun(w) \/ LeaseRun(w) \/ LoadStaging(w)
    BY <2>1 DEF Requeue, NothingQueued, PickRun, LeaseRun, LoadStaging, dbVars
  <2>2. CASE SaveEmpty(w) \/ SaveExpired(w) \/ EndpointUnknown(w) \/ EndpointMatched(w)
    BY <2>2 DEF SaveEmpty, SaveExpired, EndpointUnknown, EndpointMatched, dbVars
  <2>3. CASE ReadFailed(w) \/ AggregationFailed(w) \/ AllVisited(w) \/ SaveConflict(w)
    BY <2>3 DEF ReadFailed, AggregationFailed, AllVisited, SaveConflict, dbVars
  <2> QED
    BY <1>3, <2>1, <2>2, <2>3 DEF SqlStep
<1>4. ASSUME NEW w \in SqlCollectors, SqlError(w) \/ SqlCrash(w) \/ SqlRestart(w)
      PROVE  UNCHANGED inventory
  BY <1>4 DEF SqlError, SqlCrash, SqlRestart, dbVars
<1>5. ASSUME IisNext PROVE UNCHANGED inventory
  <2>1. CASE \E c \in IisCollectors : IisStep(c)
    BY <2>1 DEF IisStep, StartCycle, MarkAttempt, AttemptConflict, CollectSucceeds,
         CollectFails, CollectConflict, PublishRun, dbVars
  <2>2. CASE \E c \in IisCollectors : IisError(c) \/ IisCrash(c) \/ IisRestart(c)
    BY <2>2 DEF IisError, IisCrash, IisRestart, dbVars
  <2>3. CASE \E s \in IisServers : ToggleIisServer(s)
    BY <2>3 DEF ToggleIisServer
  <2> QED
    BY <1>5, <2>1, <2>2, <2>3 DEF IisNext
<1>6. ASSUME Tick \/ UNCHANGED vars \/ \E e \in Registered : ToggleSqlServer(e)
      PROVE  UNCHANGED inventory
  <2>1. CASE Tick
    BY <2>1 DEF Tick
  <2>2. CASE UNCHANGED vars
    BY <2>2 DEF vars, dbVars
  <2>3. CASE \E e \in Registered : ToggleSqlServer(e)
    BY <2>3 DEF ToggleSqlServer
  <2> QED
    BY <1>6, <2>1, <2>2, <2>3
<1>7. UNCHANGED inventory => Goal
  OBVIOUS
<1> HIDE DEF Goal
<1> QED
  BY <1>1, <1>2, <1>3, <1>4, <1>5, <1>6, <1>7 DEF Next, SqlNext

LEMMA FinishedStart == Init => FinishedInv
<1> SUFFICES ASSUME Init PROVE FinishedInv
  OBVIOUS
<1>1. AbsentNotDone /\ InventoryOnlyOfFinishedRuns
  BY DEF Init, DbInit, NoRun, AbsentNotDone, InventoryOnlyOfFinishedRuns
<1> QED
  BY <1>1, TypeStart DEF FinishedInv

LEMMA FinishedStep == FinishedInv /\ [Next]_vars => FinishedInv'
<1> SUFFICES ASSUME FinishedInv, [Next]_vars PROVE FinishedInv'
  OBVIOUS
<1>1. TypeInv /\ TypeInv'
  BY TypeStep DEF FinishedInv
<1>2. \A r \in RunIds : RunKept(r)
  BY <1>1, RunsStep
<1>3. AbsentNotDone'
  BY <1>2 DEF FinishedInv, AbsentNotDone, RunKept
<1>4. ASSUME NEW x \in inventory' PROVE runs'[x.run].done
  <2>1. CASE x \in inventory
    <3>1. x.run \in RunIds /\ runs[x.run].done
      BY <1>1, <2>1 DEF TypeInv, TypeOK, DbTypeOK, InventoryRow, FinishedInv, InventoryOnlyOfFinishedRuns
    <3>2. runs[x.run].status # "Absent"
      BY <3>1 DEF FinishedInv, AbsentNotDone
    <3> QED
      BY <1>2, <3>1, <3>2 DEF RunKept
  <2>2. CASE x \notin inventory
    BY <1>1, <2>2, InventoryStep
  <2> QED
    BY <2>1, <2>2
<1> QED
  BY <1>1, <1>3, <1>4 DEF FinishedInv, InventoryOnlyOfFinishedRuns

\* No reader of the inventory sees rows of a run that is still being worked on,
\* with any number of collectors and whatever crashes.
THEOREM InventoryIsOfFinishedRuns == Spec => []InventoryOnlyOfFinishedRuns
<1>1. Init => FinishedInv
  BY FinishedStart
<1>2. FinishedInv /\ [Next]_vars => FinishedInv'
  BY FinishedStep
<1>3. FinishedInv => InventoryOnlyOfFinishedRuns
  BY DEF FinishedInv
<1> QED
  BY <1>1, <1>2, <1>3, PTL DEF Spec

-----------------------------------------------------------------------------
(* Staging rows do not get lost.                                           *)

\* The action of RowsLeaveWithTheirRun.
RowsKept ==
    \A x \in staging :
        (\A y \in staging' : y.run # x.run \/ Socket(y) # Socket(x)) => runs'[x.run].done

\* A step that keeps all rows, up to their status and age, loses none.
LEMMA RowsStepSave ==
    ASSUME TypeInv, NEW w \in SqlCollectors, SaveResult(w)
    PROVE  RowsKept
<1> DEFINE r == sql[w].run
           t == IF FailedRows(w) = {} THEN "Completed" ELSE "Failed"
           m(n) == Written(n, sql[w].counted.matched, sql[w].matched)
           u(n) == Written(n, sql[w].counted.unmatched, sql[w].unmatched)
<1>1. r \in RunIds /\ runs \in [RunIds -> Run] /\ staging \subseteq StagingRow
  BY DEF SaveResult, TypeInv, WorkersHaveRuns, TypeOK, DbTypeOK
<1>2. runs' = [runs EXCEPT ![r].status = t, ![r].done = TRUE, ![r].matched = m(@), ![r].unmatched = u(@)]
  BY DEF SaveResult
<1>3. runs'[r].done
  <2> HIDE DEF t, m, u, r
  <2>1. runs[r] \in Run
    BY <1>1
  <2> QED
    BY <1>1, <1>2, <2>1 DEF Run
<1>4. staging' = {IF \E row \in FailedRows(w) : IsCopy(w, x, row)
                  THEN [x EXCEPT !.status = "Failed"] ELSE x :
                  x \in {y \in staging : ~\E row \in RemovedRows(w) : IsCopy(w, y, row)}}
  BY DEF SaveResult
<1>5. SUFFICES ASSUME NEW x \in staging,
                      \A y \in staging' : y.run # x.run \/ Socket(y) # Socket(x)
               PROVE  runs'[x.run].done
  BY DEF RowsKept
<1>6. CASE \E row \in RemovedRows(w) : IsCopy(w, x, row)
  BY <1>3, <1>6 DEF IsCopy
<1>7. CASE ~\E row \in RemovedRows(w) : IsCopy(w, x, row)
  <2>1. \E y \in staging' : y = x \/ y = [x EXCEPT !.status = "Failed"]
    BY <1>4, <1>7
  <2>2. \E y \in staging' : y.run = x.run /\ Socket(y) = Socket(x)
    BY <1>1, <2>1 DEF StagingRow, Socket
  <2> QED
    BY <1>5, <2>2
<1> QED
  BY <1>6, <1>7

\* Whatever happens, a row stays or its run is finished.
LEMMA RowsStep == TypeInv /\ [Next]_vars => RowsKept
<1> SUFFICES ASSUME TypeInv, [Next]_vars PROVE RowsKept
  OBVIOUS
<1>0. staging \subseteq StagingRow
  BY DEF TypeInv, TypeOK, DbTypeOK
<1>1. ASSUME \A x \in staging : \E y \in staging' : y.run = x.run /\ Socket(y) = Socket(x)
      PROVE  RowsKept
  BY <1>1 DEF RowsKept
<1>2. ASSUME staging \subseteq staging' PROVE RowsKept
  BY <1>1, <1>2
<1>3. ASSUME NEW w \in SqlCollectors, SaveExpired(w) PROVE RowsKept
  <2>1. \A x \in staging : \E y \in staging' : y = x \/ y = [x EXCEPT !.status = "Expired"]
    BY <1>3 DEF SaveExpired
  <2> QED
    BY <1>0, <1>1, <2>1 DEF StagingRow, Socket
<1>4. ASSUME Tick PROVE RowsKept
  <2>1. \A x \in staging : \E y \in staging' : y = [x EXCEPT !.age = Older(x.age, MaxSnapshotAge + 1)]
    BY <1>4 DEF Tick
  <2> QED
    BY <1>0, <1>1, <2>1 DEF StagingRow, Socket
<1>5. ASSUME NEW w \in SqlCollectors, SqlStep(w), ~SaveResult(w), ~SaveExpired(w)
      PROVE  UNCHANGED staging
  <2>1. CASE Requeue(w) \/ NothingQueued(w) \/ PickRun(w) \/ LeaseRun(w) \/ LoadStaging(w)
    BY <2>1 DEF Requeue, NothingQueued, PickRun, LeaseRun, LoadStaging, dbVars
  <2>2. CASE SaveEmpty(w) \/ DeleteInventory(w) \/ EndpointUnknown(w) \/ EndpointMatched(w)
    BY <2>2 DEF SaveEmpty, DeleteInventory, EndpointUnknown, EndpointMatched, dbVars
  <2>3. CASE ReadFailed(w) \/ AggregationFailed(w) \/ AllVisited(w) \/ SaveConflict(w)
    BY <2>3 DEF ReadFailed, AggregationFailed, AllVisited, SaveConflict, dbVars
  <2> QED
    BY <1>5, <2>1, <2>2, <2>3 DEF SqlStep
<1>6. ASSUME NEW w \in SqlCollectors, SqlError(w) \/ SqlCrash(w) \/ SqlRestart(w)
      PROVE  UNCHANGED staging
  BY <1>6 DEF SqlError, SqlCrash, SqlRestart, dbVars
<1>7. ASSUME IisNext PROVE staging \subseteq staging'
  <2>1. CASE \E c \in IisCollectors : CollectSucceeds(c)
    BY <2>1 DEF CollectSucceeds
  <2>2. CASE \E c \in IisCollectors : \/ StartCycle(c) \/ MarkAttempt(c) \/ AttemptConflict(c)
                                     \/ CollectFails(c) \/ CollectConflict(c) \/ PublishRun(c)
    BY <2>2 DEF StartCycle, MarkAttempt, AttemptConflict, CollectFails, CollectConflict,
         PublishRun, dbVars
  <2>3. CASE \E c \in IisCollectors : IisError(c) \/ IisCrash(c) \/ IisRestart(c)
    BY <2>3 DEF IisError, IisCrash, IisRestart, dbVars
  <2>4. CASE \E s \in IisServers : ToggleIisServer(s)
    BY <2>4 DEF ToggleIisServer
  <2> QED
    BY <1>7, <2>1, <2>2, <2>3, <2>4 DEF IisNext, IisStep
<1>8. ASSUME UNCHANGED vars \/ \E e \in Registered : ToggleSqlServer(e) PROVE UNCHANGED staging
  BY <1>8 DEF vars, dbVars, ToggleSqlServer
<1>9. UNCHANGED staging => RowsKept
  BY <1>2
<1> QED
  BY <1>2, <1>3, <1>4, <1>5, <1>6, <1>7, <1>8, <1>9, RowsStepSave DEF Next, SqlNext

\* Rows leave the staging table only together with a run that is finished, with
\* any number of collectors and whatever crashes.
THEOREM RowsStayUntilFinished == Spec => RowsLeaveWithTheirRun
<1>1. [Next]_vars /\ TypeInv => [RowsKept]_vars
  BY RowsStep
<1>2. Spec => [][RowsKept]_vars
  BY <1>1, TypeInvariant, PTL DEF Spec
<1> QED
  BY <1>2 DEF RowsLeaveWithTheirRun, RowsKept

-----------------------------------------------------------------------------
(* The guarantees of the IIS collectors survive the composition.           *)

\* SQL collectors and their administrators leave the IIS servers alone.
LEMMA SqlKeepsIisServers == SqlNext => UNCHANGED iisServers
<1> SUFFICES ASSUME SqlNext PROVE UNCHANGED iisServers
  OBVIOUS
<1>1. ASSUME NEW w \in SqlCollectors, SqlStep(w) PROVE UNCHANGED iisServers
  <2>1. CASE Requeue(w) \/ NothingQueued(w) \/ PickRun(w) \/ LeaseRun(w) \/ LoadStaging(w)
    BY <2>1 DEF Requeue, NothingQueued, PickRun, LeaseRun, LoadStaging, dbVars
  <2>2. CASE SaveEmpty(w) \/ SaveExpired(w) \/ EndpointUnknown(w) \/ EndpointMatched(w)
    BY <2>2 DEF SaveEmpty, SaveExpired, EndpointUnknown, EndpointMatched, dbVars
  <2>3. CASE ReadFailed(w) \/ AggregationFailed(w) \/ AllVisited(w) \/ SaveConflict(w)
    BY <2>3 DEF ReadFailed, AggregationFailed, AllVisited, SaveConflict, dbVars
  <2>4. CASE DeleteInventory(w) \/ SaveResult(w)
    BY <2>4 DEF DeleteInventory, SaveResult
  <2> QED
    BY <1>1, <2>1, <2>2, <2>3, <2>4 DEF SqlStep
<1>2. ASSUME NEW w \in SqlCollectors, SqlError(w) \/ SqlCrash(w) \/ SqlRestart(w)
      PROVE  UNCHANGED iisServers
  BY <1>2 DEF SqlError, SqlCrash, SqlRestart, dbVars
<1>3. ASSUME NEW e \in Registered, ToggleSqlServer(e) PROVE UNCHANGED iisServers
  BY <1>3 DEF ToggleSqlServer
<1> QED
  BY <1>1, <1>2, <1>3 DEF SqlNext

\* With SQL collectors at work on the same database, a collection that another
\* one has overtaken still cannot commit, and decisions still stay valid.
THEOREM FencedInPipeline == Spec => [](CollectionFenced /\ DecisionStillValid)
<1>1. Init => FenceInv
  BY FenceStart DEF Init
<1>2. FenceInv /\ [Next]_vars => FenceInv'
  <2> SUFFICES ASSUME FenceInv, [Next]_vars PROVE FenceInv'
    OBVIOUS
  <2>1. CASE IisNext
    BY <2>1, IisTypeStep, ServersStep, FenceStep, DecisionStep DEF FenceInv
  <2>2. CASE SqlNext /\ UNCHANGED iis
    BY <2>2, SqlKeepsIisServers, FenceStutter
  <2>3. CASE Tick /\ UNCHANGED <<iis, sql>>
    BY <2>3, FenceTick
  <2>4. CASE UNCHANGED vars
    BY <2>4, FenceStutter DEF vars, dbVars
  <2> QED
    BY <2>1, <2>2, <2>3, <2>4 DEF Next
<1>3. FenceInv => CollectionFenced /\ DecisionStillValid
  BY DEF FenceInv
<1> QED
  BY <1>1, <1>2, <1>3, PTL DEF Spec

-----------------------------------------------------------------------------
(* The sockets of a run that is not finished are those its IIS collector  *)
(* counted: the invariant.                                                 *)

\* Two staging rows of a run are of different sockets.
SocketsUnique ==
    \A x, y \in staging : x.run = y.run /\ Socket(x) = Socket(y) => x = y

RowsHaveRuns == \A x \in staging : runs[x.run].status # "Absent"

\* No two IIS collectors work on one run, and none has sockets of a server that
\* it has still to collect from or is collecting from.
WorkersApart ==
    /\ \A c \in IisCollectors : iis[c].run # 0 => runs[iis[c].run].status # "Absent"
    /\ \A c, d \in IisCollectors : c # d /\ iis[c].run = iis[d].run => iis[c].run = 0

ServersOnce ==
    \A c \in IisCollectors :
        /\ iis[c].todo \intersect iis[c].current = {}
        /\ \A x \in staging :
              x.run = iis[c].run => x.server \notin iis[c].todo \union iis[c].current

\* StagedRowsCounted is about rows; sockets do not change as rows age.
Covers(count, sockets) ==
    /\ Cardinality(sockets) <= count
    /\ sockets = {} => count = 0

SocketsCounted ==
    \A r \in RunIds : ~runs[r].done => Covers(runs[r].staged, Sockets(RowsOf(r)))

StagingInv ==
    /\ TypeInv /\ AbsentNotDone
    /\ SocketsUnique /\ RowsHaveRuns /\ WorkersApart /\ ServersOnce /\ SocketsCounted

-----------------------------------------------------------------------------
(* What the steps do to the rows, the runs and the IIS collectors.         *)

\* Every row of the next state is one of before, up to its age and status.
NoNewRows ==
    \A y \in staging' : \E x \in staging : x.run = y.run /\ Socket(x) = Socket(y)

\* The rows a collection commits.
Observed(r, s, observed) ==
    {[run |-> r, server |-> s, ip |-> e, age |-> 0, status |-> "Pending"] : e \in observed}

LEMMA SocketFacts ==
    ASSUME NEW x, NEW y
    PROVE  Socket(x) = Socket(y) <=> x.server = y.server /\ x.ip = y.ip
<1>1. Socket(x).server = x.server /\ Socket(x).ip = x.ip
  BY DEF Socket
<1>2. Socket(y).server = y.server /\ Socket(y).ip = y.ip
  BY DEF Socket
<1>3. x.server = y.server /\ x.ip = y.ip => Socket(x) = Socket(y)
  BY DEF Socket
<1> QED
  BY <1>1, <1>2, <1>3

LEMMA ObservedFacts ==
    ASSUME NEW r, NEW s, NEW observed
    PROVE  /\ \A x \in Observed(r, s, observed) :
                 x.run = r /\ x.server = s /\ x.ip \in observed
           /\ \A x, y \in Observed(r, s, observed) : x.ip = y.ip => x = y
           /\ {Socket(x) : x \in Observed(r, s, observed)}
                 = {[server |-> s, ip |-> e] : e \in observed}
<1> DEFINE row(e) == [run |-> r, server |-> s, ip |-> e, age |-> 0, status |-> "Pending"]
<1>1. \A e : /\ row(e).run = r /\ row(e).server = s /\ row(e).ip = e
             /\ Socket(row(e)) = [server |-> s, ip |-> e]
  BY DEF Socket
<1>2. Observed(r, s, observed) = {row(e) : e \in observed}
  BY DEF Observed
<1> HIDE DEF row
<1> QED
  BY <1>1, <1>2

\* Unchanged rows are no new rows.
LEMMA RowsUnchanged ==
    ASSUME SocketsUnique, UNCHANGED staging
    PROVE  NoNewRows /\ SocketsUnique'
  BY DEF SocketsUnique, NoNewRows, Socket

LEMMA RowsTick ==
    ASSUME TypeInv, SocketsUnique, Tick
    PROVE  NoNewRows /\ SocketsUnique'
<1>0. staging \subseteq StagingRow
  BY DEF TypeInv, TypeOK, DbTypeOK
<1>1. ASSUME NEW y \in staging'
      PROVE  \E x \in staging : /\ y = [x EXCEPT !.age = Older(x.age, MaxSnapshotAge + 1)]
                                /\ x.run = y.run /\ x.server = y.server /\ x.ip = y.ip
  <2>1. PICK x \in staging : y = [x EXCEPT !.age = Older(x.age, MaxSnapshotAge + 1)]
    BY <1>1 DEF Tick
  <2>2. x.run = y.run /\ x.server = y.server /\ x.ip = y.ip
    BY <1>0, <2>1 DEF StagingRow
  <2> QED
    BY <2>1, <2>2
<1>2. NoNewRows
  BY <1>1, SocketFacts DEF NoNewRows
<1>3. ASSUME NEW y \in staging', NEW z \in staging', y.run = z.run, Socket(y) = Socket(z)
      PROVE  y = z
  <2>1. PICK x \in staging : /\ y = [x EXCEPT !.age = Older(x.age, MaxSnapshotAge + 1)]
                             /\ x.run = y.run /\ x.server = y.server /\ x.ip = y.ip
    BY <1>1
  <2>2. PICK u \in staging : /\ z = [u EXCEPT !.age = Older(u.age, MaxSnapshotAge + 1)]
                             /\ u.run = z.run /\ u.server = z.server /\ u.ip = z.ip
    BY <1>1
  <2>3. y.server = z.server /\ y.ip = z.ip
    BY <1>3, SocketFacts
  <2>4. x.run = u.run /\ Socket(x) = Socket(u)
    BY <1>3, <2>1, <2>2, <2>3, SocketFacts
  <2> QED
    BY <2>1, <2>2, <2>4 DEF SocketsUnique
<1> QED
  BY <1>2, <1>3 DEF SocketsUnique

\* A save that marks some of the rows, and removes others, makes no new ones.
LEMMA RowsMarked ==
    ASSUME TypeInv, SocketsUnique,
           NEW R \in SUBSET staging, NEW M \in SUBSET staging, NEW t,
           staging' = {IF x \in M THEN [x EXCEPT !.status = t] ELSE x : x \in R}
    PROVE  NoNewRows /\ SocketsUnique'
<1>0. staging \subseteq StagingRow
  BY DEF TypeInv, TypeOK, DbTypeOK
<1>1. ASSUME NEW y \in staging'
      PROVE  \E x \in staging : /\ y = IF x \in M THEN [x EXCEPT !.status = t] ELSE x
                                /\ x.run = y.run /\ x.server = y.server /\ x.ip = y.ip
  <2>1. PICK x \in R : y = IF x \in M THEN [x EXCEPT !.status = t] ELSE x
    BY <1>1
  <2>2. x.run = y.run /\ x.server = y.server /\ x.ip = y.ip
    BY <1>0, <2>1 DEF StagingRow
  <2> QED
    BY <2>1, <2>2
<1>2. NoNewRows
  BY <1>1, SocketFacts DEF NoNewRows
<1>3. ASSUME NEW y \in staging', NEW z \in staging', y.run = z.run, Socket(y) = Socket(z)
      PROVE  y = z
  <2>1. PICK x \in staging : /\ y = IF x \in M THEN [x EXCEPT !.status = t] ELSE x
                             /\ x.run = y.run /\ x.server = y.server /\ x.ip = y.ip
    BY <1>1
  <2>2. PICK u \in staging : /\ z = IF u \in M THEN [u EXCEPT !.status = t] ELSE u
                             /\ u.run = z.run /\ u.server = z.server /\ u.ip = z.ip
    BY <1>1
  <2>3. y.server = z.server /\ y.ip = z.ip
    BY <1>3, SocketFacts
  <2>4. x.run = u.run /\ Socket(x) = Socket(u)
    BY <1>3, <2>1, <2>2, <2>3, SocketFacts
  <2>5. x = u
    BY <2>4 DEF SocketsUnique
  <2> QED
    BY <2>1, <2>2, <2>5
<1> QED
  BY <1>2, <1>3 DEF SocketsUnique

\* Only an IIS collector that commits a collection makes new rows.
LEMMA RowsStable ==
    ASSUME TypeInv, SocketsUnique, [Next]_vars,
           \A c \in IisCollectors : ~CollectSucceeds(c)
    PROVE  NoNewRows /\ SocketsUnique'
<1>1. ASSUME NEW w \in SqlCollectors, SaveExpired(w) PROVE NoNewRows /\ SocketsUnique'
  <2> DEFINE M == {x \in staging : \E row \in sql[w].rows : IsCopy(w, x, row)}
  <2>1. staging' = {IF x \in M THEN [x EXCEPT !.status = "Expired"] ELSE x : x \in staging}
    BY <1>1 DEF SaveExpired
  <2> HIDE DEF M
  <2>2. M \in SUBSET staging /\ staging \in SUBSET staging
    BY DEF M
  <2> QED
    BY <2>1, <2>2, RowsMarked
<1>2. ASSUME NEW w \in SqlCollectors, SaveResult(w) PROVE NoNewRows /\ SocketsUnique'
  <2> DEFINE M == {x \in staging : \E row \in FailedRows(w) : IsCopy(w, x, row)}
             R == {y \in staging : ~\E row \in RemovedRows(w) : IsCopy(w, y, row)}
  <2>1. staging' = {IF x \in M THEN [x EXCEPT !.status = "Failed"] ELSE x : x \in R}
    BY <1>2 DEF SaveResult
  <2>2. M \in SUBSET staging /\ R \in SUBSET staging
    OBVIOUS
  <2> HIDE DEF M, R
  <2> QED
    BY <2>1, <2>2, RowsMarked
<1>3. ASSUME NEW w \in SqlCollectors, SqlStep(w), ~SaveResult(w), ~SaveExpired(w)
      PROVE  UNCHANGED staging
  <2>1. CASE Requeue(w) \/ NothingQueued(w) \/ PickRun(w) \/ LeaseRun(w) \/ LoadStaging(w)
    BY <2>1 DEF Requeue, NothingQueued, PickRun, LeaseRun, LoadStaging, dbVars
  <2>2. CASE SaveEmpty(w) \/ DeleteInventory(w) \/ EndpointUnknown(w) \/ EndpointMatched(w)
    BY <2>2 DEF SaveEmpty, DeleteInventory, EndpointUnknown, EndpointMatched, dbVars
  <2>3. CASE ReadFailed(w) \/ AggregationFailed(w) \/ AllVisited(w) \/ SaveConflict(w)
    BY <2>3 DEF ReadFailed, AggregationFailed, AllVisited, SaveConflict, dbVars
  <2> QED
    BY <1>3, <2>1, <2>2, <2>3 DEF SqlStep
<1>4. ASSUME NEW w \in SqlCollectors, SqlError(w) \/ SqlCrash(w) \/ SqlRestart(w)
      PROVE  UNCHANGED staging
  BY <1>4 DEF SqlError, SqlCrash, SqlRestart, dbVars
<1>5. ASSUME IisNext PROVE UNCHANGED staging
  <2>1. CASE \E c \in IisCollectors : \/ StartCycle(c) \/ MarkAttempt(c) \/ AttemptConflict(c)
                                     \/ CollectFails(c) \/ CollectConflict(c) \/ PublishRun(c)
    BY <2>1 DEF StartCycle, MarkAttempt, AttemptConflict, CollectFails, CollectConflict,
         PublishRun, dbVars
  <2>2. CASE \E c \in IisCollectors : IisError(c) \/ IisCrash(c) \/ IisRestart(c)
    BY <2>2 DEF IisError, IisCrash, IisRestart, dbVars
  <2>3. CASE \E s \in IisServers : ToggleIisServer(s)
    BY <2>3 DEF ToggleIisServer
  <2> QED
    BY <1>5, <2>1, <2>2, <2>3 DEF IisNext, IisStep
<1>6. ASSUME UNCHANGED vars \/ \E e \in Registered : ToggleSqlServer(e) PROVE UNCHANGED staging
  BY <1>6 DEF vars, dbVars, ToggleSqlServer
<1> QED
  BY <1>1, <1>2, <1>3, <1>4, <1>5, <1>6, RowsTick, RowsUnchanged DEF Next, SqlNext

\* The count of staged sockets is written when a cycle begins and when a
\* collection is committed.
LEMMA StagedStable ==
    ASSUME TypeInv, [Next]_vars,
           \A c \in IisCollectors : ~StartCycle(c) /\ ~CollectSucceeds(c),
           NEW r \in RunIds
    PROVE  runs'[r].staged = runs[r].staged
<1>0. /\ runs \in [RunIds -> Run]
      /\ \A q \in RunIds : DOMAIN runs[q] = {"status", "age", "done", "servers", "ok", "fail",
                                              "staged", "matched", "unmatched"}
  <2>1. runs \in [RunIds -> Run]
    BY DEF TypeInv, TypeOK, DbTypeOK
  <2> QED
    BY <2>1 DEF Run
<1>1. ASSUME NEW c \in IisCollectors, CollectFails(c) PROVE runs'[r].staged = runs[r].staged
  <2>1. runs' = [runs EXCEPT ![iis[c].run].fail = @ + 1]
    BY <1>1 DEF CollectFails
  <2> QED
    BY <1>0, <2>1
<1>2. ASSUME NEW c \in IisCollectors, PublishRun(c) PROVE runs'[r].staged = runs[r].staged
  <2> DEFINE t == PublishedStatus(runs[iis[c].run])
  <2>1. runs' = [runs EXCEPT ![iis[c].run].status = t, ![iis[c].run].done = @ \/ t = "Failed"]
    BY <1>2 DEF PublishRun
  <2> HIDE DEF t
  <2> QED
    BY <1>0, <2>1
<1>3. ASSUME NEW w \in SqlCollectors, Requeue(w) PROVE runs'[r].staged = runs[r].staged
  <2>1. runs'[r] = runs[r] \/ runs'[r] = [runs[r] EXCEPT !.status = "ReadyForSql"]
    BY <1>3 DEF Requeue
  <2> QED
    BY <1>0, <2>1
<1>4. ASSUME NEW w \in SqlCollectors, LeaseRun(w) PROVE runs'[r].staged = runs[r].staged
  <2>1. runs' = [runs EXCEPT ![sql[w].run].status = "ProcessingSql"]
    BY <1>4 DEF LeaseRun
  <2> QED
    BY <1>0, <2>1
<1>5. ASSUME NEW w \in SqlCollectors, SaveEmpty(w) \/ SaveExpired(w)
      PROVE  runs'[r].staged = runs[r].staged
  <2>1. PICK t \in {"Completed", "Expired"} :
           runs' = [runs EXCEPT ![sql[w].run].status = t, ![sql[w].run].done = TRUE]
    BY <1>5 DEF SaveEmpty, SaveExpired
  <2> QED
    BY <1>0, <2>1
<1>6. ASSUME NEW w \in SqlCollectors, SaveResult(w) PROVE runs'[r].staged = runs[r].staged
  <2> DEFINE t == IF FailedRows(w) = {} THEN "Completed" ELSE "Failed"
             m(n) == Written(n, sql[w].counted.matched, sql[w].matched)
             u(n) == Written(n, sql[w].counted.unmatched, sql[w].unmatched)
  <2>1. runs' = [runs EXCEPT ![sql[w].run].status = t, ![sql[w].run].done = TRUE,
                     ![sql[w].run].matched = m(@), ![sql[w].run].unmatched = u(@)]
    BY <1>6 DEF SaveResult
  <2> HIDE DEF t, m, u
  <2> QED
    BY <1>0, <2>1
<1>7. ASSUME Tick PROVE runs'[r].staged = runs[r].staged
  <2>1. runs'[r] = runs[r] \/ runs'[r] = [runs[r] EXCEPT !.age = Older(runs[r].age, LeaseAge + 1)]
    BY <1>7 DEF Tick
  <2> QED
    BY <1>0, <2>1
<1>8. ASSUME NEW c \in IisCollectors,
             \/ MarkAttempt(c) \/ AttemptConflict(c) \/ CollectConflict(c)
             \/ IisError(c) \/ IisCrash(c) \/ IisRestart(c)
      PROVE  UNCHANGED runs
  BY <1>8 DEF MarkAttempt, AttemptConflict, CollectConflict, IisError, IisCrash, IisRestart, dbVars
<1>9. ASSUME NEW w \in SqlCollectors,
             \/ NothingQueued(w) \/ PickRun(w) \/ LoadStaging(w) \/ EndpointUnknown(w)
             \/ EndpointMatched(w) \/ ReadFailed(w) \/ AggregationFailed(w) \/ AllVisited(w)
             \/ DeleteInventory(w) \/ SaveConflict(w)
             \/ SqlError(w) \/ SqlCrash(w) \/ SqlRestart(w)
      PROVE  UNCHANGED runs
  BY <1>9 DEF NothingQueued, PickRun, LoadStaging, EndpointUnknown, EndpointMatched,
     ReadFailed, AggregationFailed, AllVisited, DeleteInventory, SaveConflict,
     SqlError, SqlCrash, SqlRestart, dbVars
<1>10. ASSUME \/ \E s \in IisServers : ToggleIisServer(s)
              \/ \E e \in Registered : ToggleSqlServer(e)
              \/ UNCHANGED vars
       PROVE  UNCHANGED runs
  BY <1>10 DEF ToggleIisServer, ToggleSqlServer, vars, dbVars
<1> QED
  BY <1>1, <1>2, <1>3, <1>4, <1>5, <1>6, <1>7, <1>8, <1>9, <1>10
     DEF Next, IisNext, IisStep, SqlNext, SqlStep

\* Between the beginnings of its cycles an IIS collector keeps its run or gives
\* it up, and comes to no other servers.
WorkShrinks(d) ==
    /\ iis'[d].run \in {iis[d].run, 0}
    /\ iis'[d].todo \union iis'[d].current \subseteq iis[d].todo \union iis[d].current
    /\ iis'[d].todo \intersect iis'[d].current = {}

LEMMA WorkStable ==
    ASSUME TypeInv, ServersOnce, [Next]_vars,
           \A c \in IisCollectors : ~StartCycle(c),
           NEW d \in IisCollectors
    PROVE  WorkShrinks(d)
<1>0. IisTypeOK /\ iis \in [IisCollectors -> IisWorker]
  BY DEF TypeInv, TypeOK, IisTypeOK
<1>1. iis[d].todo \intersect iis[d].current = {}
  BY DEF ServersOnce
<1>2. ASSUME iis'[d] \in {iis[d], IisIdle, IisDown} PROVE WorkShrinks(d)
  BY <1>1, <1>2 DEF WorkShrinks, IisIdle, IisDown
<1>3. ASSUME NEW c \in IisCollectors, MarkAttempt(c) PROVE WorkShrinks(d)
  <2>1. PICK s \in iis[c].todo \ iis[c].stale :
           iis' = [Overwritten(s, IisCollectors \ {c}) EXCEPT
                      ![c].pc = "Collect", ![c].todo = @ \ {s}, ![c].current = {s}]
    BY <1>3 DEF MarkAttempt
  <2>2. s \in IisServers
    BY <1>0, <2>1 DEF IisWorker
  <2> DEFINE O == Overwritten(s, IisCollectors \ {c})
  <2>3. /\ O \in [IisCollectors -> IisWorker]
        /\ \A e \in IisCollectors : /\ O[e].run = iis[e].run
                                    /\ O[e].todo = iis[e].todo
                                    /\ O[e].current = iis[e].current
    BY <1>0, <2>2, OverwrittenFacts
  <2> HIDE DEF O
  <2>4. iis' = [O EXCEPT ![c].pc = "Collect", ![c].todo = @ \ {s}, ![c].current = {s}]
    BY <2>1 DEF O
  <2>5. CASE d = c
    <3>1. /\ iis'[d].run = iis[d].run /\ iis'[d].todo = iis[d].todo \ {s}
          /\ iis'[d].current = {s}
      BY <2>3, <2>4, <2>5 DEF IisWorker
    <3> QED
      BY <2>1, <2>5, <3>1 DEF WorkShrinks
  <2>6. CASE d # c
    <3>1. iis'[d] = O[d]
      BY <2>3, <2>4, <2>6
    <3> QED
      BY <1>1, <2>3, <3>1 DEF WorkShrinks
  <2> QED
    BY <2>5, <2>6
<1>4. ASSUME NEW c \in IisCollectors, CollectSucceeds(c) \/ CollectFails(c) PROVE WorkShrinks(d)
  <2>1. PICK s \in iis[c].current :
           iis' = [Overwritten(s, IisCollectors \ {c}) EXCEPT
                      ![c].pc = "Attempt", ![c].current = {}]
    BY <1>4 DEF CollectSucceeds, CollectFails
  <2>2. s \in IisServers
    BY <1>0, <2>1 DEF IisWorker
  <2> DEFINE O == Overwritten(s, IisCollectors \ {c})
  <2>3. /\ O \in [IisCollectors -> IisWorker]
        /\ \A e \in IisCollectors : /\ O[e].run = iis[e].run
                                    /\ O[e].todo = iis[e].todo
                                    /\ O[e].current = iis[e].current
    BY <1>0, <2>2, OverwrittenFacts
  <2> HIDE DEF O
  <2>4. iis' = [O EXCEPT ![c].pc = "Attempt", ![c].current = {}]
    BY <2>1 DEF O
  <2>5. CASE d = c
    <3>1. iis'[d].run = iis[d].run /\ iis'[d].todo = iis[d].todo /\ iis'[d].current = {}
      BY <2>3, <2>4, <2>5 DEF IisWorker
    <3> QED
      BY <3>1 DEF WorkShrinks
  <2>6. CASE d # c
    <3>1. iis'[d] = O[d]
      BY <2>3, <2>4, <2>6
    <3> QED
      BY <1>1, <2>3, <3>1 DEF WorkShrinks
  <2> QED
    BY <2>5, <2>6
<1>5. ASSUME NEW c \in IisCollectors,
             \/ AttemptConflict(c) \/ CollectConflict(c) \/ PublishRun(c)
             \/ IisError(c) \/ IisCrash(c) \/ IisRestart(c)
      PROVE  WorkShrinks(d)
  <2>1. iis' = [iis EXCEPT ![c] = IisIdle] \/ iis' = [iis EXCEPT ![c] = IisDown]
    BY <1>5 DEF AttemptConflict, CollectConflict, PublishRun, IisError, IisCrash, IisRestart
  <2>2. iis'[d] \in {iis[d], IisIdle, IisDown}
    BY <1>0, <2>1
  <2> QED
    BY <1>2, <2>2
<1>6. ASSUME NEW s \in IisServers, ToggleIisServer(s) PROVE WorkShrinks(d)
  <2>1. iis' = Overwritten(s, IisCollectors)
    BY <1>6 DEF ToggleIisServer
  <2>2. iis'[d].run = iis[d].run /\ iis'[d].todo = iis[d].todo /\ iis'[d].current = iis[d].current
    BY <1>0, <2>1, OverwrittenFacts
  <2> QED
    BY <1>1, <2>2 DEF WorkShrinks
<1>7. ASSUME UNCHANGED iis PROVE WorkShrinks(d)
  BY <1>2, <1>7
<1> QED
  BY <1>3, <1>4, <1>5, <1>6, <1>7 DEF Next, IisNext, IisStep, vars

-----------------------------------------------------------------------------
(* The steps keep the invariant.                                           *)

\* A collection adds as many sockets as it has observed.
LEMMA SocketsAdded ==
    ASSUME NEW s \in IisServers, NEW observed \in SUBSET Endpoints, NEW old \in SUBSET SocketId,
           \A k \in old : k.server # s
    PROVE  LET new == {[server |-> s, ip |-> e] : e \in observed}
           IN  Cardinality(old \union new) = Cardinality(old) + Cardinality(observed)
<1> DEFINE new == {[server |-> s, ip |-> e] : e \in observed}
           f == [e \in observed |-> [server |-> s, ip |-> e]]
<1>1. IsFiniteSet(old) /\ IsFiniteSet(observed)
  BY SocketIdFinite, EndpointsAssumption, FS_Subset
<1>2. f \in Bijection(observed, new)
  <2>1. f \in [observed -> new]
    OBVIOUS
  <2>2. \A k \in new : \E e \in observed : f[e] = k
    OBVIOUS
  <2>3. ASSUME NEW d \in observed, NEW e \in observed, f[d] = f[e] PROVE d = e
    <3>1. f[d].ip = d /\ f[e].ip = e
      OBVIOUS
    <3> HIDE DEF f
    <3> QED
      BY <2>3, <3>1
  <2> HIDE DEF f, new
  <2> QED
    BY <2>1, <2>2, <2>3 DEF Bijection, Injection, Surjection, IsInjective
<1>3. IsFiniteSet(new) /\ Cardinality(new) = Cardinality(observed)
  <2> HIDE DEF new, f
  <2> QED
    BY <1>1, <1>2, FS_Bijection DEF ExistsBijection
<1>4. old \intersect new = {}
  <2>1. \A k \in new : k.server = s
    OBVIOUS
  <2> HIDE DEF new
  <2> QED
    BY <2>1
<1> HIDE DEF new
<1> HIDE DEF f
<1>5. Cardinality(old \union new) = Cardinality(old) + Cardinality(new) - Cardinality(old \intersect new)
  BY <1>1, <1>3, FS_Union
<1>6. Cardinality(old) \in Nat /\ Cardinality(new) \in Nat
  BY <1>1, <1>3, FS_CardinalityType
<1>7. Cardinality(old \intersect new) = 0
  BY <1>4, FS_EmptySet
<1>8. Cardinality(old \union new) = Cardinality(old) + Cardinality(new)
  BY <1>5, <1>6, <1>7
<1> QED
  BY <1>3, <1>8 DEF new

\* Runs that exist go on existing; those that are open were open before.
LEMMA RunsKept ==
    ASSUME TypeInv, AbsentNotDone, [Next]_vars, NEW r \in RunIds
    PROVE  /\ runs[r].status # "Absent" => runs'[r].status # "Absent"
           /\ ~runs'[r].done => ~runs[r].done
           /\ runs'[r].status = "Absent" => ~runs'[r].done
  BY RunsStep DEF RunKept, AbsentNotDone

\* The step of a cycle that begins.
LEMMA StartKeeps ==
    ASSUME StagingInv, [Next]_vars, NEW c \in IisCollectors, StartCycle(c)
    PROVE  StagingInv'
<1>1. PICK r \in RunIds :
         /\ runs[r].status = "Absent"
         /\ runs' = [runs EXCEPT ![r] =
                [NoRun EXCEPT !.status = "PendingIis", !.servers = Cardinality(Due)]]
         /\ iis' = [iis EXCEPT ![c] =
                [IisIdle EXCEPT !.pc = "Attempt", !.run = r, !.todo = Due]]
  BY DEF StartCycle
<1>2. /\ TypeInv /\ TypeInv' /\ runs \in [RunIds -> Run] /\ staging \subseteq StagingRow
      /\ iis \in [IisCollectors -> IisWorker] /\ UNCHANGED staging
  BY TypeStep DEF StagingInv, TypeInv, TypeOK, DbTypeOK, IisTypeOK, StartCycle
<1>3. /\ iis'[c].run = r /\ iis'[c].current = {}
      /\ \A d \in IisCollectors : d # c => iis'[d] = iis[d]
  BY <1>1, <1>2 DEF IisIdle
<1>4. /\ runs'[r].status # "Absent" /\ runs'[r].staged = 0
      /\ \A q \in RunIds : q # r => runs'[q] = runs[q]
  BY <1>1, <1>2 DEF NoRun
<1>5. \A x \in staging : x.run # r
  BY <1>1 DEF StagingInv, RowsHaveRuns
<1>6. r # 0 /\ 0 \notin RunIds
  BY BoundsAssumption DEF RunIds
<1>7. \A q \in RunIds : /\ runs[q].status # "Absent" => runs'[q].status # "Absent"
                        /\ ~runs'[q].done => ~runs[q].done
                        /\ runs'[q].status = "Absent" => ~runs'[q].done
  BY <1>2, RunsKept DEF StagingInv
<1>8. AbsentNotDone'
  BY <1>7 DEF AbsentNotDone
<1>9. SocketsUnique'
  BY <1>2, RowsUnchanged DEF StagingInv
<1>10. RowsHaveRuns'
  BY <1>2, <1>7 DEF StagingInv, RowsHaveRuns, StagingRow
<1>11. WorkersApart'
  <2>1. ASSUME NEW d \in IisCollectors, d # c, iis[d].run # 0
        PROVE  runs[iis[d].run].status # "Absent" /\ iis[d].run \in RunIds
    BY <1>2, <2>1 DEF StagingInv, WorkersApart, IisWorker
  <2>2. ASSUME NEW d \in IisCollectors, iis'[d].run # 0 PROVE runs'[iis'[d].run].status # "Absent"
    BY <1>3, <1>4, <1>7, <2>1, <2>2
  <2>3. ASSUME NEW d \in IisCollectors, NEW e \in IisCollectors, d # e, iis'[d].run = iis'[e].run
        PROVE  iis'[d].run = 0
    <3>1. CASE d = c \/ e = c
      BY <1>1, <1>3, <1>6, <2>1, <2>3, <3>1
    <3>2. CASE d # c /\ e # c
      BY <1>3, <2>3, <3>2 DEF StagingInv, WorkersApart
    <3> QED
      BY <3>1, <3>2
  <2> QED
    BY <2>2, <2>3 DEF WorkersApart
<1>12. ServersOnce'
  BY <1>2, <1>3, <1>5 DEF StagingInv, ServersOnce
<1>13. SocketsCounted'
  <2>1. ASSUME NEW q \in RunIds, ~runs'[q].done
        PROVE  Covers(runs'[q].staged, Sockets(RowsOf(q))')
    <3>1. Sockets(RowsOf(q))' = Sockets(RowsOf(q))
      BY <1>2 DEF Sockets, RowsOf, Socket
    <3>2. CASE q = r
      <4>1. Sockets(RowsOf(q)) = {}
        BY <1>5, <3>2 DEF Sockets, RowsOf
      <4>2. runs'[q].staged = 0 /\ Cardinality({}) = 0
        BY <1>4, <3>2, FS_EmptySet
      <4> QED
        BY <3>1, <4>1, <4>2 DEF Covers
    <3>3. CASE q # r
      BY <1>4, <1>7, <2>1, <3>1, <3>3 DEF StagingInv, SocketsCounted
    <3> QED
      BY <3>2, <3>3
  <2> QED
    BY <2>1 DEF SocketsCounted, Covers
<1> QED
  BY <1>2, <1>8, <1>9, <1>10, <1>11, <1>12, <1>13 DEF StagingInv

\* The step that commits a collection.
LEMMA CollectKeeps ==
    ASSUME StagingInv, [Next]_vars, NEW c \in IisCollectors, CollectSucceeds(c)
    PROVE  StagingInv'
<1>0. PICK s \in iis[c].current, observed \in SUBSET Endpoints : \E listed \in ListLengths(observed) :
         /\ staging' = staging \union Observed(iis[c].run, s, observed)
         /\ runs' = [runs EXCEPT
                ![iis[c].run].ok = @ + 1,
                ![iis[c].run].staged = @ + listed]
         /\ iis' = [Overwritten(s, IisCollectors \ {c}) EXCEPT
                ![c].pc = "Attempt", ![c].current = {}]
  BY DEF CollectSucceeds, Observed
<1>1. PICK listed \in ListLengths(observed) :
         /\ staging' = staging \union Observed(iis[c].run, s, observed)
         /\ runs' = [runs EXCEPT
                ![iis[c].run].ok = @ + 1,
                ![iis[c].run].staged = @ + listed]
         /\ iis' = [Overwritten(s, IisCollectors \ {c}) EXCEPT
                ![c].pc = "Attempt", ![c].current = {}]
  BY <1>0
<1> DEFINE r == iis[c].run
           new == Observed(r, s, observed)
<1>2. /\ TypeInv /\ TypeInv' /\ runs \in [RunIds -> Run] /\ staging \subseteq StagingRow
      /\ iis \in [IisCollectors -> IisWorker]
  BY TypeStep DEF StagingInv, TypeInv, TypeOK, DbTypeOK, IisTypeOK
<1>3. r \in RunIds /\ r # 0 /\ 0 \notin RunIds /\ s \in IisServers
  <2>1. r \in RunIds
    BY <1>2 DEF TypeInv, WorkersHaveRuns, CollectSucceeds
  <2> HIDE DEF r
  <2> QED
    BY <1>1, <1>2, <2>1, BoundsAssumption DEF RunIds, IisWorker
<1>4. \A d \in IisCollectors : WorkShrinks(d)
  <2>1. \A d \in IisCollectors : ~StartCycle(d)
    <3>1. ASSUME NEW d \in IisCollectors, StartCycle(d) PROVE FALSE
      <4>1. staging' = staging
        BY <3>1 DEF StartCycle
      <4>2. iisServers' = iisServers /\ iisServers'[s].status = iisServers[s].status
        BY <3>1 DEF StartCycle
      <4>3. iis'[c].pc = "Attempt" /\ iis[c].pc = "Collect" /\ c # d
        BY <1>1, <1>2, <1>3, <3>1, OverwrittenFacts DEF CollectSucceeds, StartCycle, TypeInv, TypeOK
      <4>4. iis'[c] = iis[c]
        BY <1>2, <3>1, <4>3 DEF StartCycle
      <4> QED
        BY <4>3, <4>4
    <3> QED
      BY <3>1
  <2> QED
    BY <1>2, <2>1, WorkStable DEF StagingInv
<1>5. /\ \A x \in new : x.run = r /\ x.server = s
      /\ \A x, y \in new : x.ip = y.ip => x = y
      /\ {Socket(x) : x \in new} = {[server |-> s, ip |-> e] : e \in observed}
  BY ObservedFacts
<1>6. staging' = staging \union new
  BY <1>1
<1> HIDE DEF new, r
<1>7. \A x \in staging : x.run = r => x.server # s
  BY <1>1 DEF StagingInv, ServersOnce, r
<1>8. \A q \in RunIds : /\ runs[q].status # "Absent" => runs'[q].status # "Absent"
                        /\ ~runs'[q].done => ~runs[q].done
                        /\ runs'[q].status = "Absent" => ~runs'[q].done
  BY <1>2, RunsKept DEF StagingInv
<1>9. AbsentNotDone'
  BY <1>8 DEF AbsentNotDone
<1>10. SocketsUnique'
  <2>1. ASSUME NEW x \in staging', NEW y \in staging', x.run = y.run, Socket(x) = Socket(y)
        PROVE  x = y
    <3>1. x.server = y.server /\ x.ip = y.ip
      BY <2>1, SocketFacts
    <3>2. CASE x \in staging /\ y \in staging
      BY <2>1, <3>2 DEF StagingInv, SocketsUnique
    <3>3. CASE x \in new /\ y \in new
      BY <1>5, <3>1, <3>3
    <3> QED
      BY <1>5, <1>6, <1>7, <2>1, <3>1, <3>2, <3>3
  <2> QED
    BY <2>1 DEF SocketsUnique, Socket
<1>11. RowsHaveRuns'
  <2>1. runs[r].status # "Absent"
    BY <1>3 DEF StagingInv, WorkersApart, r
  <2>2. \A x \in staging : x.run \in RunIds /\ runs[x.run].status # "Absent"
    BY <1>2 DEF StagingInv, RowsHaveRuns, StagingRow
  <2> QED
    BY <1>3, <1>5, <1>6, <1>8, <2>1, <2>2 DEF RowsHaveRuns
<1>12. WorkersApart'
  <2>1. ASSUME NEW d \in IisCollectors, iis'[d].run # 0 PROVE runs'[iis'[d].run].status # "Absent"
    <3>1. iis'[d].run = iis[d].run /\ iis[d].run \in RunIds
      BY <1>2, <1>4, <2>1 DEF WorkShrinks, IisWorker
    <3> QED
      BY <1>8, <2>1, <3>1 DEF StagingInv, WorkersApart
  <2>2. ASSUME NEW d \in IisCollectors, NEW e \in IisCollectors, d # e, iis'[d].run = iis'[e].run
        PROVE  iis'[d].run = 0
    BY <1>4, <2>2 DEF WorkShrinks, StagingInv, WorkersApart
  <2> QED
    BY <2>1, <2>2 DEF WorkersApart
<1>13. ServersOnce'
  <2>1. ASSUME NEW d \in IisCollectors, NEW x \in staging', x.run = iis'[d].run
        PROVE  x.server \notin iis'[d].todo \union iis'[d].current
    <3>1. x.run \in RunIds
      BY <1>2, <1>3, <1>5, <1>6 DEF StagingRow
    <3>2. iis'[d].run = iis[d].run
      BY <1>3, <1>4, <2>1, <3>1 DEF WorkShrinks
    <3>3. CASE x \in staging
      BY <1>4, <2>1, <3>2, <3>3 DEF WorkShrinks, StagingInv, ServersOnce
    <3>4. CASE x \in new
      <4>1. d = c
        BY <1>3, <1>5, <2>1, <3>2, <3>4 DEF StagingInv, WorkersApart, r
      <4>2. iis'[c].current = {} /\ iis'[c].todo = iis[c].todo
        BY <1>1, <1>2, <1>3, OverwrittenFacts DEF IisWorker, TypeInv, TypeOK
      <4>3. s \notin iis[c].todo
        BY <1>1 DEF StagingInv, ServersOnce
      <4> QED
        BY <1>5, <3>4, <4>1, <4>2, <4>3
    <3> QED
      BY <1>6, <3>3, <3>4
  <2> QED
    BY <1>4, <2>1 DEF WorkShrinks, ServersOnce
<1>14. SocketsCounted'
  <2>1. ASSUME NEW q \in RunIds, ~runs'[q].done
        PROVE  Covers(runs'[q].staged, Sockets(RowsOf(q))')
    <3>1. Covers(runs[q].staged, Sockets(RowsOf(q)))
      BY <1>8, <2>1 DEF StagingInv, SocketsCounted
    <3>2. CASE q # r
      <4>1. runs'[q].staged = runs[q].staged
        BY <1>1, <1>2, <3>2 DEF r, Run
      <4>2. {x \in staging' : x.run = q} = {x \in staging : x.run = q}
        BY <1>5, <1>6, <3>2
      <4>3. Sockets(RowsOf(q))' = Sockets(RowsOf(q))
        BY <4>2 DEF Sockets, RowsOf, Socket
      <4> QED
        BY <3>1, <4>1, <4>3
    <3>3. CASE q = r
      <4> DEFINE old == Sockets(RowsOf(q))
                 added == {[server |-> s, ip |-> e] : e \in observed}
      <4>1. Sockets(RowsOf(q))' = old \union added
        <5>1. {x \in staging' : x.run = q} = {x \in staging : x.run = q} \union new
          BY <1>5, <1>6, <3>3
        <5>2. Sockets(RowsOf(q))' = {Socket(x) : x \in {y \in staging' : y.run = q}}
          BY DEF Sockets, RowsOf, Socket
        <5>3. old = {Socket(x) : x \in {y \in staging : y.run = q}}
          BY DEF Sockets, RowsOf
        <5> HIDE DEF old, added
        <5>4. Sockets(RowsOf(q))' = old \union {Socket(x) : x \in new}
          BY <5>1, <5>2, <5>3
        <5> QED
          BY <1>5, <5>4 DEF added
      <4>2. old \in SUBSET SocketId /\ \A k \in old : k.server # s
        BY <1>2, <1>7, <3>3 DEF Sockets, RowsOf, Socket, SocketId, StagingRow
      <4>3. Cardinality(old \union added) = Cardinality(old) + Cardinality(observed)
        <5> HIDE DEF old
        <5> QED
          BY <1>3, <4>2, SocketsAdded
      <4>4. runs'[q].staged = runs[q].staged + listed
        BY <1>1, <1>2, <3>3 DEF r, Run
      <4>5. /\ Cardinality(observed) \in Nat /\ listed \in Nat /\ runs[q].staged \in Nat
            /\ Cardinality(old) \in Nat
        <5>1. IsFiniteSet(old)
          BY <4>2, SocketIdFinite, FS_Subset
        <5>2. Cardinality(old) \in Nat
          BY <5>1, FS_CardinalityType
        <5> QED
          BY <1>2, <5>2, ListFacts, SubsetCounts DEF Run
      <4>6. Cardinality(old) <= runs[q].staged /\ (old = {} => runs[q].staged = 0)
        BY <3>1 DEF Covers
      <4> HIDE DEF old
      <4>7. Cardinality(old \union added) <= runs'[q].staged
        BY <4>3, <4>4, <4>5, <4>6, ListFacts
      <4>8. ASSUME old \union added = {} PROVE runs'[q].staged = 0
        <5>1. old = {} /\ observed = {}
          BY <4>8
        <5>2. listed = 0
          BY <5>1, ListFacts
        <5> QED
          BY <4>4, <4>5, <4>6, <5>1, <5>2
      <4> HIDE DEF added
      <4> QED
        BY <4>1, <4>7, <4>8 DEF Covers
    <3> QED
      BY <3>2, <3>3
  <2> QED
    BY <2>1 DEF SocketsCounted, Covers
<1> QED
  BY <1>2, <1>9, <1>10, <1>11, <1>12, <1>13, <1>14 DEF StagingInv

\* All other steps, of either collector and of the administrators.
LEMMA OthersKeep ==
    ASSUME StagingInv, [Next]_vars,
           \A c \in IisCollectors : ~StartCycle(c) /\ ~CollectSucceeds(c)
    PROVE  StagingInv'
<1>1. /\ TypeInv /\ TypeInv' /\ runs \in [RunIds -> Run] /\ staging' \subseteq StagingRow
      /\ staging \subseteq StagingRow /\ iis \in [IisCollectors -> IisWorker]
  BY TypeStep DEF StagingInv, TypeInv, TypeOK, DbTypeOK, IisTypeOK
<1>2. NoNewRows /\ SocketsUnique'
  BY <1>1, RowsStable DEF StagingInv
<1>3. \A d \in IisCollectors : WorkShrinks(d)
  BY <1>1, WorkStable DEF StagingInv
<1>4. \A q \in RunIds : /\ runs[q].status # "Absent" => runs'[q].status # "Absent"
                        /\ ~runs'[q].done => ~runs[q].done
                        /\ runs'[q].status = "Absent" => ~runs'[q].done
  BY <1>1, RunsKept DEF StagingInv
<1>5. \A y \in staging' : \E x \in staging : /\ x.run = y.run /\ x.server = y.server
                                           /\ x.run \in RunIds
  BY <1>1, <1>2, SocketFacts DEF NoNewRows, StagingRow
<1>6. 0 \notin RunIds
  BY BoundsAssumption DEF RunIds
<1>7. AbsentNotDone'
  BY <1>4 DEF AbsentNotDone
<1>8. RowsHaveRuns'
  BY <1>4, <1>5 DEF StagingInv, RowsHaveRuns
<1>9. WorkersApart'
  <2>1. ASSUME NEW d \in IisCollectors, iis'[d].run # 0 PROVE runs'[iis'[d].run].status # "Absent"
    <3>1. iis'[d].run = iis[d].run /\ iis[d].run \in RunIds
      BY <1>1, <1>3, <2>1 DEF WorkShrinks, IisWorker
    <3> QED
      BY <1>4, <2>1, <3>1 DEF StagingInv, WorkersApart
  <2>2. ASSUME NEW d \in IisCollectors, NEW e \in IisCollectors, d # e, iis'[d].run = iis'[e].run
        PROVE  iis'[d].run = 0
    BY <1>3, <2>2 DEF WorkShrinks, StagingInv, WorkersApart
  <2> QED
    BY <2>1, <2>2 DEF WorkersApart
<1>10. ServersOnce'
  <2>1. ASSUME NEW d \in IisCollectors, NEW y \in staging', y.run = iis'[d].run
        PROVE  y.server \notin iis'[d].todo \union iis'[d].current
    <3>1. PICK x \in staging : x.run = y.run /\ x.server = y.server /\ x.run \in RunIds
      BY <1>5
    <3>2. iis'[d].run = iis[d].run
      BY <1>3, <1>6, <2>1, <3>1 DEF WorkShrinks
    <3> QED
      BY <1>3, <2>1, <3>1, <3>2 DEF WorkShrinks, StagingInv, ServersOnce
  <2> QED
    BY <1>3, <2>1 DEF WorkShrinks, ServersOnce
<1>11. SocketsCounted'
  <2>1. ASSUME NEW q \in RunIds, ~runs'[q].done
        PROVE  Covers(runs'[q].staged, Sockets(RowsOf(q))')
    <3>1. Covers(runs[q].staged, Sockets(RowsOf(q)))
      BY <1>4, <2>1 DEF StagingInv, SocketsCounted
    <3>2. runs'[q].staged = runs[q].staged
      BY <1>1, StagedStable
    <3>3. ASSUME NEW k \in Sockets(RowsOf(q)) PROVE k \in Sockets(RowsOf(q))'
      <4>1. PICK x \in staging : x.run = q /\ k = Socket(x)
        BY DEF Sockets, RowsOf
      <4>2. PICK y \in staging' : y.run = q /\ Socket(y) = Socket(x)
        BY <1>1, <2>1, <4>1, RowsStep DEF RowsKept
      <4> QED
        BY <4>1, <4>2 DEF Sockets, RowsOf, Socket
    <3>4. ASSUME NEW k \in Sockets(RowsOf(q))' PROVE k \in Sockets(RowsOf(q))
      <4>1. PICK y \in staging' : y.run = q /\ k = Socket(y)
        BY DEF Sockets, RowsOf, Socket
      <4>2. PICK x \in staging : x.run = q /\ Socket(x) = Socket(y)
        BY <1>2, <4>1 DEF NoNewRows
      <4> QED
        BY <4>1, <4>2 DEF Sockets, RowsOf, Socket
    <3>5. Sockets(RowsOf(q))' = Sockets(RowsOf(q))
      BY <3>3, <3>4
    <3> QED
      BY <3>1, <3>2, <3>5
  <2> QED
    BY <2>1 DEF SocketsCounted, Covers
<1> QED
  BY <1>1, <1>2, <1>7, <1>8, <1>9, <1>10, <1>11 DEF StagingInv

LEMMA StagingStart == Init => StagingInv
<1> SUFFICES ASSUME Init PROVE StagingInv
  OBVIOUS
<1>1. AbsentNotDone /\ SocketsUnique /\ RowsHaveRuns
  BY DEF Init, DbInit, NoRun, AbsentNotDone, SocketsUnique, RowsHaveRuns
<1>2. WorkersApart /\ ServersOnce
  BY DEF Init, DbInit, IisInit, IisIdle, WorkersApart, ServersOnce
<1>3. SocketsCounted
  <2>1. \A r \in RunIds : Sockets(RowsOf(r)) = {} /\ runs[r].staged = 0
    BY DEF Init, DbInit, NoRun, Sockets, RowsOf
  <2> QED
    BY <2>1, FS_EmptySet DEF SocketsCounted, Covers
<1> QED
  BY <1>1, <1>2, <1>3, TypeStart DEF StagingInv

\* A run has as many rows as sockets.
LEMMA RowsAreSockets ==
    ASSUME StagingInv, NEW r \in RunIds
    PROVE  /\ IsFiniteSet(RowsOf(r)) /\ IsFiniteSet(Sockets(RowsOf(r)))
           /\ Cardinality(RowsOf(r)) = Cardinality(Sockets(RowsOf(r)))
<1> DEFINE rows == RowsOf(r)
           f == [x \in rows |-> Socket(x)]
<1>1. IsFiniteSet(Sockets(rows))
  <2>1. Sockets(rows) \subseteq SocketId
    BY DEF StagingInv, TypeInv, TypeOK, DbTypeOK, StagingRow, Sockets, RowsOf, Socket, SocketId
  <2> QED
    BY <2>1, SocketIdFinite, FS_Subset
<1>2. f \in Bijection(rows, Sockets(rows))
  <2>1. f \in [rows -> Sockets(rows)]
    BY DEF Sockets
  <2>2. \A k \in Sockets(rows) : \E x \in rows : f[x] = k
    BY DEF Sockets
  <2>3. \A x, y \in rows : f[x] = f[y] => x = y
    BY DEF StagingInv, SocketsUnique, RowsOf
  <2> HIDE DEF f, rows
  <2> QED
    BY <2>1, <2>2, <2>3 DEF Bijection, Injection, Surjection, IsInjective
<1>3. IsFiniteSet(rows) /\ Cardinality(rows) = Cardinality(Sockets(rows))
  <2> HIDE DEF f, rows
  <2>1. \E g : g \in Bijection(Sockets(rows), rows)
    BY <1>2, Fun_BijInverse
  <2> QED
    BY <1>1, <2>1, FS_Bijection DEF ExistsBijection
<1> QED
  BY <1>1, <1>3

LEMMA StagingCounts == StagingInv => StagedRowsCounted
<1> SUFFICES ASSUME StagingInv, NEW r \in RunIds, ~runs[r].done
             PROVE  /\ Cardinality(RowsOf(r)) <= runs[r].staged
                    /\ RowsOf(r) = {} => runs[r].staged = 0
  BY DEF StagedRowsCounted
<1>1. Covers(runs[r].staged, Sockets(RowsOf(r)))
  BY DEF StagingInv, SocketsCounted
<1>2. RowsOf(r) = {} => Sockets(RowsOf(r)) = {}
  BY DEF Sockets
<1> QED
  BY <1>1, <1>2, RowsAreSockets DEF Covers

\* As long as a run is open its rows are no more than its IIS collector counted,
\* and they have not all gone: with any number of collectors of both kinds,
\* duplicates in the lists, crashes, conflicts and retries.
THEOREM StagedSocketsAreCounted == Spec => []StagedRowsCounted
<1>1. Init => StagingInv
  BY StagingStart
<1>2. StagingInv /\ [Next]_vars => StagingInv'
  BY StartKeeps, CollectKeeps, OthersKeep
<1>3. StagingInv => StagedRowsCounted
  BY StagingCounts
<1> QED
  BY <1>1, <1>2, <1>3, PTL DEF Spec
=============================================================================
