------------------------ MODULE SingleCollectorProofs -------------------------
(***************************************************************************)
(* What a finished run says about its sockets and its inventory is exact   *)
(* when there is one SQL collector, for any number of IIS collectors,      *)
(* servers, endpoints, runs and faults.                                    *)
(***************************************************************************)
EXTENDS CollectionPipelineProofs

\* The deployment of the guide.
OneCollector == \A v, w \in SqlCollectors : v = w

-----------------------------------------------------------------------------
(* The invariant: the tables.                                              *)

\* The status of a run says whether it is finished, and only finishing counts.
RunsSound ==
    \A r \in RunIds :
        /\ runs[r].done <=> runs[r].status \in {"Completed", "Failed", "Expired"}
        /\ ~runs[r].done => runs[r].matched = 0 /\ runs[r].unmatched = 0

CollectorsPending ==
    \A c \in IisCollectors : iis[c].run # 0 => runs[iis[c].run].status = "PendingIis"

\* A run with sockets has a server that succeeded, so it is not handed over as Failed.
RowsOfSuccess == \A x \in staging : runs[x.run].ok > 0

(* The invariant: what the SQL collector has in memory.                    *)

Processing == {"Load", "SaveEmpty", "SaveExpired", "Match", "Delete", "Save"}

\* The run it works on is queued, then its own, and nothing of it is counted yet.
Leased(w) ==
    /\ sql[w].pc = "Lease" => runs[sql[w].run].status \in {"ReadyForSql", "Partial"}
    /\ sql[w].pc \in Processing => runs[sql[w].run].status = "ProcessingSql"
    /\ sql[w].pc \in {"Lease"} \union Processing =>
           sql[w].counted.matched = 0 /\ sql[w].counted.unmatched = 0

Fresh(w) ==
    sql[w].pc \in {"Lease", "Load"} =>
        /\ \A e \in Endpoints : sql[w].outcome[e] = "None"
        /\ sql[w].matched = 0 /\ sql[w].unmatched = 0 /\ sql[w].found = {}

\* The rows it has loaded are those of the table, all still to be matched.
Loaded(w) ==
    /\ sql[w].pc \in Processing \ {"Load"} =>
           /\ Sockets(sql[w].rows) = Sockets(RowsOf(sql[w].run))
           /\ \A row \in sql[w].rows : row.status = "Pending"
    /\ sql[w].pc = "SaveEmpty" => sql[w].rows = {}

\* The sockets of the endpoints it has visited.
Visited(w) == {k \in Sockets(sql[w].rows) : sql[w].outcome[k.ip] # "None"}

\* As long as no endpoint has failed, each socket visited is counted once, and
\* those that are matched are on their way to the inventory.
Counted(w) ==
    /\ sql[w].pc \in {"Delete", "Save"} => Remaining(w) = {}
    /\ sql[w].pc \in {"Match", "Delete", "Save"} /\ FailedRows(w) = {} =>
           /\ sql[w].found \subseteq Visited(w)
           /\ Cardinality(sql[w].found) = sql[w].matched
           /\ sql[w].matched + sql[w].unmatched = Cardinality(Visited(w))

Memory(w) == Leased(w) /\ Fresh(w) /\ Loaded(w) /\ Counted(w)

SingleInv ==
    /\ StagingInv /\ InventoryOnlyOfFinishedRuns
    /\ RunsSound /\ CollectorsPending /\ RowsOfSuccess /\ RowStatusFollowsRun
    /\ CompletedRunsKeepInventory
    /\ \A w \in SqlCollectors : Memory(w)

-----------------------------------------------------------------------------
(* The steps of the IIS collectors, the administrators and of time.        *)

Elsewhere ==
    \/ IisNext /\ UNCHANGED sql
    \/ Tick /\ UNCHANGED <<iis, sql>>
    \/ (\E e \in Registered : ToggleSqlServer(e)) /\ UNCHANGED iis
    \/ UNCHANGED vars

RunFields == {"status", "age", "done", "servers", "ok", "fail", "staged", "matched", "unmatched"}

\* A run that is queued or further on is left alone ...
RunSame(r) ==
    /\ runs'[r].status = runs[r].status /\ runs'[r].done = runs[r].done
    /\ runs'[r].ok = runs[r].ok /\ runs'[r].staged = runs[r].staged
    /\ runs'[r].matched = runs[r].matched /\ runs'[r].unmatched = runs[r].unmatched

\* ... and one that is being collected is handed over, or failed without sockets.
RunCollected(r) ==
    /\ runs[r].status \in {"Absent", "PendingIis"}
    /\ runs'[r].matched = 0 /\ runs'[r].unmatched = 0
    /\ \/ runs'[r].status \in {"PendingIis", "ReadyForSql", "Partial"} /\ ~runs'[r].done
       \/ runs'[r].status = "Failed" /\ runs'[r].done /\ runs'[r].ok = 0
    /\ runs[r].status = "PendingIis" => runs'[r].ok >= runs[r].ok

LEMMA RunsElsewhere ==
    ASSUME SingleInv, Elsewhere, NEW r \in RunIds
    PROVE  RunSame(r) \/ RunCollected(r)
<1>0. /\ runs \in [RunIds -> Run] /\ DOMAIN runs[r] = RunFields
      /\ runs[r].ok \in Nat /\ runs[r].fail \in Nat
      /\ iis \in [IisCollectors -> IisWorker]
      /\ runs[r].status \in {"Absent", "PendingIis"} =>
            ~runs[r].done /\ runs[r].matched = 0 /\ runs[r].unmatched = 0
      /\ runs[r].done \in BOOLEAN
  <2>1. runs \in [RunIds -> Run] /\ iis \in [IisCollectors -> IisWorker]
    BY DEF SingleInv, StagingInv, TypeInv, TypeOK, DbTypeOK, IisTypeOK
  <2>2. DOMAIN runs[r] = RunFields
    BY <2>1 DEF Run, RunFields
  <2>3. runs[r].status \in {"Absent", "PendingIis"} =>
            ~runs[r].done /\ runs[r].matched = 0 /\ runs[r].unmatched = 0
    BY DEF SingleInv, RunsSound
  <2>4. runs[r].ok \in Nat /\ runs[r].fail \in Nat /\ runs[r].done \in BOOLEAN
    BY <2>1 DEF Run
  <2> QED
    BY <2>1, <2>2, <2>3, <2>4
<1>1. ASSUME NEW c \in IisCollectors, iis[c].pc \in {"Attempt", "Collect"}
      PROVE  iis[c].run \in RunIds /\ runs[iis[c].run].status = "PendingIis"
  <2>1. iis[c].run \in RunIds
    BY <1>1 DEF SingleInv, StagingInv, TypeInv, WorkersHaveRuns
  <2>2. iis[c].run # 0
    BY <2>1, BoundsAssumption DEF RunIds
  <2> QED
    BY <2>1, <2>2 DEF SingleInv, CollectorsPending
<1>2. ASSUME UNCHANGED runs PROVE RunSame(r)
  BY <1>2 DEF RunSame
<1>3. ASSUME NEW c \in IisCollectors, StartCycle(c) PROVE RunSame(r) \/ RunCollected(r)
  <2>1. PICK q \in RunIds :
           /\ runs[q].status = "Absent"
           /\ runs' = [runs EXCEPT ![q] =
                  [NoRun EXCEPT !.status = "PendingIis", !.servers = Cardinality(Due)]]
    BY <1>3 DEF StartCycle
  <2>2. CASE r = q
    <3>1. /\ runs'[r].status = "PendingIis" /\ ~runs'[r].done
          /\ runs'[r].matched = 0 /\ runs'[r].unmatched = 0
      BY <1>0, <2>1, <2>2 DEF NoRun
    <3> QED
      BY <2>1, <2>2, <3>1 DEF RunCollected
  <2>3. CASE r # q
    BY <1>0, <2>1, <2>3 DEF RunSame
  <2> QED
    BY <2>2, <2>3
<1>4. ASSUME NEW c \in IisCollectors, CollectSucceeds(c) PROVE RunSame(r) \/ RunCollected(r)
  <2>1. PICK n : runs' = [runs EXCEPT ![iis[c].run].ok = @ + 1, ![iis[c].run].staged = @ + n]
    BY <1>4 DEF CollectSucceeds
  <2>2. iis[c].run \in RunIds /\ runs[iis[c].run].status = "PendingIis"
    BY <1>1, <1>4 DEF CollectSucceeds
  <2>3. CASE r = iis[c].run
    <3>1. /\ runs'[r].status = "PendingIis" /\ runs'[r].done = runs[r].done
          /\ runs'[r].matched = runs[r].matched /\ runs'[r].unmatched = runs[r].unmatched
          /\ runs'[r].ok = runs[r].ok + 1
      BY <1>0, <2>1, <2>2, <2>3 DEF RunFields
    <3> QED
      BY <1>0, <2>2, <2>3, <3>1 DEF RunCollected
  <2>4. CASE r # iis[c].run
    BY <1>0, <2>1, <2>2, <2>4 DEF RunSame
  <2> QED
    BY <2>3, <2>4
<1>5. ASSUME NEW c \in IisCollectors, CollectFails(c) PROVE RunSame(r)
  <2>1. runs' = [runs EXCEPT ![iis[c].run].fail = @ + 1]
    BY <1>5 DEF CollectFails
  <2> QED
    BY <1>0, <2>1 DEF RunSame, RunFields
<1>6. ASSUME NEW c \in IisCollectors, PublishRun(c) PROVE RunSame(r) \/ RunCollected(r)
  <2> DEFINE t == PublishedStatus(runs[iis[c].run])
  <2>1. runs' = [runs EXCEPT ![iis[c].run].status = t, ![iis[c].run].done = @ \/ t = "Failed"]
    BY <1>6 DEF PublishRun
  <2>2. iis[c].run \in RunIds /\ runs[iis[c].run].status = "PendingIis"
    BY <1>1, <1>6 DEF PublishRun
  <2>3. CASE r = iis[c].run
    <3>1. t \in {"ReadyForSql", "Partial"} \/ (t = "Failed" /\ runs[r].ok = 0)
      BY <1>0, <2>3 DEF PublishedStatus
    <3> HIDE DEF t
    <3>A. PICK b \in BOOLEAN : b = (runs[r].done \/ t = "Failed")
      BY Zenon
    <3>B. runs' = [runs EXCEPT ![r].status = t, ![r].done = b]
      BY <2>1, <2>3, <3>A
    <3>2. /\ runs'[r].status = t /\ runs'[r].ok = runs[r].ok
          /\ runs'[r].matched = runs[r].matched /\ runs'[r].unmatched = runs[r].unmatched
          /\ runs'[r].done = b
      <4>1. runs'[r] = [runs[r] EXCEPT !.status = t, !.done = b]
        BY <1>0, <3>B
      <4>2. runs[r] \in Run
        BY <1>0
      <4> QED
        BY <4>1, <4>2 DEF Run
    <3>3. CASE t \in {"ReadyForSql", "Partial"}
      BY <1>0, <2>2, <2>3, <3>A, <3>2, <3>3 DEF RunCollected
    <3>4. CASE t = "Failed" /\ runs[r].ok = 0
      <4>1. b
        BY <3>A, <3>4, Zenon
      <4>2. runs'[r].done
        BY <3>2, <4>1
      <4> QED
        BY <1>0, <2>2, <2>3, <3>2, <3>4, <4>2 DEF RunCollected
    <3> QED
      BY <3>1, <3>3, <3>4
  <2>4. CASE r # iis[c].run
    <3> HIDE DEF t
    <3> QED
      BY <1>0, <2>1, <2>2, <2>4 DEF RunSame
  <2> QED
    BY <2>3, <2>4
<1>7. ASSUME Tick PROVE RunSame(r)
  <2>1. runs'[r] = runs[r] \/ runs'[r] = [runs[r] EXCEPT !.age = Older(runs[r].age, LeaseAge + 1)]
    BY <1>7 DEF Tick
  <2> DEFINE age == Older(runs[r].age, LeaseAge + 1)
  <2>2. ASSUME runs'[r] = [runs[r] EXCEPT !.age = age] PROVE RunSame(r)
    <3> HIDE DEF age
    <3> QED
      BY <1>0, <2>2 DEF RunSame, RunFields
  <2>3. ASSUME runs'[r] = runs[r] PROVE RunSame(r)
    BY <2>3 DEF RunSame
  <2> QED
    BY <2>1, <2>2, <2>3
<1>8. ASSUME NEW c \in IisCollectors,
             \/ MarkAttempt(c) \/ AttemptConflict(c) \/ CollectConflict(c)
             \/ IisError(c) \/ IisCrash(c) \/ IisRestart(c)
      PROVE  UNCHANGED runs
  BY <1>8 DEF MarkAttempt, AttemptConflict, CollectConflict, IisError, IisCrash, IisRestart, dbVars
<1>9. ASSUME \/ \E s \in IisServers : ToggleIisServer(s)
             \/ \E e \in Registered : ToggleSqlServer(e)
             \/ UNCHANGED vars
      PROVE  UNCHANGED runs
  BY <1>9 DEF ToggleIisServer, ToggleSqlServer, vars, dbVars
<1> QED
  BY <1>2, <1>3, <1>4, <1>5, <1>6, <1>7, <1>8, <1>9 DEF Elsewhere, IisNext, IisStep

\* Rows stay, up to their age; new ones are pending rows of a run being collected.
RowsElsewhere ==
    /\ \A x \in staging : \E y \in staging' : y.run = x.run /\ Socket(y) = Socket(x)
    /\ \A y \in staging' :
          \/ \E x \in staging : x.run = y.run /\ Socket(x) = Socket(y) /\ x.status = y.status
          \/ /\ y.run \in RunIds /\ y.status = "Pending"
             /\ runs[y.run].status = "PendingIis" /\ runs'[y.run].status = "PendingIis"
             /\ runs'[y.run].ok > 0 /\ ~runs'[y.run].done

LEMMA ElsewhereRows ==
    ASSUME SingleInv, Elsewhere
    PROVE  RowsElsewhere
<1>0. /\ staging \subseteq StagingRow /\ runs \in [RunIds -> Run]
  BY DEF SingleInv, StagingInv, TypeInv, TypeOK, DbTypeOK
<1>1. ASSUME UNCHANGED staging PROVE RowsElsewhere
  BY <1>1 DEF RowsElsewhere
<1>2. ASSUME Tick PROVE RowsElsewhere
  <2> DEFINE older(x) == [x EXCEPT !.age = Older(x.age, MaxSnapshotAge + 1)]
  <2>1. staging' = {older(x) : x \in staging}
    BY <1>2 DEF Tick
  <2>2. ASSUME NEW x \in staging
        PROVE  /\ older(x).run = x.run /\ older(x).server = x.server
               /\ older(x).ip = x.ip /\ older(x).status = x.status
    BY <1>0 DEF StagingRow
  <2> HIDE DEF older
  <2> QED
    BY <2>1, <2>2, SocketFacts DEF RowsElsewhere
<1>3. ASSUME NEW c \in IisCollectors, CollectSucceeds(c) PROVE RowsElsewhere
  <2>0. PICK s \in iis[c].current, observed \in SUBSET Endpoints : \E listed \in ListLengths(observed) :
           /\ staging' = staging \union Observed(iis[c].run, s, observed)
           /\ runs' = [runs EXCEPT
                  ![iis[c].run].ok = @ + 1,
                  ![iis[c].run].staged = @ + listed]
    BY <1>3 DEF CollectSucceeds, Observed
  <2>1. PICK listed \in ListLengths(observed) :
           /\ staging' = staging \union Observed(iis[c].run, s, observed)
           /\ runs' = [runs EXCEPT
                  ![iis[c].run].ok = @ + 1,
                  ![iis[c].run].staged = @ + listed]
    BY <2>0
  <2> DEFINE r == iis[c].run
  <2>2. r \in RunIds /\ runs[r].status = "PendingIis"
    <3>1. r \in RunIds
      BY <1>3 DEF SingleInv, StagingInv, TypeInv, WorkersHaveRuns, CollectSucceeds
    <3>2. r # 0
      BY <3>1, BoundsAssumption DEF RunIds
    <3> QED
      BY <3>1, <3>2 DEF SingleInv, CollectorsPending
  <2>3. /\ runs'[r].status = "PendingIis" /\ runs'[r].done = runs[r].done
        /\ runs'[r].ok = runs[r].ok + 1 /\ runs[r].ok \in Nat
    BY <1>0, <2>1, <2>2 DEF Run
  <2>4. ~runs[r].done
    BY <2>2 DEF SingleInv, RunsSound
  <2>5. \A y \in Observed(r, s, observed) : y.run = r /\ y.status = "Pending"
    BY DEF Observed
  <2>6. staging' = staging \union Observed(r, s, observed)
    BY <2>1
  <2>7. runs'[r].ok > 0
    BY <2>3
  <2> HIDE DEF r
  <2> QED
    BY <2>2, <2>3, <2>4, <2>5, <2>6, <2>7 DEF RowsElsewhere
<1>4. ASSUME NEW c \in IisCollectors,
             \/ StartCycle(c) \/ MarkAttempt(c) \/ AttemptConflict(c) \/ CollectFails(c)
             \/ CollectConflict(c) \/ PublishRun(c) \/ IisError(c) \/ IisCrash(c) \/ IisRestart(c)
      PROVE  UNCHANGED staging
  BY <1>4 DEF StartCycle, MarkAttempt, AttemptConflict, CollectFails, CollectConflict,
     PublishRun, IisError, IisCrash, IisRestart, dbVars
<1>5. ASSUME \/ \E s \in IisServers : ToggleIisServer(s)
             \/ \E e \in Registered : ToggleSqlServer(e)
             \/ UNCHANGED vars
      PROVE  UNCHANGED staging
  BY <1>5 DEF ToggleIisServer, ToggleSqlServer, vars, dbVars
<1> QED
  BY <1>1, <1>2, <1>3, <1>4, <1>5 DEF Elsewhere, IisNext, IisStep

\* All that the parts of the invariant about the memory depend on.
SameMemory(w) ==
    /\ sql'[w].pc = sql[w].pc /\ sql'[w].run = sql[w].run
    /\ sql'[w].counted = sql[w].counted /\ sql'[w].rows = sql[w].rows
    /\ sql'[w].outcome = sql[w].outcome /\ sql'[w].found = sql[w].found
    /\ sql'[w].matched = sql[w].matched /\ sql'[w].unmatched = sql[w].unmatched

LEMMA ElsewhereMemory ==
    ASSUME SingleInv, Elsewhere, NEW w \in SqlCollectors
    PROVE  SameMemory(w)
<1>0. sql \in [SqlCollectors -> SqlWorker]
  BY DEF SingleInv, StagingInv, TypeInv, TypeOK, SqlTypeOK
<1>1. ASSUME NEW e \in Registered, ToggleSqlServer(e) PROVE SameMemory(w)
  <2> DEFINE stale == sql[w].stale \union
                 {d \in {e} : sql[w].outcome[d] \in {"Success", "Failed"}}
  <2>1. sql'[w] = [sql[w] EXCEPT !.stale = stale]
    BY <1>1 DEF ToggleSqlServer, Overtaken
  <2> HIDE DEF stale
  <2> QED
    BY <1>0, <2>1 DEF SqlWorker, SameMemory
<1>2. ASSUME UNCHANGED sql PROVE SameMemory(w)
  BY <1>2 DEF SameMemory
<1> QED
  BY <1>1, <1>2 DEF Elsewhere, vars

LEMMA MemoryStays ==
    ASSUME NEW w \in SqlCollectors, Memory(w), SameMemory(w), NEW r, r = sql[w].run,
           sql[w].pc \in {"Lease"} \union Processing => runs'[r].status = runs[r].status,
           sql[w].pc \in Processing \ {"Load"} => Sockets(RowsOf(r))' = Sockets(RowsOf(r))
    PROVE  Memory(w)'
<1>1. Leased(w)'
  BY DEF Memory, Leased, SameMemory, Processing
<1>2. Fresh(w)'
  BY DEF Memory, Fresh, SameMemory
<1>3. Loaded(w)'
  <2>1. ASSUME sql'[w].pc \in Processing \ {"Load"}
        PROVE  /\ Sockets(sql[w].rows)' = Sockets(RowsOf(sql[w].run))'
               /\ \A row \in sql'[w].rows : row.status = "Pending"
    <3>1. Sockets(sql[w].rows) = Sockets(RowsOf(r)) /\ \A row \in sql[w].rows : row.status = "Pending"
      BY <2>1 DEF Memory, Loaded, SameMemory
    <3>2. Sockets(sql[w].rows)' = Sockets(sql[w].rows)
      BY DEF SameMemory, Sockets, Socket
    <3>3. Sockets(RowsOf(sql[w].run))' = Sockets(RowsOf(r))'
      BY DEF SameMemory, Sockets, RowsOf, Socket
    <3>4. Sockets(RowsOf(r))' = Sockets(RowsOf(r))
      BY <2>1 DEF SameMemory
    <3> QED
      BY <3>1, <3>2, <3>3, <3>4 DEF SameMemory
  <2> QED
    BY <2>1 DEF Memory, Loaded, SameMemory
<1>4. Counted(w)'
  <2>1. Visited(w)' = Visited(w)
    BY DEF SameMemory, Visited, Sockets, Socket
  <2>2. FailedRows(w)' = FailedRows(w)
    BY DEF SameMemory, FailedRows
  <2>3. Remaining(w)' = Remaining(w)
    BY DEF SameMemory, Remaining, Group, Sockets, Socket
  <2> QED
    BY <2>1, <2>2, <2>3 DEF Memory, Counted, SameMemory
<1> QED
  BY <1>1, <1>2, <1>3, <1>4 DEF Memory

\* What is left of the invariant, beside what holds for any number of collectors.
TablesSound ==
    /\ RunsSound /\ CollectorsPending /\ RowsOfSuccess /\ RowStatusFollowsRun
    /\ CompletedRunsKeepInventory

\* A collector keeps its run only as long as it is pending.
LEMMA PendingElsewhere ==
    ASSUME SingleInv, [Next]_vars, Elsewhere
    PROVE  CollectorsPending'
<1>0. /\ TypeInv /\ ServersOnce /\ runs \in [RunIds -> Run] /\ iis \in [IisCollectors -> IisWorker]
      /\ 0 \notin RunIds
  BY BoundsAssumption DEF SingleInv, StagingInv, TypeInv, TypeOK, DbTypeOK, IisTypeOK, RunIds
<1>1. ASSUME NEW c \in IisCollectors, StartCycle(c) PROVE CollectorsPending'
  <2>1. PICK q \in RunIds :
           /\ runs[q].status = "Absent"
           /\ runs' = [runs EXCEPT ![q] =
                  [NoRun EXCEPT !.status = "PendingIis", !.servers = Cardinality(Due)]]
           /\ iis' = [iis EXCEPT ![c] =
                  [IisIdle EXCEPT !.pc = "Attempt", !.run = q, !.todo = Due]]
    BY <1>1 DEF StartCycle
  <2>2. runs'[q].status = "PendingIis" /\ \A r \in RunIds : r # q => runs'[r] = runs[r]
    BY <1>0, <2>1 DEF NoRun
  <2>3. iis'[c].run = q /\ \A d \in IisCollectors : d # c => iis'[d] = iis[d]
    BY <1>0, <2>1 DEF IisIdle
  <2>4. ASSUME NEW d \in IisCollectors, iis'[d].run # 0
        PROVE  runs'[iis'[d].run].status = "PendingIis"
    <3>1. CASE d = c
      BY <2>2, <2>3, <3>1
    <3>2. CASE d # c
      <4>1. iis[d].run \in RunIds /\ runs[iis[d].run].status = "PendingIis"
        BY <1>0, <2>3, <2>4, <3>2 DEF SingleInv, CollectorsPending, IisWorker
      <4> QED
        BY <2>1, <2>2, <2>3, <3>2, <4>1
    <3> QED
      BY <3>1, <3>2
  <2> QED
    BY <2>4 DEF CollectorsPending
<1>2. ASSUME \A c \in IisCollectors : ~StartCycle(c) PROVE CollectorsPending'
  <2>1. ASSUME NEW d \in IisCollectors, iis'[d].run # 0
        PROVE  /\ iis'[d].run = iis[d].run /\ iis[d].run \in RunIds
               /\ runs[iis[d].run].status = "PendingIis"
    <3>1. WorkShrinks(d)
      BY <1>0, <1>2, WorkStable
    <3> QED
      BY <1>0, <2>1, <3>1 DEF WorkShrinks, SingleInv, CollectorsPending, IisWorker
  <2>2. ASSUME NEW c \in IisCollectors, PublishRun(c), NEW d \in IisCollectors, iis'[d].run # 0
        PROVE  runs'[iis[d].run].status = "PendingIis"
    <3>1. iis'[c].run = 0
      BY <1>0, <2>2 DEF PublishRun, IisIdle
    <3>2. iis[d].run # iis[c].run
      BY <1>0, <2>1, <2>2, <3>1 DEF SingleInv, StagingInv, WorkersApart
    <3> DEFINE t == PublishedStatus(runs[iis[c].run])
    <3>3. runs' = [runs EXCEPT ![iis[c].run].status = t, ![iis[c].run].done = @ \/ t = "Failed"]
      BY <2>2 DEF PublishRun
    <3> HIDE DEF t
    <3>4. runs'[iis[d].run] = runs[iis[d].run]
      BY <1>0, <2>1, <2>2, <3>2, <3>3
    <3> QED
      BY <2>1, <2>2, <3>4
  <2>3. ASSUME \A c \in IisCollectors : ~PublishRun(c), NEW r \in RunIds,
               runs[r].status = "PendingIis"
        PROVE  runs'[r].status = "PendingIis"
    <3>0. DOMAIN runs[r] = RunFields
      <4>1. runs[r] \in Run
        BY <1>0
      <4> QED
        BY <4>1 DEF Run, RunFields
    <3>1. ASSUME NEW c \in IisCollectors, CollectSucceeds(c) PROVE runs'[r].status = runs[r].status
      <4>1. PICK n : runs' = [runs EXCEPT ![iis[c].run].ok = @ + 1, ![iis[c].run].staged = @ + n]
        BY <3>1 DEF CollectSucceeds
      <4> QED
        BY <1>0, <3>0, <4>1 DEF RunFields
    <3>2. ASSUME NEW c \in IisCollectors, CollectFails(c) PROVE runs'[r].status = runs[r].status
      <4>1. runs' = [runs EXCEPT ![iis[c].run].fail = @ + 1]
        BY <3>2 DEF CollectFails
      <4> QED
        BY <1>0, <3>0, <4>1 DEF RunFields
    <3>3. ASSUME Tick PROVE runs'[r].status = runs[r].status
      <4> DEFINE age == Older(runs[r].age, LeaseAge + 1)
      <4>1. runs'[r] = runs[r] \/ runs'[r] = [runs[r] EXCEPT !.age = age]
        BY <3>3 DEF Tick
      <4> HIDE DEF age
      <4> QED
        BY <3>0, <4>1 DEF RunFields
    <3>4. ASSUME NEW c \in IisCollectors,
                 \/ MarkAttempt(c) \/ AttemptConflict(c) \/ CollectConflict(c)
                 \/ IisError(c) \/ IisCrash(c) \/ IisRestart(c)
          PROVE  UNCHANGED runs
      BY <3>4 DEF MarkAttempt, AttemptConflict, CollectConflict, IisError, IisCrash, IisRestart, dbVars
    <3>5. ASSUME \/ \E s \in IisServers : ToggleIisServer(s)
                 \/ \E e \in Registered : ToggleSqlServer(e)
                 \/ UNCHANGED vars
          PROVE  UNCHANGED runs
      BY <3>5 DEF ToggleIisServer, ToggleSqlServer, vars, dbVars
    <3> QED
      BY <1>2, <2>3, <3>1, <3>2, <3>3, <3>4, <3>5 DEF Elsewhere, IisNext, IisStep
  <2> QED
    BY <2>1, <2>2, <2>3 DEF CollectorsPending
<1> QED
  BY <1>1, <1>2

LEMMA ElsewhereTables ==
    ASSUME SingleInv, [Next]_vars, Elsewhere
    PROVE  TablesSound'
<1>0. /\ runs \in [RunIds -> Run] /\ runs' \in [RunIds -> Run]
      /\ staging \subseteq StagingRow /\ staging' \subseteq StagingRow
      /\ \A x \in staging : x.run \in RunIds /\ runs[x.run].status # "Absent"
  <2>1. TypeInv /\ TypeInv' /\ RowsHaveRuns
    BY TypeStep DEF SingleInv, StagingInv
  <2> QED
    BY <2>1 DEF TypeInv, TypeOK, DbTypeOK, RowsHaveRuns, StagingRow
<1>1. \A r \in RunIds : RunSame(r) \/ RunCollected(r)
  BY RunsElsewhere
<1>2. RowsElsewhere
  BY ElsewhereRows
<1>3. UNCHANGED inventory
  <2>1. CASE \E c \in IisCollectors : IisStep(c)
    BY <2>1 DEF IisStep, StartCycle, MarkAttempt, AttemptConflict, CollectSucceeds, CollectFails,
       CollectConflict, PublishRun, dbVars
  <2>2. CASE \E c \in IisCollectors : IisError(c) \/ IisCrash(c) \/ IisRestart(c)
    BY <2>2 DEF IisError, IisCrash, IisRestart, dbVars
  <2>3. CASE \/ \E s \in IisServers : ToggleIisServer(s)
             \/ \E e \in Registered : ToggleSqlServer(e)
             \/ Tick
             \/ UNCHANGED vars
    BY <2>3 DEF ToggleIisServer, ToggleSqlServer, Tick, vars, dbVars
  <2> QED
    BY <2>1, <2>2, <2>3 DEF Elsewhere, IisNext
<1>4. RunsSound'
  <2>1. ASSUME NEW r \in RunIds
        PROVE  /\ runs'[r].done <=> runs'[r].status \in {"Completed", "Failed", "Expired"}
               /\ ~runs'[r].done => runs'[r].matched = 0 /\ runs'[r].unmatched = 0
    <3>1. CASE RunSame(r)
      BY <3>1 DEF RunSame, SingleInv, RunsSound
    <3>2. CASE RunCollected(r)
      BY <3>2 DEF RunCollected
    <3> QED
      BY <1>1, <3>1, <3>2
  <2> QED
    BY <2>1 DEF RunsSound
<1>5. ASSUME NEW r \in RunIds, runs[r].status # "Absent", runs[r].ok > 0
      PROVE  /\ runs'[r].ok > 0
             /\ runs'[r].done => runs[r].done /\ runs'[r].status = runs[r].status
             /\ runs[r].done => runs'[r].done
  <2>1. CASE RunSame(r)
    BY <1>5, <2>1 DEF RunSame
  <2>2. CASE RunCollected(r)
    <3>1. ~runs[r].done
      BY <2>2 DEF RunCollected, SingleInv, RunsSound
    <3>2. runs'[r].ok > 0
      <4>1. runs[r].ok \in Nat /\ runs'[r].ok \in Nat
        BY <1>0 DEF Run
      <4> QED
        BY <1>5, <2>2, <4>1 DEF RunCollected
    <3> QED
      BY <2>2, <3>1, <3>2 DEF RunCollected
  <2> QED
    BY <1>1, <2>1, <2>2
<1>6. \A x \in staging : runs[x.run].ok > 0
  BY DEF SingleInv, RowsOfSuccess
<1>7. RowsOfSuccess'
  BY <1>0, <1>2, <1>5, <1>6 DEF RowsOfSuccess, RowsElsewhere
<1>8. RowStatusFollowsRun'
  <2>1. ASSUME NEW y \in staging'
        PROVE  y.status = IF runs'[y.run].done THEN runs'[y.run].status ELSE "Pending"
    <3>1. CASE \E x \in staging : x.run = y.run /\ Socket(x) = Socket(y) /\ x.status = y.status
      <4>1. PICK x \in staging : x.run = y.run /\ x.status = y.status
        BY <3>1
      <4>2. x.status = IF runs[x.run].done THEN runs[x.run].status ELSE "Pending"
        BY DEF SingleInv, RowStatusFollowsRun
      <4>3. /\ runs'[x.run].done => runs[x.run].done /\ runs'[x.run].status = runs[x.run].status
            /\ runs[x.run].done => runs'[x.run].done
        BY <1>0, <1>5, <1>6
      <4> QED
        BY <4>1, <4>2, <4>3
    <3>2. CASE y.status = "Pending" /\ ~runs'[y.run].done
      BY <3>2
    <3> QED
      BY <1>2, <3>1, <3>2 DEF RowsElsewhere
  <2> QED
    BY <2>1 DEF RowStatusFollowsRun
<1>9. ASSUME NEW r \in RunIds, runs'[r].status = "Completed"
      PROVE  RunSame(r) /\ runs[r].status = "Completed"
  BY <1>1, <1>9 DEF RunSame, RunCollected
<1>11. CompletedRunsKeepInventory'
  <2>1. ASSUME NEW r \in RunIds, runs'[r].status = "Completed"
        PROVE  Cardinality(InventoryOf(r))' = runs'[r].matched
    <3>1. Cardinality(InventoryOf(r)) = runs[r].matched
      BY <1>9, <2>1 DEF SingleInv, CompletedRunsKeepInventory
    <3>2. InventoryOf(r)' = InventoryOf(r)
      BY <1>3 DEF InventoryOf
    <3> QED
      BY <1>9, <2>1, <3>1, <3>2 DEF RunSame
  <2> QED
    BY <2>1 DEF CompletedRunsKeepInventory
<1> QED
  BY <1>4, <1>7, <1>8, <1>11, PendingElsewhere DEF TablesSound

LEMMA ElsewhereKeeps ==
    ASSUME SingleInv, [Next]_vars, Elsewhere
    PROVE  TablesSound' /\ \A w \in SqlCollectors : Memory(w)'
<1>1. ASSUME NEW w \in SqlCollectors PROVE Memory(w)'
  <2> DEFINE r == sql[w].run
  <2>1. Memory(w) /\ SameMemory(w)
    BY ElsewhereMemory DEF SingleInv
  <2>2. ASSUME sql[w].pc \in {"Lease"} \union Processing
        PROVE  r \in RunIds /\ runs'[r].status = runs[r].status
    <3>1. r \in RunIds
      BY <2>2 DEF SingleInv, StagingInv, TypeInv, WorkersHaveRuns, Processing
    <3>2. runs[r].status \notin {"Absent", "PendingIis"}
      BY <2>1, <2>2 DEF Memory, Leased
    <3> HIDE DEF r
    <3> QED
      BY <3>1, <3>2, RunsElsewhere DEF RunSame, RunCollected
  <2>3. ASSUME sql[w].pc \in Processing \ {"Load"}
        PROVE  {Socket(y) : y \in {z \in staging' : z.run = r}} = {Socket(x) : x \in {z \in staging : z.run = r}}
    <3>1. r \in RunIds /\ runs[r].status = "ProcessingSql"
      BY <2>1, <2>2, <2>3 DEF Memory, Leased
    <3> HIDE DEF r
    <3> QED
      BY <3>1, ElsewhereRows DEF RowsElsewhere
  <2>4. \A q : /\ Sockets(RowsOf(q)) = {Socket(x) : x \in {z \in staging : z.run = q}}
               /\ Sockets(RowsOf(q))' = {Socket(y) : y \in {z \in staging' : z.run = q}}
    BY DEF Sockets, RowsOf, Socket
  <2>5. PICK q : q = r
    OBVIOUS
  <2>6. sql[w].pc \in Processing \ {"Load"} => Sockets(RowsOf(q))' = Sockets(RowsOf(q))
    BY <2>3, <2>4, <2>5
  <2> QED
    BY <2>1, <2>2, <2>5, <2>6, MemoryStays
<1> QED
  BY <1>1, ElsewhereTables

-----------------------------------------------------------------------------
(* The steps the SQL collector takes in its memory.                        *)

LEMMA DisjointSockets ==
    ASSUME NEW S \in SUBSET SocketId, NEW T \in SUBSET SocketId, S \intersect T = {}
    PROVE  Cardinality(S \union T) = Cardinality(S) + Cardinality(T)
<1>1. IsFiniteSet(S) /\ IsFiniteSet(T)
  BY SocketIdFinite, FS_Subset
<1>2. Cardinality(S \union T) = Cardinality(S) + Cardinality(T) - Cardinality(S \intersect T)
  BY <1>1, FS_Union
<1>3. Cardinality(S \intersect T) = 0
  BY FS_EmptySet
<1>4. Cardinality(S) \in Nat /\ Cardinality(T) \in Nat
  BY SubsetCounts
<1> QED
  BY <1>2, <1>3, <1>4

\* The sockets of an endpoint group, and those of all groups.
LEMMA GroupFacts ==
    ASSUME NEW w \in SqlCollectors, sql[w] \in SqlWorker, NEW e
    PROVE  /\ Group(w, e) = {k \in Sockets(sql[w].rows) : k.ip = e}
           /\ Sockets(sql[w].rows) \subseteq SocketId
           /\ Group(w, e) \subseteq SocketId
           /\ Visited(w) \subseteq SocketId
<1>1. ASSUME NEW row \in sql[w].rows
      PROVE  Socket(row).ip = row.ip /\ Socket(row) \in SocketId
  BY DEF SqlWorker, Socket, SocketId
<1>2. Group(w, e) = {Socket(row) : row \in {x \in sql[w].rows : x.ip = e}}
  BY DEF Group, Sockets
<1>3. Sockets(sql[w].rows) = {Socket(row) : row \in sql[w].rows}
  BY DEF Sockets
<1> QED
  BY <1>1, <1>2, <1>3 DEF Visited

\* A worker that is between two turns has nothing in memory that matters.
LEMMA Resting ==
    ASSUME NEW w \in SqlCollectors, sql'[w].pc \in {"Idle", "Pick", "Down"}
    PROVE  Memory(w)'
  BY DEF Memory, Leased, Fresh, Loaded, Counted, Processing

\* The statements with which a worker begins a turn, takes a run or ends the turn.
LEMMA TurnRests ==
    ASSUME SqlTypeOK, NEW w \in SqlCollectors,
           \/ Requeue(w) \/ NothingQueued(w) \/ PickRun(w) \/ LeaseRun(w)
           \/ SaveEmpty(w) \/ SaveExpired(w) \/ SaveResult(w) \/ SaveConflict(w)
           \/ SqlError(w) \/ SqlCrash(w) \/ SqlRestart(w)
    PROVE  sql'[w].pc \in {"Idle", "Pick", "Lease", "Load", "Down"}
<1>0. sql \in [SqlCollectors -> SqlWorker]
  BY DEF SqlTypeOK
<1>1. CASE SaveResult(w)
  <2> DEFINE O == Overtaken(sql[w].writes, SqlCollectors \ {w})
  <2>1. sql' = [O EXCEPT ![w] = SqlIdle]
    BY <1>1 DEF SaveResult
  <2>2. DOMAIN O = SqlCollectors
    BY DEF Overtaken
  <2> HIDE DEF O
  <2> QED
    BY <2>1, <2>2 DEF SqlIdle
<1>2. CASE PickRun(w)
  <2>1. PICK r, n : sql' = [sql EXCEPT ![w] =
           [SqlIdle EXCEPT !.pc = "Lease", !.run = r, !.counted = n]]
    BY <1>2 DEF PickRun, Queued
  <2> QED
    BY <1>0, <2>1 DEF SqlIdle
<1>3. CASE \/ Requeue(w) \/ NothingQueued(w) \/ SaveEmpty(w) \/ SaveExpired(w)
           \/ SaveConflict(w) \/ SqlError(w) \/ SqlCrash(w) \/ SqlRestart(w)
  <2>1. PICK pc \in {"Idle", "Pick", "Down"} : sql' = [sql EXCEPT ![w] = [SqlIdle EXCEPT !.pc = pc]]
    BY <1>3 DEF Requeue, NothingQueued, SaveEmpty, SaveExpired, SaveConflict, SqlError,
       SqlCrash, SqlRestart, SqlIdle, SqlDown
  <2> QED
    BY <1>0, <2>1 DEF SqlIdle
<1>4. CASE LeaseRun(w)
  BY <1>0, <1>4 DEF LeaseRun, SqlWorker
<1> QED
  BY <1>1, <1>2, <1>3, <1>4

\* An endpoint group is visited and does not fail: each of its sockets is counted.
LEMMA Visit ==
    ASSUME SingleInv, NEW w \in SqlCollectors, sql[w].pc = "Match", sql'[w] \in SqlWorker,
           NEW e \in Remaining(w), NEW open \in SUBSET Group(w, e),
           NEW o \in {"Unknown", "Success"}, UNCHANGED <<runs, staging>>,
           sql'[w].pc = "Match", sql'[w].run = sql[w].run, sql'[w].counted = sql[w].counted,
           sql'[w].rows = sql[w].rows, sql'[w].outcome = [sql[w].outcome EXCEPT ![e] = o],
           sql'[w].found = sql[w].found \union open,
           sql'[w].matched = sql[w].matched + Cardinality(open),
           sql'[w].unmatched = sql[w].unmatched + Cardinality(Group(w, e) \ open)
    PROVE  Memory(w)'
<1>0. sql[w] \in SqlWorker /\ Memory(w) /\ e \in Endpoints /\ sql[w].outcome[e] = "None"
  BY DEF SingleInv, StagingInv, TypeInv, TypeOK, SqlTypeOK, Remaining
<1>1. Leased(w)' /\ Fresh(w)'
  BY <1>0 DEF Memory, Leased, Fresh, Processing
<1>2. Loaded(w)'
  <2>1. Sockets(sql[w].rows) = Sockets(RowsOf(sql[w].run)) /\ \A row \in sql[w].rows : row.status = "Pending"
    BY <1>0 DEF Memory, Loaded, Processing
  <2>2. Sockets(sql[w].rows)' = Sockets(sql[w].rows)
    BY DEF Sockets, Socket
  <2>3. Sockets(RowsOf(sql[w].run))' = Sockets(RowsOf(sql[w].run))
    BY DEF Sockets, RowsOf, Socket
  <2> QED
    BY <2>1, <2>2, <2>3 DEF Loaded
<1>3. ASSUME FailedRows(w)' = {}
      PROVE  /\ sql'[w].found \subseteq Visited(w)'
             /\ Cardinality(sql'[w].found) = sql'[w].matched
             /\ sql'[w].matched + sql'[w].unmatched = Cardinality(Visited(w))'
  <2>0. sql[w].outcome \in [Endpoints -> Outcome] /\ \A row \in sql[w].rows : row.ip \in Endpoints
    BY <1>0 DEF SqlWorker
  <2>1. FailedRows(w) = {}
    <3>1. ASSUME NEW row \in sql[w].rows, sql[w].outcome[row.ip] = "Failed" PROVE FALSE
      <4>1. sql'[w].outcome[row.ip] = "Failed" /\ row \in sql'[w].rows
        BY <1>0, <2>0, <3>1
      <4> QED
        BY <1>3, <4>1 DEF FailedRows
    <3> QED
      BY <3>1 DEF FailedRows
  <2>2. /\ sql[w].found \subseteq Visited(w)
        /\ Cardinality(sql[w].found) = sql[w].matched
        /\ sql[w].matched + sql[w].unmatched = Cardinality(Visited(w))
    BY <1>0, <2>1 DEF Memory, Counted
  <2>3. /\ Group(w, e) = {k \in Sockets(sql[w].rows) : k.ip = e}
        /\ Group(w, e) \in SUBSET SocketId /\ Visited(w) \in SUBSET SocketId
        /\ Sockets(sql[w].rows) \in SUBSET SocketId
    BY <1>0, GroupFacts
  <2>4. Visited(w)' = {k \in Sockets(sql[w].rows) : sql'[w].outcome[k.ip] # "None"}
    BY DEF Visited, Sockets, Socket
  <2>5. \A k \in Sockets(sql[w].rows) : k.ip \in Endpoints
    BY <2>3 DEF SocketId
  <2>6. \A k \in Sockets(sql[w].rows) :
           sql'[w].outcome[k.ip] # "None" <=> sql[w].outcome[k.ip] # "None" \/ k.ip = e
    BY <1>0, <2>0, <2>5
  <2>7. Visited(w)' = Visited(w) \union Group(w, e)
    BY <2>3, <2>4, <2>6 DEF Visited
  <2>8. Visited(w) \intersect Group(w, e) = {}
    BY <1>0, <2>3 DEF Visited
  <2>9. Cardinality(Visited(w) \union Group(w, e)) = Cardinality(Visited(w)) + Cardinality(Group(w, e))
    BY <2>3, <2>8, DisjointSockets
  <2>10. Cardinality(sql[w].found \union open) = Cardinality(sql[w].found) + Cardinality(open)
    BY <2>2, <2>3, <2>8, DisjointSockets
  <2>11. Cardinality(Group(w, e)) = Cardinality(open) + Cardinality(Group(w, e) \ open)
    <3>1. open \union (Group(w, e) \ open) = Group(w, e) /\ open \intersect (Group(w, e) \ open) = {}
      OBVIOUS
    <3>2. open \in SUBSET SocketId /\ (Group(w, e) \ open) \in SUBSET SocketId
      BY <2>3
    <3> QED
      BY <3>1, <3>2, DisjointSockets
  <2>12. /\ sql[w].matched \in Nat /\ sql[w].unmatched \in Nat
         /\ Cardinality(open) \in Nat /\ Cardinality(Group(w, e) \ open) \in Nat
    BY <1>0, <2>3, SubsetCounts DEF SqlWorker
  <2>13. Cardinality(Visited(w))' = Cardinality(Visited(w) \union Group(w, e))
    BY <2>7
  <2>14. sql'[w].matched + sql'[w].unmatched = Cardinality(Visited(w)) + Cardinality(Group(w, e))
    BY <2>2, <2>11, <2>12
  <2> QED
    BY <2>2, <2>7, <2>9, <2>10, <2>13, <2>14
<1>4. Counted(w)'
  BY <1>3 DEF Counted
<1> QED
  BY <1>1, <1>2, <1>4 DEF Memory

\* An endpoint group fails: nothing is said of the counters any more.
LEMMA VisitFails ==
    ASSUME SingleInv, NEW w \in SqlCollectors, sql[w].pc = "Match", sql'[w] \in SqlWorker,
           NEW e \in Remaining(w), UNCHANGED <<runs, staging>>,
           sql'[w].pc = "Match", sql'[w].run = sql[w].run, sql'[w].counted = sql[w].counted,
           sql'[w].rows = sql[w].rows, sql'[w].outcome = [sql[w].outcome EXCEPT ![e] = "Failed"]
    PROVE  Memory(w)'
<1>0. sql[w] \in SqlWorker /\ Memory(w) /\ e \in Endpoints /\ Group(w, e) # {}
  BY DEF SingleInv, StagingInv, TypeInv, TypeOK, SqlTypeOK, Remaining
<1>1. Leased(w)' /\ Fresh(w)'
  BY <1>0 DEF Memory, Leased, Fresh, Processing
<1>2. Loaded(w)'
  <2>1. Sockets(sql[w].rows) = Sockets(RowsOf(sql[w].run)) /\ \A row \in sql[w].rows : row.status = "Pending"
    BY <1>0 DEF Memory, Loaded, Processing
  <2>2. Sockets(sql[w].rows)' = Sockets(sql[w].rows)
    BY DEF Sockets, Socket
  <2>3. Sockets(RowsOf(sql[w].run))' = Sockets(RowsOf(sql[w].run))
    BY DEF Sockets, RowsOf, Socket
  <2> QED
    BY <2>1, <2>2, <2>3 DEF Loaded
<1>3. FailedRows(w)' # {}
  <2>1. PICK row \in sql[w].rows : row.ip = e
    BY <1>0 DEF Group, Sockets
  <2>2. sql'[w].outcome[row.ip] = "Failed"
    BY <1>0, <2>1 DEF SqlWorker
  <2> QED
    BY <2>1, <2>2 DEF FailedRows
<1>4. Counted(w)'
  BY <1>3 DEF Counted
<1> QED
  BY <1>1, <1>2, <1>4 DEF Memory

LEMMA PickKeeps ==
    ASSUME SingleInv, NEW w \in SqlCollectors, PickRun(w)
    PROVE  Memory(w)'
<1>1. PICK r \in Queued :
         sql' = [sql EXCEPT ![w] = [SqlIdle EXCEPT
             !.pc = "Lease", !.run = r,
             !.counted = [matched |-> runs[r].matched, unmatched |-> runs[r].unmatched]]]
  BY DEF PickRun
<1>2. sql \in [SqlCollectors -> SqlWorker] /\ UNCHANGED runs
  BY DEF SingleInv, StagingInv, TypeInv, TypeOK, SqlTypeOK, PickRun, dbVars
<1>3. /\ r \in RunIds /\ runs[r].status \in {"ReadyForSql", "Partial"}
      /\ runs[r].matched = 0 /\ runs[r].unmatched = 0
  BY DEF Queued, SingleInv, RunsSound
<1>4. /\ sql'[w].pc = "Lease" /\ sql'[w].run = r
      /\ sql'[w].counted = [matched |-> runs[r].matched, unmatched |-> runs[r].unmatched]
      /\ \A e \in Endpoints : sql'[w].outcome[e] = "None"
      /\ sql'[w].matched = 0 /\ sql'[w].unmatched = 0 /\ sql'[w].found = {}
  BY <1>1, <1>2 DEF SqlIdle
<1>5. Leased(w)'
  BY <1>2, <1>3, <1>4 DEF Leased, Processing
<1>6. Fresh(w)' /\ Loaded(w)' /\ Counted(w)'
  BY <1>4 DEF Fresh, Loaded, Counted, Processing
<1> QED
  BY <1>5, <1>6 DEF Memory

LEMMA LoadKeeps ==
    ASSUME SingleInv, NEW w \in SqlCollectors, LoadStaging(w)
    PROVE  Memory(w)'
<1> DEFINE loaded == {[server |-> x.server, ip |-> x.ip, status |-> x.status] : x \in RowsOf(sql[w].run)}
           pc == CASE RowsOf(sql[w].run) = {} -> "SaveEmpty"
                   [] \E x \in RowsOf(sql[w].run) : x.age > MaxSnapshotAge -> "SaveExpired"
                   [] OTHER -> "Match"
<1>0. /\ sql \in [SqlCollectors -> SqlWorker] /\ sql[w] \in SqlWorker /\ UNCHANGED <<runs, staging>>
      /\ sql[w].pc = "Load" /\ sql[w].run \in RunIds /\ Memory(w)
  BY DEF SingleInv, StagingInv, TypeInv, TypeOK, SqlTypeOK, WorkersHaveRuns, LoadStaging, dbVars
<1>1. sql' = [sql EXCEPT ![w].rows = loaded, ![w].pc = pc]
  BY DEF LoadStaging
<1>2. pc \in {"SaveEmpty", "SaveExpired", "Match"} /\ (pc = "SaveEmpty" => loaded = {})
  BY Zenon
<1>3. /\ Sockets(loaded) = Sockets(RowsOf(sql[w].run))
      /\ \A row \in loaded : row.status = "Pending"
  <2>1. runs[sql[w].run].status = "ProcessingSql" /\ ~runs[sql[w].run].done
    BY <1>0 DEF Memory, Leased, Processing, SingleInv, RunsSound
  <2>2. \A x \in RowsOf(sql[w].run) : x.status = "Pending"
    BY <2>1 DEF RowsOf, SingleInv, RowStatusFollowsRun
  <2> DEFINE row(x) == [server |-> x.server, ip |-> x.ip, status |-> x.status]
  <2>3. \A x : Socket(row(x)) = Socket(x) /\ row(x).status = x.status
    BY DEF Socket
  <2>6. loaded = {row(x) : x \in RowsOf(sql[w].run)}
    OBVIOUS
  <2>4. Sockets(loaded) = {Socket(y) : y \in loaded}
    BY DEF Sockets
  <2>5. Sockets(RowsOf(sql[w].run)) = {Socket(x) : x \in RowsOf(sql[w].run)}
    BY DEF Sockets
  <2> HIDE DEF loaded, row
  <2> QED
    BY <2>2, <2>3, <2>4, <2>5, <2>6
<1> HIDE DEF loaded, pc
<1>4. /\ sql'[w].rows = loaded /\ sql'[w].pc = pc /\ sql'[w].run = sql[w].run
      /\ sql'[w].counted = sql[w].counted /\ sql'[w].outcome = sql[w].outcome
      /\ sql'[w].found = sql[w].found
      /\ sql'[w].matched = sql[w].matched /\ sql'[w].unmatched = sql[w].unmatched
  BY <1>0, <1>1 DEF SqlWorker
<1>5. Leased(w)' /\ Fresh(w)'
  BY <1>0, <1>2, <1>4 DEF Memory, Leased, Fresh, Processing
<1>6. Loaded(w)'
  <2>1. Sockets(sql[w].rows)' = Sockets(loaded)
    BY <1>4 DEF Sockets, Socket
  <2>2. Sockets(RowsOf(sql[w].run))' = Sockets(RowsOf(sql[w].run))
    BY <1>0, <1>4 DEF Sockets, RowsOf, Socket
  <2> QED
    BY <1>2, <1>3, <1>4, <2>1, <2>2 DEF Loaded
<1>7. Counted(w)'
  <2>1. sql'[w].found = {} /\ sql'[w].matched = 0 /\ sql'[w].unmatched = 0
    BY <1>0, <1>4 DEF Memory, Fresh
  <2>2. Visited(w)' = {}
    <3>1. \A k \in Sockets(loaded) : sql[w].outcome[k.ip] = "None"
      <4>1. Sockets(loaded) \subseteq SocketId
        BY <1>0, <1>3 DEF SingleInv, StagingInv, TypeInv, TypeOK, DbTypeOK, StagingRow, RowsOf,
           Sockets, Socket, SocketId
      <4> QED
        BY <1>0, <4>1 DEF Memory, Fresh, SocketId
    <3>2. Visited(w)' = {k \in Sockets(loaded) : sql[w].outcome[k.ip] # "None"}
      BY <1>4 DEF Visited, Sockets, Socket
    <3> QED
      BY <3>1, <3>2
  <2>3. Cardinality({}) = 0
    BY FS_EmptySet
  <2>4. sql'[w].pc \notin {"Delete", "Save"}
    BY <1>2, <1>4
  <2> QED
    BY <2>1, <2>2, <2>3, <2>4 DEF Counted
<1> QED
  BY <1>5, <1>6, <1>7 DEF Memory

\* From the endpoints to the delete, and from there to the save.
LEMMA MemoryOn ==
    ASSUME SingleInv, NEW w \in SqlCollectors, UNCHANGED <<runs, staging>>,
           sql[w].pc \in {"Match", "Delete"}, sql'[w].pc \in {"Delete", "Save"}, Remaining(w) = {},
           sql'[w].run = sql[w].run, sql'[w].counted = sql[w].counted,
           sql'[w].rows = sql[w].rows, sql'[w].outcome = sql[w].outcome,
           sql'[w].found = sql[w].found, sql'[w].matched = sql[w].matched,
           sql'[w].unmatched = sql[w].unmatched
    PROVE  Memory(w)'
<1>1. Memory(w)
  BY DEF SingleInv
<1>2. Leased(w)' /\ Fresh(w)'
  BY <1>1 DEF Memory, Leased, Fresh, Processing
<1>3. Loaded(w)'
  <2>1. Sockets(sql[w].rows) = Sockets(RowsOf(sql[w].run)) /\ \A row \in sql[w].rows : row.status = "Pending"
    BY <1>1 DEF Memory, Loaded, Processing
  <2>2. Sockets(sql[w].rows)' = Sockets(sql[w].rows)
    BY DEF Sockets, Socket
  <2>3. Sockets(RowsOf(sql[w].run))' = Sockets(RowsOf(sql[w].run))
    BY DEF Sockets, RowsOf, Socket
  <2> QED
    BY <2>1, <2>2, <2>3 DEF Loaded
<1>4. Counted(w)'
  <2>1. Visited(w)' = Visited(w)
    BY DEF Visited, Sockets, Socket
  <2>2. FailedRows(w)' = FailedRows(w)
    BY DEF FailedRows
  <2>3. Remaining(w)' = Remaining(w)
    BY DEF Remaining, Group, Sockets, Socket
  <2> QED
    BY <1>1, <2>1, <2>2, <2>3 DEF Memory, Counted
<1> QED
  BY <1>2, <1>3, <1>4 DEF Memory

LEMMA FailingFacts ==
    ASSUME SqlTypeOK, NEW w \in SqlCollectors, NEW e \in Endpoints, NEW otherMessage
    PROVE  LET F == Failing(w, e, otherMessage)
           IN  /\ F[w].pc = sql[w].pc /\ F[w].run = sql[w].run /\ F[w].counted = sql[w].counted
               /\ F[w].rows = sql[w].rows /\ F[w].found = sql[w].found
               /\ F[w].observed = sql[w].observed /\ F[w].unmatched = sql[w].unmatched
               /\ F[w].outcome = [sql[w].outcome EXCEPT ![e] = "Failed"]
               /\ DOMAIN F[w] = DOMAIN sql[w] /\ DOMAIN F = SqlCollectors
<1> DEFINE F == Failing(w, e, otherMessage)
           W == IF sqlServers[e].status # "Failed" \/ otherMessage
                THEN sql[w].writes \union {e} ELSE sql[w].writes
<1>1. /\ sql \in [SqlCollectors -> SqlWorker]
      /\ DOMAIN sql[w] = {"pc", "run", "counted", "rows", "outcome", "observed", "matched",
                          "unmatched", "found", "writes", "stale"}
  BY DEF SqlTypeOK, SqlWorker
<1>2. F = [sql EXCEPT ![w].outcome[e] = "Failed", ![w].writes = W]
  BY <1>1 DEF Failing
<1> HIDE DEF F, W
<1>3. F[w] = [sql[w] EXCEPT !.outcome[e] = "Failed", !.writes = W]
  BY <1>1, <1>2
<1> QED
  BY <1>1, <1>2, <1>3 DEF F

\* Reading on: the statements that change nothing but the memory of the worker.
LEMMA LocalKeeps ==
    ASSUME SingleInv, SqlTypeOK', NEW w \in SqlCollectors,
           \/ NothingQueued(w) \/ PickRun(w) \/ LoadStaging(w)
           \/ EndpointUnknown(w) \/ EndpointMatched(w) \/ ReadFailed(w) \/ AggregationFailed(w)
           \/ AllVisited(w) \/ SaveConflict(w) \/ SqlError(w) \/ SqlCrash(w) \/ SqlRestart(w)
    PROVE  Memory(w)' /\ UNCHANGED <<runs, staging, inventory>>
<1>0. /\ SqlTypeOK /\ sql \in [SqlCollectors -> SqlWorker]
      /\ sql[w] \in SqlWorker /\ sql'[w] \in SqlWorker
      /\ DOMAIN sql[w] = {"pc", "run", "counted", "rows", "outcome", "observed", "matched",
                          "unmatched", "found", "writes", "stale"}
      /\ sql[w].outcome \in [Endpoints -> Outcome]
  BY DEF SingleInv, StagingInv, TypeInv, TypeOK, SqlTypeOK, SqlWorker
<1>1. UNCHANGED <<runs, staging, inventory>>
  BY DEF NothingQueued, PickRun, LoadStaging, EndpointUnknown, EndpointMatched, ReadFailed,
     AggregationFailed, AllVisited, SaveConflict, SqlError, SqlCrash, SqlRestart, dbVars
<1>2. CASE \/ NothingQueued(w) \/ SaveConflict(w) \/ SqlError(w) \/ SqlCrash(w) \/ SqlRestart(w)
  <2>1. sql' = [sql EXCEPT ![w] = SqlIdle] \/ sql' = [sql EXCEPT ![w] = SqlDown]
    BY <1>2 DEF NothingQueued, SaveConflict, SqlError, SqlCrash, SqlRestart
  <2>2. sql'[w].pc \in {"Idle", "Pick", "Down"}
    BY <1>0, <2>1 DEF SqlIdle, SqlDown
  <2> QED
    BY <1>1, <2>2, Resting
<1>3. CASE EndpointUnknown(w)
  <2>1. PICK e \in Remaining(w) :
           sql' = [sql EXCEPT
               ![w].outcome[e] = "Unknown",
               ![w].observed[e] = unknown[e],
               ![w].unmatched = @ + Cardinality(Group(w, e))]
    BY <1>3 DEF EndpointUnknown
  <2> DEFINE u == sql[w].unmatched + Cardinality(Group(w, e))
  <2>2. sql' = [sql EXCEPT ![w].outcome[e] = "Unknown", ![w].observed[e] = unknown[e], ![w].unmatched = u]
    BY <1>0, <2>1
  <2> HIDE DEF u
  <2>3. /\ sql'[w].pc = sql[w].pc /\ sql'[w].run = sql[w].run /\ sql'[w].counted = sql[w].counted
        /\ sql'[w].rows = sql[w].rows /\ sql'[w].found = sql[w].found
        /\ sql'[w].outcome = [sql[w].outcome EXCEPT ![e] = "Unknown"]
        /\ sql'[w].matched = sql[w].matched /\ sql'[w].unmatched = u
    BY <1>0, <2>2
  <2>4. /\ sql[w].found = sql[w].found \union {}
        /\ sql[w].matched = sql[w].matched + Cardinality({})
        /\ Group(w, e) \ {} = Group(w, e)
    <3>1. Cardinality({}) = 0 /\ sql[w].matched \in Nat
      BY <1>0, FS_EmptySet DEF SqlWorker
    <3> QED
      BY <3>1
  <2>5. sql'[w].unmatched = sql[w].unmatched + Cardinality(Group(w, e) \ {})
    BY <2>3, <2>4 DEF u
  <2>6. sql[w].pc = "Match"
    BY <1>3 DEF EndpointUnknown
  <2>7. PICK none \in SUBSET Group(w, e) : none = {}
    OBVIOUS
  <2>8. /\ sql'[w].found = sql[w].found \union none
        /\ sql'[w].matched = sql[w].matched + Cardinality(none)
        /\ sql'[w].unmatched = sql[w].unmatched + Cardinality(Group(w, e) \ none)
    BY <2>3, <2>4, <2>5, <2>7
  <2>9. /\ sql'[w].pc = "Match" /\ sql'[w].run = sql[w].run /\ sql'[w].counted = sql[w].counted
        /\ sql'[w].rows = sql[w].rows
        /\ sql'[w].outcome = [sql[w].outcome EXCEPT ![e] = "Unknown"]
    BY <2>3, <2>6
  <2> QED
    BY <1>0, <1>1, <2>6, <2>8, <2>9, Visit
<1>4. CASE EndpointMatched(w)
  <2>1. PICK e \in Remaining(w) : \E open \in SUBSET Group(w, e) :
           sql' = [sql EXCEPT
                ![w].outcome[e] = "Success",
                ![w].matched = @ + Cardinality(open),
                ![w].unmatched = @ + Cardinality(Group(w, e) \ open),
                ![w].found = @ \union open,
                ![w].writes = IF sqlServers[e].status # "Success" THEN @ \union {e} ELSE @]
    BY <1>4 DEF EndpointMatched
  <2>2. PICK open \in SUBSET Group(w, e) :
           sql' = [sql EXCEPT
                ![w].outcome[e] = "Success",
                ![w].matched = @ + Cardinality(open),
                ![w].unmatched = @ + Cardinality(Group(w, e) \ open),
                ![w].found = @ \union open,
                ![w].writes = IF sqlServers[e].status # "Success" THEN @ \union {e} ELSE @]
    BY <2>1
  <2> DEFINE m == sql[w].matched + Cardinality(open)
             u == sql[w].unmatched + Cardinality(Group(w, e) \ open)
             f == sql[w].found \union open
             W == IF sqlServers[e].status # "Success" THEN sql[w].writes \union {e} ELSE sql[w].writes
  <2>3. sql' = [sql EXCEPT ![w].outcome[e] = "Success", ![w].matched = m, ![w].unmatched = u,
                           ![w].found = f, ![w].writes = W]
    BY <1>0, <2>2
  <2> HIDE DEF m, u, f, W
  <2>4. /\ sql'[w].pc = sql[w].pc /\ sql'[w].run = sql[w].run /\ sql'[w].counted = sql[w].counted
        /\ sql'[w].rows = sql[w].rows /\ sql'[w].found = f
        /\ sql'[w].outcome = [sql[w].outcome EXCEPT ![e] = "Success"]
        /\ sql'[w].matched = m /\ sql'[w].unmatched = u
    BY <1>0, <2>3
  <2>5. sql[w].pc = "Match"
    BY <1>4 DEF EndpointMatched
  <2> QED
    BY <1>0, <1>1, <2>4, <2>5, Visit DEF m, u, f
<1>5. CASE ReadFailed(w)
  <2>1. PICK e \in Remaining(w), otherMessage \in BOOLEAN : sql' = Failing(w, e, otherMessage)
    BY <1>5 DEF ReadFailed
  <2>2. sql[w].pc = "Match" /\ e \in Endpoints
    BY <1>5 DEF ReadFailed, Remaining
  <2>3. /\ sql'[w].pc = sql[w].pc /\ sql'[w].run = sql[w].run
        /\ sql'[w].counted = sql[w].counted /\ sql'[w].rows = sql[w].rows
        /\ sql'[w].outcome = [sql[w].outcome EXCEPT ![e] = "Failed"]
    <3> DEFINE F == Failing(w, e, otherMessage)
    <3>1. /\ F[w].pc = sql[w].pc /\ F[w].run = sql[w].run /\ F[w].counted = sql[w].counted
          /\ F[w].rows = sql[w].rows
          /\ F[w].outcome = [sql[w].outcome EXCEPT ![e] = "Failed"]
      BY <1>0, <2>2, FailingFacts
    <3>2. sql' = F
      BY <2>1
    <3> HIDE DEF F
    <3> QED
      BY <3>1, <3>2
  <2> QED
    BY <1>0, <1>1, <2>2, <2>3, VisitFails
<1>6. CASE AggregationFailed(w)
  <2>1. PICK e \in Remaining(w), otherMessage \in BOOLEAN :
           \E open \in SUBSET Group(w, e) : \E aggregated \in SUBSET open :
              sql' = [Failing(w, e, otherMessage) EXCEPT
                 ![w].matched = @ + Cardinality(open),
                 ![w].unmatched = @ + Cardinality(Group(w, e) \ open),
                 ![w].found = @ \union aggregated]
    BY <1>6 DEF AggregationFailed
  <2>7. PICK open \in SUBSET Group(w, e) :
           \E aggregated \in SUBSET open :
              sql' = [Failing(w, e, otherMessage) EXCEPT
                 ![w].matched = @ + Cardinality(open),
                 ![w].unmatched = @ + Cardinality(Group(w, e) \ open),
                 ![w].found = @ \union aggregated]
    BY <2>1
  <2>2. PICK aggregated \in SUBSET open :
              sql' = [Failing(w, e, otherMessage) EXCEPT
                 ![w].matched = @ + Cardinality(open),
                 ![w].unmatched = @ + Cardinality(Group(w, e) \ open),
                 ![w].found = @ \union aggregated]
    BY <2>7
  <2>3. sql[w].pc = "Match" /\ e \in Endpoints
    BY <1>6 DEF AggregationFailed, Remaining
  <2> DEFINE F == Failing(w, e, otherMessage)
             m == F[w].matched + Cardinality(open)
             u == F[w].unmatched + Cardinality(Group(w, e) \ open)
             f == F[w].found \union aggregated
  <2>4. /\ F[w].pc = sql[w].pc /\ F[w].run = sql[w].run /\ F[w].counted = sql[w].counted
        /\ F[w].rows = sql[w].rows
        /\ F[w].outcome = [sql[w].outcome EXCEPT ![e] = "Failed"]
        /\ DOMAIN F[w] = DOMAIN sql[w] /\ DOMAIN F = SqlCollectors
    BY <1>0, <2>3, FailingFacts
  <2>5. sql' = [F EXCEPT ![w].matched = m, ![w].unmatched = u, ![w].found = f]
    <3>1. sql' = [F EXCEPT ![w].matched = @ + Cardinality(open),
                           ![w].unmatched = @ + Cardinality(Group(w, e) \ open),
                           ![w].found = @ \union aggregated]
      BY <2>2
    <3> HIDE DEF F
    <3> QED
      BY <1>0, <2>4, <3>1
  <2> HIDE DEF F, m, u, f
  <2>6. /\ sql'[w].pc = F[w].pc /\ sql'[w].run = F[w].run /\ sql'[w].counted = F[w].counted
        /\ sql'[w].rows = F[w].rows /\ sql'[w].outcome = F[w].outcome
    BY <1>0, <2>4, <2>5
  <2> QED
    BY <1>0, <1>1, <2>3, <2>4, <2>6, VisitFails
<1>7. CASE AllVisited(w)
  <2>1. /\ sql[w].pc = "Match" /\ Remaining(w) = {} /\ sql'[w].pc = "Delete"
        /\ sql'[w] = [sql[w] EXCEPT !.pc = "Delete"]
    BY <1>0, <1>7 DEF AllVisited
  <2>2. /\ sql'[w].run = sql[w].run /\ sql'[w].counted = sql[w].counted
        /\ sql'[w].rows = sql[w].rows /\ sql'[w].outcome = sql[w].outcome
        /\ sql'[w].found = sql[w].found /\ sql'[w].matched = sql[w].matched
        /\ sql'[w].unmatched = sql[w].unmatched
    BY <1>0, <2>1
  <2> QED
    BY <1>1, <2>1, <2>2, MemoryOn
<1> QED
  BY <1>1, <1>2, <1>3, <1>4, <1>5, <1>6, <1>7, PickKeeps, LoadKeeps

-----------------------------------------------------------------------------
(* The statements with which the SQL collector moves and finishes a run.   *)

Open == {"ReadyForSql", "Partial", "ProcessingSql"}

\* A run is put back or taken.
RunMoved(r) ==
    /\ runs[r].status \in Open /\ runs'[r].status \in Open
    /\ runs'[r].done = runs[r].done /\ runs'[r].ok = runs[r].ok
    /\ runs'[r].matched = runs[r].matched /\ runs'[r].unmatched = runs[r].unmatched

LEMMA MoveTables ==
    ASSUME SingleInv, UNCHANGED <<staging, iis>>,
           \A r \in RunIds : runs'[r] = runs[r] \/ RunMoved(r),
           \A r \in RunIds : runs[r].status = "Completed" => InventoryOf(r)' = InventoryOf(r)
    PROVE  TablesSound'
<1>0. /\ staging \subseteq StagingRow /\ iis \in [IisCollectors -> IisWorker]
      /\ \A x \in staging : x.run \in RunIds
  BY DEF SingleInv, StagingInv, TypeInv, TypeOK, DbTypeOK, IisTypeOK, StagingRow
<1>1. ASSUME NEW r \in RunIds
      PROVE  /\ runs'[r].done = runs[r].done /\ runs'[r].ok = runs[r].ok
             /\ runs'[r].matched = runs[r].matched /\ runs'[r].unmatched = runs[r].unmatched
             /\ runs'[r].status = runs[r].status
                   \/ (runs[r].status \in Open /\ runs'[r].status \in Open)
             /\ runs'[r].status = "Completed" => runs'[r] = runs[r]
  BY DEF RunMoved, Open
<1>2. RunsSound'
  <2>1. ASSUME NEW r \in RunIds
        PROVE  /\ runs'[r].done <=> runs'[r].status \in {"Completed", "Failed", "Expired"}
               /\ ~runs'[r].done => runs'[r].matched = 0 /\ runs'[r].unmatched = 0
    BY <1>1 DEF SingleInv, RunsSound, Open
  <2> QED
    BY <2>1 DEF RunsSound
<1>3. CollectorsPending'
  <2>1. ASSUME NEW c \in IisCollectors, iis[c].run # 0
        PROVE  runs'[iis[c].run].status = "PendingIis"
    <3>1. iis[c].run \in RunIds /\ runs[iis[c].run].status = "PendingIis"
      BY <1>0, <2>1 DEF IisWorker, SingleInv, CollectorsPending
    <3> QED
      BY <1>1, <3>1 DEF Open
  <2> QED
    BY <2>1 DEF CollectorsPending
<1>4. RowsOfSuccess'
  BY <1>0, <1>1 DEF SingleInv, RowsOfSuccess
<1>5. RowStatusFollowsRun'
  <2>1. ASSUME NEW x \in staging
        PROVE  x.status = IF runs'[x.run].done THEN runs'[x.run].status ELSE "Pending"
    <3>1. x.status = IF runs[x.run].done THEN runs[x.run].status ELSE "Pending"
      BY DEF SingleInv, RowStatusFollowsRun
    <3>2. runs[x.run].done => runs[x.run].status \notin Open
      BY <1>0 DEF SingleInv, RunsSound, Open
    <3> QED
      BY <1>0, <1>1, <3>1, <3>2
  <2> QED
    BY <2>1 DEF RowStatusFollowsRun
<1>7. CompletedRunsKeepInventory'
  <2>1. ASSUME NEW r \in RunIds, runs'[r].status = "Completed"
        PROVE  Cardinality(InventoryOf(r))' = runs'[r].matched
    <3>1. InventoryOf(r)' = InventoryOf(r) /\ Cardinality(InventoryOf(r)) = runs[r].matched
      BY <1>1, <2>1 DEF SingleInv, CompletedRunsKeepInventory
    <3> QED
      BY <1>1, <2>1, <3>1
  <2> QED
    BY <2>1 DEF CompletedRunsKeepInventory
<1> QED
  BY <1>2, <1>3, <1>4, <1>5, <1>7 DEF TablesSound

LEMMA FinishTables ==
    ASSUME SingleInv, UNCHANGED iis, NEW r \in RunIds, runs[r].status = "ProcessingSql",
           NEW t \in {"Completed", "Failed", "Expired"},
           runs'[r].status = t, runs'[r].done, runs'[r].ok = runs[r].ok,
           \A q \in RunIds : q # r => runs'[q] = runs[q],
           \A y \in staging' : y.run # r => y \in staging,
           \A y \in staging' : y.run = r => y.status = t /\ \E x \in staging : x.run = r,
           t = "Completed" => /\ \A y \in staging' : y.run # r
                              /\ Cardinality(InventoryOf(r))' = runs'[r].matched,
           \A q \in RunIds : q # r => InventoryOf(q)' = InventoryOf(q)
    PROVE  TablesSound'
<1>0. /\ iis \in [IisCollectors -> IisWorker] /\ staging \subseteq StagingRow
      /\ \A x \in staging : x.run \in RunIds
  BY DEF SingleInv, StagingInv, TypeInv, TypeOK, DbTypeOK, IisTypeOK, StagingRow
<1>1. RunsSound'
  <2>1. ASSUME NEW q \in RunIds
        PROVE  /\ runs'[q].done <=> runs'[q].status \in {"Completed", "Failed", "Expired"}
               /\ ~runs'[q].done => runs'[q].matched = 0 /\ runs'[q].unmatched = 0
    <3>1. CASE q = r
      BY <3>1
    <3>2. CASE q # r
      BY <3>2 DEF SingleInv, RunsSound
    <3> QED
      BY <3>1, <3>2
  <2> QED
    BY <2>1 DEF RunsSound
<1>2. CollectorsPending'
  <2>1. ASSUME NEW c \in IisCollectors, iis[c].run # 0
        PROVE  runs'[iis[c].run].status = "PendingIis"
    <3>1. iis[c].run \in RunIds /\ runs[iis[c].run].status = "PendingIis"
      BY <1>0, <2>1 DEF IisWorker, SingleInv, CollectorsPending
    <3> QED
      BY <3>1
  <2> QED
    BY <2>1 DEF CollectorsPending
<1>3. RowsOfSuccess'
  <2>1. ASSUME NEW y \in staging' PROVE runs'[y.run].ok > 0
    <3>1. CASE y.run = r
      <4>1. PICK x \in staging : x.run = r
        BY <3>1
      <4> QED
        BY <3>1, <4>1 DEF SingleInv, RowsOfSuccess
    <3>2. CASE y.run # r
      BY <1>0, <3>2 DEF SingleInv, RowsOfSuccess
    <3> QED
      BY <3>1, <3>2
  <2> QED
    BY <2>1 DEF RowsOfSuccess
<1>4. RowStatusFollowsRun'
  <2>1. ASSUME NEW y \in staging'
        PROVE  y.status = IF runs'[y.run].done THEN runs'[y.run].status ELSE "Pending"
    <3>1. CASE y.run = r
      BY <3>1
    <3>2. CASE y.run # r
      BY <1>0, <3>2 DEF SingleInv, RowStatusFollowsRun
    <3> QED
      BY <3>1, <3>2
  <2> QED
    BY <2>1 DEF RowStatusFollowsRun
<1>6. CompletedRunsKeepInventory'
  <2>1. ASSUME NEW q \in RunIds, runs'[q].status = "Completed"
        PROVE  Cardinality(InventoryOf(q))' = runs'[q].matched
    <3>1. CASE q = r
      BY <2>1, <3>1
    <3>2. CASE q # r
      <4>1. InventoryOf(q)' = InventoryOf(q) /\ Cardinality(InventoryOf(q)) = runs[q].matched
        BY <2>1, <3>2 DEF SingleInv, CompletedRunsKeepInventory
      <4> QED
        BY <3>2, <4>1
    <3> QED
      BY <3>1, <3>2
  <2> QED
    BY <2>1 DEF CompletedRunsKeepInventory
<1> QED
  BY <1>1, <1>2, <1>3, <1>4, <1>6 DEF TablesSound

LEMMA RequeueKeeps ==
    ASSUME SingleInv, NEW w \in SqlCollectors, Requeue(w), UNCHANGED iis
    PROVE  TablesSound' /\ Memory(w)'
<1>0. /\ runs \in [RunIds -> Run] /\ sql \in [SqlCollectors -> SqlWorker]
      /\ UNCHANGED <<staging, inventory>>
  BY DEF SingleInv, StagingInv, TypeInv, TypeOK, DbTypeOK, SqlTypeOK, Requeue
<1>1. ASSUME NEW r \in RunIds PROVE runs'[r] = runs[r] \/ RunMoved(r)
  <2>1. \/ runs'[r] = runs[r]
        \/ runs[r].status = "ProcessingSql" /\ runs'[r] = [runs[r] EXCEPT !.status = "ReadyForSql"]
    BY DEF Requeue
  <2>2. runs[r] \in Run
    BY <1>0
  <2> QED
    BY <2>1, <2>2 DEF RunMoved, Open, Run
<1>2. TablesSound'
  BY <1>0, <1>1, MoveTables DEF InventoryOf
<1>3. sql'[w].pc = "Pick"
  BY <1>0 DEF Requeue, SqlIdle
<1> QED
  BY <1>2, <1>3, Resting

LEMMA LeaseKeeps ==
    ASSUME SingleInv, NEW w \in SqlCollectors, LeaseRun(w), UNCHANGED iis
    PROVE  TablesSound' /\ Memory(w)'
<1> DEFINE r == sql[w].run
<1>0. /\ runs \in [RunIds -> Run] /\ sql \in [SqlCollectors -> SqlWorker] /\ sql[w] \in SqlWorker
      /\ r \in RunIds /\ runs[r] \in Run /\ sql[w].pc = "Lease" /\ Memory(w)
      /\ UNCHANGED <<staging, inventory>>
  BY DEF SingleInv, StagingInv, TypeInv, TypeOK, DbTypeOK, SqlTypeOK, WorkersHaveRuns, LeaseRun
<1>1. runs' = [runs EXCEPT ![r].status = "ProcessingSql"]
  BY DEF LeaseRun
<1>2. runs[r].status \in {"ReadyForSql", "Partial"}
  BY <1>0 DEF Memory, Leased
<1>3. sql'[w] = [sql[w] EXCEPT !.pc = "Load"]
  BY <1>0 DEF LeaseRun
<1>4. /\ sql'[w].pc = "Load" /\ sql'[w].run = r /\ sql'[w].counted = sql[w].counted
      /\ sql'[w].outcome = sql[w].outcome /\ sql'[w].found = sql[w].found
      /\ sql'[w].matched = sql[w].matched /\ sql'[w].unmatched = sql[w].unmatched
  BY <1>0, <1>3 DEF SqlWorker
<1> HIDE DEF r
<1>5. runs'[r] = [runs[r] EXCEPT !.status = "ProcessingSql"] /\ \A q \in RunIds : q # r => runs'[q] = runs[q]
  BY <1>0, <1>1
<1>6. RunMoved(r) /\ runs'[r].status = "ProcessingSql"
  BY <1>0, <1>2, <1>5 DEF RunMoved, Open, Run
<1>7. TablesSound'
  BY <1>0, <1>5, <1>6, MoveTables DEF InventoryOf
<1>8. Memory(w)'
  BY <1>0, <1>4, <1>6 DEF Memory, Leased, Fresh, Loaded, Counted, Processing
<1> QED
  BY <1>7, <1>8

LEMMA DeleteKeeps ==
    ASSUME SingleInv, NEW w \in SqlCollectors, DeleteInventory(w), UNCHANGED iis
    PROVE  TablesSound' /\ Memory(w)'
<1>0. /\ sql \in [SqlCollectors -> SqlWorker] /\ sql[w] \in SqlWorker
      /\ sql[w].pc = "Delete" /\ Memory(w) /\ UNCHANGED <<runs, staging>>
  BY DEF SingleInv, StagingInv, TypeInv, TypeOK, SqlTypeOK, DeleteInventory
<1>1. sql'[w] = [sql[w] EXCEPT !.pc = "Save"]
  BY <1>0 DEF DeleteInventory
<1>2. /\ sql'[w].pc = "Save" /\ sql'[w].run = sql[w].run /\ sql'[w].counted = sql[w].counted
      /\ sql'[w].rows = sql[w].rows /\ sql'[w].outcome = sql[w].outcome
      /\ sql'[w].found = sql[w].found /\ sql'[w].matched = sql[w].matched
      /\ sql'[w].unmatched = sql[w].unmatched
  BY <1>0, <1>1 DEF SqlWorker
<1>3. Remaining(w) = {}
  BY <1>0 DEF Memory, Counted
<1>4. Memory(w)'
  BY <1>0, <1>2, <1>3, MemoryOn
<1>5. runs[sql[w].run].status = "ProcessingSql"
  BY <1>0 DEF Memory, Leased, Processing
<1>6. ASSUME NEW r \in RunIds, runs[r].status = "Completed" PROVE InventoryOf(r)' = InventoryOf(r)
  <2>1. r # sql[w].run
    BY <1>5, <1>6
  <2>2. inventory' = inventory \ {x \in inventory : x.run = sql[w].run}
    BY DEF DeleteInventory, InventoryOf
  <2>3. {x \in inventory' : x.run = r} = {x \in inventory : x.run = r}
    BY <2>1, <2>2
  <2> QED
    BY <2>3 DEF InventoryOf
<1>7. TablesSound'
  BY <1>0, <1>6, MoveTables
<1> QED
  BY <1>4, <1>7

\* A run whose rows the step takes away, each of them counted once.
CountedAll(r) ==
    /\ runs'[r].matched + runs'[r].unmatched = Cardinality(RowsOf(r))
    /\ RowsOf(r)' = {}

\* The run that is about to be finished: it is open, so no inventory is left of it.
LEMMA Finishing ==
    ASSUME SingleInv, NEW w \in SqlCollectors, sql[w].pc \in Processing
    PROVE  /\ sql[w].run \in RunIds /\ runs[sql[w].run].status = "ProcessingSql"
           /\ ~runs[sql[w].run].done
           /\ runs[sql[w].run].matched = 0 /\ runs[sql[w].run].unmatched = 0
           /\ sql[w].counted.matched = 0 /\ sql[w].counted.unmatched = 0
           /\ InventoryOf(sql[w].run) = {}
           /\ Cardinality(Sockets(RowsOf(sql[w].run))) = Cardinality(RowsOf(sql[w].run))
<1>1. sql[w].run \in RunIds
  BY DEF SingleInv, StagingInv, TypeInv, WorkersHaveRuns, Processing
<1>2. /\ runs[sql[w].run].status = "ProcessingSql"
      /\ sql[w].counted.matched = 0 /\ sql[w].counted.unmatched = 0
  BY DEF SingleInv, Memory, Leased
<1>3. ~runs[sql[w].run].done /\ runs[sql[w].run].matched = 0 /\ runs[sql[w].run].unmatched = 0
  BY <1>1, <1>2 DEF SingleInv, RunsSound
<1>4. InventoryOf(sql[w].run) = {}
  BY <1>3 DEF SingleInv, InventoryOnlyOfFinishedRuns, InventoryOf
<1>5. Cardinality(Sockets(RowsOf(sql[w].run))) = Cardinality(RowsOf(sql[w].run))
  BY <1>1, RowsAreSockets DEF SingleInv
<1> QED
  BY <1>1, <1>2, <1>3, <1>4, <1>5

LEMMA SaveEmptyKeeps ==
    ASSUME SingleInv, NEW w \in SqlCollectors, SaveEmpty(w), UNCHANGED iis
    PROVE  /\ TablesSound' /\ Memory(w)'
           /\ \A r \in RunIds : r = sql[w].run => CountedAll(r)
<1>1. PICK r : r = sql[w].run
  OBVIOUS
<1>2. /\ runs \in [RunIds -> Run] /\ sql \in [SqlCollectors -> SqlWorker]
      /\ sql[w].pc = "SaveEmpty" /\ Memory(w) /\ UNCHANGED <<staging, inventory>>
  BY DEF SingleInv, StagingInv, TypeInv, TypeOK, DbTypeOK, SqlTypeOK, SaveEmpty
<1>3. /\ r \in RunIds /\ runs[r].status = "ProcessingSql"
      /\ runs[r].matched = 0 /\ runs[r].unmatched = 0
      /\ InventoryOf(r) = {} /\ Cardinality(Sockets(RowsOf(r))) = Cardinality(RowsOf(r))
  BY <1>1, <1>2, Finishing DEF Processing
<1>4. runs' = [runs EXCEPT ![r].status = "Completed", ![r].done = TRUE]
  BY <1>1 DEF SaveEmpty
<1>5. /\ runs'[r].status = "Completed" /\ runs'[r].done /\ runs'[r].ok = runs[r].ok
      /\ runs'[r].matched = runs[r].matched /\ runs'[r].unmatched = runs[r].unmatched
      /\ \A q \in RunIds : q # r => runs'[q] = runs[q]
  BY <1>2, <1>3, <1>4 DEF Run
<1>6. Sockets(RowsOf(r)) = {}
  <2>1. sql[w].rows = {} /\ Sockets(sql[w].rows) = Sockets(RowsOf(r))
    BY <1>1, <1>2 DEF Memory, Loaded, Processing
  <2> QED
    BY <2>1 DEF Sockets
<1>7. \A y \in staging' : y.run # r
  BY <1>2, <1>6 DEF Sockets, RowsOf
<1>8. Cardinality(RowsOf(r)) = 0 /\ Cardinality({}) = 0
  BY <1>3, <1>6, FS_EmptySet
<1>9. InventoryOf(r)' = {} /\ \A q \in RunIds : InventoryOf(q)' = InventoryOf(q)
  BY <1>2, <1>3 DEF InventoryOf
<1>10. Cardinality(InventoryOf(r))' = runs'[r].matched
  BY <1>3, <1>5, <1>8, <1>9
<1>11. CountedAll(r)
  BY <1>3, <1>5, <1>7, <1>8 DEF CountedAll, RowsOf
<1>12. PICK t \in {"Completed", "Failed", "Expired"} : t = "Completed"
  OBVIOUS
<1>13. TablesSound'
  BY <1>2, <1>3, <1>5, <1>7, <1>9, <1>10, <1>12, FinishTables
<1>14. sql'[w].pc = "Idle"
  BY <1>2 DEF SaveEmpty, SqlIdle
<1>15. \A q \in RunIds : q = sql[w].run => CountedAll(q)
  BY <1>1, <1>11
<1> QED
  BY <1>13, <1>14, <1>15, Resting

LEMMA SaveExpiredKeeps ==
    ASSUME SingleInv, NEW w \in SqlCollectors, SaveExpired(w), UNCHANGED iis
    PROVE  TablesSound' /\ Memory(w)'
<1>1. PICK r : r = sql[w].run
  OBVIOUS
<1>2. /\ runs \in [RunIds -> Run] /\ sql \in [SqlCollectors -> SqlWorker]
      /\ staging \subseteq StagingRow
      /\ sql[w].pc = "SaveExpired" /\ Memory(w) /\ UNCHANGED inventory
  BY DEF SingleInv, StagingInv, TypeInv, TypeOK, DbTypeOK, SqlTypeOK, SaveExpired
<1>3. r \in RunIds /\ runs[r].status = "ProcessingSql"
  BY <1>1, <1>2, Finishing DEF Processing
<1>4. runs' = [runs EXCEPT ![r].status = "Expired", ![r].done = TRUE]
  BY <1>1 DEF SaveExpired
<1>5. /\ runs'[r].status = "Expired" /\ runs'[r].done /\ runs'[r].ok = runs[r].ok
      /\ \A q \in RunIds : q # r => runs'[q] = runs[q]
  BY <1>2, <1>3, <1>4 DEF Run
<1>6. Sockets(sql[w].rows) = Sockets(RowsOf(r))
  BY <1>1, <1>2 DEF Memory, Loaded, Processing
<1>7. ASSUME NEW x \in staging
      PROVE  (\E row \in sql[w].rows : IsCopy(w, x, row)) <=> x.run = r
  <2>1. ASSUME x.run = r PROVE \E row \in sql[w].rows : IsCopy(w, x, row)
    <3>1. Socket(x) \in Sockets(sql[w].rows)
      BY <1>6, <2>1 DEF Sockets, RowsOf
    <3> QED
      BY <1>1, <2>1, <3>1 DEF Sockets, IsCopy
  <2>2. (\E row \in sql[w].rows : IsCopy(w, x, row)) => x.run = r
    BY <1>1 DEF IsCopy
  <2> QED
    BY <2>1, <2>2
<1>8. staging' = {IF x.run = r THEN [x EXCEPT !.status = "Expired"] ELSE x : x \in staging}
  <2>1. staging' = {IF \E row \in sql[w].rows : IsCopy(w, x, row)
                    THEN [x EXCEPT !.status = "Expired"] ELSE x : x \in staging}
    BY DEF SaveExpired
  <2> QED
    BY <1>7, <2>1
<1>9. ASSUME NEW y \in staging'
      PROVE  /\ y.run # r => y \in staging
             /\ y.run = r => y.status = "Expired" /\ \E x \in staging : x.run = r
  <2>1. PICK x \in staging : y = IF x.run = r THEN [x EXCEPT !.status = "Expired"] ELSE x
    BY <1>8
  <2>2. CASE x.run = r
    <3>1. y = [x EXCEPT !.status = "Expired"] /\ x \in StagingRow
      BY <1>2, <2>1, <2>2
    <3>2. y.run = r /\ y.status = "Expired"
      BY <2>2, <3>1 DEF StagingRow
    <3> QED
      BY <2>2, <3>2
  <2>3. CASE x.run # r
    BY <2>1, <2>3
  <2> QED
    BY <2>2, <2>3
<1>10. \A q \in RunIds : InventoryOf(q)' = InventoryOf(q)
  BY <1>2 DEF InventoryOf
<1>11. PICK t \in {"Completed", "Failed", "Expired"} : t = "Expired"
  OBVIOUS
<1>12. TablesSound'
  BY <1>3, <1>5, <1>9, <1>10, <1>11, FinishTables
<1>13. sql'[w].pc = "Idle"
  BY <1>2 DEF SaveExpired, SqlIdle
<1> QED
  BY <1>12, <1>13, Resting

\* Each matched socket becomes one row of the inventory.
LEMMA RowForSocket ==
    ASSUME NEW r, NEW found \in SUBSET SocketId
    PROVE  LET new == {[run |-> r, server |-> k.server, ip |-> k.ip] : k \in found}
           IN  Cardinality(new) = Cardinality(found)
<1> DEFINE new == {[run |-> r, server |-> k.server, ip |-> k.ip] : k \in found}
           f == [k \in found |-> [run |-> r, server |-> k.server, ip |-> k.ip]]
<1>1. IsFiniteSet(found)
  BY SocketIdFinite, FS_Subset
<1>2. f \in Bijection(found, new)
  <2>1. f \in [found -> new]
    OBVIOUS
  <2>2. \A y \in new : \E k \in found : f[k] = y
    OBVIOUS
  <2>3. ASSUME NEW k \in found, NEW l \in found, f[k] = f[l] PROVE k = l
    <3>1. /\ f[k].server = k.server /\ f[k].ip = k.ip
          /\ f[l].server = l.server /\ f[l].ip = l.ip
      OBVIOUS
    <3> HIDE DEF f
    <3>2. k.server = l.server /\ k.ip = l.ip /\ k \in SocketId /\ l \in SocketId
      BY <2>3, <3>1
    <3> QED
      BY <3>2 DEF SocketId
  <2> HIDE DEF f, new
  <2> QED
    BY <2>1, <2>2, <2>3 DEF Bijection, Injection, Surjection, IsInjective
<1> HIDE DEF f, new
<1>3. Cardinality(new) = Cardinality(found)
  BY <1>1, <1>2, FS_Bijection DEF ExistsBijection
<1> QED
  BY <1>3 DEF new

\* What the save of a result makes of its run.
LEMMA ResultRun ==
    ASSUME SingleInv, NEW w \in SqlCollectors, SaveResult(w), NEW r, r = sql[w].run
    PROVE  /\ runs'[r].status = IF FailedRows(w) = {} THEN "Completed" ELSE "Failed"
           /\ runs'[r].done /\ runs'[r].ok = runs[r].ok /\ runs'[r].staged = runs[r].staged
           /\ runs'[r].matched = sql[w].matched /\ runs'[r].unmatched = sql[w].unmatched
           /\ \A q \in RunIds : q # r => runs'[q] = runs[q]
<1>1. runs \in [RunIds -> Run] /\ sql[w] \in SqlWorker /\ sql[w].pc = "Save"
  BY DEF SingleInv, StagingInv, TypeInv, TypeOK, DbTypeOK, SqlTypeOK, SaveResult
<1>2. /\ r \in RunIds /\ runs[r].matched = 0 /\ runs[r].unmatched = 0
      /\ sql[w].counted.matched = 0 /\ sql[w].counted.unmatched = 0
  BY <1>1, Finishing DEF Processing
<1> DEFINE t == IF FailedRows(w) = {} THEN "Completed" ELSE "Failed"
           m(n) == Written(n, sql[w].counted.matched, sql[w].matched)
           u(n) == Written(n, sql[w].counted.unmatched, sql[w].unmatched)
<1>3. runs' = [runs EXCEPT ![r].status = t, ![r].done = TRUE, ![r].matched = m(@), ![r].unmatched = u(@)]
  BY DEF SaveResult
<1>4. m(0) = sql[w].matched /\ u(0) = sql[w].unmatched
  BY <1>1, <1>2 DEF Written, SqlWorker
<1> HIDE DEF t, m, u
<1>5. /\ runs'[r] = [runs[r] EXCEPT !.status = t, !.done = TRUE, !.matched = m(@), !.unmatched = u(@)]
      /\ \A q \in RunIds : q # r => runs'[q] = runs[q]
  BY <1>1, <1>2, <1>3
<1>6. runs[r] \in Run
  BY <1>1, <1>2
<1>7. /\ runs'[r].status = t /\ runs'[r].done /\ runs'[r].ok = runs[r].ok
      /\ runs'[r].staged = runs[r].staged
  BY <1>5, <1>6 DEF Run
<1>8. runs'[r].matched = m(runs[r].matched) /\ runs'[r].unmatched = u(runs[r].unmatched)
  BY <1>5, <1>6 DEF Run
<1> QED
  BY <1>2, <1>4, <1>5, <1>7, <1>8 DEF t

LEMMA SaveResultKeeps ==
    ASSUME SingleInv, NEW w \in SqlCollectors, SaveResult(w), UNCHANGED iis
    PROVE  /\ TablesSound' /\ Memory(w)'
           /\ \A r \in RunIds : r = sql[w].run /\ runs'[r].status = "Completed" => CountedAll(r)
<1>1. PICK r : r = sql[w].run
  OBVIOUS
<1>2. /\ runs \in [RunIds -> Run] /\ sql[w] \in SqlWorker /\ staging \subseteq StagingRow
      /\ sql[w].pc = "Save" /\ Memory(w)
  BY DEF SingleInv, StagingInv, TypeInv, TypeOK, DbTypeOK, SqlTypeOK, SaveResult
<1>3. /\ r \in RunIds /\ runs[r].status = "ProcessingSql"
      /\ runs[r].matched = 0 /\ runs[r].unmatched = 0
      /\ sql[w].counted.matched = 0 /\ sql[w].counted.unmatched = 0
      /\ InventoryOf(r) = {} /\ Cardinality(Sockets(RowsOf(r))) = Cardinality(RowsOf(r))
  BY <1>1, <1>2, Finishing DEF Processing
<1> DEFINE t == IF FailedRows(w) = {} THEN "Completed" ELSE "Failed"
<1>6. /\ t \in {"Completed", "Failed", "Expired"} /\ (t = "Completed" <=> FailedRows(w) = {})
      /\ (t = "Failed" <=> FailedRows(w) # {})
  OBVIOUS
<1>7. /\ runs'[r].status = t /\ runs'[r].done /\ runs'[r].ok = runs[r].ok
      /\ runs'[r].staged = runs[r].staged
      /\ runs'[r].matched = sql[w].matched /\ runs'[r].unmatched = sql[w].unmatched
      /\ \A q \in RunIds : q # r => runs'[q] = runs[q]
  BY <1>1, ResultRun
<1> HIDE DEF t
<1>8. /\ Sockets(sql[w].rows) = Sockets(RowsOf(r)) /\ \A row \in sql[w].rows : row.status = "Pending"
      /\ Remaining(w) = {}
      /\ FailedRows(w) = {} =>
           /\ sql[w].found \subseteq Visited(w)
           /\ Cardinality(sql[w].found) = sql[w].matched
           /\ sql[w].matched + sql[w].unmatched = Cardinality(Visited(w))
  BY <1>1, <1>2 DEF Memory, Loaded, Counted, Processing
<1>9. RemovedRows(w) = sql[w].rows \ FailedRows(w)
  BY <1>8 DEF RemovedRows
<1>10. ASSUME NEW x \in staging, x.run = r, ~\E row \in RemovedRows(w) : IsCopy(w, x, row)
       PROVE  \E row \in FailedRows(w) : IsCopy(w, x, row)
  <2>1. Socket(x) \in Sockets(sql[w].rows)
    BY <1>8, <1>10 DEF Sockets, RowsOf
  <2>2. PICK row \in sql[w].rows : IsCopy(w, x, row)
    BY <1>1, <1>10, <2>1 DEF Sockets, IsCopy
  <2> QED
    BY <1>9, <1>10, <2>2
<1>11. ASSUME NEW y \in staging'
       PROVE  /\ y.run # r => y \in staging
              /\ y.run = r => /\ y.status = "Failed" /\ FailedRows(w) # {}
                              /\ \E x \in staging : x.run = r
  <2>1. PICK x \in staging : /\ ~\E row \in RemovedRows(w) : IsCopy(w, x, row)
                             /\ y = IF \E row \in FailedRows(w) : IsCopy(w, x, row)
                                    THEN [x EXCEPT !.status = "Failed"] ELSE x
    BY DEF SaveResult
  <2>2. CASE \E row \in FailedRows(w) : IsCopy(w, x, row)
    <3>1. y = [x EXCEPT !.status = "Failed"] /\ x \in StagingRow /\ x.run = r
      BY <1>1, <1>2, <2>1, <2>2 DEF IsCopy
    <3>2. y.run = r /\ y.status = "Failed"
      BY <3>1 DEF StagingRow
    <3> QED
      BY <2>2, <3>1, <3>2
  <2>3. CASE ~\E row \in FailedRows(w) : IsCopy(w, x, row)
    <3>1. y = x
      BY <2>1, <2>3
    <3>2. x.run # r
      BY <1>10, <2>1, <2>3
    <3> QED
      BY <3>1, <3>2
  <2> QED
    BY <2>2, <2>3
<1>12. Visited(w) = Sockets(sql[w].rows)
  <2>1. ASSUME NEW k \in Sockets(sql[w].rows) PROVE sql[w].outcome[k.ip] # "None"
    <3>1. k \in Group(w, k.ip) /\ k.ip \in Endpoints
      <4>1. k \in SocketId
        BY <1>2, GroupFacts
      <4> QED
        BY <1>2, <4>1, GroupFacts DEF SocketId
    <3> QED
      BY <1>8, <3>1 DEF Remaining
  <2> QED
    BY <2>1 DEF Visited
<1>13. /\ \A y \in inventory' : y \in inventory \/ y \in NewInventory(w)
       /\ \A x \in NewInventory(w) : x.run = r
       /\ inventory' = inventory \union NewInventory(w)
  <2>1. inventory' = inventory \union NewInventory(w)
    BY DEF SaveResult
  <2>2. \A x \in NewInventory(w) : x.run = r
    BY <1>1 DEF NewInventory
  <2> QED
    BY <2>1, <2>2
<1>14. ASSUME NEW q \in RunIds, q # r PROVE InventoryOf(q)' = InventoryOf(q)
  <2>1. {x \in inventory' : x.run = q} = {x \in inventory : x.run = q}
    BY <1>13, <1>14
  <2> QED
    BY <2>1 DEF InventoryOf
<1>15. ASSUME t = "Completed"
       PROVE  /\ \A y \in staging' : y.run # r
              /\ CountedAll(r)
              /\ Cardinality(InventoryOf(r))' = runs'[r].matched
  <2>1. \A y \in staging' : y.run # r
    BY <1>6, <1>11, <1>15
  <2>2. CountedAll(r)
    BY <1>3, <1>6, <1>7, <1>8, <1>12, <1>15, <2>1 DEF CountedAll, RowsOf
  <2>3. InventoryOf(r)' = NewInventory(w)
    <3>1. \A x \in inventory : x.run # r
      BY <1>3 DEF InventoryOf
    <3>2. {x \in inventory' : x.run = r} = NewInventory(w)
      BY <1>13, <3>1
    <3> QED
      BY <3>2 DEF InventoryOf
  <2>4. sql[w].found \in SUBSET SocketId
    BY <1>2 DEF SqlWorker
  <2>5. Cardinality(NewInventory(w)) = Cardinality(sql[w].found)
    BY <2>4, RowForSocket DEF NewInventory
  <2> QED
    BY <1>6, <1>7, <1>8, <1>15, <2>1, <2>2, <2>3, <2>5
<1>16. TablesSound'
  BY <1>3, <1>6, <1>7, <1>11, <1>14, <1>15, FinishTables
<1>17. sql'[w].pc = "Idle"
  BY DEF SaveResult, Overtaken, SqlIdle
<1>18. \A q \in RunIds : q = sql[w].run /\ runs'[q].status = "Completed" => CountedAll(q)
  BY <1>1, <1>7, <1>15
<1> QED
  BY <1>16, <1>17, <1>18, Resting

-----------------------------------------------------------------------------
(* The theorems.                                                           *)

LEMMA SingleStart == Init => SingleInv
<1> SUFFICES ASSUME Init PROVE SingleInv
  OBVIOUS
<1>1. StagingInv /\ InventoryOnlyOfFinishedRuns
  BY StagingStart, FinishedStart DEF FinishedInv
<1>2. RunsSound /\ CompletedRunsKeepInventory
  BY DEF Init, DbInit, NoRun, RunsSound, CompletedRunsKeepInventory
<1>3. CollectorsPending /\ RowsOfSuccess /\ RowStatusFollowsRun
  BY DEF Init, DbInit, IisInit, IisIdle, CollectorsPending, RowsOfSuccess, RowStatusFollowsRun
<1>4. \A w \in SqlCollectors : Memory(w)
  BY DEF Init, SqlInit, SqlIdle, Memory, Leased, Fresh, Loaded, Counted, Processing
<1> QED
  BY <1>1, <1>2, <1>3, <1>4 DEF SingleInv

LEMMA SingleStep ==
    ASSUME OneCollector, SingleInv, [Next]_vars
    PROVE  SingleInv'
<1>1. StagingInv'
  BY StartKeeps, CollectKeeps, OthersKeep DEF SingleInv
<1>2. InventoryOnlyOfFinishedRuns'
  BY FinishedStep DEF SingleInv, StagingInv, FinishedInv
<1>3. SqlTypeOK'
  BY <1>1 DEF StagingInv, TypeInv, TypeOK
<1>4. ASSUME NEW w \in SqlCollectors, Memory(w)' PROVE \A v \in SqlCollectors : Memory(v)'
  BY <1>4 DEF OneCollector
<1>5. ASSUME Elsewhere PROVE TablesSound' /\ \A w \in SqlCollectors : Memory(w)'
  BY <1>5, ElsewhereKeeps
<1>6. ASSUME NEW w \in SqlCollectors,
             SqlStep(w) \/ SqlError(w) \/ SqlCrash(w) \/ SqlRestart(w), UNCHANGED iis
      PROVE  TablesSound' /\ Memory(w)'
  <2>1. CASE Requeue(w) \/ LeaseRun(w) \/ DeleteInventory(w)
    BY <1>6, <2>1, RequeueKeeps, LeaseKeeps, DeleteKeeps
  <2>2. CASE SaveEmpty(w) \/ SaveExpired(w) \/ SaveResult(w)
    BY <1>6, <2>2, SaveEmptyKeeps, SaveExpiredKeeps, SaveResultKeeps
  <2>3. CASE \/ NothingQueued(w) \/ PickRun(w) \/ LoadStaging(w)
             \/ EndpointUnknown(w) \/ EndpointMatched(w) \/ ReadFailed(w) \/ AggregationFailed(w)
             \/ AllVisited(w) \/ SaveConflict(w) \/ SqlError(w) \/ SqlCrash(w) \/ SqlRestart(w)
    <3>1. Memory(w)' /\ UNCHANGED <<runs, staging, inventory>>
      BY <1>3, <2>3, LocalKeeps
    <3>2. TablesSound'
      BY <1>6, <3>1, MoveTables DEF InventoryOf
    <3> QED
      BY <3>1, <3>2
  <2> QED
    BY <1>6, <2>1, <2>2, <2>3 DEF SqlStep
<1>7. Elsewhere \/ \E w \in SqlCollectors :
         (SqlStep(w) \/ SqlError(w) \/ SqlCrash(w) \/ SqlRestart(w)) /\ UNCHANGED iis
  BY DEF Next, SqlNext, Elsewhere
<1>8. TablesSound' /\ \A w \in SqlCollectors : Memory(w)'
  BY <1>4, <1>5, <1>6, <1>7, ElsewhereKeeps
<1> QED
  BY <1>1, <1>2, <1>8 DEF SingleInv, TablesSound

LEMMA SingleInvariant == ASSUME OneCollector PROVE Spec => []SingleInv
<1>1. Init => SingleInv
  BY SingleStart
<1>2. SingleInv /\ [Next]_vars => SingleInv'
  BY SingleStep
<1> QED
  BY <1>1, <1>2, PTL DEF Spec

\* A run is completed only by a save of the SQL collector that has counted its rows.
LEMMA CompletionStep ==
    ASSUME SingleInv, [Next]_vars, NEW r \in RunIds,
           runs[r].status # "Completed", runs'[r].status = "Completed"
    PROVE  CountedAll(r)
<1>0. runs \in [RunIds -> Run]
  BY DEF SingleInv, StagingInv, TypeInv, TypeOK, DbTypeOK
<1>1. CASE Elsewhere
  BY <1>1, RunsElsewhere DEF RunSame, RunCollected
<1>2. ASSUME NEW w \in SqlCollectors,
             SqlStep(w) \/ SqlError(w) \/ SqlCrash(w) \/ SqlRestart(w), UNCHANGED iis
      PROVE  CountedAll(r)
  <2>1. CASE SaveEmpty(w)
    <3>1. r = sql[w].run
      BY <1>0, <2>1 DEF SaveEmpty
    <3> QED
      BY <1>2, <2>1, <3>1, SaveEmptyKeeps
  <2>2. CASE SaveResult(w)
    <3>1. PICK q : q = sql[w].run
      OBVIOUS
    <3>2. r = q
      BY <2>2, <3>1, ResultRun
    <3> QED
      BY <1>2, <2>2, <3>1, <3>2, SaveResultKeeps
  <2>3. CASE Requeue(w)
    BY <1>0, <2>3 DEF Requeue, Run
  <2>4. CASE LeaseRun(w)
    BY <1>0, <2>4 DEF LeaseRun, Run
  <2>5. CASE SaveExpired(w)
    <3>1. runs' = [runs EXCEPT ![sql[w].run].status = "Expired", ![sql[w].run].done = TRUE]
      BY <2>5 DEF SaveExpired
    <3>2. CASE r = sql[w].run
      BY <1>0, <3>1, <3>2 DEF Run
    <3>3. CASE r # sql[w].run
      BY <1>0, <3>1, <3>3
    <3> QED
      BY <3>2, <3>3
  <2>6. CASE UNCHANGED runs
    BY <2>6
  <2>7. \/ SaveEmpty(w) \/ SaveResult(w) \/ Requeue(w) \/ LeaseRun(w) \/ SaveExpired(w)
        \/ UNCHANGED runs
    BY <1>2
    DEF SqlStep, SqlError, SqlCrash, SqlRestart, NothingQueued, PickRun, LoadStaging,
        EndpointUnknown, EndpointMatched, ReadFailed, AggregationFailed, Failing, AllVisited,
        DeleteInventory, SaveConflict, dbVars
  <2> QED
    BY <2>1, <2>2, <2>3, <2>4, <2>5, <2>6, <2>7
<1>3. Elsewhere \/ \E w \in SqlCollectors :
         (SqlStep(w) \/ SqlError(w) \/ SqlCrash(w) \/ SqlRestart(w)) /\ UNCHANGED iis
  BY DEF Next, SqlNext, Elsewhere
<1> QED
  BY <1>1, <1>2, <1>3

\* With one SQL collector, the step that completes a run has counted each of its
\* sockets exactly once and leaves none of them behind, however often the run's
\* turn was repeated.
THEOREM CompletedRunsAreAccounted == ASSUME OneCollector PROVE Spec => CompletionCountsSockets
<1>1. SingleInv /\ [Next]_vars =>
         [\A r \in RunIds : runs[r].status # "Completed" /\ runs'[r].status = "Completed" =>
             /\ runs'[r].matched + runs'[r].unmatched = Cardinality(RowsOf(r))
             /\ RowsOf(r)' = {}]_vars
  BY CompletionStep DEF CountedAll
<1> QED
  BY <1>1, SingleInvariant, PTL DEF Spec, CompletionCountsSockets

\* With one SQL collector, a completed run keeps the inventory it has counted.
THEOREM InventoryIsKept == ASSUME OneCollector PROVE Spec => []CompletedRunsKeepInventory
<1>1. SingleInv => CompletedRunsKeepInventory
  BY DEF SingleInv
<1> QED
  BY <1>1, SingleInvariant, PTL

\* With one SQL collector, the status of a staging row says what became of its run.
THEOREM RowsFollowTheirRun == ASSUME OneCollector PROVE Spec => []RowStatusFollowsRun
<1>1. SingleInv => RowStatusFollowsRun
  BY DEF SingleInv
<1> QED
  BY <1>1, SingleInvariant, PTL

-----------------------------------------------------------------------------
(* Counts as sets of numbered pairs.                                       *)

LEMMA CountedFromOne ==
    ASSUME NEW k \in Nat
    PROVE  IsFiniteSet(1..k) /\ Cardinality(1..k) = k
<1>1. PICK a \in Int, b \in Int : a = 1 /\ b = k
  OBVIOUS
<1>2. IsFiniteSet(a..b) /\ Cardinality(a..b) = IF a > b THEN 0 ELSE b-a+1
  BY FS_Interval
<1>3. (IF a > b THEN 0 ELSE b-a+1) = k
  BY <1>1
<1> QED
  BY <1>1, <1>2, <1>3

LEMMA NumberedFinite ==
    ASSUME NEW S, IsFiniteSet(S), NEW n \in [S -> Nat]
    PROVE  IsFiniteSet(UNION {{e} \X (1..n[e]) : e \in S})
<1> DEFINE T == {{e} \X (1..n[e]) : e \in S}
           f == [e \in S |-> {e} \X (1..n[e])]
<1>1. f \in Surjection(S, T)
  BY DEF Surjection
<1> HIDE DEF f
<1>2. IsFiniteSet(T)
  BY <1>1, FS_Surjection
<1>3. ASSUME NEW X \in T PROVE IsFiniteSet(X)
  <2>1. PICK e \in S : X = {e} \X (1..n[e])
    OBVIOUS
  <2>2. PICK A, B : A = {e} /\ B = 1..n[e]
    OBVIOUS
  <2>3. IsFiniteSet(A) /\ IsFiniteSet(B)
    BY <2>2, FS_Singleton, CountedFromOne
  <2>4. IsFiniteSet(A \X B)
    BY <2>3, FS_Product
  <2> QED
    BY <2>1, <2>2, <2>4
<1> HIDE DEF T
<1>4. IsFiniteSet(UNION T)
  BY <1>2, <1>3, FS_UNION
<1> QED
  BY <1>4 DEF T

\* A count that was zero is set.
LEMMA NumberedSet ==
    ASSUME NEW S, IsFiniteSet(S), NEW n \in [S -> Nat], NEW m \in [S -> Nat],
           NEW r \in S, n[r] = 0, \A e \in S : e # r => m[e] = n[e]
    PROVE  Cardinality(UNION {{e} \X (1..m[e]) : e \in S})
             = Cardinality(UNION {{e} \X (1..n[e]) : e \in S}) + m[r]
<1> DEFINE N == UNION {{e} \X (1..n[e]) : e \in S}
           M == UNION {{e} \X (1..m[e]) : e \in S}
           R == {r} \X (1..m[r])
<1>1. M = N \union R
  <2>1. ASSUME NEW p \in M PROVE p \in N \union R
    <3>1. PICK e \in S : p \in {e} \X (1..m[e])
      OBVIOUS
    <3> QED
      BY <3>1
  <2>2. ASSUME NEW p \in N PROVE p \in M
    <3>1. PICK e \in S : p \in {e} \X (1..n[e])
      OBVIOUS
    <3>2. e # r
      BY <3>1
    <3> QED
      BY <3>1, <3>2
  <2>3. R \subseteq M
    OBVIOUS
  <2> QED
    BY <2>1, <2>2, <2>3
<1>2. N \intersect R = {}
  <2>1. ASSUME NEW p \in N, p \in R PROVE FALSE
    <3>1. PICK e \in S : p \in {e} \X (1..n[e])
      OBVIOUS
    <3>2. p[1] = e /\ p[1] = r
      BY <2>1, <3>1
    <3> QED
      BY <3>1, <3>2
  <2> QED
    BY <2>1
<1>3. IsFiniteSet(N)
  BY NumberedFinite
<1>4. IsFiniteSet(R) /\ Cardinality(R) = m[r]
  <2>1. IsFiniteSet({r}) /\ Cardinality({r}) = 1
    BY FS_Singleton
  <2>2. IsFiniteSet(1..m[r]) /\ Cardinality(1..m[r]) = m[r]
    BY CountedFromOne
  <2>3. IsFiniteSet(R) /\ Cardinality(R) = 1 * m[r]
    <3>1. PICK A, B : A = {r} /\ B = 1..m[r]
      OBVIOUS
    <3>2. IsFiniteSet(A) /\ IsFiniteSet(B)
      BY <2>1, <2>2, <3>1
    <3>3. IsFiniteSet(A \X B) /\ Cardinality(A \X B) = Cardinality(A) * Cardinality(B)
      BY <3>2, FS_Product
    <3>4. R = A \X B
      BY <3>1
    <3> HIDE DEF R
    <3> QED
      BY <2>1, <2>2, <3>1, <3>3, <3>4
  <2>4. 1 * m[r] = m[r]
    <3>1. m[r] \in Nat
      OBVIOUS
    <3> QED
      BY <3>1
  <2> QED
    BY <2>3, <2>4
<1> HIDE DEF N, M, R
<1>5. Cardinality(M) = Cardinality(N) + Cardinality(R) - Cardinality(N \intersect R)
  BY <1>1, <1>3, <1>4, FS_Union
<1>6. Cardinality(N \intersect R) = 0 /\ Cardinality(N) \in Nat /\ Cardinality(R) \in Nat
  BY <1>2, <1>3, <1>4, FS_EmptySet, FS_CardinalityType
<1>7. Cardinality(M) = Cardinality(N) + m[r]
  BY <1>4, <1>5, <1>6
<1> QED
  BY <1>7 DEF N, M

\* Counts that grow by no more than disjoint groups have members grow together
\* by no more than the groups have members.
LEMMA NumberedGrows ==
    ASSUME NEW S, IsFiniteSet(S), NEW n \in [S -> Nat], NEW m \in [S -> Nat],
           NEW K, IsFiniteSet(K), NEW G \in [S -> SUBSET K],
           \A d, e \in S : d # e => G[d] \intersect G[e] = {},
           \A e \in S : m[e] <= n[e] + Cardinality(G[e])
    PROVE  Cardinality(UNION {{e} \X (1..m[e]) : e \in S})
             <= Cardinality(UNION {{e} \X (1..n[e]) : e \in S}) + Cardinality(K)
<1> DEFINE N == UNION {{e} \X (1..n[e]) : e \in S}
           M == UNION {{e} \X (1..m[e]) : e \in S}
           b == [e \in S |-> CHOOSE f : f \in Bijection(1..Cardinality(G[e]), G[e])]
           g == [p \in M \ N |-> b[p[1]][p[2] - n[p[1]]]]
<1>1. ASSUME NEW e \in S
      PROVE  b[e] \in Bijection(1..Cardinality(G[e]), G[e]) /\ Cardinality(G[e]) \in Nat
  <2>1. IsFiniteSet(G[e])
    BY FS_Subset
  <2>2. ExistsBijection(1..Cardinality(G[e]), G[e]) /\ Cardinality(G[e]) \in Nat
    BY <2>1, FS_CardinalityType
  <2> QED
    BY <2>2 DEF ExistsBijection
<1> HIDE DEF b
<1>2. ASSUME NEW p \in M \ N
      PROVE  /\ p[1] \in S /\ p = <<p[1], p[2]>> /\ p[2] \in Nat
             /\ p[2] - n[p[1]] \in 1..Cardinality(G[p[1]])
  <2>1. PICK e \in S : p \in {e} \X (1..m[e])
    OBVIOUS
  <2>2. p \notin {e} \X (1..n[e])
    OBVIOUS
  <2>3. /\ p = <<p[1], p[2]>> /\ p[1] = e /\ p[2] \in 1..m[e] /\ p[2] \notin 1..n[e]
    <3> HIDE DEF N, M
    <3> QED
      BY <2>1, <2>2
  <2>4. n[e] \in Nat /\ m[e] \in Nat /\ m[e] <= n[e] + Cardinality(G[e]) /\ Cardinality(G[e]) \in Nat
    BY <1>1
  <2> HIDE DEF N, M
  <2>5. p[2] - n[e] \in 1..Cardinality(G[e])
    BY <2>3, <2>4
  <2> QED
    BY <2>3, <2>5
<1>3. ASSUME NEW p \in M \ N PROVE g[p] \in G[p[1]]
  <2>1. g[p] = b[p[1]][p[2] - n[p[1]]]
    OBVIOUS
  <2> HIDE DEF g, N, M
  <2>2. b[p[1]] \in [1..Cardinality(G[p[1]]) -> G[p[1]]]
    BY <1>1, <1>2 DEF Bijection, Injection
  <2> QED
    BY <1>2, <2>1, <2>2
<1>4. ASSUME NEW p \in M \ N, NEW q \in M \ N, g[p] = g[q] PROVE p = q
  <2>1. g[p] = b[p[1]][p[2] - n[p[1]]] /\ g[q] = b[q[1]][q[2] - n[q[1]]]
    OBVIOUS
  <2> HIDE DEF g, N, M
  <2>2. p[1] = q[1]
    BY <1>2, <1>3, <1>4
  <2>3. \A i, j \in 1..Cardinality(G[p[1]]) : b[p[1]][i] = b[p[1]][j] => i = j
    <3>1. PICK f, k, H : f = b[p[1]] /\ k = Cardinality(G[p[1]]) /\ H = G[p[1]]
      OBVIOUS
    <3>2. f \in Bijection(1..k, H)
      BY <1>1, <1>2, <3>1
    <3>3. f \in [1..k -> H] /\ IsInjective(f)
      BY <3>2 DEF Bijection, Injection
    <3>4. \A i, j \in 1..k : f[i] = f[j] => i = j
      BY <3>3 DEF IsInjective
    <3> QED
      BY <3>1, <3>4
  <2>4. p[2] - n[p[1]] = q[2] - n[p[1]]
    BY <1>2, <1>4, <2>1, <2>2, <2>3
  <2>5. p[2] \in Nat /\ q[2] \in Nat /\ n[p[1]] \in Nat
    BY <1>2
  <2>6. p[2] = q[2]
    BY <2>4, <2>5
  <2> QED
    BY <1>2, <2>2, <2>6
<1>5. g \in Injection(M \ N, K)
  <2>1. DOMAIN g = M \ N /\ g = [p \in M \ N |-> g[p]]
    OBVIOUS
  <2> HIDE DEF g, N, M
  <2>2. \A p \in M \ N : g[p] \in K
    BY <1>2, <1>3
  <2>3. g \in [M \ N -> K]
    BY <2>1, <2>2
  <2> QED
    BY <1>4, <2>3 DEF Injection, IsInjective
<1>6. IsFiniteSet(M) /\ IsFiniteSet(N)
  BY NumberedFinite
<1> HIDE DEF g, N, M
<1>7. IsFiniteSet(M \ N) /\ Cardinality(M \ N) <= Cardinality(K)
  BY <1>5, FS_Injection
<1>8. Cardinality(M) <= Cardinality(N) + Cardinality(M \ N)
  <2>1. Cardinality(M \ N) = Cardinality(M) - Cardinality(M \intersect N)
    BY <1>6, FS_Difference
  <2>2. Cardinality(M \intersect N) <= Cardinality(N)
    BY <1>6, FS_Intersection
  <2>3. IsFiniteSet(M \intersect N)
    BY <1>6, FS_Intersection
  <2>4. /\ Cardinality(M) \in Nat /\ Cardinality(N) \in Nat
        /\ Cardinality(M \intersect N) \in Nat /\ Cardinality(M \ N) \in Nat
    BY <1>6, <1>7, <2>3, FS_CardinalityType
  <2> QED
    BY <2>1, <2>2, <2>4
<1>9. /\ Cardinality(M) \in Nat /\ Cardinality(N) \in Nat
      /\ Cardinality(K) \in Nat /\ Cardinality(M \ N) \in Nat
  BY <1>6, <1>7, FS_CardinalityType
<1>10. Cardinality(M) <= Cardinality(N) + Cardinality(K)
  BY <1>7, <1>8, <1>9
<1> QED
  BY <1>10 DEF M, N

-----------------------------------------------------------------------------
(* The invariant about the observations of unknown endpoints.              *)

\* The sockets of the endpoints that were found to be unknown.
UnknownSockets(w) == {k \in Sockets(sql[w].rows) : sql[w].outcome[k.ip] = "Unknown"}

\* What the SQL collector has read of the counts still holds, and it has counted
\* the sockets of unknown endpoints as unmatched.
ObservedNow(w) ==
    sql[w].pc \in {"Match", "Delete", "Save"} =>
        /\ \A e \in UnknownHere(w) : sql[w].observed[e] = unknown[e]
        /\ Cardinality(UnknownSockets(w)) <= sql[w].unmatched

UnknownInv == SingleInv /\ UnknownCountedOnce /\ \A w \in SqlCollectors : ObservedNow(w)

-----------------------------------------------------------------------------
(* What the collector has read of them, and has counted.                   *)

LEMMA ObservedStays ==
    ASSUME NEW w \in SqlCollectors, ObservedNow(w), unknown' = unknown,
           sql[w].pc = sql'[w].pc \/ sql[w].pc \in {"Match", "Delete"},
           sql'[w].rows = sql[w].rows, sql'[w].outcome = sql[w].outcome,
           sql'[w].observed = sql[w].observed, sql'[w].unmatched = sql[w].unmatched
    PROVE  ObservedNow(w)'
<1>1. UnknownHere(w)' = UnknownHere(w)
  BY DEF UnknownHere
<1>2. UnknownSockets(w)' = UnknownSockets(w)
  BY DEF UnknownSockets, Sockets, Socket
<1> QED
  BY <1>1, <1>2 DEF ObservedNow

LEMMA ObservedAtRest ==
    ASSUME NEW w \in SqlCollectors, sql'[w].pc \notin {"Match", "Delete", "Save"}
    PROVE  ObservedNow(w)'
  BY DEF ObservedNow

LEMMA ObservedElsewhere ==
    ASSUME UnknownInv, Elsewhere, NEW w \in SqlCollectors
    PROVE  unknown' = unknown /\ ObservedNow(w)'
<1>0. sql \in [SqlCollectors -> SqlWorker] /\ ObservedNow(w) /\ SameMemory(w)
  BY ElsewhereMemory DEF UnknownInv, SingleInv, StagingInv, TypeInv, TypeOK, SqlTypeOK
<1>1. unknown' = unknown
  BY DEF Elsewhere, IisNext, IisStep, StartCycle, MarkAttempt, AttemptConflict, CollectSucceeds,
     CollectFails, CollectConflict, PublishRun, IisError, IisCrash, IisRestart, ToggleIisServer,
     ToggleSqlServer, Tick, vars, dbVars
<1>2. sql'[w].observed = sql[w].observed
  <2>1. ASSUME NEW e \in Registered, ToggleSqlServer(e) PROVE sql'[w].observed = sql[w].observed
    <3> DEFINE stale == sql[w].stale \union
                   {d \in {e} : sql[w].outcome[d] \in {"Success", "Failed"}}
    <3>1. sql'[w] = [sql[w] EXCEPT !.stale = stale]
      BY <2>1 DEF ToggleSqlServer, Overtaken
    <3> HIDE DEF stale
    <3> QED
      BY <1>0, <3>1 DEF SqlWorker
  <2> QED
    BY <2>1 DEF Elsewhere, vars
<1> QED
  BY <1>0, <1>1, <1>2, ObservedStays DEF SameMemory

LEMMA SocketsOfRows ==
    ASSUME NEW rows \in SUBSET [server : IisServers, ip : Endpoints, status : RowStatus],
           NEW k \in Sockets(rows)
    PROVE  k \in SocketId /\ k.ip \in Endpoints
<1>1. PICK row \in rows : k = [server |-> row.server, ip |-> row.ip]
  BY DEF Sockets, Socket
<1> QED
  BY <1>1 DEF SocketId

LEMMA ObservedAtLoad ==
    ASSUME UnknownInv, NEW w \in SqlCollectors, LoadStaging(w), sql'[w] \in SqlWorker
    PROVE  ObservedNow(w)'
<1>0. /\ sql \in [SqlCollectors -> SqlWorker] /\ sql[w] \in SqlWorker
      /\ sql[w].pc = "Load" /\ Memory(w)
  BY DEF UnknownInv, SingleInv, StagingInv, TypeInv, TypeOK, SqlTypeOK, LoadStaging
<1>1. sql'[w].outcome = sql[w].outcome /\ sql'[w].unmatched = sql[w].unmatched
  <2> DEFINE loaded == {[server |-> x.server, ip |-> x.ip, status |-> x.status] : x \in RowsOf(sql[w].run)}
             pc == CASE RowsOf(sql[w].run) = {} -> "SaveEmpty"
                     [] \E x \in RowsOf(sql[w].run) : x.age > MaxSnapshotAge -> "SaveExpired"
                     [] OTHER -> "Match"
  <2>1. sql' = [sql EXCEPT ![w].rows = loaded, ![w].pc = pc]
    BY DEF LoadStaging
  <2> HIDE DEF loaded, pc
  <2>2. sql'[w] = [sql[w] EXCEPT !.rows = loaded, !.pc = pc]
    BY <1>0, <2>1
  <2> QED
    BY <1>0, <2>2 DEF SqlWorker
<1>2. sql[w].unmatched = 0 /\ \A e \in Endpoints : sql[w].outcome[e] = "None"
  BY <1>0 DEF Memory, Fresh
<1>3. UnknownHere(w)' = {}
  BY <1>1, <1>2 DEF UnknownHere
<1>4. UnknownSockets(w)' = {}
  <2>1. UnknownSockets(w)' = {k \in Sockets(sql'[w].rows) : sql'[w].outcome[k.ip] = "Unknown"}
    BY DEF UnknownSockets, Sockets, Socket
  <2>2. \A k \in Sockets(sql'[w].rows) : k.ip \in Endpoints
    BY SocketsOfRows DEF SqlWorker
  <2> QED
    BY <1>1, <1>2, <2>1, <2>2
<1>5. Cardinality(UnknownSockets(w))' <= sql'[w].unmatched
  BY <1>1, <1>2, <1>4, FS_EmptySet
<1> QED
  BY <1>3, <1>5 DEF ObservedNow

\* An endpoint that is not unknown was visited.
LEMMA ObservedKnown ==
    ASSUME NEW w \in SqlCollectors, ObservedNow(w), sql[w].pc = "Match", sql[w] \in SqlWorker,
           NEW e \in Remaining(w), unknown' = unknown, NEW o \in {"Success", "Failed"},
           sql'[w].rows = sql[w].rows, sql'[w].outcome = [sql[w].outcome EXCEPT ![e] = o],
           sql'[w].observed = sql[w].observed, NEW more \in Nat,
           sql'[w].unmatched = sql[w].unmatched + more
    PROVE  ObservedNow(w)'
<1>0. /\ sql[w].outcome \in [Endpoints -> Outcome] /\ sql[w].outcome[e] = "None" /\ e \in Endpoints
      /\ sql[w].unmatched \in Nat
  BY DEF SqlWorker, Remaining
<1>1. \A d \in Endpoints : sql'[w].outcome[d] = "Unknown" <=> sql[w].outcome[d] = "Unknown"
  BY <1>0
<1>2. UnknownHere(w)' = UnknownHere(w)
  BY <1>1 DEF UnknownHere
<1>3. UnknownSockets(w)' = UnknownSockets(w)
  <2>1. \A k \in Sockets(sql[w].rows) : k.ip \in Endpoints
    BY SocketsOfRows DEF SqlWorker
  <2>2. UnknownSockets(w)' = {k \in Sockets(sql[w].rows) : sql'[w].outcome[k.ip] = "Unknown"}
    BY DEF UnknownSockets, Sockets, Socket
  <2> QED
    BY <1>1, <2>1, <2>2 DEF UnknownSockets
<1>4. Cardinality(UnknownSockets(w)) \in Nat
  <2>1. UnknownSockets(w) \in SUBSET SocketId
    BY SocketsOfRows DEF SqlWorker, UnknownSockets
  <2> QED
    BY <2>1, SubsetCounts
<1>5. Cardinality(UnknownSockets(w))' <= sql'[w].unmatched
  BY <1>0, <1>3, <1>4 DEF ObservedNow
<1> QED
  BY <1>2, <1>5 DEF ObservedNow

\* An endpoint that is unknown was visited.
LEMMA ObservedUnknown ==
    ASSUME NEW w \in SqlCollectors, ObservedNow(w), sql[w].pc = "Match", sql[w] \in SqlWorker,
           NEW e \in Remaining(w), unknown' = unknown,
           sql'[w].rows = sql[w].rows, sql'[w].outcome = [sql[w].outcome EXCEPT ![e] = "Unknown"],
           sql'[w].observed = [sql[w].observed EXCEPT ![e] = unknown[e]],
           sql'[w].unmatched = sql[w].unmatched + Cardinality(Group(w, e))
    PROVE  ObservedNow(w)'
<1>0. /\ sql[w].outcome \in [Endpoints -> Outcome] /\ sql[w].outcome[e] = "None" /\ e \in Endpoints
      /\ sql[w].observed \in [Endpoints -> Nat] /\ sql[w].unmatched \in Nat
  BY DEF SqlWorker, Remaining
<1>1. \A d \in Endpoints :
         sql'[w].outcome[d] = "Unknown" <=> sql[w].outcome[d] = "Unknown" \/ d = e
  BY <1>0
<1>2. \A d \in UnknownHere(w)' : sql'[w].observed[d] = unknown'[d]
  <2>1. ASSUME NEW d \in UnknownHere(w)' PROVE sql'[w].observed[d] = unknown[d]
    <3>1. d \in Endpoints /\ (d \in UnknownHere(w) \/ d = e)
      BY <1>1, <2>1 DEF UnknownHere
    <3> QED
      BY <1>0, <3>1 DEF ObservedNow
  <2> QED
    BY <2>1
<1>3. UnknownSockets(w)' = UnknownSockets(w) \union Group(w, e)
  <2>1. \A k \in Sockets(sql[w].rows) : k.ip \in Endpoints
    BY SocketsOfRows DEF SqlWorker
  <2>2. UnknownSockets(w)' = {k \in Sockets(sql[w].rows) : sql'[w].outcome[k.ip] = "Unknown"}
    BY DEF UnknownSockets, Sockets, Socket
  <2>3. Group(w, e) = {k \in Sockets(sql[w].rows) : k.ip = e}
    BY GroupFacts
  <2> QED
    BY <1>1, <2>1, <2>2, <2>3 DEF UnknownSockets
<1>4. /\ UnknownSockets(w) \in SUBSET SocketId /\ Group(w, e) \in SUBSET SocketId
      /\ UnknownSockets(w) \intersect Group(w, e) = {}
  BY <1>0, SocketsOfRows, GroupFacts DEF SqlWorker, UnknownSockets
<1>5. Cardinality(UnknownSockets(w) \union Group(w, e))
        = Cardinality(UnknownSockets(w)) + Cardinality(Group(w, e))
  BY <1>4, DisjointSockets
<1>6. Cardinality(UnknownSockets(w)) \in Nat /\ Cardinality(Group(w, e)) \in Nat
  BY <1>4, SubsetCounts
<1>7. Cardinality(UnknownSockets(w)) <= sql[w].unmatched
  BY DEF ObservedNow
<1>8. Cardinality(UnknownSockets(w))' <= sql'[w].unmatched
  BY <1>0, <1>3, <1>5, <1>6, <1>7
<1> QED
  BY <1>2, <1>8 DEF ObservedNow

LEMMA ObservedAtVisit ==
    ASSUME UnknownInv, NEW w \in SqlCollectors,
           \/ EndpointUnknown(w) \/ EndpointMatched(w) \/ ReadFailed(w) \/ AggregationFailed(w)
    PROVE  ObservedNow(w)'
<1>0. /\ SqlTypeOK /\ sql \in [SqlCollectors -> SqlWorker] /\ sql[w] \in SqlWorker
      /\ DOMAIN sql[w] = {"pc", "run", "counted", "rows", "outcome", "observed", "matched",
                          "unmatched", "found", "writes", "stale"}
      /\ sql[w].unmatched \in Nat /\ ObservedNow(w)
  BY DEF UnknownInv, SingleInv, StagingInv, TypeInv, TypeOK, SqlTypeOK, SqlWorker
<1>1. sql[w].pc = "Match" /\ unknown' = unknown
  BY DEF EndpointUnknown, EndpointMatched, ReadFailed, AggregationFailed, dbVars
<1>2. ASSUME NEW e \in Remaining(w), NEW open \in SUBSET Group(w, e)
      PROVE  Cardinality(open) \in Nat /\ Cardinality(Group(w, e) \ open) \in Nat
  <2>1. open \in SUBSET SocketId /\ Group(w, e) \ open \in SUBSET SocketId
    BY <1>0, GroupFacts
  <2> QED
    BY <2>1, SubsetCounts
<1>3. CASE EndpointUnknown(w)
  <2>1. PICK e \in Remaining(w) :
           sql' = [sql EXCEPT
               ![w].outcome[e] = "Unknown",
               ![w].observed[e] = unknown[e],
               ![w].unmatched = @ + Cardinality(Group(w, e))]
    BY <1>3 DEF EndpointUnknown
  <2> DEFINE u == sql[w].unmatched + Cardinality(Group(w, e))
  <2>2. sql' = [sql EXCEPT ![w].outcome[e] = "Unknown", ![w].observed[e] = unknown[e], ![w].unmatched = u]
    BY <1>0, <2>1
  <2> HIDE DEF u
  <2>3. /\ sql'[w].rows = sql[w].rows /\ sql'[w].unmatched = u
        /\ sql'[w].outcome = [sql[w].outcome EXCEPT ![e] = "Unknown"]
        /\ sql'[w].observed = [sql[w].observed EXCEPT ![e] = unknown[e]]
    BY <1>0, <2>2
  <2> QED
    BY <1>0, <1>1, <2>3, ObservedUnknown DEF u
<1>4. CASE EndpointMatched(w)
  <2>1. PICK e \in Remaining(w) : \E open \in SUBSET Group(w, e) :
           sql' = [sql EXCEPT
                ![w].outcome[e] = "Success",
                ![w].matched = @ + Cardinality(open),
                ![w].unmatched = @ + Cardinality(Group(w, e) \ open),
                ![w].found = @ \union open,
                ![w].writes = IF sqlServers[e].status # "Success" THEN @ \union {e} ELSE @]
    BY <1>4 DEF EndpointMatched
  <2>2. PICK open \in SUBSET Group(w, e) :
           sql' = [sql EXCEPT
                ![w].outcome[e] = "Success",
                ![w].matched = @ + Cardinality(open),
                ![w].unmatched = @ + Cardinality(Group(w, e) \ open),
                ![w].found = @ \union open,
                ![w].writes = IF sqlServers[e].status # "Success" THEN @ \union {e} ELSE @]
    BY <2>1
  <2> DEFINE m == sql[w].matched + Cardinality(open)
             u == sql[w].unmatched + Cardinality(Group(w, e) \ open)
             f == sql[w].found \union open
             W == IF sqlServers[e].status # "Success" THEN sql[w].writes \union {e} ELSE sql[w].writes
  <2>3. sql' = [sql EXCEPT ![w].outcome[e] = "Success", ![w].matched = m, ![w].unmatched = u,
                           ![w].found = f, ![w].writes = W]
    BY <1>0, <2>2
  <2> HIDE DEF m, u, f, W
  <2>4. /\ sql'[w].rows = sql[w].rows /\ sql'[w].unmatched = u
        /\ sql'[w].outcome = [sql[w].outcome EXCEPT ![e] = "Success"]
        /\ sql'[w].observed = sql[w].observed
    BY <1>0, <2>3
  <2>5. PICK o \in {"Success", "Failed"}, more \in Nat :
           o = "Success" /\ more = Cardinality(Group(w, e) \ open)
    BY <1>2
  <2>6. /\ sql'[w].outcome = [sql[w].outcome EXCEPT ![e] = o]
        /\ sql'[w].unmatched = sql[w].unmatched + more
    BY <2>4, <2>5 DEF u
  <2> QED
    BY <1>0, <1>1, <2>4, <2>6, ObservedKnown
<1>5. CASE ReadFailed(w)
  <2>1. PICK e \in Remaining(w), otherMessage \in BOOLEAN : sql' = Failing(w, e, otherMessage)
    BY <1>5 DEF ReadFailed
  <2>2. e \in Endpoints
    BY DEF Remaining
  <2>3. /\ sql'[w].rows = sql[w].rows /\ sql'[w].unmatched = sql[w].unmatched
        /\ sql'[w].outcome = [sql[w].outcome EXCEPT ![e] = "Failed"]
        /\ sql'[w].observed = sql[w].observed
    <3> DEFINE F == Failing(w, e, otherMessage)
    <3>1. /\ F[w].rows = sql[w].rows /\ F[w].unmatched = sql[w].unmatched
          /\ F[w].outcome = [sql[w].outcome EXCEPT ![e] = "Failed"]
          /\ F[w].observed = sql[w].observed
      BY <1>0, <2>2, FailingFacts
    <3>2. sql' = F
      BY <2>1
    <3> HIDE DEF F
    <3> QED
      BY <3>1, <3>2
  <2>4. PICK o \in {"Success", "Failed"}, more \in Nat : o = "Failed" /\ more = 0
    OBVIOUS
  <2>5. /\ sql'[w].outcome = [sql[w].outcome EXCEPT ![e] = o]
        /\ sql'[w].unmatched = sql[w].unmatched + more
    BY <1>0, <2>3, <2>4
  <2> QED
    BY <1>0, <1>1, <2>3, <2>5, ObservedKnown
<1>6. CASE AggregationFailed(w)
  <2>1. PICK e \in Remaining(w), otherMessage \in BOOLEAN :
           \E open \in SUBSET Group(w, e) : \E aggregated \in SUBSET open :
              sql' = [Failing(w, e, otherMessage) EXCEPT
                 ![w].matched = @ + Cardinality(open),
                 ![w].unmatched = @ + Cardinality(Group(w, e) \ open),
                 ![w].found = @ \union aggregated]
    BY <1>6 DEF AggregationFailed
  <2>2. PICK open \in SUBSET Group(w, e) :
           \E aggregated \in SUBSET open :
              sql' = [Failing(w, e, otherMessage) EXCEPT
                 ![w].matched = @ + Cardinality(open),
                 ![w].unmatched = @ + Cardinality(Group(w, e) \ open),
                 ![w].found = @ \union aggregated]
    BY <2>1
  <2>3. PICK aggregated \in SUBSET open :
              sql' = [Failing(w, e, otherMessage) EXCEPT
                 ![w].matched = @ + Cardinality(open),
                 ![w].unmatched = @ + Cardinality(Group(w, e) \ open),
                 ![w].found = @ \union aggregated]
    BY <2>2
  <2>4. e \in Endpoints
    BY DEF Remaining
  <2> DEFINE F == Failing(w, e, otherMessage)
             m == F[w].matched + Cardinality(open)
             u == F[w].unmatched + Cardinality(Group(w, e) \ open)
             f == F[w].found \union aggregated
  <2>5. /\ F[w].pc = sql[w].pc /\ F[w].run = sql[w].run /\ F[w].counted = sql[w].counted
        /\ F[w].rows = sql[w].rows /\ F[w].found = sql[w].found
        /\ F[w].observed = sql[w].observed /\ F[w].unmatched = sql[w].unmatched
        /\ F[w].outcome = [sql[w].outcome EXCEPT ![e] = "Failed"]
        /\ DOMAIN F[w] = DOMAIN sql[w] /\ DOMAIN F = SqlCollectors
    BY <1>0, <2>4, FailingFacts
  <2>6. sql' = [F EXCEPT ![w].matched = m, ![w].unmatched = u, ![w].found = f]
    <3>1. sql' = [F EXCEPT ![w].matched = @ + Cardinality(open),
                           ![w].unmatched = @ + Cardinality(Group(w, e) \ open),
                           ![w].found = @ \union aggregated]
      BY <2>3
    <3> HIDE DEF F
    <3> QED
      BY <1>0, <2>5, <3>1
  <2>7. u = sql[w].unmatched + Cardinality(Group(w, e) \ open)
    BY <2>5
  <2> HIDE DEF F, m, u, f
  <2>8. /\ sql'[w].rows = F[w].rows /\ sql'[w].outcome = F[w].outcome
        /\ sql'[w].observed = F[w].observed /\ sql'[w].unmatched = u
    BY <1>0, <2>5, <2>6
  <2>9. PICK o \in {"Success", "Failed"}, more \in Nat :
           o = "Failed" /\ more = Cardinality(Group(w, e) \ open)
    BY <1>2
  <2>10. /\ sql'[w].rows = sql[w].rows
         /\ sql'[w].outcome = [sql[w].outcome EXCEPT ![e] = o]
         /\ sql'[w].observed = sql[w].observed
         /\ sql'[w].unmatched = sql[w].unmatched + more
    BY <2>5, <2>7, <2>8, <2>9
  <2> QED
    BY <1>0, <1>1, <2>10, ObservedKnown
<1> QED
  BY <1>3, <1>4, <1>5, <1>6

LEMMA ObservedStep ==
    ASSUME OneCollector, UnknownInv, SqlTypeOK', [Next]_vars, NEW w \in SqlCollectors
    PROVE  ObservedNow(w)'
<1>0. /\ sql \in [SqlCollectors -> SqlWorker] /\ sql[w] \in SqlWorker /\ sql'[w] \in SqlWorker
      /\ SqlTypeOK /\ ObservedNow(w)
  BY DEF UnknownInv, SingleInv, StagingInv, TypeInv, TypeOK, SqlTypeOK
<1>1. CASE Elsewhere
  BY <1>1, ObservedElsewhere
<1>2. CASE LoadStaging(w)
  BY <1>0, <1>2, ObservedAtLoad
<1>3. CASE EndpointUnknown(w) \/ EndpointMatched(w) \/ ReadFailed(w) \/ AggregationFailed(w)
  BY <1>3, ObservedAtVisit
<1>4. CASE AllVisited(w) \/ DeleteInventory(w)
  <2>1. PICK pc \in {"Delete", "Save"} : sql' = [sql EXCEPT ![w].pc = pc]
    BY <1>4 DEF AllVisited, DeleteInventory
  <2>2. sql'[w] = [sql[w] EXCEPT !.pc = pc]
    BY <1>0, <2>1
  <2>3. /\ sql'[w].rows = sql[w].rows /\ sql'[w].outcome = sql[w].outcome
        /\ sql'[w].observed = sql[w].observed /\ sql'[w].unmatched = sql[w].unmatched
    BY <1>0, <2>2 DEF SqlWorker
  <2>4. sql[w].pc \in {"Match", "Delete"} /\ unknown' = unknown
    BY <1>4 DEF AllVisited, DeleteInventory, dbVars
  <2> QED
    BY <1>0, <2>3, <2>4, ObservedStays
<1>5. CASE \/ Requeue(w) \/ NothingQueued(w) \/ PickRun(w) \/ LeaseRun(w)
           \/ SaveEmpty(w) \/ SaveExpired(w) \/ SaveResult(w) \/ SaveConflict(w)
           \/ SqlError(w) \/ SqlCrash(w) \/ SqlRestart(w)
  <2>1. sql'[w].pc \in {"Idle", "Pick", "Lease", "Load", "Down"}
    BY <1>0, <1>5, TurnRests
  <2> QED
    BY <2>1, ObservedAtRest
<1>6. \/ Elsewhere
      \/ \E v \in SqlCollectors : SqlStep(v) \/ SqlError(v) \/ SqlCrash(v) \/ SqlRestart(v)
  BY DEF Next, SqlNext, Elsewhere
<1>7. ASSUME NEW v \in SqlCollectors PROVE v = w
  BY DEF OneCollector
<1> QED
  BY <1>1, <1>2, <1>3, <1>4, <1>5, <1>6, <1>7 DEF SqlStep

-----------------------------------------------------------------------------
(* The counts.                                                             *)

\* Only the save of a result touches the counts.
LEMMA CountsStay ==
    ASSUME SingleInv, [Next]_vars, \A w \in SqlCollectors : ~SaveResult(w)
    PROVE  unknown' = unknown /\ \A r \in RunIds : runs'[r].unmatched = runs[r].unmatched
<1>0. runs \in [RunIds -> Run] /\ sql \in [SqlCollectors -> SqlWorker]
  BY DEF SingleInv, StagingInv, TypeInv, TypeOK, DbTypeOK, SqlTypeOK
<1>1. CASE Elsewhere
  <2>1. ASSUME NEW r \in RunIds PROVE runs'[r].unmatched = runs[r].unmatched
    <3>1. CASE RunSame(r)
      BY <3>1 DEF RunSame
    <3>2. CASE RunCollected(r)
      <4>1. ~runs[r].done
        BY <3>2 DEF RunCollected, SingleInv, RunsSound
      <4> QED
        BY <3>2, <4>1 DEF RunCollected, SingleInv, RunsSound
    <3> QED
      BY <1>1, <3>1, <3>2, RunsElsewhere
  <2>2. unknown' = unknown
    BY <1>1 DEF Elsewhere, IisNext, IisStep, StartCycle, MarkAttempt, AttemptConflict, CollectSucceeds,
       CollectFails, CollectConflict, PublishRun, IisError, IisCrash, IisRestart, ToggleIisServer,
       ToggleSqlServer, Tick, vars, dbVars
  <2> QED
    BY <2>1, <2>2
<1>2. ASSUME NEW w \in SqlCollectors, SqlStep(w) \/ SqlError(w) \/ SqlCrash(w) \/ SqlRestart(w)
      PROVE  unknown' = unknown /\ \A r \in RunIds : runs'[r].unmatched = runs[r].unmatched
  <2>1. CASE Requeue(w)
    <3>1. ASSUME NEW r \in RunIds PROVE runs'[r].unmatched = runs[r].unmatched
      <4>1. runs'[r] \in {runs[r], [runs[r] EXCEPT !.status = "ReadyForSql"]}
        BY <2>1 DEF Requeue
      <4> QED
        BY <1>0, <4>1 DEF Run
    <3> QED
      BY <2>1, <3>1 DEF Requeue
  <2>2. CASE LeaseRun(w) \/ SaveEmpty(w) \/ SaveExpired(w)
    <3>1. ASSUME NEW r \in RunIds PROVE runs'[r].unmatched = runs[r].unmatched
      <4>1. PICK t, d : \/ runs' = [runs EXCEPT ![sql[w].run].status = t]
                        \/ runs' = [runs EXCEPT ![sql[w].run].status = t, ![sql[w].run].done = d]
        BY <2>2 DEF LeaseRun, SaveEmpty, SaveExpired
      <4>2. \/ runs'[r] = runs[r]
            \/ runs'[r] = [runs[r] EXCEPT !.status = t]
            \/ runs'[r] = [runs[r] EXCEPT !.status = t, !.done = d]
        BY <1>0, <4>1
      <4> QED
        BY <1>0, <4>2 DEF Run
    <3> QED
      BY <2>2, <3>1 DEF LeaseRun, SaveEmpty, SaveExpired
  <2>3. CASE \/ NothingQueued(w) \/ PickRun(w) \/ LoadStaging(w)
             \/ EndpointUnknown(w) \/ EndpointMatched(w) \/ ReadFailed(w) \/ AggregationFailed(w)
             \/ AllVisited(w) \/ DeleteInventory(w) \/ SaveConflict(w)
             \/ SqlError(w) \/ SqlCrash(w) \/ SqlRestart(w)
    BY <2>3 DEF NothingQueued, PickRun, LoadStaging, EndpointUnknown, EndpointMatched, ReadFailed,
       AggregationFailed, AllVisited, DeleteInventory, SaveConflict, SqlError, SqlCrash,
       SqlRestart, dbVars
  <2> QED
    BY <1>2, <2>1, <2>2, <2>3 DEF SqlStep
<1> QED
  BY <1>1, <1>2 DEF Next, SqlNext, Elsewhere

LEMMA CountsUnchanged ==
    ASSUME UnknownCountedOnce, unknown' = unknown,
           \A r \in RunIds : runs'[r].unmatched = runs[r].unmatched
    PROVE  UnknownCountedOnce'
<1>1. Observations' = Observations
  BY DEF Observations
<1>2. UnmatchedSockets' = UnmatchedSockets
  BY DEF UnmatchedSockets
<1> QED
  BY <1>1, <1>2 DEF UnknownCountedOnce

\* The save adds the sockets of the unknown endpoints to the counts, each of
\* which the run reports as unmatched from then on.
LEMMA ResultCountsOnce ==
    ASSUME UnknownInv, NEW w \in SqlCollectors, SaveResult(w), TypeOK'
    PROVE  UnknownCountedOnce'
<1>1. PICK r : r = sql[w].run
  OBVIOUS
<1>2. /\ SingleInv /\ TypeOK /\ runs \in [RunIds -> Run] /\ runs' \in [RunIds -> Run]
      /\ unknown \in [Endpoints -> Nat] /\ unknown' \in [Endpoints -> Nat]
      /\ sql[w] \in SqlWorker /\ sql[w].pc = "Save"
  BY DEF UnknownInv, SingleInv, StagingInv, TypeInv, TypeOK, DbTypeOK, SqlTypeOK, SaveResult
<1>3. r \in RunIds /\ runs[r].unmatched = 0
  BY <1>1, <1>2, Finishing DEF Processing
<1>4. /\ runs'[r].unmatched = sql[w].unmatched
      /\ \A q \in RunIds : q # r => runs'[q] = runs[q]
  BY <1>1, <1>2, ResultRun
<1> DEFINE n == [q \in RunIds |-> runs[q].unmatched]
           m == [q \in RunIds |-> runs'[q].unmatched]
<1>5. Cardinality(UnmatchedSockets)' = Cardinality(UnmatchedSockets) + sql[w].unmatched
  <2>1. n \in [RunIds -> Nat] /\ m \in [RunIds -> Nat]
    BY <1>2 DEF Run
  <2>2. n[r] = 0 /\ m[r] = sql[w].unmatched /\ \A q \in RunIds : q # r => m[q] = n[q]
    BY <1>3, <1>4
  <2>3. /\ UnmatchedSockets = UNION {{q} \X (1..n[q]) : q \in RunIds}
        /\ UnmatchedSockets' = UNION {{q} \X (1..m[q]) : q \in RunIds}
    BY DEF UnmatchedSockets
  <2>4. IsFiniteSet(RunIds)
    BY CountedFromOne, BoundsAssumption DEF RunIds
  <2> HIDE DEF n, m
  <2>5. Cardinality(UNION {{q} \X (1..m[q]) : q \in RunIds})
          = Cardinality(UNION {{q} \X (1..n[q]) : q \in RunIds}) + m[r]
    BY <1>3, <2>1, <2>2, <2>4, NumberedSet
  <2> QED
    BY <2>2, <2>3, <2>5
<1> DEFINE K == UnknownSockets(w)
           G == [e \in Endpoints |-> {k \in K : k.ip = e}]
<1>6. Cardinality(Observations)' <= Cardinality(Observations) + Cardinality(K)
  <2>1. IsFiniteSet(K)
    <3>1. K \in SUBSET SocketId
      BY <1>2, SocketsOfRows DEF SqlWorker, UnknownSockets
    <3> QED
      BY <3>1, SocketIdFinite, FS_Subset
  <2>2. /\ G \in [Endpoints -> SUBSET K]
        /\ \A d, e \in Endpoints : d # e => G[d] \intersect G[e] = {}
    OBVIOUS
  <2>3. ASSUME NEW e \in Endpoints PROVE unknown'[e] <= unknown[e] + Cardinality(G[e])
    <3>1. unknown[e] \in Nat /\ Cardinality(G[e]) \in Nat
      <4>1. IsFiniteSet(G[e])
        BY <2>1, <2>2, FS_Subset
      <4> QED
        BY <1>2, <4>1, FS_CardinalityType
    <3>2. CASE e \in UnknownHere(w)
      <4>1. unknown'[e] = sql[w].observed[e] + Cardinality(Group(w, e))
        BY <3>2 DEF SaveResult
      <4>2. sql[w].observed[e] = unknown[e]
        BY <1>2, <3>2 DEF UnknownInv, ObservedNow
      <4>3. G[e] = Group(w, e)
        <5>1. Group(w, e) = {k \in Sockets(sql[w].rows) : k.ip = e}
          BY <1>2, GroupFacts
        <5>2. sql[w].outcome[e] = "Unknown"
          BY <3>2 DEF UnknownHere
        <5> QED
          BY <5>1, <5>2 DEF UnknownSockets
      <4>4. unknown'[e] = unknown[e] + Cardinality(G[e])
        BY <4>1, <4>2, <4>3
      <4> HIDE DEF G
      <4> QED
        BY <3>1, <4>4
    <3>3. CASE e \notin UnknownHere(w)
      <4>1. unknown'[e] = unknown[e]
        BY <3>3 DEF SaveResult
      <4> HIDE DEF G
      <4> QED
        BY <3>1, <4>1
    <3> QED
      BY <3>2, <3>3
  <2>4. /\ Observations = UNION {{e} \X (1..unknown[e]) : e \in Endpoints}
        /\ Observations' = UNION {{e} \X (1..unknown'[e]) : e \in Endpoints}
    BY DEF Observations
  <2>5. PICK a \in [Endpoints -> Nat], b \in [Endpoints -> Nat] : a = unknown /\ b = unknown'
    BY <1>2
  <2>6. \A e \in Endpoints : b[e] <= a[e] + Cardinality(G[e])
    BY <2>3, <2>5
  <2> HIDE DEF G, K
  <2>7. Cardinality(UNION {{e} \X (1..b[e]) : e \in Endpoints})
          <= Cardinality(UNION {{e} \X (1..a[e]) : e \in Endpoints}) + Cardinality(K)
    BY <2>1, <2>2, <2>6, EndpointsAssumption, NumberedGrows
  <2> QED
    BY <2>4, <2>5, <2>7
<1>7. Cardinality(K) <= sql[w].unmatched
  BY <1>2 DEF UnknownInv, ObservedNow
<1>8. /\ Cardinality(Observations) \in Nat /\ Cardinality(Observations)' \in Nat
      /\ Cardinality(UnmatchedSockets) \in Nat
      /\ Cardinality(K) \in Nat /\ sql[w].unmatched \in Nat
  <2>1. PICK a \in [Endpoints -> Nat], b \in [Endpoints -> Nat] : a = unknown /\ b = unknown'
    BY <1>2
  <2>2. IsFiniteSet(Observations) /\ IsFiniteSet(Observations')
    <3>1. /\ IsFiniteSet(UNION {{e} \X (1..a[e]) : e \in Endpoints})
          /\ IsFiniteSet(UNION {{e} \X (1..b[e]) : e \in Endpoints})
      BY NumberedFinite, EndpointsAssumption
    <3> QED
      BY <2>1, <3>1 DEF Observations
  <2>3. IsFiniteSet(UnmatchedSockets)
    <3>1. n \in [RunIds -> Nat]
      BY <1>2 DEF Run
    <3>2. UnmatchedSockets = UNION {{q} \X (1..n[q]) : q \in RunIds}
      BY DEF UnmatchedSockets
    <3>3. IsFiniteSet(RunIds)
      BY CountedFromOne, BoundsAssumption DEF RunIds
    <3> HIDE DEF n
    <3> QED
      BY <3>1, <3>2, <3>3, NumberedFinite
  <2>4. K \in SUBSET SocketId
    BY <1>2, SocketsOfRows DEF SqlWorker, UnknownSockets
  <2> QED
    BY <1>2, <2>2, <2>3, <2>4, SubsetCounts, FS_CardinalityType DEF SqlWorker
<1> HIDE DEF K
<1>9. Cardinality(Observations) <= Cardinality(UnmatchedSockets)
  BY DEF UnknownInv, UnknownCountedOnce
<1>10. Cardinality(Observations)' <= Cardinality(UnmatchedSockets)'
  BY <1>5, <1>6, <1>7, <1>8, <1>9
<1> QED
  BY <1>10 DEF UnknownCountedOnce

LEMMA UnknownStart == Init => UnknownInv
<1> SUFFICES ASSUME Init PROVE UnknownInv
  OBVIOUS
<1>1. Observations = {} /\ UnmatchedSockets = {}
  <2>1. \A e \in Endpoints : {e} \X (1..unknown[e]) = {}
    BY DEF Init, DbInit
  <2>2. \A r \in RunIds : {r} \X (1..runs[r].unmatched) = {}
    BY DEF Init, DbInit, NoRun
  <2> QED
    BY <2>1, <2>2 DEF Observations, UnmatchedSockets
<1>2. UnknownCountedOnce
  BY <1>1, FS_EmptySet DEF UnknownCountedOnce
<1>3. \A w \in SqlCollectors : ObservedNow(w)
  BY DEF Init, SqlInit, SqlIdle, ObservedNow
<1> QED
  BY <1>2, <1>3, SingleStart DEF UnknownInv

LEMMA UnknownStep ==
    ASSUME OneCollector, UnknownInv, [Next]_vars
    PROVE  UnknownInv'
<1>1. SingleInv'
  BY SingleStep DEF UnknownInv
<1>2. TypeOK' /\ SqlTypeOK'
  BY <1>1 DEF SingleInv, StagingInv, TypeInv, TypeOK
<1>3. \A w \in SqlCollectors : ObservedNow(w)'
  BY <1>2, ObservedStep
<1>4. UnknownCountedOnce'
  <2>1. CASE \E w \in SqlCollectors : SaveResult(w)
    BY <1>2, <2>1, ResultCountsOnce
  <2>2. CASE \A w \in SqlCollectors : ~SaveResult(w)
    BY <2>2, CountsStay, CountsUnchanged DEF UnknownInv
  <2> QED
    BY <2>1, <2>2
<1> QED
  BY <1>1, <1>3, <1>4 DEF UnknownInv

-----------------------------------------------------------------------------
(* The theorem.                                                            *)

\* With one SQL collector, the observations of unknown endpoints are never more
\* than the sockets the runs report as unmatched, although a turn that fails is
\* repeated: what a turn has counted only counts with the save that ends it.
THEOREM UnknownEndpointsCountedOnce == ASSUME OneCollector PROVE Spec => []UnknownCountedOnce
<1>1. Init => UnknownInv
  BY UnknownStart
<1>2. UnknownInv /\ [Next]_vars => UnknownInv'
  BY UnknownStep
<1>3. UnknownInv => UnknownCountedOnce
  BY DEF UnknownInv
<1> QED
  BY <1>1, <1>2, <1>3, PTL DEF Spec
=============================================================================
