---------------------------- MODULE LedgerProofs -----------------------------
(***************************************************************************)
(* The statements of the two services, one by one, implement the ledger of *)
(* collection runs when there is one SQL collector, for any number of IIS  *)
(* collectors, servers, endpoints, runs and faults.                        *)
(***************************************************************************)
EXTENDS SingleCollectorProofs

-----------------------------------------------------------------------------
(* The invariant.                                                          *)

\* A run is only closed as expired when it has sockets, and what goes to the
\* inventory are sockets that were loaded, whether endpoints have failed or not.
FoundLoaded(w) ==
    /\ sql[w].pc = "SaveExpired" => sql[w].rows # {}
    /\ sql[w].pc \in {"Match", "Delete", "Save"} => sql[w].found \subseteq Sockets(sql[w].rows)

LedgerInv == SingleInv /\ \A w \in SqlCollectors : FoundLoaded(w)

LEMMA FoundOn ==
    ASSUME NEW w \in SqlCollectors, FoundLoaded(w),
           sql[w].pc \in {"Match", "Delete"}, sql'[w].pc \in {"Match", "Delete", "Save"},
           sql'[w].rows = sql[w].rows, NEW more \in SUBSET Sockets(sql[w].rows),
           sql'[w].found = sql[w].found \union more
    PROVE  FoundLoaded(w)'
<1>1. sql'[w].found \subseteq Sockets(sql'[w].rows)
  BY DEF FoundLoaded
<1>2. sql'[w].pc # "SaveExpired"
  OBVIOUS
<1>3. Sockets(sql'[w].rows) = Sockets(sql[w].rows)'
  BY DEF Sockets, Socket
<1> QED
  BY <1>1, <1>2, <1>3 DEF FoundLoaded

LEMMA FoundElsewhere ==
    ASSUME NEW w \in SqlCollectors, FoundLoaded(w), SameMemory(w)
    PROVE  FoundLoaded(w)'
<1>1. Sockets(sql[w].rows)' = Sockets(sql[w].rows)
  BY DEF Sockets, Socket, SameMemory
<1> QED
  BY <1>1 DEF FoundLoaded, SameMemory

LEMMA FoundAtLoad ==
    ASSUME LedgerInv, NEW w \in SqlCollectors, LoadStaging(w)
    PROVE  FoundLoaded(w)'
<1> DEFINE loaded == {[server |-> x.server, ip |-> x.ip, status |-> x.status] : x \in RowsOf(sql[w].run)}
           pc == CASE RowsOf(sql[w].run) = {} -> "SaveEmpty"
                   [] \E x \in RowsOf(sql[w].run) : x.age > MaxSnapshotAge -> "SaveExpired"
                   [] OTHER -> "Match"
<1>1. sql' = [sql EXCEPT ![w].rows = loaded, ![w].pc = pc]
  BY DEF LoadStaging
<1>2. /\ sql \in [SqlCollectors -> SqlWorker] /\ sql[w] \in SqlWorker
      /\ sql[w].pc = "Load" /\ sql[w].found = {}
  BY DEF LedgerInv, SingleInv, StagingInv, TypeInv, TypeOK, SqlTypeOK, LoadStaging, Memory, Fresh
<1>3. pc = "SaveExpired" => loaded # {}
  OBVIOUS
<1> HIDE DEF loaded, pc
<1>4. sql'[w].rows = loaded /\ sql'[w].pc = pc /\ sql'[w].found = {}
  <2>1. sql'[w] = [sql[w] EXCEPT !.rows = loaded, !.pc = pc]
    BY <1>1, <1>2
  <2> QED
    BY <1>2, <2>1 DEF SqlWorker
<1> QED
  BY <1>3, <1>4 DEF FoundLoaded

\* The groups that are visited: what becomes of each adds loaded sockets, or none.
LEMMA FoundAtVisit ==
    ASSUME LedgerInv, NEW w \in SqlCollectors,
           \/ EndpointUnknown(w) \/ EndpointMatched(w) \/ ReadFailed(w) \/ AggregationFailed(w)
    PROVE  FoundLoaded(w)'
<1>0. /\ SqlTypeOK /\ sql \in [SqlCollectors -> SqlWorker] /\ sql[w] \in SqlWorker
      /\ DOMAIN sql[w] = {"pc", "run", "counted", "rows", "outcome", "observed", "matched",
                          "unmatched", "found", "writes", "stale"}
      /\ FoundLoaded(w)
  BY DEF LedgerInv, SingleInv, StagingInv, TypeInv, TypeOK, SqlTypeOK, SqlWorker
<1>1. sql[w].pc = "Match"
  BY DEF EndpointUnknown, EndpointMatched, ReadFailed, AggregationFailed
<1>2. \A e : Group(w, e) \subseteq Sockets(sql[w].rows)
  BY <1>0, GroupFacts
<1>3. ASSUME NEW more, more \subseteq Sockets(sql[w].rows), sql'[w].pc = "Match",
             sql'[w].rows = sql[w].rows, sql'[w].found = sql[w].found \union more
      PROVE  FoundLoaded(w)'
  BY <1>0, <1>1, <1>3, FoundOn
<1>4. CASE EndpointUnknown(w)
  <2>1. PICK e, n :
           sql' = [sql EXCEPT
               ![w].outcome[e] = "Unknown", ![w].observed[e] = unknown[e], ![w].unmatched = n]
    <3>1. PICK e \in Remaining(w) :
             sql' = [sql EXCEPT
                 ![w].outcome[e] = "Unknown", ![w].observed[e] = unknown[e],
                 ![w].unmatched = @ + Cardinality(Group(w, e))]
      BY <1>4 DEF EndpointUnknown
    <3> DEFINE n == sql[w].unmatched + Cardinality(Group(w, e))
    <3>2. sql' = [sql EXCEPT
               ![w].outcome[e] = "Unknown", ![w].observed[e] = unknown[e], ![w].unmatched = n]
      BY <1>0, <3>1
    <3> HIDE DEF n
    <3> QED
      BY <3>2
  <2>2. /\ sql'[w].pc = sql[w].pc /\ sql'[w].rows = sql[w].rows /\ sql'[w].found = sql[w].found
    BY <1>0, <2>1
  <2>3. PICK none \in SUBSET Sockets(sql[w].rows) : none = {}
    OBVIOUS
  <2>4. sql'[w].found = sql[w].found \union none
    BY <2>2, <2>3
  <2> QED
    BY <1>1, <1>3, <2>2, <2>4
<1>5. CASE EndpointMatched(w)
  <2>1. PICK e \in Remaining(w) : \E open \in SUBSET Group(w, e) :
           sql' = [sql EXCEPT
                ![w].outcome[e] = "Success",
                ![w].matched = @ + Cardinality(open),
                ![w].unmatched = @ + Cardinality(Group(w, e) \ open),
                ![w].found = @ \union open,
                ![w].writes = IF sqlServers[e].status # "Success" THEN @ \union {e} ELSE @]
    BY <1>5 DEF EndpointMatched
  <2>2. PICK open \in SUBSET Group(w, e) :
           sql' = [sql EXCEPT
                ![w].outcome[e] = "Success",
                ![w].matched = @ + Cardinality(open),
                ![w].unmatched = @ + Cardinality(Group(w, e) \ open),
                ![w].found = @ \union open,
                ![w].writes = IF sqlServers[e].status # "Success" THEN @ \union {e} ELSE @]
    BY <2>1
  <2> DEFINE m == sql[w].matched + Cardinality(open)
             u == sql[w].unmatched + Cardinality(Group(w, e) \ open)
             f == sql[w].found \union open
             W == IF sqlServers[e].status # "Success" THEN sql[w].writes \union {e} ELSE sql[w].writes
  <2>3. sql' = [sql EXCEPT ![w].outcome[e] = "Success", ![w].matched = m, ![w].unmatched = u,
                           ![w].found = f, ![w].writes = W]
    BY <1>0, <2>2
  <2> HIDE DEF m, u, f, W
  <2>4. sql'[w].pc = sql[w].pc /\ sql'[w].rows = sql[w].rows /\ sql'[w].found = f
    BY <1>0, <2>3
  <2>5. open \subseteq Sockets(sql[w].rows)
    BY <1>2
  <2> QED
    BY <1>1, <1>3, <2>4, <2>5 DEF f
<1>6. CASE ReadFailed(w)
  <2>1. PICK e \in Remaining(w), otherMessage \in BOOLEAN : sql' = Failing(w, e, otherMessage)
    BY <1>6 DEF ReadFailed
  <2> DEFINE F == Failing(w, e, otherMessage)
  <2>2. e \in Endpoints
    BY DEF Remaining
  <2>3. SqlTypeOK
    BY <1>0
  <2>4. /\ F[w].pc = sql[w].pc /\ F[w].run = sql[w].run /\ F[w].counted = sql[w].counted
        /\ F[w].rows = sql[w].rows /\ F[w].found = sql[w].found
        /\ F[w].outcome = [sql[w].outcome EXCEPT ![e] = "Failed"]
        /\ DOMAIN F[w] = DOMAIN sql[w] /\ DOMAIN F = SqlCollectors
    BY <2>2, <2>3, FailingFacts
  <2>5. sql' = F
    BY <2>1
  <2> HIDE DEF F
  <2>6. PICK none \in SUBSET Sockets(sql[w].rows) : none = {}
    OBVIOUS
  <2>7. sql'[w].found = sql[w].found \union none
    BY <2>4, <2>5, <2>6
  <2> QED
    BY <1>1, <1>3, <2>4, <2>5, <2>7
<1>7. CASE AggregationFailed(w)
  <2>1. PICK e \in Remaining(w), otherMessage \in BOOLEAN :
           \E open \in SUBSET Group(w, e) : \E aggregated \in SUBSET open :
              sql' = [Failing(w, e, otherMessage) EXCEPT
                 ![w].matched = @ + Cardinality(open),
                 ![w].unmatched = @ + Cardinality(Group(w, e) \ open),
                 ![w].found = @ \union aggregated]
    BY <1>7 DEF AggregationFailed
  <2>2. PICK open \in SUBSET Group(w, e) : \E aggregated \in SUBSET open :
              sql' = [Failing(w, e, otherMessage) EXCEPT
                 ![w].matched = @ + Cardinality(open),
                 ![w].unmatched = @ + Cardinality(Group(w, e) \ open),
                 ![w].found = @ \union aggregated]
    BY <2>1
  <2>3. PICK aggregated \in SUBSET open :
              sql' = [Failing(w, e, otherMessage) EXCEPT
                 ![w].matched = @ + Cardinality(open),
                 ![w].unmatched = @ + Cardinality(Group(w, e) \ open),
                 ![w].found = @ \union aggregated]
    BY <2>2
  <2> DEFINE F == Failing(w, e, otherMessage)
             m == F[w].matched + Cardinality(open)
             u == F[w].unmatched + Cardinality(Group(w, e) \ open)
             f == F[w].found \union aggregated
  <2>4. e \in Endpoints
    BY DEF Remaining
  <2>5. /\ F[w].pc = sql[w].pc /\ F[w].run = sql[w].run /\ F[w].counted = sql[w].counted
        /\ F[w].rows = sql[w].rows /\ F[w].found = sql[w].found
        /\ F[w].outcome = [sql[w].outcome EXCEPT ![e] = "Failed"]
        /\ DOMAIN F[w] = DOMAIN sql[w] /\ DOMAIN F = SqlCollectors
    <3>1. SqlTypeOK
      BY <1>0
    <3> QED
      BY <2>4, <3>1, FailingFacts
  <2>6. sql' = [F EXCEPT ![w].matched = m, ![w].unmatched = u, ![w].found = f]
    <3>1. sql' = [F EXCEPT ![w].matched = @ + Cardinality(open),
                           ![w].unmatched = @ + Cardinality(Group(w, e) \ open),
                           ![w].found = @ \union aggregated]
      BY <2>3
    <3> HIDE DEF F
    <3> QED
      BY <1>0, <2>5, <3>1
  <2>7. f = sql[w].found \union aggregated
    BY <2>5
  <2> HIDE DEF F, m, u, f
  <2>8. sql'[w].pc = F[w].pc /\ sql'[w].rows = F[w].rows /\ sql'[w].found = f
    BY <1>0, <2>5, <2>6
  <2>9. aggregated \subseteq Sockets(sql[w].rows)
    BY <1>2
  <2> QED
    BY <1>1, <1>3, <2>5, <2>7, <2>8, <2>9
<1> QED
  BY <1>4, <1>5, <1>6, <1>7

LEMMA FoundAtRest ==
    ASSUME NEW w \in SqlCollectors, sql'[w].pc \in {"Idle", "Pick", "Lease", "Load", "Down"}
    PROVE  FoundLoaded(w)'
  BY DEF FoundLoaded

LEMMA FoundStep ==
    ASSUME OneCollector, LedgerInv, [Next]_vars, NEW w \in SqlCollectors
    PROVE  FoundLoaded(w)'
<1>0. /\ sql \in [SqlCollectors -> SqlWorker] /\ sql[w] \in SqlWorker
      /\ FoundLoaded(w) /\ SingleInv
  BY DEF LedgerInv, SingleInv, StagingInv, TypeInv, TypeOK, SqlTypeOK
<1>1. CASE Elsewhere
  BY <1>0, <1>1, ElsewhereMemory, FoundElsewhere
<1>2. CASE LoadStaging(w)
  BY <1>2, FoundAtLoad
<1>3. CASE EndpointUnknown(w) \/ EndpointMatched(w) \/ ReadFailed(w) \/ AggregationFailed(w)
  BY <1>3, FoundAtVisit
<1>4. CASE AllVisited(w) \/ DeleteInventory(w)
  <2>1. PICK pc \in {"Delete", "Save"} : sql' = [sql EXCEPT ![w].pc = pc]
    BY <1>4 DEF AllVisited, DeleteInventory
  <2>2. sql'[w].pc = pc /\ sql'[w].rows = sql[w].rows /\ sql'[w].found = sql[w].found
    <3>1. sql'[w] = [sql[w] EXCEPT !.pc = pc]
      BY <1>0, <2>1
    <3> QED
      BY <1>0, <3>1 DEF SqlWorker
  <2>3. sql[w].pc \in {"Match", "Delete"}
    BY <1>4 DEF AllVisited, DeleteInventory
  <2>4. PICK none \in SUBSET Sockets(sql[w].rows) : none = {}
    OBVIOUS
  <2>5. sql'[w].found = sql[w].found \union none
    BY <2>2, <2>4
  <2> QED
    BY <1>0, <2>2, <2>3, <2>5, FoundOn
<1>5. CASE \/ Requeue(w) \/ NothingQueued(w) \/ PickRun(w) \/ LeaseRun(w)
           \/ SaveEmpty(w) \/ SaveExpired(w) \/ SaveResult(w) \/ SaveConflict(w)
           \/ SqlError(w) \/ SqlCrash(w) \/ SqlRestart(w)
  <2>1. SqlTypeOK
    BY <1>0 DEF SqlTypeOK
  <2>2. sql'[w].pc \in {"Idle", "Pick", "Lease", "Load", "Down"}
    BY <1>5, <2>1, TurnRests
  <2> QED
    BY <2>2, FoundAtRest
<1>6. \/ Elsewhere
      \/ \E v \in SqlCollectors : SqlStep(v) \/ SqlError(v) \/ SqlCrash(v) \/ SqlRestart(v)
  BY DEF Next, SqlNext, Elsewhere
<1>7. ASSUME NEW v \in SqlCollectors PROVE v = w
  BY DEF OneCollector
<1> QED
  BY <1>1, <1>2, <1>3, <1>4, <1>5, <1>6, <1>7 DEF SqlStep

-----------------------------------------------------------------------------
(* The tables as the ledger sees them.                                     *)

phases == [r \in RunIds |-> Phase(runs[r])]

pendings == [r \in RunIds |-> Sockets(RowsOf(r))]

publisheds == [r \in RunIds |-> Sockets(InventoryOf(r))]

LEMMA PhasesSet ==
    ASSUME NEW r \in RunIds, NEW t, Phase(runs'[r]) = t,
           \A q \in RunIds : q # r => Phase(runs'[q]) = Phase(runs[q])
    PROVE  phases' = [phases EXCEPT ![r] = t]
  BY DEF phases

LEMMA PhasesKept ==
    ASSUME \A q \in RunIds : Phase(runs'[q]) = Phase(runs[q])
    PROVE  UNCHANGED phases
  BY DEF phases

LEMMA PendingSet ==
    ASSUME NEW r \in RunIds, NEW S, Sockets(RowsOf(r))' = S,
           \A q \in RunIds : q # r => Sockets(RowsOf(q))' = Sockets(RowsOf(q))
    PROVE  pendings' = [pendings EXCEPT ![r] = S]
  BY DEF pendings

LEMMA PendingKept ==
    ASSUME \A q \in RunIds : Sockets(RowsOf(q))' = Sockets(RowsOf(q))
    PROVE  UNCHANGED pendings
  BY DEF pendings

LEMMA PublishedSet ==
    ASSUME NEW r \in RunIds, NEW S, Sockets(InventoryOf(r))' = S,
           \A q \in RunIds : q # r => InventoryOf(q)' = InventoryOf(q)
    PROVE  publisheds' = [publisheds EXCEPT ![r] = S]
<1>1. \A q \in RunIds : q # r => Sockets(InventoryOf(q))' = Sockets(InventoryOf(q))
  BY DEF Sockets, Socket
<1> QED
  BY <1>1 DEF publisheds

LEMMA TablesKept ==
    /\ UNCHANGED staging => UNCHANGED pendings
    /\ UNCHANGED inventory => UNCHANGED publisheds
<1>1. UNCHANGED staging => UNCHANGED pendings
  BY DEF pendings, Sockets, Socket, RowsOf
<1>2. UNCHANGED inventory => UNCHANGED publisheds
  BY DEF publisheds, Sockets, Socket, InventoryOf
<1> QED
  BY <1>1, <1>2

\* The steps of the ledger, in these terms.
LEMMA LedgerStutters ==
    ASSUME UNCHANGED phases, UNCHANGED pendings, UNCHANGED publisheds
    PROVE  UNCHANGED Ledger!vars
  BY DEF phases, pendings, publisheds, Ledger!vars

LEMMA LedgerBegin ==
    ASSUME NEW r \in RunIds, phases[r] = "Absent",
           phases' = [phases EXCEPT ![r] = "Collecting"],
           UNCHANGED pendings, UNCHANGED publisheds
    PROVE  Ledger!Next
<1>1. Ledger!Begin(r)
  BY DEF phases, pendings, publisheds, Ledger!Begin
<1> QED
  BY <1>1 DEF Ledger!Next

LEMMA LedgerStage ==
    ASSUME NEW r \in RunIds, phases[r] = "Collecting", NEW S \in SUBSET SocketId,
           pendings' = [pendings EXCEPT ![r] = @ \union S],
           UNCHANGED phases, UNCHANGED publisheds
    PROVE  Ledger!Next
<1>1. Ledger!Stage(r)
  BY DEF phases, pendings, publisheds, Ledger!Stage
<1> QED
  BY <1>1 DEF Ledger!Next

LEMMA LedgerHandOver ==
    ASSUME NEW r \in RunIds, phases[r] = "Collecting", NEW t, phases' = [phases EXCEPT ![r] = t],
           t = "Queued" \/ (t = "Failed" /\ pendings[r] = {}),
           UNCHANGED pendings, UNCHANGED publisheds
    PROVE  Ledger!Next
<1>1. Ledger!HandOver(r)
  BY DEF phases, pendings, publisheds, Ledger!HandOver
<1> QED
  BY <1>1 DEF Ledger!Next

LEMMA LedgerTake ==
    ASSUME NEW r \in RunIds, phases[r] = "Queued",
           phases' = [phases EXCEPT ![r] = "Processing"],
           UNCHANGED pendings, UNCHANGED publisheds
    PROVE  Ledger!Next
<1>1. Ledger!Take(r)
  BY DEF phases, pendings, publisheds, Ledger!Take
<1> QED
  BY <1>1 DEF Ledger!Next

LEMMA LedgerPutBack ==
    ASSUME NEW R \in SUBSET {r \in RunIds : phases[r] = "Processing"},
           phases' = [r \in RunIds |-> IF r \in R THEN "Queued" ELSE phases[r]],
           UNCHANGED pendings, UNCHANGED publisheds
    PROVE  Ledger!Next
<1>1. Ledger!PutBack
  BY DEF phases, pendings, publisheds, Ledger!PutBack
<1> QED
  BY <1>1 DEF Ledger!Next

LEMMA LedgerFinish ==
    ASSUME NEW r \in RunIds, phases[r] = "Processing",
           NEW kept \in SUBSET pendings[r], NEW found \in SUBSET pendings[r],
           phases' = [phases EXCEPT ![r] = IF kept = {} THEN "Completed" ELSE "Failed"],
           pendings' = [pendings EXCEPT ![r] = kept],
           publisheds' = [publisheds EXCEPT ![r] = found]
    PROVE  Ledger!Next
<1>1. Ledger!Finish(r)
  BY DEF phases, pendings, publisheds, Ledger!Finish
<1> QED
  BY <1>1 DEF Ledger!Next

LEMMA LedgerExpire ==
    ASSUME NEW r \in RunIds, phases[r] = "Processing", pendings[r] # {},
           phases' = [phases EXCEPT ![r] = "Expired"],
           UNCHANGED pendings, UNCHANGED publisheds
    PROVE  Ledger!Next
<1>1. Ledger!Expire(r)
  BY DEF phases, pendings, publisheds, Ledger!Expire
<1> QED
  BY <1>1 DEF Ledger!Next

-----------------------------------------------------------------------------
(* Each statement is a step of the ledger, or none.                        *)

RefinesNext == Ledger!Next \/ UNCHANGED Ledger!vars

LEMMA StartBegins ==
    ASSUME LedgerInv, NEW c \in IisCollectors, StartCycle(c)
    PROVE  RefinesNext
<1>0. runs \in [RunIds -> Run]
  BY DEF LedgerInv, SingleInv, StagingInv, TypeInv, TypeOK, DbTypeOK
<1>1. PICK r \in RunIds :
         /\ runs[r].status = "Absent"
         /\ runs' = [runs EXCEPT ![r] =
                [NoRun EXCEPT !.status = "PendingIis", !.servers = Cardinality(Due)]]
  BY DEF StartCycle
<1>2. runs'[r].status = "PendingIis" /\ \A q \in RunIds : q # r => runs'[q] = runs[q]
  BY <1>0, <1>1 DEF NoRun
<1>3. phases[r] = "Absent"
  BY <1>1 DEF phases, Phase
<1>4. phases' = [phases EXCEPT ![r] = "Collecting"]
  <2>1. Phase(runs'[r]) = "Collecting"
    BY <1>2 DEF Phase
  <2> QED
    BY <1>2, <2>1, PhasesSet
<1>5. UNCHANGED pendings /\ UNCHANGED publisheds
  BY TablesKept DEF StartCycle
<1> QED
  BY <1>3, <1>4, <1>5, LedgerBegin DEF RefinesNext

LEMMA CollectStages ==
    ASSUME LedgerInv, NEW c \in IisCollectors, CollectSucceeds(c)
    PROVE  RefinesNext
<1>0. /\ runs \in [RunIds -> Run] /\ staging \subseteq StagingRow
      /\ iis \in [IisCollectors -> IisWorker]
  BY DEF LedgerInv, SingleInv, StagingInv, TypeInv, TypeOK, DbTypeOK, IisTypeOK
<1>a. PICK s \in iis[c].current, observed \in SUBSET Endpoints : \E listed \in ListLengths(observed) :
         /\ staging' = staging \union Observed(iis[c].run, s, observed)
         /\ runs' = [runs EXCEPT
                ![iis[c].run].ok = @ + 1,
                ![iis[c].run].staged = @ + listed]
  BY DEF CollectSucceeds, Observed
<1>1. PICK listed \in ListLengths(observed) :
         /\ staging' = staging \union Observed(iis[c].run, s, observed)
         /\ runs' = [runs EXCEPT
                ![iis[c].run].ok = @ + 1,
                ![iis[c].run].staged = @ + listed]
  BY <1>a
<1>2. PICK r : r = iis[c].run
  OBVIOUS
<1>3. r \in RunIds /\ runs[r].status = "PendingIis" /\ s \in IisServers
  <2>1. r \in RunIds
    BY <1>2 DEF LedgerInv, SingleInv, StagingInv, TypeInv, WorkersHaveRuns, CollectSucceeds
  <2>2. r # 0
    BY <2>1, BoundsAssumption DEF RunIds
  <2>3. s \in IisServers
    BY <1>0, <1>1 DEF IisWorker
  <2> QED
    BY <1>2, <2>1, <2>2, <2>3 DEF LedgerInv, SingleInv, CollectorsPending
<1>4. \A q \in RunIds : runs'[q].status = runs[q].status
  <2>1. ASSUME NEW q \in RunIds PROVE runs'[q].status = runs[q].status
    <3>1. DOMAIN runs[q] = RunFields
      BY <1>0 DEF Run, RunFields
    <3>2. CASE q = r
      BY <1>0, <1>1, <1>2, <3>1, <3>2 DEF RunFields
    <3>3. CASE q # r
      BY <1>0, <1>1, <1>2, <3>3
    <3> QED
      BY <3>2, <3>3
  <2> QED
    BY <2>1
<1> DEFINE new == Observed(r, s, observed)
           S == {[server |-> s, ip |-> e] : e \in observed}
<1>5. (\A x \in new : x.run = r) /\ {Socket(x) : x \in new} = S
  BY ObservedFacts
<1>6. staging' = staging \union new
  BY <1>1, <1>2
<1>7. S \in SUBSET SocketId
  BY <1>3 DEF SocketId
<1> HIDE DEF new, S
<1>8. Sockets(RowsOf(r))' = Sockets(RowsOf(r)) \union S
  <2>1. {x \in staging' : x.run = r} = {x \in staging : x.run = r} \union new
    BY <1>5, <1>6
  <2>2. {Socket(x) : x \in {x \in staging' : x.run = r}}
           = {Socket(x) : x \in {x \in staging : x.run = r}} \union {Socket(x) : x \in new}
    BY <2>1
  <2> QED
    BY <1>5, <2>2 DEF Sockets, RowsOf, Socket
<1>9. ASSUME NEW q \in RunIds, q # r PROVE Sockets(RowsOf(q))' = Sockets(RowsOf(q))
  <2>1. {x \in staging' : x.run = q} = {x \in staging : x.run = q}
    BY <1>5, <1>6, <1>9
  <2> QED
    BY <2>1 DEF Sockets, RowsOf, Socket
<1>10. pendings' = [pendings EXCEPT ![r] = @ \union S]
  <2>1. pendings' = [pendings EXCEPT ![r] = Sockets(RowsOf(r)) \union S]
    BY <1>3, <1>8, <1>9, PendingSet
  <2>2. pendings[r] = Sockets(RowsOf(r))
    BY <1>3 DEF pendings
  <2> QED
    BY <2>1, <2>2
<1>11. UNCHANGED phases
  <2>1. \A q \in RunIds : Phase(runs'[q]) = Phase(runs[q])
    BY <1>4 DEF Phase
  <2> QED
    BY <2>1, PhasesKept
<1>12. UNCHANGED publisheds
  BY TablesKept DEF CollectSucceeds
<1>13. phases[r] = "Collecting"
  BY <1>3 DEF phases, Phase
<1> QED
  BY <1>3, <1>7, <1>10, <1>11, <1>12, <1>13, LedgerStage DEF RefinesNext

LEMMA PublishHandsOver ==
    ASSUME LedgerInv, NEW c \in IisCollectors, PublishRun(c)
    PROVE  RefinesNext
<1>0. /\ runs \in [RunIds -> Run] /\ staging \subseteq StagingRow
  BY DEF LedgerInv, SingleInv, StagingInv, TypeInv, TypeOK, DbTypeOK
<1>1. PICK r : r = iis[c].run
  OBVIOUS
<1>2. r \in RunIds /\ runs[r].status = "PendingIis"
  <2>1. r \in RunIds
    BY <1>1 DEF LedgerInv, SingleInv, StagingInv, TypeInv, WorkersHaveRuns, PublishRun
  <2>2. r # 0
    BY <2>1, BoundsAssumption DEF RunIds
  <2> QED
    BY <1>1, <2>1, <2>2 DEF LedgerInv, SingleInv, CollectorsPending
<1>3. PICK s : s = PublishedStatus(runs[r])
  OBVIOUS
<1>4. s \in {"ReadyForSql", "Partial"} \/ (s = "Failed" /\ runs[r].ok = 0)
  <2>1. runs[r].ok \in Nat /\ runs[r].fail \in Nat
    BY <1>0, <1>2 DEF Run
  <2> QED
    BY <1>3, <2>1 DEF PublishedStatus
<1>5. runs'[r].status = s /\ \A q \in RunIds : q # r => runs'[q] = runs[q]
  <2>1. PICK b \in BOOLEAN : b = (runs[r].done \/ s = "Failed")
    BY Zenon
  <2>2. runs' = [runs EXCEPT ![r].status = s, ![r].done = @ \/ s = "Failed"]
    BY <1>1, <1>3 DEF PublishRun
  <2>3. runs' = [runs EXCEPT ![r].status = s, ![r].done = b]
    BY <1>2, <2>1, <2>2
  <2>4. runs'[r] = [runs[r] EXCEPT !.status = s, !.done = b]
    BY <1>0, <1>2, <2>3
  <2>5. runs[r] \in Run
    BY <1>0, <1>2
  <2>6. runs'[r].status = s
    BY <2>4, <2>5 DEF Run
  <2> QED
    BY <1>0, <2>3, <2>6
<1>6. PICK t : t = Phase(runs'[r])
  OBVIOUS
<1>7. t = "Queued" \/ (t = "Failed" /\ pendings[r] = {})
  <2>1. CASE s \in {"ReadyForSql", "Partial"}
    BY <1>5, <1>6, <2>1 DEF Phase
  <2>2. CASE s = "Failed" /\ runs[r].ok = 0
    <3>1. t = "Failed"
      BY <1>5, <1>6, <2>2 DEF Phase
    <3>2. RowsOf(r) = {}
      BY <2>2 DEF RowsOf, LedgerInv, SingleInv, RowsOfSuccess
    <3> QED
      BY <1>2, <3>1, <3>2 DEF pendings, Sockets
  <2> QED
    BY <1>4, <2>1, <2>2
<1>8. phases' = [phases EXCEPT ![r] = t]
  BY <1>2, <1>5, <1>6, PhasesSet
<1>9. UNCHANGED pendings /\ UNCHANGED publisheds
  BY TablesKept DEF PublishRun
<1>10. phases[r] = "Collecting"
  BY <1>2 DEF phases, Phase
<1> QED
  BY <1>2, <1>7, <1>8, <1>9, <1>10, LedgerHandOver DEF RefinesNext

LEMMA RequeuePutsBack ==
    ASSUME LedgerInv, NEW w \in SqlCollectors, Requeue(w)
    PROVE  RefinesNext
<1>0. runs \in [RunIds -> Run]
  BY DEF LedgerInv, SingleInv, StagingInv, TypeInv, TypeOK, DbTypeOK
<1> DEFINE R == {r \in RunIds : runs[r].status = "ProcessingSql" /\ ~runs[r].done /\ runs[r].age > LeaseAge}
<1>1. ASSUME NEW r \in RunIds
      PROVE  /\ r \in R => runs'[r].status = "ReadyForSql" /\ runs[r].status = "ProcessingSql"
             /\ r \notin R => runs'[r] = runs[r]
  <2>1. runs'[r] = IF r \in R THEN [runs[r] EXCEPT !.status = "ReadyForSql"] ELSE runs[r]
    BY DEF Requeue
  <2>2. r \in R => runs[r].status = "ProcessingSql"
    OBVIOUS
  <2> HIDE DEF R
  <2> QED
    BY <1>0, <2>1, <2>2 DEF Run
<1> HIDE DEF R
<1>2. R \in SUBSET {r \in RunIds : phases[r] = "Processing"}
  <2>1. R \subseteq RunIds
    BY DEF R
  <2> QED
    BY <1>1, <2>1 DEF phases, Phase
<1>3. phases' = [r \in RunIds |-> IF r \in R THEN "Queued" ELSE phases[r]]
  <2>1. ASSUME NEW r \in RunIds PROVE Phase(runs'[r]) = IF r \in R THEN "Queued" ELSE phases[r]
    <3>1. CASE r \in R
      BY <1>1, <3>1 DEF Phase
    <3>2. CASE r \notin R
      BY <1>1, <3>2 DEF phases
    <3> QED
      BY <3>1, <3>2
  <2> QED
    BY <2>1 DEF phases
<1>4. UNCHANGED pendings /\ UNCHANGED publisheds
  BY TablesKept DEF Requeue
<1> QED
  BY <1>2, <1>3, <1>4, LedgerPutBack DEF RefinesNext

LEMMA LeaseTakes ==
    ASSUME LedgerInv, NEW w \in SqlCollectors, LeaseRun(w)
    PROVE  RefinesNext
<1>0. runs \in [RunIds -> Run]
  BY DEF LedgerInv, SingleInv, StagingInv, TypeInv, TypeOK, DbTypeOK
<1>1. PICK r : r = sql[w].run
  OBVIOUS
<1>2. r \in RunIds /\ runs[r].status \in {"ReadyForSql", "Partial"}
  BY <1>1 DEF LedgerInv, SingleInv, StagingInv, TypeInv, WorkersHaveRuns, Memory, Leased, LeaseRun
<1>3. runs' = [runs EXCEPT ![r].status = "ProcessingSql"]
  BY <1>1 DEF LeaseRun
<1>4. runs'[r].status = "ProcessingSql" /\ \A q \in RunIds : q # r => runs'[q] = runs[q]
  BY <1>0, <1>2, <1>3 DEF Run
<1>5. phases[r] = "Queued" /\ Phase(runs'[r]) = "Processing"
  BY <1>2, <1>4 DEF phases, Phase
<1>6. phases' = [phases EXCEPT ![r] = "Processing"]
  BY <1>2, <1>4, <1>5, PhasesSet
<1>7. UNCHANGED pendings /\ UNCHANGED publisheds
  BY TablesKept DEF LeaseRun
<1> QED
  BY <1>2, <1>5, <1>6, <1>7, LedgerTake DEF RefinesNext

LEMMA EmptyFinishes ==
    ASSUME LedgerInv, NEW w \in SqlCollectors, SaveEmpty(w)
    PROVE  RefinesNext
<1>0. runs \in [RunIds -> Run] /\ sql[w].pc = "SaveEmpty" /\ SingleInv
  BY DEF LedgerInv, SingleInv, StagingInv, TypeInv, TypeOK, DbTypeOK, SaveEmpty
<1>1. PICK r : r = sql[w].run
  OBVIOUS
<1>2. r \in RunIds /\ runs[r].status = "ProcessingSql" /\ InventoryOf(r) = {}
  BY <1>0, <1>1, Finishing DEF Processing
<1>3. Sockets(RowsOf(r)) = {}
  BY <1>0, <1>1 DEF SingleInv, Memory, Loaded, Processing, Sockets
<1>4. runs' = [runs EXCEPT ![r].status = "Completed", ![r].done = TRUE]
  BY <1>1 DEF SaveEmpty
<1>5. runs'[r].status = "Completed" /\ \A q \in RunIds : q # r => runs'[q] = runs[q]
  BY <1>0, <1>2, <1>4 DEF Run
<1>6. UNCHANGED <<staging, inventory>>
  BY DEF SaveEmpty
<1>7. phases[r] = "Processing" /\ Phase(runs'[r]) = "Completed"
  BY <1>2, <1>5 DEF phases, Phase
<1>8. PICK none \in SUBSET pendings[r] : none = {}
  OBVIOUS
<1>9. phases' = [phases EXCEPT ![r] = IF none = {} THEN "Completed" ELSE "Failed"]
  BY <1>2, <1>5, <1>7, <1>8, PhasesSet
<1>10. pendings' = [pendings EXCEPT ![r] = none]
  <2>1. \A q \in RunIds : Sockets(RowsOf(q))' = Sockets(RowsOf(q))
    BY <1>6 DEF Sockets, Socket, RowsOf
  <2>2. Sockets(RowsOf(r))' = none
    BY <1>2, <1>3, <1>8, <2>1
  <2> QED
    BY <1>2, <2>1, <2>2, PendingSet
<1>11. publisheds' = [publisheds EXCEPT ![r] = none]
  <2>1. \A q \in RunIds : InventoryOf(q)' = InventoryOf(q)
    BY <1>6 DEF InventoryOf
  <2>2. Sockets(InventoryOf(r))' = none
    BY <1>2, <1>8, <2>1 DEF Sockets
  <2> QED
    BY <1>2, <2>1, <2>2, PublishedSet
<1> QED
  BY <1>2, <1>7, <1>8, <1>9, <1>10, <1>11, LedgerFinish DEF RefinesNext

\* Rows that neither come nor go leave the ledger as it is.
LEMMA RowsStay ==
    ASSUME NoNewRows, \A x \in staging : \E y \in staging' : y.run = x.run /\ Socket(y) = Socket(x)
    PROVE  \A q \in RunIds : Sockets(RowsOf(q))' = Sockets(RowsOf(q))
<1> SUFFICES ASSUME NEW q \in RunIds PROVE Sockets(RowsOf(q))' = Sockets(RowsOf(q))
  OBVIOUS
<1>1. ASSUME NEW x \in staging, x.run = q PROVE Socket(x) \in Sockets(RowsOf(q))'
  BY <1>1 DEF Sockets, Socket, RowsOf
<1>2. ASSUME NEW y \in staging', y.run = q PROVE Socket(y) \in Sockets(RowsOf(q))
  BY <1>2 DEF Sockets, RowsOf, NoNewRows
<1>3. \A k \in Sockets(RowsOf(q)) : k \in Sockets(RowsOf(q))'
  BY <1>1 DEF Sockets, RowsOf
<1>4. \A k \in Sockets(RowsOf(q))' : \E y \in staging' : y.run = q /\ k = Socket(y)
  BY DEF Sockets, Socket, RowsOf
<1> QED
  BY <1>2, <1>3, <1>4

LEMMA ExpiredExpires ==
    ASSUME LedgerInv, NEW w \in SqlCollectors, SaveExpired(w)
    PROVE  RefinesNext
<1>0. /\ runs \in [RunIds -> Run] /\ sql[w].pc = "SaveExpired" /\ SingleInv
      /\ TypeInv /\ SocketsUnique /\ staging \subseteq StagingRow
  BY DEF LedgerInv, SingleInv, StagingInv, TypeInv, TypeOK, DbTypeOK, SaveExpired
<1>1. PICK r : r = sql[w].run
  OBVIOUS
<1>2. r \in RunIds /\ runs[r].status = "ProcessingSql"
  BY <1>0, <1>1, Finishing DEF Processing
<1>3. Sockets(RowsOf(r)) # {}
  <2>1. Sockets(sql[w].rows) = Sockets(RowsOf(r)) /\ sql[w].rows # {}
    BY <1>0, <1>1 DEF LedgerInv, FoundLoaded, SingleInv, Memory, Loaded, Processing
  <2> QED
    BY <2>1 DEF Sockets
<1>4. runs' = [runs EXCEPT ![r].status = "Expired", ![r].done = TRUE]
  BY <1>1 DEF SaveExpired
<1>5. runs'[r].status = "Expired" /\ \A q \in RunIds : q # r => runs'[q] = runs[q]
  BY <1>0, <1>2, <1>4 DEF Run
<1>6. phases[r] = "Processing" /\ Phase(runs'[r]) = "Expired"
  BY <1>2, <1>5 DEF phases, Phase
<1>7. phases' = [phases EXCEPT ![r] = "Expired"]
  BY <1>2, <1>5, <1>6, PhasesSet
<1> DEFINE M == {x \in staging : \E row \in sql[w].rows : IsCopy(w, x, row)}
<1>8. staging' = {IF x \in M THEN [x EXCEPT !.status = "Expired"] ELSE x : x \in staging}
  <2>1. staging' = {IF \E row \in sql[w].rows : IsCopy(w, x, row)
                    THEN [x EXCEPT !.status = "Expired"] ELSE x : x \in staging}
    BY DEF SaveExpired
  <2>2. \A x \in staging : x \in M <=> \E row \in sql[w].rows : IsCopy(w, x, row)
    OBVIOUS
  <2> HIDE DEF M
  <2> QED
    BY <2>1, <2>2
<1>9. M \in SUBSET staging
  OBVIOUS
<1> HIDE DEF M
<1>10. NoNewRows
  <2>1. PICK all \in SUBSET staging : all = staging
    OBVIOUS
  <2>2. staging' = {IF x \in M THEN [x EXCEPT !.status = "Expired"] ELSE x : x \in all}
    BY <1>8, <2>1
  <2> QED
    BY <1>0, <1>9, <2>2, RowsMarked
<1>11. ASSUME NEW x \in staging PROVE \E y \in staging' : y.run = x.run /\ Socket(y) = Socket(x)
  <2>1. PICK y \in staging' : y = IF x \in M THEN [x EXCEPT !.status = "Expired"] ELSE x
    BY <1>8
  <2>2. y.run = x.run /\ y.server = x.server /\ y.ip = x.ip
    BY <1>0, <2>1 DEF StagingRow
  <2> QED
    BY <2>2, SocketFacts
<1>12. UNCHANGED pendings
  BY <1>10, <1>11, RowsStay, PendingKept
<1>13. UNCHANGED publisheds
  BY TablesKept DEF SaveExpired
<1>14. pendings[r] # {}
  BY <1>2, <1>3 DEF pendings
<1> QED
  BY <1>2, <1>6, <1>7, <1>12, <1>13, <1>14, LedgerExpire DEF RefinesNext

\* The rows of the failed endpoints, and no others, are left of the run.
LEMMA ResultKeepsFailed ==
    ASSUME SingleInv, NEW w \in SqlCollectors, SaveResult(w), NEW r, r = sql[w].run
    PROVE  /\ Sockets(RowsOf(r))' = Sockets(FailedRows(w))
           /\ \A q \in RunIds : q # r => Sockets(RowsOf(q))' = Sockets(RowsOf(q))
<1>0. /\ staging \subseteq StagingRow /\ sql[w].pc = "Save" /\ sql[w] \in SqlWorker /\ Memory(w)
      /\ staging' = {IF \E row \in FailedRows(w) : IsCopy(w, x, row)
                     THEN [x EXCEPT !.status = "Failed"] ELSE x :
                     x \in {y \in staging : ~\E row \in RemovedRows(w) : IsCopy(w, y, row)}}
      /\ Present(w, FailedRows(w) \union RemovedRows(w))
  BY DEF SingleInv, StagingInv, TypeInv, TypeOK, DbTypeOK, SqlTypeOK, SaveResult, CanSave
<1>1. /\ Sockets(sql[w].rows) = Sockets(RowsOf(r)) /\ \A row \in sql[w].rows : row.status = "Pending"
  BY <1>0 DEF Memory, Loaded, Processing
<1>2. RemovedRows(w) = sql[w].rows \ FailedRows(w)
  BY <1>1 DEF RemovedRows
<1>3. ASSUME NEW y \in staging'
      PROVE  \E x \in staging : /\ y.run = x.run /\ Socket(y) = Socket(x)
                                /\ ~\E row \in RemovedRows(w) : IsCopy(w, x, row)
  <2>1. PICK x \in staging : /\ ~\E row \in RemovedRows(w) : IsCopy(w, x, row)
                             /\ y = IF \E row \in FailedRows(w) : IsCopy(w, x, row)
                                    THEN [x EXCEPT !.status = "Failed"] ELSE x
    BY <1>0
  <2>2. y.run = x.run /\ y.server = x.server /\ y.ip = x.ip
    BY <1>0, <2>1 DEF StagingRow
  <2> QED
    BY <2>1, <2>2, SocketFacts
<1>4. ASSUME NEW x \in staging, ~\E row \in RemovedRows(w) : IsCopy(w, x, row)
      PROVE  \E y \in staging' : y.run = x.run /\ Socket(y) = Socket(x)
  <2>1. PICK y \in staging' : y = IF \E row \in FailedRows(w) : IsCopy(w, x, row)
                                  THEN [x EXCEPT !.status = "Failed"] ELSE x
    BY <1>0, <1>4
  <2>2. y.run = x.run /\ y.server = x.server /\ y.ip = x.ip
    BY <1>0, <2>1 DEF StagingRow
  <2> QED
    BY <2>2, SocketFacts
<1>5. ASSUME NEW y \in staging', y.run = r PROVE Socket(y) \in Sockets(FailedRows(w))
  <2>1. PICK x \in staging : /\ y.run = x.run /\ Socket(y) = Socket(x)
                             /\ ~\E row \in RemovedRows(w) : IsCopy(w, x, row)
    BY <1>3
  <2>2. Socket(x) \in Sockets(sql[w].rows)
    BY <1>1, <1>5, <2>1 DEF Sockets, RowsOf
  <2>3. PICK row \in sql[w].rows : Socket(row) = Socket(x) /\ IsCopy(w, x, row)
    BY <1>5, <2>1, <2>2 DEF Sockets, IsCopy
  <2>4. row \in FailedRows(w)
    BY <1>2, <2>1, <2>3
  <2> QED
    BY <2>1, <2>3, <2>4 DEF Sockets
<1>6. ASSUME NEW row \in FailedRows(w)
      PROVE  \E y \in staging' : y.run = r /\ Socket(y) = Socket(row)
  <2>1. PICK x \in staging : x.run = r /\ Socket(x) = Socket(row)
    BY <1>0 DEF Present, IsCopy
  <2>2. ASSUME NEW other \in RemovedRows(w), IsCopy(w, x, other) PROVE FALSE
    <3>1. Socket(other) = Socket(row)
      BY <2>1, <2>2 DEF IsCopy
    <3>2. other.ip = row.ip
      BY <3>1, SocketFacts
    <3>3. other \in sql[w].rows /\ other \notin FailedRows(w)
      BY <1>2
    <3> QED
      BY <3>2, <3>3 DEF FailedRows
  <2>3. PICK y \in staging' : y.run = x.run /\ Socket(y) = Socket(x)
    BY <1>4, <2>2
  <2> QED
    BY <2>1, <2>3
<1>7. Sockets(RowsOf(r))' = {Socket(y) : y \in {z \in staging' : z.run = r}}
  BY DEF Sockets, Socket, RowsOf
<1>8. Sockets(RowsOf(r))' = Sockets(FailedRows(w))
  BY <1>5, <1>6, <1>7 DEF Sockets
<1>9. ASSUME NEW q \in RunIds, q # r PROVE Sockets(RowsOf(q))' = Sockets(RowsOf(q))
  <2>1. Sockets(RowsOf(q))' = {Socket(y) : y \in {z \in staging' : z.run = q}}
    BY DEF Sockets, Socket, RowsOf
  <2>2. Sockets(RowsOf(q)) = {Socket(y) : y \in {z \in staging : z.run = q}}
    BY DEF Sockets, RowsOf
  <2>3. \A x \in staging : x.run = q => \A row : ~IsCopy(w, x, row)
    BY <1>9 DEF IsCopy
  <2> QED
    BY <1>3, <1>4, <2>1, <2>2, <2>3
<1> QED
  BY <1>8, <1>9

LEMMA ResultFinishes ==
    ASSUME LedgerInv, NEW w \in SqlCollectors, SaveResult(w)
    PROVE  RefinesNext
<1>0. /\ runs \in [RunIds -> Run] /\ sql[w] \in SqlWorker /\ sql[w].pc = "Save" /\ SingleInv
  BY DEF LedgerInv, SingleInv, StagingInv, TypeInv, TypeOK, DbTypeOK, SqlTypeOK, SaveResult
<1>1. PICK r : r = sql[w].run
  OBVIOUS
<1>2. r \in RunIds /\ runs[r].status = "ProcessingSql" /\ InventoryOf(r) = {}
  BY <1>0, <1>1, Finishing DEF Processing
<1>3. Sockets(sql[w].rows) = Sockets(RowsOf(r)) /\ sql[w].found \subseteq Sockets(RowsOf(r))
  BY <1>0, <1>1 DEF LedgerInv, FoundLoaded, SingleInv, Memory, Loaded, Processing
<1> DEFINE t == IF FailedRows(w) = {} THEN "Completed" ELSE "Failed"
<1>4. PICK m, u : runs' = [runs EXCEPT
         ![r].status = t, ![r].done = TRUE, ![r].matched = m, ![r].unmatched = u]
  <2> DEFINE m == Written(runs[r].matched, sql[w].counted.matched, sql[w].matched)
             u == Written(runs[r].unmatched, sql[w].counted.unmatched, sql[w].unmatched)
  <2>1. runs[r] \in Run
    BY <1>0, <1>2
  <2>2. runs' = [runs EXCEPT ![r].status = t, ![r].done = TRUE, ![r].matched = m, ![r].unmatched = u]
    BY <1>1, <1>2, <2>1 DEF SaveResult, Run
  <2> HIDE DEF m, u
  <2> QED
    BY <2>2
<1>5. t \in {"Completed", "Failed"}
  OBVIOUS
<1>6. PICK kept : kept = Sockets(FailedRows(w))
  OBVIOUS
<1>7. (kept = {} <=> FailedRows(w) = {}) /\ kept \subseteq Sockets(RowsOf(r))
  <2>1. FailedRows(w) \subseteq sql[w].rows
    BY DEF FailedRows
  <2> QED
    BY <1>3, <1>6, <2>1 DEF Sockets
<1>8. t = IF kept = {} THEN "Completed" ELSE "Failed"
  BY <1>7
<1> HIDE DEF t
<1>9. runs'[r].status = t /\ \A q \in RunIds : q # r => runs'[q] = runs[q]
  <2>1. runs'[r] = [runs[r] EXCEPT !.status = t, !.done = TRUE, !.matched = m, !.unmatched = u]
    BY <1>0, <1>2, <1>4
  <2>2. runs[r] \in Run
    BY <1>0, <1>2
  <2>3. runs'[r].status = t
    BY <2>1, <2>2 DEF Run
  <2> QED
    BY <1>0, <1>4, <2>3
<1>10. phases[r] = "Processing" /\ Phase(runs'[r]) = t
  BY <1>2, <1>5, <1>9 DEF phases, Phase
<1>11. phases' = [phases EXCEPT ![r] = IF kept = {} THEN "Completed" ELSE "Failed"]
  BY <1>2, <1>8, <1>9, <1>10, PhasesSet
<1>12. pendings[r] = Sockets(RowsOf(r))
  BY <1>2 DEF pendings
<1>13. pendings' = [pendings EXCEPT ![r] = kept]
  <2>1. Sockets(RowsOf(r))' = kept
    BY <1>0, <1>1, <1>6, ResultKeepsFailed
  <2>2. \A q \in RunIds : q # r => Sockets(RowsOf(q))' = Sockets(RowsOf(q))
    BY <1>0, <1>1, ResultKeepsFailed
  <2> QED
    BY <1>2, <2>1, <2>2, PendingSet
<1>14. publisheds' = [publisheds EXCEPT ![r] = sql[w].found]
  <2>1. inventory' = inventory \union NewInventory(w)
    BY DEF SaveResult
  <2>2. \A x \in NewInventory(w) : x.run = r
    BY <1>1 DEF NewInventory
  <2>3. ASSUME NEW q \in RunIds, q # r PROVE InventoryOf(q)' = InventoryOf(q)
    <3>1. {x \in inventory' : x.run = q} = {x \in inventory : x.run = q}
      BY <2>1, <2>2, <2>3
    <3> QED
      BY <3>1 DEF InventoryOf
  <2>4. {x \in inventory' : x.run = r} = NewInventory(w)
    BY <1>2, <2>1, <2>2 DEF InventoryOf
  <2>5. {Socket(x) : x \in NewInventory(w)} = sql[w].found
    <3> DEFINE row(k) == [run |-> sql[w].run, server |-> k.server, ip |-> k.ip]
    <3>1. \A k \in sql[w].found : Socket(row(k)) = k
      BY <1>0 DEF SqlWorker, SocketId, Socket
    <3>2. NewInventory(w) = {row(k) : k \in sql[w].found}
      BY DEF NewInventory
    <3> HIDE DEF row
    <3> QED
      BY <3>1, <3>2
  <2>6. Sockets(InventoryOf(r))' = sql[w].found
    BY <2>4, <2>5 DEF Sockets, Socket, InventoryOf
  <2>7. PICK S : S = sql[w].found
    OBVIOUS
  <2>8. Sockets(InventoryOf(r))' = S
    BY <2>6, <2>7
  <2>9. publisheds' = [publisheds EXCEPT ![r] = S]
    BY <1>2, <2>3, <2>8, PublishedSet
  <2> QED
    BY <2>7, <2>9
<1>15. PICK found : found = sql[w].found
  OBVIOUS
<1>16. kept \in SUBSET pendings[r] /\ found \in SUBSET pendings[r]
  BY <1>3, <1>7, <1>12, <1>15
<1>17. publisheds' = [publisheds EXCEPT ![r] = found]
  BY <1>14, <1>15
<1> QED
  BY <1>2, <1>10, <1>11, <1>13, <1>16, <1>17, LedgerFinish DEF RefinesNext

LEMMA TablesStutter ==
    ASSUME UNCHANGED <<runs, staging, inventory>>
    PROVE  RefinesNext
<1>1. UNCHANGED phases
  BY PhasesKept
<1>2. UNCHANGED pendings /\ UNCHANGED publisheds
  BY TablesKept
<1> QED
  BY <1>1, <1>2, LedgerStutters DEF RefinesNext

LEMMA FailureStutters ==
    ASSUME LedgerInv, NEW c \in IisCollectors, CollectFails(c)
    PROVE  RefinesNext
<1>0. runs \in [RunIds -> Run]
  BY DEF LedgerInv, SingleInv, StagingInv, TypeInv, TypeOK, DbTypeOK
<1>1. runs' = [runs EXCEPT ![iis[c].run].fail = @ + 1]
  BY DEF CollectFails
<1>2. ASSUME NEW q \in RunIds PROVE runs'[q].status = runs[q].status
  <2>1. DOMAIN runs[q] = RunFields
    BY <1>0 DEF Run, RunFields
  <2> QED
    BY <1>0, <1>1, <2>1 DEF RunFields
<1>3. UNCHANGED phases
  BY <1>2, PhasesKept DEF Phase
<1>4. UNCHANGED pendings /\ UNCHANGED publisheds
  BY TablesKept DEF CollectFails
<1> QED
  BY <1>3, <1>4, LedgerStutters DEF RefinesNext

LEMMA TickStutters ==
    ASSUME LedgerInv, Tick, UNCHANGED <<iis, sql>>
    PROVE  RefinesNext
<1>0. /\ SingleInv /\ TypeInv /\ SocketsUnique /\ runs \in [RunIds -> Run]
      /\ staging \subseteq StagingRow
  BY DEF LedgerInv, SingleInv, StagingInv, TypeInv, TypeOK, DbTypeOK
<1>1. ASSUME NEW q \in RunIds PROVE runs'[q].status = runs[q].status
  <2>1. \/ runs'[q] = runs[q]
        \/ runs'[q] = [runs[q] EXCEPT !.age = Older(runs[q].age, LeaseAge + 1)]
    BY DEF Tick
  <2>2. DOMAIN runs[q] = RunFields
    BY <1>0 DEF Run, RunFields
  <2> QED
    BY <2>1, <2>2 DEF RunFields
<1>2. UNCHANGED phases
  BY <1>1, PhasesKept DEF Phase
<1>3. NoNewRows
  BY <1>0, RowsTick
<1>4. \A x \in staging : \E y \in staging' : y.run = x.run /\ Socket(y) = Socket(x)
  BY <1>0, ElsewhereRows DEF Elsewhere, RowsElsewhere
<1>5. UNCHANGED pendings
  BY <1>3, <1>4, RowsStay, PendingKept
<1>6. UNCHANGED publisheds
  BY TablesKept DEF Tick
<1> QED
  BY <1>2, <1>5, <1>6, LedgerStutters DEF RefinesNext

\* The inventory of a run that is not finished is empty: nothing is deleted.
LEMMA DeleteStutters ==
    ASSUME LedgerInv, NEW w \in SqlCollectors, DeleteInventory(w)
    PROVE  RefinesNext
<1>1. SingleInv /\ sql[w].pc \in Processing
  BY DEF LedgerInv, DeleteInventory, Processing
<1>2. InventoryOf(sql[w].run) = {}
  BY <1>1, Finishing
<1>3. UNCHANGED <<runs, staging, inventory>>
  BY <1>2 DEF DeleteInventory
<1> QED
  BY <1>3, TablesStutter

LEMMA LedgerStep ==
    ASSUME LedgerInv, [Next]_vars
    PROVE  RefinesNext
<1>1. ASSUME NEW c \in IisCollectors, IisStep(c) \/ IisError(c) \/ IisCrash(c) \/ IisRestart(c)
      PROVE  RefinesNext
  <2>1. CASE StartCycle(c)
    BY <2>1, StartBegins
  <2>2. CASE CollectSucceeds(c)
    BY <2>2, CollectStages
  <2>3. CASE CollectFails(c)
    BY <2>3, FailureStutters
  <2>4. CASE PublishRun(c)
    BY <2>4, PublishHandsOver
  <2>5. CASE \/ MarkAttempt(c) \/ AttemptConflict(c) \/ CollectConflict(c)
             \/ IisError(c) \/ IisCrash(c) \/ IisRestart(c)
    <3>1. UNCHANGED <<runs, staging, inventory>>
      BY <2>5 DEF MarkAttempt, AttemptConflict, CollectConflict, IisError, IisCrash, IisRestart, dbVars
    <3> QED
      BY <3>1, TablesStutter
  <2> QED
    BY <1>1, <2>1, <2>2, <2>3, <2>4, <2>5 DEF IisStep
<1>2. ASSUME NEW w \in SqlCollectors, SqlStep(w) \/ SqlError(w) \/ SqlCrash(w) \/ SqlRestart(w)
      PROVE  RefinesNext
  <2>1. CASE Requeue(w)
    BY <2>1, RequeuePutsBack
  <2>2. CASE LeaseRun(w)
    BY <2>2, LeaseTakes
  <2>3. CASE SaveEmpty(w)
    BY <2>3, EmptyFinishes
  <2>4. CASE SaveExpired(w)
    BY <2>4, ExpiredExpires
  <2>5. CASE SaveResult(w)
    BY <2>5, ResultFinishes
  <2>6. CASE DeleteInventory(w)
    BY <2>6, DeleteStutters
  <2>7. CASE \/ NothingQueued(w) \/ PickRun(w) \/ LoadStaging(w)
             \/ EndpointUnknown(w) \/ EndpointMatched(w) \/ ReadFailed(w) \/ AggregationFailed(w)
             \/ AllVisited(w) \/ SaveConflict(w) \/ SqlError(w) \/ SqlCrash(w) \/ SqlRestart(w)
    <3>1. UNCHANGED <<runs, staging, inventory>>
      BY <2>7 DEF NothingQueued, PickRun, LoadStaging, EndpointUnknown, EndpointMatched, ReadFailed,
         AggregationFailed, AllVisited, SaveConflict, SqlError, SqlCrash, SqlRestart, dbVars
    <3> QED
      BY <3>1, TablesStutter
  <2> QED
    BY <1>2, <2>1, <2>2, <2>3, <2>4, <2>5, <2>6, <2>7 DEF SqlStep
<1>3. ASSUME \/ \E s \in IisServers : ToggleIisServer(s)
             \/ \E e \in Registered : ToggleSqlServer(e)
             \/ UNCHANGED vars
      PROVE  RefinesNext
  <2>1. UNCHANGED <<runs, staging, inventory>>
    BY <1>3 DEF ToggleIisServer, ToggleSqlServer, vars, dbVars
  <2> QED
    BY <2>1, TablesStutter
<1>4. ASSUME Tick /\ UNCHANGED <<iis, sql>> PROVE RefinesNext
  BY <1>4, TickStutters
<1> QED
  BY <1>1, <1>2, <1>3, <1>4 DEF Next, IisNext, SqlNext

LEMMA LedgerStart == Init => LedgerInv /\ Ledger!Init
<1> SUFFICES ASSUME Init PROVE LedgerInv /\ Ledger!Init
  OBVIOUS
<1>1. SingleInv
  BY SingleStart
<1>2. \A w \in SqlCollectors : FoundLoaded(w)
  BY DEF Init, SqlInit, SqlIdle, FoundLoaded
<1>3. /\ \A r \in RunIds : runs[r].status = "Absent"
      /\ staging = {} /\ inventory = {}
  BY DEF Init, DbInit, NoRun
<1>4. \A r \in RunIds : Phase(runs[r]) = "Absent"
  BY <1>3 DEF Phase
<1>5. \A r \in RunIds : Sockets(RowsOf(r)) = {} /\ Sockets(InventoryOf(r)) = {}
  BY <1>3 DEF Sockets, RowsOf, InventoryOf
<1>6. Ledger!Init
  BY <1>4, <1>5 DEF Ledger!Init
<1> QED
  BY <1>1, <1>2, <1>6 DEF LedgerInv

-----------------------------------------------------------------------------
(* The theorem.                                                            *)

\* With one SQL collector, the statements of the two services, the failures, the
\* restarts and the administrators' edits between them, implement the ledger of
\* runs: each run is disposed of in one step and never changes again.
THEOREM LedgerIsImplemented == ASSUME OneCollector PROVE Spec => ImplementsLedger
<1>1. Init => LedgerInv /\ Ledger!Init
  BY LedgerStart
<1>2. LedgerInv /\ [Next]_vars => LedgerInv'
  <2> SUFFICES ASSUME LedgerInv, [Next]_vars PROVE LedgerInv'
    OBVIOUS
  <2>1. SingleInv'
    BY SingleStep DEF LedgerInv
  <2>2. \A w \in SqlCollectors : FoundLoaded(w)'
    BY FoundStep
  <2> QED
    BY <2>1, <2>2 DEF LedgerInv
<1>3. LedgerInv /\ [Next]_vars => [Ledger!Next]_Ledger!vars
  BY LedgerStep DEF RefinesNext
<1> QED
  BY <1>1, <1>2, <1>3, PTL DEF Spec, ImplementsLedger, Ledger!Spec

=============================================================================
