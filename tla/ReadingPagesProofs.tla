------------------------- MODULE ReadingPagesProofs --------------------------
(***************************************************************************)
(* With one SQL collector the two queries of the dashboard belong together,*)
(* for any number of IIS collectors, servers, endpoints, runs and faults.  *)
(* The argument does not look at the statements of the services again: the *)
(* tables implement the ledger of runs, the run that was chosen had been   *)
(* finished, and the ledger never touches a finished run.                  *)
(***************************************************************************)
EXTENDS ReadingPages, LedgerProofs

-----------------------------------------------------------------------------
(* The inventory of a finished run.                                        *)

\* No step of the ledger changes the sockets a finished run has published.
LEMMA FinishedForGood ==
    ASSUME RefinesNext, NEW r \in RunIds, phases[r] \in {"Completed", "Failed", "Expired"}
    PROVE  publisheds'[r] = publisheds[r]
<1>1. CASE UNCHANGED Ledger!vars
  BY <1>1 DEF Ledger!vars, publisheds
<1>2. CASE Ledger!PutBack
  BY <1>2 DEF Ledger!PutBack, publisheds
<1>3. ASSUME NEW q \in RunIds,
             \/ Ledger!Begin(q) \/ Ledger!Stage(q) \/ Ledger!HandOver(q)
             \/ Ledger!Take(q) \/ Ledger!Expire(q)
      PROVE  publisheds'[r] = publisheds[r]
  BY <1>3 DEF Ledger!Begin, Ledger!Stage, Ledger!HandOver, Ledger!Take, Ledger!Expire, publisheds
<1>4. ASSUME NEW q \in RunIds, Ledger!Finish(q) PROVE publisheds'[r] = publisheds[r]
  <2>1. phases[q] = "Processing"
    BY <1>4 DEF Ledger!Finish, phases
  <2>2. q # r
    BY <2>1
  <2>3. PICK found : publisheds' = [publisheds EXCEPT ![q] = found]
    BY <1>4 DEF Ledger!Finish, publisheds
  <2> QED
    BY <2>2, <2>3 DEF publisheds
<1> QED
  BY <1>1, <1>2, <1>3, <1>4 DEF RefinesNext, Ledger!Next

\* A run has as many rows in the inventory as sockets.
LEMMA InventoryRowsAreSockets ==
    ASSUME DbTypeOK, NEW r
    PROVE  Cardinality(Sockets(InventoryOf(r))) = Cardinality(InventoryOf(r))
<1> DEFINE rows == InventoryOf(r)
           f == [x \in rows |-> Socket(x)]
<1>1. \A x \in rows : x \in InventoryRow /\ x.run = r
  BY DEF DbTypeOK, InventoryOf
<1>2. IsFiniteSet(Sockets(rows))
  <2>1. Sockets(rows) \subseteq SocketId
    BY <1>1 DEF InventoryRow, Sockets, Socket, SocketId
  <2> QED
    BY <2>1, SocketIdFinite, FS_Subset
<1>3. f \in Bijection(rows, Sockets(rows))
  <2>1. f \in [rows -> Sockets(rows)]
    BY DEF Sockets
  <2>2. \A k \in Sockets(rows) : \E x \in rows : f[x] = k
    BY DEF Sockets
  <2>3. ASSUME NEW x \in rows, NEW y \in rows, f[x] = f[y] PROVE x = y
    <3>1. Socket(x) = Socket(y)
      BY <2>3
    <3>2. x.server = y.server /\ x.ip = y.ip
      BY <3>1 DEF Socket
    <3> QED
      BY <1>1, <3>2 DEF InventoryRow
  <2> HIDE DEF f, rows
  <2> QED
    BY <2>1, <2>2, <2>3 DEF Bijection, Injection, Surjection, IsInjective
<1> HIDE DEF f
<1>4. \E g : g \in Bijection(Sockets(rows), rows)
  BY <1>3, Fun_BijInverse
<1> HIDE DEF rows
<1>5. Cardinality(rows) = Cardinality(Sockets(rows))
  BY <1>2, <1>4, FS_Bijection DEF ExistsBijection
<1> QED
  BY <1>5 DEF rows

-----------------------------------------------------------------------------
(* The dashboard.                                                          *)

\* The run that was chosen has rows; it is of a finished run, since the rows of
\* the inventory are, and so neither goes away before the rows are loaded.
PagesInv == LedgerInv /\ (last # 0 => last \in RunIds /\ InventoryOf(last) # {})

\* Whatever the collectors do, a run with inventory keeps it.
LEMMA InventoryStays ==
    ASSUME LedgerInv, RefinesNext, NEW r \in RunIds, InventoryOf(r) # {}
    PROVE  InventoryOf(r)' # {}
<1>1. PICK x \in inventory : x.run = r
  BY DEF InventoryOf
<1>2. runs[r].done
  BY <1>1 DEF LedgerInv, SingleInv, InventoryOnlyOfFinishedRuns
<1>3. runs[r].status \in {"Completed", "Failed", "Expired"}
  BY <1>2 DEF LedgerInv, SingleInv, RunsSound
<1>4. phases[r] \in {"Completed", "Failed", "Expired"}
  BY <1>3 DEF phases, Phase
<1>5. Sockets(InventoryOf(r))' = Sockets(InventoryOf(r))
  BY <1>4, FinishedForGood DEF publisheds
<1>6. Sockets(InventoryOf(r)) # {}
  BY DEF Sockets
<1> QED
  BY <1>5, <1>6 DEF Sockets

LEMMA PagesStep == ASSUME OneCollector, PagesInv, [PagesNext]_pagesVars PROVE PagesInv'
<1>1. ASSUME [Next]_vars PROVE LedgerInv'
  <2>1. SingleInv'
    BY <1>1, SingleStep DEF PagesInv, LedgerInv
  <2>2. \A w \in SqlCollectors : FoundLoaded(w)'
    BY <1>1, FoundStep DEF PagesInv
  <2> QED
    BY <2>1, <2>2 DEF LedgerInv
<1>2. CASE Collect
  <2>1. [Next]_vars /\ last' = last
    BY <1>2 DEF Collect
  <2>2. LedgerInv' /\ RefinesNext
    BY <1>1, <2>1, LedgerStep DEF PagesInv
  <2>3. ASSUME last # 0 PROVE last' \in RunIds /\ InventoryOf(last)' # {}
    <3>1. PICK r \in RunIds : r = last
      BY <2>3 DEF PagesInv
    <3>2. InventoryOf(r) # {}
      BY <2>3, <3>1 DEF PagesInv
    <3>3. InventoryOf(r)' # {}
      BY <2>2, <3>2, InventoryStays DEF PagesInv
    <3> QED
      BY <2>1, <3>1, <3>3 DEF InventoryOf
  <2> QED
    BY <2>1, <2>2, <2>3 DEF PagesInv, RunIds
<1>3. CASE ChooseRun
  <2>1. UNCHANGED vars
    BY <1>3 DEF ChooseRun
  <2>2. LedgerInv'
    BY <1>1, <2>1
  <2>3. InventoryOf(last') # {}
    BY <1>3 DEF ChooseRun
  <2>4. last' \in RunIds
    BY <2>3 DEF PagesInv, LedgerInv, SingleInv, StagingInv, TypeInv, TypeOK, DbTypeOK, InventoryOf, InventoryRow
  <2>5. InventoryOf(last)' = InventoryOf(last')
    BY <2>1 DEF InventoryOf, vars, dbVars
  <2> QED
    BY <2>2, <2>3, <2>4, <2>5 DEF PagesInv, RunIds
<1>4. CASE LoadRows \/ UNCHANGED pagesVars
  <2>1. UNCHANGED vars /\ last' \in {0, last}
    BY <1>4 DEF LoadRows, pagesVars
  <2>2. LedgerInv'
    BY <1>1, <2>1
  <2>3. ASSUME last' # 0 PROVE last' \in RunIds /\ InventoryOf(last)' # {}
    BY <2>1, <2>3 DEF PagesInv, InventoryOf, vars, dbVars
  <2> QED
    BY <2>2, <2>3 DEF PagesInv, RunIds
<1> QED
  BY <1>2, <1>3, <1>4 DEF PagesNext

LEMMA PagesShow == PagesInv => HomeShowsWholeRun
<1> SUFFICES ASSUME PagesInv, last # 0
             PROVE  /\ Sockets(InventoryOf(last)) # {}
                    /\ runs[last].status = "Completed" =>
                          Cardinality(Sockets(InventoryOf(last))) = runs[last].matched
  BY DEF HomeShowsWholeRun, ShownRows
<1>1. last \in RunIds /\ InventoryOf(last) # {}
  BY DEF PagesInv
<1>2. DbTypeOK /\ CompletedRunsKeepInventory
  BY DEF PagesInv, LedgerInv, SingleInv, StagingInv, TypeInv, TypeOK
<1>3. Sockets(InventoryOf(last)) # {}
  BY <1>1 DEF Sockets
<1>4. Cardinality(Sockets(InventoryOf(last))) = Cardinality(InventoryOf(last))
  BY <1>2, InventoryRowsAreSockets
<1> QED
  BY <1>1, <1>2, <1>3, <1>4 DEF CompletedRunsKeepInventory

\* With one SQL collector the rows a dashboard loads are those of the run it has
\* chosen, all of them if the run is completed, although runs are finished and
\* inventory is deleted between its two queries (Home.razor:78 to 89).
THEOREM HomeShowsRunsWhole == ASSUME OneCollector PROVE PagesSpec => []HomeShowsWholeRun
<1>1. PagesInit => PagesInv
  BY LedgerStart DEF PagesInit, PagesInv
<1>2. PagesInv /\ [PagesNext]_pagesVars => PagesInv'
  BY PagesStep
<1>3. PagesInv => HomeShowsWholeRun
  BY PagesShow
<1> QED
  BY <1>1, <1>2, <1>3, PTL DEF PagesSpec
=============================================================================
