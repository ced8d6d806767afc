-------------------------- MODULE IisCollectorProofs -------------------------
(***************************************************************************)
(* What the row versions of IisServers guarantee, for any number of        *)
(* servers, endpoints and IIS collectors.                                  *)
(***************************************************************************)
EXTENDS IisCollector, FiniteSetTheorems, TLAPS

\* The part of the database the collectors' decisions are about.
ServersOK == iisServers \in [IisServers -> IisServer]

\* The strengthening of the two properties: they hold together with the types.
FenceInv == ServersOK /\ IisTypeOK /\ CollectionFenced /\ DecisionStillValid

\* Marking copies as overtaken keeps the local states well-formed and only adds
\* the server to the stale set of those that hold a copy of it.
LEMMA OverwrittenFacts ==
    ASSUME IisTypeOK, NEW s \in IisServers, NEW D \in SUBSET IisCollectors
    PROVE  /\ Overwritten(s, D) \in [IisCollectors -> IisWorker]
           /\ \A d \in IisCollectors :
                /\ Overwritten(s, D)[d].pc = iis[d].pc
                /\ Overwritten(s, D)[d].run = iis[d].run
                /\ Overwritten(s, D)[d].todo = iis[d].todo
                /\ Overwritten(s, D)[d].current = iis[d].current
                /\ iis[d].stale \subseteq Overwritten(s, D)[d].stale
                /\ Overwritten(s, D)[d].stale \subseteq iis[d].stale \union {s}
                /\ d \in D /\ s \in iis[d].todo \union iis[d].current
                     => s \in Overwritten(s, D)[d].stale
  BY DEF IisTypeOK, IisWorker, Overwritten

LEMMA IisIdleType == IisIdle \in IisWorker /\ IisDown \in IisWorker
  BY DEF IisIdle, IisDown, IisWorker

\* Every step of a collector and every toggle keeps the local states well-formed.
LEMMA IisTypeStep == IisTypeOK /\ IisNext => IisTypeOK'
<1> SUFFICES ASSUME IisTypeOK, IisNext PROVE IisTypeOK'
  OBVIOUS
<1> USE IisIdleType
<1>1. ASSUME NEW c \in IisCollectors, StartCycle(c) PROVE IisTypeOK'
  <2>1. PICK r \in RunIds : iis' = [iis EXCEPT ![c] =
            [IisIdle EXCEPT !.pc = "Attempt", !.run = r, !.todo = Due]]
    BY <1>1 DEF StartCycle
  <2>2. [IisIdle EXCEPT !.pc = "Attempt", !.run = r, !.todo = Due] \in IisWorker
    BY DEF IisIdle, IisWorker, Due
  <2> QED
    BY <2>1, <2>2 DEF IisTypeOK
<1>2. ASSUME NEW c \in IisCollectors, MarkAttempt(c) PROVE IisTypeOK'
  <2>1. PICK s \in iis[c].todo \ iis[c].stale :
            iis' = [Overwritten(s, IisCollectors \ {c}) EXCEPT
                ![c].pc = "Collect", ![c].todo = @ \ {s}, ![c].current = {s}]
    BY <1>2 DEF MarkAttempt
  <2>2. s \in IisServers
    BY <2>1 DEF IisTypeOK, IisWorker
  <2>3. Overwritten(s, IisCollectors \ {c}) \in [IisCollectors -> IisWorker]
    BY <2>2, OverwrittenFacts
  <2>4. ASSUME NEW d \in IisCollectors PROVE iis'[d] \in IisWorker
    BY <2>1, <2>2, <2>3 DEF IisWorker
  <2> QED
    BY <2>1, <2>3, <2>4 DEF IisTypeOK
<1>3. ASSUME NEW c \in IisCollectors, CollectSucceeds(c) \/ CollectFails(c) PROVE IisTypeOK'
  <2>1. PICK s \in iis[c].current :
            iis' = [Overwritten(s, IisCollectors \ {c}) EXCEPT
                ![c].pc = "Attempt", ![c].current = {}]
    BY <1>3 DEF CollectSucceeds, CollectFails
  <2>2. s \in IisServers
    BY <2>1 DEF IisTypeOK, IisWorker
  <2>3. Overwritten(s, IisCollectors \ {c}) \in [IisCollectors -> IisWorker]
    BY <2>2, OverwrittenFacts
  <2> QED
    BY <2>1, <2>3 DEF IisTypeOK, IisWorker
<1>4. ASSUME NEW c \in IisCollectors,
             \/ AttemptConflict(c) \/ CollectConflict(c) \/ PublishRun(c)
             \/ IisError(c) \/ IisCrash(c) \/ IisRestart(c)
      PROVE  IisTypeOK'
  <2>1. iis' = [iis EXCEPT ![c] = IisIdle] \/ iis' = [iis EXCEPT ![c] = IisDown]
    BY <1>4 DEF AttemptConflict, CollectConflict, PublishRun, IisError, IisCrash, IisRestart
  <2> QED
    BY <2>1 DEF IisTypeOK
<1>5. ASSUME NEW s \in IisServers, ToggleIisServer(s) PROVE IisTypeOK'
  BY <1>5, OverwrittenFacts DEF ToggleIisServer, IisTypeOK
<1> QED
  BY <1>1, <1>2, <1>3, <1>4, <1>5 DEF IisNext, IisStep

\* The columns of IisServers the collectors read stay well-formed.
LEMMA ServersStep == ServersOK /\ IisTypeOK /\ IisNext => ServersOK'
<1> SUFFICES ASSUME ServersOK, IisTypeOK, IisNext PROVE ServersOK'
  OBVIOUS
<1> USE DEF ServersOK
<1>0. ASSUME NEW row \in IisServer
      PROVE  /\ [row EXCEPT !.age = 0, !.status = "Running"] \in IisServer
             /\ [row EXCEPT !.status = "Success"] \in IisServer
             /\ [row EXCEPT !.status = "Failed"] \in IisServer
             /\ [row EXCEPT !.enabled = ~@] \in IisServer
  BY DEF IisServer, ServerStatus
<1>1. ASSUME NEW c \in IisCollectors, MarkAttempt(c) PROVE ServersOK'
  <2>1. PICK s \in iis[c].todo :
            iisServers' = [iisServers EXCEPT ![s].age = 0, ![s].status = "Running"]
    BY <1>1 DEF MarkAttempt
  <2> QED
    BY <1>0, <2>1
<1>2. ASSUME NEW c \in IisCollectors, CollectSucceeds(c) PROVE ServersOK'
  <2>1. PICK s \in iis[c].current :
            iisServers' = [iisServers EXCEPT ![s].status = "Success"]
    BY <1>2 DEF CollectSucceeds
  <2> QED
    BY <1>0, <2>1
<1>3. ASSUME NEW c \in IisCollectors, CollectFails(c) PROVE ServersOK'
  <2>1. PICK s \in iis[c].current :
            iisServers' = [iisServers EXCEPT ![s].status = "Failed"]
    BY <1>3 DEF CollectFails
  <2> QED
    BY <1>0, <2>1
<1>4. ASSUME NEW s \in IisServers, ToggleIisServer(s) PROVE ServersOK'
  BY <1>0, <1>4 DEF ToggleIisServer
<1>5. ASSUME NEW c \in IisCollectors,
             \/ StartCycle(c) \/ AttemptConflict(c) \/ CollectConflict(c) \/ PublishRun(c)
             \/ IisError(c) \/ IisCrash(c) \/ IisRestart(c)
      PROVE  ServersOK'
  BY <1>5 DEF StartCycle, AttemptConflict, CollectConflict, PublishRun, IisError,
              IisCrash, IisRestart, dbVars
<1> QED
  BY <1>1, <1>2, <1>3, <1>4, <1>5 DEF IisNext, IisStep

\* A collector that starts, gives up or stops holds no current server, and the
\* others keep theirs.
LEMMA ResetKeepsFence ==
    ASSUME IisTypeOK, CollectionFenced, NEW c \in IisCollectors,
           NEW l \in IisWorker, l.current = {}, iis' = [iis EXCEPT ![c] = l]
    PROVE  CollectionFenced'
  BY DEF IisTypeOK, IisWorker, CollectionFenced

\* At most one collector can commit a collection from a server.
LEMMA FenceStep == IisTypeOK /\ CollectionFenced /\ IisNext => CollectionFenced'
<1> SUFFICES ASSUME IisTypeOK, CollectionFenced, IisNext PROVE CollectionFenced'
  OBVIOUS
<1>1. ASSUME NEW c \in IisCollectors, StartCycle(c) PROVE CollectionFenced'
  <2>1. PICK r \in RunIds : iis' = [iis EXCEPT ![c] =
            [IisIdle EXCEPT !.pc = "Attempt", !.run = r, !.todo = Due]]
    BY <1>1 DEF StartCycle
  <2>2. [IisIdle EXCEPT !.pc = "Attempt", !.run = r, !.todo = Due] \in IisWorker
    BY DEF IisIdle, IisWorker, Due
  <2> QED
    BY <2>1, <2>2, ResetKeepsFence DEF IisIdle
<1>2. ASSUME NEW c \in IisCollectors, MarkAttempt(c) PROVE CollectionFenced'
  <2>1. PICK s \in iis[c].todo \ iis[c].stale :
            iis' = [Overwritten(s, IisCollectors \ {c}) EXCEPT
                ![c].pc = "Collect", ![c].todo = @ \ {s}, ![c].current = {s}]
    BY <1>2 DEF MarkAttempt
  <2>2. s \in IisServers
    BY <2>1 DEF IisTypeOK, IisWorker
  <2>3. iis'[c].current = {s}
    BY <2>1, <2>2, OverwrittenFacts DEF IisWorker
  <2>4. ASSUME NEW d \in IisCollectors, d # c
        PROVE  /\ iis'[d].current \ iis'[d].stale \subseteq iis[d].current \ iis[d].stale
               /\ s \notin iis'[d].current \ iis'[d].stale
    BY <2>1, <2>2, <2>4, OverwrittenFacts DEF IisWorker
  <2> QED
    BY <2>3, <2>4 DEF CollectionFenced
<1>3. ASSUME NEW c \in IisCollectors, CollectSucceeds(c) \/ CollectFails(c)
      PROVE  CollectionFenced'
  <2>1. PICK s \in iis[c].current :
            iis' = [Overwritten(s, IisCollectors \ {c}) EXCEPT
                ![c].pc = "Attempt", ![c].current = {}]
    BY <1>3 DEF CollectSucceeds, CollectFails
  <2>2. s \in IisServers
    BY <2>1 DEF IisTypeOK, IisWorker
  <2>3. iis'[c].current = {}
    BY <2>1, <2>2, OverwrittenFacts DEF IisWorker
  <2>4. ASSUME NEW d \in IisCollectors, d # c
        PROVE  iis'[d].current \ iis'[d].stale \subseteq iis[d].current \ iis[d].stale
    BY <2>1, <2>2, <2>4, OverwrittenFacts DEF IisWorker
  <2> QED
    BY <2>3, <2>4 DEF CollectionFenced
<1>4. ASSUME NEW c \in IisCollectors,
             \/ AttemptConflict(c) \/ CollectConflict(c) \/ PublishRun(c)
             \/ IisError(c) \/ IisCrash(c) \/ IisRestart(c)
      PROVE  CollectionFenced'
  <2>1. iis' = [iis EXCEPT ![c] = IisIdle] \/ iis' = [iis EXCEPT ![c] = IisDown]
    BY <1>4 DEF AttemptConflict, CollectConflict, PublishRun, IisError, IisCrash, IisRestart
  <2>2. IisIdle.current = {} /\ IisDown.current = {}
    BY DEF IisIdle, IisDown
  <2> QED
    BY <2>1, <2>2, IisIdleType, ResetKeepsFence
<1>5. ASSUME NEW s \in IisServers, ToggleIisServer(s) PROVE CollectionFenced'
  <2>1. iis' = Overwritten(s, IisCollectors)
    BY <1>5 DEF ToggleIisServer
  <2>2. \A d \in IisCollectors :
            iis'[d].current \ iis'[d].stale \subseteq iis[d].current \ iis[d].stale
    BY <2>1, OverwrittenFacts
  <2> QED
    BY <2>2 DEF CollectionFenced
<1> QED
  BY <1>1, <1>2, <1>3, <1>4, <1>5 DEF IisNext, IisStep

\* A copy that nothing has overtaken is still of a server that is due: whoever
\* changes the row marks the copies, and time makes servers due, not the reverse.
LEMMA DecisionStep ==
    IisTypeOK /\ ServersOK /\ DecisionStillValid /\ IisNext => DecisionStillValid'
<1> SUFFICES ASSUME IisTypeOK, ServersOK, DecisionStillValid, IisNext
             PROVE  DecisionStillValid'
  OBVIOUS
<1>1. ASSUME NEW c \in IisCollectors, StartCycle(c) PROVE DecisionStillValid'
  <2>1. PICK r \in RunIds : iis' = [iis EXCEPT ![c] =
            [IisIdle EXCEPT !.pc = "Attempt", !.run = r, !.todo = Due]]
    BY <1>1 DEF StartCycle
  <2>2. Due' = Due
    BY <1>1 DEF StartCycle, Due
  <2>3. iis'[c].todo = Due
    BY <2>1 DEF IisTypeOK, IisIdle
  <2>4. \A d \in IisCollectors \ {c} : iis'[d] = iis[d]
    BY <2>1 DEF IisTypeOK
  <2> QED
    BY <2>2, <2>3, <2>4 DEF DecisionStillValid
<1>2. ASSUME NEW c \in IisCollectors, MarkAttempt(c) PROVE DecisionStillValid'
  <2>1. PICK s \in iis[c].todo \ iis[c].stale :
            /\ iis' = [Overwritten(s, IisCollectors \ {c}) EXCEPT
                   ![c].pc = "Collect", ![c].todo = @ \ {s}, ![c].current = {s}]
            /\ iisServers' = [iisServers EXCEPT ![s].age = 0, ![s].status = "Running"]
    BY <1>2 DEF MarkAttempt
  <2>2. s \in IisServers
    BY <2>1 DEF IisTypeOK, IisWorker
  <2>3. Due \ {s} \subseteq Due'
    BY <2>1, <2>2 DEF Due, ServersOK, IisServer
  <2>4. ASSUME NEW d \in IisCollectors
        PROVE  iis'[d].todo \ iis'[d].stale \subseteq (iis[d].todo \ iis[d].stale) \ {s}
    BY <2>1, <2>2, OverwrittenFacts DEF IisWorker
  <2> QED
    BY <2>3, <2>4 DEF DecisionStillValid
<1>3. ASSUME NEW c \in IisCollectors, CollectSucceeds(c) \/ CollectFails(c)
      PROVE  DecisionStillValid'
  <2>1. PICK s \in iis[c].current :
            /\ iis' = [Overwritten(s, IisCollectors \ {c}) EXCEPT
                   ![c].pc = "Attempt", ![c].current = {}]
            /\ \/ iisServers' = [iisServers EXCEPT ![s].status = "Success"]
               \/ iisServers' = [iisServers EXCEPT ![s].status = "Failed"]
    BY <1>3 DEF CollectSucceeds, CollectFails
  <2>2. s \in IisServers
    BY <2>1 DEF IisTypeOK, IisWorker
  <2>3. Due' = Due
    BY <2>1, <2>2 DEF Due, ServersOK, IisServer
  <2>4. ASSUME NEW d \in IisCollectors
        PROVE  iis'[d].todo \ iis'[d].stale \subseteq iis[d].todo \ iis[d].stale
    <3> DEFINE O == Overwritten(s, IisCollectors \ {c})
    <3>1. /\ O \in [IisCollectors -> IisWorker]
          /\ O[d].todo = iis[d].todo
          /\ iis[d].stale \subseteq O[d].stale
      BY <2>2, OverwrittenFacts
    <3>2. iis'[d].todo = O[d].todo /\ iis'[d].stale = O[d].stale
      BY <2>1, <3>1 DEF IisWorker
    <3> QED
      BY <3>1, <3>2
  <2> QED
    BY <2>3, <2>4 DEF DecisionStillValid
<1>4. ASSUME NEW c \in IisCollectors,
             \/ AttemptConflict(c) \/ CollectConflict(c) \/ PublishRun(c)
             \/ IisError(c) \/ IisCrash(c) \/ IisRestart(c)
      PROVE  DecisionStillValid'
  <2>1. iis' = [iis EXCEPT ![c] = IisIdle] \/ iis' = [iis EXCEPT ![c] = IisDown]
    BY <1>4 DEF AttemptConflict, CollectConflict, PublishRun, IisError, IisCrash, IisRestart
  <2>2. IisIdle.todo = {} /\ IisDown.todo = {}
    BY DEF IisIdle, IisDown
  <2>3. Due' = Due
    BY <1>4 DEF AttemptConflict, CollectConflict, PublishRun, IisError, IisCrash,
                IisRestart, dbVars, Due
  <2>4. ASSUME NEW d \in IisCollectors
        PROVE  iis'[d].todo \ iis'[d].stale \subseteq iis[d].todo \ iis[d].stale
    <3>1. iis'[d].todo = {} \/ iis'[d] = iis[d]
      BY <2>1, <2>2 DEF IisTypeOK
    <3> QED
      BY <3>1
  <2> QED
    BY <2>3, <2>4 DEF DecisionStillValid
<1>5. ASSUME NEW s \in IisServers, ToggleIisServer(s) PROVE DecisionStillValid'
  <2>1. /\ iis' = Overwritten(s, IisCollectors)
        /\ iisServers' = [iisServers EXCEPT ![s].enabled = ~@]
    BY <1>5 DEF ToggleIisServer
  <2>2. Due \ {s} \subseteq Due'
    BY <2>1 DEF Due, ServersOK
  <2>3. ASSUME NEW d \in IisCollectors
        PROVE  iis'[d].todo \ iis'[d].stale \subseteq (iis[d].todo \ iis[d].stale) \ {s}
    BY <2>1, OverwrittenFacts
  <2> QED
    BY <2>2, <2>3 DEF DecisionStillValid
<1> QED
  BY <1>1, <1>2, <1>3, <1>4, <1>5 DEF IisNext, IisStep

\* Time disturbs neither property.
LEMMA FenceTick == FenceInv /\ Tick /\ UNCHANGED iis => FenceInv'
<1> SUFFICES ASSUME FenceInv, Tick, UNCHANGED iis PROVE FenceInv'
  OBVIOUS
<1>1. ASSUME NEW s \in IisServers
      PROVE  /\ iisServers'[s].enabled = iisServers[s].enabled
             /\ iisServers'[s] \in IisServer
             /\ iisServers[s].age >= CollectionInterval
                  => iisServers'[s].age >= CollectionInterval
  BY TimesAssumption DEF FenceInv, ServersOK, IisServer, Tick, Older
<1>2. ServersOK'
  BY <1>1 DEF ServersOK, Tick
<1>3. Due \subseteq Due'
  BY <1>1 DEF Due
<1> QED
  BY <1>2, <1>3 DEF FenceInv, IisTypeOK, CollectionFenced, DecisionStillValid

LEMMA FenceStart == DbInit /\ IisInit => FenceInv
<1> SUFFICES ASSUME DbInit, IisInit PROVE FenceInv
  OBVIOUS
<1>1. ServersOK
  BY TimesAssumption DEF DbInit, ServersOK, IisServer, ServerStatus
<1>2. IisTypeOK
  BY IisIdleType DEF IisInit, IisTypeOK
<1>3. CollectionFenced /\ DecisionStillValid
  BY DEF IisInit, IisIdle, CollectionFenced, DecisionStillValid
<1> QED
  BY <1>1, <1>2, <1>3 DEF FenceInv

LEMMA FenceStutter == FenceInv /\ UNCHANGED <<iisServers, iis>> => FenceInv'
  BY DEF FenceInv, ServersOK, IisTypeOK, CollectionFenced, DecisionStillValid, Due

\* The IIS collectors alone keep the strengthened invariant.
THEOREM IisFenceInvariant == IisSpec => []FenceInv
<1>1. FenceInv /\ [IisSpecNext]_iisAll => FenceInv'
  <2> SUFFICES ASSUME FenceInv, [IisSpecNext]_iisAll PROVE FenceInv'
    OBVIOUS
  <2>1. CASE IisNext
    BY <2>1, IisTypeStep, ServersStep, FenceStep, DecisionStep DEF FenceInv
  <2>2. CASE Tick /\ UNCHANGED iis
    BY <2>2, FenceTick
  <2>3. CASE UNCHANGED iisAll
    BY <2>3, FenceStutter DEF iisAll, dbVars
  <2> QED
    BY <2>1, <2>2, <2>3 DEF IisSpecNext
<1> QED
  BY <1>1, FenceStart, PTL DEF IisSpec, IisSpecInit

\* However many collectors run, two of them never both hold a collection from
\* the same server that they could still commit.
THEOREM CollectionsAreFenced == IisSpec => []CollectionFenced
<1>1. FenceInv => CollectionFenced
  BY DEF FenceInv
<1> QED
  BY <1>1, IisFenceInvariant, PTL

\* No collector begins a collection from a server that has been disabled or
\* collected from since the cycle chose it.
THEOREM DecisionsStayValid == IisSpec => []DecisionStillValid
<1>1. FenceInv => DecisionStillValid
  BY DEF FenceInv
<1> QED
  BY <1>1, IisFenceInvariant, PTL

-----------------------------------------------------------------------------
(* What a run that is handed over says about its servers.                  *)

\* The servers a run has sockets of, and those a collector has not finished with.
Sources(r) == {x.server : x \in RowsOf(r)}

Ahead(c) == iis[c].todo \union iis[c].current

\* Each server of the run is counted as succeeded, as failed, or is still ahead.
WorkerSound(c) ==
    iis[c].pc \in {"Attempt", "Collect"} =>
        /\ iis[c].run \in RunIds /\ runs[iis[c].run].status = "PendingIis"
        /\ iis[c].todo \intersect iis[c].current = {}
        /\ iis[c].pc = "Attempt" => iis[c].current = {}
        /\ iis[c].pc = "Collect" => \E s \in IisServers : iis[c].current = {s}
        /\ runs[iis[c].run].servers
             = runs[iis[c].run].ok + runs[iis[c].run].fail + Cardinality(Ahead(c))

RunsApart ==
    \A c, d \in IisCollectors :
        /\ c # d
        /\ iis[c].pc \in {"Attempt", "Collect"}
        /\ iis[d].pc \in {"Attempt", "Collect"}
        => iis[c].run # iis[d].run

SourcesCounted(r) ==
    /\ runs[r].status = "Absent" => RowsOf(r) = {}
    /\ Cardinality(Sources(r)) <= runs[r].ok

Published(r) ==
    runs[r].status \notin {"Absent", "PendingIis"} =>
        /\ runs[r].ok + runs[r].fail = runs[r].servers
        /\ runs[r].status = "ReadyForSql" => runs[r].fail = 0
        /\ runs[r].status = "Partial" => runs[r].ok > 0

RunsTypeOK == runs \in [RunIds -> Run] /\ staging \subseteq StagingRow

VisitInv ==
    /\ RunsTypeOK /\ IisTypeOK /\ RunsApart
    /\ \A c \in IisCollectors : WorkerSound(c)
    /\ \A r \in RunIds : SourcesCounted(r) /\ Published(r)

\* A collector whose place in its cycle has not changed.
Same(c) ==
    /\ iis'[c].pc = iis[c].pc /\ iis'[c].run = iis[c].run
    /\ iis'[c].todo = iis[c].todo /\ iis'[c].current = iis[c].current

LEMMA SourcesFinite ==
    ASSUME RunsTypeOK, NEW r \in RunIds
    PROVE  /\ Sources(r) \subseteq IisServers /\ IsFiniteSet(Sources(r))
           /\ Cardinality(Sources(r)) \in Nat
<1>1. Sources(r) \subseteq IisServers
  BY DEF RunsTypeOK, Sources, RowsOf, StagingRow
<1> QED
  BY <1>1, ServersAssumption, FS_Subset, FS_CardinalityType

LEMMA AheadFinite ==
    ASSUME IisTypeOK, NEW c \in IisCollectors
    PROVE  IsFiniteSet(Ahead(c)) /\ Cardinality(Ahead(c)) \in Nat
<1>1. Ahead(c) \subseteq IisServers
  BY DEF IisTypeOK, IisWorker, Ahead
<1> QED
  BY <1>1, ServersAssumption, FS_Subset, FS_CardinalityType

LEMMA SoundStays ==
    ASSUME NEW c \in IisCollectors, WorkerSound(c), Same(c),
           iis[c].pc \in {"Attempt", "Collect"} => runs'[iis[c].run] = runs[iis[c].run]
    PROVE  WorkerSound(c)'
<1>1. Ahead(c)' = Ahead(c)
  BY DEF Ahead, Same
<1> QED
  BY <1>1 DEF WorkerSound, Same

\* One run changes, the one collector c is working on; everybody else stays.
LEMMA OthersSound ==
    ASSUME VisitInv, NEW c \in IisCollectors, iis[c].pc \in {"Attempt", "Collect"},
           \A d \in IisCollectors : d # c => Same(d),
           iis'[c].run = iis[c].run \/ iis'[c].pc \notin {"Attempt", "Collect"},
           \A q \in RunIds : q # iis[c].run => runs'[q] = runs[q]
    PROVE  RunsApart' /\ \A d \in IisCollectors : d # c => WorkerSound(d)'
<1>1. RunsApart'
  BY DEF VisitInv, RunsApart, Same
<1>2. ASSUME NEW d \in IisCollectors, d # c PROVE WorkerSound(d)'
  <2>1. iis[d].pc \in {"Attempt", "Collect"} => iis[d].run # iis[c].run /\ iis[d].run \in RunIds
    BY <1>2 DEF VisitInv, RunsApart, WorkerSound
  <2> QED
    BY <1>2, <2>1, SoundStays DEF VisitInv
<1> QED
  BY <1>1, <1>2

\* A collector gives its cycle up, or nobody moves on; no table the runs are in changes.
LEMMA VisitRests ==
    ASSUME VisitInv, UNCHANGED <<runs, staging>>, IisTypeOK',
           \A d \in IisCollectors : Same(d) \/ iis'[d].pc \notin {"Attempt", "Collect"}
    PROVE  VisitInv'
<1>1. ASSUME NEW d \in IisCollectors PROVE WorkerSound(d)'
  <2>1. CASE Same(d)
    BY <2>1, SoundStays DEF VisitInv
  <2>2. CASE iis'[d].pc \notin {"Attempt", "Collect"}
    BY <2>2 DEF WorkerSound
  <2> QED
    BY <2>1, <2>2
<1>2. RunsApart'
  BY DEF VisitInv, RunsApart, Same
<1>3. \A r \in RunIds : (SourcesCounted(r) /\ Published(r))'
  BY DEF VisitInv, SourcesCounted, Published, Sources, RowsOf
<1> QED
  BY <1>1, <1>2, <1>3 DEF VisitInv, RunsTypeOK

LEMMA VisitBegins ==
    ASSUME VisitInv, NEW c \in IisCollectors, StartCycle(c), IisTypeOK'
    PROVE  VisitInv'
<1>0. runs \in [RunIds -> Run] /\ iis \in [IisCollectors -> IisWorker] /\ UNCHANGED staging
  BY DEF VisitInv, RunsTypeOK, IisTypeOK, StartCycle
<1>1. PICK r \in RunIds :
         /\ runs[r].status = "Absent"
         /\ runs' = [runs EXCEPT ![r] =
                [NoRun EXCEPT !.status = "PendingIis", !.servers = Cardinality(Due)]]
         /\ iis' = [iis EXCEPT ![c] =
                [IisIdle EXCEPT !.pc = "Attempt", !.run = r, !.todo = Due]]
  BY DEF StartCycle
<1>2. Cardinality(Due) \in Nat
  BY ServersAssumption, FS_Subset, FS_CardinalityType DEF Due
<1> DEFINE n == Cardinality(Due)
<1>3. /\ iis'[c].pc = "Attempt" /\ iis'[c].run = r
      /\ iis'[c].todo = Due /\ iis'[c].current = {}
      /\ \A d \in IisCollectors : d # c => iis'[d] = iis[d]
  BY <1>0, <1>1 DEF IisIdle
<1>4. runs' = [runs EXCEPT ![r] = [NoRun EXCEPT !.status = "PendingIis", !.servers = n]]
  BY <1>1
<1>5. /\ runs'[r].status = "PendingIis" /\ runs'[r].servers = n
      /\ runs'[r].ok = 0 /\ runs'[r].fail = 0 /\ runs' \in [RunIds -> Run]
      /\ \A q \in RunIds : q # r => runs'[q] = runs[q]
  <2> HIDE DEF n
  <2>1. runs'[r] = [NoRun EXCEPT !.status = "PendingIis", !.servers = n]
    BY <1>0, <1>4
  <2>2. [NoRun EXCEPT !.status = "PendingIis", !.servers = n] \in Run
    BY <1>2 DEF n, NoRun, Run, RunStatus
  <2> QED
    BY <1>0, <1>4, <2>1, <2>2 DEF NoRun
<1>6. WorkerSound(c)'
  <2>1. Ahead(c)' = Due
    BY <1>3 DEF Ahead
  <2>2. Cardinality(Ahead(c))' = n
    BY <2>1
  <2> QED
    BY <1>2, <1>3, <1>5, <2>2 DEF WorkerSound
<1>7. ASSUME NEW d \in IisCollectors, d # c, iis[d].pc \in {"Attempt", "Collect"}
      PROVE  iis[d].run \in RunIds /\ iis[d].run # r
  BY <1>1, <1>7 DEF VisitInv, WorkerSound
<1>8. ASSUME NEW d \in IisCollectors, d # c PROVE WorkerSound(d)'
  <2>1. Same(d)
    BY <1>3, <1>8 DEF Same
  <2> QED
    BY <1>5, <1>7, <1>8, <2>1, SoundStays DEF VisitInv
<1>9. RunsApart'
  BY <1>3, <1>7 DEF VisitInv, RunsApart
<1>10. ASSUME NEW q \in RunIds PROVE SourcesCounted(q)' /\ Published(q)'
  <2>1. Sources(q)' = Sources(q) /\ RowsOf(q)' = RowsOf(q)
    BY <1>0 DEF Sources, RowsOf
  <2>2. CASE q # r
    BY <1>5, <1>10, <2>1, <2>2 DEF VisitInv, SourcesCounted, Published
  <2>3. CASE q = r
    <3>1. Sources(r) = {}
      BY <1>1 DEF VisitInv, SourcesCounted, Sources
    <3>2. Cardinality(Sources(r))' = 0
      BY <2>1, <2>3, <3>1, FS_EmptySet
    <3>3. SourcesCounted(r)'
      BY <1>5, <3>2 DEF SourcesCounted
    <3> QED
      BY <1>5, <2>3, <3>3 DEF Published
  <2> QED
    BY <2>2, <2>3
<1> QED
  BY <1>0, <1>5, <1>6, <1>8, <1>9, <1>10 DEF VisitInv, RunsTypeOK

LEMMA VisitAttempts ==
    ASSUME VisitInv, NEW c \in IisCollectors, MarkAttempt(c), IisTypeOK'
    PROVE  VisitInv'
<1>0. IisTypeOK /\ iis \in [IisCollectors -> IisWorker] /\ UNCHANGED <<runs, staging>>
  BY DEF VisitInv, IisTypeOK, MarkAttempt
<1>1. PICK s \in iis[c].todo \ iis[c].stale :
         iis' = [Overwritten(s, IisCollectors \ {c}) EXCEPT
             ![c].pc = "Collect", ![c].todo = @ \ {s}, ![c].current = {s}]
  BY DEF MarkAttempt
<1>2. s \in IisServers /\ iis[c].pc = "Attempt"
  BY <1>0, <1>1 DEF IisWorker, MarkAttempt
<1> DEFINE O == Overwritten(s, IisCollectors \ {c})
<1>3. /\ O \in [IisCollectors -> IisWorker]
      /\ \A d \in IisCollectors :
            /\ O[d].pc = iis[d].pc /\ O[d].run = iis[d].run
            /\ O[d].todo = iis[d].todo /\ O[d].current = iis[d].current
  BY <1>0, <1>2, OverwrittenFacts
<1>4. iis' = [O EXCEPT ![c].pc = "Collect", ![c].todo = @ \ {s}, ![c].current = {s}]
  BY <1>1
<1> HIDE DEF O
<1>5. /\ iis'[c].pc = "Collect" /\ iis'[c].run = iis[c].run
      /\ iis'[c].todo = iis[c].todo \ {s} /\ iis'[c].current = {s}
      /\ \A d \in IisCollectors : d # c => Same(d)
  BY <1>3, <1>4 DEF Same, IisWorker
<1>6. /\ iis[c].current = {} /\ s \in iis[c].todo /\ WorkerSound(c)
  BY <1>1, <1>2 DEF VisitInv, WorkerSound
<1>7. Ahead(c)' = Ahead(c)
  BY <1>5, <1>6 DEF Ahead
<1>8. WorkerSound(c)'
  BY <1>0, <1>2, <1>5, <1>6, <1>7 DEF WorkerSound
<1>9. RunsApart' /\ \A d \in IisCollectors : d # c => WorkerSound(d)'
  BY <1>0, <1>2, <1>5, OthersSound
<1>10. \A r \in RunIds : (SourcesCounted(r) /\ Published(r))'
  BY <1>0 DEF VisitInv, SourcesCounted, Published, Sources, RowsOf
<1> QED
  BY <1>0, <1>8, <1>9, <1>10 DEF VisitInv, RunsTypeOK

\* The server that was collected from is counted, as one or the other.
LEMMA VisitCollects ==
    ASSUME VisitInv, NEW c \in IisCollectors, iis[c].pc = "Collect",
           CollectSucceeds(c) \/ CollectFails(c)
    PROVE  /\ iis'[c].pc = "Attempt" /\ iis'[c].run = iis[c].run
           /\ iis'[c].todo = iis[c].todo /\ iis'[c].current = {}
           /\ \A d \in IisCollectors : d # c => Same(d)
           /\ Cardinality(Ahead(c)) = Cardinality(Ahead(c))' + 1
           /\ Cardinality(Ahead(c))' \in Nat
<1>0. IisTypeOK
  BY DEF VisitInv
<1>1. PICK s \in iis[c].current :
         iis' = [Overwritten(s, IisCollectors \ {c}) EXCEPT ![c].pc = "Attempt", ![c].current = {}]
  BY DEF CollectSucceeds, CollectFails
<1>2. iis[c].current = {s} /\ s \in IisServers /\ s \notin iis[c].todo
  BY <1>1 DEF VisitInv, WorkerSound
<1> DEFINE O == Overwritten(s, IisCollectors \ {c})
<1>3. /\ O \in [IisCollectors -> IisWorker]
      /\ \A d \in IisCollectors :
            /\ O[d].pc = iis[d].pc /\ O[d].run = iis[d].run
            /\ O[d].todo = iis[d].todo /\ O[d].current = iis[d].current
  BY <1>0, <1>2, OverwrittenFacts
<1>4. iis' = [O EXCEPT ![c].pc = "Attempt", ![c].current = {}]
  BY <1>1
<1> HIDE DEF O
<1>5. /\ iis'[c].pc = "Attempt" /\ iis'[c].run = iis[c].run
      /\ iis'[c].todo = iis[c].todo /\ iis'[c].current = {}
      /\ \A d \in IisCollectors : d # c => Same(d)
  BY <1>3, <1>4 DEF Same, IisWorker
<1>6. Ahead(c)' = Ahead(c) \ {s} /\ s \in Ahead(c)
  BY <1>2, <1>5 DEF Ahead
<1>7. IsFiniteSet(Ahead(c)) /\ Cardinality(Ahead(c)) \in Nat
  BY <1>0, AheadFinite
<1>8. PICK A : A = Ahead(c)
  OBVIOUS
<1>9. /\ Cardinality(A \ {s}) = Cardinality(A) - 1 /\ IsFiniteSet(A \ {s})
      /\ Cardinality(A \ {s}) \in Nat
  BY <1>6, <1>7, <1>8, FS_RemoveElement, FS_CardinalityType
<1>10. Cardinality(Ahead(c))' = Cardinality(A \ {s})
  BY <1>6, <1>8
<1>11. Cardinality(Ahead(c)) = Cardinality(Ahead(c))' + 1 /\ Cardinality(Ahead(c))' \in Nat
  BY <1>7, <1>8, <1>9, <1>10
<1> QED
  BY <1>5, <1>11

\* A list is no shorter than the set it shows, and empty when that is.
LEMMA ListFacts ==
    ASSUME NEW sockets \in SUBSET Endpoints, NEW listed \in ListLengths(sockets)
    PROVE  listed \in Nat /\ Cardinality(sockets) <= listed /\ (sockets = {} => listed = 0)
<1>1. Cardinality(sockets) \in Nat
  BY EndpointsAssumption, FS_Subset, FS_CardinalityType
<1>2. CASE sockets = {}
  BY <1>2, FS_EmptySet DEF ListLengths
<1>3. CASE sockets # {}
  <2>1. PICK n \in Nat : n = Cardinality(sockets)
    BY <1>1
  <2>2. listed \in n..(n + MaxDuplicates)
    BY <1>3, <2>1 DEF ListLengths
  <2> QED
    BY <1>3, <2>1, <2>2, DuplicatesAssumption
<1> QED
  BY <1>2, <1>3

LEMMA VisitSucceeds ==
    ASSUME VisitInv, NEW c \in IisCollectors, CollectSucceeds(c), IisTypeOK'
    PROVE  VisitInv'
<1>0. /\ RunsTypeOK /\ runs \in [RunIds -> Run] /\ staging \subseteq StagingRow
      /\ iis[c].pc = "Collect" /\ WorkerSound(c)
  BY DEF VisitInv, RunsTypeOK, CollectSucceeds
<1>12. PICK s \in iis[c].current, observed \in SUBSET Endpoints : \E listed \in ListLengths(observed) :
         /\ staging' = staging \union
                {[run |-> iis[c].run, server |-> s, ip |-> e, age |-> 0, status |-> "Pending"] :
                 e \in observed}
         /\ runs' = [runs EXCEPT
                ![iis[c].run].ok = @ + 1,
                ![iis[c].run].staged = @ + listed]
  BY DEF CollectSucceeds
<1>1. PICK listed \in ListLengths(observed) :
         /\ staging' = staging \union
                {[run |-> iis[c].run, server |-> s, ip |-> e, age |-> 0, status |-> "Pending"] :
                 e \in observed}
         /\ runs' = [runs EXCEPT
                ![iis[c].run].ok = @ + 1,
                ![iis[c].run].staged = @ + listed]
  BY <1>12
<1>2. PICK r : r = iis[c].run
  OBVIOUS
<1>3. r \in RunIds /\ runs[r].status = "PendingIis" /\ s \in IisServers /\ runs[r] \in Run
  BY <1>0, <1>1, <1>2 DEF WorkerSound
<1>4. listed \in Nat
  BY ListFacts
<1>5. /\ runs'[r].status = "PendingIis" /\ runs'[r].servers = runs[r].servers
      /\ runs'[r].ok = runs[r].ok + 1 /\ runs'[r].fail = runs[r].fail
      /\ \A q \in RunIds : q # r => runs'[q] = runs[q]
      /\ runs' \in [RunIds -> Run]
  <2> DEFINE n == runs[r].staged + listed
             k == runs[r].ok + 1
  <2>1. k \in Nat /\ n \in Nat
    BY <1>3, <1>4 DEF Run
  <2>2. runs' = [runs EXCEPT ![r].ok = k, ![r].staged = n]
    BY <1>0, <1>1, <1>2, <1>3
  <2> HIDE DEF n, k
  <2>3. runs'[r] = [runs[r] EXCEPT !.ok = k, !.staged = n]
    BY <1>0, <1>3, <2>2
  <2>4. runs'[r] \in Run
    BY <1>3, <2>1, <2>3 DEF Run
  <2>5. /\ runs'[r].status = runs[r].status /\ runs'[r].servers = runs[r].servers
        /\ runs'[r].ok = k /\ runs'[r].fail = runs[r].fail
    BY <1>3, <2>3 DEF Run
  <2> QED
    BY <1>0, <1>3, <2>2, <2>4, <2>5 DEF k
<1>6. /\ iis'[c].pc = "Attempt" /\ iis'[c].run = iis[c].run
      /\ iis'[c].todo = iis[c].todo /\ iis'[c].current = {}
      /\ \A d \in IisCollectors : d # c => Same(d)
      /\ Cardinality(Ahead(c)) = Cardinality(Ahead(c))' + 1
      /\ Cardinality(Ahead(c))' \in Nat
  BY <1>0, VisitCollects
<1>7. WorkerSound(c)'
  <2>1. runs'[r].servers = runs'[r].ok + runs'[r].fail + Cardinality(Ahead(c))'
    <3>1. runs[r].servers = runs[r].ok + runs[r].fail + Cardinality(Ahead(c))
      BY <1>0, <1>2 DEF WorkerSound
    <3>2. runs[r].ok \in Nat /\ runs[r].fail \in Nat
      BY <1>3 DEF Run
    <3> QED
      BY <1>5, <1>6, <3>1, <3>2
  <2> QED
    BY <1>2, <1>3, <1>5, <1>6, <2>1 DEF WorkerSound
<1>8. RunsApart' /\ \A d \in IisCollectors : d # c => WorkerSound(d)'
  BY <1>0, <1>2, <1>5, <1>6, OthersSound
<1> DEFINE new == {[run |-> r, server |-> s, ip |-> e, age |-> 0, status |-> "Pending"] :
                   e \in observed}
<1>9. /\ staging' = staging \union new /\ new \subseteq StagingRow
      /\ \A x \in new : x.run = r /\ x.server = s
  BY <1>1, <1>2, <1>3 DEF StagingRow, RowStatus
<1> HIDE DEF new
<1>10. ASSUME NEW q \in RunIds PROVE SourcesCounted(q)' /\ Published(q)'
  <2>1. CASE q # r
    <3>1. {x \in staging' : x.run = q} = {x \in staging : x.run = q}
      BY <1>9, <2>1
    <3>2. RowsOf(q)' = RowsOf(q)
      BY <3>1 DEF RowsOf
    <3>3. Sources(q)' = Sources(q)
      BY <3>2 DEF Sources
    <3> QED
      BY <1>5, <1>10, <2>1, <3>2, <3>3 DEF VisitInv, SourcesCounted, Published
  <2>2. CASE q = r
    <3>1. {x \in staging' : x.run = r} \subseteq {x \in staging : x.run = r} \union new
      BY <1>9
    <3>2. Sources(r)' \subseteq Sources(r) \union {s}
      BY <1>9, <3>1 DEF Sources, RowsOf
    <3>3. PICK S : S = Sources(r)
      OBVIOUS
    <3>4. IsFiniteSet(S) /\ Cardinality(S) \in Nat /\ Cardinality(S) <= runs[r].ok
      BY <1>0, <1>3, <3>3, SourcesFinite DEF VisitInv, SourcesCounted
    <3>5. /\ IsFiniteSet(S \union {s}) /\ Cardinality(S \union {s}) <= Cardinality(S) + 1
          /\ Cardinality(S \union {s}) \in Nat
      <4>1. /\ IsFiniteSet(S \union {s})
            /\ Cardinality(S \union {s}) = IF s \in S THEN Cardinality(S) ELSE Cardinality(S) + 1
        BY <3>4, FS_AddElement
      <4>2. Cardinality(S \union {s}) \in {Cardinality(S), Cardinality(S) + 1}
        BY <4>1
      <4> QED
        BY <3>4, <4>1, <4>2
    <3>6. PICK T \in SUBSET (S \union {s}) : T = Sources(r)'
      BY <3>2, <3>3
    <3>7. Cardinality(T) <= Cardinality(S \union {s}) /\ Cardinality(T) \in Nat
      BY <3>5, FS_Subset, FS_CardinalityType
    <3>8. runs[r].ok \in Nat
      BY <1>3 DEF Run
    <3>9. Cardinality(T) <= runs'[r].ok
      BY <1>5, <3>4, <3>5, <3>7, <3>8
    <3>10. Cardinality(Sources(r)') <= runs'[r].ok
      BY <3>6, <3>9
    <3> QED
      BY <1>5, <2>2, <3>10 DEF SourcesCounted, Published
  <2> QED
    BY <2>1, <2>2
<1>11. RunsTypeOK'
  BY <1>0, <1>5, <1>9 DEF RunsTypeOK
<1> QED
  BY <1>7, <1>8, <1>10, <1>11 DEF VisitInv

LEMMA VisitFailsAt ==
    ASSUME VisitInv, NEW c \in IisCollectors, CollectFails(c), IisTypeOK'
    PROVE  VisitInv'
<1>0. /\ RunsTypeOK /\ runs \in [RunIds -> Run] /\ UNCHANGED staging
      /\ iis[c].pc = "Collect" /\ WorkerSound(c)
  BY DEF VisitInv, RunsTypeOK, CollectFails
<1>1. PICK r : r = iis[c].run
  OBVIOUS
<1>2. r \in RunIds /\ runs[r].status = "PendingIis" /\ runs[r] \in Run
  BY <1>0, <1>1 DEF WorkerSound
<1>3. /\ runs'[r].status = "PendingIis" /\ runs'[r].servers = runs[r].servers
      /\ runs'[r].ok = runs[r].ok /\ runs'[r].fail = runs[r].fail + 1
      /\ \A q \in RunIds : q # r => runs'[q] = runs[q]
      /\ runs' \in [RunIds -> Run]
  <2> DEFINE k == runs[r].fail + 1
  <2>1. k \in Nat
    BY <1>2 DEF Run
  <2>2. runs' = [runs EXCEPT ![r].fail = k]
    BY <1>1 DEF CollectFails
  <2> HIDE DEF k
  <2>3. runs'[r] = [runs[r] EXCEPT !.fail = k]
    BY <1>0, <1>2, <2>2
  <2>4. runs'[r] \in Run
    BY <1>2, <2>1, <2>3 DEF Run
  <2>5. /\ runs'[r].status = runs[r].status /\ runs'[r].servers = runs[r].servers
        /\ runs'[r].ok = runs[r].ok /\ runs'[r].fail = k
    BY <1>2, <2>3 DEF Run
  <2> QED
    BY <1>0, <1>2, <2>2, <2>4, <2>5 DEF k
<1>4. /\ iis'[c].pc = "Attempt" /\ iis'[c].run = iis[c].run
      /\ iis'[c].todo = iis[c].todo /\ iis'[c].current = {}
      /\ \A d \in IisCollectors : d # c => Same(d)
      /\ Cardinality(Ahead(c)) = Cardinality(Ahead(c))' + 1
      /\ Cardinality(Ahead(c))' \in Nat
  BY <1>0, VisitCollects
<1>5. WorkerSound(c)'
  <2>1. runs'[r].servers = runs'[r].ok + runs'[r].fail + Cardinality(Ahead(c))'
    <3>1. runs[r].servers = runs[r].ok + runs[r].fail + Cardinality(Ahead(c))
      BY <1>0, <1>1 DEF WorkerSound
    <3>2. runs[r].ok \in Nat /\ runs[r].fail \in Nat
      BY <1>2 DEF Run
    <3> QED
      BY <1>3, <1>4, <3>1, <3>2
  <2> QED
    BY <1>1, <1>2, <1>3, <1>4, <2>1 DEF WorkerSound
<1>6. RunsApart' /\ \A d \in IisCollectors : d # c => WorkerSound(d)'
  BY <1>0, <1>1, <1>3, <1>4, OthersSound
<1>7. ASSUME NEW q \in RunIds PROVE SourcesCounted(q)' /\ Published(q)'
  <2>1. Sources(q)' = Sources(q) /\ RowsOf(q)' = RowsOf(q)
    BY <1>0 DEF Sources, RowsOf
  <2>2. CASE q # r
    BY <1>3, <1>7, <2>1, <2>2 DEF VisitInv, SourcesCounted, Published
  <2>3. CASE q = r
    BY <1>3, <1>7, <2>1, <2>3 DEF VisitInv, SourcesCounted, Published
  <2> QED
    BY <2>2, <2>3
<1>8. RunsTypeOK'
  BY <1>0, <1>3 DEF RunsTypeOK
<1> QED
  BY <1>5, <1>6, <1>7, <1>8 DEF VisitInv

LEMMA VisitPublishes ==
    ASSUME VisitInv, NEW c \in IisCollectors, PublishRun(c), IisTypeOK'
    PROVE  VisitInv'
<1>0. /\ RunsTypeOK /\ runs \in [RunIds -> Run] /\ UNCHANGED staging
      /\ iis \in [IisCollectors -> IisWorker]
      /\ iis[c].pc = "Attempt" /\ iis[c].todo = {} /\ WorkerSound(c)
  BY DEF VisitInv, RunsTypeOK, IisTypeOK, PublishRun
<1>1. PICK r : r = iis[c].run
  OBVIOUS
<1>2. /\ r \in RunIds /\ runs[r] \in Run /\ runs[r].ok \in Nat /\ runs[r].fail \in Nat
      /\ runs[r].ok + runs[r].fail = runs[r].servers
  <2>1. r \in RunIds /\ runs[r].servers = runs[r].ok + runs[r].fail + Cardinality(Ahead(c))
    BY <1>0, <1>1 DEF WorkerSound
  <2>2. Ahead(c) = {}
    BY <1>0 DEF WorkerSound, Ahead
  <2>3. Cardinality(Ahead(c)) = 0
    BY <2>2, FS_EmptySet
  <2>4. runs[r] \in Run /\ runs[r].ok \in Nat /\ runs[r].fail \in Nat
    BY <1>0, <2>1 DEF Run
  <2> QED
    BY <2>1, <2>3, <2>4
<1>3. PICK t : t = PublishedStatus(runs[r])
  OBVIOUS
<1>4. \/ t = "Partial" /\ runs[r].ok > 0
      \/ t = "ReadyForSql" /\ runs[r].fail = 0
      \/ t = "Failed"
  BY <1>2, <1>3 DEF PublishedStatus
<1>5. /\ runs'[r].status = t /\ runs'[r].servers = runs[r].servers
      /\ runs'[r].ok = runs[r].ok /\ runs'[r].fail = runs[r].fail
      /\ \A q \in RunIds : q # r => runs'[q] = runs[q]
      /\ runs' \in [RunIds -> Run]
  <2>1. PICK b \in BOOLEAN : b = (runs[r].done \/ t = "Failed")
    BY Zenon
  <2>2. runs' = [runs EXCEPT ![r].status = t, ![r].done = @ \/ t = "Failed"]
    BY <1>1, <1>3 DEF PublishRun
  <2>3. runs' = [runs EXCEPT ![r].status = t, ![r].done = b]
    BY <1>2, <2>1, <2>2
  <2>4. runs'[r] = [runs[r] EXCEPT !.status = t, !.done = b]
    BY <1>0, <1>2, <2>3
  <2>5. t \in RunStatus
    BY <1>4 DEF RunStatus
  <2>6. runs'[r] \in Run
    BY <1>2, <2>1, <2>4, <2>5 DEF Run
  <2>7. /\ runs'[r].status = t /\ runs'[r].servers = runs[r].servers
        /\ runs'[r].ok = runs[r].ok /\ runs'[r].fail = runs[r].fail
    BY <1>2, <2>4 DEF Run
  <2> QED
    BY <1>0, <1>2, <2>3, <2>6, <2>7
<1>6. /\ iis'[c].pc = "Idle" /\ \A d \in IisCollectors : d # c => Same(d)
  BY <1>0 DEF PublishRun, IisIdle, Same
<1>7. WorkerSound(c)'
  BY <1>6 DEF WorkerSound
<1>8. RunsApart' /\ \A d \in IisCollectors : d # c => WorkerSound(d)'
  BY <1>0, <1>1, <1>5, <1>6, OthersSound
<1>9. ASSUME NEW q \in RunIds PROVE SourcesCounted(q)' /\ Published(q)'
  <2>1. Sources(q)' = Sources(q) /\ RowsOf(q)' = RowsOf(q)
    BY <1>0 DEF Sources, RowsOf
  <2>2. CASE q # r
    BY <1>5, <1>9, <2>1, <2>2 DEF VisitInv, SourcesCounted, Published
  <2>3. CASE q = r
    <3>1. SourcesCounted(q)'
      BY <1>4, <1>5, <1>9, <2>1, <2>3 DEF VisitInv, SourcesCounted
    <3>2. Published(q)'
      BY <1>2, <1>4, <1>5, <2>3 DEF Published
    <3> QED
      BY <3>1, <3>2
  <2> QED
    BY <2>2, <2>3
<1>10. RunsTypeOK'
  BY <1>0, <1>5 DEF RunsTypeOK
<1> QED
  BY <1>7, <1>8, <1>9, <1>10 DEF VisitInv

LEMMA VisitTick ==
    ASSUME VisitInv, Tick, UNCHANGED iis
    PROVE  VisitInv'
<1>0. runs \in [RunIds -> Run] /\ staging \subseteq StagingRow
  BY DEF VisitInv, RunsTypeOK
<1>1. ASSUME NEW r \in RunIds
      PROVE  /\ runs'[r].status = runs[r].status /\ runs'[r].servers = runs[r].servers
             /\ runs'[r].ok = runs[r].ok /\ runs'[r].fail = runs[r].fail
             /\ runs'[r] \in Run
  <2> DEFINE n == Older(runs[r].age, LeaseAge + 1)
  <2>1. runs[r] \in Run /\ n \in Nat
    BY <1>0, TimesAssumption DEF Older, Run
  <2>2. runs'[r] = runs[r] \/ runs'[r] = [runs[r] EXCEPT !.age = n]
    BY DEF Tick
  <2> HIDE DEF n
  <2>3. CASE runs'[r] = runs[r]
    BY <2>1, <2>3
  <2>4. CASE runs'[r] = [runs[r] EXCEPT !.age = n]
    BY <2>1, <2>4 DEF Run
  <2> QED
    BY <2>2, <2>3, <2>4
<1>2. runs' \in [RunIds -> Run]
  BY <1>1 DEF Tick
<1> DEFINE older(x) == [x EXCEPT !.age = Older(x.age, MaxSnapshotAge + 1)]
<1>3. staging' = {older(x) : x \in staging}
  BY DEF Tick
<1>4. ASSUME NEW x \in staging
      PROVE  older(x).run = x.run /\ older(x).server = x.server /\ older(x) \in StagingRow
  <2>1. x \in StagingRow /\ Older(x.age, MaxSnapshotAge + 1) \in Nat
    BY <1>0, TimesAssumption DEF StagingRow, Older
  <2> QED
    BY <2>1 DEF StagingRow
<1> HIDE DEF older
<1>5. RunsTypeOK'
  BY <1>2, <1>3, <1>4 DEF RunsTypeOK
<1>6. ASSUME NEW r \in RunIds
      PROVE  /\ RowsOf(r) = {} => RowsOf(r)' = {}
             /\ Sources(r)' = Sources(r)
  BY <1>3, <1>4 DEF RowsOf, Sources
<1>7. \A r \in RunIds : (SourcesCounted(r) /\ Published(r))'
  BY <1>1, <1>6 DEF VisitInv, SourcesCounted, Published
<1>8. \A c \in IisCollectors : WorkerSound(c)'
  <2>1. \A c \in IisCollectors : Ahead(c)' = Ahead(c)
    BY DEF Ahead
  <2> QED
    BY <1>1, <2>1 DEF VisitInv, WorkerSound
<1> QED
  BY <1>5, <1>7, <1>8 DEF VisitInv, RunsApart, IisTypeOK

LEMMA VisitStart == DbInit /\ IisInit => VisitInv
<1> SUFFICES ASSUME DbInit, IisInit PROVE VisitInv
  OBVIOUS
<1>1. RunsTypeOK
  BY DEF DbInit, RunsTypeOK, NoRun, Run, RunStatus
<1>2. IisTypeOK
  BY FenceStart DEF FenceInv
<1>3. RunsApart /\ \A c \in IisCollectors : WorkerSound(c)
  BY DEF IisInit, IisIdle, RunsApart, WorkerSound
<1>4. ASSUME NEW r \in RunIds PROVE SourcesCounted(r) /\ Published(r)
  <2>1. RowsOf(r) = {} /\ Sources(r) = {} /\ runs[r].status = "Absent" /\ runs[r].ok = 0
    BY DEF DbInit, NoRun, RowsOf, Sources
  <2>2. Cardinality(Sources(r)) = 0
    BY <2>1, FS_EmptySet
  <2> QED
    BY <2>1, <2>2 DEF SourcesCounted, Published
<1> QED
  BY <1>1, <1>2, <1>3, <1>4 DEF VisitInv

LEMMA VisitStep == VisitInv /\ [IisSpecNext]_iisAll => VisitInv'
<1> SUFFICES ASSUME VisitInv, [IisSpecNext]_iisAll PROVE VisitInv'
  OBVIOUS
<1>0. IisTypeOK /\ iis \in [IisCollectors -> IisWorker]
  BY DEF VisitInv, IisTypeOK
<1>1. IisTypeOK'
  BY <1>0, IisTypeStep DEF IisSpecNext, iisAll, IisTypeOK
<1>2. ASSUME NEW c \in IisCollectors,
             StartCycle(c) \/ MarkAttempt(c) \/ CollectSucceeds(c) \/ CollectFails(c) \/ PublishRun(c)
      PROVE  VisitInv'
  BY <1>1, <1>2, VisitBegins, VisitAttempts, VisitSucceeds, VisitFailsAt, VisitPublishes
<1>3. ASSUME NEW c \in IisCollectors,
             \/ AttemptConflict(c) \/ CollectConflict(c)
             \/ IisError(c) \/ IisCrash(c) \/ IisRestart(c)
      PROVE  VisitInv'
  <2>1. UNCHANGED <<runs, staging>>
    BY <1>3 DEF AttemptConflict, CollectConflict, IisError, IisCrash, IisRestart, dbVars
  <2>2. iis' = [iis EXCEPT ![c] = IisIdle] \/ iis' = [iis EXCEPT ![c] = IisDown]
    BY <1>3 DEF AttemptConflict, CollectConflict, IisError, IisCrash, IisRestart
  <2>3. \A d \in IisCollectors : Same(d) \/ iis'[d].pc \notin {"Attempt", "Collect"}
    BY <1>0, <2>2 DEF IisIdle, IisDown, Same
  <2> QED
    BY <1>1, <2>1, <2>3, VisitRests
<1>4. ASSUME NEW s \in IisServers, ToggleIisServer(s) PROVE VisitInv'
  <2>1. UNCHANGED <<runs, staging>> /\ iis' = Overwritten(s, IisCollectors)
    BY <1>4 DEF ToggleIisServer
  <2>2. \A d \in IisCollectors : Same(d)
    BY <1>0, <2>1, OverwrittenFacts DEF Same
  <2> QED
    BY <1>1, <2>1, <2>2, VisitRests
<1>5. CASE UNCHANGED iisAll
  <2>1. UNCHANGED <<runs, staging>> /\ \A d \in IisCollectors : Same(d)
    BY <1>5 DEF iisAll, dbVars, Same
  <2> QED
    BY <1>1, <2>1, VisitRests
<1>6. CASE Tick /\ UNCHANGED iis
  BY <1>6, VisitTick
<1> QED
  BY <1>2, <1>3, <1>4, <1>5, <1>6 DEF IisSpecNext, IisNext, IisStep

\* However many collectors run and fail, a run is handed over only when each of
\* its servers has been collected from or counted as failed.
THEOREM EveryServerIsAccountedFor == IisSpec => []PublishedRunsVisitedAll
<1>1. VisitInv => PublishedRunsVisitedAll
  BY DEF VisitInv, SourcesCounted, Published, Sources, PublishedRunsVisitedAll
<1> QED
  BY <1>1, VisitStart, VisitStep, PTL DEF IisSpec, IisSpecInit

=============================================================================
