------------------------- MODULE ConnectionPoolProofs -------------------------
(***************************************************************************)
(* Proofs about the test connection pool, for any number of connections,   *)
(* of callers and of faults.                                               *)
(***************************************************************************)
EXTENDS ConnectionPool, FiniteSetTheorems, TLAPS

\* Whoever is past the gate is the one inside it.
GateHeld ==
    \A c \in Callers : calls[c].pc \in {"Enter", "Await", "Stopped", "Open"} => c \in gate

\* A workload the service has not forgotten can be cancelled.
WorkloadCancellable == \A i \in Workers : tasks[i] # "None" => cancellation # "None"

\* Between the end of the old workload and the start of a new one there is none.
StoppedMeansNone ==
    \A c \in Callers : calls[c].pc \in {"Stopped", "Open"} =>
        cancellation = "None" /\ \A i \in Workers : tasks[i] = "None"

\* The queries of the workload are where their connections are open.
RunningOnOpen == \A i \in Workers : tasks[i] = "Running" => connections[i] = "Open"

PoolInv ==
    /\ PoolTypeOK
    /\ GateHeld
    /\ WorkloadCancellable
    /\ StoppedMeansNone
    /\ RunningOnOpen

LEMMA WorkersAreSlots == ASSUME NEW i \in Workers PROVE i \in Slots /\ i # Target
BY PoolAssumption DEF Workers, Slots

\* What a handler goes on with is again a handler, outside the gate.
LEMMA AfterIsOutside ==
    ASSUME PoolTypeOK, NEW c \in Callers, NEW ok \in BOOLEAN
    PROVE  After(c, ok) \in Caller /\ After(c, ok).pc \in {"Idle", "Check", "Wait"}
<1>1. calls[c] \in Caller
  BY DEF PoolTypeOK
<1>2. QED
  BY <1>1 DEF After, Caller, Idle, Job

\* Leaving the gate keeps what concerns the handlers and the gate.
LEMMA LeaveFacts ==
    ASSUME PoolInv, NEW c \in Callers, NEW ok \in BOOLEAN, Leave(c, ok)
    PROVE  /\ calls' \in [Callers -> Caller]
           /\ gate' \in SUBSET Callers
           /\ \A d, e \in gate' : d = e
           /\ GateHeld'
           /\ \A d \in Callers : calls'[d].pc \in {"Stopped", "Open"} => d # c /\ calls[d] = calls'[d]
<1>1. After(c, ok) \in Caller /\ After(c, ok).pc \in {"Idle", "Check", "Wait"}
  BY AfterIsOutside DEF PoolInv
<1>2. calls' = [calls EXCEPT ![c] = After(c, ok)] /\ gate' = gate \ {c}
  BY DEF Leave
<1>3. calls \in [Callers -> Caller]
  BY DEF PoolInv, PoolTypeOK
<1>4. calls'[c].pc \in {"Idle", "Check", "Wait"}
  BY <1>1, <1>2, <1>3
<1>5. \A d \in Callers : d # c => calls'[d] = calls[d]
  BY <1>2, <1>3
<1>6. calls' \in [Callers -> Caller]
  BY <1>1, <1>2, <1>3
<1>7. GateHeld'
  BY <1>2, <1>4, <1>5 DEF GateHeld, PoolInv
<1>8. QED
  BY <1>2, <1>4, <1>5, <1>6, <1>7 DEF PoolInv, PoolTypeOK

\* A caller that moves on stays a handler, and the others stay where they are.
LEMMA MoveFacts ==
    ASSUME PoolInv, NEW c \in Callers,
           NEW to \in {"Idle", "Check", "Wait", "Enter", "Await", "Stopped", "Open"},
           calls' = [calls EXCEPT ![c].pc = to]
    PROVE  /\ calls' \in [Callers -> Caller]
           /\ calls'[c].pc = to
           /\ \A d \in Callers : d # c => calls'[d] = calls[d]
<1>1. calls \in [Callers -> Caller] /\ calls[c] \in Caller
  BY DEF PoolInv, PoolTypeOK
<1>2. calls' = [calls EXCEPT ![c] = [calls[c] EXCEPT !.pc = to]]
  BY <1>1
<1>3. [calls[c] EXCEPT !.pc = to] \in Caller
  BY <1>1 DEF Caller
<1>4. QED
  BY <1>1, <1>2, <1>3 DEF Caller

LEMMA InitHolds == PoolInit => PoolInv
BY PoolAssumption
   DEF PoolInit, PoolInv, PoolTypeOK, GateHeld, WorkloadCancellable, StoppedMeansNone,
       RunningOnOpen, Caller, Idle, ConnectionState, TaskState, Job

-----------------------------------------------------------------------------
(* What the steps keep, action by action.                                  *)

\* Handlers that begin or stay outside the gate disturb nothing.
LEMMA OutsideStep ==
    ASSUME PoolInv, NEW c \in Callers, NEW new \in Caller,
           new.pc \in {"Idle", "Check", "Wait"},
           calls' = [calls EXCEPT ![c] = new],
           UNCHANGED <<connections, tasks, cancellation, gate, faults>>
    PROVE  PoolInv'
<1>1. calls \in [Callers -> Caller]
  BY DEF PoolInv, PoolTypeOK
<1>2. calls' \in [Callers -> Caller] /\ calls'[c] = new
  BY <1>1
<1>3. \A d \in Callers : d # c => calls'[d] = calls[d]
  BY <1>1
<1>4. PoolTypeOK'
  BY <1>2 DEF PoolInv, PoolTypeOK
<1>5. GateHeld'
  BY <1>2, <1>3 DEF PoolInv, GateHeld
<1>6. StoppedMeansNone'
  BY <1>2, <1>3 DEF PoolInv, StoppedMeansNone
<1>7. WorkloadCancellable' /\ RunningOnOpen'
  BY DEF PoolInv, WorkloadCancellable, RunningOnOpen
<1>8. QED
  BY <1>4, <1>5, <1>6, <1>7 DEF PoolInv

LEMMA HandlersBegin ==
    ASSUME PoolInv, NEW c \in Callers, OpenPage(c) \/ Click(c) \/ CheckRunning(c) \/ CheckRaced(c)
    PROVE  PoolInv'
<1>1. calls \in [Callers -> Caller] /\ calls[c] \in Caller
  BY DEF PoolInv, PoolTypeOK
<1>2. CASE OpenPage(c)
  <2>1. PICK activate \in BOOLEAN :
            calls' = [calls EXCEPT ![c] =
                [pc |-> "Wait", call |-> "Start", job |-> "Start",
                 readNext |-> TRUE, activateNext |-> activate]]
    BY <1>2 DEF OpenPage
  <2>2. [pc |-> "Wait", call |-> "Start", job |-> "Start",
         readNext |-> TRUE, activateNext |-> activate] \in Caller
    BY DEF Caller, Job
  <2>3. QED
    BY <1>2, <2>1, <2>2, OutsideStep DEF OpenPage
<1>3. CASE Click(c)
  <2>1. PICK job \in {"Stop", "StartActive", "StopActive", "Read"} : calls' = Calling(c, job)
    BY <1>3 DEF Click
  <2> DEFINE pc == IF job = "StartActive" THEN "Check" ELSE "Wait"
             new == [calls[c] EXCEPT !.pc = pc, !.call = job, !.job = job]
  <2>2. calls' = [calls EXCEPT ![c] = new]
    BY <1>1, <2>1 DEF Calling
  <2>3. new \in Caller /\ new.pc \in {"Idle", "Check", "Wait"}
    BY <1>1, <2>1 DEF Caller, Job
  <2> HIDE DEF new
  <2>4. QED
    BY <1>3, <2>2, <2>3, OutsideStep DEF Click
<1>4. CASE CheckRunning(c)
  <2> DEFINE job == IF IsRunning THEN "StartActive" ELSE "Start"
             new == [calls[c] EXCEPT !.pc = "Wait", !.job = job]
  <2>1. calls' = [calls EXCEPT ![c] = new]
    BY <1>1, <1>4 DEF CheckRunning
  <2>2. new \in Caller /\ new.pc \in {"Idle", "Check", "Wait"}
    BY <1>1 DEF Caller, Job
  <2> HIDE DEF new
  <2>3. QED
    BY <1>4, <2>1, <2>2, OutsideStep DEF CheckRunning
<1>5. CASE CheckRaced(c)
  BY <1>5, AfterIsOutside, OutsideStep DEF CheckRaced, PoolInv
<1>6. QED
  BY <1>2, <1>3, <1>4, <1>5

LEMMA AcquireStep ==
    ASSUME PoolInv, NEW c \in Callers, Acquire(c)
    PROVE  PoolInv'
<1>1. /\ calls' = [calls EXCEPT ![c].pc = "Enter"]
      /\ gate = {} /\ gate' = {c}
      /\ UNCHANGED <<connections, tasks, cancellation, faults>>
  BY DEF Acquire
<1>2. /\ calls' \in [Callers -> Caller]
      /\ calls'[c].pc = "Enter"
      /\ \A d \in Callers : d # c => calls'[d] = calls[d]
  BY <1>1, MoveFacts
<1>3. PoolTypeOK'
  BY <1>1, <1>2 DEF PoolInv, PoolTypeOK
<1>4. GateHeld'
  BY <1>1, <1>2 DEF PoolInv, GateHeld
<1>5. StoppedMeansNone'
  BY <1>1, <1>2 DEF PoolInv, StoppedMeansNone
<1>6. WorkloadCancellable' /\ RunningOnOpen'
  BY <1>1 DEF PoolInv, WorkloadCancellable, RunningOnOpen
<1>7. QED
  BY <1>3, <1>4, <1>5, <1>6 DEF PoolInv

\* Calls that end without touching the lists.
LEMMA LeaveStep ==
    ASSUME PoolInv, NEW c \in Callers, NEW ok \in BOOLEAN, Leave(c, ok),
           UNCHANGED <<connections, tasks, cancellation>>, faults' \in 0..MaxFaults
    PROVE  PoolInv'
<1>1. /\ calls' \in [Callers -> Caller]
      /\ gate' \in SUBSET Callers
      /\ \A d, e \in gate' : d = e
      /\ GateHeld'
      /\ \A d \in Callers : calls'[d].pc \in {"Stopped", "Open"} => d # c /\ calls[d] = calls'[d]
  BY LeaveFacts
<1>2. PoolTypeOK'
  BY <1>1 DEF PoolInv, PoolTypeOK
<1>3. StoppedMeansNone'
  BY <1>1 DEF PoolInv, StoppedMeansNone
<1>4. WorkloadCancellable' /\ RunningOnOpen'
  BY DEF PoolInv, WorkloadCancellable, RunningOnOpen
<1>5. QED
  BY <1>1, <1>2, <1>3, <1>4 DEF PoolInv

\* A failing statement stays within the bound on faults.
LEMMA FailsFacts == ASSUME PoolInv, Fails PROVE faults' \in 0..MaxFaults
BY PoolAssumption DEF PoolInv, PoolTypeOK, Fails

LEMMA PlainReturns ==
    ASSUME PoolInv, NEW c \in Callers,
           \/ ReturnEarly(c) \/ StopThrows(c) \/ WorkloadStopped(c)
           \/ OpenFails(c) \/ ReadRuns(c)
    PROVE  PoolInv'
<1>1. faults' \in 0..MaxFaults
  BY FailsFacts DEF PoolInv, PoolTypeOK, ReturnEarly, StopThrows, WorkloadStopped, OpenFails, ReadRuns
<1>2. UNCHANGED <<connections, tasks, cancellation>>
  BY DEF ReturnEarly, StopThrows, WorkloadStopped, OpenFails, ReadRuns
<1>3. \E ok \in BOOLEAN : Leave(c, ok)
  BY DEF ReturnEarly, StopThrows, WorkloadStopped, OpenFails, ReadRuns
<1>4. QED
  BY <1>1, <1>2, <1>3, LeaveStep

LEMMA BeginStopStep ==
    ASSUME PoolInv, NEW c \in Callers, BeginStop(c)
    PROVE  PoolInv'
<1> DEFINE to == IF NothingToStop THEN "Stopped" ELSE "Await"
<1>1. /\ calls[c].pc = "Enter"
      /\ calls' = [calls EXCEPT ![c].pc = to]
      /\ cancellation' = IF NothingToStop THEN cancellation ELSE "Cancelled"
      /\ UNCHANGED <<connections, tasks, gate, faults>>
  BY DEF BeginStop
<1>2. /\ calls' \in [Callers -> Caller]
      /\ calls'[c].pc = to
      /\ \A d \in Callers : d # c => calls'[d] = calls[d]
  BY <1>1, MoveFacts
<1>3. PoolTypeOK'
  BY <1>1, <1>2 DEF PoolInv, PoolTypeOK
<1>4. GateHeld'
  BY <1>1, <1>2 DEF PoolInv, GateHeld
<1>5. WorkloadCancellable'
  BY <1>1 DEF PoolInv, WorkloadCancellable, NothingToStop
<1>6. StoppedMeansNone'
  BY <1>1, <1>2 DEF PoolInv, StoppedMeansNone, WorkloadCancellable, NothingToStop
<1>7. RunningOnOpen'
  BY <1>1 DEF PoolInv, RunningOnOpen
<1>8. QED
  BY <1>3, <1>4, <1>5, <1>6, <1>7 DEF PoolInv

LEMMA StopDoneStep ==
    ASSUME PoolInv, NEW c \in Callers, StopDone(c)
    PROVE  PoolInv'
<1>1. /\ calls[c].pc = "Await"
      /\ calls' = [calls EXCEPT ![c].pc = "Stopped"]
      /\ tasks' = [i \in Workers |-> "None"]
      /\ cancellation' = "None"
      /\ UNCHANGED <<connections, gate, faults>>
  BY DEF StopDone
<1>2. /\ calls' \in [Callers -> Caller]
      /\ calls'[c].pc = "Stopped"
      /\ \A d \in Callers : d # c => calls'[d] = calls[d]
  BY <1>1, MoveFacts
<1>3. PoolTypeOK'
  BY <1>1, <1>2 DEF PoolInv, PoolTypeOK, TaskState
<1>4. GateHeld'
  BY <1>1, <1>2 DEF PoolInv, GateHeld
<1>5. WorkloadCancellable' /\ StoppedMeansNone' /\ RunningOnOpen'
  BY <1>1 DEF WorkloadCancellable, StoppedMeansNone, RunningOnOpen
<1>6. QED
  BY <1>3, <1>4, <1>5 DEF PoolInv

\* Nothing runs when the connections are disposed.
LEMMA CloseStep ==
    ASSUME PoolInv, NEW c \in Callers, Close(c)
    PROVE  PoolInv'
<1>1. /\ calls[c].pc = "Stopped"
      /\ connections' = [i \in Slots |-> "None"]
      /\ UNCHANGED <<tasks, cancellation, faults>>
  BY DEF Close
<1>2. cancellation = "None" /\ \A i \in Workers : tasks[i] = "None"
  BY <1>1 DEF PoolInv, StoppedMeansNone
<1>3. /\ WorkloadCancellable' /\ StoppedMeansNone' /\ RunningOnOpen'
      /\ connections' \in [Slots -> ConnectionState]
      /\ \A i, j \in Slots : connections'[i] = "None" => connections'[j] = "None"
  BY <1>1, <1>2 DEF WorkloadCancellable, StoppedMeansNone, RunningOnOpen, ConnectionState
<1>4. CASE Leave(c, TRUE)
  <2>1. /\ calls' \in [Callers -> Caller]
        /\ gate' \in SUBSET Callers
        /\ \A d, e \in gate' : d = e
        /\ GateHeld'
    BY <1>4, LeaveFacts
  <2>2. PoolTypeOK'
    BY <1>1, <1>3, <2>1 DEF PoolInv, PoolTypeOK
  <2>3. QED
    BY <1>3, <2>1, <2>2 DEF PoolInv
<1>5. CASE calls' = [calls EXCEPT ![c].pc = "Open"] /\ UNCHANGED gate
  <2>1. /\ calls' \in [Callers -> Caller]
        /\ calls'[c].pc = "Open"
        /\ \A d \in Callers : d # c => calls'[d] = calls[d]
    BY <1>5, MoveFacts
  <2>2. GateHeld'
    BY <1>1, <1>5, <2>1 DEF PoolInv, GateHeld
  <2>3. PoolTypeOK'
    BY <1>1, <1>3, <1>5, <2>1 DEF PoolInv, PoolTypeOK
  <2>4. QED
    BY <1>3, <2>2, <2>3 DEF PoolInv
<1>6. QED
  BY <1>4, <1>5 DEF Close

LEMMA LaunchStep ==
    ASSUME PoolInv, NEW c \in Callers, Launch(c)
    PROVE  PoolInv'
<1>1. /\ calls[c].pc = "Stopped"
      /\ tasks' = [i \in Workers |->
             IF i \in Loops
             THEN IF connections[i] = "Open" THEN "Running" ELSE "OtherFault"
             ELSE "None"]
      /\ cancellation' = "Live"
      /\ Leave(c, TRUE)
      /\ UNCHANGED <<connections, faults>>
  BY DEF Launch
<1>2. /\ calls' \in [Callers -> Caller]
      /\ gate' \in SUBSET Callers
      /\ \A d, e \in gate' : d = e
      /\ GateHeld'
      /\ \A d \in Callers : calls'[d].pc \in {"Stopped", "Open"} => d # c /\ calls[d] = calls'[d]
  BY <1>1, LeaveFacts
<1>3. tasks' \in [Workers -> TaskState]
  BY <1>1 DEF TaskState
<1>4. PoolTypeOK'
  BY <1>1, <1>2, <1>3 DEF PoolInv, PoolTypeOK
<1>5. StoppedMeansNone'
  \* c was the only one inside the gate, and has left it
  BY <1>1, <1>2 DEF PoolInv, PoolTypeOK, GateHeld, StoppedMeansNone
<1>6. WorkloadCancellable'
  BY <1>1 DEF WorkloadCancellable
<1>7. RunningOnOpen'
  BY <1>1 DEF RunningOnOpen
<1>8. QED
  BY <1>2, <1>4, <1>5, <1>6, <1>7 DEF PoolInv

LEMMA OpenAllStep ==
    ASSUME PoolInv, NEW c \in Callers, OpenAll(c)
    PROVE  PoolInv'
<1>1. /\ connections' = [i \in Slots |-> "Open"]
      /\ Leave(c, TRUE)
      /\ UNCHANGED <<tasks, cancellation, faults>>
  BY DEF OpenAll
<1>2. /\ calls' \in [Callers -> Caller]
      /\ gate' \in SUBSET Callers
      /\ \A d, e \in gate' : d = e
      /\ GateHeld'
      /\ \A d \in Callers : calls'[d].pc \in {"Stopped", "Open"} => d # c /\ calls[d] = calls'[d]
  BY <1>1, LeaveFacts
<1>3. PoolTypeOK'
  BY <1>1, <1>2 DEF PoolInv, PoolTypeOK, ConnectionState
<1>4. StoppedMeansNone'
  BY <1>1, <1>2 DEF PoolInv, StoppedMeansNone
<1>5. WorkloadCancellable'
  BY <1>1 DEF PoolInv, WorkloadCancellable
<1>6. RunningOnOpen'
  BY <1>1, WorkersAreSlots DEF RunningOnOpen
<1>7. QED
  BY <1>2, <1>3, <1>4, <1>5, <1>6 DEF PoolInv

\* A read may lose its connection, which no query of the workload runs on.
LEMMA ReadFailsStep ==
    ASSUME PoolInv, NEW c \in Callers, ReadFails(c)
    PROVE  PoolInv'
<1>1. /\ Leave(c, FALSE)
      /\ Fails
      /\ \/ UNCHANGED connections
         \/ /\ connections[Target] = "Open"
            /\ connections' = [connections EXCEPT ![Target] = "Closed"]
      /\ UNCHANGED <<tasks, cancellation>>
  BY DEF ReadFails
<1>2. faults' \in 0..MaxFaults
  BY <1>1, FailsFacts
<1>3. CASE UNCHANGED connections
  BY <1>1, <1>2, <1>3, LeaveStep
<1>4. CASE /\ connections[Target] = "Open"
           /\ connections' = [connections EXCEPT ![Target] = "Closed"]
  <2>1. /\ calls' \in [Callers -> Caller]
        /\ gate' \in SUBSET Callers
        /\ \A d, e \in gate' : d = e
        /\ GateHeld'
        /\ \A d \in Callers : calls'[d].pc \in {"Stopped", "Open"} => d # c /\ calls[d] = calls'[d]
    BY <1>1, LeaveFacts
  <2>2. connections \in [Slots -> ConnectionState] /\ Target \in Slots
    BY PoolAssumption DEF PoolInv, PoolTypeOK, Slots
  <2>3. connections' \in [Slots -> ConnectionState]
    BY <1>4, <2>2 DEF ConnectionState
  <2>4. \A i, j \in Slots : connections'[i] = "None" => connections'[j] = "None"
    BY <1>4, <2>2 DEF PoolInv, PoolTypeOK
  <2>5. PoolTypeOK'
    BY <1>1, <1>2, <2>1, <2>3, <2>4 DEF PoolInv, PoolTypeOK
  <2>6. StoppedMeansNone'
    BY <1>1, <2>1 DEF PoolInv, StoppedMeansNone
  <2>7. WorkloadCancellable'
    BY <1>1 DEF PoolInv, WorkloadCancellable
  <2>8. RunningOnOpen'
    BY <1>1, <1>4, <2>2, WorkersAreSlots DEF PoolInv, RunningOnOpen
  <2>9. QED
    BY <2>1, <2>5, <2>6, <2>7, <2>8 DEF PoolInv
<1>5. QED
  BY <1>1, <1>3, <1>4

LEMMA QueryStep ==
    ASSUME PoolInv, NEW i \in Workers, QueryCancelled(i) \/ ConnectionLost(i)
    PROVE  PoolInv'
<1>1. PICK how \in {"Cancelled", "SqlFault"} :
          tasks[i] = "Running" /\ tasks' = [tasks EXCEPT ![i] = how]
  BY DEF QueryCancelled, ConnectionLost
<1>2. UNCHANGED <<cancellation, gate, calls>>
  BY DEF QueryCancelled, ConnectionLost
<1>3. \/ UNCHANGED connections
      \/ connections' = [connections EXCEPT ![i] = "Closed"]
  BY DEF QueryCancelled, ConnectionLost
<1>4. faults' \in 0..MaxFaults
  BY FailsFacts DEF PoolInv, PoolTypeOK, QueryCancelled, ConnectionLost
<1>5. connections \in [Slots -> ConnectionState] /\ tasks \in [Workers -> TaskState]
  BY DEF PoolInv, PoolTypeOK
<1>6. connections[i] = "Open"
  BY <1>1 DEF PoolInv, RunningOnOpen
<1>7. /\ connections' \in [Slots -> ConnectionState]
      /\ \A j \in Slots : connections'[j] = "None" <=> connections[j] = "None"
      /\ \A j \in Slots : j # i => connections'[j] = connections[j]
  BY <1>3, <1>5, <1>6, WorkersAreSlots DEF ConnectionState
<1>8. /\ tasks' \in [Workers -> TaskState]
      /\ tasks'[i] = how
      /\ \A j \in Workers : j # i => tasks'[j] = tasks[j]
  BY <1>1, <1>5 DEF TaskState
<1>9. PoolTypeOK'
  BY <1>2, <1>4, <1>7, <1>8 DEF PoolInv, PoolTypeOK
<1>10. GateHeld'
  BY <1>2 DEF PoolInv, GateHeld
<1>11. WorkloadCancellable'
  BY <1>1, <1>2, <1>8 DEF PoolInv, WorkloadCancellable
<1>12. StoppedMeansNone'
  BY <1>1, <1>2, <1>8 DEF PoolInv, StoppedMeansNone
<1>13. RunningOnOpen'
  BY <1>1, <1>7, <1>8, WorkersAreSlots DEF PoolInv, RunningOnOpen
<1>14. QED
  BY <1>9, <1>10, <1>11, <1>12, <1>13 DEF PoolInv

LEMMA StepHolds == PoolInv /\ [PoolNext]_poolVars => PoolInv'
<1> SUFFICES ASSUME PoolInv, [PoolNext]_poolVars PROVE PoolInv'
  OBVIOUS
<1>1. CASE UNCHANGED poolVars
  BY <1>1 DEF poolVars, PoolInv, PoolTypeOK, GateHeld, WorkloadCancellable, StoppedMeansNone,
              RunningOnOpen
<1>2. CASE \E c \in Callers :
               OpenPage(c) \/ Click(c) \/ CheckRaced(c) \/ Acquire(c) \/ Proceed(c)
               \/ OpenFails(c) \/ ReadFails(c)
  BY <1>2, HandlersBegin, AcquireStep, PlainReturns, BeginStopStep, StopDoneStep, CloseStep,
     LaunchStep, OpenAllStep, ReadFailsStep DEF Proceed
<1>3. CASE \E i \in Workers : QueryCancelled(i) \/ ConnectionLost(i)
  BY <1>3, QueryStep
<1>4. QED
  BY <1>1, <1>2, <1>3 DEF PoolNext

LEMMA InvariantHolds == PoolSpec => []PoolInv
BY InitHolds, StepHolds, PTL DEF PoolSpec

-----------------------------------------------------------------------------
\* The pool has all of its connections or none, at most one caller is inside
\* the gate, and all state has its type (TestConnectionPoolService.cs:20 to 45).
THEOREM PoolTypeCorrect == PoolSpec => []PoolTypeOK
<1>1. PoolInv => PoolTypeOK
  BY DEF PoolInv
<1>2. QED
  BY <1>1, InvariantHolds, PTL

\* However the calls of the circuits interleave with failures, the queries of
\* the workload run on open connections of the pool and can be cancelled
\* (TestConnectionPoolService.cs:54 to 70, 116 to 133).
THEOREM QueriesRunOnOpenConnections == PoolSpec => []WorkloadUsesOpenConnections
<1>1. PoolInv => WorkloadUsesOpenConnections
  BY DEF PoolInv, RunningOnOpen, WorkloadCancellable, WorkloadUsesOpenConnections
<1>2. QED
  BY <1>1, InvariantHolds, PTL

\* A stop that succeeds leaves no query behind, running or failed, and the
\* service ready to start the next workload (TestConnectionPoolService.cs:124 to 133).
THEOREM StopsComplete == PoolSpec => StopsAreComplete
<1> DEFINE Complete == \A c \in Callers :
              Succeeds(c, "StopActive") \/ Succeeds(c, "Stop") =>
                  /\ \A i \in Workers : tasks'[i] = "None"
                  /\ cancellation' = "None"
<1>1. PoolInv /\ [PoolNext]_poolVars => [Complete]_poolVars
  <2> SUFFICES ASSUME PoolInv, PoolNext, NEW c \in Callers,
                      Succeeds(c, "StopActive") \/ Succeeds(c, "Stop")
               PROVE  /\ \A i \in Workers : tasks'[i] = "None"
                      /\ cancellation' = "None"
    OBVIOUS
  <2>1. /\ calls[c].pc \in {"Enter", "Stopped", "Open"}
        /\ calls[c].job \in {"StopActive", "Stop"}
        /\ c \in gate /\ c \notin gate'
    BY DEF Succeeds, Ends, PoolInv, GateHeld
  \* Only c itself takes c out of the gate ...
  <2>2. CASE \E d \in Callers :
                 \/ OpenPage(d) \/ Click(d) \/ CheckRaced(d) \/ Acquire(d) \/ CheckRunning(d)
                 \/ BeginStop(d) \/ StopDone(d)
    BY <2>1, <2>2 DEF OpenPage, Click, CheckRaced, Acquire, CheckRunning, BeginStop, StopDone
  <2>3. CASE \E i \in Workers : QueryCancelled(i) \/ ConnectionLost(i)
    BY <2>1, <2>3 DEF QueryCancelled, ConnectionLost
  \* ... and when it stops the workload, it does so after the workload has ended.
  <2>4. CASE \E d \in Callers :
                 \/ ReturnEarly(d) \/ StopThrows(d) \/ Close(d) \/ WorkloadStopped(d)
                 \/ Launch(d) \/ OpenAll(d) \/ ReadRuns(d) \/ OpenFails(d) \/ ReadFails(d)
    <3>1. PICK d \in Callers :
              \/ ReturnEarly(d) \/ StopThrows(d) \/ Close(d) \/ WorkloadStopped(d)
              \/ Launch(d) \/ OpenAll(d) \/ ReadRuns(d) \/ OpenFails(d) \/ ReadFails(d)
      BY <2>4
    <3>2. d = c
      BY <2>1, <3>1 DEF ReturnEarly, StopThrows, Close, WorkloadStopped, Launch, OpenAll,
                        ReadRuns, OpenFails, ReadFails, Leave
    <3>3. Close(c) \/ WorkloadStopped(c) \/ OpenAll(c) \/ OpenFails(c)
      BY <2>1, <3>1, <3>2 DEF ReturnEarly, AlreadyDone, StopThrows, Launch, ReadRuns, ReadFails
    <3>4. UNCHANGED <<tasks, cancellation>> /\ calls[c].pc \in {"Stopped", "Open"}
      BY <3>3 DEF Close, WorkloadStopped, OpenAll, OpenFails
    <3>5. QED
      BY <3>4 DEF PoolInv, StoppedMeansNone
  <2>5. QED
    BY <2>2, <2>3, <2>4 DEF PoolNext, Proceed
<1>2. QED
  BY <1>1, InvariantHolds, PTL DEF PoolSpec, StopsAreComplete

-----------------------------------------------------------------------------
(* The pool implements its lifecycle.                                      *)

\* Who is about to open connections has closed the old ones.
OpeningMeansEmpty ==
    \A c \in Callers : calls[c].pc = "Open" => \A i \in Slots : connections[i] = "None"

\* Who awaits the workload has cancelled it.
AwaitingMeansCancelled == \A c \in Callers : calls[c].pc = "Await" => cancellation = "Cancelled"

LifecycleInv == PoolInv /\ OpeningMeansEmpty /\ AwaitingMeansCancelled

\* The fields of the service as the lifecycle sees them.
opens == {i \in Slots : connections[i] = "Open"}

runnings == {i \in Workers : tasks[i] = "Running"}

workloads ==
    CASE cancellation = "None" -> "Off"
      [] cancellation = "Live" -> "On"
      [] OTHER                 -> "Stopping"

RefinesNext == Lifecycle!Next \/ UNCHANGED Lifecycle!vars

\* The steps of the lifecycle, in these terms.
LEMMA LifecycleStutters ==
    ASSUME UNCHANGED <<opens, runnings, workloads>>
    PROVE  RefinesNext
  BY DEF opens, runnings, workloads, RefinesNext, Lifecycle!vars

LEMMA FieldsStutter ==
    ASSUME UNCHANGED <<connections, tasks, cancellation>>
    PROVE  RefinesNext
  BY LifecycleStutters DEF opens, runnings, workloads

LEMMA LifecycleFill ==
    ASSUME workloads = "Off", opens = {}, opens' = Slots, UNCHANGED <<runnings, workloads>>
    PROVE  RefinesNext
<1>1. Lifecycle!Fill
  BY DEF opens, runnings, workloads, Lifecycle!Fill
<1> QED
  BY <1>1 DEF RefinesNext, Lifecycle!Next

LEMMA LifecycleDrain ==
    ASSUME workloads = "Off", opens' = {}, UNCHANGED <<runnings, workloads>>
    PROVE  RefinesNext
<1>1. Lifecycle!Drain
  BY DEF opens, runnings, workloads, Lifecycle!Drain
<1> QED
  BY <1>1 DEF RefinesNext, Lifecycle!Next

LEMMA LifecycleLaunch ==
    ASSUME workloads = "Off", workloads' = "On", runnings' = Workers \intersect opens,
           UNCHANGED opens
    PROVE  RefinesNext
<1>1. Lifecycle!Launch
  BY DEF opens, runnings, workloads, Lifecycle!Launch
<1> QED
  BY <1>1 DEF RefinesNext, Lifecycle!Next

LEMMA LifecycleCancel ==
    ASSUME workloads = "On", workloads' = "Stopping", UNCHANGED <<opens, runnings>>
    PROVE  RefinesNext
<1>1. Lifecycle!Cancel
  BY DEF opens, runnings, workloads, Lifecycle!Cancel
<1> QED
  BY <1>1 DEF RefinesNext, Lifecycle!Next

LEMMA LifecycleQueryEnds ==
    ASSUME workloads = "Stopping", NEW i \in Workers, i \in runnings,
           runnings' = runnings \ {i}, UNCHANGED <<opens, workloads>>
    PROVE  RefinesNext
<1>1. Lifecycle!QueryEnds(i)
  BY DEF opens, runnings, workloads, Lifecycle!QueryEnds
<1> QED
  BY <1>1 DEF RefinesNext, Lifecycle!Next

LEMMA LifecycleStopped ==
    ASSUME workloads = "Stopping", runnings = {}, workloads' = "Off", UNCHANGED <<opens, runnings>>
    PROVE  RefinesNext
<1>1. Lifecycle!Stopped
  BY DEF opens, runnings, workloads, Lifecycle!Stopped
<1> QED
  BY <1>1 DEF RefinesNext, Lifecycle!Next

LEMMA LifecycleLose ==
    ASSUME NEW i \in Slots, i \in opens, opens' = opens \ {i}, runnings' = runnings \ {i},
           UNCHANGED workloads
    PROVE  RefinesNext
<1>1. Lifecycle!Lose(i)
  BY DEF opens, runnings, workloads, Lifecycle!Lose
<1> QED
  BY <1>1 DEF RefinesNext, Lifecycle!Next

-----------------------------------------------------------------------------
(* What the steps of the service are in the lifecycle.                     *)

\* While a caller is between the two workloads there is none.
LEMMA BetweenWorkloads ==
    ASSUME PoolInv, NEW c \in Callers, calls[c].pc \in {"Stopped", "Open"}
    PROVE  workloads = "Off" /\ runnings = {} /\ cancellation = "None"
<1>1. cancellation = "None" /\ \A i \in Workers : tasks[i] = "None"
  BY DEF PoolInv, StoppedMeansNone
<1> QED
  BY <1>1 DEF workloads, runnings

LEMMA CancelRefines ==
    ASSUME PoolInv, NEW c \in Callers, BeginStop(c)
    PROVE  RefinesNext
<1>1. UNCHANGED <<connections, tasks>>
  BY DEF BeginStop
<1>2. UNCHANGED <<opens, runnings>>
  BY <1>1 DEF opens, runnings
<1>3. CASE cancellation = "Live"
  <2>1. cancellation' = "Cancelled"
    BY <1>3 DEF BeginStop, NothingToStop
  <2>2. workloads = "On" /\ workloads' = "Stopping"
    BY <1>3, <2>1 DEF workloads
  <2> QED
    BY <1>2, <2>2, LifecycleCancel
<1>4. CASE cancellation # "Live"
  <2>1. cancellation \in {"None", "Cancelled"}
    BY <1>4 DEF PoolInv, PoolTypeOK
  <2>2. cancellation' = cancellation
    BY <2>1 DEF BeginStop, NothingToStop
  <2> QED
    BY <1>1, <2>2, FieldsStutter
<1> QED
  BY <1>3, <1>4

LEMMA StopRefines ==
    ASSUME LifecycleInv, NEW c \in Callers, StopDone(c)
    PROVE  RefinesNext
<1>1. /\ \A i \in Workers : tasks[i] # "Running" /\ tasks'[i] = "None"
      /\ cancellation' = "None" /\ UNCHANGED connections
  BY DEF StopDone, WorkloadRuns
<1>2. runnings = {} /\ runnings' = {} /\ UNCHANGED opens
  BY <1>1 DEF runnings, opens
<1>3. workloads' = "Off"
  BY <1>1 DEF workloads
<1>4. calls[c].pc = "Await"
  BY DEF StopDone
<1>5. cancellation = "Cancelled"
  BY <1>4 DEF LifecycleInv, AwaitingMeansCancelled
<1>6. workloads = "Stopping"
  BY <1>5 DEF workloads
<1> QED
  BY <1>2, <1>3, <1>6, LifecycleStopped

LEMMA CloseRefines ==
    ASSUME PoolInv, NEW c \in Callers, Close(c)
    PROVE  RefinesNext
<1>1. /\ calls[c].pc = "Stopped"
      /\ \A i \in Slots : connections'[i] = "None"
      /\ UNCHANGED <<tasks, cancellation>>
  BY DEF Close
<1>2. workloads = "Off"
  BY <1>1, BetweenWorkloads
<1>3. opens' = {} /\ UNCHANGED <<runnings, workloads>>
  BY <1>1 DEF opens, runnings, workloads
<1> QED
  BY <1>2, <1>3, LifecycleDrain

LEMMA OpenRefines ==
    ASSUME LifecycleInv, NEW c \in Callers, OpenAll(c)
    PROVE  RefinesNext
<1>1. /\ calls[c].pc = "Open"
      /\ \A i \in Slots : connections'[i] = "Open"
      /\ UNCHANGED <<tasks, cancellation>>
  BY DEF OpenAll
<1>2. workloads = "Off"
  BY <1>1, BetweenWorkloads DEF LifecycleInv
<1>3. opens = {}
  BY <1>1 DEF LifecycleInv, OpeningMeansEmpty, opens
<1>4. opens' = Slots /\ UNCHANGED <<runnings, workloads>>
  BY <1>1 DEF opens, runnings, workloads
<1> QED
  BY <1>2, <1>3, <1>4, LifecycleFill

\* The last connection is kept for reading, and it is the only one left out.
LEMMA LoopsOnOpen ==
    ASSUME PoolTypeOK, NEW i \in Workers, connections[i] = "Open"
    PROVE  i \in Loops
<1>1. \A j \in Slots : connections[j] # "None"
  BY WorkersAreSlots DEF PoolTypeOK
<1>2. {j \in Slots : connections[j] # "None"} = 1..Target
  BY <1>1 DEF Slots
<1>3. Cardinality(1..Target) = Target
  <2>1. PICK a \in Int, b \in Int : a = 1 /\ b = Target
    BY PoolAssumption
  <2>2. Cardinality(a..b) = IF a > b THEN 0 ELSE b - a + 1
    BY FS_Interval
  <2>3. b \in Nat
    BY <2>1, PoolAssumption
  <2> QED
    BY <2>1, <2>2, <2>3
<1>4. i \in 1..(Target - 1)
  BY PoolAssumption DEF Workers
<1> QED
  BY <1>2, <1>3, <1>4 DEF Loops

LEMMA LaunchRefines ==
    ASSUME PoolInv, NEW c \in Callers, Launch(c)
    PROVE  RefinesNext
<1>1. /\ calls[c].pc = "Stopped"
      /\ tasks' = [i \in Workers |->
             IF i \in Loops
             THEN IF connections[i] = "Open" THEN "Running" ELSE "OtherFault"
             ELSE "None"]
      /\ cancellation' = "Live"
      /\ UNCHANGED connections
  BY DEF Launch
<1>2. workloads = "Off"
  BY <1>1, BetweenWorkloads
<1>3. workloads' = "On"
  BY <1>1 DEF workloads
<1>4. \A i \in Workers : tasks'[i] = "Running" <=> connections[i] = "Open"
  BY <1>1, LoopsOnOpen DEF PoolInv
<1>5. runnings' = Workers \intersect opens
  BY <1>4, WorkersAreSlots DEF runnings, opens
<1>6. UNCHANGED opens
  BY <1>1 DEF opens
<1> QED
  BY <1>2, <1>3, <1>5, <1>6, LifecycleLaunch

LEMMA ReadRefines ==
    ASSUME PoolInv, NEW c \in Callers, ReadFails(c)
    PROVE  RefinesNext
<1>1. UNCHANGED <<tasks, cancellation>>
  BY DEF ReadFails
<1>2. CASE UNCHANGED connections
  BY <1>1, <1>2, FieldsStutter
<1>3. CASE /\ connections[Target] = "Open"
           /\ connections' = [connections EXCEPT ![Target] = "Closed"]
  <2>1. connections \in [Slots -> ConnectionState] /\ Target \in Slots
    BY PoolAssumption DEF PoolInv, PoolTypeOK, Slots
  <2>2. Target \in opens /\ opens' = opens \ {Target}
    BY <1>3, <2>1 DEF opens
  <2>3. Target \notin Workers
    BY WorkersAreSlots
  <2>4. runnings' = runnings \ {Target} /\ UNCHANGED workloads
    BY <1>1, <2>3 DEF runnings, workloads
  <2> QED
    BY <2>1, <2>2, <2>4, LifecycleLose
<1> QED
  BY <1>2, <1>3 DEF ReadFails

LEMMA QueryRefines ==
    ASSUME PoolInv, NEW i \in Workers, QueryCancelled(i) \/ ConnectionLost(i)
    PROVE  RefinesNext
<1>1. PICK how \in {"Cancelled", "SqlFault"} :
          tasks[i] = "Running" /\ tasks' = [tasks EXCEPT ![i] = how]
  BY DEF QueryCancelled, ConnectionLost
<1>2. connections \in [Slots -> ConnectionState] /\ tasks \in [Workers -> TaskState]
  BY DEF PoolInv, PoolTypeOK
<1>3. i \in runnings /\ runnings' = runnings \ {i}
  BY <1>1, <1>2 DEF runnings
<1>4. UNCHANGED workloads
  BY DEF QueryCancelled, ConnectionLost, workloads
<1>5. CASE QueryCancelled(i)
  <2>1. cancellation = "Cancelled" /\ UNCHANGED connections
    BY <1>5 DEF QueryCancelled
  <2>2. workloads = "Stopping" /\ UNCHANGED opens
    BY <2>1 DEF workloads, opens
  <2> QED
    BY <1>3, <1>4, <2>2, LifecycleQueryEnds
<1>6. CASE ConnectionLost(i)
  <2>1. connections' = [connections EXCEPT ![i] = "Closed"] /\ i \in Slots
    BY <1>6, WorkersAreSlots DEF ConnectionLost
  <2>2. connections[i] = "Open"
    BY <1>1 DEF PoolInv, RunningOnOpen
  <2>3. i \in opens /\ opens' = opens \ {i}
    BY <1>2, <2>1, <2>2 DEF opens
  <2> QED
    BY <1>3, <1>4, <2>1, <2>3, LifecycleLose
<1> QED
  BY <1>5, <1>6

LEMMA LifecycleStep ==
    ASSUME LifecycleInv, [PoolNext]_poolVars
    PROVE  RefinesNext
<1>1. PoolInv
  BY DEF LifecycleInv
<1>2. CASE \E c \in Callers : BeginStop(c) \/ StopDone(c) \/ Close(c) \/ Launch(c) \/ OpenAll(c) \/ ReadFails(c)
  BY <1>1, <1>2, CancelRefines, StopRefines, CloseRefines, LaunchRefines, OpenRefines, ReadRefines
<1>3. CASE \E i \in Workers : QueryCancelled(i) \/ ConnectionLost(i)
  BY <1>1, <1>3, QueryRefines
<1>4. CASE \/ \E c \in Callers :
               \/ OpenPage(c) \/ Click(c) \/ CheckRaced(c) \/ Acquire(c) \/ CheckRunning(c)
               \/ ReturnEarly(c) \/ StopThrows(c) \/ WorkloadStopped(c) \/ ReadRuns(c) \/ OpenFails(c)
           \/ UNCHANGED poolVars
  <2>1. UNCHANGED <<connections, tasks, cancellation>>
    BY <1>4 DEF OpenPage, Click, CheckRaced, Acquire, CheckRunning, ReturnEarly, StopThrows,
                WorkloadStopped, ReadRuns, OpenFails, poolVars
  <2> QED
    BY <2>1, FieldsStutter
<1> QED
  BY <1>2, <1>3, <1>4 DEF PoolNext, Proceed

-----------------------------------------------------------------------------
(* The steps keep what the lifecycle needs.                                *)

\* Nobody but the caller that moves is inside the gate, or nothing is changed there.
LEMMA TurnKeeps ==
    ASSUME LifecycleInv, NEW c \in Callers,
           \A d \in Callers : d # c => calls'[d] = calls[d],
           \/ calls[c].pc \in {"Enter", "Await", "Stopped", "Open"}
           \/ UNCHANGED <<connections, cancellation>>,
           calls'[c].pc = "Open" => \A i \in Slots : connections'[i] = "None",
           calls'[c].pc = "Await" => cancellation' = "Cancelled"
    PROVE  OpeningMeansEmpty' /\ AwaitingMeansCancelled'
<1>1. CASE calls[c].pc \in {"Enter", "Await", "Stopped", "Open"}
  <2>1. \A d \in Callers : d # c => calls[d].pc \notin {"Await", "Open"}
    BY <1>1 DEF LifecycleInv, PoolInv, PoolTypeOK, GateHeld
  <2> QED
    BY <2>1 DEF OpeningMeansEmpty, AwaitingMeansCancelled
<1>2. CASE UNCHANGED <<connections, cancellation>>
  BY <1>2 DEF LifecycleInv, OpeningMeansEmpty, AwaitingMeansCancelled
<1> QED
  BY <1>1, <1>2

LEMMA LeaveKeeps ==
    ASSUME LifecycleInv, NEW c \in Callers, NEW ok \in BOOLEAN, Leave(c, ok),
           calls[c].pc \in {"Enter", "Await", "Stopped", "Open"}
    PROVE  OpeningMeansEmpty' /\ AwaitingMeansCancelled'
<1>1. After(c, ok).pc \in {"Idle", "Check", "Wait"} /\ calls \in [Callers -> Caller]
  BY AfterIsOutside DEF LifecycleInv, PoolInv, PoolTypeOK
<1>2. calls'[c].pc \in {"Idle", "Check", "Wait"} /\ \A d \in Callers : d # c => calls'[d] = calls[d]
  BY <1>1 DEF Leave
<1> QED
  BY <1>2, TurnKeeps

\* Outside the gate nothing of the pool changes.
LEMMA BeginKeeps ==
    ASSUME LifecycleInv, NEW c \in Callers,
           \/ OpenPage(c) \/ Click(c) \/ CheckRunning(c) \/ CheckRaced(c) \/ Acquire(c)
    PROVE  OpeningMeansEmpty' /\ AwaitingMeansCancelled'
<1>1. calls \in [Callers -> Caller] /\ calls[c] \in Caller /\ PoolTypeOK
  BY DEF LifecycleInv, PoolInv, PoolTypeOK
<1>2. UNCHANGED <<connections, cancellation>>
  BY DEF OpenPage, Click, CheckRunning, CheckRaced, Acquire
<1>3. \A d \in Callers : d # c => calls'[d] = calls[d]
  BY <1>1 DEF OpenPage, Click, Calling, CheckRunning, CheckRaced, Acquire
<1>4. calls'[c].pc \in {"Idle", "Check", "Wait", "Enter"}
  <2>1. CASE OpenPage(c)
    BY <1>1, <2>1 DEF OpenPage
  <2>2. CASE Click(c)
    <3>1. PICK job \in {"Stop", "StartActive", "StopActive", "Read"} : calls' = Calling(c, job)
      BY <2>2 DEF Click
    <3> DEFINE pc == IF job = "StartActive" THEN "Check" ELSE "Wait"
    <3>2. calls'[c] = [calls[c] EXCEPT !.pc = pc, !.call = job, !.job = job]
      BY <1>1, <3>1 DEF Calling
    <3> QED
      BY <1>1, <3>2 DEF Caller
  <2>3. CASE CheckRunning(c)
    <3> DEFINE job == IF IsRunning THEN "StartActive" ELSE "Start"
    <3>1. calls'[c] = [calls[c] EXCEPT !.pc = "Wait", !.job = job]
      BY <1>1, <2>3 DEF CheckRunning
    <3> QED
      BY <1>1, <3>1 DEF Caller
  <2>4. CASE CheckRaced(c)
    <3>1. After(c, FALSE).pc \in {"Idle", "Check", "Wait"}
      BY <1>1, AfterIsOutside
    <3> QED
      BY <1>1, <2>4, <3>1 DEF CheckRaced
  <2>5. CASE Acquire(c)
    <3>1. calls'[c] = [calls[c] EXCEPT !.pc = "Enter"]
      BY <1>1, <2>5 DEF Acquire
    <3> QED
      BY <1>1, <3>1 DEF Caller
  <2> QED
    BY <2>1, <2>2, <2>3, <2>4, <2>5
<1> QED
  BY <1>2, <1>3, <1>4, TurnKeeps

LEMMA InsideKeeps ==
    ASSUME LifecycleInv, NEW c \in Callers,
           \/ BeginStop(c) \/ StopDone(c) \/ Close(c)
           \/ ReturnEarly(c) \/ StopThrows(c) \/ WorkloadStopped(c) \/ Launch(c)
           \/ OpenAll(c) \/ OpenFails(c) \/ ReadRuns(c) \/ ReadFails(c)
    PROVE  OpeningMeansEmpty' /\ AwaitingMeansCancelled'
<1>1. calls[c].pc \in {"Enter", "Await", "Stopped", "Open"} /\ PoolInv
  BY DEF BeginStop, StopDone, Close, ReturnEarly, StopThrows, WorkloadStopped, Launch, OpenAll,
         OpenFails, ReadRuns, ReadFails, LifecycleInv
<1>2. ASSUME NEW to \in {"Stopped", "Await", "Open"}, calls' = [calls EXCEPT ![c].pc = to],
             to = "Open" => \A i \in Slots : connections'[i] = "None",
             to = "Await" => cancellation' = "Cancelled"
      PROVE  OpeningMeansEmpty' /\ AwaitingMeansCancelled'
  <2>1. calls'[c].pc = to /\ \A d \in Callers : d # c => calls'[d] = calls[d]
    BY <1>1, <1>2, MoveFacts
  <2> QED
    BY <1>1, <1>2, <2>1, TurnKeeps
<1>3. CASE BeginStop(c)
  <2> DEFINE to == IF NothingToStop THEN "Stopped" ELSE "Await"
  <2>1. calls' = [calls EXCEPT ![c].pc = to] /\ (to = "Await" => cancellation' = "Cancelled")
    BY <1>3 DEF BeginStop
  <2> QED
    BY <1>2, <2>1
<1>4. CASE StopDone(c)
  BY <1>2, <1>4 DEF StopDone
<1>5. CASE \E ok \in BOOLEAN : Leave(c, ok)
  BY <1>1, <1>5, LeaveKeeps
<1>6. CASE Close(c)
  <2>1. \A i \in Slots : connections'[i] = "None"
    BY <1>6 DEF Close
  <2>2. Leave(c, TRUE) \/ calls' = [calls EXCEPT ![c].pc = "Open"]
    BY <1>6 DEF Close
  <2> QED
    BY <1>2, <1>5, <2>1, <2>2
<1> QED
  BY <1>3, <1>4, <1>5, <1>6 DEF ReturnEarly, StopThrows, WorkloadStopped, Launch, OpenAll,
     OpenFails, ReadRuns, ReadFails

LEMMA QueryKeeps ==
    ASSUME LifecycleInv, NEW i \in Workers, QueryCancelled(i) \/ ConnectionLost(i)
    PROVE  OpeningMeansEmpty' /\ AwaitingMeansCancelled'
<1>1. UNCHANGED <<cancellation, calls>> /\ tasks[i] = "Running"
  BY DEF QueryCancelled, ConnectionLost
<1>2. \A c \in Callers : calls[c].pc # "Open"
  BY <1>1 DEF LifecycleInv, PoolInv, StoppedMeansNone
<1> QED
  BY <1>1, <1>2 DEF LifecycleInv, OpeningMeansEmpty, AwaitingMeansCancelled

LEMMA LifecycleKeeps ==
    ASSUME LifecycleInv, [PoolNext]_poolVars
    PROVE  LifecycleInv'
<1>1. PoolInv'
  BY StepHolds DEF LifecycleInv
<1>2. CASE UNCHANGED poolVars
  <2>1. OpeningMeansEmpty' /\ AwaitingMeansCancelled'
    BY <1>2 DEF poolVars, LifecycleInv, OpeningMeansEmpty, AwaitingMeansCancelled
  <2> QED
    BY <1>1, <2>1 DEF LifecycleInv
<1>3. CASE PoolNext
  <2>1. OpeningMeansEmpty' /\ AwaitingMeansCancelled'
    BY <1>3, BeginKeeps, InsideKeeps, QueryKeeps DEF PoolNext, Proceed
  <2> QED
    BY <1>1, <2>1 DEF LifecycleInv
<1> QED
  BY <1>2, <1>3

\* The calls of all circuits, the exceptions and the lost connections between them
\* implement the lifecycle of one pool, for any number of connections and callers
\* (TestConnectionPoolService.cs:20 to 45 and 54 to 133).
THEOREM LifecycleIsImplemented == PoolSpec => ImplementsLifecycle
<1>1. PoolInit => LifecycleInv /\ Lifecycle!Init
  <2> SUFFICES ASSUME PoolInit PROVE LifecycleInv /\ Lifecycle!Init
    OBVIOUS
  <2>1. PoolInv
    BY InitHolds
  <2>2. OpeningMeansEmpty /\ AwaitingMeansCancelled
    BY DEF PoolInit, Idle, OpeningMeansEmpty, AwaitingMeansCancelled
  <2>3. Lifecycle!Init
    BY DEF PoolInit, Lifecycle!Init
  <2> QED
    BY <2>1, <2>2, <2>3 DEF LifecycleInv
<1>2. LifecycleInv /\ [PoolNext]_poolVars => LifecycleInv'
  BY LifecycleKeeps
<1>3. LifecycleInv /\ [PoolNext]_poolVars => [Lifecycle!Next]_Lifecycle!vars
  BY LifecycleStep DEF RefinesNext
<1> QED
  BY <1>1, <1>2, <1>3, PTL DEF PoolSpec, ImplementsLifecycle, Lifecycle!Spec
===============================================================================
