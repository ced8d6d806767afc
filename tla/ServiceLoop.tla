----------------------------- MODULE ServiceLoop -----------------------------
(***************************************************************************)
(* ExecuteAsync of the two collector services: one cycle after the other,  *)
(* with a heartbeat row in the database.  The two loops are alike; what a  *)
(* cycle does is IisCollector and SqlCollector, here it only takes time.   *)
(* The row belongs to the type and the machine, so that no two services    *)
(* share one.  Statements take no time, delays and cycles do.              *)
(***************************************************************************)
EXTENDS Naturals

CONSTANTS PollInterval, HeartbeatInterval,   \* of the service's options, in ticks
          LongestCycle,    \* what the timeouts of all its servers add up to
          MaxFaults        \* bound on errors, outages and stops

ASSUME LoopAssumption ==
    /\ PollInterval \in Nat \ {0}    \* Math.Max(1, ...)
    /\ HeartbeatInterval \in Nat /\ LongestCycle \in Nat /\ MaxFaults \in Nat

VARIABLES
    pc,       \* where the loop is
    left,     \* ticks left of the cycle or of the delay
    beat,     \* the age of _lastHeartbeatUtc
    row,      \* the row of CollectorHeartbeats
    dbUp,     \* the database answers
    faults

loopVars == <<pc, left, beat, row, dbUp, faults>>

\* Ages beyond this one are not told apart.
FreshAge == HeartbeatInterval + PollInterval + LongestCycle
Never == FreshAge + 1
Ages == 0..Never

LoopInit ==
    /\ pc = "Check"
    /\ left = 0
    /\ beat = Never
    /\ row = [status |-> "None", age |-> Never]
    /\ dbUp = TRUE
    /\ faults = 0

Fault == faults < MaxFaults /\ faults' = faults + 1

-----------------------------------------------------------------------------
Due == beat >= HeartbeatInterval

\* WriteHeartbeatAsync: the row is saved, then the time is remembered.
Write(status) ==
    /\ dbUp
    /\ row' = [status |-> status, age |-> 0]
    /\ beat' = 0

\* Mutant: the row is written when there is none.
BeatOnce ==
    /\ pc = "Check" /\ Due
    /\ IF row.status = "None" THEN Write("Running") ELSE dbUp /\ UNCHANGED <<row, beat>>
    /\ pc' = "Begin"
    /\ UNCHANGED <<left, dbUp, faults>>

Beat ==
    /\ pc = "Check" /\ Due
    /\ Write("Running")
    /\ pc' = "Begin"
    /\ UNCHANGED <<left, dbUp, faults>>

NoBeat ==
    /\ pc = "Check" /\ ~Due
    /\ pc' = "Begin"
    /\ UNCHANGED <<left, beat, row, dbUp, faults>>

\* A cycle, or a turn, begins with a query.
BeginCycle ==
    /\ pc = "Begin" /\ dbUp
    /\ left' \in 0..LongestCycle
    /\ pc' = "Cycle"
    /\ UNCHANGED <<beat, row, dbUp, faults>>

\* Mutant: the delay is taken in another unit.
EndCycleInMinutes ==
    /\ pc = "Cycle" /\ left = 0
    /\ pc' = "Delay"
    /\ left' = 60 * PollInterval
    /\ UNCHANGED <<beat, row, dbUp, faults>>

EndCycle ==
    /\ pc = "Cycle" /\ left = 0
    /\ pc' = "Delay"
    /\ left' = PollInterval
    /\ UNCHANGED <<beat, row, dbUp, faults>>

\* A statement fails: the first ones with the database, any other one as well
\* by a conflict.
CycleFails ==
    /\ \/ ~dbUp /\ (pc = "Begin" \/ (pc = "Check" /\ Due)) /\ UNCHANGED faults
       \/ pc = "Cycle" /\ Fault
    /\ pc' = "Failed"
    /\ left' = 0
    /\ UNCHANGED <<beat, row, dbUp>>

\* Mutant: the error is written without being remembered as a heartbeat.
ErrorUnremembered ==
    /\ pc = "Failed" /\ dbUp
    /\ row' = [status |-> "Error", age |-> 0]
    /\ pc' = "Delay"
    /\ left' = PollInterval
    /\ UNCHANGED <<beat, dbUp, faults>>

ErrorBeat ==
    /\ pc = "Failed"
    /\ Write("Error")
    /\ pc' = "Delay"
    /\ left' = PollInterval
    /\ UNCHANGED <<dbUp, faults>>

\* Mutant: a failing heartbeat is caught as well.
ErrorBeatSurvives ==
    /\ pc = "Failed" /\ (~dbUp \/ Fault)
    /\ pc' = "Delay"
    /\ left' = PollInterval
    /\ faults' \in {faults, faults + 1}
    /\ UNCHANGED <<beat, row, dbUp>>

\* Outside the try: without the database, or with a message that is longer
\* than the column, the exception leaves the loop and the service ends.
ErrorBeatFails ==
    /\ pc = "Failed"
    /\ \/ ~dbUp /\ UNCHANGED faults
       \/ Fault
    /\ pc' = "Stopped"
    /\ UNCHANGED <<left, beat, row, dbUp>>

NextTurn ==
    /\ pc = "Delay" /\ left = 0
    /\ pc' = "Check"
    /\ UNCHANGED <<left, beat, row, dbUp, faults>>

\* The service is stopped or killed: the cancelled heartbeat is not written.
Stop ==
    /\ pc # "Stopped" /\ Fault
    /\ pc' = "Stopped"
    /\ left' = 0
    /\ UNCHANGED <<beat, row, dbUp>>

Restart ==
    /\ pc = "Stopped"
    /\ pc' = "Check"
    /\ beat' = Never
    /\ UNCHANGED <<left, row, dbUp, faults>>

-----------------------------------------------------------------------------
LoseDatabase == dbUp /\ Fault /\ dbUp' = FALSE /\ UNCHANGED <<pc, left, beat, row>>

DatabaseReturns == ~dbUp /\ dbUp' = TRUE /\ UNCHANGED <<pc, left, beat, row, faults>>

Older(age) == IF age < Never THEN age + 1 ELSE age

\* Time passes in cycles and delays and while the service is stopped.
Tick ==
    /\ pc = "Stopped" \/ left > 0
    /\ left' = IF left > 0 THEN left - 1 ELSE 0
    /\ beat' = Older(beat)
    /\ row' = [row EXCEPT !.age = Older(@)]
    /\ UNCHANGED <<pc, dbUp, faults>>

LoopStep ==
    \/ Beat \/ NoBeat \/ BeginCycle \/ EndCycle \/ CycleFails
    \/ ErrorBeat \/ ErrorBeatFails \/ NextTurn

LoopNext == LoopStep \/ Stop \/ Restart \/ LoseDatabase \/ DatabaseReturns \/ Tick

LoopSpec == LoopInit /\ [][LoopNext]_loopVars

(***************************************************************************)
(* The loop never waits without a timeout, time passes, the database comes *)
(* back and a service that ended is started again.                         *)
(***************************************************************************)
FairLoopSpec ==
    /\ LoopSpec
    /\ WF_loopVars(LoopStep) /\ WF_loopVars(Tick)
    /\ WF_loopVars(DatabaseReturns) /\ WF_loopVars(Restart)

-----------------------------------------------------------------------------
\* The variables keep their types; no wait is longer than the options allow.
LoopTypeOK ==
    /\ pc \in {"Check", "Begin", "Cycle", "Failed", "Delay", "Stopped"}
    /\ left \in 0..(PollInterval + LongestCycle)
    /\ beat \in Ages
    /\ row \in [status : {"None", "Running", "Error"}, age : Ages]
    /\ dbUp \in BOOLEAN
    /\ faults \in 0..MaxFaults

\* HOWTO_DEPLOY.md:745, made precise: the row of a service that is at work is
\* never older than the heartbeat interval, one delay and one cycle, through
\* all outages and errors: a service that cannot write it ends (Worker.cs:40
\* and 51 of the IIS collector, 36 and 42 of the SQL collector).
WorkingServiceIsFresh ==
    pc \in {"Begin", "Cycle", "Delay"} => row.status # "None" /\ row.age <= FreshAge

\* The row of an error is overwritten only when a heartbeat is due again or by
\* a service that was restarted: however short the cycles after it are, it can
\* be seen for the interval (Worker.cs:169 of the IIS collector).
ErrorsCanBeSeen ==
    [][row.status = "Error" /\ row'.status = "Running" =>
          row.age >= HeartbeatInterval \/ beat = Never]_loopVars

\* Heartbeats go on after every outage, error and stop.
HeartbeatsGoOn == []<>(row.age = 0)
=============================================================================
