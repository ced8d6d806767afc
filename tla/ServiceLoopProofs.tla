-------------------------- MODULE ServiceLoopProofs --------------------------
(***************************************************************************)
(* What holds of the loop of a collector service for all intervals and any *)
(* number of faults.                                                       *)
(***************************************************************************)
EXTENDS ServiceLoop, TLAPS

USE LoopAssumption DEF FreshAge, Never, Ages

\* The loop remembers when it wrote its row, and how much of the time that may
\* pass before it looks again has been used up.
LoopInv ==
    /\ LoopTypeOK
    /\ beat # Never => row.status # "None" /\ row.age = beat
    /\ pc \notin {"Cycle", "Delay"} => left = 0
    /\ pc = "Begin" => beat <= HeartbeatInterval
    /\ pc = "Cycle" => beat + left <= HeartbeatInterval + LongestCycle
    /\ pc = "Delay" => beat + left <= FreshAge

LEMMA LoopStart == LoopInit => LoopInv
  BY DEF LoopInit, LoopInv, LoopTypeOK

LEMMA SumBounded ==
  ASSUME NEW a \in Nat, NEW b \in Nat, NEW c \in Nat, NEW d \in Nat, a <= c, b <= d
  PROVE  a + b <= c + d
  OBVIOUS

LEMMA FaultBounded == ASSUME LoopInv, Fault PROVE faults' \in 0..MaxFaults
  BY DEF LoopInv, LoopTypeOK, Fault

\* A row that has just been written.
LEMMA WriteFacts ==
  ASSUME NEW status, Write(status)
  PROVE  row'.status = status /\ row'.age = 0 /\ beat' = 0
  BY DEF Write

LEMMA StepKeeps == ASSUME LoopInv, LoopStep PROVE LoopInv'
<1> USE DEF LoopInv, LoopTypeOK
<1>1. CASE Beat
  <2>1. row' = [status |-> "Running", age |-> 0] /\ beat' = 0
    BY <1>1 DEF Beat, Write
  <2> QED
    BY <1>1, <2>1 DEF Beat
<1>2. CASE NoBeat
  BY <1>2 DEF NoBeat, Due
<1>3. CASE BeginCycle
  <2>1. left' \in 0..LongestCycle /\ UNCHANGED <<beat, row, dbUp, faults>> /\ pc' = "Cycle"
    BY <1>3 DEF BeginCycle
  <2>2. beat <= HeartbeatInterval
    BY <1>3 DEF BeginCycle
  <2>3. left' \in 0..(PollInterval + LongestCycle)
    BY <2>1
  <2>4. beat' + left' <= HeartbeatInterval + LongestCycle
    <3>1. left' \in Nat /\ left' <= LongestCycle
      BY <2>1
    <3>2. beat' \in Nat /\ beat' <= HeartbeatInterval
      BY <2>1, <2>2
    <3> HIDE DEF LoopInv, LoopTypeOK
    <3> QED
      BY <3>1, <3>2, SumBounded
  <2>5. LoopTypeOK'
    <3>1. row' \in [status : {"None", "Running", "Error"}, age : Ages]
      BY <2>1
    <3>2. beat' \in Ages /\ dbUp' \in BOOLEAN /\ faults' \in 0..MaxFaults
      BY <2>1
    <3> QED
      BY <2>1, <2>3, <3>1, <3>2
  <2> QED
    BY <2>1, <2>4, <2>5
<1>4. CASE EndCycle
  BY <1>4 DEF EndCycle
<1>5. CASE CycleFails
  <2>1. faults' \in 0..MaxFaults
    BY <1>5, FaultBounded DEF CycleFails
  <2> QED
    BY <1>5, <2>1 DEF CycleFails
<1>6. CASE ErrorBeat
  <2>1. row' = [status |-> "Error", age |-> 0] /\ beat' = 0
    BY <1>6 DEF ErrorBeat, Write
  <2> QED
    BY <1>6, <2>1 DEF ErrorBeat
<1>7. CASE ErrorBeatFails
  <2>1. faults' \in 0..MaxFaults
    BY <1>7, FaultBounded DEF ErrorBeatFails
  <2> QED
    BY <1>7, <2>1 DEF ErrorBeatFails
<1>8. CASE NextTurn
  BY <1>8 DEF NextTurn
<1> QED
  BY <1>1, <1>2, <1>3, <1>4, <1>5, <1>6, <1>7, <1>8 DEF LoopStep

\* Time uses up what is left of a cycle or a delay while the row grows older.
LEMMA TickKeeps == ASSUME LoopInv, Tick PROVE LoopInv'
<1> USE DEF LoopInv, LoopTypeOK
<1>1. row' = [row EXCEPT !.age = Older(row.age)] /\ UNCHANGED <<pc, dbUp, faults>>
  BY DEF Tick
<1>2. row'.status = row.status /\ row'.age = Older(row.age)
  BY <1>1
<1>3. beat' = Older(beat) /\ left' = IF left > 0 THEN left - 1 ELSE 0
  BY DEF Tick
<1>4. row' \in [status : {"None", "Running", "Error"}, age : Ages]
  BY <1>1 DEF Older
<1>5. pc = "Stopped" \/ left > 0
  BY DEF Tick
<1>6. beat' \in Ages /\ left' \in 0..(PollInterval + LongestCycle)
  BY <1>3 DEF Older
<1>7. CASE pc = "Stopped"
  BY <1>1, <1>2, <1>3, <1>4, <1>6, <1>7 DEF Older
<1>8. CASE pc \in {"Cycle", "Delay"} /\ left > 0
  <2>1. left' = left - 1 /\ beat' = beat + 1
    BY <1>3, <1>8 DEF Older
  <2>2. beat' + left' = beat + left
    BY <2>1
  <2>3. beat' # Never => row'.status # "None" /\ row'.age = beat'
    <3>1. beat < Never
      BY <1>8
    <3> QED
      BY <1>2, <1>3, <3>1 DEF Older
  <2> QED
    BY <1>1, <1>4, <1>6, <1>8, <2>2, <2>3
<1> QED
  BY <1>5, <1>7, <1>8

LEMMA OutsideKeeps ==
  ASSUME LoopInv, Stop \/ Restart \/ LoseDatabase \/ DatabaseReturns
  PROVE  LoopInv'
<1> USE DEF LoopInv, LoopTypeOK
<1>1. CASE Stop
  BY <1>1, FaultBounded DEF Stop
<1>2. CASE Restart
  BY <1>2 DEF Restart
<1>3. CASE LoseDatabase
  BY <1>3, FaultBounded DEF LoseDatabase
<1>4. CASE DatabaseReturns
  BY <1>4 DEF DatabaseReturns
<1> QED
  BY <1>1, <1>2, <1>3, <1>4

LEMMA LoopAlways == LoopSpec => []LoopInv
<1>1. LoopInv /\ [LoopNext]_loopVars => LoopInv'
  <2> SUFFICES ASSUME LoopInv, [LoopNext]_loopVars PROVE LoopInv'
    OBVIOUS
  <2>1. CASE UNCHANGED loopVars
    BY <2>1 DEF loopVars, LoopInv, LoopTypeOK
  <2>2. CASE LoopNext
    BY <2>2, StepKeeps, TickKeeps, OutsideKeeps DEF LoopNext
  <2> QED
    BY <2>1, <2>2
<1> QED
  BY <1>1, LoopStart, PTL DEF LoopSpec

\* The loop keeps its types, whatever the options are.
THEOREM LoopTypeCorrect == LoopSpec => []LoopTypeOK
<1>1. LoopInv => LoopTypeOK
  BY DEF LoopInv
<1> QED
  BY <1>1, LoopAlways, PTL

\* For all intervals and through any number of outages and errors, a service at
\* work has a row that is no older than an interval, a delay and a cycle.
THEOREM WorkingServicesAreFresh == LoopSpec => []WorkingServiceIsFresh
<1>1. LoopInv => WorkingServiceIsFresh
  BY DEF LoopInv, LoopTypeOK, WorkingServiceIsFresh
<1> QED
  BY <1>1, LoopAlways, PTL

\* An error stays in the row for the heartbeat interval unless the service was
\* restarted.
THEOREM ErrorsStay == LoopSpec => ErrorsCanBeSeen
<1>1. ASSUME LoopInv, [LoopNext]_loopVars, row.status = "Error", row'.status = "Running"
      PROVE  row.age >= HeartbeatInterval \/ beat = Never
  <2>1. Beat
    BY <1>1
    DEF LoopNext, LoopStep, NoBeat, BeginCycle, EndCycle, CycleFails, ErrorBeat, Write,
        ErrorBeatFails, NextTurn, Stop, Restart, LoseDatabase, DatabaseReturns, Tick,
        loopVars, LoopInv, LoopTypeOK
  <2> QED
    BY <1>1, <2>1 DEF Beat, Due, LoopInv, LoopTypeOK
<1>2. LoopInv /\ [LoopNext]_loopVars =>
        [row.status = "Error" /\ row'.status = "Running" =>
          row.age >= HeartbeatInterval \/ beat = Never]_loopVars
  BY <1>1
<1> QED
  BY <1>2, LoopAlways, PTL DEF LoopSpec, ErrorsCanBeSeen
=============================================================================
