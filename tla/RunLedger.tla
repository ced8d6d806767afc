------------------------------ MODULE RunLedger ------------------------------
(***************************************************************************)
(* What the collectors promise of a collection run, without workers,       *)
(* statements or failures: the sockets of a run pile up while it is being  *)
(* collected, stay as they are while it waits and is worked on (as often   *)
(* as need be), and are disposed of in one step together with the          *)
(* publication of its inventory.  A finished run never changes again.      *)
(***************************************************************************)
CONSTANTS Runs, Items

VARIABLES phase,      \* where the run stands
          pending,    \* its sockets that are still to be matched
          published   \* its sockets in the inventory

vars == <<phase, pending, published>>

Init ==
    /\ phase = [r \in Runs |-> "Absent"]
    /\ pending = [r \in Runs |-> {}]
    /\ published = [r \in Runs |-> {}]

Begin(r) ==
    /\ phase[r] = "Absent"
    /\ phase' = [phase EXCEPT ![r] = "Collecting"]
    /\ UNCHANGED <<pending, published>>

Stage(r) ==
    /\ phase[r] = "Collecting"
    /\ \E S \in SUBSET Items : pending' = [pending EXCEPT ![r] = @ \union S]
    /\ UNCHANGED <<phase, published>>

\* A run nothing was collected for has failed; any other one is queued.
HandOver(r) ==
    /\ phase[r] = "Collecting"
    /\ \/ phase' = [phase EXCEPT ![r] = "Queued"]
       \/ pending[r] = {} /\ phase' = [phase EXCEPT ![r] = "Failed"]
    /\ UNCHANGED <<pending, published>>

Take(r) ==
    /\ phase[r] = "Queued"
    /\ phase' = [phase EXCEPT ![r] = "Processing"]
    /\ UNCHANGED <<pending, published>>

\* All the runs whose worker may be gone are put back at once.
PutBack ==
    /\ \E R \in SUBSET {r \in Runs : phase[r] = "Processing"} :
        phase' = [r \in Runs |-> IF r \in R THEN "Queued" ELSE phase[r]]
    /\ UNCHANGED <<pending, published>>

\* Sockets of endpoints that failed are kept, all others leave with the run.
Finish(r) ==
    /\ phase[r] = "Processing"
    /\ \E kept \in SUBSET pending[r], found \in SUBSET pending[r] :
        /\ phase' = [phase EXCEPT ![r] = IF kept = {} THEN "Completed" ELSE "Failed"]
        /\ pending' = [pending EXCEPT ![r] = kept]
        /\ published' = [published EXCEPT ![r] = found]

\* A snapshot that is too old is never matched.
Expire(r) ==
    /\ phase[r] = "Processing"
    /\ pending[r] # {}
    /\ phase' = [phase EXCEPT ![r] = "Expired"]
    /\ UNCHANGED <<pending, published>>

Next ==
    \/ \E r \in Runs : \/ Begin(r) \/ Stage(r) \/ HandOver(r) \/ Take(r)
                       \/ Finish(r) \/ Expire(r)
    \/ PutBack

Spec == Init /\ [][Next]_vars
=============================================================================
