---------------------------- MODULE PoolLifecycle ----------------------------
(***************************************************************************)
(* What the test connection pool promises, without callers, gate and       *)
(* exceptions: connections are opened and closed together, and only while  *)
(* there is no workload; a workload is one query on each connection that   *)
(* is open when it is started, and it is over when it has been cancelled   *)
(* and the last of its queries has ended.                                  *)
(***************************************************************************)
CONSTANTS Connections, Queries   \* a query is named by its connection

VARIABLES open,       \* the connections that can be used
          running,    \* the queries under way
          workload    \* whether there is a workload, or one that is being stopped

vars == <<open, running, workload>>

Init == open = {} /\ running = {} /\ workload = "Off"

\* No connection is left behind that is still open.
Fill ==
    /\ workload = "Off" /\ open = {}
    /\ open' = Connections
    /\ UNCHANGED <<running, workload>>

Drain ==
    /\ workload = "Off"
    /\ open' = {}
    /\ UNCHANGED <<running, workload>>

Launch ==
    /\ workload = "Off" /\ workload' = "On"
    /\ running' = Queries \intersect open
    /\ UNCHANGED open

Cancel ==
    /\ workload = "On" /\ workload' = "Stopping"
    /\ UNCHANGED <<open, running>>

QueryEnds(q) ==
    /\ workload = "Stopping" /\ q \in running
    /\ running' = running \ {q}
    /\ UNCHANGED <<open, workload>>

Stopped ==
    /\ workload = "Stopping" /\ running = {}
    /\ workload' = "Off"
    /\ UNCHANGED <<open, running>>

\* The database drops a connection, and the query that runs on it fails.
Lose(k) ==
    /\ k \in open
    /\ open' = open \ {k}
    /\ running' = running \ {k}
    /\ UNCHANGED workload

Next ==
    \/ Fill \/ Drain \/ Launch \/ Cancel \/ Stopped
    \/ \E q \in Queries : QueryEnds(q)
    \/ \E k \in Connections : Lose(k)

Spec == Init /\ [][Next]_vars
=============================================================================
