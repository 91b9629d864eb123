--------------------------- MODULE ClusterHealth ---------------------------
(***************************************************************************)
(* Cluster with a stopwatch on one of its nodes, whichever it is: how long *)
(* a health record lags behind its node, while requests come and go.       *)
(***************************************************************************)
EXTENDS Cluster

VARIABLES
    watched,    \* the node the stopwatch is on
    since       \* ticks since it went up or down

timedVars == <<vars, watched, since>>

\* A change of a node is recorded within a full round and a probe more: the
\* probe that missed it, the others of the round, the sleep, the next round.
Detect == (Len(NodeSeq) + 1) * MaxCheck + Interval

Elapsed == IF loop'.spent > loop.spent THEN 1 ELSE 0
Watch ==
    /\ since' = IF up'[watched] # up[watched] THEN 0
                ELSE IF since > Detect THEN since ELSE since + Elapsed
    /\ UNCHANGED watched

TimedInit == Init /\ watched \in Nodes /\ since = 0

TimedSpec ==
    /\ TimedInit
    /\ [][Next /\ Watch]_timedVars
    /\ Fairness

\* As long as nothing fails, the record of a node tells the truth about it
\* once its state has lasted a round and a probe, and no record lapses
\* meanwhile (health_check_loop, the 90 s TTL of update_node_health).
Detected ==
    faults = 0 /\ since > Detect =>
        health[watched] = IF up[watched] THEN "healthy" ELSE "degraded"
=============================================================================
