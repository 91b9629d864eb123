------------------------------ MODULE Cluster ------------------------------
(***************************************************************************)
(* The Ollama pool: the health loop (cluster.py) probes each node in turn  *)
(* and records its status and telemetry in Redis; the scheduler            *)
(* (scheduler.py) picks the node of a request from those records; the      *)
(* inference endpoints count the request on its node's telemetry hash      *)
(* while it runs.  All of them are coroutines of one event loop, so what   *)
(* lies between two awaits is one step.                                    *)
(*                                                                         *)
(* Both hashes of a node carry a TTL that only the health loop sets.  Time *)
(* is in ticks (15 s in the configurations); a TTL of 0 stands for a key   *)
(* that is absent or has none.  The vLLM pool is empty in the repository's *)
(* deployment and get_adapter never routes to it.                          *)
(***************************************************************************)
EXTENDS Integers, Sequences, FiniteSets

CONSTANTS
    Nodes,      \* node URLs of OLLAMA_NODES
    NodeSeq,    \* the order they are listed in
    Requests,   \* slots of concurrent inference requests
    Providers,  \* what clients write in "provider"
    MaxModels,  \* models a node can have loaded at once
    KeyTTL,     \* 90 s
    Interval,   \* HEALTH_CHECK_INTERVAL, 30 s
    MaxCheck,   \* longest probe of a node
    MaxFaults   \* bound: Redis errors, crashes, streams that never start

ASSUME ClusterAssumption ==
    /\ IsFiniteSet(Nodes) /\ IsFiniteSet(Requests)
    /\ NodeSeq \in Seq(Nodes) /\ Len(NodeSeq) > 0 /\ "none" \notin Nodes
    /\ \A n \in Nodes : \E i \in DOMAIN NodeSeq : NodeSeq[i] = n
    /\ MaxModels \in Nat /\ MaxFaults \in Nat
    /\ KeyTTL \in Nat \ {0} /\ Interval \in Nat \ {0} /\ MaxCheck \in Nat \ {0}

VARIABLES
    up,         \* does the node answer /api/tags?
    health,     \* status in health:provider:ollama:{node}
    healthTtl,  \* TTL of that key
    active,     \* active_requests in node_telemetry:ollama:{node}
    activeTtl,  \* TTL of that key
    leaked,     \* counts since the last record that nobody will take back
    at,         \* the node each request runs on
    counted,    \* is it counted there?
    loop,       \* the health loop
    faults

vars == <<up, health, healthTtl, active, activeTtl, leaked, at, counted,
          loop, faults>>
redis == <<health, healthTtl, active, activeTtl>>
requests == <<at, counted>>

Nobody == "none"
Statuses == {"none", "healthy", "degraded", "down"}
Started(pos) == [pc |-> "ping", pos |-> pos, saw |-> FALSE, spent |-> 0]
Probed == NodeSeq[loop.pos]

Running(n) == {r \in Requests : at[r] = n}
Counted(n) == {r \in Running(n) : counted[r]}

Init ==
    /\ up \in [Nodes -> BOOLEAN]
    /\ health = [n \in Nodes |-> "none"] /\ healthTtl = [n \in Nodes |-> 0]
    /\ active = [n \in Nodes |-> 0] /\ activeTtl = [n \in Nodes |-> 0]
    /\ leaked = [n \in Nodes |-> 0]
    /\ at = [r \in Requests |-> Nobody]
    /\ counted = [r \in Requests |-> FALSE]
    /\ loop = Started(1)
    /\ faults = 0

Fault == faults < MaxFaults /\ faults' = faults + 1

-----------------------------------------------------------------------------
(* Requests *)

Eligible ==
    LET With(s) == {n \in Nodes : health[n] = s}
    IN  IF With("healthy") # {} THEN With("healthy") ELSE With("degraded")

\* Ties are broken by ttft_ms and tokens_per_sec, which are left open.
Picked(n) ==
    IF Len(NodeSeq) = 1 \/ Eligible = {}
    THEN n = NodeSeq[1]
    ELSE n \in Eligible /\ \A m \in Eligible : active[n] <= active[m]

\* get_adapter always picks from the Ollama pool, but the request is counted
\* on the hash of the provider the client named: any other is never read.
Place(r, n) ==
    /\ loop.pc # "stopped" /\ at[r] = Nobody
    /\ at' = [at EXCEPT ![r] = n]
    /\ \E p \in Providers : counted' = [counted EXCEPT ![r] = p = "ollama"]
    /\ active' = [active EXCEPT ![n] = IF counted'[r] THEN @ + 1 ELSE @]
    /\ UNCHANGED <<up, health, healthTtl, activeTtl, leaked, loop>>

Dispatch(r) == \E n \in Nodes : Picked(n) /\ Place(r, n) /\ UNCHANGED faults

\* Redis fails while the scheduler reads: get_adapter falls back to
\* OLLAMA_BASE_URL, here the first node.
DispatchBlind(r) == Place(r, NodeSeq[1]) /\ Fault

Leave(r) ==
    /\ at' = [at EXCEPT ![r] = Nobody]
    /\ counted' = [counted EXCEPT ![r] = FALSE]
    /\ UNCHANGED <<up, health, healthTtl, loop>>

\* Mutant of Finish: the decrement is not in a finally clause, and an answer
\* that raises skips it.
FinishUncounted(r) ==
    /\ at[r] # Nobody
    /\ active' \in {active, [active EXCEPT ![at[r]] = IF counted[r] /\ @ > 0 THEN @ - 1 ELSE @]}
    /\ Leave(r) /\ UNCHANGED <<activeTtl, leaked, faults>>

\* The answer or the error is there: decrement, unless the count is 0.
Finish(r) ==
    /\ at[r] # Nobody
    /\ active' = [active EXCEPT ![at[r]] = IF counted[r] /\ @ > 0 THEN @ - 1 ELSE @]
    /\ Leave(r) /\ UNCHANGED <<activeTtl, leaked, faults>>

\* The key lapses between HGET and HINCRBY, which creates it anew at -1.
FinishLapsed(r) ==
    /\ at[r] # Nobody /\ counted[r]
    /\ active[at[r]] > 0 /\ activeTtl[at[r]] = 1
    /\ active' = [active EXCEPT ![at[r]] = -1]
    /\ activeTtl' = [activeTtl EXCEPT ![at[r]] = 0]
    /\ leaked' = [leaked EXCEPT ![at[r]] = 0]
    /\ Leave(r) /\ UNCHANGED faults

\* A stream whose generator is never started, or whose decrement fails.
Abandon(r) ==
    /\ at[r] # Nobody /\ Fault
    /\ leaked' = [leaked EXCEPT ![at[r]] = IF counted[r] THEN @ + 1 ELSE @]
    /\ Leave(r) /\ UNCHANGED <<active, activeTtl>>

-----------------------------------------------------------------------------
(* The health loop *)

Move(l) == loop' = l /\ UNCHANGED <<up, requests>>

\* Mutant of NextProbe: the round returns after its first node.
NextProbeFirst == [Started(1) EXCEPT !.pc = "sleep"]

\* The loop over the pool's nodes, then sleep(interval).
NextProbe ==
    IF loop.pos < Len(NodeSeq) THEN Started(loop.pos + 1)
    ELSE [Started(1) EXCEPT !.pc = "sleep"]

Ping ==
    /\ loop.pc = "ping"
    /\ Move([loop EXCEPT !.pc = "record", !.saw = up[Probed]])
    /\ UNCHANGED <<redis, leaked, faults>>

\* Models /api/ps lists; none if the node is sick or that call fails.
Loaded == IF loop.saw THEN 0 .. MaxModels ELSE {0}

\* HSET and EXPIRE of the health hash, then of the telemetry hash: the first
\* k of the four commands.
Writes(k, status, count) ==
    /\ health' = IF k >= 1 THEN [health EXCEPT ![Probed] = status] ELSE health
    /\ healthTtl' = IF k >= 2 THEN [healthTtl EXCEPT ![Probed] = KeyTTL] ELSE healthTtl
    /\ active' = IF k >= 3 THEN [active EXCEPT ![Probed] = count] ELSE active
    /\ leaked' = IF k >= 3 THEN [leaked EXCEPT ![Probed] = 0] ELSE leaked
    /\ activeTtl' = IF k >= 4 THEN [activeTtl EXCEPT ![Probed] = KeyTTL] ELSE activeTtl

Seen == IF loop.saw THEN "healthy" ELSE "degraded"

\* Mutant of Record: only a change of status is written.
RecordChanges ==
    /\ loop.pc = "record"
    /\ \E m \in Loaded : Writes(IF health[Probed] = Seen THEN 0 ELSE 4, Seen, m)
    /\ Move(NextProbe) /\ UNCHANGED faults

Record ==
    /\ loop.pc = "record"
    /\ \E m \in Loaded : Writes(4, Seen, m)
    /\ Move(NextProbe) /\ UNCHANGED faults

\* sync_from_nodes raises inside the try: the healthy node is recorded down.
RegistryFails ==
    /\ loop.pc = "record" /\ loop.saw /\ Fault
    /\ Writes(4, "down", 0)
    /\ Move(NextProbe)

\* A Redis error while recording: the rest of the round is given up, and the
\* loop starts over after sleep(5).
RecordFails ==
    /\ loop.pc = "record" /\ Fault
    /\ \E k \in 0 .. 3, m \in Loaded : Writes(k, Seen, m)
    /\ Move([Started(1) EXCEPT !.pc = "retry"])

Wake ==
    /\ \/ loop.pc = "sleep" /\ loop.spent = Interval
       \/ loop.pc = "retry"
    /\ Move(Started(1))
    /\ UNCHANGED <<redis, leaked, faults>>

-----------------------------------------------------------------------------
(* The environment *)

NodeChanges(n) ==
    /\ up' = [up EXCEPT ![n] = ~ @]
    /\ UNCHANGED <<redis, leaked, requests, loop, faults>>

\* The process dies; Redis keeps its keys.
Crash ==
    /\ loop.pc # "stopped" /\ Fault
    /\ leaked' = [n \in Nodes |-> leaked[n] + Cardinality(Counted(n))]
    /\ at' = [r \in Requests |-> Nobody]
    /\ counted' = [r \in Requests |-> FALSE]
    /\ loop' = [Started(1) EXCEPT !.pc = "stopped"]
    /\ UNCHANGED <<up, redis>>

Restart ==
    /\ loop.pc = "stopped"
    /\ Move(Started(1)) /\ UNCHANGED <<redis, leaked, faults>>

Lapse(f, ttl, empty) == [n \in Nodes |-> IF ttl[n] = 1 THEN empty ELSE f[n]]
Elapse(ttl) == [n \in Nodes |-> IF ttl[n] = 0 THEN 0 ELSE ttl[n] - 1]

\* A probe takes at most MaxCheck ticks and a sleep exactly its length.
Tick ==
    /\ loop.pc \in {"ping", "record"} => loop.spent < MaxCheck
    /\ loop.pc = "sleep" => loop.spent < Interval
    /\ loop.pc = "retry" => loop.spent < 1
    /\ loop' = IF loop.pc = "stopped" THEN loop ELSE [loop EXCEPT !.spent = @ + 1]
    /\ health' = Lapse(health, healthTtl, "none")
    /\ active' = Lapse(active, activeTtl, 0)
    /\ leaked' = Lapse(leaked, activeTtl, 0)
    /\ healthTtl' = Elapse(healthTtl) /\ activeTtl' = Elapse(activeTtl)
    /\ UNCHANGED <<up, requests, faults>>

Next ==
    \/ \E r \in Requests :
          \/ Dispatch(r) \/ DispatchBlind(r)
          \/ Finish(r) \/ FinishLapsed(r) \/ Abandon(r)
    \/ Ping \/ Record \/ RegistryFails \/ RecordFails \/ Wake
    \/ \E n \in Nodes : NodeChanges(n)
    \/ Crash \/ Restart \/ Tick

Spec == Init /\ [][Next]_vars

\* The event loop runs the health task, time passes, and the container is
\* restarted ("restart: unless-stopped").
Fairness ==
    /\ WF_vars(Ping) /\ WF_vars(Record) /\ WF_vars(Wake) /\ WF_vars(Restart)
    /\ WF_vars(Tick)

-----------------------------------------------------------------------------
(* Properties *)

\* Every variable has its type, and only a request that runs is counted.
TypeOK ==
    /\ up \in [Nodes -> BOOLEAN]
    /\ health \in [Nodes -> Statuses]
    /\ healthTtl \in [Nodes -> 0 .. KeyTTL]
    /\ active \in [Nodes -> Int]
    /\ activeTtl \in [Nodes -> 0 .. KeyTTL]
    /\ leaked \in [Nodes -> Nat]
    /\ at \in [Requests -> Nodes \cup {Nobody}]
    /\ counted \in [Requests -> BOOLEAN]
    /\ \A r \in Requests : counted[r] => at[r] # Nobody
    /\ loop \in [pc : {"ping", "record", "sleep", "retry", "stopped"},
                 pos : DOMAIN NodeSeq, saw : BOOLEAN,
                 spent : 0 .. MaxCheck + Interval]
    /\ faults \in 0 .. MaxFaults

\* The count of a node (increment/decrement_active_requests, overwritten by
\* update_node_telemetry) exceeds the requests counted on it by at most the
\* models it can have loaded and the counts leaked since its last record:
\* leaks do not add up from one record to the next.
DriftBound ==
    \A n \in Nodes :
        active[n] <= Cardinality(Counted(n)) + leaked[n] + MaxModels

\* Below zero the count goes at most once, by a key that lapses inside
\* decrement_active_requests.
CountFloor == \A n \in Nodes : active[n] >= -1

\* So the count the scheduler sorts by is off by a bounded amount, whichever
\* way, however long the gateway runs.
CountBounds == DriftBound /\ CountFloor

\* A node that stays up is recorded healthy over and over, whatever failed
\* before: no Redis error ends the health loop.
RecoveryNoticed ==
    \A n \in Nodes : <>[] up[n] => []<> (health[n] = "healthy")

-----------------------------------------------------------------------------
(* Sentences of the repository that the code does not keep: README, section 3 *)

\* pick_best_node: "Return the URL of the healthiest and least-busy node for
\* the provider."
LeastBusy ==
    [][\A r \in Requests : \A n, m \in Nodes :
          ( /\ at[r] = Nobody /\ at'[r] = n
            /\ health[n] = "healthy" /\ health[m] = "healthy" )
          => Cardinality(Running(n)) <= Cardinality(Running(m))]_vars

\* "TTL: 90 seconds (expires if health check loop dies)".
LapsesOnlyIfLoopDies ==
    [][\A n \in Nodes :
          health[n] # "none" /\ health'[n] = "none" => loop.pc = "stopped"]_vars
=============================================================================
