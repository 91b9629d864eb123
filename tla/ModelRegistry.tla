--------------------------- MODULE ModelRegistry ---------------------------
(***************************************************************************)
(* The model registry (model_registry.py): a Redis hash per model with the *)
(* nodes that serve it.  The health loop lists a node's models, benchmarks *)
(* the node, and then registers each model: it reads the model's nodes and *)
(* writes them back with its own.  A request has the name its client wrote *)
(* resolved against all hashes, and is sent to a node the scheduler picked *)
(* by load, whatever models it has.                                        *)
(*                                                                         *)
(* Loop and handlers are coroutines of one event loop: a sync and a        *)
(* resolution, which await nothing, never overlap.  The admin flush is a   *)
(* thread, and gets between any two of their Redis commands.               *)
(*                                                                         *)
(* Names are compared in lower case and models that differ in case only    *)
(* share a hash: a name stands for all its spellings.  A model's profile   *)
(* is a function of its name; no code removes a hash or reads its status.  *)
(***************************************************************************)
EXTENDS Integers, Sequences, FiniteSets

CONSTANTS
    NodeSeq,    \* node URLs of OLLAMA_NODES, as listed
    Models,     \* what nodes can have pulled
    Names,      \* what clients write, the models' own names among them
    Tagged,     \* models whose name is this name and a tag: "llama3", "llama3:8b"
    Containing, \* models whose name contains this name
    Clients,    \* one request of each at a time
    MaxFaults   \* bound: flushes, Redis errors, crashes

ASSUME RegistryAssumption ==
    /\ Len(NodeSeq) \in Nat \ {0} /\ MaxFaults \in Nat
    /\ Models \subseteq Names
    /\ Tagged \in [Names -> SUBSET Models] /\ Containing \in [Names -> SUBSET Models]

Nodes == {NodeSeq[i] : i \in 1 .. Len(NodeSeq)}

VARIABLES
    serves,     \* what a node lists at /api/tags; nothing while it is down
    entry,      \* the nodes of model_registry:{model}; none: there is no such key
    synced,     \* the nodes a sync has registered there since the last flush
    loop,       \* the health loop
    asked,      \* the request of each client
    steady,     \* has the named model been registered and everywhere since the request came?
    faults

registry == <<serves, entry, synced, loop, asked, steady, faults>>

Nobody == [m \in Models |-> {}]
Registered == {m \in Models : entry[m] # {}}
Started(pos) == [pc |-> "probe", pos |-> pos, todo |-> {}, model |-> "none", read |-> {}]
Probed == NodeSeq[loop.pos]

RegistryInit ==
    /\ serves \in [Nodes -> SUBSET Models]
    /\ entry = Nobody /\ synced = Nobody
    /\ loop = Started(1)
    /\ asked = [r \in Clients |-> [pc |-> "idle"]]
    /\ steady = [r \in Clients |-> FALSE]
    /\ faults = 0

Fault == faults < MaxFaults /\ faults' = faults + 1

\* Who runs between two awaits keeps the event loop to itself.
Syncing == loop.pc \in {"sync", "write"}
Resolving == \E r \in Clients : asked[r].pc = "fetch"

-----------------------------------------------------------------------------
(* The health loop: _check_node and sync_from_nodes *)

NextProbe == Started(IF loop.pos < Len(NodeSeq) THEN loop.pos + 1 ELSE 1)

Move(l) == loop' = l /\ UNCHANGED <<serves, asked>>

\* GET /api/tags; a node that does not answer has nothing to register.
Probe ==
    /\ loop.pc = "probe" /\ ~ Resolving
    /\ Move([loop EXCEPT !.pc = "bench", !.todo = serves[Probed]])
    /\ UNCHANGED <<entry, synced, faults>>

\* The benchmark and /api/ps are over; the sync runs on without an await.
Benchmarked ==
    /\ loop.pc = "bench" /\ ~ Resolving
    /\ Move([loop EXCEPT !.pc = "sync"])
    /\ UNCHANGED <<entry, synced, faults>>

\* Mutant of SyncRead: what the registry has of a model is not looked up.
SyncReadNothing ==
    /\ loop.pc = "sync"
    /\ \E m \in loop.todo :
         Move([loop EXCEPT !.pc = "write", !.todo = @ \ {m}, !.model = m, !.read = {}])
    /\ UNCHANGED <<entry, synced, faults>>

\* Mutant of SyncRead: a model that is already registered is passed over.
SyncReadKnown ==
    /\ loop.pc = "sync"
    /\ \E m \in loop.todo :
         Move([loop EXCEPT !.pc = IF entry[m] = {} THEN "write" ELSE "sync", !.todo = @ \ {m},
                           !.model = m, !.read = entry[m]])
    /\ UNCHANGED <<entry, synced, faults>>

\* get_model: the nodes registered so far.
SyncRead ==
    /\ loop.pc = "sync"
    /\ \E m \in loop.todo :
         Move([loop EXCEPT !.pc = "write", !.todo = @ \ {m},
                           !.model = m, !.read = entry[m]])
    /\ UNCHANGED <<entry, synced, faults>>

\* register_model: HSET with the node appended, unless it is listed.
SyncWrite ==
    /\ loop.pc = "write"
    /\ entry' = [entry EXCEPT ![loop.model] = loop.read \cup {Probed}]
    /\ synced' = [synced EXCEPT ![loop.model] = @ \cup {Probed}]
    /\ Move([loop EXCEPT !.pc = "sync", !.model = "none", !.read = {}])
    /\ UNCHANGED faults

SyncDone ==
    /\ loop.pc = "sync" /\ loop.todo = {}
    /\ Move(NextProbe)
    /\ UNCHANGED <<entry, synced, faults>>

\* A Redis error: _check_node records the node as down and the round goes on,
\* unless the record fails as well: then the next round starts over.
SyncFails ==
    /\ Syncing /\ Fault
    /\ Move(NextProbe) \/ Move(Started(1))
    /\ UNCHANGED <<entry, synced>>

HealthLoop == Probe \/ Benchmarked \/ SyncRead \/ SyncWrite \/ SyncDone

-----------------------------------------------------------------------------
(* Requests: resolve_model_name, then the model call *)

Becomes(r, state) ==
    /\ asked' = [asked EXCEPT ![r] = state]
    /\ UNCHANGED <<serves, entry, synced, loop>>

\* list_models: SCAN, then HGETALL of one key after the other.
Scan(r) ==
    /\ asked[r].pc = "idle" /\ ~ Syncing /\ ~ Resolving
    /\ \E name \in Names :
         Becomes(r, [pc |-> "fetch", name |-> name, left |-> Registered, listed |-> {}])
    /\ UNCHANGED faults

Fetch(r) ==
    /\ asked[r].pc = "fetch"
    /\ \E m \in asked[r].left :
         Becomes(r, [asked[r] EXCEPT !.left = @ \ {m},
                                   !.listed = IF entry[m] = {} THEN @ ELSE @ \cup {m}])
    /\ UNCHANGED faults

\* Mutant of Candidates: the first hash that contains the name wins.
CandidatesFirst(name, listed) ==
    IF listed \cap Containing[name] # {} THEN listed \cap Containing[name] ELSE {name}

\* An exact match, else a tag of it, else a model that contains it, else the
\* name itself.  Within a class SCAN's order decides.
Candidates(name, listed) ==
    CASE name \in listed                     -> {name}
      [] OTHER ->
           IF listed \cap Tagged[name] # {} THEN listed \cap Tagged[name]
           ELSE IF listed \cap Containing[name] # {} THEN listed \cap Containing[name]
           ELSE {name}

Match(r) ==
    /\ asked[r].pc = "fetch" /\ asked[r].left = {}
    /\ \E m \in Candidates(asked[r].name, asked[r].listed) :
         Becomes(r, [pc |-> "call", name |-> asked[r].name, model |-> m])
    /\ UNCHANGED faults

\* The post reaches the node the scheduler picked: 404 if it lacks the model.
Call(r) ==
    /\ asked[r].pc = "call" /\ ~ Syncing /\ ~ Resolving
    /\ \E n \in Nodes :
         Becomes(r, [asked[r] EXCEPT !.pc = IF @ = "call" /\ asked[r].model \in serves[n]
                                          THEN "answered" ELSE "missing"])
    /\ UNCHANGED faults

Depart(r) ==
    /\ asked[r].pc \in {"answered", "missing"}
    /\ Becomes(r, [pc |-> "idle"])
    /\ UNCHANGED faults

-----------------------------------------------------------------------------
(* The environment *)

\* A model is pulled or removed, a node goes down or comes back.
NodeChanges(n) ==
    /\ \E S \in SUBSET Models : S # serves[n] /\ serves' = [serves EXCEPT ![n] = S]
    /\ UNCHANGED <<entry, synced, loop, asked, faults>>

\* DELETE /admin/redis/flush, by a thread.
Flush ==
    /\ Fault
    /\ entry' = Nobody /\ synced' = Nobody
    /\ UNCHANGED <<serves, loop, asked>>

\* The process dies and is started again; Redis keeps its keys.
Crash ==
    /\ Fault
    /\ loop' = Started(1)
    /\ asked' = [r \in Clients |-> [pc |-> "idle"]]
    /\ UNCHANGED <<serves, entry, synced>>

Everywhere(m) == m \in Registered /\ \A n \in Nodes : m \in serves[n]

Watch ==
    steady' = [r \in Clients |->
                  /\ asked'[r].pc # "idle"
                  /\ asked[r].pc = "idle" \/ steady[r]
                  /\ \E m \in Models : m = asked'[r].name /\ Everywhere(m) /\ Everywhere(m)']

RegistryNext ==
    /\ \/ HealthLoop \/ SyncFails
       \/ \E r \in Clients : Scan(r) \/ Fetch(r) \/ Match(r) \/ Call(r) \/ Depart(r)
       \/ \E n \in Nodes : NodeChanges(n)
       \/ Flush \/ Crash
    /\ Watch

\* asyncio runs ready coroutines in turn: the loop is not passed over forever,
\* and a resolution that has begun goes on.
RegistryFairness ==
    /\ SF_registry(HealthLoop /\ Watch)
    /\ \A r \in Clients : WF_registry((Fetch(r) \/ Match(r)) /\ Watch)

RegistrySpec == RegistryInit /\ [][RegistryNext]_registry /\ RegistryFairness

-----------------------------------------------------------------------------
(* Properties *)

\* Every variable has its type.
RegistryTypeOK ==
    /\ serves \in [Nodes -> SUBSET Models]
    /\ entry \in [Models -> SUBSET Nodes] /\ synced \in [Models -> SUBSET Nodes]
    /\ loop.pc \in {"probe", "bench", "sync", "write"}
    /\ loop.pos \in 1 .. Len(NodeSeq) /\ loop.todo \subseteq Models
    /\ loop.pc = "write" => loop.model \in Models
    /\ loop.read \subseteq Nodes
    /\ DOMAIN asked = Clients
    /\ \A r \in Clients :
         /\ asked[r].pc \in {"idle", "fetch", "call", "answered", "missing"}
         /\ asked[r].pc # "idle" => asked[r].name \in Names
    /\ steady \in [Clients -> BOOLEAN]
    /\ faults \in 0 .. MaxFaults

\* sync_from_nodes loses no node that was registered since the last flush, and
\* a flush that lands between its read and its write brings back the nodes of
\* one model at most.
ListsKept ==
    /\ \A m \in Models : synced[m] \subseteq entry[m]
    /\ \E x \in Models : \A m \in Models \ {x} : entry[m] = synced[m]

\* A client that names a model exactly, while it is registered and every node
\* has it, gets that model, however many other names contain it.
NamedIsServed ==
    \A r \in Clients : steady[r] =>
        asked[r].pc # "missing" /\ (asked[r].pc = "answered" => asked[r].model = asked[r].name)

\* A node that keeps serving a model ends up among the model's nodes for good,
\* whatever was flushed, failed or crashed before.
Relisted ==
    \A i \in 1 .. Len(NodeSeq), m \in Models :
        <>[](m \in serves[NodeSeq[i]]) => <>[](NodeSeq[i] \in entry[m])

-----------------------------------------------------------------------------
(* Sentences of the repository that the code does not keep: README, section 3 *)

\* model_registry.py:131: "the exact registered model name currently active".
ActiveOnly ==
    [][\A r \in Clients : asked[r].pc = "fetch" /\ asked'[r].pc = "call" /\ asked'[r].model \in Registered
         => \E n \in Nodes : asked'[r].model \in serves[n]]_registry

\* model_registry.py:20: models are resolved to "route requests accordingly".
RoutedAccordingly ==
    [][\A r \in Clients : asked[r].pc = "call" /\ asked'[r].pc = "missing"
         => \A n \in Nodes : asked[r].model \notin serves[n]]_registry

\* model_registry.py:153: substrings are for names that match nothing better.
NamedOrMissing ==
    [][\A r \in Clients :
         /\ asked[r].pc = "fetch" /\ asked'[r].pc = "call"
         /\ \A n \in Nodes : asked[r].name \in serves[n]
         => asked'[r].model = asked[r].name]_registry
=============================================================================
