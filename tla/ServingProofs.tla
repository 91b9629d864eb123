--------------------------- MODULE ServingProofs ---------------------------
(***************************************************************************)
(* Proofs about how a request is served: which node its model is on        *)
(* (ModelRegistry) and what its call of an adapter comes to (Inference).   *)
(*                                                                         *)
(* Registry: two invariants are not inductive alone.  That lists are kept  *)
(* needs to know what a sync has read when it writes (ReadFresh), and that *)
(* a named model is served needs to know where a resolution has it at each *)
(* of its steps (Named).                                                   *)
(*                                                                         *)
(* Calls: an inductive invariant per request, by the four things that hold *)
(* of it: what it has done is a prefix of its path (Ordered), where its    *)
(* adapter call is (Result), which fallbacks it has tried (Legs) and how   *)
(* many posts and tokens are left (Attempts).                              *)
(***************************************************************************)
EXTENDS ModelRegistry, Inference, TLAPS

-----------------------------------------------------------------------------
(* The model registry *)

LoopType == [pc : {"probe", "bench", "sync", "write"}, pos : 1 .. Len(NodeSeq),
             todo : SUBSET Models, model : Models \cup {"none"}, read : SUBSET Nodes]

\* RegistryTypeOK with the loop's record spelt out.
Typed ==
    /\ RegistryTypeOK
    /\ loop \in LoopType

\* The node being probed is a node.
LEMMA ProbedIsNode ==
    ASSUME Typed
    PROVE  Probed \in Nodes
BY DEF Typed, LoopType, Probed, Nodes

\* A probe can start at any position.
LEMMA StartedType ==
    ASSUME NEW i \in 1 .. Len(NodeSeq)
    PROVE  Started(i) \in LoopType
BY DEF Started, LoopType

\* The next probe starts at a position of the list.
LEMMA NextProbeType ==
    ASSUME Typed
    PROVE  NextProbe \in LoopType /\ Started(1) \in LoopType
<1>1. Len(NodeSeq) \in Nat \ {0}
  BY RegistryAssumption DEF RegistryAssumption
<1>2. loop.pos \in 1 .. Len(NodeSeq)
  BY DEF Typed, LoopType
<1>3. (IF loop.pos < Len(NodeSeq) THEN loop.pos + 1 ELSE 1) \in 1 .. Len(NodeSeq)
  BY <1>1, <1>2
<1>4. 1 \in 1 .. Len(NodeSeq)
  BY <1>1
<1> QED BY <1>3, <1>4, StartedType DEF NextProbe

\* A state of a request that is not idle carries a name.
RequestType(state) ==
    /\ state.pc \in {"idle", "fetch", "call", "answered", "missing"}
    /\ state.pc # "idle" => state.name \in Names

\* Changing one request to a well-typed state keeps the types.
LEMMA BecomesType ==
    ASSUME Typed, NEW r \in Clients, NEW state, RequestType(state), Becomes(r, state)
    PROVE  DOMAIN asked' = Clients /\ \A q \in Clients : RequestType(asked'[q])
BY DEF Typed, RegistryTypeOK, Becomes, RequestType

\* Every step keeps the types.
LEMMA TypeStep ==
    Typed /\ [RegistryNext]_registry => Typed'
<1> SUFFICES ASSUME Typed, [RegistryNext]_registry PROVE Typed'
  OBVIOUS
<1> DEFINE Reqs == DOMAIN asked' = Clients /\ \A q \in Clients : RequestType(asked'[q])
           Lists == /\ entry' \in [Models -> SUBSET Nodes]
                    /\ synced' \in [Models -> SUBSET Nodes]
           Served == serves' \in [Nodes -> SUBSET Models]
<1>1. /\ serves \in [Nodes -> SUBSET Models] /\ loop \in LoopType
      /\ entry \in [Models -> SUBSET Nodes] /\ synced \in [Models -> SUBSET Nodes]
      /\ DOMAIN asked = Clients /\ (\A q \in Clients : RequestType(asked[q]))
      /\ faults \in 0 .. MaxFaults /\ MaxFaults \in Nat
      /\ steady \in [Clients -> BOOLEAN]
      /\ loop.pc = "write" => loop.model \in Models
  BY RegistryAssumption DEF Typed, RegistryTypeOK, RequestType, RegistryAssumption
<1>2. Probed \in Nodes /\ NextProbe \in LoopType /\ Started(1) \in LoopType
  BY ProbedIsNode, NextProbeType
<1>3. steady' \in [Clients -> BOOLEAN]
  BY <1>1 DEF Watch, RegistryNext, registry
<1>4. faults' \in 0 .. MaxFaults
  <2>1. faults' = faults \/ Fault
    BY DEF RegistryNext, registry, HealthLoop, Probe, Benchmarked, SyncRead, SyncWrite,
         SyncDone, SyncFails,
           Scan, Fetch, Match, Call, Depart, NodeChanges, Flush, Crash
  <2> QED BY <1>1, <2>1 DEF Fault
<1>5. ASSUME Served, Lists, loop' \in LoopType, Reqs,
             loop'.pc = "write" => loop'.model \in Models
      PROVE  Typed'
  <2>1. \A l \in LoopType : l.pc \in {"probe", "bench", "sync", "write"} /\ l.pos \in 1 .. Len(NodeSeq)
                            /\ l.todo \subseteq Models /\ l.read \subseteq Nodes
    BY DEF LoopType
  <2> QED BY <1>3, <1>4, <1>5, <2>1 DEF Typed, RegistryTypeOK, RequestType
<1>6. ASSUME UNCHANGED <<serves, asked>>, Lists, loop' \in LoopType,
             loop'.pc = "write" => loop'.model \in Models
      PROVE  Typed'
  BY <1>1, <1>5, <1>6
<1>7. CASE Probe \/ Benchmarked
  <2>1. loop' \in LoopType /\ loop'.pc # "write"
    BY <1>1, <1>2, <1>7, ProbedIsNode DEF Probe, Benchmarked, Move, LoopType
  <2> QED BY <1>1, <1>6, <1>7, <2>1 DEF Probe, Benchmarked, Move
<1>8. CASE SyncRead
  <2>1. PICK m \in loop.todo : Move([loop EXCEPT !.pc = "write", !.todo = @ \ {m},
                                                 !.model = m, !.read = entry[m]])
    BY <1>8 DEF SyncRead
  <2>2. m \in Models
    BY <1>1 DEF LoopType
  <2>3. loop' \in LoopType /\ loop'.model = m
    BY <1>1, <2>1, <2>2 DEF Move, LoopType
  <2> QED BY <1>1, <1>6, <1>8, <2>1, <2>2, <2>3 DEF SyncRead, Move
<1>9. CASE SyncWrite
  <2>1. loop.model \in Models /\ loop.read \subseteq Nodes
    BY <1>1, <1>9 DEF SyncWrite, LoopType
  <2>2. loop' \in LoopType /\ loop'.pc = "sync"
    BY <1>1, <1>9 DEF SyncWrite, Move, LoopType
  <2>3. Lists
    BY <1>1, <1>2, <1>9, <2>1 DEF SyncWrite
  <2> QED BY <1>6, <1>9, <2>2, <2>3 DEF SyncWrite, Move
<1>10. CASE SyncDone \/ SyncFails
  <2>1. loop' \in {NextProbe, Started(1)} /\ UNCHANGED <<serves, asked, entry, synced>>
    BY <1>10 DEF SyncDone, SyncFails, Move
  <2>2. NextProbe.pc # "write" /\ Started(1).pc # "write"
    BY DEF NextProbe, Started
  <2> QED BY <1>1, <1>2, <1>6, <2>1, <2>2
<1>11. ASSUME UNCHANGED <<serves, entry, synced, loop>>, Reqs PROVE Typed'
  BY <1>1, <1>5, <1>11
<1>12. ASSUME NEW r \in Clients, NEW state, RequestType(state), Becomes(r, state) PROVE Typed'
  BY <1>11, <1>12, BecomesType DEF Becomes
<1>13. ASSUME NEW r \in Clients, Scan(r) \/ Fetch(r) \/ Match(r) \/ Call(r) \/ Depart(r)
       PROVE  Typed'
  <2>1. CASE Scan(r)
    <3>1. PICK name \in Names :
            Becomes(r, [pc |-> "fetch", name |-> name, left |-> Registered, listed |-> {}])
      BY <2>1 DEF Scan
    <3> QED BY <1>12, <3>1 DEF RequestType
  <2>2. CASE Fetch(r)
    <3>1. PICK m \in asked[r].left :
            Becomes(r, [asked[r] EXCEPT !.left = @ \ {m},
                                      !.listed = IF entry[m] = {} THEN @ ELSE @ \cup {m}])
      BY <2>2 DEF Fetch
    <3>2. RequestType([asked[r] EXCEPT !.left = @ \ {m},
                                     !.listed = IF entry[m] = {} THEN @ ELSE @ \cup {m}])
      BY <1>1 DEF RequestType
    <3> QED BY <1>12, <3>1, <3>2
  <2>3. CASE Match(r)
    <3>1. PICK m : Becomes(r, [pc |-> "call", name |-> asked[r].name, model |-> m])
      BY <2>3 DEF Match
    <3>2. asked[r].name \in Names
      BY <1>1, <2>3 DEF Match, RequestType
    <3> QED BY <1>12, <3>1, <3>2 DEF RequestType
  <2>4. CASE Call(r)
    <3>1. PICK c \in {"answered", "missing"} : Becomes(r, [asked[r] EXCEPT !.pc = c])
      BY <2>4 DEF Call
    <3>2. RequestType([asked[r] EXCEPT !.pc = c])
      BY <1>1, <2>4 DEF Call, RequestType
    <3> QED BY <1>12, <3>1, <3>2
  <2>5. CASE Depart(r)
    BY <1>12, <2>5 DEF Depart, RequestType
  <2> QED BY <1>13, <2>1, <2>2, <2>3, <2>4, <2>5
<1>14. ASSUME NEW n \in Nodes, NodeChanges(n) PROVE Typed'
  <2>1. Served
    BY <1>1, <1>14 DEF NodeChanges
  <2> QED BY <1>1, <1>5, <1>14, <2>1 DEF NodeChanges
<1>15. CASE Flush
  BY <1>1, <1>6, <1>15 DEF Flush, Nobody
<1>16. CASE Crash
  <2>1. Reqs
    BY <1>16 DEF Crash, RequestType
  <2>2. Started(1).pc # "write"
    BY DEF Started
  <2> QED BY <1>1, <1>2, <1>5, <1>16, <2>1, <2>2 DEF Crash
<1>17. CASE UNCHANGED registry
  BY <1>1, <1>6, <1>17 DEF registry
<1> QED BY <1>7, <1>8, <1>9, <1>10, <1>13, <1>14, <1>15, <1>16, <1>17 DEF RegistryNext,
     HealthLoop

\* The initial states are well typed.
LEMMA TypeInit ==
    RegistryInit => Typed
<1> SUFFICES ASSUME RegistryInit PROVE Typed
  OBVIOUS
<1>1. Len(NodeSeq) \in Nat \ {0} /\ MaxFaults \in Nat
  BY RegistryAssumption DEF RegistryAssumption
<1>2. Started(1) \in LoopType /\ Started(1).pc = "probe"
  <2>1. 1 \in 1 .. Len(NodeSeq)
    BY <1>1
  <2> QED BY <2>1, StartedType DEF Started
<1>3. \A l \in LoopType : l.pc \in {"probe", "bench", "sync", "write"} /\ l.pos \in 1 .. Len(NodeSeq)
                          /\ l.todo \subseteq Models /\ l.read \subseteq Nodes
  BY DEF LoopType
<1> QED BY <1>1, <1>2, <1>3 DEF RegistryInit, Typed, RegistryTypeOK, Nobody

\* The types of ModelRegistry's variables, for every pool, set of models and
\* relation between names.
THEOREM TypeCorrect == RegistrySpec => []RegistryTypeOK
<1>1. RegistrySpec => []Typed
  BY TypeInit, TypeStep, PTL DEF RegistrySpec
<1>2. Typed => RegistryTypeOK
  BY DEF Typed
<1> QED BY <1>1, <1>2, PTL

-----------------------------------------------------------------------------
(* Lists are kept *)

\* What a sync holds when it writes is what the registry has, or a flush has
\* come in between and nothing has been registered since.
ReadFresh ==
    loop.pc = "write" =>
        \/ loop.read = entry[loop.model]
        \/ entry = Nobody /\ synced = Nobody

ListsInv == ListsKept /\ ReadFresh

\* Every step keeps the lists.
LEMMA ListsStep ==
    Typed /\ ListsInv /\ [RegistryNext]_registry => ListsInv'
<1> SUFFICES ASSUME Typed, ListsInv, [RegistryNext]_registry PROVE ListsInv'
  OBVIOUS
<1>1. /\ entry \in [Models -> SUBSET Nodes] /\ synced \in [Models -> SUBSET Nodes]
      /\ loop \in LoopType
      /\ loop.pc = "write" => loop.model \in Models
  BY DEF Typed, RegistryTypeOK
<1>2. ASSUME UNCHANGED <<entry, synced>>, loop'.pc = "write" => UNCHANGED loop PROVE ListsInv'
  BY <1>2 DEF ListsInv, ListsKept, ReadFresh, Nobody
<1>3. CASE SyncRead
  <2>1. PICK m \in loop.todo : Move([loop EXCEPT !.pc = "write", !.todo = @ \ {m},
                                                 !.model = m, !.read = entry[m]])
    BY <1>3 DEF SyncRead
  <2>2. loop'.model = m /\ loop'.read = entry[m] /\ UNCHANGED <<entry, synced>>
    BY <1>1, <1>3, <2>1 DEF SyncRead, Move, LoopType
  <2> QED BY <2>2 DEF ListsInv, ListsKept, ReadFresh
<1>4. CASE SyncWrite
  <2> DEFINE w == loop.model
  <2>1. /\ w \in Models /\ loop.pc = "write"
        /\ entry' = [entry EXCEPT ![w] = loop.read \cup {Probed}]
        /\ synced' = [synced EXCEPT ![w] = synced[w] \cup {Probed}]
    BY <1>1, <1>4 DEF SyncWrite
  <2>2. loop'.pc = "sync"
    BY <1>1, <1>4 DEF SyncWrite, Move, LoopType
  <2>3. /\ \A m \in Models \ {w} : entry'[m] = entry[m] /\ synced'[m] = synced[m]
        /\ entry'[w] = loop.read \cup {Probed} /\ synced'[w] = synced[w] \cup {Probed}
    BY <1>1, <2>1
  <2>4. CASE loop.read = entry[w]
    <3>1. PICK x \in Models : \A m \in Models \ {x} : entry[m] = synced[m]
      BY DEF ListsInv, ListsKept
    <3>2. \A m \in Models : synced'[m] \subseteq entry'[m]
      BY <2>3, <2>4 DEF ListsInv, ListsKept
    <3>3. \A m \in Models \ {x} : entry'[m] = synced'[m]
      BY <2>3, <2>4, <3>1
    <3> QED BY <2>2, <3>2, <3>3 DEF ListsInv, ListsKept, ReadFresh
  <2>5. CASE entry = Nobody /\ synced = Nobody
    <3>1. \A m \in Models : entry[m] = {} /\ synced[m] = {}
      BY <2>5 DEF Nobody
    <3>2. \A m \in Models \ {w} : entry'[m] = synced'[m]
      BY <2>3, <3>1
    <3>3. \A m \in Models : synced'[m] \subseteq entry'[m]
      BY <2>3, <3>1
    <3> QED BY <2>1, <2>2, <3>2, <3>3 DEF ListsInv, ListsKept, ReadFresh
  <2> QED BY <2>1, <2>4, <2>5 DEF ListsInv, ReadFresh
<1>5. CASE Flush
  <2>1. entry' = Nobody /\ synced' = Nobody
    BY <1>5 DEF Flush
  <2>2. \A m \in Models : entry'[m] = {} /\ synced'[m] = {}
    BY <2>1 DEF Nobody
  <2>3. Nobody' = Nobody
    BY DEF Nobody
  <2>4. \E x \in Models : TRUE
    BY DEF ListsInv, ListsKept
  <2> QED BY <2>1, <2>2, <2>3, <2>4 DEF ListsInv, ListsKept, ReadFresh
<1>6. CASE Probe \/ Benchmarked \/ SyncDone \/ SyncFails \/ Crash
  <2>1. UNCHANGED <<entry, synced>>
    BY <1>6 DEF Probe, Benchmarked, SyncDone, SyncFails, Crash
  <2>2. CASE Probe \/ Benchmarked
    <3>1. loop'.pc # "write"
      BY <1>1, <2>2 DEF Probe, Benchmarked, Move, LoopType
    <3> QED BY <1>2, <2>1, <3>1
  <2>3. CASE SyncDone \/ SyncFails \/ Crash
    <3>1. \E i : loop' = Started(i)
      BY <2>3 DEF SyncDone, SyncFails, Crash, Move, NextProbe
    <3>2. loop'.pc # "write"
      BY <3>1 DEF Started
    <3> QED BY <1>2, <2>1, <3>2
  <2> QED BY <1>6, <2>2, <2>3
<1>7. CASE \/ \E r \in Clients : Scan(r) \/ Fetch(r) \/ Match(r) \/ Call(r) \/ Depart(r)
           \/ \E n \in Nodes : NodeChanges(n)
           \/ UNCHANGED registry
  <2>1. UNCHANGED <<entry, synced, loop>>
    BY <1>7 DEF Scan, Fetch, Match, Call, Depart, Becomes, NodeChanges, registry
  <2> QED BY <1>2, <2>1
<1> QED BY <1>3, <1>4, <1>5, <1>6, <1>7 DEF RegistryNext, HealthLoop

\* ListsKept for any number of nodes, models and flushes, as long as there is
\* a model at all.
THEOREM ListsCorrect == Models # {} /\ RegistrySpec => []ListsKept
<1>1. Models # {} /\ RegistryInit => ListsInv
  BY DEF RegistryInit, ListsInv, ListsKept, ReadFresh, Nobody, Started
<1>2. ListsInv => ListsKept
  BY DEF ListsInv
<1>3. RegistrySpec => []Typed
  BY TypeInit, TypeStep, PTL DEF RegistrySpec
<1> QED BY <1>1, <1>2, <1>3, ListsStep, PTL DEF RegistrySpec

-----------------------------------------------------------------------------
(* A named model is served *)

\* Where a steady request has the model it names: among the keys still to be
\* fetched or already listed, then resolved, then answered.
Named ==
    \A r \in Clients : steady[r] =>
        /\ asked[r].pc = "fetch" => asked[r].name \in asked[r].left \cup asked[r].listed
        /\ asked[r].pc \in {"call", "answered"} => asked[r].model = asked[r].name
        /\ asked[r].pc # "missing"

\* Every step keeps a named model in its place.
LEMMA NamedStep ==
    Typed /\ Named /\ [RegistryNext]_registry => Named'
<1> SUFFICES ASSUME Typed, Named, [RegistryNext]_registry, NEW q \in Clients, steady'[q]
             PROVE  /\ asked'[q].pc = "fetch" => asked'[q].name \in asked'[q].left \cup asked'[q].listed
                    /\ asked'[q].pc \in {"call", "answered"} => asked'[q].model = asked'[q].name
                    /\ asked'[q].pc # "missing"
  BY DEF Named
<1> DEFINE Goal == /\ asked'[q].pc = "fetch" => asked'[q].name \in asked'[q].left \cup asked'[q].listed
                   /\ asked'[q].pc \in {"call", "answered"} => asked'[q].model = asked'[q].name
                   /\ asked'[q].pc # "missing"
<1>1. DOMAIN asked = Clients
  BY DEF Typed, RegistryTypeOK
<1>2. CASE UNCHANGED registry
  BY <1>2 DEF Named, registry
<1>3. CASE RegistryNext
  <2>1. /\ asked'[q].pc # "idle"
        /\ asked[q].pc = "idle" \/ steady[q]
        /\ \E m \in Models : m = asked'[q].name /\ Everywhere(m) /\ Everywhere(m)'
    BY <1>3 DEF RegistryNext, Watch
  <2>2. ASSUME asked'[q] = asked[q] PROVE Goal
    BY <2>1, <2>2 DEF Named
  <2>3. ASSUME NEW r \in Clients, NEW state, Becomes(r, state)
        PROVE  IF r = q THEN asked'[q] = state ELSE asked'[q] = asked[q]
    BY <1>1, <2>3 DEF Becomes
  <2>4. CASE Scan(q)
    <3>1. PICK name \in Names :
            Becomes(q, [pc |-> "fetch", name |-> name, left |-> Registered, listed |-> {}])
      BY <2>4 DEF Scan
    <3>2. asked'[q] = [pc |-> "fetch", name |-> name, left |-> Registered, listed |-> {}]
      BY <2>3, <3>1
    <3> QED BY <2>1, <3>2 DEF Everywhere
  <2>5. CASE Fetch(q)
    <3>1. PICK m \in asked[q].left :
            Becomes(q, [asked[q] EXCEPT !.left = @ \ {m},
                                      !.listed = IF entry[m] = {} THEN @ ELSE @ \cup {m}])
      BY <2>5 DEF Fetch
    <3>2. asked'[q] = [asked[q] EXCEPT !.left = @ \ {m},
                                   !.listed = IF entry[m] = {} THEN @ ELSE @ \cup {m}]
      BY <2>3, <3>1
    <3>3. asked[q].pc = "fetch" /\ steady[q]
      BY <2>1, <2>5 DEF Fetch
    <3>4. entry[asked'[q].name] # {}
      BY <2>1 DEF Everywhere, Registered
    <3> QED BY <3>2, <3>3, <3>4 DEF Named
  <2>6. CASE Match(q)
    <3>1. PICK m \in Candidates(asked[q].name, asked[q].listed) :
            Becomes(q, [pc |-> "call", name |-> asked[q].name, model |-> m])
      BY <2>6 DEF Match
    <3>2. asked'[q] = [pc |-> "call", name |-> asked[q].name, model |-> m]
      BY <2>3, <3>1
    <3>3. asked[q].name \in asked[q].listed
      BY <2>1, <2>6 DEF Match, Named
    <3>4. m = asked[q].name
      BY <3>1, <3>3 DEF Candidates
    <3> QED BY <3>2, <3>4
  <2>7. CASE Call(q)
    <3>1. PICK n \in Nodes :
            Becomes(q, [asked[q] EXCEPT !.pc = IF @ = "call" /\ asked[q].model \in serves[n]
                                             THEN "answered" ELSE "missing"])
      BY <2>7 DEF Call
    <3>2. asked[q].pc = "call" /\ steady[q] /\ asked[q].model = asked[q].name
      BY <2>1, <2>7 DEF Call, Named
    <3>3. asked'[q] = [asked[q] EXCEPT !.pc = IF @ = "call" /\ asked[q].model \in serves[n]
                                          THEN "answered" ELSE "missing"]
      BY <2>3, <3>1
    <3>4. asked'[q].name = asked[q].name /\ asked'[q].model = asked[q].model
      BY <3>3
    <3>5. asked[q].model \in serves[n]
      BY <2>1, <3>2, <3>4 DEF Everywhere
    <3>6. asked'[q].pc = "answered"
      BY <3>2, <3>3, <3>5
    <3> QED BY <3>2, <3>4, <3>6
  <2>8. CASE Depart(q)
    BY <2>1, <2>3, <2>8 DEF Depart
  <2>9. CASE \E r \in Clients \ {q} : Scan(r) \/ Fetch(r) \/ Match(r) \/ Call(r) \/ Depart(r)
    <3>1. PICK r \in Clients \ {q} : \E state : Becomes(r, state)
      BY <2>9 DEF Scan, Fetch, Match, Call, Depart
    <3> QED BY <2>2, <2>3, <3>1
  <2>10. CASE HealthLoop \/ SyncFails \/ (\E n \in Nodes : NodeChanges(n)) \/ Flush
    BY <2>2, <2>10 DEF HealthLoop, Probe, Benchmarked, SyncRead, SyncWrite, SyncDone, SyncFails,
                       Move, NodeChanges, Flush
  <2>11. CASE Crash
    BY <2>1, <2>11 DEF Crash
  <2> QED BY <1>3, <2>4, <2>5, <2>6, <2>7, <2>8, <2>9, <2>10, <2>11 DEF RegistryNext
<1> QED BY <1>2, <1>3

\* NamedIsServed whatever the names contain of one another, and whatever is
\* synced, flushed or restarted around the request.
THEOREM NamedCorrect == RegistrySpec => []NamedIsServed
<1>1. RegistryInit => Named
  BY DEF RegistryInit, Named
<1>2. Named => NamedIsServed
  BY DEF Named, NamedIsServed
<1>3. RegistrySpec => []Typed
  BY TypeInit, TypeStep, PTL DEF RegistrySpec
<1> QED BY <1>1, <1>2, <1>3, NamedStep, PTL DEF RegistrySpec

-----------------------------------------------------------------------------
(* Inference, over the same set of requests *)

Plain == {"chat", "openai", "direct", "failover"}

\* The effects of a request are a prefix of its path's, or the entry of a refusal.
Prefix(r) == {Work(Kind(r))[i] : i \in 1 .. req[r].step}

Ordered(r) ==
    /\ req[r].step <= Len(Work(Kind(r)))
    /\ req[r].step # 0 => req[r].pc \in {"work", "ended"}
    /\ \/ req[r].did = Prefix(r)
       \/ At(r, "ended") /\ req[r].step = 0 /\ Kind(r) = "chat" /\ req[r].did = {"refusal"}

\* Where the adapter call of a request is, by the request's kind and place.
Result(r) ==
    /\ Kind(r) = "none" <=> At(r, "idle")
    /\ Kind(r) = "legacy" => At(r, "ended")
    /\ Kind(r) \in Plain =>
         /\ call[r].api = "generate" /\ call[r].pc \in {"post", "ok", "failed"}
         /\ call[r].failed <=> call[r].pc = "failed"
         /\ call[r].failed => req[r].step = 0
    /\ Kind(r) \in Kinds \ Plain =>
         call[r].pc \notin {"post", "failed"} /\ call[r].api # "generate"
    /\ At(r, "idle") => call[r].pc = "idle" /\ call[r].api # "generate"
    /\ At(r, "work") => call[r].pc = "ok"

\* A failover has tried the primary and the chain up to the leg it is at.
Legs(r) ==
    /\ Kind(r) # "failover" => req[r].leg = 0
    /\ Kind(r) = "failover" =>
         /\ req[r].tried = {Primary} \cup {Fallbacks[i] : i \in 1 .. req[r].leg}
         /\ At(r, "ended") /\ call[r].failed => Ahead(req[r].leg) = {}

\* What Persistent says of one call.
Used(c) ==
    c.api = "generate" /\ c.met # {} =>
        IF c.met \subseteq Policy[c.provider].again
        THEN c.failed => c.posts = MaxRetries
        ELSE c.failed

\* A call that will post again has attempts left and met nothing fatal, and a
\* stream has sent no more than its tokens.
Attempts(r) ==
    /\ In(r, "post") => /\ call[r].provider \in Providers
                        /\ call[r].posts < Policy[call[r].provider].posts
                        /\ call[r].met \subseteq Policy[call[r].provider].again
    /\ In(r, "tokens") => call[r].sent <= MaxTokens
    /\ Used(call[r])

CallInv ==
    /\ TypeOK
    /\ \A r \in Requests : Ordered(r) /\ Result(r) /\ Legs(r) /\ Attempts(r)

Good(r) == Ordered(r) /\ Result(r) /\ Legs(r) /\ Attempts(r)

\* The paths, one by one.
LEMMA Paths ==
    /\ Work("chat") = <<"usage", "quota", "audit", "history", "reply">>
    /\ Work("stream") = <<"usage", "quota", "history", "audit", "reply">>
    /\ Work("openai") = <<"usage", "reply">>
    /\ Work("openai stream") = <<"reply", "usage">>
    /\ \A k : k \notin Endpoints => Work(k) = <<>>
<1>1. Work("chat") = <<"usage", "quota", "audit", "history", "reply">>
  BY DEF Work
<1>2. Work("stream") = <<"usage", "quota", "history", "audit", "reply">>
  BY DEF Work
<1>3. Work("openai") = <<"usage", "reply">>
  BY DEF Work
<1>4. Work("openai stream") = <<"reply", "usage">>
  BY DEF Work
<1>5. ASSUME NEW k, k \notin Endpoints PROVE Work(k) = <<>>
  BY <1>5 DEF Work, Endpoints
<1> QED BY <1>1, <1>2, <1>3, <1>4, <1>5

\* The length of a path, and that its entries are effects.
LEMMA WorkLen ==
    ASSUME NEW k
    PROVE  Work(k) \in Seq(Effects) /\ Len(Work(k)) \in 0 .. 5
<1>1. CASE k = "chat"
  <2>1. <<"usage", "quota", "audit", "history", "reply">> \in Seq(Effects)
    BY DEF Effects
  <2>2. Len(<<"usage", "quota", "audit", "history", "reply">>) = 5
    OBVIOUS
  <2>3. Work(k) = <<"usage", "quota", "audit", "history", "reply">>
    BY <1>1, Paths
  <2> QED BY <2>1, <2>2, <2>3
<1>2. CASE k = "stream"
  <2>1. <<"usage", "quota", "history", "audit", "reply">> \in Seq(Effects)
    BY DEF Effects
  <2>2. Len(<<"usage", "quota", "history", "audit", "reply">>) = 5
    OBVIOUS
  <2>3. Work(k) = <<"usage", "quota", "history", "audit", "reply">>
    BY <1>2, Paths
  <2> QED BY <2>1, <2>2, <2>3
<1>3. CASE k = "openai"
  <2>1. <<"usage", "reply">> \in Seq(Effects)
    BY DEF Effects
  <2>2. Len(<<"usage", "reply">>) = 2
    OBVIOUS
  <2>3. Work(k) = <<"usage", "reply">>
    BY <1>3, Paths
  <2> QED BY <2>1, <2>2, <2>3
<1>4. CASE k = "openai stream"
  <2>1. <<"reply", "usage">> \in Seq(Effects)
    BY DEF Effects
  <2>2. Len(<<"reply", "usage">>) = 2
    OBVIOUS
  <2>3. Work(k) = <<"reply", "usage">>
    BY <1>4, Paths
  <2> QED BY <2>1, <2>2, <2>3
<1>5. CASE k \notin Endpoints
  <2>1. Work(k) = <<>>
    BY <1>5, Paths
  <2> QED BY <2>1
<1> QED BY <1>1, <1>2, <1>3, <1>4, <1>5 DEF Endpoints

\* What a new call of an adapter starts with.
LEMMA OpenedType ==
    ASSUME NEW p \in Providers, NEW api \in {"generate", "stream"}
    PROVE  /\ Opened(p, api) \in CallType
           /\ Opened(p, api).api = api
           /\ Opened(p, api).pc = "post" => Opened(p, api).provider = p /\ Opened(p, api).posts = 0
           /\ Opened(p, api).pc = "tokens" => Opened(p, api).sent = 0
           /\ Opened(p, api).met = {}
           /\ api = "generate" =>
                /\ Opened(p, api).pc \in {"post", "ok", "failed"}
                /\ Opened(p, api).failed <=> Opened(p, api).pc = "failed"
           /\ api = "stream" => Opened(p, api).pc \notin {"post", "failed"}
<1>1. Without(p) \in {"works", "fails", "mocks"}
  BY DEF Without, Policy, Providers, Ollama, VLLM, Mistral, OpenAI, Gemini
<1>2. NoCall \in CallType /\ MaxTokens \in Nat /\ MaxRetries \in Nat \ {0}
  BY AdaptersAssumption DEF NoCall, CallType, AdaptersAssumption
<1>3. CASE Without(p) = "works"
  BY <1>2, <1>3 DEF Opened, NoCall, CallType
<1>4. CASE Without(p) = "fails"
  <2>1. CASE api = "generate"
    BY <1>2, <1>4, <2>1 DEF Opened, NoCall, CallType
  <2>2. CASE api = "stream"
    <3>1. 1 \in 0 .. MaxTokens + 1
      BY <1>2
    <3> QED BY <1>2, <1>4, <2>2, <3>1 DEF Opened, NoCall, CallType
  <2> QED BY <2>1, <2>2
<1>5. CASE Without(p) = "mocks"
  BY <1>2, <1>5 DEF Opened, NoCall, CallType
<1> QED BY <1>1, <1>3, <1>4, <1>5

\* Policies: attempts are at most MaxRetries, and as many where a fault is tried again.
LEMMA PolicyPosts ==
    ASSUME NEW p \in Providers
    PROVE  /\ Policy[p].posts \in Nat \ {0} /\ Policy[p].posts <= MaxRetries
           /\ Policy[p].again # {} => Policy[p].posts = MaxRetries
           /\ Policy[p].again \subseteq Faults
<1>1. MaxRetries \in Nat \ {0}
  BY AdaptersAssumption DEF AdaptersAssumption
<1> QED BY <1>1 DEF Policy, Providers, Ollama, VLLM, Mistral, OpenAI, Gemini, Faults

LEMMA InitInv == ASSUME Init PROVE CallInv
<1>1. MaxTokens \in Nat /\ MaxRetries \in Nat \ {0} /\ Fallbacks \in Seq(Providers)
  BY AdaptersAssumption, InferenceAssumption DEF AdaptersAssumption, InferenceAssumption
<1>2. TypeOK
  BY <1>1 DEF Init, TypeOK, CallType, ReqType, NoCall
<1>3. ASSUME NEW r \in Requests PROVE Good(r)
  <2>1. /\ Kind(r) = "none" /\ req[r].pc = "idle" /\ req[r].step = 0 /\ req[r].did = {}
        /\ call[r].pc = "idle" /\ req[r].leg = 0 /\ call[r].met = {}
        /\ call[r].api = "none"
    BY DEF Init, NoCall, Kind
  <2>2. Prefix(r) = {}
    BY <2>1 DEF Prefix
  <2>3. Ordered(r)
    BY <2>1, <2>2, WorkLen DEF Ordered
  <2> QED BY <2>1, <2>3 DEF Good, Result, Legs, Attempts, At, In, Plain, Kinds, Used
<1> QED BY <1>2, <1>3 DEF CallInv, Good

\* A step of one request keeps the invariant if it keeps its own part of it.
LEMMA CallLocal ==
    ASSUME CallInv, NEW r \in Requests, TypeOK', Good(r)',
           \A s \in Requests \ {r} : req'[s] = req[s] /\ call'[s] = call[s]
    PROVE  CallInv'
<1> SUFFICES ASSUME NEW s \in Requests \ {r} PROVE Good(s)'
  BY DEF CallInv, Good
<1>1. Good(s) /\ req'[s] = req[s] /\ call'[s] = call[s]
  BY DEF CallInv, Good
<1>2. Ordered(s)'
  BY <1>1 DEF Good, Ordered, Prefix, Kind, At
<1>3. Result(s)'
  BY <1>1 DEF Good, Result, Kind, At
<1>4. Legs(s)'
  BY <1>1 DEF Good, Legs, Kind, At
<1>5. Attempts(s)'
  BY <1>1 DEF Good, Attempts, In
<1> QED BY <1>2, <1>3, <1>4, <1>5 DEF Good

\* The records of one request.
LEMMA Records ==
    ASSUME TypeOK, NEW r \in Requests
    PROVE  call[r] \in CallType /\ req[r] \in ReqType
BY DEF TypeOK

\* The shape of every step.
LEMMA CallStep ==
    ASSUME CallInv, NEW r \in Requests, NEW c \in CallType, NEW q \in ReqType,
           call' = [call EXCEPT ![r] = c], req' = [req EXCEPT ![r] = q], errors' \in Nat,
           Good(r)'
    PROVE  CallInv'
<1>1. TypeOK'
  BY DEF CallInv, TypeOK
<1>2. \A s \in Requests \ {r} : req'[s] = req[s] /\ call'[s] = call[s]
  BY DEF CallInv, TypeOK
<1> QED BY <1>1, <1>2, CallLocal

\* A request that starts a call, whatever its kind.
LEMMA Opening ==
    ASSUME CallInv, NEW r \in Requests, At(r, "idle"), UNCHANGED errors,
           NEW k \in Kinds \ {"legacy"}, NEW p \in Providers, NEW api \in {"generate", "stream"},
           NEW t \in SUBSET Providers,
           req' = [req EXCEPT ![r].kind = k, ![r].pc = "call", ![r].tried = t], Opens(r, p, api),
           k \in Plain <=> api = "generate", k = "failover" => t = {Primary}
    PROVE  CallInv'
<1> DEFINE c == Opened(p, api)
           q == [req[r] EXCEPT !.kind = k, !.pc = "call", !.tried = t]
<1>1. call[r] \in CallType /\ req[r] \in ReqType /\ errors \in Nat /\ TypeOK
  BY Records DEF CallInv, TypeOK
<1>2. c \in CallType /\ q \in ReqType
  BY <1>1, OpenedType DEF ReqType
<1>8. /\ c.api = api
      /\ c.pc = "post" => c.provider = p /\ c.posts = 0
      /\ c.pc = "tokens" => c.sent = 0 /\ 0 <= MaxTokens
      /\ c.met = {}
      /\ api = "generate" => c.pc \in {"post", "ok", "failed"} /\ (c.failed <=> c.pc = "failed")
      /\ api = "stream" => c.pc \notin {"post", "failed"}
  BY OpenedType, AdaptersAssumption DEF AdaptersAssumption
<1>9. req[r].leg = 0
  BY DEF CallInv, Result, Legs, Kind, At
<1>3. call' = [call EXCEPT ![r] = c] /\ req' = [req EXCEPT ![r] = q]
  BY DEF Opens
<1>4. call'[r] = c /\ req'[r] = q
  BY <1>1, <1>3 DEF TypeOK
<1>5. req[r].step = 0 /\ req[r].did = {}
  <2>1. Ordered(r) /\ req[r].pc = "idle"
    BY DEF CallInv, At
  <2>2. req[r].step = 0 /\ req[r].did = Prefix(r)
    BY <2>1 DEF Ordered, At
  <2> QED BY <2>2 DEF Prefix
<1> HIDE DEF c
<1>6. /\ Kind(r)' = k /\ req'[r].pc = "call" /\ req'[r].step = 0 /\ req'[r].did = {}
      /\ req'[r].leg = 0 /\ req'[r].tried = t
  <2>1. /\ q.kind = k /\ q.pc = "call" /\ q.step = 0 /\ q.did = {} /\ q.leg = 0 /\ q.tried = t
    BY <1>1, <1>5, <1>9 DEF ReqType
  <2> QED BY <1>4, <2>1 DEF Kind
<1> HIDE DEF q
<1>7. Good(r)'
  <2>1. Ordered(r)'
    <3>1. Prefix(r)' = {}
      BY <1>6 DEF Prefix
    <3>2. 0 <= Len(Work(k))
      BY WorkLen
    <3> QED BY <1>6, <3>1, <3>2 DEF Ordered
  <2>2. Result(r)'
    <3>1. (Kind(r) = "none" <=> At(r, "idle"))' /\ (Kind(r) = "legacy" => At(r, "ended"))'
      BY <1>6 DEF At, Kinds, Endpoints
    <3>2. CASE k \in Plain
      <4>1. /\ c.api = "generate" /\ c.pc \in {"post", "ok", "failed"}
            /\ c.failed <=> c.pc = "failed"
        BY <1>8, <3>2
      <4> QED BY <1>4, <1>6, <3>1, <3>2, <4>1 DEF Result, At
    <3>3. CASE k \notin Plain
      <4>1. c.pc \notin {"post", "failed"} /\ c.api # "generate"
        BY <1>8, <3>3
      <4>2. /\ Kind(r)' \notin Plain /\ call'[r].pc \notin {"post", "failed"}
            /\ call'[r].api # "generate" /\ req'[r].pc = "call"
        BY <1>4, <1>6, <3>3, <4>1
      <4> QED BY <3>1, <4>2 DEF Result, At
    <3> QED BY <3>2, <3>3
  <2>3. Legs(r)'
    <3>1. {Fallbacks[i] : i \in 1 .. req'[r].leg} = {}
      <4>1. req'[r].leg = 0
        BY <1>6
      <4>2. 1 .. 0 = {}
        OBVIOUS
      <4> QED BY <4>1, <4>2
    <3> QED BY <1>6, <3>1 DEF Legs, At
  <2>4. Attempts(r)'
    <3>1. Used(c)
      BY <1>8 DEF Used
    <3> QED BY <1>4, <1>8, <3>1, PolicyPosts DEF Attempts, In
  <2> QED BY <2>1, <2>2, <2>3, <2>4 DEF Good
<1> QED BY <1>1, <1>2, <1>3, <1>7, CallStep

LEMMA BeginInv == ASSUME CallInv, NEW r \in Requests, Begin(r) PROVE CallInv'
<1>1. PICK k \in Endpoints, p \in Providers :
        /\ Starts(r, k)
        /\ Opens(r, GetAdapter(p), IF k \in {"chat", "openai"} THEN "generate" ELSE "stream")
  BY DEF Begin
<1> DEFINE api == IF k \in {"chat", "openai"} THEN "generate" ELSE "stream"
<1>2. /\ req[r] \in ReqType /\ req \in [Requests -> ReqType]
  BY Records DEF CallInv, TypeOK
<1>3. req' = [req EXCEPT ![r].kind = k, ![r].pc = "call", ![r].tried = req[r].tried]
  BY <1>1, <1>2 DEF Starts, ReqType
<1>4. /\ k \in Kinds \ {"legacy"} /\ k # "failover"
      /\ api \in {"generate", "stream"} /\ (k \in Plain <=> api = "generate")
  BY DEF Kinds, Endpoints, Plain
<1>5. /\ GetAdapter(p) \in Providers /\ req[r].tried \in SUBSET Providers
      /\ At(r, "idle") /\ UNCHANGED errors /\ Opens(r, GetAdapter(p), api)
  BY <1>1, <1>2 DEF GetAdapter, Providers, ReqType, Begin
<1> HIDE DEF api
<1> QED BY <1>3, <1>4, <1>5, Opening

LEMMA UseInv == ASSUME CallInv, NEW r \in Requests, Use(r) PROVE CallInv'
<1>1. PICK p \in Providers, k \in {"direct", "direct stream"} :
        Starts(r, k) /\ Opens(r, p, IF k = "direct" THEN "generate" ELSE "stream")
  BY DEF Use
<1> DEFINE api == IF k = "direct" THEN "generate" ELSE "stream"
<1>2. /\ req[r] \in ReqType /\ req \in [Requests -> ReqType]
  BY Records DEF CallInv, TypeOK
<1>3. req' = [req EXCEPT ![r].kind = k, ![r].pc = "call", ![r].tried = req[r].tried]
  BY <1>1, <1>2 DEF Starts, ReqType
<1>4. /\ k \in Kinds \ {"legacy"} /\ k # "failover"
      /\ api \in {"generate", "stream"} /\ (k \in Plain <=> api = "generate")
  BY DEF Kinds, Endpoints, Plain
<1>5. /\ req[r].tried \in SUBSET Providers
      /\ At(r, "idle") /\ UNCHANGED errors /\ Opens(r, p, api)
  BY <1>1, <1>2 DEF ReqType, Use
<1> HIDE DEF api
<1> QED BY <1>3, <1>4, <1>5, Opening

LEMMA BenchmarkInv == ASSUME CallInv, NEW r \in Requests, Benchmark(r) PROVE CallInv'
<1>1. PICK p \in {"ollama", "vllm"} : Starts(r, "bench") /\ Opens(r, p, "stream")
  BY DEF Benchmark
<1>2. /\ req[r] \in ReqType /\ req \in [Requests -> ReqType]
  BY Records DEF CallInv, TypeOK
<1>3. req' = [req EXCEPT ![r].kind = "bench", ![r].pc = "call", ![r].tried = req[r].tried]
  BY <1>1, <1>2 DEF Starts, ReqType
<1>4. "bench" \in Kinds \ {"legacy"} /\ "bench" \notin Plain
  BY DEF Kinds, Endpoints, Plain
<1>5. /\ req[r].tried \in SUBSET Providers /\ p \in Providers
      /\ At(r, "idle") /\ UNCHANGED errors
  BY <1>1, <1>2 DEF ReqType, Benchmark, Providers
<1> QED BY <1>1, <1>3, <1>4, <1>5, Opening

LEMMA FailoverInv == ASSUME CallInv, NEW r \in Requests, Failover(r) PROVE CallInv'
<1>1. "failover" \in Kinds \ {"legacy"} /\ "failover" \in Plain
  BY DEF Kinds, Endpoints, Plain
<1>2. /\ {Primary} \in SUBSET Providers /\ GetAdapter(Primary) \in Providers
  BY InferenceAssumption DEF InferenceAssumption, GetAdapter, Providers
<1>3. /\ req' = [req EXCEPT ![r].kind = "failover", ![r].pc = "call", ![r].tried = {Primary}]
      /\ At(r, "idle") /\ UNCHANGED errors /\ Opens(r, GetAdapter(Primary), "generate")
  BY DEF Failover
<1> QED BY <1>1, <1>2, <1>3, Opening

LEMMA LegacyInv == ASSUME CallInv, NEW r \in Requests, Legacy(r) PROVE CallInv'
<1> DEFINE q == [req[r] EXCEPT !.kind = "legacy", !.pc = "ended", !.fault = TRUE]
<1>1. /\ call[r] \in CallType /\ req[r] \in ReqType /\ errors \in Nat
      /\ call \in [Requests -> CallType] /\ req \in [Requests -> ReqType]
  BY Records DEF CallInv, TypeOK
<1>2. /\ Ordered(r) /\ Result(r) /\ Legs(r) /\ Attempts(r) /\ req[r].pc = "idle"
  BY DEF CallInv, Legacy, At
<1>3. req[r].step = 0 /\ req[r].did = {} /\ req[r].leg = 0 /\ Kind(r) = "none"
  <2>1. req[r].step = 0 /\ req[r].did = Prefix(r)
    BY <1>2 DEF Ordered, At
  <2>2. Kind(r) = "none"
    BY <1>2 DEF Result, At
  <2> QED BY <1>2, <2>1, <2>2 DEF Prefix, Legs
<1>4. /\ req' = [req EXCEPT ![r] = q] /\ call' = [call EXCEPT ![r] = call[r]] /\ errors' = errors
      /\ q \in ReqType
  BY <1>1 DEF Legacy, ReqType, Kinds
<1>5. /\ Kind(r)' = "legacy" /\ req'[r].pc = "ended" /\ req'[r].step = 0 /\ req'[r].did = {}
      /\ req'[r].leg = 0 /\ call'[r] = call[r]
  BY <1>1, <1>3, <1>4 DEF ReqType, Kind
<1> HIDE DEF q
<1>6. Ordered(r)'
  <2>1. Prefix(r)' = {}
    BY <1>5 DEF Prefix
  <2>2. 0 <= Len(Work("legacy"))
    BY WorkLen
  <2> QED BY <1>5, <2>1, <2>2 DEF Ordered
<1>7. call[r].pc = "idle" /\ call[r].api # "generate" /\ Used(call[r])
  BY <1>2 DEF Result, At, Attempts
<1>8. Result(r)'
  BY <1>5, <1>7 DEF Result, At, Plain
<1>9. Good(r)'
  BY <1>5, <1>6, <1>7, <1>8 DEF Good, Legs, Attempts, In
<1> QED BY <1>1, <1>4, <1>9, CallStep

\* A step to which only the request's place, not its work, matters.
LEMMA Moving ==
    ASSUME CallInv, NEW r \in Requests, NEW c \in CallType, errors' \in Nat, NEW f \in BOOLEAN,
           NEW l \in {"work", "ended"}, req[r].pc \in {"call", "work"},
           req' = [req EXCEPT ![r].pc = l, ![r].fault = f], call' = [call EXCEPT ![r] = c],
           c.failed = call[r].failed /\ c.api = call[r].api /\ c.met = call[r].met,
           c.provider = call[r].provider /\ c.posts = call[r].posts,
           c.pc = call[r].pc \/ (Kind(r) \notin Plain /\ c.pc = "idle"),
           c.pc \notin {"post", "tokens"}, Kind(r) # "legacy",
           l = "work" => c.pc = "ok",
           l = "ended" /\ Kind(r) = "failover" /\ c.failed => Ahead(req[r].leg) = {}
    PROVE  CallInv'
<1> DEFINE q == [req[r] EXCEPT !.pc = l, !.fault = f]
<1>1. /\ call[r] \in CallType /\ req[r] \in ReqType
      /\ call \in [Requests -> CallType] /\ req \in [Requests -> ReqType]
  BY Records DEF CallInv, TypeOK
<1>2. /\ Ordered(r) /\ Result(r) /\ Legs(r) /\ Used(call[r])
  BY DEF CallInv, Attempts
<1>3. req' = [req EXCEPT ![r] = q] /\ q \in ReqType
  BY <1>1 DEF ReqType
<1>4. /\ Kind(r)' = Kind(r) /\ req'[r].pc = l /\ req'[r].step = req[r].step
      /\ req'[r].did = req[r].did /\ req'[r].leg = req[r].leg
      /\ req'[r].tried = req[r].tried /\ call'[r] = c
  BY <1>1, <1>3 DEF ReqType, Kind
<1> HIDE DEF q
<1>5. Ordered(r)'
  <2>1. Prefix(r)' = Prefix(r)
    BY <1>4 DEF Prefix
  <2> QED BY <1>2, <1>4, <2>1 DEF Ordered, At
<1>6. Result(r)'
  <2>1. Kind(r) # "none"
    BY <1>2 DEF Result, At
  <2>2. CASE Kind(r) \in Plain
    BY <1>2, <1>4, <2>1, <2>2 DEF Result, At
  <2>3. CASE Kind(r) \notin Plain
    <3>1. /\ Kind(r)' # "none" /\ Kind(r)' # "legacy" /\ Kind(r)' \notin Plain
          /\ req'[r].pc = l /\ l # "idle" /\ call'[r].pc = c.pc
      BY <1>4, <2>1, <2>3
    <3>2. Kind(r) \in Kinds => c.pc \notin {"post", "failed"} /\ c.api # "generate"
      BY <1>2, <2>3 DEF Result
    <3> QED BY <1>4, <3>1, <3>2 DEF Result, At
  <2> QED BY <2>2, <2>3
<1>7. Legs(r)'
  BY <1>2, <1>4 DEF Legs, At
<1>8. Attempts(r)'
  <2>1. Used(c)
    BY <1>2 DEF Used
  <2> QED BY <1>4, <2>1 DEF Attempts, In
<1>9. Good(r)'
  BY <1>5, <1>6, <1>7, <1>8 DEF Good
<1> QED BY <1>3, <1>9, CallStep

\* An unchanged fault is an update of it to itself.
LEMMA SameFault ==
    ASSUME TypeOK, NEW r \in Requests, NEW l, req' = [req EXCEPT ![r].pc = l]
    PROVE  /\ req[r].fault \in BOOLEAN
           /\ req' = [req EXCEPT ![r].pc = l, ![r].fault = req[r].fault]
BY Records DEF TypeOK, ReqType

LEMMA ReturnedInv == ASSUME CallInv, NEW r \in Requests, Returned(r) PROVE CallInv'
<1>1. TypeOK /\ Result(r) /\ call[r] \in CallType /\ errors' \in Nat
  BY Records DEF CallInv, Returned, TypeOK
<1>2. /\ req[r].pc = "call" /\ call[r].pc = "ok" /\ Kind(r) # "legacy"
      /\ req' = [req EXCEPT ![r].pc = "work"] /\ call' = [call EXCEPT ![r] = call[r]]
  BY <1>1 DEF Returned, At, In, Result, TypeOK
<1> QED BY <1>1, <1>2, SameFault, Moving

LEMMA HandBackInv == ASSUME CallInv, NEW r \in Requests, HandBack(r) PROVE CallInv'
<1>1. TypeOK /\ Result(r) /\ call[r] \in CallType /\ errors' \in Nat
  BY Records DEF CallInv, HandBack, TypeOK
<1>2. /\ req[r].pc = "call" /\ call[r].pc = "failed" /\ Kind(r) # "legacy"
      /\ req' = [req EXCEPT ![r].pc = "ended"] /\ call' = [call EXCEPT ![r] = call[r]]
      /\ Kind(r) = "failover" => Ahead(req[r].leg) = {}
  BY <1>1 DEF HandBack, At, In, Result, TypeOK
<1> QED BY <1>1, <1>2, SameFault, Moving

LEMMA DoneInv == ASSUME CallInv, NEW r \in Requests, Done(r) PROVE CallInv'
<1>1. TypeOK /\ Result(r) /\ call[r] \in CallType /\ errors' \in Nat
  BY Records DEF CallInv, Done, TypeOK
<1>2. /\ req[r].pc = "work" /\ call[r].pc = "ok" /\ Kind(r) # "legacy"
      /\ req' = [req EXCEPT ![r].pc = "ended"] /\ call' = [call EXCEPT ![r] = call[r]]
  BY <1>1 DEF Done, At, In, Result, TypeOK
<1>3. Kind(r) = "failover" => ~ call[r].failed
  BY <1>1, <1>2 DEF Result, Plain
<1> QED BY <1>1, <1>2, <1>3, SameFault, Moving

LEMMA RedisFailsInv == ASSUME CallInv, NEW r \in Requests, RedisFails(r) PROVE CallInv'
<1>1. TypeOK /\ Result(r) /\ call[r] \in CallType /\ errors' \in Nat
  BY Records DEF CallInv, RedisFails, TypeOK
<1>2. /\ req[r].pc = "work" /\ call[r].pc = "ok" /\ Kind(r) # "legacy"
      /\ req' = [req EXCEPT ![r].pc = "ended", ![r].fault = TRUE]
      /\ call' = [call EXCEPT ![r] = call[r]]
  BY <1>1 DEF RedisFails, At, In, Result, TypeOK
<1>3. Kind(r) = "failover" => ~ call[r].failed
  BY <1>1, <1>2 DEF Result, Plain
<1> QED BY <1>1, <1>2, <1>3, Moving

LEMMA LeaveInv == ASSUME CallInv, NEW r \in Requests, Leave(r) PROVE CallInv'
<1> DEFINE c == [call[r] EXCEPT !.pc = "idle"]
<1>1. TypeOK /\ Result(r) /\ call[r] \in CallType /\ errors' \in Nat
  BY Records DEF CallInv, Leave, TypeOK
<1>2. /\ req[r].pc \in {"call", "work"} /\ Kind(r) # "legacy" /\ Kind(r) \notin Plain
      /\ Kind(r) # "failover"
      /\ req' = [req EXCEPT ![r].pc = "ended"] /\ call' = [call EXCEPT ![r] = c]
  BY <1>1 DEF Leave, Awaits, Streamed, Plain, At, Result, TypeOK
<1>3. /\ c \in CallType /\ c.pc = "idle" /\ c.failed = call[r].failed /\ c.api = call[r].api
      /\ c.met = call[r].met /\ c.provider = call[r].provider /\ c.posts = call[r].posts
  BY <1>1 DEF CallType
<1> HIDE DEF c
<1> QED BY <1>1, <1>2, <1>3, SameFault, Moving

\* A step of the adapter call alone.
LEMMA Calling ==
    ASSUME CallInv, NEW r \in Requests, NEW c \in CallType, At(r, "call"),
           call' = [call EXCEPT ![r] = c], UNCHANGED <<req, errors>>, c.api = call[r].api,
           Kind(r) \in Plain => /\ c.pc \in {"post", "ok", "failed"}
                                /\ c.failed <=> c.pc = "failed",
           Kind(r) \notin Plain => c.pc \notin {"post", "failed"},
           c.pc = "post" => /\ c.provider \in Providers
                            /\ c.posts < Policy[c.provider].posts
                            /\ c.met \subseteq Policy[c.provider].again,
           c.pc = "tokens" => c.sent <= MaxTokens, Used(c)
    PROVE  CallInv'
<1>1. /\ call[r] \in CallType /\ req[r] \in ReqType /\ errors' \in Nat
      /\ call \in [Requests -> CallType] /\ req \in [Requests -> ReqType]
      /\ req' = [req EXCEPT ![r] = req[r]]
  BY Records DEF CallInv, TypeOK
<1>2. /\ Ordered(r) /\ Result(r) /\ Legs(r) /\ req[r].pc = "call"
  BY DEF CallInv, At
<1>3. req'[r] = req[r] /\ Kind(r)' = Kind(r) /\ call'[r] = c
  BY <1>1 DEF Kind
<1>4. Ordered(r)'
  <2>1. Prefix(r)' = Prefix(r)
    BY <1>3 DEF Prefix
  <2> QED BY <1>2, <1>3, <2>1 DEF Ordered, At
<1>5. req[r].step = 0
  BY <1>2 DEF Ordered
<1>6. Result(r)'
  <2>1. CASE Kind(r) \in Plain
    <3>1. /\ c.api = "generate" /\ c.pc \in {"post", "ok", "failed"}
          /\ c.failed <=> c.pc = "failed"
          /\ req'[r].step = 0 /\ req'[r].pc = "call"
      BY <1>2, <1>3, <1>5, <2>1 DEF Result
    <3>2. Kind(r)' = Kind(r) /\ Kind(r) \notin {"none", "legacy"} /\ Kind(r) \notin Kinds \ Plain
      BY <1>3, <2>1 DEF Plain
    <3> QED BY <1>3, <3>1, <3>2 DEF Result, At
  <2>2. CASE Kind(r) \notin Plain
    BY <1>2, <1>3, <2>2 DEF Result, At
  <2> QED BY <2>1, <2>2
<1>7. Legs(r)'
  BY <1>2, <1>3 DEF Legs, At
<1>8. Attempts(r)'
  BY <1>3 DEF Attempts, In
<1>9. Good(r)'
  BY <1>4, <1>6, <1>7, <1>8 DEF Good
<1> QED BY <1>1, <1>9, CallStep

\* What a retried fault leaves of a call, and that the others lose nothing.
LEMMA AdapterStepInv == ASSUME CallInv, NEW r \in Requests, AdapterStep(r) PROVE CallInv'
<1> DEFINE k == call[r]
<1>1. /\ k \in CallType /\ call \in [Requests -> CallType]
      /\ Result(r) /\ Attempts(r) /\ At(r, "call") /\ UNCHANGED <<req, errors>>
      /\ MaxTokens \in Nat /\ MaxRetries \in Nat \ {0}
  BY Records, AdaptersAssumption DEF CallInv, TypeOK, AdapterStep, AdaptersAssumption
<1>2. Kind(r) # "none" /\ Kind(r) \in Kinds \cup {"none"}
  BY <1>1, Records DEF Result, At, CallInv, ReqType, Kind
<1>3. CASE In(r, "post")
  <2>1. Kind(r) \in Plain /\ k.failed = FALSE /\ k.api = "generate"
    BY <1>1, <1>2, <1>3 DEF Result, In, CallType
  <2>2. /\ k.provider \in Providers /\ k.posts < Policy[k.provider].posts
        /\ Policy[k.provider].posts <= MaxRetries /\ Policy[k.provider].posts \in Nat
        /\ k.posts \in Nat /\ k.posts + 1 \in 0 .. MaxRetries
        /\ k.met \subseteq Policy[k.provider].again /\ k.met \in SUBSET Faults
        /\ Policy[k.provider].again # {} => Policy[k.provider].posts = MaxRetries
        /\ Policy[k.provider].again \subseteq Faults
    BY <1>1, <1>3, PolicyPosts DEF Attempts, CallType, In
  <2>3. ASSUME NEW c, c = [k EXCEPT !.pc = "ok", !.posts = @ + 1],
               call' = [call EXCEPT ![r] = c]
        PROVE  CallInv'
    <3>1. /\ c \in CallType /\ c.pc = "ok" /\ c.api = k.api /\ c.failed = FALSE
          /\ c.met = k.met /\ c.provider = k.provider
      BY <1>1, <2>1, <2>2, <2>3 DEF CallType
    <3>2. Used(c)
      BY <2>2, <3>1 DEF Used
    <3> QED BY <1>1, <2>1, <2>3, <3>1, <3>2, Calling
  <2>4. ASSUME NEW f \in Faults \ Policy[k.provider].again, NEW c,
               c = [k EXCEPT !.pc = "failed", !.posts = @ + 1, !.failed = TRUE, !.met = @ \cup {f}],
               call' = [call EXCEPT ![r] = c]
        PROVE  CallInv'
    <3>1. k.met \cup {f} \in SUBSET Faults
      BY <2>2
    <3>2. /\ c \in CallType /\ c.pc = "failed" /\ c.api = k.api /\ c.failed = TRUE
          /\ c.met = k.met \cup {f} /\ c.provider = k.provider
      BY <1>1, <2>1, <2>2, <2>4, <3>1 DEF CallType
    <3>3. Used(c)
      BY <3>2 DEF Used
    <3> QED BY <1>1, <2>1, <2>4, <3>2, <3>3, Calling
  <2>5. ASSUME NEW f \in Policy[k.provider].again, NEW sleep \in Int, Retried(r, f, sleep)
        PROVE  CallInv'
    <3> DEFINE l == IF Again(r) THEN "post" ELSE "failed"
               b == ~ Again(r)
               c == [k EXCEPT !.posts = @ + 1, !.slept = @ + sleep, !.met = @ \cup {f},
                              !.pc = l, !.failed = b]
    <3>1. Again(r) <=> k.posts + 1 < Policy[k.provider].posts
      BY DEF Again
    <3>2. call' = [call EXCEPT ![r] = c]
      <4>1. call' = [call EXCEPT ![r].posts = @ + 1, ![r].slept = @ + sleep,
                                 ![r].met = @ \cup {f}, ![r].pc = l, ![r].failed = b]
        BY <2>5 DEF Retried
      <4> HIDE DEF l, b
      <4> QED BY <1>1, <4>1
    <3>3. /\ k.slept + sleep \in Int /\ k.posts + 1 \in 0 .. MaxRetries
          /\ k.met \cup {f} \in SUBSET Faults /\ k.met \cup {f} \subseteq Policy[k.provider].again
      BY <1>1, <2>2 DEF CallType
    <3>4. l \in {"post", "failed"} /\ b \in BOOLEAN /\ (l = "failed" <=> b) /\ (b <=> ~ Again(r))
      OBVIOUS
    <3> HIDE DEF l, b
    <3>5. /\ c \in CallType /\ c.api = k.api /\ c.pc = l /\ c.failed = b /\ c.provider = k.provider
          /\ c.posts = k.posts + 1 /\ c.met = k.met \cup {f}
      BY <1>1, <3>3, <3>4 DEF CallType
    <3> HIDE DEF c
    <3>6. b => k.posts + 1 = MaxRetries
      BY <2>2, <2>5, <3>1, <3>4
    <3>7. Used(c)
      BY <3>3, <3>5, <3>6 DEF Used
    <3>8. c.pc = "post" => c.posts < Policy[c.provider].posts
      BY <3>1, <3>4, <3>5
    <3> QED BY <1>1, <2>1, <2>2, <3>2, <3>3, <3>4, <3>5, <3>7, <3>8, Calling
  <2>6. CASE Answer(r)
    BY <1>1, <2>3, <2>6 DEF Answer
  <2>7. CASE FatalFault(r)
    <3>1. PICK f \in Faults \ Policy[k.provider].again :
            call' = [call EXCEPT ![r].pc = "failed", ![r].posts = @ + 1, ![r].failed = TRUE,
                                 ![r].met = @ \cup {f}]
      BY <2>7 DEF FatalFault
    <3> QED BY <1>1, <2>4, <3>1
  <2>8. Backoff(r) \in Int
    BY <2>2, SMT DEF Backoff
  <2>9. CASE StatusFault(r)
    BY <2>5, <2>8, <2>9 DEF StatusFault
  <2>10. CASE Timeout(r)
    BY <2>5, <2>8, <2>10 DEF Timeout
  <2>11. ~ Stream(r)
    BY <1>3 DEF Stream, Token, LastToken, ErrorToken, In
  <2> QED BY <2>6, <2>7, <2>9, <2>10, <2>11 DEF AdapterStep, Generate
<1>4. CASE In(r, "tokens")
  <2>1. Kind(r) \notin Plain
    BY <1>1, <1>4 DEF Result, In
  <2>2. ASSUME NEW c \in CallType, c.api = k.api, c.pc = "ok" \/ (c.pc = "tokens" /\ c.sent <= MaxTokens),
               call' = [call EXCEPT ![r] = c]
        PROVE  CallInv'
    <3>1. Used(c)
      BY <1>1, <1>2, <2>1, <2>2 DEF Used, Result
    <3> QED BY <1>1, <2>1, <2>2, <3>1, Calling
  <2>3. CASE Token(r)
    <3>1. k.sent + 1 \in 0 .. MaxTokens + 1 /\ k.sent + 1 <= MaxTokens
      BY <1>1, <2>3 DEF Token, CallType
    <3>2. [k EXCEPT !.sent = @ + 1] \in CallType
      BY <1>1, <3>1 DEF CallType
    <3> QED BY <1>1, <1>4, <2>2, <2>3, <3>1, <3>2 DEF Token, In, CallType
  <2>4. CASE LastToken(r)
    <3>1. [k EXCEPT !.pc = "ok"] \in CallType
      BY <1>1 DEF CallType
    <3> QED BY <1>1, <2>2, <2>4, <3>1 DEF LastToken, CallType
  <2>5. CASE ErrorToken(r)
    <3>2. k.sent + 1 \in 0 .. MaxTokens + 1
      BY <1>1, <1>4 DEF Attempts, CallType
    <3>1. [k EXCEPT !.pc = "ok", !.sent = @ + 1, !.failed = TRUE] \in CallType
      BY <1>1, <3>2 DEF CallType
    <3> QED BY <1>1, <2>2, <2>5, <3>1 DEF ErrorToken, CallType
  <2>6. ~ Generate(r)
    BY <1>4 DEF Generate, Answer, FatalFault, StatusFault, Timeout, In
  <2> QED BY <2>3, <2>4, <2>5, <2>6 DEF AdapterStep, Stream
<1>5. In(r, "post") \/ In(r, "tokens")
  BY DEF AdapterStep, Generate, Stream, Answer, FatalFault, StatusFault, Timeout,
         Token, LastToken, ErrorToken
<1> QED BY <1>3, <1>4, <1>5

\* The least fallback ahead of a leg: those between the two are the primary.
LEMMA Skipped ==
    ASSUME NEW l \in 0 .. Len(Fallbacks), NEW i \in Ahead(l), \A j \in Ahead(l) : i <= j
    PROVE  /\ i \in 1 .. Len(Fallbacks)
           /\ {Primary} \cup {Fallbacks[j] : j \in 1 .. i}
                = ({Primary} \cup {Fallbacks[j] : j \in 1 .. l}) \cup {Fallbacks[i]}
<1>1. i \in l + 1 .. Len(Fallbacks) /\ Len(Fallbacks) \in Nat /\ i \in Int /\ l \in Nat
  BY InferenceAssumption DEF InferenceAssumption, Ahead
<1>2. ASSUME NEW j \in 1 .. i, j \notin 1 .. l, j # i PROVE Fallbacks[j] = Primary
  <2>1. j \in l + 1 .. Len(Fallbacks) /\ j < i
    BY <1>1, <1>2
  <2>2. j \notin Ahead(l)
    BY <1>1, <2>1
  <2> QED BY <2>1, <2>2 DEF Ahead
<1>3. 1 .. l \subseteq 1 .. i /\ i \in 1 .. i
  BY <1>1
<1>4. \A x : x \in {Primary} \cup {Fallbacks[j] : j \in 1 .. i}
         => x \in ({Primary} \cup {Fallbacks[j] : j \in 1 .. l}) \cup {Fallbacks[i]}
  BY <1>2
<1>5. \A x : x \in ({Primary} \cup {Fallbacks[j] : j \in 1 .. l}) \cup {Fallbacks[i]}
         => x \in {Primary} \cup {Fallbacks[j] : j \in 1 .. i}
  BY <1>3
<1> QED BY <1>1, <1>4, <1>5

LEMMA NextLegInv == ASSUME CallInv, NEW r \in Requests, NextLeg(r) PROVE CallInv'
<1>1. PICK i \in Ahead(req[r].leg) :
        /\ \A j \in Ahead(req[r].leg) : i <= j
        /\ req' = [req EXCEPT ![r].leg = i, ![r].tried = @ \cup {Fallbacks[i]}]
        /\ Opens(r, GetAdapter(Fallbacks[i]), "generate")
  BY DEF NextLeg
<1> DEFINE c == Opened("ollama", "generate")
           q == [req[r] EXCEPT !.leg = i, !.tried = @ \cup {Fallbacks[i]}]
<1>2. /\ call[r] \in CallType /\ req[r] \in ReqType /\ errors' \in Nat
      /\ call \in [Requests -> CallType] /\ req \in [Requests -> ReqType]
      /\ req[r].leg \in 0 .. Len(Fallbacks)
  BY Records DEF CallInv, TypeOK, NextLeg, ReqType
<1>3. /\ Ordered(r) /\ Result(r) /\ Legs(r) /\ req[r].pc = "call" /\ Kind(r) = "failover"
  BY DEF CallInv, NextLeg, At
<1>4. /\ i \in 1 .. Len(Fallbacks) /\ Fallbacks[i] \in Providers
      /\ {Primary} \cup {Fallbacks[j] : j \in 1 .. i} = req[r].tried \cup {Fallbacks[i]}
  <2>1. req[r].tried = {Primary} \cup {Fallbacks[j] : j \in 1 .. req[r].leg}
    BY <1>3 DEF Legs
  <2>2. /\ i \in 1 .. Len(Fallbacks)
        /\ {Primary} \cup {Fallbacks[j] : j \in 1 .. i}
             = ({Primary} \cup {Fallbacks[j] : j \in 1 .. req[r].leg}) \cup {Fallbacks[i]}
    BY <1>1, <1>2, Skipped
  <2>3. Fallbacks[i] \in Providers
    BY <2>2, InferenceAssumption DEF InferenceAssumption
  <2> QED BY <2>1, <2>2, <2>3
<1>5. req[r].step = 0 /\ req[r].did = {}
  <2>1. req[r].step = 0 /\ req[r].did = Prefix(r)
    BY <1>3 DEF Ordered, At
  <2> QED BY <2>1 DEF Prefix
<1>6. /\ c \in CallType /\ c.api = "generate" /\ c.pc \in {"post", "ok", "failed"}
      /\ c.failed <=> c.pc = "failed"
      /\ c.pc = "post" => c.provider \in Providers /\ c.posts < Policy[c.provider].posts
      /\ c.met = {}
  <2>1. "ollama" \in Providers
    BY DEF Providers
  <2>2. Policy["ollama"].posts > 0
    BY <2>1, PolicyPosts
  <2> QED BY <2>1, <2>2, OpenedType
<1>7. /\ call' = [call EXCEPT ![r] = c] /\ req' = [req EXCEPT ![r] = q] /\ q \in ReqType
  <2>1. call' = [call EXCEPT ![r] = c]
    BY <1>1 DEF Opens, GetAdapter
  <2>2. req' = [req EXCEPT ![r] = q]
    BY <1>1, <1>2
  <2>3. req[r].tried \cup {Fallbacks[i]} \in SUBSET Providers /\ i \in 0 .. Len(Fallbacks)
    BY <1>2, <1>4 DEF ReqType
  <2>4. q \in ReqType
    BY <1>2, <2>3 DEF ReqType
  <2> QED BY <2>1, <2>2, <2>4
<1>8. /\ Kind(r)' = "failover" /\ req'[r].pc = "call" /\ req'[r].step = 0 /\ req'[r].did = {}
      /\ req'[r].leg = i /\ req'[r].tried = req[r].tried \cup {Fallbacks[i]} /\ call'[r] = c
  BY <1>2, <1>3, <1>5, <1>7 DEF ReqType, Kind
<1> HIDE DEF c, q
<1>9. Ordered(r)'
  <2>1. Prefix(r)' = {}
    BY <1>8 DEF Prefix
  <2>2. 0 <= Len(Work("failover"))
    BY WorkLen
  <2> QED BY <1>8, <2>1, <2>2 DEF Ordered
<1>10. Result(r)'
  BY <1>6, <1>8 DEF Result, At, Plain
<1>11. Legs(r)'
  BY <1>4, <1>8 DEF Legs, At
<1>12. Attempts(r)'
  <2>1. Used(c)
    BY <1>6 DEF Used
  <2> QED BY <1>6, <1>8, <2>1 DEF Attempts, In
<1>13. Good(r)'
  BY <1>9, <1>10, <1>11, <1>12 DEF Good
<1> QED BY <1>2, <1>6, <1>7, <1>13, CallStep

LEMMA RefuseInv == ASSUME CallInv, NEW r \in Requests, Refuse(r) PROVE CallInv'
<1> DEFINE d == IF Kind(r) = "chat" THEN {"refusal"} ELSE {}
           q == [req[r] EXCEPT !.pc = "ended", !.did = d]
<1>1. /\ call[r] \in CallType /\ req[r] \in ReqType /\ errors' \in Nat
      /\ call \in [Requests -> CallType] /\ req \in [Requests -> ReqType]
      /\ Ordered(r) /\ Result(r) /\ Legs(r) /\ req[r].pc = "call" /\ call[r].pc = "failed"
      /\ Kind(r) \in Endpoints
  BY Records DEF CallInv, TypeOK, Refuse, At, In
<1>2. /\ call' = [call EXCEPT ![r] = call[r]] /\ req' = [req EXCEPT ![r] = q]
      /\ d \in SUBSET Effects
  BY <1>1 DEF Refuse, Effects
<1>3. req[r].step = 0 /\ Kind(r) # "failover"
  BY <1>1 DEF Ordered, Endpoints
<1> HIDE DEF d
<1>4. q \in ReqType
  BY <1>1, <1>2 DEF ReqType
<1>5. /\ Kind(r)' = Kind(r) /\ req'[r].pc = "ended" /\ req'[r].step = 0 /\ req'[r].did = d
      /\ req'[r].leg = req[r].leg /\ call'[r] = call[r]
  BY <1>1, <1>2, <1>3 DEF ReqType, Kind
<1> HIDE DEF q
<1>6. Ordered(r)'
  <2>1. Prefix(r)' = {}
    BY <1>5 DEF Prefix
  <2>2. 0 <= Len(Work(Kind(r)))
    BY WorkLen
  <2> QED BY <1>5, <2>1, <2>2 DEF Ordered, At, d
<1>7. Result(r)'
  <2>1. CASE Kind(r) \in Plain
    BY <1>1, <1>5, <2>1 DEF Result, At
  <2>2. CASE Kind(r) \notin Plain
    BY <1>1, <1>5, <2>2 DEF Result, At
  <2> QED BY <2>1, <2>2
<1>10. Used(call[r])
  BY DEF CallInv, Attempts
<1>8. Legs(r)' /\ Attempts(r)'
  BY <1>1, <1>3, <1>5, <1>10 DEF Legs, At, Attempts, In
<1>9. Good(r)'
  BY <1>6, <1>7, <1>8 DEF Good
<1> QED BY <1>1, <1>2, <1>4, <1>9, CallStep

LEMMA EffectInv == ASSUME CallInv, NEW r \in Requests, Effect(r) PROVE CallInv'
<1> DEFINE n == req[r].step
           w == Work(Kind(r))
           q == [req[r] EXCEPT !.step = n + 1, !.did = @ \cup {Due(r)}]
<1>1. /\ call[r] \in CallType /\ req[r] \in ReqType /\ errors' \in Nat
      /\ call \in [Requests -> CallType] /\ req \in [Requests -> ReqType]
      /\ Ordered(r) /\ Result(r) /\ Legs(r) /\ req[r].pc = "work" /\ call[r].pc = "ok"
      /\ call' = [call EXCEPT ![r] = call[r]] /\ req' = [req EXCEPT ![r] = q]
      /\ n \in Nat /\ n < Len(w)
  <2>1. /\ call[r] \in CallType /\ req[r] \in ReqType /\ errors' \in Nat
        /\ call \in [Requests -> CallType] /\ req \in [Requests -> ReqType]
        /\ Ordered(r) /\ Result(r) /\ Legs(r) /\ req[r].pc = "work"
    BY Records DEF CallInv, TypeOK, Effect, At
  <2>2. call[r].pc = "ok" /\ n \in Nat
    BY <2>1 DEF Result, At, ReqType
  <2>3. call' = [call EXCEPT ![r] = call[r]]
    BY <2>1 DEF Effect
  <2>4. req' = [req EXCEPT ![r] = q]
    BY <2>1 DEF Effect
  <2>5. n < Len(w)
    BY DEF Effect, Left
  <2> QED BY <2>1, <2>2, <2>3, <2>4, <2>5
<1>2. w \in Seq(Effects) /\ Len(w) \in 0 .. 5
  BY WorkLen
<1> HIDE DEF w
<1>3. n + 1 \in 0 .. 5 /\ n + 1 \in 1 .. Len(w) /\ Due(r) = w[n + 1]
  <2>1. n + 1 \in 0 .. 5 /\ n + 1 \in 1 .. Len(w)
    <3>1. n \in Nat /\ n < Len(w) /\ Len(w) \in 0 .. 5
      BY <1>1, <1>2 DEF w
    <3>2. \A a \in Nat, b \in 0 .. 5 : a < b => a + 1 \in 0 .. 5 /\ a + 1 \in 1 .. b
      OBVIOUS
    <3> QED BY <3>1, <3>2
  <2>2. Due(r) = w[n + 1]
    BY DEF Due, w
  <2> QED BY <2>1, <2>2
<1>4. Due(r) \in Effects
  BY <1>2, <1>3
<1>5. q \in ReqType
  <2>1. req[r].did \cup {Due(r)} \in SUBSET Effects
    BY <1>1, <1>4 DEF ReqType
  <2> QED BY <1>1, <1>3, <2>1 DEF ReqType
<1>6. /\ Kind(r)' = Kind(r) /\ req'[r].pc = "work" /\ req'[r].step = n + 1
      /\ req'[r].did = req[r].did \cup {w[n + 1]}
      /\ req'[r].leg = req[r].leg /\ req'[r].tried = req[r].tried /\ call'[r] = call[r]
  BY <1>1, <1>3 DEF ReqType, Kind
<1> HIDE DEF q
<1>7. Ordered(r)'
  <2>1. req[r].did = {w[i] : i \in 1 .. n}
    BY <1>1 DEF Ordered, Prefix, At, w
  <2>2. Prefix(r)' = {w[i] : i \in 1 .. n + 1}
    BY <1>6 DEF Prefix, w
  <2>3. 1 .. n + 1 = (1 .. n) \cup {n + 1}
    BY <1>1
  <2>4. Prefix(r)' = req'[r].did
    BY <1>6, <2>1, <2>2, <2>3
  <2>5. req'[r].step <= Len(Work(Kind(r)'))
    BY <1>3, <1>6 DEF w
  <2> QED BY <1>6, <2>4, <2>5 DEF Ordered
<1>8. Result(r)'
  <2>1. CASE Kind(r) \in Plain
    BY <1>1, <1>6, <2>1 DEF Result, At
  <2>2. CASE Kind(r) \notin Plain
    BY <1>1, <1>6, <2>2 DEF Result, At
  <2> QED BY <2>1, <2>2
<1>11. Used(call[r])
  BY DEF CallInv, Attempts
<1>9. Legs(r)' /\ Attempts(r)'
  BY <1>1, <1>6, <1>11 DEF Legs, At, Attempts, In
<1>10. Good(r)'
  BY <1>7, <1>8, <1>9 DEF Good
<1> QED BY <1>1, <1>5, <1>10, CallStep

LEMMA StutterInv == ASSUME CallInv, UNCHANGED vars PROVE CallInv'
<1> SUFFICES ASSUME NEW r \in Requests PROVE Good(r)'
  BY DEF CallInv, Good, TypeOK, vars
<1>1. /\ Good(r) /\ req'[r] = req[r] /\ call'[r] = call[r]
  BY DEF CallInv, Good, vars
<1> QED BY <1>1 DEF Good, Ordered, Prefix, Kind, At, Result, Legs, Attempts, In

LEMMA NextInv == ASSUME CallInv, [Next]_vars PROVE CallInv'
<1>1. CASE UNCHANGED vars
  BY <1>1, StutterInv
<1>2. CASE Next
  BY <1>2, BeginInv, UseInv, BenchmarkInv, LegacyInv, FailoverInv, NextLegInv, AdapterStepInv,
     ReturnedInv, HandBackInv, RefuseInv, LeaveInv, EffectInv, DoneInv, RedisFailsInv DEF Next
<1> QED BY <1>1, <1>2

\* CallInv is an invariant.
THEOREM CallInvariant == Spec => []CallInv
<1>1. Init => CallInv
  BY InitInv
<1>2. CallInv /\ [Next]_vars => CallInv'
  BY NextInv
<1> QED BY <1>1, <1>2, PTL DEF Spec

\* Every variable has its type.
THEOREM CallTypes == Spec => []TypeOK
<1>1. CallInv => TypeOK
  BY DEF CallInv
<1> QED BY <1>1, CallInvariant, PTL

\* The effects that precede a reply, a stored turn or an audit entry on its path.
LEMMA Before ==
    ASSUME CallInv, NEW r \in Requests
    PROVE  /\ Replied(r) =>
                /\ Kind(r) # "openai stream" => "usage" \in req[r].did
                /\ Kind(r) \in {"chat", "stream"} => {"quota", "history", "audit"} \subseteq req[r].did
           /\ req[r].did \cap {"history", "audit"} # {} => {"usage", "quota"} \subseteq req[r].did
<1> DEFINE w == Work(Kind(r))
           n == req[r].step
           d == req[r].did
<1>1. CASE d = {"refusal"}
  BY <1>1 DEF Replied
<1>2. CASE d = Prefix(r) /\ n \in Nat /\ n <= Len(w)
  <2>1. d = {w[i] : i \in 1 .. n}
    BY <1>2 DEF Prefix
  <2>2. CASE Kind(r) = "chat"
    <3>1. w = <<"usage", "quota", "audit", "history", "reply">>
      BY <2>2, Paths
    <3>2. n \in 0 .. 5
      BY <1>2, <3>1
    <3>3. \A i \in 1 .. n : /\ w[i] \in {"history", "audit"} => i >= 3
                            /\ w[i] = "reply" => i = 5
      BY <3>1, <3>2
    <3>4. d \cap {"history", "audit"} # {} => n >= 3 /\ n \in Nat
      BY <2>1, <3>2, <3>3
    <3>5. "reply" \in d => n = 5
      BY <2>1, <3>2, <3>3
    <3>6. /\ n >= 3 => w[1] \in d /\ w[2] \in d /\ w[3] \in d
          /\ n = 5 => w[4] \in d
      BY <2>1, <3>2
    <3> QED BY <2>2, <3>1, <3>4, <3>5, <3>6 DEF Replied
  <2>3. CASE Kind(r) = "stream"
    <3>1. w = <<"usage", "quota", "history", "audit", "reply">>
      BY <2>3, Paths
    <3>2. n \in 0 .. 5
      BY <1>2, <3>1
    <3>3. \A i \in 1 .. n : /\ w[i] \in {"history", "audit"} => i >= 3
                            /\ w[i] = "reply" => i = 5
      BY <3>1, <3>2
    <3>4. d \cap {"history", "audit"} # {} => n >= 3
      BY <2>1, <3>2, <3>3
    <3>5. "reply" \in d => n = 5
      BY <2>1, <3>2, <3>3
    <3>6. /\ n >= 3 => w[1] \in d /\ w[2] \in d /\ w[3] \in d
          /\ n = 5 => w[4] \in d
      BY <2>1, <3>2
    <3> QED BY <2>3, <3>1, <3>2, <3>4, <3>5, <3>6 DEF Replied
  <2>4. CASE Kind(r) = "openai"
    <3>1. w = <<"usage", "reply">>
      BY <2>4, Paths
    <3>2. n \in 0 .. 2
      BY <1>2, <3>1
    <3>3. \A i \in 1 .. n : w[i] \notin {"history", "audit"}
      BY <3>1, <3>2
    <3>4. n >= 1 => w[1] \in d
      BY <2>1, <3>2
    <3>5. "reply" \in d => n >= 1
      BY <2>1, <3>2
    <3> QED BY <2>1, <2>4, <3>1, <3>3, <3>4, <3>5 DEF Replied
  <2>5. CASE Kind(r) = "openai stream"
    <3>1. w = <<"reply", "usage">>
      BY <2>5, Paths
    <3>2. n \in 0 .. 2
      BY <1>2, <3>1
    <3>3. \A i \in 1 .. n : w[i] \notin {"history", "audit"}
      BY <3>1, <3>2
    <3> QED BY <2>1, <2>5, <3>3 DEF Replied
  <2>6. CASE Kind(r) \notin Endpoints
    <3>1. w = <<>>
      BY <2>6, Paths
    <3>2. n = 0
      BY <1>2, <3>1
    <3>3. d = {}
      BY <2>1, <3>2
    <3> QED BY <3>3 DEF Replied
  <2> QED BY <2>2, <2>3, <2>4, <2>5, <2>6 DEF Endpoints
<1>3. \/ d = {"refusal"}
      \/ d = Prefix(r) /\ n \in Nat /\ n <= Len(w)
  BY Records DEF CallInv, Ordered, ReqType
<1> QED BY <1>1, <1>2, <1>3

\* A client that got its whole answer has been charged for it, and its turn and
\* audit entry are in Redis.
THEOREM AnswersCharged == Spec => []AnsweredIsCharged
<1>1. CallInv => AnsweredIsCharged
  BY Before DEF AnsweredIsCharged
<1> QED BY <1>1, CallInvariant, PTL

\* A turn stored, or audited as answered, was charged, and a failed plain call
\* leaves nothing but the entry of its refusal.
THEOREM FailuresFree == Spec => []FailedUncharged
<1>1. ASSUME CallInv PROVE FailedUncharged
  <2> SUFFICES ASSUME NEW r \in Requests, call[r].failed, ~ Streamed(r)
               PROVE  req[r].did \subseteq {"refusal"}
    BY <1>1, Before DEF FailedUncharged
  <2>1. Ordered(r) /\ Result(r) /\ req[r] \in ReqType
    BY <1>1, Records DEF CallInv
  <2>2. req[r].step = 0 \/ Work(Kind(r)) = <<>>
    BY <2>1, Paths DEF Result, ReqType, Kind, Kinds, Endpoints, Streamed, Plain
  <2>3. req[r].step = 0
    BY <2>1, <2>2 DEF Ordered, ReqType
  <2>4. Prefix(r) = {}
    <3>1. 1 .. 0 = {}
      OBVIOUS
    <3> QED BY <2>3, <3>1 DEF Prefix
  <2> QED BY <2>1, <2>4 DEF Ordered
<1> QED BY <1>1, CallInvariant, PTL

\* A failover that gives up has tried the primary and every fallback.
THEOREM WholeChain == Spec => []EveryLegTried
<1>1. ASSUME CallInv PROVE EveryLegTried
  <2> SUFFICES ASSUME NEW r \in Requests, Kind(r) = "failover", At(r, "ended"), call[r].failed
               PROVE  req[r].tried = {Primary} \cup ToSet(Fallbacks)
    BY DEF EveryLegTried
  <2> DEFINE l == req[r].leg
  <2>1. /\ req[r].tried = {Primary} \cup {Fallbacks[i] : i \in 1 .. l} /\ Ahead(l) = {}
        /\ l \in 0 .. Len(Fallbacks) /\ Len(Fallbacks) \in Nat
    <3>1. Legs(r) /\ req[r] \in ReqType
      BY <1>1, Records DEF CallInv
    <3>2. l \in 0 .. Len(Fallbacks) /\ Len(Fallbacks) \in Nat
      BY <3>1, InferenceAssumption DEF ReqType, InferenceAssumption
    <3> QED BY <3>1, <3>2 DEF Legs
  <2> HIDE DEF l
  <2>2. ASSUME NEW i \in 1 .. Len(Fallbacks), i \notin 1 .. l PROVE Fallbacks[i] = Primary
    <3>1. i \in l + 1 .. Len(Fallbacks)
      BY <2>1, <2>2
    <3> QED BY <2>1, <3>1 DEF Ahead
  <2>3. ToSet(Fallbacks) = {Fallbacks[i] : i \in 1 .. Len(Fallbacks)}
    BY InferenceAssumption DEF ToSet, InferenceAssumption
  <2>4. 1 .. l \subseteq 1 .. Len(Fallbacks)
    BY <2>1
  <2> QED BY <2>1, <2>2, <2>3, <2>4
<1> QED BY <1>1, CallInvariant, PTL

\* A generate fails only on a fault that is not tried again or after its last post.
THEOREM UsesAttempts == Spec => []Persistent
<1>1. CallInv => Persistent
  BY DEF CallInv, Attempts, Used, Persistent
<1> QED BY <1>1, CallInvariant, PTL
=============================================================================
