--------------------------- MODULE ClusterProofs ---------------------------
(***************************************************************************)
(* Proofs about Cluster and ClusterHealth.                                 *)
(*                                                                         *)
(* Load: DriftBound is inductive on top of TypeOK.  A request that starts  *)
(* adds one to both sides, one that ends takes one from both or finds the  *)
(* count at zero, and a record starts afresh.                              *)
(*                                                                         *)
(* Health: a record that is due has not been due for longer than the loop  *)
(* needs to come back to it, from wherever it is (TimedInv).               *)
(***************************************************************************)
EXTENDS ClusterHealth, FiniteSetTheorems, TLAPS

\* The requests counted on a node are finitely many.
LEMMA CountedFinite ==
    ASSUME TypeOK, NEW n \in Nodes
    PROVE  /\ IsFiniteSet(Counted(n)) /\ Cardinality(Counted(n)) \in Nat
<1>1. Counted(n) \subseteq Requests
  BY DEF Counted, Running
<1>2. IsFiniteSet(Requests)
  BY ClusterAssumption DEF ClusterAssumption
<1> QED BY <1>1, <1>2, FS_Subset, FS_CardinalityType

\* The node being probed is a node of the pool.
LEMMA ProbedIsNode ==
    ASSUME TypeOK
    PROVE  Probed \in Nodes
<1>1. loop.pos \in DOMAIN NodeSeq
  BY DEF TypeOK
<1>2. NodeSeq \in Seq(Nodes)
  BY ClusterAssumption DEF ClusterAssumption
<1> QED BY <1>1, <1>2 DEF Probed

\* Replacing a field of a record by a value of its type.
LEMMA SpentField ==
    ASSUME NEW P, NEW D, NEW S, NEW l \in [pc : P, pos : D, saw : BOOLEAN, spent : S],
           NEW v \in S
    PROVE  [l EXCEPT !.spent = v] \in [pc : P, pos : D, saw : BOOLEAN, spent : S]
OBVIOUS

\* The loop's states after a start and after a probe are states of the loop.
LEMMA LoopStates ==
    ASSUME TypeOK
    PROVE  LET L == [pc : {"ping", "record", "sleep", "retry", "stopped"},
                     pos : DOMAIN NodeSeq, saw : BOOLEAN,
                     spent : 0 .. MaxCheck + Interval]
           IN  /\ Started(1) \in L /\ NextProbe \in L
               /\ [Started(1) EXCEPT !.pc = "retry"] \in L
               /\ [Started(1) EXCEPT !.pc = "stopped"] \in L
<1> DEFINE L == [pc : {"ping", "record", "sleep", "retry", "stopped"},
                 pos : DOMAIN NodeSeq, saw : BOOLEAN,
                 spent : 0 .. MaxCheck + Interval]
<1>1. /\ NodeSeq \in Seq(Nodes) /\ Len(NodeSeq) \in Nat /\ Len(NodeSeq) > 0
      /\ DOMAIN NodeSeq = 1 .. Len(NodeSeq)
  BY ClusterAssumption DEF ClusterAssumption
<1>2. 0 \in 0 .. MaxCheck + Interval
  BY ClusterAssumption DEF ClusterAssumption
<1>3. \A i \in DOMAIN NodeSeq : Started(i) \in L
  BY <1>2 DEF Started
<1>4. 1 \in DOMAIN NodeSeq
  BY <1>1
<1>5. loop.pos < Len(NodeSeq) => loop.pos + 1 \in DOMAIN NodeSeq
  <2>1. loop.pos \in DOMAIN NodeSeq
    BY DEF TypeOK
  <2>2. loop.pos \in 1 .. Len(NodeSeq)
    BY <1>1, <2>1
  <2>. HIDE DEF L
  <2>3. loop.pos < Len(NodeSeq) => loop.pos + 1 \in 1 .. Len(NodeSeq)
    BY <1>1, <2>2
  <2>4. QED
    BY <1>1, <2>3
<1>6. \A l \in L : \A s \in {"sleep", "retry", "stopped"} : [l EXCEPT !.pc = s] \in L
  OBVIOUS
<1>7. NextProbe \in L
  BY <1>3, <1>4, <1>5, <1>6 DEF NextProbe
<1> QED BY <1>3, <1>4, <1>6, <1>7

-----------------------------------------------------------------------------
\* Placing a request keeps the types, whichever node it goes to.
LEMMA PlaceType ==
    ASSUME TypeOK, NEW r \in Requests, NEW n \in Nodes, Place(r, n),
           faults' \in 0 .. MaxFaults
    PROVE  TypeOK'
<1>1. counted' \in [Requests -> BOOLEAN] /\ at' \in [Requests -> Nodes \cup {Nobody}]
  BY DEF TypeOK, Place
<1>2. active' \in [Nodes -> Int]
  BY <1>1 DEF TypeOK, Place
<1>3. \A q \in Requests : counted'[q] => at'[q] # Nobody
  BY ClusterAssumption DEF TypeOK, Place, ClusterAssumption, Nobody
<1>4. UNCHANGED <<up, health, healthTtl, activeTtl, leaked, loop>>
  BY DEF Place
<1> QED BY <1>1, <1>2, <1>3, <1>4 DEF TypeOK

\* Ending a request keeps the types of the request slots.
LEMMA LeaveType ==
    ASSUME TypeOK, NEW r \in Requests, Leave(r)
    PROVE  /\ counted' \in [Requests -> BOOLEAN]
           /\ at' \in [Requests -> Nodes \cup {Nobody}]
           /\ \A q \in Requests : counted'[q] => at'[q] # Nobody
           /\ UNCHANGED <<up, health, healthTtl, loop>>
BY DEF TypeOK, Leave

\* A fault keeps the count of faults within its bound.
LEMMA FaultType ==
    ASSUME TypeOK, Fault
    PROVE  faults' \in 0 .. MaxFaults
BY ClusterAssumption DEF TypeOK, Fault, ClusterAssumption

\* Any prefix of the four writes keeps the types of the hashes.
LEMMA WritesType ==
    ASSUME TypeOK, NEW k \in 0 .. 4, NEW s \in Statuses, NEW m \in Int, Writes(k, s, m)
    PROVE  /\ health' \in [Nodes -> Statuses]
           /\ healthTtl' \in [Nodes -> 0 .. KeyTTL]
           /\ active' \in [Nodes -> Int]
           /\ activeTtl' \in [Nodes -> 0 .. KeyTTL]
           /\ leaked' \in [Nodes -> Nat]
<1>1. KeyTTL \in 0 .. KeyTTL
  BY ClusterAssumption DEF ClusterAssumption
<1> QED BY <1>1 DEF TypeOK, Writes

\* What is read from a node is a status, and a count of models.
LEMMA SeenType ==
    ASSUME TypeOK, NEW m \in Loaded
    PROVE  Seen \in Statuses /\ m \in Int /\ m <= MaxModels
BY ClusterAssumption DEF Loaded, Seen, Statuses, ClusterAssumption

LEMMA TypeStep ==
    TypeOK /\ [Next]_vars => TypeOK'
<1> SUFFICES ASSUME TypeOK, [Next]_vars PROVE TypeOK'
  OBVIOUS
<1> DEFINE L == [pc : {"ping", "record", "sleep", "retry", "stopped"},
                 pos : DOMAIN NodeSeq, saw : BOOLEAN,
                 spent : 0 .. MaxCheck + Interval]
<1>0. /\ Started(1) \in L /\ NextProbe \in L
      /\ [Started(1) EXCEPT !.pc = "retry"] \in L
      /\ [Started(1) EXCEPT !.pc = "stopped"] \in L
  BY LoopStates
<1>1. ASSUME NEW r \in Requests, Dispatch(r) PROVE TypeOK'
  <2>1. PICK n \in Nodes : Place(r, n) /\ UNCHANGED faults
    BY <1>1 DEF Dispatch
  <2> QED BY <2>1, PlaceType DEF TypeOK
<1>2. ASSUME NEW r \in Requests, DispatchBlind(r) PROVE TypeOK'
  <2>1. NodeSeq[1] \in Nodes
    BY ClusterAssumption DEF ClusterAssumption
  <2> QED BY <1>2, <2>1, PlaceType, FaultType DEF DispatchBlind
<1>3. ASSUME NEW r \in Requests, Finish(r) PROVE TypeOK'
  <2>1. active' \in [Nodes -> Int]
    BY <1>3 DEF TypeOK, Finish
  <2> QED BY <1>3, <2>1, LeaveType DEF TypeOK, Finish
<1>4. ASSUME NEW r \in Requests, FinishLapsed(r) PROVE TypeOK'
  <2>0. -1 \in Int /\ 0 \in 0 .. KeyTTL /\ 0 \in Nat
    BY ClusterAssumption DEF ClusterAssumption
  <2>1. /\ active' \in [Nodes -> Int] /\ activeTtl' \in [Nodes -> 0 .. KeyTTL]
        /\ leaked' \in [Nodes -> Nat]
    BY <1>4, <2>0 DEF TypeOK, FinishLapsed
  <2> QED BY <1>4, <2>1, LeaveType DEF TypeOK, FinishLapsed
<1>5. ASSUME NEW r \in Requests, Abandon(r) PROVE TypeOK'
  <2>1. leaked' \in [Nodes -> Nat]
    BY <1>5 DEF TypeOK, Abandon
  <2> QED BY <1>5, <2>1, LeaveType, FaultType DEF TypeOK, Abandon
<1>6. CASE Ping
  <2>1. up[Probed] \in BOOLEAN
    BY ProbedIsNode DEF TypeOK
  <2>2. loop' \in L
    BY <1>6, <2>1 DEF TypeOK, Ping, Move
  <2> QED BY <1>6, <2>2 DEF TypeOK, Ping, Move, redis, requests
<1>7. CASE Record
  <2>1. PICK m \in Loaded : Writes(4, Seen, m)
    BY <1>7 DEF Record
  <2>2. loop' \in L
    BY <1>0, <1>7 DEF Record, Move
  <2> QED BY <1>7, <2>1, <2>2, SeenType, WritesType DEF TypeOK, Record, Move, requests
<1>8. CASE RegistryFails
  <2>1. Writes(4, "down", 0) /\ "down" \in Statuses
    BY <1>8 DEF RegistryFails, Statuses
  <2>2. loop' \in L
    BY <1>0, <1>8 DEF RegistryFails, Move
  <2> QED BY <1>8, <2>1, <2>2, WritesType, FaultType DEF TypeOK, RegistryFails, Move, requests
<1>9. CASE RecordFails
  <2>1. PICK k \in 0 .. 3, m \in Loaded : Writes(k, Seen, m)
    BY <1>9 DEF RecordFails
  <2>2. loop' \in L
    BY <1>0, <1>9 DEF RecordFails, Move
  <2>3. k \in 0 .. 4
    OBVIOUS
  <2> QED BY <1>9, <2>1, <2>2, <2>3, SeenType, WritesType, FaultType
          DEF TypeOK, RecordFails, Move, requests
<1>10. CASE Wake
  BY <1>0, <1>10 DEF TypeOK, Wake, Move, redis, requests
<1>11. ASSUME NEW n \in Nodes, NodeChanges(n) PROVE TypeOK'
  <2>1. up' \in [Nodes -> BOOLEAN]
    BY <1>11 DEF TypeOK, NodeChanges
  <2> QED BY <1>11, <2>1 DEF TypeOK, NodeChanges, redis, requests
<1>12. CASE Crash
  <2>1. leaked' \in [Nodes -> Nat]
    BY <1>12, CountedFinite DEF TypeOK, Crash
  <2> QED BY <1>0, <1>12, <2>1, FaultType DEF TypeOK, Crash, redis
<1>13. CASE Restart
  BY <1>0, <1>13 DEF TypeOK, Restart, Move, redis, requests
<1>14. CASE Tick
  <2>1. /\ health' \in [Nodes -> Statuses] /\ active' \in [Nodes -> Int]
        /\ leaked' \in [Nodes -> Nat]
    BY <1>14 DEF TypeOK, Tick, Lapse, Statuses
  <2>2. /\ healthTtl' \in [Nodes -> 0 .. KeyTTL] /\ activeTtl' \in [Nodes -> 0 .. KeyTTL]
    <3>1. healthTtl' = Elapse(healthTtl) /\ activeTtl' = Elapse(activeTtl)
      BY <1>14, Zenon DEF Tick
    <3>2. KeyTTL \in Nat
      BY ClusterAssumption DEF ClusterAssumption
    <3>3. healthTtl \in [Nodes -> 0 .. KeyTTL] /\ activeTtl \in [Nodes -> 0 .. KeyTTL]
      BY DEF TypeOK
    <3> HIDE DEF L
    <3> QED BY <3>1, <3>2, <3>3 DEF Elapse
  <2>3. loop.pc # "stopped" => loop.spent + 1 \in 0 .. MaxCheck + Interval
    <3>1. /\ loop.pc \in {"ping", "record"} => loop.spent < MaxCheck
          /\ loop.pc = "sleep" => loop.spent < Interval
          /\ loop.pc = "retry" => loop.spent < 1
      BY <1>14, Zenon DEF Tick
    <3>2. /\ loop.pc \in {"ping", "record", "sleep", "retry", "stopped"}
          /\ loop.spent \in 0 .. MaxCheck + Interval
      BY DEF TypeOK
    <3>3. MaxCheck \in Nat \ {0} /\ Interval \in Nat \ {0}
      BY ClusterAssumption DEF ClusterAssumption
    <3> QED BY <3>1, <3>2, <3>3
  <2>4. loop \in L
    BY DEF TypeOK
  <2>5. CASE loop.pc = "stopped"
    <3>1. loop' = loop
      BY <1>14, <2>5 DEF Tick
    <3> QED BY <1>14, <2>1, <2>2, <2>4, <3>1 DEF TypeOK, Tick, requests
  <2>6. CASE loop.pc # "stopped"
    <3>1. [loop EXCEPT !.spent = loop.spent + 1] \in L
      BY <2>3, <2>4, <2>6, SpentField
    <3>2. loop' = [loop EXCEPT !.spent = loop.spent + 1]
      BY <1>14, <2>6, Zenon DEF Tick
    <3>3. loop' \in L
      BY <3>1, <3>2, Zenon
    <3> QED BY <1>14, <2>1, <2>2, <3>3 DEF TypeOK, Tick, requests
  <2> QED BY <2>5, <2>6
<1>15. CASE UNCHANGED vars
  BY <1>15 DEF TypeOK, vars
<1> QED BY <1>1, <1>2, <1>3, <1>4, <1>5, <1>6, <1>7, <1>8, <1>9, <1>10, <1>11,
           <1>12, <1>13, <1>14, <1>15 DEF Next

\* Every variable keeps its type, in every instance of the cluster.
THEOREM TypeCorrect == Spec => []TypeOK
<1>1. Init => TypeOK
  BY LoopStates, ClusterAssumption DEF Init, TypeOK, Started, Statuses, Nobody, ClusterAssumption
<1> QED BY <1>1, TypeStep, PTL DEF Spec

-----------------------------------------------------------------------------
\* A placed request joins the count of its node, if it is counted at all.
LEMMA PlaceCounts ==
    ASSUME TypeOK, NEW r \in Requests, NEW n \in Nodes, Place(r, n), NEW m \in Nodes
    PROVE  Cardinality(Counted(m)') =
             IF m = n /\ counted'[r] THEN Cardinality(Counted(m)) + 1
             ELSE Cardinality(Counted(m))
<1>1. r \notin Counted(m)
  BY ClusterAssumption DEF Place, Counted, Running, Nobody, ClusterAssumption
<1>2. Counted(m)' = IF m = n /\ counted'[r] THEN Counted(m) \cup {r} ELSE Counted(m)
  BY <1>1 DEF TypeOK, Place, Counted, Running
<1>3. IsFiniteSet(Counted(m))
  BY CountedFinite
<1>4. Cardinality(Counted(m) \cup {r}) = Cardinality(Counted(m)) + 1
  BY <1>1, <1>3, FS_AddElement
<1> QED BY <1>2, <1>4

\* A request that leaves takes itself out of the count of its node.
LEMMA LeaveCounts ==
    ASSUME TypeOK, NEW r \in Requests, at[r] # Nobody, Leave(r), NEW m \in Nodes
    PROVE  Cardinality(Counted(m)') =
             IF m = at[r] /\ counted[r] THEN Cardinality(Counted(m)) - 1
             ELSE Cardinality(Counted(m))
<1>1. Counted(m)' = Counted(m) \ {r}
  BY ClusterAssumption DEF TypeOK, Leave, Counted, Running, Nobody, ClusterAssumption
<1>2. r \in Counted(m) <=> m = at[r] /\ counted[r]
  BY DEF Counted, Running
<1>3. IsFiniteSet(Counted(m))
  BY CountedFinite
<1>4. CASE r \in Counted(m)
  BY <1>1, <1>2, <1>3, <1>4, FS_RemoveElement
<1>5. CASE r \notin Counted(m)
  <2>1. Counted(m)' = Counted(m)
    BY <1>1, <1>5
  <2> QED BY <1>2, <1>5, <2>1
<1> QED BY <1>4, <1>5

\* Steps that move no request keep every count.
LEMMA StillCounts ==
    ASSUME UNCHANGED requests, NEW m \in Nodes
    PROVE  Cardinality(Counted(m)') = Cardinality(Counted(m))
<1>1. Counted(m)' = Counted(m)
  BY DEF requests, Counted, Running
<1> QED BY <1>1

\* A record leaves the bound intact, however many of its writes are done.
LEMMA WritesDrift ==
    ASSUME TypeOK, DriftBound, TypeOK', NEW k \in 0 .. 4, NEW s, NEW c \in Int,
           c <= MaxModels, Writes(k, s, c), UNCHANGED requests
    PROVE  DriftBound'
<1> SUFFICES ASSUME NEW n \in Nodes
             PROVE  active'[n] <= Cardinality(Counted(n)') + leaked'[n] + MaxModels
  BY DEF DriftBound
<1>1. /\ active[n] <= Cardinality(Counted(n)) + leaked[n] + MaxModels
      /\ active[n] \in Int /\ leaked[n] \in Nat /\ MaxModels \in Nat
      /\ Cardinality(Counted(n)) \in Nat
  BY CountedFinite, ClusterAssumption DEF DriftBound, TypeOK, ClusterAssumption
<1>2. Cardinality(Counted(n)') = Cardinality(Counted(n))
  BY StillCounts
<1>3. \/ active'[n] = active[n] /\ leaked'[n] = leaked[n]
      \/ active'[n] = c /\ leaked'[n] = 0
  BY DEF TypeOK, Writes
<1> QED BY <1>1, <1>2, <1>3

LEMMA DriftStep ==
    TypeOK /\ DriftBound /\ [Next]_vars => DriftBound'
<1> SUFFICES ASSUME TypeOK, DriftBound, [Next]_vars, TypeOK' PROVE DriftBound'
  BY TypeStep
<1>0. \A n \in Nodes :
        /\ active[n] <= Cardinality(Counted(n)) + leaked[n] + MaxModels
        /\ active[n] \in Int /\ leaked[n] \in Nat /\ MaxModels \in Nat
        /\ Cardinality(Counted(n)) \in Nat
  BY CountedFinite, ClusterAssumption DEF DriftBound, TypeOK, ClusterAssumption
<1>1. ASSUME NEW r \in Requests, NEW n \in Nodes, Place(r, n) PROVE DriftBound'
  <2> SUFFICES ASSUME NEW m \in Nodes
               PROVE  active'[m] <= Cardinality(Counted(m)') + leaked'[m] + MaxModels
    BY DEF DriftBound
  <2>1. leaked'[m] = leaked[m]
    BY <1>1 DEF Place
  <2>2. active'[m] = IF m = n /\ counted'[r] THEN active[m] + 1 ELSE active[m]
    BY <1>1 DEF TypeOK, Place
  <2>3. Cardinality(Counted(m)') = IF m = n /\ counted'[r] THEN Cardinality(Counted(m)) + 1
                                   ELSE Cardinality(Counted(m))
    BY <1>1, PlaceCounts
  <2> QED BY <1>0, <2>1, <2>2, <2>3
<1>2. ASSUME NEW r \in Requests, at[r] # Nobody, Leave(r), UNCHANGED leaked,
             active' = [active EXCEPT ![at[r]] = IF counted[r] /\ @ > 0 THEN @ - 1 ELSE @]
      PROVE  DriftBound'
  <2> SUFFICES ASSUME NEW m \in Nodes
               PROVE  active'[m] <= Cardinality(Counted(m)') + leaked'[m] + MaxModels
    BY DEF DriftBound
  <2>1. active'[m] = IF m = at[r] /\ counted[r] /\ active[m] > 0 THEN active[m] - 1 ELSE active[m]
    BY <1>2 DEF TypeOK
  <2>2. Cardinality(Counted(m)') = IF m = at[r] /\ counted[r] THEN Cardinality(Counted(m)) - 1
                                   ELSE Cardinality(Counted(m))
    BY <1>2, LeaveCounts
  <2>3. m = at[r] /\ counted[r] => Cardinality(Counted(m)) # 0
    <3>1. m = at[r] /\ counted[r] => r \in Counted(m)
      BY DEF Counted, Running
    <3> QED BY <3>1, CountedFinite, FS_EmptySet
  <2> QED BY <1>0, <1>2, <2>1, <2>2, <2>3
<1>3. ASSUME NEW r \in Requests, Finish(r) PROVE DriftBound'
  BY <1>2, <1>3 DEF Finish
<1>4. ASSUME NEW r \in Requests, FinishLapsed(r) PROVE DriftBound'
  <2> SUFFICES ASSUME NEW m \in Nodes
               PROVE  active'[m] <= Cardinality(Counted(m)') + leaked'[m] + MaxModels
    BY DEF DriftBound
  <2>1. /\ active'[m] = IF m = at[r] THEN -1 ELSE active[m]
        /\ leaked'[m] = IF m = at[r] THEN 0 ELSE leaked[m]
    BY <1>4 DEF TypeOK, FinishLapsed
  <2>2. Cardinality(Counted(m)') = IF m = at[r] /\ counted[r] THEN Cardinality(Counted(m)) - 1
                                   ELSE Cardinality(Counted(m))
    BY <1>4, LeaveCounts DEF FinishLapsed
  <2>3. m = at[r] /\ counted[r] => Cardinality(Counted(m)) # 0
    <3>1. m = at[r] /\ counted[r] => r \in Counted(m)
      BY DEF Counted, Running
    <3> QED BY <3>1, CountedFinite, FS_EmptySet
  <2> QED BY <1>0, <1>4, <2>1, <2>2, <2>3 DEF FinishLapsed
<1>5. ASSUME NEW r \in Requests, Abandon(r) PROVE DriftBound'
  <2> SUFFICES ASSUME NEW m \in Nodes
               PROVE  active'[m] <= Cardinality(Counted(m)') + leaked'[m] + MaxModels
    BY DEF DriftBound
  <2>1. /\ active'[m] = active[m]
        /\ leaked'[m] = IF m = at[r] /\ counted[r] THEN leaked[m] + 1 ELSE leaked[m]
    BY <1>5 DEF TypeOK, Abandon
  <2>2. Cardinality(Counted(m)') = IF m = at[r] /\ counted[r] THEN Cardinality(Counted(m)) - 1
                                   ELSE Cardinality(Counted(m))
    BY <1>5, LeaveCounts DEF Abandon
  <2> QED BY <1>0, <2>1, <2>2
<1>6. ASSUME NEW k \in 0 .. 4, NEW s, NEW c \in Int, c <= MaxModels, Writes(k, s, c),
             UNCHANGED requests
      PROVE  DriftBound'
  BY <1>6, WritesDrift
<1>7. CASE Record
  <2>1. PICK m \in Loaded : Writes(4, Seen, m)
    BY <1>7 DEF Record
  <2>2. UNCHANGED requests
    BY <1>7 DEF Record, Move
  <2> QED BY <1>6, <2>1, <2>2, SeenType
<1>8. CASE RegistryFails
  <2>1. Writes(4, "down", 0) /\ UNCHANGED requests /\ 0 <= MaxModels
    BY <1>8, ClusterAssumption DEF RegistryFails, Move, ClusterAssumption
  <2> QED BY <1>6, <2>1
<1>9. CASE RecordFails
  <2>1. PICK k \in 0 .. 3, m \in Loaded : Writes(k, Seen, m)
    BY <1>9 DEF RecordFails
  <2>2. UNCHANGED requests /\ k \in 0 .. 4
    BY <1>9 DEF RecordFails, Move
  <2> QED BY <1>6, <2>1, <2>2, SeenType
<1>10. ASSUME UNCHANGED requests, UNCHANGED <<active, leaked>> PROVE DriftBound'
  BY <1>0, <1>10, StillCounts DEF DriftBound
<1>11. CASE Crash
  <2> SUFFICES ASSUME NEW m \in Nodes
               PROVE  active'[m] <= Cardinality(Counted(m)') + leaked'[m] + MaxModels
    BY DEF DriftBound
  <2>1. active'[m] = active[m] /\ leaked'[m] = leaked[m] + Cardinality(Counted(m))
    BY <1>11 DEF Crash, redis
  <2>2. Counted(m)' = {}
    BY <1>11 DEF Crash, Counted, Running
  <2>3. Cardinality(Counted(m)') = 0
    BY <2>2, FS_EmptySet
  <2> QED BY <1>0, <2>1, <2>3
<1>12. CASE Tick
  <2> SUFFICES ASSUME NEW m \in Nodes
               PROVE  active'[m] <= Cardinality(Counted(m)') + leaked'[m] + MaxModels
    BY DEF DriftBound
  <2>1. /\ active' = Lapse(active, activeTtl, 0) /\ leaked' = Lapse(leaked, activeTtl, 0)
        /\ UNCHANGED requests
    BY <1>12, Zenon DEF Tick
  <2>2. \/ active'[m] = active[m] /\ leaked'[m] = leaked[m]
        \/ active'[m] = 0 /\ leaked'[m] = 0
    BY <2>1 DEF Lapse
  <2>3. Cardinality(Counted(m)') = Cardinality(Counted(m))
    BY <2>1, StillCounts
  <2> QED BY <1>0, <2>2, <2>3
<1>13. ASSUME NEW r \in Requests, Dispatch(r) \/ DispatchBlind(r) PROVE DriftBound'
  <2>1. NodeSeq[1] \in Nodes
    BY ClusterAssumption DEF ClusterAssumption
  <2> QED BY <1>1, <1>13, <2>1 DEF Dispatch, DispatchBlind
<1>14. CASE Ping \/ Wake \/ Restart \/ (\E n \in Nodes : NodeChanges(n)) \/ UNCHANGED vars
  <2>1. UNCHANGED requests /\ UNCHANGED <<active, leaked>>
    BY <1>14 DEF Ping, Wake, Restart, NodeChanges, Move, redis, requests, vars
  <2> QED BY <1>10, <2>1
<1> QED BY <1>3, <1>4, <1>5, <1>7, <1>8, <1>9, <1>11, <1>12, <1>13, <1>14 DEF Next

\* In every instance the load recorded for a node exceeds the requests
\* counted on it by at most what one record can misstate and what leaked
\* since: DriftBound for any pool, any traffic and any sequence of faults.
THEOREM DriftCorrect == Spec => []DriftBound
<1>1. Init => DriftBound
  <2> SUFFICES ASSUME Init, NEW n \in Nodes
               PROVE  active[n] <= Cardinality(Counted(n)) + leaked[n] + MaxModels
    BY DEF DriftBound
  <2>1. Counted(n) = {}
    BY DEF Init, Counted, Running
  <2>2. Cardinality(Counted(n)) = 0
    BY <2>1, FS_EmptySet
  <2> QED BY <2>2, ClusterAssumption DEF Init, ClusterAssumption
<1> QED BY <1>1, TypeCorrect, DriftStep, PTL DEF Spec

\* No sequence of lapses drives the count of a node below -1.
THEOREM FloorCorrect == Spec => []CountFloor
<1>1. Init => CountFloor
  BY DEF Init, CountFloor
<1>2. TypeOK /\ CountFloor /\ [Next]_vars => CountFloor'
  <2> SUFFICES ASSUME TypeOK, CountFloor, [Next]_vars, NEW n \in Nodes PROVE active'[n] >= -1
    BY DEF CountFloor
  <2>0. active[n] \in Int /\ active[n] >= -1
    BY DEF TypeOK, CountFloor
  <2>1. ASSUME NEW r \in Requests, NEW m \in Nodes, Place(r, m) PROVE active'[n] >= -1
    BY <2>0, <2>1 DEF TypeOK, Place
  <2>2. ASSUME NEW r \in Requests, Dispatch(r) \/ DispatchBlind(r) PROVE active'[n] >= -1
    <3>1. NodeSeq[1] \in Nodes
      BY ClusterAssumption DEF ClusterAssumption
    <3> QED BY <2>1, <2>2, <3>1 DEF Dispatch, DispatchBlind
  <2>3. ASSUME NEW r \in Requests, Finish(r) \/ FinishLapsed(r) \/ Abandon(r)
        PROVE  active'[n] >= -1
    BY <2>0, <2>3 DEF TypeOK, Finish, FinishLapsed, Abandon
  <2>4. ASSUME NEW k, NEW s, NEW c \in Int, c >= 0, Writes(k, s, c) PROVE active'[n] >= -1
    BY <2>0, <2>4 DEF TypeOK, Writes
  <2>5. \A m \in Loaded : m \in Int /\ m >= 0
    BY ClusterAssumption DEF Loaded, ClusterAssumption
  <2>6. CASE Record \/ RegistryFails \/ RecordFails
    BY <2>4, <2>5, <2>6 DEF Record, RegistryFails, RecordFails
  <2>7. CASE Tick
    <3>1. active' = Lapse(active, activeTtl, 0)
      BY <2>7, Zenon DEF Tick
    <3> QED BY <2>0, <3>1 DEF Lapse
  <2>8. CASE Ping \/ Wake \/ Restart \/ Crash \/ (\E m \in Nodes : NodeChanges(m)) \/ UNCHANGED vars
    <3>1. active' = active
      BY <2>8 DEF Ping, Wake, Restart, Crash, NodeChanges, redis, vars
    <3> QED BY <2>0, <3>1
  <2> QED BY <2>2, <2>3, <2>6, <2>7, <2>8 DEF Next
<1> QED BY <1>1, <1>2, TypeCorrect, PTL DEF Spec

\* The count of a node stays within its bounds on both sides.
THEOREM BoundsCorrect == Spec => []CountBounds
<1>1. DriftBound /\ CountFloor => CountBounds
  BY DEF CountBounds
<1> QED BY <1>1, DriftCorrect, FloorCorrect, PTL
-----------------------------------------------------------------------------
(* How long a record lags behind its node *)

\* A full round of probes and the sleep after it.
Round == Len(NodeSeq) * MaxCheck + Interval

\* The ticks left, at most, before position q of the list is recorded.
ToRecord(q) ==
    IF loop.pc = "sleep" THEN Interval - loop.spent + q * MaxCheck
    ELSE IF loop.pos <= q THEN (q - loop.pos + 1) * MaxCheck - loop.spent
    ELSE (Len(NodeSeq) - loop.pos + 1 + q) * MaxCheck + Interval - loop.spent

\* Without faults the loop is in a probe or asleep, for as long as these may take.
OnSchedule ==
    /\ loop.pc \in {"ping", "record", "sleep"}
    /\ loop.pc # "sleep" => loop.spent <= MaxCheck
    /\ loop.pc = "sleep" => loop.spent <= Interval /\ loop.pos = 1

\* A node that contradicts what its probe saw has changed during that probe.
MissedLately ==
    loop.pc = "record" /\ Probed = watched /\ loop.saw # up[watched] => since <= loop.spent

Truth == IF up[watched] THEN "healthy" ELSE "degraded"

\* The record tells the truth and outlives the wait for the next one, or that one
\* comes within the time that Detect allows.
OnTime(q) ==
    \/ health[watched] = Truth /\ healthTtl[watched] > ToRecord(q)
    \/ since + ToRecord(q) <= Detect

TimedInv ==
    /\ TypeOK /\ watched \in Nodes /\ since \in Nat
    /\ faults = 0 =>
         /\ OnSchedule /\ MissedLately
         /\ \A q \in DOMAIN NodeSeq : NodeSeq[q] = watched => OnTime(q)

\* The stopwatch only watches.
LEMMA TimedImplements == TimedSpec => Spec
<1>1. TimedInit => Init
  BY DEF TimedInit
<1>2. [Next /\ Watch]_timedVars => [Next]_vars
  BY DEF timedVars
<1> QED BY <1>1, <1>2, PTL DEF TimedSpec, Spec

\* The constants as numbers, and the positions of the list.
LEMMA Numbers ==
    /\ Len(NodeSeq) \in Nat /\ Len(NodeSeq) > 0 /\ DOMAIN NodeSeq = 1 .. Len(NodeSeq)
    /\ MaxCheck \in Nat /\ MaxCheck > 0 /\ Interval \in Nat /\ Interval > 0 /\ KeyTTL \in Nat
    /\ Len(NodeSeq) * MaxCheck \in Nat
    /\ Round = Len(NodeSeq) * MaxCheck + Interval /\ Detect = Round + MaxCheck
<1>1. /\ Len(NodeSeq) \in Nat /\ Len(NodeSeq) > 0 /\ DOMAIN NodeSeq = 1 .. Len(NodeSeq)
      /\ MaxCheck \in Nat /\ MaxCheck > 0 /\ Interval \in Nat /\ Interval > 0 /\ KeyTTL \in Nat
  BY ClusterAssumption DEF ClusterAssumption
<1>2. \A n, m \in Nat : n * m \in Nat /\ (n + 1) * m = n * m + m
  OBVIOUS
<1> QED BY <1>1, <1>2 DEF Round, Detect

\* The loop's record, field by field.
LEMMA LoopFields ==
    ASSUME TypeOK
    PROVE  /\ loop.pc \in {"ping", "record", "sleep", "retry", "stopped"}
           /\ loop.pos \in 1 .. Len(NodeSeq) /\ loop.saw \in BOOLEAN /\ loop.spent \in Nat
<1>1. loop.pos \in DOMAIN NodeSeq /\ loop.spent \in 0 .. MaxCheck + Interval
  BY DEF TypeOK
<1> QED BY <1>1, Numbers DEF TypeOK

\* The wait for a record is never longer than a round.
LEMMA ToRecordBounds ==
    TypeOK /\ OnSchedule => \A q \in DOMAIN NodeSeq : ToRecord(q) \in 0 .. Round
<1> SUFFICES ASSUME TypeOK, OnSchedule, NEW q \in DOMAIN NodeSeq
             PROVE  ToRecord(q) \in 0 .. Round
  OBVIOUS
<1> DEFINE L == Len(NodeSeq)
           M == MaxCheck
<1>1. /\ L \in Nat /\ M \in Nat /\ Interval \in Nat /\ q \in 1 .. L /\ loop.pos \in 1 .. L
      /\ loop.spent \in Nat /\ Round = L * M + Interval
  BY Numbers, LoopFields
<1>2. \A a, b \in Nat : a <= b => a * M \in Nat /\ a * M <= b * M
  BY <1>1
<1> HIDE DEF L, M
<1>3. CASE loop.pc = "sleep"
  <2>1. q * M \in Nat /\ q * M <= L * M /\ loop.spent <= Interval
    BY <1>1, <1>2, <1>3 DEF OnSchedule
  <2> QED BY <1>1, <1>3, <2>1 DEF ToRecord, M
<1>4. CASE loop.pc # "sleep" /\ loop.pos <= q
  <2> DEFINE a == q - loop.pos + 1
  <2>1. a \in Nat /\ 1 <= a /\ a <= L
    BY <1>1, <1>4
  <2>2. ToRecord(q) = a * M - loop.spent /\ loop.spent <= M
    BY <1>4 DEF ToRecord, OnSchedule, M
  <2> HIDE DEF a
  <2>3. 1 * M <= a * M /\ a * M <= L * M /\ a * M \in Nat /\ 1 * M = M
    BY <1>1, <1>2, <2>1
  <2> QED BY <1>1, <2>2, <2>3
<1>5. CASE loop.pc # "sleep" /\ loop.pos > q
  <2> DEFINE a == L - loop.pos + 1 + q
  <2>1. a \in Nat /\ 1 <= a /\ a <= L
    BY <1>1, <1>5
  <2>2. ToRecord(q) = a * M + Interval - loop.spent /\ loop.spent <= M
    BY <1>1, <1>5 DEF ToRecord, OnSchedule, L, M
  <2> HIDE DEF a
  <2>3. 1 * M <= a * M /\ a * M <= L * M /\ a * M \in Nat /\ 1 * M = M
    BY <1>1, <1>2, <2>1
  <2> QED BY <1>1, <2>2, <2>3
<1> QED BY <1>1, <1>3, <1>4, <1>5

\* The same of the state after a step.
LEMMA ToRecordBoundsNext ==
    (TypeOK /\ OnSchedule => \A q \in DOMAIN NodeSeq : ToRecord(q) \in 0 .. Round)'
BY ToRecordBounds, PTL

\* The loop stays on schedule, and a record but the next brings every other closer.
LEMMA NextProbeWaits ==
    ASSUME TypeOK, TypeOK', OnSchedule, loop.pc = "record", loop' = NextProbe
    PROVE  /\ OnSchedule'
           /\ \A q \in DOMAIN NodeSeq : q # loop.pos => ToRecord(q)' <= ToRecord(q)
<1> DEFINE L == Len(NodeSeq)
           M == MaxCheck
<1>1. /\ L \in Nat /\ M \in Nat /\ Interval \in Nat /\ DOMAIN NodeSeq = 1 .. L
      /\ loop.pos \in 1 .. L /\ loop.spent \in Nat /\ loop.spent <= M
  BY Numbers, LoopFields DEF OnSchedule
<1>2. \/ loop.pos < L /\ loop'.pc = "ping" /\ loop'.pos = loop.pos + 1 /\ loop'.spent = 0
      \/ loop.pos = L /\ loop'.pc = "sleep" /\ loop'.pos = 1 /\ loop'.spent = 0
  BY <1>1 DEF NextProbe, Started
<1>3. OnSchedule'
  BY <1>1, <1>2 DEF OnSchedule
<1> HIDE DEF L, M
<1>4. ASSUME NEW q \in 1 .. L, q # loop.pos PROVE ToRecord(q)' <= ToRecord(q)
  <2> DEFINE p == loop.pos
             s == loop.spent
  <2>0. p \in 1 .. L /\ s \in Nat /\ s <= M
    BY <1>1
  <2>1. ToRecord(q) = IF p <= q THEN (q - p + 1) * M - s ELSE (L - p + 1 + q) * M + Interval - s
    BY DEF ToRecord, L, M
  <2>2. CASE p < L
    <3>1. ToRecord(q)' = IF p + 1 <= q THEN (q - (p + 1) + 1) * M - 0
                         ELSE (L - (p + 1) + 1 + q) * M + Interval - 0
      BY <1>2, <2>2, <1>1 DEF ToRecord, L, M
    <3> HIDE DEF p, s
    <3>2. CASE p < q
      <4>1. (q - p + 1) * M = (q - (p + 1) + 1) * M + M
        BY <1>1, <2>0
      <4>2. (q - (p + 1) + 1) * M \in Int
        BY <1>1, <2>0
      <4> QED BY <1>1, <2>0, <2>1, <3>1, <3>2, <4>1, <4>2
    <3>3. CASE p > q
      <4>1. (L - p + 1 + q) * M = (L - (p + 1) + 1 + q) * M + M
        BY <1>1, <2>0
      <4>2. (L - (p + 1) + 1 + q) * M \in Int
        BY <1>1, <2>0
      <4> QED BY <1>1, <2>0, <2>1, <3>1, <3>3, <4>1, <4>2
    <3> QED BY <1>4, <2>0, <3>2, <3>3, <1>1 DEF p
  <2>3. CASE p = L
    <3>1. ToRecord(q)' = Interval - 0 + q * M
      BY <1>2, <2>3, <1>1 DEF ToRecord, M
    <3> HIDE DEF p, s
    <3>2. q < p
      BY <1>1, <1>4, <2>3 DEF p
    <3>3. (L - p + 1 + q) * M = q * M + M /\ q * M \in Int
      BY <1>1, <2>3
    <3> QED BY <1>1, <2>0, <2>1, <3>1, <3>2, <3>3
  <2> QED BY <1>1, <2>2, <2>3
<1> QED BY <1>1, <1>3, <1>4

\* A tick of the clock is one off every wait.
LEMMA TickWaits ==
    ASSUME TypeOK, OnSchedule, Tick
    PROVE  /\ OnSchedule' /\ loop'.spent = loop.spent + 1
           /\ loop'.pc = loop.pc /\ loop'.pos = loop.pos /\ loop'.saw = loop.saw
           /\ \A q \in DOMAIN NodeSeq : ToRecord(q)' = ToRecord(q) - 1
<1>1. /\ loop.pc \in {"ping", "record"} => loop.spent < MaxCheck
      /\ loop.pc = "sleep" => loop.spent < Interval
      /\ loop' = IF loop.pc = "stopped" THEN loop ELSE [loop EXCEPT !.spent = @ + 1]
  BY Zenon DEF Tick
<1>2. /\ loop'.spent = loop.spent + 1
      /\ loop'.pc = loop.pc /\ loop'.pos = loop.pos /\ loop'.saw = loop.saw
  BY <1>1 DEF TypeOK, OnSchedule
<1>3. loop.pos \in 1 .. Len(NodeSeq) /\ loop.spent \in Nat /\ MaxCheck \in Nat /\ Interval \in Nat
  BY Numbers, LoopFields
<1>4. OnSchedule'
  BY <1>1, <1>2, <1>3 DEF OnSchedule
<1>5. ASSUME NEW q \in DOMAIN NodeSeq PROVE ToRecord(q)' = ToRecord(q) - 1
  <2>0. /\ q \in Int /\ q - loop.pos + 1 \in Int /\ Len(NodeSeq) - loop.pos + 1 + q \in Int
        /\ \A a, b \in Int : a * b \in Int
    BY <1>3, Numbers
  <2>1. /\ q * MaxCheck \in Int /\ (q - loop.pos + 1) * MaxCheck \in Int
        /\ (Len(NodeSeq) - loop.pos + 1 + q) * MaxCheck \in Int
    BY <1>3, <2>0, SMTT(30)
  <2>2. PICK s, v \in Int : s = loop.spent /\ v = Interval /\ loop'.spent = s + 1
    BY <1>2, <1>3
  <2>3. CASE loop.pc = "sleep"
    <3>1. PICK x \in Int : x = q * MaxCheck
      BY <2>1
    <3>2. ToRecord(q)' = v - (s + 1) + x
      BY <1>2, <2>2, <2>3, <3>1 DEF ToRecord
    <3>3. ToRecord(q) = v - s + x
      BY <2>2, <2>3, <3>1 DEF ToRecord
    <3> QED BY <3>2, <3>3
  <2>4. CASE loop.pc # "sleep" /\ loop.pos <= q
    <3>1. PICK x \in Int : x = (q - loop.pos + 1) * MaxCheck
      BY <2>1
    <3>2. ToRecord(q)' = x - (s + 1)
      BY <1>2, <2>2, <2>4, <3>1 DEF ToRecord
    <3>3. ToRecord(q) = x - s
      BY <2>2, <2>4, <3>1 DEF ToRecord
    <3> QED BY <3>2, <3>3
  <2>5. CASE loop.pc # "sleep" /\ ~ (loop.pos <= q)
    <3>1. PICK x \in Int : x = (Len(NodeSeq) - loop.pos + 1 + q) * MaxCheck
      BY <2>1
    <3>2. ToRecord(q)' = x + v - (s + 1)
      BY <1>2, <2>2, <2>5, <3>1 DEF ToRecord
    <3>3. ToRecord(q) = x + v - s
      BY <2>2, <2>5, <3>1 DEF ToRecord
    <3> QED BY <3>2, <3>3
  <2> QED BY <2>3, <2>4, <2>5
<1> QED BY <1>2, <1>4, <1>5

\* The round that follows a sleep begins where the sleep left off.
LEMMA WakeWaits ==
    ASSUME TypeOK, OnSchedule, Wake
    PROVE  /\ OnSchedule' /\ loop'.pc = "ping" /\ loop'.spent <= loop.spent
           /\ \A q \in DOMAIN NodeSeq : ToRecord(q)' = ToRecord(q)
<1>1. loop.pc = "sleep" /\ loop.spent = Interval /\ loop' = Started(1)
  BY DEF Wake, OnSchedule, Move
<1>2. loop'.pc = "ping" /\ loop'.spent = 0 /\ loop'.pos = 1
  BY <1>1 DEF Started
<1>3. ASSUME NEW q \in DOMAIN NodeSeq PROVE ToRecord(q)' = ToRecord(q)
  <2>1. q \in Nat /\ 1 <= q /\ Interval \in Nat /\ MaxCheck \in Nat
    BY Numbers
  <2>2. ToRecord(q)' = (q - 1 + 1) * MaxCheck - 0
    BY <1>2, <2>1 DEF ToRecord
  <2>3. ToRecord(q) = Interval - Interval + q * MaxCheck
    BY <1>1 DEF ToRecord
  <2>4. q - 1 + 1 = q /\ q * MaxCheck \in Int
    BY <2>1
  <2> QED BY <2>1, <2>2, <2>3, <2>4
<1> QED BY <1>1, <1>2, <1>3, Numbers DEF OnSchedule

\* A ping does not change the wait.
LEMMA PingWaits ==
    ASSUME TypeOK, OnSchedule, Ping
    PROVE  /\ OnSchedule' /\ loop'.pc = "record" /\ loop'.spent = loop.spent
           /\ loop'.pos = loop.pos /\ loop'.saw = up[Probed]
           /\ \A q \in DOMAIN NodeSeq : ToRecord(q)' = ToRecord(q)
<1>1. loop.pc = "ping" /\ loop' = [loop EXCEPT !.pc = "record", !.saw = up[Probed]]
  BY DEF Ping, Move
<1>2. /\ loop'.pc = "record" /\ loop'.spent = loop.spent
      /\ loop'.pos = loop.pos /\ loop'.saw = up[Probed]
  BY <1>1 DEF TypeOK
<1> QED BY <1>1, <1>2 DEF OnSchedule, ToRecord

\* The stopwatch stands still unless time passes or its node changes.
LEMMA WatchStands ==
    ASSUME TypeOK, TypeOK', since \in Nat, Watch
    PROVE  /\ since' \in Nat /\ watched' = watched
           /\ up'[watched] # up[watched] => since' = 0
           /\ up'[watched] = up[watched] /\ loop'.spent <= loop.spent => since' = since
           /\ up'[watched] = up[watched] /\ since <= Detect =>
                since' = since \/ since' = since + 1
           /\ up'[watched] = up[watched] /\ since <= Detect /\ loop'.spent > loop.spent =>
                since' = since + 1
           /\ since' <= since + 1
<1>1. loop.spent \in Nat /\ loop'.spent \in Nat
  <2>1. loop.spent \in 0 .. MaxCheck + Interval /\ loop'.spent \in 0 .. MaxCheck + Interval
    BY DEF TypeOK
  <2> QED BY <2>1, Numbers
<1>2. Detect \in Nat
  BY Numbers
<1> QED BY <1>1, <1>2 DEF Watch, Elapsed

\* Without a fault so far, no step was one.
LEMMA NoFault ==
    ASSUME TypeOK, Next, faults' = 0
    PROVE  /\ faults = 0
           /\ \/ \E r \in Requests : Dispatch(r) \/ Finish(r) \/ FinishLapsed(r)
              \/ Ping \/ Record \/ Wake \/ Restart \/ Tick
              \/ \E n \in Nodes : NodeChanges(n)
<1>1. faults \in Nat
  BY ClusterAssumption DEF TypeOK, ClusterAssumption
<1>2. ~ Fault
  BY <1>1 DEF Fault
<1>3. ~ (RegistryFails \/ RecordFails \/ Crash)
      /\ \A r \in Requests : ~ DispatchBlind(r) /\ ~ Abandon(r)
  BY <1>2 DEF RegistryFails, RecordFails, Crash, DispatchBlind, Abandon
<1>4. \/ \E r \in Requests : Dispatch(r) \/ Finish(r) \/ FinishLapsed(r)
      \/ Ping \/ Record \/ Wake \/ Restart \/ Tick
      \/ \E n \in Nodes : NodeChanges(n)
  BY <1>3 DEF Next
<1>5. faults' = faults
  BY <1>4, Zenon DEF Dispatch, Finish, FinishLapsed, Ping, Record, Wake, Restart, Tick, NodeChanges
<1> QED BY <1>4, <1>5

\* A step that leaves the loop, the nodes and the records alone.
LEMMA IdleTimed ==
    ASSUME TimedInv, faults = 0, UNCHANGED <<loop, up, health, healthTtl, watched, since>>
    PROVE  /\ OnSchedule' /\ MissedLately'
           /\ \A q \in DOMAIN NodeSeq : NodeSeq[q] = watched' => OnTime(q)'
<1>1. /\ OnSchedule /\ MissedLately
      /\ \A q \in DOMAIN NodeSeq : NodeSeq[q] = watched => OnTime(q)
  BY DEF TimedInv
<1> QED BY <1>1 DEF OnSchedule, MissedLately, OnTime, ToRecord, Truth, Probed

\* The node changes: its stopwatch starts, and a round remains for its record.
LEMMA ChangeTimed ==
    ASSUME TimedInv, TypeOK', faults = 0, Watch, NEW n \in Nodes, NodeChanges(n)
    PROVE  /\ OnSchedule' /\ MissedLately'
           /\ \A q \in DOMAIN NodeSeq : NodeSeq[q] = watched' => OnTime(q)'
<1>1. /\ TypeOK /\ OnSchedule /\ MissedLately /\ since \in Nat /\ watched \in Nodes
      /\ \A q \in DOMAIN NodeSeq : NodeSeq[q] = watched => OnTime(q)
  BY DEF TimedInv
<1>2. UNCHANGED <<loop, health, healthTtl>>
  BY DEF NodeChanges, redis
<1>3. CASE n # watched
  <2>1. up'[watched] = up[watched]
    BY <1>1, <1>3 DEF NodeChanges, TypeOK
  <2>2. loop'.spent <= loop.spent
    BY <1>1, <1>2, LoopFields
  <2>3. since' = since /\ watched' = watched
    BY <1>1, <2>1, <2>2, WatchStands
  <2> QED BY <1>1, <1>2, <2>1, <2>3 DEF OnSchedule, MissedLately, OnTime, ToRecord, Truth, Probed
<1>4. CASE n = watched
  <2>1. up'[watched] # up[watched]
    BY <1>1, <1>4 DEF NodeChanges, TypeOK
  <2>2. since' = 0 /\ watched' = watched
    BY <1>1, <2>1, WatchStands
  <2>3. OnSchedule'
    BY <1>1, <1>2 DEF OnSchedule
  <2>4. loop.spent \in Nat
    BY <1>1, LoopFields
  <2>5. MissedLately'
    BY <1>2, <2>2, <2>4 DEF MissedLately
  <2>6. ASSUME NEW q \in DOMAIN NodeSeq PROVE OnTime(q)'
    <3>1. ToRecord(q)' \in 0 .. Round
      BY <2>3, ToRecordBoundsNext
    <3>2. 0 + ToRecord(q)' <= Detect
      BY <3>1, Numbers
    <3> QED BY <2>2, <3>2 DEF OnTime
  <2> QED BY <2>3, <2>5, <2>6
<1> QED BY <1>3, <1>4

\* A probe begins: what it sees is what the node is.
LEMMA PingTimed ==
    ASSUME TimedInv, TypeOK', faults = 0, Watch, Ping
    PROVE  /\ OnSchedule' /\ MissedLately'
           /\ \A q \in DOMAIN NodeSeq : NodeSeq[q] = watched' => OnTime(q)'
<1>1. /\ TypeOK /\ OnSchedule /\ since \in Nat /\ watched \in Nodes
      /\ \A q \in DOMAIN NodeSeq : NodeSeq[q] = watched => OnTime(q)
  BY DEF TimedInv
<1>2. UNCHANGED <<up, health, healthTtl>>
  BY DEF Ping, Move, redis
<1>3. /\ OnSchedule' /\ loop'.spent = loop.spent /\ loop'.pos = loop.pos /\ loop'.saw = up[Probed]
      /\ \A q \in DOMAIN NodeSeq : ToRecord(q)' = ToRecord(q)
  BY <1>1, PingWaits
<1>4. since' = since /\ watched' = watched
  BY <1>1, <1>2, <1>3, LoopFields, WatchStands
<1> QED BY <1>1, <1>2, <1>3, <1>4 DEF MissedLately, OnTime, Truth, Probed

\* The loop wakes.
LEMMA WakeTimed ==
    ASSUME TimedInv, TypeOK', faults = 0, Watch, Wake
    PROVE  /\ OnSchedule' /\ MissedLately'
           /\ \A q \in DOMAIN NodeSeq : NodeSeq[q] = watched' => OnTime(q)'
<1>1. /\ TypeOK /\ OnSchedule /\ since \in Nat /\ watched \in Nodes
      /\ \A q \in DOMAIN NodeSeq : NodeSeq[q] = watched => OnTime(q)
  BY DEF TimedInv
<1>2. UNCHANGED <<up, health, healthTtl>>
  BY DEF Wake, Move, redis
<1>3. /\ OnSchedule' /\ loop'.pc = "ping" /\ loop'.spent <= loop.spent
      /\ \A q \in DOMAIN NodeSeq : ToRecord(q)' = ToRecord(q)
  BY <1>1, WakeWaits
<1>4. since' = since /\ watched' = watched
  BY <1>1, <1>2, <1>3, WatchStands
<1> QED BY <1>1, <1>2, <1>3, <1>4 DEF MissedLately, OnTime, Truth

\* Time passes: a true record stays in front of the next, a late one comes nearer.
LEMMA TickTimed ==
    ASSUME TimedInv, TypeOK', faults = 0, Watch, Tick
    PROVE  /\ OnSchedule' /\ MissedLately'
           /\ \A q \in DOMAIN NodeSeq : NodeSeq[q] = watched' => OnTime(q)'
<1>1. /\ TypeOK /\ OnSchedule /\ MissedLately /\ since \in Nat /\ watched \in Nodes
      /\ \A q \in DOMAIN NodeSeq : NodeSeq[q] = watched => OnTime(q)
  BY DEF TimedInv
<1>2. /\ up' = up
      /\ health' = Lapse(health, healthTtl, "none") /\ healthTtl' = Elapse(healthTtl)
  BY Zenon DEF Tick
<1>3. /\ OnSchedule' /\ loop'.spent = loop.spent + 1
      /\ loop'.pc = loop.pc /\ loop'.pos = loop.pos /\ loop'.saw = loop.saw
      /\ \A q \in DOMAIN NodeSeq : ToRecord(q)' = ToRecord(q) - 1
  BY <1>1, TickWaits
<1>4. /\ loop.spent \in Nat /\ Detect \in Nat /\ watched' = watched /\ since' \in Nat
      /\ since' <= since + 1
      /\ since <= Detect => since' = since + 1
  BY <1>1, <1>2, <1>3, LoopFields, Numbers, WatchStands
<1>5. MissedLately'
  BY <1>1, <1>2, <1>3, <1>4 DEF MissedLately, Probed
<1>6. ASSUME NEW q \in DOMAIN NodeSeq, NodeSeq[q] = watched PROVE OnTime(q)'
  <2>1. ToRecord(q) \in Nat /\ ToRecord(q)' \in Nat /\ ToRecord(q)' = ToRecord(q) - 1
    BY <1>1, <1>3, ToRecordBounds, ToRecordBoundsNext, Numbers
  <2>2. OnTime(q)
    BY <1>1, <1>6
  <2>3. CASE health[watched] = Truth /\ healthTtl[watched] > ToRecord(q)
    <3>1. healthTtl[watched] \in Nat
      BY <1>1, Numbers DEF TypeOK
    <3>2. healthTtl[watched] > 1
      BY <2>1, <2>3, <3>1
    <3>3. health'[watched] = health[watched] /\ healthTtl'[watched] = healthTtl[watched] - 1
      BY <1>1, <1>2, <3>1, <3>2 DEF Lapse, Elapse
    <3>4. healthTtl'[watched] > ToRecord(q)'
      BY <2>1, <2>3, <3>1, <3>3
    <3> QED BY <1>2, <1>4, <2>3, <3>3, <3>4 DEF OnTime, Truth
  <2>4. CASE since + ToRecord(q) <= Detect
    <3>1. since' + ToRecord(q)' <= Detect
      BY <1>1, <1>4, <2>1, <2>4
    <3> QED BY <3>1 DEF OnTime
  <2> QED BY <2>2, <2>3, <2>4 DEF OnTime
<1> QED BY <1>3, <1>4, <1>5, <1>6

\* The TTL of a record covers a round: the condition of Detected.
CoversRound == KeyTTL > Round

\* A record: a true one is good for a round, and what it missed is recent.
LEMMA RecordTimed ==
    ASSUME TimedInv, TypeOK', faults = 0, Watch, Record, CoversRound
    PROVE  /\ OnSchedule' /\ MissedLately'
           /\ \A q \in DOMAIN NodeSeq : NodeSeq[q] = watched' => OnTime(q)'
<1>1. /\ TypeOK /\ OnSchedule /\ MissedLately /\ since \in Nat /\ watched \in Nodes
      /\ \A q \in DOMAIN NodeSeq : NodeSeq[q] = watched => OnTime(q)
  BY DEF TimedInv
<1>2. /\ loop.pc = "record" /\ loop' = NextProbe /\ up' = up
      /\ health' = [health EXCEPT ![Probed] = Seen]
      /\ healthTtl' = [healthTtl EXCEPT ![Probed] = KeyTTL]
  BY DEF Record, Writes, Move
<1>3. OnSchedule' /\ \A q \in DOMAIN NodeSeq : q # loop.pos => ToRecord(q)' <= ToRecord(q)
  BY <1>1, <1>2, NextProbeWaits
<1>4. loop'.pc # "record" /\ loop'.spent = 0 /\ loop.spent \in Nat /\ loop.spent <= MaxCheck
  BY <1>1, <1>2, LoopFields DEF NextProbe, Started, OnSchedule
<1>5. since' = since /\ watched' = watched
  BY <1>1, <1>2, <1>4, WatchStands
<1>6. MissedLately'
  BY <1>4 DEF MissedLately
<1>7. ASSUME NEW q \in DOMAIN NodeSeq, NodeSeq[q] = watched PROVE OnTime(q)'
  <2>1. ToRecord(q)' \in Nat /\ ToRecord(q)' <= Round
    BY <1>3, ToRecordBoundsNext, Numbers
  <2>2. ToRecord(q) \in Nat /\ OnTime(q)
    BY <1>1, <1>7, ToRecordBounds, Numbers
  <2>3. CASE Probed = watched /\ loop.saw = up[watched]
    <3>1. health'[watched] = Truth'
      BY <1>1, <1>2, <1>5, <2>3 DEF TypeOK, Seen, Truth
    <3>2. healthTtl'[watched] = KeyTTL
      BY <1>1, <1>2, <2>3 DEF TypeOK
    <3>3. KeyTTL > ToRecord(q)'
      BY <2>1, Numbers DEF CoversRound
    <3> QED BY <1>5, <3>1, <3>2, <3>3 DEF OnTime
  <2>4. CASE Probed = watched /\ loop.saw # up[watched]
    <3>1. since <= loop.spent
      BY <1>1, <1>2, <2>4 DEF MissedLately
    <3>2. since' + ToRecord(q)' <= Detect
      BY <1>1, <1>4, <1>5, <2>1, <3>1, Numbers
    <3> QED BY <3>2 DEF OnTime
  <2>5. CASE Probed # watched
    <3>1. ToRecord(q)' <= ToRecord(q)
      BY <1>3, <1>7, <2>5 DEF Probed
    <3>2. health'[watched] = health[watched] /\ healthTtl'[watched] = healthTtl[watched]
      BY <1>1, <1>2, <2>5 DEF TypeOK
    <3>3. healthTtl[watched] \in Nat /\ Truth' = Truth
      BY <1>1, <1>2, <1>5, Numbers DEF TypeOK, Truth
    <3>4. healthTtl[watched] > ToRecord(q) => healthTtl'[watched] > ToRecord(q)'
      BY <2>1, <2>2, <3>1, <3>2, <3>3
    <3>5. since + ToRecord(q) <= Detect => since' + ToRecord(q)' <= Detect
      BY <1>1, <1>5, <2>1, <2>2, <3>1, Numbers
    <3> QED BY <1>5, <2>2, <3>2, <3>3, <3>4, <3>5 DEF OnTime
  <2> QED BY <2>3, <2>4, <2>5
<1> QED BY <1>3, <1>5, <1>6, <1>7

LEMMA TimedStep ==
    ASSUME CoversRound, TimedInv, [Next /\ Watch]_timedVars
    PROVE  TimedInv'
<1>1. TypeOK /\ since \in Nat /\ watched \in Nodes
  BY DEF TimedInv
<1>2. TypeOK'
  BY <1>1, TypeStep DEF timedVars
<1>3. CASE UNCHANGED timedVars
  <2>1. UNCHANGED <<loop, up, health, healthTtl, watched, since, faults>>
    BY <1>3 DEF timedVars, vars
  <2> QED BY <1>1, <1>2, <2>1, IdleTimed DEF TimedInv
<1>4. CASE Next /\ Watch
  <2>1. since' \in Nat /\ watched' \in Nodes
    BY <1>1, <1>2, <1>4, WatchStands
  <2>2. ASSUME faults' = 0
        PROVE  /\ OnSchedule' /\ MissedLately'
               /\ \A q \in DOMAIN NodeSeq : NodeSeq[q] = watched' => OnTime(q)'
    <3>1. /\ faults = 0
          /\ \/ \E r \in Requests : Dispatch(r) \/ Finish(r) \/ FinishLapsed(r)
             \/ Ping \/ Record \/ Wake \/ Restart \/ Tick
             \/ \E n \in Nodes : NodeChanges(n)
      BY <1>1, <1>4, <2>2, NoFault
    <3>2. CASE \E r \in Requests : Dispatch(r) \/ Finish(r) \/ FinishLapsed(r)
      <4>1. UNCHANGED <<loop, up, health, healthTtl>>
        BY <3>2 DEF Dispatch, Place, Finish, FinishLapsed, Leave
      <4>2. loop'.spent <= loop.spent
        BY <1>1, <4>1, LoopFields
      <4>3. since' = since /\ watched' = watched
        BY <1>1, <1>2, <1>4, <4>1, <4>2, WatchStands
      <4> QED BY <3>1, <4>1, <4>3, IdleTimed
    <3>3. ~ Restart
      BY <3>1 DEF Restart, TimedInv, OnSchedule
    <3> QED BY <1>2, <1>4, <3>1, <3>2, <3>3,
                PingTimed, WakeTimed, TickTimed, RecordTimed, ChangeTimed
  <2> QED BY <1>2, <2>1, <2>2 DEF TimedInv
<1> QED BY <1>3, <1>4

\* If the TTL covers a round, then without faults the record of every node, up to
\* a round and a probe after it changed, tells the truth, in pools of any size.
THEOREM DetectedCorrect == ASSUME CoversRound PROVE TimedSpec => []Detected
<1>1. TimedInit => TimedInv
  <2> SUFFICES ASSUME TimedInit PROVE TimedInv
    OBVIOUS
  <2>1. TypeOK /\ watched \in Nodes /\ since = 0
    BY LoopStates, ClusterAssumption
       DEF TimedInit, Init, TypeOK, Started, Statuses, Nobody, ClusterAssumption
  <2>2. loop.pc = "ping" /\ loop.spent = 0
    BY DEF TimedInit, Init, Started
  <2>3. OnSchedule /\ MissedLately
    BY <2>2, Numbers DEF OnSchedule, MissedLately
  <2>4. ASSUME NEW q \in DOMAIN NodeSeq PROVE OnTime(q)
    <3>1. ToRecord(q) \in 0 .. Round
      BY <2>1, <2>3, ToRecordBounds
    <3>2. 0 + ToRecord(q) <= Detect
      BY <3>1, Numbers
    <3> QED BY <2>1, <3>2 DEF OnTime
  <2> QED BY <2>1, <2>3, <2>4 DEF TimedInv
<1>2. TimedInv /\ [Next /\ Watch]_timedVars => TimedInv'
  BY TimedStep
<1>3. TimedInv => Detected
  <2> SUFFICES ASSUME TimedInv, faults = 0, since > Detect PROVE health[watched] = Truth
    BY DEF Detected, Truth
  <2>1. PICK q \in DOMAIN NodeSeq : NodeSeq[q] = watched
    BY ClusterAssumption DEF TimedInv, ClusterAssumption
  <2>2. OnTime(q) /\ ToRecord(q) \in Nat
    BY <2>1, ToRecordBounds, Numbers DEF TimedInv
  <2>3. since \in Nat /\ Detect \in Nat
    BY Numbers DEF TimedInv
  <2> QED BY <2>2, <2>3 DEF OnTime
<1> QED BY <1>1, <1>2, <1>3, PTL DEF TimedSpec
=============================================================================
