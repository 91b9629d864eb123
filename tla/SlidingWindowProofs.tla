------------------------ MODULE SlidingWindowProofs ------------------------
(***************************************************************************)
(* Proofs about SlidingWindow, for every set of requests, pool size, limit,*)
(* window, slack and bound on the clock.                                   *)
(*                                                                         *)
(* Base: typing, and who is in the pool and in the sorted set.  With it    *)
(* the overshoot bound is inductive.  Cover: why no member is forgotten    *)
(* while its timestamp is in the window, when no call is delayed for more  *)
(* than the slack of the TTL.  SeesWindow: what a call is about to count,  *)
(* when none takes as long as the window.  The four commands implement     *)
(* WindowLimit by these together.                                          *)
(***************************************************************************)
EXTENDS SlidingWindow, FiniteSetTheorems, TLAPS

Adding == {r \in Requests : pc[r] = "add"}

\* The calls in progress fit the pool, and started at most Stall ticks ago.
Pool ==
    /\ IsFiniteSet(Busy)
    /\ Cardinality(Busy) <= Threads
    /\ \A r \in Requests : now[r] <= clock
    /\ \A r \in Busy : clock <= now[r] + Stall

\* Members of the sorted set are calls that reached ZADD.
Members ==
    /\ IsFiniteSet(zset)
    /\ \A r \in zset : pc[r] \in {"expire", "passed", "half"}

Base == TypeOK /\ Pool /\ Members

\* The TTL outlasts every member whose call set it.
Renewed ==
    \A r \in zset : pc[r] = "passed" =>
        expireAt # NoTTL /\ expireAt >= now[r] + Window + Slack

\* A call that has evicted was late enough, for the renewed members it left,
\* or early enough, for those renewed since, to be outlived by the TTL.
Outlived ==
    \A r \in Requests, x \in zset :
        pc[r] \in {"count", "add", "expire"} /\ pc[x] = "passed" =>
            expireAt > now[r] + Slack

\* A TTL is held up by a member that renewed it or by a call about to renew it.
HeldUp ==
    NoHalf /\ expireAt # NoTTL =>
        \/ \E x \in zset : pc[x] = "passed"
        \/ \E x \in Requests : pc[x] = "expire" /\ expireAt > now[x] + Slack

Cover == Renewed /\ Outlived /\ HeldUp /\ Counted

\* What a call sees between its eviction and its ZCARD is in its window.
SeesWindow ==
    \A r \in Requests : pc[r] = "count" =>
        \A q \in zset : now[q] > now[r] - Window

-----------------------------------------------------------------------------
\* The initial state satisfies Base.
LEMMA InitBase == Init => Base
  <1> SUFFICES ASSUME Init PROVE Base
      OBVIOUS
  <1>1. Busy = {}
      BY DEF Init, Busy, Running
  <1>2. IsFiniteSet({}) /\ Cardinality({}) = 0
      BY FS_EmptySet
  <1>3. TypeOK
      BY DEF Init, TypeOK, NoTTL
  <1>4. Pool
      BY <1>1, <1>2, SlidingWindowAssumption DEF Init, Pool, Busy
  <1>5. Members
      BY <1>2 DEF Init, Members
  <1>6. QED
      BY <1>3, <1>4, <1>5 DEF Base

\* Types are preserved by every step.
LEMMA NextType == Base /\ [Next]_vars => TypeOK'
  <1> SUFFICES ASSUME Base, [Next]_vars PROVE TypeOK'
      OBVIOUS
  <1> USE SlidingWindowAssumption DEF Base, TypeOK, NoTTL, Running, Ended
  <1>1. ASSUME NEW r \in Requests, Begin(r) PROVE TypeOK'
      BY <1>1 DEF Begin, Goto
  <1>2. ASSUME NEW r \in Requests, Evict(r) PROVE TypeOK'
      BY <1>2 DEF Evict, Keep, Goto
  <1>3. ASSUME NEW r \in Requests, Count(r) PROVE TypeOK'
      BY <1>3 DEF Count, Goto
  <1>4. ASSUME NEW r \in Requests, Add(r) PROVE TypeOK'
    <2>1. zset' \subseteq Requests /\ zset' # {}
        BY <1>4 DEF Add
    <2>2. pc' \in [Requests -> {"idle"} \cup Running \cup Ended]
        BY <1>4 DEF Add, Goto
    <2>3. QED
        BY <1>4, <2>1, <2>2 DEF Add
  <1>5. ASSUME NEW r \in Requests, Expire(r) PROVE TypeOK'
      BY <1>5 DEF Expire, Goto
  <1>6. ASSUME NEW r \in Requests, Fail(r) PROVE TypeOK'
      BY <1>6 DEF Fail, Goto
  <1>7. ASSUME Tick PROVE TypeOK'
      BY <1>7 DEF Tick
  <1>8. ASSUME UNCHANGED vars PROVE TypeOK'
      BY <1>8 DEF vars
  <1>9. QED
      BY <1>1, <1>2, <1>3, <1>4, <1>5, <1>6, <1>7, <1>8 DEF Next

\* The pool of calls in progress: only Begin enlarges it.
LEMMA NextPool == Base /\ [Next]_vars => Pool'
  <1> SUFFICES ASSUME Base, [Next]_vars PROVE Pool'
      OBVIOUS
  <1> USE SlidingWindowAssumption DEF Base, TypeOK, Pool
  <1>1. ASSUME NEW r \in Requests, Begin(r) PROVE Pool'
    <2>1. Busy' = Busy \cup {r}
        BY <1>1 DEF Begin, Goto, Busy, Running
    <2>2. r \notin Busy
        BY <1>1 DEF Begin, Busy, Running
    <2>3. IsFiniteSet(Busy') /\ Cardinality(Busy') = Cardinality(Busy) + 1
        BY <2>1, <2>2, FS_AddElement
    <2>4. Cardinality(Busy) \in Nat /\ Cardinality(Busy) < Threads
        BY <1>1, FS_CardinalityType DEF Begin
    <2>5. Cardinality(Busy') <= Threads
        BY <2>3, <2>4
    <2>6. \A q \in Requests : now'[q] <= clock'
        BY <1>1 DEF Begin
    <2>7. \A q \in Busy' : clock' <= now'[q] + Stall
      <3>1. clock' = clock /\ clock <= clock + Stall
          BY <1>1 DEF Begin
      <3>2. now' = [now EXCEPT ![r] = clock]
          BY <1>1 DEF Begin
      <3>3. Busy \subseteq Requests
          BY DEF Busy
      <3>4. QED
          BY <2>1, <3>1, <3>2, <3>3
    <2>8. QED
        BY <2>3, <2>5, <2>6, <2>7
  <1>2. ASSUME Busy' \subseteq Busy, UNCHANGED <<clock, now>> PROVE Pool'
    <2>1. IsFiniteSet(Busy') /\ Cardinality(Busy') <= Cardinality(Busy)
        BY <1>2, FS_Subset
    <2>2. Cardinality(Busy) \in Nat /\ Cardinality(Busy') \in Nat
        BY <2>1, FS_CardinalityType
    <2>3. QED
        BY <1>2, <2>1, <2>2
  <1>3. ASSUME NEW r \in Requests,
               Evict(r) \/ Count(r) \/ Add(r) \/ Expire(r) \/ Fail(r)
        PROVE  Pool'
    <2>1. Busy' \subseteq Busy
        BY <1>3 DEF Evict, Count, Add, Expire, Fail, Goto, Busy, Running
    <2>2. UNCHANGED <<clock, now>>
        BY <1>3 DEF Evict, Count, Add, Expire, Fail
    <2>3. QED
        BY <1>2, <2>1, <2>2
  <1>4. ASSUME Tick PROVE Pool'
    <2>1. Busy' = Busy /\ now' = now /\ clock' = clock + 1
        BY <1>4 DEF Tick, Busy
    <2>2. \A q \in Busy : clock + 1 <= now[q] + Stall
        BY <1>4 DEF Tick, Busy
    <2>3. QED
        BY <2>1, <2>2
  <1>5. ASSUME UNCHANGED vars PROVE Pool'
      BY <1>2, <1>5 DEF vars, Busy
  <1>6. QED
      BY <1>1, <1>3, <1>4, <1>5 DEF Next

\* The sorted set stays finite and holds calls that reached ZADD.
LEMMA NextMembers == Base /\ [Next]_vars => Members'
  <1> SUFFICES ASSUME Base, [Next]_vars PROVE Members'
      OBVIOUS
  <1> USE DEF Base, TypeOK, Members
  <1>1. ASSUME zset' \subseteq zset PROVE IsFiniteSet(zset')
      BY <1>1, FS_Subset
  <1>2. ASSUME NEW r \in Requests,
               Begin(r) \/ Evict(r) \/ Count(r) \/ Expire(r) \/ Fail(r)
        PROVE  Members'
    <2>1. zset' \subseteq zset
        BY <1>2 DEF Begin, Evict, Keep, Count, Expire, Fail
    <2>2. \A q \in zset : pc'[q] \in {"expire", "passed", "half"}
        BY <1>2 DEF Begin, Evict, Count, Expire, Fail, Goto, Running
    <2>3. QED
        BY <1>1, <2>1, <2>2
  <1>3. ASSUME NEW r \in Requests, Add(r) PROVE Members'
    <2>1. IsFiniteSet(zset')
        BY <1>3, FS_AddElement DEF Add
    <2>2. \A q \in zset' : pc'[q] \in {"expire", "passed", "half"}
        BY <1>3 DEF Add, Goto
    <2>3. QED
        BY <2>1, <2>2
  <1>4. ASSUME Tick PROVE Members'
      BY <1>1, <1>4 DEF Tick
  <1>5. ASSUME UNCHANGED vars PROVE Members'
      BY <1>5 DEF vars
  <1>6. QED
      BY <1>2, <1>3, <1>4, <1>5 DEF Next

\* Base is inductive.
LEMMA NextBase == Base /\ [Next]_vars => Base'
  BY NextType, NextPool, NextMembers DEF Base

\* Base holds in every reachable state.
LEMMA BaseInvariant == Spec => []Base
  BY InitBase, NextBase, PTL DEF Spec

\* TypeOK is an invariant of the limiter.
THEOREM TypeCorrect == Spec => []TypeOK
  <1>1. Base => TypeOK
      BY DEF Base
  <1>2. QED
      BY <1>1, BaseInvariant, PTL

-----------------------------------------------------------------------------
\* OvershootBound is preserved: a call takes a place only when ZCARD left one,
\* and the calls holding a place they have not filled are in the pool.
LEMMA NextOvershoot ==
    Base /\ OvershootBound /\ [Next]_vars => OvershootBound'
  <1> SUFFICES ASSUME Base, OvershootBound, [Next]_vars PROVE OvershootBound'
      OBVIOUS
  <1> DEFINE Held == zset \cup Adding
  <1> USE SlidingWindowAssumption DEF Base, TypeOK
  <1>1. OvershootBound <=> (Cardinality(Held) <= Limit - 1 + Threads)
      BY DEF OvershootBound, Taken, Adding
  <1>2. OvershootBound' <=> (Cardinality(Held') <= Limit - 1 + Threads)
      BY DEF OvershootBound, Taken, Adding
  <1>3. Adding \subseteq Busy /\ IsFiniteSet(Adding)
    <2>1. Adding \subseteq Busy
        BY DEF Adding, Busy, Running
    <2>2. QED
        BY <2>1, FS_Subset DEF Pool
  <1>4. IsFiniteSet(Held) /\ Cardinality(Held) \in Nat
      BY <1>3, FS_Union, FS_CardinalityType DEF Members
  <1>5. ASSUME Held' \subseteq Held PROVE OvershootBound'
    <2>1. IsFiniteSet(Held') /\ Cardinality(Held') <= Cardinality(Held)
        BY <1>4, <1>5, FS_Subset
    <2>2. Cardinality(Held') \in Nat
        BY <2>1, FS_CardinalityType
    <2>3. QED
        BY <1>1, <1>2, <1>4, <2>1, <2>2
  <1>6. ASSUME NEW r \in Requests,
               Begin(r) \/ Evict(r) \/ Add(r) \/ Expire(r) \/ Fail(r)
        PROVE  OvershootBound'
    <2>1. Adding' \subseteq Adding
        BY <1>6 DEF Begin, Evict, Add, Expire, Fail, Goto, Adding, Running
    <2>2. CASE Add(r)
        BY <1>5, <2>1, <2>2 DEF Add, Goto, Adding
    <2>3. CASE Begin(r) \/ Evict(r) \/ Expire(r) \/ Fail(r)
      <3>1. zset' \subseteq zset
          BY <2>3 DEF Begin, Evict, Keep, Expire, Fail
      <3>2. QED
          BY <1>5, <2>1, <3>1
    <2>4. QED
        BY <1>6, <2>2, <2>3
  <1>7. ASSUME NEW r \in Requests, Count(r) PROVE OvershootBound'
    <2>1. CASE Cardinality(zset) >= Limit
      <3>1. Adding' \subseteq Adding /\ zset' = zset
          BY <1>7, <2>1 DEF Count, Goto, Adding
      <3>2. QED
          BY <1>5, <3>1
    <2>2. CASE ~(Cardinality(zset) >= Limit)
      <3>1. Adding' = Adding \cup {r} /\ zset' = zset
          BY <1>7, <2>2 DEF Count, Goto, Adding
      <3>2. Adding' \subseteq Busy
          BY <1>3, <1>7, <3>1 DEF Count, Busy, Running
      <3>3. IsFiniteSet(Adding') /\ Cardinality(Adding') <= Cardinality(Busy)
          BY <3>2, FS_Subset DEF Pool
      <3>4. IsFiniteSet(zset')
          BY <3>1 DEF Members
      <3>5. Cardinality(Held') =
              Cardinality(zset') + Cardinality(Adding') - Cardinality(zset' \cap Adding')
          BY <3>3, <3>4, FS_Union
      <3>6. IsFiniteSet(zset' \cap Adding')
          BY <3>4, FS_Subset
      <3>7. /\ Cardinality(zset) \in Nat /\ Cardinality(Busy) \in Nat
            /\ Cardinality(Adding') \in Nat /\ Cardinality(zset' \cap Adding') \in Nat
          BY <3>1, <3>3, <3>4, <3>6, FS_CardinalityType DEF Pool
      <3>8. Cardinality(Held') <= Limit - 1 + Threads
          BY <2>2, <3>1, <3>3, <3>5, <3>7 DEF Pool
      <3>9. QED
          BY <1>2, <3>8
    <2>3. QED
        BY <2>1, <2>2
  <1>8. ASSUME Tick \/ UNCHANGED vars PROVE OvershootBound'
    <2>1. zset' \subseteq zset /\ Adding' = Adding
        BY <1>8 DEF Tick, vars, Adding
    <2>2. QED
        BY <1>5, <2>1
  <1>9. QED
      BY <1>6, <1>7, <1>8 DEF Next

\* However the commands of concurrent calls interleave, the limit is overshot by
\* at most the number of other calls the pool runs at the same time.
THEOREM OvershootCorrect == Spec => []OvershootBound
  <1>1. Init => OvershootBound
    <2> SUFFICES ASSUME Init PROVE OvershootBound
        OBVIOUS
    <2>1. zset \cup {r \in Requests : pc[r] = "add"} = {}
        BY DEF Init
    <2>2. Cardinality({}) = 0
        BY FS_EmptySet
    <2>3. QED
        BY <2>1, <2>2, SlidingWindowAssumption DEF OvershootBound, Taken
  <1>2. QED
      BY <1>1, BaseInvariant, NextOvershoot, PTL DEF Spec

-----------------------------------------------------------------------------
\* The members whose TTL was renewed keep a TTL that outlasts them.
LEMMA NextRenewed == Base /\ Renewed /\ [Next]_vars => Renewed'
  <1> SUFFICES ASSUME Base, Renewed, [Next]_vars,
                      NEW x \in zset', pc'[x] = "passed"
               PROVE  expireAt' # NoTTL /\ expireAt' >= now'[x] + Window + Slack
      BY DEF Renewed
  <1> USE SlidingWindowAssumption DEF Base, TypeOK, NoTTL
  <1>1. ASSUME NEW r \in Requests, Begin(r) \/ Count(r) \/ Fail(r) 
        PROVE  expireAt' # NoTTL /\ expireAt' >= now'[x] + Window + Slack
      BY <1>1 DEF Begin, Count, Fail, Goto, Renewed, Members, Running
  <1>2. ASSUME NEW r \in Requests, Evict(r) 
        PROVE  expireAt' # NoTTL /\ expireAt' >= now'[x] + Window + Slack
      BY <1>2 DEF Evict, Keep, Goto, Renewed
  <1>3. ASSUME NEW r \in Requests, Add(r) 
        PROVE  expireAt' # NoTTL /\ expireAt' >= now'[x] + Window + Slack
      BY <1>3 DEF Add, Goto, Renewed
  <1>4. ASSUME NEW r \in Requests, Expire(r) 
        PROVE  expireAt' # NoTTL /\ expireAt' >= now'[x] + Window + Slack
      BY <1>4 DEF Expire, Pool
  <1>5. ASSUME Tick \/ UNCHANGED vars 
        PROVE  expireAt' # NoTTL /\ expireAt' >= now'[x] + Window + Slack
      BY <1>5 DEF Tick, vars, Renewed
  <1>6. QED
      BY <1>1, <1>2, <1>3, <1>4, <1>5 DEF Next

\* A call that evicts leaves members newer than its own time minus the window,
\* and a member renewed later is renewed after the call began.
LEMMA NextOutlived ==
    Base /\ Renewed /\ Outlived /\ [Next]_vars => Outlived'
  <1> SUFFICES ASSUME Base, Renewed, Outlived, [Next]_vars,
                      NEW q \in Requests, NEW x \in zset',
                      pc'[q] \in {"count", "add", "expire"}, pc'[x] = "passed"
               PROVE  expireAt' > now'[q] + Slack
      BY DEF Outlived
  <1> USE SlidingWindowAssumption DEF Base, TypeOK, NoTTL
  <1>1. ASSUME NEW r \in Requests, Begin(r) \/ Count(r) \/ Fail(r)
        PROVE  expireAt' > now'[q] + Slack
      BY <1>1 DEF Begin, Count, Fail, Goto, Outlived, Members, Running
  <1>2. ASSUME NEW r \in Requests, Evict(r) PROVE expireAt' > now'[q] + Slack
    <2>1. x \in zset /\ now[x] > now[r] - Window /\ pc[x] = "passed"
        BY <1>2 DEF Evict, Keep, Goto
    <2>2. expireAt' = expireAt /\ now' = now
        BY <1>2, <2>1 DEF Evict, Keep
    <2>3. CASE q = r
        BY <2>1, <2>2, <2>3 DEF Renewed
    <2>4. CASE q # r
        BY <1>2, <2>1, <2>2, <2>4 DEF Evict, Goto, Outlived
    <2>5. QED
        BY <2>3, <2>4
  <1>3. ASSUME NEW r \in Requests, Add(r) PROVE expireAt' > now'[q] + Slack
      BY <1>3 DEF Add, Goto, Outlived
  <1>4. ASSUME NEW r \in Requests, Expire(r) PROVE expireAt' > now'[q] + Slack
      BY <1>4 DEF Expire, Pool
  <1>5. ASSUME Tick \/ UNCHANGED vars PROVE expireAt' > now'[q] + Slack
      BY <1>5 DEF Tick, vars, Outlived
  <1>6. QED
      BY <1>1, <1>2, <1>3, <1>4, <1>5 DEF Next

\* When the last renewed member is evicted, the members left belong to calls
\* still to renew the TTL, and the TTL outlives the time they may take.
LEMMA NextHeldUp ==
    Base /\ Outlived /\ HeldUp /\ [Next]_vars => HeldUp'
  <1> SUFFICES ASSUME Base, Outlived, HeldUp, [Next]_vars,
                      NoHalf', expireAt' # NoTTL
               PROVE  \/ \E x \in zset' : pc'[x] = "passed"
                      \/ \E x \in Requests : pc'[x] = "expire" /\ expireAt' > now'[x] + Slack
      BY DEF HeldUp
  <1> DEFINE Held == \/ \E x \in zset : pc[x] = "passed"
                     \/ \E x \in Requests : pc[x] = "expire" /\ expireAt > now[x] + Slack
  <1> USE SlidingWindowAssumption DEF Base, TypeOK, NoTTL
  <1>1. NoHalf
      BY DEF NoHalf, Next, Begin, Evict, Count, Add, Expire, Fail, Tick, vars, Goto, Running
  <1>2. ASSUME NEW r \in Requests, Begin(r) \/ Count(r) \/ Add(r) PROVE Held'
    <2>1. Held
        BY <1>1, <1>2 DEF HeldUp, Begin, Count, Add
    <2>2. CASE \E x \in zset : pc[x] = "passed"
        BY <1>2, <2>2 DEF Begin, Count, Add, Goto
    <2>3. CASE \E x \in Requests : pc[x] = "expire" /\ expireAt > now[x] + Slack
        BY <1>2, <2>3 DEF Begin, Count, Add, Goto
    <2>4. QED
        BY <2>1, <2>2, <2>3
  <1>3. ASSUME NEW r \in Requests, Fail(r) PROVE Held'
    <2>1. Held /\ pc[r] # "expire"
        BY <1>1, <1>3 DEF HeldUp, Fail, Goto, NoHalf
    <2>2. pc' = [pc EXCEPT ![r] = "failed"] /\ pc[r] # "passed"
        BY <1>3, <2>1 DEF Fail, Goto, Running
    <2>3. QED
        BY <1>3, <2>1, <2>2 DEF Fail
  <1>4. ASSUME NEW r \in Requests, Evict(r) PROVE Held'
    <2>1. expireAt' = expireAt /\ zset' # {} /\ zset' \subseteq zset /\ now' = now
        BY <1>4 DEF Evict, Keep
    <2>2. pc[r] = "evict" /\ \A x \in Requests : x # r => pc'[x] = pc[x]
        BY <1>4 DEF Evict, Goto
    <2>3. CASE \E x \in Requests : pc[x] = "expire" /\ expireAt > now[x] + Slack
        BY <2>1, <2>2, <2>3
    <2>4. CASE \E x \in zset : pc[x] = "passed"
      <3>1. PICK z \in zset' : TRUE
          BY <2>1
      <3>2. pc[z] \in {"expire", "passed"}
          BY <1>1, <2>1, <3>1 DEF Members, NoHalf
      <3>3. pc[z] = "expire" => expireAt > now[z] + Slack
          BY <2>1, <2>4, <3>1 DEF Outlived
      <3>4. QED
          BY <2>1, <2>2, <3>1, <3>2, <3>3
    <2>5. QED
        BY <1>1, <2>1, <2>3, <2>4 DEF HeldUp
  <1>5. ASSUME NEW r \in Requests, Expire(r) PROVE Held'
    <2>1. zset' = zset /\ zset # {} /\ now' = now /\ expireAt' = clock + Window + Slack
        BY <1>5 DEF Expire
    <2>2. PICK z \in zset : TRUE
        BY <2>1
    <2>3. pc'[z] \in {"expire", "passed"}
        BY <1>1, <1>5, <2>2 DEF Expire, Goto, Members, NoHalf
    <2>4. expireAt' > now[z] + Slack
        BY <2>1, <2>2 DEF Pool
    <2>5. QED
        BY <2>1, <2>2, <2>3, <2>4
  <1>6. ASSUME Tick \/ UNCHANGED vars PROVE Held'
    <2>1. UNCHANGED <<pc, now, zset, expireAt>>
        BY <1>6 DEF Tick, vars
    <2>2. Held
        BY <1>1, <2>1 DEF HeldUp
    <2>3. QED
        BY <2>1, <2>2
  <1>7. QED
      BY <1>2, <1>3, <1>4, <1>5, <1>6 DEF Next

\* When a TTL runs out, no call is about to renew it (it would have been delayed
\* beyond the slack), so what Redis drops is older than the window.
LEMMA NextCounted ==
    ASSUME Stall <= Slack
    PROVE  Base /\ Cover /\ [Next]_vars => Counted'
  <1> SUFFICES ASSUME Stall <= Slack, Base, Cover, [Next]_vars, NoHalf',
                      NEW q \in Requests, pc'[q] \in {"expire", "passed"},
                      now'[q] > clock' - Window
               PROVE  q \in zset'
      BY DEF Counted, InWindow
  <1> USE SlidingWindowAssumption DEF Base, TypeOK, NoTTL, Cover
  <1>1. NoHalf
      BY DEF NoHalf, Next, Begin, Evict, Count, Add, Expire, Fail, Tick, vars, Goto, Running
  <1>2. pc[q] \in {"expire", "passed"} /\ now[q] > clock - Window => q \in zset
      BY <1>1 DEF Counted, InWindow
  <1>3. ASSUME NEW r \in Requests, Begin(r) \/ Count(r) \/ Fail(r) PROVE q \in zset'
      BY <1>1, <1>2, <1>3 DEF Begin, Count, Fail, Goto, Running
  <1>4. ASSUME NEW r \in Requests, Evict(r) PROVE q \in zset'
    <2>1. now[r] <= clock /\ clock' = clock /\ now' = now
        BY <1>4 DEF Evict, Pool
    <2>2. pc[q] \in {"expire", "passed"}
        BY <1>4 DEF Evict, Goto
    <2>3. q \in zset /\ now[q] > now[r] - Window
        BY <1>2, <2>1, <2>2
    <2>4. QED
        BY <1>4, <2>3 DEF Evict, Keep
  <1>5. ASSUME NEW r \in Requests, Add(r) \/ Expire(r) PROVE q \in zset'
      BY <1>2, <1>5 DEF Add, Expire, Goto
  <1>6. ASSUME Tick PROVE q \in zset'
    <2>1. /\ pc' = pc /\ now' = now /\ clock' = clock + 1
          /\ q \in zset
      <3>1. pc' = pc /\ now' = now /\ clock' = clock + 1
          BY <1>6 DEF Tick
      <3>2. now[q] > clock - Window
          BY <3>1
      <3>3. QED
          BY <1>2, <3>1, <3>2
    <2>2. \A x \in Requests : pc[x] = "expire" => clock + 1 <= now[x] + Slack
        BY <1>6 DEF Tick, Busy, Running
    <2>3. SUFFICES ASSUME expireAt # NoTTL, clock + 1 >= expireAt PROVE FALSE
        BY <1>6, <2>1 DEF Tick
    <2>4. ASSUME pc[q] = "passed" PROVE FALSE
        BY <2>1, <2>3, <2>4 DEF Renewed
    <2>5. pc[q] = "expire"
        BY <2>1, <2>4
    <2>6. CASE \E x \in zset : pc[x] = "passed"
        BY <2>2, <2>3, <2>5, <2>6 DEF Outlived
    <2>7. CASE \E x \in Requests : pc[x] = "expire" /\ expireAt > now[x] + Slack
        BY <2>2, <2>3, <2>7
    <2>8. QED
        BY <1>1, <2>3, <2>6, <2>7 DEF HeldUp
  <1>7. ASSUME UNCHANGED vars PROVE q \in zset'
      BY <1>2, <1>7 DEF vars
  <1>8. QED
      BY <1>3, <1>4, <1>5, <1>6, <1>7 DEF Next

\* Cover is inductive, and holds in every reachable state.
LEMMA CoverInvariant ==
    ASSUME Stall <= Slack
    PROVE  Spec => []Cover
  <1>1. Init => Cover
      BY DEF Init, Cover, Renewed, Outlived, HeldUp, Counted, InWindow, NoTTL
  <1>2. Base /\ Cover /\ [Next]_vars => Cover'
      BY NextRenewed, NextOutlived, NextHeldUp, NextCounted DEF Cover
  <1>3. QED
      BY <1>1, <1>2, BaseInvariant, PTL DEF Spec

\* If no call is delayed for longer than the "+ 5" of the TTL, and none fails
\* between ZADD and EXPIRE, no granted request is forgotten in its window.
THEOREM CountedCorrect ==
    ASSUME Stall <= Slack
    PROVE  Spec => []Counted
  <1>1. Cover => Counted
      BY DEF Cover
  <1>2. QED
      BY <1>1, CoverInvariant, PTL

\* Under the same conditions a window grants at most the limit and the calls
\* that can race for its last place.
THEOREM RateCorrect ==
    ASSUME Stall <= Slack
    PROVE  Spec => []RateBound
  <1>1. Base /\ Counted /\ OvershootBound => RateBound
    <2> SUFFICES ASSUME Base, Counted, OvershootBound, NoHalf
                 PROVE  Cardinality(InWindow(Granted)) <= Limit - 1 + Threads
        BY DEF RateBound
    <2> DEFINE Held == zset \cup Adding
    <2>1. InWindow(Granted) \subseteq Held
        BY DEF InWindow, Granted, Counted, Adding
    <2>2. IsFiniteSet(Adding)
      <3>1. Adding \subseteq Busy
          BY DEF Adding, Busy, Running
      <3>2. QED
          BY <3>1, FS_Subset DEF Base, Pool
    <2>3. IsFiniteSet(Held)
        BY <2>2, FS_Union DEF Base, Members
    <2>4. /\ IsFiniteSet(InWindow(Granted))
          /\ Cardinality(InWindow(Granted)) <= Cardinality(Held)
        BY <2>1, <2>3, FS_Subset
    <2>5. Cardinality(Held) \in Nat /\ Cardinality(InWindow(Granted)) \in Nat
        BY <2>3, <2>4, FS_CardinalityType
    <2>6. Cardinality(Held) <= Limit - 1 + Threads
        BY DEF OvershootBound, Taken, Adding
    <2>7. QED
        BY <2>4, <2>5, <2>6, SlidingWindowAssumption
  <1>2. QED
      BY <1>1, BaseInvariant, CountedCorrect, OvershootCorrect, PTL

\* Without a call that failed between ZADD and EXPIRE, an idle key has a TTL.
THEOREM TtlCorrect ==
    ASSUME Stall <= Slack
    PROVE  Spec => []TtlCovers
  <1>1. Base /\ Cover => TtlCovers
      BY DEF Base, TypeOK, Members, Cover, Renewed, TtlCovers, NoHalf
  <1>2. QED
      BY <1>1, BaseInvariant, CoverInvariant, PTL

-----------------------------------------------------------------------------
\* If no call takes as long as the window, what it evicts leaves it members of its
\* own window only, until its ZCARD.
LEMMA SeesWindowInvariant ==
    ASSUME Stall < Window
    PROVE  Spec => []SeesWindow
  <1> USE SlidingWindowAssumption DEF Base, TypeOK
  <1>1. Init => SeesWindow
      BY DEF Init, SeesWindow
  <1>2. ASSUME Stall < Window, Base, SeesWindow, [Next]_vars PROVE SeesWindow'
    <2> SUFFICES ASSUME NEW p \in Requests, pc'[p] = "count", NEW x \in zset'
                 PROVE  now'[x] > now'[p] - Window
        BY DEF SeesWindow
    <2> USE <1>2
    <2>1. ASSUME NEW r \in Requests, Begin(r) \/ Count(r) \/ Expire(r) \/ Fail(r)
          PROVE  now'[x] > now'[p] - Window
        BY <2>1 DEF Begin, Count, Expire, Fail, Goto, SeesWindow, Members, Running
    <2>2. ASSUME NEW r \in Requests, Evict(r) PROVE now'[x] > now'[p] - Window
        BY <2>2 DEF Evict, Keep, Goto, SeesWindow
    <2>3. ASSUME NEW r \in Requests, Add(r) PROVE now'[x] > now'[p] - Window
      <3>1. r \in Busy /\ pc[p] = "count" /\ now' = now /\ zset' = zset \cup {r}
          BY <2>3 DEF Add, Goto, Busy, Running
      <3>2. clock <= now[r] + Stall /\ now[p] <= clock
          BY <3>1 DEF Pool
      <3>3. QED
          BY <3>1, <3>2 DEF SeesWindow
    <2>4. ASSUME Tick \/ UNCHANGED vars PROVE now'[x] > now'[p] - Window
        BY <2>4 DEF Tick, vars, SeesWindow
    <2>5. QED
        BY <2>1, <2>2, <2>3, <2>4 DEF Next
  <1>3. QED
      BY <1>1, <1>2, BaseInvariant, PTL DEF Spec

\* If no call takes as long as the window, a refused call saw Limit members of
\* its own window.
THEOREM BlockCorrect ==
    ASSUME Stall < Window
    PROVE  Spec => BlockJustified
  <1>1. ASSUME Base, SeesWindow, [Next]_vars
        PROVE  [\A r \in Requests :
                  pc[r] = "count" /\ pc'[r] = "blocked" =>
                    Cardinality({q \in zset : now[q] > now[r] - Window}) >= Limit]_vars
    <2> SUFFICES ASSUME NEW r \in Requests, pc[r] = "count", pc'[r] = "blocked"
                 PROVE  Cardinality({q \in zset : now[q] > now[r] - Window}) >= Limit
        OBVIOUS
    <2>1. {q \in zset : now[q] > now[r] - Window} = zset
        BY <1>1 DEF SeesWindow
    <2>2. Count(r)
        BY <1>1 DEF Base, TypeOK, Next, Begin, Evict, Count, Add, Expire, Fail, Tick, vars,
                    Goto, Running
    <2>3. Cardinality(zset) >= Limit
        BY <2>2 DEF Count, Goto
    <2>4. QED
        BY <2>1, <2>3
  <1>2. QED
      BY <1>1, BaseInvariant, SeesWindowInvariant, PTL DEF Spec, BlockJustified

-----------------------------------------------------------------------------
(* The four commands implement WindowLimit *)

V == [r \in Requests |-> Verdict[pc[r]]]

LEMMA Verdicts ==
    /\ Verdict["idle"] = "none" /\ Verdict["evict"] = "asked" /\ Verdict["count"] = "asked"
    /\ Verdict["add"] = "granted" /\ Verdict["expire"] = "granted" /\ Verdict["passed"] = "granted"
    /\ Verdict["blocked"] = "refused" /\ Verdict["failed"] = "error" /\ Verdict["half"] = "lost"
  BY DEF Verdict

\* Where a call goes is what becomes of its verdict.
LEMMA Turning ==
    ASSUME Base, NEW r \in Requests, NEW l, Goto(r, l)
    PROVE  V[r] = Verdict[pc[r]] /\ V' = [V EXCEPT ![r] = Verdict[l]]
  <1>1. pc \in [Requests -> {"idle"} \cup Running \cup Ended] /\ pc' = [pc EXCEPT ![r] = l]
      BY DEF Base, TypeOK, Goto
  <1>2. pc'[r] = l /\ \A q \in Requests \ {r} : pc'[q] = pc[q]
      BY <1>1
  <1>3. V' = [q \in Requests |-> Verdict[pc'[q]]] /\ V = [q \in Requests |-> Verdict[pc[q]]]
      BY DEF V, Verdict
  <1>4. \A q \in Requests : V'[q] = [V EXCEPT ![r] = Verdict[l]][q]
      BY <1>2, <1>3
  <1>5. QED
      BY <1>3, <1>4

\* A call that goes on in the same way leaves every verdict as it was.
LEMMA Same ==
    ASSUME Base, NEW r \in Requests, NEW l, Goto(r, l), Verdict[pc[r]] = Verdict[l]
    PROVE  V' = V
  <1>1. V[r] = Verdict[l] /\ V' = [V EXCEPT ![r] = Verdict[l]] /\ r \in DOMAIN V
      BY Turning DEF V
  <1>2. QED
      BY <1>1 DEF V

\* Who has passed its ZCARD and not come to its ZADD, after one call went elsewhere.
LEMMA AddingMoves ==
    ASSUME Base, NEW r \in Requests, NEW l, Goto(r, l)
    PROVE  Adding' = IF l = "add" THEN Adding \cup {r} ELSE Adding \ {r}
  BY DEF Base, TypeOK, Goto, Adding

LEMMA TakenSplit == Taken = zset \cup Adding /\ Taken' = zset' \cup Adding'
  BY DEF Taken, Adding

\* Beginning, passing the count and failing are the steps a caller sees.
LEMMA BeginAsks ==
    ASSUME Base, NEW r \in Requests, Begin(r)
    PROVE  Promise!Ask(r)
  <1>1. Goto(r, "evict") /\ pc[r] = "idle" /\ now' = [now EXCEPT ![r] = clock]
        /\ UNCHANGED <<clock, zset>>
      BY DEF Begin
  <1>2. V[r] = "none" /\ V' = [V EXCEPT ![r] = "asked"]
      BY <1>1, Turning, Verdicts
  <1>3. Adding' = Adding
    <2>1. r \notin Adding /\ Adding' = Adding \ {r}
        BY <1>1, AddingMoves DEF Adding
    <2>2. QED
        BY <2>1
  <1>4. Taken' = Taken
      BY <1>1, <1>3, TakenSplit
  <1>5. QED
      BY <1>1, <1>2, <1>4 DEF Promise!Ask, Promise!Turns, V

\* WindowLimit counts as the limiter does.
LEMMA SameCount ==
    ASSUME NEW S
    PROVE  Promise!Cardinality(S) = Cardinality(S)
  BY DEF Promise!Cardinality, Cardinality

LEMMA CountDecides ==
    ASSUME Base, OvershootBound', SeesWindow, NEW r \in Requests, Count(r)
    PROVE  Promise!Grant(r) \/ Promise!Refuse(r)
  <1>1. pc[r] = "count" /\ UNCHANGED <<clock, now, zset>>
      BY DEF Count
  <1>2. r \notin Adding
      BY <1>1 DEF Adding
  <1>3. CASE Cardinality(zset) >= Limit
    <2>1. Goto(r, "blocked")
        BY <1>3 DEF Count
    <2>2. V[r] = "asked" /\ V' = [V EXCEPT ![r] = "refused"]
        BY <1>1, <2>1, Turning, Verdicts
    <2>3. Taken' = Taken
      <3>1. Adding' = Adding \ {r}
          BY <2>1, AddingMoves
      <3>2. QED
          BY <1>1, <1>2, <3>1, TakenSplit
    <2> DEFINE Seen == {q \in Taken : now[q] > now[r] - Window}
    <2>4. zset \subseteq Seen /\ Seen \subseteq zset \cup Adding
        BY <1>1, TakenSplit DEF SeesWindow
    <2>5. IsFiniteSet(zset \cup Adding)
      <3>1. IsFiniteSet(Adding)
        <4>1. Adding \subseteq Busy
            BY DEF Adding, Busy, Running
        <4>2. QED
            BY <4>1, FS_Subset DEF Base, Pool
      <3>2. QED
          BY <3>1, FS_Union DEF Base, Members
    <2>6. IsFiniteSet(Seen) /\ IsFiniteSet(zset)
        BY <2>4, <2>5, FS_Subset
    <2>7. Cardinality(zset) <= Cardinality(Seen) /\ Cardinality(Seen) \in Nat
          /\ Cardinality(zset) \in Nat
        BY <2>4, <2>6, FS_Subset, FS_CardinalityType
    <2>8. Cardinality(Seen) >= Limit
        BY <1>3, <2>7, SlidingWindowAssumption
    <2>9. QED
        BY <1>1, <2>2, <2>3, <2>8, SameCount DEF Promise!Refuse, Promise!Turns, V
  <1>4. CASE ~ (Cardinality(zset) >= Limit)
    <2>1. Goto(r, "add")
        BY <1>4 DEF Count
    <2>2. V[r] = "asked" /\ V' = [V EXCEPT ![r] = "granted"]
        BY <1>1, <2>1, Turning, Verdicts
    <2>3. Taken' = Taken \cup {r}
      <3>1. Adding' = Adding \cup {r}
          BY <2>1, AddingMoves
      <3>2. QED
          BY <1>1, <3>1, TakenSplit
    <2>4. Cardinality(Taken') <= Limit - 1 + Threads
        BY DEF OvershootBound
    <2>5. Limit - 1 + Threads = Limit + (Threads - 1)
        BY SlidingWindowAssumption
    <2>6. QED
        BY <1>1, <2>2, <2>3, <2>4, <2>5, SameCount DEF Promise!Grant, Promise!Turns, V
  <1>5. QED
      BY <1>3, <1>4

LEMMA FailFails ==
    ASSUME Base, NEW r \in Requests, Fail(r)
    PROVE  Promise!Fail(r)
  <1>1. pc[r] \in Running /\ UNCHANGED <<clock, now, zset>>
      BY DEF Fail
  <1>2. pc[r] # "expire" => r \notin zset
      BY <1>1 DEF Base, Members, Running
  <1>3. CASE pc[r] \in {"evict", "count"}
    <2>1. Goto(r, "failed")
        BY <1>3 DEF Fail
    <2>2. V[r] = "asked" /\ V' = [V EXCEPT ![r] = "error"]
        BY <1>3, <2>1, Turning, Verdicts
    <2>3. r \notin Adding /\ Adding' = Adding \ {r}
        BY <1>3, <2>1, AddingMoves DEF Adding
    <2>4. Taken' = Taken
        BY <1>1, <2>3, TakenSplit
    <2>5. QED
        BY <1>1, <2>2, <2>4 DEF Promise!Fail, Promise!Turns, V
  <1>4. CASE pc[r] = "add"
    <2>1. Goto(r, "failed")
        BY <1>4 DEF Fail
    <2>2. V[r] = "granted" /\ V' = [V EXCEPT ![r] = "error"]
        BY <1>4, <2>1, Turning, Verdicts
    <2>3. Adding' = Adding \ {r}
        BY <2>1, AddingMoves
    <2>4. Taken' = Taken \ {r}
        BY <1>1, <1>2, <1>4, <2>3, TakenSplit
    <2>5. QED
        BY <1>1, <2>2, <2>4 DEF Promise!Fail, Promise!Turns, V
  <1>5. CASE pc[r] = "expire"
    <2>1. Goto(r, "half")
        BY <1>5 DEF Fail
    <2>2. V[r] = "granted" /\ V' = [V EXCEPT ![r] = "lost"]
        BY <1>5, <2>1, Turning, Verdicts
    <2>3. r \notin Adding /\ Adding' = Adding \ {r}
        BY <1>5, <2>1, AddingMoves DEF Adding
    <2>4. Taken' = Taken
        BY <1>1, <2>3, TakenSplit
    <2>5. QED
        BY <1>1, <2>2, <2>4 DEF Promise!Fail, Promise!Turns, V
  <1>6. QED
      BY <1>1, <1>3, <1>4, <1>5 DEF Running

\* An eviction leaves what has left the window; storing a member and renewing the
\* TTL are not seen.
LEMMA EvictLeaves ==
    ASSUME Base, NEW r \in Requests, Evict(r)
    PROVE  Promise!Leave
  <1>1. /\ pc[r] = "evict" /\ Goto(r, "count") /\ UNCHANGED <<clock, now>>
        /\ zset' = {q \in zset : now[q] > now[r] - Window}
      BY DEF Evict, Keep
  <1>2. V' = V
      BY <1>1, Same, Verdicts
  <1>3. Adding' = Adding
    <2>1. r \notin Adding /\ Adding' = Adding \ {r}
        BY <1>1, AddingMoves DEF Adding
    <2>2. QED
        BY <2>1
  <1>4. Taken' \subseteq Taken
      BY <1>1, <1>3, TakenSplit
  <1>5. \A q \in Taken \ Taken' : now[q] <= clock' - Window
    <2> SUFFICES ASSUME NEW q \in Taken \ Taken' PROVE now[q] <= clock' - Window
        OBVIOUS
    <2>1. q \in zset /\ ~ (now[q] > now[r] - Window)
        BY <1>1, <1>3, TakenSplit
    <2>2. now[q] \in Nat /\ now[r] \in Nat /\ clock \in Nat /\ now[r] <= clock
        BY <2>1 DEF Base, TypeOK, Pool
    <2>3. QED
        BY <1>1, <2>1, <2>2, SlidingWindowAssumption
  <1>6. QED
      BY <1>1, <1>2, <1>4, <1>5 DEF Promise!Leave, V

LEMMA AddUnseen ==
    ASSUME Base, NEW r \in Requests, Add(r) \/ Expire(r)
    PROVE  UNCHANGED <<clock, now, V, Taken>>
  <1>1. CASE Add(r)
    <2>1. pc[r] = "add" /\ Goto(r, "expire") /\ zset' = zset \cup {r} /\ UNCHANGED <<clock, now>>
        BY <1>1 DEF Add
    <2>2. V' = V
        BY <2>1, Same, Verdicts
    <2>3. r \in Adding /\ Adding' = Adding \ {r}
        BY <2>1, AddingMoves DEF Adding
    <2>4. Taken' = Taken
        BY <2>1, <2>3, TakenSplit
    <2>5. QED
        BY <2>1, <2>2, <2>4
  <1>2. CASE Expire(r)
    <2>1. pc[r] = "expire" /\ Goto(r, "passed") /\ UNCHANGED <<clock, now, zset>>
        BY <1>2 DEF Expire
    <2>2. V' = V
        BY <2>1, Same, Verdicts
    <2>3. r \notin Adding /\ Adding' = Adding \ {r}
        BY <2>1, AddingMoves DEF Adding
    <2>4. Taken' = Taken
        BY <2>1, <2>3, TakenSplit
    <2>5. QED
        BY <2>1, <2>2, <2>4
  <1>3. QED
      BY <1>1, <1>2

\* The TTL runs out on nobody who is in the window, unless a call got lost.
LEMMA TickLeaves ==
    ASSUME Base, Counted', Tick
    PROVE  Promise!Leave
  <1>1. clock' = clock + 1 /\ UNCHANGED <<pc, now>> /\ (zset' = {} \/ zset' = zset)
      BY DEF Tick
  <1>2. V' = V /\ Adding' = Adding
      BY <1>1 DEF V, Verdict, Adding
  <1>3. Taken' \subseteq Taken
      BY <1>1, <1>2, TakenSplit
  <1>4. ASSUME NEW q \in Taken \ Taken'
        PROVE  now[q] <= clock' - Window \/ \E r \in Requests : V[r] = "lost"
    <2>1. q \in zset /\ q \in Requests /\ q \notin zset' /\ pc[q] \in {"expire", "passed", "half"}
        BY <1>2, TakenSplit DEF Base, TypeOK, Members
    <2>2. CASE \E r \in Requests : pc[r] = "half"
      <3>1. PICK r \in Requests : pc[r] = "half"
          BY <2>2
      <3>2. V[r] = "lost"
          BY <3>1, Verdicts DEF V
      <3>3. QED
          BY <3>2
    <2>3. CASE ~ \E r \in Requests : pc[r] = "half"
      <3>1. NoHalf' /\ pc'[q] \in {"expire", "passed"}
          BY <1>1, <2>1, <2>3 DEF NoHalf
      <3>2. ~ (now'[q] > clock' - Window)
          BY <2>1, <3>1 DEF Counted, InWindow
      <3>3. now[q] \in Nat /\ clock \in Nat /\ Window \in Nat
          BY <2>1, SlidingWindowAssumption DEF Base, TypeOK
      <3>4. QED
          BY <1>1, <3>2, <3>3
    <2>4. QED
        BY <2>2, <2>3
  <1>5. QED
      BY <1>1, <1>2, <1>3, <1>4 DEF Promise!Leave, V

\* If no call takes as long as the window or longer than the "+ 5" of the TTL, the
\* four commands of sliding_window_check implement WindowLimit: for every pool, limit
\* and interleaving, errors included.
THEOREM LimitImplemented ==
    ASSUME Stall <= Slack, Stall < Window
    PROVE  Spec => WindowLimitSpec
  <1>1. Init => Promise!Init
    <2> SUFFICES ASSUME Init PROVE Promise!Init
        OBVIOUS
    <2>1. Taken = {} /\ clock = 0 /\ now = [r \in Requests |-> 0]
        BY DEF Init, Taken
    <2>2. V = [r \in Requests |-> "none"]
        BY Verdicts DEF Init, V
    <2>3. QED
        BY <2>1, <2>2 DEF Promise!Init, V
  <1>2. Base /\ Counted' /\ OvershootBound' /\ SeesWindow /\ [Next]_vars
          => [Promise!Next]_(Promise!places)
    <2> SUFFICES ASSUME Base, Counted', OvershootBound', SeesWindow, [Next]_vars
                 PROVE  Promise!Next \/ UNCHANGED <<clock, now, V, Taken>>
        BY DEF Promise!places, V
    <2>1. ASSUME NEW r \in Requests, Begin(r) \/ Count(r) \/ Fail(r)
          PROVE  Promise!Next
        BY <2>1, BeginAsks, CountDecides, FailFails DEF Promise!Next
    <2>2. ASSUME NEW r \in Requests, Evict(r) PROVE Promise!Next
        BY <2>2, EvictLeaves DEF Promise!Next
    <2>3. ASSUME Tick PROVE Promise!Next
        BY <2>3, TickLeaves DEF Promise!Next
    <2>4. ASSUME UNCHANGED vars PROVE UNCHANGED <<clock, now, V, Taken>>
        BY <2>4 DEF vars, V, Verdict, Taken
    <2>5. QED
        BY <2>1, <2>2, <2>3, <2>4, AddUnseen DEF Next
  <1>3. QED
      BY <1>1, <1>2, BaseInvariant, CountedCorrect, OvershootCorrect, SeesWindowInvariant, PTL
         DEF Spec, WindowLimitSpec, Promise!Spec
=============================================================================
