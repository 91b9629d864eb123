--------------------------- MODULE SlidingWindow ---------------------------
(***************************************************************************)
(* RedisService.sliding_window_check (redis_service.py), the limiter every *)
(* tier of the rate-limiting engine runs on, for ONE sorted-set key.       *)
(*                                                                         *)
(* Requests are served by a pool of threads, and a check is four separate  *)
(* Redis commands: ZREMRANGEBYSCORE, ZCARD, ZADD, EXPIRE.  Each is an      *)
(* action here, so the commands of several requests interleave.  A member  *)
(* of the sorted set is the request that added it (the code makes members  *)
(* unique with perf_counter) and its score is now[r], the wall-clock time  *)
(* the request read when it began.                                         *)
(*                                                                         *)
(* Time is an integer.  A request may be delayed between its commands, by  *)
(* at most Stall ticks from its reading of the clock.                      *)
(***************************************************************************)
EXTENDS Integers, FiniteSets

CONSTANTS
    Requests,   \* the calls of sliding_window_check on this key
    Threads,    \* how many of them can be in progress at once
    Limit,      \* argument "limit"
    Window,     \* argument "window", in ticks
    Slack,      \* the "+ 5" the TTL adds to the window, in ticks
    Stall,      \* longest time a call takes, in ticks
    MaxClock    \* bound: the clock stops here

ASSUME SlidingWindowAssumption ==
    /\ Threads \in Nat \ {0} /\ Limit \in Nat \ {0} /\ Window \in Nat \ {0}
    /\ Slack \in Nat /\ Stall \in Nat /\ MaxClock \in Nat

VARIABLES
    clock,      \* time.time()
    pc,         \* where each call is
    now,        \* the clock value each call read; the score of its member
    zset,       \* the members of the sorted set
    expireAt    \* when Redis drops the key, NoTTL if it has no TTL

vars == <<clock, pc, now, zset, expireAt>>

NoTTL == -1

\* A call names the Redis command it is about to send.  "half": it failed after
\* its ZADD and before its EXPIRE.
Running == {"evict", "count", "add", "expire"}
Ended   == {"passed", "blocked", "failed", "half"}

Busy == {r \in Requests : pc[r] \in Running}

Init ==
    /\ clock = 0
    /\ pc = [r \in Requests |-> "idle"]
    /\ now = [r \in Requests |-> 0]
    /\ zset = {}
    /\ expireAt = NoTTL

Goto(r, label) == pc' = [pc EXCEPT ![r] = label]

\* Redis deletes a sorted set, with its TTL, when its last member leaves.
Keep(members) ==
    /\ zset' = members
    /\ expireAt' = IF members = {} THEN NoTTL ELSE expireAt

-----------------------------------------------------------------------------
\* now = time.time()
Begin(r) ==
    /\ pc[r] = "idle"
    /\ Cardinality(Busy) < Threads
    /\ now' = [now EXCEPT ![r] = clock]
    /\ Goto(r, "evict")
    /\ UNCHANGED <<clock, zset, expireAt>>

\* Mutants of Evict: the boundary score kept, and the cutoff one tick too high.
EvictKeepsBoundary(r) ==
    /\ pc[r] = "evict"
    /\ Keep({q \in zset : now[q] >= now[r] - Window})
    /\ Goto(r, "count")
    /\ UNCHANGED <<clock, now>>

EvictTooMuch(r) ==
    /\ pc[r] = "evict"
    /\ Keep({q \in zset : now[q] > now[r] - Window + 1})
    /\ Goto(r, "count")
    /\ UNCHANGED <<clock, now>>

\* ZREMRANGEBYSCORE key 0 now-window
Evict(r) ==
    /\ pc[r] = "evict"
    /\ Keep({q \in zset : now[q] > now[r] - Window})
    /\ Goto(r, "count")
    /\ UNCHANGED <<clock, now>>

\* ZCARD key, and the early return when the limit is reached.
Count(r) ==
    /\ pc[r] = "count"
    /\ Goto(r, IF Cardinality(zset) >= Limit THEN "blocked" ELSE "add")
    /\ UNCHANGED <<clock, now, zset, expireAt>>

\* ZADD key {member: now}
Add(r) ==
    /\ pc[r] = "add"
    /\ zset' = zset \cup {r}
    /\ Goto(r, "expire")
    /\ UNCHANGED <<clock, now, expireAt>>

\* Mutants of Expire: a TTL shorter than the window, and no TTL at all.
ExpireShort(r) ==
    /\ pc[r] = "expire"
    /\ expireAt' = IF zset = {} THEN NoTTL ELSE clock + Window - 1
    /\ Goto(r, "passed")
    /\ UNCHANGED <<clock, now, zset>>

ExpireSkipped(r) ==
    /\ pc[r] = "expire"
    /\ Goto(r, "passed")
    /\ UNCHANGED <<clock, now, zset, expireAt>>

\* EXPIRE key window+5 (no effect on a missing key), then "return True".
Expire(r) ==
    /\ pc[r] = "expire"
    /\ expireAt' = IF zset = {} THEN NoTTL ELSE clock + Window + Slack
    /\ Goto(r, "passed")
    /\ UNCHANGED <<clock, now, zset>>

\* A Redis command raises: the call ends where it is and undoes nothing.
Fail(r) ==
    /\ pc[r] \in Running
    /\ Goto(r, IF pc[r] = "expire" THEN "half" ELSE "failed")
    /\ UNCHANGED <<clock, now, zset, expireAt>>

\* Time passes; Redis drops a key whose TTL has run out.
Tick ==
    /\ clock < MaxClock
    /\ \A r \in Busy : clock + 1 - now[r] <= Stall
    /\ clock' = clock + 1
    /\ IF expireAt # NoTTL /\ clock + 1 >= expireAt
       THEN zset' = {} /\ expireAt' = NoTTL
       ELSE UNCHANGED <<zset, expireAt>>
    /\ UNCHANGED <<pc, now>>

Next ==
    \/ \E r \in Requests :
          Begin(r) \/ Evict(r) \/ Count(r) \/ Add(r) \/ Expire(r) \/ Fail(r)
    \/ Tick

Spec == Init /\ [][Next]_vars

-----------------------------------------------------------------------------
\* Every variable has its type, a key without members has no TTL, and a TTL
\* that Redis has not acted on lies ahead.
TypeOK ==
    /\ clock \in Nat
    /\ pc \in [Requests -> {"idle"} \cup Running \cup Ended]
    /\ now \in [Requests -> Nat]
    /\ zset \subseteq Requests
    /\ expireAt \in Nat \cup {NoTTL}
    /\ zset = {} => expireAt = NoTTL
    /\ expireAt # NoTTL => clock < expireAt

\* Requests granted (or about to add the member they were granted) whose
\* timestamp is in the window that ends now.
Granted == {r \in Requests : pc[r] \in {"add", "expire", "passed"}}
InWindow(S) == {r \in S : now[r] > clock - Window}

\* No call has failed between its ZADD and its EXPIRE.
NoHalf == \A r \in Requests : pc[r] # "half"

\* ZCARD and ZADD are not atomic, so concurrent calls can all read the last
\* free place.  The members stored and those about to be added still never
\* exceed the limit by more than the calls that can race for that place.
Taken == zset \cup {r \in Requests : pc[r] = "add"}
OvershootBound == Cardinality(Taken) <= Limit - 1 + Threads

\* A granted request is counted for as long as its timestamp is in the window:
\* neither another request's eviction nor the key's TTL forgets it early.
\* The TTL can be lost to a call that fails before its EXPIRE.
Counted ==
    NoHalf => InWindow({r \in Requests : pc[r] \in {"expire", "passed"}}) \subseteq zset

\* What a caller is promised: in any window, no more requests are granted than
\* the limit and the calls that can race for its last place.
RateBound == NoHalf => Cardinality(InWindow(Granted)) <= Limit - 1 + Threads

\* A call is refused only when Limit members of the last Window ticks, counted
\* back from its own reading of the clock, are stored: what an older call left
\* behind never blocks.
BlockJustified ==
    [][\A r \in Requests :
          pc[r] = "count" /\ pc'[r] = "blocked" =>
              Cardinality({q \in zset : now[q] > now[r] - Window}) >= Limit]_vars

\* A key that holds members has a TTL, unless a call is still to set it or
\* failed before it could: idle limiters do not stay in Redis for ever.
TtlCovers ==
    zset # {} /\ NoHalf => expireAt # NoTTL \/ \E r \in Requests : pc[r] = "expire"

\* A call is granted when it passes its ZCARD; an error after its ZADD loses it.
Verdict ==
    [idle |-> "none", evict |-> "asked", count |-> "asked", add |-> "granted",
     expire |-> "granted", passed |-> "granted", blocked |-> "refused",
     failed |-> "error", half |-> "lost"]

\* The four commands implement WindowLimit: to its callers a check is one step, but
\* for the places that the other threads inside a check can take beyond the limit.
Promise == INSTANCE WindowLimit WITH
               Spare <- Threads - 1, time <- clock, stamp <- now, held <- Taken,
               verdict <- [r \in Requests |-> Verdict[pc[r]]]
WindowLimitSpec == Promise!Spec

-----------------------------------------------------------------------------
(* Sentences of the repository that the code does not keep: README, section 3 *)

\* The docstring of sliding_window_check: "Returns True if the request is
\* within the allowed limit".  Two calls that read ZCARD before either adds
\* its member both return True for the last place.
StrictRate == Cardinality(InWindow(Granted)) <= Limit
=============================================================================
