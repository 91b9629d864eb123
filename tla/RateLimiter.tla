----------------------------- MODULE RateLimiter -----------------------------
(***************************************************************************)
(* The six-tier stack of rate_limiter.py as the gateway runs it: every     *)
(* request passes it in check_rate_limit (deps.py) without a model, and a  *)
(* chat that misses the cache passes it again in chat_completion with one, *)
(* inside a try that discards every exception.                             *)
(*                                                                         *)
(* The dependency runs on a thread pool, so requests interleave within a   *)
(* tier too: a sliding_window_check reads the set in one command and adds  *)
(* its member in a later one.  The second pass runs on the event loop, one *)
(* request at a time, beside the threads.  The TTL of the keys outlasts    *)
(* the window; what it takes for that is the subject of SlidingWindow.     *)
(***************************************************************************)
EXTENDS Integers, FiniteSets

CONSTANTS
    Requests,
    Credentials,    \* logins and API keys
    UserOf,         \* [Credentials -> users]
    OrgOf,          \* [Credentials -> organizations or None]
    KeyOf,          \* [Credentials -> API keys or None]
    IpOf,           \* [Credentials -> addresses]
    Rps,            \* [Credentials -> limit of the credential's plan]
    Models,
    ModelLimit,     \* [Models -> settings.MODEL_RATE_LIMITS]
    GatewayLimit,   \* settings.GATEWAY_RPS_LIMIT
    IpLimit,        \* settings.IP_RPS_LIMIT
    OrgFactor,      \* the 10 in "rps * 10"
    Window,         \* one second, in ticks
    Threads,        \* size of the thread pool the dependency runs on
    None

ASSUME RateLimiterAssumption ==
    /\ Rps \in [Credentials -> Nat \ {0}] /\ ModelLimit \in [Models -> Nat \ {0}]
    /\ {GatewayLimit, IpLimit, OrgFactor, Window, Threads} \subseteq Nat \ {0}

VARIABLES
    zset,       \* per key, the members of its sorted set that are in the window
    stage,      \* "idle", "tiers", "adding" (between the commands of a tier), "admitted",
                \* "model", "answered", "rejected" or "error"
    pass, todo, \* which pass a request is in, and the tiers it has yet to check
    cred, model,
    left,       \* of the time read by the check in progress, the ticks left in the window
    charged,    \* <<pass, tier>> a request was let through, for the properties
    stats       \* stats:gateway

engine == <<zset, stage, pass, todo, cred, model, left, charged, stats>>
request == <<cred, model>>

\* The tiers, in the order they are checked.
Place == [gateway |-> 1, ip |-> 2, org |-> 3, user |-> 4, apikey |-> 5, model |-> 6]
Tiers == DOMAIN Place

Owner(r, t) ==
    CASE t = "gateway" -> "all"
      [] t = "ip"      -> IpOf[cred[r]]
      [] t = "org"     -> OrgOf[cred[r]]
      [] t = "user"    -> UserOf[cred[r]]
      [] t = "apikey"  -> KeyOf[cred[r]]
      [] t = "model"   -> model[r]

Limit(r, t) ==
    CASE t = "gateway" -> GatewayLimit
      [] t = "ip"      -> IpLimit
      [] t = "org"     -> Rps[cred[r]] * OrgFactor
      [] t \in {"user", "apikey"} -> Rps[cred[r]]
      [] t = "model"   -> ModelLimit[model[r]]

Key(r, t) == <<t, Owner(r, t)>>

\* Mutant of Applies: the dependency does not pass the API key on.
AppliesNoKey(r, p, t) ==
    CASE t \in {"gateway", "ip", "user"} -> TRUE
      [] t = "org" -> p = 1 /\ Owner(r, t) # None
      [] t = "apikey" -> FALSE
      [] t = "model" -> p = 2

\* The dependency passes organization and key, the second pass only the model.
Applies(r, p, t) ==
    CASE t \in {"gateway", "ip", "user"} -> TRUE
      [] t \in {"org", "apikey"} -> p = 1 /\ Owner(r, t) # None
      [] t = "model" -> p = 2

Keys ==
    {<<"gateway", "all">>} \cup ({"ip"} \X {IpOf[c] : c \in Credentials})
      \cup ({"org"} \X {OrgOf[c] : c \in Credentials}) \cup ({"user"} \X {UserOf[c] : c \in Credentials})
      \cup ({"apikey"} \X {KeyOf[c] : c \in Credentials}) \cup ({"model"} \X Models)

EngineInit ==
    /\ zset = [k \in Keys |-> {}]
    /\ stage = [r \in Requests |-> "idle"]
    /\ pass = [r \in Requests |-> 0] /\ todo = [r \in Requests |-> {}]
    /\ cred = [r \in Requests |-> None] /\ model = [r \in Requests |-> None]
    /\ left = [r \in Requests |-> 0]
    /\ charged = [r \in Requests |-> {}]
    /\ stats = [requests |-> 0, limited |-> 0]

Move(r, l) == stage' = [stage EXCEPT ![r] = l]
Count(field) == stats' = [stats EXCEPT ![field] = @ + 1]

InPass(r, p) == stage[r] \in {"tiers", "adding"} /\ pass[r] = p

\* A coroutine keeps the event loop: only one request is in its second pass.
LoopIdle == \A r \in Requests : ~ InPass(r, 2)
OnThreads == {r \in Requests : InPass(r, 1)}

-----------------------------------------------------------------------------
(* enforce_rate_limits *)

Start(r, p) ==
    /\ Move(r, "tiers")
    /\ pass' = [pass EXCEPT ![r] = p]
    /\ todo' = [todo EXCEPT ![r] = {t \in Tiers : (Applies(r, p, t))'}]

\* The tier that is checked next, and the one whose member is still to be added.
First(r, t) == t \in todo[r] /\ \A u \in todo[r] : Place[t] <= Place[u]
At(r, t) == stage[r] = "tiers" /\ First(r, t)
Adding(r, t) == stage[r] = "adding" /\ First(r, t)

\* Mutant of Full: "current_count > limit" blocks.
FullTooLate(r, t) == Cardinality(zset[Key(r, t)]) > Limit(r, t)

\* Mutant of Full: the request that asks is counted too.
FullTooEarly(r, t) == Cardinality(zset[Key(r, t)]) + 1 >= Limit(r, t)

Full(r, t) == Cardinality(zset[Key(r, t)]) >= Limit(r, t)

\* time.time(), ZREMRANGEBYSCORE and ZCARD find a free place.
Find(r, t) ==
    /\ At(r, t) /\ ~ Full(r, t)
    /\ Move(r, "adding") /\ left' = [left EXCEPT ![r] = Window]
    /\ UNCHANGED <<zset, pass, todo, request, charged, stats>>

Slot(r) == [by |-> r, pass |-> pass[r], left |-> left[r]]

\* ZADD and EXPIRE, whoever has added a member since.  A member whose second is
\* already over is evicted before the next ZCARD.
Let(r, t) ==
    /\ Adding(r, t)
    /\ zset' = [zset EXCEPT ![Key(r, t)] = IF left[r] > 0 THEN @ \cup {Slot(r)} ELSE @]
    /\ charged' = [charged EXCEPT ![r] = @ \cup {<<pass[r], t>>}]
    /\ todo' = [todo EXCEPT ![r] = @ \ {t}]
    /\ Move(r, "tiers") /\ left' = [left EXCEPT ![r] = 0]
    /\ UNCHANGED <<pass, request, stats>>

AfterPass(r, first) == Move(r, IF pass[r] = 1 THEN first ELSE "model")

\* A 429; the chat handler discards it and goes on to the model.
Block(r, t) ==
    /\ At(r, t) /\ Full(r, t)
    /\ Count("limited")
    /\ AfterPass(r, "rejected")
    /\ UNCHANGED <<zset, pass, todo, request, left, charged>>

Passed(r) ==
    /\ stage[r] = "tiers" /\ todo[r] = {}
    /\ Count("requests")
    /\ AfterPass(r, "admitted")
    /\ UNCHANGED <<zset, pass, todo, request, left, charged>>

\* A Redis error: 500 from the dependency, discarded by the chat handler.
Fail(r) ==
    /\ stage[r] \in {"tiers", "adding"}
    /\ AfterPass(r, "error") /\ left' = [left EXCEPT ![r] = 0]
    /\ UNCHANGED <<zset, pass, todo, request, charged, stats>>

-----------------------------------------------------------------------------
(* check_rate_limit and chat_completion *)

Receive(r, c, m) ==
    /\ stage[r] = "idle"
    /\ cred' = [cred EXCEPT ![r] = c] /\ model' = [model EXCEPT ![r] = m]
    /\ Cardinality(OnThreads) < Threads /\ Start(r, 1)
    /\ UNCHANGED <<zset, left, charged, stats>>

\* The daily or the monthly quota is used up.
QuotaExceeded(r) ==
    /\ stage[r] = "admitted"
    /\ Count("limited") /\ Move(r, "rejected")
    /\ UNCHANGED <<zset, pass, todo, request, left, charged>>

\* A cached answer, or a streamed or OpenAI-compatible request.
ChatHit(r) ==
    /\ LoopIdle /\ stage[r] = "admitted"
    /\ Count("requests")
    /\ Move(r, "answered")
    /\ UNCHANGED <<zset, pass, todo, request, left, charged>>

ChatMiss(r) ==
    /\ LoopIdle /\ stage[r] = "admitted"
    /\ Count("requests")
    /\ Start(r, 2)
    /\ UNCHANGED <<zset, request, left, charged>>

Answered(r) ==
    /\ LoopIdle /\ stage[r] = "model"
    /\ Move(r, "answered")
    /\ UNCHANGED <<zset, pass, todo, request, left, charged, stats>>

\* Mutant of Later: a member stays when its second is over.
LaterKept(members) == {[m EXCEPT !.left = @ - 1] : m \in {n \in members : n.left > 0}}

Later(members) == {[m EXCEPT !.left = @ - 1] : m \in {n \in members : n.left > 1}}

\* Every check first drops what has left the window.
Tick ==
    /\ zset' = [k \in Keys |-> Later(zset[k])]
    /\ left' = [r \in Requests |-> IF left[r] > 0 THEN left[r] - 1 ELSE 0]
    /\ UNCHANGED <<stage, pass, todo, request, charged, stats>>

EngineNext ==
    \/ \E r \in Requests :
         \/ \E c \in Credentials, m \in Models : Receive(r, c, m)
         \/ \E t \in Tiers : Find(r, t) \/ Let(r, t) \/ Block(r, t)
         \/ Passed(r) \/ Fail(r)
         \/ QuotaExceeded(r) \/ ChatHit(r) \/ ChatMiss(r) \/ Answered(r)
    \/ Tick

EngineSpec == EngineInit /\ [][EngineNext]_engine

-----------------------------------------------------------------------------
(* Properties *)

Slots == [by : Requests, pass : {1, 2}, left : 1 .. Window]

\* Every variable has its type.
EngineTypeOK ==
    /\ zset \in [Keys -> SUBSET Slots]
    /\ stage \in [Requests -> {"idle", "tiers", "adding", "admitted", "model", "answered",
                              "rejected", "error"}]
    /\ pass \in [Requests -> 0 .. 2] /\ todo \in [Requests -> SUBSET Tiers]
    /\ cred \in [Requests -> Credentials \cup {None}] /\ model \in [Requests -> Models \cup {None}]
    /\ left \in [Requests -> 0 .. Window]
    /\ charged \in [Requests -> SUBSET ({1, 2} \X Tiers)]
    /\ stats \in [requests : Nat, limited : Nat]

\* What those who use a key may: the plans of its credentials, or its own limit.
Limits(k) ==
    LET Plans(Of) == {Rps[c] : c \in {d \in Credentials : Of[d] = k[2]}}
    IN CASE k[1] = "gateway" -> {GatewayLimit}
         [] k[1] = "ip"      -> {IpLimit}
         [] k[1] = "org"     -> {OrgFactor * n : n \in Plans(OrgOf)}
         [] k[1] = "user"    -> Plans(UserOf)
         [] k[1] = "apikey"  -> Plans(KeyOf)
         [] k[1] = "model"   -> {ModelLimit[k[2]]}

\* The checks that can be between ZCARD and ZADD of one key of a tier at once: the
\* dependency's threads and the one second pass, whichever of them pass the tier.
Racers(t) ==
    CASE t \in {"gateway", "ip", "user"} -> Threads + 1
      [] t \in {"org", "apikey"} -> Threads
      [] t = "model" -> 1

\* However requests interleave, no key holds more in a window than the largest
\* limit of those who use it and the others that can race for its last place, and
\* of a user's key no credential holds more than its own plan and these, whatever
\* larger plan another credential of the user has.  The model tier, checked on the
\* event loop alone, is exact.
WindowBound ==
    /\ \A k \in Keys : zset[k] # {} =>
         \E n \in Limits(k) : Cardinality(zset[k]) <= n - 1 + Racers(k[1])
    /\ \A c \in Credentials :
         Cardinality({m \in zset[<<"user", UserOf[c]>>] : cred[m.by] = c})
           <= Rps[c] - 1 + Racers("user")

PassOneTiers(c) ==
    {"gateway", "ip", "user"} \cup (IF OrgOf[c] = None THEN {} ELSE {"org"})
                              \cup (IF KeyOf[c] = None THEN {} ELSE {"apikey"})

\* Nothing gets past check_rate_limit that was not let through by every tier
\* that concerns it ("any tier blocks = 429"), however the pass was cut short.
AdmittedCharged ==
    \A r \in Requests : stage[r] \in {"admitted", "model", "answered"} =>
        \A t \in PassOneTiers(cred[r]) : <<1, t>> \in charged[r]

\* The two passes of one chat never halve more than three of the tiers: a request
\* is refused by the gateway, the IP or the user tier only after half the limit's
\* requests, by any other tier only after as many as its limit.
HalfTheRate ==
    [][\A r \in Requests, t \in Tiers :
         At(r, t) /\ stage'[r] # stage[r] /\ stats'.limited > stats.limited =>
           LET holders == Cardinality({m.by : m \in zset[Key(r, t)]})
           IN (IF t \in {"gateway", "ip", "user"} THEN 2 * holders ELSE holders) >= Limit(r, t)]_engine

Are(P) == {r \in Requests : stage[r] \in P}

-----------------------------------------------------------------------------
(* Sentences of the repository that the code does not keep: README, section 3 *)

\* rate_limiter.py:6: "any tier blocks = 429", and redis_service.py:893: the
\* counter is "429 responses issued".  Every refusal is the client's answer.
RefusalIs429 ==
    [][stats'.limited > stats.limited => \E r \in Requests : stage[r] # stage'[r] /\ stage'[r] = "rejected"]_engine

\* rate_limiter.py:65: rps is "Per-user requests/second from plan": the user tier
\* refuses a request only after rps requests of the user.
PlanRate ==
    [][\A r \in Requests : At(r, "user") /\ stage'[r] = "rejected" =>
         Cardinality({m.by : m \in zset[Key(r, "user")]}) >= Rps[cred[r]]]_engine

\* redis_service.py:890: "requests" is the "total requests processed".
RequestsCounted == stats.requests <= Cardinality(Requests \ Are({"idle"}))
=============================================================================
