# Verification of the AI gateway

TLA+ models of the gateway in `src/`, their TLC configurations and machine-checked proofs about them. The
gateway is a FastAPI process in front of Ollama nodes. It keeps rate limits, quotas, sessions, conversations,
caches and node telemetry in Redis and accounts and records in SQL. Almost every rule it enforces is a read of
Redis followed by a separate write, made by many threads and coroutines at once: that is what is modelled here.

Line numbers are those of the files under `src/src/`, abbreviated by their file name.

## 1. Inventory

Two facts decide what can interleave, and every module states which one it relies on:

- `def` endpoints and dependencies (authentication, `check_rate_limit`, logout, create and delete conversation,
  the admin flush, everything of `auth.py` and `organizations.py`) run on a pool of threads: between any two of
  their Redis commands or SQL statements anything can happen.
- `async def` handlers, the health loop and the flusher run on one event loop per process and call Redis through
  the blocking client: between two of their `await`s no other coroutine of that process runs, but threads, other
  processes, crashes and Redis errors do get in.

| Component | State | Operations | Interacts with |
|---|---|---|---|
| Sliding-window limiter (`redis_service.py:440-463`) | a sorted set per key, its TTL | `sliding_window_check` | called tier by tier by the engine |
| Rate-limiting engine (`rate_limiter.py`) | the sorted sets, `stats:gateway` | `enforce_rate_limits`, in `check_rate_limit` and again in `chat.py:265` | limiter, both callers |
| Quota enforcement (`deps.py:303-379`) | `quota:` and `usage:` counters | the check, the charges of three endpoints | reads what handlers write, one request later |
| Sessions, tokens, authentication (`auth.py`, `deps.py`) | session hashes, token blacklist | login, refresh, logout, cached and cold authentication | SQL, Redis |
| Accounts and organizations (`main.py`, `auth.py`, `organizations.py`) | `users`, `api_keys`, `organizations`, the seeded catalog | seeding at startup, `register`; `create_organization` and `add_user_to_org` of a router that is mounted nowhere | SQL only |
| Conversations (`conversations.py`, `redis_service.py:300-440`) | the list of messages, metadata, index | link, append, trim, expire, delete | chat and stream |
| Response cache (`chat.py`, `redis_service.py:640-700`) | conversation and global entries | lookup, store, replay | chat, conversations |
| Inference paths (the endpoints, `router.py`, `factory.py`) | effects of an answer, legs of a failover | the four paths, failover, legacy generation, benchmark | adapters, and all of the above |
| Adapters (`ollama.py`, `vllm.py`, `mistral.py`, `openai.py`, `gemini.py`, `base.py`) | posts, sleeps, tokens of a call | generate with retries, stream | called by the paths and the health loop |
| Inference cluster and scheduler (`cluster.py`, `scheduler.py`) | health and telemetry hashes | health loop, pick a node, count a request | endpoints |
| Usage and audit flusher (`usage_flusher.py`) | usage hashes, audit buffer; SQL rows | flush, retry, shutdown | chat fills what it drains |
| Model registry (`model_registry.py`) | a hash per model with the nodes that have it | sync from a node, resolve a name | health loop, endpoints |
| Administration (`admin.py`) | none | the flush of Redis; reports | removes what all others keep in Redis |

What is hard in each, and what makes it correct:

- **Limiter.** ZREMRANGEBYSCORE, ZCARD, ZADD and EXPIRE are four commands. The limit may be overshot, but by how
  much? A granted request must stay counted while it is in the window and must not count for longer, and
  a lost EXPIRE must not leave a key forever.
- **Engine.** A refused or failed request has already taken slots of earlier tiers; keys are shared by
  credentials with different limits; threads race between the count and the addition; the second pass discards every
  exception. No key may exceed its limit by more than the checks that race for its last place, and nothing may be
  admitted past a tier.
- **Quotas.** The check is separated from the charge by a whole model call: midnight, TTLs and other requests lie
  between them; the charge is three commands, and an error after the second leaves a counter without a TTL. Usage must
  not be below a quota counter that the check may still read, and the daily excess must be bounded.
- **Sessions.** HSET and EXPIRE of concurrent rebuilds interleave, login merges into a hash of an earlier cold
  path, logout races a rebuild. Fields must not outlive their TTL, a revoked token must stay revoked.
- **Accounts.** User and key are separate commits; the count that guards an organization is separate from
  the commit it guards; each seeded row is a commit, and a start meets what an earlier one left.
- **Conversations.** A turn is five commands and runs after a model call during which the conversation can
  disappear. The history must stay bounded, paired and expiring; the index must agree with the metadata.
- **Cache.** Twins overlap, entries are looked up under fewer parameters than made them, and a replay must not
  renew what it replays.
- **Inference.** Effects happen one by one and any can fail; streams may lose their client; errors of a stream
  are text. Whoever got an answer must have been charged. Each adapter has its own rule for which faults it tries
  again; a failover must try its whole chain, and every call must end.
- **Cluster.** The health loop overwrites the counter that requests increment, and keys lapse in between. Drift
  must not accumulate, records must tell the truth soon enough, no error may end the loop.
- **Flusher.** Entries leave Redis before they reach SQL. No entry may be recorded twice or out of order, each
  fault may cost one batch, and the buffer must drain.
- **Registry.** A sync reads a node list, extends it and writes it back, a resolution puts a list of names together
  key by key, and the flush can land inside either. No node may be lost, and an exact name must win.

`PROJECT.json` lists the hazards with their lines and the properties aimed at each.

## 2. Modules

| Module | Models | Step size |
|---|---|---|
| `SlidingWindow` | one key of the limiter | one Redis command |
| `WindowLimit` | what a sliding-window limit promises (abstract) | one call asks, is granted or refused |
| `RateLimiter` | the tiers over all keys, both passes | the reading or the writing half of a `sliding_window_check` |
| `Quota` | one user's daily and monthly counters | one check or charge command |
| `Session` | one user's two sessions and tokens | one Redis command or SQL query |
| `Accounts` | users, keys, organizations, startup | one query or commit |
| `Conversation` | one conversation | one Redis command |
| `ResponseCache` | two caches, all conversations | between two awaits, writes failing one by one |
| `Adapters` | one adapter call: its posts, sleeps and tokens | one post or token |
| `Inference` | `Adapters` with their callers: the four paths, failover, benchmark, legacy endpoint | and one effect |
| `ModelRegistry` | node lists, syncs of the health loop, resolution of a name | one Redis command, or between two awaits |
| `Cluster` | the Ollama pool | between two awaits |
| `ClusterHealth` | `Cluster` with a stopwatch on one node | same |
| `Flusher` | the write-behind path, any number of processes | one Redis command or commit |
| `AuditTrail` | what the audit pipeline promises (abstract) | one entry, one batch |
| `SoloFlusher` | `Flusher` with one process; its refinement of `AuditTrail` | same |
| `SlidingWindowProofs`, `FlusherProofs`, `SessionProofs`, `AccountsProofs` | theorems about the module each is named for | |
| `AdmissionProofs` | theorems about what admits a request: `Quota` and `RateLimiter` | |
| `ChatProofs` | theorems about what a chat leaves: `Conversation` and `ResponseCache` | |
| `ServingProofs` | theorems about how a request is served: `ModelRegistry` and `Inference` | |
| `ClusterProofs` | theorems about `Cluster` and `ClusterHealth` | |
| `MC*` | symmetry, functions and sequences for TLC | |

A module that shares its proof module with another names its specification, state and types apart: `EngineSpec` and
`EngineTypeOK` over `engine` in `RateLimiter`, `CacheSpec` over `cache` in `ResponseCache`, `RegistrySpec` over `registry`
in `ModelRegistry`. Everywhere else they are `Spec`, `vars` and `TypeOK`.

How they compose:

- `SoloFlusher` instantiates `AuditTrail` with a refinement mapping: the pending entries are the flusher's batch
  followed by the Redis list, except between LRANGE and LTRIM, when the batch is still in the list. TLC checks
  `AuditTrailSpec` as a property of the fair specification.
- `SlidingWindow` instantiates `WindowLimit`: a call has its place from the moment it passes its ZCARD (`Taken`), and the
  commands before and after that are unseen. What the four commands cost against an atomic check is the constant
  `Spare`: one place for each other thread of the pool. TLC checks `WindowLimitSpec` as a property.
- `ClusterHealth` adds a history variable and no step to `Cluster`.
- `RateLimiter` takes a `sliding_window_check` in two steps: the clock, ZREMRANGEBYSCORE and ZCARD (`Find` or `Block`),
  then ZADD and EXPIRE (`Let`). The other threads come between them, so a limit is overshot, and `WindowBound` says by how
  much: by the others that can race for the last place (`Racers`), which are the pool's threads, and one more in the
  tiers that the event loop's second pass checks too; only that pass checks the model tier, whose limit is exact.
  Within a half, the order does not matter to the bound: members only leave by being evicted, and it is the count that
  decides. What a late cutoff or a late EXPIRE does to one key is the subject of `SlidingWindow`, command by command.
- `Quota` lets requests pass or be refused before its checks, whatever `RateLimiter` does; `Inference` gives
  each path's effects in order, of which `Quota` models the charges and `Conversation` the history.
- `Inference` extends `Adapters` and drives one adapter call per request: a model call, a leg of a failover or
  the benchmark that the health loop runs between listing a node and registering its models.
- `ModelRegistry` and `Cluster` are two views of the same health loop: `Cluster` has its probes, records and errors (an
  error of the registry among them), `ModelRegistry` what it lists and writes.
- The admin flush of Redis is an action of `Conversation`, `Session`, `ResponseCache`, `ModelRegistry` and `Flusher`. It is
  left out of `SlidingWindow`, `RateLimiter`, `Quota` and `Cluster`, whose promises it plainly resets.

### State and actions against the code

`PROJECT.json` maps each definition to its lines. The abstractions, module by module:

- `SlidingWindow`: a member is the request that added it, its score the clock it read. `Evict`, `Count`, `Add` and
  `Expire` are the four commands; an error at each is an action. A call takes at most `Stall` ticks. The one in a
  million members that would coincide (equal `time.time()` and `perf_counter()`) are left out.
- `RateLimiter`: a key holds the slots still in its window, with the ticks they have left; `Models`, `Rps`,
  the gateway and IP limits are constants. The pass, the tiers left and the tiers let through are kept per
  request; between the halves of a check it is "adding", with what is `left` of the window at the time it read, so that a
  member added late leaves early. At most `Threads` requests are in their first pass, and one in its second (`LoopIdle`).
  A Redis error or a refusal in the second pass is discarded, as `except Exception: pass` does.
- `Quota`: half days, so that the server's local date and the UTC date can differ and a 48-hour TTL is four ticks. Two
  history variables count, per day, the answers that its check could not see: `astray`, charged while the two
  dates differed, and `unquoted`, left out of the quota by the OpenAI-compatible endpoint or a Redis error. INCR and the
  EXPIRE of a new counter are two steps: an error between them leaves it with no TTL (`Never`), as nothing sets one later.
- `Session`: a field is its age since SQL; a token its remaining life and its blacklist TTL. Signatures and
  passwords are taken as checked.
- `Accounts`: `users`, `keys`, `org`, `orgs` and `catalog` are the tables; `Startup` is the order of the seeded rows and `at`
  the next one. The ping of Redis at the end of a start, when `REDIS_REQUIRED` and unanswered, ends the process: it is a
  `Crash` at the last row. The value an ORM object was loaded with is kept because SQLAlchemy writes only attributes
  that changed from it.
- `Conversation`: a message is its role and turn. `create` and `delete` are threads, chats are coroutines.
- `ResponseCache`: an entry is the request whose model call made it, the ticks left and the age; a request records
  where its answer came from.
- `Adapters`: a record per call with its provider, posts, sleeps, tokens and the faults it `met`; the providers' retry rules
  are one operator. A post is one call of the client library: the retries that the OpenAI SDK makes inside one are part of it.
- `Inference`: a record per request with its kind (path, failover, benchmark, ...), the effects to do and done, and the
  legs left and tried. The chat's audit of a failure is the effect "refusal", that of an answer "audit".
- `ModelRegistry`: `entry` is the node list of each hash, `synced` what was registered since the last flush, `serves` what the
  nodes have. A name is what `Tagged` and `Containing` say of it: which model names extend it by a tag, and
  which contain it; the order of a scan is arbitrary.
- `Cluster`: 15-second ticks; the loop's position, what it saw and how long it took; a TTL per hash.
- `Flusher`: entries are numbered; a usage hash is its count; SQL rows and the open transaction are separate.

## 3. Runs

Passing runs, with their bounds:

| Run | Shows | Bounds and why they are enough |
|---|---|---|
| `sliding_window` | at most the limit and the other threads are granted in a window; granted requests stay counted, refusals are justified; TTL covers the window; the four commands implement `WindowLimit` | five calls, two threads, limit 2, window 2, clock 6: two overlapping pairs around a full window, a late EXPIRE, and an eviction of everything |
| `rate_tiers` | no key over its limit by more than its racers; nothing admitted past a tier; no refusal before half of a limit is held by requests of its own | three requests on two threads, a login with an organization and an API key of the same user, a model: two checks race in each shared tier while a third is in its second pass, and every tier can be the one that refuses. The view leaves out `stats:gateway`, which is written and never read |
| `quota` | daily and monthly excess bounded; usage covers quota, but for days gone by whose counter lost its TTL | two requests in flight, daily 1, monthly 2, three days, four answers, a server half a day ahead of UTC: the limit is crossed on each side of both midnights, by either endpoint, after a key expired, and with a counter left over by an error between INCR and EXPIRE |
| `session` | freshness of cached fields; revocation until expiry | two threads, two tokens, TTL 2, one fault: any two operations overlap at every command |
| `accounts` | one key per user; keyless users and overfull organizations bounded; startup ends | a plan, an organization of one place and a user to seed, two more addresses, an organization of two places, two threads, one crash or failed commit: a start meets each prefix of the seeding |
| `conversation` | bounded, paired, expiring history; index and metadata agree | two chats and two threads over one conversation, four turns (eight messages) with a cap of four messages, two faults, flushes: trimming, half a turn and two deletes in one behaviour |
| `cache` | a hit answers its question, is fresh, and spares a call | three overlapping requests, two of everything else, TTLs 1 and 2 |
| `inference` | answered means charged; failed means neither charged nor audited as answered; a call ends in failure only with its posts used up, a last timeout among them, or at a fault it does not try again; all legs are used; calls end | two requests over all kinds, three posts, two tokens, two providers without a key, a chain that names the primary in its middle |
| `cluster` | records are true within a round and a probe; the loop survives; drift and floor of the active counters | two nodes, interval 30 s, TTL 90 s, probe 15 s (their real ratio), one request of a local or a cloud provider, one fault |
| `registry` | syncs and flushes lose no list; an exact name is served; a served model is listed again | two nodes, two models of which one's name contains the other's, one request for either or for the family, two faults: a flush inside a sync and one inside a resolution |
| `flusher` | implements `AuditTrail`; loss per fault at most a batch; SQL never goes back; a stop in good order leaves no count; both buffers drain | two usage keys, three entries with a batch of two, two faults: a full and a partial batch, and a fault while one recovers |

One run checks a sentence that the code does not keep, and is a finding in `PROJECT.json`: `flusher_two`. Two gateway
processes drain the audit buffer as LRANGE, LRANGE, LTRIM, LTRIM; one batch is inserted twice and the next one is
trimmed unread, although the docstring promises consumption "exactly once even if multiple flusher instances run
concurrently".

### Sentences the code does not keep

Modelling met more of them. Each is stated as the last definitions of its module, with the sentence it comes from.
They are in no configuration; adding one to the configuration named here (as an INVARIANT, or a PROPERTY when it is an
action formula) gives the counterexample.

| Definition | Add to | What happens |
|---|---|---|
| `StrictRate` (`redis_service.py:450`) | `MCSlidingWindow.cfg` | two threads read ZCARD before either adds and take one place |
| `RefusalIs429` (`rate_limiter.py:6`) | `MCRateLimiter.cfg` | the model tier refuses, is counted as a 429, and the chat is answered: `except Exception: pass` |
| `PlanRate` (`rate_limiter.py:65`) | `MCRateLimiter.cfg` | a chat that misses the cache takes two slots of its user |
| `RequestsCounted` (`redis_service.py:890`) | `MCRateLimiter.cfg` | one request is counted up to three times |
| `DailyEnforced` (`deps.py:307`) | `MCQuota.cfg` | the OpenAI endpoint never charges the counter its check reads; with `Endpoints = {"chat"}` the UTC day is checked and the local day charged |
| `MonthlyEnforced` (`deps.py:355`) | `MCQuota.cfg` | the keys of the monthly sum expire 48 hours after their last charge |
| `StopsAfterFinalFlush` (`usage_flusher.py:17`) | `MCFlusher.cfg` | a cancellation in the sleep after an error skips the final flush |
| `LeastBusy` (`scheduler.py:23`) | `MCCluster.cfg`, `Requests = {r1, r2}` | the health record replaces the running requests by the loaded models |
| `LapsesOnlyIfLoopDies` (`redis_service.py:766`) | `MCCluster.cfg`, `MaxCheck = 4` | slow probes make a round longer than the TTL: records lapse while the loop is alive |
| `SameSession` (`deps.py:60`) | `MCSession.cfg` | a login leaves out the organization the API key's session has |
| `OrganizationFresh` (`auth.py:165`) | `MCSession.cfg` | refresh renews the TTL of a field it never rewrites |
| `DeletedWhole` (`conversations.py:104`) | `MCConversation.cfg` | a chat or a create in flight writes into a conversation that a delete or a flush has removed |
| `ModelScoped` (`README.md:97`) | `MCResponseCache.cfg` | the conversation cache answers one model's request with another's answer |
| `ContextScoped` (`chat.py:86`) | `MCResponseCache.cfg` | an answer made from one conversation's history is served to another |
| `DeletedForgotten` (`conversations.py:104`) | `MCResponseCache.cfg` | a deleted conversation answers from its cache |
| `LLMErrorsCounted` (`redis_service.py:895`) | `MCInference.cfg` | a failure in a stream is stored and charged as text |
| `StreamsBilled` (`openai_compat.py:222`) | `MCInference.cfg` | a client that leaves after `[DONE]` is not billed |
| `LegacyAnswers` (`factory.py:6`) | `MCInference.cfg` | the legacy endpoint calls a method that no adapter has: no provider answers |
| `BenchmarkTruthful` (`scheduler.py:30`) | `MCInference.cfg` | a stream's failure is its first token: a node that fails fast reports a good time to first token |
| `FallsBackToCloud` (`router.py:87`) | `MCInference.cfg` | every leg of a failover is the Ollama adapter again |
| `ActiveOnly` (`model_registry.py:131`) | `MCModelRegistry.cfg` | nothing takes a removed model out of the registry: a name resolves to a model no node has |
| `RoutedAccordingly` (`model_registry.py:20`) | `MCModelRegistry.cfg` | nodes are picked by load only: a model one node has is asked of another |
| `NamedOrMissing` (`model_registry.py:153`) | `MCModelRegistry.cfg` | a model that every node has and none listed yet resolves to another whose name contains its |
| `MaxUsersKept` (`organizations.py:177`) | `MCAccounts.cfg` | two counts before two commits |
| `EveryUserBelongs` (`models_billing.py:55`) | `MCAccounts.cfg` | registration assigns no organization |
| `AddedBelongs` (`organizations.py:183`) | `MCAccounts.cfg` | SQLAlchemy writes only what changed since the load: an addition that writes nothing is reported as done |

Where such a sentence fails, a passing run bounds the damage: `RateBound`, `WindowBound`, `HalfTheRate`, `DailyBound`,
`MonthlyBound`, `LossBound`, `StopLeavesNoCount`, `CountBounds`, `FieldsFresh`, `HistoryBound`, `AnswersItsQuestion`,
`NamedIsServed`, `MembershipBound`.

### Deadlock, symmetry

`CHECK_DEADLOCK FALSE` appears where the modelled load is bounded (requests, days, turns, clock) or where requests
do not return to idle: the gateway then simply has nothing more to do. `cluster`, `registry`, `flusher`, `flusher_two`,
`session` and `cache` run with deadlock checking, because their loops, clocks and clients never stop.

Symmetry is used in `sliding_window`, `rate_tiers`, `quota`, `session`, `conversation` and `cache`, for requests, threads and
tokens the modules never compare or order, and in no run that checks a liveness property.

### Fairness

- `flusher` (`UsageReachesSQL`, `BufferDrains`): weak fairness of the flusher's next step and of restarting a process
  that is down. The loop's own sleeps end by themselves, SQL and Redis calls return or raise, and the container's
  restart policy starts a process that died. A process that was stopped on purpose is not restarted, and the
  properties say so. Faults are bounded, as is what is sent.
- `cluster` (`RecoveryNoticed`): weak fairness of probe, record, wake-up, restart of the process, and time. A
  probe ends: httpx times out on each read. The loop catches what a round raises and sleeps before the next.
- `registry` (`Relisted`): strong fairness of the health loop, and weak fairness of a resolution that has begun. Strong,
  because a resolution runs between two awaits of the loop and disables it for as long as it lasts; asyncio runs ready
  coroutines in turn, so that none is passed over forever. Faults are bounded.
- `inference` (`CallsEnd`): weak fairness of the adapter's posts, of what follows a call (its result, the next leg, handing
  back, refusing), of effects and of the end of a request, all of one coroutine that only awaits a bounded number of
  timed posts and sleeps. Streams have no such promise (each token renews the read timeout), and none is claimed.
- `accounts` (`StartsUp`): weak fairness of the next row of the seeding: the import of `main.py` runs on, and
  docker-compose restarts a gateway that died in it. Crashes are bounded.

No other run assumes fairness: their properties are about what a step may not do.

## 4. Proofs

TLC finds the invariants on small instances; `tlapm` proves the following for all values of the constants that
satisfy the module's named `ASSUME`, which says no more than that limits are positive, bounds are
naturals, lists and functions have their domains, different kinds of things are disjoint, and what is counted is finite.

- **`SlidingWindowProofs`**: `TypeCorrect`, `OvershootCorrect`, and, when no call takes longer than the slack of the TTL
  (`Stall <= Slack`), `CountedCorrect`, `RateCorrect`, `TtlCorrect`; `BlockCorrect` when none takes as long as the
  window. `Pool` (the calls in progress fit the thread pool and began at most `Stall` ago) makes the overshoot
  inductive: when a call passes its count, the members are below the limit, and all calls at ZADD are of the pool. That
  no granted request is forgotten needs three facts about the TTL: it outlasts each member that renewed it
  (`Renewed`), it outlasts each call that already evicted (`Outlived`), and while it is set somebody holds it
  up (`HeldUp`); without the second, a key could expire under a call between its count and its ZADD.
  `LimitImplemented` is the refinement of `WindowLimit`, under both conditions: a ZCARD grants or refuses (`CountDecides`),
  an eviction and the key's expiry give up only places of calls that have left the window (`EvictLeaves`,
  `TickLeaves`, from `Counted`) unless a call got lost, a failing call gives its place back or is lost with it (`FailFails`),
  and the other commands are stutters (`AddUnseen`). `SeesWindow` says that what a call is about to count is all of its
  own window.
- **`AdmissionProofs`**, quotas: `TypeCorrect`, `DailyCorrect`, `QuotaUsageCorrect`, `MonthlyCorrect`. Daily: `Seen(d)` is what was
  billed to a day in sight of its check, and `Reserved(d)` adds the requests past the check that may still be charged to
  it; that is what stays below the bound, the counter alone is not inductive. It needs that no day to come has been seen (`NothingAhead`), that
  the quota counts what was seen but for an answer between its two charges (`QuotaCounts`), and that a quota key
  outlives its day (`Outlives`). Usage: it is charged before the quota and its TTL never ends
  sooner (`UsageFirst`), unless the counter has lost its TTL; such a counter is left over only when its usage expired, and
  usage outlives its day (`Stranded`).
  Monthly (`MonthInv`): the month's total and the requests past the check stay within the bound together, and on a day
  that the check's sum does not reach there are only answers that are astray (`AstrayAway`), so that whoever passes the
  check leaves the total below the month but for these. It rests on lemmas about totals over finite sets: that the order
  of the elements does not matter (`TotalTake`), that totals grow with their functions (`TotalLess`), what is left when
  some elements are not counted (`TotalBound`), what one more in one place adds (`TotalMore`).
- **`AdmissionProofs`**, rate limits: `TierInvariant`, `AllTiers`, `WindowsBounded`, `RateHalved`. `TierInv`: what a pass has
  let through and has yet to check are all the tiers that concern it (`Charged`), no tier lets a request
  through twice in one pass (`Once`), and a member of a sorted set stands for one pass of one request (`Members`). Nothing
  is admitted past a tier by the first of these; a refusal finds the key full and, at two members for each request (one in the tiers
  of a single pass), half its limit held by different requests. That members stay within a limit and its racers is not
  inductive; that the members and the checks about to add one (`Adders`) do together, is (`KeyRoom`, and `OwnRoom` for one
  credential of a user's key). A check that finds room finds the members below its limit and joins no more than the other
  racers, of whom the first pass has at most `Threads` and the second one (`Crowd`); an addition moves one from the
  checks to the members, and whatever else happens only takes some away.
- **`FlusherProofs`**: `TypeCorrect` for any number of processes; for one, `TrailImplemented` (`Spec => AuditTrailSpec`, the
  refinement), `LossCorrect`, `UsageCorrect`, `StopCorrect`. The first two of these rest on `Kept`: between LRANGE and LTRIM
  the batch is the head of the list. With it each step is one of five kinds, as the audit trail sees it: it leaves the
  pending entries alone (`Stays`), adds one (`Grows`), commits the batch (`Lands`), loses the batch (`Drops`) or all but
  the batch (`Empties`), and the refinement and the loss bound follow kind by kind. Until an admin flush, rows are never
  ahead of counters (`Copied`); and while nothing has failed, a flush writes the counters as they are (`Clean`), so that
  a stop in good order leaves no count behind.
- **`ClusterProofs`**: `TypeCorrect`, `DriftCorrect`, `BoundsCorrect`, `DetectedCorrect`. The drift bound is inductive on top of the types:
  a request that starts adds one to both sides, one that ends takes one from both or finds zero, a record starts
  afresh. The floor needs the case of a key that lapses inside a decrement. `DetectedCorrect` assumes `CoversRound`, that
  the TTL is longer than a round of probes with its sleep: with fifteen seconds for a probe the deployment's 30 s interval and
  90 s TTL allow three nodes, and beyond that records lapse while the loop runs (`LapsesOnlyIfLoopDies`). `TimedInv` has, for each
  position in the list, the ticks left until the loop records it (`ToRecord`): the record is true and outlives them, or they
  end in time (`OnTime`); a probe that contradicts its node is one during which the node changed (`MissedLately`).
- **`SessionProofs`**: `TypeCorrect`, `RevocationCorrect`, `FreshCorrect`. Revocation: the lifetime a logout holds before its
  SETEX is never below what is left of the token. Freshness (`FreshHash`): a hash's age plus its TTL is bounded, one without a
  TTL has an EXPIRE on the way, and an EXPIRE on the way finds data at most `MaxDelay` older than its own.
- **`ChatProofs`**, histories: `TypeCorrect`, `BoundCorrect`, `TurnsCorrect`, `ExpiryCorrect`, `ListedCorrect`. All need that at most
  one chat is between two commands (`Solo`), the others being idle or at their model. The bound (`Capped`) allows one
  message more for each fault, and one for a chat at its LTRIM. While nothing has failed, the history is whole but for
  the question on top that a chat is about to answer (`Ordered`), a list without a TTL has a chat on its way to set one (`Expiring`), and
  an index entry without metadata has somebody about to write the metadata or to remove the entry (`Linked`).
- **`ChatProofs`**, cached answers: `CacheInvariant`, `RightAnswers`, `FreshHits`, `OneCall`. `CacheInv`: an entry was made by a
  request whose answer a model gave, under that request's key, and its age plus its TTL never exceeds the cache's TTL
  (`ConvHeld`, `GlobalHeld`), a replay included; what a request was served was made for its key (`Served`); and an answer
  younger than the global TTL is in the global cache, or a later one is, that lives at least as long (`Kept`).
- **`ServingProofs`**, registry: `TypeCorrect`, `ListsCorrect` (if there is a model at all), `NamedCorrect`. Lists
  (`ListsInv`): when a sync writes, what it
  has read is still what the model's hash holds, or a flush has got in and every hash is still empty (`ReadFresh`).
  Names (`Named`): at each step of a resolution, a model that every node has all along is still among the names to
  fetch, or among those fetched, and so the exact match finds it.
- **`ServingProofs`**, calls: `CallInvariant`, `CallTypes`, `AnswersCharged`, `FailuresFree`, `WholeChain`, `UsesAttempts`, for any
  requests, retries, tokens and chain. `CallInv` is four facts about each request: what it has done is a prefix of its
  path's effects (`Ordered`), an effect comes only after an adapter's good result (`Result`), a failover has tried the primary
  and the chain up to its leg and ends in failure only with nothing ahead (`Legs`), and a call that will post again has
  posts left and has met nothing fatal (`Attempts`, with what the faults met say of a call in `Used`).
- **`AccountsProofs`**: `TypeCorrect`, `KeysCorrect`, `MembershipCorrect`, `KeylessCorrect`. The type says too that requests find the
  seeded rows, from `Seeded`: what the startup has gone through is there. Keys: whoever is about to commit a key for
  a user is alone in it, because the address is UNIQUE and an insert that fails ends the request. Membership:
  members plus the threads between count and commit stay within `MaxUsers[o] - 1 + Cardinality(Threads)`.
  Keyless users (`KeylessInv`): threads run only while the gateway serves, so one crash strands either the threads' users or
  the one being seeded, never both.

In each, an inductive invariant is stated as a conjunction of named parts, one lemma shows that every action keeps it
(a step per action), and the theorem combines it with the initial states by temporal logic.

Type correctness is a theorem about every component's module (`TierInvariant`, `CacheInvariant` and `CallTypes` contain
it for three of them), so the runs leave it out. `OvershootBound` and
`BlockJustified`, too, are proved and not repeated by a run: `RateBound` follows from the one, and a call that `WindowLimit`
refuses has found the places of its own window taken.

The prover cannot instantiate a theorem that takes an operator, so the library's induction theorems are out of its
reach. Where a proof needs induction over data, as the totals do, it goes through `WFMin` of WellFoundedInduction with the
property as a set: `NatSet` and `SubsetSet` are induction over the naturals and over the subsets of a finite set.

### Only model-checked

Liveness (`UsageReachesSQL`, `BufferDrains`, `RecoveryNoticed`, `Relisted`, `CallsEnd`, `StartsUp`), which needs fairness and
ENABLED, out of the prover's reach. Every other property of a passing run is a theorem.

Modules with theorems use no RECURSIVE operator; recursion over sets is `MapThenSumSet` of the community modules.

## 5. Not modelled

- Endpoints that only read and format: reports of the admin, usage, session and health endpoints. The admin flush,
  which changes state, is in the modules that hold the state; flushing the keys of the limiter, the quotas and
  the cluster is not modelled.
- The AWS endpoints: one call of an outside service, and no state of the gateway's.
- The cache tiers, limiter variants and context functions of `redis_service.py` that nothing calls.
- Migrations, schema declarations, invoices (never written), configuration, logging, Prometheus counters, the prompt
  guard (a stateless pattern match), scripts, demos, the static portal and dashboards.
- Two processes starting at once. `Flusher` has several processes; `Accounts`, `Session`, `Conversation`, `ModelRegistry` and
  `Cluster` model the one process of the Dockerfile.
- How the gateway reaches `create_organization` and `add_user_to_org`: `organizations.router` is included neither in
  `api/v1/router.py` nor in `main.py`, so the running gateway does not serve them. `Accounts` models them as they are
  written, for whoever mounts the router.
- How it reaches a failover: nothing calls `generate_with_fallback`, and `FALLBACK_PROVIDERS` is empty by default.
  `Inference` models it as it is written, over any chain.
- The retries of the OpenAI SDK, which sleep inside one post and do not change what the adapter does after it.
- Names that collide across key families: no provider is called `conv` or `global`.
- Wrong passwords, forged tokens, inactive users: requests that end in an early return and change nothing.

## 6. Plan

The order was chosen by how much of the gateway depends on a part and how hard its interleavings are to test:

1. limiter, quotas, flusher: the promises on money and fairness, the refinement included;
2. cluster and sessions;
3. conversations, accounts, model registry;
4. cache, engine, adapters and inference.

All are modelled, and their safety properties proved. What is left:

1. The engine over keys with TTLs and late cutoffs, for one key shared by both passes: what `SlidingWindow` shows of a key
   whose checks all run on threads.
2. An abstract specification of the flusher's usage half, with a refinement proof.
