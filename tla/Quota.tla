------------------------------- MODULE Quota -------------------------------
(***************************************************************************)
(* Daily and monthly quotas of ONE user: check_rate_limit (deps.py) reads  *)
(* the counters on a worker thread before the handler runs; the handlers   *)
(* of /chat, /chat/stream and /v1/chat/completions charge them after the   *)
(* answer.  Everything between the read and the charge can interleave with *)
(* other requests of the user, with midnight and with the keys' TTLs.      *)
(*                                                                         *)
(* Time is counted in half days, so that the server's local date (which    *)
(* the handlers charge) can differ from the UTC date (which the check      *)
(* reads), and so that a 48-hour TTL is four ticks.  The days modelled     *)
(* belong to one month.  The rate limits before the quota checks are in    *)
(* RateLimiter; here they only refuse or let pass.                         *)
(***************************************************************************)
EXTENDS Integers, FiniteSets, FiniteSetsExt

CONSTANTS
    Clients,     \* concurrent requests of the user, each slot reused
    Endpoints,   \* the endpoints the user calls
    Daily,       \* daily_quota
    Monthly,     \* monthly_quota
    ZoneOffset,  \* local time ahead of UTC, in half days
    MaxDay,      \* bound: days modelled
    MaxAnswers   \* bound: answers charged

ASSUME QuotaAssumption ==
    /\ Endpoints \subseteq {"chat", "stream", "openai"} /\ Endpoints # {}
    /\ Daily \in Nat \ {0} /\ Monthly \in Nat \ {0}
    /\ ZoneOffset \in {-1, 0, 1}
    /\ MaxDay \in Nat /\ MaxAnswers \in Nat
    /\ IsFiniteSet(Clients)

VARIABLES
    time,       \* half days since the month began
    pc,         \* where each request is
    endpoint,   \* the handler it calls
    date,       \* today_str of its handler
    utc,        \* the UTC date when it was fixed
    quota,      \* quota:{user}:{date}
    quotaEnd,   \* when that key expires, Never without a TTL
    usage,      \* request_count of usage:{user}:{date}
    usageEnd,   \* when that key expires
    answers,    \* answers charged so far
    astray,     \* history: answers charged to a day that was not the UTC date
    unquoted    \* history: other answers in the usage of a day and not in its quota

history == <<answers, astray, unquoted>>
redis == <<quota, quotaEnd, usage, usageEnd>>
vars == <<time, pc, endpoint, date, utc, redis, history>>

Days == -1 .. MaxDay + 1
UtcDay == time \div 2
LocalDay == (time + ZoneOffset) \div 2
TTL == 4
Never == 2 * MaxDay + 6     \* later than any key with a TTL expires

local == <<endpoint, date, utc>>
AnEndpoint == CHOOSE e \in Endpoints : TRUE

Goto(c, label) == pc' = [pc EXCEPT ![c] = label] /\ UNCHANGED local

\* The request is over, and what it held with it.
Ends(c) ==
    /\ pc' = [pc EXCEPT ![c] = "idle"]
    /\ endpoint' = [endpoint EXCEPT ![c] = AnEndpoint]
    /\ date' = [date EXCEPT ![c] = 0] /\ utc' = [utc EXCEPT ![c] = 0]

Total(f, days) == MapThenSumSet(LAMBDA d : f[d], days)

Init ==
    /\ time = 0
    /\ pc = [c \in Clients |-> "idle"]
    /\ endpoint = [c \in Clients |-> AnEndpoint]
    /\ date = [c \in Clients |-> 0] /\ utc = [c \in Clients |-> 0]
    /\ quota = [d \in Days |-> 0] /\ quotaEnd = [d \in Days |-> 0]
    /\ usage = [d \in Days |-> 0] /\ usageEnd = [d \in Days |-> 0]
    /\ answers = 0
    /\ astray = [d \in Days |-> 0] /\ unquoted = [d \in Days |-> 0]

\* Handlers run on the event loop: while one charges, no other moves.
LoopFree == \A c \in Clients : pc[c] \notin {"charge", "chargeQuota", "expireQuota"}

-----------------------------------------------------------------------------
\* A request the rate limits let pass.
Arrive(c) ==
    /\ pc[c] = "idle"
    /\ \E e \in Endpoints : endpoint' = [endpoint EXCEPT ![c] = e]
    /\ pc' = [pc EXCEPT ![c] = "daily"]
    /\ UNCHANGED <<time, date, utc, redis, history>>

\* Mutant of CheckDaily: "current_daily > daily_quota".
CheckDailyOffByOne(c) ==
    /\ pc[c] = "daily"
    /\ IF quota[UtcDay] > Daily THEN Ends(c) ELSE Goto(c, "monthly")
    /\ UNCHANGED <<time, redis, history>>

\* get_quota of the UTC date; 429 when it is used up.
CheckDaily(c) ==
    /\ pc[c] = "daily"
    /\ IF quota[UtcDay] >= Daily THEN Ends(c) ELSE Goto(c, "monthly")
    /\ UNCHANGED <<time, redis, history>>

\* Mutant of CheckMonthly: the sum leaves today out.
CheckMonthlyPast(c) ==
    /\ pc[c] = "monthly"
    /\ IF Total(usage, 0 .. UtcDay - 1) >= Monthly THEN Ends(c) ELSE Goto(c, "enter")
    /\ UNCHANGED <<time, redis, history>>

\* _sum_monthly_usage_from_redis, from the first of the month to today.  Of its
\* reads the last, of today's hash, is the only one a charge can race with.
CheckMonthly(c) ==
    /\ pc[c] = "monthly"
    /\ IF Total(usage, 0 .. UtcDay) >= Monthly THEN Ends(c) ELSE Goto(c, "enter")
    /\ UNCHANGED <<time, redis, history>>

\* The request goes on with date.today(), the server's local date.
Dated(c, label) ==
    /\ pc' = [pc EXCEPT ![c] = label]
    /\ date' = [date EXCEPT ![c] = LocalDay] /\ utc' = [utc EXCEPT ![c] = UtcDay]
    /\ UNCHANGED endpoint

\* The handler starts: it fixes its date (the OpenAI one does when it charges).  A
\* cached chat answer is charged at once, anything else after inference.
Enter(c) ==
    /\ pc[c] = "enter" /\ LoopFree
    /\ \/ Dated(c, "generate")
       \/ endpoint[c] = "chat" /\ Dated(c, "charge")
       \/ Ends(c)   \* 400: empty or unsafe prompt, unknown provider
    /\ UNCHANGED <<time, redis, history>>

\* Inference succeeds, or it fails, or the client of a stream leaves: neither of
\* the latter is charged.
Generated(c) ==
    /\ pc[c] = "generate" /\ LoopFree
    /\ \/ endpoint[c] = "openai" /\ Dated(c, "charge")
       \/ endpoint[c] # "openai" /\ Goto(c, "charge")
       \/ Ends(c)
    /\ UNCHANGED <<time, redis, history>>

Astray(c) == utc[c] # date[c]

\* increment_usage: one transaction, which also renews the TTL.  /v1 ends here.
Charge(c) ==
    /\ pc[c] = "charge"
    /\ answers < MaxAnswers
    /\ LET d == date[c] IN
          /\ usage' = [usage EXCEPT ![d] = @ + 1]
          /\ usageEnd' = [usageEnd EXCEPT ![d] = time + TTL]
          /\ astray' = IF Astray(c) THEN [astray EXCEPT ![d] = @ + 1] ELSE astray
          /\ unquoted' = IF ~ Astray(c) /\ endpoint[c] = "openai"
                         THEN [unquoted EXCEPT ![d] = @ + 1] ELSE unquoted
    /\ answers' = answers + 1
    /\ IF endpoint[c] = "openai" THEN Ends(c) ELSE Goto(c, "chargeQuota")
    /\ UNCHANGED <<time, quota, quotaEnd>>

\* A counter that INCR makes has no TTL yet; only the call that made it sets one.
Incremented(c, count) ==
    /\ quota' = [quota EXCEPT ![date[c]] = count]
    /\ IF quota[date[c]] = 0
       THEN quotaEnd' = [quotaEnd EXCEPT ![date[c]] = Never] /\ Goto(c, "expireQuota")
       ELSE UNCHANGED quotaEnd /\ Ends(c)

\* Mutant of ChargeQuota: a retried INCR that had reached Redis.
ChargeQuotaTwice(c) ==
    /\ pc[c] = "chargeQuota"
    /\ Incremented(c, quota[date[c]] + 2)
    /\ UNCHANGED <<time, usage, usageEnd, history>>

\* increment_quota: INCR.
ChargeQuota(c) ==
    /\ pc[c] = "chargeQuota"
    /\ Incremented(c, quota[date[c]] + 1)
    /\ UNCHANGED <<time, usage, usageEnd, history>>

\* increment_quota: EXPIRE, when the count was 1.
ExpireQuota(c) ==
    /\ pc[c] = "expireQuota"
    /\ quotaEnd' = [quotaEnd EXCEPT ![date[c]] = time + TTL]
    /\ Ends(c)
    /\ UNCHANGED <<time, quota, usage, usageEnd, history>>

\* Redis fails, or the process dies, before the INCR: the answer is in usage and not
\* in the quota.  After the INCR: it is in both, and a new key keeps no TTL.
ChargeFails(c) ==
    /\ pc[c] \in {"chargeQuota", "expireQuota"}
    /\ Ends(c)
    /\ unquoted' = IF Astray(c) \/ pc[c] = "expireQuota" THEN unquoted
                   ELSE [unquoted EXCEPT ![date[c]] = @ + 1]
    /\ UNCHANGED <<time, redis, answers, astray>>

\* What is left of a key's count, or of its TTL, after half a day.
Left(value, end) == [d \in Days |-> IF end[d] <= time + 1 THEN 0 ELSE value[d]]

\* Half a day passes; charging is too quick to span it.  Keys expire.
HalfDay ==
    /\ time < 2 * MaxDay + 1 /\ LoopFree
    /\ time' = time + 1
    /\ quota' = Left(quota, quotaEnd) /\ quotaEnd' = Left(quotaEnd, quotaEnd)
    /\ usage' = Left(usage, usageEnd) /\ usageEnd' = Left(usageEnd, usageEnd)
    /\ UNCHANGED <<pc, local, history>>

Next ==
    \/ \E c \in Clients :
          \/ Arrive(c) \/ CheckDaily(c) \/ CheckMonthly(c) \/ Enter(c)
          \/ Generated(c) \/ Charge(c) \/ ChargeQuota(c) \/ ExpireQuota(c) \/ ChargeFails(c)
    \/ HalfDay

Spec == Init /\ [][Next]_vars

-----------------------------------------------------------------------------
\* Types, and a key that exists (its count is positive) has its TTL ahead.
TypeOK ==
    /\ time \in 0 .. 2 * MaxDay + 1
    /\ pc \in [Clients -> {"idle", "daily", "monthly", "enter", "generate",
                           "charge", "chargeQuota", "expireQuota"}]
    /\ endpoint \in [Clients -> Endpoints]
    /\ date \in [Clients -> Days] /\ utc \in [Clients -> Days]
    /\ quota \in [Days -> Nat] /\ quotaEnd \in [Days -> Nat]
    /\ usage \in [Days -> Nat] /\ usageEnd \in [Days -> Nat]
    /\ answers \in 0 .. MaxAnswers
    /\ astray \in [Days -> Nat] /\ unquoted \in [Days -> Nat]
    /\ \A d \in Days : quota[d] > 0 => quotaEnd[d] > time
    /\ \A d \in Days : usage[d] > 0 => usageEnd[d] > time

\* The answers billed to a day exceed its quota by at most the user's other
\* requests in flight, across midnight too, and by two kinds that the check never
\* sees: those charged while the local date was not the UTC date, and those of an
\* endpoint, or of a Redis error, that left them out of the day's quota.
DailyBound ==
    \A d \in Days : usage[d] <= Daily - 1 + Cardinality(Clients) + astray[d] + unquoted[d]

\* Nobody is refused for more than the usage he is billed by: from today on a day's
\* quota counter is within its usage.  Only a counter that lost its TTL to a failure
\* between INCR and EXPIRE is left over a usage that expired, and on a day gone by.
QuotaWithinUsage ==
    \A d \in Days : quota[d] <= usage[d] \/ (d < UtcDay /\ quotaEnd[d] = Never)

\* The usage Redis still holds for the month exceeds the monthly quota by at
\* most the requests in flight and the answers charged to a day that the sum does
\* not reach yet, whichever endpoints were called.
MonthlyBound ==
    Total(usage, Days) <= Monthly - 1 + Cardinality(Clients) + Total(astray, Days)

-----------------------------------------------------------------------------
(* Sentences of the repository that the code does not keep: README, section 3 *)

\* check_rate_limit, deps.py: "Then enforces daily and monthly quotas via Redis
\* counters".  The OpenAI-compatible endpoint is behind that check and does not
\* charge the daily counter.
DailyEnforced == \A d \in Days : usage[d] <= Daily - 1 + Cardinality(Clients)

\* _sum_monthly_usage_from_redis, deps.py: "Sum request_count across all
\* usage:{user_id}:{date} keys for the current month".  The keys of the month are
\* gone 48 hours after their last charge, and the month's quota with them.
MonthlyEnforced == answers <= Monthly - 1 + Cardinality(Clients)
=============================================================================
