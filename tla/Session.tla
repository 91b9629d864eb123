------------------------------ MODULE Session ------------------------------
(***************************************************************************)
(* One user's sessions: login and refresh (auth.py) issue an access token  *)
(* and write session:{user_id}; every request (deps.get_current_user)      *)
(* reads the session of its token or of its API key and rebuilds it from   *)
(* SQL when it is missing; logout blacklists the token and deletes the     *)
(* session.  The endpoints are sync functions: each request is a thread,   *)
(* and each Redis command or SQL query is a step of its own.               *)
(*                                                                         *)
(* A session field is abstracted to its age: the ticks since it was read   *)
(* from SQL.  The user belongs to an organization.                         *)
(***************************************************************************)
EXTENDS Integers, FiniteSets

CONSTANTS
    Requests,   \* threads of the pool
    Tokens,     \* access tokens alive at a time
    TTL,        \* ACCESS_TOKEN_EXPIRE_MINUTES, of sessions and of tokens
    Fallback,   \* blacklist TTL of a token logout cannot decode, 1800 s
    MaxDelay,   \* bound: ticks from a SQL read to the end of the rebuild
    MaxFaults   \* bound: Redis errors, crashes, flushes

ASSUME SessionAssumption ==
    /\ TTL \in Nat \ {0} /\ Fallback \in Nat \ {0}
    /\ MaxDelay \in Nat /\ MaxFaults \in Nat
    /\ "none" \notin Tokens

VARIABLES
    live,       \* does the session hash exist?
    planAge,    \* age of its plan and quota fields
    orgAge,     \* age of its organization_id, or NoField
    ttl,        \* its TTL, 0 if it has none
    life,       \* seconds a token is still valid
    black,      \* TTL of blacklist:{token}
    revoked,    \* history: was the token blacklisted?
    pc, on, age,  \* a request: its next command, session and SQL data's age
    job,        \* the rest of it
    wiped, faults

vars == <<live, planAge, orgAge, ttl, life, black, revoked, pc, on, age, job,
          wiped, faults>>
session == <<live, planAge, orgAge, ttl>>
tokens == <<life, black, revoked>>

\* session:{user_id} and session:apikey:{hash_prefix}
Sessions == {"user", "key"}
NoField == -1
NoToken == "none"

\* The oldest age told apart.
Old == TTL + 2 * MaxDelay

NoJob == [tok |-> NoToken, purpose |-> "serve", left |-> 0]
Purposes == {"issue", "serve", "logout"}
Writing(r) == pc[r] \in {"hset", "expire"}
Fault == faults < MaxFaults /\ faults' = faults + 1

Init ==
    /\ live = [k \in Sessions |-> FALSE]
    /\ planAge = [k \in Sessions |-> 0]
    /\ orgAge = [k \in Sessions |-> NoField]
    /\ ttl = [k \in Sessions |-> 0]
    /\ life = [t \in Tokens |-> 0]
    /\ black = [t \in Tokens |-> 0]
    /\ revoked = [t \in Tokens |-> FALSE]
    /\ pc = [r \in Requests |-> "idle"]
    /\ on = [r \in Requests |-> "user"]
    /\ age = [r \in Requests |-> 0]
    /\ job = [r \in Requests |-> NoJob]
    /\ wiped = FALSE /\ faults = 0

-----------------------------------------------------------------------------
(* A request arrives *)

\* Request r goes on at l; one that is done keeps nothing.
Step(r, l, left) ==
    /\ pc' = [pc EXCEPT ![r] = l]
    /\ job' = [job EXCEPT ![r] =
                  IF l = "idle" THEN NoJob
                  ELSE [tok |-> @.tok, purpose |-> @.purpose, left |-> left]]
    /\ on' = [on EXCEPT ![r] = IF l = "idle" THEN "user" ELSE @]

Goto(r, l) == Step(r, l, job[r].left)
Held(t) == \E r \in Requests : pc[r] # "idle" /\ job[r].tok = t

Arrive(r, k, l, t, p) ==
    /\ pc[r] = "idle" /\ pc' = [pc EXCEPT ![r] = l]
    /\ on' = [on EXCEPT ![r] = k]
    /\ age' = [age EXCEPT ![r] = 0]
    /\ job' = [job EXCEPT ![r] = [tok |-> t, purpose |-> p, left |-> 0]]
    /\ UNCHANGED <<session, black, wiped, faults>>

\* login and refresh: the user and plan are read from SQL, a token is minted.
Issue(r, t) ==
    /\ life[t] = 0 /\ black[t] = 0 /\ ~ Held(t)
    /\ Arrive(r, "user", "hset", t, "issue")
    /\ life' = [life EXCEPT ![t] = TTL]
    /\ revoked' = [revoked EXCEPT ![t] = FALSE]

\* A client presents a token it has been given.
UseToken(r, t, p) ==
    /\ life[t] > 0
    /\ \A q \in Requests : Writing(q) /\ job[q].tok = t => job[q].purpose # "issue"
    /\ Arrive(r, "user", "exists", t, p) /\ UNCHANGED <<life, revoked>>

UseKey(r, p) == Arrive(r, "key", "get", NoToken, p) /\ UNCHANGED <<life, revoked>>

-----------------------------------------------------------------------------
(* Authentication *)

\* is_blacklisted: 401 for a revoked token.
Exists(r) ==
    /\ pc[r] = "exists"
    /\ Goto(r, IF black[job[r].tok] > 0 THEN "idle" ELSE "get")
    /\ UNCHANGED <<session, tokens, age, wiped, faults>>

\* Mutant of Remaining: the lifetime is rounded down once too often.
RemainingShort(t) ==
    IF t \in Tokens /\ life[t] > 0 THEN (IF life[t] > 1 THEN life[t] - 1 ELSE 1)
    ELSE Fallback

\* What logout's jwt.decode says of the token: it raises if that is expired,
\* or an API key.
Remaining(t) == IF t \in Tokens /\ life[t] > 0 THEN life[t] ELSE Fallback

\* The user is known: the endpoint runs, and logout begins.
Admit(r) ==
    Step(r, IF job[r].purpose = "logout" THEN "setex" ELSE "idle",
         Remaining(job[r].tok))

\* decode_access_token, then HGETALL.
Get(r) ==
    /\ pc[r] = "get"
    /\ \/ /\ on[r] = "user" /\ life[job[r].tok] = 0
          /\ Goto(r, "idle")
       \/ /\ on[r] = "user" => life[job[r].tok] > 0
          /\ IF live[on[r]] THEN Admit(r) ELSE Goto(r, "sql")
    /\ UNCHANGED <<session, tokens, age, wiped, faults>>

\* The cold path reads the user, the API key and the plan.
ReadSql(r) ==
    /\ pc[r] = "sql" /\ Goto(r, "hset")
    /\ age' = [age EXCEPT ![r] = 0]
    /\ UNCHANGED <<session, tokens, wiped, faults>>

\* HSET merges: login and refresh name no organization_id.
Hset(r) ==
    LET k == on[r] IN
    /\ pc[r] = "hset" /\ Goto(r, "expire")
    /\ live' = [live EXCEPT ![k] = TRUE]
    /\ planAge' = [planAge EXCEPT ![k] = age[r]]
    /\ orgAge' = IF job[r].purpose = "issue" THEN orgAge
                 ELSE [orgAge EXCEPT ![k] = age[r]]
    /\ UNCHANGED <<ttl, tokens, age, wiped, faults>>

Return(r) == IF job[r].purpose = "issue" THEN Goto(r, "idle") ELSE Admit(r)

\* Mutant of Expire: login and refresh leave the TTL to the cold path.
ExpireRebuilt(r) ==
    /\ pc[r] = "expire" /\ Return(r)
    /\ ttl' = [ttl EXCEPT ![on[r]] = IF live[on[r]] /\ job[r].purpose # "issue" THEN TTL ELSE @]
    /\ age' = [age EXCEPT ![r] = 0]
    /\ UNCHANGED <<live, planAge, orgAge, tokens, wiped, faults>>

\* EXPIRE does nothing to a session deleted or lapsed since the HSET.
Expire(r) ==
    /\ pc[r] = "expire" /\ Return(r)
    /\ ttl' = [ttl EXCEPT ![on[r]] = IF live[on[r]] THEN TTL ELSE 0]
    /\ age' = [age EXCEPT ![r] = 0]
    /\ UNCHANGED <<live, planAge, orgAge, tokens, wiped, faults>>

-----------------------------------------------------------------------------
(* Logout *)

Gone(K) ==
    /\ live' = [k \in Sessions |-> live[k] /\ k \notin K]
    /\ planAge' = [k \in Sessions |-> IF k \in K THEN 0 ELSE planAge[k]]
    /\ orgAge' = [k \in Sessions |-> IF k \in K THEN NoField ELSE orgAge[k]]

\* blacklist_token; an API key's entry is never looked up.
Setex(r) ==
    /\ pc[r] = "setex" /\ Goto(r, "delete")
    /\ black' = [t \in Tokens |-> IF t = job[r].tok THEN job[r].left ELSE black[t]]
    /\ revoked' = [t \in Tokens |-> t = job[r].tok \/ revoked[t]]
    /\ UNCHANGED <<session, life, age, wiped, faults>>

Delete(r) ==
    /\ pc[r] = "delete" /\ Goto(r, "idle")
    /\ Gone({"user"}) /\ ttl' = [ttl EXCEPT !["user"] = 0]
    /\ UNCHANGED <<tokens, age, wiped, faults>>

-----------------------------------------------------------------------------
(* The environment *)

\* The requests of R end; a token not yet returned to its client is lost.
End(R) ==
    /\ pc' = [r \in Requests |-> IF r \in R THEN "idle" ELSE pc[r]]
    /\ life' = [t \in Tokens |->
                   IF \E r \in R : Writing(r) /\ job[r].tok = t /\ job[r].purpose = "issue"
                   THEN 0 ELSE life[t]]
    /\ job' = [r \in Requests |-> IF r \in R THEN NoJob ELSE job[r]]
    /\ on' = [r \in Requests |-> IF r \in R THEN "user" ELSE on[r]]
    /\ age' = [r \in Requests |-> IF r \in R THEN 0 ELSE age[r]]
    /\ Fault
    /\ UNCHANGED <<session, black, revoked, wiped>>

Fail(r) == pc[r] # "idle" /\ End({r})
Crash == End(Requests)

FlushAll ==
    /\ Gone(Sessions) /\ ttl' = [k \in Sessions |-> 0]
    /\ black' = [t \in Tokens |-> 0]
    /\ wiped' = TRUE /\ Fault
    /\ UNCHANGED <<life, revoked, pc, on, age, job>>

Older(a) == IF a < Old THEN a + 1 ELSE Old
Less(n) == IF n > 0 THEN n - 1 ELSE 0

Tick ==
    /\ \A r \in Requests : Writing(r) => age[r] < MaxDelay
    /\ age' = [r \in Requests |-> IF Writing(r) THEN age[r] + 1 ELSE 0]
    /\ live' = [k \in Sessions |-> live[k] /\ ttl[k] # 1]
    /\ planAge' = [k \in Sessions |-> IF live'[k] THEN Older(planAge[k]) ELSE 0]
    /\ orgAge' = [k \in Sessions |->
                     IF live'[k] /\ orgAge[k] # NoField THEN Older(orgAge[k]) ELSE NoField]
    /\ ttl' = [k \in Sessions |-> Less(ttl[k])]
    /\ life' = [t \in Tokens |-> Less(life[t])]
    /\ black' = [t \in Tokens |-> Less(black[t])]
    /\ UNCHANGED <<revoked, pc, on, job, wiped, faults>>

Next ==
    \/ \E r \in Requests :
          \/ \E t \in Tokens : Issue(r, t) \/ \E p \in {"serve", "logout"} : UseToken(r, t, p)
          \/ \E p \in {"serve", "logout"} : UseKey(r, p)
          \/ Exists(r) \/ Get(r) \/ ReadSql(r) \/ Hset(r) \/ Expire(r)
          \/ Setex(r) \/ Delete(r) \/ Fail(r)
    \/ Crash \/ FlushAll \/ Tick

Spec == Init /\ [][Next]_vars

-----------------------------------------------------------------------------
(* Properties *)

\* Every variable has its type; a hash that does not exist has no TTL.
TypeOK ==
    /\ live \in [Sessions -> BOOLEAN]
    /\ planAge \in [Sessions -> 0 .. Old]
    /\ orgAge \in [Sessions -> NoField .. Old]
    /\ ttl \in [Sessions -> 0 .. TTL]
    /\ \A k \in Sessions : ~ live[k] => ttl[k] = 0
    /\ life \in [Tokens -> 0 .. TTL]
    /\ black \in [Tokens -> Nat]
    /\ revoked \in [Tokens -> BOOLEAN]
    /\ pc \in [Requests -> {"idle", "exists", "get", "sql", "hset", "expire",
                            "setex", "delete"}]
    /\ on \in [Requests -> Sessions]
    /\ age \in [Requests -> 0 .. MaxDelay]
    /\ job \in [Requests -> [tok : Tokens \cup {NoToken}, purpose : Purposes, left : Nat]]
    /\ \A r \in Requests : on[r] = "user" /\ pc[r] # "idle" => job[r].tok \in Tokens
    /\ wiped \in BOOLEAN /\ faults \in 0 .. MaxFaults

\* A session served from Redis (get_session, get_apikey_session) has plan and
\* quotas read from SQL less than a TTL and two rebuilds ago, however the
\* HSET and EXPIRE of concurrent rebuilds interleave; so has the organization
\* of an API key's session.  One lost EXPIRE would break it for good.
FieldsFresh ==
    faults = 0 =>
        \A k \in Sessions :
            live[k] => /\ planAge[k] < Old
                       /\ k = "key" => orgAge[k] \in 0 .. Old - 1

\* blacklist_token: "Blacklist a JWT with TTL equal to remaining token
\* lifetime".  The entry outlives the token however late the SETEX is.
RevokedUntilExpiry ==
    \A t \in Tokens : revoked[t] /\ ~ wiped => black[t] >= life[t]

-----------------------------------------------------------------------------
(* Sentences of the repository that the code does not keep: README, section 3 *)

\* "Both paths produce the same UserSession dataclass".
SameSession ==
    live["user"] /\ live["key"] => (orgAge["user"] = NoField <=> orgAge["key"] = NoField)

\* refresh: "Rebuilds the Redis session".
OrganizationFresh == faults = 0 => \A k \in Sessions : live[k] => orgAge[k] < Old
=============================================================================
