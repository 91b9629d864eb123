--------------------------- MODULE SessionProofs ---------------------------
(***************************************************************************)
(* Proofs about Session: typing, the freshness of a served session, and    *)
(* that the blacklist entry of a token outlives it.                        *)
(***************************************************************************)
EXTENDS Session, TLAPS

\* One request's own step, without the environment's.
Own(r) ==
    \/ \E t \in Tokens : Issue(r, t) \/ \E p \in {"serve", "logout"} : UseToken(r, t, p)
    \/ \E p \in {"serve", "logout"} : UseKey(r, p)
    \/ Exists(r) \/ Get(r) \/ ReadSql(r) \/ Hset(r) \/ Expire(r)
    \/ Setex(r) \/ Delete(r) \/ Fail(r)

LEMMA OldFact == Old \in Nat /\ Old > 0 /\ 2 * MaxDelay < Old /\ Old = TTL + 2 * MaxDelay
  BY SessionAssumption DEF Old

\* Lifetimes taken for the blacklist are natural numbers.
LEMMA RemainingFact ==
    ASSUME TypeOK, NEW t \in Tokens \cup {NoToken}
    PROVE  Remaining(t) \in Nat /\ (t \in Tokens => Remaining(t) >= life[t])
  BY SessionAssumption DEF TypeOK, Remaining

\* A step of Step(r, l, left) preserves the typing of what it changes.
LEMMA StepType ==
    ASSUME TypeOK, NEW r \in Requests, NEW l, NEW left \in Nat, Step(r, l, left),
           l \in {"idle", "exists", "get", "sql", "hset", "expire", "setex", "delete"},
           pc[r] # "idle"
    PROVE  /\ pc' \in [Requests -> {"idle", "exists", "get", "sql", "hset", "expire",
                                     "setex", "delete"}]
           /\ on' \in [Requests -> Sessions]
           /\ job' \in [Requests -> [tok : Tokens \cup {NoToken}, purpose : Purposes, left : Nat]]
           /\ \A q \in Requests : on'[q] = "user" /\ pc'[q] # "idle" => job'[q].tok \in Tokens
PROOF
<1>1. NoJob \in [tok : Tokens \cup {NoToken}, purpose : Purposes, left : Nat]
  BY DEF NoJob, Purposes, NoToken
<1>2. job[r] \in [tok : Tokens \cup {NoToken}, purpose : Purposes, left : Nat]
  BY DEF TypeOK
<1>3. [tok |-> job[r].tok, purpose |-> job[r].purpose, left |-> left]
        \in [tok : Tokens \cup {NoToken}, purpose : Purposes, left : Nat]
  BY <1>2
<1>4. job' \in [Requests -> [tok : Tokens \cup {NoToken}, purpose : Purposes, left : Nat]]
  BY <1>1, <1>3 DEF Step, TypeOK
<1>5. /\ pc' \in [Requests -> {"idle", "exists", "get", "sql", "hset", "expire",
                              "setex", "delete"}]
      /\ on' \in [Requests -> Sessions]
  BY DEF Step, TypeOK, Sessions
<1>6. ASSUME NEW q \in Requests, on'[q] = "user", pc'[q] # "idle"
      PROVE  job'[q].tok \in Tokens
  BY <1>6 DEF Step, TypeOK
<1> QED BY <1>4, <1>5, <1>6

-----------------------------------------------------------------------------
(* Typing *)

\* The typing of one request's step.
LEMMA OwnType ==
    ASSUME TypeOK, NEW r \in Requests, Own(r)
    PROVE  TypeOK'
PROOF
<1> USE OldFact, SessionAssumption
<1>0. /\ job[r].left \in Nat /\ job[r].tok \in Tokens \cup {NoToken}
      /\ job[r].purpose \in Purposes /\ age[r] \in 0 .. MaxDelay /\ on[r] \in Sessions
  BY DEF TypeOK
<1>1. ASSUME NEW t \in Tokens, Issue(r, t) PROVE TypeOK'
  <2>1. [tok |-> t, purpose |-> "issue", left |-> 0]
           \in [tok : Tokens \cup {NoToken}, purpose : Purposes, left : Nat]
    BY DEF Purposes
  <2> QED BY <1>1, <2>1 DEF TypeOK, Issue, Arrive, session, Sessions
<1>2. ASSUME NEW t \in Tokens, NEW p \in {"serve", "logout"}, UseToken(r, t, p) PROVE TypeOK'
  <2>1. [tok |-> t, purpose |-> p, left |-> 0]
           \in [tok : Tokens \cup {NoToken}, purpose : Purposes, left : Nat]
    BY DEF Purposes
  <2> QED BY <1>2, <2>1 DEF TypeOK, UseToken, Arrive, session, Sessions
<1>3. ASSUME NEW p \in {"serve", "logout"}, UseKey(r, p) PROVE TypeOK'
  <2>1. [tok |-> NoToken, purpose |-> p, left |-> 0]
           \in [tok : Tokens \cup {NoToken}, purpose : Purposes, left : Nat]
    BY DEF Purposes
  <2> QED BY <1>3, <2>1 DEF TypeOK, UseKey, Arrive, session, Sessions
<1>4. CASE Exists(r)
  <2>1. /\ pc[r] # "idle"
        /\ \E l \in {"idle", "get"} : Step(r, l, job[r].left)
    BY <1>4 DEF Exists, Goto
  <2> QED BY <1>4, <1>0, <2>1, StepType DEF TypeOK, Exists, session, tokens
<1>5. CASE Get(r)
  <2>1. /\ pc[r] # "idle"
        /\ \E l \in {"idle", "sql", "setex"}, n \in Nat : Step(r, l, n)
    BY <1>5, <1>0, RemainingFact DEF Get, Goto, Admit
  <2> QED BY <1>5, <1>0, <2>1, StepType DEF TypeOK, Get, session, tokens
<1>6. CASE ReadSql(r)
  <2>1. pc[r] # "idle" /\ Step(r, "hset", job[r].left)
    BY <1>6 DEF ReadSql, Goto
  <2> QED BY <1>6, <1>0, <2>1, StepType DEF TypeOK, ReadSql, session, tokens
<1>7. CASE Hset(r)
  <2>1. pc[r] # "idle" /\ Step(r, "expire", job[r].left)
    BY <1>7 DEF Hset, Goto
  <2> QED BY <1>7, <1>0, <2>1, StepType DEF TypeOK, Hset, session, tokens, NoField
<1>8. CASE Expire(r)
  <2>1. /\ pc[r] # "idle"
        /\ \E l \in {"idle", "setex"}, n \in Nat : Step(r, l, n)
    BY <1>8, <1>0, RemainingFact DEF Expire, Return, Goto, Admit
  <2> QED BY <1>8, <1>0, <2>1, StepType DEF TypeOK, Expire, tokens
<1>9. CASE Setex(r)
  <2>1. pc[r] # "idle" /\ Step(r, "delete", job[r].left)
    BY <1>9 DEF Setex, Goto
  <2> QED BY <1>9, <1>0, <2>1, StepType DEF TypeOK, Setex, session
<1>10. CASE Delete(r)
  <2>1. pc[r] # "idle" /\ Step(r, "idle", job[r].left)
    BY <1>10 DEF Delete, Goto
  <2> QED BY <1>10, <1>0, <2>1, StepType DEF TypeOK, Delete, Gone, tokens, Sessions, NoField
<1>11. CASE Fail(r)
  BY <1>11 DEF TypeOK, Fail, End, Fault, NoJob, Purposes, NoToken, session, Sessions
<1> QED BY <1>1, <1>2, <1>3, <1>4, <1>5, <1>6, <1>7, <1>8, <1>9, <1>10, <1>11 DEF Own

LEMMA TypeInit == ASSUME Init PROVE TypeOK
PROOF
<1> USE OldFact, SessionAssumption
<1>1. NoJob \in [tok : Tokens \cup {NoToken}, purpose : Purposes, left : Nat]
  BY DEF NoJob, Purposes, NoToken
<1>2. job \in [Requests -> [tok : Tokens \cup {NoToken}, purpose : Purposes, left : Nat]]
  BY <1>1 DEF Init
<1>3. 0 \in 0 .. TTL /\ 0 \in 0 .. Old /\ -1 \in -1 .. Old /\ 0 \in 0 .. MaxDelay
  OBVIOUS
<1>4. /\ live \in [Sessions -> BOOLEAN] /\ planAge \in [Sessions -> 0 .. Old]
      /\ ttl \in [Sessions -> 0 .. TTL] /\ \A k \in Sessions : ~ live[k] => ttl[k] = 0
  BY <1>3 DEF Init
<1>5. orgAge \in [Sessions -> NoField .. Old]
  BY <1>3 DEF Init, NoField
<1>6. /\ life \in [Tokens -> 0 .. TTL] /\ black \in [Tokens -> Nat]
      /\ revoked \in [Tokens -> BOOLEAN] /\ age \in [Requests -> 0 .. MaxDelay]
  BY <1>3 DEF Init
<1>7. /\ on \in [Requests -> Sessions] /\ wiped \in BOOLEAN /\ faults \in 0 .. MaxFaults
      /\ pc \in [Requests -> {"idle", "exists", "get", "sql", "hset", "expire",
                              "setex", "delete"}]
      /\ \A r \in Requests : pc[r] = "idle"
  <2>1. "user" \in Sessions
    BY DEF Sessions
  <2>2. wiped \in BOOLEAN
    BY DEF Init
  <2>3. faults \in 0 .. MaxFaults
    BY DEF Init
  <2> QED BY <2>1, <2>2, <2>3 DEF Init
<1> QED BY <1>2, <1>4, <1>5, <1>6, <1>7 DEF TypeOK

LEMMA TypeStep == ASSUME TypeOK, [Next]_vars PROVE TypeOK'
PROOF
<1> USE OldFact, SessionAssumption
<1>1. ASSUME NEW r \in Requests, Own(r) PROVE TypeOK'
  BY <1>1, OwnType
<1>2. CASE Crash
  BY <1>2 DEF TypeOK, Crash, End, Fault, NoJob, Purposes, NoToken, session, Sessions
<1>3. CASE FlushAll
  BY <1>3 DEF TypeOK, FlushAll, Gone, Fault, Sessions, NoField
<1>4. CASE Tick
  <2>1. age' \in [Requests -> 0 .. MaxDelay]
    BY <1>4 DEF TypeOK, Tick, Writing
  <2>2. /\ live' \in [Sessions -> BOOLEAN] /\ ttl' \in [Sessions -> 0 .. TTL]
        /\ \A k \in Sessions : ~ live'[k] => ttl'[k] = 0
    BY <1>4 DEF TypeOK, Tick, Less
  <2>3. planAge' \in [Sessions -> 0 .. Old] /\ orgAge' \in [Sessions -> NoField .. Old]
    BY <1>4 DEF TypeOK, Tick, Older, NoField
  <2>4. life' \in [Tokens -> 0 .. TTL] /\ black' \in [Tokens -> Nat]
    BY <1>4 DEF TypeOK, Tick, Less
  <2> QED BY <1>4, <2>1, <2>2, <2>3, <2>4 DEF TypeOK, Tick
<1>5. CASE UNCHANGED vars
  BY <1>5 DEF TypeOK, vars
<1> QED BY <1>1, <1>2, <1>3, <1>4, <1>5 DEF Next, Own

\* Every variable keeps its type.
THEOREM TypeCorrect == Spec => []TypeOK
PROOF
<1>1. Init => TypeOK
  BY TypeInit
<1>2. TypeOK /\ [Next]_vars => TypeOK'
  BY TypeStep
<1> QED BY <1>1, <1>2, PTL DEF Spec

-----------------------------------------------------------------------------
(* Revocation *)

\* Only an API key's request lacks a token, and the lifetime a logout took
\* before its SETEX is not below what is left of the token.
RevokedInv ==
    /\ TypeOK
    /\ RevokedUntilExpiry
    /\ \A r \in Requests, t \in Tokens :
          pc[r] = "setex" /\ job[r].tok = t => job[r].left >= life[t]

\* A request that goes on at "setex" has just taken its token's lifetime.
LEMMA AdmitLeft ==
    ASSUME RevokedInv, NEW r \in Requests, Admit(r), UNCHANGED tokens
    PROVE  \A q \in Requests, t \in Tokens :
             pc'[q] = "setex" /\ job'[q].tok = t => job'[q].left >= life'[t]
PROOF
<1> SUFFICES ASSUME NEW q \in Requests, NEW t \in Tokens, pc'[q] = "setex", job'[q].tok = t
             PROVE  job'[q].left >= life'[t]
  OBVIOUS
<1>1. CASE q = r
  <2>1. job'[r].tok = job[r].tok /\ job'[r].left = Remaining(job[r].tok)
    BY <1>1 DEF Admit, Step, RevokedInv, TypeOK
  <2> QED BY <1>1, <2>1, RemainingFact DEF RevokedInv, tokens
<1>2. CASE q # r
  BY <1>2 DEF Admit, Step, RevokedInv, TypeOK, tokens
<1> QED BY <1>1, <1>2

LEMMA RevokedStep == ASSUME RevokedInv, [Next]_vars PROVE RevokedInv'
PROOF
<1> USE SessionAssumption
<1>1. TypeOK'
  BY TypeStep DEF RevokedInv
<1> DEFINE Covered == \A r \in Requests, t \in Tokens :
              pc[r] = "setex" /\ job[r].tok = t => job[r].left >= life[t]
<1>2. ASSUME NEW r \in Requests, Own(r) PROVE RevokedUntilExpiry' /\ Covered'
  <2>1. ASSUME NEW t \in Tokens, Issue(r, t) PROVE RevokedUntilExpiry' /\ Covered'
    <3>1. pc'[r] # "setex" /\ \A q \in Requests : pc'[q] = "setex" => job[q].tok # t
      BY <2>1 DEF Issue, Arrive, Held, RevokedInv, TypeOK
    <3> QED BY <2>1, <3>1 DEF Issue, Arrive, RevokedInv, RevokedUntilExpiry, TypeOK
  <2>2. ASSUME NEW t \in Tokens, NEW p \in {"serve", "logout"}, UseToken(r, t, p)
        PROVE  RevokedUntilExpiry' /\ Covered'
    BY <2>2 DEF UseToken, Arrive, RevokedInv, RevokedUntilExpiry, TypeOK
  <2>3. ASSUME NEW p \in {"serve", "logout"}, UseKey(r, p) PROVE RevokedUntilExpiry' /\ Covered'
    BY <2>3 DEF UseKey, Arrive, RevokedInv, RevokedUntilExpiry, TypeOK
  <2>4. ASSUME NEW l, l # "setex", Goto(r, l), UNCHANGED <<tokens, wiped>>
        PROVE  RevokedUntilExpiry' /\ Covered'
    BY <2>4 DEF Goto, Step, tokens, RevokedInv, RevokedUntilExpiry, TypeOK
  <2>5. ASSUME Admit(r), UNCHANGED <<tokens, wiped>> PROVE RevokedUntilExpiry' /\ Covered'
    BY <2>5, AdmitLeft DEF tokens, RevokedInv, RevokedUntilExpiry
  <2>6. CASE Setex(r)
    <3>1. Covered'
      BY <2>6 DEF Setex, Goto, Step, RevokedInv, TypeOK
    <3>2. ASSUME NEW t \in Tokens, revoked'[t], ~ wiped' PROVE black'[t] >= life'[t]
      BY <2>6, <3>2 DEF Setex, RevokedInv, RevokedUntilExpiry, TypeOK
    <3> QED BY <3>1, <3>2 DEF RevokedUntilExpiry
  <2>7. CASE Fail(r)
    BY <2>7 DEF Fail, End, RevokedInv, RevokedUntilExpiry, TypeOK
  <2>8. CASE Exists(r) BY <2>4, <2>8 DEF Exists
  <2>9. CASE Get(r) BY <2>4, <2>5, <2>9 DEF Get
  <2>10. CASE ReadSql(r) BY <2>4, <2>10 DEF ReadSql
  <2>11. CASE Hset(r) BY <2>4, <2>11 DEF Hset
  <2>12. CASE Expire(r) BY <2>4, <2>5, <2>12 DEF Expire, Return
  <2>13. CASE Delete(r) BY <2>4, <2>13 DEF Delete
  <2> QED BY <1>2, <2>1, <2>2, <2>3, <2>6, <2>7, <2>8, <2>9, <2>10, <2>11, <2>12, <2>13 DEF Own
<1>3. CASE Crash
  <2>1. RevokedUntilExpiry'
    BY <1>3 DEF Crash, End, RevokedInv, RevokedUntilExpiry, TypeOK
  <2>2. \A r \in Requests : pc'[r] = "idle"
    BY <1>3 DEF Crash, End
  <2> QED BY <1>1, <2>1, <2>2 DEF RevokedInv
<1>4. CASE FlushAll
  <2>1. RevokedUntilExpiry'
    BY <1>4 DEF FlushAll, RevokedUntilExpiry
  <2> QED BY <1>1, <1>4, <2>1 DEF FlushAll, RevokedInv
<1>5. CASE Tick
  <2>1. \A t \in Tokens : life'[t] <= life[t]
    BY <1>5 DEF Tick, Less, RevokedInv, TypeOK
  <2>2. RevokedUntilExpiry'
    BY <1>5 DEF Tick, Less, RevokedInv, RevokedUntilExpiry, TypeOK
  <2>3. Covered'
    <3> SUFFICES ASSUME NEW r \in Requests, NEW t \in Tokens, pc'[r] = "setex", job'[r].tok = t
                 PROVE  job'[r].left >= life'[t]
      OBVIOUS
    <3>1. job' = job /\ pc' = pc
      BY <1>5 DEF Tick
    <3>2. job[r].left >= life[t] /\ job[r].left \in Nat /\ life[t] \in Nat /\ life'[t] \in Nat
      BY <1>1, <3>1 DEF RevokedInv, TypeOK
    <3> QED BY <2>1, <3>1, <3>2
  <2> QED BY <1>1, <2>2, <2>3 DEF RevokedInv
<1>6. CASE UNCHANGED vars
  <2>1. RevokedUntilExpiry'
    BY <1>6 DEF vars, RevokedInv, RevokedUntilExpiry
  <2> QED BY <1>1, <1>6, <2>1 DEF vars, RevokedInv
<1> QED BY <1>1, <1>2, <1>3, <1>4, <1>5, <1>6 DEF Next, Own, RevokedInv

\* The blacklist entry of a revoked token lasts as long as the token, for any
\* lifetime, number of requests and interleaving of their commands.
THEOREM RevocationCorrect == Spec => []RevokedUntilExpiry
PROOF
<1>1. Init => RevokedInv
  <2>1. Init => TypeOK
    BY TypeInit
  <2> QED BY <2>1 DEF Init, RevokedInv, RevokedUntilExpiry
<1>2. RevokedInv /\ [Next]_vars => RevokedInv'
  BY RevokedStep
<1>3. RevokedInv => RevokedUntilExpiry
  BY DEF RevokedInv
<1> QED BY <1>1, <1>2, <1>3, PTL DEF Spec

-----------------------------------------------------------------------------
(* Freshness *)

Pending(k) == {r \in Requests : pc[r] = "expire" /\ on[r] = k}

\* A hash without a TTL has its EXPIRE on the way, and an EXPIRE on the way
\* finds data at most MaxDelay older than its own: it was written after it.
FreshHash(k) ==
    /\ ttl[k] > 0 => planAge[k] + ttl[k] <= Old
    /\ ttl[k] = 0 => Pending(k) # {}
    /\ \A r \in Pending(k) : planAge[k] <= MaxDelay + age[r]
    /\ k = "key" => orgAge[k] = planAge[k]

FreshInv ==
    /\ TypeOK
    /\ \A r \in Requests : job[r].purpose = "issue" => on[r] = "user"
    /\ faults = 0 => \A k \in Sessions : live[k] => FreshHash(k)

\* Only login and refresh, which write the user's session, have purpose "issue".
LEMMA IssueStep ==
    ASSUME FreshInv, [Next]_vars
    PROVE  \A r \in Requests : job'[r].purpose = "issue" => on'[r] = "user"
PROOF
<1> USE DEF FreshInv, TypeOK
<1>1. ASSUME NEW r \in Requests, Own(r)
      PROVE  \A q \in Requests : job'[q].purpose = "issue" => on'[q] = "user"
  <2>1. ASSUME NEW l, NEW n, Step(r, l, n)
        PROVE  \A q \in Requests : job'[q].purpose = "issue" => on'[q] = "user"
    BY <2>1 DEF Step, NoJob
  <2>2. ASSUME NEW k, NEW l, NEW t, NEW p, Arrive(r, k, l, t, p), p = "issue" => k = "user"
        PROVE  \A q \in Requests : job'[q].purpose = "issue" => on'[q] = "user"
    BY <2>2 DEF Arrive
  <2>3. CASE \E t \in Tokens : Issue(r, t) \/ \E p \in {"serve", "logout"} : UseToken(r, t, p)
    BY <2>2, <2>3 DEF Issue, UseToken
  <2>4. CASE \E p \in {"serve", "logout"} : UseKey(r, p)
    BY <2>2, <2>4 DEF UseKey
  <2>5. CASE Fail(r)
    BY <2>5 DEF Fail, End, NoJob
  <2>6. CASE Exists(r) \/ ReadSql(r) \/ Hset(r) \/ Setex(r) \/ Delete(r)
    BY <2>1, <2>6 DEF Exists, ReadSql, Hset, Setex, Delete, Goto
  <2>7. CASE Get(r) \/ Expire(r)
    BY <2>1, <2>7 DEF Get, Expire, Return, Admit, Goto
  <2> QED BY <1>1, <2>3, <2>4, <2>5, <2>6, <2>7 DEF Own
<1>2. CASE Crash
  BY <1>2 DEF Crash, End, NoJob
<1>3. CASE FlushAll \/ Tick \/ UNCHANGED vars
  BY <1>3 DEF FlushAll, Tick, vars
<1> QED BY <1>1, <1>2, <1>3 DEF Next, Own

\* A step that touches no session and no EXPIRE on the way.
LEMMA FreshQuiet ==
    ASSUME FreshInv, UNCHANGED <<session, faults>>,
           \A k \in Sessions : Pending(k)' = Pending(k),
           \A k \in Sessions : \A r \in Pending(k) : age'[r] = age[r]
    PROVE  (faults = 0 => \A k \in Sessions : live[k] => FreshHash(k))'
  BY DEF FreshInv, FreshHash, session

LEMMA FreshHset ==
    ASSUME FreshInv, NEW r \in Requests, Hset(r)
    PROVE  (faults = 0 => \A k \in Sessions : live[k] => FreshHash(k))'
PROOF
<1> USE OldFact, SessionAssumption
<1> SUFFICES ASSUME faults = 0, NEW k \in Sessions, live'[k] PROVE FreshHash(k)'
  BY DEF Hset
<1>1. /\ r \notin Pending(on[r])
      /\ Pending(k)' = IF k = on[r] THEN Pending(k) \cup {r} ELSE Pending(k)
      /\ age' = age /\ age[r] \in 0 .. MaxDelay /\ ttl' = ttl
  BY DEF Hset, Goto, Step, Pending, FreshInv, TypeOK
<1>2. CASE k # on[r]
  BY <1>1, <1>2 DEF Hset, FreshHash, FreshInv, TypeOK
<1>3. CASE k = on[r]
  <2>1. planAge'[k] = age[r]
    BY <1>3 DEF Hset, FreshInv, TypeOK
  <2>2. k = "key" => orgAge'[k] = age[r]
    BY <1>3 DEF Hset, FreshInv, TypeOK
  <2>3. ttl'[k] > 0 => planAge'[k] + ttl'[k] <= Old
    BY <1>1, <2>1 DEF FreshInv, TypeOK
  <2>4. \A q \in Pending(k)' : age[q] \in 0 .. MaxDelay
    BY <1>1 DEF Pending, FreshInv, TypeOK
  <2>5. \A q \in Pending(k)' : planAge'[k] <= MaxDelay + age'[q]
    BY <1>1, <2>1, <2>4
  <2> QED BY <1>1, <1>3, <2>1, <2>2, <2>3, <2>5 DEF FreshHash
<1> QED BY <1>2, <1>3

LEMMA FreshExpire ==
    ASSUME FreshInv, NEW r \in Requests, Expire(r)
    PROVE  (faults = 0 => \A k \in Sessions : live[k] => FreshHash(k))'
PROOF
<1> USE OldFact, SessionAssumption
<1> SUFFICES ASSUME faults = 0, NEW k \in Sessions, live'[k] PROVE FreshHash(k)'
  BY DEF Expire
<1>1. /\ live' = live /\ planAge' = planAge /\ orgAge' = orgAge /\ FreshHash(k)
      /\ r \in Pending(on[r])
  BY DEF Expire, FreshInv, Pending
<1>2. pc'[r] \in {"idle", "setex"} /\ \A q \in Requests : q # r => pc'[q] = pc[q] /\ on'[q] = on[q]
  BY DEF Expire, Return, Admit, Goto, Step, FreshInv, TypeOK
<1>3. Pending(k)' = Pending(k) \ {r}
  BY <1>2 DEF Pending
<1>4. \A q \in Pending(k)' : age'[q] = age[q]
  BY <1>3 DEF Expire, FreshInv, TypeOK, Pending
<1>5. CASE k # on[r]
  <2>1. ttl'[k] = ttl[k] /\ Pending(k)' = Pending(k)
    BY <1>3, <1>5 DEF Expire, FreshInv, TypeOK, Pending
  <2> QED BY <1>1, <1>4, <2>1 DEF FreshHash
<1>6. CASE k = on[r]
  <2>1. ttl'[k] = TTL
    BY <1>6, <1>1 DEF Expire, FreshInv, TypeOK
  <2>2. planAge[k] <= MaxDelay + age[r] /\ age[r] <= MaxDelay /\ planAge[k] \in Nat /\ age[r] \in Nat
    BY <1>1, <1>6 DEF FreshHash, FreshInv, TypeOK
  <2>3. planAge[k] + TTL <= Old
    BY <2>2
  <2> QED BY <1>1, <1>3, <1>4, <2>1, <2>3 DEF FreshHash
<1> QED BY <1>5, <1>6

LEMMA FreshTick ==
    ASSUME FreshInv, Tick
    PROVE  (faults = 0 => \A k \in Sessions : live[k] => FreshHash(k))'
PROOF
<1> USE OldFact, SessionAssumption
<1> SUFFICES ASSUME faults = 0, NEW k \in Sessions, live'[k] PROVE FreshHash(k)'
  BY DEF Tick
<1>1. live[k] /\ ttl[k] # 1 /\ FreshHash(k) /\ ttl'[k] = Less(ttl[k])
  BY DEF Tick, FreshInv
<1>2. /\ planAge'[k] = Older(planAge[k])
      /\ k = "key" => orgAge'[k] = Older(orgAge[k])
  BY <1>1 DEF Tick, FreshHash, FreshInv, TypeOK, NoField
<1>3. Pending(k)' = Pending(k) /\ \A q \in Pending(k) : age'[q] = age[q] + 1
  BY DEF Tick, Pending, Writing
<1>4. planAge[k] \in 0 .. Old /\ planAge'[k] <= planAge[k] + 1 /\ planAge'[k] \in Nat
  BY <1>2 DEF Older, FreshInv, TypeOK
<1>5. ttl'[k] > 0 => planAge'[k] + ttl'[k] <= Old
  <2>1. ttl[k] \in Nat
    BY DEF FreshInv, TypeOK
  <2>2. ttl'[k] > 0 => ttl[k] > 0 /\ ttl'[k] = ttl[k] - 1
    BY <1>1, <2>1 DEF Less
  <2>3. ttl[k] > 0 => planAge[k] + ttl[k] <= Old
    BY <1>1 DEF FreshHash
  <2> QED BY <1>4, <2>1, <2>2, <2>3
<1>6. ttl'[k] = 0 => Pending(k)' # {}
  <2>1. ttl[k] \in Nat
    BY DEF FreshInv, TypeOK
  <2> QED BY <1>1, <1>3, <2>1 DEF Less, FreshHash
<1>7. \A q \in Pending(k)' : planAge'[k] <= MaxDelay + age'[q]
  <2> SUFFICES ASSUME NEW q \in Pending(k) PROVE planAge'[k] <= MaxDelay + age'[q]
    BY <1>3
  <2>1. planAge[k] <= MaxDelay + age[q] /\ age[q] \in Nat
    BY <1>1 DEF FreshHash, FreshInv, TypeOK, Pending
  <2> QED BY <1>3, <1>4, <2>1
<1> QED BY <1>1, <1>2, <1>5, <1>6, <1>7 DEF FreshHash

LEMMA FreshStep == ASSUME FreshInv, [Next]_vars PROVE FreshInv'
PROOF
<1> USE OldFact, SessionAssumption
<1> DEFINE Goal == (faults = 0 => \A k \in Sessions : live[k] => FreshHash(k))'
<1>1. TypeOK' /\ \A r \in Requests : job'[r].purpose = "issue" => on'[r] = "user"
  BY TypeStep, IssueStep DEF FreshInv
<1>2. ASSUME NEW r \in Requests, Own(r) PROVE Goal
  <2>1. ASSUME NEW l, NEW n, Step(r, l, n), pc[r] # "expire", l # "expire"
        PROVE  \A k \in Sessions : Pending(k)' = Pending(k)
    BY <2>1 DEF Step, Pending, FreshInv, TypeOK
  <2>2. ASSUME NEW k, NEW l, NEW t, NEW p, Arrive(r, k, l, t, p), l # "expire"
        PROVE  Goal
    <3>1. /\ \A j \in Sessions : Pending(j)' = Pending(j)
          /\ \A j \in Sessions : \A q \in Pending(j) : age'[q] = age[q]
      BY <2>2 DEF Arrive, Pending, FreshInv, TypeOK
    <3> QED BY <2>2, <3>1, FreshQuiet DEF Arrive
  <2>3. CASE \E t \in Tokens : Issue(r, t) \/ \E p \in {"serve", "logout"} : UseToken(r, t, p)
    BY <2>2, <2>3 DEF Issue, UseToken
  <2>4. CASE \E p \in {"serve", "logout"} : UseKey(r, p)
    BY <2>2, <2>4 DEF UseKey
  <2>5. CASE Exists(r)
    BY <2>1, <2>5, FreshQuiet DEF Exists, Goto
  <2>6. CASE Get(r)
    <3>1. \E l \in {"idle", "sql", "setex"} : \E n : Step(r, l, n)
      BY <2>6 DEF Get, Goto, Admit
    <3> QED BY <2>1, <2>6, <3>1, FreshQuiet DEF Get
  <2>7. CASE ReadSql(r)
    <3>1. \A k \in Sessions : \A q \in Pending(k) : age'[q] = age[q]
      BY <2>7 DEF ReadSql, Pending, FreshInv, TypeOK
    <3> QED BY <2>1, <2>7, <3>1, FreshQuiet DEF ReadSql, Goto
  <2>8. CASE Hset(r)
    BY <2>8, FreshHset
  <2>9. CASE Expire(r)
    BY <2>9, FreshExpire
  <2>10. CASE Setex(r)
    BY <2>1, <2>10, FreshQuiet DEF Setex, Goto
  <2>11. CASE Delete(r)
    <3>1. Step(r, "idle", job[r].left) /\ age' = age /\ faults' = faults
      BY <2>11 DEF Delete, Goto
    <3>2. \A k \in Sessions : Pending(k)' = Pending(k)
      BY <2>1, <2>11, <3>1 DEF Delete
    <3>3. /\ ~ live'["user"]
          /\ live'["key"] <=> live["key"]
          /\ planAge'["key"] = planAge["key"] /\ orgAge'["key"] = orgAge["key"]
          /\ ttl'["key"] = ttl["key"]
      BY <2>11 DEF Delete, Gone, Sessions, FreshInv, TypeOK
    <3>4. faults = 0 /\ live["key"] => FreshHash("key")'
      BY <3>1, <3>2, <3>3 DEF FreshInv, FreshHash, Sessions
    <3> QED BY <3>1, <3>3, <3>4 DEF Sessions
  <2>12. CASE Fail(r)
    <3>1. faults' # 0
      BY <2>12 DEF Fail, End, Fault, FreshInv, TypeOK
    <3> QED BY <3>1
  <2> QED BY <1>2, <2>3, <2>4, <2>5, <2>6, <2>7, <2>8, <2>9, <2>10, <2>11, <2>12 DEF Own
<1>3. CASE Crash \/ FlushAll
  <2>1. faults' # 0
    BY <1>3 DEF Crash, End, FlushAll, Fault, FreshInv, TypeOK
  <2> QED BY <1>1, <2>1 DEF FreshInv
<1>4. CASE Tick
  BY <1>1, <1>4, FreshTick DEF FreshInv
<1>5. CASE UNCHANGED vars
  <2>1. Goal
    BY <1>5, FreshQuiet DEF vars, session, Pending
  <2> QED BY <1>1, <2>1 DEF FreshInv
<1> QED BY <1>1, <1>2, <1>3, <1>4, <1>5 DEF Next, Own, FreshInv

\* For any lifetime and any number of concurrent requests, a session served
\* from Redis is younger than a TTL and two rebuilds.
THEOREM FreshCorrect == Spec => []FieldsFresh
PROOF
<1>1. Init => FreshInv
  <2> SUFFICES ASSUME Init PROVE FreshInv
    OBVIOUS
  <2>1. TypeOK
    BY TypeInit
  <2>2. \A r \in Requests : job[r].purpose # "issue"
    BY DEF Init, NoJob
  <2>3. \A k \in Sessions : ~ live[k]
    BY DEF Init
  <2> QED BY <2>1, <2>2, <2>3 DEF FreshInv
<1>2. FreshInv /\ [Next]_vars => FreshInv'
  BY FreshStep
<1>3. FreshInv => FieldsFresh
  <2> SUFFICES ASSUME FreshInv, faults = 0, NEW k \in Sessions, live[k]
               PROVE  planAge[k] < Old /\ (k = "key" => orgAge[k] \in 0 .. Old - 1)
    BY DEF FieldsFresh
  <2>1. FreshHash(k) /\ ttl[k] \in Nat /\ planAge[k] \in 0 .. Old
    BY DEF FreshInv, TypeOK
  <2>2. CASE ttl[k] > 0
    BY <2>1, <2>2, OldFact DEF FreshHash
  <2>3. CASE ttl[k] = 0
    <3>1. PICK r \in Pending(k) : planAge[k] <= MaxDelay + age[r]
      BY <2>1, <2>3 DEF FreshHash
    <3>2. age[r] \in 0 .. MaxDelay
      BY DEF Pending, FreshInv, TypeOK
    <3>3. planAge[k] < Old
      BY <2>1, <3>1, <3>2, OldFact, SessionAssumption
    <3> QED BY <2>1, <3>3, OldFact DEF FreshHash
  <2> QED BY <2>1, <2>2, <2>3
<1> QED BY <1>1, <1>2, <1>3, PTL DEF Spec
=============================================================================
