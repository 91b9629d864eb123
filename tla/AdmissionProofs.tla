-------------------------- MODULE AdmissionProofs --------------------------
(***************************************************************************)
(* Proofs about what admits a request: the quotas (Quota), for every       *)
(* number of concurrent requests, quota, choice of endpoints and bound,    *)
(* and the rate limits (RateLimiter), for every plan, limit and sharing of *)
(* keys.  Between them, lemmas about totals over finite sets, by induction *)
(* over their subsets, for the sum that the monthly quota is checked with. *)
(***************************************************************************)
EXTENDS Quota, RateLimiter, FiniteSetTheorems, TLAPS

Charging == {"charge", "chargeQuota", "expireQuota"}
Dating == {"generate"} \cup Charging

\* A handler's dates are not in the future, one handler charges at a time, and the
\* OpenAI-compatible one leaves the quota alone.
Dates ==
    /\ \A c \in Clients : pc[c] \in Dating => date[c] <= LocalDay /\ utc[c] <= UtcDay
    /\ \A c \in Clients : pc[c] = "chargeQuota" => endpoint[c] # "openai"
    /\ \A b, c \in Clients : pc[b] \in Charging /\ pc[c] \in Charging => b = c

Base == TypeOK /\ Dates

\* The answers of day d that the check could see.
Seen(d) == usage[d] - astray[d] - unquoted[d]

\* Requests that passed the daily check and may still add to what day d has seen.
Uncharged(d) ==
    {c \in Clients :
        /\ endpoint[c] # "openai"
        /\ \/ pc[c] \in {"monthly", "enter"} /\ d = UtcDay
           \/ pc[c] \in {"generate", "charge"} /\ d = date[c] /\ d = utc[c]}

\* Request c is between the two charges of an answer that day d has seen.
Settles(c, d) == pc[c] = "chargeQuota" /\ date[c] = d /\ utc[c] = d

Reserved(d) == Seen(d) + Cardinality(Uncharged(d))

\* No day to come has seen an answer.
NothingAhead == \A d \in Days : d > UtcDay => Seen(d) <= 0

\* From today on, the quota counts what its day has seen, but for an answer that
\* is between its two charges.
QuotaCounts ==
    \A d \in Days : d >= UtcDay =>
        /\ (\A c \in Clients : ~ Settles(c, d)) => Seen(d) <= quota[d]
        /\ (\E c \in Clients : Settles(c, d)) => Seen(d) <= quota[d] + 1

\* The quota of a day outlives the day.
Outlives == \A d \in Days : quota[d] > 0 => quotaEnd[d] >= 2 * d + 3

\* What a day has seen and what it may still see fit its quota and the clients.
Bounded == \A d \in Days : Reserved(d) <= Daily - 1 + Cardinality(Clients)

DailyInv == NothingAhead /\ QuotaCounts /\ Outlives /\ Bounded

\* The quota of day d has lost its TTL, and the day is over.
Stranded(d) == d < UtcDay /\ quotaEnd[d] = Never

\* The usage of a day is charged before its quota, outlives its day, and outlives
\* its quota but for one without a TTL.
UsageFirst ==
    /\ \A d \in Days :
          /\ quota[d] <= usage[d] \/ Stranded(d)
          /\ quota[d] > 0 => quotaEnd[d] = Never \/ quotaEnd[d] <= usageEnd[d]
          /\ usage[d] > 0 => usageEnd[d] >= 2 * d + 3
          /\ usageEnd[d] <= time + TTL
    /\ \A c \in Clients : pc[c] = "chargeQuota" =>
          /\ usage[date[c]] > 0 /\ usageEnd[date[c]] = time + TTL
          /\ quota[date[c]] < usage[date[c]] \/ Stranded(date[c])
    /\ \A c \in Clients : pc[c] = "expireQuota" =>
          /\ quota[date[c]] <= usage[date[c]] /\ usageEnd[date[c]] = time + TTL

-----------------------------------------------------------------------------
\* Today, by either calendar, is one of the days modelled.
LEMMA TodayIsADay ==
    ASSUME TypeOK
    PROVE  UtcDay \in Days /\ LocalDay \in Days /\ UtcDay \in Int /\ LocalDay \in Int
  BY QuotaAssumption, SMTT(30) DEF TypeOK, UtcDay, LocalDay, Days

\* An endpoint to start with exists.
LEMMA AnEndpointType == AnEndpoint \in Endpoints
  BY QuotaAssumption DEF AnEndpoint

\* A key without a TTL outlasts every day modelled.
LEMMA NeverComes ==
    ASSUME TypeOK
    PROVE  /\ Never \in Nat /\ time + 1 < Never /\ time + TTL < Never
           /\ \A d \in Days : d \in Int /\ Never >= 2 * d + 3
  BY QuotaAssumption, SMTT(30) DEF TypeOK, Never, TTL, Days

\* What INCR does to a day's counter, its TTL and the request.
LEMMA Increments ==
    ASSUME TypeOK, NEW c \in Clients, ChargeQuota(c), NEW e \in Days, e = date[c]
    PROVE  /\ quota' = [quota EXCEPT ![e] = @ + 1]
           /\ \/ /\ quota[e] = 0 /\ quotaEnd' = [quotaEnd EXCEPT ![e] = Never]
                 /\ Goto(c, "expireQuota")
              \/ quota[e] # 0 /\ quotaEnd' = quotaEnd /\ Ends(c)
  BY DEF ChargeQuota, Incremented

\* Types are preserved by every step.
LEMMA NextType == TypeOK /\ [Next]_vars => TypeOK'
  <1> SUFFICES ASSUME TypeOK, [Next]_vars PROVE TypeOK'
      OBVIOUS
  <1>0. LocalDay \in Days /\ UtcDay \in Days /\ 0 \in Days
      BY TodayIsADay, QuotaAssumption DEF Days
  <1> USE QuotaAssumption DEF TypeOK, redis, history, local, TTL
  <1>a. ASSUME NEW c \in Clients, Ends(c)
        PROVE  /\ endpoint' \in [Clients -> Endpoints]
               /\ date' \in [Clients -> Days] /\ utc' \in [Clients -> Days]
               /\ pc' \in [Clients -> {"idle", "daily", "monthly", "enter", "generate",
                                       "charge", "chargeQuota", "expireQuota"}]
      BY <1>0, <1>a, AnEndpointType DEF Ends
  <1>1. ASSUME NEW c \in Clients, Arrive(c) PROVE TypeOK'
      BY <1>1 DEF Arrive
  <1>2. ASSUME NEW c \in Clients, CheckDaily(c) \/ CheckMonthly(c) PROVE TypeOK'
    <2>1. /\ Ends(c) \/ Goto(c, "monthly") \/ Goto(c, "enter")
          /\ UNCHANGED <<time, redis, history>>
        BY <1>2 DEF CheckDaily, CheckMonthly
    <2>2. QED
        BY <1>a, <2>1 DEF Goto
  <1>3. ASSUME NEW c \in Clients, Enter(c) \/ Generated(c) PROVE TypeOK'
    <2>1. /\ Ends(c) \/ Dated(c, "generate") \/ Dated(c, "charge") \/ Goto(c, "charge")
          /\ UNCHANGED <<time, redis, history>>
        BY <1>3 DEF Enter, Generated
    <2>2. QED
        BY <1>0, <1>a, <2>1 DEF Goto, Dated
  <1>4. ASSUME NEW c \in Clients, Charge(c) PROVE TypeOK'
    <2>1. date[c] \in Days
        OBVIOUS
    <2>2. /\ usage' \in [Days -> Nat] /\ usageEnd' \in [Days -> Nat]
          /\ astray' \in [Days -> Nat] /\ unquoted' \in [Days -> Nat]
        BY <1>4, <2>1 DEF Charge
    <2>3. answers' \in 0 .. MaxAnswers
        BY <1>4 DEF Charge
    <2>4. \A d \in Days : usage'[d] > 0 => usageEnd'[d] > time'
        BY <1>4, <2>1 DEF Charge
    <2>5. (Ends(c) \/ Goto(c, "chargeQuota")) /\ UNCHANGED <<time, quota, quotaEnd>>
        BY <1>4 DEF Charge
    <2>6. QED
        BY <1>a, <2>2, <2>3, <2>4, <2>5 DEF Goto
  <1>5. ASSUME NEW c \in Clients, ChargeQuota(c) PROVE TypeOK'
    <2>1. PICK e \in Days : e = date[c]
        OBVIOUS
    <2>2. UNCHANGED <<time, usage, usageEnd, history>>
        BY <1>5 DEF ChargeQuota
    <2>7. /\ quota' = [quota EXCEPT ![e] = @ + 1]
          /\ quotaEnd' = [quotaEnd EXCEPT ![e] = Never] \/ quotaEnd' = quotaEnd
        BY <1>5, <2>1, Increments
    <2>8. Never \in Nat
        BY NeverComes
    <2>3. quota' \in [Days -> Nat] /\ quotaEnd' \in [Days -> Nat]
        BY <2>7, <2>8
    <2>4. \A d \in Days : quota'[d] > 0 => quotaEnd'[d] > time'
        BY <1>5, <2>1, <2>2, Increments, NeverComes
    <2>5. Ends(c) \/ Goto(c, "expireQuota")
        BY <1>5, <2>1, Increments
    <2>6. QED
        BY <1>a, <2>2, <2>3, <2>4, <2>5 DEF Goto
  <1>b. ASSUME NEW c \in Clients, ExpireQuota(c) PROVE TypeOK'
    <2>1. quotaEnd' \in [Days -> Nat] /\ \A d \in Days : quota[d] > 0 => quotaEnd'[d] > time
        BY <1>b DEF ExpireQuota
    <2>2. Ends(c) /\ UNCHANGED <<time, quota, usage, usageEnd, history>>
        BY <1>b DEF ExpireQuota
    <2>3. QED
        BY <1>a, <2>1, <2>2
  <1>6. ASSUME NEW c \in Clients, ChargeFails(c) PROVE TypeOK'
    <2>1. unquoted' \in [Days -> Nat]
        BY <1>6 DEF ChargeFails
    <2>2. Ends(c) /\ UNCHANGED <<time, redis, answers, astray>>
        BY <1>6 DEF ChargeFails
    <2>3. QED
        BY <1>a, <2>1, <2>2
  <1>7. ASSUME HalfDay PROVE TypeOK'
    <2>1. time' = time + 1 /\ time' \in 0 .. 2 * MaxDay + 1
        BY <1>7 DEF HalfDay
    <2>2. /\ quota' \in [Days -> Nat] /\ usage' \in [Days -> Nat]
          /\ quotaEnd' \in [Days -> Nat] /\ usageEnd' \in [Days -> Nat]
        BY <1>7 DEF HalfDay, Left
    <2>3. \A d \in Days : quota'[d] > 0 => quotaEnd'[d] > time + 1
        BY <1>7 DEF HalfDay, Left
    <2>4. \A d \in Days : usage'[d] > 0 => usageEnd'[d] > time + 1
        BY <1>7 DEF HalfDay, Left
    <2>5. QED
        BY <1>7, <2>1, <2>2, <2>3, <2>4 DEF HalfDay
  <1>8. ASSUME UNCHANGED vars PROVE TypeOK'
      BY <1>8 DEF vars
  <1>9. QED
      BY <1>1, <1>2, <1>3, <1>4, <1>5, <1>b, <1>6, <1>7, <1>8 DEF Next

\* What a request of one client leaves alone: the others.
LEMMA OthersStay ==
    ASSUME TypeOK, NEW c \in Clients,
           \/ Arrive(c) \/ CheckDaily(c) \/ CheckMonthly(c) \/ Enter(c)
           \/ Generated(c) \/ Charge(c) \/ ChargeQuota(c) \/ ExpireQuota(c) \/ ChargeFails(c)
    PROVE  /\ \A b \in Clients : b # c =>
                 /\ pc'[b] = pc[b] /\ endpoint'[b] = endpoint[b]
                 /\ date'[b] = date[b] /\ utc'[b] = utc[b]
           /\ UtcDay' = UtcDay /\ LocalDay' = LocalDay
  <1>1. UtcDay' = UtcDay /\ LocalDay' = LocalDay
      BY DEF Arrive, CheckDaily, CheckMonthly, Enter, Generated, Charge, ChargeQuota,
             ExpireQuota, ChargeFails, UtcDay, LocalDay
  <1>2. \/ Arrive(c) \/ Ends(c)
        \/ \E l \in {"monthly", "enter", "charge", "chargeQuota", "expireQuota"} : Goto(c, l)
        \/ \E l \in {"generate", "charge"} : Dated(c, l)
      BY DEF CheckDaily, CheckMonthly, Enter, Generated, Charge, ChargeQuota, Incremented,
             ExpireQuota, ChargeFails
  <1>3. QED
      BY <1>1, <1>2 DEF TypeOK, Arrive, Ends, Goto, Dated, local

\* Dates are preserved: the event loop runs one handler at a time.
LEMMA NextDates == Base /\ [Next]_vars => Dates'
  <1> SUFFICES ASSUME Base, [Next]_vars PROVE Dates'
      OBVIOUS
  <1> USE QuotaAssumption DEF Base, TypeOK, Dates, Charging, Dating
  <1>1. LocalDay \in Int /\ UtcDay \in Int
      BY TodayIsADay
  <1>2. ASSUME NEW c \in Clients,
               Arrive(c) \/ CheckDaily(c) \/ CheckMonthly(c) \/ ExpireQuota(c)
                 \/ ChargeFails(c)
        PROVE  Dates'
    <2>1. pc'[c] \notin Dating
        BY <1>2 DEF Arrive, CheckDaily, CheckMonthly, ExpireQuota, ChargeFails, Goto, Ends
    <2>2. QED
        BY <1>2, <2>1, OthersStay
  <1>3. ASSUME NEW c \in Clients, Charge(c) PROVE Dates'
    <2>1. pc[c] = "charge"
        BY <1>3 DEF Charge
    <2>2. \/ pc'[c] = "idle"
          \/ /\ pc'[c] = "chargeQuota" /\ endpoint[c] # "openai"
             /\ endpoint' = endpoint /\ date' = date /\ utc' = utc
        BY <1>3 DEF Charge, Goto, Ends, local
    <2>3. QED
        BY <1>3, <2>1, <2>2, OthersStay
  <1>b. ASSUME NEW c \in Clients, ChargeQuota(c) PROVE Dates'
    <2>1. pc[c] = "chargeQuota"
        BY <1>b DEF ChargeQuota
    <2>2. \/ pc'[c] = "idle"
          \/ pc'[c] = "expireQuota" /\ endpoint' = endpoint /\ date' = date /\ utc' = utc
        BY <1>b DEF ChargeQuota, Incremented, Goto, Ends, local
    <2>3. QED
        BY <1>b, <2>1, <2>2, OthersStay
  <1>4. ASSUME NEW c \in Clients, Enter(c) \/ Generated(c) PROVE Dates'
    <2>1. \A b \in Clients : pc[b] \notin Charging
        BY <1>4 DEF Enter, Generated, LoopFree
    <2>2. /\ pc'[c] # "chargeQuota"
          /\ pc'[c] \in Dating => date'[c] <= LocalDay /\ utc'[c] <= UtcDay
      <3>1. CASE Ends(c)
          BY <3>1 DEF Ends
      <3>2. ASSUME NEW l \in {"generate", "charge"}, Dated(c, l)
            PROVE  pc'[c] = l /\ date'[c] = LocalDay /\ utc'[c] = UtcDay
          BY <3>2 DEF Dated
      <3>3. CASE Generated(c) /\ Goto(c, "charge")
          BY <3>3 DEF Generated, Goto, local
      <3>4. QED
          BY <1>1, <1>4, <3>1, <3>2, <3>3 DEF Enter, Generated
    <2>3. QED
        BY <1>4, <2>1, <2>2, OthersStay
  <1>5. ASSUME HalfDay PROVE Dates'
    <2>1. LocalDay <= LocalDay' /\ LocalDay' \in Int /\ UtcDay <= UtcDay' /\ UtcDay' \in Int
        BY <1>5 DEF HalfDay, LocalDay, UtcDay
    <2>2. UNCHANGED <<pc, endpoint, date, utc>>
        BY <1>5 DEF HalfDay, local
    <2>3. \A c \in Clients : date[c] \in Int /\ utc[c] \in Int
        BY DEF Days
    <2>4. \A c \in Clients : pc'[c] \in Dating => date'[c] <= LocalDay' /\ utc'[c] <= UtcDay'
        BY <1>1, <2>1, <2>2, <2>3
    <2>5. QED
        BY <2>2, <2>4
  <1>6. ASSUME UNCHANGED vars PROVE Dates'
      BY <1>6 DEF vars, LocalDay, UtcDay
  <1>7. QED
      BY <1>2, <1>3, <1>b, <1>4, <1>5, <1>6 DEF Next

\* Base holds in every reachable state.
LEMMA BaseInvariant == Spec => []Base
  <1>1. Init => Base
    <2> SUFFICES ASSUME Init PROVE Base
        OBVIOUS
    <2>1. AnEndpoint \in Endpoints
        BY AnEndpointType
    <2>2. 0 \in Days
        BY QuotaAssumption DEF Days
    <2>3. endpoint \in [Clients -> Endpoints]
        BY <2>1 DEF Init
    <2>4. TypeOK
        BY <2>2, <2>3, QuotaAssumption DEF Init, TypeOK
    <2>5. Dates
        BY <2>2 DEF Init, Dates, Charging, Dating
    <2>6. QED
        BY <2>4, <2>5 DEF Base
  <1>2. Base /\ [Next]_vars => Base'
      BY NextType, NextDates DEF Base
  <1>3. QED
      BY <1>1, <1>2, PTL DEF Spec

\* TypeOK is an invariant of the quota checks.
THEOREM TypeCorrect == Spec => []TypeOK
  <1>1. Base => TypeOK
      BY DEF Base
  <1>2. QED
      BY <1>1, BaseInvariant, PTL

-----------------------------------------------------------------------------
\* The requests that may still be charged to a day are at most all of them.
LEMMA UnchargedFinite ==
    ASSUME NEW d
    PROVE  /\ IsFiniteSet(Uncharged(d))
           /\ Cardinality(Uncharged(d)) \in Nat
           /\ Cardinality(Uncharged(d)) <= Cardinality(Clients)
           /\ Cardinality(Clients) \in Nat
  <1>1. Uncharged(d) \subseteq Clients
      BY DEF Uncharged
  <1>2. QED
      BY <1>1, QuotaAssumption, FS_Subset, FS_CardinalityType

\* What a day has seen is an integer.
LEMMA SeenType == TypeOK => \A d \in Days : Seen(d) \in Int
  BY DEF TypeOK, Seen

\* A step that lets no request in, on a day that sees nothing new, keeps its bound.
LEMMA Fewer ==
    ASSUME TypeOK, TypeOK', NEW d \in Days, Seen(d)' <= Seen(d),
           Uncharged(d)' \subseteq Uncharged(d),
           Reserved(d) <= Daily - 1 + Cardinality(Clients)
    PROVE  Reserved(d)' <= Daily - 1 + Cardinality(Clients)
  <1>1. /\ IsFiniteSet(Uncharged(d)) /\ Cardinality(Uncharged(d)) \in Nat
        /\ Cardinality(Clients) \in Nat
      BY UnchargedFinite
  <1>2. Cardinality(Uncharged(d)') <= Cardinality(Uncharged(d))
      BY <1>1, FS_Subset
  <1>3. Cardinality(Uncharged(d)') \in Nat
      BY <1>1, FS_Subset, FS_CardinalityType
  <1>4. Seen(d) \in Int /\ Seen(d)' \in Int
      BY DEF TypeOK, Seen
  <1>5. /\ Reserved(d) = Seen(d) + Cardinality(Uncharged(d))
        /\ Reserved(d)' = Seen(d)' + Cardinality(Uncharged(d)')
      BY DEF Reserved
  <1>6. Daily \in Nat
      BY QuotaAssumption
  <1>7. QED
      BY <1>1, <1>2, <1>3, <1>4, <1>5, <1>6

\* DailyInv is kept by a step that charges nothing and lets no request in.
LEMMA QuietStep ==
    ASSUME Base, TypeOK', DailyInv, UtcDay' = UtcDay,
           UNCHANGED <<redis, history>>,
           \A d \in Days : Uncharged(d)' \subseteq Uncharged(d),
           \A c \in Clients, d \in Days : Settles(c, d)' <=> Settles(c, d)
    PROVE  DailyInv'
  <1>1. \A d \in Days : Seen(d)' = Seen(d) /\ Seen(d) \in Int
      BY SeenType DEF Base, Seen, redis, history
  <1>2. quota' = quota /\ quotaEnd' = quotaEnd
      BY DEF redis
  <1>3. NothingAhead'
      BY <1>1 DEF DailyInv, NothingAhead
  <1>4. QuotaCounts'
      BY <1>1, <1>2 DEF DailyInv, QuotaCounts
  <1>5. Outlives'
      BY <1>2 DEF DailyInv, Outlives
  <1>6. Bounded'
    <2>1. ASSUME NEW d \in Days PROVE Reserved(d)' <= Daily - 1 + Cardinality(Clients)
      <3>1. Seen(d)' <= Seen(d)
          BY <1>1
      <3>2. QED
          BY <3>1, Fewer DEF Base, DailyInv, Bounded
    <2>2. QED
        BY <2>1 DEF Bounded
  <1>7. QED
      BY <1>3, <1>4, <1>5, <1>6 DEF DailyInv

\* The steps of a request before its charge, but for a passed daily check, are quiet.
LEMMA BeforeCharge ==
    ASSUME Base, TypeOK', DailyInv, NEW c \in Clients,
           \/ Arrive(c) \/ CheckMonthly(c) \/ Enter(c) \/ Generated(c)
           \/ CheckDaily(c) /\ Ends(c)
    PROVE  DailyInv'
  <1>1. /\ UtcDay' = UtcDay
        /\ \A b \in Clients : b # c =>
              /\ pc'[b] = pc[b] /\ endpoint'[b] = endpoint[b]
              /\ date'[b] = date[b] /\ utc'[b] = utc[b]
      BY OthersStay DEF Base
  <1>2. UNCHANGED <<redis, history>>
      BY DEF Arrive, CheckMonthly, Enter, Generated, CheckDaily
  <1>3. pc[c] # "chargeQuota" /\ pc'[c] # "chargeQuota"
      BY DEF Base, TypeOK, Arrive, CheckMonthly, Enter, Generated, CheckDaily, Ends, Goto, Dated
  <1>4. \A b \in Clients, d \in Days : Settles(b, d)' <=> Settles(b, d)
      BY <1>1, <1>3 DEF Settles
  <1>5. ASSUME NEW d \in Days, c \in Uncharged(d)' PROVE c \in Uncharged(d)
    <2>1. pc'[c] \in {"monthly", "enter", "generate", "charge"} /\ endpoint'[c] # "openai"
        BY <1>5 DEF Uncharged
    <2>2. ~ Arrive(c) /\ ~ Ends(c)
        BY <2>1 DEF Base, TypeOK, Arrive, Ends
    <2>3. CASE CheckMonthly(c)
        BY <1>1, <1>5, <2>2, <2>3
           DEF Base, TypeOK, CheckMonthly, Goto, local, Uncharged
    <2>4. CASE Enter(c)
      <3>1. /\ pc[c] = "enter" /\ endpoint[c] # "openai"
            /\ pc'[c] \in {"generate", "charge"} /\ date'[c] = LocalDay /\ utc'[c] = UtcDay
          BY <2>1, <2>2, <2>4 DEF Base, TypeOK, Enter, Dated
      <3>2. d = UtcDay
          BY <1>5, <3>1 DEF Uncharged
      <3>3. QED
          BY <3>1, <3>2 DEF Uncharged
    <2>5. CASE Generated(c)
      <3>1. /\ pc[c] = "generate" /\ pc'[c] = "charge" /\ endpoint[c] # "openai"
            /\ date'[c] = date[c] /\ utc'[c] = utc[c]
          BY <2>1, <2>2, <2>5 DEF Base, TypeOK, Generated, Dated, Goto, local
      <3>2. QED
          BY <1>5, <3>1 DEF Uncharged
    <2>6. QED
        BY <2>2, <2>3, <2>4, <2>5
  <1>6. \A d \in Days : Uncharged(d)' \subseteq Uncharged(d)
    <2>1. ASSUME NEW d \in Days, NEW b \in Clients, b # c, b \in Uncharged(d)'
          PROVE  b \in Uncharged(d)
        BY <1>1, <2>1 DEF Uncharged
    <2>2. \A d \in Days : Uncharged(d)' \subseteq Clients
        BY DEF Uncharged
    <2>3. QED
        BY <1>5, <2>1, <2>2
  <1>7. QED
      BY <1>1, <1>2, <1>4, <1>6, QuietStep

\* A place is taken only below the quota, and never beside an answer that is
\* between its two charges.
LEMMA PassDaily ==
    ASSUME Base, TypeOK', DailyInv, NEW c \in Clients, CheckDaily(c), ~ Ends(c)
    PROVE  DailyInv'
  <1> DEFINE today == UtcDay
  <1>0. today \in Days /\ today \in Int
      BY TodayIsADay DEF Base
  <1>1. /\ UtcDay' = today /\ endpoint' = endpoint /\ date' = date /\ utc' = utc
        /\ pc[c] = "daily" /\ pc' = [pc EXCEPT ![c] = "monthly"]
        /\ quota[today] < Daily
        /\ UNCHANGED <<redis, history>>
    <2>1. quota[today] \in Nat /\ Daily \in Nat
        BY <1>0, QuotaAssumption DEF Base, TypeOK
    <2>2. ~ (quota[today] >= Daily)
        BY DEF CheckDaily
    <2>3. QED
        BY <2>1, <2>2 DEF CheckDaily, Goto, local, UtcDay
  <1>2. \A d \in Days : Seen(d)' = Seen(d) /\ Seen(d) \in Int
      BY <1>1, SeenType DEF Base, Seen, redis, history
  <1>3. \A b \in Clients, d \in Days : Settles(b, d)' <=> Settles(b, d)
      BY <1>1 DEF Base, TypeOK, Settles
  <1>4. NothingAhead' /\ QuotaCounts' /\ Outlives'
    <2>1. NothingAhead'
        BY <1>1, <1>2 DEF DailyInv, NothingAhead
    <2>2. QuotaCounts'
        BY <1>1, <1>2, <1>3 DEF DailyInv, QuotaCounts, redis
    <2>3. Outlives'
        BY <1>1 DEF DailyInv, Outlives, redis
    <2>4. QED
        BY <2>1, <2>2, <2>3
  <1>5. ASSUME NEW d \in Days, d # today
        PROVE  Reserved(d)' <= Daily - 1 + Cardinality(Clients)
    <2>1. Uncharged(d)' \subseteq Uncharged(d)
        BY <1>1, <1>5 DEF Base, TypeOK, Uncharged
    <2>2. Seen(d)' <= Seen(d)
        BY <1>2
    <2>3. QED
        BY <2>1, <2>2, Fewer DEF Base, DailyInv, Bounded
  <1>6. Reserved(today)' <= Daily - 1 + Cardinality(Clients)
    <2> DEFINE U == Uncharged(today)'
    <2>0. Cardinality(Clients) \in Nat /\ U \subseteq Clients
        BY QuotaAssumption, FS_CardinalityType DEF Uncharged
    <2>1. quota[today] \in Nat /\ Daily \in Nat /\ Seen(today) \in Int
        BY <1>0, <1>2, QuotaAssumption DEF Base, TypeOK
    <2>2. CASE \A b \in Clients : ~ Settles(b, today)
      <3>1. Seen(today) <= quota[today]
          BY <1>0, <2>2 DEF DailyInv, QuotaCounts
      <3>2. Cardinality(U) <= Cardinality(Clients) /\ Cardinality(U) \in Nat
          BY <2>0, QuotaAssumption, FS_Subset, FS_CardinalityType
      <3>3. QED
          BY <1>0, <1>1, <1>2, <2>0, <2>1, <3>1, <3>2 DEF Reserved
    <2>3. CASE \E b \in Clients : Settles(b, today)
      <3>1. PICK b \in Clients : Settles(b, today)
          BY <2>3
      <3>2. Seen(today) <= quota[today] + 1
          BY <1>0, <2>3 DEF DailyInv, QuotaCounts
      <3>3. U \subseteq Clients \ {b}
          BY <1>1, <2>0, <3>1 DEF Base, TypeOK, Settles, Uncharged
      <3>4. /\ IsFiniteSet(Clients \ {b})
            /\ Cardinality(Clients \ {b}) = Cardinality(Clients) - 1
          BY QuotaAssumption, FS_RemoveElement
      <3>5. Cardinality(U) <= Cardinality(Clients) - 1 /\ Cardinality(U) \in Nat
          BY <3>3, <3>4, FS_Subset, FS_CardinalityType
      <3>6. Reserved(today)' = Seen(today) + Cardinality(U)
          BY <1>0, <1>1, <1>2 DEF Reserved
      <3>7. quota[today] + 1 <= Daily
          BY <1>1, <2>1
      <3>8. QED
          BY <2>0, <2>1, <3>2, <3>5, <3>6, <3>7
    <2>4. QED
        BY <2>2, <2>3
  <1>7. Bounded'
    <2>1. ASSUME NEW d \in Days PROVE Reserved(d)' <= Daily - 1 + Cardinality(Clients)
      <3>1. CASE d = today
          BY <1>1, <1>6, <3>1
      <3>2. CASE d # today
          BY <1>5, <3>2
      <3>3. QED
          BY <3>1, <3>2
    <2>2. QED
        BY <2>1 DEF Bounded
  <1>8. QED
      BY <1>4, <1>7 DEF DailyInv

\* Charging the usage moves an answer from those a day may see to those it has.
LEMMA ChargeUsage ==
    ASSUME Base, TypeOK', DailyInv, NEW c \in Clients, Charge(c),
           NEW e \in Days, e = date[c]
    PROVE  DailyInv'
  <1> DEFINE own == utc[c] = e /\ endpoint[c] # "openai"
  <1>0. e \in Int /\ UtcDay \in Int
      BY TodayIsADay DEF Base, Days
  <1>1. /\ UtcDay' = UtcDay
        /\ \A b \in Clients : b # c =>
              /\ pc'[b] = pc[b] /\ endpoint'[b] = endpoint[b]
              /\ date'[b] = date[b] /\ utc'[b] = utc[b]
      BY OthersStay DEF Base
  <1>2. quota' = quota /\ quotaEnd' = quotaEnd /\ pc[c] = "charge"
      BY DEF Charge
  <1>3. \A b \in Clients : b # c => pc[b] # "chargeQuota" /\ pc'[b] # "chargeQuota"
      BY <1>1, <1>2 DEF Base, Dates, Charging
  <1>4. \/ pc'[c] = "idle" /\ endpoint[c] = "openai"
        \/ /\ pc'[c] = "chargeQuota" /\ endpoint[c] # "openai"
           /\ date'[c] = date[c] /\ utc'[c] = utc[c]
      BY DEF Base, TypeOK, Charge, Goto, Ends, local
  <1>5. \A d \in Days : Seen(d) \in Int /\ (d # e => Seen(d)' = Seen(d))
      BY SeenType DEF Base, TypeOK, Charge, Seen
  <1>6. /\ own => Seen(e)' = Seen(e) + 1
        /\ ~ own => Seen(e)' = Seen(e)
    <2>1. /\ usage[e] \in Nat /\ astray[e] \in Nat /\ unquoted[e] \in Nat
          /\ usage'[e] = usage[e] + 1
          /\ astray'[e] = IF utc[c] # e THEN astray[e] + 1 ELSE astray[e]
          /\ unquoted'[e] = IF utc[c] = e /\ endpoint[c] = "openai"
                            THEN unquoted[e] + 1 ELSE unquoted[e]
        BY DEF Base, TypeOK, Charge, Astray
    <2>2. QED
        BY <2>1 DEF Seen
  <1>7. /\ ~ Settles(c, e)
        /\ own => Settles(c, e)'
        /\ \A b \in Clients, d \in Days : (b # c \/ d # e \/ ~ own) =>
              ~ Settles(b, d) /\ ~ Settles(b, d)'
      BY <1>2, <1>3, <1>4 DEF Settles
  <1>8. own => e <= UtcDay
      BY <1>2 DEF Base, Dates, Charging, Dating
  <1>9. NothingAhead'
    <2>1. ASSUME NEW d \in Days, d > UtcDay PROVE Seen(d)' <= 0
      <3>1. Seen(d) <= 0
          BY <2>1 DEF DailyInv, NothingAhead
      <3>2. ~ (d = e /\ own)
          BY <1>0, <1>8, <2>1
      <3>3. Seen(d)' = Seen(d)
          BY <1>5, <1>6, <3>2
      <3>4. QED
          BY <3>1, <3>3
    <2>2. QED
        BY <1>1, <2>1 DEF NothingAhead
  <1>10. QuotaCounts'
    <2>1. ASSUME NEW d \in Days, d >= UtcDay
          PROVE  /\ (\A b \in Clients : ~ Settles(b, d)') => Seen(d)' <= quota[d]
                 /\ (\E b \in Clients : Settles(b, d)') => Seen(d)' <= quota[d] + 1
      <3>1. \A b \in Clients : ~ Settles(b, d)
          BY <1>2, <1>3 DEF Settles
      <3>2. Seen(d) <= quota[d] /\ Seen(d) \in Int /\ quota[d] \in Int
          BY <1>5, <2>1, <3>1 DEF DailyInv, QuotaCounts, Base, TypeOK
      <3>3. CASE d = e /\ own
          BY <1>6, <1>7, <3>2, <3>3
      <3>4. CASE ~ (d = e /\ own)
        <4>1. Seen(d)' = Seen(d)
            BY <1>5, <1>6, <3>4
        <4>2. QED
            BY <3>2, <4>1
      <3>5. QED
          BY <3>3, <3>4
    <2>2. QED
        BY <1>1, <1>2, <2>1 DEF QuotaCounts
  <1>11. Outlives'
      BY <1>2 DEF DailyInv, Outlives
  <1>12. \A d \in Days : Uncharged(d)' \subseteq Uncharged(d)
    <2>1. \A d \in Days : c \notin Uncharged(d)'
        BY <1>4 DEF Uncharged
    <2>2. ASSUME NEW d \in Days, NEW b \in Clients, b # c, b \in Uncharged(d)'
          PROVE  b \in Uncharged(d)
        BY <1>1, <2>2 DEF Uncharged
    <2>3. \A d \in Days : Uncharged(d)' \subseteq Clients
        BY DEF Uncharged
    <2>4. QED
        BY <2>1, <2>2, <2>3
  <1>13. Bounded'
    <2>1. ASSUME NEW d \in Days PROVE Reserved(d)' <= Daily - 1 + Cardinality(Clients)
      <3>1. Reserved(d) <= Daily - 1 + Cardinality(Clients)
          BY DEF DailyInv, Bounded
      <3>2. CASE ~ (d = e /\ own)
        <4>1. Seen(d)' <= Seen(d)
            BY <1>5, <1>6, <3>2
        <4>2. QED
            BY <1>12, <3>1, <4>1, Fewer DEF Base
      <3>3. CASE d = e /\ own
        <4>1. c \in Uncharged(d)
            BY <1>2, <3>3 DEF Uncharged
        <4>2. c \notin Uncharged(d)'
            BY <1>4 DEF Uncharged
        <4>3. Uncharged(d)' \subseteq Uncharged(d) \ {c}
            BY <1>12, <4>2
        <4>4. /\ IsFiniteSet(Uncharged(d)) /\ Cardinality(Uncharged(d)) \in Nat
              /\ Cardinality(Clients) \in Nat
            BY UnchargedFinite
        <4>5. /\ IsFiniteSet(Uncharged(d) \ {c})
              /\ Cardinality(Uncharged(d) \ {c}) = Cardinality(Uncharged(d)) - 1
            BY <4>1, <4>4, FS_RemoveElement
        <4>6. /\ Cardinality(Uncharged(d)') <= Cardinality(Uncharged(d)) - 1
              /\ Cardinality(Uncharged(d)') \in Nat
            BY <4>3, <4>5, FS_Subset, FS_CardinalityType
        <4>7. /\ Reserved(d) = Seen(d) + Cardinality(Uncharged(d))
              /\ Reserved(d)' = Seen(d)' + Cardinality(Uncharged(d)')
            BY DEF Reserved
        <4>8. Seen(d)' = Seen(d) + 1 /\ Seen(d) \in Int
            BY <1>5, <1>6, <3>3
        <4>9. QED
            BY <3>1, <4>4, <4>6, <4>7, <4>8, QuotaAssumption
      <3>4. QED
          BY <3>2, <3>3
    <2>2. QED
        BY <2>1 DEF Bounded
  <1>14. QED
      BY <1>9, <1>10, <1>11, <1>13 DEF DailyInv

\* The second charge, or its failure, settles the answer.
LEMMA Settling ==
    ASSUME Base, TypeOK', DailyInv, NEW c \in Clients,
           ChargeQuota(c) \/ ExpireQuota(c) \/ ChargeFails(c), NEW e \in Days, e = date[c]
    PROVE  DailyInv'
  <1>0. e \in Int /\ UtcDay \in Int /\ time \in Nat
    <2>1. UtcDay \in Int
        BY TodayIsADay DEF Base
    <2>2. e \in Int /\ time \in Nat
        BY DEF Base, TypeOK, Days
    <2>3. QED
        BY <2>1, <2>2
  <1>1. /\ UtcDay' = UtcDay
        /\ \A b \in Clients : b # c =>
              /\ pc'[b] = pc[b] /\ endpoint'[b] = endpoint[b]
              /\ date'[b] = date[b] /\ utc'[b] = utc[b]
      BY OthersStay DEF Base
  <1>2. pc[c] \in {"chargeQuota", "expireQuota"} /\ pc'[c] \in {"idle", "expireQuota"}
      BY DEF ChargeQuota, Incremented, ExpireQuota, ChargeFails, Goto, Ends, Base, TypeOK
  <1>3. \A b \in Clients, d \in Days : ~ Settles(b, d)' /\ (Settles(b, d) => b = c)
      BY <1>1, <1>2 DEF Settles, Base, Dates, Charging
  <1>4. \A d \in Days :
          /\ Seen(d) \in Int /\ Seen(d)' \in Int /\ quota[d] \in Nat /\ quota'[d] \in Nat
          /\ Seen(d)' <= Seen(d) /\ quota[d] <= quota'[d]
          /\ Settles(c, d) => Seen(d)' < Seen(d) \/ quota[d] < quota'[d]
    <2>1. CASE ChargeQuota(c)
      <3>1. /\ usage' = usage /\ astray' = astray /\ unquoted' = unquoted
            /\ quota' = [quota EXCEPT ![e] = @ + 1]
          BY <2>1, Increments DEF Base, ChargeQuota, history
      <3>2. QED
          BY <3>1 DEF Base, TypeOK, Seen, Settles
    <2>a. CASE ExpireQuota(c)
      <3>1. /\ usage' = usage /\ astray' = astray /\ unquoted' = unquoted /\ quota' = quota
            /\ pc[c] = "expireQuota"
          BY <2>a DEF ExpireQuota, history
      <3>2. QED
          BY <3>1 DEF Base, TypeOK, Seen, Settles
    <2>2. CASE ChargeFails(c)
      <3>1. /\ usage' = usage /\ astray' = astray /\ quota' = quota
            /\ unquoted' = IF utc[c] # e \/ pc[c] = "expireQuota" THEN unquoted
                           ELSE [unquoted EXCEPT ![e] = @ + 1]
          BY <2>2 DEF ChargeFails, redis, Astray
      <3>2. QED
          BY <3>1 DEF Base, TypeOK, Seen, Settles
    <2>3. QED
        BY <2>1, <2>a, <2>2
  <1>5. NothingAhead'
    <2>1. \A d \in Days : d > UtcDay => Seen(d)' <= 0
        BY <1>4 DEF DailyInv, NothingAhead
    <2>2. QED
        BY <1>1, <2>1 DEF NothingAhead
  <1>6. QuotaCounts'
    <2>1. ASSUME NEW d \in Days, d >= UtcDay PROVE Seen(d)' <= quota'[d]
      <3>1. CASE \A b \in Clients : ~ Settles(b, d)
          BY <1>4, <2>1, <3>1 DEF DailyInv, QuotaCounts
      <3>2. CASE \E b \in Clients : Settles(b, d)
        <4>1. Settles(c, d) /\ Seen(d) <= quota[d] + 1
            BY <1>3, <2>1, <3>2 DEF DailyInv, QuotaCounts
        <4>2. QED
            BY <1>4, <4>1
      <3>3. QED
          BY <3>1, <3>2
    <2>2. QED
        BY <1>1, <1>3, <2>1 DEF QuotaCounts
  <1>7. Outlives'
    <2>1. e <= LocalDay
        BY <1>2 DEF Base, Dates, Charging, Dating
    <2>2. time + TTL >= 2 * e + 3
        BY <1>0, <2>1, QuotaAssumption DEF LocalDay, TTL
    <2>3. CASE ChargeQuota(c)
      <3>1. /\ quota' = [quota EXCEPT ![e] = @ + 1]
            /\ quotaEnd' = IF quota[e] = 0 THEN [quotaEnd EXCEPT ![e] = Never] ELSE quotaEnd
          BY <2>3, Increments DEF Base
      <3>2. Never >= 2 * e + 3
          BY NeverComes DEF Base
      <3>3. QED
          BY <3>1, <3>2 DEF DailyInv, Outlives, Base, TypeOK
    <2>a. CASE ExpireQuota(c)
      <3>1. quota' = quota /\ quotaEnd' = [quotaEnd EXCEPT ![e] = time + TTL]
          BY <2>a DEF ExpireQuota
      <3>2. QED
          BY <2>2, <3>1 DEF DailyInv, Outlives, Base, TypeOK
    <2>4. CASE ChargeFails(c)
        BY <2>4 DEF ChargeFails, redis, DailyInv, Outlives
    <2>5. QED
        BY <2>3, <2>a, <2>4
  <1>8. \A d \in Days : Uncharged(d)' \subseteq Uncharged(d)
      BY <1>1, <1>2 DEF Uncharged
  <1>9. Bounded'
    <2>1. ASSUME NEW d \in Days PROVE Reserved(d)' <= Daily - 1 + Cardinality(Clients)
        BY <1>4, <1>8, Fewer DEF Base, DailyInv, Bounded
    <2>2. QED
        BY <2>1 DEF Bounded
  <1>10. QED
      BY <1>5, <1>6, <1>7, <1>9 DEF DailyInv

\* Midnight lets every request that passed the check into the new day, which has
\* seen nothing; the quota of a day that goes on does not expire.
LEMMA Midnight ==
    ASSUME Base, TypeOK', DailyInv, HalfDay
    PROVE  DailyInv'
  <1>0. /\ UtcDay \in Int /\ UtcDay' \in {UtcDay, UtcDay + 1} /\ time \in Nat
        /\ time + 1 <= 2 * UtcDay' + 1
      BY TodayIsADay, QuotaAssumption DEF Base, TypeOK, HalfDay, UtcDay
  <1>1. /\ pc' = pc /\ endpoint' = endpoint /\ date' = date /\ utc' = utc
        /\ astray' = astray /\ unquoted' = unquoted
      BY DEF HalfDay, local, history
  <1>2. \A b \in Clients, d \in Days : ~ Settles(b, d) /\ ~ Settles(b, d)'
      BY <1>1 DEF HalfDay, LoopFree, Settles
  <1>3. \A d \in Days :
          /\ usage'[d] \in {0, usage[d]} /\ quota'[d] \in {0, quota[d]}
          /\ quota'[d] # quota[d] => quotaEnd[d] <= time + 1
          /\ quota'[d] > 0 => quotaEnd'[d] = quotaEnd[d] /\ quota'[d] = quota[d]
      BY DEF Base, TypeOK, HalfDay, Left
  <1>4. \A d \in Days : Seen(d)' <= Seen(d) /\ Seen(d)' \in Int /\ Seen(d) \in Int
      BY <1>1, <1>3 DEF Base, TypeOK, Seen
  <1>5. NothingAhead'
    <2>1. \A d \in Days : d \in Int /\ (d > UtcDay' => d > UtcDay)
        BY <1>0 DEF Days
    <2>2. QED
        BY <1>4, <2>1 DEF DailyInv, NothingAhead
  <1>6. QuotaCounts'
    <2>1. ASSUME NEW d \in Days, d >= UtcDay' PROVE Seen(d)' <= quota'[d]
      <3>1. d \in Int /\ d >= UtcDay
          BY <1>0, <2>1 DEF Days
      <3>2. Seen(d) <= quota[d] /\ quota[d] \in Nat
          BY <1>2, <3>1 DEF DailyInv, QuotaCounts, Base, TypeOK
      <3>3. quota'[d] = quota[d]
        <4>1. SUFFICES ASSUME quota[d] > 0 PROVE ~ (quotaEnd[d] <= time + 1)
            BY <1>3, <3>2
        <4>2. quotaEnd[d] >= 2 * d + 3 /\ quotaEnd[d] \in Nat
            BY <4>1 DEF DailyInv, Outlives, Base, TypeOK
        <4>3. UtcDay' \in Int /\ UtcDay' <= d
            BY <1>0, <2>1
        <4>4. \A t \in Int, n \in Nat : t <= d /\ n + 1 <= 2 * t + 1 => 2 * d + 3 > n + 1
            BY <3>1
        <4>5. 2 * d + 3 > time + 1
            BY <1>0, <4>3, <4>4
        <4>6. QED
            BY <1>0, <3>1, <4>2, <4>5
      <3>4. QED
          BY <1>4, <3>2, <3>3
    <2>2. QED
        BY <1>2, <2>1 DEF QuotaCounts
  <1>7. Outlives'
      BY <1>3 DEF DailyInv, Outlives
  <1>8. Bounded'
    <2>1. ASSUME NEW d \in Days PROVE Reserved(d)' <= Daily - 1 + Cardinality(Clients)
      <3>0. d \in Int /\ Seen(d)' <= Seen(d) /\ Seen(d)' \in Int
          BY <1>4 DEF Days
      <3>1. CASE d <= UtcDay
        <4>1. Uncharged(d)' \subseteq Uncharged(d)
            BY <1>0, <1>1, <3>0, <3>1 DEF Uncharged
        <4>2. QED
            BY <1>4, <4>1, Fewer DEF Base, DailyInv, Bounded
      <3>2. CASE d > UtcDay
        <4>1. Seen(d) <= 0 /\ Seen(d) \in Int
            BY <1>4, <3>2 DEF DailyInv, NothingAhead
        <4>2. Uncharged(d)' \subseteq Clients
            BY DEF Uncharged
        <4>3. /\ Cardinality(Uncharged(d)') <= Cardinality(Clients)
              /\ Cardinality(Uncharged(d)') \in Nat /\ Cardinality(Clients) \in Nat
            BY <4>2, QuotaAssumption, FS_Subset, FS_CardinalityType
        <4>4. Reserved(d)' = Seen(d)' + Cardinality(Uncharged(d)')
            BY DEF Reserved
        <4>5. QED
            BY <3>0, <4>1, <4>3, <4>4, QuotaAssumption
      <3>3. QED
          BY <1>0, <3>0, <3>1, <3>2
    <2>2. QED
        BY <2>1 DEF Bounded
  <1>9. QED
      BY <1>5, <1>6, <1>7, <1>8 DEF DailyInv

\* DailyInv is preserved.
LEMMA NextDaily == Base /\ DailyInv /\ [Next]_vars => DailyInv'
  <1> SUFFICES ASSUME Base, DailyInv, [Next]_vars PROVE DailyInv'
      OBVIOUS
  <1>0. TypeOK'
      BY NextType DEF Base
  <1>1. ASSUME NEW c \in Clients,
               Arrive(c) \/ CheckMonthly(c) \/ Enter(c) \/ Generated(c)
        PROVE  DailyInv'
      BY <1>0, <1>1, BeforeCharge
  <1>2. ASSUME NEW c \in Clients, CheckDaily(c) PROVE DailyInv'
      BY <1>0, <1>2, BeforeCharge, PassDaily
  <1>3. ASSUME NEW c \in Clients,
               Charge(c) \/ ChargeQuota(c) \/ ExpireQuota(c) \/ ChargeFails(c)
        PROVE  DailyInv'
    <2>1. PICK e \in Days : e = date[c]
        BY DEF Base, TypeOK
    <2>2. QED
        BY <1>0, <1>3, <2>1, ChargeUsage, Settling
  <1>4. ASSUME HalfDay PROVE DailyInv'
      BY <1>0, <1>4, Midnight
  <1>5. ASSUME UNCHANGED vars PROVE DailyInv'
    <2>1. UtcDay' = UtcDay /\ UNCHANGED <<redis, history>>
        BY <1>5 DEF vars, UtcDay
    <2>2. /\ \A d \in Days : Uncharged(d)' \subseteq Uncharged(d)
          /\ \A c \in Clients, d \in Days : Settles(c, d)' <=> Settles(c, d)
        BY <1>5, <2>1 DEF vars, Uncharged, Settles
    <2>3. QED
        BY <1>0, <2>1, <2>2, QuietStep
  <1>6. QED
      BY <1>1, <1>2, <1>3, <1>4, <1>5 DEF Next

\* Concurrent requests and midnight let a user exceed the daily quota by at most
\* the other requests in flight and the answers that the check never sees,
\* whatever the server's time zone.
THEOREM DailyCorrect == Spec => []DailyBound
  <1>1. Init => DailyInv
    <2> SUFFICES ASSUME Init PROVE DailyInv
        OBVIOUS
    <2>1. \A d \in Days : quota[d] = 0 /\ Seen(d) = 0 /\ Uncharged(d) = {}
        BY DEF Init, Seen, Uncharged
    <2>2. Cardinality({}) = 0 /\ Cardinality(Clients) \in Nat
        BY QuotaAssumption, FS_EmptySet, FS_CardinalityType
    <2>3. \A d \in Days : Reserved(d) = 0
        BY <2>1, <2>2 DEF Reserved
    <2>4. QED
        BY <2>1, <2>2, <2>3, QuotaAssumption
           DEF DailyInv, NothingAhead, QuotaCounts, Outlives, Bounded
  <1>2. Base /\ DailyInv => DailyBound
    <2> SUFFICES ASSUME Base, DailyInv, NEW d \in Days
                 PROVE  usage[d] <= Daily - 1 + Cardinality(Clients) + astray[d] + unquoted[d]
        BY DEF DailyBound
    <2>1. Cardinality(Uncharged(d)) \in Nat /\ Cardinality(Clients) \in Nat
        BY UnchargedFinite
    <2>2. usage[d] - astray[d] - unquoted[d] + Cardinality(Uncharged(d))
             <= Daily - 1 + Cardinality(Clients)
        BY DEF DailyInv, Bounded, Reserved, Seen
    <2>3. usage[d] \in Nat /\ astray[d] \in Nat /\ unquoted[d] \in Nat /\ Daily \in Nat
        BY QuotaAssumption DEF Base, TypeOK
    <2>4. QED
        BY <2>1, <2>2, <2>3
  <1>3. QED
      BY <1>1, <1>2, NextDaily, BaseInvariant, PTL DEF Spec

-----------------------------------------------------------------------------
\* A step that leaves the counters and the time alone, and takes no request to its
\* charge of the quota, keeps UsageFirst.
LEMMA UsageQuiet ==
    ASSUME TypeOK, UsageFirst, UNCHANGED <<time, redis>>,
           \A b \in Clients : pc'[b] \in {"chargeQuota", "expireQuota"} =>
              pc'[b] = pc[b] /\ date'[b] = date[b]
    PROVE  UsageFirst'
  BY DEF UsageFirst, Stranded, UtcDay, redis

\* Usage is charged, and its TTL renewed, right before the quota is.
LEMMA UsageCharged ==
    ASSUME Base, UsageFirst, NEW c \in Clients, Charge(c), NEW e \in Days, e = date[c]
    PROVE  UsageFirst'
  <1>1. /\ time' = time /\ quota' = quota /\ quotaEnd' = quotaEnd /\ UtcDay' = UtcDay
        /\ usage' = [usage EXCEPT ![e] = @ + 1]
        /\ usageEnd' = [usageEnd EXCEPT ![e] = time + TTL]
      BY DEF Charge, UtcDay
  <1>2. \A b \in Clients : /\ pc'[b] # "expireQuota"
                           /\ pc'[b] = "chargeQuota" => b = c /\ date'[b] = e
    <2>1. pc[c] = "charge" /\ pc'[c] # "expireQuota"
          /\ (pc'[c] = "chargeQuota" => date'[c] = date[c])
        BY DEF Base, TypeOK, Charge, Goto, Ends, local
    <2>2. QED
        BY <2>1, OthersStay DEF Base, Dates, Charging
  <1>3. time + TTL >= 2 * e + 3
    <2>1. e <= LocalDay
        BY DEF Base, Dates, Charging, Dating, Charge
    <2>2. e \in Int /\ time \in Nat
        BY DEF Base, TypeOK, Days
    <2>3. QED
        BY <2>1, <2>2, QuotaAssumption DEF LocalDay, TTL
  <1>4. /\ quota[e] \in Nat /\ usage[e] \in Nat /\ usageEnd[e] \in Nat /\ quotaEnd[e] \in Nat
        /\ time + TTL \in Nat
      BY DEF Base, TypeOK, TTL
  <1>5. ASSUME NEW d \in Days
        PROVE  /\ quota'[d] <= usage'[d] \/ Stranded(d)'
               /\ quota'[d] > 0 => quotaEnd'[d] = Never \/ quotaEnd'[d] <= usageEnd'[d]
               /\ usage'[d] > 0 => usageEnd'[d] >= 2 * d + 3
               /\ usageEnd'[d] <= time' + TTL
    <2>1. Stranded(d)' <=> Stranded(d)
        BY <1>1 DEF Stranded, Never
    <2>2. /\ quota[d] <= usage[d] \/ Stranded(d)
          /\ quota[d] > 0 => quotaEnd[d] = Never \/ quotaEnd[d] <= usageEnd[d]
          /\ usage[d] > 0 => usageEnd[d] >= 2 * d + 3
          /\ usageEnd[d] <= time + TTL
        BY DEF UsageFirst
    <2>3. CASE d = e
      <3>1. usage'[d] = usage[d] + 1 /\ usageEnd'[d] = time + TTL
          BY <1>1, <2>3 DEF Base, TypeOK
      <3>2. QED
          BY <1>1, <1>3, <1>4, <2>1, <2>2, <2>3, <3>1
    <2>4. CASE d # e
        BY <1>1, <2>1, <2>2, <2>4 DEF Base, TypeOK
    <2>5. QED
        BY <2>3, <2>4
  <1>6. /\ usage'[e] > 0 /\ usageEnd'[e] = time' + TTL
        /\ quota'[e] < usage'[e] \/ Stranded(e)'
    <2>1. usage'[e] = usage[e] + 1 /\ usageEnd'[e] = time + TTL
        BY <1>1 DEF Base, TypeOK
    <2>2. quota[e] <= usage[e] \/ Stranded(e)
        BY DEF UsageFirst
    <2>3. Stranded(e)' <=> Stranded(e)
        BY <1>1 DEF Stranded, Never
    <2>4. QED
        BY <1>1, <1>4, <2>1, <2>2, <2>3
  <1>7. QED
      BY <1>2, <1>5, <1>6 DEF UsageFirst

\* The INCR counts an answer that usage has; a new counter has no TTL.
LEMMA QuotaCharged ==
    ASSUME Base, UsageFirst, NEW c \in Clients, ChargeQuota(c), NEW e \in Days, e = date[c]
    PROVE  UsageFirst'
  <1>1. /\ time' = time /\ usage' = usage /\ usageEnd' = usageEnd /\ UtcDay' = UtcDay
        /\ pc[c] = "chargeQuota" /\ quota' = [quota EXCEPT ![e] = @ + 1]
        /\ \/ quota[e] = 0 /\ quotaEnd' = [quotaEnd EXCEPT ![e] = Never]
           \/ quota[e] # 0 /\ quotaEnd' = quotaEnd
      BY Increments DEF Base, ChargeQuota, UtcDay
  <1>2. pc'[c] = "idle" \/ (pc'[c] = "expireQuota" /\ quota[e] = 0 /\ date'[c] = e)
      BY Increments DEF Base, TypeOK, Goto, Ends, local
  <1>3. \A b \in Clients : /\ pc'[b] # "chargeQuota"
                           /\ pc'[b] = "expireQuota" => quota[e] = 0 /\ date'[b] = e
      BY <1>1, <1>2, OthersStay DEF Base, Dates, Charging
  <1>4. /\ quota[e] \in Nat /\ usage[e] \in Nat /\ quota'[e] = quota[e] + 1
        /\ usage[e] > 0 /\ usageEnd[e] = time + TTL
        /\ quota[e] < usage[e] \/ Stranded(e)
      BY <1>1 DEF Base, TypeOK, UsageFirst
  <1>5. ASSUME NEW d \in Days
        PROVE  /\ quota'[d] <= usage'[d] \/ Stranded(d)'
               /\ quota'[d] > 0 => quotaEnd'[d] = Never \/ quotaEnd'[d] <= usageEnd'[d]
    <2>1. /\ quota[d] <= usage[d] \/ Stranded(d)
          /\ quota[d] > 0 => quotaEnd[d] = Never \/ quotaEnd[d] <= usageEnd[d]
          /\ quota[d] \in Nat
        BY DEF UsageFirst, Base, TypeOK
    <2>2. Never' = Never
        BY DEF Never
    <2>3. quotaEnd'[d] = quotaEnd[d] \/ (d = e /\ quotaEnd'[d] = Never)
        BY <1>1 DEF Base, TypeOK
    <2>4. Stranded(d) => Stranded(d)'
        BY <1>1, <2>2, <2>3 DEF Stranded
    <2>5. d # e => quota'[d] = quota[d] /\ quotaEnd'[d] = quotaEnd[d]
        BY <1>1 DEF Base, TypeOK
    <2>6. d = e => quotaEnd'[d] = Never \/ (quota[d] > 0 /\ quotaEnd'[d] = quotaEnd[d])
        BY <1>1, <2>1 DEF Base, TypeOK
    <2>7. CASE d = e
        BY <1>1, <1>4, <2>1, <2>2, <2>4, <2>6, <2>7
    <2>8. CASE d # e
        BY <1>1, <2>1, <2>2, <2>4, <2>5, <2>8
    <2>9. QED
        BY <2>7, <2>8
  <1>6. quota[e] = 0 => quota'[e] <= usage'[e] /\ usageEnd'[e] = time' + TTL
      BY <1>1, <1>4
  <1>7. \A d \in Days : /\ usage'[d] > 0 => usageEnd'[d] >= 2 * d + 3
                        /\ usageEnd'[d] <= time' + TTL
      BY <1>1 DEF UsageFirst
  <1>8. QED
      BY <1>3, <1>5, <1>6, <1>7 DEF UsageFirst

\* The TTL of a new counter ends with that of the usage.
LEMMA QuotaExpires ==
    ASSUME Base, UsageFirst, NEW c \in Clients, ExpireQuota(c), NEW e \in Days, e = date[c]
    PROVE  UsageFirst'
  <1>1. /\ time' = time /\ usage' = usage /\ usageEnd' = usageEnd /\ UtcDay' = UtcDay
        /\ quota' = quota /\ quotaEnd' = [quotaEnd EXCEPT ![e] = time + TTL]
        /\ pc[c] = "expireQuota" /\ pc'[c] = "idle"
      BY DEF ExpireQuota, Ends, Base, TypeOK, UtcDay
  <1>2. \A b \in Clients : pc'[b] \notin {"chargeQuota", "expireQuota"}
      BY <1>1, OthersStay DEF Base, Dates, Charging
  <1>3. quota[e] <= usage[e] /\ usageEnd[e] = time + TTL
      BY <1>1 DEF UsageFirst
  <1>4. ASSUME NEW d \in Days
        PROVE  /\ quota'[d] <= usage'[d] \/ Stranded(d)'
               /\ quota'[d] > 0 => quotaEnd'[d] = Never \/ quotaEnd'[d] <= usageEnd'[d]
               /\ usage'[d] > 0 => usageEnd'[d] >= 2 * d + 3
               /\ usageEnd'[d] <= time' + TTL
    <2>1. /\ quota[d] <= usage[d] \/ Stranded(d)
          /\ quota[d] > 0 => quotaEnd[d] = Never \/ quotaEnd[d] <= usageEnd[d]
          /\ usage[d] > 0 => usageEnd[d] >= 2 * d + 3
          /\ usageEnd[d] <= time + TTL
        BY DEF UsageFirst
    <2>2. CASE d = e
      <3>1. quotaEnd'[d] = time + TTL /\ time + TTL \in Nat
          BY <1>1, <2>2 DEF Base, TypeOK, TTL
      <3>2. QED
          BY <1>1, <1>3, <2>1, <2>2, <3>1
    <2>3. CASE d # e
      <3>1. quotaEnd'[d] = quotaEnd[d]
          BY <1>1, <2>3 DEF Base, TypeOK
      <3>2. Stranded(d)' <=> Stranded(d)
          BY <1>1, <3>1 DEF Stranded, Never
      <3>3. QED
          BY <1>1, <2>1, <3>1, <3>2 DEF Never
    <2>4. QED
        BY <2>2, <2>3
  <1>5. QED
      BY <1>2, <1>4 DEF UsageFirst

\* What ends by the middle of a day and lasts to the middle of the one after
\* another is of an earlier day.
LEMMA EarlierDay ==
    ASSUME NEW d \in Int, NEW u \in Int, NEW t \in Int, NEW e \in Int,
           e >= 2 * d + 3, e <= t + 1, t + 1 <= 2 * u + 1
    PROVE  d < u
  OBVIOUS

\* Usage expires after its day, and takes a quota that has a TTL with it.
LEMMA UsageExpires ==
    ASSUME Base, UsageFirst, HalfDay
    PROVE  UsageFirst'
  <1>1. \A b \in Clients : pc'[b] \notin {"chargeQuota", "expireQuota"}
      BY DEF HalfDay, LoopFree
  <1>2. /\ time' = time + 1 /\ time \in Nat /\ UtcDay \in Int /\ UtcDay' \in Int
        /\ UtcDay <= UtcDay' /\ time + 1 <= 2 * UtcDay' + 1
      BY DEF HalfDay, UtcDay, Base, TypeOK
  <1>3. Never \in Nat /\ time + 1 < Never /\ Never' = Never
      BY NeverComes DEF Base, Never
  <1>4. ASSUME NEW d \in Days
        PROVE  /\ quota'[d] <= usage'[d] \/ Stranded(d)'
               /\ quota'[d] > 0 => quotaEnd'[d] = Never \/ quotaEnd'[d] <= usageEnd'[d]
               /\ usage'[d] > 0 => usageEnd'[d] >= 2 * d + 3
               /\ usageEnd'[d] <= time + 1 + TTL
    <2>0. d \in Int
        BY DEF Days
    <2>1. /\ quota[d] \in Nat /\ usage[d] \in Nat /\ quotaEnd[d] \in Nat /\ usageEnd[d] \in Nat
          /\ quota[d] <= usage[d] \/ Stranded(d)
          /\ quota[d] > 0 => quotaEnd[d] = Never \/ quotaEnd[d] <= usageEnd[d]
          /\ usage[d] > 0 => usageEnd[d] >= 2 * d + 3
          /\ usageEnd[d] <= time + TTL /\ TTL \in Nat
        BY DEF Base, TypeOK, UsageFirst, TTL
    <2>2. /\ quota'[d] = IF quotaEnd[d] <= time + 1 THEN 0 ELSE quota[d]
          /\ quotaEnd'[d] = IF quotaEnd[d] <= time + 1 THEN 0 ELSE quotaEnd[d]
          /\ usage'[d] = IF usageEnd[d] <= time + 1 THEN 0 ELSE usage[d]
          /\ usageEnd'[d] = IF usageEnd[d] <= time + 1 THEN 0 ELSE usageEnd[d]
        BY DEF HalfDay, Left
    <2>3. quotaEnd[d] = Never => quotaEnd'[d] = Never
        BY <1>2, <1>3, <2>2
    <2>4. Stranded(d) => Stranded(d)'
        BY <1>2, <1>3, <2>0, <2>3 DEF Stranded
    <2>5. quota'[d] <= usage'[d] \/ Stranded(d)'
      <3>1. CASE Stranded(d)
          BY <2>4, <3>1
      <3>2. CASE ~ (usageEnd[d] <= time + 1) /\ ~ Stranded(d)
          BY <2>1, <2>2, <3>2
      <3>3. CASE usageEnd[d] <= time + 1 /\ ~ Stranded(d)
        <4>1. CASE quotaEnd[d] <= time + 1
            BY <2>2, <3>3, <4>1
        <4>2. CASE quota[d] = 0
            BY <2>2, <3>3, <4>2
        <4>3. CASE quota[d] > 0 /\ ~ (quotaEnd[d] <= time + 1)
          <5>1. quotaEnd[d] = Never
              BY <1>2, <2>1, <3>3, <4>3
          <5>2. usageEnd[d] >= 2 * d + 3
              BY <2>1, <3>3, <4>3
          <5>3. usageEnd[d] \in Int /\ usageEnd[d] <= time + 1
              BY <2>1, <3>3
          <5>4. d < UtcDay'
            <6>1. PICK u \in Int : u = UtcDay'
                BY <1>2
            <6>2. time \in Int /\ time + 1 <= 2 * u + 1
              <7>1. time \in Nat /\ time + 1 <= 2 * UtcDay' + 1
                  BY <1>2, Zenon
              <7>2. time + 1 <= 2 * u + 1
                  BY <6>1, <7>1, Zenon
              <7>3. QED
                  BY <7>1, <7>2
            <6>3. d < u
                BY <2>0, <5>2, <5>3, <6>2, EarlierDay
            <6>4. QED
                BY <6>1, <6>3
          <5>5. QED
              BY <1>3, <2>3, <5>1, <5>4 DEF Stranded
        <4>4. QED
            BY <2>1, <4>1, <4>2, <4>3
      <3>4. QED
          BY <3>1, <3>2, <3>3
    <2>6. quota'[d] > 0 => quotaEnd'[d] = Never \/ quotaEnd'[d] <= usageEnd'[d]
        BY <1>2, <2>1, <2>2, <2>3
    <2>7. QED
        BY <1>2, <2>0, <2>1, <2>2, <2>5, <2>6
  <1>5. QED
      BY <1>1, <1>2, <1>3, <1>4 DEF UsageFirst, TTL

\* UsageFirst is preserved.
LEMMA NextUsageFirst == Base /\ UsageFirst /\ [Next]_vars => UsageFirst'
  <1> SUFFICES ASSUME Base, UsageFirst, [Next]_vars PROVE UsageFirst'
      OBVIOUS
  <1>0. TypeOK
      BY DEF Base
  <1>1. ASSUME NEW c \in Clients,
               \/ Arrive(c) \/ CheckDaily(c) \/ CheckMonthly(c) \/ Enter(c) \/ Generated(c)
               \/ ChargeFails(c)
        PROVE  UsageFirst'
    <2>1. UNCHANGED <<time, redis>>
        BY <1>1 DEF Arrive, CheckDaily, CheckMonthly, Enter, Generated, ChargeFails
    <2>2. pc'[c] \notin {"chargeQuota", "expireQuota"}
        BY <1>0, <1>1 DEF TypeOK, Arrive, CheckDaily, CheckMonthly, Enter, Generated,
                          ChargeFails, Goto, Ends, Dated
    <2>3. QED
        BY <1>0, <1>1, <2>1, <2>2, OthersStay, UsageQuiet
  <1>2. ASSUME NEW c \in Clients, Charge(c) \/ ChargeQuota(c) \/ ExpireQuota(c)
        PROVE  UsageFirst'
    <2>1. PICK e \in Days : e = date[c]
        BY <1>0 DEF TypeOK
    <2>2. QED
        BY <1>2, <2>1, UsageCharged, QuotaCharged, QuotaExpires
  <1>3. ASSUME UNCHANGED vars PROVE UsageFirst'
      BY <1>0, <1>3, UsageQuiet DEF vars
  <1>4. QED
      BY <1>1, <1>2, <1>3, UsageExpires DEF Next

\* From today on, the counter that limits a user never exceeds the one the user is
\* billed by; on a day gone by it does only if a failure took its TTL.
THEOREM QuotaUsageCorrect == Spec => []QuotaWithinUsage
  <1>1. Init => UsageFirst
      BY DEF Init, UsageFirst, TTL
  <1>2. UsageFirst => QuotaWithinUsage
      BY DEF UsageFirst, QuotaWithinUsage, Stranded
  <1>3. QED
      BY <1>1, <1>2, NextUsageFirst, BaseInvariant, PTL DEF Spec

-----------------------------------------------------------------------------
(* Totals: induction over the subsets of a finite set *)

\* Induction over the natural numbers, for a set of them.
LEMMA NatSet ==
    ASSUME NEW G, 0 \in G, \A n \in Nat : n \in G => n + 1 \in G
    PROVE  Nat \subseteq G
  <1> DEFINE B == Nat \ G
  <1>1. SUFFICES ASSUME B # {} PROVE FALSE
      OBVIOUS
  <1>2. PICK n \in B : \A m \in B : ~ (<<m, n>> \in OpToRel(<, Nat))
      BY <1>1, NatLessThanWellFounded, WFMin
  <1>3. n \in Nat /\ n # 0
      OBVIOUS
  <1>4. n - 1 \in Nat /\ n - 1 < n /\ (n - 1) + 1 = n
      BY <1>3
  <1>5. <<n - 1, n>> \in OpToRel(<, Nat)
      BY <1>3, <1>4 DEF OpToRel
  <1>6. n - 1 \notin B
      BY <1>2, <1>5, Zenon
  <1>7. QED
      BY <1>3, <1>4, <1>6

\* Induction over the subsets of a finite set, for a set of them.
LEMMA SubsetSet ==
    ASSUME NEW S, IsFiniteSet(S), NEW G, {} \in G,
           \A T \in SUBSET S : T # {} /\ (\A x \in T : T \ {x} \in G) => T \in G
    PROVE  SUBSET S \subseteq G
  <1> DEFINE H == {n \in Nat : \A T \in SUBSET S : Cardinality(T) = n => T \in G}
  <1>1. \A T \in SUBSET S : IsFiniteSet(T) /\ Cardinality(T) \in Nat
      BY FS_Subset, FS_CardinalityType
  <1>2. 0 \in H
      BY <1>1, FS_EmptySet
  <1>3. ASSUME NEW n \in Nat, n \in H PROVE n + 1 \in H
    <2>1. ASSUME NEW T \in SUBSET S, Cardinality(T) = n + 1 PROVE T \in G
      <3>1. T # {}
        <4>1. Cardinality({}) = 0 /\ n + 1 # 0
            BY FS_EmptySet
        <4>2. QED
            BY <2>1, <4>1
      <3>2. ASSUME NEW x \in T PROVE T \ {x} \in G
        <4>1. Cardinality(T \ {x}) = n
            BY <1>1, <2>1, FS_RemoveElement
        <4>2. QED
            BY <1>3, <4>1
      <3>3. QED
          BY <3>1, <3>2
    <2>2. QED
        BY <1>3, <2>1
  <1> HIDE DEF H
  <1>4. Nat \subseteq H
      BY <1>2, <1>3, NatSet
  <1>5. QED
      BY <1>1, <1>4 DEF H

Some(s) == CHOOSE x \in s : TRUE

\* Function it adds up the values of f over each subset of S.
Sums(it, f, S) ==
    it = [s \in SUBSET S |-> IF s = {} THEN 0 ELSE f[Some(s)] + it[s \ {Some(s)}]]

LEMMA SomeOf == ASSUME NEW s, s # {} PROVE Some(s) \in s
  BY DEF Some

\* Such a function exists: it is made for larger and larger subsets.
LEMMA SumsExist ==
    ASSUME NEW f, NEW S, IsFiniteSet(S)
    PROVE  \E it : Sums(it, f, S)
  <1> DEFINE L(n) == {T \in SUBSET S : Cardinality(T) <= n}
             Sol(g, n) == g = [s \in L(n) |-> IF s = {} THEN 0 ELSE f[Some(s)] + g[s \ {Some(s)}]]
             G == {n \in Nat : \E g : Sol(g, n)}
  <1>1. \A T \in SUBSET S : IsFiniteSet(T) /\ Cardinality(T) \in Nat
                            /\ Cardinality(T) <= Cardinality(S)
      BY FS_Subset, FS_CardinalityType
  <1>2. 0 \in G
    <2>1. L(0) = {{}}
        BY <1>1, FS_EmptySet
    <2> DEFINE g == [s \in {{}} |-> 0]
    <2>2. g = [s \in {{}} |-> IF s = {} THEN 0 ELSE f[Some(s)] + g[s \ {Some(s)}]]
        OBVIOUS
    <2>3. Sol(g, 0)
        BY <2>1, <2>2
    <2>4. QED
        BY <2>3
  <1>3. ASSUME NEW n \in Nat, n \in G PROVE n + 1 \in G
    <2>1. PICK g : Sol(g, n)
        BY <1>3
    <2> DEFINE h == [s \in L(n + 1) |-> IF s = {} THEN 0 ELSE f[Some(s)] + g[s \ {Some(s)}]]
    <2>2. ASSUME NEW s \in L(n + 1), s # {} PROVE h[s \ {Some(s)}] = g[s \ {Some(s)}]
      <3> DEFINE r == s \ {Some(s)}
      <3>1. r \in L(n)
        <4>1. s \in SUBSET S /\ Cardinality(s) <= n + 1 /\ Some(s) \in s /\ r \in SUBSET S
            BY <2>2, SomeOf
        <4>2. Cardinality(r) = Cardinality(s) - 1
            BY <1>1, <4>1, FS_RemoveElement
        <4>3. QED
            BY <1>1, <4>1, <4>2
      <3>2. r \in L(n + 1)
        <4>1. r \in SUBSET S /\ Cardinality(r) <= n
            BY <3>1
        <4>2. QED
            BY <1>1, <4>1
      <3> HIDE DEF r, L
      <3>3. g[r] = IF r = {} THEN 0 ELSE f[Some(r)] + g[r \ {Some(r)}]
          BY <2>1, <3>1
      <3>4. h[r] = IF r = {} THEN 0 ELSE f[Some(r)] + g[r \ {Some(r)}]
          BY <3>2
      <3>5. QED
          BY <3>3, <3>4 DEF r
    <2> HIDE DEF L
    <2>3. h = [s \in L(n + 1) |-> IF s = {} THEN 0 ELSE f[Some(s)] + h[s \ {Some(s)}]]
      <3>1. \A s \in L(n + 1) : h[s] = IF s = {} THEN 0 ELSE f[Some(s)] + h[s \ {Some(s)}]
          BY <2>2
      <3>2. QED
          BY <3>1
    <2>4. Sol(h, n + 1)
        BY <2>3
    <2> HIDE DEF h, Sol
    <2>5. QED
        BY <2>4
  <1>4. PICK it : Sol(it, Cardinality(S))
    <2> HIDE DEF G
    <2>1. Nat \subseteq G
        BY <1>2, <1>3, NatSet
    <2>2. QED
        BY <1>1, <2>1 DEF G
  <1>5. L(Cardinality(S)) = SUBSET S
      BY <1>1
  <1> HIDE DEF L
  <1>6. QED
      BY <1>4, <1>5 DEF Sums

\* Two of them agree.
LEMMA SumsAgree ==
    ASSUME NEW f, NEW S, NEW U, NEW g, NEW h, Sums(g, f, S), Sums(h, f, U), IsFiniteSet(S),
           S \subseteq U
    PROVE  g[S] = h[S]
  <1> DEFINE G == {T \in SUBSET S : g[T] = h[T]}
  <1>1. {} \in G
      BY DEF Sums
  <1>2. ASSUME NEW T \in SUBSET S, T # {}, \A x \in T : T \ {x} \in G PROVE T \in G
    <2>1. Some(T) \in T
        BY <1>2, SomeOf
    <2>2. g[T] = f[Some(T)] + g[T \ {Some(T)}] /\ h[T] = f[Some(T)] + h[T \ {Some(T)}]
        BY <1>2 DEF Sums
    <2>3. QED
        BY <1>2, <2>1, <2>2
  <1> HIDE DEF G
  <1>3. SUBSET S \subseteq G
      BY <1>1, <1>2, SubsetSet
  <1>4. QED
      BY <1>3 DEF G

\* A total is what one of them gives.
AnySums(f, S) == CHOOSE it : Sums(it, f, S)

LEMMA TotalSums ==
    ASSUME NEW f, NEW S, IsFiniteSet(S)
    PROVE  \E it : Sums(it, f, S) /\ Total(f, S) = it[S]
  <1>1. Total(f, S) = AnySums(f, S)[S]
      BY DEF Total, MapThenSumSet, MapThenFoldSet, AnySums, Sums, Some
  <1>2. Sums(AnySums(f, S), f, S)
      BY SumsExist DEF AnySums
  <1>3. QED
      BY <1>1, <1>2

\* The total of nothing, and of a set from which an element is taken.
LEMMA TotalEmpty == ASSUME NEW f PROVE Total(f, {}) = 0
  <1>1. PICK it : Sums(it, f, {}) /\ Total(f, {}) = it[{}]
      BY FS_EmptySet, TotalSums
  <1>2. QED
      BY <1>1 DEF Sums

LEMMA TotalSome ==
    ASSUME NEW f, NEW S, IsFiniteSet(S), S # {}
    PROVE  Total(f, S) = f[Some(S)] + Total(f, S \ {Some(S)})
  <1> DEFINE R == S \ {Some(S)}
  <1>1. PICK it : Sums(it, f, S) /\ Total(f, S) = it[S]
      BY TotalSums
  <1>2. IsFiniteSet(R) /\ R \subseteq S
      BY FS_Subset
  <1>3. PICK ir : Sums(ir, f, R) /\ Total(f, R) = ir[R]
      BY <1>2, TotalSums
  <1>4. ir[R] = it[R]
      BY <1>1, <1>2, <1>3, SumsAgree
  <1>5. it[S] = f[Some(S)] + it[R]
      BY <1>1 DEF Sums
  <1>6. QED
      BY <1>1, <1>3, <1>4, <1>5

\* A total of integers is one.
LEMMA TotalInt ==
    ASSUME NEW f, NEW S, IsFiniteSet(S), \A d \in S : f[d] \in Int
    PROVE  \A T \in SUBSET S : Total(f, T) \in Int
  <1> DEFINE G == {T \in SUBSET S : Total(f, T) \in Int}
  <1>1. {} \in G
      BY TotalEmpty
  <1>2. ASSUME NEW T \in SUBSET S, T # {}, \A x \in T : T \ {x} \in G PROVE T \in G
    <2>1. Some(T) \in T /\ Total(f, T) = f[Some(T)] + Total(f, T \ {Some(T)})
        BY <1>2, SomeOf, TotalSome, FS_Subset
    <2>2. f[Some(T)] \in Int /\ Total(f, T \ {Some(T)}) \in Int
        BY <1>2, <2>1
    <2>3. Total(f, T) \in Int
        BY <2>1, <2>2
    <2>4. QED
        BY <2>3
  <1> HIDE DEF G
  <1>3. SUBSET S \subseteq G
      BY <1>1, <1>2, SubsetSet
  <1>4. QED
      BY <1>3 DEF G

\* Which element is taken does not matter.
LEMMA TotalTake ==
    ASSUME NEW f, NEW S, IsFiniteSet(S), \A d \in S : f[d] \in Int
    PROVE  \A T \in SUBSET S : \A x \in T : Total(f, T) = f[x] + Total(f, T \ {x})
  <1> DEFINE G == {T \in SUBSET S : \A x \in T : Total(f, T) = f[x] + Total(f, T \ {x})}
  <1>1. {} \in G
      OBVIOUS
  <1>2. ASSUME NEW T \in SUBSET S, T # {}, \A x \in T : T \ {x} \in G PROVE T \in G
    <2>1. PICK c \in T : Total(f, T) = f[c] + Total(f, T \ {c})
        BY <1>2, SomeOf, TotalSome, FS_Subset
    <2>2. ASSUME NEW x \in T, x # c PROVE Total(f, T) = f[x] + Total(f, T \ {x})
      <3> DEFINE R == (T \ {c}) \ {x}
      <3>1. R = (T \ {x}) \ {c} /\ R \in SUBSET S
          OBVIOUS
      <3>2. Total(f, T \ {c}) = f[x] + Total(f, R)
          BY <1>2, <2>2
      <3>3. Total(f, T \ {x}) = f[c] + Total(f, (T \ {x}) \ {c})
          BY <1>2, <2>2
      <3> HIDE DEF R
      <3>4. Total(f, R) \in Int /\ f[x] \in Int /\ f[c] \in Int
          BY <3>1, TotalInt
      <3>5. QED
          BY <2>1, <3>1, <3>2, <3>3, <3>4
    <2>3. \A x \in T : Total(f, T) = f[x] + Total(f, T \ {x})
        BY <2>1, <2>2
    <2>4. QED
        BY <2>3
  <1> HIDE DEF G
  <1>3. SUBSET S \subseteq G
      BY <1>1, <1>2, SubsetSet
  <1>4. QED
      BY <1>3 DEF G

\* Where f is at most g, but for U, the total of f is at most that over U and g's.
LEMMA TotalBound ==
    ASSUME NEW f, NEW g, NEW S, IsFiniteSet(S), NEW U,
           \A d \in S : f[d] \in Nat /\ g[d] \in Nat,
           \A d \in S \ U : f[d] <= g[d]
    PROVE  Total(f, S) <= Total(f, S \cap U) + Total(g, S)
  <1> DEFINE G == {T \in SUBSET S : Total(f, T) <= Total(f, T \cap U) + Total(g, T)}
  <1>1. {} \in G
    <2>1. {} \cap U = {} /\ {} \in SUBSET S
        OBVIOUS
    <2>2. QED
        BY <2>1, TotalEmpty
  <1>2. ASSUME NEW T \in SUBSET S, T # {}, \A x \in T : T \ {x} \in G PROVE T \in G
    <2>1. PICK x \in T : TRUE
        BY <1>2
    <2> DEFINE R == T \ {x}
    <2>2. Total(f, T) = f[x] + Total(f, R) /\ Total(g, T) = g[x] + Total(g, R)
        BY TotalTake
    <2>3. Total(f, R) <= Total(f, R \cap U) + Total(g, R)
        BY <1>2
    <2>4. R \in SUBSET S /\ R \cap U \in SUBSET S /\ T \cap U \in SUBSET S
        OBVIOUS
    <2>5. x \notin U => R \cap U = T \cap U
        OBVIOUS
    <2>6. x \in U => R \cap U = (T \cap U) \ {x}
        OBVIOUS
    <2> HIDE DEF R
    <2>7. /\ Total(f, R) \in Int /\ Total(g, R) \in Int /\ Total(f, R \cap U) \in Int
          /\ f[x] \in Nat /\ g[x] \in Nat
        BY <2>4, TotalInt
    <2>8. CASE x \in U
      <3>1. Total(f, T \cap U) = f[x] + Total(f, R \cap U)
          BY <2>4, <2>6, <2>8, TotalTake
      <3>2. QED
          BY <2>2, <2>3, <2>7, <3>1
    <2>9. CASE x \notin U
      <3>1. f[x] <= g[x] /\ Total(f, T \cap U) = Total(f, R \cap U)
          BY <2>5, <2>9
      <3>2. QED
          BY <2>2, <2>3, <2>7, <3>1
    <2>10. QED
        BY <2>8, <2>9
  <1> HIDE DEF G
  <1>3. SUBSET S \subseteq G
      BY <1>1, <1>2, SubsetSet
  <1>4. QED
      BY <1>3 DEF G

\* Totals grow with their functions.
LEMMA TotalLess ==
    ASSUME NEW f, NEW g, NEW S, IsFiniteSet(S),
           \A d \in S : f[d] \in Nat /\ g[d] \in Nat /\ f[d] <= g[d]
    PROVE  Total(f, S) <= Total(g, S)
  <1>1. Total(f, S) <= Total(f, S \cap {}) + Total(g, S)
      BY TotalBound
  <1>2. S \cap {} = {} /\ Total(f, {}) = 0 /\ Total(g, S) \in Int
      BY TotalEmpty, TotalInt
  <1>3. QED
      BY <1>1, <1>2

LEMMA TotalOne ==
    ASSUME NEW f, NEW S, IsFiniteSet(S), \A d \in S : f[d] \in Int, NEW x \in S
    PROVE  Total(f, S) = f[x] + Total(f, S \ {x})
  <1>1. \A T \in SUBSET S : \A y \in T : Total(f, T) = f[y] + Total(f, T \ {y})
      BY TotalTake
  <1>2. S \in SUBSET S
      OBVIOUS
  <1>3. QED
      BY <1>1, <1>2

\* One more in one place is one more in all.
LEMMA TotalMore ==
    ASSUME NEW S, IsFiniteSet(S), NEW f, NEW g, NEW d \in S,
           \A e \in S : f[e] \in Nat /\ g[e] \in Nat,
           g[d] = f[d] + 1, \A e \in S \ {d} : g[e] = f[e]
    PROVE  Total(g, S) = Total(f, S) + 1
  <1> DEFINE R == S \ {d}
  <1>1. \A e \in S : f[e] \in Int /\ g[e] \in Int
      OBVIOUS
  <1>2. \A e \in R : /\ f[e] \in Nat /\ g[e] \in Nat
                     /\ f[e] <= g[e] /\ g[e] <= f[e]
      OBVIOUS
  <1>3. IsFiniteSet(R) /\ R \in SUBSET S /\ S \in SUBSET S
      BY FS_Subset
  <1> HIDE DEF R
  <1>4. Total(f, R) \in Int /\ Total(g, R) \in Int
      BY <1>1, <1>3, TotalInt
  <1>5. \A e \in S : f[e] \in Int
      BY <1>1
  <1>6. Total(f, R) <= Total(g, R) /\ Total(g, R) <= Total(f, R)
      BY <1>2, <1>3, TotalLess
  <1>7. f[d] \in Int
      BY <1>1
  <1>8. Total(f, S) = f[d] + Total(f, R) /\ Total(g, S) = g[d] + Total(g, R)
    <2>1. \A e \in S : g[e] \in Int
        BY <1>1
    <2>2. Total(f, S) = f[d] + Total(f, S \ {d})
        BY <1>5, TotalOne
    <2>3. Total(g, S) = g[d] + Total(g, S \ {d})
        BY <2>1, TotalOne
    <2>4. QED
        BY <2>2, <2>3 DEF R
  <1>9. QED
      BY <1>1, <1>4, <1>6, <1>7, <1>8

-----------------------------------------------------------------------------
(* The month: what requests past its check add to what the check saw *)

\* Requests that passed the monthly check and are yet to be charged.
Through == {c \in Clients : pc[c] \in {"enter", "generate", "charge"}}

\* A day the sum does not reach has only answers that are astray.
AstrayAway == \A d \in Days \ (0 .. UtcDay) : usage[d] <= astray[d]

MonthInv ==
    /\ \A c \in Clients : utc[c] >= 0
    /\ AstrayAway
    /\ Total(usage, Days) + Cardinality(Through)
         <= Monthly - 1 + Cardinality(Clients) + Total(astray, Days)

\* Days and clients are finite, and totals over the days are numbers.
LEMMA MonthNumbers ==
    ASSUME TypeOK
    PROVE  /\ IsFiniteSet(Days) /\ Total(usage, Days) \in Int /\ Total(astray, Days) \in Int
           /\ IsFiniteSet(Through) /\ Cardinality(Through) \in Nat
           /\ Cardinality(Through) <= Cardinality(Clients) /\ Cardinality(Clients) \in Nat
  <1>1. IsFiniteSet(Days)
      BY QuotaAssumption, FS_Interval DEF Days
  <1>2. \A d \in Days : usage[d] \in Int /\ astray[d] \in Int
      BY DEF TypeOK
  <1>3. Total(usage, Days) \in Int
      BY <1>1, <1>2, TotalInt
  <1>4. Total(astray, Days) \in Int
      BY <1>1, <1>2, TotalInt
  <1>5. Through \subseteq Clients
      BY DEF Through
  <1>6. QED
      BY <1>1, <1>3, <1>4, <1>5, QuotaAssumption, FS_Subset, FS_CardinalityType

\* A step that charges nothing and lets nobody past the check.
LEMMA MonthQuiet ==
    ASSUME TypeOK, MonthInv, UNCHANGED <<usage, astray>>, UtcDay' = UtcDay, Through' \subseteq Through,
           \A c \in Clients : utc'[c] >= 0
    PROVE  MonthInv'
  <1>1. Cardinality(Through') <= Cardinality(Through) /\ Cardinality(Through') \in Nat
      BY MonthNumbers, FS_Subset, FS_CardinalityType
  <1>2. PICK u, a : u = Total(usage, Days) /\ a = Total(astray, Days)
      OBVIOUS
  <1>3. Total(usage, Days)' = u /\ Total(astray, Days)' = a
      BY <1>2 DEF Days
  <1>4. u \in Int /\ a \in Int /\ Cardinality(Clients) \in Nat /\ Monthly \in Nat
        /\ Cardinality(Through) \in Nat
        /\ u + Cardinality(Through) <= Monthly - 1 + Cardinality(Clients) + a
      BY <1>2, MonthNumbers, QuotaAssumption DEF MonthInv
  <1>5. u + Cardinality(Through') <= Monthly - 1 + Cardinality(Clients) + a
      BY <1>1, <1>4
  <1>6. AstrayAway'
      BY DEF MonthInv, AstrayAway, Days
  <1>7. QED
      BY <1>3, <1>5, <1>6 DEF MonthInv

\* Whoever passes the check leaves no more than the clients' room above the month.
LEMMA MonthPass ==
    ASSUME TypeOK, MonthInv, NEW c \in Clients, CheckMonthly(c)
    PROVE  MonthInv'
  <1>1. /\ UNCHANGED <<usage, astray>> /\ UtcDay' = UtcDay
        /\ \A b \in Clients : utc'[b] >= 0
    <2>1. /\ UNCHANGED <<usage, astray>> /\ UtcDay' = UtcDay
          /\ Ends(c) \/ Goto(c, "enter")
        BY DEF CheckMonthly, redis, history, UtcDay
    <2>2. utc \in [Clients -> Days] /\ \A b \in Clients : utc[b] >= 0
        BY DEF MonthInv, TypeOK
    <2>3. utc' = utc \/ utc' = [utc EXCEPT ![c] = 0]
        BY <2>1 DEF Ends, Goto, local
    <2>4. \A b \in Clients : utc'[b] >= 0
        BY <2>2, <2>3
    <2>5. QED
        BY <2>1, <2>4
  <1>2. CASE Total(usage, 0 .. UtcDay) >= Monthly
    <2>1. Ends(c)
        BY <1>2 DEF CheckMonthly
    <2>2. Through' \subseteq Through
        BY <2>1 DEF Ends, Through, TypeOK
    <2>3. QED
        BY <1>1, <2>2, MonthQuiet
  <1>3. CASE ~ (Total(usage, 0 .. UtcDay) >= Monthly)
    <2>1. PICK u, a, t : /\ u = Total(usage, Days) /\ a = Total(astray, Days)
                         /\ t = Total(usage, 0 .. UtcDay)
        OBVIOUS
    <2>2. Total(usage, Days)' = u /\ Total(astray, Days)' = a
        BY <1>1, <2>1 DEF Days
    <2>3. u \in Int /\ a \in Int /\ Cardinality(Clients) \in Nat /\ Monthly \in Nat
          /\ IsFiniteSet(Days)
        BY <2>1, MonthNumbers, QuotaAssumption
    <2>4. 0 .. UtcDay \subseteq Days /\ Days \cap (0 .. UtcDay) = 0 .. UtcDay
        BY QuotaAssumption, TodayIsADay DEF Days
    <2>5. \A d \in Days : usage[d] \in Nat /\ astray[d] \in Nat /\ usage[d] \in Int
        BY DEF TypeOK
    <2>6. t \in Int
        BY <2>1, <2>3, <2>4, <2>5, TotalInt
    <2>7. u <= t + a
        BY <2>1, <2>3, <2>4, <2>5, TotalBound DEF MonthInv, AstrayAway
    <2>8. t < Monthly
        BY <1>3, <2>1, <2>3, <2>6
    <2>9. Cardinality(Through') <= Cardinality(Clients) /\ Cardinality(Through') \in Nat
      <3>1. Through' \subseteq Clients
          BY DEF Through
      <3>2. QED
          BY <3>1, QuotaAssumption, FS_Subset, FS_CardinalityType
    <2>10. u + Cardinality(Through') <= Monthly - 1 + Cardinality(Clients) + a
        BY <2>3, <2>6, <2>7, <2>8, <2>9
    <2>11. AstrayAway'
        BY <1>1 DEF MonthInv, AstrayAway, Days
    <2>12. QED
        BY <1>1, <2>2, <2>10, <2>11 DEF MonthInv
  <1>4. QED
      BY <1>2, <1>3

\* A charge adds one to the total and takes one from those who passed; on a day
\* that the sum does not reach it is astray.
LEMMA MonthCharge ==
    ASSUME Base, TypeOK', MonthInv, NEW c \in Clients, Charge(c)
    PROVE  MonthInv'
  <1>0. TypeOK /\ Dates
      BY DEF Base
  <1>1. PICK d \in Days : d = date[c]
      BY <1>0 DEF TypeOK
  <1>2. /\ pc[c] = "charge" /\ UtcDay' = UtcDay
        /\ usage' = [usage EXCEPT ![d] = @ + 1]
        /\ astray' = IF utc[c] # d THEN [astray EXCEPT ![d] = @ + 1] ELSE astray
        /\ \A b \in Clients : utc'[b] >= 0
      BY <1>0, <1>1 DEF Charge, Astray, Ends, Goto, local, UtcDay, MonthInv, TypeOK
  <1>3. \A e \in Days : /\ usage[e] \in Nat /\ usage'[e] \in Nat
                        /\ astray[e] \in Nat /\ astray'[e] \in Nat
      BY <1>0 DEF TypeOK, Days
  <1>4. IsFiniteSet(Days) /\ Cardinality(Clients) \in Nat /\ Monthly \in Nat
        /\ Total(usage, Days) \in Int /\ Total(astray, Days) \in Int
      BY <1>0, MonthNumbers, QuotaAssumption
  <1>5. usage'[d] = usage[d] + 1 /\ \A e \in Days \ {d} : usage'[e] = usage[e]
      BY <1>0, <1>2 DEF TypeOK
  <1>6. \A e \in Days : astray[e] <= astray'[e]
      BY <1>0, <1>2, <1>3 DEF TypeOK
  <1>7. Total(usage, Days)' = Total(usage, Days) + 1
    <2>1. PICK f, g : f = usage /\ g = usage'
        OBVIOUS
    <2>2. Total(g, Days) = Total(f, Days) + 1
        BY <1>3, <1>4, <1>5, <2>1, TotalMore
    <2>3. Total(usage, Days)' = Total(g, Days)
        BY <2>1 DEF Days
    <2>4. QED
        BY <2>1, <2>2, <2>3
  <1>8. /\ Total(astray, Days)' \in Int /\ Total(astray, Days)' >= Total(astray, Days)
        /\ utc[c] # d => Total(astray, Days)' = Total(astray, Days) + 1
    <2>1. PICK f, g : f = astray /\ g = astray'
        OBVIOUS
    <2>2. Total(g, Days) >= Total(f, Days) /\ Total(g, Days) \in Int
      <3>1. \A e \in Days : f[e] \in Nat /\ g[e] \in Nat /\ f[e] <= g[e] /\ g[e] \in Int
          BY <1>3, <1>6, <2>1
      <3>2. Total(f, Days) <= Total(g, Days)
          BY <1>4, <3>1, TotalLess
      <3>3. Total(g, Days) \in Int
          BY <1>4, <3>1, TotalInt
      <3>4. QED
          BY <1>4, <2>1, <3>2, <3>3
    <2>3. ASSUME utc[c] # d PROVE Total(g, Days) = Total(f, Days) + 1
      <3>1. astray'[d] = astray[d] + 1 /\ \A e \in Days \ {d} : astray'[e] = astray[e]
          BY <1>0, <1>2, <2>3 DEF TypeOK
      <3>2. QED
          BY <1>3, <1>4, <2>1, <3>1, TotalMore
    <2>4. Total(astray, Days)' = Total(g, Days)
        BY <2>1 DEF Days
    <2>5. QED
        BY <2>1, <2>2, <2>3, <2>4
  <1>9. Cardinality(Through') = Cardinality(Through) - 1 /\ Cardinality(Through) \in Nat
    <2>1. c \in Through
        BY <1>2 DEF Through
    <2>2. Through' = Through \ {c}
        BY <1>0 DEF Charge, Goto, Ends, Through, TypeOK
    <2>3. QED
        BY <1>0, <2>1, <2>2, MonthNumbers, FS_RemoveElement
  <1>10. Total(usage, Days) + Cardinality(Through)
           <= Monthly - 1 + Cardinality(Clients) + Total(astray, Days)
      BY DEF MonthInv
  <1>11. Total(usage, Days)' + Cardinality(Through')
           <= Monthly - 1 + Cardinality(Clients) + Total(astray, Days)'
      BY <1>4, <1>7, <1>8, <1>9, <1>10
  <1>12. AstrayAway'
    <2>1. utc[c] \in 0 .. UtcDay
        BY <1>0, <1>2, TodayIsADay DEF Dates, Dating, Charging, MonthInv, TypeOK, Days
    <2>2. ASSUME NEW e \in Days \ (0 .. UtcDay) PROVE usage'[e] <= astray'[e]
      <3>1. usage[e] <= astray[e]
          BY DEF MonthInv, AstrayAway
      <3>2. CASE e = d
        <4>1. astray'[e] = astray[e] + 1
            BY <1>0, <1>2, <2>1, <2>2, <3>2 DEF TypeOK
        <4>2. QED
            BY <1>3, <1>5, <3>1, <3>2, <4>1
      <3>3. CASE e # d
        <4>1. usage'[e] = usage[e]
            BY <1>5, <3>3
        <4>2. QED
            BY <1>3, <1>6, <3>1, <4>1
      <3>4. QED
          BY <3>2, <3>3
    <2>3. QED
        BY <1>2, <2>2 DEF AstrayAway, Days
  <1>13. QED
      BY <1>2, <1>11, <1>12 DEF MonthInv

\* Usage only expires as time passes, and the sum reaches further.
LEMMA MonthHalfDay ==
    ASSUME TypeOK, TypeOK', MonthInv, HalfDay
    PROVE  MonthInv'
  <1>1. /\ usage' = Left(usage, usageEnd) /\ astray' = astray /\ pc' = pc /\ utc' = utc
      BY DEF HalfDay, local, history
  <1>2. \A e \in Days : /\ usage[e] \in Nat /\ usage'[e] \in Nat /\ usage[e] \in Int
                        /\ astray[e] \in Nat /\ usage'[e] <= usage[e]
    <2>1. \A e \in Days : usage[e] \in Nat /\ astray[e] \in Nat
        BY DEF TypeOK
    <2>2. \A e \in Days : usage'[e] = 0 \/ usage'[e] = usage[e]
        BY <1>1 DEF Left
    <2>3. QED
        BY <2>1, <2>2
  <1>3. IsFiniteSet(Days) /\ Cardinality(Clients) \in Nat /\ Monthly \in Nat
        /\ Total(usage, Days) \in Int /\ Total(astray, Days) \in Int /\ Cardinality(Through) \in Nat
      BY MonthNumbers, QuotaAssumption
  <1>4. Total(usage, Days)' <= Total(usage, Days) /\ Total(usage, Days)' \in Int
    <2>1. PICK f, g : f = usage /\ g = usage'
        OBVIOUS
    <2>2. \A e \in Days : f[e] \in Nat /\ g[e] \in Nat /\ g[e] <= f[e] /\ g[e] \in Int
        BY <1>2, <2>1
    <2>3. Total(g, Days) <= Total(f, Days)
        BY <1>3, <2>2, TotalLess
    <2>4. Total(g, Days) \in Int
        BY <1>3, <2>2, TotalInt
    <2>5. Total(usage, Days)' = Total(g, Days)
        BY <2>1 DEF Days
    <2>6. QED
        BY <2>1, <2>3, <2>4, <2>5
  <1>5. Total(astray, Days)' = Total(astray, Days) /\ Through' = Through
      BY <1>1 DEF Days, Through
  <1>6. AstrayAway'
    <2>1. UtcDay <= UtcDay' /\ UtcDay \in Int /\ UtcDay' \in Int
        BY DEF HalfDay, UtcDay, TypeOK
    <2>2. ASSUME NEW e \in Days, e \notin 0 .. UtcDay' PROVE usage'[e] <= astray'[e]
      <3>1. e \notin 0 .. UtcDay
          BY <2>1, <2>2 DEF Days
      <3>2. usage[e] <= astray[e]
          BY <2>2, <3>1 DEF MonthInv, AstrayAway
      <3>3. QED
          BY <1>1, <1>2, <3>2
    <2>3. QED
        BY <2>2 DEF AstrayAway, Days
  <1>7. Total(usage, Days) + Cardinality(Through)
          <= Monthly - 1 + Cardinality(Clients) + Total(astray, Days)
      BY DEF MonthInv
  <1>8. Total(usage, Days)' + Cardinality(Through')
          <= Monthly - 1 + Cardinality(Clients) + Total(astray, Days)'
      BY <1>3, <1>4, <1>5, <1>7
  <1>9. QED
      BY <1>1, <1>6, <1>8 DEF MonthInv

LEMMA NextMonth == Base /\ MonthInv /\ [Next]_vars => MonthInv'
  <1> SUFFICES ASSUME Base, MonthInv, [Next]_vars PROVE MonthInv'
      OBVIOUS
  <1>0. TypeOK /\ TypeOK'
      BY NextType DEF Base
  <1>1. UtcDay \in Int /\ UtcDay >= 0
      BY <1>0 DEF TypeOK, UtcDay
  <1>2. ASSUME NEW c \in Clients,
               \/ Arrive(c) \/ CheckDaily(c) \/ Enter(c) \/ Generated(c)
               \/ ChargeQuota(c) \/ ExpireQuota(c) \/ ChargeFails(c)
        PROVE  MonthInv'
    <2>1. UNCHANGED <<usage, astray>> /\ UtcDay' = UtcDay
        BY <1>2 DEF Arrive, CheckDaily, Enter, Generated, ChargeQuota, ExpireQuota,
                    ChargeFails, redis, history, UtcDay
    <2>2. /\ pc'[c] \in {"enter", "generate", "charge"} => pc[c] \in {"enter", "generate", "charge"}
          /\ utc'[c] >= 0
      <3>1. \/ Ends(c) \/ Arrive(c) \/ Goto(c, "monthly") \/ Goto(c, "expireQuota")
            \/ /\ pc[c] \in {"enter", "generate"}
               /\ Goto(c, "charge") \/ Dated(c, "generate") \/ Dated(c, "charge")
          BY <1>2 DEF CheckDaily, Enter, Generated, ChargeQuota, Incremented, ExpireQuota,
                      ChargeFails
      <3>2. utc[c] >= 0
          BY DEF MonthInv
      <3>3. CASE Ends(c)
          BY <1>0, <3>3 DEF Ends, TypeOK
      <3>4. CASE Arrive(c) \/ Goto(c, "monthly") \/ Goto(c, "expireQuota")
          BY <1>0, <3>2, <3>4 DEF Arrive, Goto, local, TypeOK
      <3>5. CASE pc[c] \in {"enter", "generate"} /\ Goto(c, "charge")
          BY <1>0, <3>2, <3>5 DEF Goto, local, TypeOK
      <3>6. CASE pc[c] \in {"enter", "generate"} /\ (Dated(c, "generate") \/ Dated(c, "charge"))
          BY <1>0, <1>1, <3>6 DEF Dated, TypeOK
      <3>7. QED
          BY <3>1, <3>3, <3>4, <3>5, <3>6
    <2>3. \A b \in Clients : b # c => pc'[b] = pc[b] /\ utc'[b] = utc[b]
        BY <1>0, <1>2, OthersStay
    <2>4. Through' \subseteq Through
        BY <2>2, <2>3 DEF Through
    <2>5. \A b \in Clients : utc'[b] >= 0
        BY <2>2, <2>3 DEF MonthInv
    <2>6. QED
        BY <1>0, <2>1, <2>4, <2>5, MonthQuiet
  <1>3. ASSUME UNCHANGED vars PROVE MonthInv'
    <2>1. /\ UNCHANGED <<usage, astray>> /\ UtcDay' = UtcDay /\ Through' = Through /\ utc' = utc
        BY <1>3 DEF vars, redis, history, UtcDay, Through
    <2>2. \A b \in Clients : utc'[b] >= 0
        BY <2>1 DEF MonthInv
    <2>3. QED
        BY <1>0, <2>1, <2>2, MonthQuiet
  <1>4. QED
      BY <1>0, <1>2, <1>3, MonthPass, MonthCharge, MonthHalfDay DEF Next

\* The month's usage exceeds its quota by at most the requests in flight and the
\* answers charged to days that the sum does not reach.
THEOREM MonthlyCorrect == Spec => []MonthlyBound
  <1>1. Init => MonthInv
    <2> SUFFICES ASSUME Init PROVE MonthInv
        OBVIOUS
    <2>1. IsFiniteSet(Days) /\ Cardinality(Clients) \in Nat /\ Monthly \in Nat \ {0}
        BY QuotaAssumption, FS_Interval, FS_CardinalityType DEF Days
    <2>2. \A d \in Days : usage[d] = 0 /\ astray[d] = 0
        BY DEF Init
    <2>3. \A d \in Days : usage[d] \in Nat /\ astray[d] \in Nat /\ usage[d] <= astray[d]
                          /\ astray[d] \in Int /\ usage[d] \in Int
        BY <2>2
    <2>4. Total(usage, Days) <= Total(astray, Days)
        BY <2>1, <2>3, TotalLess
    <2>5. Total(usage, Days) \in Int /\ Total(astray, Days) \in Int
      <3>1. Total(usage, Days) \in Int
          BY <2>1, <2>3, TotalInt
      <3>2. Total(astray, Days) \in Int
          BY <2>1, <2>3, TotalInt
      <3>3. QED
          BY <3>1, <3>2
    <2>6. Through = {} /\ Cardinality({}) = 0 /\ \A c \in Clients : utc[c] >= 0
        BY FS_EmptySet DEF Init, Through
    <2>7. QED
        BY <2>1, <2>3, <2>4, <2>5, <2>6 DEF MonthInv, AstrayAway
  <1>2. Base /\ MonthInv => MonthlyBound
    <2> SUFFICES ASSUME Base, MonthInv PROVE MonthlyBound
        OBVIOUS
    <2>1. TypeOK
        BY DEF Base
    <2>2. QED
        BY <2>1, MonthNumbers, QuotaAssumption DEF MonthInv, MonthlyBound
  <1>3. QED
      BY <1>1, <1>2, NextMonth, BaseInvariant, PTL DEF Spec

-----------------------------------------------------------------------------
(***************************************************************************)
(* RateLimiter.  TierInv: typing, what a pass has charged and has yet to   *)
(* charge, and that a member of a sorted set stands for one pass of one    *)
(* request.  The bound of every key is inductive with it, when it counts   *)
(* the checks that are about to add a member as well (KeysBounded).        *)
(***************************************************************************)

\* The request has an owner and a model once it has arrived.
Begun(r) == stage[r] # "idle" => cred[r] \in Credentials /\ model[r] \in Models

Busy(r) == stage[r] \in {"tiers", "adding"}

\* A request in its first pass was let through by what is no longer to be checked,
\* one that has gone past it by all of it.
Charged(r) ==
    /\ Busy(r) => pass[r] \in {1, 2}
    /\ InPass(r, 1) =>
         \A t \in PassOneTiers(cred[r]) : t \in todo[r] \/ <<1, t>> \in charged[r]
    /\ InPass(r, 2) \/ stage[r] \in {"admitted", "model", "answered"} =>
         \A t \in PassOneTiers(cred[r]) : <<1, t>> \in charged[r]

\* No tier lets a request through twice in one pass.
Once(r) ==
    /\ stage[r] = "idle" => charged[r] = {}
    /\ stage[r] = "admitted" \/ InPass(r, 1) => \A t \in Tiers : <<2, t>> \notin charged[r]
    /\ Busy(r) => \A t \in todo[r] : Applies(r, pass[r], t) /\ <<pass[r], t>> \notin charged[r]

\* A member of a sorted set stands for one pass of one request through the tier.
Member(k, m) ==
    /\ <<m.pass, k[1]>> \in charged[m.by]
    /\ k[1] \in {"org", "apikey"} => m.pass = 1
    /\ k[1] = "model" => m.pass = 2
    /\ \A n \in zset[k] : n.by = m.by /\ n.pass = m.pass => n = m

Members == \A k \in Keys : IsFiniteSet(zset[k]) /\ \A m \in zset[k] : Member(k, m)

TierInv ==
    /\ EngineTypeOK
    /\ \A r \in Requests : Begun(r) /\ Charged(r) /\ Once(r)
    /\ Members

LEMMA TierNames == Tiers = {"gateway", "ip", "org", "user", "apikey", "model"}
BY DEF Tiers, Place

\* Where a tier is in the order, and that no two share a place.
LEMMA Places ==
    /\ \A t \in Tiers : Place[t] \in Int
    /\ \A t, u \in Tiers : Place[t] = Place[u] => t = u
BY DEF Tiers, Place

\* A request has one next tier.
LEMMA OneNext ==
    ASSUME EngineTypeOK, NEW r \in Requests, NEW t, NEW u, First(r, t), First(r, u)
    PROVE  t = u
<1>1. /\ t \in Tiers /\ u \in Tiers /\ Place[t] <= Place[u] /\ Place[u] <= Place[t]
  BY DEF First, EngineTypeOK
<1>2. Place[t] \in Int /\ Place[u] \in Int
  BY <1>1, Places
<1>3. Place[t] = Place[u]
  BY <1>1, <1>2
<1> QED BY <1>1, <1>3, Places

\* The tiers of the first pass are those that apply in it.
LEMMA PassOne ==
    ASSUME NEW r \in Requests, NEW t \in PassOneTiers(cred[r])
    PROVE  t \in Tiers /\ Applies(r, 1, t)
BY TierNames DEF PassOneTiers, Applies, Owner

LEMMA StatsCounted ==
    ASSUME EngineTypeOK, NEW f \in {"requests", "limited"}, Count(f)
    PROVE  stats' \in [requests : Nat, limited : Nat]
BY DEF EngineTypeOK, Count

LEMMA InitTierInv == EngineInit => TierInv
<1> SUFFICES ASSUME EngineInit PROVE TierInv
  OBVIOUS
<1>1. EngineTypeOK
  BY RateLimiterAssumption DEF EngineInit, EngineTypeOK, RateLimiterAssumption
<1>2. Members
  <2>1. \A k \in Keys : zset[k] = {}
    BY DEF EngineInit
  <2> QED BY <2>1, FS_EmptySet DEF Members
<1>3. ASSUME NEW r \in Requests PROVE Begun(r) /\ Charged(r) /\ Once(r)
  <2>1. stage[r] = "idle" /\ charged[r] = {}
    BY DEF EngineInit
  <2> QED BY <2>1 DEF Begun, Charged, Once, InPass, Busy
<1> QED BY <1>1, <1>2, <1>3 DEF TierInv

\* What a request has done is its own: the others' part of the invariant stays.
LEMMA OtherPassesStay ==
    ASSUME TierInv, NEW r \in Requests, NEW s \in Requests \ {r},
           stage'[s] = stage[s], pass'[s] = pass[s], todo'[s] = todo[s],
           cred'[s] = cred[s], model'[s] = model[s], charged'[s] = charged[s]
    PROVE  (Begun(s) /\ Charged(s) /\ Once(s))'
<1>1. Begun(s) /\ Charged(s) /\ Once(s)
  BY DEF TierInv
<1>2. Begun(s)'
  BY <1>1 DEF Begun
<1>3. PassOneTiers(cred[s])' = PassOneTiers(cred[s])
  BY DEF PassOneTiers
<1>4. Charged(s)'
  BY <1>1, <1>3 DEF Charged, InPass, Busy
<1>5. \A p, t : Applies(s, p, t)' <=> Applies(s, p, t)
  BY DEF Applies, Owner
<1>6. Once(s)'
  BY <1>1, <1>5 DEF Once, InPass, Busy
<1> QED BY <1>2, <1>4, <1>6

\* Members stay what they are while the sets and charges do.
LEMMA MembersStay ==
    ASSUME Members, UNCHANGED <<zset, charged>>
    PROVE  Members'
BY DEF Members, Member

\* A step that only moves a request on.
LEMMA Moved ==
    ASSUME TierInv, NEW r \in Requests, stage[r] # "idle",
           NEW l \in {"admitted", "model", "answered", "rejected", "error"}, Move(r, l),
           UNCHANGED <<zset, pass, todo, request, charged>>, left' \in [Requests -> 0 .. Window],
           stats' \in [requests : Nat, limited : Nat],
           l \in {"admitted", "model", "answered"} =>
             \A t \in PassOneTiers(cred[r]) : <<1, t>> \in charged[r],
           l = "admitted" => \A t \in Tiers : <<2, t>> \notin charged[r]
    PROVE  TierInv'
<1>1. EngineTypeOK'
  BY DEF TierInv, EngineTypeOK, Move, request
<1>2. Members'
  BY MembersStay DEF TierInv
<1>3. ASSUME NEW s \in Requests \ {r} PROVE (Begun(s) /\ Charged(s) /\ Once(s))'
  <2>1. stage'[s] = stage[s]
    BY DEF Move, TierInv, EngineTypeOK
  <2> QED BY <2>1, OtherPassesStay DEF request
<1>4. (Begun(r) /\ Charged(r) /\ Once(r))'
  <2>1. /\ stage'[r] = l /\ Begun(r)
    BY DEF Move, TierInv, EngineTypeOK
  <2>2. Begun(r)'
    BY <2>1 DEF Begun, request
  <2>3. PassOneTiers(cred[r])' = PassOneTiers(cred[r])
    BY DEF PassOneTiers, request
  <2>4. Charged(r)'
    BY <2>1, <2>3 DEF Charged, InPass, Busy
  <2>5. Once(r)'
    BY <2>1 DEF Once, InPass, Busy
  <2> QED BY <2>2, <2>4, <2>5
<1> QED BY <1>1, <1>2, <1>3, <1>4 DEF TierInv

\* Where a pass goes on to, whatever its end.
LEMMA AfterPassInv ==
    ASSUME TierInv, NEW r \in Requests, Busy(r),
           NEW first \in {"admitted", "rejected", "error"}, AfterPass(r, first),
           UNCHANGED <<zset, pass, todo, request, charged>>, left' \in [Requests -> 0 .. Window],
           stats' \in [requests : Nat, limited : Nat],
           first = "admitted" => todo[r] = {}
    PROVE  TierInv'
<1>1. Charged(r) /\ Once(r)
  BY DEF TierInv
<1>2. CASE pass[r] = 1
  <2>1. Move(r, first)
    BY <1>2 DEF AfterPass
  <2>2. first = "admitted" => \A t \in PassOneTiers(cred[r]) : <<1, t>> \in charged[r]
    BY <1>1, <1>2 DEF Charged, InPass, Busy
  <2>3. \A t \in Tiers : <<2, t>> \notin charged[r]
    BY <1>1, <1>2 DEF Once, InPass, Busy
  <2> QED BY <2>1, <2>2, <2>3, Moved DEF Busy
<1>3. CASE pass[r] = 2
  <2>1. Move(r, "model")
    BY <1>3 DEF AfterPass
  <2>2. \A t \in PassOneTiers(cred[r]) : <<1, t>> \in charged[r]
    BY <1>1, <1>3 DEF Charged, InPass, Busy
  <2> QED BY <2>1, <2>2, Moved DEF Busy
<1> QED BY <1>1, <1>2, <1>3 DEF Charged

LEMMA QuietInv ==
    ASSUME TierInv, NEW r \in Requests,
           \/ \E t \in Tiers : Block(r, t)
           \/ Passed(r) \/ Fail(r) \/ QuotaExceeded(r) \/ ChatHit(r) \/ Answered(r)
    PROVE  TierInv'
<1>1. /\ EngineTypeOK /\ Charged(r) /\ Once(r) /\ stats \in [requests : Nat, limited : Nat]
      /\ left \in [Requests -> 0 .. Window]
  BY DEF TierInv, EngineTypeOK
<1>2. CASE \E t \in Tiers : Block(r, t)
  <2>1. PICK t \in Tiers : Block(r, t)
    BY <1>2
  <2>2. Busy(r) /\ AfterPass(r, "rejected")
    BY <2>1 DEF Block, At, Busy
  <2>3. stats' \in [requests : Nat, limited : Nat]
    BY <1>1, <2>1, StatsCounted DEF Block
  <2> QED BY <1>1, <2>1, <2>2, <2>3, AfterPassInv DEF Block
<1>3. CASE Passed(r)
  <2>1. stats' \in [requests : Nat, limited : Nat] /\ Busy(r)
    BY <1>1, <1>3, StatsCounted DEF Passed, Busy
  <2> QED BY <1>1, <1>3, <2>1, AfterPassInv DEF Passed
<1>4. CASE Fail(r)
  <2>1. left' \in [Requests -> 0 .. Window] /\ Busy(r)
    BY <1>1, <1>4, RateLimiterAssumption DEF Fail, Busy, RateLimiterAssumption
  <2> QED BY <1>1, <1>4, <2>1, AfterPassInv DEF Fail
<1>5. CASE QuotaExceeded(r)
  <2>1. stats' \in [requests : Nat, limited : Nat]
    BY <1>1, <1>5, StatsCounted DEF QuotaExceeded
  <2> QED BY <1>1, <1>5, <2>1, Moved DEF QuotaExceeded
<1>6. CASE ChatHit(r)
  <2>1. stats' \in [requests : Nat, limited : Nat]
    BY <1>1, <1>6, StatsCounted DEF ChatHit
  <2>2. \A t \in PassOneTiers(cred[r]) : <<1, t>> \in charged[r]
    BY <1>1, <1>6 DEF ChatHit, Charged
  <2> QED BY <1>1, <1>6, <2>1, <2>2, Moved DEF ChatHit
<1>7. CASE Answered(r)
  <2>1. \A t \in PassOneTiers(cred[r]) : <<1, t>> \in charged[r]
    BY <1>1, <1>7 DEF Answered, Charged
  <2> QED BY <1>1, <1>7, <2>1, Moved DEF Answered
<1> QED BY <1>2, <1>3, <1>4, <1>5, <1>6, <1>7

\* A tier that finds room leaves a request in its pass.
LEMMA FindInv ==
    ASSUME TierInv, NEW r \in Requests, NEW t \in Tiers, Find(r, t)
    PROVE  TierInv'
<1>1. /\ EngineTypeOK /\ stage[r] = "tiers"
      /\ stage' = [stage EXCEPT ![r] = "adding"] /\ left' = [left EXCEPT ![r] = Window]
      /\ UNCHANGED <<zset, pass, todo, request, charged, stats>>
  BY DEF TierInv, Find, At, Move
<1>2. EngineTypeOK'
  BY <1>1, RateLimiterAssumption DEF EngineTypeOK, request, RateLimiterAssumption
<1>3. Members'
  BY <1>1, MembersStay DEF TierInv
<1>4. ASSUME NEW s \in Requests \ {r} PROVE (Begun(s) /\ Charged(s) /\ Once(s))'
  <2>1. stage'[s] = stage[s]
    BY <1>1 DEF EngineTypeOK
  <2> QED BY <1>1, <2>1, OtherPassesStay DEF request
<1>5. (Begun(r) /\ Charged(r) /\ Once(r))'
  <2>1. Begun(r) /\ Charged(r) /\ Once(r) /\ stage'[r] = "adding"
    BY <1>1 DEF TierInv, EngineTypeOK
  <2>2. PassOneTiers(cred[r])' = PassOneTiers(cred[r])
    BY <1>1 DEF PassOneTiers, request
  <2>3. \A q, u : Applies(r, q, u)' <=> Applies(r, q, u)
    BY <1>1 DEF Applies, Owner, request
  <2>4. Begun(r)'
    BY <1>1, <2>1 DEF Begun, request
  <2>5. Charged(r)'
    BY <1>1, <2>1, <2>2 DEF Charged, InPass, Busy
  <2>6. Once(r)'
    BY <1>1, <2>1, <2>3 DEF Once, InPass, Busy
  <2> QED BY <2>4, <2>5, <2>6
<1> QED BY <1>2, <1>3, <1>4, <1>5 DEF TierInv

\* A pass begins: its tiers are those that apply.
LEMMA EnterInv ==
    ASSUME TierInv, NEW r \in Requests, NEW p \in {1, 2}, Start(r, p), UNCHANGED <<zset, charged>>,
           stats' \in [requests : Nat, limited : Nat], left' = left,
           cred' \in [Requests -> Credentials \cup {None}],
           model' \in [Requests -> Models \cup {None}],
           \A s \in Requests \ {r} : cred'[s] = cred[s] /\ model'[s] = model[s],
           cred'[r] \in Credentials, model'[r] \in Models,
           \A t \in Tiers : <<2, t>> \notin charged[r],
           p = 1 => charged[r] = {},
           p = 2 => \A t \in PassOneTiers(cred[r])' : <<1, t>> \in charged[r]
    PROVE  TierInv'
<1> DEFINE T == {t \in Tiers : Applies(r, p, t)'}
<1>1. /\ stage' = [stage EXCEPT ![r] = "tiers"] /\ pass' = [pass EXCEPT ![r] = p]
      /\ todo' = [todo EXCEPT ![r] = T]
  BY DEF Start, Move
<1>2. EngineTypeOK /\ T \in SUBSET Tiers
  BY DEF TierInv
<1>3. stage'[r] = "tiers" /\ pass'[r] = p /\ todo'[r] = T
  BY <1>1, <1>2 DEF EngineTypeOK
<1>4. \A t \in T : Applies(r, p, t)'
  OBVIOUS
<1>5. \A t \in PassOneTiers(cred[r])' : p = 1 => t \in T
  BY TierNames DEF PassOneTiers, Applies, Owner
<1> HIDE DEF T
<1>6. EngineTypeOK'
  BY <1>1, <1>2 DEF EngineTypeOK
<1>7. Members'
  BY MembersStay DEF TierInv
<1>8. ASSUME NEW s \in Requests \ {r} PROVE (Begun(s) /\ Charged(s) /\ Once(s))'
  <2>1. stage'[s] = stage[s] /\ pass'[s] = pass[s] /\ todo'[s] = todo[s] /\ charged'[s] = charged[s]
    BY <1>1, <1>2 DEF EngineTypeOK
  <2> QED BY <2>1, OtherPassesStay
<1>9. (Begun(r) /\ Charged(r) /\ Once(r))'
  <2>1. Begun(r)'
    BY DEF Begun
  <2>2. Charged(r)'
    BY <1>3, <1>5 DEF Charged, InPass, Busy
  <2>3. \A t \in T : Applies(r, pass[r], t)' /\ <<p, t>> \notin charged[r]
    BY <1>2, <1>3, <1>4
  <2>4. Once(r)'
    BY <1>3, <2>3 DEF Once, InPass, Busy
  <2> QED BY <2>1, <2>2, <2>4
<1> QED BY <1>6, <1>7, <1>8, <1>9 DEF TierInv

LEMMA ArriveInv ==
    ASSUME TierInv, NEW r \in Requests, NEW c \in Credentials, NEW m \in Models, Receive(r, c, m)
    PROVE  TierInv'
<1>1. EngineTypeOK /\ Once(r) /\ stage[r] = "idle"
  BY DEF TierInv, Receive
<1>2. charged[r] = {}
  BY <1>1 DEF Once
<1>3. /\ cred' = [cred EXCEPT ![r] = c] /\ model' = [model EXCEPT ![r] = m] /\ Start(r, 1)
      /\ UNCHANGED <<zset, left, charged, stats>>
  BY DEF Receive
<1>4. /\ cred' \in [Requests -> Credentials \cup {None}]
      /\ model' \in [Requests -> Models \cup {None}]
      /\ \A s \in Requests \ {r} : cred'[s] = cred[s] /\ model'[s] = model[s]
      /\ cred'[r] = c /\ model'[r] = m /\ stats' \in [requests : Nat, limited : Nat]
  BY <1>1, <1>3 DEF EngineTypeOK
<1> QED BY <1>2, <1>3, <1>4, EnterInv

LEMMA ChatMissInv == ASSUME TierInv, NEW r \in Requests, ChatMiss(r) PROVE TierInv'
<1>1. EngineTypeOK /\ Begun(r) /\ Charged(r) /\ Once(r) /\ stage[r] = "admitted"
  BY DEF TierInv, ChatMiss
<1>2. /\ Count("requests") /\ Start(r, 2) /\ UNCHANGED <<zset, request, left, charged>>
  BY DEF ChatMiss
<1>3. stats' \in [requests : Nat, limited : Nat]
  BY <1>1, <1>2, StatsCounted
<1>4. /\ cred[r] \in Credentials /\ model[r] \in Models
      /\ \A t \in Tiers : <<2, t>> \notin charged[r]
  BY <1>1 DEF Begun, Once
<1>5. \A t \in PassOneTiers(cred[r])' : <<1, t>> \in charged[r]
  BY <1>1, <1>2 DEF Charged, PassOneTiers, request
<1>6. /\ cred' \in [Requests -> Credentials \cup {None}]
      /\ model' \in [Requests -> Models \cup {None}]
      /\ \A s \in Requests \ {r} : cred'[s] = cred[s] /\ model'[s] = model[s]
      /\ cred'[r] \in Credentials /\ model'[r] \in Models
  BY <1>1, <1>2, <1>4 DEF request, EngineTypeOK
<1> QED BY <1>2, <1>3, <1>4, <1>5, <1>6, EnterInv

Older(m) == [m EXCEPT !.left = @ - 1]

\* Time lets members go and brings none.
LEMMA LaterFewer ==
    ASSUME NEW S, S \subseteq Slots, IsFiniteSet(S)
    PROVE  /\ Later(S) \subseteq Slots /\ IsFiniteSet(Later(S))
           /\ Cardinality(Later(S)) <= Cardinality(S)
           /\ \A n \in Later(S) : \E m \in S : n = Older(m) /\ m \in Slots
<1> DEFINE A == {n \in S : n.left > 1}
           f == [m \in A |-> Older(m)]
<1>1. Later(S) = {Older(m) : m \in A}
  BY DEF Later, Older
<1>2. Window \in Nat
  BY RateLimiterAssumption DEF RateLimiterAssumption
<1>3. \A m \in S : m.left > 1 => Older(m) \in Slots
  BY <1>2 DEF Slots, Older
<1>4. /\ IsFiniteSet(A) /\ Cardinality(A) <= Cardinality(S)
      /\ Cardinality(A) \in Nat /\ Cardinality(S) \in Nat
  BY FS_Subset, FS_CardinalityType
<1>5. f \in Surjection(A, Later(S))
  BY <1>1 DEF Surjection
<1> HIDE DEF f
<1>6. IsFiniteSet(Later(S)) /\ Cardinality(Later(S)) <= Cardinality(A)
  BY <1>4, <1>5, FS_Surjection
<1>7. Cardinality(Later(S)) \in Nat
  BY <1>6, FS_CardinalityType
<1> QED BY <1>1, <1>3, <1>4, <1>6, <1>7

LEMMA TickInv == ASSUME TierInv, Tick PROVE TierInv'
<1>1. /\ EngineTypeOK /\ zset' = [k \in Keys |-> Later(zset[k])]
      /\ UNCHANGED <<stage, pass, todo, request, charged, stats>>
      /\ left' = [s \in Requests |-> IF left[s] > 0 THEN left[s] - 1 ELSE 0]
  BY DEF TierInv, Tick
<1>2. ASSUME NEW k \in Keys
      PROVE  /\ zset'[k] \subseteq Slots /\ IsFiniteSet(zset'[k])
             /\ \A n \in zset'[k] : \E m \in zset[k] : n = Older(m) /\ m \in Slots
  <2>1. zset[k] \subseteq Slots /\ IsFiniteSet(zset[k])
    BY <1>1 DEF EngineTypeOK, TierInv, Members
  <2>2. zset'[k] = Later(zset[k])
    BY <1>1
  <2> QED BY <2>1, <2>2, LaterFewer
<1>3. EngineTypeOK'
  <2>1. zset' \in [Keys -> SUBSET Slots]
    BY <1>1, <1>2
  <2>2. left' \in [Requests -> 0 .. Window]
    BY <1>1, RateLimiterAssumption DEF EngineTypeOK, RateLimiterAssumption
  <2> QED BY <1>1, <2>1, <2>2 DEF EngineTypeOK, request
<1>4. Members'
  <2> SUFFICES ASSUME NEW k \in Keys, NEW n \in zset'[k] PROVE Member(k, n)'
    BY <1>2 DEF Members
  <2>1. PICK m \in zset[k] : n = Older(m) /\ m \in Slots
    BY <1>2
  <2>2. Member(k, m) /\ n.by = m.by /\ n.pass = m.pass
    BY <2>1 DEF TierInv, Members, Slots, Older
  <2>3. ASSUME NEW x \in zset'[k], x.by = n.by, x.pass = n.pass PROVE x = n
    <3>1. PICK y \in zset[k] : x = Older(y) /\ y \in Slots
      BY <1>2
    <3>2. y.by = x.by /\ y.pass = x.pass
      BY <3>1 DEF Slots, Older
    <3>3. y = m
      BY <2>2, <2>3, <3>2 DEF Member
    <3> QED BY <2>1, <3>1, <3>3
  <2> QED BY <1>1, <2>2, <2>3 DEF Member
<1>5. ASSUME NEW s \in Requests PROVE (Begun(s) /\ Charged(s) /\ Once(s))'
  <2>1. Begun(s) /\ Charged(s) /\ Once(s)
    BY DEF TierInv
  <2>2. Begun(s)' /\ Charged(s)'
    BY <1>1, <2>1 DEF Begun, Charged, InPass, Busy, PassOneTiers, request
  <2>3. \A p, t : Applies(s, p, t)' <=> Applies(s, p, t)
    BY <1>1 DEF Applies, Owner, request
  <2>4. Once(s)'
    BY <1>1, <2>1, <2>3 DEF Once, InPass, Busy
  <2> QED BY <2>2, <2>4
<1> QED BY <1>3, <1>4, <1>5 DEF TierInv

\* A tier that lets a request through: its slot is a new member.
LEMMA NewSlot ==
    ASSUME TierInv, NEW r \in Requests, NEW t \in Tiers, At(r, t) \/ Adding(r, t)
    PROVE  /\ pass[r] \in {1, 2} /\ (left[r] > 0 => Slot(r) \in Slots)
           /\ cred[r] \in Credentials /\ model[r] \in Models
           /\ Slot(r).by = r /\ Slot(r).pass = pass[r] /\ Key(r, t)[1] = t
           /\ t \in {"org", "apikey"} => pass[r] = 1
           /\ t = "model" => pass[r] = 2
           /\ <<pass[r], t>> \notin charged[r]
           /\ \A k \in Keys : \A m \in zset[k] : k[1] = t => m.by # r \/ m.pass # pass[r]
<1>1. /\ Busy(r) /\ t \in todo[r] /\ Charged(r) /\ Once(r) /\ Begun(r)
  BY DEF TierInv, At, Adding, First, Busy
<1>2. pass[r] \in {1, 2} /\ Applies(r, pass[r], t) /\ <<pass[r], t>> \notin charged[r]
  BY <1>1 DEF Charged, Once
<1>3. Window \in Nat \ {0} /\ left[r] \in 0 .. Window
  BY RateLimiterAssumption DEF RateLimiterAssumption, TierInv, EngineTypeOK
<1>4. (left[r] > 0 => Slot(r) \in Slots) /\ Slot(r).by = r /\ Slot(r).pass = pass[r]
  BY <1>2, <1>3 DEF Slot, Slots
<1>5. Key(r, t)[1] = t
  BY DEF Key
<1>6. cred[r] \in Credentials /\ model[r] \in Models
  BY <1>1 DEF Begun, Busy
<1>7. (t \in {"org", "apikey"} => pass[r] = 1) /\ (t = "model" => pass[r] = 2)
  BY <1>2 DEF Applies
<1>8. \A k \in Keys : \A m \in zset[k] : k[1] = t => m.by # r \/ m.pass # pass[r]
  BY <1>2 DEF TierInv, Members, Member
<1> QED BY <1>2, <1>4, <1>5, <1>6, <1>7, <1>8

LEMMA LetInv ==
    ASSUME TierInv, NEW r \in Requests, NEW t \in Tiers, Let(r, t)
    PROVE  TierInv'
<1> DEFINE K == Key(r, t)
           X == IF left[r] > 0 THEN {Slot(r)} ELSE {}
           p == pass[r]
<1>1. /\ Adding(r, t) /\ EngineTypeOK
      /\ zset' = [zset EXCEPT ![K] = @ \cup X]
      /\ stage' = [stage EXCEPT ![r] = "tiers"] /\ left' = [left EXCEPT ![r] = 0]
      /\ charged' = [charged EXCEPT ![r] = @ \cup {<<p, t>>}]
      /\ todo' = [todo EXCEPT ![r] = @ \ {t}]
      /\ UNCHANGED <<pass, request, stats>>
  BY DEF TierInv, Let, Move
<1>2. /\ p \in {1, 2} /\ K[1] = t /\ \A x \in X : x \in Slots /\ x.by = r /\ x.pass = p
      /\ \A x, y \in X : x = y
      /\ IsFiniteSet(X)
      /\ t \in {"org", "apikey"} => p = 1
      /\ t = "model" => p = 2
      /\ <<p, t>> \notin charged[r]
      /\ \A k \in Keys : \A m \in zset[k] : k[1] = t => m.by # r \/ m.pass # p
  <2>1. /\ p \in {1, 2} /\ K[1] = t /\ <<p, t>> \notin charged[r]
        /\ t \in {"org", "apikey"} => p = 1
        /\ t = "model" => p = 2
        /\ \A k \in Keys : \A m \in zset[k] : k[1] = t => m.by # r \/ m.pass # p
    BY <1>1, NewSlot
  <2>2. \A x \in X : x \in Slots /\ x.by = r /\ x.pass = p
    <3>1. (left[r] > 0 => Slot(r) \in Slots) /\ Slot(r).by = r /\ Slot(r).pass = p
      BY <1>1, NewSlot
    <3>2. X # {} => left[r] > 0 /\ X = {Slot(r)}
      OBVIOUS
    <3> HIDE DEF X, p
    <3> QED BY <3>1, <3>2
  <2>3. (\A x, y \in X : x = y) /\ IsFiniteSet(X)
    BY FS_EmptySet, FS_Singleton
  <2> QED BY <2>1, <2>2, <2>3
<1> HIDE DEF K, X
<1>3. /\ \A k \in Keys : zset'[k] = IF k = K THEN zset[k] \cup X ELSE zset[k]
      /\ charged'[r] = charged[r] \cup {<<p, t>>}
      /\ todo'[r] = todo[r] \ {t}
      /\ \A s \in Requests \ {r} : /\ charged'[s] = charged[s] /\ todo'[s] = todo[s]
                                   /\ stage'[s] = stage[s]
  BY <1>1 DEF EngineTypeOK
<1>4. EngineTypeOK'
  <2>1. zset' \in [Keys -> SUBSET Slots]
    BY <1>1, <1>2 DEF EngineTypeOK
  <2>2. charged' \in [Requests -> SUBSET ({1, 2} \X Tiers)]
    BY <1>1, <1>2 DEF EngineTypeOK
  <2>3. left' \in [Requests -> 0 .. Window]
    BY <1>1, RateLimiterAssumption DEF EngineTypeOK, RateLimiterAssumption
  <2> QED BY <1>1, <2>1, <2>2, <2>3 DEF EngineTypeOK, request
<1>5. \A s \in Requests : charged[s] \subseteq charged'[s]
  BY <1>3
<1>6. Members'
  <2> SUFFICES ASSUME NEW k \in Keys
               PROVE  IsFiniteSet(zset'[k]) /\ \A m \in zset'[k] : Member(k, m)'
    BY DEF Members
  <2>1. IsFiniteSet(zset[k]) /\ zset[k] \subseteq Slots /\ \A m \in zset[k] : Member(k, m)
    BY <1>1 DEF TierInv, Members, EngineTypeOK
  <2>2. CASE k # K
    <3>1. zset'[k] = zset[k]
      BY <1>3, <2>2
    <3>2. ASSUME NEW m \in zset[k] PROVE Member(k, m)'
      <4>1. Member(k, m) /\ m.by \in Requests
        BY <2>1 DEF Slots
      <4> QED BY <1>5, <3>1, <4>1 DEF Member
    <3> QED BY <2>1, <3>1, <3>2
  <2>3. CASE k = K
    <3>1. zset'[k] = zset[k] \cup X /\ k[1] = t
      BY <1>2, <1>3, <2>3
    <3>6. IsFiniteSet(zset[k] \cup X)
      BY <1>2, <2>1, FS_Union
    <3>5. IsFiniteSet(zset'[k])
      BY <3>1, <3>6
    <3>2. \A m \in zset[k] : m.by # r \/ m.pass # p
      BY <1>2, <3>1
    <3>3. ASSUME NEW m \in zset[k] PROVE Member(k, m)'
      <4>1. Member(k, m) /\ m.by \in Requests
        BY <2>1 DEF Slots
      <4>2. \A n \in zset'[k] : n.by = m.by /\ n.pass = m.pass => n = m
        BY <1>2, <3>1, <3>2, <4>1 DEF Member
      <4>3. <<m.pass, k[1]>> \in charged'[m.by]
        BY <1>5, <4>1 DEF Member
      <4> QED BY <4>1, <4>2, <4>3 DEF Member
    <3>4. ASSUME NEW m \in X PROVE Member(k, m)'
      <4>1. \A n \in zset'[k] : n.by = m.by /\ n.pass = m.pass => n = m
        BY <1>2, <3>1, <3>2, <3>4
      <4>2. <<m.pass, k[1]>> \in charged'[m.by] /\ m.pass = p
        BY <1>2, <1>3, <3>1, <3>4
      <4> QED BY <1>2, <3>1, <4>1, <4>2 DEF Member
    <3> QED BY <3>1, <3>3, <3>4, <3>5
  <2> QED BY <2>2, <2>3
<1>7. ASSUME NEW s \in Requests \ {r} PROVE (Begun(s) /\ Charged(s) /\ Once(s))'
  BY <1>1, <1>3, OtherPassesStay DEF request
<1>8. (Begun(r) /\ Charged(r) /\ Once(r))'
  <2>1. Begun(r) /\ Charged(r) /\ Once(r) /\ Busy(r) /\ Busy(r)' /\ pass'[r] = p
    BY <1>1 DEF TierInv, EngineTypeOK, Adding, Busy
  <2>2. Begun(r)'
    BY <1>1, <2>1 DEF Begun, Busy, request
  <2>3. PassOneTiers(cred[r])' = PassOneTiers(cred[r])
    BY <1>1 DEF PassOneTiers, request
  <2>4. Charged(r)'
    BY <1>3, <2>1, <2>3 DEF Charged, InPass, Busy
  <2>5. \A q, u : Applies(r, q, u)' <=> Applies(r, q, u)
    BY <1>1 DEF Applies, Owner, request
  <2>6. Once(r)'
    <3>1. \A u \in todo'[r] : Applies(r, p, u)' /\ <<p, u>> \notin charged'[r]
      BY <1>3, <2>1, <2>5 DEF Once
    <3>2. InPass(r, 1)' => \A u \in Tiers : <<2, u>> \notin charged'[r]
      <4> SUFFICES ASSUME InPass(r, 1)', NEW u \in Tiers PROVE <<2, u>> \notin charged'[r]
        OBVIOUS
      <4>1. p = 1 /\ <<2, u>> \notin charged[r]
        BY <2>1 DEF Once, InPass, Busy
      <4> QED BY <1>3, <4>1
    <3> QED BY <2>1, <3>1, <3>2 DEF Once, Busy
  <2> QED BY <2>2, <2>4, <2>6
<1> QED BY <1>4, <1>6, <1>7, <1>8 DEF TierInv

LEMMA NextTierInv == ASSUME TierInv, [EngineNext]_engine PROVE TierInv'
<1>1. CASE UNCHANGED engine
  <2>1. EngineTypeOK' /\ Members'
    BY <1>1, MembersStay DEF TierInv, EngineTypeOK, engine, request
  <2>2. ASSUME NEW s \in Requests PROVE (Begun(s) /\ Charged(s) /\ Once(s))'
    <3>1. Begun(s) /\ Charged(s) /\ Once(s)
      BY DEF TierInv
    <3>2. \A p, t : Applies(s, p, t)' <=> Applies(s, p, t)
      BY <1>1 DEF Applies, Owner, engine, request
    <3> QED BY <1>1, <3>1, <3>2 DEF Begun, Charged, Once, InPass, Busy, PassOneTiers, engine, request
  <2> QED BY <2>1, <2>2 DEF TierInv
<1>2. CASE EngineNext
  BY <1>2, ArriveInv, FindInv, LetInv, QuietInv, ChatMissInv, TickInv DEF EngineNext
<1> QED BY <1>1, <1>2

\* TierInv is an invariant.
THEOREM TierInvariant == EngineSpec => []TierInv
<1>1. TierInv /\ [EngineNext]_engine => TierInv'
  BY NextTierInv
<1> QED BY <1>1, InitTierInv, PTL DEF EngineSpec

\* Nothing gets past check_rate_limit without every tier that concerns it.
THEOREM AllTiers == EngineSpec => []AdmittedCharged
<1>1. TierInv => AdmittedCharged
  BY DEF TierInv, Charged, AdmittedCharged
<1> QED BY <1>1, TierInvariant, PTL

-----------------------------------------------------------------------------
(* The bounds of the sorted sets: a member, or a check that is about to add one, *)
(* found room when the key was read, and those that read it together are few.    *)

Second == {r \in Requests : InPass(r, 2)}

\* The requests that race are as many as the threads and one.
Crowd ==
    /\ IsFiniteSet(OnThreads) /\ Cardinality(OnThreads) <= Threads
    /\ \A r, s \in Second : r = s

\* Checks of key k that have read it and not yet added to it.
Adders(k) == {r \in Requests : \E t \in Tiers : Adding(r, t) /\ Key(r, t) = k}

UserKey(c) == <<"user", UserOf[c]>>
Own(c) == {m \in zset[UserKey(c)] : cred[m.by] = c}
OwnAdders(c) == {r \in Adders(UserKey(c)) : cred[r] = c}

KeyRoom(k) ==
    zset[k] # {} \/ Adders(k) # {} =>
      \E n \in Limits(k) : Cardinality(zset[k]) + Cardinality(Adders(k)) <= n - 1 + Racers(k[1])

OwnRoom(c) == Cardinality(Own(c)) + Cardinality(OwnAdders(c)) <= Rps[c] - 1 + Racers("user")

KeysBounded ==
    /\ TierInv /\ Crowd
    /\ \A k \in Keys : KeyRoom(k)
    /\ \A c \in Credentials : OwnRoom(c)

LEMMA LimitsAreNumbers == \A k \in Keys : Limits(k) \subseteq Nat
<1>1. \A c \in Credentials : Rps[c] \in Nat /\ OrgFactor * Rps[c] \in Nat
  BY RateLimiterAssumption DEF RateLimiterAssumption
<1>2. GatewayLimit \in Nat /\ IpLimit \in Nat /\ \A m \in Models : ModelLimit[m] \in Nat
  BY RateLimiterAssumption DEF RateLimiterAssumption
<1>3. ASSUME NEW k \in Keys PROVE Limits(k) \subseteq Nat
  <2>1. k[1] \in {"gateway", "ip", "org", "user", "apikey", "model"}
    BY DEF Keys
  <2>2. k[1] = "model" => k[2] \in Models
    BY DEF Keys
  <2> QED BY <1>1, <1>2, <2>1, <2>2 DEF Limits
<1> QED BY <1>3

LEMMA RacersAreNumbers == \A t \in Tiers : Racers(t) \in Nat \ {0}
BY TierNames, RateLimiterAssumption DEF Racers, RateLimiterAssumption

LEMMA KeysHaveTiers == \A k \in Keys : k[1] \in Tiers
BY TierNames DEF Keys

\* The limit a request is held to is one of those of the key.
LEMMA LimitOfKey ==
    ASSUME TierInv, NEW r \in Requests, NEW t \in Tiers, At(r, t) \/ Adding(r, t)
    PROVE  Key(r, t) \in Keys /\ Limit(r, t) \in Limits(Key(r, t))
<1>1. cred[r] \in Credentials /\ model[r] \in Models
  BY NewSlot
<1>2. Rps[cred[r]] \in Nat /\ OrgFactor \in Nat
  BY <1>1, RateLimiterAssumption DEF RateLimiterAssumption
<1>3. Key(r, t) \in Keys
  BY <1>1, TierNames DEF Key, Owner, Keys
<1>4. Key(r, t)[1] = t /\ Key(r, t)[2] = Owner(r, t)
  BY DEF Key
<1>5. CASE t = "org"
  <2>1. Rps[cred[r]] * OrgFactor = OrgFactor * Rps[cred[r]]
    BY <1>2
  <2>2. Limit(r, t) = OrgFactor * Rps[cred[r]] /\ Owner(r, t) = OrgOf[cred[r]]
    BY <1>5, <2>1 DEF Limit, Owner
  <2>3. Limits(Key(r, t)) =
          {OrgFactor * n : n \in {Rps[c] : c \in {d \in Credentials : OrgOf[d] = OrgOf[cred[r]]}}}
    BY <1>4, <1>5, <2>2 DEF Limits
  <2> QED BY <1>1, <1>3, <2>2, <2>3
<1>6. CASE t # "org"
  BY <1>1, <1>3, <1>4, <1>6, TierNames DEF Limits, Limit, Owner
<1> QED BY <1>5, <1>6

\* Those that are at a key or adding to it are no more than the racers of its tier.
LEMMA FewAtKey ==
    ASSUME TierInv, Crowd, NEW k \in Keys, NEW S,
           \A r \in S : r \in Requests /\ \E t \in Tiers :
              (At(r, t) \/ Adding(r, t)) /\ Key(r, t) = k
    PROVE  IsFiniteSet(S) /\ Cardinality(S) \in Nat /\ Cardinality(S) <= Racers(k[1])
<1>1. ASSUME NEW r \in S
      PROVE  /\ InPass(r, 1) \/ InPass(r, 2)
             /\ k[1] \in {"org", "apikey"} => InPass(r, 1)
             /\ k[1] = "model" => InPass(r, 2)
  <2>1. PICK t \in Tiers : (At(r, t) \/ Adding(r, t)) /\ Key(r, t) = k
    BY <1>1
  <2>2. k[1] = t /\ Busy(r)
    BY <2>1 DEF Key, At, Adding, Busy
  <2>3. /\ pass[r] \in {1, 2} /\ (t \in {"org", "apikey"} => pass[r] = 1)
        /\ (t = "model" => pass[r] = 2)
    BY <2>1, NewSlot
  <2> QED BY <2>2, <2>3 DEF InPass, Busy
<1>2. /\ IsFiniteSet(OnThreads) /\ Cardinality(OnThreads) <= Threads
      /\ Cardinality(OnThreads) \in Nat
  BY FS_CardinalityType DEF Crowd
<1>3. IsFiniteSet(Second) /\ Cardinality(Second) <= 1 /\ Cardinality(Second) \in Nat
  <2>1. CASE Second = {}
    BY <2>1, FS_EmptySet
  <2>2. CASE Second # {}
    <3>1. PICK s : s \in Second
      BY <2>2
    <3>2. Second = {s}
      BY <3>1 DEF Crowd
    <3> QED BY <3>2, FS_Singleton
  <2> QED BY <2>1, <2>2
<1>4. S \subseteq OnThreads \cup Second
  BY <1>1 DEF OnThreads, Second
<1>5. /\ IsFiniteSet(OnThreads \cup Second) /\ Cardinality(OnThreads \cup Second) <= Threads + 1
      /\ Cardinality(OnThreads \cup Second) \in Nat
  <2>1. IsFiniteSet(OnThreads \cap Second) /\ Cardinality(OnThreads \cap Second) \in Nat
    BY <1>2, FS_Subset, FS_CardinalityType
  <2>2. /\ IsFiniteSet(OnThreads \cup Second)
        /\ Cardinality(OnThreads \cup Second)
             = Cardinality(OnThreads) + Cardinality(Second) - Cardinality(OnThreads \cap Second)
    BY <1>2, <1>3, FS_Union
  <2>3. Threads \in Nat
    BY RateLimiterAssumption DEF RateLimiterAssumption
  <2>4. Cardinality(OnThreads \cup Second) \in Nat
    BY <2>2, FS_CardinalityType
  <2>5. Cardinality(OnThreads) + Cardinality(Second) - Cardinality(OnThreads \cap Second) <= Threads + 1
    BY <1>2, <1>3, <2>1, <2>3
  <2> QED BY <2>2, <2>4, <2>5
<1>6. /\ IsFiniteSet(S) /\ Cardinality(S) \in Nat /\ Threads \in Nat
      /\ Cardinality(S) <= Cardinality(OnThreads \cup Second)
  BY <1>4, <1>5, FS_Subset, FS_CardinalityType, RateLimiterAssumption DEF RateLimiterAssumption
<1>7. k[1] \in Tiers
  BY KeysHaveTiers
<1>8. CASE k[1] \in {"gateway", "ip", "user"}
  BY <1>5, <1>6, <1>8 DEF Racers
<1>9. CASE k[1] \in {"org", "apikey"}
  <2>1. S \subseteq OnThreads
    BY <1>1, <1>9 DEF OnThreads
  <2>2. Cardinality(S) <= Cardinality(OnThreads)
    BY <1>2, <2>1, FS_Subset
  <2>3. Racers(k[1]) = Threads
    BY <1>9 DEF Racers
  <2> QED BY <1>2, <1>6, <2>2, <2>3
<1>10. CASE k[1] = "model"
  <2>1. S \subseteq Second
    BY <1>1, <1>10 DEF Second
  <2>2. Cardinality(S) <= Cardinality(Second)
    BY <1>3, <2>1, FS_Subset
  <2>3. Racers(k[1]) = 1
    BY <1>10 DEF Racers
  <2> QED BY <1>3, <1>6, <2>2, <2>3
<1> QED BY <1>6, <1>7, <1>8, <1>9, <1>10, TierNames

\* The sets that the bounds count are finite.
LEMMA CountsAreNumbers ==
    ASSUME TierInv, Crowd
    PROVE  /\ \A k \in Keys : /\ IsFiniteSet(zset[k]) /\ Cardinality(zset[k]) \in Nat
                              /\ IsFiniteSet(Adders(k)) /\ Cardinality(Adders(k)) \in Nat
                              /\ Cardinality(Adders(k)) <= Racers(k[1])
           /\ \A c \in Credentials :
                /\ UserKey(c) \in Keys
                /\ IsFiniteSet(Own(c)) /\ Cardinality(Own(c)) \in Nat
                /\ Cardinality(Own(c)) <= Cardinality(zset[UserKey(c)])
                /\ IsFiniteSet(OwnAdders(c)) /\ Cardinality(OwnAdders(c)) \in Nat
<1>1. ASSUME NEW k \in Keys
      PROVE  /\ IsFiniteSet(zset[k]) /\ Cardinality(zset[k]) \in Nat
             /\ IsFiniteSet(Adders(k)) /\ Cardinality(Adders(k)) \in Nat
             /\ Cardinality(Adders(k)) <= Racers(k[1])
  <2>1. IsFiniteSet(zset[k]) /\ Cardinality(zset[k]) \in Nat
    BY FS_CardinalityType DEF TierInv, Members
  <2>2. \A r \in Adders(k) : r \in Requests /\ \E t \in Tiers :
          (At(r, t) \/ Adding(r, t)) /\ Key(r, t) = k
    BY DEF Adders
  <2> QED BY <2>1, <2>2, FewAtKey
<1>2. ASSUME NEW c \in Credentials
      PROVE  /\ UserKey(c) \in Keys
             /\ IsFiniteSet(Own(c)) /\ Cardinality(Own(c)) \in Nat
             /\ Cardinality(Own(c)) <= Cardinality(zset[UserKey(c)])
             /\ IsFiniteSet(OwnAdders(c)) /\ Cardinality(OwnAdders(c)) \in Nat
  <2>1. UserKey(c) \in Keys
    BY DEF UserKey, Keys
  <2>2. Own(c) \subseteq zset[UserKey(c)] /\ OwnAdders(c) \subseteq Adders(UserKey(c))
    BY DEF Own, OwnAdders
  <2> QED BY <1>1, <2>1, <2>2, FS_Subset, FS_CardinalityType
<1> QED BY <1>1, <1>2

LEMMA InitKeysBounded == EngineInit => KeysBounded
<1> SUFFICES ASSUME EngineInit PROVE KeysBounded
  OBVIOUS
<1>1. TierInv
  BY InitTierInv
<1>2. \A r \in Requests : stage[r] = "idle"
  BY DEF EngineInit
<1>3. OnThreads = {} /\ Second = {} /\ \A k : Adders(k) = {}
  BY <1>2 DEF OnThreads, Second, InPass, Adders, Adding
<1>4. Cardinality({}) = 0 /\ IsFiniteSet({}) /\ Threads \in Nat
  BY FS_EmptySet, RateLimiterAssumption DEF RateLimiterAssumption
<1>5. Crowd
  BY <1>3, <1>4 DEF Crowd
<1>6. \A k \in Keys : zset[k] = {}
  BY DEF EngineInit
<1>7. \A k \in Keys : KeyRoom(k)
  BY <1>3, <1>6 DEF KeyRoom
<1>8. ASSUME NEW c \in Credentials PROVE OwnRoom(c)
  <2>1. Own(c) = {} /\ OwnAdders(c) = {}
    BY <1>3, <1>6 DEF Own, OwnAdders, UserKey, Keys
  <2>2. Rps[c] \in Nat \ {0} /\ Racers("user") \in Nat \ {0}
    BY RacersAreNumbers, TierNames, RateLimiterAssumption DEF RateLimiterAssumption
  <2> QED BY <1>4, <2>1, <2>2 DEF OwnRoom
<1> QED BY <1>1, <1>5, <1>7, <1>8 DEF KeysBounded

\* Nobody joins a race but by starting a pass.
LEMMA CrowdStays ==
    ASSUME Crowd, \A s \in Requests, p \in {1, 2} : InPass(s, p)' => InPass(s, p)
    PROVE  Crowd'
<1>1. OnThreads' \subseteq OnThreads /\ Second' \subseteq Second
  BY DEF OnThreads, Second
<1>2. /\ IsFiniteSet(OnThreads') /\ Cardinality(OnThreads') <= Cardinality(OnThreads)
      /\ Cardinality(OnThreads') \in Nat /\ Cardinality(OnThreads) \in Nat /\ Threads \in Nat
  BY <1>1, FS_Subset, FS_CardinalityType, RateLimiterAssumption DEF Crowd, RateLimiterAssumption
<1> QED BY <1>1, <1>2 DEF Crowd

\* A request joins the threads only when one is free, the loop only when it is.
LEMMA NextCrowd == ASSUME TierInv, Crowd, [EngineNext]_engine PROVE Crowd'
<1>0. EngineTypeOK
  BY DEF TierInv
<1>1. ASSUME NEW r \in Requests, NEW c \in Credentials, NEW m \in Models, Receive(r, c, m)
      PROVE  Crowd'
  <2>1. /\ stage[r] = "idle" /\ Cardinality(OnThreads) < Threads
        /\ stage' = [stage EXCEPT ![r] = "tiers"] /\ pass' = [pass EXCEPT ![r] = 1]
    BY <1>1 DEF Receive, Start, Move
  <2>2. OnThreads' = OnThreads \cup {r} /\ Second' \subseteq Second
    BY <1>0, <2>1 DEF EngineTypeOK, OnThreads, Second, InPass
  <2>3. IsFiniteSet(OnThreads) /\ Cardinality(OnThreads) \in Nat /\ Threads \in Nat
    BY FS_CardinalityType, RateLimiterAssumption DEF Crowd, RateLimiterAssumption
  <2>4. /\ IsFiniteSet(OnThreads \cup {r})
        /\ Cardinality(OnThreads \cup {r}) \in {Cardinality(OnThreads), Cardinality(OnThreads) + 1}
    BY <2>3, FS_AddElement
  <2> QED BY <2>1, <2>2, <2>3, <2>4 DEF Crowd
<1>2. ASSUME NEW r \in Requests, ChatMiss(r) PROVE Crowd'
  <2>1. /\ stage[r] = "admitted" /\ LoopIdle
        /\ stage' = [stage EXCEPT ![r] = "tiers"] /\ pass' = [pass EXCEPT ![r] = 2]
    BY <1>2 DEF ChatMiss, Start, Move
  <2>2. OnThreads' = OnThreads /\ Second' = {r}
    BY <1>0, <2>1 DEF EngineTypeOK, OnThreads, Second, InPass, LoopIdle
  <2> QED BY <2>2 DEF Crowd
<1>3. CASE \/ UNCHANGED engine \/ Tick
           \/ \E r \in Requests :
                \/ \E t \in Tiers : Find(r, t) \/ Let(r, t) \/ Block(r, t)
                \/ Passed(r) \/ Fail(r) \/ QuotaExceeded(r) \/ ChatHit(r) \/ Answered(r)
  <2>1. CASE UNCHANGED engine \/ Tick
    BY <2>1, CrowdStays DEF engine, Tick, InPass
  <2>2. ASSUME NEW r \in Requests, NEW t \in Tiers, Find(r, t) \/ Let(r, t) PROVE Crowd'
    <3>1. /\ Busy(r) /\ pass' = pass
          /\ stage' = [stage EXCEPT ![r] = "adding"] \/ stage' = [stage EXCEPT ![r] = "tiers"]
      BY <2>2 DEF Find, Let, At, Adding, Move, Busy
    <3>2. \A s \in Requests, p \in {1, 2} : InPass(s, p)' => InPass(s, p)
      BY <1>0, <3>1 DEF EngineTypeOK, InPass, Busy
    <3> QED BY <3>2, CrowdStays
  <2>3. ASSUME NEW r \in Requests,
               \/ \E t \in Tiers : Block(r, t)
               \/ Passed(r) \/ Fail(r) \/ QuotaExceeded(r) \/ ChatHit(r) \/ Answered(r)
        PROVE  Crowd'
    <3>1. /\ pass' = pass
          /\ \E l \in {"admitted", "model", "answered", "rejected", "error"} :
               stage' = [stage EXCEPT ![r] = l]
      BY <2>3 DEF Block, Passed, Fail, QuotaExceeded, ChatHit, Answered, AfterPass, Move
    <3>2. \A s \in Requests, p \in {1, 2} : InPass(s, p)' => InPass(s, p)
      BY <1>0, <3>1 DEF EngineTypeOK, InPass
    <3> QED BY <3>2, CrowdStays
  <2> QED BY <1>3, <2>1, <2>2, <2>3
<1> QED BY <1>1, <1>2, <1>3 DEF EngineNext

\* Who is in a sorted set has arrived: its credential is settled.
LEMMA SettledMembers ==
    ASSUME TierInv, \A s \in Requests : stage[s] # "idle" => cred'[s] = cred[s]
    PROVE  \A k \in Keys : \A m \in zset[k] : cred'[m.by] = cred[m.by]
<1> SUFFICES ASSUME NEW k \in Keys, NEW m \in zset[k] PROVE cred'[m.by] = cred[m.by]
  OBVIOUS
<1>1. zset[k] \subseteq Slots /\ Member(k, m)
  BY DEF TierInv, EngineTypeOK, Members
<1>2. m.by \in Requests /\ charged[m.by] # {}
  BY <1>1 DEF Slots, Member
<1> QED BY <1>2 DEF TierInv, Once

\* Bounds stay where sets and checks about to add to them only get fewer.
LEMMA FewerStays ==
    ASSUME KeysBounded, TierInv', Crowd',
           \A k \in Keys : /\ Cardinality(zset'[k]) <= Cardinality(zset[k])
                           /\ zset'[k] # {} => zset[k] # {}
                           /\ Adders(k)' \subseteq Adders(k),
           \A c \in Credentials : /\ Cardinality(Own(c)') <= Cardinality(Own(c))
                                  /\ OwnAdders(c)' \subseteq OwnAdders(c)
    PROVE  KeysBounded'
<1>1. TierInv /\ Crowd
  BY DEF KeysBounded
<1>2. ASSUME NEW k \in Keys PROVE KeyRoom(k)'
  <2> SUFFICES ASSUME zset'[k] # {} \/ Adders(k)' # {}
               PROVE  \E n \in Limits(k) : Cardinality(zset'[k]) + Cardinality(Adders(k)')
                                             <= n - 1 + Racers(k[1])
    BY DEF KeyRoom, Limits, Racers
  <2>1. PICK n \in Limits(k) :
          Cardinality(zset[k]) + Cardinality(Adders(k)) <= n - 1 + Racers(k[1])
    BY DEF KeysBounded, KeyRoom
  <2>2. /\ Cardinality(Adders(k)') <= Cardinality(Adders(k)) /\ Cardinality(Adders(k)') \in Nat
        /\ Cardinality(zset[k]) \in Nat /\ Cardinality(Adders(k)) \in Nat
    BY <1>1, CountsAreNumbers, FS_Subset, FS_CardinalityType
  <2>3. Cardinality(zset'[k]) \in Nat
    BY FS_CardinalityType DEF TierInv, Members
  <2>4. n \in Nat /\ Racers(k[1]) \in Nat
    BY LimitsAreNumbers, RacersAreNumbers, KeysHaveTiers
  <2>5. Cardinality(zset'[k]) + Cardinality(Adders(k)') <= n - 1 + Racers(k[1])
    BY <2>1, <2>2, <2>3, <2>4
  <2> QED BY <2>5
<1>3. ASSUME NEW c \in Credentials PROVE OwnRoom(c)'
  <2>1. Cardinality(Own(c)) + Cardinality(OwnAdders(c)) <= Rps[c] - 1 + Racers("user")
    BY DEF KeysBounded, OwnRoom
  <2>2. /\ Cardinality(OwnAdders(c)') <= Cardinality(OwnAdders(c))
        /\ Cardinality(OwnAdders(c)') \in Nat /\ Cardinality(OwnAdders(c)) \in Nat
        /\ Cardinality(Own(c)) \in Nat
    BY <1>1, CountsAreNumbers, FS_Subset, FS_CardinalityType
  <2>3. Cardinality(Own(c)') \in Nat
    <3>1. IsFiniteSet(zset'[UserKey(c)])
      BY DEF TierInv, Members, UserKey, Keys
    <3>2. Own(c)' \subseteq zset'[UserKey(c)]
      BY DEF Own, UserKey
    <3> QED BY <3>1, <3>2, FS_Subset, FS_CardinalityType
  <2>4. Rps[c] \in Nat /\ Racers("user") \in Nat
    BY RacersAreNumbers, TierNames, RateLimiterAssumption DEF RateLimiterAssumption
  <2>5. Cardinality(Own(c)') + Cardinality(OwnAdders(c)') <= Rps[c] - 1 + Racers("user")
    BY <2>1, <2>2, <2>3, <2>4
  <2> QED BY <2>5 DEF OwnRoom, Racers
<1> QED BY <1>2, <1>3 DEF KeysBounded, Keys

\* Who adds after a step that starts no addition added before it.
LEMMA AddersFewer ==
    ASSUME \A s \in Requests : stage'[s] = "adding" =>
             /\ stage[s] = "adding" /\ todo'[s] = todo[s]
             /\ cred'[s] = cred[s] /\ model'[s] = model[s]
    PROVE  /\ \A k \in Keys : Adders(k)' \subseteq Adders(k)
           /\ \A c \in Credentials : OwnAdders(c)' \subseteq OwnAdders(c)
<1>1. \A s \in Requests, t \in Tiers : Adding(s, t)' =>
        Adding(s, t) /\ Key(s, t)' = Key(s, t) /\ cred'[s] = cred[s]
  BY DEF Adding, First, Key, Owner
<1>2. \A k : Adders(k)' \subseteq Adders(k) /\ \A s \in Adders(k)' : cred'[s] = cred[s]
  BY <1>1 DEF Adders
<1> QED BY <1>2 DEF OwnAdders, UserKey

\* A check that finds room is one more that adds, beside what the key holds.
LEMMA FindKeysBounded ==
    ASSUME KeysBounded, TierInv', Crowd', NEW r \in Requests, NEW t \in Tiers, Find(r, t)
    PROVE  KeysBounded'
<1>1. /\ At(r, t) /\ ~ Full(r, t) /\ TierInv /\ Crowd /\ EngineTypeOK
      /\ stage' = [stage EXCEPT ![r] = "adding"]
      /\ zset' = zset /\ cred' = cred /\ model' = model /\ todo' = todo
  BY DEF KeysBounded, TierInv, Find, Move, request
<1>0. PICK K \in Keys : K = Key(r, t)
  BY <1>1, LimitOfKey
<1>2. K \in Keys /\ Limit(r, t) \in Limits(K) /\ Limit(r, t) \in Nat /\ K[1] = t
  BY <1>0, <1>1, LimitOfKey, LimitsAreNumbers DEF Key
<1>3. Cardinality(zset[K]) <= Limit(r, t) - 1 /\ Cardinality(zset[K]) \in Nat
  BY <1>0, <1>1, <1>2, CountsAreNumbers DEF Full
<1>4. \A s \in Requests, u \in Tiers : Adding(s, u)' =>
        /\ Key(s, u)' = Key(s, u)
        /\ Adding(s, u) \/ (s = r /\ u = t)
  <2>1. ASSUME NEW s \in Requests, NEW u \in Tiers, Adding(s, u)'
        PROVE  /\ Key(s, u)' = Key(s, u)
               /\ Adding(s, u) \/ (s = r /\ u = t)
    <3>1. Key(s, u)' = Key(s, u) /\ First(s, u)
      BY <1>1, <2>1 DEF Adding, First, Key, Owner
    <3>2. CASE s = r
      <4>1. First(r, t)
        BY <1>1 DEF At
      <4> QED BY <1>1, <3>1, <3>2, <4>1, OneNext
    <3>3. CASE s # r
      BY <1>1, <2>1, <3>1, <3>3 DEF EngineTypeOK, Adding
    <3> QED BY <3>1, <3>2, <3>3
  <2> QED BY <2>1
<1>5. /\ \A k \in Keys : k # K => Adders(k)' \subseteq Adders(k)
      /\ \A k : Adders(k)' \subseteq Adders(k) \cup {r}
  BY <1>0, <1>4 DEF Adders
<1>6. \A s \in Adders(K)' : s \in Requests /\ \E u \in Tiers :
        (At(s, u) \/ Adding(s, u)) /\ Key(s, u) = K
  <2>1. ASSUME NEW s \in Adders(K)
        PROVE  s \in Requests /\ \E u \in Tiers : (At(s, u) \/ Adding(s, u)) /\ Key(s, u) = K
    BY <2>1 DEF Adders
  <2>2. r \in Requests /\ \E u \in Tiers : (At(r, u) \/ Adding(r, u)) /\ Key(r, u) = K
    BY <1>0, <1>1
  <2> QED BY <1>5, <2>1, <2>2
<1>7. /\ IsFiniteSet(Adders(K)') /\ Cardinality(Adders(K)') \in Nat
      /\ Cardinality(Adders(K)') <= Racers(t) /\ Racers(t) \in Nat
  BY <1>1, <1>2, <1>6, FewAtKey, RacersAreNumbers
<1>8. ASSUME NEW k \in Keys PROVE KeyRoom(k)'
  <2> SUFFICES ASSUME zset[k] # {} \/ Adders(k)' # {}
               PROVE  \E n \in Limits(k) : Cardinality(zset[k]) + Cardinality(Adders(k)')
                                             <= n - 1 + Racers(k[1])
    BY <1>1 DEF KeyRoom, Limits, Racers
  <2>1. CASE k = K
    <3>1. Cardinality(zset[k]) + Cardinality(Adders(k)') <= Limit(r, t) - 1 + Racers(k[1])
      <4>1. Racers(k[1]) = Racers(t)
        BY <1>2, <2>1
      <4>2. Cardinality(zset[K]) + Cardinality(Adders(K)') <= Limit(r, t) - 1 + Racers(t)
        BY <1>2, <1>3, <1>7
      <4> QED BY <2>1, <4>1, <4>2
    <3> QED BY <1>2, <2>1, <3>1
  <2>2. CASE k # K
    <3>1. Adders(k)' \subseteq Adders(k)
      BY <1>5, <2>2
    <3>2. PICK n \in Limits(k) :
            Cardinality(zset[k]) + Cardinality(Adders(k)) <= n - 1 + Racers(k[1])
      BY <3>1 DEF KeysBounded, KeyRoom
    <3>3. /\ Cardinality(Adders(k)') <= Cardinality(Adders(k)) /\ Cardinality(Adders(k)') \in Nat
          /\ Cardinality(zset[k]) \in Nat /\ Cardinality(Adders(k)) \in Nat
      BY <1>1, <3>1, CountsAreNumbers, FS_Subset, FS_CardinalityType
    <3>4. n \in Nat /\ Racers(k[1]) \in Nat
      BY LimitsAreNumbers, RacersAreNumbers, KeysHaveTiers
    <3>5. Cardinality(zset[k]) + Cardinality(Adders(k)') <= n - 1 + Racers(k[1])
      BY <3>2, <3>3, <3>4
    <3> QED BY <3>5
  <2> QED BY <2>1, <2>2
<1>9. ASSUME NEW c \in Credentials PROVE OwnRoom(c)'
  <2>1. Own(c)' = Own(c) /\ OwnAdders(c)' \subseteq Adders(UserKey(c))'
    BY <1>1 DEF Own, OwnAdders, UserKey
  <2>2. /\ UserKey(c) \in Keys /\ Cardinality(Own(c)) \in Nat
        /\ Cardinality(Own(c)) <= Cardinality(zset[UserKey(c)])
        /\ Rps[c] \in Nat /\ Racers("user") \in Nat
    BY <1>1, CountsAreNumbers, RacersAreNumbers, TierNames, RateLimiterAssumption
       DEF RateLimiterAssumption
  <2>3. CASE UserKey(c) = K /\ cred[r] = c
    <3>1. t = "user"
      BY <1>2, <2>3 DEF UserKey
    <3>2. Limit(r, t) = Rps[c]
      BY <2>3, <3>1 DEF Limit
    <3>3. /\ Cardinality(OwnAdders(c)') <= Cardinality(Adders(K)')
          /\ Cardinality(OwnAdders(c)') \in Nat
      <4>1. OwnAdders(c)' \subseteq Adders(K)'
        BY <2>1, <2>3 DEF OwnAdders, UserKey
      <4> QED BY <1>7, <4>1, FS_Subset, FS_CardinalityType
    <3>4. Cardinality(Own(c)) + Cardinality(OwnAdders(c)') <= Rps[c] - 1 + Racers("user")
      BY <1>3, <1>7, <2>2, <2>3, <3>1, <3>2, <3>3
    <3> QED BY <2>1, <3>4 DEF OwnRoom, Racers
  <2>4. CASE ~ (UserKey(c) = K /\ cred[r] = c)
    <3>1. OwnAdders(c)' \subseteq OwnAdders(c)
      BY <1>1, <1>5, <2>2, <2>4 DEF OwnAdders, UserKey
    <3>2. Cardinality(Own(c)) + Cardinality(OwnAdders(c)) <= Rps[c] - 1 + Racers("user")
      BY DEF KeysBounded, OwnRoom
    <3>3. /\ Cardinality(OwnAdders(c)') <= Cardinality(OwnAdders(c))
          /\ Cardinality(OwnAdders(c)') \in Nat /\ Cardinality(OwnAdders(c)) \in Nat
      BY <1>1, <3>1, CountsAreNumbers, FS_Subset, FS_CardinalityType
    <3>4. Cardinality(Own(c)) + Cardinality(OwnAdders(c)') <= Rps[c] - 1 + Racers("user")
      BY <2>2, <3>2, <3>3
    <3> QED BY <2>1, <3>4 DEF OwnRoom, Racers
  <2> QED BY <2>3, <2>4
<1> QED BY <1>8, <1>9 DEF KeysBounded, Keys

\* Taking a member in and one that adds out leaves their number at most what it was.
LEMMA SumStays ==
    ASSUME NEW A, NEW B, NEW X, NEW r, IsFiniteSet(A), IsFiniteSet(B), r \in B,
           X = {} \/ \E x : X = {x}, NEW C, C \subseteq B \ {r}
    PROVE  /\ Cardinality(A \cup X) + Cardinality(C) <= Cardinality(A) + Cardinality(B)
           /\ Cardinality(A \cup X) \in Nat /\ Cardinality(C) \in Nat
<1>1. IsFiniteSet(B \ {r}) /\ Cardinality(B \ {r}) = Cardinality(B) - 1
  BY FS_RemoveElement
<1>2. /\ Cardinality(C) <= Cardinality(B) - 1 /\ Cardinality(C) \in Nat
      /\ Cardinality(A) \in Nat /\ Cardinality(B) \in Nat
  BY <1>1, FS_Subset, FS_CardinalityType
<1>3. Cardinality(A \cup X) <= Cardinality(A) + 1 /\ Cardinality(A \cup X) \in Nat
  <2>1. CASE X = {}
    <3>1. A \cup X = A
      BY <2>1
    <3> QED BY <1>2, <3>1
  <2>2. CASE \E x : X = {x}
    <3>1. PICK x : X = {x}
      BY <2>2
    <3>2. Cardinality(A \cup {x}) \in {Cardinality(A), Cardinality(A) + 1}
      BY FS_AddElement
    <3> QED BY <1>2, <3>1, <3>2
  <2> QED BY <2>1, <2>2
<1> QED BY <1>2, <1>3

\* A member that is added was one about to be.
LEMMA LetKeysBounded ==
    ASSUME KeysBounded, TierInv', Crowd', NEW r \in Requests, NEW t \in Tiers, Let(r, t)
    PROVE  KeysBounded'
<1> DEFINE K == Key(r, t)
           X == IF left[r] > 0 THEN {Slot(r)} ELSE {}
<1>1. /\ Adding(r, t) /\ TierInv /\ Crowd /\ EngineTypeOK
      /\ zset' = [zset EXCEPT ![K] = @ \cup X]
      /\ stage' = [stage EXCEPT ![r] = "tiers"] /\ todo' = [todo EXCEPT ![r] = @ \ {t}]
      /\ cred' = cred /\ model' = model
  BY DEF KeysBounded, TierInv, Let, Move, request
<1>2. K \in Keys /\ K[1] = t
  BY <1>1, LimitOfKey DEF Key
<1>3. \A x \in X : x.by = r
  BY <1>1, NewSlot
<1>4. X = {} \/ \E x : X = {x}
  OBVIOUS
<1>5. r \in Adders(K)
  BY <1>1 DEF Adders
<1> HIDE DEF K, X
<1>6. \A k \in Keys : zset'[k] = IF k = K THEN zset[k] \cup X ELSE zset[k]
  BY <1>1, <1>2 DEF EngineTypeOK
<1>7. /\ \A k \in Keys : Adders(k)' \subseteq Adders(k)
      /\ \A c \in Credentials : OwnAdders(c)' \subseteq OwnAdders(c)
  BY <1>1, AddersFewer DEF EngineTypeOK
<1>8. \A k : r \notin Adders(k)'
  BY <1>1 DEF EngineTypeOK, Adders, Adding
<1>9. ASSUME NEW k \in Keys PROVE KeyRoom(k)'
  <2> SUFFICES ASSUME zset'[k] # {} \/ Adders(k)' # {}
               PROVE  \E n \in Limits(k) : Cardinality(zset'[k]) + Cardinality(Adders(k)')
                                             <= n - 1 + Racers(k[1])
    BY DEF KeyRoom, Limits, Racers
  <2>1. /\ IsFiniteSet(zset[k]) /\ IsFiniteSet(Adders(k))
        /\ Cardinality(zset[k]) \in Nat /\ Cardinality(Adders(k)) \in Nat
    BY <1>1, CountsAreNumbers
  <2>2. zset[k] # {} \/ Adders(k) # {}
    BY <1>5, <1>6, <1>7
  <2>3. PICK n \in Limits(k) :
          Cardinality(zset[k]) + Cardinality(Adders(k)) <= n - 1 + Racers(k[1])
    BY <2>2 DEF KeysBounded, KeyRoom
  <2>4. n \in Nat /\ Racers(k[1]) \in Nat
    BY LimitsAreNumbers, RacersAreNumbers, KeysHaveTiers
  <2>5. /\ Cardinality(zset'[k]) + Cardinality(Adders(k)')
             <= Cardinality(zset[k]) + Cardinality(Adders(k))
        /\ Cardinality(zset'[k]) \in Nat /\ Cardinality(Adders(k)') \in Nat
    <3>1. CASE k = K
      <4>1. Adders(k)' \subseteq Adders(k) \ {r} /\ zset'[k] = zset[k] \cup X
        BY <1>6, <1>7, <1>8, <3>1
      <4>2. r \in Adders(k)
        BY <1>5, <3>1
      <4>3. /\ Cardinality(zset[k] \cup X) + Cardinality(Adders(k)')
                  <= Cardinality(zset[k]) + Cardinality(Adders(k))
            /\ Cardinality(zset[k] \cup X) \in Nat /\ Cardinality(Adders(k)') \in Nat
        BY <1>4, <2>1, <4>1, <4>2, SumStays
      <4> QED BY <4>1, <4>3
    <3>2. CASE k # K
      <4>1. zset'[k] = zset[k] /\ Adders(k)' \subseteq Adders(k)
        BY <1>6, <1>7, <3>2
      <4>2. Cardinality(Adders(k)') <= Cardinality(Adders(k)) /\ Cardinality(Adders(k)') \in Nat
        BY <2>1, <4>1, FS_Subset, FS_CardinalityType
      <4> QED BY <2>1, <4>1, <4>2
    <3> QED BY <3>1, <3>2
  <2>6. Cardinality(zset'[k]) + Cardinality(Adders(k)') <= n - 1 + Racers(k[1])
    BY <2>1, <2>3, <2>4, <2>5
  <2> QED BY <2>6
<1>10. ASSUME NEW c \in Credentials PROVE OwnRoom(c)'
  <2>1. /\ UserKey(c) \in Keys /\ Cardinality(Own(c)) \in Nat /\ IsFiniteSet(Own(c))
        /\ IsFiniteSet(OwnAdders(c)) /\ Cardinality(OwnAdders(c)) \in Nat
        /\ Rps[c] \in Nat /\ Racers("user") \in Nat
    BY <1>1, CountsAreNumbers, RacersAreNumbers, TierNames, RateLimiterAssumption
       DEF RateLimiterAssumption
  <2>2. Cardinality(Own(c)) + Cardinality(OwnAdders(c)) <= Rps[c] - 1 + Racers("user")
    BY DEF KeysBounded, OwnRoom
  <2>3. /\ Cardinality(Own(c)') + Cardinality(OwnAdders(c)')
             <= Cardinality(Own(c)) + Cardinality(OwnAdders(c))
        /\ Cardinality(Own(c)') \in Nat /\ Cardinality(OwnAdders(c)') \in Nat
    <3>1. CASE UserKey(c) = K /\ cred[r] = c
      <4>1. Own(c)' = Own(c) \cup X
        BY <1>1, <1>3, <1>6, <2>1, <3>1 DEF Own, UserKey
      <4>2. r \in OwnAdders(c) /\ OwnAdders(c)' \subseteq OwnAdders(c) \ {r}
        BY <1>5, <1>7, <1>8, <3>1 DEF OwnAdders, UserKey
      <4>3. /\ Cardinality(Own(c) \cup X) + Cardinality(OwnAdders(c)')
                  <= Cardinality(Own(c)) + Cardinality(OwnAdders(c))
            /\ Cardinality(Own(c) \cup X) \in Nat /\ Cardinality(OwnAdders(c)') \in Nat
        BY <1>4, <2>1, <4>2, SumStays
      <4> QED BY <4>1, <4>3
    <3>2. CASE ~ (UserKey(c) = K /\ cred[r] = c)
      <4>1. Own(c)' = Own(c)
        BY <1>1, <1>3, <1>6, <2>1, <3>2 DEF Own, UserKey
      <4>2. /\ Cardinality(OwnAdders(c)') <= Cardinality(OwnAdders(c))
            /\ Cardinality(OwnAdders(c)') \in Nat
        BY <1>7, <2>1, FS_Subset, FS_CardinalityType
      <4> QED BY <2>1, <4>1, <4>2
    <3> QED BY <3>1, <3>2
  <2>4. Cardinality(Own(c)') + Cardinality(OwnAdders(c)') <= Rps[c] - 1 + Racers("user")
    BY <2>1, <2>2, <2>3
  <2> QED BY <2>4 DEF OwnRoom, Racers
<1> QED BY <1>9, <1>10 DEF KeysBounded, Keys

\* Time only lets members go.
LEMMA TickKeysBounded ==
    ASSUME KeysBounded, TierInv', Crowd', Tick
    PROVE  KeysBounded'
<1>1. /\ zset' = [k \in Keys |-> Later(zset[k])]
      /\ UNCHANGED <<stage, todo, cred, model>> /\ TierInv
  BY DEF Tick, request, KeysBounded
<1>2. \A k \in Keys : zset[k] \subseteq Slots /\ IsFiniteSet(zset[k])
  BY <1>1 DEF TierInv, EngineTypeOK, Members
<1>3. \A S : S \subseteq Slots /\ IsFiniteSet(S) => Cardinality(Later(S)) <= Cardinality(S)
  BY LaterFewer
<1>4. ASSUME NEW k \in Keys
      PROVE  Cardinality(zset'[k]) <= Cardinality(zset[k]) /\ (zset'[k] # {} => zset[k] # {})
  BY <1>1, <1>2, <1>3 DEF Later
<1>5. ASSUME NEW c \in Credentials PROVE Cardinality(Own(c)') <= Cardinality(Own(c))
  <2> DEFINE U == UserKey(c)
             S == {m \in zset[U] : cred[m.by] = c}
  <2>1. U \in Keys
    BY DEF UserKey, Keys
  <2>2. Own(c)' = Later(S)
    <3>1. \A m \in zset[U] : Older(m).by = m.by
      BY <1>2, <2>1 DEF Slots, Older
    <3>2. zset'[U] = {Older(m) : m \in {n \in zset[U] : n.left > 1}}
      BY <1>1, <2>1 DEF Later, Older
    <3>3. Later(S) = {Older(m) : m \in {n \in S : n.left > 1}}
      BY DEF Later, Older
    <3>4. Own(c)' = {m \in zset'[U] : cred[m.by] = c}
      BY <1>1 DEF Own, UserKey
    <3> QED BY <3>1, <3>2, <3>3, <3>4
  <2>3. S \subseteq Slots /\ IsFiniteSet(S)
    <3>1. S \subseteq zset[U]
      OBVIOUS
    <3> HIDE DEF S
    <3> QED BY <1>2, <2>1, <3>1, FS_Subset
  <2>4. Own(c) = S
    BY DEF Own
  <2> HIDE DEF S
  <2> QED BY <1>3, <2>2, <2>3, <2>4
<1>6. /\ \A k \in Keys : Adders(k)' \subseteq Adders(k)
      /\ \A c \in Credentials : OwnAdders(c)' \subseteq OwnAdders(c)
  BY <1>1, AddersFewer
<1> QED BY <1>4, <1>5, <1>6, FewerStays

LEMMA NextKeysBounded == ASSUME KeysBounded, [EngineNext]_engine PROVE KeysBounded'
<1>0. TierInv /\ EngineTypeOK /\ Crowd /\ TierInv' /\ Crowd'
  BY NextTierInv, NextCrowd DEF KeysBounded, TierInv
<1>1. ASSUME NEW r \in Requests, NEW t \in Tiers, Find(r, t) \/ Let(r, t) PROVE KeysBounded'
  BY <1>0, <1>1, FindKeysBounded, LetKeysBounded
<1>2. CASE Tick
  BY <1>0, <1>2, TickKeysBounded
<1>3. CASE \/ UNCHANGED engine
           \/ \E r \in Requests :
                \/ \E c \in Credentials, m \in Models : Receive(r, c, m)
                \/ \E t \in Tiers : Block(r, t)
                \/ Passed(r) \/ Fail(r) \/ QuotaExceeded(r) \/ ChatHit(r) \/ ChatMiss(r) \/ Answered(r)
  <2>1. /\ zset' = zset /\ \A s \in Requests : stage[s] # "idle" => cred'[s] = cred[s]
        /\ \A s \in Requests : stage'[s] = "adding" =>
             /\ stage[s] = "adding" /\ todo'[s] = todo[s]
             /\ cred'[s] = cred[s] /\ model'[s] = model[s]
    <3>1. CASE UNCHANGED engine
      BY <3>1 DEF engine, request
    <3>2. ASSUME NEW r \in Requests, NEW c \in Credentials, NEW m \in Models, Receive(r, c, m)
          PROVE  /\ zset' = zset /\ \A s \in Requests : stage[s] # "idle" => cred'[s] = cred[s]
                 /\ \A s \in Requests : stage'[s] = "adding" =>
                      /\ stage[s] = "adding" /\ todo'[s] = todo[s]
                      /\ cred'[s] = cred[s] /\ model'[s] = model[s]
      BY <1>0, <3>2 DEF Receive, Start, Move, EngineTypeOK
    <3>3. ASSUME NEW r \in Requests, ChatMiss(r)
          PROVE  /\ zset' = zset /\ cred' = cred
                 /\ \A s \in Requests : stage'[s] = "adding" =>
                      stage[s] = "adding" /\ todo'[s] = todo[s] /\ model'[s] = model[s]
      BY <1>0, <3>3 DEF ChatMiss, Start, Move, request, EngineTypeOK
    <3>4. ASSUME NEW r \in Requests,
                 \/ \E t \in Tiers : Block(r, t)
                 \/ Passed(r) \/ Fail(r) \/ QuotaExceeded(r) \/ ChatHit(r) \/ Answered(r)
          PROVE  /\ zset' = zset /\ cred' = cred /\ model' = model /\ todo' = todo
                 /\ \A s \in Requests : stage'[s] = "adding" => stage[s] = "adding"
      <4>1. /\ zset' = zset /\ cred' = cred /\ model' = model /\ todo' = todo
            /\ \E l \in {"admitted", "model", "answered", "rejected", "error"} :
                 stage' = [stage EXCEPT ![r] = l]
        BY <3>4 DEF Block, Passed, Fail, QuotaExceeded, ChatHit, Answered, AfterPass, Move, request
      <4> QED BY <1>0, <4>1 DEF EngineTypeOK
    <3> QED BY <1>3, <3>1, <3>2, <3>3, <3>4
  <2>2. \A k \in Keys : Cardinality(zset'[k]) <= Cardinality(zset[k])
    BY <1>0, <2>1, CountsAreNumbers
  <2>3. ASSUME NEW c \in Credentials PROVE Cardinality(Own(c)') <= Cardinality(Own(c))
    <3>1. \A m \in zset[UserKey(c)] : cred'[m.by] = cred[m.by]
      BY <1>0, <2>1, SettledMembers, CountsAreNumbers
    <3>2. Own(c)' = Own(c)
      BY <2>1, <3>1 DEF Own, UserKey
    <3> QED BY <1>0, <3>2, CountsAreNumbers
  <2> QED BY <1>0, <2>1, <2>2, <2>3, AddersFewer, FewerStays
<1> QED BY <1>1, <1>2, <1>3 DEF EngineNext

\* However requests interleave, no key holds more in a window than the largest limit
\* of those who use it and the others that race for its last place, nor more of one
\* credential than its own plan and these of its user's key.
THEOREM WindowsBounded == EngineSpec => []WindowBound
<1>1. ASSUME KeysBounded PROVE WindowBound
  <2>0. TierInv /\ Crowd
    BY <1>1 DEF KeysBounded
  <2>1. ASSUME NEW k \in Keys, zset[k] # {}
        PROVE  \E n \in Limits(k) : Cardinality(zset[k]) <= n - 1 + Racers(k[1])
    <3>1. PICK n \in Limits(k) :
            Cardinality(zset[k]) + Cardinality(Adders(k)) <= n - 1 + Racers(k[1])
      BY <1>1, <2>1 DEF KeysBounded, KeyRoom
    <3>2. n \in Nat /\ Racers(k[1]) \in Nat
      BY LimitsAreNumbers, RacersAreNumbers, KeysHaveTiers
    <3>3. Cardinality(zset[k]) \in Nat /\ Cardinality(Adders(k)) \in Nat
      BY <2>0, CountsAreNumbers
    <3>4. Cardinality(zset[k]) <= n - 1 + Racers(k[1])
      BY <3>1, <3>2, <3>3
    <3> QED BY <3>4
  <2>2. ASSUME NEW c \in Credentials
        PROVE  Cardinality({m \in zset[<<"user", UserOf[c]>>] : cred[m.by] = c})
                 <= Rps[c] - 1 + Racers("user")
    <3>1. Cardinality(Own(c)) + Cardinality(OwnAdders(c)) <= Rps[c] - 1 + Racers("user")
      BY <1>1 DEF KeysBounded, OwnRoom
    <3>2. /\ Cardinality(Own(c)) \in Nat /\ Cardinality(OwnAdders(c)) \in Nat
          /\ Rps[c] \in Nat /\ Racers("user") \in Nat
      BY <2>0, CountsAreNumbers, RacersAreNumbers, TierNames, RateLimiterAssumption
         DEF RateLimiterAssumption
    <3>3. Cardinality(Own(c)) <= Rps[c] - 1 + Racers("user")
      BY <3>1, <3>2
    <3> QED BY <3>3 DEF Own, UserKey
  <2> QED BY <2>1, <2>2 DEF WindowBound
<1>2. KeysBounded /\ [EngineNext]_engine => KeysBounded'
  BY NextKeysBounded
<1> QED BY <1>1, <1>2, InitKeysBounded, PTL DEF EngineSpec

-----------------------------------------------------------------------------
(* Half the rate *)

\* A request has at most two members of a key, one of a key of a single pass.
LEMMA Holders ==
    ASSUME TierInv, NEW k \in Keys
    PROVE  LET held == Cardinality(zset[k])
               holders == Cardinality({m.by : m \in zset[k]})
           IN /\ held \in Nat /\ holders \in Nat
              /\ held <= 2 * holders
              /\ k[1] \in {"org", "apikey", "model"} => held <= holders
<1> DEFINE Z == zset[k]
           H == {m.by : m \in Z}
           f == [m \in Z |-> m.by]
           g == [m \in Z |-> <<m.by, m.pass>>]
<1>1. /\ Z \subseteq Slots /\ IsFiniteSet(Z)
      /\ \A m \in Z : Member(k, m)
  BY DEF TierInv, EngineTypeOK, Members
<1>2. \A m \in Z : m.pass \in {1, 2}
  BY <1>1 DEF Slots
<1>3. \A m, n \in Z : m.by = n.by /\ m.pass = n.pass => m = n
  BY <1>1 DEF Member
<1>4. \A m \in Z : /\ k[1] \in {"org", "apikey"} => m.pass = 1
                   /\ k[1] = "model" => m.pass = 2
  BY <1>1 DEF Member
<1>5. f \in Surjection(Z, H)
  BY DEF Surjection
<1>6. g \in Injection(Z, H \X {1, 2})
  <2>1. g \in [Z -> H \X {1, 2}]
    BY <1>2
  <2>2. \A m, n \in Z : g[m] = g[n] => m = n
    BY <1>3
  <2> HIDE DEF g
  <2> QED BY <2>1, <2>2 DEF Injection, IsInjective
<1>7. ASSUME k[1] \in {"org", "apikey", "model"} PROVE f \in Injection(Z, H)
  <2>1. f \in [Z -> H]
    OBVIOUS
  <2>2. \A m, n \in Z : f[m] = f[n] => m = n
    BY <1>3, <1>4, <1>7
  <2> HIDE DEF f
  <2> QED BY <2>1, <2>2 DEF Injection, IsInjective
<1> HIDE DEF Z, H, f, g
<1>8. IsFiniteSet(H) /\ Cardinality(Z) \in Nat /\ Cardinality(H) \in Nat
  BY <1>1, <1>5, FS_Surjection, FS_CardinalityType
<1>9. IsFiniteSet({1, 2}) /\ Cardinality({1, 2}) = 2
  <2>1. IsFiniteSet({1}) /\ Cardinality({1}) = 1
    BY FS_Singleton
  <2>2. {1} \cup {2} = {1, 2} /\ 2 \notin {1}
    OBVIOUS
  <2> QED BY <2>1, <2>2, FS_AddElement
<1>10. IsFiniteSet(H \X {1, 2}) /\ Cardinality(H \X {1, 2}) = Cardinality(H) * 2
  BY <1>8, <1>9, FS_Product
<1>11. Cardinality(Z) <= Cardinality(H) * 2
  BY <1>6, <1>10, FS_Injection
<1>12. k[1] \in {"org", "apikey", "model"} => Cardinality(Z) <= Cardinality(H)
  BY <1>7, <1>8, FS_Injection
<1>13. Cardinality(H) * 2 = 2 * Cardinality(H)
  BY <1>8
<1> QED BY <1>8, <1>11, <1>12, <1>13 DEF Z, H

\* A refused request is one that finds its tier full.
LEMMA RefusedFull ==
    ASSUME TierInv, [EngineNext]_engine, NEW r \in Requests, NEW t \in Tiers,
           At(r, t), stage'[r] # stage[r], stats'.limited > stats.limited
    PROVE  Full(r, t)
<1>1. EngineTypeOK /\ stage[r] = "tiers" /\ stats \in [requests : Nat, limited : Nat]
  BY DEF TierInv, EngineTypeOK, At
<1>2. stats' # stats
  BY <1>1
<1>3. ~ Count("requests")
  BY <1>1 DEF Count
<1>4. PICK s \in Requests : QuotaExceeded(s) \/ \E u \in Tiers : Block(s, u)
  BY <1>2, <1>3 DEF EngineNext, engine, Receive, Find, Let, Passed, Fail, ChatHit, ChatMiss,
       Answered, Tick
<1>5. \A l : Move(s, l) => s = r
  BY <1>1 DEF EngineTypeOK, Move
<1>6. s = r
  BY <1>4, <1>5 DEF QuotaExceeded, Block, AfterPass
<1>7. PICK u \in Tiers : Block(r, u)
  BY <1>1, <1>4, <1>6 DEF QuotaExceeded
<1>8. u = t
  BY <1>1, <1>7, OneNext DEF Block, At
<1> QED BY <1>7, <1>8 DEF Block

\* A request is refused by the gateway, the IP or the user tier only after half the
\* limit's requests, by any other tier only after as many as its limit.
THEOREM RateHalved == EngineSpec => HalfTheRate
<1>1. ASSUME TierInv, [EngineNext]_engine, NEW r \in Requests, NEW t \in Tiers,
             At(r, t), stage'[r] # stage[r], stats'.limited > stats.limited
      PROVE  LET holders == Cardinality({m.by : m \in zset[Key(r, t)]})
             IN (IF t \in {"gateway", "ip", "user"} THEN 2 * holders ELSE holders) >= Limit(r, t)
  <2> DEFINE held == Cardinality(zset[Key(r, t)])
             holders == Cardinality({m.by : m \in zset[Key(r, t)]})
  <2>1. Key(r, t) \in Keys /\ Limit(r, t) \in Nat
    BY <1>1, LimitOfKey, LimitsAreNumbers
  <2>2. Key(r, t)[1] = t
    BY DEF Key
  <2>3. held >= Limit(r, t)
    BY <1>1, RefusedFull DEF Full
  <2>4. /\ held \in Nat /\ holders \in Nat /\ held <= 2 * holders
        /\ t \in {"org", "apikey", "model"} => held <= holders
    BY <1>1, <2>1, <2>2, Holders
  <2> HIDE DEF held, holders
  <2>5. (IF t \in {"gateway", "ip", "user"} THEN 2 * holders ELSE holders) >= Limit(r, t)
    BY <2>1, <2>3, <2>4, TierNames
  <2> QED BY <2>5 DEF holders
<1>2. TierInv /\ [EngineNext]_engine =>
        [\A r \in Requests, t \in Tiers :
           At(r, t) /\ stage'[r] # stage[r] /\ stats'.limited > stats.limited =>
             LET holders == Cardinality({m.by : m \in zset[Key(r, t)]})
             IN (IF t \in {"gateway", "ip", "user"} THEN 2 * holders ELSE holders) >= Limit(r, t)]_engine
  BY <1>1
<1> QED BY <1>2, TierInvariant, PTL DEF EngineSpec, HalfTheRate
=============================================================================
