---------------------------- MODULE ChatProofs ----------------------------
(***************************************************************************)
(* Proofs about the two parts of a chat: its history (Conversation), for   *)
(* any number of chats and threads, any cap and any bound on turns and     *)
(* faults, and the cached answers (ResponseCache), for any requests, keys  *)
(* and TTLs.                                                               *)
(***************************************************************************)
EXTENDS Conversation, ResponseCache, SequenceTheorems, TLAPS

Messages == [role : {"user", "assistant"}, turn : 1 .. MaxTurns]
Awaits == {"idle", "wait"}

-----------------------------------------------------------------------------
(* Histories *)

\* What is kept of a list trimmed to n messages.
LEMMA Trimmed ==
    ASSUME NEW h \in Seq(Messages), NEW n \in Nat,
           NEW g, g = SubSeq(h, 1, IF Len(h) > n THEN n ELSE Len(h))
    PROVE  /\ g \in Seq(Messages) /\ Len(g) \in Nat /\ Len(g) <= n /\ Len(g) <= Len(h)
           /\ n > 0 /\ h # <<>> => g # <<>>
           /\ \A i \in 1 .. Len(g) : g[i] = h[i]
  <1>1. Len(h) \in Nat /\ \A i \in 1 .. Len(h) : h[i] \in Messages
      BY LenProperties, ElementOfSeq
  <1> DEFINE m == IF Len(h) > n THEN n ELSE Len(h)
  <1>2. m \in Nat /\ m <= n /\ m <= Len(h) /\ g = SubSeq(h, 1, m)
      BY <1>1
  <1>3. n > 0 /\ h # <<>> => m > 0
      BY <1>1, EmptySeq
  <1> HIDE DEF m
  <1>4. /\ SubSeq(h, 1, m) \in Seq(Messages)
        /\ Len(SubSeq(h, 1, m)) = IF 1 <= m THEN m - 1 + 1 ELSE 0
        /\ \A i \in 1 .. m - 1 + 1 : SubSeq(h, 1, m)[i] = h[1 + i - 1]
    <2>1. \A i \in 1 .. m : h[i] \in Messages
        BY <1>1, <1>2
    <2>2. QED
        BY <1>2, <2>1, SubSeqProperties
  <1>5. Len(g) = m
      BY <1>2, <1>4
  <1>6. ASSUME NEW i \in 1 .. m PROVE g[i] = h[i]
    <2>1. i \in 1 .. m - 1 + 1 /\ 1 + i - 1 = i
        BY <1>2
    <2>2. QED
        BY <1>2, <1>4, <2>1
  <1>7. n > 0 /\ h # <<>> => g # <<>>
    <2>1. Len(<<>>) = 0
        BY EmptySeq
    <2>2. QED
        BY <1>2, <1>3, <1>5, <2>1
  <1>8. QED
      BY <1>2, <1>4, <1>5, <1>6, <1>7

\* A message in front of a list.
LEMMA Pushed ==
    ASSUME NEW h \in Seq(Messages), NEW msg \in Messages, NEW g, g = <<msg>> \o h
    PROVE  /\ g \in Seq(Messages) /\ Len(g) = Len(h) + 1 /\ Len(h) \in Nat /\ g[1] = msg
           /\ \A i \in 2 .. Len(g) : g[i] = h[i - 1]
  <1>1. <<msg>> \in Seq(Messages) /\ Len(<<msg>>) = 1 /\ <<msg>>[1] = msg
      OBVIOUS
  <1>2. Len(h) \in Nat
      BY LenProperties
  <1>3. /\ g \in Seq(Messages) /\ Len(g) = 1 + Len(h)
        /\ \A i \in 1 .. 1 + Len(h) : g[i] = IF i <= 1 THEN <<msg>>[i] ELSE h[i - 1]
      BY <1>1, ConcatProperties
  <1>4. QED
      BY <1>1, <1>2, <1>3

\* From position k on, each question follows its answer, and each answer but the
\* oldest is followed by its question.
Pair(h, i, j) == h[i] = Answer(h[j].turn) /\ h[j] = Question(h[i].turn)
Whole(h, k) ==
    \A i \in k .. Len(h) :
        /\ h[i].role = "user" => i > k /\ Pair(h, i - 1, i)
        /\ h[i].role = "assistant" /\ i < Len(h) => Pair(h, i, i + 1)

LEMMA WholeTrimmed ==
    ASSUME NEW h, NEW g, Len(h) \in Nat, Len(g) \in Nat, Len(g) <= Len(h),
           \A i \in 1 .. Len(g) : g[i] = h[i],
           NEW k \in {1, 2}, Whole(h, k)
    PROVE  Whole(g, k)
  <1> SUFFICES ASSUME NEW i \in k .. Len(g)
               PROVE  /\ g[i].role = "user" => i > k /\ Pair(g, i - 1, i)
                      /\ g[i].role = "assistant" /\ i < Len(g) => Pair(g, i, i + 1)
      BY DEF Whole
  <1>1. i \in k .. Len(h) /\ g[i] = h[i] /\ (i < Len(g) => i < Len(h))
      OBVIOUS
  <1>2. CASE g[i].role = "user"
    <2>1. i > k /\ Pair(h, i - 1, i)
        BY <1>1, <1>2 DEF Whole
    <2>2. g[i - 1] = h[i - 1]
        BY <2>1
    <2>3. QED
        BY <1>1, <1>2, <2>1, <2>2 DEF Pair
  <1>3. CASE g[i].role = "assistant" /\ i < Len(g)
    <2>1. Pair(h, i, i + 1)
        BY <1>1, <1>3 DEF Whole
    <2>2. g[i + 1] = h[i + 1]
        BY <1>3
    <2>3. QED
        BY <1>1, <1>3, <2>1, <2>2 DEF Pair
  <1>4. QED
      BY <1>2, <1>3

\* A question in front of a whole history, and its answer in front of both.
LEMMA QuestionPushed ==
    ASSUME NEW h, NEW g, Len(h) \in Nat, Len(g) = Len(h) + 1,
           \A i \in 2 .. Len(g) : g[i] = h[i - 1], Whole(h, 1)
    PROVE  Whole(g, 2)
  <1> SUFFICES ASSUME NEW i \in 2 .. Len(g)
               PROVE  /\ g[i].role = "user" => i > 2 /\ Pair(g, i - 1, i)
                      /\ g[i].role = "assistant" /\ i < Len(g) => Pair(g, i, i + 1)
      BY DEF Whole
  <1>1. i - 1 \in 1 .. Len(h) /\ g[i] = h[i - 1] /\ (i < Len(g) => i - 1 < Len(h))
      OBVIOUS
  <1>2. CASE g[i].role = "user"
    <2>1. i - 1 > 1 /\ Pair(h, i - 1 - 1, i - 1)
        BY <1>1, <1>2 DEF Whole
    <2>2. i - 1 \in 2 .. Len(g) /\ i > 2
        BY <1>1, <2>1
    <2>3. g[i - 1] = h[i - 1 - 1]
        BY <2>2
    <2>4. QED
        BY <1>1, <1>2, <2>1, <2>2, <2>3 DEF Pair
  <1>3. CASE g[i].role = "assistant" /\ i < Len(g)
    <2>1. Pair(h, i - 1, i - 1 + 1)
        BY <1>1, <1>3 DEF Whole
    <2>2. i + 1 \in 2 .. Len(g) /\ i + 1 - 1 = i /\ i - 1 + 1 = i
        BY <1>3
    <2>3. g[i + 1] = h[i]
        BY <2>2
    <2>4. QED
        BY <1>1, <1>3, <2>1, <2>2, <2>3 DEF Pair
  <1>4. QED
      BY <1>2, <1>3

LEMMA AnswerPushed ==
    ASSUME NEW h, NEW g, NEW n, Len(h) \in Nat, Len(g) = Len(h) + 1,
           g[1] = Answer(n), \A i \in 2 .. Len(g) : g[i] = h[i - 1],
           Len(h) = 0 \/ (h[1] = Question(n) /\ Whole(h, 2))
    PROVE  Whole(g, 1)
  <1> SUFFICES ASSUME NEW i \in 1 .. Len(g)
               PROVE  /\ g[i].role = "user" => i > 1 /\ Pair(g, i - 1, i)
                      /\ g[i].role = "assistant" /\ i < Len(g) => Pair(g, i, i + 1)
      BY DEF Whole
  <1>1. g[1].role = "assistant" /\ Question(n).role = "user" /\ Question(n).turn = n /\ Answer(n).turn = n
      BY DEF Answer, Question
  <1>2. Len(g) > 1 => h[1] = Question(n) /\ Whole(h, 2) /\ g[2] = Question(n)
    <2>1. Len(g) > 1 => Len(h) # 0 /\ 2 \in 2 .. Len(g) /\ 2 - 1 = 1
        OBVIOUS
    <2>2. QED
        BY <2>1
  <1>3. Len(g) > 1 => Pair(g, 1, 2)
      BY <1>1, <1>2 DEF Pair
  <1>4. CASE i = 1
      BY <1>1, <1>3, <1>4
  <1>5. CASE i = 2
      BY <1>1, <1>2, <1>3, <1>5
  <1>6. CASE i > 2
    <2>1. /\ i - 1 \in 2 .. Len(h) /\ Whole(h, 2) /\ g[i] = h[i - 1] /\ g[i - 1] = h[i - 1 - 1]
          /\ i < Len(g) => i - 1 < Len(h)
      <3>1. i - 1 \in 2 .. Len(h) /\ i \in 2 .. Len(g) /\ i - 1 \in 2 .. Len(g) /\ Len(g) > 1
          BY <1>6
      <3>2. QED
          BY <1>2, <3>1
    <2>2. CASE g[i].role = "user"
      <3>1. Pair(h, i - 1 - 1, i - 1)
          BY <2>1, <2>2 DEF Whole
      <3>2. QED
          BY <1>6, <2>1, <2>2, <3>1, <1>1 DEF Pair
    <2>3. CASE g[i].role = "assistant" /\ i < Len(g)
      <3>1. Pair(h, i - 1, i - 1 + 1)
          BY <2>1, <2>3 DEF Whole
      <3>2. i + 1 \in 2 .. Len(g) /\ i + 1 - 1 = i /\ i - 1 + 1 = i
          BY <2>3
      <3>3. g[i + 1] = h[i]
          BY <3>2
      <3>4. QED
          BY <2>1, <2>3, <3>1, <3>2, <3>3 DEF Pair
    <2>4. QED
        BY <2>2, <2>3
  <1>7. QED
      BY <1>4, <1>5, <1>6

-----------------------------------------------------------------------------
(* The steps *)

Free == ChatSteps \ Storing

\* At most one chat is between two commands: a coroutine runs until it awaits.
Solo ==
    \A c, d \in Chats : c # d /\ pc[c] \notin Awaits => pc[d] \in Awaits

\* What the steps do, as far as the properties care.
Elsewhere(c) ==
    /\ Runs(c) /\ pc[c] \in Free
    /\ \E m \in Free \cup {"user"} : pc' = [pc EXCEPT ![c] = m] /\ (m # "idle" => turn'[c] > 0)
    /\ turn' \in [Chats -> 0 .. MaxTurns] /\ \A d \in Chats \ {c} : turn'[d] = turn[d]
    /\ UNCHANGED <<history, expires, faults>>
Pushes(c) ==
    \/ Lpush(c, "user", "trim user", Question(turn[c]))
    \/ Lpush(c, "assistant", "trim assistant", Answer(turn[c]))
Trims(c) == Ltrim(c, "trim user", "assistant") \/ Ltrim(c, "trim assistant", "expire")
Emptied == history' = <<>> /\ expires' = FALSE
Manages(t) ==
    /\ \E m \in ThreadSteps : pc' = [pc EXCEPT ![t] = m]
    /\ UNCHANGED <<turn, faults>>
    /\ UNCHANGED <<history, expires>> \/ Emptied
Stops ==
    /\ faults' = faults + 1 /\ faults < MaxFaults
    /\ pc' \in [Chats \cup Threads -> ChatSteps \cup ThreadSteps]
    /\ \A p \in Chats \cup Threads : pc'[p] = pc[p] \/ pc'[p] = "idle"
    /\ UNCHANGED <<history, expires, turn>>
Lapses == Emptied /\ UNCHANGED <<pc, turn, faults>>
Nothing == UNCHANGED <<history, expires, pc, turn, faults>>

LEMMA StepKinds ==
    ASSUME TypeOK, [Next]_vars
    PROVE  \/ \E c \in Chats : Elsewhere(c) \/ Pushes(c) \/ Trims(c) \/ Expire(c)
           \/ \E t \in Threads : Manages(t)
           \/ Stops \/ Lapses \/ Nothing
  <1> DEFINE Goal == \/ \E c \in Chats : Elsewhere(c) \/ Pushes(c) \/ Trims(c) \/ Expire(c)
                     \/ \E t \in Threads : Manages(t)
                     \/ Stops \/ Lapses \/ Nothing
  <1>0. /\ turn \in [Chats -> 0 .. MaxTurns] /\ turns \in 0 .. MaxTurns /\ MaxTurns \in Nat
        /\ \A c \in Chats : pc[c] # "idle" => turn[c] > 0
      BY ConversationAssumption DEF TypeOK
  <1>1. ASSUME NEW c \in Chats, Chat(c) PROVE Goal
    <2>1. CASE Ask(c)
      <3>1. /\ Runs(c) /\ pc[c] = "idle" /\ pc' = [pc EXCEPT ![c] = "owns"]
            /\ UNCHANGED <<history, expires, faults>>
          BY <2>1 DEF Ask, From, list
      <3>2. turn' = [turn EXCEPT ![c] = turns + 1] /\ turns + 1 \in 1 .. MaxTurns
          BY <1>0, <2>1 DEF Ask
      <3>3. /\ turn' \in [Chats -> 0 .. MaxTurns] /\ turn'[c] > 0
            /\ \A d \in Chats \ {c} : turn'[d] = turn[d]
          BY <1>0, <3>2
      <3>4. Elsewhere(c)
          BY <3>1, <3>3 DEF Elsewhere, Free, ChatSteps, Storing
      <3>5. QED
          BY <3>4
    <2>2. ASSUME Owns(c) \/ Lookup(c) \/ Answered(c) \/ (Runs(c) /\ (LinkIndex(c, "meta") \/ LinkMeta(c, "lookup")))
          PROVE  Goal
      <3>1. Runs(c) /\ UNCHANGED <<history, expires, faults, turn>>
          BY <2>2 DEF Owns, Lookup, Answered, LinkIndex, LinkMeta, list, counters
      <3>2. \E m \in Free \cup {"user"} : pc' = [pc EXCEPT ![c] = m]
          BY <2>2 DEF Owns, Lookup, Answered, LinkIndex, LinkMeta, From, Free, ChatSteps, Storing
      <3>3. pc[c] \in Free /\ pc[c] # "idle"
          BY <2>2 DEF Owns, Lookup, Answered, LinkIndex, LinkMeta, From, Free, ChatSteps, Storing
      <3>4. Elsewhere(c)
          BY <1>0, <3>1, <3>2, <3>3 DEF Elsewhere
      <3>5. QED
          BY <3>4
    <2>3. QED
        BY <1>1, <2>1, <2>2 DEF Chat, Pushes, Trims
  <1>2. ASSUME NEW t \in Threads, Thread(t) PROVE Goal
    <2>1. \E m \in ThreadSteps : pc' = [pc EXCEPT ![t] = m]
        BY <1>2 DEF Thread, Create, LinkIndex, LinkMeta, DeleteBegins, DeleteHistory, DeleteMeta,
                    Unlink, From, ThreadSteps
    <2>2. UNCHANGED <<turn, faults>> /\ (UNCHANGED <<history, expires>> \/ Emptied)
        BY <1>2 DEF Thread, Create, LinkIndex, LinkMeta, DeleteBegins, DeleteHistory, DeleteMeta,
                    Unlink, list, counters, Emptied
    <2>3. QED
        BY <2>1, <2>2 DEF Manages
  <1>3. ASSUME NEW P, Stop(P) PROVE Goal
    <2>1. /\ pc' = [p \in Chats \cup Threads |-> IF p \in P THEN "idle" ELSE pc[p]]
          /\ faults' = faults + 1 /\ faults < MaxFaults /\ UNCHANGED <<history, expires, turn>>
        BY <1>3 DEF Stop, list
    <2>2. pc' \in [Chats \cup Threads -> ChatSteps \cup ThreadSteps]
        BY <2>1 DEF TypeOK, ChatSteps
    <2>3. QED
        BY <2>1, <2>2 DEF Stops
  <1>4. CASE Lapse \/ FlushAll
      BY <1>4 DEF Lapse, FlushAll, Lapses, Emptied, counters
  <1>5. CASE UNCHANGED vars
      BY <1>5 DEF vars, Nothing
  <1>6. QED
      BY <1>1, <1>2, <1>3, <1>4, <1>5 DEF Next, Fail, Crash

\* Where the chats are after a step of one of them.
LEMMA ChatMoves ==
    ASSUME TypeOK, Solo, NEW c \in Chats, Runs(c), NEW m \in ChatSteps, pc' = [pc EXCEPT ![c] = m]
    PROVE  /\ Solo' /\ pc'[c] = m /\ \A d \in Chats \ {c} : pc'[d] = pc[d] /\ pc[d] \in Awaits
           /\ pc' \in [Chats \cup Threads -> ChatSteps \cup ThreadSteps]
           /\ \A t \in Threads : pc'[t] \in ThreadSteps
  <1>1. \A p \in Chats \cup Threads : pc'[p] = IF p = c THEN m ELSE pc[p]
      BY DEF TypeOK
  <1>2. \A d \in Chats \ {c} : pc'[d] = pc[d] /\ pc[d] \in Awaits
      BY <1>1 DEF Runs, Awaits
  <1>3. Solo'
      BY <1>1, <1>2 DEF Solo
  <1>4. QED
      BY <1>1, <1>2, <1>3, ConversationAssumption DEF TypeOK

\* A thread's steps leave the chats where they are.
LEMMA ThreadMoves ==
    ASSUME TypeOK, NEW t \in Threads, NEW m \in ThreadSteps, pc' = [pc EXCEPT ![t] = m]
    PROVE  /\ \A c \in Chats : pc'[c] = pc[c]
           /\ pc' \in [Chats \cup Threads -> ChatSteps \cup ThreadSteps]
           /\ \A u \in Threads : pc'[u] \in ThreadSteps
  BY ConversationAssumption DEF TypeOK

-----------------------------------------------------------------------------
(* Types *)

TypeLists == history \in Seq(Messages) /\ expires \in BOOLEAN
TypeFlags == meta \in BOOLEAN /\ listed \in BOOLEAN /\ created \in BOOLEAN /\ turns \in 0 .. MaxTurns
TypeControl ==
    /\ pc \in [Chats \cup Threads -> ChatSteps \cup ThreadSteps]
    /\ \A c \in Chats : pc[c] \in ChatSteps /\ (pc[c] # "idle" => turn[c] > 0)
    /\ \A t \in Threads : pc[t] \in ThreadSteps
    /\ turn \in [Chats -> 0 .. MaxTurns] /\ faults \in 0 .. MaxFaults

LEMMA TypeParts == TypeOK <=> TypeLists /\ TypeFlags /\ TypeControl /\ \E c \in Chats : Runs(c)
  BY DEF TypeOK, TypeLists, TypeFlags, TypeControl, Messages

LEMMA SomeRuns == ASSUME Solo PROVE \E c \in Chats : Runs(c)
  <1>1. CASE \E c \in Chats : pc[c] \notin Awaits
      BY <1>1 DEF Solo, Runs, Awaits
  <1>2. CASE \A c \in Chats : pc[c] \in Awaits
      BY <1>2, ConversationAssumption DEF Runs, Awaits
  <1>3. QED
      BY <1>1, <1>2

LEMMA NextTypes == TypeOK /\ Solo /\ [Next]_vars => TypeOK' /\ Solo'
  <1> SUFFICES ASSUME TypeOK, Solo, [Next]_vars PROVE TypeLists' /\ TypeFlags' /\ TypeControl' /\ Solo'
    <2>1. TypeOK' <=> (TypeLists /\ TypeFlags /\ TypeControl /\ \E c \in Chats : Runs(c))'
        BY TypeParts, PTL
    <2>2. Solo' => (\E c \in Chats : Runs(c))'
        BY SomeRuns, PTL
    <2>3. QED
        BY <2>1, <2>2
  <1> DEFINE Goal == TypeLists' /\ TypeControl' /\ Solo'
  <1>0. TypeLists /\ TypeFlags /\ TypeControl /\ MaxTurns \in Nat /\ MaxFaults \in Nat
      BY TypeParts, ConversationAssumption
  <1>1. TypeFlags'
    <2>1. ASSUME NEW c \in Chats, Ask(c) PROVE TypeFlags'
      <3>1. turns' \in 0 .. MaxTurns
          BY <1>0, <2>1 DEF Ask, TypeFlags
      <3>2. QED
          BY <1>0, <2>1, <3>1 DEF Ask, TypeFlags
    <2>2. ASSUME NEW p, \E m : LinkIndex(p, m) \/ LinkMeta(p, m) PROVE TypeFlags'
        BY <1>0, <2>2 DEF LinkIndex, LinkMeta, TypeFlags, counters
    <2>3. ASSUME NEW c \in Chats, Owns(c) \/ Lookup(c) \/ Answered(c) \/ Expire(c) \/ Pushes(c) \/ Trims(c)
          PROVE  TypeFlags'
      <3>1. UNCHANGED <<meta, listed, created, turns>>
          BY <2>3 DEF Owns, Lookup, Answered, Expire, Pushes, Trims, Lpush, Ltrim, counters
      <3>2. QED
          BY <1>0, <3>1 DEF TypeFlags
    <2>4. ASSUME NEW t \in Threads, Create(t) \/ DeleteBegins(t) \/ DeleteHistory(t) PROVE TypeFlags'
      <3>1. UNCHANGED <<meta, listed, turns>> /\ (created' \/ UNCHANGED created)
          BY <2>4 DEF Create, DeleteBegins, DeleteHistory, counters
      <3>2. created' \in BOOLEAN
          BY <1>0, <2>4 DEF Create, DeleteBegins, DeleteHistory, counters, TypeFlags
      <3>3. QED
          BY <1>0, <3>1, <3>2 DEF TypeFlags
    <2>5. ASSUME NEW t \in Threads, DeleteMeta(t) \/ Unlink(t) PROVE TypeFlags'
        BY <1>0, <2>5 DEF DeleteMeta, Unlink, TypeFlags, counters
    <2>6. CASE FlushAll
        BY <1>0, <2>6 DEF FlushAll, TypeFlags, counters
    <2>7. ASSUME (\E P : Stop(P)) \/ Lapse \/ UNCHANGED vars PROVE TypeFlags'
      <3>1. UNCHANGED <<meta, listed, created, turns>>
          BY <2>7 DEF Stop, Lapse, vars, counters
      <3>2. QED
          BY <1>0, <3>1 DEF TypeFlags
    <2>8. CASE \E c \in Chats : Chat(c)
        BY <2>1, <2>2, <2>3, <2>8 DEF Chat, Pushes, Trims
    <2>9. CASE \E t \in Threads : Thread(t)
        BY <2>2, <2>4, <2>5, <2>9 DEF Thread
    <2>10. QED
        BY <2>6, <2>7, <2>8, <2>9 DEF Next, Fail, Crash
  <1>2. ASSUME NEW c \in Chats, Elsewhere(c) PROVE Goal
    <2>1. PICK m \in Free \cup {"user"} : pc' = [pc EXCEPT ![c] = m] /\ (m # "idle" => turn'[c] > 0)
        BY <1>2 DEF Elsewhere
    <2>2. m \in ChatSteps
        BY DEF Free, ChatSteps, Storing
    <2>3. /\ Solo' /\ pc'[c] = m /\ \A d \in Chats \ {c} : pc'[d] = pc[d]
          /\ pc' \in [Chats \cup Threads -> ChatSteps \cup ThreadSteps]
          /\ \A t \in Threads : pc'[t] \in ThreadSteps
        BY <1>2, <2>1, <2>2, ChatMoves DEF Elsewhere
    <2>4. QED
        BY <1>0, <1>2, <2>1, <2>2, <2>3 DEF Elsewhere, TypeLists, TypeControl
  <1>3. ASSUME NEW c \in Chats, NEW m \in Storing \cup {"idle"}, pc[c] \in Storing, Runs(c),
               pc' = [pc EXCEPT ![c] = m], UNCHANGED <<turn, faults>>
        PROVE  TypeControl' /\ Solo'
    <2>1. m \in ChatSteps /\ pc[c] # "idle"
        BY <1>3 DEF ChatSteps, Storing
    <2>2. /\ Solo' /\ pc'[c] = m /\ \A d \in Chats \ {c} : pc'[d] = pc[d]
          /\ pc' \in [Chats \cup Threads -> ChatSteps \cup ThreadSteps]
          /\ \A t \in Threads : pc'[t] \in ThreadSteps
        BY <1>3, <2>1, ChatMoves
    <2>3. QED
        BY <1>0, <1>3, <2>1, <2>2 DEF TypeControl
  <1>4. ASSUME NEW c \in Chats, Pushes(c) \/ Trims(c) \/ Expire(c) PROVE Goal
    <2>1. /\ Runs(c) /\ pc[c] \in Storing /\ UNCHANGED <<turn, faults>>
          /\ \E m \in Storing \cup {"idle"} : pc' = [pc EXCEPT ![c] = m]
        BY <1>4 DEF Pushes, Trims, Lpush, Ltrim, Expire, From, Storing, counters
    <2>2. TypeControl' /\ Solo'
        BY <1>3, <2>1
    <2>3. TypeLists'
      <3>1. CASE Pushes(c)
        <4>1. turn[c] \in 1 .. MaxTurns
          <5>1. pc[c] # "idle"
              BY <2>1 DEF Storing
          <5>2. turn[c] \in 0 .. MaxTurns /\ turn[c] > 0
              BY <1>0, <5>1 DEF TypeControl
          <5>3. QED
              BY <1>0, <5>2
        <4>2. Question(turn[c]) \in Messages /\ Answer(turn[c]) \in Messages
            BY <4>1 DEF Question, Answer, Messages
        <4>3. history' = <<Question(turn[c])>> \o history \/ history' = <<Answer(turn[c])>> \o history
            BY <3>1 DEF Pushes, Lpush
        <4>4. history' \in Seq(Messages)
            BY <1>0, <4>2, <4>3, Pushed DEF TypeLists
        <4>5. QED
            BY <1>0, <3>1, <4>4 DEF TypeLists, Pushes, Lpush
      <3>2. CASE Trims(c)
        <4>1. history' = SubSeq(history, 1, IF Len(history) > Cap THEN Cap ELSE Len(history))
            BY <3>2 DEF Trims, Ltrim
        <4>2. history' \in Seq(Messages)
            BY <1>0, <4>1, Trimmed, ConversationAssumption DEF TypeLists
        <4>3. QED
            BY <1>0, <3>2, <4>2 DEF TypeLists, Trims, Ltrim
      <3>3. CASE Expire(c)
          BY <1>0, <3>3 DEF TypeLists, Expire
      <3>4. QED
          BY <1>4, <3>1, <3>2, <3>3
    <2>4. QED
        BY <2>2, <2>3
  <1>5. Emptied => TypeLists'
      BY EmptySeq DEF Emptied, TypeLists
  <1>6. ASSUME NEW t \in Threads, Manages(t) PROVE Goal
    <2>1. /\ \A c \in Chats : pc'[c] = pc[c]
          /\ pc' \in [Chats \cup Threads -> ChatSteps \cup ThreadSteps]
          /\ \A u \in Threads : pc'[u] \in ThreadSteps
        BY <1>6, ThreadMoves DEF Manages
    <2>2. TypeControl' /\ Solo'
        BY <1>0, <1>6, <2>1 DEF Manages, TypeControl, Solo
    <2>3. TypeLists'
        BY <1>0, <1>5, <1>6 DEF Manages, TypeLists
    <2>4. QED
        BY <2>2, <2>3
  <1>7. CASE Stops
    <2>1. /\ pc' \in [Chats \cup Threads -> ChatSteps \cup ThreadSteps]
          /\ \A p \in Chats \cup Threads : pc'[p] = pc[p] \/ pc'[p] = "idle"
          /\ UNCHANGED <<history, expires, turn>> /\ faults' \in 0 .. MaxFaults
        BY <1>0, <1>7 DEF Stops, TypeControl
    <2>2. Solo'
        BY <2>1 DEF Solo, Awaits
    <2>3. TypeControl'
      <3>1. \A c \in Chats : pc'[c] \in ChatSteps /\ (pc'[c] # "idle" => turn'[c] > 0)
          BY <1>0, <2>1 DEF TypeControl, ChatSteps
      <3>2. \A t \in Threads : pc'[t] \in ThreadSteps
          BY <1>0, <2>1 DEF TypeControl, ThreadSteps
      <3>3. QED
          BY <1>0, <2>1, <3>1, <3>2 DEF TypeControl
    <2>4. TypeLists'
        BY <1>0, <2>1 DEF TypeLists
    <2>5. QED
        BY <1>1, <2>2, <2>3, <2>4
  <1>8. CASE Lapses \/ Nothing
    <2>1. TypeControl' /\ Solo'
        BY <1>0, <1>8 DEF Lapses, Nothing, TypeControl, Solo
    <2>2. TypeLists'
      <3>1. Lapses => Emptied
          BY DEF Lapses
      <3>2. Nothing => TypeLists'
          BY <1>0 DEF Nothing, TypeLists
      <3>3. QED
          BY <1>5, <1>8, <3>1, <3>2
    <2>3. QED
        BY <1>1, <2>1, <2>2
  <1>9. QED
      BY <1>1, <1>2, <1>4, <1>6, <1>7, <1>8, StepKinds

LEMMA TypesKept == Spec => [](TypeOK /\ Solo)
  <1>1. Init => TypeOK /\ Solo
    <2> SUFFICES ASSUME Init PROVE TypeLists /\ TypeFlags /\ TypeControl /\ Solo
        BY TypeParts, SomeRuns
    <2>1. TypeLists /\ TypeFlags
      <3>1. <<>> \in Seq(Messages) /\ 0 \in 0 .. MaxTurns
          BY EmptySeq, ConversationAssumption
      <3>2. QED
          BY <3>1 DEF Init, TypeLists, TypeFlags
    <2>2. TypeControl /\ Solo
        BY ConversationAssumption DEF Init, TypeControl, Solo, ChatSteps, ThreadSteps, Awaits
    <2>3. QED
        BY <2>1, <2>2
  <1>2. QED
      BY <1>1, NextTypes, PTL DEF Spec

\* Every variable has its type, and at most one chat is between two commands.
THEOREM TypeCorrect == Spec => []TypeOK
  BY TypesKept, PTL

-----------------------------------------------------------------------------
(* The cap *)

Trimming == {"trim user", "trim assistant"}

\* A list that no chat is about to trim exceeds the cap by one for each fault.
Capped ==
    /\ Len(history) <= Cap + 1 + faults
    /\ (\A c \in Chats : pc[c] \notin Trimming) => Len(history) <= Cap + faults

LEMMA CapStep ==
    ASSUME TypeOK, Solo, Capped, [Next]_vars
    PROVE  Capped'
  <1>0. /\ history \in Seq(Messages) /\ Len(history) \in Nat /\ faults \in Nat /\ Cap \in Nat
        /\ turn \in [Chats -> 0 .. MaxTurns] /\ MaxTurns \in Nat
    <2>1. history \in Seq(Messages)
        BY DEF TypeOK, Messages
    <2>2. QED
        BY <2>1, LenProperties, ConversationAssumption DEF TypeOK
  <1>1. ASSUME NEW c \in Chats, Elsewhere(c) PROVE Capped'
    <2>1. PICK m \in Free \cup {"user"} : pc' = [pc EXCEPT ![c] = m]
        BY <1>1 DEF Elsewhere
    <2>2. /\ pc'[c] = m /\ \A d \in Chats \ {c} : pc'[d] = pc[d] /\ pc[d] \in Awaits
        BY <1>1, <2>1, ChatMoves DEF Elsewhere, Free, ChatSteps, Storing
    <2>3. \A d \in Chats : pc[d] \notin Trimming
        BY <1>1, <2>2 DEF Elsewhere, Free, ChatSteps, Storing, Trimming, Awaits
    <2>4. QED
        BY <1>1, <2>3 DEF Capped, Elsewhere
  <1>2. ASSUME NEW c \in Chats, Pushes(c) PROVE Capped'
    <2>1. /\ Runs(c) /\ pc[c] \in {"user", "assistant"} /\ UNCHANGED <<turn, faults>>
          /\ \E m \in Trimming : pc' = [pc EXCEPT ![c] = m]
        BY <1>2 DEF Pushes, Lpush, From, Trimming, counters
    <2>2. \A d \in Chats \ {c} : pc[d] \in Awaits
        BY <2>1 DEF Runs, Awaits
    <2>3. \A d \in Chats : pc[d] \notin Trimming
        BY <2>1, <2>2 DEF Awaits, Trimming
    <2>4. pc'[c] \in Trimming
        BY <2>1 DEF TypeOK
    <2>5. Len(history') = Len(history) + 1
      <3>1. pc[c] # "idle"
          BY <2>1
      <3>2. turn[c] \in 1 .. MaxTurns
          BY <1>0, <3>1 DEF TypeOK
      <3>3. Question(turn[c]) \in Messages /\ Answer(turn[c]) \in Messages
          BY <3>2 DEF Question, Answer, Messages
      <3>4. history' = <<Question(turn[c])>> \o history \/ history' = <<Answer(turn[c])>> \o history
          BY <1>2 DEF Pushes, Lpush
      <3>5. QED
          BY <1>0, <3>3, <3>4, Pushed
    <2>6. QED
        BY <1>0, <2>1, <2>3, <2>4, <2>5 DEF Capped
  <1>3. ASSUME NEW c \in Chats, Trims(c) PROVE Capped'
    <2>1. /\ history' = SubSeq(history, 1, IF Len(history) > Cap THEN Cap ELSE Len(history))
          /\ UNCHANGED faults
        BY <1>3 DEF Trims, Ltrim, counters
    <2>2. Len(history') \in Nat /\ Len(history') <= Cap
        BY <1>0, <2>1, Trimmed
    <2>3. QED
        BY <1>0, <2>1, <2>2 DEF Capped
  <1>4. ASSUME NEW c \in Chats, Expire(c) PROVE Capped'
    <2>1. Runs(c) /\ pc[c] = "expire" /\ UNCHANGED <<history, faults>>
        BY <1>4 DEF Expire, From, counters
    <2>2. \A d \in Chats : pc[d] \notin Trimming
        BY <2>1 DEF Runs, Trimming
    <2>3. QED
        BY <2>1, <2>2 DEF Capped
  <1>5. Emptied /\ UNCHANGED faults => Capped'
    <2>1. Len(<<>>) = 0
        BY EmptySeq
    <2>2. QED
        BY <1>0, <2>1 DEF Emptied, Capped
  <1>6. ASSUME NEW t \in Threads, Manages(t) PROVE Capped'
    <2>1. \A c \in Chats : pc'[c] = pc[c]
        BY <1>6, ThreadMoves DEF Manages
    <2>2. QED
        BY <1>5, <1>6, <2>1 DEF Manages, Capped
  <1>7. CASE Stops
      BY <1>0, <1>7 DEF Stops, Capped
  <1>8. CASE Lapses \/ Nothing
      BY <1>5, <1>8 DEF Lapses, Nothing, Capped
  <1>9. QED
      BY <1>1, <1>2, <1>3, <1>4, <1>6, <1>7, <1>8, StepKinds

\* The list exceeds its cap by the message being stored and by one for each fault
\* between LPUSH and LTRIM (add_conversation_message).
THEOREM BoundCorrect == Spec => []HistoryBound
  <1>1. Init => Capped
    <2>1. Len(<<>>) = 0
        BY EmptySeq
    <2>2. QED
        BY <2>1, ConversationAssumption DEF Init, Capped
  <1>2. Capped => HistoryBound
      BY DEF Capped, HistoryBound
  <1>3. TypeOK /\ Solo /\ Capped /\ [Next]_vars => Capped'
      BY CapStep
  <1>4. QED
      BY <1>1, <1>2, <1>3, TypesKept, PTL DEF Spec

-----------------------------------------------------------------------------
(* The TTL *)

\* Without faults a history has a TTL, unless a chat that has pushed is about to set it.
Expiring ==
    faults = 0 /\ (\A c \in Chats : pc[c] \notin Storing \ {"user"}) => (history # <<>> => expires)

LEMMA ExpireStep ==
    ASSUME TypeOK, Solo, Expiring, [Next]_vars
    PROVE  Expiring'
  <1>0. faults \in Nat
      BY ConversationAssumption DEF TypeOK
  <1>1. ASSUME NEW c \in Chats, Elsewhere(c) PROVE Expiring'
    <2>1. \A d \in Chats : pc[d] \notin Storing \ {"user"}
      <3>1. \A d \in Chats \ {c} : pc[d] \in {"idle", "wait"}
          BY <1>1 DEF Elsewhere, Runs
      <3>2. QED
          BY <1>1, <3>1 DEF Elsewhere, Free, ChatSteps, Storing
    <2>2. QED
        BY <1>1, <2>1 DEF Elsewhere, Expiring
  <1>2. ASSUME NEW c \in Chats, Pushes(c) \/ Trims(c) PROVE Expiring'
    <2>1. \E m \in Storing \ {"user"} : pc' = [pc EXCEPT ![c] = m]
        BY <1>2 DEF Pushes, Trims, Lpush, Ltrim, From, Storing
    <2>2. pc'[c] \in Storing \ {"user"}
        BY <2>1 DEF TypeOK
    <2>3. QED
        BY <2>2 DEF Expiring
  <1>3. ASSUME NEW c \in Chats, Expire(c) PROVE Expiring'
      BY <1>3 DEF Expire, Expiring
  <1>4. Emptied => Expiring'
      BY DEF Emptied, Expiring
  <1>5. ASSUME NEW t \in Threads, Manages(t) PROVE Expiring'
    <2>1. \A c \in Chats : pc'[c] = pc[c]
        BY <1>5, ThreadMoves DEF Manages
    <2>2. QED
        BY <1>4, <1>5, <2>1 DEF Manages, Expiring
  <1>6. CASE Stops
      BY <1>0, <1>6 DEF Stops, Expiring
  <1>7. CASE Lapses \/ Nothing
      BY <1>4, <1>7 DEF Lapses, Nothing, Expiring
  <1>8. QED
      BY <1>1, <1>2, <1>3, <1>5, <1>6, <1>7, StepKinds

\* Without faults, a history that is not being written has a TTL
\* (set_conversation_ttl), even one that a delete removed halfway.
THEOREM ExpiryCorrect == Spec => []HistoryExpires
  <1>1. Init => Expiring
      BY DEF Init, Expiring
  <1>2. Expiring => HistoryExpires
      BY DEF Expiring, HistoryExpires
  <1>3. TypeOK /\ Solo /\ Expiring /\ [Next]_vars => Expiring'
      BY ExpireStep
  <1>4. QED
      BY <1>1, <1>2, <1>3, TypesKept, PTL DEF Spec

-----------------------------------------------------------------------------
(* Questions and answers *)

Half == {"trim user", "assistant"}

\* Without faults the history is whole, but for the question on top that a chat is
\* about to answer; a delete may have taken even that.
Ordered ==
    faults = 0 =>
        /\ \A c \in Chats : pc[c] \in Half =>
               Len(history) = 0 \/ (history[1] = Question(turn[c]) /\ Whole(history, 2))
        /\ (\A c \in Chats : pc[c] \notin Half) => Whole(history, 1)

LEMMA OrderStep ==
    ASSUME TypeOK, TypeOK', Solo, Ordered, [Next]_vars
    PROVE  Ordered'
  <1>0. /\ history \in Seq(Messages) /\ Len(history) \in Nat /\ faults \in Nat
        /\ Cap \in Nat /\ Cap > 0 /\ turn \in [Chats -> 0 .. MaxTurns] /\ MaxTurns \in Nat
    <2>1. history \in Seq(Messages)
        BY DEF TypeOK, Messages
    <2>2. QED
        BY <2>1, LenProperties, ConversationAssumption DEF TypeOK
  <1>1. ASSUME NEW c \in Chats, Elsewhere(c) PROVE Ordered'
    <2>1. PICK m \in Free \cup {"user"} : pc' = [pc EXCEPT ![c] = m]
        BY <1>1 DEF Elsewhere
    <2>2. pc'[c] = m /\ \A d \in Chats \ {c} : pc'[d] = pc[d] /\ pc[d] \in Awaits
        BY <1>1, <2>1, ChatMoves DEF Elsewhere, Free, ChatSteps, Storing
    <2>3. \A d \in Chats : pc[d] \notin Half /\ pc'[d] \notin Half
        BY <1>1, <2>2 DEF Elsewhere, Free, ChatSteps, Storing, Half, Awaits
    <2>4. UNCHANGED <<history, faults>>
        BY <1>1 DEF Elsewhere
    <2>5. QED
        BY <2>3, <2>4 DEF Ordered
  <1>2. ASSUME NEW c \in Chats, NEW m \in ChatSteps, Runs(c), pc' = [pc EXCEPT ![c] = m],
               UNCHANGED <<turn, faults>>, faults = 0
        PROVE  /\ pc'[c] = m /\ \A d \in Chats \ {c} : pc[d] \notin Half /\ pc'[d] \notin Half
               /\ (pc[c] \notin Half => Whole(history, 1))
               /\ (pc[c] \in Half => Len(history) = 0 \/ (history[1] = Question(turn[c]) /\ Whole(history, 2)))
               /\ m \notin Half /\ Whole(history', 1) => Ordered'
               /\ m \in Half /\ (Len(history') = 0 \/ (history'[1] = Question(turn[c]) /\ Whole(history', 2)))
                      => Ordered'
    <2>1. pc'[c] = m /\ \A d \in Chats \ {c} : pc'[d] = pc[d] /\ pc[d] \in Awaits
        BY <1>2, ChatMoves
    <2>2. \A d \in Chats \ {c} : pc[d] \notin Half /\ pc'[d] \notin Half
        BY <2>1 DEF Half, Awaits
    <2>3. /\ (pc[c] \notin Half => Whole(history, 1))
          /\ (pc[c] \in Half => Len(history) = 0 \/ (history[1] = Question(turn[c]) /\ Whole(history, 2)))
        BY <1>2, <2>2 DEF Ordered
    <2>4. m \notin Half /\ Whole(history', 1) => Ordered'
        BY <2>1, <2>2 DEF Ordered
    <2>5. m \in Half /\ (Len(history') = 0 \/ (history'[1] = Question(turn[c]) /\ Whole(history', 2)))
              => Ordered'
        BY <1>2, <2>1, <2>2 DEF Ordered
    <2>6. QED
        BY <2>1, <2>2, <2>3, <2>4, <2>5
  <1>a. ASSUME NEW msg \in Messages, history' = <<msg>> \o history
        PROVE  /\ Len(history') = Len(history) + 1 /\ history'[1] = msg
               /\ \A i \in 2 .. Len(history') : history'[i] = history[i - 1]
      BY <1>0, <1>a, Pushed
  <1>3. ASSUME NEW c \in Chats, Pushes(c), faults = 0 PROVE Ordered'
    <2>1. Runs(c) /\ UNCHANGED <<turn, faults>>
        BY <1>3 DEF Pushes, Lpush, counters
    <2>2. turn[c] \in 1 .. MaxTurns
      <3>1. pc[c] # "idle"
          BY <1>3 DEF Pushes, Lpush, From
      <3>2. QED
          BY <1>0, <3>1 DEF TypeOK
    <2>3. Question(turn[c]) \in Messages /\ Answer(turn[c]) \in Messages
        BY <2>2 DEF Question, Answer, Messages
    <2>4. CASE Lpush(c, "user", "trim user", Question(turn[c]))
      <3>1. /\ pc[c] = "user" /\ pc' = [pc EXCEPT ![c] = "trim user"]
            /\ history' = <<Question(turn[c])>> \o history
          BY <2>4 DEF Lpush, From
      <3>2. /\ Len(history') = Len(history) + 1 /\ history'[1] = Question(turn[c])
            /\ \A i \in 2 .. Len(history') : history'[i] = history[i - 1]
          BY <1>a, <2>3, <3>1
      <3>3. "trim user" \in ChatSteps /\ "trim user" \in Half /\ "user" \notin Half
          BY DEF ChatSteps, Storing, Half
      <3>4. Whole(history, 1)
          BY <1>2, <1>3, <2>1, <3>1, <3>3
      <3>5. Whole(history', 2)
          BY <1>0, <3>2, <3>4, QuestionPushed
      <3>6. QED
          BY <1>2, <1>3, <2>1, <3>1, <3>2, <3>3, <3>5
    <2>5. CASE Lpush(c, "assistant", "trim assistant", Answer(turn[c]))
      <3>1. /\ pc[c] = "assistant" /\ pc' = [pc EXCEPT ![c] = "trim assistant"]
            /\ history' = <<Answer(turn[c])>> \o history
          BY <2>5 DEF Lpush, From
      <3>2. /\ Len(history') = Len(history) + 1 /\ history'[1] = Answer(turn[c])
            /\ \A i \in 2 .. Len(history') : history'[i] = history[i - 1]
          BY <1>a, <2>3, <3>1
      <3>3. "trim assistant" \in ChatSteps /\ "trim assistant" \notin Half /\ "assistant" \in Half
          BY DEF ChatSteps, Storing, Half
      <3>4. Len(history) = 0 \/ (history[1] = Question(turn[c]) /\ Whole(history, 2))
          BY <1>2, <1>3, <2>1, <3>1, <3>3
      <3>5. Whole(history', 1)
          BY <1>0, <3>2, <3>4, AnswerPushed
      <3>6. QED
          BY <1>2, <1>3, <2>1, <3>1, <3>3, <3>5
    <2>6. QED
        BY <1>3, <2>4, <2>5 DEF Pushes
  <1>4. ASSUME NEW c \in Chats, Trims(c), faults = 0 PROVE Ordered'
    <2>1. /\ Runs(c) /\ UNCHANGED <<turn, faults>>
          /\ history' = SubSeq(history, 1, IF Len(history) > Cap THEN Cap ELSE Len(history))
        BY <1>4 DEF Trims, Ltrim, counters
    <2>2. /\ Len(history') \in Nat /\ Len(history') <= Len(history)
          /\ history # <<>> => history' # <<>>
          /\ \A i \in 1 .. Len(history') : history'[i] = history[i]
          /\ history' \in Seq(Messages)
        BY <1>0, <2>1, Trimmed
    <2>3. CASE Ltrim(c, "trim user", "assistant")
      <3>1. pc[c] = "trim user" /\ pc' = [pc EXCEPT ![c] = "assistant"]
          BY <2>3 DEF Ltrim, From
      <3>2. "assistant" \in ChatSteps /\ "assistant" \in Half /\ "trim user" \in Half
          BY DEF ChatSteps, Storing, Half
      <3>3. Len(history) = 0 \/ (history[1] = Question(turn[c]) /\ Whole(history, 2))
          BY <1>2, <1>4, <2>1, <3>1, <3>2
      <3>4. Len(history') = 0 \/ (history'[1] = Question(turn[c]) /\ Whole(history', 2))
        <4>1. CASE Len(history') = 0
            BY <4>1
        <4>2. CASE Len(history') # 0
          <5>1. Len(history) # 0 /\ 1 \in 1 .. Len(history')
              BY <1>0, <2>2, <4>2
          <5>2. Whole(history', 2)
              BY <1>0, <2>2, <3>3, <5>1, WholeTrimmed
          <5>3. QED
              BY <2>2, <3>3, <5>1, <5>2
        <4>3. QED
            BY <4>1, <4>2
      <3>5. QED
          BY <1>2, <1>4, <2>1, <3>1, <3>2, <3>4
    <2>4. CASE Ltrim(c, "trim assistant", "expire")
      <3>1. pc[c] = "trim assistant" /\ pc' = [pc EXCEPT ![c] = "expire"]
          BY <2>4 DEF Ltrim, From
      <3>2. "expire" \in ChatSteps /\ "expire" \notin Half /\ "trim assistant" \notin Half
          BY DEF ChatSteps, Storing, Half
      <3>3. Whole(history, 1)
          BY <1>2, <1>4, <2>1, <3>1, <3>2
      <3>4. Whole(history', 1)
          BY <1>0, <2>2, <3>3, WholeTrimmed
      <3>5. QED
          BY <1>2, <1>4, <2>1, <3>1, <3>2, <3>4
    <2>5. QED
        BY <1>4, <2>3, <2>4 DEF Trims
  <1>5. ASSUME NEW c \in Chats, Expire(c), faults = 0 PROVE Ordered'
    <2>1. /\ Runs(c) /\ pc[c] = "expire" /\ pc' = [pc EXCEPT ![c] = "idle"]
          /\ UNCHANGED <<history, turn, faults>>
        BY <1>5 DEF Expire, From, counters
    <2>2. "idle" \in ChatSteps /\ "idle" \notin Half /\ "expire" \notin Half
        BY DEF ChatSteps, Half
    <2>3. Whole(history, 1)
        BY <1>2, <1>5, <2>1, <2>2
    <2>4. Whole(history', 1)
        BY <2>1, <2>3
    <2>5. QED
        BY <1>2, <1>5, <2>1, <2>2, <2>4
  <1>6. ASSUME Emptied PROVE Ordered'
    <2>1. Len(history') = 0
        BY <1>6, EmptySeq DEF Emptied
    <2>2. Whole(history', 1)
        BY <2>1 DEF Whole
    <2>3. QED
        BY <2>1, <2>2 DEF Ordered
  <1>7. ASSUME UNCHANGED <<history, turn, faults>>, \A c \in Chats : pc'[c] = pc[c] PROVE Ordered'
      BY <1>7 DEF Ordered
  <1>8. ASSUME NEW t \in Threads, Manages(t) PROVE Ordered'
    <2>1. \A c \in Chats : pc'[c] = pc[c]
        BY <1>8, ThreadMoves DEF Manages
    <2>2. QED
        BY <1>6, <1>7, <1>8, <2>1 DEF Manages
  <1>9. CASE Lapses \/ Nothing
      BY <1>6, <1>7, <1>9 DEF Lapses, Nothing
  <1>10. ASSUME faults' # 0 PROVE Ordered'
      BY <1>10 DEF Ordered
  <1>11. CASE Stops
      BY <1>0, <1>10, <1>11 DEF Stops
  <1>12. ASSUME NEW c \in Chats, Pushes(c) \/ Trims(c) \/ Expire(c) PROVE UNCHANGED faults
      BY <1>12 DEF Pushes, Trims, Lpush, Ltrim, Expire, counters
  <1>13. QED
      BY <1>1, <1>3, <1>4, <1>5, <1>8, <1>9, <1>10, <1>11, <1>12, StepKinds

\* Without faults, whatever chats and deletes interleave, a history that is not
\* being written holds each question right before its answer (the chat handlers'
\* two add_conversation_message calls).
THEOREM TurnsCorrect == Spec => []WholeTurns
  <1>1. Init => Ordered
    <2>1. Len(<<>>) = 0
        BY EmptySeq
    <2>2. Len(<<>>) = 0 => Whole(<<>>, 1)
        BY DEF Whole
    <2>3. QED
        BY <2>1, <2>2 DEF Init, Ordered
  <1>2. TypeOK /\ Ordered => WholeTurns
    <2> SUFFICES ASSUME TypeOK, Ordered, faults = 0, \A c \in Chats : pc[c] \notin Storing,
                        NEW i \in DOMAIN history
                 PROVE  /\ history[i].role = "user" => i > 1 /\ Paired(i - 1, i)
                        /\ history[i].role = "assistant" /\ i < Len(history) => Paired(i, i + 1)
        BY DEF WholeTurns
    <2>1. history \in Seq(Messages)
        BY DEF TypeOK, Messages
    <2>2. DOMAIN history = 1 .. Len(history)
        BY <2>1, LenProperties
    <2>3. Whole(history, 1)
        BY DEF Ordered, Storing, Half
    <2>4. QED
        BY <2>2, <2>3 DEF Whole, Paired, Pair
  <1>3. TypeOK /\ TypeOK' /\ Solo /\ Ordered /\ [Next]_vars => Ordered'
      BY OrderStep
  <1>4. QED
      BY <1>1, <1>2, <1>3, TypesKept, TypeCorrect, PTL DEF Spec

-----------------------------------------------------------------------------
(* The index and the metadata *)

\* Without faults, a listed conversation without metadata has someone about to
\* write the metadata or to take it off the list.
Linked ==
    faults = 0 /\ listed /\ ~ meta => \E p \in Chats \cup Threads : pc[p] \in {"meta", "unlink"}

LEMMA LinkStep ==
    ASSUME TypeOK, Linked, [Next]_vars
    PROVE  Linked'
  <1>0. faults \in Nat /\ pc \in [Chats \cup Threads -> ChatSteps \cup ThreadSteps]
      BY ConversationAssumption DEF TypeOK
  <1>1. ASSUME NEW p \in Chats \cup Threads, \E m : pc' = [pc EXCEPT ![p] = m],
               pc[p] \notin {"meta", "unlink"}, UNCHANGED <<meta, listed, faults>>
        PROVE  Linked'
      BY <1>0, <1>1 DEF Linked
  <1>2. ASSUME NEW p \in Chats \cup Threads, NEW m,
               \/ LinkIndex(p, "meta") \/ LinkMeta(p, m) \/ DeleteMeta(p) \/ Unlink(p)
        PROVE  Linked'
    <2>1. CASE LinkIndex(p, "meta")
        BY <1>0, <2>1 DEF LinkIndex, From, Linked
    <2>2. CASE LinkMeta(p, m)
        BY <2>2 DEF LinkMeta, Linked
    <2>3. CASE DeleteMeta(p)
        BY <1>0, <2>3 DEF DeleteMeta, From, Linked
    <2>4. CASE Unlink(p)
        BY <2>4 DEF Unlink, Linked
    <2>5. QED
        BY <1>2, <2>1, <2>2, <2>3, <2>4
  <1>3. ASSUME NEW c \in Chats, Chat(c) PROVE Linked'
    <2>1. CASE \/ Ask(c) \/ Owns(c) \/ Lookup(c) \/ Answered(c) \/ Pushes(c) \/ Trims(c) \/ Expire(c)
      <3>1. UNCHANGED <<meta, listed, faults>>
          BY <2>1 DEF Ask, Owns, Lookup, Answered, Pushes, Trims, Lpush, Ltrim, Expire, counters
      <3>2. pc[c] \notin {"meta", "unlink"} /\ \E m : pc' = [pc EXCEPT ![c] = m]
          BY <2>1 DEF Ask, Owns, Lookup, Answered, Pushes, Trims, Lpush, Ltrim, Expire, From
      <3>3. QED
          BY <1>1, <3>1, <3>2
    <2>2. CASE LinkIndex(c, "meta") \/ LinkMeta(c, "lookup")
        BY <1>2, <2>2
    <2>3. QED
        BY <1>3, <2>1, <2>2 DEF Chat, Pushes, Trims
  <1>4. ASSUME NEW t \in Threads, Thread(t) PROVE Linked'
    <2>1. CASE Create(t) \/ DeleteBegins(t) \/ DeleteHistory(t)
      <3>1. UNCHANGED <<meta, listed, faults>>
          BY <2>1 DEF Create, DeleteBegins, DeleteHistory, counters
      <3>2. pc[t] \notin {"meta", "unlink"} /\ \E m : pc' = [pc EXCEPT ![t] = m]
          BY <2>1 DEF Create, DeleteBegins, DeleteHistory, From
      <3>3. QED
          BY <1>1, <3>1, <3>2
    <2>2. CASE LinkIndex(t, "meta") \/ LinkMeta(t, "idle") \/ DeleteMeta(t) \/ Unlink(t)
        BY <1>2, <2>2
    <2>3. QED
        BY <1>4, <2>1, <2>2 DEF Thread
  <1>5. ASSUME \E P : Stop(P) PROVE Linked'
      BY <1>0, <1>5 DEF Stop, Linked
  <1>6. CASE Lapse \/ FlushAll
      BY <1>6 DEF Lapse, FlushAll, Linked, counters
  <1>7. CASE UNCHANGED vars
      BY <1>7 DEF vars, Linked, counters
  <1>8. QED
      BY <1>3, <1>4, <1>5, <1>6, <1>7 DEF Next, Fail, Crash

\* Without faults, a listed conversation has its metadata once nothing is writing
\* (link_conversation_to_user, delete_conversation).
THEOREM ListedCorrect == Spec => []ListedHasMeta
  <1>1. Init => Linked
      BY DEF Init, Linked
  <1>2. Linked => ListedHasMeta
      BY DEF Linked, ListedHasMeta, AtRest
  <1>3. TypeOK /\ Linked /\ [Next]_vars => Linked'
      BY LinkStep
  <1>4. QED
      BY <1>1, <1>2, <1>3, TypeCorrect, PTL DEF Spec

-----------------------------------------------------------------------------
(* The response cache *)

ConvKeys == Conversations \X Questions
GlobalKeys == Providers \X Models \X Questions

ConvKey(r) == <<req[r].conv, req[r].question>>
GlobKey(r) == <<req[r].provider, req[r].model, req[r].question>>

\* A request whose model call gave an answer that was cached.
Modelled(a) == a \in Requests /\ source[a] = "model" /\ stage[a] \in {"done", "failed"}

\* A cached answer is a model's, to its key, and its TTL runs from the model's answer.
ConvHeld(k) ==
    conv[k] # Absent =>
      /\ Modelled(conv[k].by) /\ ConvKey(conv[k].by) = k
      /\ age[conv[k].by] + conv[k].left <= ConvTTL

GlobalHeld(k) ==
    global[k] # Absent =>
      /\ Modelled(global[k].by) /\ GlobKey(global[k].by) = k
      /\ age[global[k].by] + global[k].left <= GlobalTTL

\* What a request was served is what a model gave to its key.
Served(r) ==
    /\ stage[r] \in {"idle", "wait"} => source[r] = "none"
    /\ source[r] # "model" => age[r] = 0
    /\ source[r] = "conv" => Modelled(answer[r]) /\ ConvKey(answer[r]) = ConvKey(r)
    /\ source[r] = "global" => Modelled(answer[r]) /\ GlobKey(answer[r]) = GlobKey(r)

\* While a model's answer is younger than the global TTL, its key holds one that
\* lives at least as long.
Kept(r) ==
    stage[r] = "done" /\ source[r] = "model" /\ age[r] < GlobalTTL =>
      /\ global[GlobKey(r)] # Absent
      /\ global[GlobKey(r)].left + age[r] >= GlobalTTL

CacheInv ==
    /\ CacheTypeOK
    /\ \A k \in ConvKeys : ConvHeld(k)
    /\ \A k \in GlobalKeys : GlobalHeld(k)
    /\ \A r \in Requests : Served(r) /\ Kept(r)

LEMMA InitCacheInv == CacheInit => CacheInv
<1> SUFFICES ASSUME CacheInit PROVE CacheInv
  OBVIOUS
<1>1. 0 \in 0 .. GlobalTTL
  BY ResponseCacheAssumption DEF ResponseCacheAssumption
<1>2. CacheTypeOK
  BY <1>1 DEF CacheInit, CacheTypeOK, Entries
<1>3. /\ \A k \in ConvKeys : conv[k] = Absent
      /\ \A k \in GlobalKeys : global[k] = Absent
      /\ \A r \in Requests : stage[r] = "idle" /\ source[r] = "none" /\ age[r] = 0
  BY DEF CacheInit, ConvKeys, GlobalKeys
<1> QED BY <1>2, <1>3 DEF CacheInv, ConvHeld, GlobalHeld, Served, Kept

\* The keys of a request that has arrived.
LEMMA KeysOf ==
    ASSUME NEW r \in Requests, req[r] \in Asked
    PROVE  ConvKey(r) \in ConvKeys /\ GlobKey(r) \in GlobalKeys
BY DEF ConvKey, GlobKey, ConvKeys, GlobalKeys, Asked

\* A step of a request that has no answer yet leaves the answers of the others.
Alone(r) ==
    /\ stage[r] \in {"idle", "wait"}
    /\ \A s \in Requests \ {r} :
         /\ stage'[s] = stage[s] /\ req'[s] = req[s] /\ source'[s] = source[s]
         /\ answer'[s] = answer[s] /\ age'[s] = age[s]

LEMMA AloneModelled ==
    ASSUME CacheInv, NEW r \in Requests, Alone(r), NEW a, Modelled(a)
    PROVE  /\ a # r /\ Modelled(a)' /\ age'[a] = age[a]
           /\ ConvKey(a)' = ConvKey(a) /\ GlobKey(a)' = GlobKey(a)
<1>1. a \in Requests \ {r}
  BY DEF Modelled, Alone
<1> QED BY <1>1 DEF Modelled, Alone, ConvKey, GlobKey

LEMMA AloneOthers ==
    ASSUME CacheInv, NEW r \in Requests, Alone(r), NEW s \in Requests \ {r}
    PROVE  Served(s)'
<1>1. Served(s)
  BY DEF CacheInv
<1>2. /\ stage'[s] = stage[s] /\ source'[s] = source[s] /\ answer'[s] = answer[s] /\ age'[s] = age[s]
      /\ ConvKey(s)' = ConvKey(s) /\ GlobKey(s)' = GlobKey(s)
  BY DEF Alone, ConvKey, GlobKey
<1>3. \A a : Modelled(a) => Modelled(a)' /\ ConvKey(a)' = ConvKey(a) /\ GlobKey(a)' = GlobKey(a)
  BY AloneModelled
<1> QED BY <1>1, <1>2, <1>3 DEF Served, ConvKey, GlobKey, Modelled

\* What a step of a request writes keeps the caches in order, if the entries it
\* writes are its own and fresh, and it is what the new entries say.
LEMMA AloneHeld ==
    ASSUME CacheInv, NEW r \in Requests, Alone(r)
    PROVE  /\ \A k \in ConvKeys : conv'[k] = conv[k] => ConvHeld(k)'
           /\ \A k \in GlobalKeys : global'[k] = global[k] => GlobalHeld(k)'
<1>1. \A a : Modelled(a) =>
        /\ Modelled(a)' /\ ConvKey(a)' = ConvKey(a) /\ GlobKey(a)' = GlobKey(a) /\ age'[a] = age[a]
  BY AloneModelled
<1>2. ASSUME NEW k \in ConvKeys, conv'[k] = conv[k] PROVE ConvHeld(k)'
  <2>1. ConvHeld(k)
    BY DEF CacheInv
  <2> DEFINE a == conv[k].by
  <2>2. CASE conv[k] = Absent
    BY <1>2, <2>2 DEF ConvHeld, Absent
  <2>3. CASE conv[k] # Absent
    <3>1. Modelled(a) /\ ConvKey(a) = k /\ age[a] + conv[k].left <= ConvTTL
      BY <2>1, <2>3 DEF ConvHeld
    <3>2. PICK b : b = a
      OBVIOUS
    <3>3. Modelled(b)' /\ ConvKey(b)' = k /\ age'[b] + conv'[k].left <= ConvTTL /\ conv'[k].by = b
      BY <1>1, <1>2, <3>1, <3>2
    <3> QED BY <3>3 DEF ConvHeld, Modelled, ConvKey
  <2> QED BY <2>2, <2>3
<1>3. ASSUME NEW k \in GlobalKeys, global'[k] = global[k] PROVE GlobalHeld(k)'
  <2>1. GlobalHeld(k)
    BY DEF CacheInv
  <2> DEFINE a == global[k].by
  <2>2. CASE global[k] = Absent
    BY <1>3, <2>2 DEF GlobalHeld, Absent
  <2>3. CASE global[k] # Absent
    <3>1. Modelled(a) /\ GlobKey(a) = k /\ age[a] + global[k].left <= GlobalTTL
      BY <2>1, <2>3 DEF GlobalHeld
    <3>2. PICK b : b = a
      OBVIOUS
    <3>3. Modelled(b)' /\ GlobKey(b)' = k /\ age'[b] + global'[k].left <= GlobalTTL /\ global'[k].by = b
      BY <1>1, <1>3, <3>1, <3>2
    <3> QED BY <3>3 DEF GlobalHeld, Modelled, GlobKey
  <2> QED BY <2>2, <2>3
<1> QED BY <1>2, <1>3

\* An answer that is kept stays kept while its key is left alone or renewed.
LEMMA AloneKept ==
    ASSUME CacheInv, NEW r \in Requests, Alone(r), NEW s \in Requests \ {r},
           \A k \in GlobalKeys : global'[k] = global[k]
              \/ (global'[k] # Absent /\ global'[k].left = GlobalTTL)
    PROVE  Kept(s)'
<1>1. Kept(s) /\ CacheTypeOK
  BY DEF CacheInv
<1>2. /\ stage'[s] = stage[s] /\ source'[s] = source[s] /\ age'[s] = age[s]
      /\ GlobKey(s)' = GlobKey(s)
  BY DEF Alone, GlobKey
<1>3. SUFFICES ASSUME stage[s] = "done", source[s] = "model", age[s] < GlobalTTL
               PROVE  /\ global'[GlobKey(s)] # Absent
                      /\ global'[GlobKey(s)].left + age[s] >= GlobalTTL
  BY <1>2 DEF Kept
<1>4. /\ global[GlobKey(s)] # Absent
      /\ global[GlobKey(s)].left + age[s] >= GlobalTTL
  BY <1>1, <1>3 DEF Kept
<1>5. GlobKey(s) \in GlobalKeys
  BY <1>1, <1>3, KeysOf DEF CacheTypeOK
<1>6. age[s] \in 0 .. GlobalTTL /\ GlobalTTL \in Nat
  BY <1>1, ResponseCacheAssumption DEF CacheTypeOK, ResponseCacheAssumption
<1> QED BY <1>4, <1>5, <1>6

\* A lookup writes neither cache.
LEMMA ConsultStep ==
    ASSUME CacheInv, NEW r \in Requests, Consult(r)
    PROVE  /\ stage[r] = "idle" /\ req' \in [Requests -> {NoRequest} \cup Asked] /\ req'[r] \in Asked
           /\ \A s \in Requests \ {r} : req'[s] = req[s]
           /\ length' \in [Conversations -> Nat]
           /\ UNCHANGED <<conv, global, age>>
           /\ \/ /\ conv[ConvKey(r)'] # Absent
                 /\ stage' = [stage EXCEPT ![r] = "done"] /\ source' = [source EXCEPT ![r] = "conv"]
                 /\ answer' = [answer EXCEPT ![r] = conv[ConvKey(r)'].by]
              \/ /\ global[GlobKey(r)'] # Absent
                 /\ stage' = [stage EXCEPT ![r] = "done"] /\ source' = [source EXCEPT ![r] = "global"]
                 /\ answer' = [answer EXCEPT ![r] = global[GlobKey(r)'].by]
              \/ /\ global[GlobKey(r)'] = Absent
                 /\ stage' = [stage EXCEPT ![r] = "wait"] /\ UNCHANGED <<source, answer>>
<1>1. PICK c \in Conversations, p \in Providers, m \in Models, q \in Questions :
        Arrive(r, c, p, m, q) /\ (HitConversation(r) \/ HitGlobal(r) \/ Miss(r))
  BY DEF Consult
<1>2. CacheTypeOK
  BY DEF CacheInv
<1> DEFINE x == [conv |-> c, provider |-> p, model |-> m, question |-> q, context |-> length[c]]
<1>3. x \in Asked /\ x.conv = c
  BY <1>2 DEF CacheTypeOK, Asked
<1>4. stage[r] = "idle" /\ req' = [req EXCEPT ![r] = x]
  BY <1>1 DEF Arrive
<1> HIDE DEF x
<1>5. /\ req' \in [Requests -> {NoRequest} \cup Asked] /\ req'[r] = x
      /\ \A s \in Requests \ {r} : req'[s] = req[s]
  BY <1>2, <1>3, <1>4 DEF CacheTypeOK
<1>6. ASSUME Turn(r) PROVE length' \in [Conversations -> Nat]
  <2>1. length' = [length EXCEPT ![c] = @ + 1] /\ length \in [Conversations -> Nat]
    BY <1>2, <1>3, <1>5, <1>6 DEF Turn, CacheTypeOK
  <2> QED BY <2>1
<1>7. CASE HitConversation(r)
  BY <1>3, <1>4, <1>5, <1>6, <1>7 DEF HitConversation, Hit, ConversationKey, ConvKey
<1>8. CASE HitGlobal(r)
  BY <1>3, <1>4, <1>5, <1>6, <1>8 DEF HitGlobal, Hit, GlobalKey, GlobKey
<1>9. CASE Miss(r)
  BY <1>2, <1>3, <1>4, <1>5, <1>9 DEF Miss, GlobalKey, GlobKey, CacheTypeOK
<1> QED BY <1>1, <1>7, <1>8, <1>9

LEMMA ConsultInv == ASSUME CacheInv, NEW r \in Requests, Consult(r) PROVE CacheInv'
<1>1. /\ stage[r] = "idle" /\ req' \in [Requests -> {NoRequest} \cup Asked] /\ req'[r] \in Asked
      /\ \A s \in Requests \ {r} : req'[s] = req[s]
      /\ length' \in [Conversations -> Nat]
      /\ UNCHANGED <<conv, global, age>>
  BY ConsultStep
<1>2. CacheTypeOK /\ Served(r)
  BY DEF CacheInv
<1>3. ConvKey(r)' \in ConvKeys /\ GlobKey(r)' \in GlobalKeys
  BY <1>1 DEF ConvKey, GlobKey, ConvKeys, GlobalKeys, Asked
<1>4. source[r] = "none" /\ age[r] = 0
  BY <1>1, <1>2 DEF Served
<1>5. PICK k \in ConvKeys, g \in GlobalKeys : k = ConvKey(r)' /\ g = GlobKey(r)'
  BY <1>3
<1>6. /\ conv[k] \in Entries(ConvTTL) /\ global[g] \in Entries(GlobalTTL)
      /\ ConvHeld(k) /\ GlobalHeld(g)
  BY <1>2 DEF CacheTypeOK, CacheInv, ConvKeys, GlobalKeys
<1>7. PICK l \in {"done", "wait"}, f \in {"conv", "global", "none"}, a \in Requests \cup {None} :
        /\ stage' = [stage EXCEPT ![r] = l] /\ source' = [source EXCEPT ![r] = f]
        /\ answer' = [answer EXCEPT ![r] = a]
        /\ l = "wait" => f = "none"
        /\ f = "conv" => conv[k] # Absent /\ a = conv[k].by
        /\ f = "global" => global[g] # Absent /\ a = global[g].by
  <2>1. CASE /\ conv[k] # Absent
             /\ stage' = [stage EXCEPT ![r] = "done"] /\ source' = [source EXCEPT ![r] = "conv"]
             /\ answer' = [answer EXCEPT ![r] = conv[k].by]
    BY <1>6, <2>1 DEF Entries
  <2>2. CASE /\ global[g] # Absent
             /\ stage' = [stage EXCEPT ![r] = "done"] /\ source' = [source EXCEPT ![r] = "global"]
             /\ answer' = [answer EXCEPT ![r] = global[g].by]
    BY <1>6, <2>2 DEF Entries
  <2>3. CASE stage' = [stage EXCEPT ![r] = "wait"] /\ UNCHANGED <<source, answer>>
    BY <1>2, <1>4, <2>3 DEF CacheTypeOK
  <2> QED BY <1>5, <2>1, <2>2, <2>3, ConsultStep
<1>8. /\ stage'[r] = l /\ source'[r] = f /\ answer'[r] = a
      /\ \A s \in Requests \ {r} :
           stage'[s] = stage[s] /\ source'[s] = source[s] /\ answer'[s] = answer[s]
  BY <1>2, <1>7 DEF CacheTypeOK
<1>9. CacheTypeOK'
  BY <1>1, <1>2, <1>7, <1>8 DEF CacheTypeOK
<1>10. Alone(r)
  BY <1>1, <1>8 DEF Alone
<1>11. /\ \A q \in ConvKeys : ConvHeld(q)'
       /\ \A q \in GlobalKeys : GlobalHeld(q)'
  BY <1>1, <1>10, AloneHeld
<1>12. \A s \in Requests \ {r} : Served(s)' /\ Kept(s)'
  BY <1>1, <1>10, AloneOthers, AloneKept
<1>13. Served(r)' /\ Kept(r)'
  <2>1. f = "conv" => Modelled(a)' /\ ConvKey(a)' = k
    BY <1>6, <1>7, <1>10, AloneModelled DEF ConvHeld
  <2>2. f = "global" => Modelled(a)' /\ GlobKey(a)' = g
    BY <1>6, <1>7, <1>10, AloneModelled DEF GlobalHeld
  <2>3. age'[r] = 0
    BY <1>1, <1>4
  <2> QED BY <1>5, <1>7, <1>8, <2>1, <2>2, <2>3 DEF Served, Kept, Modelled, ConvKey, GlobKey
<1> QED BY <1>9, <1>11, <1>12, <1>13 DEF CacheInv

\* The model's answer: the entries it writes are its own and fresh.
LEMMA StoreInv ==
    ASSUME CacheInv, NEW r \in Requests, Complete(r) \/ CompleteHalf(r) PROVE CacheInv'
<1>1. CacheTypeOK /\ Served(r) /\ stage[r] = "wait" /\ req' = req /\ age' = age
  BY DEF CacheInv, Complete, CompleteHalf, End, Store
<1>2. source[r] = "none" /\ age[r] = 0 /\ req[r] \in Asked
  BY <1>1 DEF Served, CacheTypeOK
<1>3. ConvKey(r) \in ConvKeys /\ GlobKey(r) \in GlobalKeys
  BY <1>2, KeysOf
<1>4. PICK k \in ConvKeys, g \in GlobalKeys : k = ConvKey(r) /\ g = GlobKey(r)
  BY <1>3
<1>5. ConvTTL \in Nat \ {0} /\ GlobalTTL \in Nat \ {0} /\ None \notin Requests
  BY ResponseCacheAssumption DEF ResponseCacheAssumption
<1>6. Entry(r, ConvTTL) \in Entries(ConvTTL) /\ Entry(r, GlobalTTL) \in Entries(GlobalTTL)
  BY <1>5 DEF Entry, Entries
<1>7. /\ \A t : Entry(r, t).by = r /\ Entry(r, t).left = t
      /\ \A t \in {ConvTTL, GlobalTTL} : Entry(r, t) # Absent
  BY <1>5 DEF Entry, Absent
<1>8. /\ conv' = [conv EXCEPT ![k] = Entry(r, ConvTTL)]
      /\ source' = [source EXCEPT ![r] = "model"] /\ answer' = [answer EXCEPT ![r] = r] /\ Turn(r)
      /\ \/ /\ stage' = [stage EXCEPT ![r] = "done"]
            /\ global' = [global EXCEPT ![g] = Entry(r, GlobalTTL)]
         \/ stage' = [stage EXCEPT ![r] = "failed"] /\ UNCHANGED global
  BY <1>1, <1>4 DEF Complete, CompleteHalf, End, Store, ConversationKey, GlobalKey, ConvKey, GlobKey
<1>9. length' \in [Conversations -> Nat]
  <2>1. PICK c \in Conversations : c = req[r].conv
    BY <1>2 DEF Asked
  <2>2. length' = [length EXCEPT ![c] = @ + 1] /\ length \in [Conversations -> Nat]
    BY <1>1, <1>8, <2>1 DEF Turn, CacheTypeOK
  <2> QED BY <2>2
<1>10. /\ stage'[r] \in {"done", "failed"} /\ source'[r] = "model" /\ answer'[r] = r
       /\ \A s \in Requests \ {r} :
            stage'[s] = stage[s] /\ source'[s] = source[s] /\ answer'[s] = answer[s]
  BY <1>1, <1>8 DEF CacheTypeOK
<1>11. /\ conv'[k] = Entry(r, ConvTTL) /\ \A q \in ConvKeys \ {k} : conv'[q] = conv[q]
       /\ \A q \in GlobalKeys \ {g} : global'[q] = global[q]
       /\ global'[g] = Entry(r, GlobalTTL) \/ (stage'[r] = "failed" /\ global'[g] = global[g])
  BY <1>1, <1>8 DEF CacheTypeOK, ConvKeys, GlobalKeys
<1>12. CacheTypeOK'
  BY <1>1, <1>2, <1>6, <1>8, <1>9 DEF CacheTypeOK
<1>13. Alone(r)
  BY <1>1, <1>10 DEF Alone
<1>14. Modelled(r)' /\ ConvKey(r)' = k /\ GlobKey(r)' = g /\ age'[r] = 0
  BY <1>1, <1>2, <1>4, <1>10 DEF Modelled, ConvKey, GlobKey
<1>15. ASSUME NEW q \in ConvKeys PROVE ConvHeld(q)'
  <2>1. CASE q # k
    BY <1>11, <1>13, <2>1, AloneHeld
  <2>2. CASE q = k
    <3>1. conv'[q].by = r /\ conv'[q].left = ConvTTL
      BY <1>7, <1>11, <2>2
    <3> QED BY <1>5, <1>14, <2>2, <3>1 DEF ConvHeld, Modelled, ConvKey
  <2> QED BY <2>1, <2>2
<1>16. ASSUME NEW q \in GlobalKeys PROVE GlobalHeld(q)'
  <2>1. CASE global'[q] = global[q]
    BY <1>13, <2>1, AloneHeld
  <2>2. CASE q = g /\ global'[g] = Entry(r, GlobalTTL)
    <3>1. global'[q].by = r /\ global'[q].left = GlobalTTL
      BY <1>7, <2>2
    <3> QED BY <1>5, <1>14, <2>2, <3>1 DEF GlobalHeld, Modelled, GlobKey
  <2> QED BY <1>11, <2>1, <2>2
<1>17. \A s \in Requests \ {r} : Served(s)' /\ Kept(s)'
  <2>1. \A q \in GlobalKeys : global'[q] = global[q]
           \/ (global'[q] # Absent /\ global'[q].left = GlobalTTL)
    BY <1>7, <1>11
  <2> QED BY <1>13, <2>1, AloneOthers, AloneKept
<1>18. Served(r)' /\ Kept(r)'
  <2>1. Served(r)'
    BY <1>10, <1>14 DEF Served
  <2>2. stage'[r] = "done" => global'[g] # Absent /\ global'[g].left = GlobalTTL
    BY <1>7, <1>11
  <2> QED BY <1>5, <1>14, <2>1, <2>2 DEF Kept
<1> QED BY <1>12, <1>15, <1>16, <1>17, <1>18 DEF CacheInv

\* A model that fails leaves the caches and the other requests as they are.
LEMMA FailedInv == ASSUME CacheInv, NEW r \in Requests, Failed(r) PROVE CacheInv'
<1>1. /\ CacheTypeOK /\ Served(r) /\ stage[r] = "wait" /\ stage' = [stage EXCEPT ![r] = "failed"]
      /\ UNCHANGED <<req, conv, global, length, source, answer, age>>
  BY DEF CacheInv, Failed, End
<1>2. stage'[r] = "failed" /\ \A s \in Requests \ {r} : stage'[s] = stage[s]
  BY <1>1 DEF CacheTypeOK
<1>3. CacheTypeOK'
  BY <1>1 DEF CacheTypeOK
<1>4. Alone(r)
  BY <1>1, <1>2 DEF Alone
<1>5. Served(r)' /\ Kept(r)'
  BY <1>1, <1>2 DEF Served, Kept
<1> QED BY <1>1, <1>3, <1>4, <1>5, AloneHeld, AloneOthers, AloneKept DEF CacheInv

\* Deleting a conversation leaves every answer where it is.
LEMMA DeleteInv == ASSUME CacheInv, NEW c \in Conversations, Delete(c) PROVE CacheInv'
<1>1. /\ CacheTypeOK /\ length' = [length EXCEPT ![c] = 0]
      /\ UNCHANGED <<conv, global, stage, req, source, answer, age>>
  BY DEF CacheInv, Delete
<1>2. CacheTypeOK'
  BY <1>1 DEF CacheTypeOK
<1> QED BY <1>1, <1>2 DEF CacheInv, ConvHeld, GlobalHeld, Served, Kept, Modelled, ConvKey, GlobKey

\* What was served stays served when only ages and caches change.
LEMMA SettledServed ==
    ASSUME CacheInv, UNCHANGED <<stage, req, source, answer>>,
           \A r \in Requests : source[r] # "model" => age'[r] = age[r]
    PROVE  \A r \in Requests : Served(r)'
BY DEF CacheInv, Served, Modelled, ConvKey, GlobKey

LEMMA FlushInv == ASSUME CacheInv, Flush PROVE CacheInv'
<1>1. /\ CacheTypeOK /\ UNCHANGED <<stage, req, source, answer>>
      /\ conv' = [k \in ConvKeys |-> Absent] /\ global' = [k \in GlobalKeys |-> Absent]
      /\ length' = [c \in Conversations |-> 0]
      /\ age' = [r \in Requests |-> IF source[r] = "model" THEN GlobalTTL ELSE age[r]]
  BY DEF CacheInv, Flush, CacheTypeOK, ConvKeys, GlobalKeys
<1>2. GlobalTTL \in Nat
  BY ResponseCacheAssumption DEF ResponseCacheAssumption
<1>3. CacheTypeOK'
  <2>1. age' \in [Requests -> 0 .. GlobalTTL]
    BY <1>1, <1>2 DEF CacheTypeOK
  <2> QED BY <1>1, <2>1 DEF CacheTypeOK, ConvKeys, GlobalKeys, Entries
<1>4. \A k \in ConvKeys : ConvHeld(k)'
  BY <1>1 DEF ConvHeld, Absent
<1>5. \A k \in GlobalKeys : GlobalHeld(k)'
  BY <1>1 DEF GlobalHeld, Absent
<1>6. \A r \in Requests : Served(r)'
  BY <1>1, SettledServed
<1>7. \A r \in Requests : Kept(r)'
  BY <1>1, <1>2 DEF Kept
<1> QED BY <1>3, <1>4, <1>5, <1>6, <1>7 DEF CacheInv

\* An entry that grows older is still what it was, or gone.
LEMMA OlderEntry ==
    ASSUME NEW t \in Nat, NEW e \in Entries(t)
    PROVE  /\ Older(e) \in Entries(t)
           /\ e.left <= 1 => Older(e) = Absent
           /\ e.left > 1 => Older(e).by = e.by /\ Older(e).left = e.left - 1 /\ Older(e) # Absent
<1>1. CASE e = Absent
  BY <1>1 DEF Older, Absent, Entries
<1>2. CASE e # Absent
  <2>1. e \in [by : Requests, left : 1 .. t]
    BY <1>2 DEF Entries
  <2>2. CASE e.left <= 1
    BY <2>1, <2>2 DEF Older, Entries
  <2>3. CASE e.left > 1
    <3>1. Older(e) = [by |-> e.by, left |-> e.left - 1] /\ e.left \in 1 .. t
      BY <2>1, <2>3 DEF Older
    <3>2. e.left - 1 \in 1 .. t
      BY <2>3, <3>1
    <3> QED BY <2>1, <2>3, <3>1, <3>2 DEF Entries, Absent
  <2> QED BY <2>1, <2>2, <2>3
<1> QED BY <1>1, <1>2

LEMMA TickInv == ASSUME CacheInv, Tick PROVE CacheInv'
<1>1. /\ CacheTypeOK /\ UNCHANGED <<length, stage, req, source, answer>>
      /\ conv' = [k \in ConvKeys |-> Older(conv[k])] /\ global' = [k \in GlobalKeys |-> Older(global[k])]
      /\ age' = [r \in Requests |->
                   IF source[r] = "model" /\ age[r] < GlobalTTL THEN age[r] + 1 ELSE age[r]]
  BY DEF CacheInv, Tick, CacheTypeOK, ConvKeys, GlobalKeys
<1>2. ConvTTL \in Nat /\ GlobalTTL \in Nat
  BY ResponseCacheAssumption DEF ResponseCacheAssumption
<1>3. /\ conv \in [ConvKeys -> Entries(ConvTTL)] /\ global \in [GlobalKeys -> Entries(GlobalTTL)]
      /\ age \in [Requests -> 0 .. GlobalTTL]
  BY <1>1 DEF CacheTypeOK, ConvKeys, GlobalKeys
<1>4. /\ \A k \in ConvKeys :
           /\ conv'[k] \in Entries(ConvTTL)
           /\ conv[k].left <= 1 => conv'[k] = Absent
           /\ conv[k].left > 1 => conv'[k].by = conv[k].by /\ conv'[k].left = conv[k].left - 1
                                  /\ conv'[k] # Absent
      /\ \A k \in GlobalKeys :
           /\ global'[k] \in Entries(GlobalTTL)
           /\ global[k].left <= 1 => global'[k] = Absent
           /\ global[k].left > 1 => global'[k].by = global[k].by /\ global'[k].left = global[k].left - 1
                                    /\ global'[k] # Absent
  BY <1>1, <1>2, <1>3, OlderEntry
<1>5. CacheTypeOK'
  <2>1. age' \in [Requests -> 0 .. GlobalTTL]
    BY <1>1, <1>2, <1>3
  <2>2. conv' \in [ConvKeys -> Entries(ConvTTL)] /\ global' \in [GlobalKeys -> Entries(GlobalTTL)]
    BY <1>1, <1>4
  <2> QED BY <1>1, <2>1, <2>2 DEF CacheTypeOK, ConvKeys, GlobalKeys
<1>6. \A a \in Requests : age[a] \in Nat /\ age'[a] \in Nat /\ age'[a] <= age[a] + 1
  BY <1>1, <1>2, <1>3
<1>7. ASSUME NEW k \in ConvKeys PROVE ConvHeld(k)'
  <2>1. CASE conv[k].left <= 1
    BY <1>4, <2>1 DEF ConvHeld
  <2>2. CASE conv[k].left > 1
    <3>1. conv[k] # Absent /\ conv[k].left \in Nat
      BY <1>2, <1>3, <2>2 DEF Absent, Entries
    <3>2. PICK b : b = conv[k].by
      OBVIOUS
    <3>3. Modelled(b) /\ ConvKey(b) = k /\ age[b] + conv[k].left <= ConvTTL
      BY <3>1, <3>2 DEF CacheInv, ConvHeld
    <3>4. Modelled(b)' /\ ConvKey(b)' = k
      BY <1>1, <3>3 DEF Modelled, ConvKey
    <3>5. age'[b] + conv'[k].left <= ConvTTL
      BY <1>2, <1>4, <1>6, <2>2, <3>1, <3>3 DEF Modelled
    <3>6. conv'[k].by = b
      BY <1>4, <2>2, <3>2
    <3> QED BY <3>4, <3>5, <3>6 DEF ConvHeld, Modelled, ConvKey
  <2>3. conv[k].left \in Int
    BY <1>2, <1>3 DEF Absent, Entries
  <2> QED BY <2>1, <2>2, <2>3
<1>8. ASSUME NEW k \in GlobalKeys PROVE GlobalHeld(k)'
  <2>1. CASE global[k].left <= 1
    BY <1>4, <2>1 DEF GlobalHeld
  <2>2. CASE global[k].left > 1
    <3>1. global[k] # Absent /\ global[k].left \in Nat
      BY <1>2, <1>3, <2>2 DEF Absent, Entries
    <3>2. PICK b : b = global[k].by
      OBVIOUS
    <3>3. Modelled(b) /\ GlobKey(b) = k /\ age[b] + global[k].left <= GlobalTTL
      BY <3>1, <3>2 DEF CacheInv, GlobalHeld
    <3>4. Modelled(b)' /\ GlobKey(b)' = k
      BY <1>1, <3>3 DEF Modelled, GlobKey
    <3>5. age'[b] + global'[k].left <= GlobalTTL
      BY <1>2, <1>4, <1>6, <2>2, <3>1, <3>3 DEF Modelled
    <3>6. global'[k].by = b
      BY <1>4, <2>2, <3>2
    <3> QED BY <3>4, <3>5, <3>6 DEF GlobalHeld, Modelled, GlobKey
  <2>3. global[k].left \in Int
    BY <1>2, <1>3 DEF Absent, Entries
  <2> QED BY <2>1, <2>2, <2>3
<1>9. \A r \in Requests : Served(r)'
  <2>1. \A r \in Requests : source[r] # "model" => age'[r] = age[r]
    BY <1>1
  <2> QED BY <1>1, <2>1, SettledServed
<1>10. ASSUME NEW r \in Requests PROVE Kept(r)'
  <2> SUFFICES ASSUME stage[r] = "done", source[r] = "model", age'[r] < GlobalTTL
               PROVE  global'[GlobKey(r)] # Absent /\ global'[GlobKey(r)].left + age'[r] >= GlobalTTL
    BY <1>1 DEF Kept, GlobKey
  <2>1. PICK g \in GlobalKeys : g = GlobKey(r)
    BY <1>1, KeysOf DEF CacheTypeOK
  <2>2. age[r] < GlobalTTL /\ age'[r] = age[r] + 1 /\ age[r] \in Nat
    BY <1>1, <1>2, <1>3
  <2>3. global[g] # Absent /\ global[g].left + age[r] >= GlobalTTL
    BY <2>1, <2>2 DEF CacheInv, Kept
  <2>4. global[g].left \in Nat
    BY <1>2, <1>3 DEF Absent, Entries
  <2>5. global[g].left > 1
    BY <1>2, <2>2, <2>3, <2>4
  <2>6. global'[g] # Absent /\ global'[g].left + age'[r] >= GlobalTTL
    BY <1>2, <1>4, <2>2, <2>3, <2>4, <2>5
  <2> QED BY <2>1, <2>6
<1> QED BY <1>5, <1>7, <1>8, <1>9, <1>10 DEF CacheInv

LEMMA NextCacheInv == ASSUME CacheInv, [CacheNext]_cache PROVE CacheInv'
<1>1. CASE UNCHANGED cache
  BY <1>1 DEF CacheInv, CacheTypeOK, ConvHeld, GlobalHeld, Served, Kept, Modelled, ConvKey, GlobKey, cache
<1>2. CASE CacheNext
  BY <1>2, ConsultInv, StoreInv, FailedInv, DeleteInv, FlushInv, TickInv DEF CacheNext
<1> QED BY <1>1, <1>2

\* CacheInv is an invariant.
THEOREM CacheInvariant == CacheSpec => []CacheInv
BY InitCacheInv, NextCacheInv, PTL DEF CacheSpec

\* A cached answer was given by a model to the same question.
THEOREM RightAnswers == CacheSpec => []AnswersItsQuestion
<1>1. CacheInv => AnswersItsQuestion
  BY DEF CacheInv, AnswersItsQuestion, Served, SameKey, Modelled, ConvKey, GlobKey
<1> QED BY <1>1, CacheInvariant, PTL

\* Only a lookup serves from a cache, and only a lookup sends an idle request on.
LEMMA OnlyConsult ==
    ASSUME CacheInv, [CacheNext]_cache, NEW r \in Requests,
           \/ source'[r] # source[r] /\ source'[r] \in {"conv", "global"}
           \/ stage[r] = "idle" /\ stage'[r] # "idle"
    PROVE  Consult(r)
<1>1. CacheTypeOK
  BY DEF CacheInv
<1>2. CacheNext
  BY DEF cache
<1>3. ASSUME NEW s \in Requests, Consult(s), s # r PROVE FALSE
  <2>1. \E x : stage' = [stage EXCEPT ![s] = x]
    BY <1>3 DEF Consult, HitConversation, HitGlobal, Hit, Miss
  <2>2. source' = source \/ \E x : source' = [source EXCEPT ![s] = x]
    BY <1>3 DEF Consult, HitConversation, HitGlobal, Hit, Miss
  <2>3. stage'[r] = stage[r]
    BY <1>1, <1>3, <2>1 DEF CacheTypeOK
  <2>4. source'[r] = source[r]
    BY <1>1, <1>3, <2>2 DEF CacheTypeOK
  <2> QED BY <2>3, <2>4
<1>4. ASSUME NEW s \in Requests, Complete(s) \/ CompleteHalf(s) PROVE FALSE
  <2>1. /\ stage[s] = "wait" /\ source' = [source EXCEPT ![s] = "model"]
        /\ stage' = [stage EXCEPT ![s] = "done"] \/ stage' = [stage EXCEPT ![s] = "failed"]
    BY <1>4 DEF Complete, CompleteHalf, End, Store
  <2> QED BY <1>1, <2>1 DEF CacheTypeOK
<1>5. ASSUME NEW s \in Requests, Failed(s) PROVE FALSE
  <2>1. stage[s] = "wait" /\ source' = source /\ stage' = [stage EXCEPT ![s] = "failed"]
    BY <1>5 DEF Failed, End
  <2> QED BY <1>1, <2>1 DEF CacheTypeOK
<1>6. ~ ((\E c \in Conversations : Delete(c)) \/ Flush \/ Tick)
  BY DEF Delete, Flush, Tick
<1> QED BY <1>2, <1>3, <1>4, <1>5, <1>6 DEF CacheNext

\* A hit never serves an answer older than its cache's TTL.
THEOREM FreshHits == CacheSpec => HitsAreFresh
<1> DEFINE Rule ==
      \A r \in Requests :
         /\ source[r] # "conv" /\ source'[r] = "conv" => age[answer'[r]] < ConvTTL
         /\ source[r] # "global" /\ source'[r] = "global" => age[answer'[r]] < GlobalTTL
<1>1. ASSUME CacheInv, [CacheNext]_cache PROVE Rule
  <2>1. SUFFICES ASSUME NEW r \in Requests
                 PROVE  /\ source[r] # "conv" /\ source'[r] = "conv" => age[answer'[r]] < ConvTTL
                        /\ source[r] # "global" /\ source'[r] = "global" => age[answer'[r]] < GlobalTTL
    OBVIOUS
  <2>2. CacheTypeOK /\ ConvTTL \in Nat /\ GlobalTTL \in Nat
    BY <1>1, ResponseCacheAssumption DEF CacheInv, ResponseCacheAssumption
  <2>3. ASSUME source[r] # "conv", source'[r] = "conv" PROVE age[answer'[r]] < ConvTTL
    <3>1. Consult(r)
      BY <1>1, <2>3, OnlyConsult
    <3>2. /\ conv[ConvKey(r)'] # Absent /\ answer' = [answer EXCEPT ![r] = conv[ConvKey(r)'].by]
          /\ req'[r] \in Asked
      BY <1>1, <2>2, <2>3, <3>1, ConsultStep DEF CacheTypeOK
    <3>3. PICK k \in ConvKeys : k = ConvKey(r)'
      BY <3>2 DEF ConvKey, ConvKeys, Asked
    <3>4. answer'[r] = conv[k].by /\ ConvHeld(k) /\ conv[k] # Absent
      BY <1>1, <2>2, <3>2, <3>3 DEF CacheTypeOK, CacheInv
    <3>5. conv[k].left \in Nat \ {0} /\ conv[k].by \in Requests
      BY <2>2, <3>4 DEF CacheTypeOK, ConvKeys, Entries
    <3>6. age[conv[k].by] \in Nat
      BY <2>2, <3>5 DEF CacheTypeOK
    <3> QED BY <2>2, <3>4, <3>5, <3>6 DEF ConvHeld
  <2>4. ASSUME source[r] # "global", source'[r] = "global" PROVE age[answer'[r]] < GlobalTTL
    <3>1. Consult(r)
      BY <1>1, <2>4, OnlyConsult
    <3>2. /\ global[GlobKey(r)'] # Absent /\ answer' = [answer EXCEPT ![r] = global[GlobKey(r)'].by]
          /\ req'[r] \in Asked
      BY <1>1, <2>2, <2>4, <3>1, ConsultStep DEF CacheTypeOK
    <3>3. PICK g \in GlobalKeys : g = GlobKey(r)'
      BY <3>2 DEF GlobKey, GlobalKeys, Asked
    <3>4. answer'[r] = global[g].by /\ GlobalHeld(g) /\ global[g] # Absent
      BY <1>1, <2>2, <3>2, <3>3 DEF CacheTypeOK, CacheInv
    <3>5. global[g].left \in Nat \ {0} /\ global[g].by \in Requests
      BY <2>2, <3>4 DEF CacheTypeOK, GlobalKeys, Entries
    <3>6. age[global[g].by] \in Nat
      BY <2>2, <3>5 DEF CacheTypeOK
    <3> QED BY <2>2, <3>4, <3>5, <3>6 DEF GlobalHeld
  <2> QED BY <2>3, <2>4
<1>2. CacheInv /\ [CacheNext]_cache => [Rule]_cache
  BY <1>1
<1> QED BY <1>2, CacheInvariant, PTL DEF CacheSpec, HitsAreFresh

\* While a model's answer is younger than the global TTL, no twin reaches a model.
THEOREM OneCall == CacheSpec => NoSecondCall
<1> DEFINE Rule ==
      \A r \in Requests : stage[r] = "idle" /\ stage'[r] = "wait" =>
         \A s \in Requests : stage[s] = "done" /\ source[s] = "model" /\ age[s] < GlobalTTL =>
             ~ (SameKey(r, s))'
<1>1. ASSUME CacheInv, [CacheNext]_cache PROVE Rule
  <2>1. SUFFICES ASSUME NEW r \in Requests, stage[r] = "idle", stage'[r] = "wait",
                        NEW s \in Requests, stage[s] = "done", source[s] = "model",
                        age[s] < GlobalTTL, SameKey(r, s)'
                 PROVE  FALSE
    OBVIOUS
  <2>2. CacheTypeOK /\ Kept(s)
    BY <1>1 DEF CacheInv
  <2>3. Consult(r)
    BY <1>1, <2>1, OnlyConsult
  <2>4. global[GlobKey(r)'] = Absent /\ \A q \in Requests \ {r} : req'[q] = req[q]
    BY <1>1, <2>1, <2>2, <2>3, ConsultStep DEF CacheTypeOK
  <2>5. GlobKey(r)' = GlobKey(s)
    BY <2>1, <2>4 DEF SameKey, GlobKey
  <2> QED BY <2>1, <2>2, <2>4, <2>5 DEF Kept
<1>2. CacheInv /\ [CacheNext]_cache => [Rule]_cache
  BY <1>1
<1> QED BY <1>2, CacheInvariant, PTL DEF CacheSpec, NoSecondCall
=============================================================================
