---------------------------- MODULE Conversation ----------------------------
(***************************************************************************)
(* One conversation of one user in Redis: the capped list of its messages, *)
(* its metadata hash and its entry in the user's index.  The chat handlers *)
(* are coroutines, so two of them interleave only while one awaits its     *)
(* model; create and delete are sync endpoints whose commands fall between *)
(* any two of a chat's.  Each Redis command is a step.                     *)
(*                                                                         *)
(* A message is its role and the number of its turn.                       *)
(***************************************************************************)
EXTENDS Integers, Sequences, SequencesExt

CONSTANTS
    Chats,      \* concurrent chat requests on this conversation
    Threads,    \* threads running create or delete
    Cap,        \* messages kept, 40
    MaxTurns,   \* bound: chat requests in all
    MaxFaults   \* bound: Redis errors and crashes

ASSUME ConversationAssumption ==
    /\ Chats # {} /\ Chats \cap Threads = {}
    /\ Cap \in Nat /\ Cap > 0 /\ Cap % 2 = 0
    /\ MaxTurns \in Nat /\ MaxFaults \in Nat

VARIABLES
    history,    \* conversation:{id}, newest first
    expires,    \* has it a TTL?
    meta,       \* does conversation:{id}:meta exist?
    listed,     \* is it in user:{user_id}:conversations?
    pc,         \* next command of a chat or a thread
    turn,       \* the turn a chat is about
    turns, created, faults

vars == <<history, expires, meta, listed, pc, turn, turns, created, faults>>
list == <<history, expires>>
counters == <<turn, turns, created, faults>>

Question(n) == [role |-> "user", turn |-> n]
Answer(n) == [role |-> "assistant", turn |-> n]

Init ==
    /\ history = <<>> /\ expires = FALSE
    /\ meta = FALSE /\ listed = FALSE
    /\ pc = [p \in Chats \cup Threads |-> "idle"]
    /\ turn = [c \in Chats |-> 0]
    /\ turns = 0 /\ created = FALSE /\ faults = 0

From(p, l, m) == pc[p] = l /\ pc' = [pc EXCEPT ![p] = m]

\* A coroutine runs until it awaits: no other chat is between two commands.
Runs(c) == \A d \in Chats \ {c} : pc[d] \in {"idle", "wait"}

-----------------------------------------------------------------------------
(* link_conversation_to_user: index, then metadata *)

LinkIndex(p, m) ==
    /\ From(p, "index", m) /\ listed' = TRUE
    /\ UNCHANGED <<list, meta, counters>>

LinkMeta(p, m) ==
    /\ From(p, "meta", m) /\ meta' = TRUE
    /\ UNCHANGED <<list, listed, counters>>

-----------------------------------------------------------------------------
(* A chat request, cached, generated or streamed *)

Ask(c) ==
    /\ Runs(c) /\ turns < MaxTurns
    /\ From(c, "idle", "owns")
    /\ turns' = turns + 1 /\ turn' = [turn EXCEPT ![c] = turns + 1]
    /\ UNCHANGED <<list, meta, listed, created, faults>>

\* user_owns_conversation: link it unless it is already this user's.
Owns(c) ==
    /\ Runs(c)
    /\ From(c, "owns", IF listed THEN "lookup" ELSE "index")
    /\ UNCHANGED <<list, meta, listed, counters>>

\* A cached answer is stored at once; otherwise the history is read and the
\* model awaited.
Lookup(c) ==
    /\ Runs(c)
    /\ From(c, "lookup", "user") \/ From(c, "lookup", "wait")
    /\ UNCHANGED <<list, meta, listed, counters>>

\* Inference ends, with an answer or an error.
Answered(c) ==
    /\ Runs(c)
    /\ From(c, "wait", "user") \/ From(c, "wait", "idle")
    /\ UNCHANGED <<list, meta, listed, counters>>

Lpush(c, l, m, msg) ==
    /\ Runs(c) /\ From(c, l, m)
    /\ history' = <<msg>> \o history
    /\ UNCHANGED <<expires, meta, listed, counters>>

\* Mutant of Ltrim: LTRIM 0 40 keeps one message too many.
LtrimOneMore(c, l, m) ==
    /\ Runs(c) /\ From(c, l, m)
    /\ history' = SubSeq(history, 1, IF Len(history) > Cap + 1 THEN Cap + 1 ELSE Len(history))
    /\ UNCHANGED <<expires, meta, listed, counters>>

\* Mutant of Ltrim: LTRIM -40 -1, as if the newest message were the last.
LtrimNewest(c, l, m) ==
    /\ Runs(c) /\ From(c, l, m)
    /\ history' = SubSeq(history, IF Len(history) > Cap THEN Len(history) - Cap + 1 ELSE 1, Len(history))
    /\ UNCHANGED <<expires, meta, listed, counters>>

\* LTRIM 0 39.
Ltrim(c, l, m) ==
    /\ Runs(c) /\ From(c, l, m)
    /\ history' = SubSeq(history, 1, IF Len(history) > Cap THEN Cap ELSE Len(history))
    /\ UNCHANGED <<expires, meta, listed, counters>>

\* Mutant of Expire: only a list seen for the first time gets a TTL.
ExpireFirst(c) ==
    /\ Runs(c) /\ From(c, "expire", "idle")
    /\ expires' = (expires \/ turn[c] = 1)
    /\ UNCHANGED <<history, meta, listed, counters>>

\* set_conversation_ttl; a list deleted since the pushes has no key.
Expire(c) ==
    /\ Runs(c) /\ From(c, "expire", "idle")
    /\ expires' = (history # <<>>)
    /\ UNCHANGED <<history, meta, listed, counters>>

Chat(c) ==
    \/ Ask(c) \/ Owns(c)
    \/ Runs(c) /\ (LinkIndex(c, "meta") \/ LinkMeta(c, "lookup"))
    \/ Lookup(c) \/ Answered(c)
    \/ Lpush(c, "user", "trim user", Question(turn[c]))
    \/ Ltrim(c, "trim user", "assistant")
    \/ Lpush(c, "assistant", "trim assistant", Answer(turn[c]))
    \/ Ltrim(c, "trim assistant", "expire")
    \/ Expire(c)

-----------------------------------------------------------------------------
(* create_conversation and delete_conversation *)

Create(t) ==
    /\ ~ created /\ created' = TRUE
    /\ From(t, "idle", "index")
    /\ UNCHANGED <<list, meta, listed, turn, turns, faults>>

\* 404 unless the conversation is listed.
DeleteBegins(t) ==
    /\ listed /\ From(t, "idle", "delete history")
    /\ UNCHANGED <<list, meta, listed, counters>>

DeleteHistory(t) ==
    /\ From(t, "delete history", "delete meta")
    /\ history' = <<>> /\ expires' = FALSE
    /\ UNCHANGED <<meta, listed, counters>>

DeleteMeta(t) ==
    /\ From(t, "delete meta", "unlink") /\ meta' = FALSE
    /\ UNCHANGED <<list, listed, counters>>

\* Mutant of Unlink: delete clears the conversation and leaves it listed.
UnlinkForgotten(t) ==
    /\ From(t, "unlink", "idle")
    /\ UNCHANGED <<list, meta, listed, counters>>

Unlink(t) ==
    /\ From(t, "unlink", "idle") /\ listed' = FALSE
    /\ UNCHANGED <<list, meta, counters>>

Thread(t) ==
    \/ Create(t) \/ LinkIndex(t, "meta") \/ LinkMeta(t, "idle")
    \/ DeleteBegins(t) \/ DeleteHistory(t) \/ DeleteMeta(t) \/ Unlink(t)

-----------------------------------------------------------------------------
(* The environment *)

Stop(P) ==
    /\ faults < MaxFaults /\ faults' = faults + 1
    /\ pc' = [p \in Chats \cup Threads |-> IF p \in P THEN "idle" ELSE pc[p]]
    /\ UNCHANGED <<list, meta, listed, turn, turns, created>>

\* A command raises, and the request with it.
Fail(p) == pc[p] # "idle" /\ Stop({p})
Crash == Stop(Chats \cup Threads)

\* The list's 24 hours are over.
Lapse ==
    /\ expires
    /\ history' = <<>> /\ expires' = FALSE
    /\ UNCHANGED <<meta, listed, pc, counters>>

\* DELETE /admin/redis/flush, on a thread of its own.
FlushAll ==
    /\ history' = <<>> /\ expires' = FALSE
    /\ meta' = FALSE /\ listed' = FALSE
    /\ UNCHANGED <<pc, counters>>

Next ==
    \/ \E c \in Chats : Chat(c)
    \/ \E t \in Threads : Thread(t)
    \/ \E p \in Chats \cup Threads : Fail(p)
    \/ Crash \/ Lapse \/ FlushAll

Spec == Init /\ [][Next]_vars

-----------------------------------------------------------------------------
(* Properties *)

Storing == {"user", "trim user", "assistant", "trim assistant", "expire"}
ChatSteps == {"idle", "owns", "index", "meta", "lookup", "wait"} \cup Storing
ThreadSteps == {"idle", "index", "meta", "delete history", "delete meta", "unlink"}

\* Every variable has its type, and at most one chat is between two commands.
TypeOK ==
    /\ history \in Seq([role : {"user", "assistant"}, turn : 1 .. MaxTurns])
    /\ expires \in BOOLEAN /\ meta \in BOOLEAN /\ listed \in BOOLEAN
    /\ created \in BOOLEAN
    /\ pc \in [Chats \cup Threads -> ChatSteps \cup ThreadSteps]
    /\ \A c \in Chats : pc[c] \in ChatSteps /\ (pc[c] # "idle" => turn[c] > 0)
    /\ \A t \in Threads : pc[t] \in ThreadSteps
    /\ turn \in [Chats -> 0 .. MaxTurns] /\ turns \in 0 .. MaxTurns
    /\ faults \in 0 .. MaxFaults
    /\ \E c \in Chats : Runs(c)

\* The list (add_conversation_message: "capped at 40") exceeds its cap by the
\* message being stored and by one for each fault between LPUSH and LTRIM.
HistoryBound == Len(history) <= Cap + 1 + faults

Paired(i, j) == history[i] = Answer(history[j].turn) /\ history[j] = Question(history[i].turn)

\* Without faults, whatever chats and deletes interleave, a history that is
\* not being written holds each question right before its answer; only the
\* oldest answer may have lost its question to a delete, the cap or the TTL.
\* So a model never sees an unanswered question in get_conversation_history.
WholeTurns ==
    faults = 0 /\ (\A c \in Chats : pc[c] \notin Storing) =>
        \A i \in DOMAIN history :
            /\ history[i].role = "user" => i > 1 /\ Paired(i - 1, i)
            /\ history[i].role = "assistant" /\ i < Len(history) => Paired(i, i + 1)

\* Without faults, a history that is not being written has a TTL, even one
\* that a delete removed halfway through a chat's pushes.
HistoryExpires ==
    faults = 0 /\ (\A c \in Chats : pc[c] \notin Storing) => (history # <<>> => expires)

AtRest == \A p \in Chats \cup Threads : pc[p] \in {"idle", "wait"}

\* Without faults, a listed conversation has its metadata once nothing is
\* writing: deletes remove the metadata first and the entry last.
ListedHasMeta == faults = 0 /\ AtRest => (listed => meta)

-----------------------------------------------------------------------------
(* Sentences of the repository that the code does not keep: README, section 3 *)

\* delete_conversation: "Delete a conversation and all its history."
DeletedWhole == AtRest => (~ listed => history = <<>> /\ ~ meta)
=============================================================================
