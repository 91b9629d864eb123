---------------------------- MODULE ResponseCache ----------------------------
(***************************************************************************)
(* The split response cache of chat_completion (chat.py, redis_service.py) *)
(* under concurrent requests of several conversations.  The handler is a   *)
(* coroutine, so it is two atomic segments: up to the await of the model,  *)
(* and from its answer on.  An answer is the request whose model call made *)
(* it, so every entry says where it comes from.                            *)
(*                                                                         *)
(* A question is the hash of prompt, temperature, system_prompt and top_p. *)
(* No provider is called "conv" or "global", so keys are distinct and the  *)
(* legacy key, which nothing writes, never hits.  Streamed and OpenAI-     *)
(* compatible requests bypass the cache and are left out.                  *)
(***************************************************************************)
EXTENDS Integers

CONSTANTS
    Requests, Conversations, Providers, Models, Questions,
    ConvTTL,    \* settings.CONVERSATION_CACHE_TTL, 600 s, in ticks
    GlobalTTL,  \* settings.GLOBAL_CACHE_TTL, 3600 s, in ticks
    None

ASSUME ResponseCacheAssumption ==
    /\ ConvTTL \in Nat \ {0} /\ GlobalTTL \in Nat /\ ConvTTL < GlobalTTL
    /\ None \notin Requests

VARIABLES
    conv,       \* cache:conv:{conversation}:{question}
    global,     \* cache:global:{provider}:{model}:{question}
    length,     \* turns in the conversation's history
    stage,      \* "idle", "wait", "done" or "failed"
    req,        \* the parameters of each request, and the history it saw
    source,     \* where a request's answer came from
    answer,     \* the request whose model call produced it
    age         \* ticks since that call ended, GlobalTTL once no cache can hold it

cache == <<conv, global, length, stage, req, source, answer, age>>

Absent == [by |-> None, left |-> 0]
Entry(r, ttl) == [by |-> r, left |-> ttl]
NoRequest == [conv |-> None, provider |-> None, model |-> None, question |-> None, context |-> 0]

CacheInit ==
    /\ conv = [k \in Conversations \X Questions |-> Absent]
    /\ global = [k \in Providers \X Models \X Questions |-> Absent]
    /\ length = [c \in Conversations |-> 0]
    /\ stage = [r \in Requests |-> "idle"]
    /\ req = [r \in Requests |-> NoRequest]
    /\ source = [r \in Requests |-> "none"]
    /\ answer = [r \in Requests |-> None]
    /\ age = [r \in Requests |-> 0]

Turn(r) == length' = [length EXCEPT ![req'[r].conv] = @ + 1]

-----------------------------------------------------------------------------
(* Up to the await *)

\* Mutant of ConversationKey: one cache for all conversations.
ConversationKeyShared(r) == <<CHOOSE c \in Conversations : TRUE, req'[r].question>>

ConversationKey(r) == <<req'[r].conv, req'[r].question>>

GlobalKey(r) == <<req'[r].provider, req'[r].model, req'[r].question>>

Arrive(r, c, p, m, q) ==
    /\ stage[r] = "idle"
    /\ req' = [req EXCEPT ![r] = [conv |-> c, provider |-> p, model |-> m,
                                  question |-> q, context |-> length[c]]]

\* A hit is answered at once and stored in the history.
Hit(r, e, s) ==
    /\ e # Absent
    /\ stage' = [stage EXCEPT ![r] = "done"]
    /\ source' = [source EXCEPT ![r] = s]
    /\ answer' = [answer EXCEPT ![r] = e.by]
    /\ Turn(r)
    /\ UNCHANGED age

HitConversation(r) ==
    /\ Hit(r, conv[ConversationKey(r)], "conv")
    /\ UNCHANGED <<conv, global>>

\* Mutants of HitGlobal: a hit renews the entry's TTL, or moves it into the
\* conversation's cache.
HitGlobalRenews(r) ==
    /\ conv[ConversationKey(r)] = Absent
    /\ Hit(r, global[GlobalKey(r)], "global")
    /\ global' = [global EXCEPT ![GlobalKey(r)].left = GlobalTTL]
    /\ UNCHANGED conv

HitGlobal(r) ==
    /\ conv[ConversationKey(r)] = Absent
    /\ Hit(r, global[GlobalKey(r)], "global")
    /\ UNCHANGED <<conv, global>>

Miss(r) ==
    /\ conv[ConversationKey(r)] = Absent /\ global[GlobalKey(r)] = Absent
    /\ stage' = [stage EXCEPT ![r] = "wait"]
    /\ UNCHANGED <<conv, global, length, source, answer, age>>

Consult(r) ==
    \E c \in Conversations, p \in Providers, m \in Models, q \in Questions :
        /\ Arrive(r, c, p, m, q)
        /\ HitConversation(r) \/ HitGlobal(r) \/ Miss(r)

-----------------------------------------------------------------------------
(* From the model's answer on *)

End(r, result) ==
    /\ stage[r] = "wait" /\ stage' = [stage EXCEPT ![r] = result]
    /\ UNCHANGED req

Store(r) ==
    /\ conv' = [conv EXCEPT ![ConversationKey(r)] = Entry(r, ConvTTL)]
    /\ source' = [source EXCEPT ![r] = "model"]
    /\ answer' = [answer EXCEPT ![r] = r]
    /\ Turn(r)
    /\ UNCHANGED age

\* Mutant of Complete: the global TTL is the conversation's.
CompleteShort(r) ==
    /\ End(r, "done") /\ Store(r)
    /\ global' = [global EXCEPT ![GlobalKey(r)] = Entry(r, ConvTTL)]

\* The answer is cached twice: cache:conv for ten minutes, cache:global for an hour.
Complete(r) ==
    /\ End(r, "done") /\ Store(r)
    /\ global' = [global EXCEPT ![GlobalKey(r)] = Entry(r, GlobalTTL)]

\* Redis fails between the two writes: the client gets an error.
CompleteHalf(r) ==
    /\ End(r, "failed") /\ Store(r)
    /\ UNCHANGED global

\* The model fails, or Redis before the turn is stored.
Failed(r) ==
    /\ End(r, "failed")
    /\ UNCHANGED <<conv, global, length, source, answer, age>>

-----------------------------------------------------------------------------
\* clear_conversation: the cached answers of the conversation stay.
Delete(c) ==
    /\ length' = [length EXCEPT ![c] = 0]
    /\ UNCHANGED <<conv, global, stage, req, source, answer, age>>

\* DELETE /admin/redis/flush: all histories and cached answers are gone.
Flush ==
    /\ conv' = [k \in DOMAIN conv |-> Absent]
    /\ global' = [k \in DOMAIN global |-> Absent]
    /\ length' = [c \in Conversations |-> 0]
    /\ age' = [r \in Requests |-> IF source[r] = "model" THEN GlobalTTL ELSE age[r]]
    /\ UNCHANGED <<stage, req, source, answer>>

Older(e) == IF e.left <= 1 THEN Absent ELSE [e EXCEPT !.left = @ - 1]

Tick ==
    /\ conv' = [k \in DOMAIN conv |-> Older(conv[k])]
    /\ global' = [k \in DOMAIN global |-> Older(global[k])]
    /\ age' = [r \in Requests |->
                 IF source[r] = "model" /\ age[r] < GlobalTTL THEN age[r] + 1 ELSE age[r]]
    /\ UNCHANGED <<length, stage, req, source, answer>>

CacheNext ==
    \/ \E r \in Requests : Consult(r) \/ Complete(r) \/ CompleteHalf(r) \/ Failed(r)
    \/ \E c \in Conversations : Delete(c)
    \/ Flush \/ Tick

CacheSpec == CacheInit /\ [][CacheNext]_cache

-----------------------------------------------------------------------------
(* Properties *)

Entries(ttl) == {Absent} \cup [by : Requests, left : 1 .. ttl]

Asked ==
    [conv : Conversations, provider : Providers, model : Models, question : Questions, context : Nat]

\* Every variable has its type.
CacheTypeOK ==
    /\ conv \in [Conversations \X Questions -> Entries(ConvTTL)]
    /\ global \in [Providers \X Models \X Questions -> Entries(GlobalTTL)]
    /\ length \in [Conversations -> Nat]
    /\ stage \in [Requests -> {"idle", "wait", "done", "failed"}]
    /\ req \in [Requests -> {NoRequest} \cup Asked]
    /\ \A r \in Requests : stage[r] # "idle" => req[r] \in Asked
    /\ source \in [Requests -> {"none", "conv", "global", "model"}]
    /\ answer \in [Requests -> Requests \cup {None}]
    /\ age \in [Requests -> 0 .. GlobalTTL]

SameKey(r, s) ==
    /\ req[r].provider = req[s].provider /\ req[r].model = req[s].model
    /\ req[r].question = req[s].question

\* Whatever requests overlap, a cached answer was given by a model to the same
\* question: in the same conversation, or to the same provider and model.
AnswersItsQuestion ==
    \A r \in Requests : LET a == answer[r] IN
        /\ source[r] = "conv" => req[a].question = req[r].question /\ req[a].conv = req[r].conv
        /\ source[r] = "global" => SameKey(a, r)

\* A hit never serves an answer older than its cache's TTL, however often the
\* answer was served before (cache_conversation_response, 10 minutes, and
\* cache_global_response, 1 hour).
HitsAreFresh ==
    [][\A r \in Requests :
         /\ source[r] # "conv" /\ source'[r] = "conv" => age[answer'[r]] < ConvTTL
         /\ source[r] # "global" /\ source'[r] = "global" => age[answer'[r]] < GlobalTTL]_cache

\* Once a request was answered, its twins arriving within the global TTL do not
\* reach a model ("benefits other users with same prompt"); only twins already
\* waiting do.
NoSecondCall ==
    [][\A r \in Requests : stage[r] = "idle" /\ stage'[r] = "wait" =>
         \A s \in Requests : stage[s] = "done" /\ source[s] = "model" /\ age[s] < GlobalTTL =>
             ~ (SameKey(r, s))']_cache

-----------------------------------------------------------------------------
(* Sentences of the repository that the code does not keep: README, section 3 *)

\* README.md:97 says cached responses are "scoped under
\* cache:{provider}:{model}:{hash} to avoid configuration collisions".
ModelScoped ==
    \A r \in Requests : source[r] \in {"conv", "global"} => req[answer[r]].model = req[r].model

\* chat.py:86 says the key is built "from all parameters that affect LLM
\* output"; the conversation's history is part of every model call.
ContextScoped ==
    \A r \in Requests : source[r] = "global" /\ req[answer[r]].conv # req[r].conv =>
        req[answer[r]].context = 0 /\ req[r].context = 0

\* conversations.py:104: "Delete a conversation and all its history."  A
\* conversation with an empty history has no answers of its own to give.
DeletedForgotten ==
    \A r \in Requests : source[r] = "conv" => req[r].context > 0
=============================================================================
