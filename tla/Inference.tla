------------------------------ MODULE Inference ------------------------------
(***************************************************************************)
(* Who calls the adapters, from the model call to the last effect.  Four   *)
(* paths serve users: /chat, /chat/stream and the two modes of             *)
(* /v1/chat/completions.  After the answer come the effects of the path,   *)
(* in its order: "usage" and "quota" charge the user, "history" stores the *)
(* turn, "audit" the log entry with its status 200, "reply" is the         *)
(* response or the frame that ends a stream.  "refusal" is the log entry   *)
(* with a status 400.  Redis may fail at any effect of an answer; the      *)
(* client of a stream may leave at any await.                              *)
(*                                                                         *)
(* "bench" is the benchmark of the health loop, "failover" the router's    *)
(* generate_with_fallback, "legacy" the /ai/generate endpoint, and         *)
(* "direct" and "direct stream" an adapter used by itself.                 *)
(***************************************************************************)
EXTENDS Adapters, SequencesExt

CONSTANTS
    Primary,        \* DEFAULT_PROVIDER
    Fallbacks       \* FALLBACK_PROVIDERS, in order

ASSUME InferenceAssumption == Primary \in Providers /\ Fallbacks \in Seq(Providers)

VARIABLES
    req,        \* the state of each request
    errors      \* stats:gateway errors

vars == <<call, req, errors>>

Endpoints == {"chat", "stream", "openai", "openai stream"}

Kind(r) == req[r].kind
Streamed(r) == Kind(r) \in {"stream", "openai stream", "direct stream"}

Init ==
    /\ call = [r \in Requests |-> NoCall]
    /\ req = [r \in Requests |-> [kind |-> "none", pc |-> "idle", step |-> 0, did |-> {},
                 fault |-> FALSE, leg |-> 0, tried |-> {}]]
    /\ errors = 0

At(r, l) == req[r].pc = l
Starts(r, k) == req' = [req EXCEPT ![r].kind = k, ![r].pc = "call"]
Opens(r, p, api) == call' = [call EXCEPT ![r] = Opened(p, api)]

\* Mutant of Work: /chat replies first and leaves its effects to a background task.
WorkLater(k) ==
    CASE k = "chat"          -> <<"reply", "usage", "quota", "audit", "history">>
      [] k = "stream"        -> <<"usage", "quota", "history", "audit", "reply">>
      [] k = "openai"        -> <<"usage", "reply">>
      [] k = "openai stream" -> <<"reply", "usage">>
      [] OTHER               -> <<>>

\* Mutant of Work: /chat writes its log entry first.
WorkAuditFirst(k) ==
    CASE k = "chat"          -> <<"audit", "usage", "quota", "history", "reply">>
      [] k = "stream"        -> <<"usage", "quota", "history", "audit", "reply">>
      [] k = "openai"        -> <<"usage", "reply">>
      [] k = "openai stream" -> <<"reply", "usage">>
      [] OTHER               -> <<>>

\* The effects of an answer, in order; the cache writes of /chat come after them.
Work(k) ==
    CASE k = "chat"          -> <<"usage", "quota", "audit", "history", "reply">>
      [] k = "stream"        -> <<"usage", "quota", "history", "audit", "reply">>
      [] k = "openai"        -> <<"usage", "reply">>
      [] k = "openai stream" -> <<"reply", "usage">>
      [] OTHER               -> <<>>

\* Some effects are still to come; the one that is next.
Left(r) == req[r].step < Len(Work(Kind(r)))
Due(r) == Work(Kind(r))[req[r].step + 1]

-----------------------------------------------------------------------------
(* The model call *)

\* The router gives every path an Ollama adapter, whatever the provider's name.
GetAdapter(p) == "ollama"

Begin(r) ==
    /\ At(r, "idle")
    /\ \E k \in Endpoints, p \in Providers :
         /\ Starts(r, k)
         /\ Opens(r, GetAdapter(p), IF k \in {"chat", "openai"} THEN "generate" ELSE "stream")
    /\ UNCHANGED errors

\* An adapter used by itself; its class fixes the provider.
Use(r) ==
    /\ At(r, "idle")
    /\ \E p \in Providers, k \in {"direct", "direct stream"} :
         /\ Starts(r, k)
         /\ Opens(r, p, IF k = "direct" THEN "generate" ELSE "stream")
    /\ UNCHANGED errors

\* The health loop measures a node of one of the two clusters.
Benchmark(r) ==
    /\ At(r, "idle")
    /\ \E p \in {"ollama", "vllm"} :
         Starts(r, "bench") /\ Opens(r, p, "stream")
    /\ UNCHANGED errors

\* The adapters that have generate_text: no class derives from BaseAIService.
TextServices == {}

\* What AIProviderFactory keeps and gives: the adapter of the router, as it is.
Factory(p) == GetAdapter(p)

\* The missing method is an AttributeError, and that a 500.
Legacy(r) ==
    /\ At(r, "idle") /\ \E p \in Providers : Factory(p) \notin TextServices
    /\ req' = [req EXCEPT ![r].kind = "legacy", ![r].pc = "ended", ![r].fault = TRUE]
    /\ UNCHANGED <<call, errors>>

\* Mutant of Ahead: the loop breaks at the primary's name.
AheadStop(i) == {j \in i + 1 .. Len(Fallbacks) : \A k \in i + 1 .. j : Fallbacks[k] # Primary}

\* The fallbacks after the i-th that the loop does not skip.
Ahead(i) == {j \in i + 1 .. Len(Fallbacks) : Fallbacks[j] # Primary}

Failover(r) ==
    /\ At(r, "idle")
    /\ req' = [req EXCEPT ![r].kind = "failover", ![r].pc = "call", ![r].tried = {Primary}]
    /\ Opens(r, GetAdapter(Primary), "generate")
    /\ UNCHANGED errors

NextLeg(r) ==
    /\ At(r, "call") /\ In(r, "failed") /\ Kind(r) = "failover"
    /\ \E i \in Ahead(req[r].leg) :
         /\ \A j \in Ahead(req[r].leg) : i <= j
         /\ req' = [req EXCEPT ![r].leg = i, ![r].tried = @ \cup {Fallbacks[i]}]
         /\ Opens(r, GetAdapter(Fallbacks[i]), "generate")
    /\ UNCHANGED errors

Returned(r) ==
    /\ At(r, "call") /\ In(r, "ok")
    /\ req' = [req EXCEPT ![r].pc = "work"]
    /\ UNCHANGED <<call, errors>>

\* A failed result goes to whoever made the call.
HandBack(r) ==
    /\ At(r, "call") /\ In(r, "failed")
    /\ Kind(r) = "direct" \/ (Kind(r) = "failover" /\ Ahead(req[r].leg) = {})
    /\ req' = [req EXCEPT ![r].pc = "ended"]
    /\ UNCHANGED <<call, errors>>

\* Mutant of Refuse: the "success" of the result is not looked at.
RefuseIgnored(r) ==
    /\ At(r, "call") /\ In(r, "failed") /\ Kind(r) \in Endpoints
    /\ req' = [req EXCEPT ![r].pc = "work"]
    /\ UNCHANGED <<call, errors>>

\* The handler turns a failed result into a 400 or 502; /chat audits it.
Refuse(r) ==
    /\ At(r, "call") /\ In(r, "failed") /\ Kind(r) \in Endpoints
    /\ req' = [req EXCEPT ![r].pc = "ended", ![r].did = IF Kind(r) = "chat" THEN {"refusal"} ELSE {}]
    /\ errors' = errors + 1
    /\ UNCHANGED call

AdapterStep(r) ==
    /\ At(r, "call")
    /\ Generate(r) \/ Stream(r)
    /\ UNCHANGED <<req, errors>>

\* The client has gone: the generator is cancelled at the await it is at.
Awaits(r) ==
    \/ At(r, "call") /\ In(r, "tokens")
    \/ At(r, "work") /\ Left(r) /\ (Due(r) = "reply" \/ "reply" \in req[r].did)

Leave(r) ==
    /\ Streamed(r) /\ Awaits(r)
    /\ req' = [req EXCEPT ![r].pc = "ended"]
    /\ call' = [call EXCEPT ![r].pc = "idle"]
    /\ UNCHANGED errors

-----------------------------------------------------------------------------
(* Effects *)

Effect(r) ==
    /\ At(r, "work") /\ Left(r)
    /\ req' = [req EXCEPT ![r].step = @ + 1, ![r].did = @ \cup {Due(r)}]
    /\ UNCHANGED <<call, errors>>

Done(r) ==
    /\ At(r, "work") /\ ~ Left(r)
    /\ req' = [req EXCEPT ![r].pc = "ended"]
    /\ UNCHANGED <<call, errors>>

\* A 500, or the error event of a stream.
RedisFails(r) ==
    /\ At(r, "work") /\ Left(r) /\ Due(r) # "reply"
    /\ req' = [req EXCEPT ![r].pc = "ended", ![r].fault = TRUE]
    /\ errors' = IF Streamed(r) THEN errors + 1 ELSE errors
    /\ UNCHANGED call

Next ==
    \/ \E r \in Requests :
         \/ Begin(r) \/ Use(r) \/ Benchmark(r) \/ Legacy(r) \/ Failover(r) \/ NextLeg(r)
         \/ AdapterStep(r) \/ Returned(r) \/ HandBack(r) \/ Refuse(r) \/ Leave(r)
         \/ Effect(r) \/ Done(r) \/ RedisFails(r)

\* Every post ends, by its answer, an error or its timeout, and handlers go on.
Fairness ==
    \A r \in Requests :
        /\ WF_vars(Generate(r) /\ AdapterStep(r))
        /\ WF_vars(Returned(r) \/ NextLeg(r) \/ HandBack(r) \/ Refuse(r))
        /\ WF_vars(Effect(r)) /\ WF_vars(Done(r))

Spec == Init /\ [][Next]_vars /\ Fairness

-----------------------------------------------------------------------------
(* Properties *)

Kinds == Endpoints \cup {"direct", "direct stream", "bench", "failover", "legacy"}
Effects == {"usage", "quota", "history", "audit", "reply", "refusal"}

CallType == [api : {"none", "generate", "stream"}, provider : Providers \cup {"none"},
             pc : {"idle", "post", "tokens", "ok", "failed"},
             posts : 0 .. MaxRetries, slept : Int, met : SUBSET Faults, sent : 0 .. MaxTokens + 1,
             failed : BOOLEAN, mock : BOOLEAN]
ReqType == [kind : Kinds \cup {"none"}, pc : {"idle", "call", "work", "ended"},
            step : 0 .. 5, did : SUBSET Effects, fault : BOOLEAN,
            leg : 0 .. Len(Fallbacks), tried : SUBSET Providers]

\* Every variable has its type.
TypeOK ==
    /\ call \in [Requests -> CallType] /\ req \in [Requests -> ReqType]
    /\ errors \in Nat

Replied(r) == "reply" \in req[r].did

\* A client that got its whole answer has been charged for it, and its turn and
\* its audit entry are in Redis, whatever failed on the way.  The OpenAI stream
\* alone ends before it charges.
AnsweredIsCharged ==
    \A r \in Requests : Replied(r) =>
        /\ Kind(r) # "openai stream" => "usage" \in req[r].did
        /\ Kind(r) \in {"chat", "stream"} => {"quota", "history", "audit"} \subseteq req[r].did

\* A turn is stored, or audited as answered, only once it has been charged, and
\* all that a failed plain call leaves is the entry of /chat for its refusal.
FailedUncharged ==
    \A r \in Requests :
        /\ req[r].did \cap {"history", "audit"} # {} => {"usage", "quota"} \subseteq req[r].did
        /\ call[r].failed /\ ~ Streamed(r) => req[r].did \subseteq {"refusal"}

\* A failover gives up only after the primary and every fallback that the
\* configuration names has been tried.
EveryLegTried ==
    \A r \in Requests : Kind(r) = "failover" /\ At(r, "ended") /\ call[r].failed =>
        req[r].tried = {Primary} \cup ToSet(Fallbacks)

\* A generate that met only faults that are tried again, a timeout of its last
\* post among them, has made all its posts when it fails; and one that met any
\* other fault fails, whatever it met before.
Persistent ==
    \A r \in Requests : call[r].api = "generate" /\ call[r].met # {} =>
        IF call[r].met \subseteq Policy[call[r].provider].again
        THEN call[r].failed => call[r].posts = MaxRetries
        ELSE call[r].failed

\* Every plain call ends, with an answer or an error, and so does every failover.
CallsEnd == \A r \in Requests : At(r, "call") /\ call[r].api = "generate" ~> At(r, "ended")

-----------------------------------------------------------------------------
(* Sentences of the repository that the code does not keep: README, section 3 *)

\* redis_service.py:895: "errors" counts "500 / LLM errors".
LLMErrorsCounted ==
    (\A r \in Requests : req[r].pc \in {"idle", "ended"} /\ ~ req[r].fault) =>
        errors >= Cardinality({r \in Requests : Kind(r) \in Endpoints /\ call[r].failed})

\* openai_compat.py:222: "Record stats and billing after generator yields finish".
StreamsBilled ==
    \A r \in Requests :
        Kind(r) \in Endpoints /\ Replied(r) /\ At(r, "ended") /\ ~ req[r].fault =>
            "usage" \in req[r].did

\* factory.py:6: "existing code that calls AIProviderFactory.get("mistral")
\* continues to work without changes".
LegacyAnswers == \A r \in Requests : Kind(r) = "legacy" /\ At(r, "ended") => Replied(r)

\* What a benchmark reports: always a success, with every token counted.
Report(r) == [success |-> TRUE, tokens |-> call[r].sent, ttft |-> call[r].sent > 0]

\* scheduler.py:30: the ttft of a node is its "latency to first token": a
\* benchmark that reports one got its tokens from the model.
BenchmarkTruthful ==
    \A r \in Requests : Kind(r) = "bench" /\ At(r, "ended") /\ Report(r).ttft => ~ call[r].failed

\* router.py:87: "Ollama-first inference with automatic cloud fallback".
FallsBackToCloud ==
    \A r \in Requests : Kind(r) = "failover" /\ At(r, "call") /\ Cardinality(req[r].tried) > 1 =>
        call[r].provider # "ollama"
=============================================================================
