------------------------------ MODULE Adapters ------------------------------
(***************************************************************************)
(* One call of an inference adapter: generate or generate_stream of        *)
(* Ollama, vLLM, Mistral, OpenAI or Gemini, over the contract of base.py.  *)
(*                                                                         *)
(* A generate posts, and the adapter's policy says which faults are tried  *)
(* again after a sleep; any other fault ends the call as a failed result.  *)
(* A stream is never tried again: whatever goes wrong in it is yielded as  *)
(* one more token.  No call of an adapter raises.  What a client library   *)
(* does inside one post, its own retries included, is not modelled.        *)
(***************************************************************************)
EXTENDS Integers

CONSTANTS
    Requests,       \* callers, each with one adapter call at a time
    Keyless,        \* cloud providers without an API key
    MaxRetries,     \* posts a generate makes at most, 3
    MaxTokens       \* bound: tokens of a stream

ASSUME AdaptersAssumption == MaxRetries \in Nat \ {0} /\ MaxTokens \in Nat

VARIABLE call       \* the adapter call of each caller, the last one if it is over

Providers == {"ollama", "vllm", "mistral", "openai", "gemini"}

\* What a post may end with other than a 200; "error" is any exception but a timeout.
Faults == {"4xx", "429", "5xx", "timeout", "error"}

\* A policy: the faults tried again, the posts at most, and what a call without
\* an API key gives ("works" where no key is needed).
Ollama  == [again |-> {"5xx", "timeout"},        posts |-> MaxRetries, keyless |-> "works"]
VLLM    == [again |-> {"429", "5xx", "timeout"}, posts |-> MaxRetries, keyless |-> "works"]
Mistral == [again |-> {"429", "5xx", "timeout"}, posts |-> MaxRetries, keyless |-> "fails"]
OpenAI  == [again |-> {},                        posts |-> 1,          keyless |-> "mocks"]
Gemini  == [again |-> {},                        posts |-> 1,          keyless |-> "mocks"]

Policy == [ollama |-> Ollama, vllm |-> VLLM, mistral |-> Mistral,
           openai |-> OpenAI, gemini |-> Gemini]

In(c, l) == call[c].pc = l

\* "met" is history: the faults the posts ended with.
NoCall == [api |-> "none", provider |-> "none", pc |-> "idle",
           posts |-> 0, slept |-> 0, met |-> {}, sent |-> 0, failed |-> FALSE, mock |-> FALSE]

Without(p) == IF p \in Keyless THEN Policy[p].keyless ELSE "works"

\* A new call with the checks it makes before its first await.
Opened(p, api) ==
    [NoCall EXCEPT !.api = api, !.provider = p, !.mock = Without(p) = "mocks",
        !.failed = Without(p) = "fails",
        !.pc = CASE Without(p) = "works" -> IF api = "generate" THEN "post" ELSE "tokens"
                 [] Without(p) = "fails" -> IF api = "generate" THEN "failed" ELSE "ok"
                 [] Without(p) = "mocks" -> IF api = "generate" THEN "ok" ELSE "tokens",
        !.sent = IF Without(p) = "fails" /\ api = "stream" THEN 1 ELSE 0]

-----------------------------------------------------------------------------
(* generate *)

Answer(c) ==
    /\ In(c, "post")
    /\ call' = [call EXCEPT ![c].pc = "ok", ![c].posts = @ + 1]

FatalFault(c) ==
    /\ In(c, "post")
    /\ \E f \in Faults \ Policy[call[c].provider].again :
         call' = [call EXCEPT ![c].pc = "failed", ![c].posts = @ + 1, ![c].failed = TRUE,
                              ![c].met = @ \cup {f}]

Again(c) == call[c].posts + 1 < Policy[call[c].provider].posts

\* backoff_factor ** attempt, in seconds.
Backoff(c) == 2 ^ call[c].posts

\* Mutant of Retried: when the attempts are used up they start anew.
RetriedForever(c, f, sleep) ==
    call' = [call EXCEPT ![c].posts = IF Again(c) THEN @ + 1 ELSE 0, ![c].slept = sleep,
                         ![c].met = @ \cup {f}]

Retried(c, f, sleep) ==
    call' = [call EXCEPT ![c].posts = @ + 1, ![c].slept = @ + sleep, ![c].met = @ \cup {f},
                         ![c].pc = IF Again(c) THEN "post" ELSE "failed",
                         ![c].failed = ~ Again(c)]

\* A 5xx or a 429: the adapter sleeps even after the last attempt.
StatusFault(c) ==
    /\ In(c, "post")
    /\ \E f \in Policy[call[c].provider].again \ {"timeout"} : Retried(c, f, Backoff(c))

\* Mutant of Timeout: it returns where it should only do so after the last attempt.
TimeoutGivesUp(c) ==
    /\ In(c, "post") /\ "timeout" \in Policy[call[c].provider].again
    /\ call' = [call EXCEPT ![c].pc = "failed", ![c].posts = @ + 1, ![c].failed = TRUE,
                         ![c].met = @ \cup {"timeout"}]

Timeout(c) ==
    /\ In(c, "post") /\ "timeout" \in Policy[call[c].provider].again
    /\ Retried(c, "timeout", IF Again(c) THEN Backoff(c) ELSE 0)

Generate(c) == Answer(c) \/ FatalFault(c) \/ StatusFault(c) \/ Timeout(c)

-----------------------------------------------------------------------------
(* generate_stream *)

Token(c) ==
    /\ In(c, "tokens") /\ call[c].sent < MaxTokens
    /\ call' = [call EXCEPT ![c].sent = @ + 1]

LastToken(c) ==
    /\ In(c, "tokens")
    /\ call' = [call EXCEPT ![c].pc = "ok"]

\* A status other than 200, or an exception: the error is the last token.
ErrorToken(c) ==
    /\ In(c, "tokens") /\ ~ call[c].mock
    /\ call' = [call EXCEPT ![c].pc = "ok", ![c].sent = @ + 1, ![c].failed = TRUE]

Stream(c) == Token(c) \/ LastToken(c) \/ ErrorToken(c)
=============================================================================
