------------------------------ MODULE LlmClient ------------------------------
(***************************************************************************)
(* One RealReasoner.reason: the completion by the primary provider, by the *)
(* fallback and by the primary again, each of which may be several         *)
(* services deep (an HTTP endpoint with retries, LiteLLM's list of models, *)
(* the offline mock).                                                      *)
(***************************************************************************)
EXTENDS Integers, Sequences, FiniteSets

CONSTANTS MaxRetries, Models   \* _MAX_RETRIES; models LiteLLM may try

ASSUME RetriesAssumption == MaxRetries \in Nat \ {0} /\ Models \in Nat \ {0}

\* What a configuration makes of create_llm_provider: the services that complete() tries
\* in turn, each only if the one before raised, and the backend_id of the answer.
Chain ==
    [ mock |-> <<"mock">>,
      vllm |-> <<"http">>,                     \* as Ollama, and Ray Serve with a cluster
      ray_serve_mock |-> <<"mock">>,           \* mock_without_cluster
      litellm |-> <<"litellm">>,
      litellm_nokey |-> <<"mock">>,            \* no API key, or litellm not installed
      custom |-> <<"http", "mock">>,
      custom_litellm |-> <<"http", "litellm">>,
      custom_nourl |-> <<"mock">> ]
Provider == DOMAIN Chain
NoProvider == "none"

BackendId(p, service) ==
    IF p = "ray_serve_mock" THEN "ray_serve"
    ELSE IF service \in {"mock", "litellm"} THEN service ELSE p

VARIABLES
    provider,      \* [primary, fallback]
    turn,          \* whose complete() runs: "primary", "fallback", "again", or "done"
    service,       \* place in the provider's Chain
    attempt,       \* attempts this service has begun
    posts,         \* requests sent, per turn
    raisedIn,      \* turns whose complete() raised
    trace          \* the outcome: none yet, "raised", or the DecisionTrace

llmVars == <<provider, turn, service, attempt, posts, raisedIn, trace>>

Turns == {"primary", "fallback", "again"}
NoTrace == [at |-> "pending"]
ProviderOf(t) == IF t = "fallback" THEN provider.fallback ELSE provider.primary
Current == Chain[ProviderOf(turn)][service]

LlmInit ==
    /\ provider \in [primary : Provider, fallback : Provider \cup {NoProvider}]
    /\ turn = "primary" /\ service = 1 /\ attempt = 1
    /\ posts = [t \in Turns |-> 0] /\ raisedIn = <<>> /\ trace = NoTrace

--------------------------------------------------------------------------------

Warnings(t) == (IF raisedIn # <<>> THEN <<"primary_provider_failed">> ELSE <<>>)
               \o (IF t = "fallback" THEN <<"fallback_provider_used">> ELSE <<>>)
               \o (IF Len(raisedIn) = 2 THEN <<"fallback_provider_failed">> ELSE <<>>)

\* reason: faithfulness_score, in hundredths.
Score(backend) == IF backend = "mock" THEN 55 ELSE 80

\* complete() returns: the trace names the backend that answered and what failed before.
Answer ==
    LET backend == BackendId(ProviderOf(turn), Current)
    IN  /\ trace' = [at |-> turn, by |-> Current, backend |-> backend,
                     score |-> Score(backend), warnings |-> Warnings(turn)]
        /\ turn' = "done"
        /\ UNCHANGED <<provider, service, attempt, raisedIn>>

NoFallback == "again"

\* _complete_with_fallback: what follows a complete() that raised.
NextTurn == IF turn = "primary" /\ provider.fallback # NoProvider THEN "fallback" ELSE "again"

CompleteRaises ==
    /\ service' = 1 /\ attempt' = 1 /\ raisedIn' = Append(raisedIn, turn)
    /\ IF turn = "again" THEN turn' = "done" /\ trace' = [at |-> "raised"]
                         ELSE turn' = NextTurn /\ UNCHANGED trace
    /\ UNCHANGED provider

\* The service gives up: CustomAdapter goes on to its own fallback, any other raises.
ServiceRaises ==
    IF service < Len(Chain[ProviderOf(turn)])
    THEN /\ service' = service + 1 /\ attempt' = 1
         /\ UNCHANGED <<provider, turn, raisedIn, trace>>
    ELSE CompleteRaises

CountPost == posts' = [posts EXCEPT ![turn] = @ + 1]

MockAnswers == turn # "done" /\ Current = "mock" /\ Answer /\ UNCHANGED posts

HttpAnswers == turn # "done" /\ Current = "http" /\ CountPost /\ Answer

\* A status of any kind but 2xx, a transport error or a body that is no JSON: all of them
\* are tried again (a 4xx raises HTTPStatusError, which the loop catches too).
HttpFails ==
    /\ turn # "done" /\ Current = "http" /\ CountPost
    /\ IF attempt < MaxRetries
       THEN attempt' = attempt + 1 /\ UNCHANGED <<provider, turn, service, raisedIn, trace>>
       ELSE ServiceRaises

\* A 200 whose JSON has no choices or no content: _extract_completion_text raises after
\* the loop, and nothing is tried again.
HttpMalformed == turn # "done" /\ Current = "http" /\ CountPost /\ ServiceRaises

LitellmAnswers == turn # "done" /\ Current = "litellm" /\ CountPost /\ Answer

\* Each model of [model_id, *fallback_models] once.
LitellmFails ==
    /\ turn # "done" /\ Current = "litellm" /\ CountPost
    /\ IF attempt < Models
       THEN attempt' = attempt + 1 /\ UNCHANGED <<provider, turn, service, raisedIn, trace>>
       ELSE ServiceRaises

LlmNext == \/ MockAnswers \/ HttpAnswers \/ HttpFails \/ HttpMalformed
           \/ LitellmAnswers \/ LitellmFails

LlmSpec == LlmInit /\ [][LlmNext]_llmVars

--------------------------------------------------------------------------------

\* Every variable has its type.
LlmTypeOK ==
    /\ provider \in [primary : Provider, fallback : Provider \cup {NoProvider}]
    /\ turn \in Turns \cup {"done"} /\ service \in 1..2
    /\ attempt \in 1..(IF MaxRetries > Models THEN MaxRetries ELSE Models)
    /\ posts \in [Turns -> Nat] /\ raisedIn \in Seq(Turns)
    /\ trace.at \in {"pending", "raised"} \cup Turns

PostBound(p) == IF "http" \in {Chain[p][i] : i \in DOMAIN Chain[p]} THEN MaxRetries + Models
                                                                     ELSE Models

\* reason() raises only when every provider it has was tried to the end, the primary
\* twice; no provider is sent more requests than its retries and models allow per turn.
RaisesOnlyExhausted ==
    /\ trace.at = "raised" =>
         /\ raisedIn = (IF provider.fallback = NoProvider THEN <<"primary", "again">>
                                                          ELSE <<"primary", "fallback", "again">>)
         /\ \A t \in {"primary", "fallback", "again"} :
              ProviderOf(t) # NoProvider => posts[t] > 0
    /\ \A t \in Turns : ProviderOf(t) # NoProvider => posts[t] <= PostBound(ProviderOf(t))
    /\ provider.fallback = NoProvider => posts["fallback"] = 0

\* A trace says where it comes from: it warns of every provider that failed before it, and
\* text of the mock has the low score except from a Ray Serve set up to be mocked.
TraceTellsItsSource ==
    trace.at \in Turns =>
      /\ trace.warnings = <<>> <=> raisedIn = <<>>
      /\ (trace.at = "fallback") = (trace.warnings = <<"primary_provider_failed",
                                                       "fallback_provider_used">>)
      /\ (trace.by = "mock" /\ trace.score = 80) <=> ProviderOf(trace.at) = "ray_serve_mock"

\* Both together: reason() accounts for every provider it asked, in the exception or in the trace.
ReasonAccountsForItself == RaisesOnlyExhausted /\ TraceTellsItsSource
================================================================================
