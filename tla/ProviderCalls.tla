---------------------------- MODULE ProviderCalls ----------------------------
(* Calls to the AI providers: the adapters of providers/adapters, the      *)
(* retrying HTTP client under them, and the requests that use them: the    *)
(* playground (execute, compare, rerun, delete, model catalog), the        *)
(* provider test endpoints, and one page of a usage import.  What the      *)
(* provider really served and billed is kept beside what is recorded.      *)
EXTENDS Naturals, Sequences, FiniteSets

CONSTANTS
    FirstCalls,    \* requests that call a provider, one at a time each
    Reruns,        \* requests to run an execution of the history again
    Adapters,      \* provider types the organization is connected to
    MaxTries       \* RetryConfig.max_attempts, 3 in the code

Callers == FirstCalls \cup Reruns
AdapterNames == {"openai", "anthropic", "openrouter", "google", "azure_openai", "grok", "ollama"}

ASSUME CallsAssumption == Adapters \subseteq AdapterNames /\ MaxTries \in Nat \ {0}

NoEvent == <<>>
NoAnswer == [prompt |-> 0, completion |-> 0, total |-> 0]

VARIABLES
    pcall,         \* caller -> what its request is doing
    executions,    \* committed playground rows
    charged,       \* committed usage events of the playground
    billed         \* answers to prompts the provider served (history)

callVars == <<pcall, executions, charged, billed>>

-----------------------------------------------------------------------------
(* The adapters.  key: a key is required; checks: operations that look at  *)
(* the key's format first; catalog: how list_models answers; usage: how    *)
(* get_usage answers.                                                      *)

OpenAI == [key |-> TRUE, checks |-> {"verify", "models"}, catalog |-> "live"]
Anthropic == [key |-> TRUE, checks |-> {"verify", "models"}, catalog |-> "live"]
OpenRouter == [key |-> TRUE, checks |-> {"verify"}, catalog |-> "fallback"]
Google == [key |-> TRUE, checks |-> {"verify"}, catalog |-> "paged"]
AzureOpenAI == [key |-> TRUE, checks |-> {"verify"}, catalog |-> "static"]
Grok == [key |-> TRUE, checks |-> {"verify"}, catalog |-> "static"]
Ollama == [key |-> FALSE, checks |-> {}, catalog |-> "fallback"]

(* The tokens of an answer: a total that is not given counts as zero for   *)
(* some adapters, as the sum for others.                                   *)
BothTokens(u) == u.prompt + u.completion
GivenTotal(u) == [prompt |-> u.prompt, completion |-> u.completion,
                  total |-> IF u.totalled THEN u.total ELSE 0]
SummedTotal(u) == [GivenTotal(u) EXCEPT !.total = BothTokens(u)]

OpenAITokens(u) == GivenTotal(u)
AnthropicTokens(u) == SummedTotal(u)
OpenRouterTokens(u) == GivenTotal(u)
GoogleTokens(u) == IF u.totalled THEN GivenTotal(u) ELSE SummedTotal(u)
AzureTokens(u) == GivenTotal(u)
GrokTokens(u) == GivenTotal(u)
OllamaTokens(u) == SummedTotal(u)

(* api/v1/providers.py answers 404 for any other.                          *)
ProductionProviders == {"openai", "anthropic"}

(* What get_usage makes of its HTTP calls: an error reaches the collector, *)
(* is taken for an empty page, is skipped with its day; or no call at all. *)
OpenAIUsage == "raises"
AnthropicUsage == "empty_on_error"
OpenRouterUsage == "by_day"
NoUsageApi == "none"

(* ProviderRegistry.                                                       *)
Adapter(a) ==
    CASE a = "openai" -> OpenAI [] a = "anthropic" -> Anthropic [] a = "openrouter" -> OpenRouter
      [] a = "google" -> Google [] a = "azure_openai" -> AzureOpenAI [] a = "grok" -> Grok
      [] a = "ollama" -> Ollama

Tokens(a, u) ==
    CASE a = "openai" -> OpenAITokens(u) [] a = "anthropic" -> AnthropicTokens(u)
      [] a = "openrouter" -> OpenRouterTokens(u) [] a = "google" -> GoogleTokens(u)
      [] a = "azure_openai" -> AzureTokens(u) [] a = "grok" -> GrokTokens(u)
      [] a = "ollama" -> OllamaTokens(u)

Usage(a) ==
    CASE a = "openai" -> OpenAIUsage [] a = "anthropic" -> AnthropicUsage
      [] a = "openrouter" -> OpenRouterUsage [] OTHER -> NoUsageApi

(* SecretResolver and CredentialValidator, before anything is sent; the    *)
(* Azure adapter wants its endpoint already in the constructor.            *)
Refusal(a, op, key, endpoint) ==
    CASE a = "azure_openai" /\ ~endpoint         -> "configuration"
      [] Adapter(a).key /\ key = "none" /\ ~(op = "models" /\ Adapter(a).catalog # "live")
                                                 -> "authentication"
      [] op \in Adapter(a).checks /\ key = "malformed" -> "invalid_request"
      [] OTHER                                   -> "none"

LastRound == 2   \* bound: pages of a catalog, days of a window, targets of a comparison

-----------------------------------------------------------------------------
(* One HTTP attempt, http/client.py.                                       *)

HttpStatuses == {"400", "401", "404", "408", "429", "500", "504", "other"}
Attempts == {"answer", "garbled", "timeout", "unreachable"} \cup HttpStatuses

(* map_http_error and the except clauses of _request.                      *)
ErrorOf(outcome) ==
    CASE outcome \in {"timeout", "unreachable", "408", "504"} -> "network"
      [] outcome = "429"                                  -> "rate_limit"
      [] outcome \in {"garbled", "500"}                   -> "internal"
      [] outcome = "401"                                  -> "authentication"
      [] outcome \in {"400", "404"}                       -> "invalid_request"
      [] OTHER                                            -> "provider"

(* providers/errors.py: which errors carry retryable=True.                 *)
Retryable(error) == error \in {"network", "rate_limit", "internal"}

(* ExponentialRetryPolicy.should_retry; an answer that is not JSON is      *)
(* raised past the retry loop.                                             *)
ShouldRetry(try, outcome) ==
    /\ try < MaxTries
    /\ outcome # "garbled"
    /\ Retryable(ErrorOf(outcome))

-----------------------------------------------------------------------------
NoCall == [op |-> "none", at |-> "idle", targets |-> <<>>, key |-> "good", endpoint |-> TRUE,
              try |-> 1, round |-> 1, got |-> NoAnswer, error |-> "none", rows |-> {}, events |-> {},
              result |-> "none"]

(* No executions, as the ep25_4 migration leaves their table.              *)
CallsInit ==
    /\ pcall = [r \in Callers |-> NoCall]
    /\ executions = {} /\ charged = {} /\ billed = {}

Is(r, at) == pcall[r].at = at
Runs(r, ops) == pcall[r].op \in ops
Target(r) == Head(pcall[r].targets)
Becomes(r, record) == pcall' = [pcall EXCEPT ![r] = record]
Finishes(r, result) == Becomes(r, [NoCall EXCEPT !.op = pcall[r].op, !.at = "done", !.result = result])
Prompts == {"execute", "compare", "rerun"}

(* The row and the event of the round a request is in: playground:{id}.    *)
RowId(r) == <<r, pcall[r].round>>
EventIdOfRequest(id) == <<id[1], 1>>   \* a namespace of requests instead
EventId(id) == id

Begin(r) ==
    /\ r \in FirstCalls /\ Is(r, "idle")
    /\ \E op \in {"execute", "compare", "models", "verify", "usage", "collect"}, key \in {"good", "malformed", "none"},
          endpoint \in BOOLEAN, first \in Adapters :
          \E second \in Adapters :
             /\ op \notin {"compare", "collect"} => second = first
             /\ op \in {"verify", "collect"} => {first, second} \subseteq ProductionProviders
             /\ first # "azure_openai" => endpoint
             /\ Becomes(r, [NoCall EXCEPT !.op = op, !.at = "prepare", !.key = key, !.endpoint = endpoint,
                               !.targets = IF op = "compare" \/ first # second THEN <<first, second>> ELSE <<first>>])
    /\ UNCHANGED <<executions, charged, billed>>

(* rerun: the connection of a row of the history that is still there.      *)
Rerun(r) ==
    /\ r \in Reruns /\ Is(r, "idle")
    /\ \E x \in {y \in executions : ~y.deleted} :
          Becomes(r, [NoCall EXCEPT !.op = "rerun", !.at = "prepare", !.targets = <<x.adapter>>])
    /\ UNCHANGED <<executions, charged, billed>>

(* The shipped catalog, and the adapters that have no usage API.           *)
Local(r) ==
    \/ Runs(r, {"models"}) /\ Adapter(Target(r)).catalog = "static"
    \/ Runs(r, {"usage"}) /\ Usage(Target(r)) = NoUsageApi

(* build_provider_config, ProviderFactory.create and the adapter's checks. *)
Prepare(r) ==
    LET refusal == Refusal(Target(r), pcall[r].op, pcall[r].key, pcall[r].endpoint) IN
    /\ Is(r, "prepare")
    /\ IF Local(r) /\ refusal # "configuration" THEN Finishes(r, "static")
       ELSE Becomes(r, [pcall[r] EXCEPT !.at = IF refusal = "none" THEN "send" ELSE "failed",
                                          !.error = refusal, !.try = 1])
    /\ UNCHANGED <<executions, charged, billed>>

(* ProviderHttpClient._request, one attempt.  A provider bills the answers *)
(* it gives to prompts, the ones that never arrive included.               *)
UsageReports == {[prompt |-> 1, completion |-> 1, total |-> 3, totalled |-> t] : t \in BOOLEAN}

Attempt(r) ==
    /\ Is(r, "send")
    /\ \E outcome \in Attempts, served \in BOOLEAN, u \in UsageReports :
          /\ outcome \in {"answer", "garbled"} => served
          /\ outcome \notin {"answer", "garbled", "timeout"} => ~served
          /\ ~Runs(r, Prompts) \/ outcome # "answer" => u.totalled
          /\ billed' = IF served /\ Runs(r, Prompts)
                       THEN billed \cup {[id |-> RowId(r), tokens |-> Tokens(Target(r), u)]}
                       ELSE billed
          /\ Becomes(r,
                IF outcome = "answer"
                THEN [pcall[r] EXCEPT !.at = "answered", !.got = Tokens(Target(r), u)]
                ELSE IF ShouldRetry(pcall[r].try, outcome)
                THEN [pcall[r] EXCEPT !.try = @ + 1]
                ELSE [pcall[r] EXCEPT !.at = "failed", !.error = ErrorOf(outcome)])
    /\ UNCHANGED <<executions, charged>>

-----------------------------------------------------------------------------
(* Everything but prompts: what the endpoint or the collector is told.     *)

TestAnswered(r) ==
    /\ Runs(r, {"verify"})
    /\ \/ Is(r, "answered") /\ Finishes(r, "valid")
       \/ /\ Is(r, "failed")
          /\ Finishes(r, IF pcall[r].error \in {"authentication", "invalid_request"}
                          THEN "unauthorized" ELSE "bad_gateway")
    /\ UNCHANGED <<executions, charged, billed>>

(* list_models: the next page, the live catalog, or after any error the    *)
(* shipped one, unless the adapter raises.                                 *)
ModelsAnswered(r) ==
    LET catalog == Adapter(Target(r)).catalog IN
    /\ Runs(r, {"models"})
    /\ \/ Is(r, "answered") /\ catalog = "paged" /\ pcall[r].round = 1
          /\ Becomes(r, [pcall[r] EXCEPT !.at = "send", !.round = @ + 1, !.try = 1])
       \/ Is(r, "answered") /\ Finishes(r, "live")
       \/ Is(r, "answered") /\ catalog # "live"
          /\ Finishes(r, "static")
       \/ Is(r, "failed")
          /\ Finishes(r, IF catalog = "live" \/ pcall[r].error = "configuration" THEN "error" ELSE "static")
    /\ UNCHANGED <<executions, charged, billed>>

(* get_usage: OpenRouter asks day by day and skips the days that fail.     *)
UsageAnswered(r) ==
    LET usage == Usage(Target(r)) IN
    /\ Runs(r, {"usage"})
    /\ \/ Is(r, "failed") /\ usage \in {"raises", NoUsageApi} /\ Finishes(r, "error")
       \/ Is(r, "failed") /\ usage = "empty_on_error"
          /\ Finishes(r, IF pcall[r].key = "none" THEN "error" ELSE "page")
       \/ (Is(r, "answered") \/ Is(r, "failed")) /\ usage = "by_day"
          /\ IF pcall[r].round < LastRound /\ pcall[r].key # "none"
             THEN Becomes(r, [pcall[r] EXCEPT !.at = "send", !.round = @ + 1, !.try = 1])
             ELSE Finishes(r, "page")
       \/ Is(r, "answered") /\ usage # "by_day" /\ Finishes(r, "page")
    /\ UNCHANGED <<executions, charged, billed>>

(* /usage/collect of one or of all providers: pages until there is no more *)
(* of them, an error skips the provider, and the run it answers with is    *)
(* stored nowhere.                                                         *)
Collected(r, ok) ==
    LET result == IF ok THEN "runs" ELSE pcall[r].result IN
    IF Len(pcall[r].targets) > 1
    THEN Becomes(r, [pcall[r] EXCEPT !.at = "prepare", !.targets = Tail(@), !.round = 1, !.result = result])
    ELSE Finishes(r, IF result = "runs" THEN "runs" ELSE "error")

CollectAnswered(r) ==
    LET usage == Usage(Target(r)) IN
    /\ Runs(r, {"collect"})
    /\ \/ Is(r, "answered") /\ pcall[r].round < LastRound
          /\ Becomes(r, [pcall[r] EXCEPT !.at = "send", !.round = @ + 1, !.try = 1])
       \/ Is(r, "answered") /\ Collected(r, TRUE)
       \/ Is(r, "failed") /\ Collected(r, usage = "empty_on_error" /\ pcall[r].key # "none")
    /\ UNCHANGED <<executions, charged, billed>>

-----------------------------------------------------------------------------
(* The playground, services/playground_service.py.                         *)

NewExecution(r, status, tokens, event) ==
    [id |-> RowId(r), adapter |-> Target(r), status |-> status, tokens |-> tokens, event |-> event,
     deleted |-> FALSE]

NextTarget(r) == IF Len(pcall[r].targets) = 1 THEN "commit" ELSE "next"

(* execute after an error: a FAILED row and no event.                      *)
ExecutionFailed(r) ==
    /\ Runs(r, Prompts) /\ Is(r, "failed")
    /\ Becomes(r, [pcall[r] EXCEPT !.at = NextTarget(r),
                      !.rows = @ \cup {NewExecution(r, "failed", NoAnswer, NoEvent)}])
    /\ UNCHANGED <<executions, charged, billed>>

(* execute after an answer: _record_usage upserts by the event's id, and   *)
(* the cost follows; an event that cannot be written is only logged, but   *)
(* its error has ended the transaction and the row after it fails too.     *)
ExecutionSucceeded(r) ==
    /\ Runs(r, Prompts) /\ Is(r, "answered")
    /\ LET id == EventId(RowId(r))
           event == [id |-> id, tokens |-> pcall[r].got]
       IN Becomes(r, [pcall[r] EXCEPT !.at = NextTarget(r),
                         !.events = {e \in @ : e.id # id} \cup {event},
                         !.rows = @ \cup {NewExecution(r, "succeeded", pcall[r].got, id)}])
    /\ UNCHANGED <<executions, charged, billed>>

(* compare: the next target, or a 404 or a 422 when it is missing or has   *)
(* no model id.                                                            *)
CompareNext(r) ==
    /\ Is(r, "next")
    /\ Becomes(r, [pcall[r] EXCEPT !.at = "prepare", !.round = @ + 1, !.targets = Tail(@)])
    /\ UNCHANGED <<executions, charged, billed>>

(* The commit; the budgets are evaluated after it and a failure is caught. *)
CommitExecutions(r) ==
    /\ Is(r, "commit")
    /\ executions' = executions \cup pcall[r].rows
    /\ charged' = charged \cup pcall[r].events
    /\ Finishes(r, "committed")
    /\ UNCHANGED billed

(* Any other error on the way, a target of compare that is not there, a    *)
(* cancelled request or a lost process: nothing of the request is kept.    *)
AbortRequest(r) ==
    /\ pcall[r].at \notin {"idle", "done"}
    /\ Finishes(r, "error")
    /\ UNCHANGED <<executions, charged, billed>>

DeleteExecution ==
    /\ \E x \in executions :
          /\ ~x.deleted
          /\ executions' = (executions \ {x}) \cup {[x EXCEPT !.deleted = TRUE]}
    /\ UNCHANGED <<pcall, charged, billed>>

CallsNext ==
    \/ \E r \in Callers :
          \/ Begin(r) \/ Rerun(r) \/ Prepare(r) \/ Attempt(r)
          \/ TestAnswered(r) \/ ModelsAnswered(r) \/ UsageAnswered(r) \/ CollectAnswered(r)
          \/ ExecutionFailed(r) \/ ExecutionSucceeded(r) \/ CompareNext(r)
          \/ CommitExecutions(r) \/ AbortRequest(r)
    \/ DeleteExecution

CallsSpec == CallsInit /\ [][CallsNext]_callVars

-----------------------------------------------------------------------------
(* The state keeps its types and bounds.                                   *)
CallsTypeOK ==
    /\ \A r \in Callers :
          /\ pcall[r].at \in {"idle", "prepare", "send", "answered", "failed", "next", "commit", "done"}
          /\ pcall[r].try \in 1..MaxTries /\ pcall[r].round \in 1..LastRound
          /\ pcall[r].at \notin {"idle", "done"} => Target(r) \in Adapters
    /\ Cardinality(executions) <= 2 * Cardinality(Callers)

(* playground_service.py:24-43: the spend recorded for prompts is real.    *)
(* Each usage event of the playground belongs to one execution, which      *)
(* succeeded with those tokens, and the provider served that answer; an    *)
(* execution that succeeded has its event, one that failed has none, and   *)
(* a request that ends in an error leaves neither.  (The converse does not *)
(* hold: an answer lost in a timeout, retried, or rolled back with the     *)
(* rest of a comparison, is billed and recorded nowhere.)                  *)
PlaygroundSpendIsReal ==
    /\ \A e \in charged :
          /\ \E b \in billed : b.tokens = e.tokens /\ b.id = e.id
          /\ Cardinality({x \in executions : x.event = e.id}) = 1
    /\ \A x \in executions :
          IF x.status = "succeeded" THEN \E e \in charged : e.id = x.event /\ e.tokens = x.tokens
          ELSE x.event = NoEvent
    /\ \A e, f \in charged : e.id = f.id => e = f
=============================================================================
