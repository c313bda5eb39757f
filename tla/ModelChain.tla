------------------------------ MODULE ModelChain ------------------------------
(***************************************************************************)
(* A model call through the middleware chain in the order largemodel       *)
(* recommends:                                                             *)
(*                                                                         *)
(*   Log -> CircuitBreaker -> RateLimit -> Retry -> Timeout -> Cache       *)
(*       -> base                                                           *)
(*                                                                         *)
(* The circuit breaker is the module CircuitBreaker, whose steps are       *)
(* composed here with those of the inner layers: what it counts as a       *)
(* failure is what they return. The clock is a tick; instants are kept as  *)
(* ages, capped once nothing tells them apart.                             *)
(***************************************************************************)
EXTENDS CircuitBreaker, Sequences, SequencesExt

CONSTANTS
    Key,              \* cache keys: requests that differ in a field of cacheKeyData
    Window,           \* a minute, in ticks
    requestsPerMin,   \* 0 disables the limit
    tokensPerMin,     \* 0 disables the limit
    TokenUse,         \* what Usage.TotalTokens may be
    maxRetries,
    ttl,              \* of cache entries, in ticks
    maxEntries        \* of MapCache, 0 for no bound

ASSUME ChainAssumption ==
    /\ IsFiniteSet(Caller)
    /\ Window \in Nat /\ requestsPerMin \in Nat /\ tokensPerMin \in Nat
    /\ TokenUse \subseteq Nat /\ maxRetries \in Nat
    /\ ttl \in Nat /\ maxEntries \in Nat

VARIABLES
    at,            \* the layer each caller's request is in, "idle" without one
    kind,          \* ChatCompletion or ChatCompletionStream
    key,           \* the cache key of each caller's request
    attempt,       \* of RetryMiddleware's loop
    outcome,       \* what RateLimitMiddleware returns to the breaker
    requestLog,    \* ages of m.requestLog
    tokenLog,      \* ages and tokens of m.tokenLog
    cache          \* key |-> age of its entry

requestVars == <<at, kind, key, attempt, outcome>>
limiterVars == <<requestLog, tokenLog>>
chainVars == <<vars, requestVars, limiterVars, cache>>

AnyKey == CHOOSE k \in Key : TRUE

\* A caller without a request has kind "chat" and AnyKey, which nothing reads.
ChainInit ==
    /\ Init
    /\ at = [c \in Caller |-> "idle"]
    /\ kind = [c \in Caller |-> "chat"]
    /\ key = [c \in Caller |-> AnyKey]
    /\ attempt = [c \in Caller |-> 0]
    /\ outcome = [c \in Caller |-> "none"]
    /\ requestLog = <<>> /\ tokenLog = <<>>
    /\ cache = [k \in {} |-> 0]

Goto(c, layer) == at' = [at EXCEPT ![c] = layer]
Returns(c, layer, result) ==
    /\ Goto(c, layer)
    /\ outcome' = [outcome EXCEPT ![c] = result]

--------------------------------------------------------------------------------
(* The outer layers: the log, then the breaker's allow. *)

Request(c) ==
    /\ at[c] = "idle" /\ Goto(c, "limit")
    /\ \/ /\ \E k \in Key : key' = [key EXCEPT ![c] = k]
          /\ UNCHANGED kind
       \/ kind' = [kind EXCEPT ![c] = "stream"] /\ UNCHANGED key
    /\ UNCHANGED <<attempt, outcome, limiterVars, cache>>

Admitted(c) == AllowClosed(c) /\ Request(c)
AdmittedAsProbe(c) == AllowProbe(c) /\ Request(c)

\* recordResult, and the chain returns. Of a stream it has seen the creation only.
Report(c) ==
    /\ at[c] = "report"
    /\ IF outcome[c] = "ok"
          THEN Success(c)
          ELSE FailureClosed(c) \/ FailureHalfOpen(c) \/ FailureOpen(c)
    /\ Returns(c, "idle", "none")
    /\ attempt' = [attempt EXCEPT ![c] = 0]
    /\ kind' = [kind EXCEPT ![c] = "chat"]
    /\ key' = [key EXCEPT ![c] = AnyKey]
    /\ UNCHANGED <<limiterVars, cache>>

--------------------------------------------------------------------------------
(* RateLimitMiddleware *)

\* How many entries at the head of a log are older than the window: where the
\* loops of pruneTimestamps and pruneTokenEntries stop.
Stale(ages) ==
    CHOOSE i \in 0..Len(ages) : /\ \A j \in 1..i : ages[j] > Window
                                /\ i < Len(ages) => ages[i + 1] <= Window

Pruned(log, ages) == SubSeq(log, Stale(ages) + 1, Len(log))

TokenAges == [i \in DOMAIN tokenLog |-> tokenLog[i].age]

TokensIn(log) ==
    LET total[i \in 0..Len(log)] == IF i = 0 THEN 0 ELSE total[i - 1] + log[i].tokens
    IN total[Len(log)]

FreshRequests == Pruned(requestLog, requestLog)
FreshTokens == Pruned(tokenLog, TokenAges)

\* Mutant: one request too many.
OverRequests_OffByOne == requestsPerMin > 0 /\ Len(FreshRequests) > requestsPerMin

OverRequests == requestsPerMin > 0 /\ Len(FreshRequests) >= requestsPerMin

OverTokens == tokensPerMin > 0 /\ TokensIn(FreshTokens) >= tokensPerMin

Rejected(c) ==
    /\ Returns(c, "report", "error")
    /\ UNCHANGED <<vars, kind, key, attempt, cache>>

\* Mutant: a rejected request is logged, in the place of the oldest.
RejectRequest_Logged(c) ==
    /\ at[c] = "limit" /\ OverRequests
    /\ requestLog' = Append(Tail(FreshRequests), 0)
    /\ UNCHANGED tokenLog
    /\ Rejected(c)

\* allowRequest: the window is full of requests. tokenLog is not pruned.
RejectRequest(c) ==
    /\ at[c] = "limit" /\ OverRequests
    /\ requestLog' = FreshRequests
    /\ UNCHANGED tokenLog
    /\ Rejected(c)

LogRequest == requestLog' = IF requestsPerMin > 0 THEN Append(FreshRequests, 0)
                                                  ELSE requestLog
PruneTokens == tokenLog' = IF tokensPerMin > 0 THEN FreshTokens ELSE tokenLog

\* allowRequest: the request is logged before the tokens reject it.
RejectTokens(c) ==
    /\ at[c] = "limit" /\ ~OverRequests /\ OverTokens
    /\ LogRequest /\ PruneTokens
    /\ Rejected(c)

AllowRequest(c) ==
    /\ at[c] = "limit" /\ ~OverRequests /\ ~OverTokens
    /\ LogRequest /\ PruneTokens
    /\ Goto(c, "attempt")
    /\ UNCHANGED <<vars, kind, key, attempt, outcome, cache>>

\* recordTokens, after the answer to a chat; whatever layer answered it.
RecordTokens(c) ==
    /\ at[c] = "record" /\ Goto(c, "report")
    /\ \E tokens \in TokenUse :
          tokenLog' = IF tokensPerMin > 0 /\ tokens > 0
                         THEN Append(tokenLog, [age |-> 0, tokens |-> tokens])
                         ELSE tokenLog
    /\ UNCHANGED <<vars, kind, key, attempt, outcome, requestLog, cache>>

--------------------------------------------------------------------------------
(* RetryMiddleware. Retryable errors are the API's 429 and 5xx, network errors,
   which include an exceeded deadline, and EOF. What the caller alone does after
   an attempt is one step with the attempt's end. *)

Retryable(c, result) == result = "transient" /\ attempt[c] < maxRetries

AttemptEnds(c, result) ==
    IF Retryable(c, result)
       THEN Goto(c, "backoff") /\ UNCHANGED outcome
       ELSE IF result # "ok" THEN Returns(c, "report", "error")
       ELSE Returns(c, IF kind[c] = "chat" THEN "record" ELSE "report", "ok")

BackoffElapses(c) ==
    /\ at[c] = "backoff" /\ Goto(c, "attempt")
    /\ attempt' = [attempt EXCEPT ![c] = @ + 1]
    /\ UNCHANGED <<vars, kind, key, outcome, limiterVars, cache>>

\* The caller's context ends in sleepFn: lastErr is returned.
BackoffCancelled(c) ==
    /\ at[c] = "backoff" /\ Returns(c, "report", "error")
    /\ UNCHANGED <<vars, kind, key, attempt, limiterVars, cache>>

--------------------------------------------------------------------------------
(* TimeoutMiddleware, CacheMiddleware over a MapCache, and the base client *)

Live(k) == k \in DOMAIN cache /\ cache[k] <= ttl

CacheHit(c) ==
    /\ at[c] = "attempt" /\ kind[c] = "chat" /\ Live(key[c])
    /\ AttemptEnds(c, "ok")
    /\ UNCHANGED <<vars, kind, key, attempt, limiterVars, cache>>

\* A miss, or a stream, which is not looked up.
CallBase(c) ==
    /\ at[c] = "attempt" /\ (kind[c] = "stream" \/ ~Live(key[c]))
    /\ Goto(c, "base")
    /\ UNCHANGED <<vars, kind, key, attempt, outcome, limiterVars, cache>>

\* A final error is one no retry may help with, the caller's cancellation included.
BaseFails(c) ==
    /\ at[c] = "base"
    /\ \E error \in {"transient", "final"} : AttemptEnds(c, error)
    /\ UNCHANGED <<vars, kind, key, attempt, limiterVars, cache>>

\* Mutant: no deadline.
Timeout_None(c) == FALSE /\ UNCHANGED chainVars

\* The deadline of the attempt, chats only.
Timeout(c) ==
    /\ at[c] = "base" /\ kind[c] = "chat"
    /\ AttemptEnds(c, "transient")
    /\ UNCHANGED <<vars, kind, key, attempt, limiterVars, cache>>

Oldest(entries) ==
    {k \in DOMAIN entries : \A other \in DOMAIN entries : entries[k] >= entries[other]}

Full(entries) == maxEntries > 0 /\ Cardinality(DOMAIN entries) >= maxEntries

\* MapCache.Set: expired entries go, the oldest of a full cache goes even when
\* the key is there already, and the new entry is put.
Set(k) ==
    LET unexpired == Restrict(cache, {j \in DOMAIN cache : Live(j)})
    IN \E evicted \in IF Full(unexpired) THEN {{j} : j \in Oldest(unexpired)}
                                         ELSE {{}} :
         LET kept == DOMAIN unexpired \ evicted
         IN cache' = [j \in kept \cup {k} |-> IF j = k THEN 0 ELSE unexpired[j]]

BaseAnswers(c) ==
    /\ at[c] = "base"
    /\ AttemptEnds(c, "ok")
    /\ IF kind[c] = "chat" THEN Set(key[c]) ELSE UNCHANGED cache
    /\ UNCHANGED <<vars, kind, key, attempt, limiterVars>>

--------------------------------------------------------------------------------
(* Time *)

Older(age, cap) == IF age > cap THEN age ELSE age + 1

Tick ==
    /\ requestLog' = [i \in DOMAIN requestLog |-> Older(requestLog[i], Window)]
    /\ tokenLog' = [i \in DOMAIN tokenLog |->
                       [tokenLog[i] EXCEPT !.age = Older(@, Window)]]
    /\ cache' = [k \in DOMAIN cache |-> Older(cache[k], ttl)]
    /\ UNCHANGED <<vars, requestVars>>

ChainTimeoutElapses ==
    ResetTimeoutElapses /\ UNCHANGED <<requestVars, limiterVars, cache>>

Allow(c) == RejectRequest(c) \/ RejectTokens(c) \/ AllowRequest(c)
Proceed(c) == \/ Allow(c) \/ RecordTokens(c) \/ BackoffElapses(c)
              \/ CacheHit(c) \/ CallBase(c) \/ Report(c)
Answer(c) == BaseAnswers(c) \/ BaseFails(c)

ChainNext ==
    \/ \E c \in Caller :
         \/ Admitted(c) \/ AdmittedAsProbe(c) \/ Proceed(c) \/ Answer(c)
         \/ Timeout(c) \/ BackoffCancelled(c)
    \/ Tick \/ ChainTimeoutElapses

\* Time passes, the middleware goes on, a deadline fires, the client of a stream
\* that is not created gives up, and the program keeps making requests. Nothing
\* is assumed of the model's answers to chats.
ChainFairness ==
    /\ WF_chainVars(Tick) /\ WF_chainVars(ChainTimeoutElapses)
    /\ WF_chainVars(\E c \in Caller : AdmittedAsProbe(c))
    /\ \A c \in Caller : /\ WF_chainVars(Proceed(c)) /\ WF_chainVars(Timeout(c))
                         /\ WF_chainVars(kind[c] = "stream" /\ Answer(c))

ChainSpec == ChainInit /\ [][ChainNext]_chainVars /\ ChainFairness

--------------------------------------------------------------------------------
(* Properties *)

\* Whatever the interleaving of checks, calls and recordings, the requests of a
\* window stay within requestsPerMin, and its tokens exceed tokensPerMin by less
\* than one answer for each caller: tokens are checked before the call and
\* recorded after it.
WindowOvershootBounded ==
    /\ requestsPerMin > 0 => Len(FreshRequests) <= requestsPerMin
    /\ tokensPerMin > 0 =>
         \A most \in TokenUse : (\A t \in TokenUse : t <= most) =>
             TokensIn(FreshTokens) < tokensPerMin + Cardinality(Caller) * most

\* Inductive parts of WindowOvershootBounded.  The layers, and the entries of the
\* logs.
LimiterTypes ==
    /\ at \in [Caller -> {"idle", "limit", "attempt", "backoff", "base", "record", "report"}]
    /\ requestLog \in Seq(Nat)
    /\ tokenLog \in Seq([age : Nat, tokens : Nat])

\* The callers the limiter has let in, whose tokens may still be recorded.
Admissions == {c \in Caller : at[c] \in {"attempt", "backoff", "base", "record"}}

RequestsBounded == requestsPerMin > 0 => Len(FreshRequests) <= requestsPerMin

\* What is recorded and what may still be never exceeds the bound.
TokensBounded ==
    tokensPerMin > 0 =>
        \A most \in TokenUse : (\A t \in TokenUse : t <= most) =>
            TokensIn(FreshTokens) + Cardinality(Admissions) * most
                < tokensPerMin + Cardinality(Caller) * most

LimiterInv == LimiterTypes /\ RequestsBounded /\ TokensBounded

\* ratelimit.go:102-145: callers that keep asking while the limiter rejects them
\* do not keep its sliding windows full, although one that is rejected for its
\* tokens has been logged as a request, and tokens are recorded long after the
\* request they belong to: the limiter opens again and again.
LimiterReopens == []<>(~OverRequests /\ ~OverTokens)

\* Retries and a model that never answers do not keep a chat for ever.
ChatsReturn ==
    \A c \in Caller :
        at[c] # "idle" /\ kind[c] = "chat" ~> at[c] = "idle"
================================================================================
