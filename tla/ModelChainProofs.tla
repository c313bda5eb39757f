---------------------------- MODULE ModelChainProofs ----------------------------
(***************************************************************************)
(* The circuit breaker, and the circuit breaker inside the middleware      *)
(* chain. For every set of callers and every threshold the circuit is open *)
(* exactly after the threshold's failures, and half-open only while a      *)
(* probe is out; no layer of the chain touches the breaker's state but     *)
(* through allow and recordResult, so the same holds of the chain. For     *)
(* every window and every limit, the rate limiter lets no more requests    *)
(* and tokens into a window than it promises.                              *)
(***************************************************************************)
EXTENDS ModelChain, FiniteSetTheorems, SequenceTheorems, WellFoundedInduction, TLAPS

--------------------------------------------------------------------------------
(* The circuit breaker alone.                                                  *)

\* Every step keeps TypeOK.
LEMMA TypeOKKept ==
  ASSUME TypeOK, [Next]_vars
  PROVE  TypeOK'
<1> USE DEF TypeOK
<1>0. CASE UNCHANGED vars
  BY <1>0 DEF vars
<1>1. CASE ResetTimeoutElapses
  BY <1>1 DEF ResetTimeoutElapses
<1>2. ASSUME NEW c \in Caller, AllowClosed(c) \/ AllowProbe(c)
      PROVE  TypeOK'
  BY <1>2 DEF AllowClosed, AllowProbe
<1>3. ASSUME NEW c \in Caller, Success(c)
      PROVE  TypeOK'
  BY <1>3 DEF Success, Return
<1>4. ASSUME NEW c \in Caller, FailureClosed(c)
      PROVE  TypeOK'
  <2>1. elapsed' \in BOOLEAN
    BY <1>4, Zenon DEF FailureClosed
  <2>2. state' \in {"Closed", "Open", "HalfOpen"}
    BY <1>4 DEF FailureClosed
  <2>3. QED
    BY <1>4, <2>1, <2>2 DEF FailureClosed, Return
<1>5. ASSUME NEW c \in Caller, FailureHalfOpen(c) \/ FailureOpen(c)
      PROVE  TypeOK'
  BY <1>5 DEF FailureHalfOpen, FailureOpen, Return
<1> QED
  BY <1>0, <1>1, <1>2, <1>3, <1>4, <1>5 DEF Next, recordResult

\* The state variables keep their types, whatever the callers do.
THEOREM Typing == Spec => []TypeOK
<1>1. Init => TypeOK
  <2>1. Init => probeInFlight \in BOOLEAN /\ elapsed \in BOOLEAN
    BY Zenon DEF Init
  <2>2. QED
    BY <2>1 DEF Init, TypeOK
<1> QED  BY <1>1, TypeOKKept, PTL DEF Spec

\* Every step keeps OpenIffThresholdReached.
LEMMA OpenIffThresholdReachedKept ==
  ASSUME TypeOK, OpenIffThresholdReached, [Next]_vars
  PROVE  OpenIffThresholdReached'
<1> USE BreakerAssumption DEF TypeOK, OpenIffThresholdReached
<1>0. CASE UNCHANGED vars
  BY <1>0 DEF vars
<1>1. CASE ResetTimeoutElapses
  BY <1>1 DEF ResetTimeoutElapses
<1>2. ASSUME NEW c \in Caller, AllowClosed(c) \/ AllowProbe(c)
      PROVE  OpenIffThresholdReached'
  BY <1>2 DEF AllowClosed, AllowProbe, MayProbe
<1>3. ASSUME NEW c \in Caller, Success(c)
      PROVE  OpenIffThresholdReached'
  BY <1>3 DEF Success
<1>4. ASSUME NEW c \in Caller, FailureClosed(c)
      PROVE  OpenIffThresholdReached'
  BY <1>4 DEF FailureClosed, ThresholdReached
<1>5. ASSUME NEW c \in Caller, FailureHalfOpen(c) \/ FailureOpen(c)
      PROVE  OpenIffThresholdReached'
  BY <1>5 DEF FailureHalfOpen, FailureOpen
<1> QED
  BY <1>0, <1>1, <1>2, <1>3, <1>4, <1>5 DEF Next, recordResult

\* allow and recordResult keep state and failureCount in step, also for results
\* that come late, for any number of callers and any threshold.
THEOREM OpensAtThreshold == Spec => []OpenIffThresholdReached
<1>1. Init => OpenIffThresholdReached
  BY BreakerAssumption DEF Init, OpenIffThresholdReached
<1> QED  BY <1>1, OpenIffThresholdReachedKept, Typing, PTL DEF Spec

\* Every step keeps HalfOpenAwaitsProbe.
LEMMA HalfOpenAwaitsProbeKept ==
  ASSUME TypeOK, HalfOpenAwaitsProbe, [Next]_vars
  PROVE  HalfOpenAwaitsProbe'
<1> USE DEF TypeOK, HalfOpenAwaitsProbe
<1>0. CASE UNCHANGED vars
  BY <1>0 DEF vars
<1>1. CASE ResetTimeoutElapses
  BY <1>1 DEF ResetTimeoutElapses
<1>2. ASSUME NEW c \in Caller, AllowClosed(c)
      PROVE  HalfOpenAwaitsProbe'
  BY <1>2 DEF AllowClosed
<1>3. ASSUME NEW c \in Caller, AllowProbe(c)
      PROVE  HalfOpenAwaitsProbe'
  BY <1>3 DEF AllowProbe
<1>4. ASSUME NEW c \in Caller, recordResult(c)
      PROVE  HalfOpenAwaitsProbe'
  BY <1>4 DEF recordResult, Return, Success, FailureClosed, FailureHalfOpen,
              FailureOpen
<1> QED
  BY <1>0, <1>1, <1>2, <1>3, <1>4 DEF Next

\* A half-open circuit always has a probe to wait for: HalfOpenAwaitsProbe is
\* inductive once the types are known, because every way out of "probe" also
\* leaves HalfOpen.
THEOREM HalfOpenHasProbe == Spec => []HalfOpenAwaitsProbe
<1>1. Init => HalfOpenAwaitsProbe
  BY DEF Init, HalfOpenAwaitsProbe
<1> QED  BY <1>1, HalfOpenAwaitsProbeKept, Typing, PTL DEF Spec

--------------------------------------------------------------------------------
(* The circuit breaker in the chain.                                           *)

\* Every step of the chain is a step of the breaker, or leaves it alone.
LEMMA ChainStepIsBreakerStep ==
  ASSUME [ChainNext]_chainVars
  PROVE  [Next]_vars
<1>1. CASE UNCHANGED chainVars
  BY <1>1 DEF chainVars
<1>2. CASE Tick \/ ChainTimeoutElapses
  BY <1>2 DEF Tick, ChainTimeoutElapses, Next
<1>3. ASSUME NEW c \in Caller, Admitted(c) \/ AdmittedAsProbe(c)
      PROVE  Next
  BY <1>3 DEF Admitted, AdmittedAsProbe, Next
<1>4. ASSUME NEW c \in Caller, Report(c)
      PROVE  Next
  BY <1>4 DEF Report, Next, recordResult
<1>5. ASSUME NEW c \in Caller, Allow(c) \/ RecordTokens(c)
      PROVE  UNCHANGED vars
  BY <1>5 DEF Allow, RejectRequest, RejectTokens, Rejected, AllowRequest, RecordTokens
<1>6. ASSUME NEW c \in Caller, BackoffElapses(c) \/ BackoffCancelled(c)
      PROVE  UNCHANGED vars
  BY <1>6 DEF BackoffElapses, BackoffCancelled
<1>7. ASSUME NEW c \in Caller, CacheHit(c) \/ CallBase(c) \/ Answer(c) \/ Timeout(c)
      PROVE  UNCHANGED vars
  BY <1>7 DEF CacheHit, CallBase, Answer, BaseAnswers, BaseFails, Timeout
<1> QED
  BY <1>1, <1>2, <1>3, <1>4, <1>5, <1>6, <1>7 DEF ChainNext, Proceed

\* The chain implements the breaker: ModelChain refines CircuitBreaker's safety
\* specification with the identity on the breaker's variables.
THEOREM ChainRefinesBreaker == ChainSpec => Init /\ [][Next]_vars
<1>1. ChainInit => Init
  BY DEF ChainInit
<1> QED
  BY <1>1, ChainStepIsBreakerStep, PTL DEF ChainSpec

\* largemodel/circuitbreaker.go behind retries, timeouts and the rate limiter:
\* the circuit is closed exactly while fewer failures than the threshold have
\* been recorded, for every number of callers and all limits of the chain.
THEOREM ChainOpensAtThreshold == ChainSpec => []OpenIffThresholdReached
<1>1. Init => TypeOK
  <2>1. Init => probeInFlight \in BOOLEAN /\ elapsed \in BOOLEAN
    BY Zenon DEF Init
  <2> QED
    BY <2>1 DEF Init, TypeOK
<1>2. Init => OpenIffThresholdReached
  BY BreakerAssumption DEF Init, OpenIffThresholdReached
<1> QED
  BY <1>1, <1>2, TypeOKKept, OpenIffThresholdReachedKept, ChainRefinesBreaker, PTL

--------------------------------------------------------------------------------
(* The logs of the rate limiter.                                               *)

\* A set of natural numbers has a least element.
LEMMA LeastOf ==
  ASSUME NEW S \in SUBSET Nat, S # {}
  PROVE  \E m \in S : \A k \in S : m <= k
<1>1. \E m \in S : \A k \in S : <<k, m>> \notin OpToRel(<, Nat)
  BY NatLessThanWellFounded, WFMin, Zenon
<1>2. PICK m \in S : \A k \in S : <<k, m>> \notin OpToRel(<, Nat)
  BY <1>1
<1>3. ASSUME NEW k \in S
      PROVE  m <= k
  <2>1. ~(k < m)
    BY <1>2, Zenon DEF OpToRel
  <2> QED  BY <2>1
<1> QED  BY <1>3

\* pruneTimestamps and pruneTokenEntries stop at the first entry that is fresh.
LEMMA StaleIs ==
  ASSUME NEW ages \in Seq(Nat)
  PROVE  /\ Stale(ages) \in 0..Len(ages) /\ \A j \in 1..Stale(ages) : ages[j] > Window
         /\ Stale(ages) < Len(ages) => ages[Stale(ages) + 1] <= Window
<1> DEFINE stops == {i \in 0..Len(ages) : i < Len(ages) => ages[i + 1] <= Window}
<1>1. Len(ages) \in Nat /\ Window \in Nat /\ \A i \in 1..Len(ages) : ages[i] \in Nat
  BY ChainAssumption, ElementOfSeq, LenProperties
<1>2. stops \in SUBSET Nat /\ stops # {}
  <2>1. Len(ages) \in stops
    BY <1>1
  <2> QED  BY <2>1
<1>3. PICK m \in stops : \A k \in stops : m <= k
  BY <1>2, LeastOf
<1>4. \A j \in 1..m : ages[j] > Window
  <2> SUFFICES ASSUME NEW j \in 1..m PROVE ages[j] > Window
    OBVIOUS
  <2>1. j - 1 \in 0..Len(ages) /\ j - 1 < m /\ m <= Len(ages)
    BY <1>1
  <2>2. j - 1 \notin stops
    <3> HIDE DEF stops
    <3> QED  BY <1>2, <1>3, <2>1
  <2> QED  BY <1>1, <2>1, <2>2
<1>5. \E i \in 0..Len(ages) : /\ \A j \in 1..i : ages[j] > Window
                              /\ i < Len(ages) => ages[i + 1] <= Window
  BY <1>1, <1>3, <1>4
<1> HIDE DEF stops
<1> DEFINE P(i) == /\ \A j \in 1..i : ages[j] > Window
                   /\ i < Len(ages) => ages[i + 1] <= Window
<1>6. Stale(ages) = CHOOSE i \in 0..Len(ages) : P(i)
  BY DEF Stale
<1>7. \E i \in 0..Len(ages) : P(i)
  BY <1>5
<1> HIDE DEF P
<1>8. Stale(ages) \in 0..Len(ages) /\ P(Stale(ages))
  BY <1>6, <1>7, Zenon
<1> QED  BY <1>8 DEF P

\* What is kept of a log.
LEMMA KeptIs ==
  ASSUME NEW S, NEW log \in Seq(S), NEW k \in 0..Len(log)
  PROVE  LET rest == SubSeq(log, k + 1, Len(log))
         IN /\ rest \in Seq(S) /\ Len(rest) = Len(log) - k
            /\ \A i \in 1..(Len(log) - k) : rest[i] = log[k + i]
<1> DEFINE rest == SubSeq(log, k + 1, Len(log))
<1>1. Len(log) \in Nat /\ \A i \in 1..Len(log) : log[i] \in S
  BY ElementOfSeq, LenProperties
<1>2. \A i \in k + 1 .. Len(log) : log[i] \in S
  BY <1>1
<1>3. /\ rest \in Seq(S)
      /\ Len(rest) = IF k + 1 <= Len(log) THEN Len(log) - (k + 1) + 1 ELSE 0
      /\ \A i \in 1 .. Len(log) - (k + 1) + 1 : rest[i] = log[k + 1 + i - 1]
  BY <1>1, <1>2, SubSeqProperties
<1> HIDE DEF rest
<1>4. Len(rest) = Len(log) - k
  BY <1>1, <1>3
<1>5. \A i \in 1..(Len(log) - k) : rest[i] = log[k + i]
  BY <1>1, <1>3
<1> QED  BY <1>3, <1>4, <1>5 DEF rest

--------------------------------------------------------------------------------
(* The tokens of a log.                                                        *)

Entry == [age : Nat, tokens : Nat]

\* The running totals of a log.
Runs(log, f) == /\ f \in [0..Len(log) -> Nat] /\ f[0] = 0
                /\ \A i \in 1..Len(log) : f[i] = f[i - 1] + log[i].tokens

\* Two lists of numbers that grow alike have grown by the same at the end.
LEMMA GrowAlike ==
  ASSUME NEW n \in Nat, NEW f \in [0..n -> Int], NEW g \in [0..n -> Int],
         \A i \in 1..n : f[i] - f[i - 1] = g[i] - g[i - 1]
  PROVE  f[n] - f[0] = g[n] - g[0]
<1> DEFINE apart == {i \in 0..n : f[i] - f[0] # g[i] - g[0]}
<1>1. SUFFICES apart = {}
  BY SMTT(30)
<1>2. SUFFICES ASSUME apart # {} PROVE FALSE
  OBVIOUS
<1>3. PICK m \in apart : \A k \in apart : m <= k
  <2>1. apart \in SUBSET Nat
    OBVIOUS
  <2> HIDE DEF apart
  <2> QED  BY <1>2, <2>1, LeastOf
<1>4. m \in 1..n
  BY <1>3
<1>5. m - 1 \in 0..n /\ m - 1 < m
  BY <1>4
<1>6. m - 1 \notin apart
  <2>1. m \in Nat
    BY <1>4
  <2> HIDE DEF apart
  <2> QED  BY <1>3, <1>5, <2>1
<1> DEFINE before == f[m - 1]
           after == f[m]
           start == f[0]
           Before == g[m - 1]
           After == g[m]
           Start == g[0]
<1>7. before - start = Before - Start
  BY <1>5, <1>6
<1>8. after - before = After - Before
  BY <1>4
<1>9. /\ after \in Int /\ before \in Int /\ start \in Int
      /\ After \in Int /\ Before \in Int /\ Start \in Int
  BY <1>3, <1>5
<1>10. after - start # After - Start
  BY <1>3
<1> HIDE DEF before, after, start, Before, After, Start
<1> QED  BY <1>7, <1>8, <1>9, <1>10

\* The entries of a log count tokens.
LEMMA EntriesCount ==
  ASSUME NEW log \in Seq(Entry)
  PROVE  Len(log) \in Nat /\ \A i \in 1..Len(log) : log[i].tokens \in Nat
<1>1. Len(log) \in Nat /\ \A i \in 1..Len(log) : log[i] \in Entry
  BY ElementOfSeq, LenProperties
<1> QED  BY <1>1 DEF Entry

\* Every log has running totals.
LEMMA RunsExist ==
  ASSUME NEW log \in Seq(Entry)
  PROVE  \E f : Runs(log, f)
<1> DEFINE Good(n) == \E f \in [0..n -> Nat] :
                        f[0] = 0 /\ \A i \in 1..n : f[i] = f[i - 1] + log[i].tokens
           bad == {n \in 0..Len(log) : ~Good(n)}
<1>1. Len(log) \in Nat /\ \A i \in 1..Len(log) : log[i].tokens \in Nat
  BY EntriesCount
<1>2. bad = {}
  <2> SUFFICES ASSUME bad # {} PROVE FALSE
    OBVIOUS
  <2>1. PICK m \in bad : \A k \in bad : m <= k
    <3>1. bad \in SUBSET Nat
      OBVIOUS
    <3> HIDE DEF bad
    <3> QED  BY <3>1, LeastOf
  <2>2. m \in 0..Len(log) /\ ~Good(m)
    BY <2>1
  <2>3. m # 0
    <3>1. Good(0)
      <4> DEFINE f == [i \in 0..0 |-> 0]
      <4>1. f \in [0..0 -> Nat] /\ f[0] = 0 /\ \A i \in 1..0 : f[i] = f[i - 1] + log[i].tokens
        OBVIOUS
      <4> HIDE DEF f
      <4> QED  BY <4>1
    <3> HIDE DEF Good
    <3> QED  BY <2>2, <3>1
  <2>4. m - 1 \in 0..Len(log) /\ m - 1 < m
    BY <1>1, <2>2, <2>3
  <2>5. Good(m - 1)
    <3>1. m - 1 \notin bad
      <4> HIDE DEF bad
      <4> QED  BY <2>1, <2>2, <2>4
    <3> HIDE DEF Good
    <3> QED  BY <2>4, <3>1
  <2>6. PICK f \in [0..(m - 1) -> Nat] :
            f[0] = 0 /\ \A i \in 1..(m - 1) : f[i] = f[i - 1] + log[i].tokens
    BY <2>5
  <2> DEFINE g == [i \in 0..m |-> IF i = m THEN f[m - 1] + log[m].tokens ELSE f[i]]
  <2>7. g \in [0..m -> Nat] /\ g[0] = 0
    BY <1>1, <2>2, <2>3, <2>6
  <2>8. \A i \in 1..m : g[i] = g[i - 1] + log[i].tokens
    BY <1>1, <2>2, <2>3, <2>6
  <2> HIDE DEF g
  <2>9. Good(m)
    BY <2>7, <2>8
  <2> QED  BY <2>2, <2>9
<1>3. Good(Len(log))
  BY <1>1, <1>2
<1> QED  BY <1>3 DEF Runs

\* The tokens of a log are its last running total, whatever the totals.
LEMMA TokensInIs ==
  ASSUME NEW log \in Seq(Entry), NEW f, Runs(log, f)
  PROVE  TokensIn(log) = f[Len(log)] /\ TokensIn(log) \in Nat
<1> DEFINE Is(g) == g = [i \in 0..Len(log) |-> IF i = 0 THEN 0 ELSE g[i - 1] + log[i].tokens]
           total == CHOOSE g : Is(g)
<1>1. Len(log) \in Nat /\ \A i \in 1..Len(log) : log[i].tokens \in Nat
  BY EntriesCount
<1>2. Is(f)
  <2>1. f = [i \in 0..Len(log) |-> f[i]]
    BY DEF Runs
  <2>2. \A i \in 0..Len(log) : f[i] = IF i = 0 THEN 0 ELSE f[i - 1] + log[i].tokens
    BY <1>1 DEF Runs
  <2> QED  BY <2>1, <2>2
<1>3. Is(total)
  BY <1>2
<1>4. TokensIn(log) = total[Len(log)]
  BY DEF TokensIn
<1> HIDE DEF total
<1>5. /\ DOMAIN total = 0..Len(log) /\ total[0] = 0
      /\ \A i \in 1..Len(log) : total[i] = total[i - 1] + log[i].tokens
  BY <1>1, <1>3
<1> HIDE DEF Is
<1> DEFINE apart == {i \in 0..Len(log) : total[i] # f[i]}
<1>6. apart = {}
  <2> SUFFICES ASSUME apart # {} PROVE FALSE
    OBVIOUS
  <2>1. PICK m \in apart : \A k \in apart : m <= k
    <3>1. apart \in SUBSET Nat
      OBVIOUS
    <3> HIDE DEF apart
    <3> QED  BY <3>1, LeastOf
  <2>2. m \in 1..Len(log)
    BY <1>1, <1>5, <2>1 DEF Runs
  <2>3. m - 1 \in 0..Len(log) /\ m - 1 < m
    BY <1>1, <2>2
  <2>4. m - 1 \notin apart
    <3> HIDE DEF apart
    <3> QED  BY <2>1, <2>2, <2>3
  <2>5. total[m - 1] = f[m - 1]
    BY <2>3, <2>4
  <2>6. total[m] = f[m]
    BY <1>5, <2>2, <2>5 DEF Runs
  <2> QED  BY <2>1, <2>6
<1>7. total[Len(log)] = f[Len(log)]
  BY <1>1, <1>6
<1>8. f[Len(log)] \in Nat
  BY <1>1 DEF Runs
<1> QED  BY <1>4, <1>7, <1>8

\* One entry more.
LEMMA TokensMore ==
  ASSUME NEW log \in Seq(Entry), NEW e \in Entry
  PROVE  /\ Append(log, e) \in Seq(Entry)
         /\ TokensIn(Append(log, e)) = TokensIn(log) + e.tokens
<1> DEFINE more == Append(log, e)
<1>1. /\ more \in Seq(Entry) /\ Len(log) \in Nat /\ Len(more) = Len(log) + 1
      /\ \A i \in 1..Len(log) : more[i] = log[i]
      /\ more[Len(log) + 1] = e
  BY AppendProperties, LenProperties
<1>2. e.tokens \in Nat
  BY DEF Entry
<1> HIDE DEF more
<1>3. PICK f : Runs(more, f)
  BY <1>1, RunsExist
<1> DEFINE g == [i \in 0..Len(log) |-> f[i]]
<1>4. Runs(log, g)
  BY <1>1, <1>3 DEF Runs
<1>5. /\ TokensIn(more) = f[Len(log) + 1] /\ TokensIn(log) = g[Len(log)]
  BY <1>1, <1>3, <1>4, TokensInIs
<1>6. f[Len(log) + 1] = f[Len(log)] + e.tokens /\ g[Len(log)] = f[Len(log)]
  <2>1. Len(log) + 1 \in 1..Len(more) /\ (Len(log) + 1) - 1 = Len(log)
    BY <1>1
  <2> QED  BY <1>1, <1>3, <2>1 DEF Runs
<1> HIDE DEF g
<1> QED  BY <1>1, <1>5, <1>6 DEF more

\* The end of a log has no more tokens than the log.
LEMMA TokensFewer ==
  ASSUME NEW log \in Seq(Entry), NEW rest \in Seq(Entry), NEW k \in Nat,
         Len(rest) = Len(log) - k,
         \A i \in 1..Len(rest) : rest[i].tokens = log[k + i].tokens
  PROVE  TokensIn(rest) <= TokensIn(log)
<1> DEFINE n == Len(rest)
<1>1. n \in Nat /\ Len(log) = k + n /\ Len(log) \in Nat
  BY LenProperties
<1>2. /\ \A i \in 1..Len(log) : log[i].tokens \in Nat
      /\ \A i \in 1..n : rest[i].tokens \in Nat
  BY EntriesCount
<1>3. PICK f : Runs(log, f)
  BY RunsExist
<1>4. PICK g : Runs(rest, g)
  BY RunsExist
<1> HIDE DEF n
<1> DEFINE h == [i \in 0..n |-> f[k + i]]
<1>5. f \in [0..(k + n) -> Nat] /\ \A i \in 1..(k + n) : f[i] = f[i - 1] + log[i].tokens
  BY <1>1, <1>3 DEF Runs
<1>6. /\ g \in [0..n -> Int] /\ g \in [0..n -> Nat] /\ g[0] = 0
      /\ \A i \in 1..n : g[i] = g[i - 1] + rest[i].tokens
  BY <1>4, SMTT(30) DEF Runs, n
<1>7. h \in [0..n -> Int]
  BY <1>1, <1>5
<1>8. ASSUME NEW i \in 1..n
      PROVE  g[i] - g[i - 1] = h[i] - h[i - 1]
  <2>1. k + i \in 1..(k + n) /\ (k + i) - 1 = k + (i - 1) /\ i - 1 \in 0..n /\ i \in 0..n
    BY <1>1
  <2>2. h[i] = f[k + i] /\ h[i - 1] = f[(k + i) - 1]
    BY <2>1
  <2> HIDE DEF h
  <2>3. f[k + i] = f[(k + i) - 1] + log[k + i].tokens
    BY <1>5, <2>1
  <2>4. g[i] = g[i - 1] + rest[i].tokens /\ rest[i].tokens = log[k + i].tokens
    BY <1>6 DEF n
  <2>5. rest[i].tokens \in Nat /\ g[i - 1] \in Nat /\ f[(k + i) - 1] \in Nat
    <3>1. (k + i) - 1 \in 0..(k + n)
      BY <1>1, <2>1
    <3> QED  BY <1>2, <1>5, <1>6, <2>1, <3>1
  <2> QED  BY <2>2, <2>3, <2>4, <2>5
<1>9. g[n] - g[0] = h[n] - h[0]
  <2> HIDE DEF h
  <2> QED  BY <1>1, <1>6, <1>7, <1>8, GrowAlike
<1>10. h[n] = f[Len(log)] /\ h[0] = f[k] /\ f[k] \in Nat /\ f[Len(log)] \in Nat /\ g[n] \in Nat
  BY <1>1, <1>5, <1>6
<1>11. TokensIn(log) = f[Len(log)] /\ TokensIn(rest) = g[n]
  BY <1>3, <1>4, TokensInIs DEF n
<1> HIDE DEF h
<1> QED  BY <1>6, <1>9, <1>10, <1>11

--------------------------------------------------------------------------------
(* The rate limiter.                                                           *)

\* What was stale stays stale when entries grow older or are added.
LEMMA StaleGrows ==
  ASSUME NEW ages \in Seq(Nat), NEW later \in Seq(Nat), Len(ages) <= Len(later),
         \A i \in 1..Len(ages) : later[i] >= ages[i]
  PROVE  Stale(later) >= Stale(ages)
<1>1. /\ Len(ages) \in Nat /\ Len(later) \in Nat /\ Window \in Nat
      /\ \A i \in 1..Len(ages) : ages[i] \in Nat
      /\ \A i \in 1..Len(later) : later[i] \in Nat
  BY ChainAssumption, ElementOfSeq, LenProperties
<1>2. /\ Stale(ages) \in 0..Len(ages) /\ \A j \in 1..Stale(ages) : ages[j] > Window
  BY StaleIs
<1>3. /\ Stale(later) \in 0..Len(later)
      /\ Stale(later) < Len(later) => later[Stale(later) + 1] <= Window
  BY StaleIs
<1> SUFFICES ASSUME Stale(later) < Stale(ages) PROVE FALSE
  BY <1>2, <1>3
<1>4. Stale(later) + 1 \in 1..Stale(ages) /\ Stale(later) + 1 \in 1..Len(ages)
  BY <1>1, <1>2, <1>3
<1>5. later[Stale(later) + 1] > Window
  BY <1>1, <1>2, <1>4, SMTT(30)
<1> QED  BY <1>1, <1>2, <1>3, <1>4, <1>5

\* The fresh end of a log.
LEMMA PrunedIs ==
  ASSUME NEW S, NEW log \in Seq(S), NEW ages \in Seq(Nat), Len(ages) = Len(log)
  PROVE  /\ Stale(ages) \in 0..Len(log) /\ Len(log) \in Nat
         /\ Pruned(log, ages) \in Seq(S) /\ Len(Pruned(log, ages)) = Len(log) - Stale(ages)
         /\ \A i \in 1..(Len(log) - Stale(ages)) :
               Pruned(log, ages)[i] = log[Stale(ages) + i]
BY StaleIs, KeptIs, LenProperties DEF Pruned

\* A log without stale entries at its head is not pruned any further.
LEMMA NothingStale ==
  ASSUME NEW ages \in Seq(Nat), Len(ages) = 0 \/ ages[1] <= Window
  PROVE  Stale(ages) = 0
<1>1. Len(ages) \in Nat /\ Window \in Nat /\ \A i \in 1..Len(ages) : ages[i] \in Nat
  BY ChainAssumption, ElementOfSeq, LenProperties
<1> QED  BY <1>1, StaleIs

\* The requests that are kept are fresh from the first on.
LEMMA FreshRequestsAre ==
  ASSUME requestLog \in Seq(Nat)
  PROVE  /\ FreshRequests \in Seq(Nat) /\ Len(FreshRequests) \in Nat
         /\ Len(FreshRequests) = 0 \/ FreshRequests[1] <= Window
         /\ Len(FreshRequests) = Len(requestLog) - Stale(requestLog)
<1>1. /\ Stale(requestLog) \in 0..Len(requestLog) /\ Len(requestLog) \in Nat
      /\ FreshRequests \in Seq(Nat)
      /\ Len(FreshRequests) = Len(requestLog) - Stale(requestLog)
      /\ \A i \in 1..(Len(requestLog) - Stale(requestLog)) :
            FreshRequests[i] = requestLog[Stale(requestLog) + i]
  BY PrunedIs DEF FreshRequests
<1>2. Stale(requestLog) < Len(requestLog) => requestLog[Stale(requestLog) + 1] <= Window
  BY StaleIs
<1> QED  BY <1>1, <1>2

\* The ages in a token log.
AgesOf(log) == [i \in DOMAIN log |-> log[i].age]

LEMMA AgesAre ==
  ASSUME NEW log \in Seq(Entry)
  PROVE  /\ AgesOf(log) \in Seq(Nat) /\ Len(AgesOf(log)) = Len(log) /\ Len(log) \in Nat
         /\ \A i \in 1..Len(log) : AgesOf(log)[i] = log[i].age /\ log[i].age \in Nat
<1>1. Len(log) \in Nat /\ DOMAIN log = 1..Len(log) /\ \A i \in 1..Len(log) : log[i] \in Entry
  BY ElementOfSeq, LenProperties
<1>2. \A i \in 1..Len(log) : log[i].age \in Nat
  BY <1>1 DEF Entry
<1>3. AgesOf(log) \in [1..Len(log) -> Nat]
  BY <1>1, <1>2 DEF AgesOf
<1>4. AgesOf(log) \in Seq(Nat)
  BY <1>1, <1>3
<1>5. Len(AgesOf(log)) = Len(log)
  BY <1>1, <1>3, <1>4, LenProperties
<1> QED  BY <1>1, <1>2, <1>4, <1>5 DEF AgesOf

\* What pruneTokenEntries keeps of a token log.
FreshOf(log) == Pruned(log, AgesOf(log))

LEMMA FreshOfIs ==
  ASSUME NEW log \in Seq(Entry)
  PROVE  /\ Stale(AgesOf(log)) \in 0..Len(log) /\ Len(log) \in Nat
         /\ FreshOf(log) \in Seq(Entry)
         /\ Len(FreshOf(log)) = Len(log) - Stale(AgesOf(log))
         /\ \A i \in 1..(Len(log) - Stale(AgesOf(log))) :
               FreshOf(log)[i] = log[Stale(AgesOf(log)) + i]
BY AgesAre, PrunedIs DEF FreshOf

\* Totals are numbers.
LEMMA TokensAreNat ==
  ASSUME NEW log \in Seq(Entry)
  PROVE  TokensIn(log) \in Nat
BY RunsExist, TokensInIs

\* Pruning takes tokens away only.
LEMMA PrunedFewer ==
  ASSUME NEW log \in Seq(Entry)
  PROVE  TokensIn(FreshOf(log)) <= TokensIn(log)
<1> DEFINE k == Stale(AgesOf(log))
           rest == FreshOf(log)
<1>1. /\ rest \in Seq(Entry) /\ k \in Nat /\ Len(rest) = Len(log) - k
      /\ \A i \in 1..Len(rest) : rest[i] = log[k + i]
  BY FreshOfIs
<1> HIDE DEF k, rest
<1>2. \A i \in 1..Len(rest) : rest[i].tokens = log[k + i].tokens
  BY <1>1
<1>3. TokensIn(rest) <= TokensIn(log)
  BY <1>1, <1>2, TokensFewer
<1> QED  BY <1>3 DEF rest

\* The fresh tokens of a log do not grow with its age.
LEMMA LaterFewer ==
  ASSUME NEW log \in Seq(Entry), NEW later \in Seq(Entry), Len(later) = Len(log),
         \A i \in 1..Len(log) : later[i].age >= log[i].age
                                /\ later[i].tokens = log[i].tokens
  PROVE  TokensIn(FreshOf(later)) <= TokensIn(FreshOf(log))
<1> DEFINE k == Stale(AgesOf(log))
           m == Stale(AgesOf(later))
           old == FreshOf(log)
           new == FreshOf(later)
<1>1. /\ k \in 0..Len(log) /\ Len(log) \in Nat /\ old \in Seq(Entry)
      /\ Len(old) = Len(log) - k /\ \A i \in 1..(Len(log) - k) : old[i] = log[k + i]
  BY FreshOfIs
<1>2. /\ m \in 0..Len(log) /\ new \in Seq(Entry)
      /\ Len(new) = Len(log) - m /\ \A i \in 1..(Len(log) - m) : new[i] = later[m + i]
  BY FreshOfIs
<1>3. m >= k
  <2>1. \A i \in 1..Len(AgesOf(log)) : AgesOf(later)[i] >= AgesOf(log)[i]
    BY AgesAre
  <2> QED  BY <2>1, AgesAre, StaleGrows
<1> HIDE DEF k, m, old, new
<1>4. m - k \in Nat /\ Len(new) = Len(old) - (m - k)
  BY <1>1, <1>2, <1>3
<1>5. ASSUME NEW i \in 1..Len(new)
      PROVE  new[i].tokens = old[(m - k) + i].tokens
  <2>1. /\ i \in 1..(Len(log) - m) /\ (m - k) + i \in 1..(Len(log) - k)
        /\ m + i \in 1..Len(log) /\ k + ((m - k) + i) = m + i
    BY <1>1, <1>2, <1>3
  <2>2. new[i] = later[m + i]
    BY <1>2, <2>1
  <2>3. old[(m - k) + i] = log[k + ((m - k) + i)]
    BY <1>1, <2>1
  <2>4. later[m + i].tokens = log[m + i].tokens
    BY <2>1
  <2> QED  BY <2>1, <2>2, <2>3, <2>4
<1>6. TokensIn(new) <= TokensIn(old)
  BY <1>1, <1>2, <1>4, <1>5, TokensFewer
<1> QED  BY <1>6 DEF old, new

\* recordTokens adds the tokens of one answer at most.
LEMMA RecordedMore ==
  ASSUME NEW log \in Seq(Entry), NEW e \in Entry
  PROVE  TokensIn(FreshOf(Append(log, e))) <= TokensIn(FreshOf(log)) + e.tokens
<1> DEFINE later == Append(log, e)
           k == Stale(AgesOf(log))
           m == Stale(AgesOf(later))
           old == Append(FreshOf(log), e)
           new == FreshOf(later)
<1>0. /\ later \in Seq(Entry) /\ Len(log) \in Nat /\ Len(later) = Len(log) + 1
      /\ \A i \in 1..Len(log) : later[i] = log[i]
      /\ later[Len(log) + 1] = e
  BY AppendProperties, LenProperties
<1> HIDE DEF later
<1>1. /\ k \in 0..Len(log) /\ FreshOf(log) \in Seq(Entry)
      /\ Len(FreshOf(log)) = Len(log) - k
      /\ \A i \in 1..(Len(log) - k) : FreshOf(log)[i] = log[k + i]
  BY FreshOfIs
<1>2. /\ m \in 0..Len(later) /\ new \in Seq(Entry) /\ Len(new) = Len(later) - m
      /\ \A i \in 1..(Len(later) - m) : new[i] = later[m + i]
  BY <1>0, FreshOfIs
<1>3. m >= k
  <2>1. ASSUME NEW i \in 1..Len(AgesOf(log))
        PROVE  AgesOf(later)[i] >= AgesOf(log)[i]
    <3>1. /\ i \in 1..Len(log) /\ i \in 1..Len(later) /\ later[i] = log[i]
          /\ AgesOf(log)[i] = log[i].age /\ log[i].age \in Nat
      BY <1>0, AgesAre
    <3>2. AgesOf(later)[i] = later[i].age
      BY <1>0, <3>1, AgesAre
    <3> QED  BY <3>1, <3>2
  <2>2. Len(AgesOf(log)) <= Len(AgesOf(later))
    BY <1>0, AgesAre
  <2> QED  BY <1>0, <2>1, <2>2, AgesAre, StaleGrows
<1>4. /\ old \in Seq(Entry) /\ Len(old) = Len(FreshOf(log)) + 1
      /\ \A i \in 1..Len(FreshOf(log)) : old[i] = FreshOf(log)[i]
      /\ old[Len(FreshOf(log)) + 1] = e
  BY <1>1, AppendProperties
<1>5. TokensIn(old) = TokensIn(FreshOf(log)) + e.tokens
  BY <1>1, TokensMore
<1> HIDE DEF k, m, old, new
<1>6. m - k \in Nat /\ Len(new) = Len(old) - (m - k)
  BY <1>0, <1>1, <1>2, <1>3, <1>4
<1>7. ASSUME NEW i \in 1..Len(new)
      PROVE  new[i] = old[(m - k) + i]
  <2>1. /\ i \in 1..(Len(log) + 1 - m) /\ (m - k) + i \in 1..(Len(log) + 1 - k)
        /\ k + ((m - k) + i) = m + i
    BY <1>0, <1>1, <1>2, <1>3
  <2>2. new[i] = later[m + i]
    BY <1>0, <1>2, <2>1
  <2>3. CASE m + i = Len(log) + 1
    <3>1. (m - k) + i = Len(FreshOf(log)) + 1
      BY <1>0, <1>1, <1>2, <2>1, <2>3
    <3> QED  BY <1>0, <1>4, <2>2, <2>3, <3>1
  <2>4. CASE m + i # Len(log) + 1
    <3>1. (m - k) + i \in 1..(Len(log) - k) /\ m + i \in 1..Len(log)
      BY <1>0, <1>1, <1>2, <2>1, <2>4
    <3>2. old[(m - k) + i] = log[k + ((m - k) + i)]
      BY <1>1, <1>4, <3>1
    <3> QED  BY <1>0, <2>1, <2>2, <3>1, <3>2
  <2> QED  BY <2>3, <2>4
<1>8. TokensIn(new) <= TokensIn(old)
  BY <1>2, <1>4, <1>6, <1>7, TokensFewer
<1> QED  BY <1>5, <1>8 DEF new, later

\* The token log of the limiter.
LEMMA FreshTokensAre ==
  ASSUME tokenLog \in Seq(Entry)
  PROVE  /\ FreshTokens = FreshOf(tokenLog) /\ FreshTokens \in Seq(Entry)
         /\ TokensIn(FreshTokens) \in Nat
<1>1. FreshTokens = FreshOf(tokenLog)
  BY DEF FreshTokens, TokenAges, FreshOf, AgesOf
<1> QED  BY <1>1, FreshOfIs, TokensAreNat

\* Products grow with their factors.
LEMMA TimesMore ==
  ASSUME NEW a \in Nat, NEW b \in Nat, NEW m \in Nat, a <= b
  PROVE  a * m <= b * m /\ a * m \in Nat /\ b * m \in Nat
         /\ (a + 1) * m = a * m + m
OBVIOUS

--------------------------------------------------------------------------------
(* The steps of the rate limiter.                                              *)

\* What an attempt's end does to the layers.
LEMMA AttemptMoves ==
  ASSUME LimiterTypes, NEW c \in Caller, NEW result, at[c] \in {"attempt", "base"},
         AttemptEnds(c, result)
  PROVE  \E layer \in {"backoff", "record", "report"} : Goto(c, layer)
BY DEF AttemptEnds, Returns

\* Every step either moves one caller on or leaves the layers alone, and admits
\* only who AllowRequest admits.
LEMMA LayersMove ==
  ASSUME LimiterTypes, [ChainNext]_chainVars
  PROVE  \/ at' = at
         \/ \E c \in Caller :
              \/ at[c] = "idle" /\ Goto(c, "limit")
              \/ at[c] = "limit" /\ Goto(c, "report")
              \/ AllowRequest(c)
              \/ at[c] \in {"attempt", "backoff", "base", "record"}
                 /\ \E layer \in {"attempt", "backoff", "base", "record", "report"} :
                       Goto(c, layer)
              \/ at[c] = "report" /\ Goto(c, "idle")
<1>1. CASE UNCHANGED chainVars \/ Tick \/ ChainTimeoutElapses
  BY <1>1 DEF chainVars, Tick, ChainTimeoutElapses, requestVars
<1>2. ASSUME NEW c \in Caller, Admitted(c) \/ AdmittedAsProbe(c)
      PROVE  at[c] = "idle" /\ Goto(c, "limit")
  BY <1>2 DEF Admitted, AdmittedAsProbe, Request
<1>3. ASSUME NEW c \in Caller, RejectRequest(c) \/ RejectTokens(c)
      PROVE  at[c] = "limit" /\ Goto(c, "report")
  BY <1>3 DEF RejectRequest, RejectTokens, Rejected, Returns
<1>4. ASSUME NEW c \in Caller, Report(c)
      PROVE  at[c] = "report" /\ Goto(c, "idle")
  BY <1>4 DEF Report, Returns
<1>5. ASSUME NEW c \in Caller,
             RecordTokens(c) \/ BackoffElapses(c) \/ BackoffCancelled(c) \/ CallBase(c)
      PROVE  /\ at[c] \in {"attempt", "backoff", "base", "record"}
             /\ \E layer \in {"attempt", "backoff", "base", "record", "report"} :
                   Goto(c, layer)
  BY <1>5 DEF RecordTokens, BackoffElapses, BackoffCancelled, CallBase, Returns
<1>6. ASSUME NEW c \in Caller, CacheHit(c) \/ Answer(c) \/ Timeout(c)
      PROVE  /\ at[c] \in {"attempt", "backoff", "base", "record"}
             /\ \E layer \in {"attempt", "backoff", "base", "record", "report"} :
                   Goto(c, layer)
  <2>1. at[c] \in {"attempt", "base"} /\ \E result : AttemptEnds(c, result)
    BY <1>6 DEF CacheHit, Answer, BaseAnswers, BaseFails, Timeout
  <2> QED  BY <2>1, AttemptMoves
<1> QED
  BY <1>1, <1>2, <1>3, <1>4, <1>5, <1>6, Zenon DEF ChainNext, Proceed, Allow

\* What every step does to the logs.
LEMMA LogsMove ==
  ASSUME LimiterTypes, [ChainNext]_chainVars
  PROVE  \/ UNCHANGED limiterVars
         \/ \E c \in Caller : RejectRequest(c) \/ RejectTokens(c) \/ AllowRequest(c)
                              \/ RecordTokens(c)
         \/ Tick
<1>1. CASE UNCHANGED chainVars \/ ChainTimeoutElapses
  BY <1>1 DEF chainVars, ChainTimeoutElapses
<1>2. ASSUME NEW c \in Caller, Admitted(c) \/ AdmittedAsProbe(c) \/ Report(c)
      PROVE  UNCHANGED limiterVars
  BY <1>2 DEF Admitted, AdmittedAsProbe, Request, Report
<1>3. ASSUME NEW c \in Caller,
             BackoffElapses(c) \/ BackoffCancelled(c) \/ CacheHit(c) \/ CallBase(c)
      PROVE  UNCHANGED limiterVars
  BY <1>3 DEF BackoffElapses, BackoffCancelled, CacheHit, CallBase
<1>4. ASSUME NEW c \in Caller, Answer(c) \/ Timeout(c)
      PROVE  UNCHANGED limiterVars
  BY <1>4 DEF Answer, BaseAnswers, BaseFails, Timeout
<1> QED
  BY <1>1, <1>2, <1>3, <1>4, Zenon DEF ChainNext, Proceed, Allow

\* Tick ages every entry and drops none.
LEMMA TickAges ==
  ASSUME LimiterTypes, Tick
  PROVE  /\ requestLog' \in Seq(Nat) /\ Len(requestLog') = Len(requestLog)
         /\ \A i \in 1..Len(requestLog) : requestLog'[i] >= requestLog[i]
         /\ tokenLog' \in Seq(Entry) /\ Len(tokenLog') = Len(tokenLog)
         /\ \A i \in 1..Len(tokenLog) : /\ tokenLog'[i].age >= tokenLog[i].age
                                        /\ tokenLog'[i].tokens = tokenLog[i].tokens
<1>1. /\ Len(requestLog) \in Nat /\ DOMAIN requestLog = 1..Len(requestLog)
      /\ \A i \in 1..Len(requestLog) : requestLog[i] \in Nat
  BY ElementOfSeq, LenProperties DEF LimiterTypes
<1>2. /\ Len(tokenLog) \in Nat /\ DOMAIN tokenLog = 1..Len(tokenLog)
      /\ \A i \in 1..Len(tokenLog) : tokenLog[i] \in Entry
  BY ElementOfSeq, LenProperties DEF LimiterTypes, Entry
<1>3. \A i \in 1..Len(requestLog) : /\ Older(requestLog[i], Window) \in Nat
                                    /\ Older(requestLog[i], Window) >= requestLog[i]
  BY <1>1, ChainAssumption DEF Older
<1>4. requestLog' = [i \in 1..Len(requestLog) |-> Older(requestLog[i], Window)]
  BY <1>1 DEF Tick
<1>5. requestLog' \in Seq(Nat) /\ Len(requestLog') = Len(requestLog)
  <2>1. requestLog' \in [1..Len(requestLog) -> Nat]
    BY <1>3, <1>4
  <2>2. requestLog' \in Seq(Nat)
    BY <1>1, <2>1
  <2> QED  BY <1>1, <2>1, <2>2, LenProperties
<1>6. tokenLog' = [i \in 1..Len(tokenLog) |->
                      [tokenLog[i] EXCEPT !.age = Older(@, Window)]]
  BY <1>2 DEF Tick
<1>7. ASSUME NEW i \in 1..Len(tokenLog)
      PROVE  /\ tokenLog'[i] \in Entry /\ tokenLog'[i].age >= tokenLog[i].age
             /\ tokenLog'[i].tokens = tokenLog[i].tokens
  <2>1. tokenLog[i] \in [age : Nat, tokens : Nat]
    BY <1>2 DEF Entry
  <2>2. /\ Older(tokenLog[i].age, Window) \in Nat
        /\ Older(tokenLog[i].age, Window) >= tokenLog[i].age
    BY <2>1, ChainAssumption DEF Older
  <2>3. tokenLog'[i] = [tokenLog[i] EXCEPT !.age = Older(tokenLog[i].age, Window)]
    BY <1>6
  <2> QED  BY <2>1, <2>2, <2>3 DEF Entry
<1>8. tokenLog' \in Seq(Entry) /\ Len(tokenLog') = Len(tokenLog)
  <2>1. tokenLog' \in [1..Len(tokenLog) -> Entry]
    BY <1>6, <1>7
  <2>2. tokenLog' \in Seq(Entry)
    BY <1>2, <2>1
  <2> QED  BY <1>2, <2>1, <2>2, LenProperties
<1> QED  BY <1>3, <1>4, <1>5, <1>7, <1>8

\* What the limiter does to its logs.
LEMMA LogsBecome ==
  ASSUME LimiterTypes, NEW c \in Caller
  PROVE  /\ RejectRequest(c) \/ RejectTokens(c) \/ AllowRequest(c) \/ RecordTokens(c) =>
               requestLog' \in {requestLog, FreshRequests, Append(FreshRequests, 0)}
         /\ RejectRequest(c) \/ RejectTokens(c) \/ AllowRequest(c) =>
               tokenLog' \in {tokenLog, FreshTokens}
         /\ RecordTokens(c) =>
               \/ tokenLog' = tokenLog
               \/ \E e \in Entry : e.tokens \in TokenUse /\ tokenLog' = Append(tokenLog, e)
<1>1. ASSUME RecordTokens(c), tokenLog' # tokenLog
      PROVE  \E e \in Entry : e.tokens \in TokenUse /\ tokenLog' = Append(tokenLog, e)
  <2>1. PICK tokens \in TokenUse : tokenLog' = Append(tokenLog, [age |-> 0, tokens |-> tokens])
    BY <1>1 DEF RecordTokens
  <2>2. [age |-> 0, tokens |-> tokens] \in Entry
    BY ChainAssumption DEF Entry
  <2> QED  BY <2>1, <2>2
<1>2. RejectRequest(c) \/ RejectTokens(c) \/ AllowRequest(c) \/ RecordTokens(c) =>
         requestLog' \in {requestLog, FreshRequests, Append(FreshRequests, 0)}
  BY DEF RejectRequest, RejectTokens, AllowRequest, RecordTokens, LogRequest
<1>3. RejectRequest(c) \/ RejectTokens(c) \/ AllowRequest(c) =>
         tokenLog' \in {tokenLog, FreshTokens}
  BY DEF RejectRequest, RejectTokens, AllowRequest, PruneTokens
<1> QED  BY <1>1, <1>2, <1>3

\* The layers and the entries of the logs keep their types.
LEMMA LimiterTypesKept ==
  ASSUME LimiterTypes, [ChainNext]_chainVars
  PROVE  LimiterTypes'
<1>0. requestLog \in Seq(Nat) /\ tokenLog \in Seq(Entry)
  BY DEF LimiterTypes, Entry
<1>1. at' \in [Caller -> {"idle", "limit", "attempt", "backoff", "base", "record", "report"}]
  <2>1. at \in [Caller -> {"idle", "limit", "attempt", "backoff", "base", "record", "report"}]
    BY DEF LimiterTypes
  <2>2. ASSUME NEW c \in Caller,
               NEW layer \in {"idle", "limit", "attempt", "backoff", "base", "record", "report"},
               Goto(c, layer)
        PROVE  at' \in [Caller -> {"idle", "limit", "attempt", "backoff", "base",
                                   "record", "report"}]
    BY <2>1, <2>2 DEF Goto
  <2>3. \A c \in Caller : AllowRequest(c) => Goto(c, "attempt")
    BY DEF AllowRequest
  <2> QED  BY <2>1, <2>2, <2>3, LayersMove
<1>2. requestLog' \in Seq(Nat) /\ tokenLog' \in Seq(Entry)
  <2>1. CASE UNCHANGED limiterVars
    BY <1>0, <2>1 DEF limiterVars
  <2>2. CASE Tick
    BY <2>2, TickAges
  <2>3. FreshRequests \in Seq(Nat) /\ Append(FreshRequests, 0) \in Seq(Nat)
    BY <1>0, FreshRequestsAre, AppendProperties
  <2>4. FreshTokens \in Seq(Entry) /\ \A e \in Entry : Append(tokenLog, e) \in Seq(Entry)
    BY <1>0, FreshTokensAre, AppendProperties
  <2>5. ASSUME NEW c \in Caller,
               RejectRequest(c) \/ RejectTokens(c) \/ AllowRequest(c) \/ RecordTokens(c)
        PROVE  requestLog' \in Seq(Nat) /\ tokenLog' \in Seq(Entry)
    BY <1>0, <2>3, <2>4, <2>5, LogsBecome
  <2> QED  BY <2>1, <2>2, <2>5, LogsMove
<1> QED  BY <1>1, <1>2 DEF LimiterTypes, Entry

\* allowRequest logs a request only when there is room, and a pruned log is not
\* longer than the log.
LEMMA RequestsBoundedKept ==
  ASSUME LimiterTypes, RequestsBounded, [ChainNext]_chainVars
  PROVE  RequestsBounded'
<1> SUFFICES ASSUME requestsPerMin > 0
             PROVE  Len(FreshRequests') <= requestsPerMin
  BY DEF RequestsBounded
<1>0. requestLog \in Seq(Nat) /\ requestLog' \in Seq(Nat) /\ requestsPerMin \in Nat
  BY LimiterTypesKept, ChainAssumption DEF LimiterTypes
<1>1. /\ FreshRequests \in Seq(Nat) /\ Len(FreshRequests) \in Nat
      /\ Len(FreshRequests) = 0 \/ FreshRequests[1] <= Window
      /\ Len(FreshRequests) = Len(requestLog) - Stale(requestLog)
      /\ Len(FreshRequests) <= requestsPerMin
  BY <1>0, FreshRequestsAre DEF RequestsBounded
<1>2. /\ Len(FreshRequests') = Len(requestLog') - Stale(requestLog')
      /\ Len(requestLog') \in Nat /\ Stale(requestLog') \in 0..Len(requestLog')
  BY <1>0, PrunedIs DEF FreshRequests
<1>3. CASE UNCHANGED limiterVars
  <2>1. requestLog' = requestLog
    BY <1>3 DEF limiterVars
  <2> QED  BY <1>1, <1>2, <2>1
<1>4. CASE Tick
  <2>1. Len(requestLog') = Len(requestLog) /\ Stale(requestLog') >= Stale(requestLog)
    <3>1. /\ Len(requestLog') = Len(requestLog) /\ Len(requestLog) <= Len(requestLog')
          /\ \A i \in 1..Len(requestLog) : requestLog'[i] >= requestLog[i]
      BY <1>2, <1>4, TickAges
    <3> QED  BY <1>0, <3>1, StaleGrows
  <2>2. Len(requestLog) \in Nat /\ Stale(requestLog) \in 0..Len(requestLog)
    BY <1>0, PrunedIs
  <2> QED  BY <1>0, <1>1, <1>2, <2>1, <2>2
<1>5. ASSUME NEW c \in Caller,
             RejectRequest(c) \/ RejectTokens(c) \/ AllowRequest(c) \/ RecordTokens(c)
      PROVE  Len(FreshRequests') <= requestsPerMin
  <2>1. CASE requestLog' = requestLog
    BY <1>1, <1>2, <2>1
  <2>2. CASE requestLog' = FreshRequests
    BY <1>0, <1>1, <1>2, <2>2
  <2>3. CASE requestLog' = Append(FreshRequests, 0) /\ requestLog' # requestLog
                           /\ requestLog' # FreshRequests
    <3>1. ~OverRequests
      BY <1>5, <2>3 DEF RejectRequest, RejectTokens, AllowRequest, RecordTokens
    <3>2. Len(FreshRequests) + 1 <= requestsPerMin
      BY <1>0, <1>1, <3>1 DEF OverRequests
    <3>3. Len(requestLog') = Len(FreshRequests) + 1
      BY <1>1, <2>3, AppendProperties
    <3> QED  BY <1>0, <1>1, <1>2, <3>2, <3>3
  <2> QED  BY <1>5, <2>1, <2>2, <2>3, LogsBecome
<1> QED  BY <1>3, <1>4, <1>5, LogsMove

\* Of what is logged, recordTokens alone makes more tokens count.
LEMMA TokensCount ==
  ASSUME LimiterTypes, [ChainNext]_chainVars, ~ \E c \in Caller : RecordTokens(c)
  PROVE  TokensIn(FreshTokens') <= TokensIn(FreshTokens)
<1>0. tokenLog \in Seq(Entry) /\ tokenLog' \in Seq(Entry)
  BY LimiterTypesKept DEF LimiterTypes, Entry
<1>1. /\ FreshTokens = FreshOf(tokenLog) /\ FreshTokens \in Seq(Entry)
      /\ TokensIn(FreshTokens) \in Nat
  BY <1>0, FreshTokensAre
<1>2. FreshTokens' = FreshOf(tokenLog')
  BY DEF FreshTokens, TokenAges, FreshOf, AgesOf
<1>3. CASE tokenLog' = tokenLog
  BY <1>1, <1>2, <1>3
<1>4. CASE tokenLog' = FreshTokens
  BY <1>1, <1>2, <1>4, PrunedFewer
<1>5. CASE Tick
  BY <1>0, <1>1, <1>2, <1>5, TickAges, LaterFewer
<1>6. CASE UNCHANGED limiterVars
  BY <1>3, <1>6 DEF limiterVars
<1> QED  BY <1>3, <1>4, <1>5, <1>6, LogsMove, LogsBecome

\* The callers let in are callers.
LEMMA AdmissionsCount ==
  /\ IsFiniteSet(Admissions) /\ Cardinality(Admissions) \in Nat
  /\ Cardinality(Admissions) <= Cardinality(Caller) /\ Cardinality(Caller) \in Nat
BY ChainAssumption, FS_Subset, FS_CardinalityType DEF Admissions

\* Only allowRequest admits a caller.
LEMMA AdmissionsShrink ==
  ASSUME LimiterTypes, [ChainNext]_chainVars, ~ \E c \in Caller : AllowRequest(c)
  PROVE  Admissions' \subseteq Admissions
<1>1. at \in [Caller -> {"idle", "limit", "attempt", "backoff", "base", "record", "report"}]
  BY DEF LimiterTypes
<1>2. CASE at' = at
  BY <1>2 DEF Admissions
<1>3. ASSUME NEW c \in Caller, NEW layer, Goto(c, layer),
             \/ layer \in {"idle", "limit", "report"}
             \/ at[c] \in {"attempt", "backoff", "base", "record"}
      PROVE  Admissions' \subseteq Admissions
  BY <1>1, <1>3 DEF Goto, Admissions
<1> QED  BY <1>2, <1>3, LayersMove

\* The tokens of a window and those its callers may still record stay below the
\* limit and one answer for each caller: whoever is admitted found fewer tokens
\* than the limit, and whoever records is no longer let in.
LEMMA TokensBoundedKept ==
  ASSUME LimiterTypes, TokensBounded, [ChainNext]_chainVars
  PROVE  TokensBounded'
<1> SUFFICES ASSUME tokensPerMin > 0, NEW most \in TokenUse, \A t \in TokenUse : t <= most
             PROVE  TokensIn(FreshTokens') + Cardinality(Admissions') * most
                        < tokensPerMin + Cardinality(Caller) * most
  BY DEF TokensBounded
<1> DEFINE used == TokensIn(FreshTokens)
           usedNext == TokensIn(FreshTokens')
           in == Cardinality(Admissions)
           inNext == Cardinality(Admissions')
           all == Cardinality(Caller)
<1>0. tokenLog \in Seq(Entry) /\ tokenLog' \in Seq(Entry)
  BY LimiterTypesKept DEF LimiterTypes, Entry
<1>1. used \in Nat /\ usedNext \in Nat /\ most \in Nat /\ tokensPerMin \in Nat
  <2>1. FreshTokens' = FreshOf(tokenLog')
    BY DEF FreshTokens, TokenAges, FreshOf, AgesOf
  <2> QED  BY <1>0, <2>1, FreshTokensAre, FreshOfIs, TokensAreNat, ChainAssumption
<1>2. in \in Nat /\ in <= all /\ inNext \in Nat /\ inNext <= all /\ all \in Nat
  BY AdmissionsCount, ChainAssumption, FS_Subset, FS_CardinalityType DEF Admissions
<1>3. used + in * most < tokensPerMin + all * most
  BY DEF TokensBounded
<1>4. ASSUME NEW c \in Caller, AllowRequest(c)
      PROVE  usedNext + inNext * most < tokensPerMin + all * most
  <2>1. used < tokensPerMin
    BY <1>1, <1>4 DEF AllowRequest, OverTokens
  <2>2. ~ \E d \in Caller : RecordTokens(d)
    <3>1. at' = [at EXCEPT ![c] = "attempt"] /\ at[c] = "limit"
      BY <1>4 DEF AllowRequest, Goto
    <3>2. ASSUME NEW d \in Caller, RecordTokens(d) PROVE FALSE
      <4>1. at' = [at EXCEPT ![d] = "report"] /\ at[d] = "record"
        BY <3>2 DEF RecordTokens, Goto
      <4> QED  BY <3>1, <4>1 DEF LimiterTypes
    <3> QED  BY <3>2
  <2>3. usedNext <= used
    BY <2>2, TokensCount
  <2>4. inNext * most <= all * most /\ inNext * most \in Nat /\ all * most \in Nat
    BY <1>1, <1>2, TimesMore
  <2> HIDE DEF used, usedNext, in, inNext, all
  <2> QED  BY <1>1, <2>1, <2>3, <2>4
<1>5. ASSUME NEW c \in Caller, RecordTokens(c)
      PROVE  usedNext + inNext * most < tokensPerMin + all * most
  <2>1. /\ at' = [at EXCEPT ![c] = "report"] /\ at[c] = "record"
        /\ at \in [Caller -> {"idle", "limit", "attempt", "backoff", "base",
                              "record", "report"}]
    BY <1>5 DEF RecordTokens, Goto, LimiterTypes
  <2>2. Admissions' = Admissions \ {c} /\ c \in Admissions
    BY <2>1 DEF Admissions
  <2>3. inNext = in - 1
    BY <2>2, AdmissionsCount, FS_RemoveElement
  <2>4. usedNext <= used + most
    <3>1. FreshTokens' = FreshOf(tokenLog') /\ FreshTokens = FreshOf(tokenLog)
      BY DEF FreshTokens, TokenAges, FreshOf, AgesOf
    <3>2. CASE tokenLog' = tokenLog
      BY <1>1, <3>1, <3>2
    <3>3. CASE \E e \in Entry : e.tokens \in TokenUse /\ tokenLog' = Append(tokenLog, e)
      <4>1. PICK e \in Entry : e.tokens \in TokenUse /\ tokenLog' = Append(tokenLog, e)
        BY <3>3
      <4>2. usedNext <= used + e.tokens /\ e.tokens <= most /\ e.tokens \in Nat
        BY <1>0, <3>1, <4>1, RecordedMore, ChainAssumption
      <4> QED  BY <1>1, <4>2
    <3> QED  BY <1>5, <3>2, <3>3, LogsBecome
  <2>5. in * most = inNext * most + most /\ in * most \in Nat /\ inNext * most \in Nat
    <3>1. inNext + 1 = in /\ inNext <= in
      BY <1>2, <2>3
    <3> HIDE DEF in, inNext
    <3> QED  BY <1>1, <1>2, <3>1, TimesMore
  <2>6. all * most \in Nat
    BY <1>1, <1>2, TimesMore
  <2> HIDE DEF used, usedNext, in, inNext, all
  <2> QED  BY <1>1, <1>3, <2>4, <2>5, <2>6
<1>6. ASSUME ~ \E c \in Caller : AllowRequest(c) \/ RecordTokens(c)
      PROVE  usedNext + inNext * most < tokensPerMin + all * most
  <2>1. usedNext <= used
    BY <1>6, TokensCount
  <2>2. inNext <= in
    BY <1>6, AdmissionsShrink, AdmissionsCount, FS_Subset
  <2>3. inNext * most <= in * most /\ inNext * most \in Nat /\ in * most \in Nat
    BY <1>1, <1>2, <2>2, TimesMore
  <2>4. all * most \in Nat
    BY <1>1, <1>2, TimesMore
  <2> HIDE DEF used, usedNext, in, inNext, all
  <2> QED  BY <1>1, <1>3, <2>1, <2>3, <2>4
<1> QED  BY <1>4, <1>5, <1>6

\* Initially nothing is logged and nobody is let in.
LEMMA LimiterStarts ==
  ASSUME ChainInit
  PROVE  LimiterInv
<1>1. LimiterTypes
  BY DEF ChainInit, LimiterTypes
<1>2. RequestsBounded
  <2>1. requestLog \in Seq(Nat) /\ Len(requestLog) = 0
    BY DEF ChainInit
  <2>2. Len(FreshRequests) = 0
    <3>1. /\ Stale(requestLog) \in 0..0
          /\ Len(Pruned(requestLog, requestLog)) = 0 - Stale(requestLog)
      BY <2>1, PrunedIs
    <3> QED  BY <3>1 DEF FreshRequests
  <2> QED  BY <2>2, ChainAssumption DEF RequestsBounded
<1>3. TokensBounded
  <2> SUFFICES ASSUME tokensPerMin > 0, NEW most \in TokenUse
               PROVE  TokensIn(FreshTokens) + Cardinality(Admissions) * most
                          < tokensPerMin + Cardinality(Caller) * most
    BY DEF TokensBounded
  <2>1. tokenLog \in Seq(Entry) /\ Len(tokenLog) = 0
    BY <1>1 DEF ChainInit, LimiterTypes, Entry
  <2>2. TokensIn(tokenLog) = 0
    <3>1. PICK f : Runs(tokenLog, f)
      BY <2>1, RunsExist
    <3> QED  BY <2>1, <3>1, TokensInIs DEF Runs
  <2>3. TokensIn(FreshTokens) = 0
    <3>1. /\ FreshTokens = FreshOf(tokenLog) /\ TokensIn(FreshTokens) \in Nat
          /\ TokensIn(FreshOf(tokenLog)) <= TokensIn(tokenLog)
      BY <2>1, FreshTokensAre, PrunedFewer
    <3> QED  BY <2>2, <3>1
  <2>4. Admissions = {}
    BY DEF ChainInit, Admissions
  <2>5. Cardinality(Admissions) = 0 /\ Cardinality(Caller) \in Nat
    BY <2>4, AdmissionsCount, FS_EmptySet
  <2>6. most \in Nat /\ tokensPerMin \in Nat
    BY ChainAssumption
  <2>7. Cardinality(Caller) * most \in Nat /\ 0 * most = 0
    BY <2>5, <2>6, TimesMore
  <2> QED  BY <2>3, <2>5, <2>6, <2>7
<1> QED  BY <1>1, <1>2, <1>3 DEF LimiterInv

\* largemodel/ratelimit.go: for every number of callers, every window, limit and
\* answer size, and every interleaving of allowRequest and recordTokens, a window
\* holds no more requests than requestsPerMin, and its tokens exceed tokensPerMin
\* by less than one answer for each caller.
THEOREM LimitsHold == ChainSpec => []WindowOvershootBounded
<1>1. LimiterInv /\ [ChainNext]_chainVars => LimiterInv'
  BY LimiterTypesKept, RequestsBoundedKept, TokensBoundedKept DEF LimiterInv
<1>2. LimiterInv => WindowOvershootBounded
  <2> SUFFICES ASSUME LimiterInv, tokensPerMin > 0, NEW most \in TokenUse,
                      \A t \in TokenUse : t <= most
               PROVE  TokensIn(FreshTokens) < tokensPerMin + Cardinality(Caller) * most
    BY DEF LimiterInv, WindowOvershootBounded, RequestsBounded
  <2>1. TokensIn(FreshTokens) + Cardinality(Admissions) * most
            < tokensPerMin + Cardinality(Caller) * most
    BY DEF LimiterInv, TokensBounded
  <2>2. TokensIn(FreshTokens) \in Nat
    BY FreshTokensAre DEF LimiterInv, LimiterTypes, Entry
  <2>3. most \in Nat /\ tokensPerMin \in Nat
    BY ChainAssumption
  <2>4. Cardinality(Admissions) \in Nat /\ Cardinality(Caller) \in Nat
    BY AdmissionsCount
  <2>5. Cardinality(Admissions) * most \in Nat /\ Cardinality(Caller) * most \in Nat
    BY <2>3, <2>4, TimesMore
  <2> DEFINE used == TokensIn(FreshTokens)
             pending == Cardinality(Admissions) * most
             bound == Cardinality(Caller) * most
  <2> HIDE DEF used, pending, bound
  <2> QED  BY <2>1, <2>2, <2>3, <2>5 DEF used, pending, bound
<1> QED  BY <1>1, <1>2, LimiterStarts, PTL DEF ChainSpec
================================================================================
