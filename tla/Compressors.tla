------------------------------ MODULE Compressors ------------------------------
(***************************************************************************)
(* The context compressors of the memory package and the conversation      *)
(* compactor, as operators on message histories.                           *)
(*                                                                         *)
(* A message is [role, calls, tokens, id]: its role, whether it carries    *)
(* tool calls, the estimate of its tokens, and its place in the history    *)
(* (0 for a message the compressor makes).  A summary also has the number  *)
(* of messages it stands for.  Texts are abstracted to their lengths.      *)
(***************************************************************************)
EXTENDS Loops, FiniteSets, FiniteSetsExt

Message ==
    [role : {"system", "user", "assistant", "tool"}, calls : BOOLEAN, tokens : Nat, id : Nat]

Summary(role, tokens, count) ==
    [role |-> role, calls |-> FALSE, tokens |-> tokens, id |-> 0, count |-> count]

\* EstimateTextTokens: four bytes a token, at least one for a text.
EstimateTextTokens(length) == IF length = 0 THEN 0 ELSE Max({length \div 4, 1})

EstimateTokens(messages) ==
    Total([i \in DOMAIN messages |-> messages[i].tokens], Len(messages))

-----------------------------------------------------------------------------
(***************************************************************************)
(* TokenBudgetCompressor, SlidingWindowCompressor, ChainCompressor.        *)
(***************************************************************************)

Suffix(messages, n) == SubSeq(messages, Len(messages) - n + 1, Len(messages))

\* The longest suffix within the budget, found from the newest message back.
Fitting(messages, maxTokens) ==
    Max({n \in 0..Len(messages) : EstimateTokens(Suffix(messages, n)) <= maxTokens})

AtLeastLast(n) == Max({n, 1})

TokenBudgetCompress(messages, maxTokens) ==
    IF messages = <<>> \/ maxTokens <= 0 THEN messages
    ELSE Suffix(messages, AtLeastLast(Fitting(messages, maxTokens)))

SlidingWindowCompress(messages, maxTokens, windowSize) ==
    TokenBudgetCompress(Suffix(messages, Min({windowSize, Len(messages)})), maxTokens)

-----------------------------------------------------------------------------
(***************************************************************************)
(* ImportanceRankingCompressor with DefaultMessageScorer.                  *)
(***************************************************************************)

Base(m) ==
    CASE m.role = "system" -> 1000
      [] m.role = "tool" -> 100
      [] m.role = "assistant" -> IF m.calls THEN 100 ELSE 10
      [] m.role = "user" -> 50

\* The bonus base * 0.05 * i / total never lifts a message over a higher base, so
\* ranks compare bases first, then places, newest first.
Outranks(messages, i, j) ==
    \/ Base(messages[i]) > Base(messages[j])
    \/ Base(messages[i]) = Base(messages[j]) /\ i > j

Top(messages, left) ==
    CHOOSE i \in left : \A j \in left \ {i} : Outranks(messages, i, j)

\* One turn: the highest ranked of those left, if it still fits; the first always does.
Consider(messages, maxTokens, sel) ==
    LET i == Top(messages, sel.left)
        more == sel.tokens + messages[i].tokens
    IN  IF sel.picked # {} /\ more > maxTokens
        THEN [sel EXCEPT !.left = @ \ {i}]
        ELSE [left |-> sel.left \ {i}, picked |-> sel.picked \cup {i}, tokens |-> more]

Select(messages, maxTokens) ==
    LET sel[n \in 0..Len(messages)] ==
            IF n = 0 THEN [left |-> DOMAIN messages, picked |-> {}, tokens |-> 0]
            ELSE Consider(messages, maxTokens, sel[n - 1])
    IN  sel[Len(messages)]

ImportanceCompress(messages, maxTokens) ==
    IF messages = <<>> \/ maxTokens <= 0 THEN messages
    ELSE LET kept == Ascending(Select(messages, maxTokens).picked, Len(messages))
         IN  [k \in DOMAIN kept |-> messages[kept[k]]]

-----------------------------------------------------------------------------
(***************************************************************************)
(* SummarizeAndTruncCompressor: length is that of the summarizer's text.   *)
(***************************************************************************)

\* The text is cut in proportion, the result rounded down.
TruncatedLength(length, budget) ==
    IF EstimateTextTokens(length) > budget
    THEN (length * budget) \div EstimateTextTokens(length) ELSE length

SummarizeAndTrunc(messages, maxTokens, keepLastN, length) ==
    IF Len(messages) <= keepLastN THEN messages
    ELSE LET recent == Suffix(messages, keepLastN)
             budget == maxTokens - EstimateTokens(recent)
             kept == IF maxTokens > 0 THEN TruncatedLength(length, budget) ELSE length
         IN  IF length = 0 \/ (maxTokens > 0 /\ budget <= 0) \/ kept = 0 THEN recent
             ELSE <<Summary("user", EstimateTextTokens(kept), Len(messages) - keepLastN)>> \o recent

\* ChainCompressor: the output of each is the input of the next.
Chain(messages, maxTokens, windowSize, keepLastN, length) ==
    SlidingWindowCompress(
        SummarizeAndTrunc(messages, maxTokens, keepLastN, length), maxTokens, windowSize)

-----------------------------------------------------------------------------
(***************************************************************************)
(* ConversationCompactor.                                                  *)
(***************************************************************************)

HasSystem(messages) == messages # <<>> /\ messages[1].role = "system"
FirstEligible(messages) == IF HasSystem(messages) THEN 2 ELSE 1

\* Mutant: the user message before the answer is not taken into the tail.
PairStart_AnswerOnly(messages, i) == i

\* An answer whose user message comes right before it starts at that message; the
\* system prompt is never one.
PairStart(messages, i) ==
    IF i > FirstEligible(messages) /\ messages[i - 1].role = "user" THEN i - 1 ELSE i

\* One turn of the walk back, at message i.  (The user message of a pair is skipped
\* in the code; being no answer it changes nothing.)
StepBack(messages, i, walk) ==
    IF i < FirstEligible(messages) \/ walk.pairs = 0 \/ messages[i].role # "assistant" THEN walk
    ELSE [start |-> PairStart(messages, i),
          pairs |-> IF PairStart(messages, i) < i THEN walk.pairs - 1 ELSE walk.pairs]

\* Where the protected tail starts.
ProtectedStart(messages, protectedTurns) ==
    LET walk[n \in 0..Len(messages)] ==
            IF n = 0 THEN [start |-> Len(messages) + 1, pairs |-> protectedTurns]
            ELSE StepBack(messages, Len(messages) - n + 1, walk[n - 1])
    IN  walk[Len(messages)].start

\* What the summarizer is given: the first and the last third when it is too much.
truncateInput(eligible) ==
    LET keep == Max({Len(eligible) \div 3, 1})
    IN  IF Len(eligible) <= 2 THEN eligible
        ELSE SubSeq(eligible, 1, keep)
                 \o <<Summary("system", 1, Len(eligible) - 2 * keep)>>
                 \o Suffix(eligible, keep)

SummarizerInput(eligible, maxInputTokens) ==
    IF maxInputTokens > 0 /\ EstimateTokens(eligible) > maxInputTokens
    THEN truncateInput(eligible) ELSE eligible

Compact(messages, protectedTurns, tokens) ==
    LET first == FirstEligible(messages)
        start == ProtectedStart(messages, protectedTurns)
    IN  IF first >= start THEN messages
        ELSE SubSeq(messages, 1, first - 1)
                 \o <<Summary("system", tokens, start - first)>>
                 \o SubSeq(messages, start, Len(messages))

\* Below the threshold the history stays (also when the summarizer fails).
CompactIfNeeded(messages, protectedTurns, tokens, threshold) ==
    IF EstimateTokens(messages) <= threshold THEN messages
    ELSE Compact(messages, protectedTurns, tokens)

==============================================================================
