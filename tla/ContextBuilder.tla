---------------------------- MODULE ContextBuilder ----------------------------
(* ContextBuilder.build: what of a conversation goes into the next request.   *)
(* The system messages, the current input and the facts always do; evidence   *)
(* and the closed exchanges of the history are trimmed until the estimate of  *)
(* the provisioned estimator is within the limit of the profile.              *)
(*                                                                            *)
(* Profiles, namespaces and digests are validated before, and a request that  *)
(* passed once passes again: what is left of that is the order of the turns.  *)
EXTENDS Naturals, Sequences, SequencesExt

CONSTANTS
    InputTokenLimit,      \* of the registered profile
    MinimumRecentGroups,
    BaseTokens,           \* tools and messages, every evidence record once
    RepeatedTokens        \* evidence records that a later one replaces

ASSUME ContextAssumption ==
    /\ InputTokenLimit \in Nat \ {0} /\ MinimumRecentGroups \in Nat
    /\ BaseTokens \in Nat /\ RepeatedTokens \in Nat

\* A closed exchange: its private turn, the tokens of that turn (nothing when
\* the provider did not report usage), and how its tool results are sent.
Group(turn, tokens) == [turn |-> turn, tokens |-> tokens, results |-> "raw"]

NoRequest == [groups |-> <<>>, evidence |-> "none"]

\* Private turns and messages are counted; tool results are in neither.
Estimate(groups, evidence) ==
    BaseTokens + (IF evidence = "all" THEN RepeatedTokens ELSE 0)
    + FoldSeq(LAMBDA group, sum : group.tokens + sum, 0, groups)

\* Mutant: a request that just fills the budget is taken for one too many.
FitsBelow(groups, evidence) == Estimate(groups, evidence) < InputTokenLimit

Fits(groups, evidence) == Estimate(groups, evidence) <= InputTokenLimit

\* The latest n groups.
Latest(history, n) == SubSeq(history, Len(history) - n + 1, Len(history))

\* Whole exchanges are dropped, oldest first, as long as the request is too
\* large and more of them are left than the profile wants to keep.
Retained(history) ==
    LET stops == { n \in 0 .. Len(history) : n <= MinimumRecentGroups \/ Fits(Latest(history, n), "all") }
    IN Latest(history, CHOOSE n \in stops : \A m \in stops : m <= n)

\* Summaries take the place of results until the request fits, which none of
\* them brings it closer to.
Summarized(groups) == [i \in DOMAIN groups |-> [groups[i] EXCEPT !.results = "summary"]]

\* What is left of history and evidence.  Repeated evidence goes last.
Trimmed(history) ==
    LET groups == Retained(history) IN
    IF Fits(groups, "all") THEN [groups |-> groups, evidence |-> "all"]
    ELSE [groups |-> Summarized(groups), evidence |-> "latest"]

\* mandatory_context_over_budget
IsOverBudget(history) == ~Fits(Trimmed(history).groups, Trimmed(history).evidence)

\* Mutant: the turns are listed latest first.
TurnsLatestFirst(groups) == [i \in DOMAIN groups |-> groups[Len(groups) + 1 - i].turn]

\* The private turns that the request refers to.
Turns(groups) == [i \in DOMAIN groups |-> groups[i].turn]

\* _validate_request: the conversation is in the order of its calls, and older
\* than the request.
IsConversation(groups, sequence) ==
    /\ \A i, j \in DOMAIN groups : i < j => groups[i].turn < groups[j].turn
    /\ \A i \in DOMAIN groups : groups[i].turn < sequence
=============================================================================
