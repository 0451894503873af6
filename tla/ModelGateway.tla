----------------------------- MODULE ModelGateway -----------------------------
(* DeepSeekModelGateway.complete over a ProviderTurnStore, for the model      *)
(* calls of one attempt, which are made one after another.                    *)
(*                                                                            *)
(* A call resolves the private turns its history refers to, sends the request *)
(* until an attempt is final, saves the answer's private turn and returns.    *)
(* The turn store is one transaction per operation.  A turn is kept without   *)
(* its payload, and a reference to it is its sequence number: the attempt and *)
(* scope of a reference are those of the request the graph builds around it.  *)
EXTENDS Naturals, Sequences, FiniteSets

CONSTANTS
    MaxSequence,      \* bound on the sequence numbers of the calls
    MaximumAttempts,  \* RetryPolicy.maximum_attempts
    IdleTTL,          \* _IDLE_TTL and _ABSOLUTE_TTL, in ticks of the clock
    AbsoluteTTL,
    MaxClock          \* bound on the clock

ASSUME GatewayAssumption ==
    /\ MaxSequence \in Nat /\ MaxClock \in Nat
    /\ MaximumAttempts \in 1 .. 3
    /\ IdleTTL \in Nat /\ AbsoluteTTL \in Nat \ {0}

VARIABLES
    turns,  \* model_state.provider_turn: the rows of the attempt, by sequence
    call,   \* the call of complete() that is under way
    clock

gatewayVars == <<turns, call, clock>>

-----------------------------------------------------------------------------
Sequences == 0 .. MaxSequence

NoTurn == [status |-> "absent", created |-> 0, used |-> 0]
Turn == [status : {"absent", "live", "terminal"}, created : Nat, used : Nat]

\* What one POST comes to: a transport error before or after the request was
\* sent, a status that may pass, a status that will not, a payload that does
\* not parse, a provider out of resources, an answer.
Outcomes == {"unreachable", "lost", "busy", "rejected", "garbled", "exhausted", "answer"}
Retryable == {"unreachable", "lost", "busy", "exhausted"}

StateErrors == {"history_sequence_invalid", "state_not_found", "state_expired",
                "state_sequence_duplicate", "state_read_failed", "state_write_failed"}
Errors == StateErrors \cup (Outcomes \ {"answer"})

\* A gateway that is not in a call.
NoAnswer == [type |-> "none"]
NoCall == [pc |-> "idle", sequence |-> 0, history |-> <<>>, resolved |-> 0,
           attempt |-> 0, answer |-> NoAnswer, error |-> "none"]

GatewayInit ==
    /\ turns = [s \in Sequences |-> NoTurn]
    /\ call = NoCall
    /\ clock = 0

Raised(error) == [NoCall EXCEPT !.pc = "raised", !.sequence = call.sequence, !.error = error]

-----------------------------------------------------------------------------
(* The turn store *)

IsKept(s) == turns[s].status # "absent"
IsLive(s) == turns[s].status = "live"
LiveTurns == { s \in Sequences : IsLive(s) }

\* A turn expires when it was idle too long or a fixed time after its
\* creation, whichever comes first.
IsExpired(s) == clock >= turns[s].created + AbsoluteTTL \/ clock - turns[s].used > IdleTTL

Saved(s) == [turns EXCEPT ![s] = [status |-> "live", created |-> clock, used |-> clock]]

\* The unique constraint on scope, attempt and sequence: no upsert.
IsSequenceFree(s) == ~IsKept(s)

Renewed(s) == [turns EXCEPT ![s].used = clock]

\* Mutant: only the latest turn of the attempt is destroyed.
LatestDeleted ==
    [s \in Sequences |->
        IF IsLive(s) /\ \A t \in LiveTurns : t <= s
        THEN [turns[s] EXCEPT !.status = "terminal"]
        ELSE turns[s]]

\* delete_attempt keeps the rows as terminal, without their payloads.
AttemptDeleted ==
    [s \in Sequences |-> IF IsLive(s) THEN [turns[s] EXCEPT !.status = "terminal"] ELSE turns[s]]

-----------------------------------------------------------------------------
(* complete() *)

\* _validate_request: the history is in the order of its calls, and older
\* than the request.
IsValidHistory(history, s) ==
    /\ \A i, j \in DOMAIN history : i < j => history[i] < history[j]
    /\ \A i \in DOMAIN history : history[i] < s

\* The graph calls complete() with the sequence s and the turns of history.
BeginCall(s, history) ==
    /\ call.pc = "idle"
    /\ call' = [NoCall EXCEPT
                  !.pc = IF IsValidHistory(history, s) THEN "encoding" ELSE "raised",
                  !.error = IF IsValidHistory(history, s) THEN "none" ELSE "history_sequence_invalid",
                  !.sequence = s, !.history = history]
    /\ UNCHANGED <<turns, clock>>

ResolveError(s) ==
    IF ~IsLive(s) THEN "state_not_found" ELSE IF IsExpired(s) THEN "state_expired" ELSE "none"

\* _encode_request resolves the references of the history in turn, each in a
\* transaction that renews the turn's idle time.
Resolve ==
    LET s == call.history[call.resolved + 1] IN
    /\ call.pc = "encoding"
    /\ call.resolved < Len(call.history)
    /\ IF ResolveError(s) = "none"
       THEN turns' = Renewed(s) /\ call' = [call EXCEPT !.resolved = @ + 1]
       ELSE UNCHANGED turns /\ call' = Raised(ResolveError(s))
    /\ UNCHANGED clock

ResolveFails ==
    /\ call.pc = "encoding"
    /\ call.resolved < Len(call.history)
    /\ call' = Raised("state_read_failed")
    /\ UNCHANGED <<turns, clock>>

ShouldRetry(outcome) == outcome \in Retryable /\ call.attempt + 1 < MaximumAttempts

\* One POST and what the retry policy makes of it.  The provider may have
\* charged for it whatever the outcome but "unreachable" says.
Send(outcome, answer) ==
    /\ call.pc = "encoding"
    /\ call.resolved = Len(call.history)
    /\ call' = IF outcome = "answer" THEN [call EXCEPT !.pc = "saving", !.attempt = @ + 1, !.answer = answer]
               ELSE IF ShouldRetry(outcome) THEN [call EXCEPT !.attempt = @ + 1]
               ELSE Raised(outcome)
    /\ UNCHANGED <<turns, clock>>

\* turn_store.save, after the answer was paid for.
SaveTurn ==
    /\ call.pc = "saving"
    /\ IsSequenceFree(call.sequence)
    /\ turns' = Saved(call.sequence)
    /\ call' = [call EXCEPT !.pc = "returned"]
    /\ UNCHANGED clock

SaveRefused ==
    /\ call.pc = "saving"
    /\ ~IsSequenceFree(call.sequence)
    /\ call' = Raised("state_sequence_duplicate")
    /\ UNCHANGED <<turns, clock>>

\* The database fails, or the response of its commit is lost.
SaveFails ==
    /\ call.pc = "saving"
    /\ turns' \in {turns} \cup (IF IsSequenceFree(call.sequence) THEN {Saved(call.sequence)} ELSE {})
    /\ call' = Raised("state_write_failed")
    /\ UNCHANGED clock

\* What goes on inside complete(), with the answers the model may give.
GatewayStep(answers) ==
    \/ Resolve
    \/ ResolveFails
    \/ \E o \in Outcomes \ {"answer"} : Send(o, NoAnswer)
    \/ \E a \in answers : Send("answer", a)
    \/ SaveTurn
    \/ SaveRefused
    \/ SaveFails

Tick ==
    /\ clock < MaxClock
    /\ clock' = clock + 1
    /\ UNCHANGED <<turns, call>>
=============================================================================
