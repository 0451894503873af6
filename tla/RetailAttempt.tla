----------------------------- MODULE RetailAttempt -----------------------------
(* What RetailGraph promises of one attempt, without nodes, plans, retries,   *)
(* crashes or runs: it works, with calls that are counted and turns that are  *)
(* kept, and makes proposals, each once; it decides once on an outcome that   *)
(* answers for its proposals; then its turns are destroyed, and only then is  *)
(* the outcome given, to everybody the same.                                  *)
EXTENDS Naturals

CONSTANTS Keys, Commands, NoCommand, NoOutcome, Sequences

VARIABLES
    outcome,
    calls,      \* model calls and executions of tools
    tools,
    proposals,  \* the command proposed under each key
    kept,       \* the turns whose payloads the store holds, by the numbers of their calls
    returned    \* the outcomes that callers were given

vars == <<outcome, calls, tools, proposals, kept, returned>>

Init ==
    /\ outcome = NoOutcome
    /\ calls = 0 /\ tools = 0
    /\ proposals = [k \in Keys |-> NoCommand]
    /\ kept = {}
    /\ returned = {}

IsOpen == outcome = NoOutcome

\* Work is counted, and never forgotten by a run that starts.
Work ==
    /\ IsOpen
    /\ calls' >= calls
    /\ <<calls', tools'>> # <<calls, tools>>
    /\ UNCHANGED <<outcome, proposals, kept, returned>>

KeepTurn(s) ==
    /\ IsOpen
    /\ s \notin kept
    /\ kept' = kept \cup {s}
    /\ UNCHANGED <<outcome, calls, tools, proposals, returned>>

Propose(k, command) ==
    /\ IsOpen
    /\ proposals[k] = NoCommand
    /\ proposals' = [proposals EXCEPT ![k] = command]
    /\ UNCHANGED <<outcome, calls, tools, kept, returned>>

\* The step that decides may count the work that led to it.
Decide ==
    /\ IsOpen
    /\ outcome' # NoOutcome
    /\ outcome'.status = "completed" => { k \in Keys : proposals[k] # NoCommand } \subseteq outcome'.declared
    /\ calls' >= calls
    /\ UNCHANGED <<proposals, kept, returned>>

DestroyTurns ==
    /\ ~IsOpen
    /\ kept' = {}
    /\ UNCHANGED <<outcome, calls, tools, proposals, returned>>

Return ==
    /\ ~IsOpen
    /\ kept = {}
    /\ returned' = {outcome}
    /\ UNCHANGED <<outcome, calls, tools, proposals, kept>>

Next ==
    \/ Work
    \/ \E s \in Sequences : KeepTurn(s)
    \/ \E k \in Keys, command \in Commands : Propose(k, command)
    \/ Decide
    \/ DestroyTurns
    \/ Return

Spec == Init /\ [][Next]_vars
=============================================================================
