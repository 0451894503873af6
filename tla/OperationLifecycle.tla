-------------------------- MODULE OperationLifecycle --------------------------
(* What the controlled-operation workflow promises, without sessions,        *)
(* transactions, grants or clocks: a proposal is submitted by one actor,     *)
(* settled once by another, and an approved proposal changes the business    *)
(* tables at most once, in one step, against the version it was shown with.  *)
EXTENDS InvestigationCommands

CONSTANTS Actors, Commands

VARIABLES
    stage,    \* where each proposal reference is in its life
    request,  \* who asked for what
    decider,  \* who settled it
    db        \* the business tables

vars == <<stage, request, decider, db>>

Stages == {"none", "pending", "superseded", "rejected", "approved", "executed"}

NoRequest == [by |-> NoRef, command |-> NoRef]

Init ==
    /\ stage = [r \in Refs |-> "none"]
    /\ request = [r \in Refs |-> NoRequest]
    /\ decider = [r \in Refs |-> NoRef]
    /\ db = EmptyTables

\* A new proposal, which may take the place of an earlier version that the
\* same actor submitted and nobody has settled.
Submit(ref, actor, c, old) ==
    /\ stage[ref] = "none"
    /\ old # NoRef => stage[old] = "pending" /\ request[old].by = actor
    /\ stage' = [r \in Refs |-> IF r = ref THEN "pending"
                                ELSE IF r = old THEN "superseded" ELSE stage[r]]
    /\ request' = [request EXCEPT ![ref] = [by |-> actor, command |-> c]]
    /\ UNCHANGED <<decider, db>>

\* Settled by somebody other than the actor who asked.
Settle(ref, actor, verdict) ==
    /\ stage[ref] = "pending"
    /\ request[ref].by # actor
    /\ stage' = [stage EXCEPT ![ref] = verdict]
    /\ decider' = [decider EXCEPT ![ref] = actor]
    /\ UNCHANGED <<request, db>>

Perform(ref) ==
    /\ stage[ref] = "approved"
    /\ CanApply(ref, request[ref].command, db)
    /\ stage' = [stage EXCEPT ![ref] = "executed"]
    /\ db' = Apply(ref, request[ref].command, db)
    /\ UNCHANGED <<request, decider>>

Next ==
    \E ref \in Refs :
        \/ \E actor \in Actors, c \in Commands, old \in Refs \cup {NoRef} :
             Submit(ref, actor, c, old)
        \/ \E actor \in Actors, verdict \in {"approved", "rejected"} :
             Settle(ref, actor, verdict)
        \/ Perform(ref)

Spec == Init /\ [][Next]_vars
=============================================================================
