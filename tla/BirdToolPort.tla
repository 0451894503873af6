----------------------------- MODULE BirdToolPort -----------------------------
(* HttpBirdToolPort and the official services behind it, for one task.        *)
(*                                                                            *)
(* A request goes over HTTP to the database environment or the user           *)
(* simulator.  Reads are sent again when they fail; a stateful action is sent *)
(* once, and a reply that does not come leaves it open whether it was done.   *)
(* The database environment keeps the phase of the task.  It is external and  *)
(* modelled by what the port reads from its replies.                          *)
EXTENDS Naturals, Sequences

CONSTANTS
    HasFollowUp,          \* the task has a second phase
    MaxStatelessAttempts

ASSUME PortAssumption ==
    /\ HasFollowUp \in BOOLEAN
    /\ MaxStatelessAttempts \in Nat \ {0}

VARIABLE env  \* the phase of the task, and by which session each was passed

Actions == {"execute_sql", "ask_user", "submit_sql", "get_schema"}
StatefulActions == {"execute_sql", "ask_user", "submit_sql"}

NoSession == 0
Over == 3

\* What a reply says.  passed: the phase that the submission completed, or 0.
NoReply == [status |-> "none", passed |-> 0, followUp |-> FALSE]
Success == [NoReply EXCEPT !.status = "success"]
RejectedResult == [NoReply EXCEPT !.status = "error"]
Passed(phase) == [status |-> "success", passed |-> phase, followUp |-> phase = 1 /\ HasFollowUp]
Replies == {NoReply, Success, RejectedResult} \cup { Passed(phase) : phase \in 1 .. 2 }

EnvInit == env = [phase |-> 1, passedBy |-> [phase \in 1 .. 2 |-> NoSession]]

\* The service does what it is asked by a session.  A submission passes or not.
EnvExecutes(action, session, reply) ==
    \/ /\ reply = Success
       /\ UNCHANGED env
    \/ /\ action = "submit_sql"
       /\ env.phase # Over
       /\ reply = Passed(env.phase)
       /\ env' = [phase |-> IF reply.followUp THEN 2 ELSE Over,
                  passedBy |-> [env.passedBy EXCEPT ![env.phase] = session]]

\* _request: whether a request without a usable reply is sent once more.
MayResend(action, sent) == action \notin StatefulActions /\ sent < MaxStatelessAttempts
=============================================================================
