------------------------------ MODULE BirdSession ------------------------------
(* The BIRD system agent: BirdSystemServerAdapter's sessions of one task, the *)
(* runs that work on them, and the services behind the tool port.             *)
(*                                                                            *)
(* A run is one POST /run_session.  In a-interact mode it is BirdAGraph, a    *)
(* loop of model calls and tool batches under the coin budget; in c-interact  *)
(* mode it asks BirdCResponder for one candidate at a time.  Sessions live in *)
(* the memory of the process, and nothing serialises the runs of one: a step  *)
(* is the code between two awaits.  The answer of the model gateway is one    *)
(* step, and the private turns of a run, which its `finally` deletes from a   *)
(* store in the same process, are left out.                                   *)
EXTENDS BirdToolPort, Integers, FiniteSets

CONSTANTS
    Runs,           \* POSTs to /run_session
    Setups,         \* mode, ablation, and whether the orchestrator overlaps runs
    MaxSessions,    \* bound on the sessions that are made
    CoinBudget,     \* budget_remaining and max_turn, as init_session seeds them
    MaxTurn,
    Cost,           \* coin cost of each action in the official contract
    Batches,        \* the tool batches the model may ask for in a-interact
    MaxModelTurns   \* _MAX_MODEL_TURNS

Modes == {"a", "c"}
Sessions == 1 .. MaxSessions

ASSUME BirdAssumption ==
    /\ Setups \subseteq [mode : Modes, ablation : BOOLEAN, overlap : BOOLEAN]
    /\ MaxSessions \in Nat \ {0} /\ CoinBudget \in Nat
    /\ MaxTurn \in Nat \ {0} /\ MaxModelTurns \in Nat
    /\ Cost \in [Actions -> Nat]
    /\ Batches \subseteq Seq(Actions) \ {<<>>}

VARIABLES
    setup,
    state,    \* the official state of each session
    made,     \* how many sessions were made
    current,  \* the session that _sessions holds, or none
    run,      \* the runs
    spent,    \* coins' worth of what the services did for a session
    asked,    \* questions the simulator answered in the phase of a session
    lost      \* sessions that lost the reply to a submission

vars == <<env, setup, state, made, current, run, spent, asked, lost>>

-----------------------------------------------------------------------------
(* State *)

NewState(budget, seeded) ==
    [seeded |-> seeded, budget |-> budget, asks |-> 0, turns |-> 0, submitted |-> FALSE,
     last |-> "none", phase1 |-> FALSE, phase2 |-> FALSE, done |-> FALSE]

\* A session without the orchestrator's seed has no coins and no max_turn.
Unseeded == NewState(0, FALSE)

\* The most questions of a phase: without a max_turn the gate is disabled, and
\* only the turns of the session limit them.
Questions(session) == IF session.seeded THEN MaxTurn ELSE MaxModelTurns

SessionRecord ==
    [seeded : BOOLEAN, budget : -1 .. CoinBudget, asks : Nat, turns : 0 .. MaxModelTurns,
     submitted : BOOLEAN, last : {"none", "passed", "failed"},
     phase1 : BOOLEAN, phase2 : BOOLEAN, done : BOOLEAN]

SessionState == { session \in SessionRecord : session.asks <= Questions(session) }

\* batch is what is left to do of the model's last answer, last the batch
\* before it, and paid what the action under way was charged.
NewRun == [pc |-> "idle", session |-> NoSession, calls |-> 0, tools |-> 0,
           batch |-> <<>>, asked |-> <<>>, last |-> <<>>, sent |-> 0, paid |-> 0, reply |-> NoReply]

Points == {"idle", "loop", "asking", "executing", "sending", "replying", "ended"}

TypeOK ==
    /\ setup \in Setups
    /\ state \in [Sessions -> SessionState]
    /\ made \in 0 .. MaxSessions
    /\ current \in 0 .. made
    /\ \A r \in Runs : /\ run[r].pc \in Points
                       /\ run[r].session \in Sessions \cup {NoSession}
                       /\ run[r].calls \in 0 .. MaxModelTurns
                       /\ run[r].tools \in 0 .. MaxModelTurns
                       /\ run[r].sent \in 0 .. MaxStatelessAttempts
                       /\ run[r].reply \in Replies
    /\ env.phase \in 1 .. Over
    /\ env.passedBy \in [1 .. 2 -> Sessions \cup {NoSession}]
    /\ spent \in [Sessions -> Nat]
    /\ asked \in [Sessions -> Nat]
    /\ lost \subseteq Sessions

Init ==
    /\ EnvInit
    /\ setup \in Setups
    /\ state = [s \in Sessions |-> Unseeded]
    /\ made = 0
    /\ current = NoSession
    /\ run = [r \in Runs |-> NewRun]
    /\ spent = [s \in Sessions |-> 0]
    /\ asked = [s \in Sessions |-> 0]
    /\ lost = {}

SessionOf(r) == state[run[r].session]
Action(r) == Head(run[r].batch)

InFlight == { r \in Runs : run[r].pc \notin {"idle", "ended"} }

\* run() returns or raises, and a run that works on goes to another point.
Ended(r) == run' = [run EXCEPT ![r] = [NewRun EXCEPT !.pc = "ended", !.session = run[r].session]]
At(r, point) == run' = [run EXCEPT ![r].pc = point]

OnlyRun == UNCHANGED <<env, setup, state, made, current, spent, asked, lost>>

-----------------------------------------------------------------------------
(* The adapter *)

\* init_session, of a task that has no session or with reset.
InitSession ==
    /\ made < MaxSessions
    /\ made' = made + 1
    /\ current' = made'
    /\ state' = [state EXCEPT ![made'] = NewState(CoinBudget, TRUE)]
    /\ UNCHANGED <<env, setup, run, spent, asked, lost>>

\* _run_c resets the flags of a phase; with the ablation it then declines to
\* repair a failed submission.
Entered(session) ==
    IF setup.mode = "c" THEN [session EXCEPT !.submitted = FALSE, !.asks = 0] ELSE session

\* run_session makes the session the orchestrator has not made, or that the
\* process has forgotten, without a seed.
RunSession(r) ==
    LET s == IF current = NoSession THEN made + 1 ELSE current IN
    /\ run[r].pc = "idle"
    /\ setup.overlap \/ InFlight = {}
    /\ s \in Sessions
    /\ current' = s
    /\ made' = IF s > made THEN s ELSE made
    /\ state' = [state EXCEPT ![s] = Entered(@)]
    /\ asked' = [asked EXCEPT ![s] = 0]
    /\ run' = [run EXCEPT ![r].session = s,
                          ![r].pc = IF setup.mode = "c" /\ setup.ablation /\ state[s].last = "failed"
                                    THEN "ended" ELSE "loop"]
    /\ UNCHANGED <<env, setup, spent, lost>>

\* The container restarts: its sessions are gone, the services are not.
ServerRestarts ==
    /\ current # NoSession
    /\ current' = NoSession
    /\ run' = [r \in Runs |-> IF r \in InFlight THEN [NewRun EXCEPT !.pc = "ended", !.session = run[r].session]
                              ELSE run[r]]
    /\ lost' = lost \cup { run[r].session : r \in { q \in InFlight : run[q].pc \in {"sending", "replying"} } }
    /\ UNCHANGED <<env, setup, state, made, spent, asked>>

-----------------------------------------------------------------------------
(* The loop *)

\* The turn limit counts the calls of a run in a-interact, whose gate then
\* looks at the session, and those of a session in c-interact.
MayAsk(r) ==
    LET session == SessionOf(r) IN
    IF setup.mode = "a"
    THEN /\ run[r].calls < MaxModelTurns
         /\ ~(setup.ablation /\ session.last = "failed")
         /\ ~session.done
         /\ session.budget >= 0
    ELSE session.turns < MaxModelTurns

StopLoop(r) ==
    /\ run[r].pc = "loop"
    /\ ~MayAsk(r)
    /\ Ended(r)
    /\ OnlyRun

AskModel(r) ==
    /\ run[r].pc = "loop"
    /\ MayAsk(r)
    /\ state' = IF setup.mode = "a" THEN state
                ELSE [state EXCEPT ![run[r].session].turns = @ + 1]
    /\ run' = [run EXCEPT ![r].pc = "asking", ![r].calls = @ + 1]
    /\ UNCHANGED <<env, setup, made, current, spent, asked, lost>>

\* A final text, an answer cut short or filtered, a gateway error, or an
\* answer outside the contract.
ModelEnds(r) ==
    /\ run[r].pc = "asking"
    /\ Ended(r)
    /\ OnlyRun

Candidates == { <<"ask_user">>, <<"submit_sql">> }

ModelAsksTools(r, batch) ==
    /\ run[r].pc = "asking"
    /\ batch \in IF setup.mode = "a" THEN Batches ELSE Candidates
    /\ IF setup.mode = "a" /\ run[r].tools + Len(batch) > MaxModelTurns
       THEN Ended(r)
       ELSE run' = [run EXCEPT ![r].pc = "executing", ![r].batch = batch, ![r].asked = batch,
                               ![r].tools = IF setup.mode = "a" THEN @ + Len(batch) ELSE @]
    /\ OnlyRun

-----------------------------------------------------------------------------
(* One tool call: BirdSessionStatePort around the tool port *)

IsFreeExit(session, action) == action = "submit_sql" /\ session.budget < Cost[action]

\* The gates answer in the place of the service; that of c-interact is disabled
\* in a session without a max_turn.
IsRefused(session, action) ==
    IF setup.mode = "a" THEN session.budget < Cost[action] /\ action # "submit_sql"
    ELSE action = "ask_user" /\ session.seeded /\ session.asks >= MaxTurn

\* Mutant: what is left of the budget pays for the last submission.
ChargedBelowZero(session, action) == [session EXCEPT !.budget = @ - Cost[action]]

\* A submission is let through whatever is left, and then ends the loop.
Charged(session, action) ==
    LET left == session.budget - Cost[action] IN
    [session EXCEPT !.budget = IF action = "submit_sql" /\ left <= 0 THEN -1 ELSE left]

Refuse(r) ==
    /\ run[r].pc = "executing"
    /\ run[r].batch # <<>>
    /\ IsRefused(SessionOf(r), Action(r))
    /\ run' = [run EXCEPT ![r].batch = Tail(@)]
    /\ OnlyRun

\* Mutant: the gate looks at the budget and does not charge it.
SendUncharged(r) ==
    /\ run[r].pc = "executing"
    /\ run[r].batch # <<>>
    /\ ~IsRefused(SessionOf(r), Action(r))
    /\ run' = [run EXCEPT ![r].pc = "sending", ![r].sent = 1,
                          ![r].paid = IF setup.mode = "a" /\ ~IsFreeExit(SessionOf(r), Action(r))
                                      THEN Cost[Action(r)] ELSE 0]
    /\ OnlyRun

SendAction(r) ==
    /\ run[r].pc = "executing"
    /\ run[r].batch # <<>>
    /\ ~IsRefused(SessionOf(r), Action(r))
    /\ state' = IF setup.mode = "a"
                THEN [state EXCEPT ![run[r].session] = Charged(@, Action(r))] ELSE state
    /\ run' = [run EXCEPT ![r].pc = "sending", ![r].sent = 1,
                          ![r].paid = IF setup.mode = "a" /\ ~IsFreeExit(SessionOf(r), Action(r))
                                      THEN Cost[Action(r)] ELSE 0]
    /\ UNCHANGED <<env, setup, made, current, spent, asked, lost>>

ServiceExecutes(r, reply) ==
    LET s == run[r].session IN
    /\ run[r].pc = "sending"
    /\ EnvExecutes(Action(r), s, reply)
    /\ spent' = [spent EXCEPT ![s] = @ + run[r].paid]
    /\ asked' = IF Action(r) = "ask_user" THEN [asked EXCEPT ![s] = @ + 1] ELSE asked
    /\ run' = [run EXCEPT ![r].pc = "replying", ![r].paid = 0, ![r].reply = reply]
    /\ UNCHANGED <<setup, state, made, current, lost>>

\* A status that refuses a stateful action is its result, and one that refuses
\* a read ends the run.
ServiceRejects(r) ==
    /\ run[r].pc = "sending"
    /\ IF Action(r) \in StatefulActions
       THEN run' = [run EXCEPT ![r].pc = "replying", ![r].reply = RejectedResult]
       ELSE Ended(r)
    /\ OnlyRun

\* The request or its reply is lost, or the reply does not parse.
ReplyLost(r) ==
    /\ run[r].pc \in {"sending", "replying"}
    /\ IF MayResend(Action(r), run[r].sent)
       THEN run' = [run EXCEPT ![r].pc = "sending", ![r].sent = @ + 1, ![r].reply = NoReply]
       ELSE Ended(r)
    /\ lost' = IF Action(r) = "submit_sql" THEN lost \cup {run[r].session} ELSE lost
    /\ UNCHANGED <<env, setup, state, made, current, spent, asked>>

\* Mutant: the phase is taken from the session instead of the reply.
SubmittedByPhase(session, reply) ==
    IF reply.status # "success" THEN session
    ELSE IF reply.passed = 0 THEN [session EXCEPT !.last = "failed"]
    ELSE [session EXCEPT !.last = "passed",
                         !.phase1 = TRUE,
                         !.phase2 = session.phase1,
                         !.done = session.phase1 \/ ~reply.followUp]

\* _apply_submit_state
Submitted(session, reply) ==
    IF reply.status # "success" THEN session
    ELSE IF reply.passed = 0 THEN [session EXCEPT !.last = "failed"]
    ELSE [session EXCEPT !.last = "passed",
                         !.phase1 = @ \/ reply.passed = 1,
                         !.phase2 = @ \/ reply.passed = 2,
                         !.done = @ \/ reply.passed = 2 \/ ~reply.followUp]

\* _after_tool
AfterTool(session, action, reply) ==
    CASE action = "submit_sql" -> [Submitted(session, reply) EXCEPT !.submitted = @ \/ setup.mode = "c"]
      [] action = "ask_user" /\ setup.mode = "c" /\ reply = Success -> [session EXCEPT !.asks = @ + 1]
      [] OTHER -> session

ReplyArrives(r) ==
    /\ run[r].pc = "replying"
    /\ state' = [state EXCEPT ![run[r].session] = AfterTool(@, Action(r), run[r].reply)]
    /\ run' = [run EXCEPT ![r].pc = "executing", ![r].batch = Tail(@), ![r].sent = 0,
                          ![r].reply = NoReply]
    /\ UNCHANGED <<env, setup, made, current, spent, asked, lost>>

IsBatchDone(r) == run[r].pc = "executing" /\ run[r].batch = <<>>

\* In c-interact a submission ends the run.
NextTurn(r) ==
    /\ IsBatchDone(r)
    /\ IF setup.mode = "c" /\ run[r].asked = <<"submit_sql">> THEN Ended(r)
       ELSE run' = [run EXCEPT ![r].pc = "loop", ![r].last = IF setup.mode = "a" THEN run[r].asked ELSE <<>>,
                               ![r].asked = <<>>]
    /\ OnlyRun

\* The same batch came back with the same results.
StopRepeated(r) ==
    /\ IsBatchDone(r)
    /\ setup.mode = "a"
    /\ run[r].asked = run[r].last
    /\ Ended(r)
    /\ OnlyRun

-----------------------------------------------------------------------------
RunStep(r) ==
    \/ StopLoop(r) \/ AskModel(r) \/ ModelEnds(r)
    \/ \E batch \in Batches \cup Candidates : ModelAsksTools(r, batch)
    \/ Refuse(r) \/ SendAction(r)
    \/ \E reply \in Replies : ServiceExecutes(r, reply)
    \/ ServiceRejects(r) \/ ReplyLost(r) \/ ReplyArrives(r)
    \/ NextTurn(r) \/ StopRepeated(r)

Next ==
    \/ InitSession
    \/ ServerRestarts
    \/ \E r \in Runs : RunSession(r) \/ RunStep(r)

Spec == Init /\ [][Next]_vars

-----------------------------------------------------------------------------
(* Properties *)

\* What the services did for a session stays within what the orchestrator
\* seeded: in coins, with the submission that the official rules let through
\* for nothing left aside, and in answered questions of a phase.  A session
\* made anew after a restart has no seed: at most as many of its questions are
\* answered as it has turns.  Runs of a session overlap, batches spend more
\* than once, replies get lost.
BudgetsAreKept ==
    /\ setup.mode = "a" => \A s \in Sessions : spent[s] <= CoinBudget
    /\ setup.mode = "c" => \A s \in Sessions : asked[s] <= Questions(state[s])

InSubmission(s) == \E r \in InFlight : run[r].session = s /\ run[r].pc = "replying"

\* The phase flags, from which the orchestrator scores the episode, say what
\* the environment knows: never more, and not less unless the reply to a
\* submission was lost on the way or is not there yet.
FlagsFollowEnvironment ==
    \A s \in Sessions :
        LET flag == <<state[s].phase1, state[s].phase2>> IN
        /\ \A phase \in 1 .. 2 :
              /\ flag[phase] => env.passedBy[phase] = s
              /\ env.passedBy[phase] = s => flag[phase] \/ s \in lost \/ InSubmission(s)
        /\ state[s].done => env.phase = Over
=============================================================================
