------------------------------ MODULE RetailGraph ------------------------------
(* RetailGraph.run for one attempt: the node graph that decides what to ask   *)
(* ("decide") and, when a workflow, a reasoner or a query engine is wired,    *)
(* the investigation loop of _run_day4 ("investigate").  Both keep their      *)
(* state in a LangGraph checkpoint and can be run again after they failed.    *)
(*                                                                            *)
(* A step is the code from one await to the next.  The checkpoint is written  *)
(* at the end of a step, and nothing that a run knows beyond it is used after *)
(* that, so the checkpoint is the state of the run as well; `run` says where  *)
(* the run is.  RunFails stands for a process that dies and for whatever an   *)
(* awaited dependency raises before or after its effect.                      *)
EXTENDS ModelGateway, ContextBuilder, QueryEngine

CONSTANTS
    Setups,         \* how the graph is wired
    Batches,        \* tool batches the model may ask for, and their tokens
    Trees,          \* candidates, up to fingerprint and evidence: their statements
    DbAnswers,      \* what the product database may answer to one
    Plans,          \* the plans the model may submit: sequences of steps
    Keys,           \* idempotency keys of proposals
    Commands,
    NoCommand,
    MaxModelCalls,  \* RetailLoopPolicy
    MaxToolCalls,
    MaxRepairs,
    MaxRuns         \* bound on how often the attempt is run

Graphs == {"decide", "investigate"}
Candidates == DOMAIN Trees

ASSUME RetailAssumption ==
    /\ Setups \subseteq [graph : Graphs, dispatcher : BOOLEAN, engine : BOOLEAN]
    /\ \A plan \in Plans : plan \in Seq({ plan[i] : i \in DOMAIN plan })
    /\ \A plan \in Plans : Len(plan) > 0 /\ Cardinality({ plan[i] : i \in DOMAIN plan }) = Len(plan)
    /\ MaxModelCalls \in Nat \ {0} /\ MaxToolCalls \in Nat /\ MaxRepairs \in Nat /\ MaxRuns \in Nat
    /\ MaxSequence >= MaxModelCalls
    /\ \A sql \in Candidates : IsWellFormed(Trees[sql])
    /\ \A b \in Batches : Len(b.batch) \in Nat \ {0} /\ b.tokens \in Nat
    /\ NoCommand \notin Commands

VARIABLES
    setup,       \* the wiring, chosen once
    checkpoint,  \* the LangGraph state of the attempt's thread
    run,         \* where the current run is
    runs,        \* how often the attempt was run
    proposals,   \* what the operation workflow holds, by idempotency key
    returned     \* the outcomes that runs returned, cleanup failures excepted

graphVars == <<setup, checkpoint, run, runs, proposals, returned>>
vars == <<gatewayVars, graphVars>>

-----------------------------------------------------------------------------
(* State *)

NoOutcome == [status |-> "none", reason |-> "none", declared |-> {}]
Stopped(reason) == [status |-> "stopped", reason |-> reason, declared |-> {}]

NoCandidate == [sql |-> "none", step |-> "none", repair |-> 0]
NoDigest == <<>>

\* _initial_state
InitialState ==
    [node |-> "prepare_context", calls |-> 0, tools |-> 0, outcome |-> NoOutcome, cleaned |-> FALSE,
     batch |-> NoAnswer, history |-> <<>>, request |-> NoRequest, digest |-> NoDigest,
     plan |-> <<>>, pending |-> <<>>, candidate |-> NoCandidate, failed |-> FALSE, repairs |-> 0,
     evidence |-> <<>>, reconciled |-> FALSE, refs |-> {}]

NoCheckpoint == [InitialState EXCEPT !.node = "none"]

Nodes == {"none", "prepare_context", "call_model", "route_output", "validate_tools", "execute_tools",
          "close_exchange", "finalize", "complete",
          "prepare_plan_step", "execute_query", "sql_reason", "prepare_report", "create_proposal"}

\* Where a run is: at the next node, in complete(), between propose and the
\* checkpoint of its reference, before and after delete_attempt.
Positions == {"idle", "ready", "asking", "proposed", "finishing", "deleted"}

\* Answers: tools is one or more tool calls of the decide step, and invalid
\* anything the step's contract refuses.
DecideAnswers == { [type |-> "tools", batch |-> b.batch, tokens |-> b.tokens] : b \in Batches }
                 \cup [type : {"unregistered", "final", "length", "content_filter"}]
PlanAnswers == [type : {"clarify", "invalid"}] \cup [type : {"plan"}, plan : Plans]
SqlAnswers == [type : {"invalid"}] \cup [type : {"sql"}, sql : Candidates]
ReportAnswers == [type : {"invalid"}] \cup [type : {"propose"}, key : Keys, command : Commands]
                 \cup [type : {"report"}, declared : SUBSET Keys]
AllAnswers == DecideAnswers \cup PlanAnswers \cup SqlAnswers \cup ReportAnswers

TypeOK ==
    /\ turns \in [Sequences -> Turn]
    /\ call.pc \in {"idle", "encoding", "saving", "returned", "raised"}
    /\ call.sequence \in Sequences
    /\ call.attempt \in 0 .. MaximumAttempts
    /\ call.answer \in AllAnswers \cup {NoAnswer}
    /\ call.error \in Errors \cup {"none"}
    /\ clock \in 0 .. MaxClock
    /\ setup \in Setups
    /\ checkpoint.node \in Nodes
    /\ checkpoint.calls \in 0 .. MaxModelCalls
    /\ checkpoint.tools \in Nat
    /\ checkpoint.repairs \in 0 .. MaxRepairs
    /\ checkpoint.candidate.repair \in 0 .. MaxRepairs
    /\ checkpoint.refs \subseteq Keys
    /\ checkpoint.outcome.declared \subseteq Keys
    /\ checkpoint.batch \in AllAnswers \cup {NoAnswer}
    /\ run \in Positions
    /\ runs \in 0 .. MaxRuns
    /\ proposals \in [Keys -> Commands \cup {NoCommand}]

Init ==
    /\ GatewayInit
    /\ setup \in Setups
    /\ checkpoint = NoCheckpoint
    /\ run = "idle"
    /\ runs = 0
    /\ proposals = [k \in Keys |-> NoCommand]
    /\ returned = {}

\* The checkpoint a step writes at its end, and where the run goes on.
Write(state, position) ==
    /\ checkpoint' = state
    /\ run' = position
    /\ UNCHANGED <<setup, runs, returned>>

\* A run ends with an exception: nothing is saved or cleaned up.
Raise ==
    /\ run' = "idle"
    /\ call' = NoCall
    /\ UNCHANGED <<turns, clock, setup, checkpoint, runs, proposals, returned>>

Return(outcome) == returned' = returned \cup {outcome}

-----------------------------------------------------------------------------
(* run(): a new attempt, or the next run of one that has a checkpoint *)

IsOver == checkpoint.outcome # NoOutcome

\* Mutant: the loop is entered whether the attempt is over or not.
EntryUnchecked == "ready"

\* Where a run starts.
Entry == IF setup.graph = "investigate" /\ IsOver THEN "finishing" ELSE "ready"

\* Mutant: every run starts from the initial state.
Restarted == IF setup.graph = "decide" THEN InitialState ELSE checkpoint

\* The state a run starts from.  An investigation saves its first state once
\* it has a plan.
Restored == IF setup.graph = "decide" /\ checkpoint = NoCheckpoint THEN InitialState ELSE checkpoint

StartRun ==
    /\ run = "idle"
    /\ runs < MaxRuns
    /\ runs' = runs + 1
    /\ \/ /\ checkpoint.node = "complete"
          /\ Return(checkpoint.outcome)
          /\ UNCHANGED <<checkpoint, run>>
       \/ /\ checkpoint.node # "complete"
          /\ run' = Entry
          /\ checkpoint' = Restored
          /\ UNCHANGED returned
    /\ UNCHANGED <<gatewayVars, setup, proposals>>

RunFails ==
    /\ run # "idle"
    /\ Raise

-----------------------------------------------------------------------------
(* The node graph *)

AtNode(n) == setup.graph = "decide" /\ run = "ready" /\ checkpoint.node = n

\* A node's update of the state.  LangGraph writes it before the next node.
Goto(state) ==
    /\ Write(state, "ready")
    /\ UNCHANGED <<gatewayVars, proposals>>

\* A conversation that is over the budget ends this run and every later one.
PrepareContext ==
    /\ AtNode("prepare_context")
    /\ IF IsConversation(checkpoint.history, checkpoint.calls) /\ ~IsOverBudget(checkpoint.history)
       THEN Goto([checkpoint EXCEPT !.node = "call_model", !.request = Trimmed(checkpoint.history)])
       ELSE Raise

CallModelLimit ==
    /\ AtNode("call_model")
    /\ checkpoint.calls >= MaxModelCalls
    /\ Goto([checkpoint EXCEPT !.node = "route_output", !.outcome = Stopped("model_call_limit")])

CallModel ==
    /\ AtNode("call_model")
    /\ checkpoint.calls < MaxModelCalls
    /\ BeginCall(checkpoint.calls, Turns(checkpoint.request.groups))
    /\ run' = "asking"
    /\ UNCHANGED <<setup, checkpoint, runs, proposals, returned>>

\* What becomes of an answer that is not a tool batch.
AnswerOutcome(type) ==
    CASE type = "final"          -> Stopped("typed_retail_terminal_required")
      [] type = "length"         -> Stopped("model_output_incomplete")
      [] type = "content_filter" -> Stopped("model_output_filtered")
      [] OTHER                   -> NoOutcome

ModelAnswered ==
    /\ setup.graph = "decide"
    /\ run = "asking"
    /\ call.pc = "returned"
    /\ Write([checkpoint EXCEPT !.node = "route_output", !.calls = @ + 1,
                                !.outcome = AnswerOutcome(call.answer.type),
                                !.batch = IF call.answer.type \in {"tools", "unregistered"}
                                          THEN call.answer ELSE NoAnswer], "ready")
    /\ call' = NoCall
    /\ UNCHANGED <<turns, clock, proposals>>

\* A ModelGatewayError is the outcome of the attempt.
ModelFailed ==
    /\ setup.graph = "decide"
    /\ run = "asking"
    /\ call.pc = "raised"
    /\ Write([checkpoint EXCEPT !.node = "route_output", !.calls = @ + 1,
                                !.outcome = Stopped(call.error)], "ready")
    /\ call' = NoCall
    /\ UNCHANGED <<turns, clock, proposals>>

RouteOutput ==
    /\ AtNode("route_output")
    /\ Goto([checkpoint EXCEPT !.node = IF checkpoint.batch # NoAnswer THEN "validate_tools" ELSE "finalize"])

ValidateTools ==
    /\ AtNode("validate_tools")
    /\ \/ /\ ~setup.dispatcher \/ checkpoint.batch.type = "unregistered"
          /\ Raise
       \/ /\ setup.dispatcher /\ checkpoint.batch.type = "tools"
          /\ IF checkpoint.tools + Len(checkpoint.batch.batch) > MaxToolCalls
             THEN Goto([checkpoint EXCEPT !.node = "finalize", !.outcome = Stopped("tool_call_limit")])
             ELSE Goto([checkpoint EXCEPT !.node = "execute_tools"])

\* The tools of the decide step only read, so running the batch again does no
\* harm.  The digest covers what was asked and what came of it.
ExecuteTools(results) ==
    LET digest == [i \in DOMAIN checkpoint.batch.batch |-> <<checkpoint.batch.batch[i], results[i]>>]
        done == [checkpoint EXCEPT !.tools = @ + Len(checkpoint.batch.batch), !.digest = digest]
    IN
    /\ AtNode("execute_tools")
    /\ IF digest = checkpoint.digest
       THEN Goto([done EXCEPT !.node = "finalize", !.outcome = Stopped("repeated_evidence")])
       ELSE Goto([done EXCEPT !.node = "close_exchange"])

\* The ways the tools of the batch may end.
Results == IF checkpoint.batch.type = "tools" THEN [DOMAIN checkpoint.batch.batch -> {"success", "error"}]
           ELSE {}

\* The turn of the batch joins the history that every later call replays.
CloseExchange ==
    /\ AtNode("close_exchange")
    /\ Goto([checkpoint EXCEPT !.node = "prepare_context", !.batch = NoAnswer, !.request = NoRequest,
                               !.history = Append(@, Group(checkpoint.calls - 1, checkpoint.batch.tokens))])

Finalize ==
    /\ AtNode("finalize")
    /\ turns' = AttemptDeleted
    /\ run' = "deleted"
    /\ UNCHANGED <<call, clock, setup, checkpoint, runs, proposals, returned>>

\* The end of finalize() and of _finish_day4: the turns are gone, and the
\* attempt is complete once the checkpoint says so.
SaveComplete ==
    /\ run = "deleted"
    /\ checkpoint' = [checkpoint EXCEPT !.node = "complete", !.cleaned = TRUE]
    /\ Return(checkpoint.outcome)
    /\ run' = "idle"
    /\ UNCHANGED <<gatewayVars, setup, runs, proposals>>

-----------------------------------------------------------------------------
(* The investigation loop *)

Investigating == setup.graph = "investigate" /\ run = "ready"

\* The step of the loop that the checkpoint stands before.
NeedsModel(step) ==
    CASE step = "decide" -> checkpoint = NoCheckpoint
      [] step = "sql"    -> /\ checkpoint # NoCheckpoint /\ setup.engine
                            /\ checkpoint.pending # <<>>
                            /\ checkpoint.node # "execute_query"
      [] step = "report" -> /\ checkpoint # NoCheckpoint /\ setup.engine
                            /\ checkpoint.pending = <<>> /\ checkpoint.reconciled
                            /\ checkpoint.node # "create_proposal"

\* _save_day4_state, and the loop goes on.
Save(state) == Write(state, "ready")

\* _cache_and_finish: the outcome is saved before the turns are destroyed.
CacheAndFinish(state, outcome) ==
    Write([state EXCEPT !.node = "finalize", !.outcome = outcome, !.cleaned = FALSE], "finishing")

StopUnavailable ==
    /\ Investigating
    /\ checkpoint # NoCheckpoint
    /\ ~setup.engine
    /\ CacheAndFinish(checkpoint, Stopped("product_query_capability_unavailable"))
    /\ UNCHANGED <<gatewayVars, proposals>>

\* The first call is made whatever the limit.
AskLimit ==
    /\ Investigating
    /\ NeedsModel("sql") \/ NeedsModel("report")
    /\ checkpoint.calls >= MaxModelCalls
    /\ CacheAndFinish(checkpoint, Stopped("model_call_limit"))
    /\ UNCHANGED <<gatewayVars, proposals>>

\* An investigation passes no history: a step knows what its evidence says.
Ask(step) ==
    /\ Investigating
    /\ NeedsModel(step)
    /\ step # "decide" => checkpoint.calls < MaxModelCalls
    /\ BeginCall(checkpoint.calls, <<>>)
    /\ run' = "asking"
    /\ UNCHANGED <<setup, checkpoint, runs, proposals, returned>>

Answered(step, type) ==
    /\ setup.graph = "investigate"
    /\ run = "asking"
    /\ NeedsModel(step)
    /\ call.pc = "returned"
    /\ call.answer.type = type

\* What is left of the call is in the checkpoint.
Taken == call' = NoCall /\ UNCHANGED <<turns, clock>>

\* A gateway error is not recorded here, and neither is an answer that the
\* step refuses: the run ends, and the turn of the answer stays.
AskFailed ==
    /\ setup.graph = "investigate"
    /\ run = "asking"
    /\ \/ call.pc = "raised"
       \/ call.pc = "returned" /\ call.answer.type = "invalid"
       \/ call.pc = "returned" /\ call.answer.type = "sql" /\ ~IsReadOnly(Trees[call.answer.sql])
    /\ Raise

TakeClarification ==
    /\ Answered("decide", "clarify")
    /\ CacheAndFinish([InitialState EXCEPT !.calls = 1, !.tools = 1],
                      [status |-> "needs_input", reason |-> "none", declared |-> {}])
    /\ Taken
    /\ UNCHANGED proposals

TakePlan ==
    /\ Answered("decide", "plan")
    /\ Save([InitialState EXCEPT !.node = "prepare_plan_step", !.calls = 1, !.tools = 1,
                                 !.plan = call.answer.plan, !.pending = call.answer.plan])
    /\ Taken
    /\ UNCHANGED proposals

TakeCandidate ==
    LET previous == checkpoint.candidate
        sql == call.answer.sql
        asked == [checkpoint EXCEPT !.calls = @ + 1]
    IN
    /\ Answered("sql", "sql")
    /\ IsReadOnly(Trees[sql])
    /\ IF sql = previous.sql
       THEN CacheAndFinish(asked, Stopped("sql_no_progress"))
       ELSE Save([asked EXCEPT
                    !.node = "execute_query",
                    !.candidate = [sql |-> sql, step |-> Head(checkpoint.pending),
                                   repair |-> IF checkpoint.failed THEN previous.repair + 1 ELSE 0]])
    /\ Taken
    /\ UNCHANGED proposals

Executing == Investigating /\ checkpoint.pending # <<>> /\ checkpoint.node = "execute_query"

Admitted == Admits(Trees[checkpoint.candidate.sql])
MayEnd(how) == \E answer \in DbAnswers : Execution(answer) = how

\* Evidence of a step: the query, and the step that it was written for.
Evidence == [step |-> Head(checkpoint.pending), of |-> checkpoint.candidate.step,
             sql |-> checkpoint.candidate.sql]

\* Mutant: the state goes on standing at execute_query.
QueryNotLeft ==
    /\ Executing
    /\ setup.engine
    /\ Admitted /\ MayEnd("result")
    /\ Save([checkpoint EXCEPT !.tools = @ + 1,
                !.evidence = Append(@, Evidence), !.pending = Tail(@), !.failed = FALSE])
    /\ UNCHANGED <<gatewayVars, proposals>>

QuerySucceeds ==
    /\ Executing
    /\ setup.engine
    /\ Admitted /\ MayEnd("result")
    /\ Save([checkpoint EXCEPT
                !.node = "prepare_plan_step", !.tools = @ + 1,
                !.evidence = Append(@, Evidence), !.pending = Tail(@),
                !.candidate = NoCandidate, !.failed = FALSE])
    /\ UNCHANGED <<gatewayVars, proposals>>

\* An exception that is no QueryEngineError ends the run before the result is
\* in the checkpoint, and the next run executes the same query.
QueryRaises ==
    /\ Executing
    /\ setup.engine
    /\ Admitted /\ MayEnd("raised")
    /\ Raise

\* Mutant: one repair too many.
MayRepairAgain == checkpoint.candidate.repair <= MaxRepairs /\ checkpoint.repairs <= MaxRepairs

MayRepair == checkpoint.candidate.repair < MaxRepairs /\ checkpoint.repairs < MaxRepairs

QueryFails ==
    /\ Executing
    /\ setup.engine
    /\ Admitted => MayEnd("refused")
    /\ LET failed == [checkpoint EXCEPT !.tools = @ + 1] IN
       IF MayRepair
       THEN Save([failed EXCEPT !.node = "sql_reason", !.repairs = @ + 1, !.failed = TRUE])
       ELSE CacheAndFinish(failed, Stopped("sql_repair_limit"))
    /\ UNCHANGED <<gatewayVars, proposals>>

Reconcile ==
    /\ Investigating
    /\ checkpoint # NoCheckpoint /\ setup.engine
    /\ checkpoint.pending = <<>>
    /\ ~checkpoint.reconciled
    /\ Save([checkpoint EXCEPT !.node = "prepare_report", !.reconciled = TRUE])
    /\ UNCHANGED <<gatewayVars, proposals>>

\* The proposal is saved before it is made.
TakeProposal ==
    LET asked == [checkpoint EXCEPT !.calls = @ + 1, !.tools = @ + 1] IN
    /\ Answered("report", "propose")
    /\ IF setup.dispatcher
       THEN Save([asked EXCEPT !.node = "create_proposal", !.batch = call.answer])
       ELSE CacheAndFinish(asked, Stopped("operation_workflow_unavailable"))
    /\ Taken
    /\ UNCHANGED proposals

Proposing == Investigating /\ checkpoint.node = "create_proposal"

\* The workflow keeps one proposal for a key, and gives it to every call with
\* the same command.
Propose ==
    LET key == checkpoint.batch.key
        command == checkpoint.batch.command
    IN
    /\ Proposing
    /\ proposals[key] \in {NoCommand, command}
    /\ proposals' = [proposals EXCEPT ![key] = command]
    /\ run' = "proposed"
    /\ UNCHANGED <<gatewayVars, setup, checkpoint, runs, returned>>

ProposeConflicts ==
    /\ Proposing
    /\ proposals[checkpoint.batch.key] \notin {NoCommand, checkpoint.batch.command}
    /\ Raise

\* Mutant: the state is saved without the reference of the proposal.
RefForgotten ==
    /\ run = "proposed"
    /\ Save([checkpoint EXCEPT !.node = "prepare_report", !.batch = NoAnswer])
    /\ UNCHANGED <<gatewayVars, proposals>>

\* Mutant: the state goes on standing at create_proposal.
ProposalNotLeft ==
    /\ run = "proposed"
    /\ Save([checkpoint EXCEPT !.refs = @ \cup {checkpoint.batch.key}])
    /\ UNCHANGED <<gatewayVars, proposals>>

SaveRef ==
    /\ run = "proposed"
    /\ Save([checkpoint EXCEPT !.node = "prepare_report", !.batch = NoAnswer,
                               !.refs = @ \cup {checkpoint.batch.key}])
    /\ UNCHANGED <<gatewayVars, proposals>>

TakeReport ==
    LET declared == call.answer.declared IN
    /\ Answered("report", "report")
    /\ checkpoint.refs \subseteq declared
    /\ CacheAndFinish([checkpoint EXCEPT !.calls = @ + 1, !.tools = @ + 1],
                      [status |-> "completed", reason |-> "none", declared |-> declared])
    /\ Taken
    /\ UNCHANGED proposals

ReportMismatch ==
    /\ Answered("report", "report")
    /\ ~(checkpoint.refs \subseteq call.answer.declared)
    /\ Raise

\* _finish_day4
FinishDelete ==
    /\ run = "finishing"
    /\ turns' = AttemptDeleted
    /\ run' = "deleted"
    /\ UNCHANGED <<call, clock, setup, checkpoint, runs, proposals, returned>>

\* The caller gets a retryable stop, and the outcome on its next run.
FinishFails ==
    /\ run = "finishing"
    /\ turns' \in {turns, AttemptDeleted}
    /\ run' = "idle"
    /\ UNCHANGED <<call, clock, setup, checkpoint, runs, proposals, returned>>

-----------------------------------------------------------------------------
Offered ==
    IF setup.graph = "decide" THEN DecideAnswers
    ELSE IF NeedsModel("decide") THEN PlanAnswers
    ELSE IF NeedsModel("sql") THEN SqlAnswers
    ELSE ReportAnswers

Gateway == GatewayStep(Offered) /\ UNCHANGED graphVars

DecideStep ==
    \/ PrepareContext \/ CallModelLimit \/ CallModel \/ ModelAnswered \/ ModelFailed
    \/ RouteOutput \/ ValidateTools
    \/ \E results \in Results : ExecuteTools(results)
    \/ CloseExchange \/ Finalize

InvestigateStep ==
    \/ StopUnavailable \/ AskLimit
    \/ \E step \in {"decide", "sql", "report"} : Ask(step)
    \/ AskFailed \/ TakeClarification \/ TakePlan \/ TakeCandidate
    \/ QuerySucceeds \/ QueryFails \/ QueryRaises \/ Reconcile
    \/ TakeProposal \/ Propose \/ ProposeConflicts \/ SaveRef
    \/ TakeReport \/ ReportMismatch \/ FinishDelete \/ FinishFails

RunStep == Gateway \/ DecideStep \/ InvestigateStep \/ SaveComplete

Next ==
    \/ StartRun
    \/ RunFails
    \/ RunStep
    \/ Tick /\ UNCHANGED graphVars

Spec == Init /\ [][Next]_vars

\* A run that does not die goes on: every await of it returns or raises, and
\* asyncio resumes it.  Nobody has to run the attempt again.
FairSpec == Spec /\ WF_vars(RunStep)

-----------------------------------------------------------------------------
(* Properties *)

\* A completed investigation declares every proposal the attempt has made.
\* The proposal is made by another service between two checkpoints of this
\* one, and a run may end between any of them.
ReportCoversProposals ==
    checkpoint.outcome.status = "completed" =>
        { k \in Keys : proposals[k] # NoCommand } \subseteq checkpoint.outcome.declared

\* The evidence is that of the plan's steps so far, each once, in the plan's
\* order and from the query that was written for it: across repairs, and runs
\* that end between the query and the checkpoint of its result.
EvidenceFollowsPlan ==
    LET evidence == checkpoint.evidence IN
    /\ checkpoint.plan = [i \in DOMAIN evidence |-> evidence[i].step] \o checkpoint.pending
    /\ \A i \in DOMAIN evidence : evidence[i].of = evidence[i].step
    /\ checkpoint.outcome.status = "completed" => checkpoint.pending = <<>> /\ checkpoint.reconciled

\* No query that could write was executed, and no evidence shows an identity,
\* whatever the query calls it on its way through derived tables.  This is so
\* of queries that give no table a column list: _scope_sources does not look at
\* one, and a query that gives `seller_id` the name of another column is
\* admitted and shows it.
EvidenceIsReleasable ==
    \A i \in DOMAIN checkpoint.evidence :
        LET statement == Trees[checkpoint.evidence[i].sql] IN
        /\ KeepsNames(statement) => Shows(statement) = {}
        /\ statement.form = "select" /\ statement.nodes = {}

\* A call the checkpoint counts left its turn in the store, but for one that
\* failed and ended the attempt, and at most one turn is there that is not
\* counted: that of the call the last run did not live to count.
CountedCallsAreKept ==
    LET failed == checkpoint.outcome.status = "stopped" /\ checkpoint.outcome.reason \in Errors
        answered == IF failed THEN checkpoint.calls - 1 ELSE checkpoint.calls
    IN
    \A s \in Sequences : /\ s < answered => IsKept(s)
                         /\ IsKept(s) => s <= checkpoint.calls

\* The history of a decide loop is the turns of its own calls, so no call is
\* refused for a history out of order or a turn that never was.
HistoryIsReplayable == call.error \notin {"history_sequence_invalid", "state_not_found"}

\* The request that a call is made with is the latest part of the conversation
\* as it stands, across restarts: within the limit of the estimate, never
\* below the exchanges the profile wants to keep, and without dropping one
\* that there was room for.
RequestIsWellTrimmed ==
    checkpoint.node = "call_model" =>
        LET kept == checkpoint.request.groups
            history == checkpoint.history
            n == Len(kept)
        IN
        /\ Turns(kept) = Turns(Latest(history, n))
        /\ Estimate(kept, checkpoint.request.evidence) <= InputTokenLimit
        /\ n < Len(history) => /\ n >= MinimumRecentGroups
                               /\ ~(Estimate(Latest(history, n + 1), "all") <= InputTokenLimit)

\* A saved outcome is final: the attempt makes no call, query or proposal any
\* more, and every run that returns an outcome returns that one.
OutcomeIsFinal ==
    [][checkpoint.outcome # NoOutcome =>
          /\ checkpoint'.outcome = checkpoint.outcome
          /\ checkpoint'.calls = checkpoint.calls /\ checkpoint'.tools = checkpoint.tools
          /\ proposals' = proposals
          /\ call' = NoCall
          /\ returned' \subseteq {checkpoint.outcome}]_vars

\* Every run ends, whatever the model answers and however queries fail.
RunsEnd == run # "idle" ~> run = "idle"

-----------------------------------------------------------------------------
(* Refinement of RetailAttempt *)

Attempt == INSTANCE RetailAttempt WITH
    outcome <- checkpoint.outcome,
    calls <- checkpoint.calls,
    tools <- checkpoint.tools,
    kept <- LiveTurns

\* Whatever the model answers, however often the attempt is run and wherever
\* its runs end, it works, decides once on an outcome that answers for all it
\* has proposed, destroys its private turns and returns the outcome, in this
\* order: a later run still needs the turns of an attempt that has not decided,
\* and who holds the outcome knows that none is left.
ImplementsAttempt == Attempt!Spec
=============================================================================
