# TLA+ verification of commerce-analyst-agent

The repository implements an analyst agent for a retail database: a language
model plans queries and investigations, people approve the operations it
proposes, PostgreSQL functions carry them out, and a runner evaluates the agent
on BIRD and product tasks.  This directory holds the TLA+ modules that model it,
the TLC configurations that check them on small instances, and the TLAPS proofs
of what matters most.  Paths below are relative to the repository root;
`ca/` stands for `src/commerce_agent/`.

## 1. Inventory

| Component | State it keeps | Operations | Hard behaviour | Status |
|---|---|---|---|---|
| Business commands: `db/migrations/versions/0004_day4_product_operations.py`, `ca/operations/commands.py` | tasks, risk annotations, conclusions, alert rules, backtest results, audit events | eight `execute_*` functions, `store_alert_backtest` | optimistic versions, cross-table rules, long legal sequences | modelled |
| Operation workflow: `ca/operations/workflow.py`, `_approval.py`, `_store.py`, `_postgres.py`, same migration | proposals, decisions, nonces, executions; grants in the approvers' hands | `propose`, `decide`, `execute` | concurrent callers, row locks, transaction timestamps, lost commit responses, retries, expiry | modelled |
| Evaluation runner: `ca/evaluation/runner.py`, `_postgres.py`, `_official.py`, `cli.py`, migration 0005 | experiment, attempts, results; per run: episodes, permits, stop event; orchestrator subprocesses | run, resume, stop, abandon, crash | asyncio interleavings, cancellation, subprocess races, resume | modelled |
| Spool import: `ca/evaluation/spool_importer.py` | none between calls | scan files, assign sessions, merge telemetry | unusable files, ambiguous evidence, order dependence | partly |
| Scenario reset: migration 0004, `ca/product_eval/_reset.py` | none | delete one scenario's rows | tables that refer to each other | partly |
| Seller references, alert backtest, canonical commands: `ca/operations/_backtest.py`, `_canonical.py`, seller modules | backtest snapshots | run a backtest, digest a specification | rounding, boundaries, a stale snapshot | partly |
| Model gateway: `ca/model/gateway.py`, `_retry.py` | the call under way | validate, resolve turns, send, classify, retry, save | retry of what was charged, an answer that cannot be saved | partly |
| Provider turn store: `ca/model/_turn_store.py`, `_postgres_turn_store.py`, migration 0003 | private turns by attempt and sequence | save, resolve, delete_attempt | duplicates after a resume, two expiry times | modelled |
| Retail graph: `ca/orchestration/retail_graph.py`, `_checkpoint.py` | checkpointed state of an attempt, budgets | nodes, loop steps, run again | death between effect and checkpoint, bounded loops | modelled |
| Agent tools: `ca/orchestration/tools.py` | none | dispatch by step | failures as results | partly |
| Context builder: `ca/context_builder/` | none | build a request within a budget | boundaries, order of trimming | partly |
| Query engine: `ca/query_engine/` | none | admit, execute, reconcile | scope analysis, limits, failure classes | partly |
| SQL reasoning: `ca/sql_reasoning/` | none | generate or repair a candidate | no progress, repair limit | modelled |
| BIRD server, agents, tool client: `ca/orchestration/bird_*.py` | sessions, coins, turns, phase flags | init, tool batches, submissions | overlapping runs, resends, lost replies | modelled |
| BIRD system agent: `bird_system_agent/` | the process | two endpoints over the adapter | restart | partly |
| Trace writer: `ca/trace/` | append-only events | append | late and failing commits | partly |
| HTTP API and event stream: `ca/api/` | one cursor per connection | page, frame, reconnect | cursors that move | partly |
| Web workbench: `web/` | shown events | show what is new | reconnects | partly |
| In-memory operation store, model configuration snapshots, value resolver, knowledge catalog and retrieval, product evaluation, operational scripts | dictionaries, files, none | | | not modelled, section 5 |

Interactions: the retail graph asks the gateway, which keeps the private turns
of its calls in the turn store; it builds its requests with the context builder,
runs candidates through the query engine, and calls `OperationWorkflow.propose`.
People call `decide` and `execute`; the workflow calls its store, which calls
the `trusted_schema` functions, each in one transaction under its own database
role; those write the business tables and the audit log.  The evaluation runner
shares its attempt table between runs, and with the spool importer.  The
orchestrators it starts post to the BIRD server, whose sessions act on the task's
environment through the tool port.  The trace writer's table is what the event
stream reads, and the stream is what the workbench shows.

What makes each one correct, in a line:

* commands: no update is lost, an investigation closes on a conclusion, a risk
  annotation follows its investigation, a rule keeps its reviewed backtest;
* workflow: exactly one mutation per approved proposal, approved by a second
  person, within the time it was approved for, against the version shown;
* runner: a completed task never runs again, one terminal status per attempt, one
  orchestrator per task database, a stop stops, a run ends;
* spool: every session is accounted for once and conclusive evidence is used;
* retail graph: an outcome is final, a report names every proposal, evidence
  follows the plan and shows no identity, the history can be replayed, private
  turns live exactly as long as they are needed, a run ends;
* BIRD: seeded budgets are never exceeded, phase flags say what the environment knows;
* stream: what is shown is the beginning of the run, in order, without a gap, but
  for events committed late and pages that follow a run over a reset.

## 2. Modules

```
AlertBacktest ── what a rule would have reported
   └── Investigations          commands, backtests, resets            (MCInvestigations)
InvestigationCommands ── the tables, the commands, their guards and effects
   ├── Investigations
   ├── OperationLifecycle      what the workflow promises, abstractly
   └── OperationWorkflow       sessions, transactions, grants, clock (MCOperationWorkflow)
          └─ Lifecycle == INSTANCE OperationLifecycle WITH ...
EvaluationRunner ── runs of one experiment                            (MCEvaluationRunner)
SpoolAssignment  ── scan and assignment of spool files                (MCSpoolAssignment)
ModelGateway, ContextBuilder, QueryEngine
   └── RetailGraph             the attempt, over all three            (MCRetailGraph)
          └─ Attempt == INSTANCE RetailAttempt WITH ...
BirdToolPort ── the environment behind the tool client
   └── BirdSession             sessions and the runs on them          (MCBirdSession)
EventStream ── trace, stream and what a client shows                  (MCEventStream)
```

Proof modules: InvestigationCommandsProofs, InvestigationsProofs,
OperationWorkflowProofs, SpoolAssignmentProofs, EvaluationRunnerProofs,
RetailGraphProofs, BirdSessionProofs, EventStreamProofs.

**InvestigationCommands** has no variables.  A row is a record, an absent row is
one with status `absent` or a `NoRef` reference; the tables are one record `db`
because the functions change several of them in one transaction.  `Can...` is
the condition under which an `execute_*` function does not RAISE, `...Effect` its
INSERTs and UPDATEs.  A proposal reference doubles as the identity of the rows
its command creates, as in `_command_call`, which derives them by uuid5.
Titles, priorities, metrics and evidence are left out: no condition depends on
them after validation.

**AlertBacktest** is `MetricAlertBacktester.run` from the imported orders and
reviews to the hits of each window, with the rates as integers.  A specification
is named by its digest, which rounds the threshold (`BacktestRef`), so two
specifications can share a name.

**Investigations** applies approved commands in every order: one action per
`execute_*` function, with the audit event of the common frame
(`_command_function`), `store_alert_backtest`, and `reset_product_scenario` as one
transaction.  The registry that resolves the snapshot of a rule is a port of the
program without an implementation in `src/`; it is assumed to know the snapshots
that a backtest stored (`snapshots`), and nothing else.

**OperationWorkflow** models a call as the steps between which others can act: a
read on its own connection, BEGIN (which fixes `transaction_timestamp()`), and the
statements made under the proposal's row lock, which with COMMIT are one step.
`calls[s]` is the local state of session `s`: what it read and has not yet used.
`Abort` ends a call at any point with nothing written; the actions that commit may
also lose the response (`UNCHANGED acks`, `grants` or `receipts`).  Signatures and
digests are equality of what they cover.  `clock` is shared by both sides because
the DSN checks pin the database to 127.0.0.1.  `acks`, `grants`, `receipts` and
`writes` are history variables, except that `grants` is also what the world can
present to `execute`.  PostgreSQL never stores the status `expired`: an expired
proposal stays pending and is refused by time.

**OperationLifecycle** is the abstract promise: Submit, Settle, Perform, each in
one step, without sessions, time or grants.  `Stage(r)` in OperationWorkflow is the
refinement mapping: the status of the row, or `executed` if an execution exists.

**EvaluationRunner** models several runs of one experiment over the shared attempt
table.  The store's methods are synchronous, so between two awaits nothing else
of the same process runs (`LoopIdle`); other runs, subprocesses and crashes
interleave freely.  An episode is waiting, registered, executing, returned,
cancelled or done; `processes` holds the live orchestrators.  The sequence numbers
follow `unfinished_attempts`, and a store method may fail without effect or, for
`finish_attempt`, after its commit.

**SpoolAssignment** starts from every placement of spool files and attempts in
time, some of the files unusable, scans the files as the importer does (one bad
line gives up the file) and binds the sessions one by one, in the order of the
file names.  The fast path for a single session with a single attempt is the same
rule, and is not distinguished.

**ModelGateway** is `complete()` over the turn store, for the calls of one
attempt: validate the history, resolve each private turn (renewing its idle time),
send until an attempt is final, save the answer's turn, return.  A commit of the
store may fail with and without effect.  A turn is kept without its payload and is
referred to by its sequence number.

**ContextBuilder** is `build()`: the order of the conversation, the estimate, the
three stages of trimming, the budget.  Contents of messages are token counts.

**QueryEngine** is `AstPolicy.validate` over abstract syntax trees and what
`PostgresExecutor` makes of the database's answer.  A statement is its SELECT
scopes, inner ones first; an expression is its leaves with the kinds of the nodes
above them.  The rules are in the order and with the exceptions of
`_ast_policy.py`; `Shows(statement)` is the reference definition against which
admission is judged: the identities that reach the result uncounted.

**RetailGraph** extends these three and composes them: one attempt, run again after
failures, either through the node graph (`setup.graph = "decide"`) or through the
investigation loop (`"investigate"`).  A step is the code from one await to the
next; the checkpoint is written at its end and is all that a later step reads, so
one variable is the state of the thread and of the run.  `RunFails` can happen at
every position: it is a process that dies, and whatever an awaited dependency
raises.  The operation workflow appears as `proposals`, which keeps one command
per idempotency key, which is what KeysNameOneProposal shows of it.  One
run of an attempt is under way at a time.

**RetailAttempt** is what the graph promises of an attempt, with neither nodes nor
runs: work is counted and never forgotten, the attempt decides once, on an outcome
that answers for its proposals, its private turns are destroyed only after that, and
only after that is the outcome given to anybody.  The mapping takes the outcome and
the counters from the checkpoint and the turns not yet destroyed from the store, so
a run that dies or starts again is a stutter: nothing an observer of the attempt relies
on may be lost with the process.

**BirdToolPort** is the task's environment as the tool client meets it: two phases,
resends of what is stateless, replies that are lost after the effect.
**BirdSession** is `BirdSystemServerAdapter`: the sessions of one task, a-interact
under the coin budget and c-interact with its question limit, overlapping runs, a
restart of the process.  A session made on the fly has neither: `Unseeded` has no
coins, and without a max_turn the gate on questions is off (`Questions`).

**EventStream** has appends whose commits may be late or fail, the row-number
cursor, pages of PageLimit rows, frames on the wire, reconnects with the last
event id, and the workbench's list.  `Reset` deletes the committed events of the run
while streams and pages stay as they are; the rerun of the scenario has the same run
id and writes the same events again.

## 3. Runs

| Run | States | Question |
|---|---|---|
| investigations | 209,839 | do approved commands, backtests and resets in every order keep the tables and the audit log consistent? |
| operation_race | 92,301 | two sessions race decisions and executions of one proposal over its expiry |
| operation_revise | 64,773 | two sessions propose and revise under equal and different keys while the proposal is decided and executed: do locks and transactions implement the abstract lifecycle? |
| operation_conflict | 793,693 | two approved commands against one task version |
| evaluation_resume | 358,785 | two runs in sequence with stops, crashes, failing stores; does every run end? |
| spool_assignment | 1,724,976 | is every session accounted for, and conclusive evidence used? |
| retail | 215,073 | one attempt under five wirings, run up to three times, with a run dying anywhere, failing and expiring turns, retries, repairs, proposals |
| bird | 956,244 | two runs on the sessions of one task: do budgets hold, do flags follow the environment? |
| stream | 2,544,332 | two clients over a trace that grows and is reset: is anything missed, doubled, out of order? |
| evaluation_stop, evaluation_repeated, spool_guess | | the statements of section 6 that TLC refutes |

Every property has a mutant: a variant of one mapped definition with a plausible
bug (the operators commented `Mutant:`) under which TLC finds the property
violated by the same run.

Bounds, and why they suffice:

* operation_*: two concurrent sessions, since every conflict in the code is between
  two transactions on one row, and one session where the question is about the order
  of whole calls (conflict).  Three proposals in conflict: one creates the task, two
  want to change it.  Two revisions in revise: a revision and its predecessor.  Clock
  up to 2 with GrantTTL 1 and ProposalTTL 2 in race: a call can begin before, at and
  after both expiries; where expiry is not the question MaxClock is 0.
* investigations: six references, for a seller case with its transition,
  assignment, conclusion and closing, and an alert rule with an investigation from
  its hit; two windows; two specifications whose thresholds differ in a decimal that
  the digest drops (Precision 10, DigestStep 2).
* evaluation_resume: two tasks with one or two permits, two runs: an episode that
  waits, one that runs, and a resume after any of the ends.  One runner at a time
  (MaxRunners = 1): section 6 says what two do.
* spool_assignment: three sessions, two attempts, times 0..2 and grace 0: more
  sessions than attempts, overlapping and disjoint windows.  Grace only widens the
  windows, which are enumerated anyway.
* retail: a plan of two steps takes four calls, and a fifth for a proposal or a repair
  in its place; one more runs into the limit (MaxModelCalls 5, MaxToolCalls 5,
  MaxRepairs 1).  A budget of 5 tokens over exchanges of 1 and 3 trims at every stage
  and also fails; IdleTTL 0 and AbsoluteTTL 2 with one tick let a turn expire both
  ways.  Five statements (counted, plain, an identity renamed through a derived
  table, one renamed by the column list of a table's alias, a write) and four database answers (a result, too expensive, an unsupported
  type, a row too many) take every branch of the engine.  Three runs: one that dies,
  one that dies in what the first left, one that sees both.
* bird: two runs and two sessions (one made again after a restart), eight half coins
  against costs of 2, 4 and 6, three model turns, one question a phase.  A session made after a restart answers three.
* stream: three events, pages of two, two clients, two breaks, two resets: a page that
  is full, one that is not, a reconnect in the middle of either, a reset under a page
  or on the wire, a run that is selected again and one that is followed over both.

Symmetry is used for sessions, nonces, keys and runs, never with a liveness
property.  Deadlock is checked in the command and workflow runs; in the others the
system stops when its work or its bounds are used up, and the cfg says so.

**Fairness.**  Two properties named RunsEnd need it.  In EvaluationRunner it is weak
fairness of `Advance(r)`, all that a run does by itself: the event loop resumes every
ready coroutine, the episode timeout bounds every subprocess (`wait_for` in
`_official.py`) and `stop_grace_seconds` the grace.  Stops, crashes and store
failures are not in it.  In RetailGraph it is weak fairness of `RunStep`, the steps
of a run and of its call: every await has a timeout (gateway, connections,
statements) or is local, so it returns or raises.  Starting a run, dying and the
clock are not in it: nobody has to run an attempt again.

## 4. Proofs

Every theorem is `Spec => ...` for all values of the constants that satisfy the
named assumptions of the modules: references are pairs of an identifier and a
version, lifetimes are positive, null is no identifier, commands are of the closed
vocabulary, imports are finite, batches and plans are non-empty sequences,
statements are well formed.

**InvestigationsProofs**, over lemmas of InvestigationCommandsProofs (ApplyType: no
admitted command leaves the types; TaskEffect, RiskEffect, RowEffect: what a command
may do to each table).

| Theorem | Strengthening, and why |
|---|---|
| InvestigationTypes | none |
| TaskLifecycleAlways | AbsentIsZero: a task that does not exist has version 0, so creating it moves the version by one |
| RiskFollowsTaskAlways | none but types |
| ClosedOnConclusionAlways | ConclusionsAreOld: a conclusion's version is one its task has not fallen behind, or a later version could be mistaken for an earlier one |
| AuditIsVersionHistoryAlways | AbsentIsZero, and that a reset empties both sides at once |
| RulesBackedByBacktestAlways | RuleInv: snapshots are stored, rules keep the specification they were proposed with, hits are those of that specification.  Without the first a second specification under the same digest could replace what was reviewed |

**OperationWorkflowProofs**: TypeCorrectness,
ExactlyOnceAlways, SeparationOfDutiesAlways, ExecutedInTimeAlways,
OneLiveVersionAlways; SettledIsFinalAlways, AppliesToShownVersionAlways,
ReceiptsAgreeAlways, KeysNameOneProposalAlways, GrantsAreUniqueAlways;
WorkflowImplementsLifecycle.

They share one inductive invariant, `IInv`.  ExactlyOnce is not inductive: a state
where a rejected proposal still has an unused nonce satisfies it and can step to one
that does not.  IInv adds that a proposal's status tells its decision and that only
an approved one has a nonce or an execution (`DecisionsMatchStatus`), that a
decision is never by the requester (`DecidersAreOthers`), and that decisions precede
executions in the timestamps that different calls took at their BEGIN
(`DecisionsPrecedeCalls`), which ExecutedInTime rests on.  OneLiveVersion is what
makes a new row's reference fresh (InsertIsFresh): a settled row is never
overwritten.  `QuietCall` covers every step that only moves a call forward; the three
steps that write, ProposeInsert, RecordRejection/RecordApproval and ExecuteCommit,
have a lemma each.  KeysNameOneProposal needs that one actor's key is on one row
whatever two sessions had missed in their look-ups (`KeysAreUnique`), and
GrantsAreUnique that a grant on its way out belongs to the recorded approval
(`GrantsMatchApprovals`).  For the refinement, SameCommands identifies the abstract
commands with the concrete ones, InitImplements maps initial states, and
StepImplements shows that ProposeInsert is a Submit, a recorded decision a Settle,
ExecuteCommit a Perform, and everything else a stutter.

**EvaluationRunnerProofs** has three invariants, each inductive given the ones before.

| Invariant | Says | Theorems |
|---|---|---|
| RunnerInv | for each entry of each run (`Local(r, e)`): a result goes with the status succeeded, a row exists from the moment its episode registers it, a subprocess lives only while its episode executes or is being cancelled, or after its runner crashed | ResultsMatchStatusAlways, NoOrchestratorOutlivesItsRunAlways, StopStopsClaimingAlways |
| EpisodeInv | of each live run: its list is one that validate_same_task_serial let pass and with one permit one episode holds it (`RunOK`); a row is pending or running only under an episode that has yet to finish it, an episode whose subprocess is gone knows its outcome, abandoning leaves nothing behind it registered, and without a stop an entry is skipped only if it was completed (`EntryOK`) | RunnerTypes, SummaryIsFinalAlways, OneEpisodePerDatabaseAlways (NoRepeats) |
| NumberInv | no run begins before the ones before it are over (`InTurn`), so what it read as completed is all there is; whoever holds a number that is not registered yet finds every smaller number taken, none larger, and no attempt of the task that has a result | AttemptsAreNumberedAlways, CompletedNeverRerunsAlways (NoRepeats, MaxRunners = 1) |

RunnerInv and EpisodeInv speak of one run at a time: StepOfRun shows that a step of
one run leaves the part of the others alone, which makes the theorems hold for any
number of overlapping runs, more than the TLC runs allow.  Two theorems need
NoRepeats, no task list has a line twice: evaluation_repeated shows that the code
does not exclude it and what comes of it, and two equal lines can be numbered in
one order and registered in the other.  MaxRunners = 1, at most one active run, is
needed because completed tasks and the last number are read before they are used; it
says nothing of crashed runs, whose orphans stay.  Where one would
count, e.g. to see that no number is missing below the highest, the proof takes a
least number that is missing.

**SpoolAssignmentProofs**: SpoolTypes, AccountedOnceAlways, MutualMatchesAreBoundAlways.
`Accounted` describes the state between two sessions: those behind are accounted for
once, those ahead are untouched, what is bound is a candidate.  `MutualSettled` adds
that a pair behind that fits nobody else is bound.

**RetailGraphProofs** begins with a theorem about QueryEngine, AdmittedShowsNothing.
`Shows` is a function over the scopes of a statement.  The proof takes a least scope
that shows something: everything it reads from inner scopes shows nothing, so the
identity comes from a table of its own, and ScopeShowsNothing finds the rule of the
policy that refuses it.  Both assume `KeepsNames`, that no table of the statement is
given a column list: the policy ignores the list and the database does not, so without
the assumption the theorem is false (section 6).  Column lists of derived tables are
covered: what they rename shows nothing by then.  The invariants of the graph follow in layers, each
inductive given the ones before:

| Invariant | Says | Theorems |
|---|---|---|
| GraphInv | where a run can be for what its checkpoint says, a saved outcome leads to the end and nothing else does, every proposal is referred to or is the one being made, turns are destroyed once there is an outcome | OutcomeIsFinalAlways, ReportCoversProposalsAlways |
| EvidenceInv | the plan is the evidence and the pending steps, a query about to run was written for the first pending step and can only read | EvidenceFollowsPlanAlways, EvidenceIsReleasableAlways (with AdmittedShowsNothing) |
| CallsInv | a call under way is the next one and finds the turns of its history; the history is older than the calls so far; one turn for every answered call and at most one more | HistoryIsReplayableAlways, CountedCallsAreKeptAlways |
| RequestInv | at call_model the request is what build() made of the history as it stands | RequestIsWellTrimmedAlways (with RetainedIsLatest) |
| TypeInv | the types, that a call under way was begun below the limit of model calls and of attempts, and that a query which failed and is to be repaired has a repair left | RetailTypes |

CallsInv is where the order of steps matters: the turn is saved before the call is
counted and counted before its batch joins the history, and a death between any
two leaves the store at most one turn ahead.  A turn that expires is still there, so a
history that expired is refused as expired and never as unknown.

TypeInv keeps the limits of RetailLoopPolicy across deaths: the guard on a model call
or a repair is passed at one checkpoint and the count is in the next, and a run that
dies in between has counted nothing, so the next run meets the same guard.  That
the proposal about to be made is one the model may make (ProposalFits) comes from the
refinement's proof.

RetailImplementsAttempt, the refinement, rests on the first three layers.  StepKinds
sorts the steps of the graph: one leaves everything of the attempt alone, advances the
checkpoint while it is open (Advancing), changes the turns (GatewayChangesTurns), makes
one proposal (ProposalSteps), or returns what was decided; each kind then maps to an
action of RetailAttempt or to a stutter.  GraphInv gives that a decision answers for the
proposals and that nothing is returned before the clean-up, CallsInv that a step never
keeps a turn of an attempt that has decided.

**BirdSessionProofs**: FlagsFollowEnvironmentAlways, TypesAlways, BudgetsAreKeptAlways.
For the first `FlagsInv` says that a reply on
its way that tells of a phase is to a submission, and true of the environment
(RepliesAreTrue); that a phase nobody passed is still open (PhasesAreOpen), so of two
overlapping submissions at most one is told that it passed; and that a session knows
what the environment knows of it, or the reply is under way or was lost
(FlagsAreKnown).  QuietStep covers the steps that touch none of this; what remains is
a submission that passes, a reply that arrives, and the ways of losing one.  It holds
for any number of overlapping runs and of restarts.

The two others rest on `SessionInv`: the types, and that in c-interact one run at a time
is at work, which has no more model calls than its session has turns and asks only as
long as its session has questions left; an unseeded session always has, and there the
bound comes from the turns: every question answered or under way is one of a turn
(`Agree`).  TypesAlways follows; its bounds are conclusions,
e.g. that no run makes more than _MAX_MODEL_TURNS model calls.  For BudgetsAreKeptAlways
`CoinsOf(s)` adds up, for one session, the coins it has left, what the services did
and what its runs have been charged for but no service has done yet.  The sum over the
runs is not written as one, which would take an induction: `Fits` says that it is at
most some number by giving a bound for the runs up to each run in some order, and
FitsMore and FitsDone say how the bounds change when a run is charged and when a
service does what it was charged for.  Two assumptions: the POSTs can be numbered
(`Countable`), and in c-interact the orchestrator starts a run of a session when the
one before it has ended (`SerialC`).  Without the second the limit on questions is
not kept, as section 6 says; in a-interact runs may overlap.

**EventStreamProofs**: StreamTypes, ShowsRunInOrderAlways.  Pages are row numbers of
the run in the order a query sorts it, which is how the code's cursors count.
`StreamInv` has two halves.  `InOrder` says of every client, over late events and
resets, that what it shows, what is on the wire to it and what its page still holds
have consecutive cursors: it names the row it has got to and a query counts from there.
`Agrees` says that these rows are rows of the table under their present numbers, for a
client that has read of one table only (a reset makes every other one `stale` until
the run is selected again) and as long as nothing commits behind an event that a query has
returned: the events up to `readUpTo` then keep their row numbers.

Only model-checked: both RunsEnd, liveness being out of the prover's reach.

## 5. What is not modelled

* Hashing, signatures and canonical JSON (as equality), role and DSN checks of the
  connections, statement timeouts other than as `Abort` or a failing step, free text,
  contents of previews, messages and tool answers, event logs.
* The in-memory stores are doubles for tests: each method runs under one asyncio
  lock, so the interleavings of their PostgreSQL counterparts do not arise.
* Spool telemetry: the merge into attempt rows, an import after the run.
* Scenario reset: its row locks.  They are taken in the reverse order of the
  `execute_*` functions', so against an operation under way it can deadlock or fail
  on a foreign key, and is rolled back either way.
* Seller references: signing and matching of opaque references.
* Model gateway: prices, the wire format, guard callbacks, which only observe.
* Query engine: `reconcile`, which compares rows, and no model keeps rows.  Value
  resolver and knowledge retrieval: string similarity and BM25 over static data.
* Product evaluation: its driver is a sequential script over the reset, the retail
  graph and the workflow, which are modelled.
* Model configuration snapshots and operational scripts: static validation,
  input and output.
* HTTP endpoints other than the stream are single reads; rendering has no state.
* Two runs of one retail attempt at the same time: nothing in the graph excludes
  them, nothing in `src/` starts them.

## 6. Disagreements between code and documentation

These have a run each, in which TLC finds the documented statement violated.

* **A stop can end in a failure** (evaluation_stop).  If the orchestrator exits
  just before its episode is cancelled, `process.kill()` raises ProcessLookupError,
  `except OSError` in `_official.py` takes it for a failed spawn, the
  cancellation is lost, and `finish_attempt` on the interrupted row raises
  EvalStateConflict: exit code 1 in place of 130.
* **One task listed twice** (evaluation_repeated).  `validate_same_task_serial`
  compares modes, so two equal entries run on one database at once.
* **A guess** (spool_guess).  Of two sessions that fit one attempt the first by
  file name is bound; the module promises to report such cases.

These have no run: nothing states the opposite, or the model has it as it is coded.

* Two runners of one experiment at the same time (MaxRunners = 2) run a task again
  that one of them completed: completed tasks are read once, at the start.
* `DefaultReferenceValidator` gives each alert-rule command a private binding that
  `_private_seller_binding` refuses, so over PostgreSQL no alert rule can be
  proposed (`HasStorableBinding`).
* The digest that names a backtest has the threshold with four decimals
  (`_backtest.py:106`), a rule with six; grain and filters are in the digest but never
  reach the observation query (`_postgres.py:1002`).
* The retry of a `propose` returns the retry's own timestamps, not the stored row's.
* The response of an approving commit can be lost, and with it the grant: the
  proposal is approved and can never be executed.
* A retail run that dies between saving a turn and counting its call leaves the
  attempt stuck: every later run pays for the call again and is refused as a
  duplicate.
* A conversation whose mandatory part is over the budget raises in this run and in
  every later one (`builder.py:245`).
* The estimate leaves out the tool results that the gateway sends, while
  `_tokens.py:24` speaks of the wire-visible payload; for the same reason replacing
  results by summaries never lowers it.
* The retail loop never calls `QueryEngine.reconcile`: it writes a passed check
  whose two digests are the same value (`retail_graph.py:450`).
* A value of an unsupported type raises TypeError out of the query engine; the
  candidate stays saved, and every later run executes it again.
* `_ConditionalStopGate` (`bird_server.py:385`) says it delegates to the inner gate
  first; it looks at the ablation first.
* A BIRD session made on the fly after a restart has no seed: in a-interact no coins,
  so that its first gated action is refused; in c-interact no max_turn, so that nothing
  but its turns limits its questions (`_clarification_budget` says so).  The question
  limit of a seeded session holds as long as the orchestrator does not overlap runs of
  it; nothing on the server prevents it.
* A trace event that commits behind one already read shifts the row-number cursors:
  a client misses one event and is shown another twice.
* `_scope_sources` (`_ast_policy.py:182-195`) offers the columns of a table by their own
  names and ignores a column list on its alias, which the database applies by position.
  A name the policy knows as harmless can so stand for `seller_id`, and the statement is
  admitted (statement s5 of MCRetailGraph, `Relabelled`).  EvidenceIsReleasable is
  stated for the other statements.
* The run of a scenario has one id for ever (`driver.py:277`) and a reset deletes its
  trace, so that cursors start again.  A page that has shown n events, or reconnects
  with Last-Event-ID n, misses the first n events of the rerun and goes on showing those
  of the former one, until the run is selected again.  ShowsRunInOrder promises such a
  page consecutive cursors only.
* The product driver names its attempts by the scenario alone, and the reset removes
  proposals and traces but no checkpoint, so a second run of a scenario over
  persistent checkpoints returns the first one's outcome, whose proposals are gone.

## 7. What is left

All components that keep state under concurrency or failure have a module.  Worth
adding, in order: the telemetry merge of the spool import against a running attempt; the
row locks of the scenario reset against the operation workflow; the driver composed
with the retail graph and the reset, for the last point of section 6.
