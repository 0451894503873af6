---------------------------- MODULE Investigations ----------------------------
(* The business tables and the audit log as a state machine: every step is  *)
(* one committed execute_* function (or one stored backtest).  Who may run  *)
(* a command, and when, is the subject of OperationWorkflow; here every     *)
(* reference executes at most once (uq_command_execution_proposal) and any  *)
(* order of commands that the SQL guards admit may happen.                  *)
(*                                                                          *)
(* Alert rules are proposed from the snapshot of a backtest.  The registry  *)
(* that resolves snapshots is a port without an implementation for          *)
(* PostgreSQL; here it knows a snapshot once its result is stored, until    *)
(* the scenario is reset.                                                   *)
EXTENDS InvestigationCommands, AlertBacktest

CONSTANTS
    Commands,   \* the commands that are ever approved
    Imports     \* what the retail tables may hold when a backtest reads them

ASSUME CommandsAssumption == Commands \subseteq OperationCommand

ASSUME BacktestAssumption ==
    /\ Specs \subseteq Specification
    /\ \A spec \in Specs : BacktestRef(spec) \in Backtests /\ spec.from .. spec.to - 1 \subseteq Windows
    /\ \A data \in Imports : IsFiniteSet(data.orders) /\ IsFiniteSet(data.reviews)

VARIABLES
    db,         \* the business tables
    audit,      \* ops.audit_event, by the proposal reference it belongs to
    snapshots   \* the specifications whose snapshots were ever resolved

vars == <<db, audit, snapshots>>

\* One audit event per execution: the command, and the version step it made.
NoEvent == [command |-> NoRef, target |-> NoRef, before |-> 0, after |-> 0]

Target(ref, c) == IF c.type \in NewTargetTypes THEN ref ELSE c.task

AuditEvent(ref, c) ==
    [command |-> c, target |-> Target(ref, c),
     before |-> PreviewVersion(c), after |-> PreviewVersion(c) + 1]

TypeOK ==
    /\ db \in Tables
    /\ audit \in [Refs -> {NoEvent} \cup { AuditEvent(r, c) : r \in Refs, c \in Commands }]
    /\ snapshots \subseteq Specs

Init ==
    /\ db = EmptyTables
    /\ audit = [r \in Refs |-> NoEvent]
    /\ snapshots = {}

-----------------------------------------------------------------------------
(* The common frame of the execute_* functions: mutation, then the audit     *)
(* event, in one transaction.                                                *)
Execute(ref, c) ==
    /\ audit[ref] = NoEvent
    /\ db' = Apply(ref, c, db)
    /\ audit' = [audit EXCEPT ![ref] = AuditEvent(ref, c)]
    /\ UNCHANGED snapshots

ExecuteOpenSellerRiskCase(ref, c) ==
    /\ c.type = "open_seller_risk_case"
    /\ CanOpenSellerRiskCase(ref, db)
    /\ Execute(ref, c)

ExecuteCreateInvestigationTask(ref, c) ==
    /\ c.type = "create_investigation_task"
    /\ CanCreateInvestigationTask(ref, db)
    /\ Execute(ref, c)

ExecuteCreateInvestigationFromAlertHit(ref, c) ==
    /\ c.type = "create_investigation_from_alert_hit"
    /\ CanCreateFromAlertHit(ref, c, db)
    /\ Execute(ref, c)

\* validate_command: the command says what a snapshot says under the same
\* reference.  It is checked when the rule is proposed.
MatchesSnapshot(c) == c.spec \in snapshots /\ c.backtest = BacktestRef(c.spec)

ExecuteCreateAndEnableMetricAlertRule(ref, c) ==
    /\ c.type = "create_and_enable_metric_alert_rule"
    /\ MatchesSnapshot(c)
    /\ CanCreateAlertRule(ref, c, db)
    /\ Execute(ref, c)

ExecuteAssignInvestigation(ref, c) ==
    /\ c.type = "assign_investigation"
    /\ CanAssign(c, db)
    /\ Execute(ref, c)

ExecuteTransitionInvestigation(ref, c) ==
    /\ c.type = "transition_investigation"
    /\ CanTransition(c, db)
    /\ Execute(ref, c)

ExecuteAddInvestigationConclusion(ref, c) ==
    /\ c.type = "add_investigation_conclusion"
    /\ CanAddConclusion(ref, c, db)
    /\ Execute(ref, c)

ExecuteCloseInvestigation(ref, c) ==
    /\ c.type = "close_investigation"
    /\ CanClose(c, db)
    /\ Execute(ref, c)

\* A backtest runs, its result is stored and its snapshot can be proposed.
StoreAlertBacktest(spec, data) ==
    LET b == BacktestRef(spec)
        windows == WindowResults(data, spec)
    IN
    /\ CanStoreBacktest(b, windows, db)
    /\ db' = StoreBacktestEffect(b, windows, db)
    /\ snapshots' = snapshots \cup {spec}
    /\ UNCHANGED audit

\* Mutant: the annotations of the scenario's sellers are kept.
ResetButRisks ==
    /\ db' = [EmptyTables EXCEPT !.risks = db.risks]
    /\ audit' = [r \in Refs |-> NoEvent]
    /\ snapshots' = {}

\* reset_product_scenario: every table of the scenario, in one transaction.
ResetScenario ==
    /\ db' = EmptyTables
    /\ audit' = [r \in Refs |-> NoEvent]
    /\ snapshots' = {}

Next ==
    \/ \E ref \in Refs, c \in Commands :
        \/ ExecuteOpenSellerRiskCase(ref, c)
        \/ ExecuteCreateInvestigationTask(ref, c)
        \/ ExecuteCreateInvestigationFromAlertHit(ref, c)
        \/ ExecuteCreateAndEnableMetricAlertRule(ref, c)
        \/ ExecuteAssignInvestigation(ref, c)
        \/ ExecuteTransitionInvestigation(ref, c)
        \/ ExecuteAddInvestigationConclusion(ref, c)
        \/ ExecuteCloseInvestigation(ref, c)
    \/ \E spec \in Specs, data \in Imports : StoreAlertBacktest(spec, data)
    \/ ResetScenario

Spec == Init /\ [][Next]_vars

-----------------------------------------------------------------------------
(* Properties *)

OnTask(r) ==
    /\ audit[r] # NoEvent
    /\ audit[r].command.type # "create_and_enable_metric_alert_rule"

\* No lost update: the audit events on a task are exactly its version
\* history.  Two commands that were approved against the same version can
\* never both have been applied (the expected_version re-check under the row
\* lock), and no version exists that no event accounts for.
AuditIsVersionHistory ==
    \A t \in Refs :
        /\ \A r \in Refs : OnTask(r) /\ audit[r].target = t
                             => audit[r].after \in 1 .. db.tasks[t].version
        /\ \A r, s \in Refs :
             OnTask(r) /\ OnTask(s) /\ audit[r].target = t /\ audit[s].target = t
               /\ audit[r].after = audit[s].after => r = s
        /\ \A v \in 1 .. db.tasks[t].version :
             \E r \in Refs : OnTask(r) /\ audit[r].target = t /\ audit[r].after = v

\* A task is closed only on the strength of a conclusion that was recorded
\* for that very task at an earlier version, and every conclusion belongs to
\* a task that had been resolved and is resolved or closed ever after
\* (execute_close_investigation, execute_add_investigation_conclusion).
ClosedOnConclusion ==
    /\ \A t \in Refs : db.tasks[t].status = "closed" =>
         \E r \in Refs : /\ db.conclusions[r].task = t
                         /\ db.conclusions[r].version < db.tasks[t].version
    /\ \A r \in Refs : db.conclusions[r].task # NoRef =>
         db.tasks[db.conclusions[r].task].status \in {"resolved", "closed"}

\* A seller-risk annotation lives exactly as long as its investigation: it
\* is under_investigation until the task is closed and carries a disposition
\* from then on.
RiskFollowsTask ==
    \A t \in Refs : db.risks[t].status # "absent" =>
        /\ db.tasks[t].status # "absent"
        /\ (db.tasks[t].status = "closed") <=> (db.risks[t].status \in RiskDisposition)
        /\ db.risks[t].version = IF db.tasks[t].status = "closed" THEN 2 ELSE 1

\* An enabled rule keeps the backtest it was reviewed against: the result is
\* stored, no other rule shares it, its hits are those of the rule's own
\* threshold (specifications that differ in the last decimals share a
\* reference), and every investigation opened from a hit is still justified.
RulesBackedByBacktest ==
    /\ \A r \in Refs : db.rules[r] # NoRef => db.backtests[db.rules[r]].stored
    /\ \A r, s \in Refs : db.rules[r] # NoRef /\ db.rules[r] = db.rules[s] => r = s
    /\ \A r \in Refs :
        audit[r] # NoEvent /\ audit[r].command.type = "create_and_enable_metric_alert_rule" =>
          \A w \in db.backtests[db.rules[r]].windows : w.hit <=> IsHit(w, audit[r].command.spec)
    /\ \A r \in Refs :
        audit[r] # NoEvent /\ audit[r].command.type = "create_investigation_from_alert_hit" =>
          LET rule == db.rules[audit[r].command.rule] IN
          /\ rule # NoRef
          /\ \E w \in db.backtests[rule].windows : w.start = audit[r].command.window /\ w.hit

\* What a step other than a reset of all may do to a task: its version moves
\* by one at most, its status only along the lifecycle, and a closed
\* investigation is never reopened (assign_investigation has no status guard
\* and may still touch it).
LifecycleStep ==
    db' # EmptyTables => \A t \in Refs :
        LET old == db.tasks[t]
            new == db'.tasks[t]
        IN  \/ new = old
            \/ /\ new.version = old.version + 1
               /\ \/ new.status = old.status
                  \/ <<old.status, new.status>> \in
                        AllowedTransitions \cup {<<"absent", "open">>, <<"resolved", "closed">>}

TaskLifecycle == [][LifecycleStep]_vars
=============================================================================
