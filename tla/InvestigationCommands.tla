------------------------ MODULE InvestigationCommands ------------------------
(* The closed vocabulary of eight operation commands and what each one does *)
(* to the business tables of schema ops (investigation_task,                *)
(* risk_annotation, investigation_conclusion, metric_alert_rule,            *)
(* alert_backtest_result).  Each trusted_schema.execute_* function is a     *)
(* guard (its early RAISE) and an effect (its INSERTs and UPDATEs) on one   *)
(* record db that holds the tables.                                         *)
(*                                                                          *)
(* A proposal reference <<proposal_id, version>> is a member of Refs.  The  *)
(* store derives task_ref, risk_ref, rule_ref and conclusion_ref from it    *)
(* (uuid5 or a formatted string), injectively, so Refs also names rows.     *)
EXTENDS Naturals

CONSTANTS
    Refs,       \* proposal references, and the rows created through them
    Backtests,  \* backtest_ref: one per rule specification digest
    Specs,      \* rule specifications
    Windows,    \* window_started_at of a backtest window
    Assignees,  \* assignee_ref values
    NoRef       \* SQL NULL where a reference or a backtest could be

ASSUME NoRefAssumption == NoRef \notin Refs /\ NoRef \notin Backtests

-----------------------------------------------------------------------------
(* Commands *)

TaskStatus == {"open", "in_progress", "blocked", "resolved", "closed"}

RiskDisposition == {"confirmed", "dismissed", "inconclusive"}

\* Transitions that commands.py accepts and that the SQL function re-checks.
AllowedTransitions ==
    { <<"open", "in_progress">>, <<"open", "blocked">>,
      <<"in_progress", "blocked">>, <<"in_progress", "resolved">>,
      <<"blocked", "in_progress">>, <<"blocked", "resolved">> }

OpenSellerRiskCase == [type : {"open_seller_risk_case"}]
CreateInvestigationTask == [type : {"create_investigation_task"}]
CreateInvestigationFromAlertHit ==
    [type : {"create_investigation_from_alert_hit"}, rule : Refs, window : Windows]
CreateAndEnableMetricAlertRule ==
    [type : {"create_and_enable_metric_alert_rule"}, backtest : Backtests, spec : Specs]
AssignInvestigation ==
    [type : {"assign_investigation"}, task : Refs, version : Nat, assignee : Assignees]
TransitionInvestigation ==
    { c \in [type : {"transition_investigation"}, task : Refs, version : Nat,
             from : TaskStatus, to : TaskStatus] :
        <<c.from, c.to>> \in AllowedTransitions }
AddInvestigationConclusion ==
    [type : {"add_investigation_conclusion"}, task : Refs, version : Nat]
CloseInvestigation ==
    [type : {"close_investigation"}, task : Refs, version : Nat, conclusion : Refs,
     disposition : RiskDisposition \cup {"null"}]

NewTargetTypes ==
    { "open_seller_risk_case", "create_investigation_task",
      "create_investigation_from_alert_hit", "create_and_enable_metric_alert_rule" }

OperationCommand ==
    OpenSellerRiskCase \cup CreateInvestigationTask
      \cup CreateInvestigationFromAlertHit \cup CreateAndEnableMetricAlertRule
      \cup AssignInvestigation \cup TransitionInvestigation
      \cup AddInvestigationConclusion \cup CloseInvestigation

\* preview_command: the target version an approver is shown and signs.
PreviewVersion(c) == IF c.type \in NewTargetTypes THEN 0 ELSE c.version

-----------------------------------------------------------------------------
(* Tables.  A row that does not exist has status "absent" (tasks, risks) or  *)
(* is NoRef (conclusions, rules).                                            *)

NoTask == [status |-> "absent", version |-> 0, assignee |-> NoRef]
NoRisk == [status |-> "absent", version |-> 0]
NoConclusion == [task |-> NoRef, version |-> 0]
NoBacktest == [stored |-> FALSE, windows |-> {}]

Task == [status : TaskStatus \cup {"absent"}, version : Nat,
         assignee : Assignees \cup {NoRef}]
Risk == [status : RiskDisposition \cup {"absent", "under_investigation"},
         version : Nat]
Conclusion == [task : Refs \cup {NoRef}, version : Nat]
WindowResult == [start : Windows, numerator : Nat, denominator : Nat, hit : BOOLEAN]
BacktestResult == [stored : BOOLEAN, windows : SUBSET WindowResult]

Tables == [ tasks : [Refs -> Task],
            risks : [Refs -> Risk],
            conclusions : [Refs -> Conclusion],
            rules : [Refs -> Backtests \cup {NoRef}],
            backtests : [Backtests -> BacktestResult] ]

EmptyTables == [ tasks |-> [r \in Refs |-> NoTask],
                 risks |-> [r \in Refs |-> NoRisk],
                 conclusions |-> [r \in Refs |-> NoConclusion],
                 rules |-> [r \in Refs |-> NoRef],
                 backtests |-> [b \in Backtests |-> NoBacktest] ]

-----------------------------------------------------------------------------
(* Guards: the conditions under which an execute_* function does not RAISE.  *)

CanOpenSellerRiskCase(ref, db) ==
    db.tasks[ref].status = "absent" /\ db.risks[ref].status = "absent"

CanCreateInvestigationTask(ref, db) == db.tasks[ref].status = "absent"

\* The hit must come from an enabled rule whose stored backtest has it.
CanCreateFromAlertHit(ref, c, db) ==
    /\ db.tasks[ref].status = "absent"
    /\ db.rules[c.rule] # NoRef
    /\ \E w \in db.backtests[db.rules[c.rule]].windows : w.start = c.window /\ w.hit

\* The last conjunct is uq_metric_alert_rule_backtest.
CanCreateAlertRule(ref, c, db) ==
    /\ db.rules[ref] = NoRef
    /\ db.backtests[c.backtest].stored
    /\ \A r \in Refs : db.rules[r] # c.backtest

\* Mutant: the version approved is not compared again under the lock.
AtAnyVersion(c, db) == db.tasks[c.task].status # "absent"

AtExpectedVersion(c, db) ==
    db.tasks[c.task].status # "absent" /\ db.tasks[c.task].version = c.version

CanAssign(c, db) == AtExpectedVersion(c, db)

\* Mutant: the status the approver saw is not compared again.
CanTransitionFromAny(c, db) ==
    AtExpectedVersion(c, db) /\ <<c.from, c.to>> \in AllowedTransitions

CanTransition(c, db) ==
    /\ AtExpectedVersion(c, db)
    /\ db.tasks[c.task].status = c.from
    /\ <<c.from, c.to>> \in AllowedTransitions

\* Mutant: conclusions are accepted before the task is resolved.
CanAddConclusionEarly(ref, c, db) ==
    AtExpectedVersion(c, db) /\ db.conclusions[ref].task = NoRef

CanAddConclusion(ref, c, db) ==
    /\ AtExpectedVersion(c, db)
    /\ db.tasks[c.task].status = "resolved"
    /\ db.conclusions[ref].task = NoRef

\* A linked risk needs a disposition and no other task may carry one: a NULL
\* disposition passes the NOT IN test and then fails risk_annotation.status
\* NOT NULL, so it is rejected as well.
CanClose(c, db) ==
    /\ AtExpectedVersion(c, db)
    /\ db.tasks[c.task].status = "resolved"
    /\ db.conclusions[c.conclusion].task = c.task
    /\ (db.risks[c.task].status # "absent") <=> (c.disposition # "null")

CanApply(ref, c, db) ==
    \/ c.type = "open_seller_risk_case" /\ CanOpenSellerRiskCase(ref, db)
    \/ c.type = "create_investigation_task" /\ CanCreateInvestigationTask(ref, db)
    \/ c.type = "create_investigation_from_alert_hit" /\ CanCreateFromAlertHit(ref, c, db)
    \/ c.type = "create_and_enable_metric_alert_rule" /\ CanCreateAlertRule(ref, c, db)
    \/ c.type = "assign_investigation" /\ CanAssign(c, db)
    \/ c.type = "transition_investigation" /\ CanTransition(c, db)
    \/ c.type = "add_investigation_conclusion" /\ CanAddConclusion(ref, c, db)
    \/ c.type = "close_investigation" /\ CanClose(c, db)

-----------------------------------------------------------------------------
(* Effects *)

NewTask == [status |-> "open", version |-> 1, assignee |-> NoRef]

OpenSellerRiskCaseEffect(ref, db) ==
    [db EXCEPT !.tasks[ref] = NewTask,
               !.risks[ref] = [status |-> "under_investigation", version |-> 1]]

CreateTaskEffect(ref, db) == [db EXCEPT !.tasks[ref] = NewTask]

CreateAlertRuleEffect(ref, c, db) == [db EXCEPT !.rules[ref] = c.backtest]

AssignEffect(c, db) ==
    [db EXCEPT !.tasks[c.task].assignee = c.assignee,
               !.tasks[c.task].version = c.version + 1]

TransitionEffect(c, db) ==
    [db EXCEPT !.tasks[c.task].status = c.to,
               !.tasks[c.task].version = c.version + 1]

AddConclusionEffect(ref, c, db) ==
    [db EXCEPT !.conclusions[ref] = [task |-> c.task, version |-> c.version + 1],
               !.tasks[c.task].version = c.version + 1]

\* Mutant: the linked risk annotation is forgotten.
CloseTaskOnly(c, db) ==
    [db EXCEPT !.tasks[c.task].status = "closed",
               !.tasks[c.task].version = c.version + 1]

CloseEffect(c, db) ==
    LET closed == [db EXCEPT !.tasks[c.task].status = "closed",
                             !.tasks[c.task].version = c.version + 1]
    IN  IF db.risks[c.task].status = "absent" THEN closed
        ELSE [closed EXCEPT !.risks[c.task].status = c.disposition,
                            !.risks[c.task].version = @ + 1]

Apply(ref, c, db) ==
    CASE c.type = "open_seller_risk_case" -> OpenSellerRiskCaseEffect(ref, db)
      [] c.type = "create_investigation_task" -> CreateTaskEffect(ref, db)
      [] c.type = "create_investigation_from_alert_hit" -> CreateTaskEffect(ref, db)
      [] c.type = "create_and_enable_metric_alert_rule" -> CreateAlertRuleEffect(ref, c, db)
      [] c.type = "assign_investigation" -> AssignEffect(c, db)
      [] c.type = "transition_investigation" -> TransitionEffect(c, db)
      [] c.type = "add_investigation_conclusion" -> AddConclusionEffect(ref, c, db)
      [] c.type = "close_investigation" -> CloseEffect(c, db)

\* Mutant: a later result replaces the stored one.
CanStoreBacktestOver(b, windows, db) == TRUE

\* store_alert_backtest: the identity is the rule specification's digest; a
\* second result under the same identity must be the one already stored.
CanStoreBacktest(b, windows, db) ==
    db.backtests[b].stored => db.backtests[b].windows = windows

StoreBacktestEffect(b, windows, db) ==
    [db EXCEPT !.backtests[b] = [stored |-> TRUE, windows |-> windows]]
=============================================================================
