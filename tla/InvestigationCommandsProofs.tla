--------------------- MODULE InvestigationCommandsProofs ---------------------
(* Facts about the execute_* functions that every module with a business     *)
(* database relies on.                                                       *)
EXTENDS InvestigationCommands, TLAPS

\* The initial tables have their types.
LEMMA EmptyTablesType == EmptyTables \in Tables
  BY DEF EmptyTables, Tables, NoTask, NoRisk, NoConclusion, NoBacktest,
         Task, Risk, Conclusion, BacktestResult

\* A member of a closed vocabulary is a record of one of its eight kinds.
LEMMA CommandKinds ==
    ASSUME NEW c \in OperationCommand
    PROVE  /\ c.type = "create_and_enable_metric_alert_rule" => c.backtest \in Backtests
           /\ c.type = "create_investigation_from_alert_hit" => c.rule \in Refs /\ c.window \in Windows
           /\ c.type \notin NewTargetTypes => c.task \in Refs /\ c.version \in Nat
           /\ c.type = "assign_investigation" => c.assignee \in Assignees
           /\ c.type = "transition_investigation" => c.to \in TaskStatus
           /\ c.type = "close_investigation" =>
                c.conclusion \in Refs /\ c.disposition \in RiskDisposition \cup {"null"}
  BY DEF OperationCommand, OpenSellerRiskCase, CreateInvestigationTask,
         CreateInvestigationFromAlertHit, CreateAndEnableMetricAlertRule,
         AssignInvestigation, TransitionInvestigation, AddInvestigationConclusion,
         CloseInvestigation, NewTargetTypes

\* Whatever an admitted command does, the tables keep their types.
LEMMA ApplyType ==
    ASSUME NEW c \in OperationCommand, NEW ref \in Refs, NEW d \in Tables,
           CanApply(ref, c, d)
    PROVE  Apply(ref, c, d) \in Tables
  <1>. DEFINE old == d.tasks[c.task]
  <1>0. c.type \notin NewTargetTypes =>
          /\ c.task \in Refs /\ c.version \in Nat /\ c.version + 1 \in Nat
          /\ old \in Task
          /\ d.risks[c.task] \in Risk
    BY CommandKinds DEF Tables
  <1>1. CASE c.type = "open_seller_risk_case"
    <2>1. NewTask \in Task /\ [status |-> "under_investigation", version |-> 1] \in Risk
      BY DEF NewTask, Task, Risk, TaskStatus
    <2>2. Apply(ref, c, d) = OpenSellerRiskCaseEffect(ref, d)
      BY <1>1 DEF Apply
    <2>3. /\ [d.tasks EXCEPT ![ref] = NewTask] \in [Refs -> Task]
          /\ [d.risks EXCEPT ![ref] = [status |-> "under_investigation", version |-> 1]]
               \in [Refs -> Risk]
      BY <2>1 DEF Tables
    <2> QED
      BY <2>2, <2>3 DEF OpenSellerRiskCaseEffect, Tables
  <1>2. CASE c.type \in {"create_investigation_task", "create_investigation_from_alert_hit"}
    <2>1. NewTask \in Task
      BY DEF NewTask, Task, TaskStatus
    <2>2. Apply(ref, c, d) = CreateTaskEffect(ref, d)
      BY <1>2 DEF Apply
    <2> QED
      BY <2>1, <2>2 DEF CreateTaskEffect, Tables
  <1>3. CASE c.type = "create_and_enable_metric_alert_rule"
    <2>1. c.backtest \in Backtests
      BY <1>3, CommandKinds
    <2>2. Apply(ref, c, d) = CreateAlertRuleEffect(ref, c, d)
      BY <1>3 DEF Apply
    <2> QED
      BY <2>1, <2>2 DEF CreateAlertRuleEffect, Tables
  <1>4. CASE c.type = "assign_investigation"
    <2>1. Apply(ref, c, d) = AssignEffect(c, d)
      BY <1>4 DEF Apply
    <2>2. AssignEffect(c, d) = [d EXCEPT !.tasks[c.task] =
             [old EXCEPT !.assignee = c.assignee, !.version = c.version + 1]]
      BY <1>0, <1>4 DEF AssignEffect, Tables, Task, NewTargetTypes
    <2>3. [old EXCEPT !.assignee = c.assignee, !.version = c.version + 1] \in Task
      BY <1>0, <1>4, CommandKinds DEF Task, NewTargetTypes
    <2> QED
      BY <1>0, <1>4, <2>1, <2>2, <2>3 DEF Tables, NewTargetTypes
  <1>5. CASE c.type = "transition_investigation"
    <2>1. Apply(ref, c, d) = TransitionEffect(c, d)
      BY <1>5 DEF Apply
    <2>2. TransitionEffect(c, d) = [d EXCEPT !.tasks[c.task] =
             [old EXCEPT !.status = c.to, !.version = c.version + 1]]
      BY <1>0, <1>5 DEF TransitionEffect, Tables, Task, NewTargetTypes
    <2>3. [old EXCEPT !.status = c.to, !.version = c.version + 1] \in Task
      BY <1>0, <1>5, CommandKinds DEF Task, NewTargetTypes
    <2> QED
      BY <1>0, <1>5, <2>1, <2>2, <2>3 DEF Tables, NewTargetTypes
  <1>6. CASE c.type = "add_investigation_conclusion"
    <2>1. Apply(ref, c, d) = AddConclusionEffect(ref, c, d)
      BY <1>6 DEF Apply
    <2>2. AddConclusionEffect(ref, c, d) =
            [d EXCEPT !.conclusions[ref] = [task |-> c.task, version |-> c.version + 1],
                      !.tasks[c.task] = [old EXCEPT !.version = c.version + 1]]
      BY <1>0, <1>6 DEF AddConclusionEffect, Tables, Task, NewTargetTypes
    <2>3. /\ [old EXCEPT !.version = c.version + 1] \in Task
          /\ [task |-> c.task, version |-> c.version + 1] \in Conclusion
      BY <1>0, <1>6 DEF Task, Conclusion, NewTargetTypes
    <2>4. /\ [d.tasks EXCEPT ![c.task] = [old EXCEPT !.version = c.version + 1]]
               \in [Refs -> Task]
          /\ [d.conclusions EXCEPT ![ref] = [task |-> c.task, version |-> c.version + 1]]
               \in [Refs -> Conclusion]
      BY <1>0, <1>6, <2>3 DEF Tables, NewTargetTypes
    <2> QED
      BY <2>1, <2>2, <2>4, ZenonT(60) DEF Tables
  <1>7. CASE c.type = "close_investigation"
    <2>. DEFINE new == [old EXCEPT !.status = "closed", !.version = c.version + 1]
                closed == [d EXCEPT !.tasks[c.task] = new]
                risk == d.risks[c.task]
    <2>1. Apply(ref, c, d) = CloseEffect(c, d)
      BY <1>7 DEF Apply
    <2>2. new \in Task
      BY <1>0, <1>7 DEF Task, NewTargetTypes, TaskStatus
    <2>3. [d EXCEPT !.tasks[c.task].status = "closed",
                    !.tasks[c.task].version = c.version + 1] = closed
      BY <1>0, <1>7 DEF Tables, Task, NewTargetTypes
    <2>4. closed \in Tables /\ closed.risks = d.risks
      BY <1>0, <1>7, <2>2 DEF Tables, NewTargetTypes
    <2>5. CASE risk.status = "absent"
      BY <2>1, <2>3, <2>4, <2>5 DEF CloseEffect
    <2>6. CASE risk.status # "absent"
      <3>1. c.disposition \in RiskDisposition
        BY <1>7, <2>6, CommandKinds DEF CanApply, CanClose
      <3>2. [risk EXCEPT !.status = c.disposition, !.version = @ + 1] \in Risk
        <4>1. risk \in Risk /\ risk.version \in Nat
          BY <1>0, <1>7 DEF Risk, NewTargetTypes
        <4>2. risk.version + 1 \in Nat
          BY <4>1
        <4> QED
          BY <3>1, <4>1, <4>2 DEF Risk
      <3>3. CloseEffect(c, d) =
              [closed EXCEPT !.risks[c.task].status = c.disposition,
                             !.risks[c.task].version = @ + 1]
        BY <2>3, <2>6 DEF CloseEffect
      <3>4. CloseEffect(c, d) =
              [closed EXCEPT !.risks[c.task] =
                 [risk EXCEPT !.status = c.disposition, !.version = @ + 1]]
        BY <1>0, <1>7, <2>4, <3>3, ZenonT(60) DEF Tables, Risk, NewTargetTypes
      <3>5. [closed.risks EXCEPT ![c.task] =
               [risk EXCEPT !.status = c.disposition, !.version = @ + 1]] \in [Refs -> Risk]
        BY <1>0, <1>7, <2>4, <3>2 DEF Tables, NewTargetTypes
      <3>6. ASSUME NEW e \in Tables, NEW risks \in [Refs -> Risk]
            PROVE  [e EXCEPT !.risks = risks] \in Tables
        BY DEF Tables
      <3>7. [closed EXCEPT !.risks = [closed.risks EXCEPT ![c.task] =
               [risk EXCEPT !.status = c.disposition, !.version = @ + 1]]] \in Tables
        BY <2>4, <3>5, <3>6
      <3> QED
        BY <2>1, <3>4, <3>7
    <2> QED
      BY <2>5, <2>6
  <1> QED
    BY <1>1, <1>2, <1>3, <1>4, <1>5, <1>6, <1>7 DEF CanApply

-----------------------------------------------------------------------------
(* What an execute_* function does to each table, without nested EXCEPTs.    *)

NewTaskTypes == NewTargetTypes \ {"create_and_enable_metric_alert_rule"}

\* Tasks: only the target moves, by one version, from the version approved.
TasksMove(ref, c, d, e) ==
    /\ c.type \in NewTaskTypes =>
         /\ d.tasks[ref].status = "absent"
         /\ e.tasks = [d.tasks EXCEPT ![ref] = NewTask]
    /\ c.type = "create_and_enable_metric_alert_rule" => e.tasks = d.tasks
    /\ c.type \notin NewTargetTypes =>
         /\ c.task \in Refs /\ c.version \in Nat
         /\ d.tasks[c.task].status # "absent"
         /\ d.tasks[c.task].version = c.version
         /\ e.tasks[c.task].version = c.version + 1
         /\ \A t \in Refs \ {c.task} : e.tasks[t] = d.tasks[t]
    /\ c.type \in {"assign_investigation", "add_investigation_conclusion"} =>
         e.tasks[c.task].status = d.tasks[c.task].status
    /\ c.type = "transition_investigation" =>
         /\ d.tasks[c.task].status = c.from
         /\ e.tasks[c.task].status = c.to
         /\ <<c.from, c.to>> \in AllowedTransitions
    /\ c.type = "close_investigation" =>
         /\ d.tasks[c.task].status = "resolved"
         /\ e.tasks[c.task].status = "closed"

LEMMA TaskEffect ==
    ASSUME NEW c \in OperationCommand, NEW ref \in Refs, NEW d \in Tables,
           CanApply(ref, c, d), NEW e, e = Apply(ref, c, d)
    PROVE  TasksMove(ref, c, d, e)
  <1>. USE DEF TasksMove
  <1>1. CASE c.type \in NewTaskTypes
    <2>1. d.tasks[ref].status = "absent"
      BY <1>1 DEF CanApply, CanOpenSellerRiskCase, CanCreateInvestigationTask,
                  CanCreateFromAlertHit, NewTaskTypes, NewTargetTypes
    <2>2. e.tasks = [d.tasks EXCEPT ![ref] = NewTask]
      BY <1>1 DEF Apply, OpenSellerRiskCaseEffect, CreateTaskEffect, NewTaskTypes,
                  NewTargetTypes, Tables
    <2> QED
      BY <1>1, <2>1, <2>2 DEF NewTaskTypes, NewTargetTypes
  <1>2. CASE c.type = "create_and_enable_metric_alert_rule"
    <2>1. e.tasks = d.tasks
      BY <1>2 DEF Apply, CreateAlertRuleEffect, Tables
    <2> QED
      BY <1>2, <2>1 DEF NewTaskTypes, NewTargetTypes
  <1>3. CASE c.type \notin NewTargetTypes
    <2>. DEFINE old == d.tasks[c.task]
    <2>1. /\ c.task \in Refs /\ c.version \in Nat
          /\ old \in Task /\ d.tasks \in [Refs -> Task]
      BY <1>3, CommandKinds DEF Tables
    <2>2. old.status # "absent" /\ old.version = c.version
      BY <1>3 DEF CanApply, CanAssign, CanTransition, CanAddConclusion, CanClose,
                  AtExpectedVersion, NewTargetTypes
    <2>3. CASE c.type = "assign_investigation"
      <3>1. e.tasks = [d.tasks EXCEPT ![c.task] =
               [old EXCEPT !.assignee = c.assignee, !.version = c.version + 1]]
        BY <2>1, <2>3 DEF Apply, AssignEffect, Tables, Task
      <3> QED
        BY <2>1, <2>2, <2>3, <3>1 DEF Task, NewTargetTypes, NewTaskTypes
    <2>4. CASE c.type = "transition_investigation"
      <3>1. e.tasks = [d.tasks EXCEPT ![c.task] =
               [old EXCEPT !.status = c.to, !.version = c.version + 1]]
        BY <2>1, <2>4 DEF Apply, TransitionEffect, Tables, Task
      <3>2. old.status = c.from /\ <<c.from, c.to>> \in AllowedTransitions
        BY <2>4 DEF CanApply, CanTransition
      <3> QED
        BY <2>1, <2>2, <2>4, <3>1, <3>2 DEF Task, NewTargetTypes, NewTaskTypes
    <2>5. CASE c.type = "add_investigation_conclusion"
      <3>1. e.tasks = [d.tasks EXCEPT ![c.task] = [old EXCEPT !.version = c.version + 1]]
        BY <2>1, <2>5 DEF Apply, AddConclusionEffect, Tables, Task
      <3> QED
        BY <2>1, <2>2, <2>5, <3>1 DEF Task, NewTargetTypes, NewTaskTypes
    <2>6. CASE c.type = "close_investigation"
      <3>1. e.tasks = [d.tasks EXCEPT ![c.task] =
               [old EXCEPT !.status = "closed", !.version = c.version + 1]]
        <4>1. e = CloseEffect(c, d)
          BY <2>6 DEF Apply
        <4>2. e.tasks = [d EXCEPT !.tasks[c.task].status = "closed",
                                  !.tasks[c.task].version = c.version + 1].tasks
          BY <4>1, <2>1 DEF CloseEffect, Tables
        <4> QED
          BY <2>1, <4>2 DEF Tables, Task
      <3>2. old.status = "resolved"
        BY <2>6 DEF CanApply, CanClose
      <3> QED
        BY <2>1, <2>2, <2>6, <3>1, <3>2 DEF Task, NewTargetTypes, NewTaskTypes
    <2> QED
      BY <1>3, <2>3, <2>4, <2>5, <2>6 DEF CanApply, NewTargetTypes
  <1> QED
    BY <1>1, <1>2, <1>3 DEF NewTaskTypes

\* Risks: made by the first command of a seller's case, settled by its close.
RisksMove(ref, c, d, e) ==
    /\ c.type = "open_seller_risk_case" =>
         e.risks = [d.risks EXCEPT ![ref] = [status |-> "under_investigation", version |-> 1]]
    /\ c.type = "close_investigation" /\ d.risks[c.task].status # "absent" =>
         /\ c.disposition \in RiskDisposition
         /\ e.risks[c.task].status = c.disposition
         /\ e.risks[c.task].version = d.risks[c.task].version + 1
         /\ \A t \in Refs \ {c.task} : e.risks[t] = d.risks[t]
    /\ /\ c.type # "open_seller_risk_case"
       /\ c.type = "close_investigation" => d.risks[c.task].status = "absent"
       => e.risks = d.risks

LEMMA RiskEffect ==
    ASSUME NEW c \in OperationCommand, NEW ref \in Refs, NEW d \in Tables,
           CanApply(ref, c, d), NEW e, e = Apply(ref, c, d)
    PROVE  RisksMove(ref, c, d, e)
  <1>. USE DEF RisksMove
  <1>1. CASE c.type = "open_seller_risk_case"
    BY <1>1 DEF Apply, OpenSellerRiskCaseEffect, Tables
  <1>2. CASE c.type = "close_investigation" /\ d.risks[c.task].status # "absent"
    <2>. DEFINE risk == d.risks[c.task]
                closed == [d EXCEPT !.tasks[c.task].status = "closed",
                                    !.tasks[c.task].version = c.version + 1]
    <2>1. c.task \in Refs /\ risk \in Risk /\ d.risks \in [Refs -> Risk]
      BY <1>2, CommandKinds DEF NewTargetTypes, Tables
    <2>2. c.disposition \in RiskDisposition
      BY <1>2, CommandKinds DEF CanApply, CanClose
    <2>3. closed.risks = d.risks /\ DOMAIN closed = DOMAIN d
      BY DEF Tables
    <2>4. e = [closed EXCEPT !.risks[c.task].status = c.disposition,
                             !.risks[c.task].version = @ + 1]
      BY <1>2 DEF Apply, CloseEffect
    <2>5. e.risks = [d.risks EXCEPT ![c.task] =
             [risk EXCEPT !.status = c.disposition, !.version = @ + 1]]
      BY <2>1, <2>3, <2>4 DEF Tables, Risk
    <2>6. /\ e.risks[c.task].status = c.disposition
          /\ e.risks[c.task].version = risk.version + 1
      BY <2>1, <2>5 DEF Risk
    <2>7. \A t \in Refs \ {c.task} : e.risks[t] = d.risks[t]
      BY <2>1, <2>5
    <2> QED
      BY <1>2, <2>2, <2>6, <2>7
  <1>3. CASE c.type = "close_investigation" /\ d.risks[c.task].status = "absent"
    BY <1>3 DEF Apply, CloseEffect, Tables
  <1>4. CASE c.type \notin {"open_seller_risk_case", "close_investigation"}
    BY <1>4 DEF Apply, CanApply, CreateTaskEffect, CreateAlertRuleEffect, AssignEffect,
                TransitionEffect, AddConclusionEffect, Tables
  <1> QED
    BY <1>1, <1>2, <1>3, <1>4

\* Conclusions, rules and backtests: rows are inserted and never changed.
RowsMove(ref, c, d, e) ==
    /\ c.type = "add_investigation_conclusion" =>
         /\ d.tasks[c.task].status = "resolved"
         /\ d.conclusions[ref].task = NoRef
         /\ e.conclusions = [d.conclusions EXCEPT ![ref] =
               [task |-> c.task, version |-> c.version + 1]]
    /\ c.type # "add_investigation_conclusion" => e.conclusions = d.conclusions
    /\ c.type = "create_and_enable_metric_alert_rule" =>
         e.rules = [d.rules EXCEPT ![ref] = c.backtest]
    /\ c.type # "create_and_enable_metric_alert_rule" => e.rules = d.rules
    /\ e.backtests = d.backtests

LEMMA RowEffect ==
    ASSUME NEW c \in OperationCommand, NEW ref \in Refs, NEW d \in Tables,
           CanApply(ref, c, d), NEW e, e = Apply(ref, c, d)
    PROVE  RowsMove(ref, c, d, e)
  <1>. USE DEF RowsMove
  <1>1. CASE c.type = "close_investigation"
    BY <1>1 DEF Apply, CloseEffect, Tables
  <1>2. CASE c.type = "add_investigation_conclusion"
    BY <1>2 DEF Apply, AddConclusionEffect, CanApply, CanAddConclusion, Tables
  <1>3. CASE c.type = "create_and_enable_metric_alert_rule"
    BY <1>3 DEF Apply, CreateAlertRuleEffect, Tables
  <1>4. CASE c.type \notin {"close_investigation", "add_investigation_conclusion",
                            "create_and_enable_metric_alert_rule"}
    BY <1>4 DEF Apply, CanApply, OpenSellerRiskCaseEffect, CreateTaskEffect, AssignEffect,
                TransitionEffect, Tables
  <1> QED
    BY <1>1, <1>2, <1>3, <1>4
=============================================================================
