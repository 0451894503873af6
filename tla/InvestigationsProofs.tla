------------------------- MODULE InvestigationsProofs -------------------------
(* The properties of the business tables and the audit log, for every number *)
(* of references, commands, specifications and imports.                      *)
EXTENDS Investigations, InvestigationCommandsProofs, FiniteSetTheorems, TLAPS

-----------------------------------------------------------------------------
(* Types *)

\* The facts a metric counts are as many as the orders or reviews they are
\* about, so the counts of a window are numbers.
LEMMA FactsAreFinite ==
    ASSUME NEW spec \in Specs, NEW data \in Imports
    PROVE  IsFiniteSet(Facts(data, spec))
  <1>. DEFINE Eligibles == Eligible(data, spec)
              late == [o \in Eligibles |->
                         [row |-> o, at |-> o.placed, counted |-> o.delivery # "none",
                          bad |-> o.delivery = "late"]]
              cancelled == [o \in Eligibles |->
                              [row |-> o, at |-> o.placed, counted |-> TRUE,
                               bad |-> o.status = "canceled"]]
              Rated == { r \in data.reviews : \E o \in Eligibles : o.id = r.order }
              low == [r \in Rated |->
                        [row |-> r, at |-> r.written, counted |-> TRUE, bad |-> r.score <= 2]]
  <1>1. IsFiniteSet(Eligibles) /\ IsFiniteSet(Rated)
    <2>1. IsFiniteSet(data.orders) /\ IsFiniteSet(data.reviews)
      BY BacktestAssumption
    <2> QED
      BY <2>1, FS_Subset DEF Eligible
  <1>3. CASE spec.metric = "late_delivery_rate"
    <2>1. late \in Surjection(Eligibles, Facts(data, spec))
      BY <1>3 DEF Facts, Surjection
    <2> QED
      BY <1>1, <2>1, FS_Surjection
  <1>4. CASE spec.metric = "cancellation_rate"
    <2>1. cancelled \in Surjection(Eligibles, Facts(data, spec))
      BY <1>4 DEF Facts, Surjection
    <2> QED
      BY <1>1, <2>1, FS_Surjection
  <1>5. CASE spec.metric = "low_rating_rate"
    <2>1. low \in Surjection(Rated, Facts(data, spec))
      BY <1>5 DEF Facts, Surjection
    <2> QED
      BY <1>1, <2>1, FS_Surjection
  <1>6. spec.metric \in Metrics
    BY BacktestAssumption DEF Specification
  <1> QED
    BY <1>3, <1>4, <1>5, <1>6 DEF Metrics

\* What a backtest stores are results of windows.
LEMMA WindowResultsType ==
    ASSUME NEW spec \in Specs, NEW data \in Imports
    PROVE  WindowResults(data, spec) \subseteq WindowResult
  <1>. SUFFICES ASSUME NEW w \in spec.from .. spec.to - 1
                PROVE  Result(Observation(data, spec, w), spec) \in WindowResult
    BY DEF WindowResults, Observations
  <1>. DEFINE bad == { f \in FactsOf(data, spec, w) : f.bad }
              counted == { f \in FactsOf(data, spec, w) : f.counted }
  <1>1. Cardinality(bad) \in Nat /\ Cardinality(counted) \in Nat
    <2>1. bad \subseteq Facts(data, spec) /\ counted \subseteq Facts(data, spec)
      BY DEF FactsOf
    <2>2. IsFiniteSet(bad) /\ IsFiniteSet(counted)
      BY <2>1, FactsAreFinite, FS_Subset
    <2> QED
      BY <2>2, FS_CardinalityType
  <1>2. w \in Windows
    BY BacktestAssumption
  <1>3. IsHit(Observation(data, spec, w), spec) \in BOOLEAN
    BY DEF IsHit
  <1> QED
    BY <1>1, <1>2, <1>3 DEF Result, Observation, WindowResult

\* An execution happens where its guard holds, and only then.
LEMMA ExecutedStep ==
    ASSUME NEW ref \in Refs, NEW c \in Commands,
           \/ ExecuteOpenSellerRiskCase(ref, c)
           \/ ExecuteCreateInvestigationTask(ref, c)
           \/ ExecuteCreateInvestigationFromAlertHit(ref, c)
           \/ ExecuteCreateAndEnableMetricAlertRule(ref, c)
           \/ ExecuteAssignInvestigation(ref, c)
           \/ ExecuteTransitionInvestigation(ref, c)
           \/ ExecuteAddInvestigationConclusion(ref, c)
           \/ ExecuteCloseInvestigation(ref, c)
    PROVE  /\ c \in OperationCommand
           /\ CanApply(ref, c, db)
           /\ Execute(ref, c)
           /\ c.type = "create_and_enable_metric_alert_rule" => MatchesSnapshot(c)
  BY CommandsAssumption
     DEF CanApply, ExecuteOpenSellerRiskCase, ExecuteCreateInvestigationTask,
         ExecuteCreateInvestigationFromAlertHit, ExecuteCreateAndEnableMetricAlertRule,
         ExecuteAssignInvestigation, ExecuteTransitionInvestigation,
         ExecuteAddInvestigationConclusion, ExecuteCloseInvestigation

\* What a step is, for the proofs that treat the eight commands alike.
LEMMA NextCases ==
    ASSUME Next
    PROVE  \/ \E ref \in Refs, c \in Commands :
                 /\ c \in OperationCommand
                 /\ CanApply(ref, c, db)
                 /\ Execute(ref, c)
                 /\ c.type = "create_and_enable_metric_alert_rule" => MatchesSnapshot(c)
           \/ \E spec \in Specs, data \in Imports : StoreAlertBacktest(spec, data)
           \/ ResetScenario
  BY ExecutedStep DEF Next

\* The tables and the audit log keep their types.
THEOREM InvestigationTypes == Spec => []TypeOK
  <1>1. Init => TypeOK
    BY EmptyTablesType DEF Init, TypeOK
  <1>2. TypeOK /\ [Next]_vars => TypeOK'
    <2>. SUFFICES ASSUME TypeOK, [Next]_vars
                  PROVE  TypeOK'
      OBVIOUS
    <2>1. ASSUME NEW ref \in Refs, NEW c \in Commands, c \in OperationCommand,
                 CanApply(ref, c, db), Execute(ref, c)
          PROVE  TypeOK'
      <3>1. db' \in Tables
        BY <2>1, ApplyType DEF Execute, TypeOK
      <3>2. audit' \in [Refs -> {NoEvent} \cup { AuditEvent(r, k) : r \in Refs, k \in Commands }]
        BY <2>1 DEF Execute, TypeOK
      <3> QED
        BY <2>1, <3>1, <3>2 DEF Execute, TypeOK
    <2>2. ASSUME NEW spec \in Specs, NEW data \in Imports, StoreAlertBacktest(spec, data)
          PROVE  TypeOK'
      <3>. DEFINE b == BacktestRef(spec)
                  windows == WindowResults(data, spec)
      <3>1. b \in Backtests
        BY BacktestAssumption
      <3>2. [stored |-> TRUE, windows |-> windows] \in BacktestResult
        BY WindowResultsType DEF BacktestResult
      <3>3. db' = [db EXCEPT !.backtests[b] = [stored |-> TRUE, windows |-> windows]]
        BY <2>2 DEF StoreAlertBacktest, StoreBacktestEffect
      <3>. HIDE DEF b, windows
      <3>4. [db.backtests EXCEPT ![b] = [stored |-> TRUE, windows |-> windows]]
              \in [Backtests -> BacktestResult]
        BY <3>1, <3>2 DEF TypeOK, Tables
      <3>5. db \in Tables
        BY DEF TypeOK
      <3>6. db' \in Tables
        BY <3>3, <3>4, <3>5 DEF Tables
      <3> QED
        BY <2>2, <3>6 DEF StoreAlertBacktest, TypeOK
    <2>3. CASE ResetScenario
      BY <2>3, EmptyTablesType DEF ResetScenario, TypeOK
    <2>4. CASE UNCHANGED vars
      BY <2>4 DEF vars, TypeOK
    <2> QED
      BY <2>1, <2>2, <2>3, <2>4, NextCases
  <1> QED
    BY <1>1, <1>2, PTL DEF Spec

-----------------------------------------------------------------------------
(* Lifecycle and risks *)

\* What a step does to the tables, in the terms of the lemmas above.
Executed(ref, c) ==
    /\ c \in OperationCommand
    /\ CanApply(ref, c, db)
    /\ Execute(ref, c)
    /\ c.type = "create_and_enable_metric_alert_rule" => MatchesSnapshot(c)

LEMMA CommandStep ==
    ASSUME TypeOK, NEW ref \in Refs, NEW c \in Commands, Executed(ref, c)
    PROVE  TasksMove(ref, c, db, db') /\ RisksMove(ref, c, db, db') /\ RowsMove(ref, c, db, db')
  <1>1. /\ c \in OperationCommand /\ db \in Tables
        /\ CanApply(ref, c, db) /\ db' = Apply(ref, c, db)
    BY DEF Executed, Execute, TypeOK
  <1> QED
    BY <1>1, TaskEffect, RiskEffect, RowEffect

\* A backtest leaves everything alone but the stored results.
LEMMA BacktestStep ==
    ASSUME TypeOK, NEW spec \in Specs, NEW data \in Imports, StoreAlertBacktest(spec, data)
    PROVE  /\ db'.tasks = db.tasks /\ db'.risks = db.risks
           /\ db'.conclusions = db.conclusions /\ db'.rules = db.rules
           /\ audit' = audit
  BY DEF StoreAlertBacktest, StoreBacktestEffect, TypeOK, Tables

\* A task that does not exist has had no version.
AbsentIsZero == \A t \in Refs : db.tasks[t].status = "absent" => db.tasks[t].version = 0

LEMMA AbsentTasks == Spec => []AbsentIsZero
  <1>1. Init => AbsentIsZero
    BY DEF Init, EmptyTables, NoTask, AbsentIsZero
  <1>2. TypeOK /\ TypeOK' /\ AbsentIsZero /\ [Next]_vars => AbsentIsZero'
    <2>. SUFFICES ASSUME TypeOK, AbsentIsZero, [Next]_vars
                  PROVE  AbsentIsZero'
      OBVIOUS
    <2>1. ASSUME NEW ref \in Refs, NEW c \in Commands, Executed(ref, c)
          PROVE  AbsentIsZero'
      <3>. SUFFICES ASSUME NEW t \in Refs, db'.tasks[t].status = "absent"
                    PROVE  db'.tasks[t] = db.tasks[t]
        BY DEF AbsentIsZero
      <3>1. TasksMove(ref, c, db, db') /\ db.tasks \in [Refs -> Task] /\ CanApply(ref, c, db)
        BY <2>1, CommandStep DEF Executed, TypeOK, Tables
      <3>2. CASE c.type \in NewTaskTypes
        BY <3>1, <3>2 DEF TasksMove, NewTask
      <3>3. CASE c.type \notin NewTargetTypes
        BY <3>1, <3>3 DEF TasksMove, NewTargetTypes, CanApply, AllowedTransitions
      <3>4. CASE c.type = "create_and_enable_metric_alert_rule"
        BY <3>1, <3>4 DEF TasksMove
      <3> QED
        BY <3>2, <3>3, <3>4 DEF NewTaskTypes
    <2>2. ASSUME NEW spec \in Specs, NEW data \in Imports, StoreAlertBacktest(spec, data)
          PROVE  AbsentIsZero'
      BY <2>2, BacktestStep DEF AbsentIsZero
    <2>3. CASE ResetScenario
      BY <2>3 DEF ResetScenario, EmptyTables, NoTask, AbsentIsZero
    <2>4. CASE UNCHANGED vars
      BY <2>4 DEF vars, AbsentIsZero
    <2> QED
      BY <2>1, <2>2, <2>3, <2>4, NextCases DEF Executed
  <1> QED
    BY <1>1, <1>2, InvestigationTypes, PTL DEF Spec

\* Versions move by one and the status along the lifecycle: a closed
\* investigation is never reopened.
THEOREM TaskLifecycleAlways == Spec => TaskLifecycle
  <1>1. TypeOK /\ AbsentIsZero /\ [Next]_vars => [LifecycleStep]_vars
    <2>. SUFFICES ASSUME TypeOK, AbsentIsZero, Next
                  PROVE  LifecycleStep
      OBVIOUS
    <2>1. ASSUME NEW ref \in Refs, NEW c \in Commands, Executed(ref, c)
          PROVE  LifecycleStep
      <3>. SUFFICES ASSUME NEW t \in Refs, db'.tasks[t] # db.tasks[t]
                    PROVE  /\ db'.tasks[t].version = db.tasks[t].version + 1
                           /\ \/ db'.tasks[t].status = db.tasks[t].status
                              \/ <<db.tasks[t].status, db'.tasks[t].status>> \in
                                   AllowedTransitions \cup {<<"absent", "open">>, <<"resolved", "closed">>}
        BY DEF LifecycleStep
      <3>1. TasksMove(ref, c, db, db') /\ db.tasks \in [Refs -> Task] /\ CanApply(ref, c, db)
        BY <2>1, CommandStep DEF Executed, TypeOK, Tables
      <3>2. CASE c.type \in NewTaskTypes
        <4>1. t = ref /\ db.tasks[t].status = "absent" /\ db'.tasks[t] = NewTask
          BY <3>1, <3>2 DEF TasksMove
        <4>2. db.tasks[t].version = 0
          BY <4>1 DEF AbsentIsZero
        <4> QED
          BY <4>1, <4>2 DEF NewTask
      <3>3. CASE c.type \notin NewTargetTypes
        BY <3>1, <3>3 DEF TasksMove, NewTargetTypes, CanApply
      <3>4. CASE c.type = "create_and_enable_metric_alert_rule"
        BY <3>1, <3>4 DEF TasksMove
      <3> QED
        BY <3>2, <3>3, <3>4 DEF NewTaskTypes
    <2>2. ASSUME NEW spec \in Specs, NEW data \in Imports, StoreAlertBacktest(spec, data)
          PROVE  LifecycleStep
      BY <2>2, BacktestStep DEF LifecycleStep
    <2>3. CASE ResetScenario
      BY <2>3 DEF ResetScenario, LifecycleStep
    <2> QED
      BY <2>1, <2>2, <2>3, NextCases DEF Executed
  <1> QED
    BY <1>1, InvestigationTypes, AbsentTasks, PTL DEF Spec, TaskLifecycle

\* A risk annotation is under investigation exactly as long as its task.
THEOREM RiskFollowsTaskAlways == Spec => []RiskFollowsTask
  <1>1. Init => RiskFollowsTask
    BY DEF Init, EmptyTables, NoRisk, RiskFollowsTask
  <1>2. TypeOK /\ RiskFollowsTask /\ [Next]_vars => RiskFollowsTask'
    <2>. SUFFICES ASSUME TypeOK, RiskFollowsTask, [Next]_vars
                  PROVE  RiskFollowsTask'
      OBVIOUS
    <2>1. ASSUME NEW ref \in Refs, NEW c \in Commands, Executed(ref, c)
          PROVE  RiskFollowsTask'
      <3>. DEFINE Follows(d, t) ==
             d.risks[t].status # "absent" =>
               /\ d.tasks[t].status # "absent"
               /\ (d.tasks[t].status = "closed") <=> (d.risks[t].status \in RiskDisposition)
               /\ d.risks[t].version = IF d.tasks[t].status = "closed" THEN 2 ELSE 1
      <3>. SUFFICES ASSUME NEW t \in Refs
                    PROVE  Follows(db', t)
        BY DEF RiskFollowsTask
      <3>1. /\ TasksMove(ref, c, db, db') /\ RisksMove(ref, c, db, db')
            /\ db.tasks \in [Refs -> Task] /\ db.risks \in [Refs -> Risk]
            /\ CanApply(ref, c, db) /\ Follows(db, t)
        BY <2>1, CommandStep DEF Executed, TypeOK, Tables, RiskFollowsTask
      <3>2. CASE c.type \in NewTaskTypes
        <4>1. CASE t = ref
          BY <3>1, <3>2, <4>1 DEF TasksMove, RisksMove, NewTask, NewTaskTypes, NewTargetTypes,
                                  RiskDisposition
        <4>2. CASE t # ref
          BY <3>1, <3>2, <4>2 DEF TasksMove, RisksMove, NewTaskTypes, NewTargetTypes
        <4> QED
          BY <4>1, <4>2
      <3>3. CASE c.type = "create_and_enable_metric_alert_rule"
        BY <3>1, <3>3 DEF TasksMove, RisksMove
      <3>4. CASE c.type \in {"assign_investigation", "add_investigation_conclusion",
                             "transition_investigation"}
        <4>1. db'.risks = db.risks
          BY <3>1, <3>4 DEF RisksMove
        <4>2. \/ db'.tasks[t].status = db.tasks[t].status
              \/ <<db.tasks[t].status, db'.tasks[t].status>> \in AllowedTransitions
          BY <3>1, <3>4 DEF TasksMove, NewTargetTypes
        <4> QED
          BY <3>1, <4>1, <4>2 DEF AllowedTransitions
      <3>5. CASE c.type = "close_investigation"
        <4>1. CASE t # c.task
          <5>1. db'.tasks[t] = db.tasks[t] /\ db'.risks[t] = db.risks[t]
            BY <3>1, <3>5, <4>1 DEF TasksMove, RisksMove, NewTargetTypes
          <5> QED
            BY <3>1, <5>1
        <4>2. CASE t = c.task
          <5>1. db.tasks[t].status = "resolved" /\ db'.tasks[t].status = "closed"
            BY <3>1, <3>5, <4>2 DEF TasksMove
          <5>2. CASE db.risks[t].status = "absent"
            BY <3>1, <3>5, <4>2, <5>2 DEF RisksMove
          <5>3. CASE db.risks[t].status # "absent"
            BY <3>1, <3>5, <4>2, <5>1, <5>3 DEF RisksMove
          <5> QED
            BY <5>2, <5>3
        <4> QED
          BY <4>1, <4>2
      <3> QED
        BY <3>1, <3>2, <3>3, <3>4, <3>5 DEF CanApply, NewTaskTypes, NewTargetTypes
    <2>2. ASSUME NEW spec \in Specs, NEW data \in Imports, StoreAlertBacktest(spec, data)
          PROVE  RiskFollowsTask'
      BY <2>2, BacktestStep DEF RiskFollowsTask
    <2>3. CASE ResetScenario
      BY <2>3 DEF ResetScenario, EmptyTables, NoRisk, RiskFollowsTask
    <2>4. CASE UNCHANGED vars
      BY <2>4 DEF vars, RiskFollowsTask
    <2> QED
      BY <2>1, <2>2, <2>3, <2>4, NextCases DEF Executed
  <1> QED
    BY <1>1, <1>2, InvestigationTypes, PTL DEF Spec

\* The strengthening of ClosedOnConclusion: a conclusion was recorded at a
\* version its task has not fallen behind.
ConclusionsAreOld ==
    \A r \in Refs : db.conclusions[r].task # NoRef =>
        db.conclusions[r].version <= db.tasks[db.conclusions[r].task].version

\* An investigation is closed on an earlier conclusion of its own.
THEOREM ClosedOnConclusionAlways == Spec => []ClosedOnConclusion
  <1>. DEFINE Inv == ClosedOnConclusion /\ ConclusionsAreOld
  <1>1. Init => Inv
    BY DEF Init, EmptyTables, NoTask, NoConclusion, ClosedOnConclusion, ConclusionsAreOld
  <1>2. TypeOK /\ Inv /\ [Next]_vars => Inv'
    <2>. SUFFICES ASSUME TypeOK, Inv, [Next]_vars
                  PROVE  Inv'
      OBVIOUS
    <2>1. ASSUME NEW ref \in Refs, NEW c \in Commands, Executed(ref, c)
          PROVE  Inv'
      <3>1. /\ TasksMove(ref, c, db, db') /\ RowsMove(ref, c, db, db')
            /\ db.tasks \in [Refs -> Task] /\ db.conclusions \in [Refs -> Conclusion]
            /\ CanApply(ref, c, db)
        BY <2>1, CommandStep DEF Executed, TypeOK, Tables
      <3>2. CASE c.type \in NewTaskTypes
        <4>1. /\ db'.conclusions = db.conclusions
              /\ db'.tasks = [db.tasks EXCEPT ![ref] = NewTask]
              /\ db.tasks[ref].status = "absent"
          BY <3>1, <3>2 DEF TasksMove, RowsMove, NewTaskTypes, NewTargetTypes
        <4>2. \A r \in Refs : db.conclusions[r].task # ref
          BY <4>1, NoRefAssumption DEF ClosedOnConclusion
        <4>3. \A r \in Refs : db.conclusions[r].task # NoRef =>
                 db'.tasks[db.conclusions[r].task] = db.tasks[db.conclusions[r].task]
          BY <3>1, <4>1, <4>2 DEF Conclusion
        <4>4. \A t \in Refs : db'.tasks[t].status = "closed" => db'.tasks[t] = db.tasks[t]
          BY <3>1, <4>1 DEF NewTask
        <4> QED
          BY <4>1, <4>3, <4>4 DEF ClosedOnConclusion, ConclusionsAreOld
      <3>3. CASE c.type = "create_and_enable_metric_alert_rule"
        BY <3>1, <3>3 DEF TasksMove, RowsMove, ClosedOnConclusion, ConclusionsAreOld
      <3>4. CASE c.type = "assign_investigation"
        <4>1. /\ db'.conclusions = db.conclusions /\ c.task \in Refs /\ c.version \in Nat
              /\ \A t \in Refs : /\ db'.tasks[t].status = db.tasks[t].status
                                 /\ \/ db'.tasks[t] = db.tasks[t]
                                    \/ /\ db'.tasks[t].version = c.version + 1
                                       /\ db.tasks[t].version = c.version
          BY <3>1, <3>4 DEF TasksMove, RowsMove, NewTargetTypes
        <4> QED
          BY <3>1, <4>1 DEF ClosedOnConclusion, ConclusionsAreOld, Conclusion, Task
      <3>5. CASE c.type = "transition_investigation"
        <4>1. /\ db'.conclusions = db.conclusions /\ c.task \in Refs
              /\ \A t \in Refs \ {c.task} : db'.tasks[t] = db.tasks[t]
              /\ <<db.tasks[c.task].status, db'.tasks[c.task].status>> \in AllowedTransitions
          BY <3>1, <3>5 DEF TasksMove, RowsMove, NewTargetTypes
        <4>2. \A r \in Refs : db.conclusions[r].task # c.task
          BY <4>1, NoRefAssumption DEF ClosedOnConclusion, AllowedTransitions
        <4>3. \A r \in Refs : db.conclusions[r].task # NoRef =>
                 db'.tasks[db.conclusions[r].task] = db.tasks[db.conclusions[r].task]
          BY <3>1, <4>1, <4>2 DEF Conclusion
        <4>4. \A t \in Refs : db'.tasks[t].status = "closed" => db'.tasks[t] = db.tasks[t]
          BY <4>1 DEF AllowedTransitions
        <4> QED
          BY <4>1, <4>3, <4>4 DEF ClosedOnConclusion, ConclusionsAreOld
      <3>6. CASE c.type = "add_investigation_conclusion"
        <4>1. /\ c.task \in Refs /\ c.version \in Nat
              /\ db.tasks[c.task].status = "resolved" /\ db.conclusions[ref].task = NoRef
              /\ db'.conclusions = [db.conclusions EXCEPT ![ref] =
                                      [task |-> c.task, version |-> c.version + 1]]
              /\ db'.tasks[c.task].version = c.version + 1
              /\ db.tasks[c.task].version = c.version
              /\ \A t \in Refs : /\ db'.tasks[t].status = db.tasks[t].status
                                 /\ t # c.task => db'.tasks[t] = db.tasks[t]
          BY <3>1, <3>6 DEF TasksMove, RowsMove, NewTargetTypes
        <4>2. \A t \in Refs : db'.tasks[t].version >= db.tasks[t].version
          BY <3>1, <4>1 DEF Task
        <4>3. /\ \A r \in Refs \ {ref} : db'.conclusions[r] = db.conclusions[r]
              /\ db'.conclusions[ref].task = c.task /\ db'.conclusions[ref].version = c.version + 1
          BY <3>1, <4>1
        <4>4. ASSUME NEW t \in Refs, db'.tasks[t].status = "closed"
              PROVE  \E r \in Refs : /\ db'.conclusions[r].task = t
                                     /\ db'.conclusions[r].version < db'.tasks[t].version
          <5>1. t # c.task /\ db.tasks[t].status = "closed" /\ db'.tasks[t] = db.tasks[t]
            BY <4>1, <4>4
          <5>2. PICK r \in Refs : /\ db.conclusions[r].task = t
                                  /\ db.conclusions[r].version < db.tasks[t].version
            BY <5>1 DEF ClosedOnConclusion
          <5> QED
            BY <4>1, <4>3, <5>1, <5>2, NoRefAssumption
        <4>5. ASSUME NEW r \in Refs, db'.conclusions[r].task # NoRef
              PROVE  /\ db'.tasks[db'.conclusions[r].task].status \in {"resolved", "closed"}
                     /\ db'.conclusions[r].version <= db'.tasks[db'.conclusions[r].task].version
          <5>1. CASE r = ref
            BY <4>1, <4>3, <5>1
          <5>2. CASE r # ref
            <6>1. db'.conclusions[r] = db.conclusions[r] /\ db.conclusions[r].task \in Refs
                  /\ db.conclusions[r].version \in Nat
              BY <3>1, <4>3, <4>5, <5>2 DEF Conclusion
            <6> QED
              BY <3>1, <4>1, <4>2, <4>5, <6>1 DEF ClosedOnConclusion, ConclusionsAreOld, Task
          <5> QED
            BY <5>1, <5>2
        <4> QED
          BY <4>4, <4>5 DEF ClosedOnConclusion, ConclusionsAreOld
      <3>7. CASE c.type = "close_investigation"
        <4>1. /\ c.task \in Refs /\ c.version \in Nat
              /\ db'.conclusions = db.conclusions
              /\ db'.tasks[c.task].status = "closed"
              /\ db'.tasks[c.task].version = c.version + 1
              /\ db.tasks[c.task].version = c.version
              /\ \A t \in Refs \ {c.task} : db'.tasks[t] = db.tasks[t]
          BY <3>1, <3>7 DEF TasksMove, RowsMove, NewTargetTypes
        <4>2. /\ c.conclusion \in Refs
              /\ db.conclusions[c.conclusion].task = c.task
              /\ db.conclusions[c.conclusion].version <= c.version
              /\ db.conclusions[c.conclusion].version \in Nat
          <5>1. c.conclusion \in Refs /\ db.conclusions[c.conclusion].task = c.task
            BY <2>1, <3>1, <3>7, CommandKinds DEF Executed, CanApply, CanClose
          <5> QED
            BY <3>1, <4>1, <5>1, NoRefAssumption DEF ConclusionsAreOld, Conclusion
        <4>3. ASSUME NEW t \in Refs, db'.tasks[t].status = "closed"
              PROVE  \E r \in Refs : /\ db'.conclusions[r].task = t
                                     /\ db'.conclusions[r].version < db'.tasks[t].version
          <5>1. CASE t = c.task
            BY <4>1, <4>2, <5>1
          <5>2. CASE t # c.task
            BY <4>1, <4>3, <5>2 DEF ClosedOnConclusion
          <5> QED
            BY <5>1, <5>2
        <4>4. ASSUME NEW r \in Refs, db'.conclusions[r].task # NoRef
              PROVE  /\ db'.tasks[db'.conclusions[r].task].status \in {"resolved", "closed"}
                     /\ db'.conclusions[r].version <= db'.tasks[db'.conclusions[r].task].version
          <5>1. /\ db'.conclusions[r] = db.conclusions[r] /\ db.conclusions[r].task \in Refs
                /\ db.conclusions[r].version \in Nat
            BY <3>1, <4>1, <4>4 DEF Conclusion
          <5> QED
            BY <4>1, <4>4, <5>1 DEF ClosedOnConclusion, ConclusionsAreOld
        <4> QED
          BY <4>3, <4>4 DEF ClosedOnConclusion, ConclusionsAreOld
      <3> QED
        BY <3>1, <3>2, <3>3, <3>4, <3>5, <3>6, <3>7 DEF CanApply, NewTaskTypes, NewTargetTypes
    <2>2. ASSUME NEW spec \in Specs, NEW data \in Imports, StoreAlertBacktest(spec, data)
          PROVE  Inv'
      BY <2>2, BacktestStep DEF ClosedOnConclusion, ConclusionsAreOld
    <2>3. CASE ResetScenario
      BY <2>3 DEF ResetScenario, EmptyTables, NoTask, NoConclusion, ClosedOnConclusion, ConclusionsAreOld
    <2>4. CASE UNCHANGED vars
      BY <2>4 DEF vars, ClosedOnConclusion, ConclusionsAreOld
    <2> QED
      BY <2>1, <2>2, <2>3, <2>4, NextCases DEF Executed
  <1> QED
    BY <1>1, <1>2, InvestigationTypes, PTL DEF Spec

-----------------------------------------------------------------------------
(* The audit log *)

\* An execution adds one event that differs from the absence of one.
LEMMA EventAdded ==
    ASSUME TypeOK, NEW ref \in Refs, NEW c \in Commands, Executed(ref, c)
    PROVE  /\ audit[ref] = NoEvent
           /\ audit'[ref] # NoEvent
           /\ audit'[ref].command = c /\ audit'[ref].target = Target(ref, c)
           /\ audit'[ref].after = PreviewVersion(c) + 1
           /\ \A r \in Refs \ {ref} : audit'[r] = audit[r]
  <1>1. /\ audit[ref] = NoEvent
        /\ audit' = [audit EXCEPT ![ref] = AuditEvent(ref, c)]
        /\ audit'[ref] = AuditEvent(ref, c)
    BY DEF Executed, Execute, TypeOK
  <1>2. PreviewVersion(c) \in Nat
    BY CommandKinds DEF Executed, PreviewVersion
  <1>3. AuditEvent(ref, c).after # NoEvent.after
    BY <1>2 DEF AuditEvent, NoEvent
  <1> QED
    BY <1>1, <1>3 DEF AuditEvent, TypeOK

\* No update is lost: events and versions of a task correspond one to one.
THEOREM AuditIsVersionHistoryAlways == Spec => []AuditIsVersionHistory
  <1>1. Init => AuditIsVersionHistory
    BY DEF Init, EmptyTables, NoTask, OnTask, AuditIsVersionHistory
  <1>2. TypeOK /\ AbsentIsZero /\ AuditIsVersionHistory /\ [Next]_vars => AuditIsVersionHistory'
    <2>. SUFFICES ASSUME TypeOK, AbsentIsZero, AuditIsVersionHistory, [Next]_vars
                  PROVE  AuditIsVersionHistory'
      OBVIOUS
    <2>1. ASSUME NEW ref \in Refs, NEW c \in Commands, Executed(ref, c)
          PROVE  AuditIsVersionHistory'
      <3>. DEFINE target == Target(ref, c)
                  old == db.tasks[target].version
      <3>1. /\ TasksMove(ref, c, db, db') /\ db.tasks \in [Refs -> Task] /\ CanApply(ref, c, db)
        BY <2>1, CommandStep DEF Executed, TypeOK, Tables
      <3>2. \A r \in Refs \ {ref} : (OnTask(r)' <=> OnTask(r)) /\ audit'[r] = audit[r]
        BY <2>1, EventAdded DEF OnTask
      <3>3. ~OnTask(ref)
        BY <2>1, EventAdded DEF OnTask
      <3>4. CASE c.type = "create_and_enable_metric_alert_rule"
        <4>1. ~OnTask(ref)' /\ db'.tasks = db.tasks
          BY <2>1, <3>1, <3>4, EventAdded DEF OnTask, TasksMove
        <4> QED
          BY <3>2, <3>3, <4>1 DEF AuditIsVersionHistory
      <3>5. CASE c.type # "create_and_enable_metric_alert_rule"
        <4>1. /\ OnTask(ref)' /\ audit'[ref].target = target /\ target \in Refs
              /\ old \in Nat /\ audit'[ref].after = old + 1
              /\ db'.tasks[target].version = old + 1
              /\ \A t \in Refs \ {target} : db'.tasks[t] = db.tasks[t]
          <5>1. OnTask(ref)' /\ audit'[ref].target = target
                /\ audit'[ref].after = PreviewVersion(c) + 1
            BY <2>1, <3>5, EventAdded DEF OnTask
          <5>2. CASE c.type \in NewTaskTypes
            <6>1. target = ref /\ PreviewVersion(c) = 0
              BY <5>2 DEF Target, PreviewVersion, NewTaskTypes
            <6>2. old = 0 /\ db'.tasks = [db.tasks EXCEPT ![ref] = NewTask]
              BY <3>1, <5>2, <6>1 DEF TasksMove, AbsentIsZero
            <6>3. db'.tasks[ref].version = 1
              BY <3>1, <6>2 DEF NewTask
            <6>4. \A t \in Refs \ {ref} : db'.tasks[t] = db.tasks[t]
              BY <3>1, <6>2
            <6> QED
              BY <5>1, <6>1, <6>2, <6>3, <6>4
          <5>3. CASE c.type \notin NewTargetTypes
            BY <3>1, <5>1, <5>3 DEF TasksMove, Target, PreviewVersion
          <5> QED
            BY <3>5, <5>2, <5>3 DEF NewTaskTypes
        <4>. HIDE DEF target, old
        <4>. SUFFICES ASSUME NEW t \in Refs
                      PROVE  /\ \A r \in Refs : OnTask(r)' /\ audit'[r].target = t
                                   => audit'[r].after \in 1 .. db'.tasks[t].version
                             /\ \A r, s \in Refs :
                                  OnTask(r)' /\ OnTask(s)' /\ audit'[r].target = t
                                    /\ audit'[s].target = t
                                    /\ audit'[r].after = audit'[s].after => r = s
                             /\ \A v \in 1 .. db'.tasks[t].version :
                                  \E r \in Refs : OnTask(r)' /\ audit'[r].target = t
                                                  /\ audit'[r].after = v
          BY DEF AuditIsVersionHistory
        <4>2. CASE t # target
          <5>1. db'.tasks[t] = db.tasks[t]
            BY <4>1, <4>2
          <5> QED
            BY <3>2, <3>3, <4>1, <4>2, <5>1 DEF AuditIsVersionHistory
        <4>3. CASE t = target
          <5>1. db'.tasks[t].version = old + 1 /\ db.tasks[t].version = old /\ old \in Nat
            BY <4>1, <4>3 DEF old
          <5>2. ASSUME NEW r \in Refs, OnTask(r)', audit'[r].target = t, r # ref
                PROVE  audit'[r].after \in 1 .. old
            BY <3>2, <5>1, <5>2 DEF AuditIsVersionHistory
          <5>3. ASSUME NEW r \in Refs, OnTask(r)', audit'[r].target = t
                PROVE  audit'[r].after \in 1 .. db'.tasks[t].version
            BY <4>1, <5>1, <5>2, <5>3
          <5>4. ASSUME NEW r \in Refs, NEW s \in Refs, OnTask(r)', OnTask(s)',
                       audit'[r].target = t, audit'[s].target = t,
                       audit'[r].after = audit'[s].after
                PROVE  r = s
            <6>1. CASE r = ref \/ s = ref
              BY <4>1, <5>1, <5>2, <5>4, <6>1
            <6>2. CASE r # ref /\ s # ref
              BY <3>2, <5>4, <6>2 DEF AuditIsVersionHistory
            <6> QED
              BY <6>1, <6>2
          <5>5. ASSUME NEW v \in 1 .. db'.tasks[t].version
                PROVE  \E r \in Refs : OnTask(r)' /\ audit'[r].target = t /\ audit'[r].after = v
            <6>1. CASE v = old + 1
              BY <4>1, <4>3, <6>1
            <6>2. CASE v # old + 1
              <7>1. v \in 1 .. db.tasks[t].version
                BY <5>1, <6>2
              <7>2. PICK r \in Refs : OnTask(r) /\ audit[r].target = t /\ audit[r].after = v
                BY <7>1 DEF AuditIsVersionHistory
              <7> QED
                BY <3>2, <3>3, <7>2
            <6> QED
              BY <6>1, <6>2
          <5> QED
            BY <5>3, <5>4, <5>5
        <4> QED
          BY <4>2, <4>3
      <3> QED
        BY <3>4, <3>5
    <2>2. ASSUME NEW spec \in Specs, NEW data \in Imports, StoreAlertBacktest(spec, data)
          PROVE  AuditIsVersionHistory'
      BY <2>2, BacktestStep DEF AuditIsVersionHistory, OnTask
    <2>3. CASE ResetScenario
      BY <2>3 DEF ResetScenario, EmptyTables, NoTask, OnTask, AuditIsVersionHistory
    <2>4. CASE UNCHANGED vars
      BY <2>4 DEF vars, OnTask, AuditIsVersionHistory
    <2> QED
      BY <2>1, <2>2, <2>3, <2>4, NextCases DEF Executed
  <1> QED
    BY <1>1, <1>2, InvestigationTypes, AbsentTasks, PTL DEF Spec

-----------------------------------------------------------------------------
(* Rules and their backtests *)

\* The strengthening of RulesBackedByBacktest.  A snapshot's result is stored
\* and its hits are those of the specification that was snapshotted; a rule
\* still has the backtest of the specification it was proposed with.
SnapshotsAreStored ==
    \A spec \in snapshots :
        LET result == db.backtests[BacktestRef(spec)] IN
        result.stored /\ \A w \in result.windows : w.hit <=> IsHit(w, spec)

RulesKeepTheirSpec ==
    \A r \in Refs :
        audit[r] # NoEvent /\ audit[r].command.type = "create_and_enable_metric_alert_rule" =>
          audit[r].command.spec \in snapshots /\ db.rules[r] = BacktestRef(audit[r].command.spec)

HitsAreJustified ==
    \A r \in Refs :
        audit[r] # NoEvent /\ audit[r].command.type = "create_investigation_from_alert_hit" =>
          LET rule == db.rules[audit[r].command.rule] IN
          /\ audit[r].command.rule \in Refs
          /\ rule # NoRef
          /\ \E w \in db.backtests[rule].windows : w.start = audit[r].command.window /\ w.hit

RuleInv ==
    /\ \A r \in Refs : db.rules[r] # NoRef => db.backtests[db.rules[r]].stored
    /\ \A r, s \in Refs : db.rules[r] # NoRef /\ db.rules[r] = db.rules[s] => r = s
    /\ SnapshotsAreStored
    /\ RulesKeepTheirSpec
    /\ HitsAreJustified

\* Rules, snapshots and hits after a command: only a rule is added.
LEMMA RuleInvExecuted ==
    ASSUME TypeOK, RuleInv, NEW ref \in Refs, NEW c \in Commands, Executed(ref, c)
    PROVE  RuleInv'
  <1>1. /\ RowsMove(ref, c, db, db') /\ CanApply(ref, c, db)
        /\ db'.backtests = db.backtests /\ snapshots' = snapshots
        /\ db.rules \in [Refs -> Backtests \cup {NoRef}]
        /\ \A r \in Refs \ {ref} : audit'[r] = audit[r]
        /\ audit'[ref].command = c
    <2>1. RowsMove(ref, c, db, db') /\ CanApply(ref, c, db) /\ snapshots' = snapshots
      BY CommandStep DEF Executed, Execute
    <2>2. db'.backtests = db.backtests
      BY <2>1 DEF RowsMove
    <2>3. db.rules \in [Refs -> Backtests \cup {NoRef}]
      BY DEF TypeOK, Tables
    <2> QED
      BY <2>1, <2>2, <2>3, EventAdded
  <1>2. \A r \in Refs : db.rules[r] # NoRef => db'.rules[r] = db.rules[r]
    BY <1>1 DEF RowsMove, CanApply, CanCreateAlertRule
  <1>3. CASE c.type = "create_and_enable_metric_alert_rule"
    <2>1. /\ db'.rules = [db.rules EXCEPT ![ref] = c.backtest]
          /\ db.backtests[c.backtest].stored
          /\ \A r \in Refs : db.rules[r] # c.backtest
          /\ c.spec \in snapshots /\ c.backtest = BacktestRef(c.spec)
      BY <1>1, <1>3 DEF RowsMove, CanApply, CanCreateAlertRule, Executed, MatchesSnapshot
    <2>2. /\ \A r \in Refs : db'.rules[r] # NoRef => db'.backtests[db'.rules[r]].stored
          /\ \A r, s \in Refs : db'.rules[r] # NoRef /\ db'.rules[r] = db'.rules[s] => r = s
      BY <1>1, <2>1 DEF RuleInv
    <2>3. RulesKeepTheirSpec'
      BY <1>1, <2>1 DEF RuleInv, RulesKeepTheirSpec
    <2>4. HitsAreJustified'
      BY <1>1, <1>2, <1>3 DEF RuleInv, HitsAreJustified
    <2> QED
      BY <1>1, <2>2, <2>3, <2>4 DEF RuleInv, SnapshotsAreStored
  <1>4. CASE c.type # "create_and_enable_metric_alert_rule"
    <2>1. db'.rules = db.rules
      BY <1>1, <1>4 DEF RowsMove
    <2>2. RulesKeepTheirSpec'
      BY <1>1, <1>4, <2>1 DEF RuleInv, RulesKeepTheirSpec
    <2>3. HitsAreJustified'
      <3>. SUFFICES ASSUME NEW r \in Refs, audit'[r] # NoEvent,
                           audit'[r].command.type = "create_investigation_from_alert_hit"
                    PROVE  LET rule == db.rules[audit'[r].command.rule] IN
                           /\ audit'[r].command.rule \in Refs
                           /\ rule # NoRef
                           /\ \E w \in db.backtests[rule].windows :
                                 w.start = audit'[r].command.window /\ w.hit
        BY <1>1, <2>1 DEF HitsAreJustified
      <3>1. CASE r = ref
        <4>1. c.rule \in Refs
          BY <1>1, <3>1, CommandKinds DEF Executed
        <4>2. CanCreateFromAlertHit(ref, c, db)
          BY <1>1, <3>1 DEF CanApply
        <4> QED
          BY <1>1, <3>1, <4>1, <4>2 DEF CanCreateFromAlertHit
      <3>2. CASE r # ref
        BY <1>1, <3>2 DEF RuleInv, HitsAreJustified
      <3> QED
        BY <3>1, <3>2
    <2> QED
      BY <1>1, <2>1, <2>2, <2>3 DEF RuleInv, SnapshotsAreStored
  <1> QED
    BY <1>3, <1>4

\* A result is stored under its specification's reference, and a reference
\* that has one keeps it.
LEMMA RuleInvStored ==
    ASSUME TypeOK, RuleInv, NEW spec \in Specs, NEW data \in Imports,
           StoreAlertBacktest(spec, data)
    PROVE  RuleInv'
  <1>. DEFINE b == BacktestRef(spec)
              windows == WindowResults(data, spec)
  <1>1. /\ b \in Backtests
        /\ CanStoreBacktest(b, windows, db)
        /\ db'.backtests = [db.backtests EXCEPT ![b] = [stored |-> TRUE, windows |-> windows]]
        /\ db.backtests \in [Backtests -> BacktestResult]
        /\ snapshots' = snapshots \cup {spec} /\ snapshots \subseteq Specs
        /\ db'.rules = db.rules /\ audit' = audit
        /\ db.rules \in [Refs -> Backtests \cup {NoRef}]
    <2>1. /\ CanStoreBacktest(b, windows, db)
          /\ db' = [db EXCEPT !.backtests[b] = [stored |-> TRUE, windows |-> windows]]
          /\ snapshots' = snapshots \cup {spec} /\ audit' = audit
      BY DEF StoreAlertBacktest, StoreBacktestEffect
    <2>2. b \in Backtests
      BY BacktestAssumption
    <2>. HIDE DEF b, windows
    <2>3. db \in Tables /\ snapshots \subseteq Specs
      BY DEF TypeOK
    <2>4. /\ db.backtests \in [Backtests -> BacktestResult]
          /\ db.rules \in [Refs -> Backtests \cup {NoRef}]
          /\ db'.backtests = [db.backtests EXCEPT ![b] = [stored |-> TRUE, windows |-> windows]]
          /\ db'.rules = db.rules
      BY <2>1, <2>3 DEF Tables
    <2> QED
      BY <2>1, <2>2, <2>3, <2>4
  <1>2. \A w \in windows : w.hit <=> IsHit(w, spec)
    <2>. SUFFICES ASSUME NEW o
                  PROVE  Result(o, spec).hit <=> IsHit(Result(o, spec), spec)
      BY DEF WindowResults
    <2>1. /\ Result(o, spec).numerator = o.numerator
          /\ Result(o, spec).denominator = o.denominator
          /\ Result(o, spec).hit = IsHit(o, spec)
      BY DEF Result
    <2>2. IsExcluded(Result(o, spec), spec) <=> IsExcluded(o, spec)
      BY <2>1 DEF IsExcluded
    <2>3. Exceeds(Result(o, spec), spec) <=> Exceeds(o, spec)
      BY <2>1 DEF Exceeds
    <2> QED
      BY <2>1, <2>2, <2>3 DEF IsHit
  <1>. HIDE DEF b, windows
  <1>3. /\ db'.backtests[b].stored /\ db'.backtests[b].windows = windows
        /\ \A k \in Backtests \ {b} : db'.backtests[k] = db.backtests[k]
        /\ \A k \in Backtests : db.backtests[k].stored =>
             db'.backtests[k].stored /\ db'.backtests[k].windows = db.backtests[k].windows
    BY <1>1 DEF CanStoreBacktest, BacktestResult
  <1>4. /\ \A r \in Refs : db'.rules[r] # NoRef => db'.backtests[db'.rules[r]].stored
        /\ \A r, s \in Refs : db'.rules[r] # NoRef /\ db'.rules[r] = db'.rules[s] => r = s
    BY <1>1, <1>3 DEF RuleInv
  <1>5. SnapshotsAreStored'
    <2>. SUFFICES ASSUME NEW k \in snapshots'
                  PROVE  /\ db'.backtests[BacktestRef(k)].stored
                         /\ \A w \in db'.backtests[BacktestRef(k)].windows : w.hit <=> IsHit(w, k)
      BY DEF SnapshotsAreStored
    <2>1. CASE k = spec
      BY <1>2, <1>3, <2>1 DEF b
    <2>2. CASE k \in snapshots
      <3>1. BacktestRef(k) \in Backtests
        BY <1>1, <2>2, BacktestAssumption
      <3> QED
        BY <1>3, <2>2, <3>1 DEF RuleInv, SnapshotsAreStored
    <2> QED
      BY <1>1, <2>1, <2>2
  <1>6. RulesKeepTheirSpec'
    BY <1>1 DEF RuleInv, RulesKeepTheirSpec
  <1>7. HitsAreJustified'
    <2>. SUFFICES ASSUME NEW r \in Refs, audit[r] # NoEvent,
                         audit[r].command.type = "create_investigation_from_alert_hit"
                  PROVE  LET rule == db.rules[audit[r].command.rule] IN
                         /\ audit[r].command.rule \in Refs
                         /\ rule # NoRef
                         /\ \E w \in db'.backtests[rule].windows :
                               w.start = audit[r].command.window /\ w.hit
      BY <1>1 DEF HitsAreJustified
    <2>1. /\ audit[r].command.rule \in Refs /\ db.rules[audit[r].command.rule] # NoRef
          /\ \E w \in db.backtests[db.rules[audit[r].command.rule]].windows :
                w.start = audit[r].command.window /\ w.hit
      BY DEF RuleInv, HitsAreJustified
    <2>2. /\ db.rules[audit[r].command.rule] \in Backtests
          /\ db.backtests[db.rules[audit[r].command.rule]].stored
      BY <1>1, <2>1 DEF RuleInv
    <2> QED
      BY <1>3, <2>1, <2>2
  <1> QED
    BY <1>4, <1>5, <1>6, <1>7 DEF RuleInv

\* An enabled rule keeps the backtest it was reviewed with, and so does what
\* was opened from its hits.
THEOREM RulesBackedByBacktestAlways == Spec => []RulesBackedByBacktest
  <1>1. Init => RuleInv
    BY DEF Init, EmptyTables, RuleInv, SnapshotsAreStored, RulesKeepTheirSpec, HitsAreJustified
  <1>2. TypeOK /\ RuleInv /\ [Next]_vars => RuleInv'
    <2>. SUFFICES ASSUME TypeOK, RuleInv, [Next]_vars
                  PROVE  RuleInv'
      OBVIOUS
    <2>1. CASE ResetScenario
      BY <2>1 DEF ResetScenario, EmptyTables, RuleInv, SnapshotsAreStored, RulesKeepTheirSpec,
                  HitsAreJustified
    <2>2. CASE UNCHANGED vars
      BY <2>2 DEF vars, RuleInv, SnapshotsAreStored, RulesKeepTheirSpec, HitsAreJustified
    <2> QED
      BY <2>1, <2>2, RuleInvExecuted, RuleInvStored, NextCases DEF Executed
  <1>3. RuleInv => RulesBackedByBacktest
    BY DEF RuleInv, SnapshotsAreStored, RulesKeepTheirSpec, HitsAreJustified, RulesBackedByBacktest
  <1> QED
    BY <1>1, <1>2, <1>3, InvestigationTypes, PTL DEF Spec
=============================================================================
