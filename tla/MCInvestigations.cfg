SPECIFICATION Spec
CONSTANTS
    r1 = r1
    r2 = r2
    r3 = r3
    r4 = r4
    r5 = r5
    r6 = r6
    a1 = a1
    NoRef = NoRef
    Refs = {r1, r2, r3, r4, r5, r6}
    Precision = 10
    DigestStep = 2
    Specs <- TwoSpecs
    Imports <- SmallImports
    Backtests <- OneBacktest
    Windows = {1, 2}
    Assignees = {a1}
    Commands <- MCCommands
INVARIANTS
    AuditIsVersionHistory
    ClosedOnConclusion
    RiskFollowsTask
    RulesBackedByBacktest
PROPERTY
    TaskLifecycle
