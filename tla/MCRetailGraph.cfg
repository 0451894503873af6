SPECIFICATION FairSpec
CONSTANTS
    MaxSequence = 5
    MaximumAttempts = 2
    IdleTTL = 0
    AbsoluteTTL = 2
    MaxClock = 1
    Setups <- Wirings
    q1 = q1
    s1 = s1
    s2 = s2
    s3 = s3
    s4 = s4
    s5 = s5
    k1 = k1
    c1 = c1
    c2 = c2
    InputTokenLimit = 5
    MinimumRecentGroups = 2
    BaseTokens = 1
    RepeatedTokens = 1
    Batches <- SmallBatches
    Trees <- SmallTrees
    DbAnswers <- SmallAnswers
    MaxRows = 2
    MaxBytes = 2
    MaxCost = 1
    Plans <- TwoSteps
    Keys = {k1}
    Commands = {c1, c2}
    NoCommand = NoCommand
    MaxModelCalls = 5
    MaxToolCalls = 5
    MaxRepairs = 1
    MaxRuns = 3
INVARIANTS
    TypeOK
    ReportCoversProposals
    EvidenceFollowsPlan
    EvidenceIsReleasable
    CountedCallsAreKept
    HistoryIsReplayable
    RequestIsWellTrimmed
PROPERTIES
    OutcomeIsFinal
    ImplementsAttempt
    RunsEnd
CHECK_DEADLOCK FALSE
