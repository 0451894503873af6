SPECIFICATION Spec
CONSTANTS
    p1 = p1
    p2 = p2
    p3 = p3
    s1 = s1
    s2 = s2
    n1 = n1
    n2 = n2
    n3 = n3
    ana = ana
    ben = ben
    cleo = cleo
    k1 = k1
    k2 = k2
    k3 = k3
    b1 = b1
    w1 = w1
    a1 = a1
    NoRef = NoRef
    Ids = {p1}
    MaxRevision = 1
    Refs <- MCRefs
    Backtests = {b1}
    Windows = {w1}
    Specs = {}
    Assignees = {a1}
    Analysts = {ana}
    Approvers = {ana, ben, cleo}
    Keys = {k1}
    Nonces = {n1, n2}
    Sessions = {s1, s2}
    Commands <- CreateOnly
    ProposalTTL = 2
    GrantTTL = 1
    MaxClock = 2
SYMMETRY Symm
INVARIANTS
    TypeOK
    ExactlyOnce
    SeparationOfDuties
    ExecutedInTime
    ReceiptsAgree
    GrantsAreUnique
PROPERTIES
    SettledIsFinal
