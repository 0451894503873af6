SPECIFICATION Spec
CONSTANTS
    p1 = p1
    p2 = p2
    p3 = p3
    s1 = s1
    s2 = s2
    n1 = n1
    n2 = n2
    n3 = n3
    ana = ana
    ben = ben
    cleo = cleo
    k1 = k1
    k2 = k2
    k3 = k3
    b1 = b1
    w1 = w1
    a1 = a1
    NoRef = NoRef
    Ids = {p1}
    MaxRevision = 2
    Refs <- MCRefs
    Backtests = {b1}
    Windows = {w1}
    Specs = {}
    Assignees = {a1}
    Analysts = {ana}
    Approvers = {ben}
    Keys = {k1, k2}
    Nonces = {n1}
    Sessions = {s1, s2}
    Commands <- TwoPayloads
    ProposalTTL = 1
    GrantTTL = 1
    MaxClock = 0
SYMMETRY Symm
INVARIANTS
    OneLiveVersion
    KeysNameOneProposal
PROPERTIES
    ImplementsLifecycle
