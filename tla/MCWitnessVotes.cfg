SPECIFICATION Spec

CONSTANTS
    a1 = a1
    a2 = a2
    a3 = a3
    a4 = a4
    w1 = w1
    w2 = w2
    Self = Self
    Account = {a1, a2, a3, a4}
    Witness = {w1, w2}
    Opening <- MCOpening
    Amounts = {1}
    MaxDepth = 2
    MaxVotes = 1
    StaleProxy = {"kept"}
    DeclineDelay = 1
    MaxTime = 1
    MaxShares = 5

SYMMETRY Symmetric
CHECK_DEADLOCK FALSE

INVARIANTS
    NoProxyLoop
    ProxiedMatch
    VotesMatch
    SharesMatch
