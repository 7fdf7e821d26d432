SPECIFICATION Spec
CONSTANTS
    t1 = t1
    t2 = t2
    t3 = t3
    left = left
    right = right
    Tx = {t1, t2, t3}
    expiration <- MCExpiration
    needs <- MCNeeds
    rivals <- MCRivals
    ref <- MCRef
    Tag = {left, right}
    MaxUntil = 5
    MaxBlockTx = 1
    WriteModes = {TRUE, FALSE}
    MaxTime = 3
    MaxUndone = 1
    MaxChecked = 1
CHECK_DEADLOCK FALSE
INVARIANTS
    NoDuplicates
    SessionIsPending
    ProductionSucceeds
PROPERTIES
    NothingLost
