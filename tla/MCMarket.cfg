SPECIFICATION Spec
CONSTANTS
    alice = alice
    bob = bob
    Account = {alice, bob}
    OrderId = {o1, o2}
    Amounts = {2, 3}
    Rates <- MCRates
    Opening <- MCOpening
    Lifetime = {1}
    MaxTime = 2
    MaxOrders = 3
SYMMETRY Symmetry
CHECK_DEADLOCK FALSE
INVARIANTS
    Conserved
    BookUncrossed
    FairFills
PROPERTY PriceTimePriority
