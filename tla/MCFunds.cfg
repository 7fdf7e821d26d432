SPECIFICATION Spec
CONSTANTS
    alice = alice
    bob = bob
    agent = agent
    Null = null
    Account = {alice, bob, agent, null}
    EscrowId = {1}
    RequestId = {r1, r2}
    Amounts <- MCAmounts
    EscrowAmounts <- MCEscrowAmounts
    Holder = {alice}
    Receiver = {bob, null}
    Agent = {agent}
    Fees <- MCFees
    Prices = {0, 3}
    Unit = 2
    Opening <- MCOpening
    WithdrawTime = 1
    ConversionDelay = 1
    RequestLimit = 1
    MaxTime = 2
    MaxGbg = 2
    Interest = 1
SYMMETRY Symmetry
CHECK_DEADLOCK FALSE
INVARIANTS
    SupplyMatches
    WithdrawalsCounted
    EscrowsReleasable
