SPECIFICATION Spec

CONSTANTS
    Account = {1, 2, 3, 4}
    Null = 1
    Founder = {1, 2, 3}
    OpeningLiquid <- MCLiquid
    OpeningShares <- MCShares
    OpeningFund = 8
    OpeningRewards = 1
    Tokens = {1}
    Shares = {0, 2, 5}
    VestPairs <- MCVest
    RoutePairs <- MCRoute
    LendPairs <- MCLend
    Percents = {50}
    FullPercent = 100
    SharesPerToken = 1
    MinFee = 1
    MinCreateDelegation = 1
    CreationFee = 1
    MinDelegation = 1
    PowerdownFactor = 10
    Intervals = 2
    Interval = 1
    CashoutWindow = 1
    DelegationTime = 2
    MaxRoutes = 2
    MaxTime = 3

CHECK_DEADLOCK FALSE

INVARIANTS
    Backed
    DelegationsMatch
    FundMatches

PROPERTIES
    WorthNeverDrops
