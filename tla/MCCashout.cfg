SPECIFICATION Spec
CONSTANTS
    Comment = {"post", "reply"}
    parentOf <- MCParent
    author <- MCAuthor
    None = None
    Voter = {1, 2}
    Weights <- MCWeights
    Strengths = {1, 3}
    delegatorRate <- MCRate
    Options <- MCOptions
    referral <- MCReferral
    ReferralEnd = 1
    RewardWeights = {80}
    Medians <- MCMedians
    CurationPercent = 50
    MaxCurationPercent = 60
    DefaultDestination = "to_curators"
    Destinations = {"to_author", "to_curators", "to_reward_fund"}
    FullPercent = 100
    WeightModulus = 64
    ContentConstant = 1
    AuctionWindow = 2
    CashoutWindow = 4
    UpvoteLockout = 1
    MaxVoteChanges = 1
    MaxPayout = 9
    MinPayout = 2
    OpeningFund = 10
    Inflow = 1
    MaxTime = 4
    MaxOps = 5
CHECK_DEADLOCK FALSE
INVARIANTS
    RewardsTallied
    VotesTallied

    
