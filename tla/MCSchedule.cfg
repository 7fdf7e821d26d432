CONSTANTS
    N = 3
    InitVotes <- MCInitVotes
    MaxWitnesses = 2
    MaxVoted = 1
    MaxMiners = 1
    InitMiners <- MCInitMiners
    Required = 2
    BlocksPerDay = 1
    NumHardforks = 1
    TimeBits = 4
    Votes = {0, 2}
    MaxMissed = 1
    MaxOps = 2
    MaxUpgrades = 2
SPECIFICATION Spec
INVARIANT  NeverInPast 
PROPERTY AlwaysReturns
CHECK_DEADLOCK FALSE
