SPECIFICATION Spec
CONSTANTS
    w1 = w1
    w2 = w2
    w3 = w3
    Witness = {w1, w2, w3}
    Hundred = 100
    Threshold = 66
    MaxWitnesses = 3
    StartMinerVotingBlock = 2
    MaxVoted = 2
    Required = 2
    SerializeState = TRUE
    NoLimit = 99
    MaxBlockNum = 5
    Voters = {w1, w2}
SYMMETRY Symmetry
CHECK_DEADLOCK FALSE
INVARIANTS
    RevertsToLib
