SPECIFICATION FairSpec
CONSTANTS
    Block <- MCBlock
    Genesis = 0
    previous <- MCPrevious
    num <- MCNum
    ancestors <- MCAncestors
    lib <- MCLib
    failAt <- MCFailAt
    DefaultMaxSize = 10
    MaxUndoHistory = 100
    Redelivery = FALSE
PROPERTIES
    RollsBackInvalidOnly
