CONSTANTS
    Block <- MCBlock
    Genesis = 0
    previous <- MCprevious
    num <- MCnum
    ancestors <- MCancestors
    Peers = {"p1", "p2"}
    InitHead = 0
    InitPeerHead <- MCPeerHead
    UndoDepth = 2
    IdsPerReply = 3
    PerPeer = 1
    MinPrefetch = 2
    MaxHandling = 2
    MaxPrefetch = 1
    Mute = {"p2"}
    Chatty = {}
    MaxEvents = 1
SPECIFICATION FairSpec
INVARIANT  HandedInOrder
PROPERTY  CatchesUpAlone
CHECK_DEADLOCK FALSE
