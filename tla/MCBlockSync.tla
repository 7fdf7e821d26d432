---------------------------- MODULE MCBlockSync ----------------------------
EXTENDS BlockSync

MCBlock == 1 .. 4
MCprevious == [b \in 1 .. 4 |-> b - 1]
MCnum == [b \in 0 .. 4 |-> b]
MCancestors == [b \in 0 .. 4 |-> 0 .. b]
MCPeerHead == ("p1" :> 3) @@ ("p2" :> 1)
=============================================================================
