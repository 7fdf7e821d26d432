----------------------------- MODULE BlockTree -----------------------------
(***************************************************************************)
(* The blocks a node may ever be handed, as a tree.  A block id is a hash   *)
(* over the header, the header holds the id of the previous block, and the  *)
(* first four bytes of an id are the block number: so an id fixes the       *)
(* number of a block and all of its ancestors (protocol/block.cpp).         *)
(* A block is abstracted to its id; everything a block "is" to the block    *)
(* processing code is a function of it.                                     *)
(***************************************************************************)
EXTENDS Integers, FiniteSets

CONSTANTS
    Block,      \* ids of the blocks of the tree
    Genesis,    \* block_id_type(): the id of the state before block 1
    previous,   \* signed_block_header::previous
    num,        \* block_header::num_from_id
    ancestors   \* a block together with every block it builds on

Id == Block \cup {Genesis}

ASSUME GenesisAssumption == Genesis \notin Block

ASSUME PreviousAssumption ==
    /\ previous \in [Block -> Id]
    /\ num \in [Id -> Nat]
    /\ num[Genesis] = 0
    /\ \A b \in Block : num[b] = num[previous[b]] + 1

\* `ancestors' is the reflexive transitive closure of `previous'.
ASSUME AncestorAssumption ==
    /\ ancestors \in [Id -> SUBSET Id]
    /\ ancestors[Genesis] = {Genesis}
    /\ \A b \in Block : ancestors[b] = ancestors[previous[b]] \cup {b}

\* The block of number n on the chain that ends in b.
AncestorAt(b, n) == CHOOSE a \in ancestors[b] : num[a] = n

\* The blocks above f on the chain that ends in b.
Branch(f, b) == {a \in ancestors[b] : num[a] > num[f]}
=============================================================================
