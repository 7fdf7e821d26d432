---------------------------- MODULE ForkDatabase ----------------------------
(***************************************************************************)
(* fork_database (libraries/chain/fork_database.cpp): the tree of blocks    *)
(* that are not yet irreversible.  The component is called from inside the  *)
(* steps of the database, so its state is a record and its operations are   *)
(* operators from a record to a record.                                     *)
(*                                                                          *)
(*   index  ids of the items of _index                                      *)
(*   link   ids of the items whose weak pointer `prev' can still be locked: *)
(*          an item is kept alive by _index alone, so erasing it breaks the *)
(*          link of every item built on it, and inserting the same block    *)
(*          again makes a new object that does not mend those links         *)
(*   head   id of the item _head points to (Genesis: _head is null); _head  *)
(*          owns its item, which therefore need not be in _index            *)
(*   hlink  whether the `prev' of the item of _head can be locked           *)
(*   max    _max_size                                                       *)
(*                                                                          *)
(* _unlinked_index stays empty (push_block rethrows before it inserts) and  *)
(* fork_item::invalid is never set, so neither is state.                    *)
(***************************************************************************)
EXTENDS BlockTree

CONSTANT DefaultMaxSize     \* initial _max_size, 1024 in the code

ASSUME MaxSizeAssumption == DefaultMaxSize \in Nat \ {0}

ForkDb == [index : SUBSET Block, link : SUBSET Block, head : Id,
           hlink : BOOLEAN, max : Nat]

\* fork_database::reset and a freshly constructed database
EmptyForkDb == [index |-> {}, link |-> {}, head |-> Genesis,
                hlink |-> FALSE, max |-> DefaultMaxSize]

\* start_block: a single item that links to nothing
StartBlock(f, b) == [f EXCEPT !.index = @ \cup {b}, !.head = b, !.hlink = FALSE]

Oldest(f) == IF f.head # Genesis /\ num[f.head] > f.max
               THEN num[f.head] - f.max ELSE 0

TooOld(f, b) == f.head # Genesis /\ num[b] <= Oldest(f)

Unlinkable(f, b) == /\ f.head # Genesis
                    /\ previous[b] # Genesis
                    /\ previous[b] \notin f.index

(***************************************************************************)
(* _push_block of an item that is neither too old nor unlinkable.  _index   *)
(* has unique ids: inserting a known block changes nothing, but the new     *)
(* item may still become _head.                                             *)
(***************************************************************************)
PushItem(f, b) ==
    LET linked == f.head # Genesis /\ previous[b] \in f.index
        higher == num[b] > num[f.head]
    IN  [f EXCEPT
           !.index = @ \cup {b},
           !.link  = IF b \notin f.index /\ linked THEN @ \cup {b} ELSE @,
           !.head  = IF higher THEN b ELSE @,
           !.hlink = IF higher THEN linked ELSE @]

\* pop_block asserts that _head is set and that its `prev' can be locked.
CanPop(f) == f.head # Genesis /\ f.hlink

\* Mutant: _head stays where it is.
PopItemKeepsHead(f) == f

PopItem(f) == [f EXCEPT !.head = previous[f.head],
                        !.hlink = previous[f.head] \in f.link]

(***************************************************************************)
(* Erase the items E.  `held' are the items a caller owns through the       *)
(* branches it fetched: they outlive their erasure.                         *)
(***************************************************************************)
Erase(f, E, held) ==
    LET gone == E \ held
    IN  [f EXCEPT
           !.index = @ \ E,
           !.link  = {b \in @ : b \notin gone /\ previous[b] \notin gone},
           !.hlink = @ /\ previous[f.head] \notin gone]

\* The branches go out of scope: only _index keeps items alive now.
Release(f) ==
    [f EXCEPT !.link  = {b \in @ : b \in f.index /\ previous[b] \in f.index},
              !.hlink = @ /\ previous[f.head] \in f.index]

SetHead(f, b) == [f EXCEPT !.head = b, !.hlink = b \in f.link]

SetMaxSize(f, s, held) ==
    LET g == [f EXCEPT !.max = s]
    IN  Erase(g, {b \in f.index : num[b] < Oldest(g)}, held)

\* Every item from b (included) down to the number n + 1 can be left through prev.
Walkable(f, b, n) == {a \in ancestors[b] : num[a] > n} \subseteq f.link

\* walk_main_branch_to_num: the walk from _head gets to the number n
ReachedFromHead(f, n) ==
    \/ n = num[f.head]
    \/ n < num[f.head] /\ f.hlink /\ Walkable(f, previous[f.head], n)

\* Mutant: when forks collide, the first item with the number.
MainBranchItemFirst(f, n) ==
    LET items == {b \in f.index : num[b] = n}
    IN  IF items = {} THEN Genesis ELSE CHOOSE b \in items : TRUE

(***************************************************************************)
(* fetch_block_on_main_branch_by_number: the one item with that number, or, *)
(* when forks collide, the one reached from _head.  Genesis: null.          *)
(***************************************************************************)
MainBranchItem(f, n) ==
    LET items == {b \in f.index : num[b] = n}
    IN  IF \E b \in items : items = {b} THEN CHOOSE b \in items : TRUE
        ELSE IF items # {} /\ ReachedFromHead(f, n) THEN AncestorAt(f.head, n)
        ELSE Genesis

(***************************************************************************)
(* fetch_branch_from: the common previous block of the two branches.  The   *)
(* walk stops at two items of the same number and the same previous id;     *)
(* every pointer followed on the way is asserted not to be null.            *)
(***************************************************************************)
ForkPoint(b, c) ==
    CHOOSE p \in ancestors[b] \cap ancestors[c] :
      /\ p # b /\ p # c
      /\ \A q \in ancestors[b] \cap ancestors[c] :
           q # b /\ q # c => num[q] <= num[p]

CanFetchBranches(f, b, c) ==
    /\ {b, c} \subseteq f.index
    /\ Walkable(f, b, num[ForkPoint(b, c)] + 1)
    /\ Walkable(f, c, num[ForkPoint(b, c)] + 1)

(***************************************************************************)
(* A link never leads to the initial id.  When no caller holds a branch it  *)
(* leads from an item of _index to an item of _index.                       *)
(***************************************************************************)
BlockLinks(f) == /\ f.head \in Block
                 /\ f.hlink => previous[f.head] \in Block
                 /\ \A b \in f.link : previous[b] \in Block

ItemLinks(f) == \A b \in f.link : b \in f.index /\ previous[b] \in f.index
=============================================================================
