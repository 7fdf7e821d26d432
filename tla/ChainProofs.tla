---------------------------- MODULE ChainProofs ----------------------------
(***************************************************************************)
(* Block processing is safe for every tree of blocks, every place where a   *)
(* block fails, every history length and every sequence of switches, kills  *)
(* and restarts.                                                            *)
(***************************************************************************)
EXTENDS ChainInvariant, WellFoundedInduction, TLAPS

\* A set of naturals that is not empty has a least element.
LEMMA LeastNat ==
    ASSUME NEW T \in SUBSET Nat, T # {}
    PROVE  \E m \in T : \A k \in T : m <= k
<1> DEFINE R == OpToRel(<, Nat)
<1>1. IsWellFoundedOn(R, Nat)
  BY Zenon, NatLessThanWellFounded
<1>2. \A x, y \in Nat : y < x => <<y, x>> \in R
  BY Zenon DEF OpToRel
<1> HIDE DEF R
<1>3. \E m \in T : \A k \in T : ~ (<<k, m>> \in R)
  <2>1. T \subseteq Nat
    BY Zenon
  <2> QED
    BY Zenon, <1>1, <2>1, WFMin
<1>4. PICK m \in T : \A k \in T : ~ (<<k, m>> \in R)
  BY Zenon, <1>3
<1>5. ASSUME NEW k \in T PROVE m <= k
  <2>1. m \in Nat /\ k \in Nat /\ (k < m => <<k, m>> \in R)
    BY Zenon, <1>2
  <2>2. ~(k < m)
    BY Zenon, <1>4, <2>1
  <2> QED
    BY <2>1, <2>2
<1> QED
  BY Zenon, <1>5

\* A set of naturals that holds 0 and the successor of each element is Nat.
LEMMA SetInduction ==
    ASSUME NEW S \in SUBSET Nat, 0 \in S, \A n \in S : n + 1 \in S
    PROVE  S = Nat
<1> SUFFICES ASSUME Nat \ S # {} PROVE FALSE
  BY Zenon
<1>1. PICK m \in Nat \ S : \A k \in Nat \ S : m <= k
  BY Zenon, LeastNat
<1>2. m - 1 \in Nat /\ m - 1 \in S
  BY <1>1
<1> QED
  BY <1>1, <1>2

-----------------------------------------------------------------------------
(***************************************************************************)
(* Facts about the block tree and about the operations of fork_database.    *)
(***************************************************************************)
\* A chain as the closure of `previous' makes it, for the block b at its tip.
ChainFact(b) ==
    /\ b \in ancestors[b]
    /\ \A a \in ancestors[b] : /\ ancestors[a] \subseteq ancestors[b]
                               /\ num[a] <= num[b]
                               /\ num[a] = num[b] => a = b
    /\ \A n \in 0..num[b] : \E a \in ancestors[b] : num[a] = n
    /\ \A a, c \in ancestors[b] : num[a] = num[c] => a = c

(***************************************************************************)
(* Every chain has exactly one block of each number up to its tip's, and    *)
(* the chain of an ancestor is a part of it: by induction on the number of  *)
(* the tip.                                                                 *)
(***************************************************************************)
LEMMA AncestorFact == \A b \in Id : ChainFact(b)
<1> DEFINE S == {n \in Nat : \A b \in Id : num[b] = n => ChainFact(b)}
<1>1. 0 \in S
  <2>1. \A b \in Id : num[b] = 0 => b = Genesis
    BY PreviousAssumption DEF Id
  <2>2. ChainFact(Genesis)
    BY PreviousAssumption, AncestorAssumption DEF ChainFact, Id
  <2> QED
    BY Zenon, <2>1, <2>2
<1>2. ASSUME NEW n \in S PROVE n + 1 \in S
  <2> SUFFICES ASSUME NEW b \in Id, num[b] = n + 1 PROVE ChainFact(b)
    OBVIOUS
  <2> DEFINE p == previous[b]
  <2>1. b \in Block /\ p \in Id /\ num[p] = n /\ n \in Nat
    BY PreviousAssumption DEF Id
  <2>2. ChainFact(p)
    BY Zenon, <2>1
  <2>3. ancestors[b] = ancestors[p] \cup {b} /\ ancestors[p] \subseteq Id
    BY Zenon, <2>1, AncestorAssumption
  <2>4. \A a \in ancestors[p] : num[a] \in Nat /\ num[a] <= n
    BY Zenon, <2>1, <2>2, <2>3, PreviousAssumption DEF ChainFact
  <2> HIDE DEF p
  <2>5. \A k \in 0..num[b] : \E a \in ancestors[b] : num[a] = k
    <3> SUFFICES ASSUME NEW k \in 0..num[b] PROVE \E a \in ancestors[b] : num[a] = k
      BY Zenon
    <3>1. CASE k = n + 1
      BY Zenon, <3>1, <2>3
    <3>2. CASE k # n + 1
      <4>1. k \in 0..num[p]
        BY <3>2, <2>1
      <4> QED
        BY Zenon, <4>1, <2>2, <2>3 DEF ChainFact
    <3> QED
      BY Zenon, <3>1, <3>2
  <2>6. \A a \in ancestors[b] : /\ ancestors[a] \subseteq ancestors[b]
                                /\ num[a] <= num[b]
                                /\ num[a] = num[b] => a = b
    BY <2>1, <2>2, <2>3, <2>4 DEF ChainFact
  <2>7. \A a, c \in ancestors[b] : num[a] = num[c] => a = c
    BY <2>1, <2>2, <2>3, <2>4 DEF ChainFact
  <2> QED
    BY Zenon, <2>3, <2>5, <2>6, <2>7 DEF ChainFact
<1> HIDE DEF S
<1>3. S = Nat
  BY Zenon, <1>1, <1>2, SetInduction DEF S
<1> QED
  BY Zenon, <1>3, PreviousAssumption DEF S

LEMMA AncestorAtFact ==
    ASSUME NEW b \in Id, NEW n \in 0..num[b]
    PROVE  /\ AncestorAt(b, n) \in ancestors[b]
           /\ AncestorAt(b, n) \in Id
           /\ num[AncestorAt(b, n)] = n
BY Zenon, AncestorFact, AncestorAssumption DEF AncestorAt, ChainFact

LEMMA AncestorAtUnique ==
    ASSUME NEW b \in Id, NEW a \in ancestors[b]
    PROVE  /\ a \in Id
           /\ num[a] \in 0..num[b]
           /\ AncestorAt(b, num[a]) = a
<1>1. a \in Id /\ num[a] \in Nat /\ num[b] \in Nat /\ num[a] <= num[b]
  BY Zenon, AncestorFact, AncestorAssumption, PreviousAssumption DEF ChainFact
<1>2. num[a] \in 0..num[b]
  BY <1>1
<1> QED
  BY <1>1, <1>2, AncestorAtFact, AncestorFact DEF ChainFact

\* Only the initial id has number 0.
LEMMA NumFact ==
    ASSUME NEW b \in Block
    PROVE  /\ b \in Id /\ previous[b] \in Id
           /\ num[b] \in Nat /\ num[previous[b]] \in Nat
           /\ num[b] = num[previous[b]] + 1
           /\ num[b] > 0
           /\ b \in ancestors[b] /\ previous[b] \in ancestors[b]
<1>1. b \in Id /\ previous[b] \in Id
  BY Zenon, PreviousAssumption DEF Id
<1>2. num[b] \in Nat /\ num[previous[b]] \in Nat /\ num[b] = num[previous[b]] + 1
  BY Zenon, <1>1, PreviousAssumption
<1>3. \A c \in Id : c \in ancestors[c]
  BY Zenon, AncestorFact DEF ChainFact
<1> QED
  BY <1>1, <1>2, <1>3, AncestorAssumption
-----------------------------------------------------------------------------
(***************************************************************************)
(* Every operation turns a fork database into a fork database.              *)
(***************************************************************************)
LEMMA StartBlockType ==
    ASSUME NEW f \in ForkDb, NEW b \in Block
    PROVE  StartBlock(f, b) \in ForkDb
BY Zenon DEF StartBlock, ForkDb, Id

LEMMA EmptyForkDbType == EmptyForkDb \in ForkDb
BY Zenon, MaxSizeAssumption DEF EmptyForkDb, ForkDb, Id

LEMMA OldestType ==
    ASSUME NEW f \in ForkDb
    PROVE  Oldest(f) \in Nat /\ Oldest(f) <= num[f.head]
BY PreviousAssumption DEF Oldest, ForkDb

LEMMA PushItemType ==
    ASSUME NEW f \in ForkDb, NEW b \in Block
    PROVE  /\ PushItem(f, b) \in ForkDb
           /\ PushItem(f, b).index = f.index \cup {b}
           /\ PushItem(f, b).head = (IF num[b] > num[f.head] THEN b ELSE f.head)
           /\ PushItem(f, b).head \in Block
<1> DEFINE linked == f.head # Genesis /\ previous[b] \in f.index
           higher == num[b] > num[f.head]
<1>1. linked \in BOOLEAN /\ higher \in BOOLEAN
  OBVIOUS
<1>2. f.head \in Id /\ (f.head = Genesis => higher)
  BY Zenon, NumFact, PreviousAssumption DEF ForkDb
<1> QED
  BY Zenon, <1>1, <1>2 DEF PushItem, ForkDb, Id

LEMMA PopItemType ==
    ASSUME NEW f \in ForkDb, CanPop(f)
    PROVE  PopItem(f) \in ForkDb
<1>1. f.head \in Block /\ previous[f.head] \in Id
  BY Zenon, NumFact DEF CanPop, ForkDb, Id
<1> DEFINE h == previous[f.head] \in f.link
<1>2. h \in BOOLEAN
  OBVIOUS
<1>3. PopItem(f) = [f EXCEPT !.head = previous[f.head], !.hlink = h]
  BY Zenon DEF PopItem
<1> HIDE DEF h
<1> QED
  BY Zenon, <1>1, <1>2, <1>3 DEF ForkDb

LEMMA EraseType ==
    ASSUME NEW f \in ForkDb, NEW E, NEW own
    PROVE  /\ Erase(f, E, own) \in ForkDb
           /\ Erase(f, E, own).index = f.index \ E
           /\ Erase(f, E, own).head = f.head
<1> DEFINE gone == E \ own
           h == f.hlink /\ previous[f.head] \notin gone
           l == {b \in f.link : b \notin gone /\ previous[b] \notin gone}
<1>1. h \in BOOLEAN /\ l \in SUBSET Block
  BY Zenon DEF ForkDb
<1>2. Erase(f, E, own) = [f EXCEPT !.index = @ \ E, !.link = l, !.hlink = h]
  BY Zenon DEF Erase
<1> HIDE DEF h, l
<1> QED
  BY Zenon, <1>1, <1>2 DEF ForkDb

LEMMA ReleaseType ==
    ASSUME NEW f \in ForkDb
    PROVE  /\ Release(f) \in ForkDb
           /\ Release(f).index = f.index
           /\ Release(f).head = f.head
<1> DEFINE h == f.hlink /\ previous[f.head] \in f.index
           l == {b \in f.link : b \in f.index /\ previous[b] \in f.index}
<1>1. h \in BOOLEAN /\ l \in SUBSET Block
  BY Zenon DEF ForkDb
<1>2. Release(f) = [f EXCEPT !.link = l, !.hlink = h]
  BY Zenon DEF Release
<1> HIDE DEF h, l
<1> QED
  BY Zenon, <1>1, <1>2 DEF ForkDb

LEMMA SetHeadType ==
    ASSUME NEW f \in ForkDb, NEW b \in Id
    PROVE  /\ SetHead(f, b) \in ForkDb
           /\ SetHead(f, b).index = f.index
           /\ SetHead(f, b).head = b
<1> DEFINE h == b \in f.link
<1>1. h \in BOOLEAN
  OBVIOUS
<1>2. SetHead(f, b) = [f EXCEPT !.head = b, !.hlink = h]
  BY Zenon DEF SetHead
<1> HIDE DEF h
<1> QED
  BY Zenon, <1>1, <1>2 DEF ForkDb

LEMMA SetMaxSizeType ==
    ASSUME NEW f \in ForkDb, NEW s \in Nat, NEW own
    PROVE  /\ SetMaxSize(f, s, own) \in ForkDb
           /\ SetMaxSize(f, s, own).head = f.head
           /\ SetMaxSize(f, s, own).index =
                f.index \ {b \in f.index : num[b] < Oldest([f EXCEPT !.max = s])}
<1> DEFINE g == [f EXCEPT !.max = s]
           E == {b \in f.index : num[b] < Oldest(g)}
<1>1. g \in ForkDb /\ g.index = f.index /\ g.head = f.head
  BY Zenon DEF ForkDb
<1>2. SetMaxSize(f, s, own) = Erase(g, E, own)
  BY Zenon DEF SetMaxSize
<1>3. E = {b \in f.index : num[b] < Oldest([f EXCEPT !.max = s])}
  BY Zenon
<1> HIDE DEF g, E
<1> QED
  BY <1>1, <1>2, <1>3, EraseType

(***************************************************************************)
(* fetch_block_on_main_branch_by_number returns an item with that number,   *)
(* or null; the item is in the index, or it is on the chain of _head.       *)
(***************************************************************************)
LEMMA MainBranchItemFact ==
    ASSUME NEW f \in ForkDb, NEW n \in Nat, MainBranchItem(f, n) # Genesis
    PROVE  /\ MainBranchItem(f, n) \in Block
           /\ num[MainBranchItem(f, n)] = n
           /\ MainBranchItem(f, n) \in f.index \/ MainBranchItem(f, n) \in ancestors[f.head]
<1> DEFINE items == {b \in f.index : num[b] = n}
           m == MainBranchItem(f, n)
<1>1. f.index \subseteq Block /\ f.head \in Id /\ num[f.head] \in Nat
  BY Zenon, PreviousAssumption DEF ForkDb
<1>2. CASE \E b \in items : items = {b}
  <2>1. m = CHOOSE b \in items : TRUE
    BY Zenon, <1>2 DEF MainBranchItem
  <2> QED
    BY Zenon, <1>1, <1>2, <2>1
<1>3. CASE ~\E b \in items : items = {b}
  <2>1. n <= num[f.head] /\ m = AncestorAt(f.head, n)
    BY <1>1, <1>3 DEF MainBranchItem, ReachedFromHead
  <2>2. n \in 0..num[f.head]
    BY <1>1, <2>1
  <2> QED
    BY <1>1, <2>1, <2>2, AncestorAtFact DEF Id
<1> QED
  BY Zenon, <1>2, <1>3
-----------------------------------------------------------------------------
(***************************************************************************)
(* What the links of a fork database lead to: a block that is not the       *)
(* initial id, always; an item, when nobody holds a branch.                 *)
(***************************************************************************)
LEMMA PushItemLinks ==
    ASSUME NEW f \in ForkDb, NEW b \in Block, BlockLinks(f)
    PROVE  /\ BlockLinks(PushItem(f, b))
           /\ ItemLinks(f) => ItemLinks(PushItem(f, b))
<1> DEFINE g == PushItem(f, b)
           linked == f.head # Genesis /\ previous[b] \in f.index
           higher == num[b] > num[f.head]
<1>1. /\ g.index = f.index \cup {b}
      /\ g.link = IF b \notin f.index /\ linked THEN f.link \cup {b} ELSE f.link
      /\ g.head = IF higher THEN b ELSE f.head
      /\ g.hlink = IF higher THEN linked ELSE f.hlink
  BY Zenon DEF PushItem, ForkDb
<1>2. f.index \subseteq Block
  BY Zenon DEF ForkDb
<1> SUFFICES BlockLinks(g) /\ (ItemLinks(f) => ItemLinks(g))
  BY Zenon
<1> HIDE DEF g
<1> QED
  BY Zenon, <1>1, <1>2 DEF BlockLinks, ItemLinks

LEMMA EraseLinks ==
    ASSUME NEW f \in ForkDb, NEW E, NEW own, BlockLinks(f)
    PROVE  /\ BlockLinks(Erase(f, E, own))
           /\ own = {} /\ ItemLinks(f) => ItemLinks(Erase(f, E, own))
<1> DEFINE g == Erase(f, E, own)
<1>1. /\ g.index = f.index \ E
      /\ g.link = {b \in f.link : b \notin E \ own /\ previous[b] \notin E \ own}
      /\ g.head = f.head
      /\ g.hlink => f.hlink
  BY Zenon DEF Erase, ForkDb
<1> SUFFICES BlockLinks(g) /\ (own = {} /\ ItemLinks(f) => ItemLinks(g))
  BY Zenon
<1> HIDE DEF g
<1> QED
  BY Zenon, <1>1 DEF BlockLinks, ItemLinks

LEMMA SetMaxSizeLinks ==
    ASSUME NEW f \in ForkDb, NEW s \in Nat, NEW own, BlockLinks(f)
    PROVE  /\ BlockLinks(SetMaxSize(f, s, own))
           /\ own = {} /\ ItemLinks(f) => ItemLinks(SetMaxSize(f, s, own))
<1> DEFINE g == [f EXCEPT !.max = s]
           E == {b \in f.index : num[b] < Oldest(g)}
<1>1. /\ g \in ForkDb /\ g.index = f.index /\ g.link = f.link
      /\ g.head = f.head /\ g.hlink = f.hlink
  BY Zenon DEF ForkDb
<1>2. SetMaxSize(f, s, own) = Erase(g, E, own)
  BY Zenon DEF SetMaxSize
<1> HIDE DEF g, E
<1>3. BlockLinks(g) /\ (ItemLinks(f) => ItemLinks(g))
  BY Zenon, <1>1 DEF BlockLinks, ItemLinks
<1> QED
  BY Zenon, <1>1, <1>2, <1>3, EraseLinks

LEMMA ReleaseLinks ==
    ASSUME NEW f \in ForkDb, BlockLinks(f)
    PROVE  BlockLinks(Release(f)) /\ ItemLinks(Release(f))
<1> DEFINE g == Release(f)
<1>1. /\ g.index = f.index /\ g.head = f.head
      /\ g.link = {b \in f.link : b \in f.index /\ previous[b] \in f.index}
      /\ g.hlink => f.hlink
  BY Zenon DEF Release, ForkDb
<1> SUFFICES BlockLinks(g) /\ ItemLinks(g)
  BY Zenon
<1> HIDE DEF g
<1> QED
  BY Zenon, <1>1 DEF BlockLinks, ItemLinks

LEMMA SetHeadLinks ==
    ASSUME NEW f \in ForkDb, NEW b \in Block, BlockLinks(f)
    PROVE  BlockLinks(SetHead(f, b))
<1> DEFINE g == SetHead(f, b)
<1>1. g.link = f.link /\ g.head = b /\ g.hlink = (b \in f.link)
  BY Zenon DEF SetHead, ForkDb
<1> SUFFICES BlockLinks(g)
  BY Zenon
<1> HIDE DEF g
<1> QED
  BY Zenon, <1>1 DEF BlockLinks

LEMMA PopItemLinks ==
    ASSUME NEW f \in ForkDb, BlockLinks(f), CanPop(f)
    PROVE  /\ BlockLinks(PopItem(f))
           /\ PopItem(f).index = f.index
           /\ PopItem(f).head = previous[f.head]
<1> DEFINE g == PopItem(f)
<1>1. /\ g.link = f.link /\ g.index = f.index /\ g.head = previous[f.head]
      /\ g.hlink = (previous[f.head] \in f.link)
  BY Zenon DEF PopItem, ForkDb
<1> SUFFICES BlockLinks(g) /\ g.index = f.index /\ g.head = previous[f.head]
  BY Zenon
<1> HIDE DEF g
<1> QED
  BY Zenon, <1>1 DEF BlockLinks, CanPop

\* set_max_size removes from below: what stays keeps everything above it.
LEMMA SetMaxSizeKeeps ==
    ASSUME NEW f \in ForkDb, NEW s \in Nat, NEW own,
           NEW x \in SetMaxSize(f, s, own).index, NEW a \in f.index, num[a] >= num[x]
    PROVE  a \in SetMaxSize(f, s, own).index
<1> DEFINE o == Oldest([f EXCEPT !.max = s])
<1>1. SetMaxSize(f, s, own).index = f.index \ {b \in f.index : num[b] < o}
  BY Zenon, SetMaxSizeType
<1>2. o \in Nat
  <2>1. [f EXCEPT !.max = s] \in ForkDb
    BY Zenon DEF ForkDb
  <2> QED
    BY Zenon, <2>1, OldestType
<1>3. x \in Block /\ a \in Block
  BY Zenon, <1>1 DEF ForkDb
<1> HIDE DEF o
<1> QED
  BY <1>1, <1>2, <1>3, NumFact

-----------------------------------------------------------------------------
(***************************************************************************)
(* The block log is written in the order of one chain, and only appended to.*)
(***************************************************************************)
(***************************************************************************)
(* On one chain the order of the numbers is the order of the chain.         *)
(***************************************************************************)
LEMMA ChainOrder ==
    ASSUME NEW b \in Id, NEW a \in ancestors[b], NEW c \in ancestors[b], num[a] <= num[c]
    PROVE  a \in ancestors[c]
<1>1. c \in Id /\ a \in Id /\ num[a] \in 0..num[c]
  BY AncestorAtUnique, PreviousAssumption
<1>2. PICK d \in ancestors[c] : num[d] = num[a]
  BY Zenon, <1>1, AncestorFact DEF ChainFact
<1>3. d \in ancestors[b]
  BY Zenon, <1>2, AncestorFact DEF ChainFact
<1> QED
  BY Zenon, <1>2, <1>3, AncestorFact DEF ChainFact

(***************************************************************************)
(* fetch_branch_from: two blocks have a last common block below both.       *)
(***************************************************************************)
LEMMA ForkPointFact ==
    ASSUME NEW b \in Block, NEW c \in Block
    PROVE  /\ ForkPoint(b, c) \in ancestors[b] \cap ancestors[c]
           /\ ForkPoint(b, c) \in Id
           /\ ForkPoint(b, c) # b /\ ForkPoint(b, c) # c
           /\ num[ForkPoint(b, c)] < num[b] /\ num[ForkPoint(b, c)] < num[c]
           /\ \A q \in ancestors[b] \cap ancestors[c] :
                q # b /\ q # c => num[q] <= num[ForkPoint(b, c)]
<1> DEFINE C == {q \in ancestors[b] \cap ancestors[c] : q # b /\ q # c}
           D == {num[b] - num[q] : q \in C}
<1>1. b \in Id /\ c \in Id /\ num[b] \in Nat /\ num[c] \in Nat /\ num[b] > 0 /\ num[c] > 0
  BY Zenon, NumFact
<1>2. \A q \in C : q \in Id /\ num[q] \in Nat /\ num[q] <= num[b]
  BY <1>1, AncestorAtUnique
<1>3. Genesis \in C
  <2>1. \A d \in Id : Genesis \in ancestors[d]
    <3> SUFFICES ASSUME NEW d \in Id PROVE Genesis \in ancestors[d]
      BY Zenon
    <3>1. 0 \in 0..num[d]
      BY PreviousAssumption
    <3>2. PICK a \in ancestors[d] : num[a] = 0
      BY Zenon, <3>1, AncestorFact DEF ChainFact
    <3>3. a \in Id
      BY Zenon, <3>2, AncestorAssumption
    <3> QED
      BY <3>2, <3>3, NumFact DEF Id
  <2> QED
    BY Zenon, <1>1, <2>1, GenesisAssumption
<1>4. D \in SUBSET Nat /\ D # {}
  BY <1>1, <1>2, <1>3
<1>5. PICK m \in D : \A k \in D : m <= k
  BY Zenon, <1>4, LeastNat
<1>6. PICK p \in C : \A q \in C : num[q] <= num[p]
  <2>1. PICK p \in C : m = num[b] - num[p]
    BY Zenon, <1>5
  <2>2. ASSUME NEW q \in C PROVE num[q] <= num[p]
    <3>1. num[b] - num[q] \in D
      BY Zenon
    <3>2. m <= num[b] - num[q]
      BY Zenon, <1>5, <3>1
    <3>3. num[p] \in Nat /\ num[q] \in Nat
      BY Zenon, <1>2
    <3> HIDE DEF C, D
    <3> QED
      BY <1>1, <2>1, <3>2, <3>3
  <2> QED
    BY Zenon, <2>2
<1>7. \E p_1 \in ancestors[b] \cap ancestors[c] :
        /\ p_1 # b /\ p_1 # c
        /\ \A q \in ancestors[b] \cap ancestors[c] : q # b /\ q # c => num[q] <= num[p_1]
  BY Zenon, <1>6
<1>8. /\ ForkPoint(b, c) \in ancestors[b] \cap ancestors[c]
      /\ ForkPoint(b, c) # b /\ ForkPoint(b, c) # c
      /\ \A q \in ancestors[b] \cap ancestors[c] :
           q # b /\ q # c => num[q] <= num[ForkPoint(b, c)]
  BY Zenon, <1>7 DEF ForkPoint
<1>9. /\ ForkPoint(b, c) \in Id /\ num[ForkPoint(b, c)] \in Nat
      /\ num[ForkPoint(b, c)] <= num[b] /\ num[ForkPoint(b, c)] # num[b]
      /\ num[ForkPoint(b, c)] <= num[c] /\ num[ForkPoint(b, c)] # num[c]
  BY <1>1, <1>8, AncestorFact, AncestorAtUnique DEF ChainFact
<1> QED
  BY <1>1, <1>8, <1>9
-----------------------------------------------------------------------------
LogType == log \in Seq(Block)

(***************************************************************************)
(* The loop that writes the block log stops at the first block the fork     *)
(* database does not have, or at the last irreversible block.               *)
(***************************************************************************)
LEMMA LogReachFact ==
    ASSUME NEW f \in ForkDb, NEW b \in Block, LogType
    PROVE  /\ LogReach(f, b) \in Nat
           /\ LogReach(f, b) >= Len(log)
           /\ LogReach(f, b) <= Len(log) \/ LogReach(f, b) <= lib[b]
           /\ \A i \in (Len(log) + 1)..LogReach(f, b) : MainBranchItem(f, i) # Genesis
<1>1. lib[b] \in Nat /\ Len(log) \in Nat
  BY NumFact, LibAssumption DEF LogType
<1>2. CASE lib[b] <= Len(log)
  BY <1>1, <1>2 DEF LogReach
<1>3. CASE lib[b] > Len(log)
  <2> DEFINE null == {i \in (Len(log) + 1)..lib[b] : MainBranchItem(f, i) = Genesis}
             P(n) == /\ \A i \in (Len(log) + 1)..n : MainBranchItem(f, i) # Genesis
                     /\ n < lib[b] => MainBranchItem(f, n + 1) = Genesis
  <2>1. LogReach(f, b) = CHOOSE n \in Len(log)..lib[b] : P(n)
    BY <1>1, <1>3 DEF LogReach
  <2>2. \E n \in Len(log)..lib[b] : P(n)
    <3>1. CASE null = {}
      <4>1. lib[b] \in Len(log)..lib[b] /\ P(lib[b])
        BY <1>1, <1>3, <3>1
      <4> QED
        BY Zenon, <4>1
    <3>2. CASE null # {}
      <4>1. null \in SUBSET Nat
        BY <1>1
      <4>2. PICK m \in null : \A k \in null : m <= k
        BY Zenon, <3>2, <4>1, LeastNat
      <4>3. m - 1 \in Len(log)..lib[b] /\ P(m - 1)
        BY <1>1, <4>2
      <4> QED
        BY Zenon, <4>3
    <3> QED
      BY Zenon, <3>1, <3>2
  <2> HIDE DEF P
  <2>3. LogReach(f, b) \in Len(log)..lib[b] /\ P(LogReach(f, b))
    BY Zenon, <2>1, <2>2
  <2> QED
    BY <1>1, <2>3 DEF P
<1> QED
  BY <1>1, <1>2, <1>3

(***************************************************************************)
(* The log only grows, by blocks that have the number of their position and *)
(* that the fork database returned for it.                                  *)
(***************************************************************************)
LEMMA LogUpToFact ==
    ASSUME NEW f \in ForkDb, LogType, LogNumbered, NEW n \in Nat, n >= Len(log),
           \A i \in (Len(log) + 1)..n : MainBranchItem(f, i) # Genesis
    PROVE  /\ LogUpTo(f, n) \in Seq(Block)
           /\ Len(LogUpTo(f, n)) = n
           /\ \A i \in 1..n : num[LogUpTo(f, n)[i]] = i
           /\ \A i \in 1..Len(log) : LogUpTo(f, n)[i] = log[i]
           /\ \A i \in (Len(log) + 1)..n : LogUpTo(f, n)[i] = MainBranchItem(f, i)
<1>1. \A i \in (Len(log) + 1)..n :
        MainBranchItem(f, i) \in Block /\ num[MainBranchItem(f, i)] = i
  BY MainBranchItemFact DEF LogType
<1>2. \A i \in 1..n : i <= Len(log) => log[i] \in Block /\ num[log[i]] = i
  BY DEF LogType, LogNumbered
<1>3. \A i \in 1..n : LogUpTo(f, n)[i] \in Block /\ num[LogUpTo(f, n)[i]] = i
  BY <1>1, <1>2 DEF LogUpTo, LogType
<1>4. LogUpTo(f, n) \in [1..n -> Block]
  BY <1>1, <1>2 DEF LogUpTo, LogType
<1>5. LogUpTo(f, n) \in Seq(Block) /\ Len(LogUpTo(f, n)) = n
  BY <1>4
<1> QED
  BY <1>3, <1>4, <1>5 DEF LogUpTo, LogType

(***************************************************************************)
(* What apply_block leaves behind, whether it succeeds or throws.           *)
(***************************************************************************)
LEMMA ApplyFact ==
    ASSUME NEW f \in ForkDb, NEW b \in Block, TypeOK, LogNumbered, LogWithinCommitted,
           NEW r, r = Apply(f, b)
    PROVE  /\ r.ok \in BOOLEAN
           /\ r.fdb \in ForkDb /\ r.fdb.head = f.head
           /\ r.committed \in Nat /\ committed <= r.committed /\ r.committed <= num[head]
           /\ r.log \in Seq(Block) /\ Len(log) <= Len(r.log) /\ Len(r.log) <= r.committed
           /\ \A i \in 1..Len(r.log) : num[r.log[i]] = i
           /\ \A i \in 1..Len(log) : r.log[i] = log[i]
           /\ r.ok => previous[b] = head /\ num[b] = num[head] + 1
<1>1. /\ head \in Id /\ num[head] \in Nat /\ committed \in Nat
      /\ lib[b] \in Nat /\ lib[b] < num[b] /\ num[b] \in Nat
      /\ Len(log) \in Nat /\ Len(log) <= committed /\ committed <= num[head]
  BY NumFact, LibAssumption, PreviousAssumption DEF TypeOK, LogWithinCommitted
<1>2. CASE FailsEarly(b)
  <2>1. r = [ok |-> FALSE, fdb |-> f, committed |-> committed, log |-> log]
    BY Zenon, <1>2 DEF Apply
  <2> QED
    BY <1>1, <2>1 DEF TypeOK, LogNumbered
<1>3. CASE ~FailsEarly(b)
  <2> DEFINE n == LogReach(f, b)
             logged == n >= lib[b]
             good == logged /\ failAt[b] # "late"
             g == IF logged THEN SetMaxSize(f, num[b] - lib[b] + 1, held) ELSE f
  <2>1. r = [ok |-> good, fdb |-> g, committed |-> Commit(b), log |-> LogUpTo(f, n)]
    BY Zenon, <1>3 DEF Apply
  <2>2. previous[b] = head /\ num[b] = num[head] + 1
    BY Zenon, <1>3, NumFact DEF FailsEarly
  <2>3. good \in BOOLEAN
    BY Zenon
  <2>4. g \in ForkDb /\ g.head = f.head
    <3>1. num[b] - lib[b] + 1 \in Nat
      BY <1>1
    <3> QED
      BY Zenon, <3>1, SetMaxSizeType
  <2>5. /\ n \in Nat /\ n >= Len(log) /\ (n <= Len(log) \/ n <= lib[b])
        /\ \A i \in (Len(log) + 1)..n : MainBranchItem(f, i) # Genesis
    BY Zenon, LogReachFact DEF LogType, TypeOK
  <2>6. /\ LogUpTo(f, n) \in Seq(Block) /\ Len(LogUpTo(f, n)) = n
        /\ \A i \in 1..n : num[LogUpTo(f, n)[i]] = i
        /\ \A i \in 1..Len(log) : LogUpTo(f, n)[i] = log[i]
    BY Zenon, <2>5, LogUpToFact DEF LogType, TypeOK
  <2>7. /\ Commit(b) \in Nat /\ committed <= Commit(b) /\ Commit(b) <= num[head]
        /\ lib[b] <= Commit(b)
    BY <1>1, <2>2 DEF Commit
  <2> HIDE DEF n, good, g
  <2> QED
    BY <1>1, <2>1, <2>2, <2>3, <2>4, <2>5, <2>6, <2>7
<1> QED
  BY Zenon, <1>2, <1>3

LEMMA NextOfFact ==
    ASSUME NEW tip \in Block, head \in ancestors[tip], num[head] < num[tip]
    PROVE  /\ NextOf(tip) \in Block
           /\ NextOf(tip) \in ancestors[tip]
           /\ num[NextOf(tip)] = num[head] + 1
           /\ previous[NextOf(tip)] = head
           /\ NextOf(tip) # tip => num[NextOf(tip)] < num[tip]
<1> DEFINE b == NextOf(tip)
<1>1. /\ tip \in Id /\ num[tip] \in Nat /\ head \in Id /\ num[head] \in Nat
      /\ num[head] + 1 \in 0..num[tip]
  BY NumFact, AncestorAtUnique
<1>2. b \in ancestors[tip] /\ b \in Id /\ num[b] = num[head] + 1
  BY Zenon, <1>1, AncestorAtFact DEF NextOf
<1>3. b \in Block
  BY <1>1, <1>2, PreviousAssumption DEF Id
<1>4. previous[b] \in ancestors[tip] /\ num[previous[b]] = num[head]
  BY <1>1, <1>2, <1>3, NumFact, AncestorFact DEF ChainFact
<1>5. previous[b] = head
  BY <1>1, <1>4, AncestorFact DEF ChainFact
<1>6. b # tip => num[b] # num[tip]
  BY Zenon, <1>1, <1>2, AncestorFact DEF ChainFact
<1> QED
  BY <1>1, <1>2, <1>3, <1>5, <1>6

LEMMA OpenForkDbType ==
    ASSUME NEW b \in Id
    PROVE  OpenForkDb(b) \in ForkDb
BY Zenon, EmptyForkDbType, StartBlockType DEF OpenForkDb, Id

(***************************************************************************)
(* The node starts on a log whose blocks have the numbers of their places.  *)
(***************************************************************************)
LEMMA StartAtBasic ==
    ASSUME NEW l \in Seq(Block), \A i \in 1..Len(l) : num[l[i]] = i, StartAt(l)
    PROVE  BasicInv'
<1> DEFINE b == IF l = <<>> THEN Genesis ELSE l[Len(l)]
<1>1. b \in Id /\ num[b] = Len(l) /\ Len(l) \in Nat
  BY PreviousAssumption DEF Id
<1>2. /\ head' = b /\ committed' = num[b] /\ log' = l /\ fdb' = OpenForkDb(b)
      /\ phase' = "idle" /\ newTip' = Genesis /\ oldTip' = Genesis
  BY Zenon DEF StartAt
<1> HIDE DEF b
<1>3. TypeOK'
  BY Zenon, <1>1, <1>2, OpenForkDbType DEF TypeOK, Phases, Id
<1> QED
  BY <1>1, <1>2, <1>3 DEF BasicInv, PhaseOK, LogNumbered, LogWithinCommitted

LEMMA InitBasic == Init => BasicInv
<1> SUFFICES ASSUME Init PROVE BasicInv
  BY Zenon
<1>1. PICK b \in Id : /\ head = b /\ committed = num[b] /\ log = LogEndingIn(b)
                      /\ fdb = OpenForkDb(b) /\ phase = "idle"
                      /\ newTip = Genesis /\ oldTip = Genesis
  BY Zenon DEF Init
<1>2. num[b] \in Nat
  BY Zenon, PreviousAssumption
<1>3. \A n \in 1..num[b] : AncestorAt(b, n) \in Block /\ num[AncestorAt(b, n)] = n
  <2> SUFFICES ASSUME NEW n \in 1..num[b]
               PROVE  AncestorAt(b, n) \in Block /\ num[AncestorAt(b, n)] = n
    BY Zenon
  <2>1. n \in 0..num[b] /\ n # 0
    BY <1>2
  <2> QED
    BY Zenon, <2>1, AncestorAtFact, PreviousAssumption DEF Id
<1>4. log \in Seq(Block) /\ Len(log) = num[b] /\ \A n \in 1..num[b] : num[log[n]] = n
  BY <1>1, <1>2, <1>3 DEF LogEndingIn
<1>5. TypeOK
  BY Zenon, <1>1, <1>2, <1>4, OpenForkDbType DEF TypeOK, Phases, Id
<1> QED
  BY <1>1, <1>2, <1>4, <1>5 DEF BasicInv, PhaseOK, LogNumbered, LogWithinCommitted
-----------------------------------------------------------------------------
(***************************************************************************)
(* Every step keeps the types, the place of the head in a switch, and the   *)
(* log within what is committed.                                            *)
(***************************************************************************)
LEMMA PushExtendsBasic ==
    ASSUME BasicInv, NEW b \in Block, PushExtends(b)
    PROVE  BasicInv'
<1> DEFINE f == PushItem(fdb, b)
           r == Apply(f, b)
<1>1. /\ phase = "idle" /\ fdb \in ForkDb /\ f \in ForkDb
      /\ TypeOK /\ PhaseOK /\ LogNumbered /\ LogWithinCommitted
  BY Zenon, PushItemType DEF BasicInv, PushExtends, Accepts, TypeOK
<1>2. /\ head' = IF r.ok THEN b ELSE head
      /\ fdb' = IF r.ok THEN r.fdb ELSE Erase(r.fdb, {b}, {})
      /\ committed' = r.committed /\ log' = r.log
      /\ phase' = phase /\ newTip' = newTip /\ oldTip' = oldTip
  BY Zenon DEF PushExtends, switchVars
<1> HIDE DEF f, r
<1>3. /\ r.fdb \in ForkDb /\ r.ok \in BOOLEAN
      /\ r.committed \in Nat /\ r.committed <= num[head]
      /\ r.log \in Seq(Block) /\ Len(r.log) <= r.committed
      /\ \A i \in 1..Len(r.log) : num[r.log[i]] = i
      /\ r.ok => num[b] = num[head] + 1
  BY <1>1, ApplyFact DEF r
<1>4. fdb' \in ForkDb
  BY Zenon, <1>2, <1>3, EraseType
<1>5. num[head] \in Nat /\ head' \in Id /\ num[head'] \in Nat /\ num[head] <= num[head']
  BY <1>1, <1>2, <1>3, NumFact, PreviousAssumption DEF TypeOK
<1>6. TypeOK'
  BY Zenon, <1>1, <1>2, <1>3, <1>4, <1>5 DEF TypeOK
<1>7. PhaseOK'
  BY Zenon, <1>1, <1>2 DEF PhaseOK
<1>8. LogNumbered' /\ LogWithinCommitted'
  BY <1>2, <1>3, <1>5 DEF LogNumbered, LogWithinCommitted
<1> QED
  BY Zenon, <1>6, <1>7, <1>8 DEF BasicInv

LEMMA PushSwitchesBasic ==
    ASSUME BasicInv, NEW b \in Block, PushSwitches(b)
    PROVE  BasicInv'
<1> DEFINE f == PushItem(fdb, b)
<1>1. /\ fdb \in ForkDb /\ f \in ForkDb /\ f.head \in Block /\ f.index \subseteq Block
      /\ TypeOK /\ PhaseOK /\ LogNumbered /\ LogWithinCommitted
  BY Zenon, PushItemType DEF BasicInv, TypeOK, ForkDb
<1>2. /\ fdb' = f /\ phase' = "pop" /\ newTip' = f.head /\ oldTip' = head
      /\ head' = head /\ committed' = committed /\ log' = log
      /\ num[f.head] > num[head] /\ head \in f.index
  BY Zenon DEF PushSwitches, CanFetchBranches
<1> HIDE DEF f
<1>3. TypeOK'
  BY Zenon, <1>1, <1>2 DEF TypeOK, Phases, Id
<1>4. head \in Branch(ForkPoint(f.head, head), head)
  BY Zenon, <1>1, <1>2, ForkPointFact, NumFact DEF Branch
<1>5. PhaseOK'
  BY Zenon, <1>1, <1>2, <1>4 DEF PhaseOK, fork
<1> QED
  BY Zenon, <1>1, <1>2, <1>3, <1>5 DEF BasicInv, LogNumbered, LogWithinCommitted

LEMMA PushAsideBasic ==
    ASSUME BasicInv, NEW b \in Block, PushToFork(b) \/ PushUnfetchable(b)
    PROVE  BasicInv'
<1>1. /\ fdb' = PushItem(fdb, b) /\ phase' = phase /\ newTip' = newTip /\ oldTip' = oldTip
      /\ head' = head /\ committed' = committed /\ log' = log
      /\ phase = "idle"
  BY Zenon DEF PushToFork, PushUnfetchable, switchVars, Accepts
<1>2. TypeOK'
  BY Zenon, <1>1, PushItemType DEF BasicInv, TypeOK
<1> QED
  BY Zenon, <1>1, <1>2 DEF BasicInv, PhaseOK, LogNumbered, LogWithinCommitted

\* push_block is left with the head where it is.
LEMMA LeaveBasic ==
    ASSUME NEW f \in ForkDb, Leave(f), head' \in Id,
           committed' \in Nat, log' \in Seq(Block), LogNumbered', LogWithinCommitted'
    PROVE  BasicInv'
<1>1. fdb' \in ForkDb /\ phase' = "idle" /\ newTip' = Genesis /\ oldTip' = Genesis
  BY Zenon, ReleaseType DEF Leave
<1>2. TypeOK'
  BY Zenon, <1>1 DEF TypeOK, Phases, Id
<1> QED
  BY Zenon, <1>1, <1>2 DEF BasicInv, PhaseOK

LEMMA SwitchPopThrowsBasic == BasicInv /\ SwitchPopThrows => BasicInv'
<1> SUFFICES ASSUME BasicInv, SwitchPopThrows PROVE BasicInv'
  BY Zenon
<1>1. /\ fdb \in ForkDb /\ Leave(fdb)
      /\ head' = head /\ committed' = committed /\ log' = log
  BY Zenon DEF SwitchPopThrows, BasicInv, TypeOK
<1>2. LogNumbered' /\ LogWithinCommitted'
  BY Zenon, <1>1 DEF BasicInv, LogNumbered, LogWithinCommitted
<1> QED
  BY Zenon, <1>1, <1>2, LeaveBasic DEF BasicInv, TypeOK

\* The tips and the fork point of a switch.
LEMMA SwitchFact ==
    ASSUME BasicInv, phase # "idle"
    PROVE  /\ newTip \in Block /\ oldTip \in Block /\ num[newTip] > num[oldTip]
           /\ fork \in Id /\ num[fork] \in Nat
           /\ fork \in ancestors[newTip] /\ fork \in ancestors[oldTip]
           /\ num[fork] < num[newTip] /\ num[fork] < num[oldTip]
           /\ \A q \in ancestors[newTip] \cap ancestors[oldTip] :
                q # newTip /\ q # oldTip => num[q] <= num[fork]
<1>1. newTip \in Block /\ oldTip \in Block /\ num[newTip] > num[oldTip]
  BY Zenon DEF BasicInv, PhaseOK
<1> QED
  BY Zenon, <1>1, ForkPointFact, PreviousAssumption DEF fork

(***************************************************************************)
(* pop_block goes one block down the branch it started on, or stays when    *)
(* the undo history is exhausted.                                           *)
(***************************************************************************)
LEMMA UndoneHeadFact ==
    ASSUME TypeOK, LogWithinCommitted
    PROVE  /\ UndoneHead \in ancestors[head] /\ UndoneHead \in Id
           /\ num[UndoneHead] \in Nat /\ committed <= num[UndoneHead]
           /\ num[UndoneHead] = num[head] \/ num[UndoneHead] = num[head] - 1
<1>1. head \in Id /\ num[head] \in Nat /\ committed \in Nat /\ committed <= num[head]
      /\ head \in ancestors[head]
  BY Zenon, PreviousAssumption, AncestorFact DEF TypeOK, LogWithinCommitted, ChainFact
<1>2. CASE num[head] > committed
  <2>1. head \in Block
    BY <1>1, <1>2, PreviousAssumption DEF Id
  <2> QED
    BY <1>1, <1>2, <2>1, NumFact DEF UndoneHead
<1>3. CASE ~(num[head] > committed)
  BY Zenon, <1>1, <1>3 DEF UndoneHead
<1> QED
  BY Zenon, <1>2, <1>3

\* A block below h on the branch above the fork point, or the fork point itself.
LEMMA BranchDown ==
    ASSUME NEW tip \in Block, NEW p \in ancestors[tip], NEW h \in Branch(p, tip),
           NEW u \in ancestors[h], num[u] >= num[h] - 1, u # p
    PROVE  u \in Branch(p, tip)
<1>1. h \in ancestors[tip] /\ num[h] > num[p] /\ h \in Id /\ num[h] \in Nat
      /\ p \in Id /\ num[p] \in Nat /\ tip \in Id
  BY Zenon, NumFact, AncestorAtUnique, PreviousAssumption DEF Branch
<1>2. u \in ancestors[tip] /\ u \in Id /\ num[u] \in Nat
  BY Zenon, <1>1, AncestorFact, AncestorAtUnique, PreviousAssumption DEF ChainFact
<1>3. num[u] # num[p]
  BY Zenon, <1>1, <1>2, AncestorFact DEF ChainFact
<1> QED
  BY <1>1, <1>2, <1>3 DEF Branch

LEMMA SwitchPopBasic == BasicInv /\ SwitchPop => BasicInv'
<1> SUFFICES ASSUME BasicInv, SwitchPop PROVE BasicInv'
  BY Zenon
<1> DEFINE u == UndoneHead
<1>1. /\ phase \in {"pop", "unwind"} /\ CanPop(fdb) /\ fdb \in ForkDb
      /\ head' = u /\ fdb' = PopItem(fdb)
      /\ committed' = committed /\ log' = log /\ newTip' = newTip /\ oldTip' = oldTip
      /\ phase' = IF u # fork THEN phase ELSE IF phase = "pop" THEN "apply" ELSE "restore"
      /\ TypeOK /\ PhaseOK /\ LogNumbered /\ LogWithinCommitted
  BY Zenon DEF SwitchPop, CanPopBlock, BasicInv, TypeOK
<1>2. /\ u \in ancestors[head] /\ u \in Id /\ num[u] \in Nat /\ committed <= num[u]
      /\ num[u] >= num[head] - 1
  BY <1>1, UndoneHeadFact, PreviousAssumption DEF TypeOK
<1>3. /\ newTip \in Block /\ oldTip \in Block /\ num[newTip] > num[oldTip]
      /\ fork \in ancestors[newTip] /\ fork \in ancestors[oldTip]
      /\ num[fork] < num[newTip] /\ num[fork] < num[oldTip] /\ num[fork] \in Nat
  BY Zenon, <1>1, SwitchFact
<1>4. fork' = fork
  BY Zenon, <1>1 DEF fork
<1> HIDE DEF u
<1>5. TypeOK'
  BY Zenon, <1>1, <1>2, PopItemType DEF TypeOK, Phases
<1>6. PhaseOK'
  <2>1. CASE u = fork
    BY <1>1, <1>2, <1>3, <1>4, <2>1 DEF PhaseOK
  <2>2. CASE u # fork /\ phase = "pop"
    <3>1. u \in Branch(fork, oldTip)
      BY Zenon, <1>1, <1>2, <1>3, <2>2, BranchDown DEF PhaseOK
    <3> QED
      BY Zenon, <1>1, <1>3, <1>4, <2>2, <3>1 DEF PhaseOK
  <2>3. CASE u # fork /\ phase = "unwind"
    <3>1. u \in Branch(fork, newTip)
      BY Zenon, <1>1, <1>2, <1>3, <2>3, BranchDown DEF PhaseOK
    <3> QED
      BY Zenon, <1>1, <1>3, <1>4, <2>3, <3>1 DEF PhaseOK
  <2> QED
    BY Zenon, <1>1, <2>1, <2>2, <2>3
<1> QED
  BY Zenon, <1>1, <1>2, <1>5, <1>6 DEF BasicInv, LogNumbered, LogWithinCommitted

LEMMA SwitchApplyBasic == BasicInv /\ SwitchApply => BasicInv'
<1> SUFFICES ASSUME BasicInv, SwitchApply PROVE BasicInv'
  BY Zenon
<1> DEFINE b == NextOf(newTip)
           r == Apply(fdb, b)
<1>1. /\ phase = "apply" /\ fdb \in ForkDb /\ r.ok
      /\ head' = b /\ committed' = r.committed /\ log' = r.log
      /\ IF b = newTip THEN Leave(r.fdb) ELSE fdb' = r.fdb /\ UNCHANGED switchVars
      /\ TypeOK /\ PhaseOK /\ LogNumbered /\ LogWithinCommitted
  BY Zenon DEF SwitchApply, BasicInv, TypeOK
<1>2. /\ newTip \in Block /\ oldTip \in Block /\ num[newTip] > num[oldTip]
      /\ head \in ancestors[newTip] /\ num[head] < num[newTip]
      /\ num[fork] <= num[head] /\ num[fork] \in Nat
  BY Zenon, <1>1, SwitchFact DEF PhaseOK
<1>3. /\ b \in Block /\ b \in ancestors[newTip] /\ num[b] = num[head] + 1
      /\ b # newTip => num[b] < num[newTip]
  BY Zenon, <1>2, NextOfFact
<1>4. b \in Id /\ num[b] \in Nat /\ num[head] \in Nat
  BY Zenon, <1>1, <1>3, NumFact, PreviousAssumption DEF TypeOK
<1> HIDE DEF b, r
<1>5. /\ r.fdb \in ForkDb
      /\ r.committed \in Nat /\ r.committed <= num[head]
      /\ r.log \in Seq(Block) /\ Len(r.log) <= r.committed
      /\ \A i \in 1..Len(r.log) : num[r.log[i]] = i
  BY Zenon, <1>1, <1>3, ApplyFact DEF r
<1>6. LogNumbered' /\ LogWithinCommitted'
  BY <1>1, <1>3, <1>4, <1>5 DEF LogNumbered, LogWithinCommitted
<1>7. CASE b = newTip
  BY Zenon, <1>1, <1>4, <1>5, <1>6, <1>7, LeaveBasic
<1>8. CASE b # newTip
  <2>1. /\ fdb' = r.fdb /\ phase' = phase /\ newTip' = newTip /\ oldTip' = oldTip
        /\ fork' = fork
    BY Zenon, <1>1, <1>8 DEF switchVars, fork
  <2>2. TypeOK'
    BY Zenon, <1>1, <1>4, <1>5, <2>1 DEF TypeOK
  <2>3. PhaseOK'
    BY <1>1, <1>2, <1>3, <1>4, <1>8, <2>1 DEF PhaseOK
  <2> QED
    BY Zenon, <1>6, <2>2, <2>3 DEF BasicInv
<1> QED
  BY Zenon, <1>7, <1>8

LEMMA SwitchApplyFailsBasic == BasicInv /\ SwitchApplyFails => BasicInv'
<1> SUFFICES ASSUME BasicInv, SwitchApplyFails PROVE BasicInv'
  BY Zenon
<1> DEFINE b == NextOf(newTip)
           r == Apply(fdb, b)
           E == Branch(head, newTip)
<1>1. /\ phase = "apply" /\ fdb \in ForkDb
      /\ head' = head /\ committed' = r.committed /\ log' = r.log
      /\ newTip' = newTip /\ oldTip' = oldTip
      /\ fdb' = SetHead(Erase(r.fdb, E, held), oldTip)
      /\ phase' = IF head = fork THEN "restore" ELSE "unwind"
      /\ TypeOK /\ PhaseOK /\ LogNumbered /\ LogWithinCommitted
  BY Zenon DEF SwitchApplyFails, BasicInv, TypeOK
<1>2. /\ newTip \in Block /\ oldTip \in Block /\ num[newTip] > num[oldTip]
      /\ head \in ancestors[newTip] /\ num[head] < num[newTip]
      /\ num[fork] <= num[head] /\ num[fork] \in Nat /\ num[fork] < num[oldTip]
      /\ fork \in ancestors[newTip] /\ fork \in ancestors[oldTip]
  BY Zenon, <1>1, SwitchFact DEF PhaseOK
<1>3. b \in Block /\ oldTip \in Id /\ newTip \in Id /\ head \in Id /\ num[head] \in Nat
  BY Zenon, <1>1, <1>2, NextOfFact, PreviousAssumption DEF TypeOK
<1> HIDE DEF b, r, E
<1>4. /\ r.fdb \in ForkDb
      /\ r.committed \in Nat /\ r.committed <= num[head]
      /\ r.log \in Seq(Block) /\ Len(r.log) <= r.committed
      /\ \A i \in 1..Len(r.log) : num[r.log[i]] = i
  BY <1>1, <1>3, ApplyFact DEF r
<1>5. LogNumbered' /\ LogWithinCommitted'
  BY <1>1, <1>4 DEF LogNumbered, LogWithinCommitted
<1>6. fdb' \in ForkDb
  BY Zenon, <1>1, <1>3, <1>4, EraseType, SetHeadType
<1>7. TypeOK'
  BY Zenon, <1>1, <1>3, <1>4, <1>6 DEF TypeOK, Phases
<1>8. head = fork \/ head \in Branch(fork, newTip)
  BY <1>2, <1>3, AncestorFact DEF Branch, ChainFact
<1>9. fork' = fork
  BY Zenon, <1>1 DEF fork
<1>10. PhaseOK'
  BY Zenon, <1>1, <1>2, <1>8, <1>9 DEF PhaseOK
<1> QED
  BY Zenon, <1>5, <1>7, <1>10 DEF BasicInv

LEMMA SwitchRestoreBasic == BasicInv /\ SwitchRestore => BasicInv'
<1> SUFFICES ASSUME BasicInv, SwitchRestore PROVE BasicInv'
  BY Zenon
<1> DEFINE b == NextOf(oldTip)
           r == Apply(fdb, b)
<1>1. /\ phase = "restore" /\ fdb \in ForkDb
      /\ head' = IF r.ok THEN b ELSE head
      /\ committed' = r.committed /\ log' = r.log
      /\ IF b = oldTip \/ ~r.ok THEN Leave(r.fdb) ELSE fdb' = r.fdb /\ UNCHANGED switchVars
      /\ TypeOK /\ PhaseOK /\ LogNumbered /\ LogWithinCommitted
  BY Zenon DEF SwitchRestore, BasicInv, TypeOK
<1>2. /\ newTip \in Block /\ oldTip \in Block /\ num[newTip] > num[oldTip]
      /\ head \in ancestors[oldTip] /\ num[head] < num[oldTip]
      /\ num[fork] <= num[head] /\ num[fork] \in Nat
  BY Zenon, <1>1, SwitchFact DEF PhaseOK
<1>3. /\ b \in Block /\ b \in ancestors[oldTip] /\ num[b] = num[head] + 1
      /\ b # oldTip => num[b] < num[oldTip]
  BY Zenon, <1>2, NextOfFact
<1>4. b \in Id /\ num[b] \in Nat /\ head \in Id /\ num[head] \in Nat
  BY Zenon, <1>1, <1>3, NumFact, PreviousAssumption DEF TypeOK
<1> HIDE DEF b, r
<1>5. /\ r.fdb \in ForkDb /\ r.ok \in BOOLEAN
      /\ r.committed \in Nat /\ r.committed <= num[head]
      /\ r.log \in Seq(Block) /\ Len(r.log) <= r.committed
      /\ \A i \in 1..Len(r.log) : num[r.log[i]] = i
  BY Zenon, <1>1, <1>3, ApplyFact DEF r
<1>6. LogNumbered' /\ LogWithinCommitted' /\ head' \in Id
  BY <1>1, <1>3, <1>4, <1>5 DEF LogNumbered, LogWithinCommitted
<1>7. CASE b = oldTip \/ ~r.ok
  BY Zenon, <1>1, <1>4, <1>5, <1>6, <1>7, LeaveBasic
<1>8. CASE ~(b = oldTip \/ ~r.ok)
  <2>1. /\ fdb' = r.fdb /\ phase' = phase /\ newTip' = newTip /\ oldTip' = oldTip
        /\ fork' = fork /\ head' = b
    BY Zenon, <1>1, <1>8 DEF switchVars, fork
  <2>2. TypeOK'
    BY Zenon, <1>1, <1>4, <1>5, <2>1 DEF TypeOK
  <2>3. PhaseOK'
    BY <1>1, <1>2, <1>3, <1>4, <1>8, <2>1 DEF PhaseOK
  <2> QED
    BY Zenon, <1>6, <2>2, <2>3 DEF BasicInv
<1> QED
  BY Zenon, <1>7, <1>8

(***************************************************************************)
(* A process killed inside apply_block restarts on the log as far as it was *)
(* written.                                                                 *)
(***************************************************************************)
LEMMA KilledInApplyFact ==
    ASSUME BasicInv, NEW b \in Block, KilledInApply(b)
    PROVE  \E f \in ForkDb, n \in Nat :
             /\ f = IF phase = "idle" THEN PushItem(fdb, b) ELSE fdb
             /\ n >= Len(log) /\ n <= LogReach(f, b)
             /\ \A i \in (Len(log) + 1)..n : MainBranchItem(f, i) # Genesis
             /\ LogUpTo(f, n) \in Seq(Block) /\ Len(LogUpTo(f, n)) = n
             /\ \A i \in 1..n : num[LogUpTo(f, n)[i]] = i
             /\ \A i \in 1..Len(log) : LogUpTo(f, n)[i] = log[i]
             /\ \A i \in (Len(log) + 1)..n : LogUpTo(f, n)[i] = MainBranchItem(f, i)
             /\ StartAt(LogUpTo(f, n))
<1> DEFINE f == IF phase = "idle" THEN PushItem(fdb, b) ELSE fdb
<1>1. f \in ForkDb /\ LogType /\ Len(log) \in Nat /\ LogNumbered
  BY PushItemType DEF BasicInv, TypeOK, LogType
<1>2. PICK n \in Len(log)..LogReach(f, b) : StartAt(LogUpTo(f, n))
  BY Zenon DEF KilledInApply
<1> HIDE DEF f
<1>3. /\ LogReach(f, b) \in Nat
      /\ \A i \in (Len(log) + 1)..LogReach(f, b) : MainBranchItem(f, i) # Genesis
  BY Zenon, <1>1, LogReachFact
<1>4. /\ n \in Nat /\ n >= Len(log) /\ n <= LogReach(f, b)
      /\ \A i \in (Len(log) + 1)..n : MainBranchItem(f, i) # Genesis
  BY <1>1, <1>2, <1>3
<1>5. /\ LogUpTo(f, n) \in Seq(Block) /\ Len(LogUpTo(f, n)) = n
      /\ \A i \in 1..n : num[LogUpTo(f, n)[i]] = i
      /\ \A i \in 1..Len(log) : LogUpTo(f, n)[i] = log[i]
      /\ \A i \in (Len(log) + 1)..n : LogUpTo(f, n)[i] = MainBranchItem(f, i)
  BY Zenon, <1>1, <1>4, LogUpToFact
<1> QED
  BY Zenon, <1>1, <1>2, <1>4, <1>5 DEF f

LEMMA RestartBasic == BasicInv /\ Restart => BasicInv'
BY StartAtBasic DEF Restart, BasicInv, TypeOK, LogNumbered

LEMMA KilledInApplyBasic ==
    ASSUME BasicInv, NEW b \in Block, KilledInApply(b)
    PROVE  BasicInv'
BY Zenon, KilledInApplyFact, StartAtBasic

LEMMA NextBasic == BasicInv /\ [Next]_vars => BasicInv'
<1> SUFFICES ASSUME BasicInv, [Next]_vars PROVE BasicInv'
  BY Zenon
<1>1. CASE UNCHANGED vars
  BY Zenon, <1>1 DEF vars, BasicInv, TypeOK, PhaseOK, fork, LogNumbered, LogWithinCommitted
<1>2. ASSUME NEW b \in Block, PushBlock(b) PROVE BasicInv'
  BY Zenon, <1>2, PushExtendsBasic, PushSwitchesBasic, PushAsideBasic DEF PushBlock
<1>3. CASE SwitchStep
  BY Zenon, <1>3, SwitchPopBasic, SwitchPopThrowsBasic, SwitchApplyBasic,
     SwitchApplyFailsBasic, SwitchRestoreBasic DEF SwitchStep
<1>4. CASE Restart
  BY Zenon, <1>4, RestartBasic
<1>5. ASSUME NEW b \in Block, KilledInApply(b) PROVE BasicInv'
  BY Zenon, <1>5, KilledInApplyBasic
<1> QED
  BY Zenon, <1>1, <1>2, <1>3, <1>4, <1>5 DEF Next

(***************************************************************************)
(* The state of block processing is well typed, the head is where the step  *)
(* of the switch says it is, and the blocks of the log have the numbers of  *)
(* their places: for every tree, with or without blocks handed in twice.    *)
(***************************************************************************)
THEOREM Basic == Spec => []BasicInv
<1>1. Init => BasicInv
  BY Zenon, InitBasic
<1>2. BasicInv /\ [Next]_vars => BasicInv'
  BY NextBasic
<1> QED
  BY <1>1, <1>2, PTL DEF Spec

(***************************************************************************)
(* Types of the variables of database, for every tree of blocks.            *)
(***************************************************************************)
THEOREM TypeCorrect == Spec => []TypeOK
<1>1. BasicInv => TypeOK
  BY DEF BasicInv
<1> QED
  BY <1>1, Basic, PTL

(***************************************************************************)
(* The block log never runs ahead of the committed revision nor that of the *)
(* head, whichever block fails wherever in _apply_block.                    *)
(***************************************************************************)
THEOREM LogCommitted == Spec => []LogWithinCommitted
<1>1. BasicInv => LogWithinCommitted
  BY DEF BasicInv
<1> QED
  BY <1>1, Basic, PTL

(***************************************************************************)
(* No step of block processing, restarts and kills included, removes or     *)
(* replaces a block of the block log.                                       *)
(***************************************************************************)
THEOREM AppendOnly == Spec => LogAppendOnly
<1> DEFINE Kept(l) == Len(log) <= Len(l) /\ \A n \in DOMAIN log : l[n] = log[n]
<1>1. ASSUME BasicInv, [Next]_vars PROVE UNCHANGED vars \/ Kept(log')
  <2> USE <1>1
  <2>1. TypeOK /\ LogNumbered /\ LogWithinCommitted /\ log \in Seq(Block)
    BY Zenon DEF BasicInv, TypeOK
  <2>2. Kept(log)
    BY <2>1
  <2>3. ASSUME NEW f \in ForkDb, NEW b \in Block, log' = Apply(f, b).log PROVE Kept(log')
    <3> DEFINE r == Apply(f, b)
    <3>1. Len(log) <= Len(r.log) /\ \A i \in 1..Len(log) : r.log[i] = log[i]
      BY <2>1, ApplyFact
    <3> HIDE DEF r
    <3>2. log' = r.log /\ DOMAIN log = 1..Len(log)
      BY <2>1, <2>3 DEF r
    <3> QED
      BY Zenon, <3>1, <3>2
  <2>4. ASSUME NEW b \in Block, PushBlock(b) PROVE Kept(log')
    <3>1. PushItem(fdb, b) \in ForkDb
      BY Zenon, <2>1, PushItemType DEF TypeOK
    <3>2. log' = log \/ log' = Apply(PushItem(fdb, b), b).log
      BY Zenon, <2>4 DEF PushBlock, PushExtends, PushToFork, PushUnfetchable, PushSwitches
    <3>3. CASE log' = log
      BY Zenon, <2>2, <3>3
    <3>4. CASE log' = Apply(PushItem(fdb, b), b).log
      BY Zenon, <2>3, <3>1, <3>4
    <3> QED
      BY Zenon, <3>2, <3>3, <3>4
  <2>5. CASE SwitchPop \/ SwitchPopThrows
    BY Zenon, <2>2, <2>5 DEF SwitchPop, SwitchPopThrows
  <2>6. CASE SwitchApply \/ SwitchApplyFails
    <3>1. NextOf(newTip) \in Block
      BY Zenon, <2>6, NextOfFact, SwitchFact DEF SwitchApply, SwitchApplyFails, BasicInv, PhaseOK
    <3>2. fdb \in ForkDb /\ log' = Apply(fdb, NextOf(newTip)).log
      BY Zenon, <2>1, <2>6 DEF SwitchApply, SwitchApplyFails, TypeOK
    <3> QED
      BY Zenon, <2>3, <3>1, <3>2
  <2>7. CASE SwitchRestore
    <3>1. NextOf(oldTip) \in Block
      BY Zenon, <2>7, NextOfFact, SwitchFact DEF SwitchRestore, BasicInv, PhaseOK
    <3>2. fdb \in ForkDb /\ log' = Apply(fdb, NextOf(oldTip)).log
      BY Zenon, <2>1, <2>7 DEF SwitchRestore, TypeOK
    <3> QED
      BY Zenon, <2>3, <3>1, <3>2
  <2>8. CASE Restart
    BY Zenon, <2>2, <2>8 DEF Restart, StartAt
  <2>9. ASSUME NEW b \in Block, KilledInApply(b) PROVE Kept(log')
    <3>1. PICK f \in ForkDb, n \in Nat :
            /\ n >= Len(log) /\ Len(LogUpTo(f, n)) = n
            /\ \A i \in 1..Len(log) : LogUpTo(f, n)[i] = log[i]
            /\ StartAt(LogUpTo(f, n))
      BY Zenon, <2>9, KilledInApplyFact
    <3>2. log' = LogUpTo(f, n)
      BY Zenon, <3>1 DEF StartAt
    <3> QED
      BY <2>1, <3>1, <3>2
  <2> HIDE DEF Kept
  <2> QED
    BY Zenon, <2>4, <2>5, <2>6, <2>7, <2>8, <2>9 DEF Next, SwitchStep
<1>2. BasicInv /\ [Next]_vars => [/\ Len(log) <= Len(log')
                                  /\ \A n \in DOMAIN log : log'[n] = log[n]]_vars
  BY <1>1
<1> QED
  BY <1>2, Basic, PTL DEF Spec, LogAppendOnly

-----------------------------------------------------------------------------
(***************************************************************************)
(* The block log is a prefix of the current chain, a committed block stays  *)
(* on the chain, and a failed switch ends with the old branch restored:     *)
(* for a node whose log has a block, on a tree with one first block, when   *)
(* no block is handed in twice.                                             *)
(***************************************************************************)
\* The last irreversible block number does not fall along a chain.
LEMMA LibMonotone ==
    ASSUME NEW b \in Id, NEW a \in ancestors[b]
    PROVE  lib[a] \in Nat /\ lib[b] \in Nat /\ lib[a] <= lib[b]
<1> DEFINE S == {n \in Nat : \A t \in Id : num[t] = n => \A s \in ancestors[t] : lib[s] <= lib[t]}
<1>1. 0 \in S
  <2>1. \A t \in Id : num[t] = 0 => t = Genesis
    BY NumFact DEF Id
  <2> QED
    BY <2>1, AncestorAssumption, LibAssumption
<1>2. ASSUME NEW n \in S PROVE n + 1 \in S
  <2> SUFFICES ASSUME NEW t \in Id, num[t] = n + 1, NEW s \in ancestors[t]
               PROVE  lib[s] <= lib[t]
    OBVIOUS
  <2>1. t \in Block
    BY PreviousAssumption DEF Id
  <2>2. num[previous[t]] = n /\ previous[t] \in Id
    BY <2>1, NumFact
  <2>3. s = t \/ s \in ancestors[previous[t]]
    BY <2>1, AncestorAssumption
  <2>4. s \in Id /\ lib[s] \in Nat /\ lib[t] \in Nat /\ lib[previous[t]] \in Nat
    BY Zenon, <2>2, AncestorAtUnique, LibAssumption
  <2>5. lib[previous[t]] <= lib[t]
    BY Zenon, <2>1, LibAssumption
  <2> QED
    BY <2>2, <2>3, <2>4, <2>5
<1> HIDE DEF S
<1>3. S = Nat
  BY Zenon, <1>1, <1>2, SetInduction DEF S
<1>4. num[b] \in S
  BY Zenon, <1>3, PreviousAssumption
<1> QED
  BY Zenon, <1>4, AncestorAtUnique, LibAssumption DEF S
-----------------------------------------------------------------------------
\* The fork database f keeps the blocks of C that are not logged.
Keeps(f, C) ==
    \A x \in f.index : \A a \in C : num[a] >= num[x] /\ num[a] > Len(log) => a \in f.index

\* It keeps those of the current chain, and its head is on a chain with the head.
OnChain(f) == /\ Keeps(f, ancestors[head])
              /\ \E tip \in Block : f.head \in ancestors[tip] /\ head \in ancestors[tip]

(***************************************************************************)
(* The item fetch_block_on_main_branch_by_number returns for a block that   *)
(* is not logged yet is the one of the current chain: the only item with    *)
(* its number, or the one reached from _head.                               *)
(***************************************************************************)
LEMMA LoggedOnChain ==
    ASSUME BasicInv, NEW f \in ForkDb, OnChain(f),
           NEW i \in (Len(log) + 1)..num[head], MainBranchItem(f, i) # Genesis
    PROVE  MainBranchItem(f, i) \in ancestors[head]
<1> DEFINE items == {b \in f.index : num[b] = i}
           a == AncestorAt(head, i)
           m == MainBranchItem(f, i)
<1>1. head \in Id /\ num[head] \in Nat /\ Len(log) \in Nat /\ i \in Nat /\ i > Len(log)
  BY PreviousAssumption DEF BasicInv, TypeOK
<1>2. a \in ancestors[head] /\ num[a] = i
  <2>1. i \in 0..num[head]
    BY <1>1
  <2> QED
    BY Zenon, <1>1, <2>1, AncestorAtFact
<1>3. CASE \E b \in items : items = {b}
  <2>1. PICK b \in items : items = {b}
    BY Zenon, <1>3
  <2>2. m = b
    BY Zenon, <2>1 DEF MainBranchItem
  <2>3. a \in f.index
    BY <1>1, <1>2, <2>1 DEF OnChain, Keeps
  <2>4. a = b
    BY Zenon, <1>2, <2>1, <2>3
  <2> QED
    BY Zenon, <1>2, <2>2, <2>4
<1>4. CASE ~\E b \in items : items = {b}
  <2>1. ReachedFromHead(f, i) /\ m = AncestorAt(f.head, i)
    BY Zenon, <1>4 DEF MainBranchItem
  <2>2. PICK tip \in Block : f.head \in ancestors[tip] /\ head \in ancestors[tip]
    BY Zenon DEF OnChain
  <2>3. tip \in Id /\ f.head \in Id /\ num[f.head] \in Nat
    BY Zenon, NumFact, PreviousAssumption DEF ForkDb
  <2>4. i \in 0..num[f.head]
    BY <1>1, <2>1, <2>3 DEF ReachedFromHead
  <2>5. m \in ancestors[f.head] /\ num[m] = i
    BY <2>1, <2>3, <2>4, AncestorAtFact
  <2>6. m \in ancestors[tip]
    BY Zenon, <2>2, <2>3, <2>5, AncestorFact DEF ChainFact
  <2> QED
    BY <1>1, <2>2, <2>3, <2>5, <2>6, ChainOrder
<1> QED
  BY Zenon, <1>3, <1>4

(***************************************************************************)
(* Whatever apply_block does, what it leaves in the log is on the chain and *)
(* the fork database keeps everything above what it keeps.  It succeeds     *)
(* only on a block that would apply again, and on every such block that has *)
(* nothing to log.                                                          *)
(***************************************************************************)
LEMMA ApplySafe ==
    ASSUME BasicInv, LogIsChainPrefix, NEW f \in ForkDb, OnChain(f), NEW b \in Block,
           BlockLinks(f), NEW r, r = Apply(f, b)
    PROVE  /\ \A i \in 1..Len(r.log) : r.log[i] \in ancestors[head]
           /\ r.fdb.index \subseteq f.index
           /\ \A x \in r.fdb.index : \A a \in f.index : num[a] >= num[x] => a \in r.fdb.index
           /\ BlockLinks(r.fdb)
           /\ phase = "idle" /\ ItemLinks(f) => ItemLinks(r.fdb)
           /\ r.ok => Applicable(b) /\ lib[b] <= Len(r.log)
           /\ previous[b] = head /\ Applicable(b) /\ lib[b] <= Len(log) => r.ok
<1>1. /\ TypeOK /\ LogNumbered /\ LogWithinCommitted /\ LogType
      /\ head \in Id /\ num[head] \in Nat /\ Len(log) \in Nat
      /\ lib[b] \in Nat /\ lib[b] < num[b] /\ num[b] \in Nat
      /\ lib[head] \in Nat /\ MaxUndoHistory \in Nat
      /\ failAt[b] \in {"never", "early", "late"}
  BY NumFact, PreviousAssumption, LibAssumption, UndoAssumption, FailAtAssumption
  DEF BasicInv, TypeOK, LogType
<1>2. \A i \in 1..Len(log) : log[i] \in ancestors[head]
  BY <1>1 DEF LogIsChainPrefix, LogType
<1>3. CASE FailsEarly(b)
  <2>1. r = [ok |-> FALSE, fdb |-> f, committed |-> committed, log |-> log]
    BY Zenon, <1>3 DEF Apply
  <2>2. ~(previous[b] = head /\ Applicable(b))
    BY <1>1, <1>3 DEF FailsEarly, Applicable
  <2> QED
    BY <1>2, <2>1, <2>2
<1>4. CASE ~FailsEarly(b)
  <2> DEFINE n == LogReach(f, b)
             logged == n >= lib[b]
             good == logged /\ failAt[b] # "late"
             s == num[b] - lib[b] + 1
             g == IF logged THEN SetMaxSize(f, s, held) ELSE f
             l == LogUpTo(f, n)
  <2>1. r = [ok |-> good, fdb |-> g, committed |-> Commit(b), log |-> l]
    BY Zenon, <1>4 DEF Apply
  <2>2. /\ previous[b] = head /\ num[b] = num[head] + 1 /\ failAt[b] # "early"
        /\ num[b] - lib[head] < MaxUndoHistory
    BY <1>1, <1>4, NumFact DEF FailsEarly
  <2>3. /\ n \in Nat /\ n >= Len(log) /\ (n <= Len(log) \/ n <= lib[b])
        /\ \A i \in (Len(log) + 1)..n : MainBranchItem(f, i) # Genesis
    BY Zenon, <1>1, LogReachFact
  <2>4. /\ Len(l) = n
        /\ \A i \in 1..Len(log) : l[i] = log[i]
        /\ \A i \in (Len(log) + 1)..n : l[i] = MainBranchItem(f, i)
    BY Zenon, <1>1, <2>3, LogUpToFact
  <2>5. \A i \in 1..n : l[i] \in ancestors[head]
    <3> SUFFICES ASSUME NEW i \in 1..n PROVE l[i] \in ancestors[head]
      BY Zenon
    <3>1. CASE i <= Len(log)
      BY <1>1, <1>2, <2>4, <3>1
    <3>2. CASE i > Len(log)
      <4>1. i \in (Len(log) + 1)..num[head] /\ i \in (Len(log) + 1)..n
        BY <1>1, <2>2, <2>3, <3>2
      <4> HIDE DEF n, l
      <4> QED
        BY Zenon, <2>3, <2>4, <4>1, LoggedOnChain
    <3> QED
      BY <1>1, <2>3, <3>1, <3>2
  <2>6. s \in Nat
    BY <1>1
  <2>7. /\ g.index \subseteq f.index /\ BlockLinks(g)
        /\ \A x \in g.index : \A a \in f.index : num[a] >= num[x] => a \in g.index
        /\ phase = "idle" /\ ItemLinks(f) => ItemLinks(g)
    <3> HIDE DEF s
    <3>1. CASE logged
      <4>1. phase = "idle" => held = {}
        BY Zenon DEF held
      <4>2. g = SetMaxSize(f, s, held)
        BY Zenon, <3>1
      <4> HIDE DEF g
      <4>3. g.index \subseteq f.index
        <5>1. g.index = f.index \ {x \in f.index : num[x] < Oldest([f EXCEPT !.max = s])}
          BY Zenon, <2>6, <4>2, SetMaxSizeType
        <5> QED
          BY Zenon, <5>1
      <4>4. BlockLinks(g) /\ (held = {} /\ ItemLinks(f) => ItemLinks(g))
        BY Zenon, <2>6, <4>2, SetMaxSizeLinks
      <4>5. \A x \in g.index : \A a \in f.index : num[a] >= num[x] => a \in g.index
        BY Zenon, <2>6, <4>2, SetMaxSizeKeeps
      <4> QED
        BY Zenon, <4>1, <4>3, <4>4, <4>5
    <3>2. CASE ~logged
      BY Zenon, <3>2
    <3> QED
      BY Zenon, <3>1, <3>2
  <2>8. Applicable(b) <=> failAt[b] # "late"
    BY Zenon, <1>1, <2>2 DEF Applicable
  <2>9. good => Applicable(b) /\ lib[b] <= n
    BY Zenon, <1>1, <2>3, <2>8
  <2>10. Applicable(b) /\ lib[b] <= Len(log) => good
    BY <1>1, <2>3, <2>8
  <2> HIDE DEF n, good, g, l
  <2> QED
    BY <2>1, <2>4, <2>5, <2>7, <2>9, <2>10
<1> QED
  BY Zenon, <1>3, <1>4
-----------------------------------------------------------------------------
(***************************************************************************)
(* A block _push_block accepts is new and builds on an item.                *)
(***************************************************************************)
LEMMA AcceptsFact ==
    ASSUME IInv, ~Redelivery, OneFirstBlock, NEW b \in Block, Accepts(b)
    PROVE  phase = "idle" /\ b \notin fdb.index /\ previous[b] \in fdb.index
<1>1. phase = "idle" /\ ~IsKnownBlock(b) /\ ~Unlinkable(fdb, b)
  BY Zenon DEF Accepts
<1>2. fdb.head \in Block /\ log \in Seq(Block) /\ log # <<>>
  BY Zenon DEF IInv, LinksOK, BlockLinks, BasicInv, TypeOK
<1>3. previous[b] # Genesis
  <2> SUFFICES ASSUME previous[b] = Genesis PROVE FALSE
    BY Zenon
  <2>1. 1 \in DOMAIN log /\ log[1] \in Block /\ num[log[1]] = 1
    BY <1>2 DEF IInv, LogIsChainPrefix
  <2>2. num[b] = 1 /\ num[previous[log[1]]] = 0 /\ previous[log[1]] \in Id
    BY <2>1, NumFact, PreviousAssumption
  <2>3. previous[log[1]] = Genesis
    BY <2>2, NumFact DEF Id
  <2>4. log[1] = b
    BY Zenon, <2>1, <2>3 DEF OneFirstBlock
  <2> QED
    BY Zenon, <1>1, <2>1, <2>2, <2>4 DEF IsKnownBlock
<1> QED
  BY Zenon, <1>1, <1>2, <1>3, GenesisAssumption DEF Unlinkable, IsKnownBlock

LEMMA PushKeeps ==
    ASSUME NEW f \in ForkDb, NEW b \in Block, previous[b] \in f.index,
           NEW C \in SUBSET Id, Keeps(f, C), LogType
    PROVE  Keeps(PushItem(f, b), C)
<1>1. PushItem(f, b).index = f.index \cup {b}
  BY Zenon, PushItemType
<1>2. /\ num[b] = num[previous[b]] + 1 /\ num[previous[b]] \in Nat
      /\ \A a \in C : num[a] \in Nat
  BY Zenon, NumFact, PreviousAssumption
<1> QED
  BY <1>1, <1>2 DEF Keeps

\* Outside of a switch only the chain of the head matters.
LEMMA IdleChains ==
    ASSUME BasicInv, phase = "idle"
    PROVE  /\ ChainsKept <=> Keeps(fdb, ancestors[head])
           /\ AppliedOK <=> /\ \A a \in ancestors[head] \ {Genesis} : Applicable(a)
                            /\ lib[head] <= Len(log)
<1>1. /\ oldTip = Genesis /\ ancestors[oldTip] = {Genesis} /\ num[Genesis] = 0
      /\ lib[oldTip] = 0 /\ Len(log) \in Nat /\ head \in Id /\ ancestors[head] \subseteq Id
  BY AncestorAssumption, PreviousAssumption, LibAssumption
  DEF BasicInv, PhaseOK, TypeOK
<1>2. Chains = ancestors[head] \cup {Genesis}
  BY Zenon, <1>1 DEF Chains
<1>3. \A x \in fdb.index : ~(num[Genesis] >= num[x] /\ num[Genesis] > Len(log))
  BY <1>1
<1> QED
  BY <1>1, <1>2, <1>3 DEF ChainsKept, AppliedOK, Keeps

(***************************************************************************)
(* Assemble the invariant outside of a switch from its parts.               *)
(***************************************************************************)
LEMMA IdleSafe ==
    ASSUME BasicInv', phase' = "idle", log' # <<>>,
           \A i \in 1..Len(log') : log'[i] \in ancestors[head'],
           BlockLinks(fdb'), ItemLinks(fdb'),
           \A x \in fdb'.index : \A a \in ancestors[head'] :
             num[a] >= num[x] /\ num[a] > Len(log') => a \in fdb'.index,
           \A a \in ancestors[head'] \ {Genesis} : Applicable(a),
           lib[head'] <= Len(log')
    PROVE  IInv'
<1>1. LogIsChainPrefix'
  BY DEF LogIsChainPrefix, BasicInv, LogNumbered, TypeOK
<1>2. LinksOK'
  BY Zenon DEF LinksOK
<1>3. ChainsKept' /\ AppliedOK'
  <2>1. /\ oldTip' = Genesis /\ ancestors[oldTip'] = {Genesis} /\ num[Genesis] = 0
        /\ lib[oldTip'] = 0 /\ Len(log') \in Nat
    BY SMTT(60), AncestorAssumption, PreviousAssumption, LibAssumption
    DEF BasicInv, PhaseOK, TypeOK
  <2>2. Chains' = ancestors[head'] \cup {Genesis}
    BY Zenon, <2>1 DEF Chains
  <2>3. \A x \in fdb'.index : ~(num[Genesis] >= num[x] /\ num[Genesis] > Len(log'))
    BY <2>1
  <2> QED
    BY <2>1, <2>2, <2>3 DEF ChainsKept, AppliedOK
<1> QED
  BY Zenon, <1>1, <1>2, <1>3 DEF IInv
-----------------------------------------------------------------------------
LEMMA PushExtendsSafe ==
    ASSUME IInv, ~Redelivery, OneFirstBlock, NEW b \in Block, PushExtends(b)
    PROVE  IInv'
<1> DEFINE f == PushItem(fdb, b)
           r == Apply(f, b)
<1>1. /\ BasicInv /\ BasicInv' /\ LogIsChainPrefix /\ fdb \in ForkDb /\ head \in Id
      /\ TypeOK /\ LogNumbered /\ LogWithinCommitted /\ LogType /\ log # <<>>
  BY Zenon, PushExtendsBasic DEF IInv, BasicInv, TypeOK, LogType
<1>2. /\ Accepts(b) /\ previous[f.head] = head
      /\ head' = IF r.ok THEN b ELSE head
      /\ fdb' = IF r.ok THEN r.fdb ELSE Erase(r.fdb, {b}, {})
      /\ log' = r.log
      /\ phase' = phase
  BY Zenon DEF PushExtends, switchVars
<1>3. phase = "idle" /\ b \notin fdb.index /\ previous[b] \in fdb.index
  BY Zenon, <1>2, AcceptsFact
<1>4. /\ f \in ForkDb /\ f.index = fdb.index \cup {b} /\ f.head \in Block
      /\ BlockLinks(f) /\ ItemLinks(f)
  BY Zenon, <1>1, <1>3, PushItemType, PushItemLinks DEF IInv, LinksOK
<1>5. /\ Keeps(fdb, ancestors[head]) /\ lib[head] <= Len(log)
      /\ \A a \in ancestors[head] \ {Genesis} : Applicable(a)
  BY Zenon, <1>1, <1>3, IdleChains DEF IInv
<1>6. Keeps(f, ancestors[head])
  <2>1. ancestors[head] \in SUBSET Id
    BY Zenon, <1>1, AncestorAssumption
  <2> QED
    BY Zenon, <1>1, <1>3, <1>5, <2>1, PushKeeps
<1>7. OnChain(f)
  BY Zenon, <1>2, <1>4, <1>6, NumFact DEF OnChain
<1> HIDE DEF f, r
<1>8. /\ r.fdb \in ForkDb
      /\ r.log \in Seq(Block) /\ Len(log) <= Len(r.log)
      /\ r.ok => previous[b] = head /\ num[b] = num[head] + 1
  BY Zenon, <1>1, <1>4, ApplyFact DEF r
<1>9. /\ \A i \in 1..Len(r.log) : r.log[i] \in ancestors[head]
      /\ r.fdb.index \subseteq f.index
      /\ \A x \in r.fdb.index : \A a \in f.index : num[a] >= num[x] => a \in r.fdb.index
      /\ BlockLinks(r.fdb) /\ ItemLinks(r.fdb)
      /\ r.ok => Applicable(b) /\ lib[b] <= Len(r.log)
  BY Zenon, <1>1, <1>3, <1>4, <1>7, ApplySafe DEF r
<1>10. /\ log' # <<>> /\ Len(log) \in Nat /\ Len(r.log) \in Nat
       /\ \A a \in ancestors[head] : num[a] \in Nat
  BY <1>1, <1>2, <1>8, AncestorAssumption, PreviousAssumption
<1>11. CASE r.ok
  <2>1. ancestors[b] = ancestors[head] \cup {b}
    BY Zenon, <1>8, <1>11, AncestorAssumption
  <2>2. \A x \in r.fdb.index : \A a \in ancestors[b] :
          num[a] >= num[x] /\ num[a] > Len(r.log) => a \in r.fdb.index
    <3> SUFFICES ASSUME NEW x \in r.fdb.index, NEW a \in ancestors[b],
                        num[a] >= num[x], num[a] > Len(r.log)
                 PROVE  a \in r.fdb.index
      BY Zenon
    <3>1. a \in f.index
      BY SMTT(60), <1>4, <1>6, <1>8, <1>9, <1>10, <2>1 DEF Keeps
    <3> QED
      BY Zenon, <1>9, <3>1
  <2>3. head' = b /\ fdb' = r.fdb
    BY Zenon, <1>2, <1>11
  <2>4. \A i \in 1..Len(r.log) : r.log[i] \in ancestors[b]
    BY Zenon, <1>9, <2>1
  <2>5. \A a \in ancestors[b] \ {Genesis} : Applicable(a)
    BY Zenon, <1>5, <1>9, <1>11, <2>1
  <2> QED
    BY Zenon, <1>1, <1>2, <1>3, <1>9, <1>10, <1>11, <2>2, <2>3, <2>4, <2>5, IdleSafe
<1>12. CASE ~r.ok
  <2> DEFINE g == Erase(r.fdb, {b}, {})
  <2>1. head' = head /\ fdb' = g
    BY Zenon, <1>2, <1>12
  <2>2. g.index = r.fdb.index \ {b} /\ BlockLinks(g) /\ ItemLinks(g)
    BY Zenon, <1>8, <1>9, EraseType, EraseLinks
  <2> HIDE DEF g
  <2>3. \A x \in g.index : \A a \in ancestors[head] :
          num[a] >= num[x] /\ num[a] > Len(r.log) => a \in g.index
    <3> SUFFICES ASSUME NEW x \in g.index, NEW a \in ancestors[head],
                        num[a] >= num[x], num[a] > Len(r.log)
                 PROVE  a \in g.index
      BY Zenon
    <3>1. x \in fdb.index /\ x \in r.fdb.index
      BY Zenon, <1>4, <1>9, <2>2
    <3>2. a \in fdb.index
      BY <1>5, <1>8, <1>10, <3>1 DEF Keeps
    <3> QED
      BY Zenon, <1>3, <1>4, <1>9, <2>2, <3>1, <3>2
  <2>4. lib[head] <= Len(r.log)
    BY <1>1, <1>5, <1>8, <1>10, LibAssumption
  <2> QED
    BY Zenon, <1>1, <1>2, <1>3, <1>5, <1>9, <1>10, <2>1, <2>2, <2>3, <2>4, IdleSafe
<1> QED
  BY Zenon, <1>11, <1>12

LEMMA PushAsideSafe ==
    ASSUME IInv, ~Redelivery, OneFirstBlock, NEW b \in Block,
           PushToFork(b) \/ PushUnfetchable(b)
    PROVE  IInv'
<1> DEFINE f == PushItem(fdb, b)
<1>1. /\ BasicInv /\ BasicInv' /\ LogIsChainPrefix /\ fdb \in ForkDb /\ head \in Id
      /\ LogType /\ log # <<>>
  BY Zenon, PushAsideBasic DEF IInv, BasicInv, TypeOK, LogType
<1>2. Accepts(b) /\ head' = head /\ fdb' = f /\ log' = log /\ phase' = phase
  BY Zenon DEF PushToFork, PushUnfetchable, switchVars
<1>3. phase = "idle" /\ previous[b] \in fdb.index
  BY Zenon, <1>2, AcceptsFact
<1>4. BlockLinks(f) /\ ItemLinks(f)
  BY Zenon, <1>1, <1>3, PushItemLinks DEF IInv, LinksOK
<1>5. /\ Keeps(fdb, ancestors[head]) /\ lib[head] <= Len(log)
      /\ \A a \in ancestors[head] \ {Genesis} : Applicable(a)
  BY Zenon, <1>1, <1>3, IdleChains DEF IInv
<1>6. Keeps(f, ancestors[head])
  <2>1. ancestors[head] \in SUBSET Id
    BY Zenon, <1>1, AncestorAssumption
  <2> QED
    BY Zenon, <1>1, <1>3, <1>5, <2>1, PushKeeps
<1> HIDE DEF f
<1>7. \A i \in 1..Len(log) : log[i] \in ancestors[head]
  BY <1>1 DEF LogIsChainPrefix, LogType
<1> QED
  BY Zenon, <1>1, <1>2, <1>3, <1>4, <1>5, <1>6, <1>7, IdleSafe DEF Keeps

(***************************************************************************)
(* fetch_branch_from walked over the branch, so all of it is in the index.  *)
(***************************************************************************)
LEMMA BranchInIndex ==
    ASSUME NEW f \in ForkDb, ItemLinks(f), NEW t \in Block, t \in f.index,
           NEW p \in ancestors[t], Walkable(f, t, num[p] + 1)
    PROVE  Branch(p, t) \subseteq f.index
<1> SUFFICES ASSUME NEW a \in ancestors[t], num[a] > num[p] PROVE a \in f.index
  BY Zenon DEF Branch
<1>1. /\ t \in Id /\ a \in Id /\ p \in Id
      /\ num[t] \in Nat /\ num[a] \in Nat /\ num[p] \in Nat /\ num[a] <= num[t]
  BY NumFact, AncestorAtUnique
<1>2. CASE a = t
  BY Zenon, <1>2
<1>3. CASE num[a] > num[p] + 1
  BY Zenon, <1>3 DEF Walkable, ItemLinks
<1>4. CASE a # t /\ num[a] = num[p] + 1
  <2>1. num[a] # num[t]
    BY Zenon, <1>1, <1>4, AncestorFact DEF ChainFact
  <2>2. num[a] + 1 \in 0..num[t]
    BY <1>1, <2>1
  <2>3. PICK c \in ancestors[t] : c \in Id /\ num[c] = num[a] + 1
    BY Zenon, <1>1, <2>2, AncestorAtFact
  <2>4. c \in Block
    BY <1>1, <2>3, PreviousAssumption DEF Id
  <2>5. previous[c] \in ancestors[t] /\ num[previous[c]] = num[a]
    <3>1. /\ previous[c] \in ancestors[c] /\ num[c] = num[previous[c]] + 1
          /\ num[previous[c]] \in Nat
      BY Zenon, <2>4, NumFact
    <3>2. previous[c] \in ancestors[t]
      BY Zenon, <1>1, <3>1, AncestorFact DEF ChainFact
    <3> QED
      BY <1>1, <2>3, <3>1, <3>2
  <2>6. previous[c] = a
    BY <1>1, <2>5, AncestorFact DEF ChainFact
  <2>7. c \in f.link
    BY <1>1, <1>4, <2>3 DEF Walkable
  <2> QED
    BY Zenon, <2>6, <2>7 DEF ItemLinks
<1> QED
  BY <1>1, <1>2, <1>3, <1>4

LEMMA PushSwitchesSafe ==
    ASSUME IInv, ~Redelivery, OneFirstBlock, NEW b \in Block, PushSwitches(b)
    PROVE  IInv'
<1> DEFINE f == PushItem(fdb, b)
           t == f.head
           p == ForkPoint(t, head)
<1>1. /\ BasicInv /\ BasicInv' /\ LogIsChainPrefix /\ fdb \in ForkDb /\ head \in Id
      /\ LogType /\ log # <<>>
  BY Zenon, PushSwitchesBasic DEF IInv, BasicInv, TypeOK, LogType
<1>2. /\ Accepts(b) /\ head' = head /\ fdb' = f /\ log' = log
      /\ phase' = "pop" /\ newTip' = t /\ oldTip' = head
      /\ head \in f.index /\ t \in f.index /\ Walkable(f, t, num[p] + 1)
  BY Zenon DEF PushSwitches, CanFetchBranches
<1>3. phase = "idle" /\ previous[b] \in fdb.index
  BY Zenon, <1>2, AcceptsFact
<1>4. f \in ForkDb /\ BlockLinks(f) /\ ItemLinks(f) /\ t \in Block /\ head \in Block
  BY Zenon, <1>1, <1>2, <1>3, PushItemType, PushItemLinks DEF IInv, LinksOK, ForkDb
<1>5. /\ Keeps(fdb, ancestors[head]) /\ lib[head] <= Len(log)
      /\ \A a \in ancestors[head] \ {Genesis} : Applicable(a)
  BY Zenon, <1>1, <1>3, IdleChains DEF IInv
<1>6. Keeps(f, ancestors[head])
  <2>1. ancestors[head] \in SUBSET Id
    BY Zenon, <1>1, AncestorAssumption
  <2> QED
    BY Zenon, <1>1, <1>3, <1>5, <2>1, PushKeeps
<1> HIDE DEF f
<1>7. p \in ancestors[t] /\ p \in ancestors[head] /\ p \in Id
  BY Zenon, <1>4, ForkPointFact
<1> HIDE DEF p, t
<1>8. \A a \in ancestors[t] : a \in f.index \/ a \in ancestors[head]
  <2> SUFFICES ASSUME NEW a \in ancestors[t], a \notin f.index PROVE a \in ancestors[head]
    BY Zenon
  <2>1. ~(num[a] > num[p])
    BY Zenon, <1>2, <1>4, <1>7, BranchInIndex DEF Branch
  <2>2. num[a] <= num[p] /\ t \in Id
    BY SMTT(60), <1>4, <1>7, <2>1, NumFact, AncestorAtUnique
  <2>3. a \in ancestors[p]
    BY Zenon, <1>7, <2>2, ChainOrder
  <2> QED
    BY Zenon, <1>1, <1>7, <2>3, AncestorFact DEF ChainFact
<1>9. ChainsKept'
  <2>1. Chains' = ancestors[head] \cup ancestors[t]
    BY Zenon, <1>2 DEF Chains
  <2> QED
    BY Zenon, <1>2, <1>6, <1>8, <2>1 DEF ChainsKept, Keeps
<1>10. LinksOK'
  BY Zenon, <1>2, <1>4, NumFact DEF LinksOK, t
<1>11. AppliedOK'
  BY Zenon, <1>2, <1>5 DEF AppliedOK
<1>12. LogIsChainPrefix'
  BY Zenon, <1>1, <1>2 DEF LogIsChainPrefix
<1> QED
  BY Zenon, <1>1, <1>2, <1>9, <1>10, <1>11, <1>12 DEF IInv

LEMMA SwitchPopThrowsSafe == IInv /\ SwitchPopThrows => IInv'
<1> SUFFICES ASSUME IInv, SwitchPopThrows PROVE IInv'
  BY Zenon
<1>1. /\ BasicInv /\ BasicInv' /\ LogIsChainPrefix /\ LogType /\ log # <<>>
      /\ fdb \in ForkDb /\ BlockLinks(fdb)
  BY Zenon, SwitchPopThrowsBasic DEF IInv, BasicInv, TypeOK, LogType, LinksOK
<1>2. head' = head /\ log' = log /\ phase' = "idle" /\ fdb' = Release(fdb)
  BY Zenon DEF SwitchPopThrows, Leave
<1>3. fdb'.index = fdb.index /\ BlockLinks(fdb') /\ ItemLinks(fdb')
  BY Zenon, <1>1, <1>2, ReleaseType, ReleaseLinks
<1>4. /\ \A a \in ancestors[head] \ {Genesis} : Applicable(a)
      /\ lib[head] <= Len(log)
  BY Zenon DEF IInv, AppliedOK
<1>5. \A x \in fdb.index : \A a \in ancestors[head] :
        num[a] >= num[x] /\ num[a] > Len(log) => a \in fdb.index
  BY Zenon DEF IInv, ChainsKept, Chains
<1>6. \A i \in 1..Len(log) : log[i] \in ancestors[head]
  BY <1>1 DEF LogIsChainPrefix, LogType
<1> QED
  BY Zenon, <1>1, <1>2, <1>3, <1>4, <1>5, <1>6, IdleSafe

LEMMA SwitchPopSafe == IInv /\ SwitchPop => IInv'
<1> SUFFICES ASSUME IInv, SwitchPop PROVE IInv'
  BY Zenon
<1> DEFINE u == UndoneHead
<1>1. /\ BasicInv /\ BasicInv' /\ LogIsChainPrefix /\ LogType /\ log # <<>>
      /\ fdb \in ForkDb /\ BlockLinks(fdb) /\ TypeOK /\ LogWithinCommitted /\ LogNumbered
      /\ head \in Id /\ committed \in Nat
  BY Zenon, SwitchPopBasic DEF IInv, BasicInv, TypeOK, LogType, LinksOK
<1>2. /\ head' = u /\ log' = log /\ fdb' = PopItem(fdb)
      /\ newTip' = newTip /\ oldTip' = oldTip /\ CanPop(fdb)
      /\ phase \in {"pop", "unwind"}
      /\ phase = "pop" => phase' \in {"pop", "apply"}
      /\ phase = "unwind" => phase' \in {"unwind", "restore"}
  BY Zenon DEF SwitchPop, CanPopBlock
<1>3. /\ u \in ancestors[head] /\ u \in Id /\ num[u] \in Nat /\ committed <= num[u]
  BY Zenon, <1>1, UndoneHeadFact
<1> HIDE DEF u
<1>4. ancestors[u] \subseteq ancestors[head]
  BY Zenon, <1>1, <1>3, AncestorFact DEF ChainFact
<1>5. fdb'.index = fdb.index /\ fdb'.head = previous[fdb.head] /\ BlockLinks(fdb')
  BY Zenon, <1>1, <1>2, PopItemLinks
<1>6. LinksOK'
  <2>1. \A t \in Id : fdb.head \in ancestors[t] => previous[fdb.head] \in ancestors[t]
    <3>1. fdb.head \in Block
      BY Zenon, <1>1 DEF BlockLinks
    <3>2. previous[fdb.head] \in ancestors[fdb.head]
      BY Zenon, <3>1, NumFact
    <3> QED
      BY <3>2, AncestorFact DEF ChainFact
  <2>2. newTip \in Id /\ oldTip \in Id
    BY Zenon, <1>1 DEF TypeOK
  <2> QED
    BY Zenon, <1>2, <1>5, <2>1, <2>2 DEF IInv, LinksOK
<1>7. ChainsKept'
  <2>1. Chains' \subseteq Chains
    BY Zenon, <1>2, <1>4 DEF Chains
  <2>2. fdb'.index = fdb.index /\ Len(log') = Len(log)
    BY Zenon, <1>2, <1>5
  <2> QED
    BY Zenon, <2>1, <2>2 DEF IInv, ChainsKept
<1>8. AppliedOK'
  <2>1. lib[u] \in Nat /\ lib[head] \in Nat /\ lib[u] <= lib[head] /\ Len(log) \in Nat
    BY <1>1, <1>3, LibMonotone DEF LogType
  <2> QED
    BY <1>2, <1>4, <2>1 DEF IInv, AppliedOK
<1>9. LogIsChainPrefix'
  <2> SUFFICES ASSUME NEW n \in DOMAIN log PROVE log[n] \in ancestors[u] /\ num[log[n]] = n
    BY Zenon, <1>2 DEF LogIsChainPrefix
  <2>1. log[n] \in ancestors[head] /\ num[log[n]] = n /\ n <= Len(log) /\ n \in Nat
    BY <1>1 DEF LogIsChainPrefix, LogType
  <2>2. num[log[n]] <= num[u]
    BY <1>1, <1>3, <2>1 DEF LogWithinCommitted, LogType
  <2> QED
    BY Zenon, <1>1, <1>3, <2>1, <2>2, ChainOrder
<1> QED
  BY Zenon, <1>1, <1>2, <1>6, <1>7, <1>8, <1>9 DEF IInv

\* A block of a chain that is a part of the chains that matter.
LEMMA KeepsPart ==
    ASSUME IInv
    PROVE  /\ Keeps(fdb, ancestors[head])
           /\ Keeps(fdb, ancestors[oldTip])
           /\ phase \in {"pop", "apply"} => Keeps(fdb, ancestors[newTip])
BY Zenon DEF IInv, ChainsKept, Chains, Keeps

(***************************************************************************)
(* In the middle of a switch the fork database is on the chain of the head, *)
(* whichever branch is being applied.                                       *)
(***************************************************************************)
LEMMA SwitchOnChain ==
    ASSUME IInv, phase \in {"apply", "restore"}
    PROVE  OnChain(fdb) /\ BlockLinks(fdb) /\ fdb \in ForkDb
<1>1. BasicInv /\ PhaseOK /\ LinksOK /\ TypeOK /\ newTip \in Block /\ oldTip \in Block
  BY Zenon DEF IInv, BasicInv, PhaseOK
<1>2. Keeps(fdb, ancestors[head])
  BY Zenon, KeepsPart
<1>3. \E tip \in Block : fdb.head \in ancestors[tip] /\ head \in ancestors[tip]
  BY Zenon, <1>1 DEF PhaseOK, LinksOK
<1> QED
  BY Zenon, <1>1, <1>2, <1>3 DEF OnChain, LinksOK, TypeOK

\* What is kept below stays kept when apply_block trims and logs.
LEMMA KeepsAfterApply ==
    ASSUME NEW f, NEW g, NEW C, Keeps(f, C), LogType, NEW l \in Seq(Block),
           Len(log) <= Len(l), C \subseteq Id, g.index \subseteq f.index,
           \A x \in g.index : \A a \in f.index : num[a] >= num[x] => a \in g.index
    PROVE  \A x \in g.index : \A a \in C :
             num[a] >= num[x] /\ num[a] > Len(l) => a \in g.index
<1>1. Len(log) \in Nat /\ Len(l) \in Nat /\ \A a \in C : num[a] \in Nat
  BY PreviousAssumption DEF LogType
<1> QED
  BY <1>1 DEF Keeps

LEMMA SwitchApplySafe == IInv /\ SwitchApply => IInv'
<1> SUFFICES ASSUME IInv, SwitchApply PROVE IInv'
  BY Zenon
<1> DEFINE b == NextOf(newTip)
           r == Apply(fdb, b)
<1>1. /\ BasicInv /\ BasicInv' /\ LogIsChainPrefix /\ LogType /\ log # <<>>
      /\ TypeOK /\ LogWithinCommitted /\ LogNumbered /\ PhaseOK /\ LinksOK
      /\ head \in Id /\ newTip \in Id /\ oldTip \in Id
  BY Zenon, SwitchApplyBasic DEF IInv, BasicInv, TypeOK, LogType
<1>2. /\ phase = "apply" /\ r.ok /\ head' = b /\ log' = r.log
      /\ IF b = newTip THEN Leave(r.fdb) ELSE fdb' = r.fdb /\ UNCHANGED switchVars
  BY Zenon DEF SwitchApply
<1>3. newTip \in Block /\ oldTip \in Block /\ head \in ancestors[newTip] /\ num[head] < num[newTip]
  BY Zenon, <1>1, <1>2 DEF PhaseOK
<1>4. b \in Block /\ b \in Id /\ b \in ancestors[newTip] /\ previous[b] = head
  BY Zenon, <1>3, NextOfFact, NumFact
<1>5. fdb \in ForkDb /\ OnChain(fdb) /\ BlockLinks(fdb)
  BY Zenon, <1>2, SwitchOnChain
<1> HIDE DEF b, r
<1>6. r.fdb \in ForkDb /\ r.fdb.head = fdb.head /\ r.log \in Seq(Block) /\ Len(log) <= Len(r.log)
  BY <1>1, <1>4, <1>5, ApplyFact DEF r
<1>7. /\ \A i \in 1..Len(r.log) : r.log[i] \in ancestors[head]
      /\ r.fdb.index \subseteq fdb.index
      /\ \A x \in r.fdb.index : \A a \in fdb.index : num[a] >= num[x] => a \in r.fdb.index
      /\ BlockLinks(r.fdb) /\ Applicable(b) /\ lib[b] <= Len(r.log)
  BY Zenon, <1>1, <1>2, <1>4, <1>5, ApplySafe DEF r
<1>8. ancestors[b] = ancestors[head] \cup {b} /\ ancestors[b] \subseteq ancestors[newTip]
  BY Zenon, <1>1, <1>4, AncestorAssumption, AncestorFact DEF ChainFact
<1>9. \A i \in 1..Len(r.log) : r.log[i] \in ancestors[b]
  BY Zenon, <1>7, <1>8
<1>10. /\ Len(log) \in Nat /\ Len(r.log) \in Nat /\ r.log # <<>> /\ lib[oldTip] <= Len(r.log)
       /\ \A a \in ancestors[oldTip] \ {Genesis} : Applicable(a)
       /\ \A a \in ancestors[b] \ {Genesis} : Applicable(a)
  BY <1>1, <1>6, <1>7, <1>8, LibAssumption DEF LogType, IInv, AppliedOK
<1>11. /\ \A x \in r.fdb.index : \A a \in ancestors[newTip] :
            num[a] >= num[x] /\ num[a] > Len(r.log) => a \in r.fdb.index
       /\ \A x \in r.fdb.index : \A a \in ancestors[oldTip] :
            num[a] >= num[x] /\ num[a] > Len(r.log) => a \in r.fdb.index
  <2>1. ancestors[newTip] \subseteq Id /\ ancestors[oldTip] \subseteq Id
    BY Zenon, <1>1, AncestorAssumption
  <2> QED
    BY Zenon, <1>1, <1>2, <1>6, <1>7, <2>1, KeepsPart, KeepsAfterApply
<1>12. CASE b = newTip
  <2>1. phase' = "idle" /\ fdb' = Release(r.fdb)
    BY Zenon, <1>2, <1>12 DEF Leave
  <2>2. fdb'.index = r.fdb.index /\ BlockLinks(fdb') /\ ItemLinks(fdb')
    BY Zenon, <1>6, <1>7, <2>1, ReleaseType, ReleaseLinks
  <2>3. \A x \in fdb'.index : \A a \in ancestors[head'] :
          num[a] >= num[x] /\ num[a] > Len(log') => a \in fdb'.index
    BY Zenon, <1>2, <1>11, <1>12, <2>2
  <2> QED
    BY Zenon, <1>1, <1>2, <1>7, <1>9, <1>10, <2>1, <2>2, <2>3, IdleSafe
<1>13. CASE b # newTip
  <2>1. fdb' = r.fdb /\ phase' = "apply" /\ newTip' = newTip /\ oldTip' = oldTip
    BY Zenon, <1>2, <1>13 DEF switchVars
  <2>2. LinksOK'
    BY Zenon, <1>1, <1>2, <1>6, <1>7, <2>1 DEF LinksOK
  <2>3. ChainsKept'
    <3>1. Chains' = ancestors[oldTip] \cup ancestors[newTip]
      BY Zenon, <1>2, <1>8, <2>1 DEF Chains
    <3> QED
      BY Zenon, <1>2, <1>11, <2>1, <3>1 DEF ChainsKept
  <2>4. AppliedOK'
    BY Zenon, <1>2, <1>7, <1>10, <2>1 DEF AppliedOK
  <2>5. LogIsChainPrefix'
    BY <1>1, <1>2, <1>6, <1>9 DEF LogIsChainPrefix, BasicInv, LogNumbered
  <2> QED
    BY Zenon, <1>1, <1>2, <1>10, <2>2, <2>3, <2>4, <2>5 DEF IInv
<1> QED
  BY Zenon, <1>12, <1>13

(***************************************************************************)
(* A block of the old branch that is restored applies: it applied before,   *)
(* and has nothing left to log.                                             *)
(***************************************************************************)
LEMMA OldBlockApplies ==
    ASSUME IInv, phase \in {"apply", "restore"}, NEW b \in Block,
           b \in ancestors[oldTip], previous[b] = head
    PROVE  Apply(fdb, b).ok
<1>1. BasicInv /\ LogIsChainPrefix /\ oldTip \in Id /\ LogType
  BY Zenon DEF IInv, BasicInv, TypeOK, LogType
<1>2. fdb \in ForkDb /\ OnChain(fdb) /\ BlockLinks(fdb)
  BY Zenon, SwitchOnChain
<1>3. Applicable(b)
  BY Zenon, GenesisAssumption DEF IInv, AppliedOK
<1>4. lib[b] <= Len(log)
  <2>1. lib[b] \in Nat /\ lib[oldTip] \in Nat /\ lib[b] <= lib[oldTip]
    BY Zenon, <1>1, LibMonotone
  <2>2. lib[oldTip] <= Len(log) /\ Len(log) \in Nat
    BY <1>1 DEF IInv, AppliedOK, LogType
  <2> QED
    BY <2>1, <2>2
<1> QED
  BY Zenon, <1>1, <1>2, <1>3, <1>4, ApplySafe

(***************************************************************************)
(* The blocks of the new branch that are removed when it fails are not      *)
(* blocks of the old one: the two may only share the old tip itself, and    *)
(* the old tip applies.                                                     *)
(***************************************************************************)
LEMMA RemovedNotOld ==
    ASSUME IInv, phase = "apply", ~Apply(fdb, NextOf(newTip)).ok
    PROVE  Branch(head, newTip) \cap (ancestors[oldTip] \cup ancestors[head]) = {}
<1> DEFINE b == NextOf(newTip)
<1>1. BasicInv /\ PhaseOK /\ head \in Id /\ num[head] \in Nat
  BY Zenon, PreviousAssumption DEF IInv, BasicInv, TypeOK
<1>2. /\ newTip \in Block /\ oldTip \in Block /\ num[newTip] > num[oldTip]
      /\ head \in ancestors[newTip] /\ num[head] < num[newTip]
      /\ num[fork] <= num[head] /\ num[fork] \in Nat
      /\ \A q \in ancestors[newTip] \cap ancestors[oldTip] :
           q # newTip /\ q # oldTip => num[q] <= num[fork]
  BY Zenon, <1>1, SwitchFact DEF PhaseOK
<1>3. /\ b \in Block /\ previous[b] = head /\ b \in ancestors[newTip]
      /\ num[b] = num[head] + 1
  BY Zenon, <1>2, NextOfFact
<1>4. /\ newTip \in Id /\ oldTip \in Id /\ num[newTip] \in Nat /\ num[oldTip] \in Nat
  BY Zenon, <1>2, NumFact
<1> HIDE DEF b
<1>5. b \notin ancestors[oldTip]
  BY Zenon, <1>3, OldBlockApplies DEF b
<1>6. ASSUME NEW a \in ancestors[newTip], num[a] > num[head], a \in ancestors[oldTip]
      PROVE  FALSE
  <2>1. a \in Id /\ num[a] \in Nat /\ num[b] <= num[a]
    BY <1>1, <1>3, <1>4, <1>6, AncestorAtUnique
  <2>2. b \in ancestors[a]
    BY Zenon, <1>3, <1>4, <1>6, <2>1, ChainOrder
  <2>3. b \in ancestors[oldTip]
    BY Zenon, <1>4, <1>6, <2>2, AncestorFact DEF ChainFact
  <2> QED
    BY Zenon, <1>5, <2>3
<1>7. \A a \in ancestors[head] : num[a] \in Nat /\ num[a] <= num[head]
  BY <1>1, AncestorAtUnique
<1> QED
  BY <1>1, <1>6, <1>7 DEF Branch

LEMMA SwitchApplyFailsSafe == IInv /\ SwitchApplyFails => IInv'
<1> SUFFICES ASSUME IInv, SwitchApplyFails PROVE IInv'
  BY Zenon
<1> DEFINE b == NextOf(newTip)
           r == Apply(fdb, b)
           E == Branch(head, newTip)
           g == Erase(r.fdb, E, held)
<1>1. /\ BasicInv /\ BasicInv' /\ LogIsChainPrefix /\ LogType /\ log # <<>>
      /\ TypeOK /\ LogWithinCommitted /\ LogNumbered /\ PhaseOK /\ LinksOK
      /\ head \in Id /\ newTip \in Id /\ oldTip \in Id
  BY Zenon, SwitchApplyFailsBasic DEF IInv, BasicInv, TypeOK, LogType
<1>2. /\ phase = "apply" /\ ~r.ok /\ head' = head /\ log' = r.log
      /\ fdb' = SetHead(g, oldTip) /\ newTip' = newTip /\ oldTip' = oldTip
      /\ phase' \in {"unwind", "restore"}
  BY Zenon DEF SwitchApplyFails
<1>3. newTip \in Block /\ oldTip \in Block /\ head \in ancestors[newTip] /\ num[head] < num[newTip]
  BY Zenon, <1>1, <1>2 DEF PhaseOK
<1>4. b \in Block
  BY Zenon, <1>3, NextOfFact
<1>5. fdb \in ForkDb /\ OnChain(fdb) /\ BlockLinks(fdb)
  BY Zenon, <1>2, SwitchOnChain
<1>6. E \cap (ancestors[oldTip] \cup ancestors[head]) = {}
  BY Zenon, <1>2, RemovedNotOld
<1> HIDE DEF b, r, E, g
<1>7. r.fdb \in ForkDb /\ r.log \in Seq(Block) /\ Len(log) <= Len(r.log)
  BY Zenon, <1>1, <1>4, <1>5, ApplyFact DEF r
<1>8. /\ \A i \in 1..Len(r.log) : r.log[i] \in ancestors[head]
      /\ r.fdb.index \subseteq fdb.index
      /\ \A x \in r.fdb.index : \A a \in fdb.index : num[a] >= num[x] => a \in r.fdb.index
      /\ BlockLinks(r.fdb)
  BY Zenon, <1>1, <1>4, <1>5, ApplySafe DEF r
<1>9. g \in ForkDb /\ g.index = r.fdb.index \ E /\ BlockLinks(g)
  BY Zenon, <1>7, <1>8, EraseType, EraseLinks DEF g
<1>10. fdb'.index = r.fdb.index \ E /\ fdb'.head = oldTip /\ BlockLinks(fdb')
  BY Zenon, <1>1, <1>2, <1>3, <1>9, SetHeadType, SetHeadLinks
<1>11. LinksOK'
  BY <1>1, <1>2, <1>10, AncestorFact DEF LinksOK, ChainFact
<1>12. ChainsKept'
  <2>1. Chains' = ancestors[head] \cup ancestors[oldTip]
    BY Zenon, <1>2 DEF Chains
  <2>2. /\ \A x \in r.fdb.index : \A a \in ancestors[head] :
             num[a] >= num[x] /\ num[a] > Len(r.log) => a \in r.fdb.index
        /\ \A x \in r.fdb.index : \A a \in ancestors[oldTip] :
             num[a] >= num[x] /\ num[a] > Len(r.log) => a \in r.fdb.index
    <3>1. ancestors[head] \subseteq Id /\ ancestors[oldTip] \subseteq Id
      BY Zenon, <1>1, AncestorAssumption
    <3> QED
      BY Zenon, <1>1, <1>7, <1>8, <3>1, KeepsPart, KeepsAfterApply
  <2> QED
    BY Zenon, <1>2, <1>6, <1>10, <2>1, <2>2 DEF ChainsKept
<1>13. AppliedOK'
  <2>1. /\ Len(log) \in Nat /\ Len(r.log) \in Nat
        /\ lib[head] \in Nat /\ lib[oldTip] \in Nat
    BY <1>1, <1>7, LibAssumption DEF LogType
  <2> QED
    BY <1>2, <1>7, <2>1 DEF IInv, AppliedOK
<1>14. LogIsChainPrefix' /\ log' # <<>>
  BY <1>1, <1>2, <1>7, <1>8 DEF LogIsChainPrefix, BasicInv, LogNumbered, LogType
<1> QED
  BY Zenon, <1>1, <1>11, <1>12, <1>13, <1>14 DEF IInv

LEMMA SwitchRestoreSafe ==
    ASSUME IInv, SwitchRestore
    PROVE  IInv' /\ head' = NextOf(oldTip) /\ (phase' = "idle" => head' = oldTip)
<1> DEFINE b == NextOf(oldTip)
           r == Apply(fdb, b)
<1>1. /\ BasicInv /\ BasicInv' /\ LogIsChainPrefix /\ LogType /\ log # <<>>
      /\ TypeOK /\ LogWithinCommitted /\ LogNumbered /\ PhaseOK /\ LinksOK
      /\ head \in Id /\ oldTip \in Id
  BY Zenon, SwitchRestoreBasic DEF IInv, BasicInv, TypeOK, LogType
<1>2. phase = "restore" /\ oldTip \in Block /\ head \in ancestors[oldTip] /\ num[head] < num[oldTip]
  BY Zenon, <1>1 DEF PhaseOK, SwitchRestore
<1>3. b \in Block /\ b \in Id /\ b \in ancestors[oldTip] /\ previous[b] = head
  BY Zenon, <1>2, NextOfFact, NumFact
<1>4. r.ok
  BY Zenon, <1>2, <1>3, OldBlockApplies
<1>5. /\ head' = b /\ log' = r.log
      /\ IF b = oldTip THEN Leave(r.fdb) ELSE fdb' = r.fdb /\ UNCHANGED switchVars
  BY Zenon, <1>4 DEF SwitchRestore
<1>6. fdb \in ForkDb /\ OnChain(fdb) /\ BlockLinks(fdb)
  BY Zenon, <1>2, SwitchOnChain
<1> HIDE DEF b, r
<1>7. r.fdb \in ForkDb /\ r.fdb.head = fdb.head /\ r.log \in Seq(Block) /\ Len(log) <= Len(r.log)
  BY Zenon, <1>1, <1>3, <1>6, ApplyFact DEF r
<1>8. /\ \A i \in 1..Len(r.log) : r.log[i] \in ancestors[head]
      /\ r.fdb.index \subseteq fdb.index
      /\ \A x \in r.fdb.index : \A a \in fdb.index : num[a] >= num[x] => a \in r.fdb.index
      /\ BlockLinks(r.fdb) /\ Applicable(b) /\ lib[b] <= Len(r.log)
  BY Zenon, <1>1, <1>3, <1>4, <1>6, ApplySafe DEF r
<1>9. ancestors[b] = ancestors[head] \cup {b} /\ ancestors[b] \subseteq ancestors[oldTip]
  BY Zenon, <1>1, <1>3, AncestorAssumption, AncestorFact DEF ChainFact
<1>10. \A i \in 1..Len(r.log) : r.log[i] \in ancestors[b]
  BY Zenon, <1>8, <1>9
<1>11. /\ Len(log) \in Nat /\ Len(r.log) \in Nat /\ r.log # <<>> /\ lib[oldTip] <= Len(r.log)
       /\ \A a \in ancestors[oldTip] \ {Genesis} : Applicable(a)
       /\ \A a \in ancestors[b] \ {Genesis} : Applicable(a)
  BY <1>1, <1>7, <1>8, <1>9, LibAssumption DEF LogType, IInv, AppliedOK
<1>12. \A x \in r.fdb.index : \A a \in ancestors[oldTip] :
         num[a] >= num[x] /\ num[a] > Len(r.log) => a \in r.fdb.index
  <2>1. ancestors[oldTip] \subseteq Id
    BY Zenon, <1>1, AncestorAssumption
  <2> QED
    BY Zenon, <1>1, <1>7, <1>8, <2>1, KeepsPart, KeepsAfterApply
<1>13. CASE b = oldTip
  <2>1. phase' = "idle" /\ fdb' = Release(r.fdb)
    BY Zenon, <1>5, <1>13 DEF Leave
  <2>2. fdb'.index = r.fdb.index /\ BlockLinks(fdb') /\ ItemLinks(fdb')
    BY Zenon, <1>7, <1>8, <2>1, ReleaseType, ReleaseLinks
  <2>3. \A x \in fdb'.index : \A a \in ancestors[head'] :
          num[a] >= num[x] /\ num[a] > Len(log') => a \in fdb'.index
    BY Zenon, <1>5, <1>12, <1>13, <2>2
  <2>4. IInv'
    BY Zenon, <1>1, <1>5, <1>8, <1>10, <1>11, <2>1, <2>2, <2>3, IdleSafe
  <2> QED
    BY Zenon, <1>5, <1>13, <2>4 DEF b
<1>14. CASE b # oldTip
  <2>1. fdb' = r.fdb /\ phase' = "restore" /\ newTip' = newTip /\ oldTip' = oldTip
    BY Zenon, <1>2, <1>5, <1>14 DEF switchVars
  <2>2. LinksOK'
    BY Zenon, <1>1, <1>2, <1>7, <1>8, <2>1 DEF LinksOK
  <2>3. ChainsKept'
    <3>1. Chains' = ancestors[oldTip]
      BY Zenon, <1>5, <1>9, <2>1 DEF Chains
    <3> QED
      BY Zenon, <1>5, <1>12, <2>1, <3>1 DEF ChainsKept
  <2>4. AppliedOK'
    BY Zenon, <1>5, <1>8, <1>11, <2>1 DEF AppliedOK
  <2>5. LogIsChainPrefix'
    BY <1>1, <1>5, <1>7, <1>10 DEF LogIsChainPrefix, BasicInv, LogNumbered
  <2>6. IInv'
    BY Zenon, <1>1, <1>5, <1>11, <2>2, <2>3, <2>4, <2>5 DEF IInv
  <2> QED
    BY Zenon, <1>5, <2>1, <2>6 DEF b
<1> QED
  BY Zenon, <1>13, <1>14
-----------------------------------------------------------------------------
\* The node starts again on a log that is a prefix of the chain it was on.
LEMMA StartAtSafe ==
    ASSUME IInv, BasicInv', NEW l \in Seq(Block), l # <<>>,
           \A i \in 1..Len(l) : l[i] \in ancestors[head] /\ num[l[i]] = i, StartAt(l)
    PROVE  IInv' /\ head' \in ancestors[head] /\ num[head'] = Len(log')
<1> DEFINE b == l[Len(l)]
<1>1. Len(l) \in 1..Len(l) /\ Len(l) \in Nat
  OBVIOUS
<1>2. b \in Block /\ b \in ancestors[head] /\ num[b] = Len(l) /\ head \in Id
  BY <1>1 DEF IInv, BasicInv, TypeOK
<1>3. head' = b /\ log' = l /\ fdb' = OpenForkDb(b) /\ phase' = "idle"
  BY Zenon DEF StartAt
<1> HIDE DEF b
<1>4. fdb'.index = {b} /\ fdb'.link = {} /\ fdb'.head = b /\ fdb'.hlink = FALSE
  BY Zenon, <1>2, <1>3, GenesisAssumption DEF OpenForkDb, StartBlock, EmptyForkDb
<1>5. BlockLinks(fdb') /\ ItemLinks(fdb')
  BY Zenon, <1>2, <1>4 DEF BlockLinks, ItemLinks
<1>6. b \in Id /\ num[b] \in Nat /\ lib[b] \in Nat /\ lib[b] <= num[b]
  BY <1>2, NumFact, LibAssumption
<1>7. \A i \in 1..Len(l) : l[i] \in ancestors[b]
  <2> SUFFICES ASSUME NEW i \in 1..Len(l) PROVE l[i] \in ancestors[b]
    BY Zenon
  <2>1. num[l[i]] <= num[b] /\ l[i] \in ancestors[head]
    BY <1>2
  <2> QED
    BY Zenon, <1>2, <2>1, ChainOrder
<1>8. \A x \in fdb'.index : \A a \in ancestors[b] :
        num[a] >= num[x] /\ num[a] > Len(l) => a \in fdb'.index
  <2>1. \A a \in ancestors[b] : num[a] \in Nat /\ num[a] <= num[b]
    BY <1>6, AncestorAtUnique
  <2> QED
    BY <1>2, <2>1
<1>9. \A a \in ancestors[b] \ {Genesis} : Applicable(a)
  BY Zenon, <1>2, AncestorFact DEF IInv, AppliedOK, ChainFact
<1>10. lib[b] <= Len(l)
  BY Zenon, <1>2, <1>6
<1>11. IInv'
  BY Zenon, <1>3, <1>5, <1>7, <1>8, <1>9, <1>10, IdleSafe
<1> QED
  BY Zenon, <1>2, <1>3, <1>11

LEMMA RestartSafe ==
    ASSUME IInv, Restart
    PROVE  IInv' /\ head' \in ancestors[head] /\ num[head'] = Len(log')
<1>1. /\ BasicInv' /\ log \in Seq(Block) /\ log # <<>>
      /\ \A i \in 1..Len(log) : log[i] \in ancestors[head] /\ num[log[i]] = i
  BY RestartBasic DEF IInv, BasicInv, TypeOK, LogIsChainPrefix
<1> QED
  BY Zenon, <1>1, StartAtSafe DEF Restart

LEMMA KilledInApplySafe ==
    ASSUME IInv, ~Redelivery, OneFirstBlock, NEW b \in Block, KilledInApply(b)
    PROVE  IInv' /\ head' \in ancestors[head] /\ num[head'] = Len(log')
<1>1. /\ BasicInv /\ BasicInv' /\ LogIsChainPrefix /\ log # <<>> /\ LogType
      /\ fdb \in ForkDb /\ head \in Id /\ num[head] \in Nat /\ Len(log) \in Nat
      /\ lib[b] \in Nat /\ lib[b] < num[b] /\ num[b] \in Nat
  <2>1. BasicInv /\ LogIsChainPrefix /\ log # <<>>
    BY Zenon DEF IInv
  <2>2. BasicInv'
    BY Zenon, <2>1, KilledInApplyBasic
  <2>3. fdb \in ForkDb /\ head \in Id /\ log \in Seq(Block)
    BY Zenon, <2>1 DEF BasicInv, TypeOK
  <2>4. b \in Id /\ lib[b] \in Nat /\ lib[b] < num[b] /\ num[b] \in Nat /\ num[head] \in Nat
    BY Zenon, <2>3, NumFact, LibAssumption, PreviousAssumption
  <2>5. Len(log) \in Nat /\ LogType
    BY <2>3 DEF LogType
  <2> QED
    BY Zenon, <2>1, <2>2, <2>3, <2>4, <2>5
<1>2. PICK f \in ForkDb, n \in Nat :
        /\ f = IF phase = "idle" THEN PushItem(fdb, b) ELSE fdb
        /\ n >= Len(log) /\ n <= LogReach(f, b)
        /\ \A i \in (Len(log) + 1)..n : MainBranchItem(f, i) # Genesis
        /\ LogUpTo(f, n) \in Seq(Block) /\ Len(LogUpTo(f, n)) = n
        /\ \A i \in 1..n : num[LogUpTo(f, n)[i]] = i
        /\ \A i \in 1..Len(log) : LogUpTo(f, n)[i] = log[i]
        /\ \A i \in (Len(log) + 1)..n : LogUpTo(f, n)[i] = MainBranchItem(f, i)
        /\ StartAt(LogUpTo(f, n))
  BY Zenon, <1>1, KilledInApplyFact
<1>3. previous[b] = head /\ num[b] = num[head] + 1
  BY Zenon, NumFact DEF KilledInApply, FailsEarly
<1>4. OnChain(f)
  <2>1. CASE phase = "idle"
    <3>1. f = PushItem(fdb, b) /\ Accepts(b) /\ previous[f.head] = head
      BY Zenon, <1>2, <2>1 DEF KilledInApply
    <3>2. previous[b] \in fdb.index /\ f.head \in Block
      BY Zenon, <1>1, <3>1, AcceptsFact, PushItemType
    <3>3. ancestors[head] \in SUBSET Id
      BY Zenon, <1>1, AncestorAssumption
    <3>4. Keeps(f, ancestors[head])
      BY Zenon, <1>1, <3>1, <3>2, <3>3, KeepsPart, PushKeeps
    <3> QED
      BY Zenon, <3>1, <3>2, <3>4, NumFact DEF OnChain
  <2>2. CASE phase # "idle"
    <3>1. phase \in {"apply", "restore"} /\ f = fdb
      BY Zenon, <1>2, <2>2 DEF KilledInApply, Accepts
    <3> QED
      BY Zenon, <3>1, SwitchOnChain
  <2> QED
    BY Zenon, <2>1, <2>2
<1> DEFINE l == LogUpTo(f, n)
<1>5. n <= num[head]
  <2>1. /\ LogReach(f, b) \in Nat
        /\ LogReach(f, b) <= Len(log) \/ LogReach(f, b) <= lib[b]
    BY Zenon, <1>1, LogReachFact
  <2>2. Len(log) <= num[head]
    BY SMTT(60), <1>1 DEF BasicInv, LogWithinCommitted, TypeOK
  <2>3. n \in Nat /\ n <= LogReach(f, b)
    BY Zenon, <1>2
  <2>4. /\ lib[b] \in Nat /\ num[head] \in Nat /\ Len(log) \in Nat
        /\ lib[b] < num[head] + 1
    BY Zenon, <1>1, <1>3
  <2> QED
    BY <2>1, <2>2, <2>3, <2>4
<1>6. \A i \in 1..n : l[i] \in ancestors[head]
  <2> SUFFICES ASSUME NEW i \in 1..n PROVE l[i] \in ancestors[head]
    BY Zenon
  <2>1. CASE i <= Len(log)
    <3>1. i \in 1..Len(log) /\ i \in DOMAIN log
      BY <1>1, <2>1 DEF LogType
    <3> QED
      BY Zenon, <1>1, <1>2, <3>1 DEF LogIsChainPrefix
  <2>2. CASE i > Len(log)
    <3>1. i \in (Len(log) + 1)..n /\ i \in (Len(log) + 1)..num[head]
      BY <1>1, <1>5, <2>2
    <3> QED
      BY Zenon, <1>1, <1>2, <1>4, <3>1, LoggedOnChain
  <2> QED
    BY <1>1, <2>1, <2>2
<1>7. l \in Seq(Block) /\ Len(l) = n /\ StartAt(l) /\ \A i \in 1..n : num[l[i]] = i
  BY Zenon, <1>2
<1> HIDE DEF l
<1>8. l # <<>>
  <2>1. Len(log) \in Nat /\ Len(log) # 0
    BY <1>1 DEF LogType
  <2>2. n \in Nat /\ n >= Len(log) /\ Len(l) = n
    BY Zenon, <1>2, <1>7
  <2>3. Len(l) # 0
    BY <2>1, <2>2
  <2> QED
    BY <2>3
<1> QED
  BY Zenon, <1>1, <1>6, <1>7, <1>8, StartAtSafe

LEMMA InitSafe == StartedInit => IInv
<1> SUFFICES ASSUME Init, log # <<>> PROVE IInv
  BY Zenon DEF StartedInit
<1>1. BasicInv
  BY Zenon, InitBasic
<1>2. PICK b \in Id : /\ \A a \in ancestors[b] \ {Genesis} : Applicable(a)
                      /\ head = b /\ log = LogEndingIn(b) /\ fdb = OpenForkDb(b)
                      /\ phase = "idle" /\ newTip = Genesis /\ oldTip = Genesis
  BY Zenon DEF Init
<1>3. num[b] \in Nat
  BY Zenon, PreviousAssumption
<1>4. \A n \in 1..num[b] : AncestorAt(b, n) \in ancestors[b]
  <2>1. \A n \in 1..num[b] : n \in 0..num[b]
    BY <1>3
  <2> QED
    BY Zenon, <2>1, AncestorAtFact
<1>5. log \in Seq(Block) /\ Len(log) = num[b] /\ \A n \in 1..num[b] : log[n] \in ancestors[b]
  <2>1. log \in Seq(Block)
    BY Zenon, <1>1 DEF BasicInv, TypeOK
  <2>2. log = [n \in 1..num[b] |-> AncestorAt(b, n)]
    BY Zenon, <1>2 DEF LogEndingIn
  <2>3. Len(log) = num[b]
    BY <1>3, <2>2
  <2> QED
    BY Zenon, <1>4, <2>1, <2>2, <2>3
<1>6. b \in Block
  BY <1>2, <1>5, PreviousAssumption DEF Id
<1>7. fdb.index = {b} /\ fdb.link = {} /\ fdb.head = b /\ fdb.hlink = FALSE
  BY Zenon, <1>2, <1>6, GenesisAssumption DEF OpenForkDb, StartBlock, EmptyForkDb
<1>8. LogIsChainPrefix
  BY <1>1, <1>2, <1>5 DEF LogIsChainPrefix, BasicInv, LogNumbered
<1>9. LinksOK
  BY Zenon, <1>2, <1>6, <1>7 DEF LinksOK, BlockLinks, ItemLinks
<1>10. lib[head] <= Len(log)
  BY <1>2, <1>3, <1>5, <1>6, LibAssumption
<1>11. Keeps(fdb, ancestors[head])
  <2>1. \A a \in ancestors[b] : num[a] \in Nat /\ num[a] <= num[b]
    BY AncestorAtUnique
  <2> QED
    BY <1>2, <1>3, <1>5, <2>1 DEF Keeps
<1> QED
  BY Zenon, <1>1, <1>2, <1>8, <1>9, <1>10, <1>11, IdleChains DEF IInv

LEMMA NextSafe ==
    ASSUME ~Redelivery, OneFirstBlock
    PROVE  IInv /\ [Next]_vars => IInv'
<1> SUFFICES ASSUME IInv, [Next]_vars PROVE IInv'
  BY Zenon
<1>1. CASE UNCHANGED vars
  BY Zenon, <1>1 DEF vars, IInv, BasicInv, TypeOK, PhaseOK, fork, LogNumbered, LogWithinCommitted,
     LogIsChainPrefix, LinksOK, ChainsKept, Chains, AppliedOK
<1>2. ASSUME NEW b \in Block, PushBlock(b) PROVE IInv'
  BY Zenon, <1>2, PushExtendsSafe, PushSwitchesSafe, PushAsideSafe DEF PushBlock
<1>3. CASE SwitchStep
  BY Zenon, <1>3, SwitchPopSafe, SwitchPopThrowsSafe, SwitchApplySafe,
     SwitchApplyFailsSafe, SwitchRestoreSafe DEF SwitchStep
<1>4. CASE Restart
  BY Zenon, <1>4, RestartSafe
<1>5. ASSUME NEW b \in Block, KilledInApply(b) PROVE IInv'
  BY Zenon, <1>5, KilledInApplySafe
<1> QED
  BY Zenon, <1>1, <1>2, <1>3, <1>4, <1>5 DEF Next

(***************************************************************************)
(* The inductive invariant holds in every reachable state.                  *)
(***************************************************************************)
THEOREM Inductive ==
    ASSUME ~Redelivery, OneFirstBlock
    PROVE  StartedSpec => []IInv
<1>1. StartedInit => IInv
  BY Zenon, InitSafe
<1>2. IInv /\ [Next]_vars => IInv'
  BY NextSafe
<1> QED
  BY <1>1, <1>2, PTL DEF StartedSpec

(***************************************************************************)
(* update_last_irreversible_block never appends a block of another branch:  *)
(* the block log is a prefix of the current chain.                          *)
(***************************************************************************)
THEOREM LogPrefix ==
    ASSUME ~Redelivery, OneFirstBlock
    PROVE  StartedSpec => []LogIsChainPrefix
<1>1. IInv => LogIsChainPrefix
  BY DEF IInv
<1> QED
  BY <1>1, Inductive, PTL

(***************************************************************************)
(* Restoring "all blocks from the good fork" never fails: a rolled back     *)
(* switch ends at the tip it started from.                                  *)
(***************************************************************************)
THEOREM Restores ==
    ASSUME ~Redelivery, OneFirstBlock
    PROVE  StartedSpec => RollbackRestores
<1>1. IInv /\ [Next]_vars => [SwitchRestore /\ phase' = "idle" => head' = oldTip]_vars
  BY SwitchRestoreSafe
<1> QED
  BY <1>1, Inductive, PTL DEF StartedSpec, RollbackRestores

\* Every step goes along one chain, and down only to what is committed or logged.
LEMMA HeadMoves ==
    ASSUME ~Redelivery, OneFirstBlock, IInv, Next
    PROVE  \/ head \in ancestors[head'] /\ head' \in Id
           \/ /\ head' \in ancestors[head]
              /\ committed <= num[head'] \/ num[head'] = Len(log')
<1>1. /\ BasicInv /\ BasicInv' /\ TypeOK /\ PhaseOK /\ LogWithinCommitted /\ LogNumbered
      /\ head \in Id /\ head \in ancestors[head] /\ fdb \in ForkDb
  BY Zenon, NextBasic, AncestorFact DEF IInv, BasicInv, TypeOK, ChainFact
<1>2. ASSUME NEW b \in Block, previous[b] = head, head' = b
      PROVE  head \in ancestors[head'] /\ head' \in Id
  BY Zenon, <1>2, NumFact
<1>3. CASE head' = head
  BY Zenon, <1>1, <1>3
<1>4. ASSUME NEW b \in Block, PushExtends(b), head' # head PROVE previous[b] = head /\ head' = b
  <2> DEFINE f == PushItem(fdb, b)
  <2>1. Apply(f, b).ok /\ head' = b
    BY Zenon, <1>4 DEF PushExtends
  <2>2. f \in ForkDb
    BY Zenon, <1>1, PushItemType
  <2> QED
    BY Zenon, <1>1, <2>1, <2>2, ApplyFact
<1>5. ASSUME NEW b \in Block, PushBlock(b), head' # head PROVE previous[b] = head /\ head' = b
  BY Zenon, <1>4, <1>5 DEF PushBlock, PushToFork, PushUnfetchable, PushSwitches
<1>6. CASE SwitchPop
  BY Zenon, <1>1, <1>6, UndoneHeadFact DEF SwitchPop
<1>7. CASE SwitchPopThrows \/ SwitchApplyFails
  BY Zenon, <1>3, <1>7 DEF SwitchPopThrows, SwitchApplyFails
<1>8. CASE SwitchApply
  <2>1. NextOf(newTip) \in Block /\ previous[NextOf(newTip)] = head
    BY Zenon, <1>1, <1>8, NextOfFact DEF SwitchApply, PhaseOK
  <2> QED
    BY Zenon, <1>2, <1>8, <2>1 DEF SwitchApply
<1>9. CASE SwitchRestore
  <2>1. NextOf(oldTip) \in Block /\ previous[NextOf(oldTip)] = head
    BY Zenon, <1>1, <1>9, NextOfFact DEF SwitchRestore, PhaseOK
  <2> QED
    BY Zenon, <1>2, <1>9, <2>1, SwitchRestoreSafe
<1>10. CASE Restart
  BY Zenon, <1>10, RestartSafe
<1>11. ASSUME NEW b \in Block, KilledInApply(b)
       PROVE  head' \in ancestors[head] /\ num[head'] = Len(log')
  BY Zenon, <1>11, KilledInApplySafe
<1> QED
  BY Zenon, <1>2, <1>3, <1>5, <1>6, <1>7, <1>8, <1>9, <1>10, <1>11 DEF Next, SwitchStep

(***************************************************************************)
(* A committed block is never replaced.                                     *)
(***************************************************************************)
THEOREM Final ==
    ASSUME ~Redelivery, OneFirstBlock
    PROVE  StartedSpec => Finality
<1> DEFINE Step == \E c \in ancestors[head] :
                     /\ num[c] = committed
                     /\ \/ c \in ancestors[head']
                        \/ num[head'] = Len(log') /\ head' \in ancestors[c]
<1>1. ASSUME IInv, Next PROVE Step
  <2>1. head \in Id /\ num[head] \in Nat /\ committed \in 0..num[head]
    BY <1>1, PreviousAssumption DEF IInv, BasicInv, TypeOK, LogWithinCommitted
  <2>2. PICK c \in ancestors[head] : num[c] = committed /\ c \in Id
    BY Zenon, <2>1, AncestorAtFact
  <2>3. CASE head \in ancestors[head'] /\ head' \in Id
    BY Zenon, <2>2, <2>3, AncestorFact DEF ChainFact
  <2>4. CASE head' \in ancestors[head] /\ committed <= num[head']
    BY Zenon, <2>1, <2>2, <2>4, ChainOrder
  <2>5. CASE /\ head' \in ancestors[head] /\ ~(committed <= num[head'])
             /\ num[head'] = Len(log')
    <3>1. num[head'] \in Nat
      BY <2>1, <2>5, AncestorAtUnique
    <3>2. head' \in ancestors[c]
      BY <2>1, <2>2, <2>5, <3>1, ChainOrder
    <3> QED
      BY Zenon, <2>2, <2>5, <3>2
  <2> QED
    BY Zenon, <1>1, <2>3, <2>4, <2>5, HeadMoves
<1>2. IInv /\ [Next]_vars => [Step]_vars
  BY <1>1
<1> QED
  BY <1>2, Inductive, PTL DEF StartedSpec, Finality
=============================================================================
