--------------------------- MODULE ChainInvariant ---------------------------
(***************************************************************************)
(* The inductive invariant behind LogIsChainPrefix, Finality and            *)
(* RollbackRestores.  It holds for a node whose block log already has a     *)
(* block, that is not handed a block it knows, on a tree with one first     *)
(* block.                                                                   *)
(***************************************************************************)
EXTENDS Chain

OneFirstBlock ==
    \A b, c \in Block : previous[b] = Genesis /\ previous[c] = Genesis => b = c

StartedInit == Init /\ log # <<>>

StartedSpec == StartedInit /\ [][Next]_vars

\* Where the head stands between the fork point and the tips of a switch.
PhaseOK ==
    /\ phase = "idle" => newTip = Genesis /\ oldTip = Genesis
    /\ phase # "idle" =>
         /\ newTip \in Block /\ oldTip \in Block
         /\ num[newTip] > num[oldTip]
    /\ phase = "pop" => head \in Branch(fork, oldTip)
    /\ phase = "apply" => /\ head \in ancestors[newTip]
                          /\ num[fork] <= num[head] /\ num[head] < num[newTip]
    /\ phase = "unwind" => head \in Branch(fork, newTip)
    /\ phase = "restore" => /\ head \in ancestors[oldTip]
                            /\ num[fork] <= num[head] /\ num[head] < num[oldTip]

LogNumbered == \A n \in DOMAIN log : num[log[n]] = n

(***************************************************************************)
(* The items of the fork database: _head is set, follows the branch being   *)
(* popped or applied, and outside of a switch a link leads from an item to  *)
(* an item.                                                                 *)
(***************************************************************************)
LinksOK ==
    /\ BlockLinks(fdb)
    /\ phase = "idle" => ItemLinks(fdb)
    /\ phase \in {"pop", "apply"} => fdb.head \in ancestors[newTip]
    /\ phase \in {"unwind", "restore"} => fdb.head \in ancestors[oldTip]

\* The chains the node may still write to the block log.
Chains == ancestors[head] \cup ancestors[oldTip]
            \cup (IF phase \in {"pop", "apply"} THEN ancestors[newTip] ELSE {})

(***************************************************************************)
(* The fork database has every block of those chains that is not logged,    *)
(* from its lowest item up.  So when only one item has the number of a      *)
(* block of the chain, it is that block.                                    *)
(***************************************************************************)
ChainsKept ==
    \A x \in fdb.index : \A a \in Chains :
      num[a] >= num[x] /\ num[a] > Len(log) => a \in fdb.index

\* What was applied once will apply again, and has nothing left to log.
AppliedOK ==
    \A t \in {head, oldTip} : /\ \A a \in ancestors[t] \ {Genesis} : Applicable(a)
                              /\ lib[t] <= Len(log)

BasicInv == TypeOK /\ PhaseOK /\ LogNumbered /\ LogWithinCommitted

IInv == /\ BasicInv
        /\ log # <<>>
        /\ LogIsChainPrefix
        /\ LinksOK
        /\ ChainsKept
        /\ AppliedOK

(***************************************************************************)
(* Once the first block is in the log, the invariant that makes the log a   *)
(* prefix of the chain holds, whatever branches are half applied or         *)
(* restored.                                                                *)
(***************************************************************************)
IInvOnceLogged == log # <<>> => IInv
=============================================================================
