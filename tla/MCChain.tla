------------------------------ MODULE MCChain ------------------------------
(***************************************************************************)
(* A small instance of Chain.  A block is a number: its last digit names    *)
(* the branch and the digits before it are the block number.  The signer of *)
(* each block is fixed, and the last irreversible block follows from the    *)
(* signers as update_last_irreversible_block computes it.                   *)
(***************************************************************************)
EXTENDS ChainInvariant, TLC, FiniteSetsExt

Witnesses == {"a", "b", "c", "d"}

LIB == INSTANCE LastIrreversible WITH
         Hundred <- 100, Threshold <- 75,
         MaxWitnesses <- 0, StartMinerVotingBlock <- 0

(***************************************************************************)
(* block :> <<previous block, ancestors, signer, last irreversible block    *)
(* number, where it fails>>.  43 fails after it has made blocks             *)
(* irreversible; 24 does not apply and 34 44 are built on it; 25 35 45      *)
(* compete with blocks that may be irreversible already; d builds 26 36 46  *)
(* alone while a, b and c build 27 .. 57.                                   *)
(***************************************************************************)
T ==
    11 :> <<0, {0, 11}, "a", 0, "never">> @@
    22 :> <<11, {0, 11, 22}, "b", 0, "never">> @@
    32 :> <<22, {0, 11, 22, 32}, "c", 1, "never">> @@
    42 :> <<32, {0, 11, 22, 32, 42}, "a", 2, "never">> @@
    43 :> <<32, {0, 11, 22, 32, 43}, "a", 2, "late">> @@
    24 :> <<11, {0, 11, 24}, "d", 0, "early">> @@
    34 :> <<24, {0, 11, 24, 34}, "d", 0, "never">> @@
    44 :> <<34, {0, 11, 24, 34, 44}, "d", 0, "never">> @@
    25 :> <<11, {0, 11, 25}, "c", 0, "never">> @@
    35 :> <<25, {0, 11, 25, 35}, "a", 0, "never">> @@
    45 :> <<35, {0, 11, 25, 35, 45}, "d", 2, "late">> @@
    26 :> <<11, {0, 11, 26}, "d", 0, "never">> @@
    36 :> <<26, {0, 11, 26, 36}, "d", 0, "never">> @@
    46 :> <<36, {0, 11, 26, 36, 46}, "d", 0, "never">> @@
    27 :> <<11, {0, 11, 27}, "a", 0, "never">> @@
    37 :> <<27, {0, 11, 27, 37}, "b", 0, "never">> @@
    47 :> <<37, {0, 11, 27, 37, 47}, "c", 2, "never">> @@
    57 :> <<47, {0, 11, 27, 37, 47, 57}, "a", 3, "never">>

MCBlock == DOMAIN T
MCNum == [b \in DOMAIN T \cup {0} |-> b \div 10]
MCPrevious == [b \in DOMAIN T |-> T[b][1]]
MCAncestors == [b \in DOMAIN T \cup {0} |-> IF b = 0 THEN {0} ELSE T[b][2]]
MCLib == [b \in DOMAIN T \cup {0} |-> IF b = 0 THEN 0 ELSE T[b][4]]
MCFailAt == [b \in DOMAIN T |-> T[b][5]]

\* last_confirmed_block_num of every witness once b has been applied
Confirmed(b) ==
    [w \in Witnesses |-> LET signed == {a \in T[b][2] \ {0} : T[a][3] = w}
                         IN  Max({0} \cup {num[a] : a \in signed})]

ASSUME LibFollowsFromSigners ==
    \A b \in Block : lib[b] = LIB!NewLib(Witnesses, num[b], Confirmed(b), lib[previous[b]], 1000, 0)
=============================================================================
