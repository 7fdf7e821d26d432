-------------------------- MODULE LastIrreversible --------------------------
(***************************************************************************)
(* The number computed by database::update_last_irreversible_block: from    *)
(* the last block each scheduled witness signed (witness_object::           *)
(* last_confirmed_block_num) the element at a fixed offset of the sorted    *)
(* list, never above the fixed limit and never below the old number.        *)
(***************************************************************************)
EXTENDS Integers, FiniteSets

CONSTANTS
    Hundred,                \* STEEMIT_100_PERCENT
    Threshold,              \* STEEMIT_IRREVERSIBLE_THRESHOLD
    MaxWitnesses,           \* STEEMIT_MAX_WITNESSES
    StartMinerVotingBlock   \* STEEMIT_START_MINER_VOTING_BLOCK

ASSUME ThresholdAssumption ==
    /\ Hundred \in Nat \ {0}
    /\ Threshold \in 1..Hundred
    /\ MaxWitnesses \in Nat
    /\ StartMinerVotingBlock \in Nat

\* Mutant: the offset is rounded up.
OffsetRoundedUp(W) == ((Hundred - Threshold) * Cardinality(W)) \div Hundred + 1

\* W is the set of scheduled witnesses (wso.current_shuffled_witnesses).
Offset(W) == ((Hundred - Threshold) * Cardinality(W)) \div Hundred

Below(W, confirmed, n) == {w \in W : confirmed[w] < n}
AtLeast(W, confirmed, n) == {w \in W : confirmed[w] >= n}

(***************************************************************************)
(* *nth_element(offset): the value with at most `offset' values below it    *)
(* and more than `offset' values below or equal to it.                      *)
(***************************************************************************)
IsNth(W, confirmed, v) ==
    /\ Cardinality(Below(W, confirmed, v)) <= Offset(W)
    /\ Cardinality(Below(W, confirmed, v + 1)) > Offset(W)

NthConfirmed(W, confirmed) ==
    CHOOSE v \in {confirmed[w] : w \in W} : IsNth(W, confirmed, v)

\* Mutant: the limit is ignored.
LesserIsFirst(m, n) == m

Lesser(m, n) == IF m < n THEN m ELSE n

\* Mutant: the number is lowered when a new witness has confirmed less.
NewLibLowers(W, headNum, confirmed, old, fixed, transit) ==
    Lesser(NthConfirmed(W, confirmed), fixed)

(***************************************************************************)
(* The new last_irreversible_block_num.  `fixed' is the limit               *)
(* _fixed_irreversible_block_num.  `transit' is transit_block_num once the  *)
(* transit to CyberWay is enabled and 0 before: the transit block itself    *)
(* becomes irreversible before any block above it.                          *)
(***************************************************************************)
NewLib(W, headNum, confirmed, old, fixed, transit) ==
    IF headNum < StartMinerVotingBlock
      THEN IF headNum > MaxWitnesses THEN headNum - MaxWitnesses ELSE old
      ELSE LET n == Lesser(NthConfirmed(W, confirmed), fixed)
           IN  IF n <= old THEN old
               ELSE IF transit > old /\ transit <= n THEN transit
               ELSE n
=============================================================================
