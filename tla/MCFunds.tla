------------------------------- MODULE MCFunds -------------------------------
(***************************************************************************)
(* A small instance of Funds.                                               *)
(***************************************************************************)
EXTENDS Funds, TLC

CONSTANTS alice, bob, agent

Money2(golos, gbg) == "GOLOS" :> golos @@ "GBG" :> gbg

MCOpening == [a \in Account |-> IF a = alice THEN Money2(1, 1) ELSE Zero]
MCAmounts == {Money2(1, 0), Money2(0, 1)}
MCEscrowAmounts == MCAmounts \cup {Money2(1, 1)}
MCFees == {Zero, Money2(0, 1)}
Symmetry == Permutations(RequestId)
=============================================================================
