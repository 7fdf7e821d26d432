------------------------------ MODULE MCMarket ------------------------------
(***************************************************************************)
(* A small instance of Market in which most prices do not divide evenly.    *)
(***************************************************************************)
EXTENDS Market, TLC

CONSTANTS alice, bob

MCOpening == [a \in Account |-> [s \in Symbol |-> IF a = alice /\ s = "GOLOS" THEN 4
                                                  ELSE IF a = bob /\ s = "GBG" THEN 3 ELSE 0]]
Symmetry == Permutations(OrderId)
MCRates == {<<3, 2>>}
=============================================================================
