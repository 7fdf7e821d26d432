--------------------------- MODULE MCWitnessVotes ---------------------------
(***************************************************************************)
(* Four accounts, so that chains of proxies grow longer than the two        *)
(* levels that are recorded, with one share each and one to come.           *)
(***************************************************************************)
EXTENDS WitnessVotes, TLC

CONSTANTS a1, a2, a3, a4, w1, w2

MCOpening == [a \in Account |-> 1]

Symmetric == Permutations(Account) \cup Permutations(Witness)
=============================================================================
