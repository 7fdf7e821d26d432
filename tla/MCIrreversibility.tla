------------------------- MODULE MCIrreversibility -------------------------
(***************************************************************************)
(* Small instances of Irreversibility.                                      *)
(***************************************************************************)
EXTENDS Irreversibility, TLC

\* Witnesses that may vote for the transit are not interchangeable with others.
Symmetry == {p \in Permutations(Witness) : {p[v] : v \in Voters} = Voters}
=============================================================================
