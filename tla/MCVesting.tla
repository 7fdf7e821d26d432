----------------------------- MODULE MCVesting -----------------------------
(***************************************************************************)
(* Two accounts, the null account and one that can be created.              *)
(***************************************************************************)
EXTENDS Vesting, TLC

MCLiquid == 1 :> 0 @@ 2 :> 1 @@ 3 :> 0 @@ 4 :> 0

MCShares == 1 :> 0 @@ 2 :> 5 @@ 3 :> 1 @@ 4 :> 0
MCVest == {<<2, 1>>}
MCRoute == {<<2, 1>>, <<2, 3>>}
MCLend == {<<2, 3>>, <<2, 4>>}
=============================================================================
