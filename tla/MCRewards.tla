------------------------------- MODULE MCRewards -------------------------------
(***************************************************************************)
(* Rewards for TLC: two positions on two neighbouring ranges, a swap from  *)
(* the one into the other, a rate that is raised and one that is lowered,  *)
(* emissions of half a token a second, and a mint that at times keeps half *)
(* of a transfer, up to one token.                                         *)
(***************************************************************************)
EXTENDS Rewards, TLC

MinTick == -1

MCSqrtPrice == -1 :> 0 @@ 0 :> 2 @@ 1 :> 3
MCTickAt == 0 :> -1 @@ 1 :> -1 @@ 2 :> 0 @@ 3 :> 1
MCLimits == {1, 2}
MCSchedules == {<<0, 2, 1>>, <<1, 3, 2>>, <<2, 3, 1>>}
MCNoFee == {NoFee}
MCFees == MCNoFee \cup {[transfer_fee_basis_points |-> 1, maximum_fee |-> 1]}
MCOffers == {<<-1, 0>>, <<0, 1>>}

NftSymmetry == Permutations(Nft)
================================================================================
