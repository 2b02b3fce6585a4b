------------------------------ MODULE MCSwapClient ------------------------------
(***************************************************************************)
(* SwapClient for TLC: tick arrays of two ticks, so that a walk can cross  *)
(* three of them, and two positions, whose ranges leave gaps that hold no  *)
(* liquidity and arrays that hold no tick.                                 *)
(***************************************************************************)
EXTENDS SwapClient, TLC

MCSqrtPrice == [t \in MIN_TICK..MAX_TICK |-> 6 + 2 * (t - MIN_TICK)]
MCTickAt ==
  [p \in 6..(6 + 2 * (MAX_TICK - MIN_TICK)) |-> MIN_TICK + (p - 6) \div 2]

MinTick == -1
MCOffered == {<<0, 3>>, <<0, 1>>, <<3, 4>>}

MCMints == {<<NoFee, NoFee>>,
            <<[transfer_fee_basis_points |-> 2, maximum_fee |-> 1], NoFee>>}

NftSymmetry == Permutations(Nft)
=================================================================================
