----------------------------- MODULE MCFeeGrowth -----------------------------
(***************************************************************************)
(* FeeGrowth for TLC: two positions on three ticks.  There is one price    *)
(* inside the upper range; in the lower one a swap can only run out of     *)
(* tokens on the price of the tick above, below which the tick then is.    *)
(***************************************************************************)
EXTENDS FeeGrowth, TLC

MinTick == -1

MCSqrtPrice ==
  [t \in MIN_TICK..MAX_TICK |-> IF t = -1 THEN 0 ELSE IF t = 0 THEN 1 ELSE 3]
MCTickAt == [p \in 0..3 |-> IF p = 0 THEN -1 ELSE IF p = 3 THEN 1 ELSE 0]

NftSymmetry == Permutations(Nft)
=============================================================================
