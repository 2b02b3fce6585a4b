--------------------------- MODULE MCTickLiquidity ---------------------------
(***************************************************************************)
(* TickLiquidity for TLC: two positions on the ticks -2, 0, 2, 4 in arrays *)
(* of two, the lowest of which begins below MIN_TICK.  The price table     *)
(* leaves one price strictly between two ticks, enough to tell a price on  *)
(* a tick from one past it.                                                *)
(***************************************************************************)
EXTENDS TickLiquidity, TLC

MinTick == -2

MCSqrtPrice == [t \in MIN_TICK..MAX_TICK |-> 2 * (t - MIN_TICK)]
MCTickAt ==
  [p \in 0..(2 * (MAX_TICK - MIN_TICK)) |-> MIN_TICK + p \div 2]

NftSymmetry == Permutations(Nft)
=============================================================================
