----------------------------- MODULE MCPoolVault -----------------------------
(***************************************************************************)
(* PoolVault for TLC: mints without and with a transfer fee, and the       *)
(* status bytes that switch off one instruction or all.                    *)
(***************************************************************************)
EXTENDS PoolVault, TLC

MCTransferFeeConfigs ==
  {NoFee, [transfer_fee_basis_points |-> 2, maximum_fee |-> 2]}
MCStatuses ==
  {{}, {"DecreaseLiquidity"}, PoolStatusBits}

TokenSymmetry == Permutations(Token)
=============================================================================
