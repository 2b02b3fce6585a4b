---------------------------- MODULE MCLiquidityClient ----------------------------
(***************************************************************************)
(* LiquidityClient for TLC: a mint without a fee and one that keeps half   *)
(* of every transfer, at most 4.                                           *)
(***************************************************************************)
EXTENDS LiquidityClient

Always(fee) == [older_transfer_fee |-> fee, newer_transfer_fee |-> fee, newer_epoch |-> 0]

MCTransferFeeConfigs ==
  {Always(NoFee), Always([transfer_fee_basis_points |-> 1, maximum_fee |-> 4])}
==================================================================================
