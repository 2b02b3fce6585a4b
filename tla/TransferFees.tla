------------------------------ MODULE TransferFees ------------------------------
(***************************************************************************)
(* The fee that a Token-2022 mint withholds from a transfer: a rate, up to *)
(* a maximum.  The token program computes it; the pool's program and its   *)
(* client both reckon with it beforehand.                                  *)
(***************************************************************************)
EXTENDS Integers

CONSTANT ONE_IN_BASIS_POINTS

ASSUME BasisPointsAssumption == ONE_IN_BASIS_POINTS \in Nat \ {0}

NoFee == [transfer_fee_basis_points |-> 0, maximum_fee |-> 0]

Lesser(x, y) == IF x <= y THEN x ELSE y
CeilDiv(x, y) == (x + y - 1) \div y

(* TransferFee::calculate_fee, and calculate_pre_fee_amount: what to send  *)
(* for an amount to arrive.                                                *)
CalculateFee(config, amount) ==
  Lesser(CeilDiv(amount * config.transfer_fee_basis_points, ONE_IN_BASIS_POINTS),
         config.maximum_fee)
CalculatePreFeeAmount(config, amount) ==
  LET bps == config.transfer_fee_basis_points
      raw == CeilDiv(amount * ONE_IN_BASIS_POINTS, ONE_IN_BASIS_POINTS - bps)
  IN  IF bps = 0 \/ amount = 0 THEN amount
      ELSE IF raw - amount >= config.maximum_fee THEN amount + config.maximum_fee
      ELSE raw

(* The fee of what must be sent for an amount to arrive: at the full rate  *)
(* only the maximum stops the mint from keeping everything.                *)
InverseFee(config, post_fee_amount) ==
  IF config.transfer_fee_basis_points = ONE_IN_BASIS_POINTS
  THEN config.maximum_fee
  ELSE CalculateFee(config, CalculatePreFeeAmount(config, post_fee_amount))
=================================================================================
