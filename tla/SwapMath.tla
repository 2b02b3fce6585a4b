-------------------------------- MODULE SwapMath --------------------------------
(***************************************************************************)
(* The arithmetic of a swap: what a price move costs and yields, how far   *)
(* an amount carries, and the fee.  It is put to work on one price range   *)
(* without initialized ticks inside, where liquidity is deposited and      *)
(* withdrawn and swap steps go back and forth, to see that all the         *)
(* roundings together never leave the pool short.                          *)
(*                                                                         *)
(* Q64 is both the unit of a Q64.64 number and the size of a u64; a u128   *)
(* holds its square and a U256 the square of that.                         *)
(***************************************************************************)
EXTENDS Integers

CONSTANTS
  Q64,
  FEE_RATE_DENOMINATOR_VALUE,
  trade_fee_rate,          \* AmmConfig's
  PriceLower, PriceUpper,  \* the range, in Q64.64
  MaxLiquidity, MaxAmount  \* bounds of the model

Prices == PriceLower..PriceUpper
Amounts == 1..MaxAmount

(* lib.rs and update_amm_config assert the rate; the price range is bounded. *)
ASSUME RateAssumption ==
  /\ FEE_RATE_DENOMINATOR_VALUE \in Nat
  /\ trade_fee_rate \in Nat
  /\ trade_fee_rate < FEE_RATE_DENOMINATOR_VALUE
ASSUME PriceAssumption ==
  /\ Q64 \in Nat \ {0}
  /\ PriceLower \in Nat \ {0} /\ PriceUpper \in Nat /\ PriceLower < PriceUpper
  /\ PriceUpper < Q64 * Q64
ASSUME BoundAssumption == MaxLiquidity \in Nat /\ MaxAmount \in 1..(Q64 - 1)

VARIABLES
  sqrt_price,  \* the pool's price, inside the range
  liquidity,   \* the liquidity deposited over the range
  reserve_0,   \* what the vaults hold of each token, the fees apart
  reserve_1

vars == <<sqrt_price, liquidity, reserve_0, reserve_1>>

-----------------------------------------------------------------------------
(* full_math and unsafe_math *)

MulDivFloor(x, num, denom) == (x * num) \div denom
MulDivCeil(x, num, denom) == (x * num + (denom - 1)) \div denom
DivRoundingUp(x, y) == x \div y + (IF x % y > 0 THEN 1 ELSE 0)

-----------------------------------------------------------------------------
(* liquidity_math: what a price move is worth.  low is the smaller price.  *)

GetDeltaAmount0(low, high, liq, round_up) ==
  IF round_up THEN DivRoundingUp(MulDivCeil(liq * Q64, high - low, high), low)
              ELSE MulDivFloor(liq * Q64, high - low, high) \div low

GetDeltaAmount1_RoundsDown(low, high, liq, round_up) ==
  MulDivFloor(liq, high - low, Q64)
GetDeltaAmount1(low, high, liq, round_up) ==
  IF round_up THEN MulDivCeil(liq, high - low, Q64) ELSE MulDivFloor(liq, high - low, Q64)

(* Tokens that go in, rounded up, and out, rounded down, between the price *)
(* x and the price y a step reaches.                                       *)
AmountIn(x, y, liq, zero_for_one) ==
  IF zero_for_one THEN GetDeltaAmount0(y, x, liq, TRUE) ELSE GetDeltaAmount1(x, y, liq, TRUE)
AmountOut(x, y, liq, zero_for_one) ==
  IF zero_for_one THEN GetDeltaAmount1(y, x, liq, FALSE) ELSE GetDeltaAmount0(x, y, liq, FALSE)

(* U256's mul_div returns None, which every caller unwraps into a panic,   *)
(* when the quotient does not fit in a u128; its product must fit in a     *)
(* U256, and the amount in a u64.                                          *)
U256MulDivReturns(quotient) == quotient < Q64 * Q64
Amount0Fits(low, high, liq, round_up) ==
  LET quotient == IF round_up THEN MulDivCeil(liq * Q64, high - low, high)
                              ELSE MulDivFloor(liq * Q64, high - low, high)
  IN  /\ liq * Q64 * (high - low) + (high - 1) < Q64 * Q64 * Q64 * Q64
      /\ U256MulDivReturns(quotient)
      /\ GetDeltaAmount0(low, high, liq, round_up) < Q64
Amount1Fits(low, high, liq, round_up) == GetDeltaAmount1(low, high, liq, round_up) < Q64

AmountInFits(x, y, liq, zero_for_one) ==
  IF zero_for_one THEN Amount0Fits(y, x, liq, TRUE) ELSE Amount1Fits(x, y, liq, TRUE)
AmountOutFits(x, y, liq, zero_for_one) ==
  IF zero_for_one THEN Amount1Fits(y, x, liq, FALSE) ELSE Amount0Fits(x, y, liq, FALSE)

(* The liquidity that an amount pays for.                                  *)
GetLiquidityFromAmount0_RoundsUp(low, high, amount) ==
  MulDivCeil(amount, MulDivCeil(low, high, Q64), high - low)
GetLiquidityFromAmount0(low, high, amount) ==
  MulDivFloor(amount, MulDivFloor(low, high, Q64), high - low)
GetLiquidityFromAmount1(low, high, amount) ==
  MulDivFloor(amount, Q64, high - low)

GetLiquidityFromSingleAmount0(price, amount) ==
  IF price <= PriceLower THEN GetLiquidityFromAmount0(PriceLower, PriceUpper, amount)
  ELSE IF price < PriceUpper THEN GetLiquidityFromAmount0(price, PriceUpper, amount)
  ELSE 0
GetLiquidityFromSingleAmount1(price, amount) ==
  IF price <= PriceLower THEN 0
  ELSE IF price < PriceUpper THEN GetLiquidityFromAmount1(PriceLower, price, amount)
  ELSE GetLiquidityFromAmount1(PriceLower, PriceUpper, amount)

-----------------------------------------------------------------------------
(* sqrt_price_math: the price after an amount of one token *)

NextPriceFromAmount0(price, liq, amount, add) ==
  IF amount = 0 THEN price
  ELSE MulDivCeil(liq * Q64, price, IF add THEN liq * Q64 + amount * price
                                           ELSE liq * Q64 - amount * price)

NextPriceFromAmount1(price, liq, amount, add) ==
  IF add THEN price + (amount * Q64) \div liq
         ELSE price - DivRoundingUp(amount * Q64, liq)

GetNextSqrtPriceFromInput(price, liq, amount, zero_for_one) ==
  IF zero_for_one THEN NextPriceFromAmount0(price, liq, amount, TRUE)
                  ELSE NextPriceFromAmount1(price, liq, amount, TRUE)
GetNextSqrtPriceFromOutput(price, liq, amount, zero_for_one) ==
  IF zero_for_one THEN NextPriceFromAmount1(price, liq, amount, FALSE)
                  ELSE NextPriceFromAmount0(price, liq, amount, FALSE)

-----------------------------------------------------------------------------
(* swap_math *)

(* The most of the remaining input that can go into the price, its fee     *)
(* taken off.                                                              *)
LessFee(amount) ==
  MulDivFloor(amount, FEE_RATE_DENOMINATOR_VALUE - trade_fee_rate, FEE_RATE_DENOMINATOR_VALUE)

(* The price a step reaches: the target when the remaining amount is       *)
(* enough for it, else the price that the amount carries to.               *)
NextPrice_NeverTarget(price, target, liq, remaining, is_base_input, zero_for_one) ==
  IF liq = 0 THEN target
  ELSE IF is_base_input
       THEN GetNextSqrtPriceFromInput(price, liq, LessFee(remaining), zero_for_one)
       ELSE GetNextSqrtPriceFromOutput(price, liq, remaining, zero_for_one)
NextPrice(price, target, liq, remaining, is_base_input, zero_for_one) ==
  IF is_base_input
  THEN IF LessFee(remaining) >= AmountIn(price, target, liq, zero_for_one) THEN target
       ELSE GetNextSqrtPriceFromInput(price, liq, LessFee(remaining), zero_for_one)
  ELSE IF remaining >= AmountOut(price, target, liq, zero_for_one) THEN target
       ELSE GetNextSqrtPriceFromOutput(price, liq, remaining, zero_for_one)

(* The fee: all that is left of an input that did not reach the target,    *)
(* else the rate on top of what went in.                                   *)
StepFee_RoundsDown(amount_in, remaining, reached, is_base_input) ==
  IF is_base_input /\ ~reached THEN remaining - amount_in
  ELSE MulDivFloor(amount_in, trade_fee_rate, FEE_RATE_DENOMINATOR_VALUE - trade_fee_rate)
StepFee(amount_in, remaining, reached, is_base_input) ==
  IF is_base_input /\ ~reached THEN remaining - amount_in
  ELSE MulDivCeil(amount_in, trade_fee_rate, FEE_RATE_DENOMINATOR_VALUE - trade_fee_rate)

(* Output is capped at what was asked for.                                 *)
CapOutput_Never(amount_out, remaining, is_base_input) == amount_out
CapOutput(amount_out, remaining, is_base_input) ==
  IF ~is_base_input /\ amount_out > remaining THEN remaining ELSE amount_out

ComputeSwapStep(price, target, liq, remaining, is_base_input, zero_for_one) ==
  LET next       == NextPrice(price, target, liq, remaining, is_base_input, zero_for_one)
      amount_in  == AmountIn(price, next, liq, zero_for_one)
      amount_out == AmountOut(price, next, liq, zero_for_one)
  IN  [sqrt_price_next |-> next,
       amount_in       |-> amount_in,
       amount_out      |-> CapOutput(amount_out, remaining, is_base_input),
       fee_amount      |-> StepFee(amount_in, remaining, next = target, is_base_input)]

(* No amount overflows: the first one is computed for the whole way to the *)
(* target, the other for the way actually gone.                            *)
StepFits(price, target, liq, remaining, is_base_input, zero_for_one) ==
  LET next == NextPrice(price, target, liq, remaining, is_base_input, zero_for_one)
  IN  IF is_base_input
      THEN AmountInFits(price, target, liq, zero_for_one)
           /\ AmountOutFits(price, next, liq, zero_for_one)
      ELSE AmountOutFits(price, target, liq, zero_for_one)
           /\ AmountInFits(price, next, liq, zero_for_one)

AmountUsed(step, is_base_input) ==
  IF is_base_input THEN step.amount_in + step.fee_amount ELSE step.amount_out

-----------------------------------------------------------------------------
Init ==
  /\ sqrt_price \in Prices
  /\ liquidity = 0
  /\ reserve_0 = 0
  /\ reserve_1 = 0

(* add_liquidity and burn_liquidity over the range: get_delta_amounts_     *)
(* signed rounds up what comes in and down what goes out.                  *)
Deposit(amount) ==
  LET in_0 == GetDeltaAmount0(sqrt_price, PriceUpper, amount, TRUE)
      in_1 == GetDeltaAmount1(PriceLower, sqrt_price, amount, TRUE)
  IN  /\ Amount0Fits(sqrt_price, PriceUpper, amount, TRUE)
      /\ Amount1Fits(PriceLower, sqrt_price, amount, TRUE)
      /\ in_0 > 0 \/ in_1 > 0
      /\ reserve_0 + in_0 \in 0..MaxAmount
      /\ reserve_1 + in_1 \in 0..MaxAmount
      /\ liquidity' = liquidity + amount
      /\ reserve_0' = reserve_0 + in_0
      /\ reserve_1' = reserve_1 + in_1
      /\ UNCHANGED sqrt_price

Withdraw(amount) ==
  /\ amount <= liquidity
  /\ Amount0Fits(sqrt_price, PriceUpper, amount, FALSE)
  /\ Amount1Fits(PriceLower, sqrt_price, amount, FALSE)
  /\ liquidity' = liquidity - amount
  /\ reserve_0' = reserve_0 - GetDeltaAmount0(sqrt_price, PriceUpper, amount, FALSE)
  /\ reserve_1' = reserve_1 - GetDeltaAmount1(PriceLower, sqrt_price, amount, FALSE)
  /\ UNCHANGED sqrt_price

Towards(target, zero_for_one) ==
  IF zero_for_one THEN target <= sqrt_price ELSE sqrt_price <= target

(* One turn of swap_internal's loop.                                       *)
SwapStep(target, remaining, is_base_input, zero_for_one) ==
  LET step == ComputeSwapStep(sqrt_price, target, liquidity, remaining,
                              is_base_input, zero_for_one)
  IN  /\ Towards(target, zero_for_one)
      /\ StepFits(sqrt_price, target, liquidity, remaining, is_base_input, zero_for_one)
      /\ sqrt_price' = step.sqrt_price_next
      /\ IF zero_for_one
         THEN /\ reserve_0' = reserve_0 + step.amount_in
              /\ reserve_1' = reserve_1 - step.amount_out
         ELSE /\ reserve_1' = reserve_1 + step.amount_in
              /\ reserve_0' = reserve_0 - step.amount_out
      /\ reserve_0' <= MaxAmount /\ reserve_1' <= MaxAmount
      /\ UNCHANGED liquidity

Next ==
  \/ \E amount \in 1..(MaxLiquidity - liquidity) : Deposit(amount)
  \/ \E amount \in 1..liquidity : Withdraw(amount)
  \/ \E target \in Prices, remaining \in Amounts, is_base_input, zero_for_one \in BOOLEAN :
       SwapStep(target, remaining, is_base_input, zero_for_one)

Spec == Init /\ [][Next]_vars

-----------------------------------------------------------------------------
(* Properties *)

(* The words of the pool: nothing goes below zero, and nothing that the    *)
(* roundings of deposits, withdrawals and steps do takes the price out of  *)
(* the range.                                                              *)
TypeOK ==
  /\ sqrt_price \in Prices
  /\ liquidity \in 0..MaxLiquidity
  /\ reserve_0 \in 0..MaxAmount
  /\ reserve_1 \in 0..MaxAmount

(* The reserves are always worth the liquidity, in exact arithmetic and    *)
(* whatever was deposited, withdrawn and swapped before: the last one to   *)
(* withdraw is paid in full, and no sequence of roundings can be turned    *)
(* against the pool.                                                       *)
Solvent ==
  /\ liquidity * Q64 * (PriceUpper - sqrt_price) <= reserve_0 * sqrt_price * PriceUpper
  /\ liquidity * (sqrt_price - PriceLower) <= reserve_1 * Q64

(* The steps that swap_internal can take from the present state.           *)
AllSteps(Holds(_, _, _, _)) ==
  \A target \in Prices, remaining \in Amounts, is_base_input, zero_for_one \in BOOLEAN :
    /\ Towards(target, zero_for_one)
    /\ StepFits(sqrt_price, target, liquidity, remaining, is_base_input, zero_for_one)
    => Holds(target, remaining, is_base_input,
             ComputeSwapStep(sqrt_price, target, liquidity, remaining,
                             is_base_input, zero_for_one))

(* compute_swap_step never uses more than remains, so that swap_internal's *)
(* checked_sub cannot panic, and stops short of the target only when all   *)
(* of it is used and there is liquidity: what the swap loop takes for      *)
(* granted when it ends or goes on to the next tick.                       *)
StepUsesRemaining ==
  LET Holds(target, remaining, is_base_input, step) ==
        IF step.sqrt_price_next = target
        THEN AmountUsed(step, is_base_input) <= remaining
        ELSE AmountUsed(step, is_base_input) = remaining /\ liquidity > 0
  IN  AllSteps(Holds)

(* A step never carries the price past its target, nor backwards, however  *)
(* the price was rounded: swap_internal's require_gte! never fails.        *)
StepStaysBetween ==
  LET Holds(target, remaining, is_base_input, step) ==
        \/ sqrt_price <= step.sqrt_price_next /\ step.sqrt_price_next <= target
        \/ target <= step.sqrt_price_next /\ step.sqrt_price_next <= sqrt_price
  IN  AllSteps(Holds)

(* A step pays at least the trade fee on everything it takes in, its       *)
(* rounding included, whichever way the fee was reckoned.                  *)
FeeCharged ==
  LET Holds(target, remaining, is_base_input, step) ==
        step.fee_amount * FEE_RATE_DENOMINATOR_VALUE
          >= trade_fee_rate * (step.amount_in + step.fee_amount)
  IN  AllSteps(Holds)

(* Liquidity that was reckoned from a maximal amount of one token never    *)
(* costs more than that amount, although cost and liquidity are rounded    *)
(* several times: a deposit based on an amount passes its own slippage     *)
(* check for that token.                                                   *)
QuoteAffordable ==
  \A amount \in Amounts :
    /\ GetDeltaAmount0(sqrt_price, PriceUpper,
                       GetLiquidityFromSingleAmount0(sqrt_price, amount), TRUE) <= amount
    /\ GetDeltaAmount1(PriceLower, sqrt_price,
                       GetLiquidityFromSingleAmount1(sqrt_price, amount), TRUE) <= amount
=============================================================================
