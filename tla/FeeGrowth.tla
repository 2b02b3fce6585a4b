------------------------------- MODULE FeeGrowth -------------------------------
(***************************************************************************)
(* Who earns a pool's trading fees.  On top of the liquidity book, the     *)
(* growth of the fee per unit of liquidity: over the whole pool, outside   *)
(* each tick, and inside a range as the protocol position and the personal *)
(* positions last saw it, with the fees that positions are owed and those  *)
(* that were collected.                                                    *)
(*                                                                         *)
(* The pool keeps all of this once for each token, and the two never meet: *)
(* token_0 pays the fee of swaps down and token_1 that of swaps up.  The   *)
(* module follows one of them; fee_direction, which never changes, says    *)
(* which.                                                                  *)
(***************************************************************************)
EXTENDS TickLiquidity

CONSTANTS
  Q64,            \* the unit of growth: one token for one unit of liquidity
  Word,           \* the number of values of a growth, 2^128 in the code
  MaxGrowth,      \* the bounds of the model: on the pool's growth, which a
  MaxFee          \* u128 holds in the code, and on the fee of one step

ASSUME GrowthAssumption ==
  /\ Q64 \in Nat \ {0}
  /\ MaxGrowth \in Nat /\ Word \in Nat /\ MaxGrowth < Word
  /\ MaxFee \in Nat

VARIABLES
  fee_direction,         \* the zero_for_one of the swaps that pay in the token
  fee_growth_global,     \* PoolState.fee_growth_global_x64
  fee_growth_outside,    \* TickState.fee_growth_outside_x64, by tick
  protocol_growth_last,  \* ProtocolPositionState.fee_growth_inside_last_x64, by range
  protocol_fees_owed,    \* ProtocolPositionState.token_fees_owed, by range
  growth_last,           \* PersonalPositionState.fee_growth_inside_last_x64, by NFT
  fees_owed,             \* PersonalPositionState.token_fees_owed, by NFT
  unclaimed_fees,        \* PoolState.total_fees_token - total_fees_claimed_token
  walk                   \* of the swap under way: SwapState's growth and fee_amount,
                         \* and the ticks it has written so far

positionFeeVars == <<protocol_growth_last, protocol_fees_owed, growth_last, fees_owed>>
poolFeeVars == <<fee_direction, fee_growth_global, fee_growth_outside, unclaimed_fees>>
feeVars == <<poolFeeVars, positionFeeVars, walk>>

-----------------------------------------------------------------------------
(* Growth inside a range *)

(* wrapping_sub *)
Wrapped_Not(x) == x
Wrapped(x) == x % Word

(* Growth below the lower and above the upper tick.  The checked_sub of    *)
(* the one that lies on the other side of the price panics below zero.     *)
GrowthBelow(outside, lower) ==
  IF tick_current >= lower THEN outside[lower] ELSE fee_growth_global - outside[lower]
GrowthAbove(outside, upper) ==
  IF tick_current < upper THEN outside[upper] ELSE fee_growth_global - outside[upper]
GrowthInside(outside, lower, upper) ==
  Wrapped(fee_growth_global - GrowthBelow(outside, lower) - GrowthAbove(outside, upper))

(* TickState::update: a tick that becomes initialized takes all growth so  *)
(* far to have happened below it.                                          *)
OutsideUpdated(lower, upper, delta) ==
  [t \in Ticks |->
     IF t \in {lower, upper} /\ delta # 0 /\ liquidity_gross[t] = 0 /\ t <= tick_current
     THEN fee_growth_global ELSE fee_growth_outside[t]]

(* ProtocolPositionState::update subtracts with saturating_sub, the        *)
(* personal positions with wrapping_sub.                                   *)
Saturated(x) == IF x < 0 THEN 0 ELSE x
ProtocolFees(r, inside) ==
  (Saturated(inside - protocol_growth_last[r]) * protocol_liquidity[r]) \div Q64

(* update_position as far as growth goes: ticks, then the growth inside    *)
(* and the protocol position, then the ticks that are cleared.             *)
ModifyGrowth(lower, upper, delta) ==
  LET outside == OutsideUpdated(lower, upper, delta)
      inside == GrowthInside(outside, lower, upper)
      r == <<lower, upper>>
      Cleared(t) == t \in {lower, upper} /\ delta < 0 /\ Flipped(t, delta)
  IN  /\ GrowthBelow(outside, lower) >= 0 /\ GrowthAbove(outside, upper) >= 0
      /\ protocol_growth_last' = [protocol_growth_last EXCEPT ![r] = inside]
      /\ protocol_fees_owed' = [protocol_fees_owed EXCEPT ![r] = @ + ProtocolFees(r, inside)]
      /\ fee_growth_outside' = [t \in Ticks |-> IF Cleared(t) THEN 0 ELSE outside[t]]
      /\ UNCHANGED <<fee_direction, fee_growth_global, walk>>

(* calculate_latest_token_fees, with the growth the protocol position now  *)
(* shows and the liquidity the position has had so far.                    *)
LatestFees_OfNewLiquidity(n, latest) ==
  (Wrapped(latest - growth_last[n]) * position'[n].liquidity) \div Q64
LatestFees(n, latest) ==
  (Wrapped(latest - growth_last[n]) * position[n].liquidity) \div Q64

(* What the protocol position of n shows after the instruction updated it. *)
Latest(n) == protocol_growth_last'[<<position[n].lower, position[n].upper>>]

-----------------------------------------------------------------------------
(* Instructions *)

(* A new position starts from the growth its protocol position shows, a    *)
(* stale one if no liquidity is added.                                     *)
FeeOpenPosition(n, lower, upper, amount) ==
  /\ OpenPosition(n, lower, upper, amount)
  /\ IF amount = 0
     THEN UNCHANGED <<fee_direction, fee_growth_global, fee_growth_outside,
                     protocol_growth_last, protocol_fees_owed, walk>>
     ELSE ModifyGrowth(lower, upper, amount)
  /\ growth_last' = [growth_last EXCEPT ![n] = protocol_growth_last'[<<lower, upper>>]]
  /\ UNCHANGED <<fees_owed, unclaimed_fees>>

FeeIncreaseLiquidity(n, amount) ==
  /\ IncreaseLiquidity(n, amount)
  /\ ModifyGrowth(position[n].lower, position[n].upper, amount)
  /\ growth_last' = [growth_last EXCEPT ![n] = Latest(n)]
  /\ fees_owed' = [fees_owed EXCEPT ![n] = @ + LatestFees(n, Latest(n))]
  /\ UNCHANGED unclaimed_fees

(* Paying out: everything owed, which must not exceed what the pool has    *)
(* not paid yet.                                                           *)
Pay(n, owed) ==
  /\ owed <= unclaimed_fees
  /\ fees_owed' = [fees_owed EXCEPT ![n] = 0]
  /\ unclaimed_fees' = unclaimed_fees - owed

(* decrease_liquidity.  Whether it pays is up to the pool's CollectFee     *)
(* bit, which the admin and check_unclaimed_fees_and_vault set.            *)
FeeDecreaseLiquidity(n, amount, collect) ==
  /\ DecreaseLiquidity(n, amount)
  /\ ModifyGrowth(position[n].lower, position[n].upper, -amount)
  /\ growth_last' = [growth_last EXCEPT ![n] = Latest(n)]
  /\ LET owed == fees_owed[n] + LatestFees(n, Latest(n))
     IN  IF collect THEN Pay(n, owed)
         ELSE fees_owed' = [fees_owed EXCEPT ![n] = owed] /\ UNCHANGED unclaimed_fees

(* decrease_liquidity while the pool's DecreaseLiquidity bit is off: it    *)
(* takes nothing out and pays what is owed already.                        *)
CollectFees(n) ==
  /\ swap.phase = "idle"
  /\ position[n] # NoPosition
  /\ Pay(n, fees_owed[n])
  /\ UNCHANGED <<vars, fee_direction, fee_growth_global, fee_growth_outside,
                 protocol_growth_last, protocol_fees_owed, growth_last, walk>>

FeeClosePosition(n) ==
  /\ ClosePosition(n)
  /\ fees_owed[n] = 0
  /\ growth_last' = [growth_last EXCEPT ![n] = 0]
  /\ UNCHANGED <<fee_direction, fee_growth_global, fee_growth_outside, protocol_growth_last,
                 protocol_fees_owed, fees_owed, unclaimed_fees, walk>>

-----------------------------------------------------------------------------
(* Swap *)

IdleWalk == [growth |-> 0, fee_amount |-> 0, outside |-> [t \in Ticks |-> 0]]

FeeSwapBegin(zero_for_one, limit) ==
  /\ SwapBegin(zero_for_one, limit)
  /\ walk' = [growth |-> fee_growth_global, fee_amount |-> 0, outside |-> fee_growth_outside]
  /\ UNCHANGED <<poolFeeVars, positionFeeVars>>

(* The fee of a step, the protocol's and the fund's shares taken off,      *)
(* spread over the liquidity in range.                                     *)
GrowthAfter(fee) ==
  IF swap.liquidity > 0 THEN walk.growth + (fee * Q64) \div swap.liquidity ELSE walk.growth

(* TickState::cross, with the growth of the walk and not the pool's.       *)
OutsideCrossed_Stale(t, growth) ==
  [walk.outside EXCEPT ![t] = fee_growth_global - @]
OutsideCrossed(t, growth) == [walk.outside EXCEPT ![t] = growth - @]

(* A step towards tick t that takes a fee.  Nothing goes in where there is *)
(* no liquidity, so no fee is due there either.                            *)
FeeSwapStep(a, t, p, spent, fee) ==
  /\ SwapStep(a, t, p, spent)
  /\ fee > 0 => swap.zero_for_one = fee_direction /\ swap.liquidity > 0
  /\ GrowthAfter(fee) <= MaxGrowth
  /\ p = SqrtPrice[t] => walk.outside[t] <= GrowthAfter(fee)
  /\ walk' = [growth     |-> GrowthAfter(fee),
              fee_amount |-> walk.fee_amount + fee,
              outside    |-> IF p = SqrtPrice[t] THEN OutsideCrossed(t, GrowthAfter(fee))
                                                 ELSE walk.outside]
  /\ UNCHANGED <<poolFeeVars, positionFeeVars>>

FeeSwapEnd_KeepsGrowth ==
  /\ SwapEnd
  /\ fee_growth_global' = fee_growth_global
  /\ fee_growth_outside' = walk.outside
  /\ unclaimed_fees' = unclaimed_fees + walk.fee_amount
  /\ walk' = IdleWalk
  /\ UNCHANGED <<fee_direction, positionFeeVars>>
FeeSwapEnd ==
  /\ SwapEnd
  /\ fee_growth_global' = walk.growth
  /\ fee_growth_outside' = walk.outside
  /\ unclaimed_fees' = unclaimed_fees + walk.fee_amount
  /\ walk' = IdleWalk
  /\ UNCHANGED <<fee_direction, positionFeeVars>>

FeeSwapAbort ==
  /\ SwapAbort
  /\ walk' = IdleWalk
  /\ UNCHANGED <<poolFeeVars, positionFeeVars>>

-----------------------------------------------------------------------------
FeeInit ==
  /\ Init
  /\ fee_direction \in BOOLEAN
  /\ fee_growth_global = 0
  /\ fee_growth_outside = [t \in Ticks |-> 0]
  /\ protocol_growth_last = [r \in Ranges |-> 0]
  /\ protocol_fees_owed = [r \in Ranges |-> 0]
  /\ growth_last = [n \in Nft |-> 0]
  /\ fees_owed = [n \in Nft |-> 0]
  /\ unclaimed_fees = 0
  /\ walk = IdleWalk

FeeNext ==
  \/ \E n \in Nft, lower, upper \in Ticks, amount \in NewLiquidity :
       FeeOpenPosition(n, lower, upper, amount)
  \/ \E n \in Nft, amount \in NewLiquidity : FeeIncreaseLiquidity(n, amount)
  \/ \E n \in Nft, amount \in 0..MaxLiquidity, collect \in BOOLEAN :
       FeeDecreaseLiquidity(n, amount, collect)
  \/ \E n \in Nft : CollectFees(n)
  \/ \E n \in Nft : FeeClosePosition(n)
  \/ \E zero_for_one \in BOOLEAN, limit \in Prices : FeeSwapBegin(zero_for_one, limit)
  \/ \E a \in ArrayStarts, t \in Ticks, p \in Prices, spent \in BOOLEAN, fee \in 0..MaxFee :
       FeeSwapStep(a, t, p, spent, fee)
  \/ FeeSwapEnd
  \/ FeeSwapAbort

FeeSpec == FeeInit /\ [][FeeNext]_<<vars, feeVars>>

-----------------------------------------------------------------------------
(* Properties *)

FeeTypeOK ==
  /\ fee_direction \in BOOLEAN
  /\ fee_growth_global \in 0..MaxGrowth
  /\ fee_growth_outside \in [Ticks -> 0..MaxGrowth]
  /\ protocol_growth_last \in [Ranges -> 0..(Word - 1)]
  /\ protocol_fees_owed \in [Ranges -> Nat]
  /\ growth_last \in [Nft -> 0..(Word - 1)]
  /\ fees_owed \in [Nft -> Nat]
  /\ unclaimed_fees \in Nat
  /\ walk \in [growth : 0..MaxGrowth, fee_amount : Nat, outside : [Ticks -> 0..MaxGrowth]]

(* The growth as the instruction under way sees it.                        *)
Walking == swap.phase # "idle"
Tick == IF Walking THEN swap.tick ELSE tick_current
Growth == IF Walking THEN walk.growth ELSE fee_growth_global
Outside == IF Walking THEN walk.outside ELSE fee_growth_outside

(* No tick has seen more growth outside than the pool has had in all: the  *)
(* checked_sub of cross and of get_fee_growth_inside, which would make a   *)
(* swap over the tick impossible for ever, never panics.                   *)
OutsideWithinGlobal == \A t \in Ticks : Outside[t] <= Growth

(* Growth inside a range, of the state that the instruction under way has  *)
(* built up.                                                               *)
Inside(lower, upper) ==
  LET below == IF Tick >= lower THEN Outside[lower] ELSE Growth - Outside[lower]
      above == IF Tick < upper THEN Outside[upper] ELSE Growth - Outside[upper]
  IN  Wrapped(Growth - below - above)

(* The growth that the positions of a range have earned moves with the     *)
(* pool's exactly while the tick is in the range, in every turn of the     *)
(* swap loop: crossing ticks, opening and closing other positions and the  *)
(* end of a swap neither add to it nor take from it.                       *)
InsideGrowthMoves ==
  [][\A r \in Ranges :
       ~FeeSwapAbort /\ protocol_liquidity[r] > 0 /\ protocol_liquidity'[r] > 0 =>
         LET moved == IF r[1] <= Tick /\ Tick < r[2] THEN Growth' - Growth ELSE 0
         IN  Inside(r[1], r[2])' = Wrapped(Inside(r[1], r[2]) + moved)]_<<vars, feeVars>>

(* What position n could collect now, if it caught up first.               *)
Claim(n) ==
  fees_owed[n]
    + (Wrapped(Inside(position[n].lower, position[n].upper) - growth_last[n])
         * position[n].liquidity) \div Q64

(* The fees that the pool took and has not paid out yet cover everything   *)
(* that all positions together could collect at this moment: the           *)
(* require_gte! of decrease_liquidity never refuses an owner's fees, in    *)
(* whatever order the owners come, and no fee is paid twice.               *)
FeesCovered ==
  MapThenSumSet(Claim, Open) <= unclaimed_fees + walk.fee_amount
=============================================================================
