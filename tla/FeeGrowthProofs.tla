--------------------------- MODULE FeeGrowthProofs ---------------------------
(***************************************************************************)
(* What is proved of fee growth.  The instructions with their fees are     *)
(* instructions of the liquidity book, so whatever is proved of the book   *)
(* holds here; no tick ever sees more growth outside than there was in     *)
(* all; the growth inside a range moves with the pool's exactly while the  *)
(* tick is in the range, through any number of crossed ticks; and what the *)
(* swaps paid always covers what the positions are owed and could collect. *)
(***************************************************************************)
EXTENDS FeeGrowth, TickLiquidityProofs

-----------------------------------------------------------------------------
(* The book underneath *)

LEMMA FeeNextIsNext == [FeeNext]_<<vars, feeVars>> => [Next]_vars
<1> SUFFICES ASSUME FeeNext PROVE Next \/ UNCHANGED vars  OBVIOUS
<1>1. ASSUME NEW n \in Nft, NEW lower \in Ticks, NEW upper \in Ticks,
             NEW amount \in NewLiquidity, FeeOpenPosition(n, lower, upper, amount)
      PROVE  Next
  BY <1>1 DEF FeeOpenPosition, Next
<1>2. ASSUME NEW n \in Nft, NEW amount \in NewLiquidity, FeeIncreaseLiquidity(n, amount)
      PROVE  Next
  BY <1>2 DEF FeeIncreaseLiquidity, Next
<1>3. ASSUME NEW n \in Nft, NEW amount \in 0..MaxLiquidity, NEW collect \in BOOLEAN,
             FeeDecreaseLiquidity(n, amount, collect)
      PROVE  Next
  BY <1>3 DEF FeeDecreaseLiquidity, Next
<1>4. ASSUME NEW n \in Nft, CollectFees(n) PROVE UNCHANGED vars
  BY <1>4 DEF CollectFees
<1>5. ASSUME NEW n \in Nft, FeeClosePosition(n) PROVE Next
  BY <1>5 DEF FeeClosePosition, Next
<1>6. ASSUME NEW zero_for_one \in BOOLEAN, NEW limit \in Prices,
             FeeSwapBegin(zero_for_one, limit)
      PROVE  Next
  BY <1>6 DEF FeeSwapBegin, Next
<1>7. ASSUME NEW a \in ArrayStarts, NEW t \in Ticks, NEW p \in Prices,
             NEW spent \in BOOLEAN, NEW fee \in 0..MaxFee, FeeSwapStep(a, t, p, spent, fee)
      PROVE  Next
  BY <1>7 DEF FeeSwapStep, Next
<1>8. ASSUME FeeSwapEnd \/ FeeSwapAbort PROVE Next
  BY <1>8 DEF FeeSwapEnd, FeeSwapAbort, Next
<1> QED  BY <1>1, <1>2, <1>3, <1>4, <1>5, <1>6, <1>7, <1>8 DEF FeeNext

(* The pool with its fees is a liquidity book: everything proved of the    *)
(* book holds of it too.                                                   *)
THEOREM FeesKeepBook == FeeSpec => Spec
<1>1. FeeInit => Init  BY DEF FeeInit
<1> QED  BY <1>1, FeeNextIsNext, PTL DEF FeeSpec, Spec

LEMMA FeeBook == FeeSpec => []BookInv
BY FeesKeepBook, BookInvariant, PTL

-----------------------------------------------------------------------------
(* Growth outside ticks *)

(* The same of the pool's own words and of the walk's.                     *)
PoolOutside == \A t \in Ticks : fee_growth_outside[t] <= fee_growth_global
WalkOutside == Walking => \A t \in Ticks : walk.outside[t] <= walk.growth
GrowthInv == FeeTypeOK /\ PoolOutside /\ WalkOutside

LEMMA GrowthConstants ==
  /\ Q64 \in Nat \ {0} /\ MaxGrowth \in Nat /\ MaxFee \in Nat
  /\ Word \in Nat \ {0} /\ MaxGrowth < Word /\ 0 \in 0..(Word - 1)
BY GrowthAssumption

LEMMA WrappedType == \A x \in Int : Wrapped(x) \in 0..(Word - 1)
BY GrowthConstants, ModBounds DEF Wrapped

LEMMA IdleWalkType ==
  IdleWalk \in [growth : 0..MaxGrowth, fee_amount : Nat, outside : [Ticks -> 0..MaxGrowth]]
BY GrowthConstants DEF IdleWalk

(* Updating the ticks and the protocol position of a range.                *)
LEMMA ModifyGrowthKeeps ==
  ASSUME TypeInv, GrowthInv, NEW lower \in Ticks, NEW upper \in Ticks, lower < upper,
         NEW delta \in Int, ModifyGrowth(lower, upper, delta)
  PROVE  /\ protocol_growth_last' \in [Ranges -> 0..(Word - 1)]
         /\ protocol_fees_owed' \in [Ranges -> Nat]
         /\ fee_growth_outside' \in [Ticks -> 0..MaxGrowth]
         /\ \A t \in Ticks : fee_growth_outside'[t] <= fee_growth_global
         /\ UNCHANGED <<fee_direction, fee_growth_global, walk>>
<1> DEFINE outside == OutsideUpdated(lower, upper, delta)
           inside == GrowthInside(outside, lower, upper)
           r == <<lower, upper>>
<1>1. /\ fee_growth_global \in 0..MaxGrowth
      /\ fee_growth_outside \in [Ticks -> 0..MaxGrowth]
      /\ protocol_growth_last \in [Ranges -> 0..(Word - 1)]
      /\ protocol_fees_owed \in [Ranges -> Nat]
      /\ \A t \in Ticks : fee_growth_outside[t] <= fee_growth_global
  BY DEF GrowthInv, FeeTypeOK, PoolOutside
<1>2. r \in Ranges  BY DEF Ranges
<1>3. /\ outside \in [Ticks -> 0..MaxGrowth]
      /\ \A t \in Ticks : outside[t] <= fee_growth_global
  BY <1>1, GrowthConstants DEF OutsideUpdated
<1>4. inside \in 0..(Word - 1)
  <2> HIDE DEF outside
  <2>1. GrowthBelow(outside, lower) \in Int /\ GrowthAbove(outside, upper) \in Int
    BY <1>1, <1>3, GrowthConstants DEF GrowthBelow, GrowthAbove
  <2> DEFINE below == GrowthBelow(outside, lower)
             above == GrowthAbove(outside, upper)
  <2> HIDE DEF below, above
  <2>2. fee_growth_global - below - above \in Int
    BY <1>1, <2>1, GrowthConstants DEF below, above
  <2> QED  BY <2>2, WrappedType DEF GrowthInside, below, above
<1>5. ProtocolFees(r, inside) \in Nat
  <2> HIDE DEF inside, r
  <2>1. Saturated(inside - protocol_growth_last[r]) \in Nat
    BY <1>1, <1>2, <1>4, GrowthConstants DEF Saturated
  <2>2. protocol_liquidity[r] \in Nat
    BY <1>2, LiquidityAssumption DEF TypeInv, TypeOK
  <2> QED  BY <2>1, <2>2, TimesNat, DivNat, GrowthConstants DEF ProtocolFees
<1>6. /\ protocol_growth_last' = [protocol_growth_last EXCEPT ![r] = inside]
      /\ protocol_fees_owed' =
           [protocol_fees_owed EXCEPT ![r] = @ + ProtocolFees(r, inside)]
      /\ \A t \in Ticks : fee_growth_outside'[t] = 0 \/ fee_growth_outside'[t] = outside[t]
      /\ fee_growth_outside' \in [Ticks -> {fee_growth_outside'[t] : t \in Ticks}]
      /\ UNCHANGED <<fee_direction, fee_growth_global, walk>>
  BY DEF ModifyGrowth
<1> HIDE DEF outside, inside, r
<1>7. protocol_growth_last' \in [Ranges -> 0..(Word - 1)]  BY <1>1, <1>4, <1>6
<1>8. protocol_fees_owed' \in [Ranges -> Nat]  BY <1>1, <1>2, <1>5, <1>6
<1>9. /\ fee_growth_outside' \in [Ticks -> 0..MaxGrowth]
      /\ \A t \in Ticks : fee_growth_outside'[t] <= fee_growth_global
  BY <1>1, <1>3, <1>6, GrowthConstants
<1> QED  BY <1>6, <1>7, <1>8, <1>9

(* The fees a position is due are an amount.                               *)
LEMMA LatestFeesType ==
  ASSUME TypeInv, GrowthInv, NEW n \in Nft, position[n] # NoPosition,
         NEW latest \in 0..(Word - 1)
  PROVE  LatestFees(n, latest) \in Nat /\ fees_owed[n] + LatestFees(n, latest) \in Nat
<1>1. growth_last[n] \in 0..(Word - 1) /\ fees_owed[n] \in Nat
  BY DEF GrowthInv, FeeTypeOK
<1>2. latest - growth_last[n] \in Int  BY <1>1, GrowthConstants
<1>3. Wrapped(latest - growth_last[n]) \in Nat  BY <1>2, WrappedType, GrowthConstants
<1>4. position[n].liquidity \in Nat  BY HoldsOpen
<1>5. LatestFees(n, latest) \in Nat
  BY <1>3, <1>4, TimesNat, DivNat, GrowthConstants DEF LatestFees
<1> QED  BY <1>1, <1>5

(* The growth after a step is no less than before it.                      *)
LEMMA GrowthAfterType ==
  ASSUME TypeInv, GrowthInv, NEW fee \in 0..MaxFee
  PROVE  GrowthAfter(fee) \in Nat /\ walk.growth <= GrowthAfter(fee) /\ walk.growth \in Nat
<1>1. walk.growth \in Nat  BY GrowthConstants DEF GrowthInv, FeeTypeOK
<1>2. swap.liquidity \in Nat  BY LiquidityAssumption DEF TypeInv, TypeOK, SwapState
<1>3. fee \in Nat /\ fee * Q64 \in Nat  BY GrowthConstants, TimesNat
<1>4. CASE swap.liquidity > 0
  <2>1. (fee * Q64) \div swap.liquidity \in Nat  BY <1>2, <1>3, <1>4, DivNat
  <2> QED  BY <1>1, <1>4, <2>1 DEF GrowthAfter
<1>5. CASE ~(swap.liquidity > 0)  BY <1>1, <1>5 DEF GrowthAfter
<1> QED  BY <1>1, <1>4, <1>5

LEMMA InitGrowth == FeeInit => GrowthInv
<1> SUFFICES ASSUME FeeInit PROVE GrowthInv  OBVIOUS
<1>1. FeeTypeOK  BY IdleWalkType, GrowthConstants DEF FeeInit, FeeTypeOK
<1>2. PoolOutside  BY DEF FeeInit, PoolOutside
<1>3. WalkOutside  BY DEF FeeInit, Init, IdleSwap, WalkOutside, Walking
<1> QED  BY <1>1, <1>2, <1>3 DEF GrowthInv

(* What an instruction other than a swap has to show.                      *)
LEMMA InstructionKeeps ==
  ASSUME GrowthInv, swap.phase = "idle", swap' = swap,
         protocol_growth_last' \in [Ranges -> 0..(Word - 1)],
         protocol_fees_owed' \in [Ranges -> Nat],
         fee_growth_outside' \in [Ticks -> 0..MaxGrowth],
         \A t \in Ticks : fee_growth_outside'[t] <= fee_growth_global,
         UNCHANGED <<fee_direction, fee_growth_global, walk>>,
         growth_last' \in [Nft -> 0..(Word - 1)],
         fees_owed' \in [Nft -> Nat],
         unclaimed_fees' \in Nat
  PROVE  GrowthInv'
<1>1. FeeTypeOK'  BY DEF GrowthInv, FeeTypeOK
<1>2. PoolOutside'  BY DEF PoolOutside
<1>3. WalkOutside'  BY DEF WalkOutside, Walking
<1> QED  BY <1>1, <1>2, <1>3 DEF GrowthInv

LEMMA NextGrowth == TypeInv /\ GrowthInv /\ [FeeNext]_<<vars, feeVars>> => GrowthInv'
<1> SUFFICES ASSUME TypeInv, GrowthInv, [FeeNext]_<<vars, feeVars>> PROVE GrowthInv'
  OBVIOUS
<1>0. /\ fee_direction \in BOOLEAN /\ fee_growth_global \in 0..MaxGrowth
      /\ fee_growth_outside \in [Ticks -> 0..MaxGrowth]
      /\ protocol_growth_last \in [Ranges -> 0..(Word - 1)]
      /\ protocol_fees_owed \in [Ranges -> Nat]
      /\ growth_last \in [Nft -> 0..(Word - 1)]
      /\ fees_owed \in [Nft -> Nat]
      /\ unclaimed_fees \in Nat
      /\ walk \in [growth : 0..MaxGrowth, fee_amount : Nat, outside : [Ticks -> 0..MaxGrowth]]
      /\ \A t \in Ticks : fee_growth_outside[t] <= fee_growth_global
  BY DEF GrowthInv, FeeTypeOK, PoolOutside
<1>1. ASSUME NEW n \in Nft, NEW lower \in Ticks, NEW upper \in Ticks,
             NEW amount \in NewLiquidity, FeeOpenPosition(n, lower, upper, amount)
      PROVE  GrowthInv'
  <2> DEFINE r == <<lower, upper>>
  <2>1. /\ amount \in Int /\ lower < upper /\ swap.phase = "idle"
        /\ AddLiquidity(lower, upper, amount)
        /\ growth_last' = [growth_last EXCEPT ![n] = protocol_growth_last'[r]]
        /\ UNCHANGED <<fees_owed, unclaimed_fees>>
    BY <1>1 DEF FeeOpenPosition, OpenPosition, NewLiquidity
  <2>2. swap' = swap  BY <2>1 DEF AddLiquidity, ModifyPosition
  <2>3. r \in Ranges  BY <2>1 DEF Ranges
  <2>4. /\ protocol_growth_last' \in [Ranges -> 0..(Word - 1)]
        /\ protocol_fees_owed' \in [Ranges -> Nat]
        /\ fee_growth_outside' \in [Ticks -> 0..MaxGrowth]
        /\ \A t \in Ticks : fee_growth_outside'[t] <= fee_growth_global
        /\ UNCHANGED <<fee_direction, fee_growth_global, walk>>
    <3>1. CASE amount = 0  BY <1>0, <1>1, <3>1 DEF FeeOpenPosition
    <3>2. CASE amount # 0
      <4>1. ModifyGrowth(lower, upper, amount)  BY <1>1, <3>2 DEF FeeOpenPosition
      <4> QED  BY <2>1, <4>1, ModifyGrowthKeeps
    <3> QED  BY <3>1, <3>2
  <2> HIDE DEF r
  <2>5. growth_last' \in [Nft -> 0..(Word - 1)]  BY <1>0, <2>1, <2>3, <2>4
  <2> QED  BY <1>0, <2>1, <2>2, <2>4, <2>5, InstructionKeeps
<1>2. ASSUME NEW n \in Nft, NEW amount \in NewLiquidity, FeeIncreaseLiquidity(n, amount)
      PROVE  GrowthInv'
  <2>1. /\ amount \in Int /\ position[n] # NoPosition /\ swap.phase = "idle"
        /\ AddLiquidity(position[n].lower, position[n].upper, amount)
        /\ ModifyGrowth(position[n].lower, position[n].upper, amount)
        /\ growth_last' = [growth_last EXCEPT ![n] = Latest(n)]
        /\ fees_owed' = [fees_owed EXCEPT ![n] = @ + LatestFees(n, Latest(n))]
        /\ UNCHANGED unclaimed_fees
    BY <1>2 DEF FeeIncreaseLiquidity, IncreaseLiquidity, NewLiquidity
  <2>2. swap' = swap  BY <2>1 DEF AddLiquidity, ModifyPosition
  <2>3. /\ position[n].lower \in Ticks /\ position[n].upper \in Ticks
        /\ position[n].lower < position[n].upper
    BY <2>1, HoldsOpen
  <2>4. /\ protocol_growth_last' \in [Ranges -> 0..(Word - 1)]
        /\ protocol_fees_owed' \in [Ranges -> Nat]
        /\ fee_growth_outside' \in [Ticks -> 0..MaxGrowth]
        /\ \A t \in Ticks : fee_growth_outside'[t] <= fee_growth_global
        /\ UNCHANGED <<fee_direction, fee_growth_global, walk>>
    BY <2>1, <2>3, ModifyGrowthKeeps
  <2>5. Latest(n) \in 0..(Word - 1)  BY <2>3, <2>4 DEF Latest, Ranges
  <2>6. fees_owed[n] + LatestFees(n, Latest(n)) \in Nat  BY <2>1, <2>5, LatestFeesType
  <2>7. growth_last' \in [Nft -> 0..(Word - 1)] /\ fees_owed' \in [Nft -> Nat]
    BY <1>0, <2>1, <2>5, <2>6
  <2> QED  BY <1>0, <2>1, <2>2, <2>4, <2>7, InstructionKeeps
<1>3. ASSUME NEW n \in Nft, NEW amount \in 0..MaxLiquidity, NEW collect \in BOOLEAN,
             FeeDecreaseLiquidity(n, amount, collect)
      PROVE  GrowthInv'
  <2> DEFINE owed == fees_owed[n] + LatestFees(n, Latest(n))
  <2>1. /\ -amount \in Int /\ position[n] # NoPosition /\ swap.phase = "idle"
        /\ ModifyPosition(position[n].lower, position[n].upper, -amount)
        /\ ModifyGrowth(position[n].lower, position[n].upper, -amount)
        /\ growth_last' = [growth_last EXCEPT ![n] = Latest(n)]
        /\ \/ owed <= unclaimed_fees /\ fees_owed' = [fees_owed EXCEPT ![n] = 0]
              /\ unclaimed_fees' = unclaimed_fees - owed
           \/ fees_owed' = [fees_owed EXCEPT ![n] = owed] /\ UNCHANGED unclaimed_fees
    BY <1>3, LiquidityAssumption DEF FeeDecreaseLiquidity, DecreaseLiquidity, Pay
  <2>2. swap' = swap  BY <2>1 DEF ModifyPosition
  <2>3. /\ position[n].lower \in Ticks /\ position[n].upper \in Ticks
        /\ position[n].lower < position[n].upper
    BY <2>1, HoldsOpen
  <2>4. /\ protocol_growth_last' \in [Ranges -> 0..(Word - 1)]
        /\ protocol_fees_owed' \in [Ranges -> Nat]
        /\ fee_growth_outside' \in [Ticks -> 0..MaxGrowth]
        /\ \A t \in Ticks : fee_growth_outside'[t] <= fee_growth_global
        /\ UNCHANGED <<fee_direction, fee_growth_global, walk>>
    BY <2>1, <2>3, ModifyGrowthKeeps
  <2>5. Latest(n) \in 0..(Word - 1)  BY <2>3, <2>4 DEF Latest, Ranges
  <2>6. owed \in Nat  BY <2>1, <2>5, LatestFeesType
  <2> HIDE DEF owed
  <2>7. growth_last' \in [Nft -> 0..(Word - 1)]  BY <1>0, <2>1, <2>5
  <2>8. fees_owed' \in [Nft -> Nat] /\ unclaimed_fees' \in Nat  BY <1>0, <2>1, <2>6
  <2> QED  BY <1>0, <2>1, <2>2, <2>4, <2>7, <2>8, InstructionKeeps
<1>4. ASSUME NEW n \in Nft, CollectFees(n) PROVE GrowthInv'
  <2>1. fees_owed' \in [Nft -> Nat] /\ unclaimed_fees' \in Nat
    BY <1>0, <1>4 DEF CollectFees, Pay
  <2>2. /\ swap.phase = "idle" /\ swap' = swap
        /\ UNCHANGED <<fee_direction, fee_growth_global, fee_growth_outside,
                       protocol_growth_last, protocol_fees_owed, growth_last, walk>>
    BY <1>4 DEF CollectFees, vars
  <2> QED  BY <1>0, <2>1, <2>2, InstructionKeeps
<1>5. ASSUME NEW n \in Nft, FeeClosePosition(n) PROVE GrowthInv'
  <2>1. /\ swap.phase = "idle" /\ swap' = swap
        /\ growth_last' = [growth_last EXCEPT ![n] = 0]
        /\ UNCHANGED <<fee_direction, fee_growth_global, fee_growth_outside,
                       protocol_growth_last, protocol_fees_owed, fees_owed,
                       unclaimed_fees, walk>>
    BY <1>5 DEF FeeClosePosition, ClosePosition
  <2>2. growth_last' \in [Nft -> 0..(Word - 1)]  BY <1>0, <2>1, GrowthConstants
  <2> QED  BY <1>0, <2>1, <2>2, InstructionKeeps
<1>6. ASSUME NEW zero_for_one \in BOOLEAN, NEW limit \in Prices,
             FeeSwapBegin(zero_for_one, limit)
      PROVE  GrowthInv'
  <2>1. /\ walk' = [growth |-> fee_growth_global, fee_amount |-> 0,
                    outside |-> fee_growth_outside]
        /\ UNCHANGED <<poolFeeVars, positionFeeVars>>
    BY <1>6 DEF FeeSwapBegin
  <2>2. FeeTypeOK'  BY <1>0, <2>1 DEF FeeTypeOK, poolFeeVars, positionFeeVars
  <2>3. PoolOutside'  BY <1>0, <2>1 DEF PoolOutside, poolFeeVars
  <2>4. WalkOutside'  BY <1>0, <2>1 DEF WalkOutside
  <2> QED  BY <2>2, <2>3, <2>4 DEF GrowthInv
<1>7. ASSUME NEW a \in ArrayStarts, NEW t \in Ticks, NEW p \in Prices,
             NEW spent \in BOOLEAN, NEW fee \in 0..MaxFee, FeeSwapStep(a, t, p, spent, fee)
      PROVE  GrowthInv'
  <2> DEFINE growth == GrowthAfter(fee)
             outside == IF p = SqrtPrice[t] THEN OutsideCrossed(t, growth) ELSE walk.outside
  <2>1. /\ swap.phase = "walking" /\ growth <= MaxGrowth
        /\ p = SqrtPrice[t] => walk.outside[t] <= growth
        /\ walk' = [growth |-> growth, fee_amount |-> walk.fee_amount + fee,
                    outside |-> outside]
        /\ UNCHANGED <<poolFeeVars, positionFeeVars>>
    BY <1>7 DEF FeeSwapStep, SwapStep
  <2>2. growth \in Nat /\ walk.growth <= growth /\ walk.growth \in Nat
    BY GrowthAfterType
  <2>3. /\ walk.outside \in [Ticks -> 0..MaxGrowth]
        /\ \A v \in Ticks : walk.outside[v] <= walk.growth
        /\ walk.fee_amount + fee \in Nat
    BY <1>0, <2>1, GrowthConstants DEF GrowthInv, WalkOutside, Walking
  <2> HIDE DEF growth
  <2>4. outside \in [Ticks -> 0..MaxGrowth] /\ \A v \in Ticks : outside[v] <= growth
    <3>1. CASE p = SqrtPrice[t]
      <4>1. outside = [walk.outside EXCEPT ![t] = growth - walk.outside[t]]
        BY <3>1 DEF OutsideCrossed
      <4>2. growth - walk.outside[t] \in 0..MaxGrowth /\ growth - walk.outside[t] <= growth
        BY <2>1, <2>2, <2>3, <3>1, GrowthConstants
      <4> QED  BY <2>2, <2>3, <4>1, <4>2, GrowthConstants
    <3>2. CASE p # SqrtPrice[t]  BY <2>2, <2>3, <3>2, GrowthConstants
    <3> QED  BY <3>1, <3>2
  <2> HIDE DEF outside
  <2>5. walk' \in [growth : 0..MaxGrowth, fee_amount : Nat, outside : [Ticks -> 0..MaxGrowth]]
    BY <2>1, <2>2, <2>3, <2>4, GrowthConstants
  <2>6. FeeTypeOK'  BY <1>0, <2>1, <2>5 DEF FeeTypeOK, poolFeeVars, positionFeeVars
  <2>7. PoolOutside'  BY <1>0, <2>1 DEF PoolOutside, poolFeeVars
  <2>8. WalkOutside'  BY <2>1, <2>4 DEF WalkOutside
  <2> QED  BY <2>6, <2>7, <2>8 DEF GrowthInv
<1>8. ASSUME FeeSwapEnd PROVE GrowthInv'
  <2>1. /\ swap.phase = "done" /\ swap' = IdleSwap
        /\ fee_growth_global' = walk.growth /\ fee_growth_outside' = walk.outside
        /\ unclaimed_fees' = unclaimed_fees + walk.fee_amount
        /\ walk' = IdleWalk
        /\ UNCHANGED <<fee_direction, positionFeeVars>>
    BY <1>8 DEF FeeSwapEnd, SwapEnd
  <2>2. \A v \in Ticks : walk.outside[v] <= walk.growth
    BY <2>1 DEF GrowthInv, WalkOutside, Walking
  <2>3. FeeTypeOK'  BY <1>0, <2>1, IdleWalkType DEF FeeTypeOK, positionFeeVars
  <2>4. PoolOutside'  BY <2>1, <2>2 DEF PoolOutside
  <2>5. WalkOutside'  BY <2>1 DEF WalkOutside, Walking, IdleSwap
  <2> QED  BY <2>3, <2>4, <2>5 DEF GrowthInv
<1>9. ASSUME FeeSwapAbort PROVE GrowthInv'
  <2>1. /\ swap' = IdleSwap /\ walk' = IdleWalk
        /\ UNCHANGED <<poolFeeVars, positionFeeVars>>
    BY <1>9 DEF FeeSwapAbort, SwapAbort
  <2>2. FeeTypeOK'  BY <1>0, <2>1, IdleWalkType DEF FeeTypeOK, poolFeeVars, positionFeeVars
  <2>3. PoolOutside'  BY <1>0, <2>1 DEF PoolOutside, poolFeeVars
  <2>4. WalkOutside'  BY <2>1 DEF WalkOutside, Walking, IdleSwap
  <2> QED  BY <2>2, <2>3, <2>4 DEF GrowthInv
<1>10. CASE UNCHANGED <<vars, feeVars>>
  BY <1>10 DEF GrowthInv, FeeTypeOK, PoolOutside, WalkOutside, Walking, vars, feeVars,
               poolFeeVars, positionFeeVars
<1> QED
  BY <1>1, <1>2, <1>3, <1>4, <1>5, <1>6, <1>7, <1>8, <1>9, <1>10 DEF FeeNext

LEMMA GrowthInvariant == FeeSpec => []GrowthInv
<1>1. BookInv => TypeInv  BY DEF BookInv, FitInv
<1>2. FeeInit => GrowthInv  BY InitGrowth
<1> QED  BY <1>1, <1>2, FeeBook, NextGrowth, PTL DEF FeeSpec

(* Every growth and every amount of fees stays in its word, whatever the   *)
(* unit of growth and the widths are: no subtraction goes below zero.      *)
THEOREM FeesTyped == FeeSpec => []FeeTypeOK
<1>1. GrowthInv => FeeTypeOK  BY DEF GrowthInv
<1> QED  BY <1>1, GrowthInvariant, PTL

(* The checked_sub of cross and of get_fee_growth_inside never panics: no  *)
(* tick, in any swap over any number of ticks, has more growth outside     *)
(* than the pool has had in all.                                           *)
THEOREM NoGrowthLost == FeeSpec => []OutsideWithinGlobal
<1>1. GrowthInv => OutsideWithinGlobal
  BY DEF GrowthInv, PoolOutside, WalkOutside, OutsideWithinGlobal, Outside, Growth
<1> QED  BY <1>1, GrowthInvariant, PTL

-----------------------------------------------------------------------------
(* Growth inside a range *)

Moves(r) ==
  LET moved == IF r[1] <= Tick /\ Tick < r[2] THEN Growth' - Growth ELSE 0
  IN  Inside(r[1], r[2])' = Wrapped(Inside(r[1], r[2]) + moved)

LEMMA WalkTypes ==
  ASSUME TypeInv, GrowthInv
  PROVE  /\ Tick \in Int /\ Growth \in Int
         /\ \A t \in Ticks : Outside[t] \in Int /\ t \in Int
<1>1. tick_current \in Int /\ swap.tick \in Int
  BY TickAssumption DEF TypeInv, TypeOK, SwapState
<1>2. /\ fee_growth_global \in Int /\ walk.growth \in Int
      /\ fee_growth_outside \in [Ticks -> Int] /\ walk.outside \in [Ticks -> Int]
  BY GrowthConstants DEF GrowthInv, FeeTypeOK
<1> QED  BY <1>1, <1>2, TicksType DEF Tick, Growth, Outside

(* InsideFollows, for the growth of fees.                                  *)
LEMMA EndsMove ==
  ASSUME TypeInv, GrowthInv, NEW r \in Ranges,
         NEW T2 \in Int, NEW G2 \in Int, NEW O2,
         Tick' = T2, Growth' = G2, Outside' = O2,
         \A v \in {r[1], r[2]} :
           LeftAlone(v, Tick, T2, Outside, O2) \/ SidesSwapped(v, Tick, T2, G2, Outside, O2)
  PROVE  Moves(r)
<1>1. r[1] \in Ticks /\ r[2] \in Ticks /\ r[1] < r[2]  BY DEF Ranges
<1>2. /\ Tick \in Int /\ Growth \in Int /\ r[1] \in Int /\ r[2] \in Int
      /\ Outside[r[1]] \in Int /\ Outside[r[2]] \in Int
  BY <1>1, WalkTypes
<1>3. Follows(Word, r[1], r[2], Tick, T2, Growth, G2, Outside, O2)
  BY <1>1, <1>2, GrowthConstants, InsideFollows
<1>4. /\ Inside(r[1], r[2]) = InsideAt(Tick, Growth, Outside, r[1], r[2], Word)
      /\ Inside(r[1], r[2])' = InsideAt(T2, G2, O2, r[1], r[2], Word)
  BY DEF Inside, Wrapped, InsideAt, BelowAt, AboveAt
<1> QED  BY <1>3, <1>4 DEF Moves, Wrapped, Follows

(* An instruction that leaves tick, growth and both ends alone.            *)
LEMMA StillMoves ==
  ASSUME TypeInv, GrowthInv, NEW r \in Ranges, Tick' = Tick, Growth' = Growth,
         Outside'[r[1]] = Outside[r[1]], Outside'[r[2]] = Outside[r[2]]
  PROVE  Moves(r)
<1>1. Tick' \in Int /\ Growth' \in Int  BY WalkTypes
<1>2. \A v \in {r[1], r[2]} : LeftAlone(v, Tick, Tick', Outside, Outside')
  BY DEF LeftAlone
<1> QED  BY <1>1, <1>2, EndsMove

LEMMA ModifyLeavesEnds ==
  ASSUME TypeInv, NEW lower \in Ticks, NEW upper \in Ticks, lower < upper,
         NEW delta \in Int, ModifyPosition(lower, upper, delta),
         ModifyGrowth(lower, upper, delta),
         NEW t \in Initialized, liquidity_gross'[t] # 0
  PROVE  fee_growth_outside'[t] = fee_growth_outside[t]
<1>1. liquidity_gross[t] # 0 /\ (t \in {lower, upper} => ~Flipped(t, delta))
  BY EndsNotFlipped
<1>2. t \in Ticks  BY DEF Initialized
<1>3. OutsideUpdated(lower, upper, delta)[t] = fee_growth_outside[t]
  BY <1>1, <1>2 DEF OutsideUpdated
<1> QED  BY <1>1, <1>2, <1>3 DEF ModifyGrowth

(* A turn of the swap loop: the ends of the range are initialized, so the  *)
(* turn moves the tick over an end exactly when it crosses it.             *)
LEMMA StepMoves ==
  ASSUME BookInv, GrowthInv, EndsInitialized,
         NEW a \in ArrayStarts, NEW t \in Ticks, NEW p \in Prices,
         NEW spent \in BOOLEAN, NEW fee \in 0..MaxFee, FeeSwapStep(a, t, p, spent, fee),
         NEW r \in Ranges, protocol_liquidity[r] > 0
  PROVE  Moves(r)
<1>0. TypeInv  BY DEF BookInv, FitInv
<1> DEFINE growth == GrowthAfter(fee)
           after == TickReached(swap, t, p)
           outside == IF p = SqrtPrice[t] THEN OutsideCrossed(t, growth) ELSE walk.outside
<1>1. /\ SwapStep(a, t, p, spent) /\ swap.phase = "walking"
      /\ walk' = [growth |-> growth, fee_amount |-> walk.fee_amount + fee,
                  outside |-> outside]
  BY DEF FeeSwapStep, SwapStep
<1>2. swap'.phase # "idle" /\ swap'.tick = after
  BY <1>0, <1>1 DEF SwapStep, TypeInv, TypeOK, SwapState
<1>3. /\ Tick = swap.tick /\ Outside = walk.outside
      /\ Tick' = after /\ Growth' = growth /\ Outside' = outside
  BY <1>1, <1>2 DEF Tick, Growth, Outside, Walking
<1>4. growth \in Int  BY <1>0, GrowthAfterType
<1>5. after \in Int
  <2>1. after \in MIN_TICK..MAX_TICK  BY <1>0, <1>1, SwapStepBounds
  <2> QED  BY <2>1, TickAssumption
<1>6. walk.outside \in [Ticks -> Int]  BY GrowthConstants DEF GrowthInv, FeeTypeOK
<1>7. ASSUME NEW v \in Initialized
      PROVE  \/ LeftAlone(v, swap.tick, after, walk.outside, outside)
             \/ SidesSwapped(v, swap.tick, after, growth, walk.outside, outside)
  <2>1. v \in Ticks  BY DEF Initialized
  <2>2. (v <= after) <=>
          IF p = SqrtPrice[t] /\ v = t THEN ~(v <= swap.tick) ELSE v <= swap.tick
    BY <1>1, StepOver
  <2>3. outside[v] = IF p = SqrtPrice[t] /\ v = t THEN growth - walk.outside[v]
                                                  ELSE walk.outside[v]
    <3> HIDE DEF growth
    <3> QED  BY <1>6, <2>1 DEF OutsideCrossed
  <2> HIDE DEF outside, after, growth
  <2> QED  BY <2>2, <2>3 DEF LeftAlone, SidesSwapped
<1>8. r[1] \in Initialized /\ r[2] \in Initialized  BY DEF EndsInitialized
<1> HIDE DEF outside, after, growth
<1> QED  BY <1>0, <1>3, <1>4, <1>5, <1>7, <1>8, EndsMove

LEMMA NextMoves ==
  ASSUME BookInv, GrowthInv, EndsInitialized, EndsInitialized', FeeNext,
         NEW r \in Ranges, ~FeeSwapAbort,
         protocol_liquidity[r] > 0, protocol_liquidity'[r] > 0
  PROVE  Moves(r)
<1>0. TypeInv  BY DEF BookInv, FitInv
<1>1. /\ r[1] \in Initialized /\ r[2] \in Initialized
      /\ liquidity_gross'[r[1]] # 0 /\ liquidity_gross'[r[2]] # 0
  BY DEF EndsInitialized, Initialized
<1>2. ASSUME swap.phase = "idle", swap' = swap, tick_current' = tick_current,
             fee_growth_global' = fee_growth_global,
             \/ UNCHANGED fee_growth_outside
             \/ \E lower, upper \in Ticks, delta \in Int :
                  /\ lower < upper
                  /\ ModifyPosition(lower, upper, delta)
                  /\ ModifyGrowth(lower, upper, delta)
      PROVE  Moves(r)
  <2>1. /\ fee_growth_outside'[r[1]] = fee_growth_outside[r[1]]
        /\ fee_growth_outside'[r[2]] = fee_growth_outside[r[2]]
    BY <1>0, <1>1, <1>2, ModifyLeavesEnds
  <2>2. /\ Tick' = Tick /\ Growth' = Growth
        /\ Outside = fee_growth_outside /\ Outside' = fee_growth_outside'
    BY <1>2 DEF Tick, Growth, Outside, Walking
  <2> QED  BY <1>0, <2>1, <2>2, StillMoves
<1>3. ASSUME NEW n \in Nft, NEW lower \in Ticks, NEW upper \in Ticks,
             NEW amount \in NewLiquidity, FeeOpenPosition(n, lower, upper, amount)
      PROVE  Moves(r)
  <2>1. /\ amount \in Int /\ lower < upper /\ swap.phase = "idle"
        /\ AddLiquidity(lower, upper, amount)
    BY <1>3 DEF FeeOpenPosition, OpenPosition, NewLiquidity
  <2>2. CASE amount = 0
    BY <1>2, <1>3, <2>1, <2>2 DEF FeeOpenPosition, AddLiquidity, poolVars
  <2>3. CASE amount # 0
    <3>1. ModifyPosition(lower, upper, amount) /\ ModifyGrowth(lower, upper, amount)
      BY <1>3, <2>1, <2>3 DEF FeeOpenPosition, AddLiquidity
    <3>2. /\ swap' = swap /\ tick_current' = tick_current
          /\ fee_growth_global' = fee_growth_global
      BY <3>1 DEF ModifyPosition, ModifyGrowth
    <3> QED  BY <1>2, <2>1, <3>1, <3>2
  <2> QED  BY <2>2, <2>3
<1>4. ASSUME NEW n \in Nft, NEW amount \in NewLiquidity, FeeIncreaseLiquidity(n, amount)
      PROVE  Moves(r)
  <2>1. /\ amount \in Int /\ amount # 0 /\ position[n] # NoPosition /\ swap.phase = "idle"
        /\ AddLiquidity(position[n].lower, position[n].upper, amount)
        /\ ModifyGrowth(position[n].lower, position[n].upper, amount)
    BY <1>4 DEF FeeIncreaseLiquidity, IncreaseLiquidity, NewLiquidity
  <2>2. /\ position[n].lower \in Ticks /\ position[n].upper \in Ticks
        /\ position[n].lower < position[n].upper
    BY <1>0, <2>1, HoldsOpen
  <2>3. ModifyPosition(position[n].lower, position[n].upper, amount)
    BY <2>1 DEF AddLiquidity
  <2>4. /\ swap' = swap /\ tick_current' = tick_current
        /\ fee_growth_global' = fee_growth_global
    BY <2>1, <2>3 DEF ModifyPosition, ModifyGrowth
  <2> QED  BY <1>2, <2>1, <2>2, <2>3, <2>4
<1>5. ASSUME NEW n \in Nft, NEW amount \in 0..MaxLiquidity, NEW collect \in BOOLEAN,
             FeeDecreaseLiquidity(n, amount, collect)
      PROVE  Moves(r)
  <2>1. /\ -amount \in Int /\ position[n] # NoPosition /\ swap.phase = "idle"
        /\ ModifyPosition(position[n].lower, position[n].upper, -amount)
        /\ ModifyGrowth(position[n].lower, position[n].upper, -amount)
    BY <1>5, LiquidityAssumption DEF FeeDecreaseLiquidity, DecreaseLiquidity
  <2>2. /\ position[n].lower \in Ticks /\ position[n].upper \in Ticks
        /\ position[n].lower < position[n].upper
    BY <1>0, <2>1, HoldsOpen
  <2>3. /\ swap' = swap /\ tick_current' = tick_current
        /\ fee_growth_global' = fee_growth_global
    BY <2>1 DEF ModifyPosition, ModifyGrowth
  <2> QED  BY <1>2, <2>1, <2>2, <2>3
<1>6. ASSUME NEW n \in Nft, CollectFees(n) \/ FeeClosePosition(n) PROVE Moves(r)
  <2>1. /\ swap.phase = "idle" /\ swap' = swap /\ tick_current' = tick_current
        /\ UNCHANGED <<fee_growth_global, fee_growth_outside>>
    BY <1>6 DEF CollectFees, FeeClosePosition, ClosePosition, vars, poolVars
  <2> QED  BY <1>2, <2>1
<1>7. ASSUME NEW zero_for_one \in BOOLEAN, NEW limit \in Prices,
             FeeSwapBegin(zero_for_one, limit)
      PROVE  Moves(r)
  <2>1. /\ swap.phase = "idle" /\ swap'.phase = "walking" /\ swap'.tick = tick_current
    BY <1>7 DEF FeeSwapBegin, SwapBegin
  <2>2. /\ walk'.growth = fee_growth_global /\ walk'.outside = fee_growth_outside
    BY <1>7 DEF FeeSwapBegin
  <2>3. Tick' = Tick /\ Growth' = Growth /\ Outside' = Outside
    BY <2>1, <2>2 DEF Tick, Growth, Outside, Walking
  <2> QED  BY <1>0, <2>3, StillMoves
<1>8. ASSUME NEW a \in ArrayStarts, NEW t \in Ticks, NEW p \in Prices,
             NEW spent \in BOOLEAN, NEW fee \in 0..MaxFee, FeeSwapStep(a, t, p, spent, fee)
      PROVE  Moves(r)
  BY <1>8, StepMoves
<1>9. ASSUME FeeSwapEnd PROVE Moves(r)
  <2>1. /\ swap.phase = "done" /\ swap'.phase = "idle" /\ tick_current' = swap.tick
        /\ fee_growth_global' = walk.growth /\ fee_growth_outside' = walk.outside
    BY <1>9 DEF FeeSwapEnd, SwapEnd, IdleSwap
  <2>2. Tick' = Tick /\ Growth' = Growth /\ Outside' = Outside
    BY <2>1 DEF Tick, Growth, Outside, Walking
  <2> QED  BY <1>0, <2>2, StillMoves
<1> QED  BY <1>3, <1>4, <1>5, <1>6, <1>7, <1>8, <1>9 DEF FeeNext

(* The growth that the positions of a range have earned moves with the     *)
(* pool's exactly while the tick is in the range, whatever ticks the swap  *)
(* crosses and whoever else adds or removes liquidity: cross, the updates  *)
(* of ticks and get_fee_growth_inside fit together, wrapping included.     *)
THEOREM InsideMoves == FeeSpec => InsideGrowthMoves
<1> DEFINE Step ==
      \A r \in Ranges :
        ~FeeSwapAbort /\ protocol_liquidity[r] > 0 /\ protocol_liquidity'[r] > 0 => Moves(r)
<1>1. BookInv /\ BookInv' /\ GrowthInv /\ [FeeNext]_<<vars, feeVars>> =>
        [Step]_<<vars, feeVars>>
  <2> SUFFICES ASSUME BookInv, BookInv', GrowthInv, FeeNext PROVE Step  OBVIOUS
  <2>1. EndsInitialized  BY RangeEnds
  <2>2. BookInv' => EndsInitialized'  BY RangeEnds, PTL
  <2> QED  BY <2>1, <2>2, NextMoves
<1>2. FeeSpec => [][Step]_<<vars, feeVars>>
  BY <1>1, FeeBook, GrowthInvariant, PTL DEF FeeSpec
<1> QED  BY <1>2 DEF InsideGrowthMoves, Moves

-----------------------------------------------------------------------------
(* What all positions together are due *)

(* What the positions are due as the swap under way has it, and as the     *)
(* pool does: the same outside a swap.                                     *)
WalkWorth == Worth(Word, Q64, position, growth_last, fees_owed, Tick, Growth, Outside)
PoolWorth == Worth(Word, Q64, position, growth_last, fees_owed,
                   tick_current, fee_growth_global, fee_growth_outside)

(* The inductive form of FeesCovered: nothing is rounded, and the pool     *)
(* that an aborted swap falls back to is covered too.                      *)
CoverInv ==
  /\ ~Walking => walk = IdleWalk
  /\ Total(WalkWorth, Nft) <= (unclaimed_fees + walk.fee_amount) * Q64
  /\ Total(PoolWorth, Nft) <= unclaimed_fees * Q64

(* The worth of every position is an amount, as the pool and as the walk   *)
(* has it.                                                                 *)
WorthsTyped ==
  /\ position \in Positions
  /\ growth_last \in [Nft -> 0..(Word - 1)]
  /\ fees_owed \in [Nft -> Nat]
  /\ unclaimed_fees \in Nat /\ walk.fee_amount \in Nat
  /\ Tick \in Int /\ Growth \in Int /\ \A t \in Ticks : Outside[t] \in Int
  /\ tick_current \in Int /\ fee_growth_global \in Int
  /\ \A t \in Ticks : fee_growth_outside[t] \in Int
  /\ \A n \in Nft : WalkWorth[n] \in Nat /\ PoolWorth[n] \in Nat

LEMMA StateTyped == TypeInv /\ GrowthInv => WorthsTyped
<1> SUFFICES ASSUME TypeInv, GrowthInv PROVE WorthsTyped  OBVIOUS
<1>1. /\ position \in Positions
      /\ growth_last \in [Nft -> 0..(Word - 1)]
      /\ fees_owed \in [Nft -> Nat]
      /\ unclaimed_fees \in Nat /\ walk.fee_amount \in Nat
      /\ fee_growth_global \in Int /\ \A t \in Ticks : fee_growth_outside[t] \in Int
  BY GrowthConstants DEF TypeInv, TypeOK, Positions, GrowthInv, FeeTypeOK
<1>2. tick_current \in Int  BY TickAssumption DEF TypeInv, TypeOK
<1>3. Tick \in Int /\ Growth \in Int /\ \A t \in Ticks : Outside[t] \in Int
  BY WalkTypes
<1>4. \A n \in Nft : WalkWorth[n] \in Nat /\ PoolWorth[n] \in Nat
  BY <1>1, <1>2, <1>3, WorthType, GrowthConstants
  DEF WalkWorth, PoolWorth
<1> QED  BY <1>1, <1>2, <1>3, <1>4 DEF WorthsTyped

(* An instruction leaves the ends of every other position's range alone,   *)
(* and so what that position earned.                                       *)
LEMMA OthersEarn ==
  ASSUME BookInv, BookInv', GrowthInv, NEW m \in Nft,
         position'[m] = position[m], growth_last'[m] = growth_last[m],
         tick_current' = tick_current, fee_growth_global' = fee_growth_global,
         \/ fee_growth_outside' = fee_growth_outside
         \/ \E lower, upper \in Ticks, delta \in Int :
              /\ lower < upper
              /\ ModifyPosition(lower, upper, delta)
              /\ ModifyGrowth(lower, upper, delta)
  PROVE  Earned(Word, position', growth_last', tick_current', fee_growth_global',
                fee_growth_outside', m)
           = Earned(Word, position, growth_last, tick_current, fee_growth_global,
                    fee_growth_outside, m)
<1>1. CASE ~HasStake(position, m)  BY <1>1 DEF Earned, HasStake
<1>2. CASE HasStake(position, m)
  <2>1. StakesOnTicks /\ TypeInv  BY StakesStand DEF BookInv, FitInv
  <2>2. BookInv' => StakesOnTicks'  BY StakesStand, PTL
  <2>3. /\ position[m].lower \in Initialized /\ position[m].upper \in Initialized
        /\ liquidity_gross'[position[m].lower] # 0
        /\ liquidity_gross'[position[m].upper] # 0
    BY <1>2, <2>1, <2>2 DEF StakesOnTicks, HasStake, Initialized
  <2>4. /\ fee_growth_outside'[position[m].lower] = fee_growth_outside[position[m].lower]
        /\ fee_growth_outside'[position[m].upper] = fee_growth_outside[position[m].upper]
    BY <2>1, <2>3, ModifyLeavesEnds
  <2> QED  BY <1>2, <2>4 DEF Earned, HasStake, InsideAt, BelowAt, AboveAt
<1> QED  BY <1>1, <1>2

(* Where a position keeps liquidity, what the protocol position shows is   *)
(* what is inside the range, of the pool that the instruction leaves and,  *)
(* if it had liquidity before, of the pool that it found.                  *)
LEMMA ModifyShowsInside ==
  ASSUME TypeInv, TypeInv', NEW lower \in Ticks, NEW upper \in Ticks, lower < upper,
         GrowthInv, NEW delta \in Int, ModifyPosition(lower, upper, delta),
         ModifyGrowth(lower, upper, delta)
  PROVE  /\ lower \in Initialized /\ upper \in Initialized =>
              protocol_growth_last'[<<lower, upper>>]
                = InsideAt(tick_current, fee_growth_global, fee_growth_outside,
                           lower, upper, Word)
         /\ liquidity_gross'[lower] # 0 /\ liquidity_gross'[upper] # 0 =>
              protocol_growth_last'[<<lower, upper>>]
                = InsideAt(tick_current, fee_growth_global, fee_growth_outside',
                           lower, upper, Word)
<1> DEFINE outside == OutsideUpdated(lower, upper, delta)
           r == <<lower, upper>>
<1>1. r \in Ranges  BY DEF Ranges
<1>2. protocol_growth_last'[r] = GrowthInside(outside, lower, upper)
  BY <1>1 DEF ModifyGrowth, GrowthInv, FeeTypeOK
<1>3. \A O : GrowthInside(O, lower, upper)
              = InsideAt(tick_current, fee_growth_global, O, lower, upper, Word)
  BY DEF GrowthInside, Wrapped, InsideAt, GrowthBelow, GrowthAbove, BelowAt, AboveAt
<1>4. \A O, O2 : O[lower] = O2[lower] /\ O[upper] = O2[upper] =>
        InsideAt(tick_current, fee_growth_global, O, lower, upper, Word)
          = InsideAt(tick_current, fee_growth_global, O2, lower, upper, Word)
  BY DEF InsideAt, BelowAt, AboveAt
<1>5. ASSUME lower \in Initialized, upper \in Initialized
      PROVE  /\ outside[lower] = fee_growth_outside[lower]
             /\ outside[upper] = fee_growth_outside[upper]
  BY <1>5 DEF OutsideUpdated, Initialized
<1>6. ASSUME NEW t \in {lower, upper}, liquidity_gross'[t] # 0
      PROVE  fee_growth_outside'[t] = outside[t]
  <2>1. liquidity_gross \in [Ticks -> Nat] /\ liquidity_gross' \in [Ticks -> Nat]
    BY LiquidityAssumption DEF TypeInv, TypeOK
  <2>2. lower # upper  BY TicksType
  <2>3. liquidity_gross'[t] = liquidity_gross[t] + delta
    BY <2>1, <2>2 DEF ModifyPosition
  <2>4. ~(delta < 0 /\ Flipped(t, delta))
    BY <1>6, <2>1, <2>3 DEF Flipped
  <2> QED  BY <2>4 DEF ModifyGrowth
<1> HIDE DEF outside
<1>7. ASSUME lower \in Initialized, upper \in Initialized
      PROVE  protocol_growth_last'[r]
               = InsideAt(tick_current, fee_growth_global, fee_growth_outside,
                          lower, upper, Word)
  BY <1>2, <1>3, <1>4, <1>5, <1>7
<1>8. ASSUME liquidity_gross'[lower] # 0, liquidity_gross'[upper] # 0
      PROVE  protocol_growth_last'[r]
               = InsideAt(tick_current, fee_growth_global, fee_growth_outside',
                          lower, upper, Word)
  BY <1>2, <1>3, <1>4, <1>6, <1>8
<1> QED  BY <1>7, <1>8

(* A position that is up to date has earned nothing since.                 *)
LEMMA CaughtUp ==
  ASSUME StakesOnTicks', TypeInv, TypeInv', GrowthInv, GrowthInv', NEW n \in Nft,
         NEW lower \in Ticks, NEW upper \in Ticks, lower < upper, NEW delta \in Int,
         ModifyPosition(lower, upper, delta), ModifyGrowth(lower, upper, delta),
         position'[n] # NoPosition, position'[n].lower = lower, position'[n].upper = upper,
         growth_last'[n] = protocol_growth_last'[<<lower, upper>>]
  PROVE  Earned(Word, position', growth_last', tick_current', fee_growth_global',
                fee_growth_outside', n) = 0
<1>1. CASE ~HasStake(position', n)  BY <1>1 DEF Earned
<1>2. CASE HasStake(position', n)
  <2>1. liquidity_gross'[lower] # 0 /\ liquidity_gross'[upper] # 0
    BY <1>2 DEF StakesOnTicks, HasStake, Initialized
  <2>2. tick_current' = tick_current /\ fee_growth_global' = fee_growth_global
    BY DEF ModifyPosition, ModifyGrowth
  <2>3. growth_last'[n] = InsideAt(tick_current', fee_growth_global', fee_growth_outside',
                                   lower, upper, Word)
    BY <2>1, <2>2, ModifyShowsInside
  <2>4. growth_last'[n] \in Int  BY GrowthConstants DEF GrowthInv, FeeTypeOK
  <2>5. Wrapped(growth_last'[n] - growth_last'[n]) = 0
    <3> DEFINE g == growth_last'[n]
    <3>1. g - g = 0  BY <2>4
    <3>2. 0 % Word = 0  BY GrowthConstants
    <3> QED  BY <3>1, <3>2 DEF Wrapped
  <2>6. position'[n].liquidity \in Int
    BY <1>2, LiquidityAssumption DEF HasStake, TypeInv, TypeOK, Position
  <2> QED  BY <1>2, <2>3, <2>5, <2>6 DEF Earned, Wrapped
<1> QED  BY <1>1, <1>2

(* What an instruction credits to a position is no more than it earned.    *)
LEMMA CreditBelow ==
  ASSUME BookInv, GrowthInv, GrowthInv', TypeInv', NEW n \in Nft,
         position[n] # NoPosition, NEW delta \in Int,
         ModifyPosition(position[n].lower, position[n].upper, delta),
         ModifyGrowth(position[n].lower, position[n].upper, delta)
  PROVE  /\ LatestFees(n, Latest(n)) \in Nat
         /\ LatestFees(n, Latest(n)) * Q64
              <= Earned(Word, position, growth_last, tick_current, fee_growth_global,
                        fee_growth_outside, n)
<1> DEFINE lower == position[n].lower
           upper == position[n].upper
           x == Wrapped(Latest(n) - growth_last[n]) * position[n].liquidity
<1>1. TypeInv /\ StakesOnTicks  BY StakesStand DEF BookInv, FitInv
<1>2. /\ lower \in Ticks /\ upper \in Ticks /\ lower < upper
      /\ position[n].liquidity \in Nat
  BY <1>1, HoldsOpen
<1>3. Latest(n) \in Int /\ growth_last[n] \in Int
  BY <1>2, GrowthConstants DEF Latest, Ranges, GrowthInv, FeeTypeOK
<1>4. Wrapped(Latest(n) - growth_last[n]) \in Nat
  BY <1>3, WrappedType, GrowthConstants
<1>5. x \in Nat  BY <1>2, <1>4, TimesNat
<1>6. LatestFees(n, Latest(n)) = x \div Q64  BY DEF LatestFees
<1>7. x \div Q64 \in Nat /\ (x \div Q64) * Q64 <= x
  <2> HIDE DEF x
  <2> QED  BY <1>5, QuotientBelow, GrowthConstants
<1>8. x = Earned(Word, position, growth_last, tick_current, fee_growth_global,
                 fee_growth_outside, n)
  <2>1. CASE HasStake(position, n)
    <3>1. lower \in Initialized /\ upper \in Initialized
      BY <1>1, <2>1 DEF StakesOnTicks
    <3>2. Latest(n) = InsideAt(tick_current, fee_growth_global, fee_growth_outside,
                               lower, upper, Word)
      BY <1>1, <1>2, <3>1, ModifyShowsInside DEF Latest
    <3> QED  BY <2>1, <3>2 DEF Earned, Wrapped
  <2>2. CASE ~HasStake(position, n)
    <3>1. position[n].liquidity = 0  BY <1>2, <2>2 DEF HasStake
    <3>2. x = 0  BY <1>4, <3>1
    <3> QED  BY <2>2, <3>2 DEF Earned
  <2> QED  BY <2>1, <2>2
<1> HIDE DEF x
<1> QED  BY <1>6, <1>7, <1>8

(* Outside a swap there is one worth.                                      *)
LEMMA IdleWorth ==
  ASSUME swap.phase = "idle", CoverInv
  PROVE  WalkWorth = PoolWorth /\ walk = IdleWalk /\ walk.fee_amount = 0
BY DEF CoverInv, Walking, WalkWorth, PoolWorth, Tick, Growth, Outside, IdleWalk

(* What an instruction on one position has to show.                        *)
LEMMA InstructionCovers ==
  ASSUME TypeInv, TypeInv', GrowthInv, GrowthInv', CoverInv,
         swap.phase = "idle", swap' = swap, walk' = walk,
         NEW n \in Nft, NEW paid \in Nat,
         unclaimed_fees' = unclaimed_fees - paid,
         \A m \in Nft : m # n =>
           /\ fees_owed'[m] = fees_owed[m]
           /\ Earned(Word, position', growth_last', tick_current', fee_growth_global',
                     fee_growth_outside', m)
                = Earned(Word, position, growth_last, tick_current, fee_growth_global,
                         fee_growth_outside, m),
         (fees_owed'[n] + paid) * Q64
           + Earned(Word, position', growth_last', tick_current', fee_growth_global',
                    fee_growth_outside', n)
           <= fees_owed[n] * Q64
                + Earned(Word, position, growth_last, tick_current, fee_growth_global,
                         fee_growth_outside, n)
  PROVE  CoverInv'
<1> DEFINE b == PoolWorth'
           c == PoolWorth
<1>1. WorthsTyped /\ walk = IdleWalk /\ walk.fee_amount = 0 /\ IsFiniteSet(Nft)
  BY StateTyped, IdleWorth, NftAssumption
<1>2. TypeInv' /\ GrowthInv' => WorthsTyped'  BY StateTyped, PTL
<1>3. \A m \in Nft : b[m] \in Int /\ c[m] \in Int  BY <1>1, <1>2 DEF WorthsTyped
<1>4. \A m \in Nft :
        /\ c[m] = fees_owed[m] * Q64
                    + Earned(Word, position, growth_last, tick_current, fee_growth_global,
                             fee_growth_outside, m)
        /\ b[m] = fees_owed'[m] * Q64
                    + Earned(Word, position', growth_last', tick_current', fee_growth_global',
                             fee_growth_outside', m)
  BY DEF PoolWorth, Worth
<1>5. \A m \in Nft : m # n => b[m] <= c[m]
  <2> SUFFICES ASSUME NEW m \in Nft, m # n PROVE b[m] <= c[m]  OBVIOUS
  <2>1. b[m] = c[m]  BY <1>4
  <2> QED  BY <1>3, <2>1
<1>6. b[n] + paid * Q64 <= c[n]
  <2> DEFINE e == Earned(Word, position, growth_last, tick_current, fee_growth_global,
                         fee_growth_outside, n)
             e2 == Earned(Word, position', growth_last', tick_current', fee_growth_global',
                          fee_growth_outside', n)
             o == fees_owed[n]
             o2 == fees_owed'[n]
  <2>1. /\ o \in Nat /\ o2 \in Nat /\ e \in Nat /\ e2 \in Nat
    BY <1>1, <1>2, EarnedType, GrowthConstants DEF WorthsTyped
  <2>2. c[n] = o * Q64 + e /\ b[n] = o2 * Q64 + e2 /\ (o2 + paid) * Q64 + e2 <= o * Q64 + e
    BY <1>4
  <2> HIDE DEF o, o2, e, e2, b, c
  <2>3. (o2 + paid) * Q64 = o2 * Q64 + paid * Q64  BY <2>1, GrowthConstants
  <2>4. o2 * Q64 \in Nat /\ paid * Q64 \in Nat /\ o * Q64 \in Nat
    BY <2>1, GrowthConstants, TimesNat
  <2> QED  BY <2>1, <2>2, <2>3, <2>4
<1>7. Total(c, Nft) <= unclaimed_fees * Q64  BY DEF CoverInv
<1> HIDE DEF b, c
<1>8. Total(b, Nft) <= Total(c, Nft) + (b[n] - c[n])
  BY <1>1, <1>3, <1>5, TotalOneChange
<1>9. Total(b, Nft) \in Int /\ Total(c, Nft) \in Int  BY <1>1, <1>3, TotalType
<1>10. unclaimed_fees' * Q64 = unclaimed_fees * Q64 - paid * Q64
  BY <1>1, GrowthConstants DEF WorthsTyped
<1>11. Total(b, Nft) <= unclaimed_fees' * Q64
  <2>1. unclaimed_fees * Q64 \in Int /\ paid * Q64 \in Int
    BY <1>1, GrowthConstants DEF WorthsTyped
  <2> QED  BY <1>3, <1>6, <1>7, <1>8, <1>9, <1>10, <2>1
<1>12. WalkWorth' = b
  BY DEF WalkWorth, PoolWorth, Tick, Growth, Outside, Walking, b
<1>13. unclaimed_fees' + walk'.fee_amount = unclaimed_fees'
  BY <1>1, <1>2 DEF WorthsTyped
<1> QED  BY <1>1, <1>11, <1>12, <1>13 DEF CoverInv, Walking, b, IdleWalk

(* A step of a swap gives out at most the fee that it takes.               *)
LEMMA StepCovers ==
  ASSUME BookInv, BookInv', GrowthInv, GrowthInv', CoverInv,
         NEW a \in ArrayStarts, NEW t \in Ticks, NEW p \in Prices,
         NEW spent \in BOOLEAN, NEW fee \in 0..MaxFee, FeeSwapStep(a, t, p, spent, fee)
  PROVE  CoverInv'
<1> DEFINE b == WalkWorth'
           c == WalkWorth
           L == swap.liquidity
           g == walk'.growth - walk.growth
<1>1. /\ SwapStep(a, t, p, spent) /\ swap.phase = "walking" /\ swap'.phase # "idle"
      /\ position' = position /\ tick_current' = tick_current
      /\ fee > 0 => L > 0
      /\ walk'.growth = GrowthAfter(fee) /\ walk'.fee_amount = walk.fee_amount + fee
      /\ UNCHANGED <<poolFeeVars, positionFeeVars>>
  BY DEF FeeSwapStep, SwapStep, poolVars, BookInv, FitInv, TypeInv, TypeOK, SwapState
<1>2. TypeInv /\ TypeInv' /\ EndsInitialized /\ StakesOnTicks
  BY RangeEnds, StakesStand DEF BookInv, FitInv
<1>3. WorthsTyped /\ IsFiniteSet(Nft)  BY <1>2, StateTyped, NftAssumption
<1>4. WorthsTyped'
  <2>1. TypeInv' /\ GrowthInv' => WorthsTyped'  BY StateTyped, PTL
  <2> QED  BY <1>2, <2>1
<1>5. L \in Nat /\ fee \in Nat /\ fee * Q64 \in Nat
  BY <1>2, LiquidityAssumption, GrowthConstants, TimesNat DEF TypeInv, TypeOK, SwapState
<1>7. g \in Nat /\ g * L <= fee * Q64 /\ g * L \in Nat
  <2>1. GrowthAfter(fee) \in Nat /\ walk.growth \in Nat  BY <1>2, GrowthAfterType
  <2>2. CASE L > 0
    <3> DEFINE x == fee * Q64
               q == x \div L
    <3>1. g = q  BY <1>1, <1>5, <2>1, <2>2, DivNat DEF GrowthAfter
    <3>2. x \in Nat /\ L \in Nat \ {0}  BY <1>5, <2>2
    <3> HIDE DEF x, L, g
    <3>3. q \in Nat /\ q * L <= x  BY <3>2, QuotientBelow
    <3>4. q * L \in Nat
      <4> HIDE DEF q
      <4> QED  BY <3>2, <3>3, TimesNat
    <3> QED  BY <3>1, <3>3, <3>4 DEF x
  <2>3. CASE ~(L > 0)
    <3>1. g = 0 /\ L = 0  BY <1>1, <1>5, <2>1, <2>3 DEF GrowthAfter
    <3> HIDE DEF L, g
    <3> QED  BY <1>5, <3>1
  <2> QED  BY <2>2, <2>3
<1>8. ASSUME NEW n \in Nft, HasStake(position, n)
      PROVE  Follows(Word, position[n].lower, position[n].upper, Tick, Tick',
                     Growth, Growth + g, Outside, Outside')
  <2>0. PICK r : r = <<position[n].lower, position[n].upper>>  OBVIOUS
  <2>1. /\ r[1] \in Ticks /\ r[2] \in Ticks /\ r[1] < r[2]
        /\ position[n].liquidity \in 0..MaxLiquidity
    BY <1>2, <1>8, <2>0, HoldsOpen DEF HasStake, TypeInv, TypeOK, Position
  <2>2. r \in Ranges  BY <2>0, <2>1 DEF Ranges
  <2>3. protocol_liquidity[r] > 0
    <3>1. n \in Within(position, {r})  BY <1>8, <2>0 DEF HasStake, Within
    <3>2. {n} \subseteq Within(position, {r}) /\ Within(position, {r}) \subseteq Nft
      BY <3>1 DEF Within
    <3>3. Sum(position, {n}) <= W({r})  BY <3>2, SumMonotone DEF W
    <3>4. Sum(position, {n}) = position[n].liquidity  BY <2>1, SumSingle
    <3>5. protocol_liquidity[r] = W({r}) /\ W({r}) \in Nat
      BY <2>2, WType DEF BookInv, LedgerSums
    <3>6. position[n].liquidity \in Nat /\ position[n].liquidity > 0
      BY <1>8, <2>1, LiquidityAssumption DEF HasStake
    <3> QED  BY <3>3, <3>4, <3>5, <3>6
  <2>4. Moves(r)  BY <1>2, <2>2, <2>3, StepMoves
  <2>5. /\ Inside(r[1], r[2]) = InsideAt(Tick, Growth, Outside, r[1], r[2], Word)
        /\ Inside(r[1], r[2])' = InsideAt(Tick', Growth', Outside', r[1], r[2], Word)
    BY DEF Inside, Wrapped, InsideAt, BelowAt, AboveAt
  <2>6. Growth' = Growth + g /\ Growth' - Growth = g /\ (Growth + g) - Growth = g
    BY <1>1, <1>3, <1>4 DEF Growth, Walking, WorthsTyped
  <2> HIDE DEF g
  <2>7. InsideAt(Tick', Growth', Outside', r[1], r[2], Word)
          = (InsideAt(Tick, Growth, Outside, r[1], r[2], Word)
               + (IF r[1] <= Tick /\ Tick < r[2] THEN g ELSE 0)) % Word
    BY <2>4, <2>5, <2>6 DEF Moves, Wrapped
  <2> QED  BY <2>0, <2>6, <2>7 DEF Follows
<1>9. Tick = swap.tick /\ Growth' = Growth + g
  BY <1>1, <1>3, <1>4 DEF Tick, Growth, Walking, WorthsTyped
<1>10. Total(c, Nft) <= (unclaimed_fees + walk.fee_amount) * Q64  BY DEF CoverInv
<1>11. Total(b, Nft) <= Total(c, Nft) + g * L
  <2>1. b = Worth(Word, Q64, position, growth_last, fees_owed, Tick', Growth + g, Outside')
    BY <1>1, <1>9 DEF WalkWorth, positionFeeVars
  <2>2. c = Worth(Word, Q64, position, growth_last, fees_owed, Tick, Growth, Outside)
    BY DEF WalkWorth
  <2>3. /\ growth_last \in [Nft -> 0..(Word - 1)] /\ fees_owed \in [Nft -> Nat]
        /\ Tick \in Int /\ Tick' \in Int /\ Growth \in Int
        /\ \A v \in Ticks : Outside[v] \in Int /\ Outside'[v] \in Int
    BY <1>3, <1>4 DEF WorthsTyped
  <2>4. L = W(Covers(Tick))  BY <1>1, <1>9 DEF BookInv, WalkSum
  <2>5. Q64 \in Nat /\ Word \in Nat \ {0} /\ g \in Nat  BY <1>7, GrowthConstants
  <2> HIDE DEF b, c, g, L
  <2> QED  BY <1>2, <1>8, <2>1, <2>2, <2>3, <2>4, <2>5, WorthGrows
<1>12. Total(b, Nft) \in Int /\ Total(c, Nft) \in Int
  <2>1. \A n \in Nft : b[n] \in Int /\ c[n] \in Int  BY <1>3, <1>4 DEF WorthsTyped
  <2> HIDE DEF b, c
  <2> QED  BY <1>3, <2>1, TotalType
<1>13. (unclaimed_fees' + walk'.fee_amount) * Q64
          = (unclaimed_fees + walk.fee_amount) * Q64 + fee * Q64
  <2> DEFINE u == unclaimed_fees + walk.fee_amount
  <2>1. u \in Nat  BY <1>3 DEF WorthsTyped
  <2>2. unclaimed_fees' + walk'.fee_amount = u + fee
    BY <1>1, <1>3, <1>5 DEF WorthsTyped, poolFeeVars
  <2> HIDE DEF u
  <2>3. (u + fee) * Q64 = u * Q64 + fee * Q64  BY <1>5, <2>1, GrowthConstants
  <2> QED  BY <2>2, <2>3 DEF u
<1>14. (unclaimed_fees + walk.fee_amount) * Q64 \in Int
  BY <1>3, GrowthConstants DEF WorthsTyped
<1> HIDE DEF g, L, b, c
<1>15. Total(b, Nft) <= (unclaimed_fees' + walk'.fee_amount) * Q64
  BY <1>5, <1>7, <1>10, <1>11, <1>12, <1>13, <1>14
<1>16. PoolWorth' = PoolWorth /\ unclaimed_fees' = unclaimed_fees
  BY <1>1 DEF PoolWorth, poolFeeVars, positionFeeVars
<1> QED  BY <1>1, <1>15, <1>16 DEF CoverInv, Walking, b

LEMMA InitCovers == FeeInit => CoverInv
<1> SUFFICES ASSUME FeeInit PROVE CoverInv  OBVIOUS
<1>1. walk = IdleWalk /\ ~Walking /\ unclaimed_fees = 0 /\ walk.fee_amount = 0
  BY DEF FeeInit, Init, IdleSwap, Walking, IdleWalk
<1>2. \A n \in Nft : fees_owed[n] = 0 /\ ~HasStake(position, n)
  BY DEF FeeInit, Init, HasStake
<1>3. WalkWorth = PoolWorth
  BY <1>1 DEF WalkWorth, PoolWorth, Tick, Growth, Outside
<1>4. \A n \in Nft : PoolWorth[n] = 0
  BY <1>2, GrowthConstants DEF PoolWorth, Worth, Earned
<1> DEFINE c == PoolWorth
<1>5. IsFiniteSet(Nft)  BY NftAssumption
<1>6. \A n \in Nft : c[n] \in Int /\ 2 * c[n] <= c[n] + 0 * c[n]  BY <1>4
<1> HIDE DEF c
<1>7. 2 * Total(c, Nft) <= Total(c, Nft) + 0 * Total(c, Nft)
  <2>1. \A n \in Nft : c[n] \in Int /\ c[n] \in Int /\ c[n] \in Int  BY <1>6
  <2>2. \A n \in Nft : 2 * c[n] <= c[n] + 0 * c[n]  BY <1>6
  <2> QED  BY ONLY <1>5, <2>1, <2>2, 0 \in Int, 2 \in Int, TotalBounded
<1>8. Total(c, Nft) \in Int  BY <1>5, <1>6, TotalType
<1>9. Total(c, Nft) <= 0  BY <1>7, <1>8
<1>10. 0 * Q64 = 0 /\ (0 + 0) * Q64 = 0  BY GrowthConstants
<1> QED  BY <1>1, <1>3, <1>9, <1>10 DEF CoverInv, c

LEMMA NextCovers ==
  ASSUME BookInv, BookInv', GrowthInv, GrowthInv', CoverInv, [FeeNext]_<<vars, feeVars>>
  PROVE  CoverInv'
<1>0. TypeInv /\ TypeInv' /\ StakesOnTicks  BY StakesStand DEF BookInv, FitInv
<1>S. StakesOnTicks'
  <2>1. BookInv' => StakesOnTicks'  BY StakesStand, PTL
  <2> QED  BY <2>1
<1>T. /\ position \in Positions /\ fees_owed \in [Nft -> Nat] /\ unclaimed_fees \in Nat
      /\ growth_last \in [Nft -> 0..(Word - 1)]
  BY <1>0 DEF TypeInv, TypeOK, Positions, GrowthInv, FeeTypeOK
<1> DEFINE Now(m) == Earned(Word, position, growth_last, tick_current, fee_growth_global,
                            fee_growth_outside, m)
           Then(m) == Earned(Word, position', growth_last', tick_current', fee_growth_global',
                             fee_growth_outside', m)
<1>E. \A m \in Nft : Now(m) \in Nat
  <2>1. WorthsTyped  BY <1>0, StateTyped
  <2> QED  BY <2>1, EarnedType, GrowthConstants DEF WorthsTyped
<1>1. ASSUME NEW n \in Nft, NEW lower \in Ticks, NEW upper \in Ticks,
             NEW amount \in NewLiquidity, FeeOpenPosition(n, lower, upper, amount)
      PROVE  CoverInv'
  <2>1. /\ amount \in Int /\ lower < upper /\ swap.phase = "idle"
        /\ position[n] = NoPosition
        /\ AddLiquidity(lower, upper, amount)
        /\ position' = [position EXCEPT
             ![n] = [lower |-> lower, upper |-> upper, liquidity |-> amount]]
        /\ growth_last' = [growth_last EXCEPT ![n] = protocol_growth_last'[<<lower, upper>>]]
        /\ UNCHANGED <<fees_owed, unclaimed_fees>>
    BY <1>1 DEF FeeOpenPosition, OpenPosition, NewLiquidity
  <2>2. /\ swap' = swap /\ tick_current' = tick_current
    BY <2>1 DEF AddLiquidity, ModifyPosition, poolVars
  <2>3. /\ walk' = walk /\ fee_growth_global' = fee_growth_global
        /\ amount = 0 => fee_growth_outside' = fee_growth_outside
    BY <1>1 DEF FeeOpenPosition, ModifyGrowth
  <2>4. amount # 0 => ModifyPosition(lower, upper, amount) /\ ModifyGrowth(lower, upper, amount)
    BY <1>1, <2>1 DEF FeeOpenPosition, AddLiquidity
  <2>5. ASSUME NEW m \in Nft, m # n
        PROVE  fees_owed'[m] = fees_owed[m] /\ Then(m) = Now(m)
    <3>1. position'[m] = position[m] /\ growth_last'[m] = growth_last[m]
      BY <1>T, <2>1, <2>5
    <3> QED  BY <2>1, <2>2, <2>3, <2>4, <3>1, OthersEarn
  <2>6. Now(n) = 0  BY <2>1 DEF Earned, HasStake
  <2>7. Then(n) = 0
    <3>1. position'[n] = [lower |-> lower, upper |-> upper, liquidity |-> amount]
      BY <1>T, <2>1 DEF Positions
    <3>2. CASE amount = 0  BY <3>1, <3>2 DEF Earned, HasStake
    <3>3. CASE amount # 0
      <4>1. position'[n] # NoPosition
        <5>1. liquidity_gross[lower] \in Nat
          BY <1>0, LiquidityAssumption DEF TypeInv, TypeOK
        <5>2. liquidity_gross[lower] + amount \in 0..MaxLiquidity /\ amount >= 0
          BY <2>4, <3>3 DEF ModifyPosition, AddDeltaOk, NewLiquidity
        <5>3. amount \in 0..MaxLiquidity  BY <2>1, <5>1, <5>2, LiquidityAssumption
        <5> QED  BY <3>1, <5>3, NotAPosition DEF Position
      <4>2. growth_last'[n] = protocol_growth_last'[<<lower, upper>>]  BY <1>T, <2>1
      <4>3. /\ ModifyPosition(lower, upper, amount) /\ ModifyGrowth(lower, upper, amount)
            /\ amount \in Int /\ lower < upper
            /\ position'[n].lower = lower /\ position'[n].upper = upper
        BY <2>1, <2>4, <3>1, <3>3
      <4> QED  BY <1>0, <1>S, <4>1, <4>2, <4>3, CaughtUp
    <3> QED  BY <3>2, <3>3
  <2>8. unclaimed_fees' = unclaimed_fees - 0  BY <1>T, <2>1
  <2>9. (fees_owed'[n] + 0) * Q64 + Then(n) <= fees_owed[n] * Q64 + Now(n)
    <3>1. fees_owed'[n] = fees_owed[n] /\ fees_owed[n] \in Nat  BY <1>T, <2>1
    <3>2. fees_owed[n] * Q64 \in Nat  BY <3>1, GrowthConstants, TimesNat
    <3> HIDE DEF Now, Then
    <3> QED  BY <2>6, <2>7, <3>1, <3>2
  <2> QED  BY <1>0, <2>1, <2>2, <2>3, <2>5, <2>8, <2>9, 0 \in Nat, InstructionCovers
<1>2. ASSUME NEW n \in Nft, NEW delta \in Int, NEW paid \in Nat,
             position[n] # NoPosition, swap.phase = "idle",
             position[n].liquidity + delta \in 0..MaxLiquidity,
             ModifyPosition(position[n].lower, position[n].upper, delta),
             ModifyGrowth(position[n].lower, position[n].upper, delta),
             position' = [position EXCEPT ![n].liquidity = position[n].liquidity + delta],
             growth_last' = [growth_last EXCEPT ![n] = Latest(n)],
             \E left \in Nat :
               /\ left + paid = fees_owed[n] + LatestFees(n, Latest(n))
               /\ fees_owed' = [fees_owed EXCEPT ![n] = left],
             unclaimed_fees' = unclaimed_fees - paid
      PROVE  CoverInv'
  <2>1. /\ position[n].lower \in Ticks /\ position[n].upper \in Ticks
        /\ position[n].lower < position[n].upper /\ position[n] \in Position
    BY <1>0, <1>2, HoldsOpen
  <2>2. /\ swap' = swap /\ tick_current' = tick_current
        /\ walk' = walk /\ fee_growth_global' = fee_growth_global
    BY <1>2 DEF ModifyPosition, ModifyGrowth
  <2>3. ASSUME NEW m \in Nft, m # n
        PROVE  fees_owed'[m] = fees_owed[m] /\ Then(m) = Now(m)
    <3>1. position'[m] = position[m] /\ growth_last'[m] = growth_last[m]
          /\ fees_owed'[m] = fees_owed[m]
      BY <1>T, <1>2, <2>3
    <3> QED  BY <1>2, <2>1, <2>2, <3>1, OthersEarn
  <2>4. Then(n) = 0
    <3>1. /\ position'[n].lower = position[n].lower /\ position'[n].upper = position[n].upper
          /\ position'[n] = [position[n] EXCEPT !.liquidity = position[n].liquidity + delta]
      BY <1>2, <1>T, <2>1 DEF Position, Positions
    <3>2. position'[n] # NoPosition
      <4>1. position'[n] \in Position  BY <1>2, <2>1, <3>1 DEF Position
      <4> QED  BY <4>1, NotAPosition
    <3>3. growth_last'[n] = protocol_growth_last'[<<position[n].lower, position[n].upper>>]
      BY <1>T, <1>2 DEF Latest
    <3> QED  BY <1>0, <1>S, <1>2, <2>1, <3>1, <3>2, <3>3, CaughtUp
  <2>5. /\ LatestFees(n, Latest(n)) \in Nat
        /\ LatestFees(n, Latest(n)) * Q64 <= Now(n)
    BY <1>0, <1>2, CreditBelow
  <2>6. (fees_owed'[n] + paid) * Q64 + Then(n) <= fees_owed[n] * Q64 + Now(n)
    <3> DEFINE f == LatestFees(n, Latest(n))
               o == fees_owed[n]
    <3>1. fees_owed'[n] + paid = o + f /\ o \in Nat /\ f \in Nat  BY <1>2, <1>T, <2>5
    <3>2. f * Q64 <= Now(n)  BY <2>5
    <3> HIDE DEF f, o
    <3>3. (o + f) * Q64 = o * Q64 + f * Q64  BY <3>1, GrowthConstants
    <3>4. o * Q64 \in Nat /\ f * Q64 \in Nat  BY <3>1, GrowthConstants, TimesNat
    <3>5. Now(n) \in Nat  BY <1>E
    <3> HIDE DEF Now, Then
    <3>6. (o + f) * Q64 + 0 <= o * Q64 + Now(n)  BY <3>2, <3>3, <3>4, <3>5
    <3> QED  BY <2>4, <3>1, <3>6 DEF o
  <2> QED  BY <1>0, <1>2, <2>2, <2>3, <2>6, InstructionCovers
<1>3. ASSUME NEW n \in Nft, NEW amount \in NewLiquidity, FeeIncreaseLiquidity(n, amount)
      PROVE  CoverInv'
  <2> DEFINE f == LatestFees(n, Latest(n))
  <2>1. /\ amount \in Int /\ position[n] # NoPosition /\ swap.phase = "idle"
        /\ position[n].liquidity + amount \in 0..MaxLiquidity
        /\ ModifyPosition(position[n].lower, position[n].upper, amount)
        /\ ModifyGrowth(position[n].lower, position[n].upper, amount)
        /\ position' = [position EXCEPT ![n].liquidity = position[n].liquidity + amount]
        /\ growth_last' = [growth_last EXCEPT ![n] = Latest(n)]
        /\ fees_owed' = [fees_owed EXCEPT ![n] = fees_owed[n] + f]
        /\ unclaimed_fees' = unclaimed_fees
    BY <1>3 DEF FeeIncreaseLiquidity, IncreaseLiquidity, AddLiquidity, NewLiquidity,
                AddDeltaOk
  <2>2. f \in Nat  BY <1>0, <2>1, CreditBelow
  <2>3. fees_owed[n] \in Nat  BY <1>T
  <2> HIDE DEF f
  <2>4. /\ fees_owed[n] + f \in Nat /\ fees_owed[n] + f + 0 = fees_owed[n] + f
        /\ unclaimed_fees' = unclaimed_fees - 0 /\ 0 \in Nat
    BY <1>T, <2>1, <2>2, <2>3
  <2> QED  BY <1>2, <2>1, <2>4 DEF f
<1>4. ASSUME NEW n \in Nft, NEW amount \in 0..MaxLiquidity, NEW collect \in BOOLEAN,
             FeeDecreaseLiquidity(n, amount, collect)
      PROVE  CoverInv'
  <2> DEFINE f == LatestFees(n, Latest(n))
  <2>1. /\ -amount \in Int /\ position[n] # NoPosition /\ swap.phase = "idle"
        /\ amount <= position[n].liquidity
        /\ ModifyPosition(position[n].lower, position[n].upper, -amount)
        /\ ModifyGrowth(position[n].lower, position[n].upper, -amount)
        /\ position' = [position EXCEPT ![n].liquidity = position[n].liquidity - amount]
        /\ growth_last' = [growth_last EXCEPT ![n] = Latest(n)]
        /\ \/ /\ fees_owed' = [fees_owed EXCEPT ![n] = 0]
              /\ unclaimed_fees' = unclaimed_fees - (fees_owed[n] + f)
           \/ /\ fees_owed' = [fees_owed EXCEPT ![n] = fees_owed[n] + f]
              /\ unclaimed_fees' = unclaimed_fees
    BY <1>4, LiquidityAssumption DEF FeeDecreaseLiquidity, DecreaseLiquidity, Pay
  <2>2. f \in Nat  BY <1>0, <2>1, CreditBelow
  <2>3. /\ fees_owed[n] \in Nat /\ amount \in Nat
        /\ position[n].liquidity \in 0..MaxLiquidity
    BY <1>0, <1>T, <2>1, LiquidityAssumption DEF TypeInv, TypeOK, Position
  <2> HIDE DEF f
  <2>4. /\ position[n].liquidity + (-amount) = position[n].liquidity - amount
        /\ position[n].liquidity + (-amount) \in 0..MaxLiquidity
    BY <2>1, <2>3, LiquidityAssumption
  <2>5. fees_owed[n] + f \in Nat  BY <2>2, <2>3
  <2> DEFINE owed == fees_owed[n] + f
  <2>6. owed \in Nat /\ 0 + owed = owed /\ owed + 0 = owed /\ 0 \in Nat  BY <2>5
  <2>7. \E left, paid \in Nat :
          /\ left + paid = owed
          /\ fees_owed' = [fees_owed EXCEPT ![n] = left]
          /\ unclaimed_fees' = unclaimed_fees - paid
    <3>1. CASE /\ fees_owed' = [fees_owed EXCEPT ![n] = 0]
               /\ unclaimed_fees' = unclaimed_fees - owed
      <4> HIDE DEF owed
      <4> QED  BY <2>6, <3>1
    <3>2. CASE /\ fees_owed' = [fees_owed EXCEPT ![n] = owed]
               /\ unclaimed_fees' = unclaimed_fees
      <4> HIDE DEF owed
      <4>1. unclaimed_fees - 0 = unclaimed_fees  BY <1>T
      <4> QED  BY <2>6, <3>2, <4>1
    <3> QED  BY <2>1, <3>1, <3>2
  <2> QED  BY <1>2, <2>1, <2>4, <2>7 DEF f
<1>5. ASSUME NEW n \in Nft, CollectFees(n) PROVE CoverInv'
  <2>1. /\ swap.phase = "idle" /\ swap' = swap /\ walk' = walk
        /\ fees_owed' = [fees_owed EXCEPT ![n] = 0]
        /\ unclaimed_fees' = unclaimed_fees - fees_owed[n]
        /\ UNCHANGED <<position, tick_current, fee_growth_global, fee_growth_outside,
                       growth_last>>
    BY <1>5 DEF CollectFees, Pay, vars, poolVars
  <2>2. \A m \in Nft : Then(m) = Now(m)  BY <2>1
  <2>3. \A m \in Nft : m # n => fees_owed'[m] = fees_owed[m]  BY <1>T, <2>1
  <2>4. (fees_owed'[n] + fees_owed[n]) * Q64 + Then(n) <= fees_owed[n] * Q64 + Now(n)
    <3>1. fees_owed'[n] + fees_owed[n] = fees_owed[n] /\ fees_owed[n] \in Nat
      BY <1>T, <2>1
    <3>2. fees_owed[n] * Q64 + Now(n) \in Nat
      <4>1. fees_owed[n] * Q64 \in Nat  BY <3>1, GrowthConstants, TimesNat
      <4> HIDE DEF Now
      <4> QED  BY <1>E, <4>1
    <3> HIDE DEF Now, Then
    <3> QED  BY <2>2, <3>1, <3>2
  <2>5. fees_owed[n] \in Nat  BY <1>T
  <2> QED  BY <1>0, <2>1, <2>2, <2>3, <2>4, <2>5, InstructionCovers
<1>6. ASSUME NEW n \in Nft, FeeClosePosition(n) PROVE CoverInv'
  <2>1. /\ swap.phase = "idle" /\ swap' = swap /\ walk' = walk
        /\ position[n].liquidity = 0 /\ position[n] # NoPosition
        /\ position' = [position EXCEPT ![n] = NoPosition]
        /\ growth_last' = [growth_last EXCEPT ![n] = 0]
        /\ UNCHANGED <<fees_owed, unclaimed_fees, tick_current, fee_growth_global,
                       fee_growth_outside>>
    BY <1>6 DEF FeeClosePosition, ClosePosition, poolVars
  <2>2. \A m \in Nft : Then(m) = Now(m)
    <3> SUFFICES ASSUME NEW m \in Nft PROVE Then(m) = Now(m)  OBVIOUS
    <3>1. CASE m = n
      <4>1. position'[n] = NoPosition  BY <1>T, <2>1 DEF Positions
      <4> QED  BY <2>1, <3>1, <4>1 DEF Earned, HasStake
    <3>2. CASE m # n
      <4>1. position'[m] = position[m] /\ growth_last'[m] = growth_last[m]
        BY <1>T, <2>1, <3>2
      <4> QED  BY <2>1, <4>1 DEF Earned, HasStake
    <3> QED  BY <3>1, <3>2
  <2>3. (fees_owed'[n] + 0) * Q64 + Then(n) <= fees_owed[n] * Q64 + Now(n)
    <3>1. fees_owed'[n] + 0 = fees_owed[n] /\ fees_owed[n] \in Nat  BY <1>T, <2>1
    <3>2. fees_owed[n] * Q64 + Now(n) \in Nat
      <4>1. fees_owed[n] * Q64 \in Nat  BY <3>1, GrowthConstants, TimesNat
      <4> HIDE DEF Now
      <4> QED  BY <1>E, <4>1
    <3> HIDE DEF Now, Then
    <3> QED  BY <2>2, <3>1, <3>2
  <2>4. unclaimed_fees' = unclaimed_fees - 0 /\ 0 \in Nat  BY <1>T, <2>1
  <2> QED  BY <1>0, <2>1, <2>2, <2>3, <2>4, InstructionCovers
<1>7. ASSUME NEW zero_for_one \in BOOLEAN, NEW limit \in Prices,
             FeeSwapBegin(zero_for_one, limit)
      PROVE  CoverInv'
  <2>1. /\ swap.phase = "idle" /\ swap'.phase = "walking" /\ swap'.tick = tick_current
        /\ walk'.growth = fee_growth_global /\ walk'.outside = fee_growth_outside
        /\ walk'.fee_amount = 0
        /\ UNCHANGED <<position, tick_current, poolFeeVars, positionFeeVars>>
    BY <1>7 DEF FeeSwapBegin, SwapBegin, poolVars
  <2>2. WalkWorth' = PoolWorth /\ PoolWorth' = PoolWorth
    BY <2>1 DEF WalkWorth, PoolWorth, Tick, Growth, Outside, Walking, poolFeeVars,
                positionFeeVars
  <2>3. unclaimed_fees' + walk'.fee_amount = unclaimed_fees /\ unclaimed_fees' = unclaimed_fees
    BY <1>T, <2>1 DEF poolFeeVars
  <2> QED  BY <2>1, <2>2, <2>3 DEF CoverInv, Walking
<1>8. ASSUME NEW a \in ArrayStarts, NEW t \in Ticks, NEW p \in Prices,
             NEW spent \in BOOLEAN, NEW fee \in 0..MaxFee, FeeSwapStep(a, t, p, spent, fee)
      PROVE  CoverInv'
  BY <1>8, StepCovers
<1>9. ASSUME FeeSwapEnd PROVE CoverInv'
  <2>1. /\ swap.phase = "done" /\ swap'.phase = "idle" /\ tick_current' = swap.tick
        /\ fee_growth_global' = walk.growth /\ fee_growth_outside' = walk.outside
        /\ unclaimed_fees' = unclaimed_fees + walk.fee_amount
        /\ walk' = IdleWalk
        /\ UNCHANGED <<position, positionFeeVars>>
    BY <1>9 DEF FeeSwapEnd, SwapEnd, IdleSwap
  <2>2. WalkWorth' = WalkWorth /\ PoolWorth' = WalkWorth
    BY <2>1 DEF WalkWorth, PoolWorth, Tick, Growth, Outside, Walking, positionFeeVars
  <2>3. unclaimed_fees' + walk'.fee_amount = unclaimed_fees'
    <3>1. walk.fee_amount \in Nat  BY DEF GrowthInv, FeeTypeOK
    <3> QED  BY <1>T, <2>1, <3>1 DEF IdleWalk
  <2> QED  BY <2>1, <2>2, <2>3 DEF CoverInv, Walking
<1>10. ASSUME FeeSwapAbort PROVE CoverInv'
  <2>1. /\ swap'.phase = "idle" /\ walk' = IdleWalk
        /\ UNCHANGED <<position, tick_current, poolFeeVars, positionFeeVars>>
    BY <1>10 DEF FeeSwapAbort, SwapAbort, IdleSwap, poolVars
  <2>2. WalkWorth' = PoolWorth /\ PoolWorth' = PoolWorth
    BY <2>1 DEF WalkWorth, PoolWorth, Tick, Growth, Outside, Walking, poolFeeVars,
                positionFeeVars
  <2>3. unclaimed_fees' + walk'.fee_amount = unclaimed_fees /\ unclaimed_fees' = unclaimed_fees
    BY <1>T, <2>1 DEF poolFeeVars, IdleWalk
  <2> QED  BY <2>1, <2>2, <2>3 DEF CoverInv, Walking
<1>11. CASE UNCHANGED <<vars, feeVars>>
  BY <1>11 DEF CoverInv, WalkWorth, PoolWorth, Tick, Growth, Outside, Walking, vars,
               feeVars, poolVars, poolFeeVars, positionFeeVars
<1> QED
  BY <1>1, <1>3, <1>4, <1>5, <1>6, <1>7, <1>8, <1>9, <1>10, <1>11 DEF FeeNext

LEMMA CoverInvariant == FeeSpec => []CoverInv
<1>1. BookInv /\ BookInv' /\ GrowthInv /\ GrowthInv' /\ CoverInv
        /\ [FeeNext]_<<vars, feeVars>> => CoverInv'
  BY NextCovers
<1> QED  BY <1>1, InitCovers, FeeBook, GrowthInvariant, PTL DEF FeeSpec

(* The sum of FeesCovered is the total of a table of the claims.           *)
LEMMA ClaimsTotal ==
  ASSUME TypeInv
  PROVE  MapThenSumSet(Claim, Open) = Total([n \in Open |-> Claim(n)], Open)
<1> DEFINE c == [n \in Open |-> Claim(n)]
           IsClaims(g) == g = [s \in SUBSET Open |->
                                 IF s = {} THEN 0 ELSE Claim(Some(s)) + g[Rest(s)]]
           h == CHOOSE g : IsClaims(g)
<1>1. IsFiniteSet(Open)
  <2>1. Open \subseteq Nft  BY DEF Open
  <2> QED  BY <2>1, NftAssumption, FS_Subset
<1>2. MapThenSumSet(Claim, Open) = h[Open]
  BY Zenon DEF MapThenSumSet, MapThenFoldSet, Some, Rest
<1>3. ASSUME NEW g PROVE IsSum(g, c, Open) <=> IsClaims(g)
  <2>1. ASSUME NEW s \in SUBSET Open, s # {} PROVE c[Some(s)] = Claim(Some(s))
    <3>1. Some(s) \in Open  BY <2>1, SomeIn
    <3> QED  BY <3>1
  <2> HIDE DEF c
  <2>2. [s \in SUBSET Open |-> IF s = {} THEN 0 ELSE c[Some(s)] + g[Rest(s)]]
          = [s \in SUBSET Open |-> IF s = {} THEN 0 ELSE Claim(Some(s)) + g[Rest(s)]]
    BY <2>1, Zenon
  <2> QED  BY <2>2, Zenon DEF IsSum
<1>4. \E g : IsSum(g, c, Open)  BY <1>1, TotalExists
<1>5. IsClaims(h)
  <2>1. \E g : IsClaims(g)  BY <1>3, <1>4
  <2> HIDE DEF IsClaims
  <2> QED  BY <2>1
<1> HIDE DEF h, c
<1>6. IsSum(h, c, Open)  BY <1>3, <1>5
<1>7. Total(c, Open) = h[Open]  BY <1>1, <1>6, TotalTable
<1> QED  BY <1>2, <1>7 DEF c

(* A claim rounds what was earned down.                                    *)
LEMMA ClaimBelow ==
  ASSUME TypeInv, GrowthInv, NEW n \in Open
  PROVE  Claim(n) \in Nat /\ Q64 * Claim(n) <= WalkWorth[n]
<1> DEFINE in == InsideAt(Tick, Growth, Outside, position[n].lower, position[n].upper, Word)
           x == Wrapped(in - growth_last[n]) * position[n].liquidity
           o == fees_owed[n]
<1>0. n \in Nft /\ position[n] # NoPosition /\ WorthsTyped
  BY StateTyped DEF Open
<1>1. /\ position[n].lower \in Ticks /\ position[n].upper \in Ticks
      /\ position[n].lower \in Int /\ position[n].upper \in Int
      /\ position[n].liquidity \in Nat
  BY <1>0, HoldsOpen, TicksType
<1>2. Inside(position[n].lower, position[n].upper) = in
  BY DEF Inside, Wrapped, InsideAt, BelowAt, AboveAt
<1>3. in \in 0..(Word - 1)  BY <1>0, <1>1, InsideType, GrowthConstants DEF WorthsTyped
<1> HIDE DEF in
<1>4. growth_last[n] \in 0..(Word - 1) /\ o \in Nat
  BY <1>0 DEF WorthsTyped
<1>5. in - growth_last[n] \in Int  BY <1>3, <1>4, GrowthConstants
<1>6. Wrapped(in - growth_last[n]) \in Nat  BY <1>5, WrappedType, GrowthConstants
<1>7. x \in Nat  BY <1>1, <1>6, TimesNat
<1>8. Earned(Word, position, growth_last, Tick, Growth, Outside, n) = x
  <2>1. CASE HasStake(position, n)  BY <2>1 DEF Earned, in, Wrapped
  <2>2. CASE ~HasStake(position, n)
    <3>1. position[n].liquidity = 0  BY <1>0, <1>1, <2>2 DEF HasStake
    <3>2. x = 0  BY <1>6, <3>1
    <3> QED  BY <2>2, <3>2 DEF Earned
  <2> QED  BY <2>1, <2>2
<1>9. Claim(n) = o + x \div Q64  BY <1>2 DEF Claim
<1>10. WalkWorth[n] = o * Q64 + x  BY <1>0, <1>8 DEF WalkWorth, Worth
<1> HIDE DEF x, o
<1> DEFINE q == x \div Q64
<1>11. q \in Nat /\ q * Q64 <= x  BY <1>7, QuotientBelow, GrowthConstants
<1> HIDE DEF q
<1>12. Q64 * (o + q) = o * Q64 + q * Q64 /\ o * Q64 \in Nat /\ q * Q64 \in Nat
  BY <1>4, <1>11, GrowthConstants, TimesNat
<1> QED  BY <1>4, <1>7, <1>9, <1>10, <1>11, <1>12 DEF q

(* The fees that the pool took and has not paid out cover what all         *)
(* positions could collect at this moment, for any number of positions,    *)
(* any widths and any rounding on the way: decrease_liquidity's check on   *)
(* the fees never refuses an owner, in whatever order the owners come.     *)
THEOREM FeesAlwaysCovered == FeeSpec => []FeesCovered
<1>1. TypeInv /\ GrowthInv /\ CoverInv => FeesCovered
  <2> SUFFICES ASSUME TypeInv, GrowthInv, CoverInv PROVE FeesCovered  OBVIOUS
  <2> DEFINE c == [n \in Open |-> Claim(n)]
             w == WalkWorth
             u == unclaimed_fees + walk.fee_amount
             s == Total(c, Open)
  <2>1. WorthsTyped /\ Open \subseteq Nft /\ IsFiniteSet(Nft)
    BY StateTyped, NftAssumption DEF Open
  <2>2. IsFiniteSet(Open)  BY <2>1, FS_Subset
  <2>3. \A n \in Open : c[n] \in Int /\ Q64 * c[n] <= w[n]  BY ClaimBelow
  <2>4. \A n \in Nft : w[n] \in Nat  BY <2>1 DEF WorthsTyped
  <2>5. Total(w, Nft) <= u * Q64 /\ u \in Nat
    BY <2>1 DEF CoverInv, WorthsTyped
  <2>6. MapThenSumSet(Claim, Open) = s  BY ClaimsTotal
  <2> HIDE DEF c, w, u
  <2>7. Q64 * s <= Total(w, Open)
    <3>1. \A n \in Open : c[n] \in Int /\ w[n] \in Int /\ w[n] \in Int
      BY <2>1, <2>3, <2>4
    <3>2. \A n \in Open : Q64 * c[n] <= w[n] + 0 * w[n]  BY <2>3, <3>1
    <3>3. Q64 \in Int /\ 0 \in Int  BY GrowthConstants
    <3>4. Q64 * s <= Total(w, Open) + 0 * Total(w, Open)
      BY ONLY <2>2, <3>1, <3>2, <3>3, TotalBounded
    <3>5. Total(w, Open) \in Int  BY <2>2, <3>1, TotalType
    <3> HIDE DEF s
    <3> QED  BY <3>4, <3>5
  <2>8. Total(w, Open) <= Total(w, Nft)  BY <2>1, <2>4, TotalOfPart
  <2>9. s \in Int /\ Total(w, Open) \in Int /\ Total(w, Nft) \in Int
    BY <2>1, <2>2, <2>3, <2>4, TotalType
  <2> HIDE DEF s
  <2>10. s <= u
    <3>1. SUFFICES ASSUME s > u PROVE FALSE  BY <2>5, <2>9
    <3> DEFINE d == s - u
    <3>2. d \in Nat \ {0} /\ s = u + d  BY <2>5, <2>9, <3>1
    <3> HIDE DEF d
    <3>3. Q64 * s = u * Q64 + Q64 * d /\ Q64 * d > 0  BY <2>5, <3>2, GrowthConstants
    <3>4. Q64 * d \in Nat /\ u * Q64 \in Nat  BY <2>5, <3>2, GrowthConstants, TimesNat
    <3> QED  BY <2>5, <2>7, <2>8, <2>9, <3>3, <3>4
  <2> QED  BY <2>6, <2>10 DEF FeesCovered, u
<1>2. BookInv => TypeInv  BY DEF BookInv, FitInv
<1> QED  BY <1>1, <1>2, FeeBook, GrowthInvariant, CoverInvariant, PTL
=============================================================================
