-------------------------- MODULE TickLiquidityProofs --------------------------
(***************************************************************************)
(* Theorems about TickLiquidity for every set of positions, every tick     *)
(* spacing, array size and price table: types, the tick array index, the   *)
(* fit between tick and price, and the walk of a swap; then the liquidity  *)
(* that the code keeps up incrementally, which after every instruction and *)
(* at every turn of the swap loop is that of the positions in range.       *)
(*                                                                         *)
(* Sums over positions are cardinalities of sets of units, so what has to  *)
(* be known of them follows from the theorems on finite sets.  Where a sum *)
(* is of fees or rewards, at the end of the module, the totals are reached *)
(* one position after the other; in place of an induction over finite sets *)
(* there is a smallest counterexample.                                     *)
(***************************************************************************)
EXTENDS TickLiquidity, Functions, FiniteSetTheorems, WellFoundedInduction, TLAPS

-----------------------------------------------------------------------------
(* Arithmetic of tick arrays *)

LEMMA DivBounds ==
  ASSUME NEW n \in Int, NEW d \in Nat \ {0}
  PROVE  /\ n \div d \in Int
         /\ (n \div d) * d <= n
         /\ n < (n \div d) * d + d
OBVIOUS

LEMMA MulCancel ==
  ASSUME NEW x \in Int, NEW y \in Int, NEW d \in Nat \ {0}, x * d < y * d
  PROVE  x < y
OBVIOUS

LEMMA TickCountType == TickCount \in Nat \ {0}
BY TickAssumption DEF TickCount

(* get_array_start_index: the array of a tick starts at or below it, at    *)
(* most one array's length away.                                           *)
LEMMA ArrayStartBounds ==
  ASSUME NEW t \in Int
  PROVE  /\ ArrayStart(t) \in Int
         /\ ArrayStart(t) <= t
         /\ t < ArrayStart(t) + TickCount
BY TickCountType, DivBounds DEF ArrayStart

LEMMA ArrayStartMonotone ==
  ASSUME NEW s \in Int, NEW t \in Int, s <= t
  PROVE  ArrayStart(s) <= ArrayStart(t)
<1> DEFINE q(x) == x \div TickCount
<1>1. TickCount \in Nat \ {0}  BY TickCountType
<1>2. /\ q(s) \in Int /\ q(s) * TickCount <= s
      /\ q(t) \in Int /\ t < q(t) * TickCount + TickCount
  BY <1>1, DivBounds
<1>3. q(s) * TickCount < (q(t) + 1) * TickCount  BY <1>1, <1>2
<1>4. q(s) < q(t) + 1  BY <1>1, <1>2, <1>3, MulCancel
<1>5. q(s) <= q(t)  BY <1>2, <1>4
<1>6. q(s) * TickCount <= q(t) * TickCount  BY <1>1, <1>2, <1>5
<1> QED  BY <1>6 DEF ArrayStart

LEMMA ArrayStartIdempotent ==
  ASSUME NEW t \in Int
  PROVE  ArrayStart(ArrayStart(t)) = ArrayStart(t)
<1> DEFINE d == TickCount
           q == t \div d
           r == (q * d) \div d
<1>1. d \in Nat \ {0}  BY TickCountType
<1>2. q \in Int /\ q * d \in Int  BY <1>1, DivBounds
<1>3. /\ r \in Int /\ r * d <= q * d /\ q * d < r * d + d  BY <1>1, <1>2, DivBounds
<1>4. r * d < (q + 1) * d /\ q * d < (r + 1) * d  BY <1>1, <1>2, <1>3
<1>5. r < q + 1 /\ q < r + 1  BY <1>1, <1>2, <1>3, <1>4, MulCancel
<1>6. r = q  BY <1>2, <1>3, <1>5
<1> QED  BY <1>6 DEF ArrayStart

(* A tick is in or past the array that starts at a exactly when its own    *)
(* array is.                                                               *)
LEMMA ArrayStartGalois ==
  ASSUME NEW s \in Int, NEW t \in Int
  PROVE  ArrayStart(s) <= t <=> ArrayStart(s) <= ArrayStart(t)
<1>1. ArrayStart(s) \in Int /\ ArrayStart(t) \in Int /\ ArrayStart(t) <= t
  BY ArrayStartBounds
<1>2. ASSUME ArrayStart(s) <= t PROVE ArrayStart(s) <= ArrayStart(t)
  BY <1>1, <1>2, ArrayStartMonotone, ArrayStartIdempotent
<1> QED  BY <1>1, <1>2

LEMMA TicksType == Ticks \subseteq MIN_TICK..MAX_TICK /\ Ticks \subseteq Int
BY TickAssumption DEF Ticks

LEMMA TicksFinite == \A S \in SUBSET Ticks : IsFiniteSet(S)
BY TickAssumption, TicksType, FS_Interval, FS_Subset

LEMMA ArrayOfTick == \A t \in MIN_TICK..MAX_TICK : ArrayStart(t) \in ArrayStarts
BY DEF ArrayStarts

LEMMA ArrayStartsInt == ArrayStarts \subseteq Int
BY TickAssumption, ArrayStartBounds DEF ArrayStarts

(* Prices *)

LEMMA PriceFacts ==
  /\ \A t \in MIN_TICK..MAX_TICK : SqrtPrice[t] \in Nat /\ SqrtPrice[t] \in Prices
  /\ \A s, t \in MIN_TICK..MAX_TICK : s < t => SqrtPrice[s] < SqrtPrice[t]
  /\ \A s, t \in MIN_TICK..MAX_TICK : s <= t => SqrtPrice[s] <= SqrtPrice[t]
  /\ Prices \subseteq Nat
  /\ MIN_TICK \in MIN_TICK..MAX_TICK /\ MAX_TICK \in MIN_TICK..MAX_TICK
<1>1. MIN_TICK \in MIN_TICK..MAX_TICK /\ MAX_TICK \in MIN_TICK..MAX_TICK
  BY TickAssumption
<1>2. \A t \in MIN_TICK..MAX_TICK : SqrtPrice[t] \in Nat
  BY PriceAssumption
<1>3. \A s, t \in MIN_TICK..MAX_TICK : s < t => SqrtPrice[s] < SqrtPrice[t]
  BY PriceAssumption
<1>4. \A s, t \in MIN_TICK..MAX_TICK : s <= t => SqrtPrice[s] <= SqrtPrice[t]
  BY <1>2, <1>3, TickAssumption
<1>5. Prices \subseteq Nat
  BY <1>1, <1>2 DEF Prices
<1>6. \A t \in MIN_TICK..MAX_TICK : SqrtPrice[t] \in Prices
  BY <1>1, <1>2, <1>4, TickAssumption DEF Prices
<1> QED  BY <1>1, <1>2, <1>3, <1>4, <1>5, <1>6

-----------------------------------------------------------------------------
(* Types *)

(* The price limit of a swap under way lies inside the price range and not *)
(* behind the price reached.                                               *)
SwapLimitAhead ==
  swap.phase # "idle" =>
    IF swap.zero_for_one
    THEN SqrtPrice[MIN_TICK] < swap.limit /\ swap.limit <= swap.sqrt_price
    ELSE swap.limit < SqrtPrice[MAX_TICK] /\ swap.sqrt_price <= swap.limit

(* An open position has a range.                                           *)
RangeOrdered ==
  \A n \in Nft : position[n] # NoPosition => position[n].lower < position[n].upper

TypeInv == TypeOK /\ SwapLimitAhead /\ RangeOrdered

LEMMA IdleSwapType == IdleSwap \in SwapState
BY PriceFacts, ArrayOfTick, LiquidityAssumption DEF IdleSwap, SwapState

LEMMA InitType == Init => TypeInv
<1> SUFFICES ASSUME Init PROVE TypeInv  OBVIOUS
<1> USE DEF Init
<1>1. swap \in SwapState /\ SwapLimitAhead
  BY IdleSwapType DEF SwapLimitAhead, IdleSwap
<1>2. sqrt_price \in Prices /\ tick_current \in MIN_TICK..MAX_TICK
  BY PriceAssumption
<1>3. 0 \in 0..MaxLiquidity  BY LiquidityAssumption
<1>4. /\ liquidity_net \in [Ticks -> Int]
      /\ liquidity_gross \in [Ticks -> 0..MaxLiquidity]
      /\ initialized_tick_count \in [ArrayStarts -> Int]
      /\ tick_array_bitmap \subseteq ArrayStarts
      /\ protocol_liquidity \in [Ranges -> 0..MaxLiquidity]
      /\ position \in [Nft -> Position \cup {NoPosition}]
      /\ liquidity \in 0..MaxLiquidity
  BY <1>3
<1> QED  BY <1>1, <1>2, <1>4 DEF TypeInv, TypeOK, RangeOrdered

(* Adding or removing liquidity keeps every word in range: each sum it     *)
(* makes goes through add_delta.                                           *)
LEMMA ModifyType ==
  ASSUME TypeInv, NEW lower \in Ticks, NEW upper \in Ticks, lower < upper,
         NEW delta \in Int, ModifyPosition(lower, upper, delta)
  PROVE  /\ liquidity_net' \in [Ticks -> Int]
         /\ liquidity_gross' \in [Ticks -> 0..MaxLiquidity]
         /\ initialized_tick_count' \in [ArrayStarts -> Int]
         /\ tick_array_bitmap' \subseteq ArrayStarts
         /\ protocol_liquidity' \in [Ranges -> 0..MaxLiquidity]
         /\ liquidity' \in 0..MaxLiquidity
         /\ UNCHANGED <<sqrt_price, tick_current, swap>>
<1> USE DEF TypeInv, TypeOK
<1>1. liquidity_net' \in [Ticks -> Int]
  BY DEF ModifyPosition, NetAfter
<1>2. liquidity_gross' \in [Ticks -> 0..MaxLiquidity]
  <2>1. /\ liquidity_gross[lower] + delta \in 0..MaxLiquidity
        /\ liquidity_gross[upper] + delta \in 0..MaxLiquidity
    BY DEF ModifyPosition, AddDeltaOk
  <2>2. liquidity_gross' = [liquidity_gross EXCEPT ![lower] = @ + delta, ![upper] = @ + delta]
    BY DEF ModifyPosition
  <2>3. lower # upper  BY TicksType
  <2> QED  BY <2>1, <2>2, <2>3
<1>3. initialized_tick_count' \in [ArrayStarts -> Int] /\ tick_array_bitmap' \subseteq ArrayStarts
  <2>1. ArrayStart(lower) \in ArrayStarts /\ ArrayStart(upper) \in ArrayStarts
    BY TicksType, ArrayOfTick
  <2>2. ASSUME NEW index, NEW a \in ArrayStarts, NEW add \in BOOLEAN,
               index.count \in [ArrayStarts -> Int], index.bitmap \subseteq ArrayStarts
        PROVE  /\ CountTick(index, a, add).count \in [ArrayStarts -> Int]
               /\ CountTick(index, a, add).bitmap \subseteq ArrayStarts
    BY <2>2 DEF CountTick, SymDiff
  <2> DEFINE before == [count |-> initialized_tick_count, bitmap |-> tick_array_bitmap]
             add == delta > 0
             mid == IF Flipped(lower, delta)
                    THEN CountTick(before, ArrayStart(lower), add) ELSE before
             after == IF Flipped(upper, delta)
                      THEN CountTick(mid, ArrayStart(upper), add) ELSE mid
  <2>3. before.count \in [ArrayStarts -> Int] /\ before.bitmap \subseteq ArrayStarts
    OBVIOUS
  <2>4. add \in BOOLEAN  OBVIOUS
  <2> HIDE DEF before, add
  <2>5. mid.count \in [ArrayStarts -> Int] /\ mid.bitmap \subseteq ArrayStarts
    BY <2>1, <2>2, <2>3, <2>4
  <2> HIDE DEF mid
  <2>6. after.count \in [ArrayStarts -> Int] /\ after.bitmap \subseteq ArrayStarts
    BY <2>1, <2>2, <2>4, <2>5
  <2>7. initialized_tick_count' = after.count /\ tick_array_bitmap' = after.bitmap
    BY DEF ModifyPosition, CountFlips, before, mid, add
  <2> QED  BY <2>6, <2>7
<1>4. protocol_liquidity' \in [Ranges -> 0..MaxLiquidity]
  <2>1. protocol_liquidity[<<lower, upper>>] + delta \in 0..MaxLiquidity
    BY DEF ModifyPosition, AddDeltaOk
  <2>2. protocol_liquidity' = [protocol_liquidity EXCEPT ![<<lower, upper>>] = @ + delta]
    BY DEF ModifyPosition
  <2> QED  BY <2>1, <2>2
<1>5. liquidity' \in 0..MaxLiquidity
  BY DEF ModifyPosition, AddDeltaOk
<1>6. UNCHANGED <<sqrt_price, tick_current, swap>>
  BY DEF ModifyPosition
<1> QED  BY <1>1, <1>2, <1>3, <1>4, <1>5, <1>6

LEMMA AddLiquidityType ==
  ASSUME TypeInv, NEW lower \in Ticks, NEW upper \in Ticks, lower < upper,
         NEW amount \in Nat, AddLiquidity(lower, upper, amount)
  PROVE  /\ liquidity_net' \in [Ticks -> Int]
         /\ liquidity_gross' \in [Ticks -> 0..MaxLiquidity]
         /\ initialized_tick_count' \in [ArrayStarts -> Int]
         /\ tick_array_bitmap' \subseteq ArrayStarts
         /\ protocol_liquidity' \in [Ranges -> 0..MaxLiquidity]
         /\ liquidity' \in 0..MaxLiquidity
         /\ UNCHANGED <<sqrt_price, tick_current, swap>>
<1>1. CASE amount = 0
  BY <1>1 DEF AddLiquidity, TypeInv, TypeOK, bookVars, tickVars, indexVars, poolVars
<1>2. CASE amount # 0
  <2>1. ModifyPosition(lower, upper, amount)  BY <1>2 DEF AddLiquidity
  <2> QED  BY <2>1, ModifyType
<1> QED  BY <1>1, <1>2

(* The step towards tick t: where it may end, and with which tick.         *)
LEMMA SwapStepBounds ==
  ASSUME TypeInv,
         NEW a \in ArrayStarts, NEW t \in Ticks, NEW p \in Prices, NEW spent \in BOOLEAN,
         SwapStep(a, t, p, spent)
  PROVE  /\ p = SqrtPrice[t] /\ swap.zero_for_one => t - 1 \in MIN_TICK..MAX_TICK
         /\ TickReached(swap, t, p) \in MIN_TICK..MAX_TICK
         /\ IF swap.zero_for_one THEN swap.limit <= p /\ p <= swap.sqrt_price
                                 ELSE p <= swap.limit /\ swap.sqrt_price <= p
<1> USE DEF TypeInv, TypeOK, SwapState
<1>1. /\ swap.phase = "walking" /\ StepInOrder(swap, t)
      /\ Between(p, swap.sqrt_price, Target(swap, t))
  BY DEF SwapStep
<1>2. /\ t \in MIN_TICK..MAX_TICK /\ t \in Int
      /\ SqrtPrice[t] \in Nat /\ SqrtPrice[MIN_TICK] \in Nat
      /\ swap.sqrt_price \in Nat /\ swap.limit \in Nat /\ p \in Nat
      /\ swap.tick \in MIN_TICK..MAX_TICK
  BY TicksType, PriceFacts
<1>3. CASE swap.zero_for_one
  <2>1. Target(swap, t) <= p /\ p <= swap.sqrt_price
    BY <1>1, <1>2, <1>3 DEF StepInOrder, Between, Target
  <2>2. SqrtPrice[MIN_TICK] < swap.limit /\ swap.limit <= Target(swap, t)
    BY <1>1, <1>2, <1>3 DEF SwapLimitAhead, Target
  <2>3. swap.limit <= p /\ SqrtPrice[MIN_TICK] < p
    BY <1>2, <2>1, <2>2 DEF Target
  <2>4. p = SqrtPrice[t] => t - 1 \in MIN_TICK..MAX_TICK
    BY <1>2, <2>3, TickAssumption
  <2>5. TickReached(swap, t, p) \in MIN_TICK..MAX_TICK
    BY <1>2, <1>3, <2>4, PriceAssumption DEF TickReached
  <2> QED  BY <1>3, <2>1, <2>3, <2>4, <2>5
<1>4. CASE ~swap.zero_for_one
  <2>1. p <= Target(swap, t) /\ swap.sqrt_price <= p
    BY <1>1, <1>2, <1>4 DEF StepInOrder, Between, Target
  <2>2. Target(swap, t) <= swap.limit
    BY <1>1, <1>2, <1>4 DEF Target
  <2>3. p <= swap.limit
    BY <1>2, <2>1, <2>2 DEF Target
  <2>4. TickReached(swap, t, p) \in MIN_TICK..MAX_TICK
    BY <1>2, <1>4, PriceAssumption DEF TickReached
  <2> QED  BY <1>4, <2>1, <2>3, <2>4
<1> QED  BY <1>3, <1>4

(* The book changes, the pool's price and the swap do not.                  *)
BookType ==
  /\ liquidity_net' \in [Ticks -> Int]
  /\ liquidity_gross' \in [Ticks -> 0..MaxLiquidity]
  /\ initialized_tick_count' \in [ArrayStarts -> Int]
  /\ tick_array_bitmap' \subseteq ArrayStarts
  /\ protocol_liquidity' \in [Ranges -> 0..MaxLiquidity]
  /\ liquidity' \in 0..MaxLiquidity
  /\ UNCHANGED <<sqrt_price, tick_current, swap>>

LEMMA PositionStepType ==
  ASSUME TypeInv, BookType, NEW n \in Nft, NEW new \in Position \cup {NoPosition},
         new # NoPosition => new.lower < new.upper,
         position' = [position EXCEPT ![n] = new]
  PROVE  TypeInv'
<1>1. position' \in [Nft -> Position \cup {NoPosition}]
  BY DEF TypeInv, TypeOK
<1>2. RangeOrdered'
  BY DEF TypeInv, TypeOK, RangeOrdered
<1> QED  BY <1>1, <1>2 DEF BookType, TypeInv, TypeOK, SwapLimitAhead

LEMMA NextType == TypeInv /\ [Next]_vars => TypeInv'
<1> SUFFICES ASSUME TypeInv, [Next]_vars PROVE TypeInv'  OBVIOUS
<1>1. ASSUME NEW n \in Nft, NEW lower \in Ticks, NEW upper \in Ticks,
             NEW amount \in NewLiquidity, OpenPosition(n, lower, upper, amount)
      PROVE  TypeInv'
  <2>1. amount \in Nat  BY DEF NewLiquidity
  <2>2. lower < upper /\ AddLiquidity(lower, upper, amount)
    BY <1>1 DEF OpenPosition
  <2>3. BookType  BY <2>1, <2>2, AddLiquidityType DEF BookType
  <2>4. amount <= MaxLiquidity
    <3>1. CASE amount = 0  BY <3>1, LiquidityAssumption
    <3>2. CASE amount # 0
      <4>1. liquidity_gross[lower] \in Nat /\ liquidity_gross[lower] + amount <= MaxLiquidity
        BY <3>2, <2>1, <2>2, LiquidityAssumption
           DEF AddLiquidity, ModifyPosition, AddDeltaOk, TypeInv, TypeOK
      <4> QED  BY <4>1, <2>1, LiquidityAssumption
    <3> QED  BY <3>1, <3>2
  <2> DEFINE new == [lower |-> lower, upper |-> upper, liquidity |-> amount]
  <2>5. new \in Position  BY <2>1, <2>4, LiquidityAssumption DEF Position
  <2>6. position' = [position EXCEPT ![n] = new]  BY <1>1 DEF OpenPosition
  <2>7. new.lower < new.upper  BY <2>2
  <2> HIDE DEF new
  <2> QED  BY <2>3, <2>5, <2>6, <2>7, PositionStepType
<1>2. ASSUME NEW n \in Nft, NEW amount \in NewLiquidity, IncreaseLiquidity(n, amount)
      PROVE  TypeInv'
  <2>1. amount \in Nat  BY DEF NewLiquidity
  <2>2. position[n] \in Position /\ position[n].lower < position[n].upper
    BY <1>2 DEF IncreaseLiquidity, TypeInv, TypeOK, RangeOrdered
  <2>3. AddLiquidity(position[n].lower, position[n].upper, amount)
    BY <1>2 DEF IncreaseLiquidity
  <2>4. BookType  BY <2>1, <2>2, <2>3, AddLiquidityType DEF BookType, Position
  <2> DEFINE new == [position[n] EXCEPT !.liquidity = @ + amount]
  <2>5. new \in Position /\ new.lower < new.upper
    BY <1>2, <2>2 DEF IncreaseLiquidity, AddDeltaOk, Position
  <2>6. position' = [position EXCEPT ![n] = new]
    BY <1>2, <2>2 DEF IncreaseLiquidity, TypeInv, TypeOK
  <2> HIDE DEF new
  <2> QED  BY <2>4, <2>5, <2>6, PositionStepType
<1>3. ASSUME NEW n \in Nft, NEW amount \in 0..MaxLiquidity, DecreaseLiquidity(n, amount)
      PROVE  TypeInv'
  <2>1. amount \in Nat  BY LiquidityAssumption
  <2>2. position[n] \in Position /\ position[n].lower < position[n].upper
    BY <1>3 DEF DecreaseLiquidity, TypeInv, TypeOK, RangeOrdered
  <2>3. ModifyPosition(position[n].lower, position[n].upper, -amount)
    BY <1>3 DEF DecreaseLiquidity
  <2>4. BookType  BY <2>1, <2>2, <2>3, ModifyType DEF BookType, Position
  <2> DEFINE new == [position[n] EXCEPT !.liquidity = @ - amount]
  <2>5. new \in Position /\ new.lower < new.upper
    BY <1>3, <2>1, <2>2, LiquidityAssumption DEF DecreaseLiquidity, Position
  <2>6. position' = [position EXCEPT ![n] = new]
    BY <1>3, <2>2 DEF DecreaseLiquidity, TypeInv, TypeOK
  <2> HIDE DEF new
  <2> QED  BY <2>4, <2>5, <2>6, PositionStepType
<1>4. ASSUME NEW n \in Nft, ClosePosition(n)
      PROVE  TypeInv'
  <2>1. position' = [position EXCEPT ![n] = NoPosition]  BY <1>4 DEF ClosePosition
  <2>2. BookType
    BY <1>4 DEF ClosePosition, BookType, bookVars, tickVars, indexVars, poolVars,
                TypeInv, TypeOK
  <2> QED  BY <2>1, <2>2, PositionStepType
<1>5. ASSUME NEW zero_for_one \in BOOLEAN, NEW limit \in Prices,
             SwapBegin(zero_for_one, limit)
      PROVE  TypeInv'
  <2>1. PICK a \in ArrayStarts :
          swap' = [phase |-> "walking", zero_for_one |-> zero_for_one, limit |-> limit,
                   sqrt_price |-> sqrt_price, tick |-> tick_current,
                   liquidity |-> liquidity, array |-> a,
                   matched |-> a = ArrayStart(tick_current)]
    BY <1>5 DEF SwapBegin
  <2>2. swap' \in SwapState  BY <2>1 DEF TypeInv, TypeOK, SwapState
  <2>3. limit \in Nat /\ sqrt_price \in Nat  BY PriceFacts DEF TypeInv, TypeOK
  <2>4. SwapLimitAhead'  BY <1>5, <2>1, <2>3 DEF SwapLimitAhead, SwapBegin
  <2>5. UNCHANGED <<bookVars, position, poolVars>>  BY <1>5 DEF SwapBegin
  <2> QED  BY <2>2, <2>4, <2>5
           DEF TypeInv, TypeOK, RangeOrdered, bookVars, tickVars, indexVars, poolVars
<1>6. ASSUME NEW a \in ArrayStarts, NEW t \in Ticks, NEW p \in Prices,
             NEW spent \in BOOLEAN, SwapStep(a, t, p, spent)
      PROVE  TypeInv'
  <2>1. UNCHANGED <<bookVars, position, poolVars>>  BY <1>6 DEF SwapStep
  <2>2. p = SqrtPrice[t] => Crossed(swap, t) \in 0..MaxLiquidity
    <3>1. Crossed(swap, t) \in Int  BY DEF Crossed, TypeInv, TypeOK, SwapState
    <3> QED  BY <1>6, <3>1 DEF SwapStep, AddDeltaOk
  <2>3. TickReached(swap, t, p) \in MIN_TICK..MAX_TICK  BY <1>6, SwapStepBounds
  <2>4. swap' \in SwapState
    BY <1>6, <2>2, <2>3 DEF SwapStep, SwapState, TypeInv, TypeOK
  <2>5. /\ swap'.zero_for_one = swap.zero_for_one /\ swap'.limit = swap.limit
        /\ swap'.sqrt_price = p /\ swap.phase = "walking"
    BY <1>6 DEF SwapStep, SwapState, TypeInv, TypeOK
  <2>6. SwapLimitAhead'
    BY <1>6, <2>5, SwapStepBounds DEF SwapLimitAhead, TypeInv
  <2> QED  BY <2>1, <2>4, <2>6
           DEF TypeInv, TypeOK, RangeOrdered, bookVars, tickVars, indexVars, poolVars
<1>7. ASSUME SwapEnd PROVE TypeInv'
  <2>1. swap' = IdleSwap /\ SwapLimitAhead'  BY <1>7 DEF SwapEnd, SwapLimitAhead, IdleSwap
  <2> QED  BY <1>7, <2>1, IdleSwapType
           DEF SwapEnd, SwapState, TypeInv, TypeOK, RangeOrdered, bookVars, tickVars, indexVars
<1>8. ASSUME SwapAbort PROVE TypeInv'
  <2>1. swap' = IdleSwap /\ SwapLimitAhead'  BY <1>8 DEF SwapAbort, SwapLimitAhead, IdleSwap
  <2> QED  BY <1>8, <2>1, IdleSwapType
           DEF SwapAbort, TypeInv, TypeOK, RangeOrdered, bookVars, tickVars, indexVars, poolVars
<1>9. CASE UNCHANGED vars
  BY <1>9 DEF vars, bookVars, tickVars, indexVars, poolVars, TypeInv, TypeOK,
              RangeOrdered, SwapLimitAhead
<1> QED
  BY <1>1, <1>2, <1>3, <1>4, <1>5, <1>6, <1>7, <1>8, <1>9 DEF Next

(* Every word of the book, the pool and the swap state stays in its range, *)
(* for any number of positions, any tick spacing and any price table.      *)
THEOREM TypeCorrect == Spec => []TypeOK
<1>1. Spec => []TypeInv  BY InitType, NextType, PTL DEF Spec
<1>2. TypeInv => TypeOK  BY DEF TypeInv
<1> QED  BY <1>1, <1>2, PTL

-----------------------------------------------------------------------------
(* The tick array index *)

InArray(S, a) == {t \in S : ArrayStart(t) = a}

(* An index of counts and bits is exact for a set of initialized ticks.    *)
IndexExact(index, S) ==
  /\ index.count \in [ArrayStarts -> Int] /\ index.bitmap \subseteq ArrayStarts
  /\ \A a \in ArrayStarts :
       /\ index.count[a] = Cardinality(InArray(S, a))
       /\ a \in index.bitmap <=> InArray(S, a) # {}

(* Counting one flipped tick keeps the index exact, although the bit is    *)
(* only ever toggled and the tick itself is not looked at.                 *)
LEMMA CountTickExact ==
  ASSUME NEW index, NEW S \in SUBSET Ticks, NEW t \in Ticks, NEW add \in BOOLEAN,
         IndexExact(index, S), add <=> t \notin S
  PROVE  IndexExact(CountTick(index, ArrayStart(t), add),
                    IF add THEN S \cup {t} ELSE S \ {t})
<1> DEFINE T == IF add THEN S \cup {t} ELSE S \ {t}
           b == ArrayStart(t)
           n == IF add THEN index.count[b] + 1 ELSE index.count[b] - 1
           index2 == CountTick(index, b, add)
<1>1. b \in ArrayStarts  BY TicksType, ArrayOfTick
<1>2. \A a \in ArrayStarts : a # b => InArray(T, a) = InArray(S, a)
  BY DEF InArray
<1>3. IsFiniteSet(InArray(S, b)) /\ IsFiniteSet(InArray(T, b))
  BY TicksFinite DEF InArray
<1>4. /\ index.count[b] = Cardinality(InArray(S, b))
      /\ b \in index.bitmap <=> InArray(S, b) # {}
  BY <1>1 DEF IndexExact
<1>5. Cardinality(InArray(S, b)) \in Nat /\ Cardinality(InArray(T, b)) \in Nat
  BY <1>3, FS_CardinalityType
<1>6. n = Cardinality(InArray(T, b))
  <2>1. CASE add
    <3>1. InArray(T, b) = InArray(S, b) \cup {t} /\ t \notin InArray(S, b)
      BY <2>1 DEF InArray
    <3>2. Cardinality(InArray(S, b) \cup {t}) = Cardinality(InArray(S, b)) + 1
      BY <1>3, <3>1, FS_AddElement
    <3> QED  BY <1>4, <2>1, <3>1, <3>2
  <2>2. CASE ~add
    <3>1. InArray(T, b) = InArray(S, b) \ {t} /\ t \in InArray(S, b)
      BY <2>2 DEF InArray
    <3>2. Cardinality(InArray(S, b) \ {t}) = Cardinality(InArray(S, b)) - 1
      BY <1>3, <3>1, FS_RemoveElement
    <3> QED  BY <1>4, <2>2, <3>1, <3>2
  <2> QED  BY <2>1, <2>2
<1>7. /\ InArray(S, b) # {} <=> Cardinality(InArray(S, b)) # 0
      /\ InArray(T, b) # {} <=> Cardinality(InArray(T, b)) # 0
  BY <1>3, FS_EmptySet
<1>8. /\ index2.count = [index.count EXCEPT ![b] = n]
      /\ index2.bitmap = IF n = (IF add THEN 1 ELSE 0)
                         THEN SymDiff(index.bitmap, {b}) ELSE index.bitmap
  BY DEF CountTick
<1> HIDE DEF n, T, b, index2
<1>9. n = (IF add THEN 1 ELSE 0) <=> (b \in index.bitmap <=> ~(InArray(T, b) # {}))
  <2>1. CASE add
    BY <1>4, <1>5, <1>6, <1>7, <2>1 DEF n
  <2>2. CASE ~add
    BY <1>4, <1>5, <1>6, <1>7, <2>2 DEF n
  <2> QED  BY <2>1, <2>2
<1>10. /\ index2.count \in [ArrayStarts -> Int]
       /\ index2.bitmap \subseteq ArrayStarts
  BY <1>1, <1>5, <1>6, <1>8 DEF IndexExact, SymDiff
<1>11. ASSUME NEW a \in ArrayStarts
       PROVE  /\ index2.count[a] = Cardinality(InArray(T, a))
              /\ a \in index2.bitmap <=> InArray(T, a) # {}
  <2>1. CASE a = b
    BY <1>1, <1>6, <1>8, <1>9, <2>1 DEF IndexExact, SymDiff
  <2>2. CASE a # b
    BY <1>2, <1>8, <2>2 DEF IndexExact, SymDiff
  <2> QED  BY <2>1, <2>2
<1> QED  BY <1>10, <1>11 DEF IndexExact, T, index2, b

IndexInv == TypeInv /\ ArrayIndexExact

Index == [count |-> initialized_tick_count, bitmap |-> tick_array_bitmap]

LEMMA IndexExactIff ==
  TypeOK => (ArrayIndexExact <=> IndexExact(Index, Initialized))
<1> SUFFICES ASSUME TypeOK
             PROVE  ArrayIndexExact <=> IndexExact(Index, Initialized)
  OBVIOUS
<1>1. \A a : InitializedIn(a) = InArray(Initialized, a)
  BY DEF InitializedIn, InArray
<1> QED  BY <1>1 DEF ArrayIndexExact, IndexExact, Index, TypeOK

(* Which ticks a change of liquidity leaves initialized.                   *)
LEMMA FlippedTicks ==
  ASSUME TypeInv, NEW lower \in Ticks, NEW upper \in Ticks, lower < upper,
         NEW delta \in Int, ModifyPosition(lower, upper, delta)
  PROVE  /\ \A t \in {lower, upper} :
              Flipped(t, delta) => (delta > 0 <=> t \notin Initialized)
         /\ \A t \in Ticks :
              t \in Initialized' <=>
                IF t \in {lower, upper} /\ Flipped(t, delta)
                THEN t \notin Initialized ELSE t \in Initialized
<1>1. liquidity_gross \in [Ticks -> 0..MaxLiquidity]  BY DEF TypeInv, TypeOK
<1>2. /\ liquidity_gross[lower] + delta \in 0..MaxLiquidity
      /\ liquidity_gross[upper] + delta \in 0..MaxLiquidity
      /\ liquidity_gross' = [liquidity_gross EXCEPT ![lower] = @ + delta, ![upper] = @ + delta]
  BY DEF ModifyPosition, AddDeltaOk
<1>3. lower # upper  BY TicksType
<1>4. \A t \in Ticks : liquidity_gross'[t] =
        IF t \in {lower, upper} THEN liquidity_gross[t] + delta ELSE liquidity_gross[t]
  BY <1>1, <1>2, <1>3
<1> QED  BY <1>1, <1>2, <1>4, LiquidityAssumption DEF Flipped, Initialized

LEMMA ModifyIndex ==
  ASSUME IndexInv, NEW lower \in Ticks, NEW upper \in Ticks, lower < upper,
         NEW delta \in Int, ModifyPosition(lower, upper, delta)
  PROVE  IndexExact(Index, Initialized)'
<1> DEFINE add == delta > 0
           mid == IF Flipped(lower, delta)
                  THEN CountTick(Index, ArrayStart(lower), add) ELSE Index
           after == IF Flipped(upper, delta)
                    THEN CountTick(mid, ArrayStart(upper), add) ELSE mid
           M == IF Flipped(lower, delta)
                THEN IF add THEN Initialized \cup {lower} ELSE Initialized \ {lower}
                ELSE Initialized
           N == IF Flipped(upper, delta)
                THEN IF add THEN M \cup {upper} ELSE M \ {upper}
                ELSE M
<1>1. IndexExact(Index, Initialized) /\ TypeInv
  BY IndexExactIff DEF IndexInv, TypeInv
<1>2. /\ \A t \in {lower, upper} :
           Flipped(t, delta) => (delta > 0 <=> t \notin Initialized)
      /\ \A t \in Ticks :
           t \in Initialized' <=>
             IF t \in {lower, upper} /\ Flipped(t, delta)
             THEN t \notin Initialized ELSE t \in Initialized
  BY <1>1, FlippedTicks
<1>3. Initialized \subseteq Ticks /\ Initialized' \subseteq Ticks  BY DEF Initialized
<1>4. lower # upper  BY TicksType
<1>5. add \in BOOLEAN  OBVIOUS
<1>6. M \subseteq Ticks /\ (upper \in M <=> upper \in Initialized)
  BY <1>3, <1>4
<1>7. N = Initialized'
  BY <1>2, <1>3, <1>4
<1>8. IndexExact(mid, M)
  <2>1. CASE Flipped(lower, delta)
    <3>1. add <=> lower \notin Initialized  BY <1>2, <2>1
    <3> HIDE DEF add
    <3> QED  BY <1>1, <1>3, <1>5, <2>1, <3>1, CountTickExact
  <2>2. CASE ~Flipped(lower, delta)  BY <1>1, <2>2
  <2> QED  BY <2>1, <2>2
<1>9. IndexExact(after, N)
  <2>1. CASE Flipped(upper, delta)
    <3>1. add <=> upper \notin M  BY <1>2, <1>6, <2>1
    <3> HIDE DEF add, mid, M
    <3> QED  BY <1>5, <1>6, <1>8, <2>1, <3>1, CountTickExact
  <2>2. CASE ~Flipped(upper, delta)
    <3> HIDE DEF mid, M
    <3> QED  BY <1>8, <2>2
  <2> QED  BY <2>1, <2>2
<1>10. initialized_tick_count' = after.count /\ tick_array_bitmap' = after.bitmap
  BY DEF ModifyPosition, CountFlips, Index
<1> HIDE DEF after, N
<1> QED  BY <1>7, <1>9, <1>10 DEF IndexExact, Index

LEMMA InitIndex == Init => ArrayIndexExact
<1> SUFFICES ASSUME Init PROVE ArrayIndexExact  OBVIOUS
<1>1. Initialized = {}  BY DEF Init, Initialized
<1>2. \A a : InitializedIn(a) = {}  BY <1>1 DEF InitializedIn
<1> QED  BY <1>2, FS_EmptySet DEF Init, ArrayIndexExact

LEMMA NextIndex == IndexInv /\ TypeInv' /\ [Next]_vars => ArrayIndexExact'
<1> SUFFICES ASSUME IndexInv, TypeInv', [Next]_vars PROVE ArrayIndexExact'  OBVIOUS
<1>1. ASSUME UNCHANGED bookVars PROVE ArrayIndexExact'
  BY <1>1 DEF IndexInv, ArrayIndexExact, InitializedIn, Initialized,
              bookVars, tickVars, indexVars
<1>2. ASSUME NEW lower \in Ticks, NEW upper \in Ticks, lower < upper,
             NEW delta \in Int, ModifyPosition(lower, upper, delta)
      PROVE  ArrayIndexExact'
  <2>1. IndexExact(Index, Initialized)'  BY <1>2, ModifyIndex
  <2>2. \A a : InitializedIn(a)' = InArray(Initialized', a)
    BY DEF InitializedIn, InArray
  <2> QED  BY <2>1, <2>2 DEF ArrayIndexExact, IndexExact, Index
<1>3. ASSUME NEW lower \in Ticks, NEW upper \in Ticks, lower < upper,
             NEW amount \in Nat, AddLiquidity(lower, upper, amount)
      PROVE  ArrayIndexExact'
  BY <1>1, <1>2, <1>3 DEF AddLiquidity
<1>4. ASSUME NEW n \in Nft, NEW lower \in Ticks, NEW upper \in Ticks,
             NEW amount \in NewLiquidity, OpenPosition(n, lower, upper, amount)
      PROVE  ArrayIndexExact'
  BY <1>3, <1>4 DEF OpenPosition, NewLiquidity
<1>5. ASSUME NEW n \in Nft, position[n] # NoPosition
      PROVE  /\ position[n].lower \in Ticks /\ position[n].upper \in Ticks
             /\ position[n].lower < position[n].upper
  BY <1>5 DEF IndexInv, TypeInv, TypeOK, RangeOrdered, Position
<1>6. ASSUME NEW n \in Nft, NEW amount \in NewLiquidity, IncreaseLiquidity(n, amount)
      PROVE  ArrayIndexExact'
  BY <1>3, <1>5, <1>6 DEF IncreaseLiquidity, NewLiquidity
<1>7. ASSUME NEW n \in Nft, NEW amount \in 0..MaxLiquidity, DecreaseLiquidity(n, amount)
      PROVE  ArrayIndexExact'
  BY <1>2, <1>5, <1>7, LiquidityAssumption DEF DecreaseLiquidity
<1>8. ASSUME NEW n \in Nft, ClosePosition(n) PROVE ArrayIndexExact'
  BY <1>1, <1>8 DEF ClosePosition
<1>9. ASSUME NEW zero_for_one \in BOOLEAN, NEW limit \in Prices,
             SwapBegin(zero_for_one, limit)
      PROVE  ArrayIndexExact'
  BY <1>1, <1>9 DEF SwapBegin
<1>10. ASSUME NEW a \in ArrayStarts, NEW t \in Ticks, NEW p \in Prices,
              NEW spent \in BOOLEAN, SwapStep(a, t, p, spent)
       PROVE  ArrayIndexExact'
  BY <1>1, <1>10 DEF SwapStep
<1>11. CASE SwapEnd  BY <1>1, <1>11 DEF SwapEnd
<1>12. CASE SwapAbort  BY <1>1, <1>12 DEF SwapAbort
<1>13. CASE UNCHANGED vars  BY <1>1, <1>13 DEF vars
<1> QED
  BY <1>4, <1>6, <1>7, <1>8, <1>9, <1>10, <1>11, <1>12, <1>13 DEF Next

LEMMA IndexInvariant == Spec => []IndexInv
<1>1. Init => IndexInv  BY InitType, InitIndex DEF IndexInv
<1>2. IndexInv /\ [Next]_vars => IndexInv'  BY NextType, NextIndex DEF IndexInv
<1> QED  BY <1>1, <1>2, PTL DEF Spec

(* The counts and the bitmap that the swap loop trusts always agree with   *)
(* the ticks themselves: no stale bit, no array that cannot be found.      *)
THEOREM IndexCorrect == Spec => []ArrayIndexExact
<1>1. IndexInv => ArrayIndexExact  BY DEF IndexInv
<1> QED  BY <1>1, IndexInvariant, PTL

-----------------------------------------------------------------------------
(* The swap loop: the price and the tick stay together, the walk over tick *)
(* arrays and bitmap goes to the nearest initialized tick of the whole     *)
(* pool, and it always advances.                                           *)

(* Price and tick *)

FitInv == TypeInv /\ TickFitsPrice

(* The next action splits into what an instruction other than a swap does  *)
(* (the pool's price and the swap are left alone) and the steps of a swap. *)
LEMMA NextCases ==
  ASSUME TypeInv, [Next]_vars
  PROVE  \/ swap.phase = "idle" /\ UNCHANGED <<sqrt_price, tick_current, swap>>
         \/ \E zero_for_one \in BOOLEAN, limit \in Prices : SwapBegin(zero_for_one, limit)
         \/ \E a \in ArrayStarts, t \in Ticks, p \in Prices, spent \in BOOLEAN :
              SwapStep(a, t, p, spent)
         \/ SwapEnd
         \/ SwapAbort
         \/ UNCHANGED vars
<1>1. ASSUME NEW lower, NEW upper, NEW amount, AddLiquidity(lower, upper, amount)
      PROVE  UNCHANGED <<sqrt_price, tick_current, swap>>
  BY <1>1 DEF AddLiquidity, ModifyPosition, poolVars
<1>2. ASSUME NEW n \in Nft, NEW lower \in Ticks, NEW upper \in Ticks,
             NEW amount \in NewLiquidity, OpenPosition(n, lower, upper, amount)
      PROVE  swap.phase = "idle" /\ UNCHANGED <<sqrt_price, tick_current, swap>>
  BY <1>1, <1>2 DEF OpenPosition
<1>3. ASSUME NEW n \in Nft, NEW amount \in NewLiquidity, IncreaseLiquidity(n, amount)
      PROVE  swap.phase = "idle" /\ UNCHANGED <<sqrt_price, tick_current, swap>>
  BY <1>1, <1>3 DEF IncreaseLiquidity
<1>4. ASSUME NEW n \in Nft, NEW amount \in 0..MaxLiquidity, DecreaseLiquidity(n, amount)
      PROVE  swap.phase = "idle" /\ UNCHANGED <<sqrt_price, tick_current, swap>>
  BY <1>4 DEF DecreaseLiquidity, ModifyPosition
<1>5. ASSUME NEW n \in Nft, ClosePosition(n)
      PROVE  swap.phase = "idle" /\ UNCHANGED <<sqrt_price, tick_current, swap>>
  BY <1>5 DEF ClosePosition, poolVars
<1> QED  BY <1>2, <1>3, <1>4, <1>5 DEF Next

LEMMA InitFits == Init => TickFitsPrice
<1> SUFFICES ASSUME Init PROVE TickFitsPrice  OBVIOUS
<1>1. sqrt_price \in Prices /\ tick_current = TickAt[sqrt_price] /\ swap.phase = "idle"
  BY DEF Init, IdleSwap
<1>2. tick_current \in MIN_TICK..MAX_TICK  BY <1>1, PriceAssumption
<1>3. /\ SqrtPrice[tick_current] <= sqrt_price
      /\ tick_current < MAX_TICK => sqrt_price < SqrtPrice[tick_current + 1]
  BY <1>1, PriceAssumption
<1>4. tick_current < MAX_TICK => tick_current + 1 \in MIN_TICK..MAX_TICK
  BY <1>2, TickAssumption
<1>5. sqrt_price \in Nat /\ (tick_current < MAX_TICK => SqrtPrice[tick_current + 1] \in Nat)
  BY <1>1, <1>4, PriceFacts
<1>6. tick_current < MAX_TICK => sqrt_price <= SqrtPrice[tick_current + 1]
  BY <1>3, <1>5
<1> QED  BY <1>1, <1>3, <1>6 DEF TickFitsPrice, Fits

(* The tick of a price read from the table fits it.                        *)
LEMMA TickAtFits ==
  ASSUME NEW p \in Prices
  PROVE  TickAt[p] \in MIN_TICK..MAX_TICK /\ Fits(TickAt[p], p)
<1> DEFINE t == TickAt[p]
<1>1. t \in MIN_TICK..MAX_TICK  BY PriceAssumption
<1>2. SqrtPrice[t] <= p /\ (t < MAX_TICK => p < SqrtPrice[t + 1])  BY PriceAssumption
<1>3. p \in Nat /\ (t < MAX_TICK => SqrtPrice[t + 1] \in Nat)
  <2>1. t < MAX_TICK => t + 1 \in MIN_TICK..MAX_TICK  BY <1>1, TickAssumption
  <2> QED  BY <2>1, PriceFacts
<1> HIDE DEF t
<1>4. t < MAX_TICK => p <= SqrtPrice[t + 1]  BY <1>2, <1>3
<1> QED  BY <1>1, <1>2, <1>4 DEF Fits, t

LEMMA StepFits ==
  ASSUME FitInv,
         NEW a \in ArrayStarts, NEW t \in Ticks, NEW p \in Prices, NEW spent \in BOOLEAN,
         SwapStep(a, t, p, spent)
  PROVE  Fits(TickReached(swap, t, p), p)
<1>1. t \in MIN_TICK..MAX_TICK /\ t \in Int  BY TicksType
<1>2. CASE p = SqrtPrice[t] /\ swap.zero_for_one
  <2>1. t - 1 \in MIN_TICK..MAX_TICK  BY <1>2, SwapStepBounds DEF FitInv
  <2>2. SqrtPrice[t - 1] <= SqrtPrice[t] /\ SqrtPrice[t] <= SqrtPrice[t]
    BY <1>1, <2>1, PriceFacts
  <2>3. (t - 1) + 1 = t /\ TickReached(swap, t, p) = t - 1  BY <1>1, <1>2 DEF TickReached
  <2> QED  BY <1>2, <2>2, <2>3 DEF Fits
<1>3. CASE p = SqrtPrice[t] /\ ~swap.zero_for_one
  <2>1. TickReached(swap, t, p) = t  BY <1>3 DEF TickReached
  <2>2. SqrtPrice[t] <= SqrtPrice[t]  BY <1>1, PriceFacts
  <2>3. t < MAX_TICK => SqrtPrice[t] <= SqrtPrice[t + 1]
    BY <1>1, PriceFacts, TickAssumption
  <2> QED  BY <1>3, <2>1, <2>2, <2>3 DEF Fits
<1>4. CASE p # SqrtPrice[t] /\ p # swap.sqrt_price
  BY <1>4, TickAtFits DEF TickReached
<1>5. CASE p # SqrtPrice[t] /\ p = swap.sqrt_price
  BY <1>5 DEF TickReached, FitInv, TickFitsPrice, SwapStep
<1> QED  BY <1>2, <1>3, <1>4, <1>5

LEMMA NextFits == FitInv /\ [Next]_vars => TickFitsPrice'
<1> SUFFICES ASSUME FitInv, [Next]_vars PROVE TickFitsPrice'  OBVIOUS
<1>1. CASE swap.phase = "idle" /\ UNCHANGED <<sqrt_price, tick_current, swap>>
  BY <1>1 DEF FitInv, TickFitsPrice, Fits
<1>2. ASSUME NEW zero_for_one \in BOOLEAN, NEW limit \in Prices,
             SwapBegin(zero_for_one, limit)
      PROVE  TickFitsPrice'
  BY <1>2 DEF SwapBegin, FitInv, TickFitsPrice, Fits, poolVars
<1>3. ASSUME NEW a \in ArrayStarts, NEW t \in Ticks, NEW p \in Prices,
             NEW spent \in BOOLEAN, SwapStep(a, t, p, spent)
      PROVE  TickFitsPrice'
  <2>1. Fits(TickReached(swap, t, p), p)  BY <1>3, StepFits
  <2>2. swap'.tick = TickReached(swap, t, p) /\ swap'.sqrt_price = p
    BY <1>3 DEF SwapStep, FitInv, TypeInv, TypeOK, SwapState
  <2> QED  BY <1>3, <2>1, <2>2 DEF SwapStep, FitInv, TickFitsPrice, Fits, poolVars
<1>4. CASE SwapEnd
  BY <1>4 DEF SwapEnd, FitInv, TickFitsPrice, Fits, IdleSwap
<1>5. CASE SwapAbort
  BY <1>5 DEF SwapAbort, FitInv, TickFitsPrice, Fits, IdleSwap, poolVars
<1>6. CASE UNCHANGED vars
  BY <1>6 DEF vars, poolVars, FitInv, TickFitsPrice, Fits
<1> QED  BY <1>1, <1>2, <1>3, <1>4, <1>5, <1>6, NextCases DEF FitInv

LEMMA FitInvariant == Spec => []FitInv
<1>1. Init => FitInv  BY InitType, InitFits DEF FitInv
<1>2. FitInv /\ [Next]_vars => FitInv'  BY NextType, NextFits DEF FitInv
<1> QED  BY <1>1, <1>2, PTL DEF Spec

(* The current tick always fits the current price, in the pool and at each *)
(* turn of the swap loop, whatever the table of prices.                    *)
THEOREM TickFits == Spec => []TickFitsPrice
<1>1. FitInv => TickFitsPrice  BY DEF FitInv
<1> QED  BY <1>1, FitInvariant, PTL

(* Every unfinished turn of the loop moves the tick on: with finitely many *)
(* ticks the loop ends.                                                    *)
THEOREM WalkTerminates == Spec => WalkAdvances
<1> DEFINE Advance ==
      swap.phase = "walking" /\ swap'.phase = "walking" =>
        IF swap.zero_for_one THEN swap'.tick < swap.tick ELSE swap'.tick > swap.tick
<1>1. FitInv /\ [Next]_vars => [Advance]_vars
  <2> SUFFICES ASSUME FitInv, Next, swap.phase = "walking", swap'.phase = "walking",
                      vars' # vars
               PROVE  IF swap.zero_for_one THEN swap'.tick < swap.tick
                                           ELSE swap'.tick > swap.tick
    BY DEF vars
  <2>1. PICK a \in ArrayStarts, t \in Ticks, p \in Prices, spent \in BOOLEAN :
          SwapStep(a, t, p, spent)
    BY NextCases DEF FitInv, SwapBegin, SwapEnd, SwapAbort, IdleSwap, vars
  <2>2. ~spent /\ p # swap.limit /\ p = Target(swap, t) /\ StepInOrder(swap, t)
    BY <2>1 DEF SwapStep, FitInv, TypeInv, TypeOK, SwapState
  <2>3. p = SqrtPrice[t]  BY <2>2 DEF Target
  <2>4. swap'.tick = IF swap.zero_for_one THEN t - 1 ELSE t
    BY <2>1, <2>3 DEF SwapStep, TickReached, FitInv, TypeInv, TypeOK, SwapState
  <2>5. t \in Int /\ swap.tick \in Int
    BY TicksType, TickAssumption DEF FitInv, TypeInv, TypeOK, SwapState
  <2> QED  BY <2>2, <2>4, <2>5 DEF StepInOrder
<1> QED  BY <1>1, FitInvariant, PTL DEF Spec, WalkAdvances

-----------------------------------------------------------------------------
(* The walk over tick arrays *)

(* Where the loop stands between two turns: in the array it has matched,   *)
(* or one tick below it after crossing its first tick downwards; or, until *)
(* it has matched one, before the first array of the bitmap ahead.         *)
Place(state) ==
  IF state.matched
  THEN \/ ArrayStart(state.tick) = state.array
       \/ state.zero_for_one /\ state.tick = state.array - 1
  ELSE /\ ArrayStart(state.tick) \notin tick_array_bitmap
       /\ Nearest(state.array,
                  Beyond(tick_array_bitmap, ArrayStart(state.tick), state.zero_for_one),
                  state.zero_for_one)
WalkPlace == swap.phase = "walking" => Place(swap)

WalkInv == IndexInv /\ WalkPlace

LEMMA ArrayStartFixed == \A a \in ArrayStarts : a \in Int /\ ArrayStart(a) = a
BY ArrayStartIdempotent, ArrayStartBounds, TickAssumption DEF ArrayStarts

(* After a turn that crosses its tick the loop stands in the array of that *)
(* tick, or one tick below.                                                *)
LEMMA CrossedPlace ==
  ASSUME TypeInv, NEW state \in SwapState, Place(state),
         NEW a \in ArrayStarts, NEW t \in Ticks, IsNextTick(state, a, t)
  PROVE  /\ ArrayStart(t) = a
         /\ state.matched \/ AheadInArray(state) = {}
         /\ LET tick == IF state.zero_for_one THEN t - 1 ELSE t
            IN  \/ ArrayStart(tick) = a
                \/ state.zero_for_one /\ tick = a - 1
<1> USE DEF TypeInv, TypeOK, SwapState
<1>4. t \in Int /\ ArrayStart(t) = a
  BY TicksType DEF IsNextTick, AheadInArray, InitializedIn, Ahead, Nearest
<1>5. state.matched \/ AheadInArray(state) = {}
  <2> SUFFICES ASSUME ~state.matched, AheadInArray(state) # {} PROVE FALSE  OBVIOUS
  <2>1. ArrayStart(state.tick) = state.array  BY DEF AheadInArray
  <2>2. state.array \in Beyond(tick_array_bitmap, ArrayStart(state.tick), state.zero_for_one)
    BY DEF Place, Nearest
  <2>3. ArrayStart(state.tick) \in Int
    BY ArrayStartBounds, TickAssumption
  <2> QED  BY <2>1, <2>2, <2>3 DEF Beyond
<1>6. state.zero_for_one => ArrayStart(t - 1) = a \/ t - 1 = a - 1
  <2>1. a \in Int /\ a <= t /\ t - 1 \in Int  BY <1>4, ArrayStartBounds
  <2>2. ArrayStart(t - 1) <= a  BY <1>4, <2>1, ArrayStartMonotone
  <2>3. a <= t - 1 => a <= ArrayStart(t - 1)
    BY <1>4, <2>1, ArrayStartGalois
  <2>4. ArrayStart(t - 1) \in Int  BY <2>1, ArrayStartBounds
  <2> QED  BY <1>4, <2>1, <2>2, <2>3, <2>4
<1> QED  BY <1>4, <1>5, <1>6

LEMMA WalkStepPlace ==
  ASSUME WalkInv,
         NEW a \in ArrayStarts, NEW t \in Ticks, NEW p \in Prices, NEW spent \in BOOLEAN,
         SwapStep(a, t, p, spent), swap'.phase = "walking"
  PROVE  /\ swap'.matched /\ swap'.array = a /\ swap'.zero_for_one = swap.zero_for_one
         /\ \/ ArrayStart(swap'.tick) = a
            \/ swap.zero_for_one /\ swap'.tick = a - 1
<1> USE DEF WalkInv, IndexInv, TypeInv, TypeOK, SwapState
<1>1. /\ ~spent /\ p # swap.limit /\ p = Target(swap, t) /\ IsNextTick(swap, a, t)
      /\ Place(swap)
  BY DEF SwapStep, WalkPlace
<1>2. p = SqrtPrice[t]  BY <1>1 DEF Target
<1>3. /\ swap'.tick = IF swap.zero_for_one THEN t - 1 ELSE t
      /\ swap'.array = a /\ swap'.zero_for_one = swap.zero_for_one
      /\ swap'.matched = (swap.matched \/ AheadInArray(swap) = {})
  BY <1>2 DEF SwapStep, TickReached
<1>4. TypeInv /\ swap \in SwapState  OBVIOUS
<1>5. /\ swap.matched \/ AheadInArray(swap) = {}
      /\ LET tick == IF swap.zero_for_one THEN t - 1 ELSE t
         IN  \/ ArrayStart(tick) = a
             \/ swap.zero_for_one /\ tick = a - 1
  BY <1>1, <1>4, CrossedPlace
<1>6. swap'.matched = TRUE
  BY <1>3, <1>5
<1> QED  BY <1>3, <1>5, <1>6

LEMMA NextPlace == WalkInv /\ TypeInv' /\ [Next]_vars => WalkPlace'
<1> SUFFICES ASSUME WalkInv, TypeInv', [Next]_vars PROVE WalkPlace'  OBVIOUS
<1>1. CASE swap.phase = "idle" /\ UNCHANGED <<sqrt_price, tick_current, swap>>
  BY <1>1 DEF WalkPlace, Place
<1>2. ASSUME NEW zero_for_one \in BOOLEAN, NEW limit \in Prices,
             SwapBegin(zero_for_one, limit)
      PROVE  WalkPlace'
  <2>1. PICK a \in ArrayStarts :
          /\ FirstArray(a, zero_for_one)
          /\ swap' = [phase |-> "walking", zero_for_one |-> zero_for_one, limit |-> limit,
                   sqrt_price |-> sqrt_price, tick |-> tick_current,
                   liquidity |-> liquidity, array |-> a,
                   matched |-> a = ArrayStart(tick_current)]
    BY <1>2 DEF SwapBegin
  <2>2. tick_array_bitmap' = tick_array_bitmap
    BY <1>2 DEF SwapBegin, bookVars, indexVars
  <2>3. ArrayStart(tick_current) \in Int
    BY ArrayStartBounds, TickAssumption DEF WalkInv, IndexInv, TypeInv, TypeOK
  <2>4. CASE a = ArrayStart(tick_current)
    BY <2>1, <2>4 DEF WalkPlace, Place
  <2>5. CASE a # ArrayStart(tick_current)
    <3>1. /\ ArrayStart(tick_current) \notin tick_array_bitmap
          /\ Nearest(a, Beyond(tick_array_bitmap, ArrayStart(tick_current), zero_for_one),
                     zero_for_one)
      BY <2>1, <2>5 DEF FirstArray
    <3>2. /\ swap'.tick = tick_current /\ swap'.array = a
          /\ swap'.zero_for_one = zero_for_one /\ ~swap'.matched
      BY <2>1, <2>5
    <3>3. Nearest(swap'.array,
                  Beyond(tick_array_bitmap', ArrayStart(swap'.tick), swap'.zero_for_one),
                  swap'.zero_for_one)
      BY <2>2, <3>1, <3>2
    <3> QED  BY <2>2, <3>1, <3>2, <3>3 DEF WalkPlace, Place
  <2> QED  BY <2>4, <2>5
<1>3. ASSUME NEW a \in ArrayStarts, NEW t \in Ticks, NEW p \in Prices,
             NEW spent \in BOOLEAN, SwapStep(a, t, p, spent)
      PROVE  WalkPlace'
  BY <1>3, WalkStepPlace DEF WalkPlace, Place
<1>4. CASE SwapEnd  BY <1>4 DEF SwapEnd, WalkPlace, Place, IdleSwap
<1>5. CASE SwapAbort  BY <1>5 DEF SwapAbort, WalkPlace, Place, IdleSwap
<1>6. CASE UNCHANGED vars
  BY <1>6 DEF vars, bookVars, indexVars, WalkInv, WalkPlace, Place
<1> QED  BY <1>1, <1>2, <1>3, <1>4, <1>5, <1>6, NextCases DEF WalkInv, IndexInv

LEMMA WalkInvariant == Spec => []WalkInv
<1>1. Init => WalkInv
  BY InitType, InitIndex DEF WalkInv, IndexInv, WalkPlace, Place, Init, IdleSwap
<1>2. WalkInv /\ [Next]_vars => WalkInv'
  BY NextType, NextIndex, NextPlace DEF WalkInv, IndexInv
<1> QED  BY <1>1, <1>2, PTL DEF Spec

(* The array past which the loop looks for its next one.                   *)
Base(state) == IF state.matched THEN state.array ELSE ArrayStart(state.tick)

(* Once the current array holds nothing more ahead, an initialized tick    *)
(* lies ahead exactly when its array does.                                 *)
LEMMA AheadIsBeyond ==
  ASSUME IndexInv, NEW state \in SwapState, Place(state), AheadInArray(state) = {},
         NEW v \in Initialized
  PROVE  v \in Ahead(Initialized, state.tick, state.zero_for_one)
         <=> ArrayStart(v) \in Beyond(tick_array_bitmap, Base(state), state.zero_for_one)
<1> USE DEF IndexInv, TypeInv, TypeOK, SwapState
<1> DEFINE T == state.tick
           A == state.array
<1>1. T \in Int /\ v \in Int /\ v \in Ticks /\ A \in ArrayStarts
  BY TickAssumption, TicksType DEF Initialized
<1>2. A \in Int /\ ArrayStart(A) = A  BY <1>1, ArrayStartFixed
<1>3. /\ ArrayStart(T) \in Int /\ ArrayStart(v) \in Int
      /\ ArrayStart(T) <= T /\ ArrayStart(v) <= v
  BY <1>1, ArrayStartBounds
<1>4. /\ v <= T => ArrayStart(v) <= ArrayStart(T)
      /\ T <= v => ArrayStart(T) <= ArrayStart(v)
      /\ A <= v => A <= ArrayStart(v)
  BY <1>1, <1>2, ArrayStartMonotone
<1>5. ArrayStart(v) \in tick_array_bitmap
  <2>1. v \in InitializedIn(ArrayStart(v)) /\ ArrayStart(v) \in ArrayStarts
    BY <1>1, TicksType, ArrayOfTick DEF InitializedIn
  <2> QED  BY <2>1 DEF ArrayIndexExact
<1>6. ArrayStart(T) = A => ~(v \in Ahead(Initialized, T, state.zero_for_one)
                             /\ ArrayStart(v) = A)
  BY DEF AheadInArray, Ahead, InitializedIn
<1>7. Place(state)  OBVIOUS
<1> HIDE DEF T, A
<1>8. CASE state.matched
  <2>1. Base(state) = A  BY <1>8 DEF Base, A
  <2>2. CASE state.zero_for_one
    <3>1. ArrayStart(T) = A \/ T = A - 1  BY <1>7, <1>8 DEF Place, T, A
    <3>2. v <= T <=> ArrayStart(v) < A
      BY <1>1, <1>2, <1>3, <1>4, <1>6, <2>2, <3>1 DEF Ahead
    <3> QED  BY <1>5, <2>1, <2>2, <3>2 DEF Ahead, Beyond, T
  <2>3. CASE ~state.zero_for_one
    <3>1. ArrayStart(T) = A  BY <1>7, <1>8, <2>3 DEF Place, T, A
    <3>2. v > T <=> ArrayStart(v) > A
      BY <1>1, <1>2, <1>3, <1>4, <1>6, <2>3, <3>1 DEF Ahead
    <3> QED  BY <1>5, <2>1, <2>3, <3>2 DEF Ahead, Beyond, T
  <2> QED  BY <2>2, <2>3
<1>9. CASE ~state.matched
  <2>1. Base(state) = ArrayStart(T) /\ ArrayStart(v) # ArrayStart(T)
    BY <1>5, <1>7, <1>9 DEF Base, T, Place
  <2>2. /\ v <= T <=> ArrayStart(v) < ArrayStart(T)
        /\ v > T <=> ArrayStart(v) > ArrayStart(T)
    BY <1>1, <1>3, <1>4, <2>1
  <2> QED  BY <1>5, <2>1, <2>2 DEF Ahead, Beyond, T
<1> QED  BY <1>8, <1>9

(* The tick that the loop goes to is the nearest of the whole pool.        *)
LEMMA WalkFinds ==
  ASSUME IndexInv, NEW state \in SwapState, Place(state), NEW t \in Ticks
  PROVE  Nearest(t, Ahead(Initialized, state.tick, state.zero_for_one), state.zero_for_one)
         <=> \E a \in ArrayStarts : IsNextTick(state, a, t)
<1> DEFINE z == state.zero_for_one
           T == state.tick
           ahead == Ahead(Initialized, T, z)
           beyond == Beyond(tick_array_bitmap, Base(state), z)
<1>1. z \in BOOLEAN /\ T \in Int /\ state.array \in ArrayStarts
  BY TickAssumption DEF IndexInv, TypeInv, TypeOK, SwapState
<1>2. \A u \in Ticks : u \in Int /\ ArrayStart(u) \in Int /\ ArrayStart(u) \in ArrayStarts
  BY TicksType, ArrayStartBounds, ArrayOfTick
<1>3. \A u, v \in Ticks : u <= v => ArrayStart(u) <= ArrayStart(v)
  BY <1>2, ArrayStartMonotone
<1>4. Initialized \subseteq Ticks /\ ahead \subseteq Initialized
  BY DEF Initialized, Ahead
<1>5. CASE AheadInArray(state) # {}
  <2>1. /\ ArrayStart(T) = state.array
        /\ AheadInArray(state) = {u \in ahead : ArrayStart(u) = state.array}
    BY <1>5 DEF AheadInArray, InitializedIn, Ahead
  <2>2. PICK w \in AheadInArray(state) : TRUE  BY <1>5
  <2>3. w \in ahead /\ ArrayStart(w) = state.array /\ w \in Ticks
    BY <1>4, <2>1, <2>2
  <2>4. /\ \A u \in Ticks : T <= u => ArrayStart(T) <= ArrayStart(u)
        /\ \A u \in Ticks : u <= T => ArrayStart(u) <= ArrayStart(T)
    BY <1>1, <1>2, ArrayStartMonotone
  <2>5. ASSUME Nearest(t, ahead, z) PROVE IsNextTick(state, state.array, t)
    <3>1. ArrayStart(t) = state.array
      <4>1. CASE z
        <5>1. w <= t /\ t <= T  BY <2>3, <2>5, <4>1 DEF Nearest, Ahead
        <5>2. ArrayStart(w) <= ArrayStart(t) /\ ArrayStart(t) <= ArrayStart(T)
          BY <1>3, <2>3, <2>4, <5>1
        <5> QED  BY <1>2, <2>1, <2>3, <5>2
      <4>2. CASE ~z
        <5>1. t <= w /\ T < t  BY <2>3, <2>5, <4>2 DEF Nearest, Ahead
        <5>2. ArrayStart(t) <= ArrayStart(w) /\ ArrayStart(T) <= ArrayStart(t)
          BY <1>1, <1>2, <1>3, <2>3, <2>4, <5>1
        <5> QED  BY <1>2, <2>1, <2>3, <5>2
      <4> QED  BY <4>1, <4>2
    <3> QED  BY <1>5, <2>1, <2>5, <3>1 DEF IsNextTick, Nearest
  <2>6. ASSUME NEW a \in ArrayStarts, IsNextTick(state, a, t) PROVE Nearest(t, ahead, z)
    <3>1. Nearest(t, AheadInArray(state), z)  BY <1>5, <2>6 DEF IsNextTick
    <3>2. t \in ahead /\ ArrayStart(t) = state.array  BY <2>1, <3>1 DEF Nearest
    <3>3. ASSUME NEW u \in ahead PROVE IF z THEN u <= t ELSE t <= u
      <4>1. CASE ArrayStart(u) = state.array
        BY <2>1, <3>1, <3>3, <4>1 DEF Nearest
      <4>2. CASE ArrayStart(u) # state.array
        <5>1. u \in Ticks /\ ArrayStart(u) # ArrayStart(t)  BY <1>4, <3>2, <4>2
        <5>2. CASE z
          <6>1. ArrayStart(u) <= ArrayStart(t)
            BY <2>1, <2>4, <3>2, <5>1, <5>2 DEF Ahead
          <6>2. ~(t <= u)  BY <1>2, <1>3, <5>1, <6>1
          <6> QED  BY <1>2, <5>1, <5>2, <6>2
        <5>3. CASE ~z
          <6>1. T < u  BY <5>3 DEF Ahead
          <6>2. ArrayStart(t) <= ArrayStart(u)
            BY <1>1, <1>2, <2>1, <2>4, <3>2, <5>1, <6>1
          <6>3. ~(u <= t)  BY <1>2, <1>3, <5>1, <6>2
          <6> QED  BY <1>2, <5>1, <5>3, <6>3
        <5> QED  BY <5>2, <5>3
      <4> QED  BY <4>1, <4>2
    <3> QED  BY <3>2, <3>3 DEF Nearest
  <2> QED  BY <1>1, <2>5, <2>6
<1>6. CASE AheadInArray(state) = {}
  <2>1. \A v \in Initialized : v \in ahead <=> ArrayStart(v) \in beyond
    BY <1>6, AheadIsBeyond
  <2>2. \A b \in beyond : b \in Int /\ \E v \in Initialized : ArrayStart(v) = b
    <3>1. \A b \in tick_array_bitmap : b \in Int /\ InitializedIn(b) # {}
      BY ArrayStartsInt DEF IndexInv, ArrayIndexExact
    <3> QED  BY <3>1 DEF Beyond, InitializedIn
  <2>3. ASSUME NEW a \in ArrayStarts
        PROVE  IsNextTick(state, a, t) <=> Nearest(a, beyond, z) /\ Nearest(t, InitializedIn(a), z)
    <3>1. CASE state.matched  BY <1>6, <3>1 DEF IsNextTick, Base
    <3>2. CASE ~state.matched
      <4>1. Nearest(state.array, beyond, z)
        BY <3>2 DEF Place, Base
      <4>2. Nearest(a, beyond, z) <=> a = state.array
        BY <2>2, <4>1 DEF Nearest
      <4> QED  BY <1>6, <3>2, <4>2 DEF IsNextTick
    <3> QED  BY <3>1, <3>2
  <2> HIDE DEF z, T, ahead, beyond
  <2>4. ASSUME Nearest(t, ahead, z) PROVE IsNextTick(state, ArrayStart(t), t)
    <3>1. t \in Initialized /\ ArrayStart(t) \in beyond /\ ArrayStart(t) \in ArrayStarts
      BY <1>2, <1>4, <2>1, <2>4 DEF Nearest
    <3>2. \A v \in Initialized : ArrayStart(v) \in beyond => IF z THEN v <= t ELSE t <= v
      BY <2>1, <2>4 DEF Nearest
    <3>3. Nearest(t, InitializedIn(ArrayStart(t)), z)
      BY <3>1, <3>2 DEF Nearest, InitializedIn
    <3>4. Nearest(ArrayStart(t), beyond, z)
      BY <1>3, <1>4, <2>2, <3>1, <3>2 DEF Nearest
    <3> QED  BY <2>3, <3>1, <3>3, <3>4
  <2>5. ASSUME NEW a \in ArrayStarts, IsNextTick(state, a, t) PROVE Nearest(t, ahead, z)
    <3>1. Nearest(a, beyond, z) /\ Nearest(t, InitializedIn(a), z)  BY <2>3, <2>5
    <3>2. t \in Initialized /\ ArrayStart(t) = a /\ a \in beyond
      BY <3>1 DEF Nearest, InitializedIn
    <3>3. t \in ahead  BY <2>1, <3>2
    <3>4. ASSUME NEW u \in ahead PROVE IF z THEN u <= t ELSE t <= u
      <4>1. u \in Initialized /\ ArrayStart(u) \in beyond /\ u \in Ticks
        BY <1>4, <2>1
      <4>2. CASE ArrayStart(u) = a
        BY <3>1, <4>1, <4>2 DEF Nearest, InitializedIn
      <4>3. CASE ArrayStart(u) # a
        <5>1. IF z THEN ArrayStart(u) <= a ELSE a <= ArrayStart(u)
          BY <3>1, <4>1 DEF Nearest
        <5> QED  BY <1>2, <1>3, <1>4, <3>2, <4>1, <4>3, <5>1
      <4> QED  BY <4>2, <4>3
    <3> QED  BY <3>3, <3>4 DEF Nearest
  <2> QED  BY <1>2, <2>4, <2>5 DEF z, ahead, T
<1> QED  BY <1>5, <1>6

LEMMA WalkExact == WalkInv => WalkSkipsNoTick
<1> SUFFICES ASSUME WalkInv, swap.phase = "walking" PROVE WalkSkipsNoTick
  BY DEF WalkSkipsNoTick
<1>1. IndexInv /\ swap \in SwapState /\ Place(swap)
  BY DEF WalkInv, IndexInv, WalkPlace, TypeInv, TypeOK
<1> QED  BY <1>1, WalkFinds DEF WalkSkipsNoTick

(* The loop never skips an initialized tick, nor finds one that is not     *)
(* there, whatever the spacing, the array size and the set of ticks.       *)
THEOREM WalkIsExact == Spec => []WalkSkipsNoTick
BY WalkInvariant, WalkExact, PTL

-----------------------------------------------------------------------------
(* Sums over positions *)

Positions == [Nft -> Position \cup {NoPosition}]
Sum(pos, S) == Cardinality(Units(pos, S))

LEMMA UnitsFinite ==
  ASSUME NEW pos, NEW S \in SUBSET Nft
  PROVE  IsFiniteSet(Units(pos, S)) /\ Sum(pos, S) \in Nat
<1>1. IsFiniteSet(S) /\ IsFiniteSet(1..MaxLiquidity)
  BY NftAssumption, LiquidityAssumption, FS_Subset, FS_Interval
<1>2. IsFiniteSet(S \X (1..MaxLiquidity))  BY <1>1, FS_Product
<1>3. Units(pos, S) \subseteq S \X (1..MaxLiquidity)  BY DEF Units
<1>4. IsFiniteSet(Units(pos, S))  BY <1>2, <1>3, FS_Subset
<1> QED  BY <1>4, FS_CardinalityType DEF Sum

LEMMA SumMonotone ==
  ASSUME NEW pos, NEW S \in SUBSET Nft, NEW T \in SUBSET S
  PROVE  Sum(pos, T) <= Sum(pos, S)
<1>1. Units(pos, T) \subseteq Units(pos, S)  BY DEF Units
<1> QED  BY <1>1, UnitsFinite, FS_Subset DEF Sum

LEMMA SumUnion ==
  ASSUME NEW pos, NEW S \in SUBSET Nft, NEW T \in SUBSET Nft, S \cap T = {}
  PROVE  Sum(pos, S \cup T) = Sum(pos, S) + Sum(pos, T)
<1>1. Units(pos, S \cup T) = Units(pos, S) \cup Units(pos, T)  BY DEF Units
<1>2. Units(pos, S) \cap Units(pos, T) = {}  BY DEF Units
<1>3. IsFiniteSet(Units(pos, S)) /\ IsFiniteSet(Units(pos, T))  BY UnitsFinite
<1>4. Cardinality(Units(pos, S) \cup Units(pos, T)) =
        Cardinality(Units(pos, S)) + Cardinality(Units(pos, T))
          - Cardinality(Units(pos, S) \cap Units(pos, T))
  BY <1>3, FS_Union
<1>5. Cardinality(Units(pos, S) \cap Units(pos, T)) = 0  BY <1>2, FS_EmptySet
<1>6. Sum(pos, S) \in Nat /\ Sum(pos, T) \in Nat  BY UnitsFinite
<1>7. Sum(pos, S \cup T) = Sum(pos, S) + Sum(pos, T)
                             - Cardinality(Units(pos, S) \cap Units(pos, T))
  BY <1>1, <1>4 DEF Sum
<1> QED  BY <1>5, <1>6, <1>7

LEMMA SumSingle ==
  ASSUME NEW pos, NEW n \in Nft, pos[n].liquidity \in 0..MaxLiquidity
  PROVE  Sum(pos, {n}) = pos[n].liquidity
<1> DEFINE l == pos[n].liquidity
           f == [i \in 1..l |-> <<n, i>>]
<1>1. l \in Nat /\ l <= MaxLiquidity  BY LiquidityAssumption
<1>2. Units(pos, {n}) = {<<n, i>> : i \in 1..l}
  BY <1>1, LiquidityAssumption DEF Units
<1>3. f \in Bijection(1..l, Units(pos, {n}))
  <2>1. f \in [1..l -> Units(pos, {n})]  BY <1>2
  <2>2. \A i, j \in 1..l : f[i] = f[j] => i = j  OBVIOUS
  <2>3. \A u \in Units(pos, {n}) : \E i \in 1..l : f[i] = u  BY <1>2
  <2> QED  BY <2>1, <2>2, <2>3 DEF Bijection, Injection, Surjection, IsInjective
<1>4. ExistsBijection(1..l, Units(pos, {n}))  BY <1>3 DEF ExistsBijection
<1>5. IsFiniteSet(1..l) /\ Cardinality(1..l) = l
  <2> HIDE DEF l, f
  <2>1. l \in Int /\ 1 \in Int  BY <1>1
  <2>2. IsFiniteSet(1..l) /\ Cardinality(1..l) = IF 1 > l THEN 0 ELSE l - 1 + 1
    BY <2>1, FS_Interval
  <2> QED  BY <1>1, <2>2
<1> QED  BY <1>4, <1>5, FS_Bijection DEF Sum

LEMMA SumEqual ==
  ASSUME NEW pos1, NEW pos2, NEW S, \A n \in S : pos1[n].liquidity = pos2[n].liquidity
  PROVE  Sum(pos1, S) = Sum(pos2, S)
<1>1. Units(pos1, S) = Units(pos2, S)  BY DEF Units
<1> QED  BY <1>1 DEF Sum

(* The open positions whose range lies in a set of ranges.                 *)
Within(pos, Q) ==
  {n \in Nft : pos[n] # NoPosition /\ <<pos[n].lower, pos[n].upper>> \in Q}

(* What one position holds in range r.                                     *)
Holds(pos, n, r, l) ==
  \/ pos[n] = NoPosition /\ l = 0
  \/ pos[n] # NoPosition /\ <<pos[n].lower, pos[n].upper>> = r /\ pos[n].liquidity = l

(* One position changes its liquidity within its range, or is opened or    *)
(* closed: every sum over ranges changes by the difference, or not at all. *)
LEMMA SumChange ==
  ASSUME NEW pos \in Positions, NEW pos2 \in Positions, NEW n \in Nft, NEW r,
         NEW l \in Nat, NEW l2 \in Nat, Holds(pos, n, r, l), Holds(pos2, n, r, l2),
         \A m \in Nft : m # n => pos2[m] = pos[m],
         NEW Q
  PROVE  Sum(pos2, Within(pos2, Q)) =
           IF r \in Q THEN Sum(pos, Within(pos, Q)) + (l2 - l)
                      ELSE Sum(pos, Within(pos, Q))
<1> DEFINE S == Within(pos, Q) \ {n}
<1>1. S = Within(pos2, Q) \ {n} /\ S \subseteq Nft /\ n \notin S
  BY DEF Within
<1>2. Sum(pos2, S) = Sum(pos, S)  BY <1>1, SumEqual
<1>3. ASSUME NEW p \in Positions, NEW k \in Nat, Holds(p, n, r, k),
             S = Within(p, Q) \ {n}
      PROVE  Sum(p, Within(p, Q)) = IF r \in Q THEN Sum(p, S) + k ELSE Sum(p, S)
  <2>1. CASE n \in Within(p, Q)
    <3>1. p[n].liquidity = k /\ k \in 0..MaxLiquidity /\ r \in Q
      BY <1>3, <2>1 DEF Within, Holds, Positions, Position
    <3>2. Within(p, Q) = S \cup {n}  BY <1>3, <2>1
    <3>3. Sum(p, S \cup {n}) = Sum(p, S) + Sum(p, {n})
      BY <1>1, SumUnion
    <3>4. Sum(p, {n}) = k  BY <3>1, SumSingle
    <3> QED  BY <3>1, <3>2, <3>3, <3>4
  <2>2. CASE n \notin Within(p, Q)
    <3>1. Within(p, Q) = S /\ (r \in Q => k = 0)
      BY <1>3, <2>2 DEF Within, Holds
    <3>2. Sum(p, S) \in Nat  BY <1>1, UnitsFinite
    <3> QED  BY <3>1, <3>2
  <2> QED  BY <2>1, <2>2
<1> HIDE DEF S
<1>4. /\ Sum(pos, Within(pos, Q)) = IF r \in Q THEN Sum(pos, S) + l ELSE Sum(pos, S)
      /\ Sum(pos2, Within(pos2, Q)) = IF r \in Q THEN Sum(pos2, S) + l2 ELSE Sum(pos2, S)
  BY <1>1, <1>3 DEF S
<1>5. Sum(pos, S) \in Nat  BY <1>1, UnitsFinite
<1> QED  BY <1>2, <1>4, <1>5

-----------------------------------------------------------------------------
(* The ledger *)

AllRanges == Ticks \X Ticks
Starts(t) == {r \in AllRanges : r[1] = t}
Ends(t)   == {r \in AllRanges : r[2] = t}
Covers(x) == {r \in AllRanges : r[1] <= x /\ x < r[2]}

(* The liquidity of the open positions whose range lies in Q.              *)
W(Q) == Sum(position, Within(position, Q))

LedgerSums ==
  /\ \A t \in Ticks : /\ liquidity_gross[t] = W(Starts(t)) + W(Ends(t))
                      /\ liquidity_net[t] = W(Starts(t)) - W(Ends(t))
  /\ \A r \in Ranges : protocol_liquidity[r] = W({r})
  /\ W(AllRanges) <= MaxLiquidity

LEMMA WType == \A Q : W(Q) \in Nat
BY UnitsFinite DEF W, Within

LEMMA WBridge ==
  ASSUME TypeInv
  PROVE  /\ \A t \in Ticks :
              /\ LiquidityOf({n \in Open : position[n].lower = t}) = W(Starts(t))
              /\ LiquidityOf({n \in Open : position[n].upper = t}) = W(Ends(t))
         /\ \A r \in Ranges :
              LiquidityOf({n \in Open : <<position[n].lower, position[n].upper>> = r}) = W({r})
         /\ \A x : LiquidityAt(x) = W(Covers(x))
         /\ LiquidityOf(Open) = W(AllRanges)
<1>1. \A n \in Open : position[n].lower \in Ticks /\ position[n].upper \in Ticks
  BY DEF TypeInv, TypeOK, Open, Position
<1>2. ASSUME NEW t \in Ticks
      PROVE  /\ {n \in Open : position[n].lower = t} = Within(position, Starts(t))
             /\ {n \in Open : position[n].upper = t} = Within(position, Ends(t))
  BY <1>1 DEF Within, Starts, Ends, Open, AllRanges
<1>3. ASSUME NEW r \in Ranges
      PROVE  {n \in Open : <<position[n].lower, position[n].upper>> = r}
               = Within(position, {r})
  BY DEF Within, Open
<1>4. ASSUME NEW x
      PROVE  {n \in Open : position[n].lower <= x /\ x < position[n].upper}
               = Within(position, Covers(x))
  BY <1>1 DEF Within, Covers, Open, AllRanges
<1>5. Open = Within(position, AllRanges)
  BY <1>1 DEF Within, Open, AllRanges
<1> QED  BY <1>2, <1>3, <1>4, <1>5 DEF LiquidityOf, LiquidityAt, W, Sum

LEMMA LedgerBridge ==
  ASSUME TypeInv
  PROVE  /\ LedgerSums <=> LedgerAgrees /\ LiquidityOf(Open) <= MaxLiquidity
         /\ ActiveLiquidity <=> liquidity = W(Covers(tick_current))
         /\ WalkLiquidity <=> (swap.phase # "idle" => swap.liquidity = W(Covers(swap.tick)))
BY WBridge DEF LedgerSums, LedgerAgrees, ActiveLiquidity, WalkLiquidity

ActiveSum == liquidity = W(Covers(tick_current))
WalkSum == swap.phase # "idle" => swap.liquidity = W(Covers(swap.tick))

BookInv == WalkInv /\ FitInv /\ LedgerSums /\ ActiveSum /\ WalkSum

(* The same sums in the next state.                                        *)
WNext(Q) == Sum(position', Within(position', Q))

LEMMA WPrime ==
  /\ \A t \in Ticks : W(Starts(t))' = WNext(Starts(t)) /\ W(Ends(t))' = WNext(Ends(t))
  /\ \A r \in Ranges : W({r})' = WNext({r})
  /\ W(AllRanges)' = WNext(AllRanges)
  /\ W(Covers(tick_current))' = WNext(Covers(tick_current'))
BY DEF W, WNext, Sum, Units, Within, Starts, Ends, Covers, AllRanges

(* What an instruction other than a swap does to the sums.                 *)
LEMMA WChange ==
  ASSUME TypeInv, TypeInv', NEW n \in Nft, NEW r, NEW l \in Nat, NEW l2 \in Nat,
         Holds(position, n, r, l), Holds(position', n, r, l2),
         \A m \in Nft : m # n => position'[m] = position[m],
         NEW Q
  PROVE  /\ WNext(Q) = IF r \in Q THEN W(Q) + (l2 - l) ELSE W(Q)
         /\ WNext(Q) \in Nat
<1>1. position \in Positions /\ position' \in Positions
  BY DEF TypeInv, TypeOK, Positions
<1>2. Sum(position', Within(position', Q)) =
           IF r \in Q THEN Sum(position, Within(position, Q)) + (l2 - l)
                      ELSE Sum(position, Within(position, Q))
  BY <1>1, SumChange
<1>3. Within(position', Q) \subseteq Nft  BY DEF Within
<1>4. WNext(Q) \in Nat  BY <1>3, UnitsFinite DEF WNext
<1> QED  BY <1>2, <1>4 DEF W, WNext

LEMMA ModifySums ==
  ASSUME BookInv, TypeInv', swap.phase = "idle",
         NEW n \in Nft, NEW lower \in Ticks, NEW upper \in Ticks, lower < upper,
         NEW l \in Nat, NEW l2 \in Nat,
         Holds(position, n, <<lower, upper>>, l), Holds(position', n, <<lower, upper>>, l2),
         \A m \in Nft : m # n => position'[m] = position[m],
         l2 - l <= 0 \/ W(AllRanges) + (l2 - l) <= MaxLiquidity,
         \/ ModifyPosition(lower, upper, l2 - l)
         \/ l2 = l /\ UNCHANGED <<bookVars, poolVars, swap>>
  PROVE  LedgerSums' /\ ActiveSum' /\ WalkSum'
<1> DEFINE d == l2 - l
           rng == <<lower, upper>>
<1>1. d \in Int /\ lower # upper /\ lower \in Int /\ upper \in Int  BY TicksType
<1>2. TypeInv  BY DEF BookInv, FitInv
<1>3. \A Q : /\ WNext(Q) = IF rng \in Q THEN W(Q) + d ELSE W(Q)
             /\ WNext(Q) \in Nat
  BY <1>2, WChange
<1>4. rng \in Ranges /\ rng \in AllRanges /\ rng[1] = lower /\ rng[2] = upper
  BY DEF Ranges, AllRanges
<1>5. \A t \in Ticks : /\ rng \in Starts(t) <=> t = lower
                       /\ rng \in Ends(t) <=> t = upper
  BY <1>4 DEF Starts, Ends
<1>6. rng \in Covers(tick_current) <=> InRange(lower, upper, tick_current)
  BY <1>4 DEF Covers, InRange
<1>7. WalkSum'
  <2>1. swap' = swap  BY DEF ModifyPosition
  <2> QED  BY <2>1 DEF WalkSum
<1> USE DEF BookInv
<1>8. CASE ModifyPosition(lower, upper, d)
  <2>1. /\ liquidity_gross' = [liquidity_gross EXCEPT ![lower] = @ + d, ![upper] = @ + d]
        /\ liquidity_net' = NetAfter(lower, upper, d)
        /\ protocol_liquidity' = [protocol_liquidity EXCEPT ![rng] = @ + d]
        /\ liquidity' = IF InRange(lower, upper, tick_current) THEN liquidity + d ELSE liquidity
        /\ tick_current' = tick_current
    BY <1>8 DEF ModifyPosition
  <2>2. /\ liquidity_gross \in [Ticks -> 0..MaxLiquidity]
        /\ liquidity_net \in [Ticks -> Int]
        /\ protocol_liquidity \in [Ranges -> 0..MaxLiquidity]
    BY <1>2 DEF TypeInv, TypeOK
  <2> HIDE DEF d, rng
  <2>3. ASSUME NEW t \in Ticks
        PROVE  liquidity_gross'[t] = WNext(Starts(t)) + WNext(Ends(t))
    <3>1. liquidity_gross[t] = W(Starts(t)) + W(Ends(t))  BY DEF LedgerSums
    <3>2. W(Starts(t)) \in Nat /\ W(Ends(t)) \in Nat  BY WType
    <3>3. liquidity_gross'[t] = IF t \in {lower, upper} THEN liquidity_gross[t] + d
                                                      ELSE liquidity_gross[t]
      BY <1>1, <2>1, <2>2
    <3>4. /\ WNext(Starts(t)) = IF t = lower THEN W(Starts(t)) + d ELSE W(Starts(t))
          /\ WNext(Ends(t)) = IF t = upper THEN W(Ends(t)) + d ELSE W(Ends(t))
      <4>1. WNext(Starts(t)) = IF rng \in Starts(t) THEN W(Starts(t)) + d ELSE W(Starts(t))
        BY <1>3
      <4>2. WNext(Ends(t)) = IF rng \in Ends(t) THEN W(Ends(t)) + d ELSE W(Ends(t))
        BY <1>3
      <4>3. rng \in Starts(t) <=> t = lower  BY <1>5
      <4>4. rng \in Ends(t) <=> t = upper  BY <1>5
      <4> QED  BY <4>1, <4>2, <4>3, <4>4
    <3> QED  BY <1>1, <3>1, <3>2, <3>3, <3>4
  <2>4. ASSUME NEW t \in Ticks
        PROVE  liquidity_net'[t] = WNext(Starts(t)) - WNext(Ends(t))
    <3>1. /\ liquidity_net[t] = W(Starts(t)) - W(Ends(t))
          /\ liquidity_gross[t] = W(Starts(t)) + W(Ends(t))
      BY DEF LedgerSums
    <3>2. W(Starts(t)) \in Nat /\ W(Ends(t)) \in Nat  BY WType
    <3>3. WNext(Starts(t)) \in Nat /\ WNext(Ends(t)) \in Nat  BY <1>3
    <3>4. /\ WNext(Starts(t)) = IF t = lower THEN W(Starts(t)) + d ELSE W(Starts(t))
          /\ WNext(Ends(t)) = IF t = upper THEN W(Ends(t)) + d ELSE W(Ends(t))
      <4>1. WNext(Starts(t)) = IF rng \in Starts(t) THEN W(Starts(t)) + d ELSE W(Starts(t))
        BY <1>3
      <4>2. WNext(Ends(t)) = IF rng \in Ends(t) THEN W(Ends(t)) + d ELSE W(Ends(t))
        BY <1>3
      <4>3. rng \in Starts(t) <=> t = lower  BY <1>5
      <4>4. rng \in Ends(t) <=> t = upper  BY <1>5
      <4> QED  BY <4>1, <4>2, <4>3, <4>4
    <3>5. liquidity_net'[t] =
            IF t \in {lower, upper} /\ d < 0 /\ Flipped(t, d) THEN 0
            ELSE IF t = lower THEN liquidity_net[t] + d
            ELSE IF t = upper THEN liquidity_net[t] - d
            ELSE liquidity_net[t]
      BY <1>1, <2>1, <2>2 DEF NetAfter
    <3>6. CASE t \in {lower, upper} /\ d < 0 /\ Flipped(t, d)
      <4>1. liquidity_gross[t] + d = 0
        <5>1. liquidity_gross[t] # 0 => liquidity_gross[t] + d = 0
          BY <3>6 DEF Flipped
        <5>2. liquidity_gross[t] = 0 => liquidity_gross[t] + d # 0
          BY <3>6 DEF Flipped
        <5>3. t \in {lower, upper} => liquidity_gross[t] + d \in 0..MaxLiquidity
          BY <1>8 DEF ModifyPosition, AddDeltaOk
        <5> QED  BY <1>1, <2>2, <3>6, <5>1, <5>3, LiquidityAssumption
      <4>2. WNext(Starts(t)) + WNext(Ends(t)) = 0
        BY <1>1, <3>1, <3>2, <3>4, <3>6, <4>1
      <4> QED  BY <3>3, <3>5, <3>6, <4>2
    <3>7. CASE ~(t \in {lower, upper} /\ d < 0 /\ Flipped(t, d))
      BY <1>1, <3>1, <3>2, <3>4, <3>5, <3>7
    <3> QED  BY <3>6, <3>7
  <2>5. ASSUME NEW r \in Ranges
        PROVE  protocol_liquidity'[r] = WNext({r})
    <3>1. protocol_liquidity[r] = W({r})  BY DEF LedgerSums
    <3>2. protocol_liquidity'[r] = IF r = rng THEN protocol_liquidity[r] + d
                                             ELSE protocol_liquidity[r]
      BY <1>4, <2>1, <2>2
    <3>3. WNext({r}) = IF r = rng THEN W({r}) + d ELSE W({r})  BY <1>3
    <3> QED  BY <3>1, <3>2, <3>3
  <2>6. WNext(AllRanges) <= MaxLiquidity
    <3>1. WNext(AllRanges) = W(AllRanges) + d  BY <1>3, <1>4
    <3>2. W(AllRanges) \in Nat /\ W(AllRanges) <= MaxLiquidity  BY WType DEF LedgerSums
    <3>3. d <= 0 \/ W(AllRanges) + d <= MaxLiquidity  BY DEF d
    <3> QED  BY <1>1, <3>1, <3>2, <3>3, LiquidityAssumption
  <2>7. ActiveSum'
    <3>1. W(Covers(tick_current))' = WNext(Covers(tick_current))
      BY <2>1, WPrime
    <3> QED  BY <1>3, <1>6, <2>1, <3>1 DEF ActiveSum
  <2>8. LedgerSums'  BY <2>3, <2>4, <2>5, <2>6, WPrime DEF LedgerSums
  <2> QED  BY <1>7, <2>7, <2>8
<1>9. CASE l2 = l /\ UNCHANGED <<bookVars, poolVars, swap>>
  <2>1. \A Q : W(Q) \in Nat  BY WType
  <2>2. \A Q : WNext(Q) = W(Q)
    <3>1. d = 0  BY <1>9
    <3> HIDE DEF d
    <3> QED  BY <1>3, <2>1, <3>1
  <2>3. /\ UNCHANGED <<liquidity_gross, liquidity_net, protocol_liquidity>>
        /\ UNCHANGED <<liquidity, tick_current>>
    BY <1>9 DEF bookVars, tickVars, poolVars
  <2>4. LedgerSums'
    BY <2>2, <2>3, WPrime DEF LedgerSums
  <2>5. ActiveSum'
    BY <2>2, <2>3, WPrime DEF ActiveSum
  <2> QED  BY <1>7, <2>4, <2>5
<1> QED  BY <1>8, <1>9

-----------------------------------------------------------------------------
(* Walking and crossing *)

(* The ticks that positions with liquidity start or stop at are            *)
(* initialized.                                                            *)
LEMMA EndpointsInitialized ==
  ASSUME TypeInv, LedgerSums, NEW n \in Nft, position[n] # NoPosition,
         position[n].liquidity > 0
  PROVE  position[n].lower \in Initialized /\ position[n].upper \in Initialized
<1> DEFINE lo == position[n].lower
           up == position[n].upper
<1>1. position[n] \in Position  BY DEF TypeInv, TypeOK
<1>2. /\ lo \in Ticks /\ up \in Ticks
      /\ position[n].liquidity \in 0..MaxLiquidity
  BY <1>1 DEF Position
<1>3. n \in Within(position, Starts(lo)) /\ n \in Within(position, Ends(up))
  BY <1>2 DEF Within, Starts, Ends, AllRanges
<1>4. ASSUME NEW Q, n \in Within(position, Q) PROVE W(Q) > 0
  <2>1. {n} \subseteq Within(position, Q) /\ Within(position, Q) \subseteq Nft
    BY <1>4 DEF Within
  <2>2. Sum(position, {n}) <= Sum(position, Within(position, Q))  BY <2>1, SumMonotone
  <2>3. Sum(position, {n}) = position[n].liquidity  BY <1>2, SumSingle
  <2>4. W(Q) \in Nat  BY WType
  <2> QED  BY <1>2, <2>2, <2>3, <2>4, LiquidityAssumption DEF W
<1>5. W(Starts(lo)) > 0 /\ W(Ends(up)) > 0  BY <1>3, <1>4
<1>6. /\ W(Starts(lo)) \in Nat /\ W(Ends(lo)) \in Nat
      /\ W(Starts(up)) \in Nat /\ W(Ends(up)) \in Nat
  BY WType
<1>7. /\ liquidity_gross[lo] = W(Starts(lo)) + W(Ends(lo))
      /\ liquidity_gross[up] = W(Starts(up)) + W(Ends(up))
  BY <1>2 DEF LedgerSums
<1> QED  BY <1>2, <1>5, <1>6, <1>7 DEF Initialized

(* Between two ticks with no initialized tick in between the liquidity in  *)
(* range stays the same.                                                   *)
LEMMA NothingBetween ==
  ASSUME TypeInv, LedgerSums, NEW x \in Int, NEW y \in Int, x <= y,
         \A t \in Initialized : ~(x < t /\ t <= y)
  PROVE  W(Covers(x)) = W(Covers(y))
<1>1. ASSUME NEW n \in Nft, position[n] # NoPosition, position[n].liquidity > 0
      PROVE  n \in Within(position, Covers(x)) <=> n \in Within(position, Covers(y))
  <2>1. position[n] \in Position  BY <1>1 DEF TypeInv, TypeOK
  <2>2. /\ position[n].lower \in Ticks /\ position[n].lower \in Int
        /\ position[n].upper \in Ticks /\ position[n].upper \in Int
    BY <2>1, TicksType DEF Position
  <2>3. position[n].lower \in Initialized /\ position[n].upper \in Initialized
    BY <1>1, EndpointsInitialized
  <2>4. /\ position[n].lower <= x <=> position[n].lower <= y
        /\ x < position[n].upper <=> y < position[n].upper
    BY <2>2, <2>3
  <2> QED  BY <1>1, <2>2, <2>4 DEF Within, Covers, AllRanges
<1>2. Units(position, Within(position, Covers(x))) = Units(position, Within(position, Covers(y)))
  <2>1. ASSUME NEW a, NEW b,
               \A n \in Nft : position[n] # NoPosition /\ position[n].liquidity > 0 =>
                 (n \in Within(position, Covers(a)) => n \in Within(position, Covers(b)))
        PROVE  Units(position, Within(position, Covers(a)))
                 \subseteq Units(position, Within(position, Covers(b)))
    <3> SUFFICES ASSUME NEW u \in Units(position, Within(position, Covers(a)))
                 PROVE  u \in Units(position, Within(position, Covers(b)))
      OBVIOUS
    <3>1. /\ u \in Within(position, Covers(a)) \X (1..MaxLiquidity)
          /\ u[2] <= position[u[1]].liquidity
      BY DEF Units
    <3>2. u[1] \in Nft /\ position[u[1]] # NoPosition /\ u[1] \in Within(position, Covers(a))
      BY <3>1 DEF Within
    <3>3. position[u[1]] \in Position  BY <3>2 DEF TypeInv, TypeOK
    <3>4. position[u[1]].liquidity \in Int  BY <3>3, LiquidityAssumption DEF Position
    <3>5. position[u[1]].liquidity > 0  BY <3>1, <3>4
    <3>6. u[1] \in Within(position, Covers(b))  BY <2>1, <3>2, <3>5
    <3> QED  BY <3>1, <3>6 DEF Units
  <2> QED  BY <1>1, <2>1
<1> QED  BY <1>2 DEF W, Sum

(* Stepping over tick t changes the liquidity in range by its net.         *)
LEMMA Crossing ==
  ASSUME TypeInv, LedgerSums, NEW t \in Ticks
  PROVE  W(Covers(t)) = W(Covers(t - 1)) + liquidity_net[t]
<1>1. t \in Int  BY TicksType
<1>2. ASSUME NEW n \in Nft, position[n] # NoPosition
      PROVE  /\ position[n].lower \in Ticks /\ position[n].upper \in Ticks
             /\ position[n].lower \in Int /\ position[n].upper \in Int
             /\ position[n].lower < position[n].upper
  <2>1. position[n] \in Position /\ position[n].lower < position[n].upper
    BY <1>2 DEF TypeInv, TypeOK, RangeOrdered
  <2> QED  BY <2>1, TicksType DEF Position
<1> DEFINE C == Within(position, Covers(t))
           D == Within(position, Covers(t - 1))
           F == Within(position, Starts(t))
           E == Within(position, Ends(t))
<1>3. C \subseteq Nft /\ D \subseteq Nft /\ E \subseteq Nft /\ F \subseteq Nft
  BY DEF Within
<1>4. ASSUME NEW n \in Nft, position[n] # NoPosition
      PROVE  /\ n \in C <=> position[n].lower <= t /\ t < position[n].upper
             /\ n \in D <=> position[n].lower <= t - 1 /\ t - 1 < position[n].upper
             /\ n \in F <=> position[n].lower = t
             /\ n \in E <=> position[n].upper = t
  BY <1>2, <1>4 DEF Within, Covers, Starts, Ends, AllRanges
<1>5. \A n \in C \cup D \cup E \cup F : n \in Nft /\ position[n] # NoPosition
  BY DEF Within
<1> HIDE DEF C, D, E, F
<1>6. C \cap E = {} /\ D \cap F = {}
  BY <1>1, <1>2, <1>4, <1>5
<1>7. C \cup E = D \cup F
  BY <1>1, <1>2, <1>4, <1>5
<1>8. /\ Sum(position, C \cup E) = Sum(position, C) + Sum(position, E)
      /\ Sum(position, D \cup F) = Sum(position, D) + Sum(position, F)
  BY <1>3, <1>6, SumUnion
<1>9. liquidity_net[t] = Sum(position, F) - Sum(position, E)
  BY DEF LedgerSums, W, E, F
<1>10. /\ Sum(position, C) \in Nat /\ Sum(position, D) \in Nat
       /\ Sum(position, E) \in Nat /\ Sum(position, F) \in Nat
  BY <1>3, UnitsFinite
<1>11. Sum(position, C) + Sum(position, E) = Sum(position, D) + Sum(position, F)
  <2>1. Sum(position, C \cup E) = Sum(position, D \cup F)  BY <1>7
  <2> QED  BY <1>8, <2>1
<1>12. Sum(position, C) = Sum(position, D) + liquidity_net[t]
  BY <1>9, <1>10, <1>11
<1> QED  BY <1>12 DEF W, C, D

(* A swap state that agrees with the book, and a turn towards tick t that  *)
(* reaches price p.                                                        *)
OnBook(state) ==
  /\ Place(state) /\ Fits(state.tick, state.sqrt_price)
  /\ state.liquidity = W(Covers(state.tick))
Turns(state, a, t, p) ==
  /\ IsNextTick(state, a, t) /\ StepInOrder(state, t)
  /\ Between(p, state.sqrt_price, Target(state, t))

LEMMA SwapOnBook ==
  ASSUME BookInv, swap.phase = "walking"
  PROVE  swap \in SwapState /\ OnBook(swap)
BY DEF BookInv, FitInv, WalkInv, WalkPlace, WalkSum, TickFitsPrice, OnBook, TypeInv, TypeOK

LEMMA SwapTurns ==
  ASSUME NEW a, NEW t, NEW p, NEW spent, SwapStep(a, t, p, spent)
  PROVE  swap.phase = "walking" /\ Turns(swap, a, t, p)
BY DEF SwapStep, Turns

(* Where the walk goes next, and what it may do there.                     *)
LEMMA NextTickFacts ==
  ASSUME BookInv, NEW state \in SwapState, OnBook(state),
         NEW a \in ArrayStarts, NEW t \in Ticks, IsNextTick(state, a, t)
  PROVE  /\ t \in Initialized
         /\ IF state.zero_for_one
            THEN t <= state.tick /\ \A v \in Initialized : v <= state.tick => v <= t
            ELSE state.tick < t /\ \A v \in Initialized : state.tick < v => t <= v
<1>1. Nearest(t, Ahead(Initialized, state.tick, state.zero_for_one), state.zero_for_one)
  BY WalkFinds DEF BookInv, WalkInv, OnBook
<1>2. \A v \in Initialized : v \in Int  BY TicksType DEF Initialized
<1>3. state.tick \in Int
  BY TickAssumption DEF SwapState
<1> QED  BY <1>1, <1>2, <1>3 DEF Nearest, Ahead

LEMMA CrossedIs ==
  ASSUME BookInv, NEW state \in SwapState, OnBook(state),
         NEW a \in ArrayStarts, NEW t \in Ticks, IsNextTick(state, a, t)
  PROVE  /\ Crossed(state, t) = W(Covers(IF state.zero_for_one THEN t - 1 ELSE t))
         /\ AddDeltaOk(Crossed(state, t), 0)
<1> USE DEF BookInv, FitInv
<1>1. t \in Int /\ \A v \in Initialized : v \in Int
  BY TicksType DEF Initialized
<1>2. state.tick \in Int /\ state.liquidity \in Int /\ liquidity_net[t] \in Int
  BY TickAssumption DEF TypeInv, TypeOK, SwapState
<1>3. state.liquidity = W(Covers(state.tick))  BY DEF OnBook
<1>4. W(Covers(t)) = W(Covers(t - 1)) + liquidity_net[t]  BY Crossing
<1>5. \A x : W(Covers(x)) \in Nat /\ W(Covers(x)) <= MaxLiquidity
  <2> SUFFICES ASSUME NEW x
               PROVE  W(Covers(x)) \in Nat /\ W(Covers(x)) <= MaxLiquidity
    OBVIOUS
  <2>1. Within(position, Covers(x)) \subseteq Within(position, AllRanges)
    BY DEF Within, Covers
  <2>2. Within(position, AllRanges) \subseteq Nft  BY DEF Within
  <2>3. W(Covers(x)) <= W(AllRanges)  BY <2>1, <2>2, SumMonotone DEF W
  <2>4. W(Covers(x)) \in Nat /\ W(AllRanges) \in Nat  BY WType
  <2>5. W(AllRanges) <= MaxLiquidity  BY DEF LedgerSums
  <2> QED  BY <2>3, <2>4, <2>5, LiquidityAssumption
<1>6. CASE state.zero_for_one
  <2>1. W(Covers(t)) = W(Covers(state.tick))
    BY <1>1, <1>2, <1>6, NextTickFacts, NothingBetween
  <2>2. Crossed(state, t) = W(Covers(t - 1))
    BY <1>2, <1>3, <1>4, <1>5, <1>6, <2>1 DEF Crossed
  <2> QED  BY <1>5, <1>6, <2>2, LiquidityAssumption DEF AddDeltaOk
<1>7. CASE ~state.zero_for_one
  <2>1. state.tick <= t - 1 /\ \A v \in Initialized : ~(state.tick < v /\ v <= t - 1)
    BY <1>1, <1>2, <1>7, NextTickFacts
  <2>2. W(Covers(state.tick)) = W(Covers(t - 1))
    BY <1>1, <1>2, <2>1, NothingBetween
  <2>3. Crossed(state, t) = W(Covers(t))
    BY <1>2, <1>3, <1>4, <1>5, <1>7, <2>2 DEF Crossed
  <2> QED  BY <1>5, <1>7, <2>3, LiquidityAssumption DEF AddDeltaOk
<1> QED  BY <1>6, <1>7

(* A price short of the tick the turn heads for belongs to a tick between  *)
(* the swap's and that one.                                                *)
LEMMA StepShortOfTick ==
  ASSUME BookInv, NEW state \in SwapState, OnBook(state),
         NEW a \in ArrayStarts, NEW t \in Ticks, NEW p \in Prices,
         Turns(state, a, t, p), p # SqrtPrice[t], p # state.sqrt_price
  PROVE  /\ TickAt[p] \in Int
         /\ IF state.zero_for_one
            THEN t <= TickAt[p] /\ TickAt[p] <= state.tick
            ELSE state.tick <= TickAt[p] /\ TickAt[p] < t
<1> USE DEF BookInv, FitInv
<1>1. /\ IsNextTick(state, a, t) /\ StepInOrder(state, t)
      /\ Between(p, state.sqrt_price, Target(state, t))
  BY DEF Turns
<1>2. /\ t \in Int /\ t \in MIN_TICK..MAX_TICK
      /\ state.tick \in Int /\ state.tick \in MIN_TICK..MAX_TICK
  BY TicksType, TickAssumption DEF TypeInv, TypeOK, SwapState
<1> DEFINE s == TickAt[p]
<1>3. s \in MIN_TICK..MAX_TICK /\ s \in Int  BY PriceAssumption, TickAssumption
<1>4. SqrtPrice[s] <= p /\ (s < MAX_TICK => p < SqrtPrice[s + 1])
  BY PriceAssumption
<1>5. Fits(state.tick, state.sqrt_price)  BY DEF OnBook
<1>6. /\ p \in Nat /\ state.sqrt_price \in Nat /\ state.limit \in Nat
      /\ \A x \in MIN_TICK..MAX_TICK : SqrtPrice[x] \in Nat
  BY PriceFacts DEF TypeInv, TypeOK, SwapState
<1> HIDE DEF s
<1>7. \A x, y \in MIN_TICK..MAX_TICK : SqrtPrice[x] < SqrtPrice[y] => x < y
  BY <1>6, PriceFacts, TickAssumption
<1>8. CASE state.zero_for_one
  <2>1. SqrtPrice[t] < p /\ p < state.sqrt_price
    BY <1>1, <1>2, <1>6, <1>8 DEF StepInOrder, Between, Target
  <2>2. t <= s
    <3>1. CASE s = MAX_TICK  BY <1>2, <3>1, TickAssumption
    <3>2. CASE s < MAX_TICK
      <4>1. s + 1 \in MIN_TICK..MAX_TICK  BY <1>3, <3>2, TickAssumption
      <4>2. SqrtPrice[t] < SqrtPrice[s + 1]
        BY <1>2, <1>4, <1>6, <2>1, <3>2, <4>1
      <4>3. t < s + 1  BY <1>2, <1>7, <4>1, <4>2
      <4> QED  BY <1>2, <1>3, <4>3
    <3> QED  BY <1>3, <3>1, <3>2, TickAssumption
  <2>3. s <= state.tick
    <3>1. CASE state.tick = MAX_TICK  BY <1>3, <3>1, TickAssumption
    <3>2. CASE state.tick < MAX_TICK
      <4>1. state.tick + 1 \in MIN_TICK..MAX_TICK  BY <1>2, <3>2, TickAssumption
      <4>2. SqrtPrice[s] < SqrtPrice[state.tick + 1]
        BY <1>3, <1>4, <1>5, <1>6, <2>1, <3>2, <4>1 DEF Fits
      <4>3. s < state.tick + 1  BY <1>3, <1>7, <4>1, <4>2
      <4> QED  BY <1>2, <1>3, <4>3
    <3> QED  BY <1>2, <3>1, <3>2, TickAssumption
  <2> QED  BY <1>3, <1>8, <2>2, <2>3 DEF s
<1>9. CASE ~state.zero_for_one
  <2>1. state.sqrt_price < p /\ p < SqrtPrice[t]
    BY <1>1, <1>2, <1>6, <1>9 DEF StepInOrder, Between, Target
  <2>2. s < t  BY <1>2, <1>3, <1>4, <1>6, <1>7, <2>1
  <2>3. state.tick <= s
    <3>1. CASE s = MAX_TICK  BY <1>2, <3>1, TickAssumption
    <3>2. CASE s < MAX_TICK
      <4>1. s + 1 \in MIN_TICK..MAX_TICK  BY <1>3, <3>2, TickAssumption
      <4>2. SqrtPrice[state.tick] < SqrtPrice[s + 1]
        BY <1>2, <1>4, <1>5, <1>6, <2>1, <3>2, <4>1 DEF Fits
      <4>3. state.tick < s + 1  BY <1>2, <1>7, <4>1, <4>2
      <4> QED  BY <1>2, <1>3, <4>3
    <3> QED  BY <1>3, <3>1, <3>2, TickAssumption
  <2> QED  BY <1>3, <1>9, <2>2, <2>3 DEF s
<1> QED  BY <1>8, <1>9

(* A turn moves the tick over the initialized tick it heads for when it    *)
(* reaches its price, and over no other.                                   *)
LEMMA TurnOver ==
  ASSUME BookInv, NEW state \in SwapState, OnBook(state),
         NEW a \in ArrayStarts, NEW t \in Ticks, NEW p \in Prices,
         Turns(state, a, t, p), NEW v \in Initialized
  PROVE  (v <= TickReached(state, t, p)) <=>
           IF p = SqrtPrice[t] /\ v = t THEN ~(v <= state.tick) ELSE v <= state.tick
<1> USE DEF BookInv, FitInv
<1>1. IsNextTick(state, a, t)  BY DEF Turns
<1>2. /\ t \in Int /\ v \in Int /\ state.tick \in Int
  BY TicksType, TickAssumption DEF TypeInv, TypeOK, SwapState, Initialized
<1>3. IF state.zero_for_one
      THEN t <= state.tick /\ (v <= state.tick => v <= t)
      ELSE state.tick < t /\ (state.tick < v => t <= v)
  BY <1>1, NextTickFacts
<1>4. CASE p = SqrtPrice[t]
  <2>1. TickReached(state, t, p) = IF state.zero_for_one THEN t - 1 ELSE t
    BY <1>4 DEF TickReached
  <2> QED  BY <1>2, <1>3, <1>4, <2>1
<1>5. CASE p # SqrtPrice[t] /\ p = state.sqrt_price
  BY <1>5 DEF TickReached
<1>6. CASE p # SqrtPrice[t] /\ p # state.sqrt_price
  <2>1. TickReached(state, t, p) = TickAt[p]  BY <1>6 DEF TickReached
  <2> QED  BY <1>2, <1>3, <1>6, <2>1, StepShortOfTick
<1> QED  BY <1>4, <1>5, <1>6

LEMMA StepOver ==
  ASSUME BookInv,
         NEW a \in ArrayStarts, NEW t \in Ticks, NEW p \in Prices, NEW spent \in BOOLEAN,
         SwapStep(a, t, p, spent), NEW v \in Initialized
  PROVE  (v <= TickReached(swap, t, p)) <=>
           IF p = SqrtPrice[t] /\ v = t THEN ~(v <= swap.tick) ELSE v <= swap.tick
<1>1. swap.phase = "walking" /\ Turns(swap, a, t, p)  BY SwapTurns
<1>2. swap \in SwapState /\ OnBook(swap)  BY <1>1, SwapOnBook
<1> QED  BY <1>1, <1>2, TurnOver

(* A turn of the loop leaves the swap with the liquidity of its new tick.  *)
LEMMA TurnSum ==
  ASSUME BookInv, NEW state \in SwapState, OnBook(state),
         NEW a \in ArrayStarts, NEW t \in Ticks, NEW p \in Prices,
         Turns(state, a, t, p)
  PROVE  (IF p = SqrtPrice[t] THEN Crossed(state, t) ELSE state.liquidity)
           = W(Covers(TickReached(state, t, p)))
<1> USE DEF BookInv, FitInv
<1>1. IsNextTick(state, a, t)  BY DEF Turns
<1>2. /\ state.tick \in Int /\ \A v \in Initialized : v \in Int
  BY TicksType, TickAssumption DEF TypeInv, TypeOK, SwapState, Initialized
<1>3. state.liquidity = W(Covers(state.tick))  BY DEF OnBook
<1>4. CASE p = SqrtPrice[t]
  BY <1>1, <1>4, CrossedIs DEF TickReached
<1>5. CASE p # SqrtPrice[t] /\ p = state.sqrt_price
  BY <1>3, <1>5 DEF TickReached
<1>6. CASE p # SqrtPrice[t] /\ p # state.sqrt_price
  <2> DEFINE s == TickReached(state, t, p)
  <2>1. s = TickAt[p]  BY <1>6 DEF TickReached
  <2>2. /\ s \in Int
        /\ IF state.zero_for_one THEN s <= state.tick ELSE state.tick <= s
    BY <1>6, <2>1, StepShortOfTick
  <2>3. \A v \in Initialized : v <= s <=> v <= state.tick
    BY <1>6, TurnOver
  <2> HIDE DEF s
  <2>4. W(Covers(s)) = W(Covers(state.tick))
    BY <1>2, <2>2, <2>3, NothingBetween
  <2> QED  BY <1>3, <1>6, <2>4 DEF s
<1> QED  BY <1>4, <1>5, <1>6

LEMMA StepSum ==
  ASSUME BookInv,
         NEW a \in ArrayStarts, NEW t \in Ticks, NEW p \in Prices, NEW spent \in BOOLEAN,
         SwapStep(a, t, p, spent)
  PROVE  (IF p = SqrtPrice[t] THEN Crossed(swap, t) ELSE swap.liquidity)
           = W(Covers(TickReached(swap, t, p)))
<1>1. swap.phase = "walking" /\ Turns(swap, a, t, p)  BY SwapTurns
<1>2. swap \in SwapState /\ OnBook(swap)  BY <1>1, SwapOnBook
<1> QED  BY <1>1, <1>2, TurnSum

-----------------------------------------------------------------------------
(* The invariant *)

LEMMA InitSums == Init => LedgerSums /\ ActiveSum /\ WalkSum
<1> SUFFICES ASSUME Init PROVE LedgerSums /\ ActiveSum /\ WalkSum  OBVIOUS
<1>1. \A Q : Within(position, Q) = {}  BY DEF Init, Within
<1>2. Units(position, {}) = {}  BY DEF Units
<1>3. \A Q : W(Q) = 0  BY <1>1, <1>2, FS_EmptySet DEF W, Sum
<1> QED  BY <1>3, LiquidityAssumption DEF Init, LedgerSums, ActiveSum, WalkSum, IdleSwap

(* What the position of an instruction held, and what it holds after it.   *)
LEMMA HoldsOpen ==
  ASSUME TypeInv, NEW n \in Nft, position[n] # NoPosition
  PROVE  /\ position[n] \in Position
         /\ position[n].lower \in Ticks /\ position[n].upper \in Ticks
         /\ position[n].lower < position[n].upper
         /\ position[n].liquidity \in Nat
         /\ Holds(position, n, <<position[n].lower, position[n].upper>>, position[n].liquidity)
<1>1. position[n] \in Position /\ position[n].lower < position[n].upper
  BY DEF TypeInv, TypeOK, RangeOrdered
<1> QED  BY <1>1, LiquidityAssumption DEF Position, Holds

LEMMA NotAPosition == NoPosition \notin Position
BY NftAssumption DEF Position

LEMMA NextSums ==
  BookInv /\ TypeInv' /\ [Next]_vars => LedgerSums' /\ ActiveSum' /\ WalkSum'
<1> SUFFICES ASSUME BookInv, TypeInv', [Next]_vars
             PROVE  LedgerSums' /\ ActiveSum' /\ WalkSum'
  OBVIOUS
<1>0. TypeInv  BY DEF BookInv, FitInv
<1>1. ASSUME NEW n \in Nft, NEW lower \in Ticks, NEW upper \in Ticks,
             NEW amount \in NewLiquidity, OpenPosition(n, lower, upper, amount)
      PROVE  LedgerSums' /\ ActiveSum' /\ WalkSum'
  <2>1. amount \in Nat /\ amount - 0 = amount  BY DEF NewLiquidity
  <2>2. /\ lower < upper /\ swap.phase = "idle" /\ position[n] = NoPosition
        /\ AddLiquidity(lower, upper, amount)
        /\ position' = [position EXCEPT
             ![n] = [lower |-> lower, upper |-> upper, liquidity |-> amount]]
    BY <1>1 DEF OpenPosition
  <2>3. Holds(position, n, <<lower, upper>>, 0)  BY <2>2 DEF Holds
  <2>4. /\ position'[n] = [lower |-> lower, upper |-> upper, liquidity |-> amount]
        /\ \A m \in Nft : m # n => position'[m] = position[m]
    BY <1>0, <2>2 DEF TypeInv, TypeOK
  <2>5. position'[n] # NoPosition
    <3>1. amount \in 0..MaxLiquidity
      BY <1>0, <2>1, <2>2, LiquidityAssumption
         DEF AddLiquidity, ModifyPosition, AddDeltaOk, TypeInv, TypeOK
    <3>2. position'[n] \in Position  BY <2>4, <3>1 DEF Position
    <3> QED  BY <3>2, NotAPosition
  <2>6. Holds(position', n, <<lower, upper>>, amount)  BY <2>4, <2>5 DEF Holds
  <2>7. W(AllRanges) + (amount - 0) <= MaxLiquidity
    <3>1. LiquidityOf(Open) = W(AllRanges) /\ W(AllRanges) \in Nat
      BY <1>0, WBridge, WType
    <3> QED  BY <2>1, <3>1, LiquidityAssumption DEF NewLiquidity
  <2>8. \/ ModifyPosition(lower, upper, amount - 0)
        \/ amount = 0 /\ UNCHANGED <<bookVars, poolVars, swap>>
    BY <2>1, <2>2 DEF AddLiquidity
  <2> QED  BY <2>1, <2>2, <2>3, <2>4, <2>6, <2>7, <2>8, ModifySums
<1>2. ASSUME NEW n \in Nft, NEW amount \in NewLiquidity, IncreaseLiquidity(n, amount)
      PROVE  LedgerSums' /\ ActiveSum' /\ WalkSum'
  <2> DEFINE lower == position[n].lower
             upper == position[n].upper
             l == position[n].liquidity
  <2>1. amount \in Nat  BY DEF NewLiquidity
  <2>2. /\ swap.phase = "idle" /\ position[n] # NoPosition
        /\ AddDeltaOk(l, amount) /\ AddLiquidity(lower, upper, amount)
        /\ position' = [position EXCEPT ![n].liquidity = @ + amount]
    BY <1>2 DEF IncreaseLiquidity
  <2>3. /\ position[n] \in Position /\ lower \in Ticks /\ upper \in Ticks /\ lower < upper
        /\ l \in Nat /\ Holds(position, n, <<lower, upper>>, l)
    BY <1>0, <2>2, HoldsOpen
  <2>4. /\ position'[n] = [position[n] EXCEPT !.liquidity = l + amount]
        /\ \A m \in Nft : m # n => position'[m] = position[m]
    BY <1>0, <2>2 DEF TypeInv, TypeOK
  <2>5. position'[n] \in Position  BY <2>2, <2>3, <2>4 DEF Position, AddDeltaOk
  <2>6. /\ position'[n].lower = lower /\ position'[n].upper = upper
        /\ position'[n].liquidity = l + amount
    BY <2>3, <2>4 DEF Position
  <2>7. Holds(position', n, <<lower, upper>>, l + amount)
    BY <2>5, <2>6, NotAPosition DEF Holds
  <2> HIDE DEF lower, upper, l
  <2>8. l + amount \in Nat /\ (l + amount) - l = amount  BY <2>1, <2>3
  <2>9. W(AllRanges) + ((l + amount) - l) <= MaxLiquidity
    <3>1. LiquidityOf(Open) = W(AllRanges) /\ W(AllRanges) \in Nat
      BY <1>0, WBridge, WType
    <3> QED  BY <2>1, <2>8, <3>1, LiquidityAssumption DEF NewLiquidity
  <2>10. \/ ModifyPosition(lower, upper, (l + amount) - l)
         \/ l + amount = l /\ UNCHANGED <<bookVars, poolVars, swap>>
    <3>1. CASE amount = 0  BY <2>2, <2>3, <3>1 DEF AddLiquidity
    <3>2. CASE amount # 0  BY <2>2, <2>8, <3>2 DEF AddLiquidity
    <3> QED  BY <3>1, <3>2
  <2> QED  BY <2>2, <2>3, <2>4, <2>7, <2>8, <2>9, <2>10, ModifySums
<1>3. ASSUME NEW n \in Nft, NEW amount \in 0..MaxLiquidity, DecreaseLiquidity(n, amount)
      PROVE  LedgerSums' /\ ActiveSum' /\ WalkSum'
  <2> DEFINE lower == position[n].lower
             upper == position[n].upper
             l == position[n].liquidity
  <2>1. amount \in Nat  BY LiquidityAssumption
  <2>2. /\ swap.phase = "idle" /\ position[n] # NoPosition
        /\ amount <= l /\ ModifyPosition(lower, upper, -amount)
        /\ position' = [position EXCEPT ![n].liquidity = @ - amount]
    BY <1>3 DEF DecreaseLiquidity
  <2>3. /\ position[n] \in Position /\ lower \in Ticks /\ upper \in Ticks /\ lower < upper
        /\ l \in Nat /\ Holds(position, n, <<lower, upper>>, l)
    BY <1>0, <2>2, HoldsOpen
  <2>4. /\ position'[n] = [position[n] EXCEPT !.liquidity = l - amount]
        /\ \A m \in Nft : m # n => position'[m] = position[m]
    BY <1>0, <2>2 DEF TypeInv, TypeOK
  <2>5. position'[n] \in Position
    <3>1. l - amount \in 0..MaxLiquidity
      BY <2>1, <2>2, <2>3, LiquidityAssumption DEF Position
    <3> QED  BY <2>3, <2>4, <3>1 DEF Position
  <2>6. /\ position'[n].lower = lower /\ position'[n].upper = upper
        /\ position'[n].liquidity = l - amount
    BY <2>3, <2>4 DEF Position
  <2>7. Holds(position', n, <<lower, upper>>, l - amount)
    BY <2>5, <2>6, NotAPosition DEF Holds
  <2> HIDE DEF lower, upper, l
  <2>8. l - amount \in Nat /\ (l - amount) - l = -amount /\ (l - amount) - l <= 0
    BY <2>1, <2>2, <2>3
  <2>9. ModifyPosition(lower, upper, (l - amount) - l)  BY <2>2, <2>8
  <2> QED  BY <2>2, <2>3, <2>4, <2>7, <2>8, <2>9, ModifySums
<1>4. ASSUME NEW n \in Nft, ClosePosition(n)
      PROVE  LedgerSums' /\ ActiveSum' /\ WalkSum'
  <2> DEFINE lower == position[n].lower
             upper == position[n].upper
  <2>1. /\ swap.phase = "idle" /\ position[n] # NoPosition /\ position[n].liquidity = 0
        /\ position' = [position EXCEPT ![n] = NoPosition]
        /\ UNCHANGED <<bookVars, poolVars, swap>>
    BY <1>4 DEF ClosePosition
  <2>2. /\ lower \in Ticks /\ upper \in Ticks /\ lower < upper
        /\ Holds(position, n, <<lower, upper>>, 0)
    BY <1>0, <2>1, HoldsOpen
  <2>3. /\ position'[n] = NoPosition
        /\ \A m \in Nft : m # n => position'[m] = position[m]
    BY <1>0, <2>1 DEF TypeInv, TypeOK
  <2>4. Holds(position', n, <<lower, upper>>, 0)  BY <2>3 DEF Holds
  <2> HIDE DEF lower, upper
  <2>5. 0 - 0 <= 0 /\ 0 \in Nat  OBVIOUS
  <2> QED  BY <2>1, <2>2, <2>3, <2>4, <2>5, ModifySums
<1>5. ASSUME UNCHANGED <<bookVars, position>> PROVE LedgerSums'
  BY <1>5 DEF BookInv, LedgerSums, bookVars, tickVars, W, Sum, Units, Within,
              Starts, Ends, AllRanges
<1>6. ASSUME UNCHANGED position, NEW x
      PROVE  WNext(Covers(x)) = W(Covers(x))
  BY <1>6 DEF WNext, W
<1>7. /\ W(Covers(tick_current))' = WNext(Covers(tick_current'))
      /\ W(Covers(swap.tick))' = WNext(Covers(swap'.tick))
  BY DEF W, WNext, Sum, Units, Within, Covers, AllRanges
<1>8. ASSUME NEW zero_for_one \in BOOLEAN, NEW limit \in Prices,
             SwapBegin(zero_for_one, limit)
      PROVE  LedgerSums' /\ ActiveSum' /\ WalkSum'
  <2>1. /\ UNCHANGED <<bookVars, position, poolVars>>
        /\ swap'.tick = tick_current /\ swap'.liquidity = liquidity
    BY <1>8 DEF SwapBegin
  <2>2. tick_current' = tick_current /\ liquidity' = liquidity
    BY <2>1 DEF poolVars
  <2>3. liquidity = W(Covers(tick_current))  BY DEF BookInv, ActiveSum
  <2>4. ActiveSum'  BY <1>6, <1>7, <2>1, <2>2, <2>3 DEF ActiveSum
  <2>5. WalkSum'  BY <1>6, <1>7, <2>1, <2>2, <2>3 DEF WalkSum
  <2> QED  BY <1>5, <2>1, <2>4, <2>5
<1>9. ASSUME NEW a \in ArrayStarts, NEW t \in Ticks, NEW p \in Prices,
             NEW spent \in BOOLEAN, SwapStep(a, t, p, spent)
      PROVE  LedgerSums' /\ ActiveSum' /\ WalkSum'
  <2>1. /\ UNCHANGED <<bookVars, position, poolVars>>
        /\ swap'.tick = TickReached(swap, t, p)
        /\ swap'.liquidity = IF p = SqrtPrice[t] THEN Crossed(swap, t) ELSE swap.liquidity
    BY <1>0, <1>9 DEF SwapStep, TypeInv, TypeOK, SwapState
  <2>2. tick_current' = tick_current /\ liquidity' = liquidity
    BY <2>1 DEF poolVars
  <2>3. liquidity = W(Covers(tick_current))  BY DEF BookInv, ActiveSum
  <2>4. ActiveSum'  BY <1>6, <1>7, <2>1, <2>2, <2>3 DEF ActiveSum
  <2>5. swap'.liquidity = W(Covers(swap'.tick))  BY <1>9, <2>1, StepSum
  <2>6. WalkSum'  BY <1>6, <1>7, <2>1, <2>5 DEF WalkSum
  <2> QED  BY <1>5, <2>1, <2>4, <2>6
<1>10. CASE SwapEnd
  <2>1. /\ UNCHANGED <<bookVars, position>> /\ swap'.phase = "idle"
        /\ liquidity' = swap.liquidity /\ tick_current' = swap.tick
        /\ swap.phase # "idle"
    BY <1>10 DEF SwapEnd, IdleSwap
  <2>2. swap.liquidity = W(Covers(swap.tick))  BY <2>1 DEF BookInv, WalkSum
  <2>3. ActiveSum'  BY <1>6, <1>7, <2>1, <2>2 DEF ActiveSum
  <2> QED  BY <1>5, <2>1, <2>3 DEF WalkSum
<1>11. CASE SwapAbort
  <2>1. UNCHANGED <<bookVars, position, poolVars>> /\ swap'.phase = "idle"
    BY <1>11 DEF SwapAbort, IdleSwap
  <2>2. tick_current' = tick_current /\ liquidity' = liquidity
    BY <2>1 DEF poolVars
  <2>3. liquidity = W(Covers(tick_current))  BY DEF BookInv, ActiveSum
  <2>4. ActiveSum'  BY <1>6, <1>7, <2>1, <2>2, <2>3 DEF ActiveSum
  <2> QED  BY <1>5, <2>1, <2>4 DEF WalkSum
<1>12. CASE UNCHANGED vars
  <2>1. UNCHANGED <<bookVars, position, poolVars, swap>>  BY <1>12 DEF vars
  <2>2. tick_current' = tick_current /\ liquidity' = liquidity
    BY <2>1 DEF poolVars
  <2>3. liquidity = W(Covers(tick_current))  BY DEF BookInv, ActiveSum
  <2>4. ActiveSum'  BY <1>6, <1>7, <2>1, <2>2, <2>3 DEF ActiveSum
  <2>5. WalkSum'  BY <1>6, <1>7, <2>1 DEF WalkSum, BookInv
  <2> QED  BY <1>5, <2>1, <2>4, <2>5
<1> QED
  BY <1>1, <1>2, <1>3, <1>4, <1>8, <1>9, <1>10, <1>11, <1>12 DEF Next

LEMMA BookInit == Init => BookInv
BY InitType, InitIndex, InitFits, InitSums
   DEF BookInv, WalkInv, IndexInv, FitInv, WalkPlace, Place, Init, IdleSwap

LEMMA BookNext == BookInv /\ [Next]_vars => BookInv'
<1> SUFFICES ASSUME BookInv, [Next]_vars PROVE BookInv'  OBVIOUS
<1>1. TypeInv'  BY NextType DEF BookInv, FitInv
<1>2. ArrayIndexExact'  BY <1>1, NextIndex DEF BookInv, WalkInv
<1>3. WalkPlace'  BY <1>1, NextPlace DEF BookInv
<1>4. TickFitsPrice'  BY NextFits DEF BookInv
<1>5. LedgerSums' /\ ActiveSum' /\ WalkSum'  BY <1>1, NextSums
<1> QED  BY <1>1, <1>2, <1>3, <1>4, <1>5 DEF BookInv, WalkInv, IndexInv, FitInv

LEMMA BookInvariant == Spec => []BookInv
BY BookInit, BookNext, PTL DEF Spec

(* The pool's liquidity is the liquidity of the positions in range, for    *)
(* any number of positions, any ticks and prices, after any instructions.  *)
THEOREM ActiveLiquidityCorrect == Spec => []ActiveLiquidity
<1>1. BookInv => ActiveLiquidity
  BY LedgerBridge DEF BookInv, FitInv, ActiveSum
<1> QED  BY <1>1, BookInvariant, PTL

(* So is the liquidity that the swap loop trades against at every turn.    *)
THEOREM WalkLiquidityCorrect == Spec => []WalkLiquidity
<1>1. BookInv => WalkLiquidity
  BY LedgerBridge DEF BookInv, FitInv, WalkSum
<1> QED  BY <1>1, BookInvariant, PTL

(* Ticks and protocol positions hold what the personal positions put in.   *)
THEOREM LedgerCorrect == Spec => []LedgerAgrees
<1>1. BookInv => LedgerAgrees
  BY LedgerBridge DEF BookInv, FitInv
<1> QED  BY <1>1, BookInvariant, PTL

-----------------------------------------------------------------------------
(* The loop's own checks, and the abstract ledger *)

LEMMA StepAlwaysInOrder ==
  ASSUME BookInv, NEW state \in SwapState, OnBook(state),
         IF state.zero_for_one THEN state.limit <= state.sqrt_price
                               ELSE state.sqrt_price <= state.limit,
         NEW a \in ArrayStarts, NEW t \in Ticks, IsNextTick(state, a, t)
  PROVE  StepInOrder(state, t)
<1> USE DEF BookInv, FitInv
<1>1. t \in MIN_TICK..MAX_TICK /\ t \in Int  BY TicksType
<1>2. /\ state.tick \in MIN_TICK..MAX_TICK /\ state.tick \in Int
      /\ state.sqrt_price \in Nat /\ state.limit \in Nat
      /\ SqrtPrice[t] \in Nat /\ SqrtPrice[state.tick] \in Nat
  <2>1. /\ state.tick \in MIN_TICK..MAX_TICK
        /\ state.sqrt_price \in Prices /\ state.limit \in Prices
    BY DEF TypeInv, TypeOK, SwapState
  <2>2. state.sqrt_price \in Nat /\ state.limit \in Nat  BY <2>1, PriceFacts
  <2>3. SqrtPrice[t] \in Nat /\ SqrtPrice[state.tick] \in Nat  BY <1>1, <2>1, PriceFacts
  <2>4. state.tick \in Int  BY <2>1, TickAssumption
  <2> QED  BY <2>1, <2>2, <2>3, <2>4
<1>3. Fits(state.tick, state.sqrt_price)  BY DEF OnBook
<1>4. CASE state.zero_for_one
  <2>1. t <= state.tick  BY <1>4, NextTickFacts
  <2>2. SqrtPrice[t] <= SqrtPrice[state.tick]  BY <1>1, <1>2, <2>1, PriceFacts
  <2>3. SqrtPrice[t] <= state.sqrt_price  BY <1>2, <1>3, <2>2 DEF Fits
  <2>4. state.limit <= state.sqrt_price  BY <1>4
  <2> QED  BY <1>4, <2>1, <2>3, <2>4 DEF StepInOrder, Target
<1>5. CASE ~state.zero_for_one
  <2>1. state.tick < t  BY <1>5, NextTickFacts
  <2>2. state.tick + 1 \in MIN_TICK..MAX_TICK /\ state.tick < MAX_TICK /\ state.tick + 1 <= t
    BY <1>1, <1>2, <2>1, TickAssumption
  <2>3. /\ SqrtPrice[state.tick + 1] <= SqrtPrice[t]
        /\ SqrtPrice[state.tick + 1] \in Nat
    BY <1>1, <2>2, PriceFacts
  <2>4. state.sqrt_price <= SqrtPrice[t]
    BY <1>2, <1>3, <2>2, <2>3 DEF Fits
  <2>5. state.sqrt_price <= state.limit  BY <1>5
  <2> QED  BY <1>5, <2>1, <2>4, <2>5 DEF StepInOrder, Target
<1> QED  BY <1>4, <1>5

(* No check inside swap_internal's loop can fail: it never heads back, and *)
(* crossing a tick never takes off more liquidity than there is.           *)
THEOREM NeverRejected == Spec => []WalkNeverRejected
<1>1. BookInv => WalkNeverRejected
  <2> SUFFICES ASSUME BookInv, swap.phase = "walking" PROVE WalkNeverRejected
    BY DEF WalkNeverRejected
  <2>1. swap \in SwapState /\ OnBook(swap)  BY SwapOnBook
  <2>2. IF swap.zero_for_one THEN swap.limit <= swap.sqrt_price
                             ELSE swap.sqrt_price <= swap.limit
    BY DEF BookInv, FitInv, TypeInv, SwapLimitAhead
  <2> QED  BY <2>1, <2>2, CrossedIs, StepAlwaysInOrder DEF WalkNeverRejected
<1> QED  BY <1>1, BookInvariant, PTL

LEMMA CoveringIs ==
  ASSUME NEW x
  PROVE  /\ TypeInv => Ledger!Covering(position, x) = W(Covers(x))
         /\ TypeInv' => Ledger!Covering(position', x) = WNext(Covers(x))
<1>1. ASSUME NEW pos \in Positions
      PROVE  Ledger!Covering(pos, x) = Sum(pos, Within(pos, Covers(x)))
  <2>1. {h \in Nft : pos[h] # NoPosition /\ pos[h].lower <= x /\ x < pos[h].upper}
          = Within(pos, Covers(x))
    <3>1. \A h \in Nft : pos[h] # NoPosition => pos[h].lower \in Ticks /\ pos[h].upper \in Ticks
      BY <1>1 DEF Positions, Position
    <3> QED  BY <3>1 DEF Within, Covers, AllRanges
  <2> QED  BY <2>1 DEF Ledger!Covering, Sum, Units, Ledger!Cardinality, Cardinality
<1>2. TypeInv => position \in Positions  BY DEF TypeInv, TypeOK, Positions
<1>3. TypeInv' => position' \in Positions  BY DEF TypeInv, TypeOK, Positions
<1> QED  BY <1>1, <1>2, <1>3 DEF W, WNext

(* An instruction that changes one position restakes in the ledger.        *)
LEMMA RestakeStep ==
  ASSUME BookInv, BookInv', NEW n \in Nft, NEW new \in Position \cup {NoPosition},
         position' = [position EXCEPT ![n] = new], UNCHANGED tick_current,
         new # NoPosition => new.lower < new.upper,
         new # NoPosition /\ position[n] # NoPosition =>
           new.lower = position[n].lower /\ new.upper = position[n].upper,
         new = NoPosition => position[n] # NoPosition /\ position[n].liquidity = 0
  PROVE  Ledger!Restake(n)
<1>1. new \in Ledger!Stake \cup {NoPosition}
  BY TicksType DEF Ledger!Stake, Position
<1>2. liquidity' = Ledger!Covering(position', tick_current)
  <2>1. liquidity' = WNext(Covers(tick_current'))
    BY WPrime DEF BookInv, ActiveSum
  <2>2. TypeInv'  BY DEF BookInv, FitInv
  <2> QED  BY <2>1, <2>2, CoveringIs
<1> QED  BY <1>1, <1>2 DEF Ledger!Restake

(* Adding liquidity to a position, or removing it, leaves the tick alone.  *)
LEMMA AddKeepsTick ==
  ASSUME NEW lower, NEW upper, NEW amount, AddLiquidity(lower, upper, amount)
  PROVE  UNCHANGED tick_current
BY DEF AddLiquidity, ModifyPosition, poolVars

LEMMA LedgerStep ==
  ASSUME BookInv, BookInv', [Next]_vars
  PROVE  [Ledger!Next]_(Ledger!ledgerVars)
<1>0. TypeInv /\ TypeInv'  BY DEF BookInv, FitInv
<1>1. ASSUME NEW n \in Nft, NEW lower \in Ticks, NEW upper \in Ticks,
             NEW amount \in NewLiquidity, OpenPosition(n, lower, upper, amount)
      PROVE  Ledger!Restake(n)
  <2> DEFINE new == [lower |-> lower, upper |-> upper, liquidity |-> amount]
  <2>1. /\ position' = [position EXCEPT ![n] = new] /\ lower < upper
        /\ position[n] = NoPosition /\ UNCHANGED tick_current
    BY <1>1, AddKeepsTick DEF OpenPosition
  <2>2. new \in Position
    <3>1. position'[n] = new  BY <1>0, <2>1 DEF TypeInv, TypeOK
    <3>2. new \in Position \cup {NoPosition}  BY <1>0, <3>1 DEF TypeInv, TypeOK
    <3>3. amount \in 0..MaxLiquidity
      <4>1. amount \in Nat  BY DEF NewLiquidity
      <4>2. AddLiquidity(lower, upper, amount)  BY <1>1 DEF OpenPosition
      <4> QED  BY <1>0, <4>1, <4>2, LiquidityAssumption
               DEF AddLiquidity, ModifyPosition, AddDeltaOk, TypeInv, TypeOK
    <3> QED  BY <3>3 DEF Position
  <2>3. new.lower = lower /\ new.upper = upper  OBVIOUS
  <2>4. new # NoPosition  BY <2>2, NotAPosition
  <2> HIDE DEF new
  <2> QED  BY <2>1, <2>2, <2>3, <2>4, RestakeStep
<1>2. ASSUME NEW n \in Nft, position[n] # NoPosition, NEW k \in 0..MaxLiquidity,
             position' = [position EXCEPT ![n].liquidity = k], UNCHANGED tick_current
      PROVE  Ledger!Restake(n)
  <2> DEFINE new == [position[n] EXCEPT !.liquidity = k]
  <2>1. position' = [position EXCEPT ![n] = new]
    BY <1>0, <1>2 DEF TypeInv, TypeOK
  <2>2. position[n] \in Position /\ position[n].lower < position[n].upper
    BY <1>0, <1>2, HoldsOpen
  <2>3. new.lower = position[n].lower /\ new.upper = position[n].upper
    BY <2>2 DEF Position
  <2>4. new \in Position  BY <2>2 DEF Position
  <2>5. new # NoPosition  BY <2>4, NotAPosition
  <2> HIDE DEF new
  <2> QED  BY <1>2, <2>1, <2>2, <2>3, <2>4, <2>5, RestakeStep
<1>3. ASSUME NEW n \in Nft, NEW amount \in NewLiquidity, IncreaseLiquidity(n, amount)
      PROVE  Ledger!Restake(n)
  <2>1. /\ position[n] # NoPosition /\ UNCHANGED tick_current
        /\ AddDeltaOk(position[n].liquidity, amount)
        /\ position' = [position EXCEPT ![n].liquidity = position[n].liquidity + amount]
    BY <1>3, AddKeepsTick DEF IncreaseLiquidity
  <2> QED  BY <1>2, <2>1 DEF AddDeltaOk
<1>4. ASSUME NEW n \in Nft, NEW amount \in 0..MaxLiquidity, DecreaseLiquidity(n, amount)
      PROVE  Ledger!Restake(n)
  <2>1. /\ position[n] # NoPosition /\ UNCHANGED tick_current
        /\ amount <= position[n].liquidity
        /\ position' = [position EXCEPT ![n].liquidity = position[n].liquidity - amount]
    BY <1>4 DEF DecreaseLiquidity, ModifyPosition
  <2>2. position[n].liquidity \in 0..MaxLiquidity
    BY <1>0, <2>1, HoldsOpen DEF Position
  <2>3. position[n].liquidity - amount \in 0..MaxLiquidity
    BY <2>1, <2>2, LiquidityAssumption
  <2> QED  BY <1>2, <2>1, <2>3
<1>5. ASSUME NEW n \in Nft, ClosePosition(n) PROVE Ledger!Restake(n)
  <2>1. /\ position[n] # NoPosition /\ position[n].liquidity = 0
        /\ position' = [position EXCEPT ![n] = NoPosition]
        /\ UNCHANGED tick_current
    BY <1>5 DEF ClosePosition, poolVars
  <2> QED  BY <2>1, RestakeStep
<1>6. CASE SwapEnd
  <2>1. position' = position /\ tick_current' = swap.tick
    BY <1>6 DEF SwapEnd
  <2>2. tick_current' \in MIN_TICK..MAX_TICK  BY <1>0 DEF TypeInv, TypeOK
  <2>3. liquidity' = Ledger!Covering(position, tick_current')
    <3>1. liquidity' = WNext(Covers(tick_current'))
      BY WPrime DEF BookInv, ActiveSum
    <3>2. WNext(Covers(tick_current')) = W(Covers(tick_current'))
      BY <2>1 DEF W, WNext
    <3> QED  BY <1>0, <3>1, <3>2, CoveringIs
  <2>4. Ledger!Move  BY <2>1, <2>2, <2>3 DEF Ledger!Move
  <2> QED  BY <2>4 DEF Ledger!Next
<1>7. ASSUME UNCHANGED <<bookVars, position, poolVars>>
      PROVE  UNCHANGED Ledger!ledgerVars
  BY <1>7 DEF Ledger!ledgerVars, poolVars
<1>8. ASSUME NEW zero_for_one \in BOOLEAN, NEW limit \in Prices,
             SwapBegin(zero_for_one, limit)
      PROVE  UNCHANGED Ledger!ledgerVars
  BY <1>7, <1>8 DEF SwapBegin
<1>9. ASSUME NEW a \in ArrayStarts, NEW t \in Ticks, NEW p \in Prices,
             NEW spent \in BOOLEAN, SwapStep(a, t, p, spent)
      PROVE  UNCHANGED Ledger!ledgerVars
  BY <1>7, <1>9 DEF SwapStep
<1>10. CASE SwapAbort  BY <1>7, <1>10 DEF SwapAbort
<1>11. CASE UNCHANGED vars  BY <1>7, <1>11 DEF vars
<1> QED
  BY <1>1, <1>3, <1>4, <1>5, <1>6, <1>8, <1>9, <1>10, <1>11 DEF Next, Ledger!Next

(* The book implements the abstract ledger of stakes: seen from outside,   *)
(* nothing happens but holders changing their own stake and the market     *)
(* moving, and the active liquidity is always that of the stakes in range. *)
THEOREM BookImplementsLedger == Spec => ImplementsLedger
<1>1. Init => Ledger!Init
  <2> SUFFICES ASSUME Init PROVE Ledger!Init  OBVIOUS
  <2>1. tick_current \in MIN_TICK..MAX_TICK  BY InitType DEF TypeInv, TypeOK
  <2> QED  BY <2>1 DEF Init, Ledger!Init
<1>2. BookInv /\ BookInv' /\ [Next]_vars => [Ledger!Next]_(Ledger!ledgerVars)
  BY LedgerStep
<1> QED  BY <1>1, <1>2, BookInvariant, PTL DEF Spec, ImplementsLedger, Ledger!Spec

-----------------------------------------------------------------------------
(* What fees and rewards have in common.  Both are kept as a growth over   *)
(* the whole pool and a growth outside each tick, from which the growth    *)
(* inside a range is worked out, wrapping.  The lemmas say when it moves   *)
(* with the pool's, and what the liquidity book knows about the ends of a  *)
(* range.                                                                  *)

(* Arithmetic *)

LEMMA ModBounds ==
  ASSUME NEW n \in Int, NEW d \in Nat \ {0}
  PROVE  n % d \in 0..(d - 1) /\ n = d * (n \div d) + (n % d) /\ n \div d \in Int
OBVIOUS

LEMMA DivNat ==
  ASSUME NEW n \in Nat, NEW d \in Nat \ {0}
  PROVE  n \div d \in Nat
OBVIOUS

LEMMA TimesNat ==
  ASSUME NEW x \in Nat, NEW y \in Nat
  PROVE  x * y \in Nat
OBVIOUS

(* There is one remainder.                                                 *)
LEMMA RemainderUnique ==
  ASSUME NEW d \in Nat \ {0}, NEW q \in Int, NEW s \in Int, NEW r \in 0..(d - 1),
         NEW z \in 0..(d - 1), q * d + r = s * d + z
  PROVE  r = z
<1>1. CASE q < s
  <2>1. q + 1 <= s  BY <1>1
  <2>2. (q + 1) * d <= s * d  BY <2>1
  <2> QED  BY <2>2
<1>2. CASE s < q
  <2>1. s + 1 <= q  BY <1>2
  <2>2. (s + 1) * d <= q * d  BY <2>1
  <2> QED  BY <2>2
<1> QED  BY <1>1, <1>2

(* Wrapping after each addition or only after the last one is the same.    *)
LEMMA WrapShift ==
  ASSUME NEW x \in Int, NEW m \in Int, NEW d \in Nat \ {0}
  PROVE  ((x % d) + m) % d = (x + m) % d
<1> DEFINE a == x \div d
           y == (x % d) + m
           b == y \div d
           c == (x + m) \div d
<1>1. x = d * a + (x % d) /\ a \in Int /\ x % d \in 0..(d - 1)  BY ModBounds
<1>2. y \in Int  BY <1>1
<1>3. y = d * b + (y % d) /\ b \in Int /\ y % d \in 0..(d - 1)  BY <1>2, ModBounds
<1>4. x + m = d * c + ((x + m) % d) /\ c \in Int /\ (x + m) % d \in 0..(d - 1)
  BY ModBounds
<1> HIDE DEF a, b, c
<1>5. x + m = d * a + y  BY <1>1
<1>6. x + m = d * (a + b) + (y % d)  BY <1>1, <1>3, <1>5
<1>7. (a + b) * d + (y % d) = c * d + ((x + m) % d)  BY <1>1, <1>3, <1>4, <1>6
<1> HIDE DEF y
<1> DEFINE r == y % d
           z == (x + m) % d
<1>8. /\ a + b \in Int /\ c \in Int
      /\ r \in 0..(d - 1) /\ z \in 0..(d - 1)
      /\ (a + b) * d + r = c * d + z
  BY <1>1, <1>3, <1>4, <1>7
<1> HIDE DEF r, z
<1>9. r = z  BY <1>8, RemainderUnique
<1> QED  BY <1>9 DEF r, z, y

-----------------------------------------------------------------------------
(* Growth inside a range *)

(* get_fee_growth_inside and get_reward_growths_inside.                    *)
BelowAt(tick, growth, outside, lower) ==
  IF tick >= lower THEN outside[lower] ELSE growth - outside[lower]
AboveAt(tick, growth, outside, upper) ==
  IF tick < upper THEN outside[upper] ELSE growth - outside[upper]
InsideAt(tick, growth, outside, lower, upper, word) ==
  (growth - BelowAt(tick, growth, outside, lower)
          - AboveAt(tick, growth, outside, upper)) % word

(* An end of a range is left alone, or it is crossed: the growth outside   *)
(* it and the tick change sides together.                                  *)
LeftAlone(v, T, T2, O, O2) == O2[v] = O[v] /\ (v <= T2 <=> v <= T)
SidesSwapped(v, T, T2, G2, O, O2) == O2[v] = G2 - O[v] /\ (v <= T2 <=> ~(v <= T))

(* Growth inside the range moves with the growth when the tick is inside.  *)
Follows(word, l, u, T, T2, G, G2, O, O2) ==
  InsideAt(T2, G2, O2, l, u, word) =
    (InsideAt(T, G, O, l, u, word) + (IF l <= T /\ T < u THEN G2 - G ELSE 0)) % word

(* As long as nothing else happens to its ends, the growth inside a range  *)
(* moves with the pool's exactly when the tick was in the range.           *)
LEMMA InsideFollows ==
  ASSUME NEW word \in Nat \ {0}, NEW l \in Int, NEW u \in Int, l < u,
         NEW T \in Int, NEW T2 \in Int, NEW G \in Int, NEW G2 \in Int,
         NEW O, NEW O2, O[l] \in Int, O[u] \in Int,
         LeftAlone(l, T, T2, O, O2) \/ SidesSwapped(l, T, T2, G2, O, O2),
         LeftAlone(u, T, T2, O, O2) \/ SidesSwapped(u, T, T2, G2, O, O2)
  PROVE  Follows(word, l, u, T, T2, G, G2, O, O2)
<1> DEFINE B == BelowAt(T, G, O, l)
           A == AboveAt(T, G, O, u)
           B2 == BelowAt(T2, G2, O2, l)
           A2 == AboveAt(T2, G2, O2, u)
           moved == IF l <= T /\ T < u THEN G2 - G ELSE 0
           x == G - B - A
<1>1. B \in Int /\ A \in Int  BY DEF BelowAt, AboveAt
<1>2. B2 = B + (IF l <= T THEN 0 ELSE G2 - G)
  <2>1. CASE LeftAlone(l, T, T2, O, O2)  BY <2>1 DEF LeftAlone, BelowAt
  <2>2. CASE SidesSwapped(l, T, T2, G2, O, O2)  BY <2>2 DEF SidesSwapped, BelowAt
  <2> QED  BY <2>1, <2>2
<1>3. A2 = A + (IF T < u THEN 0 ELSE G2 - G)
  <2>1. CASE LeftAlone(u, T, T2, O, O2)  BY <2>1 DEF LeftAlone, AboveAt
  <2>2. CASE SidesSwapped(u, T, T2, G2, O, O2)  BY <2>2 DEF SidesSwapped, AboveAt
  <2> QED  BY <2>1, <2>2
<1>4. G2 - B2 - A2 = x + moved
  <2> HIDE DEF A, B, A2, B2
  <2> QED  BY <1>1, <1>2, <1>3
<1>5. x \in Int /\ moved \in Int
  <2> HIDE DEF A, B
  <2> QED  BY <1>1
<1>6. /\ InsideAt(T2, G2, O2, l, u, word) = (G2 - B2 - A2) % word
      /\ InsideAt(T, G, O, l, u, word) = x % word
  BY DEF InsideAt
<1> HIDE DEF A, B, A2, B2, x, moved
<1>7. ((x % word) + moved) % word = (x + moved) % word  BY <1>5, WrapShift
<1>8. InsideAt(T2, G2, O2, l, u, word) = (InsideAt(T, G, O, l, u, word) + moved) % word
  BY <1>4, <1>6, <1>7
<1> QED  BY <1>8 DEF moved, Follows

-----------------------------------------------------------------------------
(* The ends of a range *)

(* Where a position has liquidity both ends of its range are initialized.  *)
EndsInitialized ==
  \A r \in Ranges :
    protocol_liquidity[r] > 0 => r[1] \in Initialized /\ r[2] \in Initialized

LEMMA RangeEnds == BookInv => EndsInitialized
<1> SUFFICES ASSUME BookInv, NEW r \in Ranges, protocol_liquidity[r] > 0
             PROVE  r[1] \in Initialized /\ r[2] \in Initialized
  BY DEF EndsInitialized
<1>1. LedgerSums  BY DEF BookInv
<1>2. r[1] \in Ticks /\ r[2] \in Ticks /\ r \in AllRanges  BY DEF Ranges, AllRanges
<1>3. /\ Within(position, {r}) \subseteq Within(position, Starts(r[1]))
      /\ Within(position, {r}) \subseteq Within(position, Ends(r[2]))
      /\ Within(position, Starts(r[1])) \subseteq Nft
      /\ Within(position, Ends(r[2])) \subseteq Nft
  BY <1>2 DEF Within, Starts, Ends
<1>4. W({r}) <= W(Starts(r[1])) /\ W({r}) <= W(Ends(r[2]))
  BY <1>3, SumMonotone DEF W
<1>5. W({r}) > 0  BY <1>1 DEF LedgerSums
<1>6. /\ liquidity_gross[r[1]] = W(Starts(r[1])) + W(Ends(r[1]))
      /\ liquidity_gross[r[2]] = W(Starts(r[2])) + W(Ends(r[2]))
  BY <1>1, <1>2 DEF LedgerSums
<1>7. /\ W({r}) \in Nat
      /\ W(Starts(r[1])) \in Nat /\ W(Ends(r[1])) \in Nat
      /\ W(Starts(r[2])) \in Nat /\ W(Ends(r[2])) \in Nat
  BY WType
<1>8. liquidity_gross[r[1]] # 0 /\ liquidity_gross[r[2]] # 0
  BY <1>4, <1>5, <1>6, <1>7
<1> QED  BY <1>2, <1>8 DEF Initialized

(* Adding and removing liquidity resets only ticks that had none before or *)
(* have none after it: the ends of other ranges are left alone.            *)
LEMMA EndsNotFlipped ==
  ASSUME TypeInv, NEW lower \in Ticks, NEW upper \in Ticks, lower < upper,
         NEW delta \in Int, ModifyPosition(lower, upper, delta),
         NEW t \in Initialized, liquidity_gross'[t] # 0
  PROVE  liquidity_gross[t] # 0 /\ (t \in {lower, upper} => ~Flipped(t, delta))
<1>1. t \in Ticks /\ liquidity_gross[t] # 0  BY DEF Initialized
<1>2. liquidity_gross \in [Ticks -> 0..MaxLiquidity]  BY DEF TypeInv, TypeOK
<1>3. lower # upper  BY TicksType
<1>4. t \in {lower, upper} => liquidity_gross'[t] = liquidity_gross[t] + delta
  BY <1>2, <1>3 DEF ModifyPosition
<1> QED  BY <1>1, <1>4 DEF Flipped

-----------------------------------------------------------------------------
(* Induction over finite sets *)

(* There is a least counterexample.                                        *)
LEMMA MinimalSet ==
  ASSUME NEW S, IsFiniteSet(S), NEW F \in SUBSET (SUBSET S), F # {}
  PROVE  \E T \in F : \A U \in F : U \subseteq T => U = T
<1>1. F \subseteq FiniteSubsetsOf(S)  BY FS_FiniteSubsetsOfFinite
<1>2. IsWellFoundedOn(StrictSubsetOrdering(S), FiniteSubsetsOf(S))
  BY FS_StrictSubsetOrderingWellFounded
<1>3. \E x \in F : \A y \in F : ~ (<<y, x>> \in StrictSubsetOrdering(S))
  BY <1>1, <1>2, WFMin
<1>4. PICK T \in F : \A U \in F : <<U, T>> \notin StrictSubsetOrdering(S)
  BY <1>3
<1>5. ASSUME NEW U \in F, U \subseteq T PROVE U = T
  BY <1>4, <1>5 DEF StrictSubsetOrdering
<1> QED  BY <1>5

-----------------------------------------------------------------------------
(* Totals *)

(* The sum of a function over a finite set.  The library's folds recurse   *)
(* over the set, and take their operator as a parameter, so what is known  *)
(* of a total is proved here from its table, with MinimalSet for each      *)
(* induction.                                                              *)
Total(c, S) == SumFunctionOnSet(c, S)

Some(s) == CHOOSE x \in s : TRUE
Rest(s) == s \ {Some(s)}

(* g is the table of the sums of c over the subsets of S.                  *)
IsSum(g, c, S) ==
  g = [s \in SUBSET S |-> IF s = {} THEN 0 ELSE c[Some(s)] + g[Rest(s)]]

LEMMA SomeIn ==
  ASSUME NEW s, s # {}
  PROVE  Some(s) \in s /\ Rest(s) \subseteq s /\ Rest(s) # s
BY DEF Some, Rest

LEMMA TotalIsUnique ==
  ASSUME NEW c, NEW S, NEW T, NEW g, NEW h, IsSum(g, c, S), IsSum(h, c, T),
         NEW U, U \subseteq S, U \subseteq T, IsFiniteSet(U)
  PROVE  g[U] = h[U]
<1> SUFFICES ASSUME g[U] # h[U] PROVE FALSE  OBVIOUS
<1> DEFINE F == {V \in SUBSET U : g[V] # h[V]}
<1>1. F # {} /\ F \in SUBSET (SUBSET U)  OBVIOUS
<1>2. PICK V \in F : \A Y \in F : Y \subseteq V => Y = V
  <2> HIDE DEF F
  <2> QED  BY <1>1, MinimalSet
<1>3. V \in SUBSET S /\ V \in SUBSET T  OBVIOUS
<1>4. g[V] = IF V = {} THEN 0 ELSE c[Some(V)] + g[Rest(V)]  BY <1>3 DEF IsSum
<1>5. h[V] = IF V = {} THEN 0 ELSE c[Some(V)] + h[Rest(V)]  BY <1>3 DEF IsSum
<1>6. V # {}  BY <1>4, <1>5
<1>7. Rest(V) \in SUBSET U /\ Rest(V) \subseteq V /\ Rest(V) # V  BY <1>6, SomeIn
<1>8. g[Rest(V)] = h[Rest(V)]  BY <1>2, <1>7
<1> QED  BY <1>4, <1>5, <1>8

LEMMA TotalExists ==
  ASSUME NEW c, NEW S, IsFiniteSet(S)
  PROVE  \E g : IsSum(g, c, S)
<1> SUFFICES ASSUME ~ \E g : IsSum(g, c, S) PROVE FALSE  OBVIOUS
<1> DEFINE F == {V \in SUBSET S : ~ \E g : IsSum(g, c, V)}
<1>1. F # {} /\ F \in SUBSET (SUBSET S)  OBVIOUS
<1>2. PICK T \in F : \A U \in F : U \subseteq T => U = T
  <2> HIDE DEF F
  <2> QED  BY <1>1, MinimalSet
<1> DEFINE Table(U) == CHOOSE g : IsSum(g, c, U)
           h == [s \in SUBSET T |->
                   IF s = {} THEN 0 ELSE c[Some(s)] + Table(Rest(s))[Rest(s)]]
<1>3. ASSUME NEW U, U \subseteq T, U # T PROVE IsSum(Table(U), c, U)
  <2>1. \E g : IsSum(g, c, U)  BY <1>2, <1>3
  <2> QED  BY <2>1
<1>4. ASSUME NEW U, U \subseteq T, U # T PROVE h[U] = Table(U)[U]
  <2>1. IsSum(Table(U), c, U)  BY <1>3, <1>4
  <2>2. Table(U)[U] = IF U = {} THEN 0 ELSE c[Some(U)] + Table(U)[Rest(U)]
    <3> HIDE DEF Table
    <3> QED  BY <2>1 DEF IsSum
  <2>3. CASE U = {}
    <3> HIDE DEF Table
    <3> QED  BY <2>2, <2>3
  <2>4. CASE U # {}
    <3>1. Rest(U) \subseteq U /\ Rest(U) # U  BY <2>4, SomeIn
    <3>2. Rest(U) \subseteq T /\ Rest(U) # T  BY <1>4, <3>1
    <3>3. IsSum(Table(Rest(U)), c, Rest(U))  BY <1>3, <3>2
    <3>4. IsFiniteSet(Rest(U))  BY <3>2, FS_Subset
    <3> HIDE DEF Table
    <3>5. Table(Rest(U))[Rest(U)] = Table(U)[Rest(U)]
      BY <2>1, <3>1, <3>3, <3>4, TotalIsUnique
    <3>6. h[U] = c[Some(U)] + Table(Rest(U))[Rest(U)]  BY <1>4, <2>4
    <3> QED  BY <2>2, <2>4, <3>5, <3>6
  <2> QED  BY <2>3, <2>4
<1>5. IsSum(h, c, T)
  <2>1. ASSUME NEW s \in SUBSET T, s # {} PROVE h[Rest(s)] = Table(Rest(s))[Rest(s)]
    <3>1. Rest(s) \subseteq T /\ Rest(s) # T  BY <2>1, SomeIn
    <3> HIDE DEF h, Table
    <3> QED  BY <1>4, <3>1
  <2>2. h = [s \in SUBSET T |-> IF s = {} THEN 0 ELSE c[Some(s)] + h[Rest(s)]]
    <3> DEFINE hh == [s \in SUBSET T |-> IF s = {} THEN 0 ELSE c[Some(s)] + h[Rest(s)]]
    <3>1. ASSUME NEW s \in SUBSET T PROVE h[s] = hh[s]
      <4>1. CASE s = {}  BY <4>1
      <4>2. CASE s # {}
        <5>1. h[s] = c[Some(s)] + Table(Rest(s))[Rest(s)]  BY <4>2
        <5> HIDE DEF h, Table
        <5> QED  BY <2>1, <4>2, <5>1
      <4> QED BY <4>1, <4>2
    <3> QED  BY <3>1, Zenon
  <2> HIDE DEF h
  <2> QED  BY <2>2 DEF IsSum
<1> QED  BY <1>2, <1>5

LEMMA TotalTable ==
  ASSUME NEW c, NEW S, IsFiniteSet(S), NEW g, IsSum(g, c, S)
  PROVE  Total(c, S) = g[S]
<1> DEFINE h == CHOOSE iter : IsSum(iter, c, S)
<1>1. IsSum(h, c, S)  OBVIOUS
<1>2. Total(c, S) = h[S]
  BY Zenon DEF IsSum, Some, Rest, Total, SumFunctionOnSet, FoldFunctionOnSet, MapThenFoldSet
<1> HIDE DEF h
<1>3. h[S] = g[S]  BY <1>1, TotalIsUnique
<1> QED BY <1>2, <1>3

LEMMA TotalRest ==
  ASSUME NEW c, NEW S, IsFiniteSet(S)
  PROVE  Total(c, S) =
           IF S = {} THEN 0 ELSE c[Some(S)] + Total(c, Rest(S))
<1>1. PICK g : IsSum(g, c, S)  BY TotalExists
<1>2. Total(c, S) = g[S]  BY <1>1, TotalTable
<1>3. g[S] = IF S = {} THEN 0 ELSE c[Some(S)] + g[Rest(S)]  BY <1>1 DEF IsSum
<1>4. CASE S # {}
  <2>1. Rest(S) \subseteq S  BY <1>4, SomeIn
  <2>2. IsFiniteSet(Rest(S))  BY <2>1, FS_Subset
  <2>3. PICK h : IsSum(h, c, Rest(S))  BY <2>2, TotalExists
  <2>4. Total(c, Rest(S)) = h[Rest(S)]  BY <2>2, <2>3, TotalTable
  <2>5. g[Rest(S)] = h[Rest(S)]  BY <1>1, <2>1, <2>2, <2>3, TotalIsUnique
  <2> QED  BY <1>2, <1>3, <1>4, <2>4, <2>5
<1> QED  BY <1>2, <1>3, <1>4

LEMMA TotalEmpty == ASSUME NEW c PROVE Total(c, {}) = 0
BY FS_EmptySet, TotalRest

LEMMA TotalType ==
  ASSUME NEW c, NEW S, IsFiniteSet(S), \A x \in S : c[x] \in Int
  PROVE  Total(c, S) \in Int
<1> SUFFICES ASSUME Total(c, S) \notin Int PROVE FALSE  OBVIOUS
<1> DEFINE F == {V \in SUBSET S : Total(c, V) \notin Int}
<1>1. F # {} /\ F \in SUBSET (SUBSET S)  OBVIOUS
<1>2. PICK V \in F : \A Y \in F : Y \subseteq V => Y = V
  <2> HIDE DEF F
  <2> QED  BY <1>1, MinimalSet
<1>3. IsFiniteSet(V)  BY FS_Subset
<1>4. V # {}  BY TotalEmpty
<1>5. Some(V) \in V /\ Rest(V) \in SUBSET S /\ Rest(V) \subseteq V /\ Rest(V) # V
  BY <1>4, SomeIn
<1>6. Total(c, Rest(V)) \in Int  BY <1>2, <1>5
<1>7. Total(c, V) = c[Some(V)] + Total(c, Rest(V))
  BY <1>3, <1>4, TotalRest
<1> QED  BY <1>5, <1>6, <1>7

(* Any element may be taken out first.                                     *)
LEMMA TotalWithout ==
  ASSUME NEW c, NEW S, IsFiniteSet(S), \A x \in S : c[x] \in Int, NEW n \in S
  PROVE  Total(c, S) = c[n] + Total(c, S \ {n})
<1> DEFINE Splits(V, m) ==
      Total(c, V) = c[m] + Total(c, V \ {m})
<1> SUFFICES ASSUME ~Splits(S, n) PROVE FALSE  OBVIOUS
<1> HIDE DEF Splits
<1> DEFINE F == {V \in SUBSET S : \E m \in V : ~Splits(V, m)}
<1>1. F # {} /\ F \in SUBSET (SUBSET S)  OBVIOUS
<1>2. PICK V \in F : \A Y \in F : Y \subseteq V => Y = V
  <2> HIDE DEF F
  <2> QED  BY <1>1, MinimalSet
<1>3. IsFiniteSet(V) /\ V # {}  BY FS_Subset
<1>4. PICK m \in V : ~Splits(V, m)  OBVIOUS
<1> DEFINE p == Some(V)
           Y == V \ {p}
           X == V \ {m}
<1>5. p \in V /\ Rest(V) = Y  BY <1>3, SomeIn DEF Rest
<1>6. Total(c, V) = c[p] + Total(c, Y)  BY <1>3, <1>5, TotalRest
<1> HIDE DEF p
<1>7. p # m  BY <1>4, <1>6 DEF Splits
<1>8. Splits(Y, m)
  <2>1. Y \in SUBSET S /\ Y \subseteq V /\ Y # V /\ m \in Y  BY <1>5, <1>7
  <2> QED  BY <1>2, <2>1
<1>9. Splits(X, p)
  <2>1. X \in SUBSET S /\ X \subseteq V /\ X # V /\ p \in X  BY <1>5, <1>7
  <2> QED  BY <1>2, <2>1
<1>10. Y \ {m} = X \ {p}  OBVIOUS
<1>11. Total(c, X \ {p}) \in Int
  <2>1. IsFiniteSet(X \ {p})  BY <1>3, FS_Subset
  <2> QED  BY <2>1, TotalType
<1>12. c[p] \in Int /\ c[m] \in Int  BY <1>5
<1>13. Total(c, V) # c[m] + Total(c, X)  BY <1>4 DEF Splits
<1>14. Total(c, Y) = c[m] + Total(c, X \ {p})  BY <1>8, <1>10 DEF Splits
<1>15. Total(c, X) = c[p] + Total(c, X \ {p})  BY <1>9 DEF Splits
<1> DEFINE rest == Total(c, X \ {p})
<1>16. rest \in Int /\ Total(c, Y) = c[m] + rest /\ Total(c, X) = c[p] + rest
  BY <1>11, <1>14, <1>15
<1> HIDE DEF rest, Y, X
<1> QED  BY <1>6, <1>12, <1>13, <1>16

(* Sums are linear, and keep the order of their terms.                     *)
LEMMA TotalBounded ==
  ASSUME NEW S, IsFiniteSet(S), NEW b, NEW c, NEW l, NEW k \in Int, NEW q \in Int,
         \A x \in S : b[x] \in Int /\ c[x] \in Int /\ l[x] \in Int,
         \A x \in S : q * b[x] <= c[x] + k * l[x]
  PROVE  q * Total(b, S)
           <= Total(c, S) + k * Total(l, S)
<1> DEFINE Bounded(V) ==
      q * Total(b, V) <= Total(c, V) + k * Total(l, V)
<1> SUFFICES ASSUME ~Bounded(S) PROVE FALSE  OBVIOUS
<1>e. Bounded({})  BY TotalEmpty
<1> HIDE DEF Bounded
<1> DEFINE F == {V \in SUBSET S : ~Bounded(V)}
<1>1. F # {} /\ F \in SUBSET (SUBSET S)  OBVIOUS
<1>2. PICK V \in F : \A Y \in F : Y \subseteq V => Y = V
  <2> HIDE DEF F
  <2> QED  BY <1>1, MinimalSet
<1>3. IsFiniteSet(V) /\ V # {}  BY <1>e, FS_Subset
<1> DEFINE p == Some(V)
           Y == Rest(V)
<1>4. p \in V /\ Y \subseteq V /\ Y # V  BY <1>3, SomeIn
<1>5. /\ Total(b, V) = b[p] + Total(b, Y)
      /\ Total(c, V) = c[p] + Total(c, Y)
      /\ Total(l, V) = l[p] + Total(l, Y)
  BY <1>3, TotalRest
<1> HIDE DEF p, Y
<1>6. Bounded(Y)  BY <1>2, <1>4
<1>7. /\ Total(b, Y) \in Int
      /\ Total(c, Y) \in Int
      /\ Total(l, Y) \in Int
  <2>1. IsFiniteSet(Y)  BY <1>3, <1>4, FS_Subset
  <2> QED  BY <1>4, <2>1, TotalType
<1>8. b[p] \in Int /\ c[p] \in Int /\ l[p] \in Int /\ q * b[p] <= c[p] + k * l[p]
  BY <1>4
<1>9. /\ q * Total(b, V) = q * b[p] + q * Total(b, Y)
      /\ k * Total(l, V) = k * l[p] + k * Total(l, Y)
  BY <1>5, <1>7, <1>8
<1>10. Bounded(V)
  BY <1>5, <1>6, <1>7, <1>8, <1>9 DEF Bounded
<1> QED  BY <1>10

(* A total changes at most by what one of its terms does, if no other one  *)
(* grows.                                                                  *)
LEMMA TotalOneChange ==
  ASSUME NEW S, IsFiniteSet(S), NEW n \in S, NEW b, NEW c,
         \A x \in S : b[x] \in Int /\ c[x] \in Int,
         \A x \in S : x # n => b[x] <= c[x]
  PROVE  Total(b, S) <= Total(c, S) + (b[n] - c[n])
<1> DEFINE R == S \ {n}
<1>1. IsFiniteSet(R)  BY FS_Subset
<1>2. Total(b, S) = b[n] + Total(b, R) /\ Total(c, S) = c[n] + Total(c, R)
  BY TotalWithout
<1>3. /\ \A x \in R : b[x] \in Int /\ c[x] \in Int /\ c[x] \in Int
      /\ \A x \in R : 1 * b[x] <= c[x] + 0 * c[x]
  OBVIOUS
<1> HIDE DEF R
<1>4. 1 * Total(b, R) <= Total(c, R) + 0 * Total(c, R)
  BY ONLY <1>1, <1>3, 0 \in Int, 1 \in Int, TotalBounded
<1>5. Total(b, R) \in Int /\ Total(c, R) \in Int  BY <1>1, <1>3, TotalType
<1> QED  BY <1>2, <1>4, <1>5

(* Terms that are not negative add nothing by being left out.              *)
LEMMA TotalOfPart ==
  ASSUME NEW S, IsFiniteSet(S), NEW P \in SUBSET S, NEW c,
         \A x \in S : c[x] \in Nat
  PROVE  Total(c, P) <= Total(c, S)
<1> DEFINE Larger(V) == Total(c, P) <= Total(c, V)
<1> SUFFICES ASSUME ~Larger(S) PROVE FALSE  OBVIOUS
<1>e. Larger(P)
  <2>1. IsFiniteSet(P)  BY FS_Subset
  <2> QED  BY <2>1, TotalType
<1> HIDE DEF Larger
<1> DEFINE F == {V \in SUBSET S : P \subseteq V /\ ~Larger(V)}
<1>1. F # {} /\ F \in SUBSET (SUBSET S)  OBVIOUS
<1>2. PICK V \in F : \A U \in F : U \subseteq V => U = V
  <2> HIDE DEF F
  <2> QED  BY <1>1, MinimalSet
<1>3. PICK x \in V : x \notin P  BY <1>e
<1>4. Larger(V \ {x})  BY <1>2, <1>3
<1>5. IsFiniteSet(V) /\ IsFiniteSet(V \ {x}) /\ IsFiniteSet(P)  BY FS_Subset
<1>6. Total(c, V) = c[x] + Total(c, V \ {x})  BY <1>5, TotalWithout
<1>7. c[x] \in Nat /\ Total(c, V \ {x}) \in Int /\ Total(c, P) \in Int
  BY <1>5, TotalType
<1>8. Larger(V)  BY <1>4, <1>6, <1>7 DEF Larger
<1> QED  BY <1>8

(* The liquidity of the positions whose range lies in Q, as a total.       *)
Share(Q) == [n \in Nft |-> IF n \in Within(position, Q) THEN position[n].liquidity ELSE 0]

LEMMA ShareTotal ==
  ASSUME TypeInv, NEW Q
  PROVE  /\ \A n \in Nft : Share(Q)[n] \in Nat
         /\ Total(Share(Q), Nft) = W(Q)
<1> DEFINE T == Within(position, Q)
           c == Share(Q)
           Same(V) == Sum(position, V \cap T) = Total(c, V)
<1>0. T \subseteq Nft /\ IsFiniteSet(Nft)  BY NftAssumption DEF Within
<1>1. ASSUME NEW n \in T
      PROVE  position[n].liquidity \in 0..MaxLiquidity /\ c[n] = position[n].liquidity
  BY <1>0 DEF Share, Within, TypeInv, TypeOK, Position
<1>2. \A n \in Nft : n \notin T => c[n] = 0  BY DEF Share
<1>3. \A n \in Nft : c[n] \in Nat  BY <1>1, <1>2, LiquidityAssumption
<1> HIDE DEF c, T
<1>4. Same(Nft)
  <2> SUFFICES ASSUME ~Same(Nft) PROVE FALSE  OBVIOUS
  <2> HIDE DEF Same
  <2> DEFINE F == {V \in SUBSET Nft : ~Same(V)}
  <2>1. F # {} /\ F \in SUBSET (SUBSET Nft)  OBVIOUS
  <2>2. PICK V \in F : \A U \in F : U \subseteq V => U = V
    <3> HIDE DEF F
    <3> QED  BY <1>0, <2>1, MinimalSet
  <2>3. V # {}
    <3>1. Units(position, {} \cap T) = {}  BY DEF Units
    <3>2. Sum(position, {} \cap T) = 0  BY <3>1, FS_EmptySet DEF Sum
    <3> QED  BY <3>2, TotalEmpty DEF Same
  <2>4. PICK n \in V : TRUE  BY <2>3
  <2> DEFINE R == V \ {n}
  <2>5. Same(R)  BY <2>2
  <2>6. IsFiniteSet(V) /\ IsFiniteSet(R)  BY <1>0, FS_Subset
  <2>7. Total(c, V) = c[n] + Total(c, R)  BY <1>3, <2>6, TotalWithout
  <2>8. Total(c, R) \in Int  BY <1>3, <2>6, TotalType
  <2>9. CASE n \in T
    <3>1. V \cap T = (R \cap T) \cup {n} /\ (R \cap T) \cap {n} = {}  BY <2>9
    <3>2. Sum(position, V \cap T) = Sum(position, R \cap T) + Sum(position, {n})
      <4>1. R \cap T \in SUBSET Nft /\ {n} \in SUBSET Nft  OBVIOUS
      <4> HIDE DEF R
      <4> QED  BY <3>1, <4>1, SumUnion
    <3>3. Sum(position, {n}) = c[n]  BY <1>1, <2>9, SumSingle
    <3> QED  BY <1>3, <2>5, <2>7, <2>8, <3>2, <3>3 DEF Same
  <2>10. CASE n \notin T
    <3>1. V \cap T = R \cap T /\ c[n] = 0  BY <1>2, <2>10
    <3>2. Total(c, V) = Total(c, R)
      <4> HIDE DEF R
      <4> QED  BY <2>7, <2>8, <3>1
    <3> QED  BY <2>5, <3>1, <3>2 DEF Same
  <2> QED  BY <2>9, <2>10
<1>5. Nft \cap T = T  BY <1>0
<1> QED  BY <1>3, <1>4, <1>5 DEF W, T, c

-----------------------------------------------------------------------------
(* Stakes *)

(* What a position with liquidity earned since its last update, and what   *)
(* it is worth with what it is owed already, in units of 1/unit: fees and  *)
(* rewards alike, before anything is rounded.                              *)
HasStake(pos, n) == pos[n] # NoPosition /\ pos[n].liquidity > 0
Earned(word, pos, last, T, G, O, n) ==
  IF HasStake(pos, n)
  THEN ((InsideAt(T, G, O, pos[n].lower, pos[n].upper, word) - last[n]) % word)
         * pos[n].liquidity
  ELSE 0
Worth(word, unit, pos, last, owed, T, G, O) ==
  [n \in Nft |-> owed[n] * unit + Earned(word, pos, last, T, G, O, n)]

(* Wherever a position has liquidity, both its ends are initialized.       *)
StakesOnTicks ==
  \A n \in Nft : HasStake(position, n) =>
    position[n].lower \in Initialized /\ position[n].upper \in Initialized

LEMMA StakesStand == BookInv => StakesOnTicks
<1> SUFFICES ASSUME BookInv, NEW n \in Nft, HasStake(position, n)
             PROVE  position[n].lower \in Initialized /\ position[n].upper \in Initialized
  BY DEF StakesOnTicks
<1>1. TypeInv /\ LedgerSums  BY DEF BookInv, FitInv
<1> QED  BY <1>1, EndpointsInitialized DEF HasStake

LEMMA InsideType ==
  ASSUME NEW word \in Nat \ {0}, NEW T \in Int, NEW G \in Int, NEW O, NEW lower, NEW upper,
         lower \in Int, upper \in Int, O[lower] \in Int, O[upper] \in Int
  PROVE  InsideAt(T, G, O, lower, upper, word) \in 0..(word - 1)
<1>1. BelowAt(T, G, O, lower) \in Int /\ AboveAt(T, G, O, upper) \in Int
  BY DEF BelowAt, AboveAt
<1> DEFINE x == G - BelowAt(T, G, O, lower) - AboveAt(T, G, O, upper)
<1>2. x \in Int  BY <1>1
<1>3. InsideAt(T, G, O, lower, upper, word) = x % word  BY DEF InsideAt
<1> HIDE DEF x
<1> QED  BY <1>2, <1>3, ModBounds

LEMMA EarnedType ==
  ASSUME NEW word \in Nat \ {0}, NEW pos \in Positions, NEW last \in [Nft -> 0..(word - 1)],
         NEW T \in Int, NEW G \in Int, NEW O, \A t \in Ticks : O[t] \in Int,
         NEW n \in Nft
  PROVE  Earned(word, pos, last, T, G, O, n) \in Nat
<1>1. CASE ~HasStake(pos, n)  BY <1>1 DEF Earned
<1>2. CASE HasStake(pos, n)
  <2> DEFINE in == InsideAt(T, G, O, pos[n].lower, pos[n].upper, word)
  <2>1. pos[n] \in Position  BY <1>2 DEF HasStake, Positions
  <2>2. /\ pos[n].lower \in Ticks /\ pos[n].upper \in Ticks
        /\ pos[n].lower \in Int /\ pos[n].upper \in Int
        /\ pos[n].liquidity \in Nat
    <3>1. /\ pos[n].lower \in Ticks /\ pos[n].upper \in Ticks
          /\ pos[n].liquidity \in 0..MaxLiquidity
      BY <2>1 DEF Position
    <3>2. pos[n].lower \in Int /\ pos[n].upper \in Int  BY <3>1, TicksType
    <3>3. pos[n].liquidity \in Nat  BY <3>1, LiquidityAssumption
    <3> QED  BY <3>1, <3>2, <3>3
  <2>3. in \in 0..(word - 1)  BY <2>2, InsideType
  <2> HIDE DEF in
  <2>4. in - last[n] \in Int  BY <2>3
  <2>5. (in - last[n]) % word \in Nat  BY <2>4, ModBounds
  <2> DEFINE x == (in - last[n]) % word
  <2>6. Earned(word, pos, last, T, G, O, n) = x * pos[n].liquidity
    BY <1>2 DEF Earned, in
  <2> HIDE DEF x
  <2>7. x * pos[n].liquidity \in Nat  BY <2>2, <2>5, TimesNat DEF x
  <2> QED  BY <2>6, <2>7
<1> QED  BY <1>1, <1>2

LEMMA WorthType ==
  ASSUME NEW word \in Nat \ {0}, NEW unit \in Nat,
         NEW pos \in Positions, NEW last \in [Nft -> 0..(word - 1)], NEW owed \in [Nft -> Nat],
         NEW T \in Int, NEW G \in Int, NEW O, \A t \in Ticks : O[t] \in Int,
         NEW n \in Nft
  PROVE  /\ Earned(word, pos, last, T, G, O, n) \in Nat
         /\ Worth(word, unit, pos, last, owed, T, G, O)[n]
              = owed[n] * unit + Earned(word, pos, last, T, G, O, n)
         /\ Worth(word, unit, pos, last, owed, T, G, O)[n] \in Nat
<1>1. Earned(word, pos, last, T, G, O, n) \in Nat  BY EarnedType
<1>2. owed[n] * unit \in Nat  BY TimesNat
<1> QED  BY <1>1, <1>2 DEF Worth

(* A quotient rounded down, and sums in a word.                            *)
LEMMA QuotientBelow ==
  ASSUME NEW x \in Nat, NEW d \in Nat \ {0}
  PROVE  x \div d \in Nat /\ (x \div d) * d <= x
<1> DEFINE q == x \div d
           r == x % d
<1>1. r \in 0..(d - 1) /\ x = d * q + r /\ q \in Int  BY ModBounds
<1>2. q \in Nat  BY DivNat
<1>3. q * d = d * q /\ q * d \in Int  BY <1>2
<1> HIDE DEF q, r
<1> QED  BY <1>1, <1>2, <1>3 DEF q, r

LEMMA WrapGrows ==
  ASSUME NEW word \in Nat \ {0}, NEW x \in Int, NEW y \in Int, NEW g \in Nat
  PROVE  (((x + g) % word) - y) % word <= ((x - y) % word) + g
<1> DEFINE z == x - y
           w == z % word
<1>1. (((x + g) % word) - y) % word = (z + g) % word
  <2>1. (((x + g) % word) + (0 - y)) % word = ((x + g) + (0 - y)) % word
    BY x + g \in Int, 0 - y \in Int, WrapShift
  <2>2. (x + g) % word \in Int  BY x + g \in Int, ModBounds
  <2>3. ((x + g) % word) + (0 - y) = ((x + g) % word) - y /\ (x + g) + (0 - y) = z + g
    BY <2>2
  <2> QED  BY <2>1, <2>3
<1>2. z \in Int  OBVIOUS
<1> HIDE DEF z
<1>3. w \in 0..(word - 1)  BY <1>2, ModBounds
<1>4. (z + g) % word = (w + g) % word  BY <1>2, g \in Int, WrapShift
<1>5. w + g \in Nat  BY <1>3
<1>6. (w + g) % word <= w + g
  <2> DEFINE s == w + g
             q == s \div word
  <2>1. s \in Nat  BY <1>5
  <2> HIDE DEF s, w
  <2>2. s = word * q + (s % word) /\ q \in Nat /\ s % word \in Int
    BY <2>1, ModBounds, DivNat
  <2>3. word * q \in Nat  BY <2>2, TimesNat
  <2> HIDE DEF q
  <2>4. s % word <= s  BY <2>1, <2>2, <2>3
  <2> QED  BY <2>4 DEF s
<1> QED  BY <1>1, <1>4, <1>6 DEF z

(* While the growth inside its range follows the pool's, a position earns  *)
(* at most its share of what the pool's growth pays for.                   *)
LEMMA StakeEarns ==
  ASSUME TypeInv, NEW word \in Nat \ {0}, NEW last \in [Nft -> 0..(word - 1)],
         NEW T \in Int, NEW T2 \in Int, NEW G \in Int, NEW g \in Nat, NEW O, NEW O2,
         \A t \in Ticks : O[t] \in Int /\ O2[t] \in Int,
         NEW n \in Nft,
         HasStake(position, n) =>
           Follows(word, position[n].lower, position[n].upper, T, T2, G, G + g, O, O2)
  PROVE  Earned(word, position, last, T2, G + g, O2, n)
           <= Earned(word, position, last, T, G, O, n) + g * Share(Covers(T))[n]
<1> DEFINE e == Earned(word, position, last, T, G, O, n)
           e2 == Earned(word, position, last, T2, G + g, O2, n)
           l == Share(Covers(T))
<1>0. l[n] \in Nat /\ g * l[n] \in Nat
  <2>1. l[n] \in Nat  BY ShareTotal
  <2> HIDE DEF l
  <2> QED  BY <2>1, TimesNat
<1>1. CASE ~HasStake(position, n)
  <2>1. e = 0 /\ e2 = 0  BY <1>1 DEF Earned
  <2> HIDE DEF e, e2, l
  <2> QED  BY <1>0, <2>1 DEF e, e2, l
<1>2. CASE HasStake(position, n)
  <2>0. PICK r : r = <<position[n].lower, position[n].upper>>  OBVIOUS
  <2> DEFINE in == InsideAt(T, G, O, r[1], r[2], word)
             in2 == InsideAt(T2, G + g, O2, r[1], r[2], word)
             k == position[n].liquidity
             y == last[n]
             moved == IF r[1] <= T /\ T < r[2] THEN g ELSE 0
  <2>1. /\ r[1] \in Ticks /\ r[2] \in Ticks /\ r[1] < r[2] /\ k \in Nat
        /\ r[1] \in Int /\ r[2] \in Int
    BY <1>2, <2>0, HoldsOpen, TicksType DEF HasStake
  <2>2. in2 = (in + moved) % word
    <3>1. (G + g) - G = g  OBVIOUS
    <3> QED  BY <1>2, <2>0, <3>1 DEF Follows
  <2>3. in \in Int /\ y \in Int /\ moved \in Nat
    <3>1. in \in 0..(word - 1)  BY <2>1, InsideType
    <3> QED  BY <3>1
  <2>4. e = ((in - y) % word) * k /\ e2 = ((in2 - y) % word) * k
    BY <1>2, <2>0 DEF Earned
  <2>5. g * l[n] = moved * k
    <3>1. r[1] <= T /\ T < r[2] <=> n \in Within(position, Covers(T))
      BY <1>2, <2>0, <2>1 DEF HasStake, Within, Covers, AllRanges
    <3>2. CASE r[1] <= T /\ T < r[2]  BY <3>1, <3>2 DEF Share
    <3>3. CASE ~(r[1] <= T /\ T < r[2])
      <4>1. l[n] = 0 /\ moved = 0  BY <3>1, <3>3 DEF Share
      <4> HIDE DEF l, k, moved
      <4> QED  BY <2>1, <4>1
    <3> QED  BY <3>2, <3>3
  <2> HIDE DEF in, in2, moved, k, y, e, e2, l
  <2>6. (in2 - y) % word <= ((in - y) % word) + moved  BY <2>2, <2>3, WrapGrows
  <2>7. (in - y) % word \in Nat /\ (in2 - y) % word \in Nat
    <3>1. in2 \in Int
      <4>1. in + moved \in Int  BY <2>3
      <4> QED  BY <2>2, <4>1, ModBounds
    <3>2. in - y \in Int /\ in2 - y \in Int  BY <2>3, <3>1
    <3>3. \A x \in Int : x % word \in Nat  BY ModBounds
    <3> QED  BY <3>2, <3>3
  <2> DEFINE u == (in - y) % word
             u2 == (in2 - y) % word
             d == u + moved - u2
  <2>8. d \in Nat  BY <2>3, <2>6, <2>7
  <2>9. u * k + moved * k = u2 * k + d * k
    <3> HIDE DEF u, u2
    <3> QED  BY <2>1, <2>3, <2>7 DEF u, u2
  <2>10. d * k \in Nat /\ u2 * k \in Int /\ u * k \in Int /\ moved * k \in Int
    <3> HIDE DEF d
    <3> QED  BY <2>1, <2>3, <2>7, <2>8, TimesNat
  <2> HIDE DEF d, u, u2
  <2>11. u2 * k <= u * k + moved * k  BY <2>9, <2>10
  <2>12. e2 <= e + g * l[n]  BY <2>4, <2>5, <2>11 DEF u, u2
  <2> QED  BY <2>12 DEF e, e2, l
<1> QED  BY <1>1, <1>2

(* And all of them together earn at most what the growth pays to the       *)
(* liquidity in range.                                                     *)
LEMMA WorthGrows ==
  ASSUME TypeInv, NEW word \in Nat \ {0}, NEW unit \in Nat,
         NEW last \in [Nft -> 0..(word - 1)], NEW owed \in [Nft -> Nat],
         NEW T \in Int, NEW T2 \in Int, NEW G \in Int, NEW g \in Nat, NEW O, NEW O2,
         \A t \in Ticks : O[t] \in Int /\ O2[t] \in Int,
         \A n \in Nft : HasStake(position, n) =>
           Follows(word, position[n].lower, position[n].upper, T, T2, G, G + g, O, O2)
  PROVE  Total(Worth(word, unit, position, last, owed, T2, G + g, O2), Nft)
           <= Total(Worth(word, unit, position, last, owed, T, G, O), Nft) + g * W(Covers(T))
<1> DEFINE b == Worth(word, unit, position, last, owed, T2, G + g, O2)
           c == Worth(word, unit, position, last, owed, T, G, O)
           l == Share(Covers(T))
<1>0. IsFiniteSet(Nft) /\ position \in Positions /\ G + g \in Int
  BY NftAssumption DEF TypeInv, TypeOK, Positions
<1>1. ASSUME NEW n \in Nft
      PROVE  /\ b[n] \in Nat /\ c[n] \in Nat /\ l[n] \in Nat
             /\ 1 * b[n] <= c[n] + g * l[n]
  <2> DEFINE e == Earned(word, position, last, T, G, O, n)
             e2 == Earned(word, position, last, T2, G + g, O2, n)
             o == owed[n] * unit
  <2>1. /\ e \in Nat /\ c[n] = o + e /\ c[n] \in Nat
        /\ e2 \in Nat /\ b[n] = o + e2 /\ b[n] \in Nat
    BY <1>0, WorthType
  <2>2. l[n] \in Nat /\ o \in Nat  BY ShareTotal, TimesNat
  <2>3. e2 <= e + g * l[n]  BY StakeEarns
  <2> HIDE DEF e, e2, o, b, c, l
  <2>4. g * l[n] \in Nat  BY <2>2, TimesNat
  <2> QED  BY <2>1, <2>2, <2>3, <2>4
<1>2. Total(l, Nft) = W(Covers(T))  BY ShareTotal
<1> HIDE DEF b, c, l
<1>3. /\ \A n \in Nft : b[n] \in Int /\ c[n] \in Int /\ l[n] \in Int
      /\ \A n \in Nft : 1 * b[n] <= c[n] + g * l[n]
      /\ g \in Int /\ 1 \in Int
  BY <1>1
<1>4. 1 * Total(b, Nft) <= Total(c, Nft) + g * Total(l, Nft)
  BY ONLY <1>0, <1>3, TotalBounded
<1>5. Total(b, Nft) \in Int  BY <1>0, <1>3, TotalType
<1>6. Total(b, Nft) <= Total(c, Nft) + g * W(Covers(T))
  BY <1>2, <1>4, <1>5
<1> QED  BY <1>6 DEF b, c
=============================================================================
