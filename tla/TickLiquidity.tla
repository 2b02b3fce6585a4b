----------------------------- MODULE TickLiquidity -----------------------------
(***************************************************************************)
(* The liquidity book of one pool: which ticks are initialized and how     *)
(* much liquidity they carry, the tick arrays that hold them and the       *)
(* bitmap that finds the arrays, the positions that stand behind them, and *)
(* the swap loop that walks from tick to tick, adding and dropping         *)
(* liquidity on the way.  Fees, token amounts and rewards are left to the  *)
(* modules that are built on this one.                                     *)
(*                                                                         *)
(* Every instruction is atomic on chain.  Here a swap is spread over       *)
(* several steps, one for each turn of swap_internal's loop, that work on  *)
(* the local SwapState; no other instruction runs in between, and nothing  *)
(* reaches the pool before SwapEnd.                                        *)
(***************************************************************************)
EXTENDS Integers, FiniteSets, FiniteSetsExt

CONSTANTS
  Nft,              \* the NFT mints that may stand for a personal position
  NoPosition,       \* "no account for this NFT"
  MIN_TICK, MAX_TICK,
  TickSpacing,
  TICK_ARRAY_SIZE,  \* ticks in one tick array
  SqrtPrice,        \* tick_math::get_sqrt_price_at_tick, as a table
  TickAt,           \* tick_math::get_tick_at_sqrt_price, as a table
  MaxLiquidity      \* what a liquidity word can hold

Ticks == {t \in MIN_TICK..MAX_TICK : t % TickSpacing = 0}
Prices == SqrtPrice[MIN_TICK]..SqrtPrice[MAX_TICK]

ASSUME TickAssumption ==
  /\ MIN_TICK \in Int /\ MAX_TICK \in Int /\ MIN_TICK < MAX_TICK
  /\ TickSpacing \in Nat \ {0}
  /\ TICK_ARRAY_SIZE \in Nat \ {0}

ASSUME LiquidityAssumption == MaxLiquidity \in Nat

ASSUME NftAssumption ==
  /\ IsFiniteSet(Nft)
  /\ NoPosition \notin [lower : Ticks, upper : Ticks, liquidity : 0..MaxLiquidity]

(* What tick_math promises: the price of a tick grows with the tick, and   *)
(* the tick of a price is the last one whose price does not exceed it.     *)
ASSUME PriceAssumption ==
  /\ SqrtPrice \in [MIN_TICK..MAX_TICK -> Nat]
  /\ \A s, t \in MIN_TICK..MAX_TICK : s < t => SqrtPrice[s] < SqrtPrice[t]
  /\ TickAt \in [Prices -> MIN_TICK..MAX_TICK]
  /\ \A p \in Prices :
       /\ SqrtPrice[TickAt[p]] <= p
       /\ TickAt[p] < MAX_TICK => p < SqrtPrice[TickAt[p] + 1]

VARIABLES
  liquidity_net,           \* TickState.liquidity_net, by tick
  liquidity_gross,         \* TickState.liquidity_gross, by tick
  initialized_tick_count,  \* TickArrayState.initialized_tick_count, by array
  tick_array_bitmap,       \* the arrays whose bit is set
  protocol_liquidity,      \* ProtocolPositionState.liquidity, by range
  position,                \* the personal position of each NFT
  liquidity,               \* PoolState.liquidity: active liquidity
  sqrt_price,              \* PoolState.sqrt_price_x64
  tick_current,            \* PoolState.tick_current
  swap                     \* SwapState of the swap under way

tickVars  == <<liquidity_net, liquidity_gross>>
indexVars == <<initialized_tick_count, tick_array_bitmap>>
poolVars  == <<liquidity, sqrt_price, tick_current>>
bookVars  == <<tickVars, indexVars, protocol_liquidity>>
vars      == <<bookVars, position, poolVars, swap>>

-----------------------------------------------------------------------------
(* Tick arrays *)

TickCount == TICK_ARRAY_SIZE * TickSpacing

(* get_array_start_index divides towards zero and corrects for negatives:  *)
(* it rounds down.                                                         *)
ArrayStart(t) == (t \div TickCount) * TickCount

ArrayStarts == {ArrayStart(t) : t \in MIN_TICK..MAX_TICK}
Ranges == {r \in Ticks \X Ticks : r[1] < r[2]}

Initialized == {t \in Ticks : liquidity_gross[t] # 0}
InitializedIn(a) == {t \in Initialized : ArrayStart(t) = a}

(* The initialized ticks and the arrays of the bitmap that lie ahead in a  *)
(* direction, and the nearest of a set.                                    *)
Ahead(S, x, zero_for_one) == {t \in S : IF zero_for_one THEN t <= x ELSE t > x}
Beyond(S, x, zero_for_one) == {a \in S : IF zero_for_one THEN a < x ELSE a > x}
Nearest(t, S, zero_for_one) ==
  /\ t \in S
  /\ \A u \in S : IF zero_for_one THEN u <= t ELSE t <= u

-----------------------------------------------------------------------------
(* Adding and removing liquidity *)

Open == {n \in Nft : position[n] # NoPosition}

(* The sum of the liquidity of a set of positions: one pair for each unit, *)
(* and their number.  A cardinality, unlike a fold, can be reasoned about  *)
(* without induction over the set.                                         *)
Units(pos, S) == {u \in S \X (1..MaxLiquidity) : u[2] <= pos[u[1]].liquidity}
LiquidityOf(S) == Cardinality(Units(position, S))

(* The bound of the model: the tokens there are never make up more than    *)
(* MaxLiquidity, all positions together.                                   *)
NewLiquidity == 0..(MaxLiquidity - LiquidityOf(Open))

(* liquidity_math::add_delta fails rather than leave the word's range.     *)
AddDeltaOk(x, delta) == x + delta \in 0..MaxLiquidity

(* TickState::update returns whether the tick became or ceased to be       *)
(* initialized.                                                            *)
Flipped(t, delta) == (liquidity_gross[t] + delta = 0) # (liquidity_gross[t] = 0)

(* One flipped tick of array a, as add_liquidity and burn_liquidity count  *)
(* it: the bitmap bit is toggled when the array gains its first or loses   *)
(* its last initialized tick.                                              *)
CountTick_EveryFlip(index, a, add) ==
  [count  |-> [index.count EXCEPT ![a] = IF add THEN @ + 1 ELSE @ - 1],
   bitmap |-> SymDiff(index.bitmap, {a})]
CountTick(index, a, add) ==
  LET n == IF add THEN index.count[a] + 1 ELSE index.count[a] - 1
  IN  [count  |-> [index.count EXCEPT ![a] = n],
       bitmap |-> IF n = (IF add THEN 1 ELSE 0)
                  THEN SymDiff(index.bitmap, {a}) ELSE index.bitmap]

(* The lower tick is counted before the upper one.                         *)
CountFlips(lower, upper, delta) ==
  LET before == [count |-> initialized_tick_count, bitmap |-> tick_array_bitmap]
      mid    == IF Flipped(lower, delta)
                THEN CountTick(before, ArrayStart(lower), delta > 0) ELSE before
  IN  IF Flipped(upper, delta)
      THEN CountTick(mid, ArrayStart(upper), delta > 0) ELSE mid

(* Range of a tick: the pool's liquidity changes only when the current     *)
(* tick is inside the position.                                            *)
InRange_Closed(lower, upper, tick) == lower <= tick /\ tick <= upper
InRange(lower, upper, tick) == lower <= tick /\ tick < upper

(* The new net liquidity: added at the lower tick, subtracted at the upper *)
(* one, and cleared with the rest of a tick that a removal uninitialized.  *)
NetAfter_SameSign(lower, upper, delta) ==
  [liquidity_net EXCEPT ![lower] = @ + delta, ![upper] = @ + delta]
NetAfter(lower, upper, delta) ==
  LET Cleared(t) == delta < 0 /\ Flipped(t, delta)
  IN  [liquidity_net EXCEPT
         ![lower] = IF Cleared(lower) THEN 0 ELSE @ + delta,
         ![upper] = IF Cleared(upper) THEN 0 ELSE @ - delta]

(* modify_position with update_position, TickState::update and clear, and  *)
(* the bookkeeping of flipped ticks that both callers do afterwards.  A    *)
(* zero delta only refreshes growths, and needs a live protocol position.  *)
ModifyPosition(lower, upper, delta) ==
  /\ delta = 0 => protocol_liquidity[<<lower, upper>>] > 0
  /\ AddDeltaOk(protocol_liquidity[<<lower, upper>>], delta)
  /\ AddDeltaOk(liquidity_gross[lower], delta)
  /\ AddDeltaOk(liquidity_gross[upper], delta)
  /\ InRange(lower, upper, tick_current) => AddDeltaOk(liquidity, delta)
  /\ liquidity_gross' = [liquidity_gross EXCEPT ![lower] = @ + delta, ![upper] = @ + delta]
  /\ liquidity_net' = NetAfter(lower, upper, delta)
  /\ protocol_liquidity' = [protocol_liquidity EXCEPT ![<<lower, upper>>] = @ + delta]
  /\ LET index == CountFlips(lower, upper, delta)
     IN  /\ initialized_tick_count' = index.count
         /\ tick_array_bitmap' = index.bitmap
  /\ liquidity' = IF InRange(lower, upper, tick_current) THEN liquidity + delta ELSE liquidity
  /\ UNCHANGED <<sqrt_price, tick_current, swap>>

(* add_liquidity: no liquidity, no change; only a new position may ask for *)
(* none.                                                                   *)
AddLiquidity(lower, upper, amount) ==
  IF amount = 0
  THEN UNCHANGED <<bookVars, poolVars, swap>>
  ELSE ModifyPosition(lower, upper, amount)

OpenPosition(n, lower, upper, amount) ==
  /\ swap.phase = "idle"
  /\ position[n] = NoPosition
  /\ lower < upper
  /\ AddLiquidity(lower, upper, amount)
  /\ position' = [position EXCEPT
                    ![n] = [lower |-> lower, upper |-> upper, liquidity |-> amount]]

IncreaseLiquidity(n, amount) ==
  /\ swap.phase = "idle"
  /\ amount > 0
  /\ position[n] # NoPosition
  /\ AddDeltaOk(position[n].liquidity, amount)
  /\ AddLiquidity(position[n].lower, position[n].upper, amount)
  /\ position' = [position EXCEPT ![n].liquidity = @ + amount]

(* decrease_liquidity while the DecreaseLiquidity bit allows it.           *)
DecreaseLiquidity(n, amount) ==
  /\ swap.phase = "idle"
  /\ position[n] # NoPosition
  /\ amount <= position[n].liquidity
  /\ ModifyPosition(position[n].lower, position[n].upper, -amount)
  /\ position' = [position EXCEPT ![n].liquidity = @ - amount]

ClosePosition(n) ==
  /\ swap.phase = "idle"
  /\ position[n] # NoPosition
  /\ position[n].liquidity = 0
  /\ position' = [position EXCEPT ![n] = NoPosition]
  /\ UNCHANGED <<bookVars, poolVars, swap>>

-----------------------------------------------------------------------------
(* The swap loop *)

IdleSwap ==
  [phase |-> "idle", zero_for_one |-> FALSE, limit |-> SqrtPrice[MIN_TICK],
   sqrt_price |-> SqrtPrice[MIN_TICK], tick |-> MIN_TICK, liquidity |-> 0,
   array |-> ArrayStart(MIN_TICK), matched |-> FALSE]

(* The array the walk starts in: that of the current tick when its bit is  *)
(* set, else the next one in the direction.                                *)
FirstArray(a, zero_for_one) ==
  LET here == ArrayStart(tick_current)
  IN  IF here \in tick_array_bitmap THEN a = here
      ELSE Nearest(a, Beyond(tick_array_bitmap, here, zero_for_one), zero_for_one)

SwapBegin_LimitAtBound(zero_for_one, limit) ==
  /\ swap.phase = "idle"
  /\ IF zero_for_one THEN limit < sqrt_price ELSE sqrt_price < limit
  /\ \E a \in ArrayStarts :
       /\ FirstArray(a, zero_for_one)
       /\ swap' = [phase |-> "walking", zero_for_one |-> zero_for_one, limit |-> limit,
                   sqrt_price |-> sqrt_price, tick |-> tick_current,
                   liquidity |-> liquidity, array |-> a,
                   matched |-> a = ArrayStart(tick_current)]
  /\ UNCHANGED <<bookVars, position, poolVars>>
(* swap_internal up to its loop: the limit lies strictly ahead and inside  *)
(* the price range, and some array is found.                               *)
SwapBegin(zero_for_one, limit) ==
  /\ swap.phase = "idle"
  /\ IF zero_for_one THEN SqrtPrice[MIN_TICK] < limit /\ limit < sqrt_price
                     ELSE sqrt_price < limit /\ limit < SqrtPrice[MAX_TICK]
  /\ \E a \in ArrayStarts :
       /\ FirstArray(a, zero_for_one)
       /\ swap' = [phase |-> "walking", zero_for_one |-> zero_for_one, limit |-> limit,
                   sqrt_price |-> sqrt_price, tick |-> tick_current,
                   liquidity |-> liquidity, array |-> a,
                   matched |-> a = ArrayStart(tick_current)]
  /\ UNCHANGED <<bookVars, position, poolVars>>

(* What a turn does is worked out from the SwapState before it.            *)

(* What next_initialized_tick finds in the current array: nothing when the *)
(* current tick is not in it.                                              *)
AheadInArray(state) ==
  IF ArrayStart(state.tick) = state.array
  THEN Ahead(InitializedIn(state.array), state.tick, state.zero_for_one) ELSE {}

(* Tick t of array a is where the loop goes next: the nearest initialized  *)
(* tick ahead in the array it is in; the first one of that array, once,    *)
(* when the walk did not start in the current tick's array; else the first *)
(* one of the next array of the bitmap.                                    *)
IsNextTick_NeverFirst(state, a, t) ==
  IF AheadInArray(state) # {}
  THEN a = state.array /\ Nearest(t, AheadInArray(state), state.zero_for_one)
  ELSE /\ Nearest(a, Beyond(tick_array_bitmap, state.array, state.zero_for_one),
                  state.zero_for_one)
       /\ Nearest(t, InitializedIn(a), state.zero_for_one)
IsNextTick(state, a, t) ==
  IF AheadInArray(state) # {}
  THEN a = state.array /\ Nearest(t, AheadInArray(state), state.zero_for_one)
  ELSE /\ IF ~state.matched
          THEN a = state.array
          ELSE Nearest(a, Beyond(tick_array_bitmap, state.array, state.zero_for_one),
                       state.zero_for_one)
       /\ Nearest(t, InitializedIn(a), state.zero_for_one)

(* A step never goes past the price limit.                                 *)
Target(state, t) ==
  IF \/ state.zero_for_one /\ SqrtPrice[t] < state.limit
     \/ ~state.zero_for_one /\ state.limit < SqrtPrice[t]
  THEN state.limit ELSE SqrtPrice[t]

(* The loop's require!s: tick and target price lie ahead.                  *)
StepInOrder(state, t) ==
  IF state.zero_for_one
  THEN /\ t <= state.tick
       /\ SqrtPrice[t] <= state.sqrt_price /\ Target(state, t) <= state.sqrt_price
  ELSE /\ state.tick < t
       /\ state.sqrt_price <= SqrtPrice[t] /\ state.sqrt_price <= Target(state, t)

Between(p, x, y) == (x <= p /\ p <= y) \/ (y <= p /\ p <= x)

(* Liquidity after crossing tick t; going down, the net is taken off.      *)
Crossed(state, t) ==
  IF state.zero_for_one THEN state.liquidity - liquidity_net[t]
                       ELSE state.liquidity + liquidity_net[t]

(* The tick of the price p that a step towards tick t reached: past t when *)
(* p is t's price, unchanged when the price did not move.                  *)
TickReached_Recomputed(state, t, p) ==
  IF p = SqrtPrice[t] THEN IF state.zero_for_one THEN t - 1 ELSE t ELSE TickAt[p]
TickReached_NotRecomputed(state, t, p) ==
  IF p = SqrtPrice[t] THEN IF state.zero_for_one THEN t - 1 ELSE t ELSE state.tick
TickReached_StaysOnTick(state, t, p) ==
  IF p = SqrtPrice[t] THEN t ELSE IF p # state.sqrt_price THEN TickAt[p] ELSE state.tick
TickReached(state, t, p) ==
  IF p = SqrtPrice[t] THEN IF state.zero_for_one THEN t - 1 ELSE t
  ELSE IF p # state.sqrt_price THEN TickAt[p]
  ELSE state.tick

(* One turn of the loop, towards tick t of array a.  It reaches price p    *)
(* and either uses up the amount (spent) or goes on.  How far the amount   *)
(* carries is the business of swap_math; here any price up to the target   *)
(* will do, save that nothing is used up before the target when there is   *)
(* no liquidity.                                                           *)
SwapStep(a, t, p, spent) ==
  /\ swap.phase = "walking"
  /\ IsNextTick(swap, a, t)
  /\ StepInOrder(swap, t)
  /\ Between(p, swap.sqrt_price, Target(swap, t))
  /\ p # Target(swap, t) => spent /\ swap.liquidity > 0
  /\ p = SqrtPrice[t] => AddDeltaOk(Crossed(swap, t), 0)
  /\ swap' = [swap EXCEPT
       !.phase      = IF spent \/ p = swap.limit THEN "done" ELSE "walking",
       !.sqrt_price = p,
       !.tick       = TickReached(swap, t, p),
       !.liquidity  = IF p = SqrtPrice[t] THEN Crossed(swap, t) ELSE @,
       !.array      = a,
       !.matched    = @ \/ AheadInArray(swap) = {}]
  /\ UNCHANGED <<bookVars, position, poolVars>>

SwapEnd_KeepsLiquidity ==
  /\ swap.phase = "done"
  /\ IF swap.zero_for_one THEN swap.sqrt_price < sqrt_price ELSE swap.sqrt_price > sqrt_price
  /\ sqrt_price' = swap.sqrt_price
  /\ tick_current' = swap.tick
  /\ swap' = IdleSwap
  /\ UNCHANGED <<bookVars, position, liquidity>>
(* The rest of swap_internal and exact_internal: the price must have moved *)
(* and the pool takes over what the loop worked out.                       *)
SwapEnd ==
  /\ swap.phase = "done"
  /\ IF swap.zero_for_one THEN swap.sqrt_price < sqrt_price ELSE swap.sqrt_price > sqrt_price
  /\ liquidity' = swap.liquidity
  /\ sqrt_price' = swap.sqrt_price
  /\ tick_current' = swap.tick
  /\ swap' = IdleSwap
  /\ UNCHANGED <<bookVars, position>>

(* An error at any point (no further tick array, an account missing, the   *)
(* caller's threshold not met) undoes the whole instruction.               *)
SwapAbort ==
  /\ swap.phase # "idle"
  /\ swap' = IdleSwap
  /\ UNCHANGED <<bookVars, position, poolVars>>

-----------------------------------------------------------------------------
(* PoolState::initialize: a price inside the range, and an empty book.     *)
Init ==
  /\ liquidity_net = [t \in Ticks |-> 0]
  /\ liquidity_gross = [t \in Ticks |-> 0]
  /\ initialized_tick_count = [a \in ArrayStarts |-> 0]
  /\ tick_array_bitmap = {}
  /\ protocol_liquidity = [r \in Ranges |-> 0]
  /\ position = [n \in Nft |-> NoPosition]
  /\ liquidity = 0
  /\ sqrt_price \in Prices \ {SqrtPrice[MAX_TICK]}
  /\ tick_current = TickAt[sqrt_price]
  /\ swap = IdleSwap

Next ==
  \/ \E n \in Nft, lower, upper \in Ticks, amount \in NewLiquidity :
       OpenPosition(n, lower, upper, amount)
  \/ \E n \in Nft, amount \in NewLiquidity : IncreaseLiquidity(n, amount)
  \/ \E n \in Nft, amount \in 0..MaxLiquidity : DecreaseLiquidity(n, amount)
  \/ \E n \in Nft : ClosePosition(n)
  \/ \E zero_for_one \in BOOLEAN, limit \in Prices : SwapBegin(zero_for_one, limit)
  \/ \E a \in ArrayStarts, t \in Ticks, p \in Prices, spent \in BOOLEAN :
       SwapStep(a, t, p, spent)
  \/ SwapEnd
  \/ SwapAbort

Spec == Init /\ [][Next]_vars

-----------------------------------------------------------------------------
(* Properties *)

Position == [lower : Ticks, upper : Ticks, liquidity : 0..MaxLiquidity]
SwapState ==
  [phase : {"idle", "walking", "done"}, zero_for_one : BOOLEAN, limit : Prices,
   sqrt_price : Prices, tick : MIN_TICK..MAX_TICK, liquidity : 0..MaxLiquidity,
   array : ArrayStarts, matched : BOOLEAN]

(* Every word stays in its range: liquidity_gross and the pool's liquidity *)
(* never go below zero (add_delta), and the current tick never leaves      *)
(* MIN_TICK..MAX_TICK, although crossing a tick downwards steps past it.   *)
TypeOK ==
  /\ liquidity_net \in [Ticks -> Int]
  /\ liquidity_gross \in [Ticks -> 0..MaxLiquidity]
  /\ initialized_tick_count \in [ArrayStarts -> Int]
  /\ tick_array_bitmap \subseteq ArrayStarts
  /\ protocol_liquidity \in [Ranges -> 0..MaxLiquidity]
  /\ position \in [Nft -> Position \cup {NoPosition}]
  /\ liquidity \in 0..MaxLiquidity
  /\ sqrt_price \in Prices
  /\ tick_current \in MIN_TICK..MAX_TICK
  /\ swap \in SwapState

(* The liquidity of all the positions whose range holds a tick.            *)
LiquidityAt(tick) ==
  LiquidityOf({n \in Open : position[n].lower <= tick /\ tick < position[n].upper})

(* PoolState.liquidity, which modify_position and swap_internal keep up    *)
(* incrementally, is the liquidity of the positions in range.              *)
ActiveLiquidity == liquidity = LiquidityAt(tick_current)

(* So is SwapState.liquidity at every turn of the swap loop, after any     *)
(* number of ticks crossed in either direction.                            *)
WalkLiquidity == swap.phase # "idle" => swap.liquidity = LiquidityAt(swap.tick)

(* What the ticks and the protocol positions hold is what the personal     *)
(* positions put there: gross counts every position that ends at the tick, *)
(* net those that start there less those that stop there.                  *)
LedgerAgrees ==
  LET From(t) == LiquidityOf({n \in Open : position[n].lower = t})
      To(t)   == LiquidityOf({n \in Open : position[n].upper = t})
  IN  /\ \A t \in Ticks : /\ liquidity_gross[t] = From(t) + To(t)
                          /\ liquidity_net[t] = From(t) - To(t)
      /\ \A r \in Ranges :
           protocol_liquidity[r] =
             LiquidityOf({n \in Open : <<position[n].lower, position[n].upper>> = r})

(* A tick array's count is the number of its initialized ticks, and its    *)
(* bit is set exactly when there are some: the swap loop takes the bitmap  *)
(* for the truth, and a stale bit makes first_initialized_tick fail.       *)
ArrayIndexExact ==
  /\ \A a \in ArrayStarts : initialized_tick_count[a] = Cardinality(InitializedIn(a))
  /\ tick_array_bitmap = {a \in ArrayStarts : InitializedIn(a) # {}}

(* A tick belongs to a price: the price lies between that of the tick and  *)
(* that of the next, either end included, since a swap that goes down to a *)
(* tick leaves the pool below it with the price of that tick.              *)
Fits(tick, price) ==
  /\ SqrtPrice[tick] <= price
  /\ tick < MAX_TICK => price <= SqrtPrice[tick + 1]
TickFitsPrice ==
  /\ Fits(tick_current, sqrt_price)
  /\ swap.phase # "idle" => Fits(swap.tick, swap.sqrt_price)

(* The walk over arrays and bitmap finds, at every turn, the nearest       *)
(* initialized tick of the whole pool: it skips none, and it stops with    *)
(* LiquidityInsufficient only when there is none ahead.                    *)
WalkSkipsNoTick ==
  swap.phase = "walking" =>
    LET ahead == Ahead(Initialized, swap.tick, swap.zero_for_one)
    IN  \A t \in Ticks :
          Nearest(t, ahead, swap.zero_for_one)
            <=> \E a \in ArrayStarts : IsNextTick(swap, a, t)

(* The checks that swap_internal makes in its loop never fail: the tick    *)
(* and price it heads for lie ahead, and crossing a tick takes off no more *)
(* liquidity than there is.                                                *)
WalkNeverRejected ==
  swap.phase = "walking" =>
    \A a \in ArrayStarts, t \in Ticks :
      IsNextTick(swap, a, t) => StepInOrder(swap, t) /\ AddDeltaOk(Crossed(swap, t), 0)

(* The swap loop ends: every turn that does not finish the walk carries    *)
(* the tick strictly further in the direction of the swap, although        *)
(* crossing a tick may leave the price where it is.                        *)
WalkAdvances ==
  [][swap.phase = "walking" /\ swap'.phase = "walking" =>
       IF swap.zero_for_one THEN swap'.tick < swap.tick ELSE swap'.tick > swap.tick]_vars

(* The book as its customers see it.                                       *)
Ledger == INSTANCE RangeLedger WITH
  Holder <- Nft, NoStake <- NoPosition, Tick <- MIN_TICK..MAX_TICK,
  stake <- position, tick <- tick_current, active <- liquidity

(* The pool implements the ledger of stakes: every instruction changes at  *)
(* most one position or moves the price, and leaves the active liquidity   *)
(* equal to the stakes in range.                                           *)
ImplementsLedger == Ledger!Spec

=============================================================================
