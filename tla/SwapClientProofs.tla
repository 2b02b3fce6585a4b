---------------------------- MODULE SwapClientProofs ----------------------------
(***************************************************************************)
(* The theorem that the client's quote is kept: whatever the pool, its     *)
(* book, the mints and the request, the walk of swap_compute and the walk  *)
(* of swap_internal over the arrays that the client sends are the same     *)
(* walk, turn by turn.  And what such walks with real amounts leave in the *)
(* pool agrees with the book, as the turns of TickLiquidity's loop do.     *)
(*                                                                         *)
(* Both are loops that are taken as functions of the number of turns, so   *)
(* the first thing to prove is that there are such functions.              *)
(***************************************************************************)
EXTENDS SwapClient, TickLiquidityProofs, SequenceTheorems

Steps == INSTANCE SwapMathProofs WITH
           PriceLower <- SqrtPrice[MIN_TICK], PriceUpper <- SqrtPrice[MAX_TICK],
           MaxAmount <- Q64 - 1, reserve_0 <- 0, reserve_1 <- 0

-----------------------------------------------------------------------------
(* Loops *)

(* What holds at first and goes on from each number to the next holds of   *)
(* all: there is no smallest number of which it does not.                  *)
LEMMA EveryNat ==
  ASSUME NEW S, 0 \in S, \A n \in Nat : n \in S => n + 1 \in S
  PROVE  \A n \in Nat : n \in S
<1> SUFFICES ASSUME NEW m \in Nat, m \notin S
             PROVE  FALSE
  OBVIOUS
<1> DEFINE Outside == Nat \ S
<1>1. PICK n \in Outside : \A k \in Outside : ~(<<k, n>> \in OpToRel(<, Nat))
  <2>1. Outside \subseteq Nat /\ Outside # {}  OBVIOUS
  <2> QED  BY <2>1, WFMin, NatLessThanWellFounded
<1>2. n \in Nat \ {0} /\ n - 1 \in Nat /\ n - 1 < n /\ (n - 1) + 1 = n
  <2>1. n \in Nat /\ n \notin S  BY <1>1
  <2>2. n # 0  BY <2>1
  <2> QED  BY <2>1, <2>2
<1>3. <<n - 1, n>> \in OpToRel(<, Nat)  BY <1>2 DEF OpToRel
<1> QED  BY <1>1, <1>2, <1>3

(* The loop that applies g again and again to s.                           *)
IsLoop(f, g, s) == f[0] = s /\ \A n \in Nat : f[n + 1] = g[f[n]]

LEMMA LoopExists ==
  ASSUME NEW S, NEW g \in [S -> S], NEW s \in S
  PROVE  \E f \in [Nat -> S] : IsLoop(f, g, s)
<1> DEFINE Begun(t, n) == t[0] = s /\ \A i \in 0..(n - 1) : t[i + 1] = g[t[i]]
           Reach == {n \in Nat : \E t \in [0..n -> S] : Begun(t, n)}
<1>1. \A n \in Nat : n \in Reach
  <2>1. 0 \in Reach
    <3>1. [i \in 0..0 |-> s] \in [0..0 -> S] /\ Begun([i \in 0..0 |-> s], 0)  OBVIOUS
    <3> QED  BY <3>1
  <2>2. ASSUME NEW n \in Nat, n \in Reach
        PROVE  n + 1 \in Reach
    <3>1. PICK t \in [0..n -> S] : Begun(t, n)  BY <2>2
    <3> DEFINE u == [i \in 0..(n + 1) |-> IF i = n + 1 THEN g[t[n]] ELSE t[i]]
    <3>2. u \in [0..(n + 1) -> S]  BY <3>1
    <3>3. Begun(u, n + 1)
      <4>1. u[0] = s  BY <3>1
      <4>2. ASSUME NEW i \in 0..n
            PROVE  u[i + 1] = g[u[i]]
        <5>1. u[i] = t[i]  OBVIOUS
        <5>2. CASE i = n  BY <5>1, <5>2
        <5>3. CASE i # n
          <6>1. i \in 0..(n - 1) /\ u[i + 1] = t[i + 1]  BY <5>3
          <6> QED  BY <3>1, <5>1, <6>1
        <5> QED  BY <5>2, <5>3
      <4>3. (n + 1) - 1 = n  OBVIOUS
      <4> HIDE DEF u
      <4> QED  BY <4>1, <4>2, <4>3
    <3> HIDE DEF u, Begun
    <3> QED  BY <3>2, <3>3
  <2> HIDE DEF Reach
  <2> QED  BY <2>1, <2>2, EveryNat
(* Any two of them agree as far as both go.                                *)
<1>2. ASSUME NEW m \in Nat, NEW n \in Nat, m <= n,
             NEW t \in [0..m -> S], Begun(t, m), NEW u \in [0..n -> S], Begun(u, n)
      PROVE  t[m] = u[m]
  <2> DEFINE Same == {i \in Nat : i <= m => t[i] = u[i]}
  <2>1. 0 \in Same  BY <1>2
  <2>2. ASSUME NEW i \in Nat, i \in Same
        PROVE  i + 1 \in Same
    <3> SUFFICES ASSUME i + 1 <= m
                 PROVE  t[i + 1] = u[i + 1]
      OBVIOUS
    <3>1. i \in 0..(m - 1) /\ i \in 0..(n - 1) /\ i <= m  BY <1>2
    <3> QED  BY <1>2, <2>2, <3>1
  <2> HIDE DEF Same
  <2>3. m \in Same  BY <2>1, <2>2, EveryNat
  <2> QED  BY <2>3 DEF Same
<1> DEFINE T(n) == CHOOSE t \in [0..n -> S] : Begun(t, n)
           f == [n \in Nat |-> T(n)[n]]
<1>3. \A n \in Nat : T(n) \in [0..n -> S] /\ Begun(T(n), n)
  <2> HIDE DEF Begun
  <2> QED  BY <1>1
<1>4. f \in [Nat -> S]
  <2> HIDE DEF T, Begun
  <2> QED  BY <1>3
<1>5. f[0] = s
  <2> HIDE DEF T
  <2> QED  BY <1>3
<1>6. ASSUME NEW n \in Nat
      PROVE  f[n + 1] = g[f[n]]
  <2>1. n <= n + 1 /\ n + 1 \in Nat /\ n \in 0..((n + 1) - 1)  OBVIOUS
  <2>2. T(n)[n] = T(n + 1)[n]
    <3> HIDE DEF T, Begun
    <3> QED  BY <1>2, <1>3, <2>1
  <2>3. T(n + 1)[n + 1] = g[T(n + 1)[n]]
    <3> HIDE DEF T
    <3> QED  BY <1>3, <2>1
  <2> HIDE DEF T
  <2> QED  BY <2>1, <2>2, <2>3
<1> HIDE DEF f
<1> QED  BY <1>4, <1>5, <1>6 DEF IsLoop

(* The two walks, and the loading of the arrays, are such loops over any   *)
(* set that holds the start and that no turn leaves.                       *)
LEMMA ProgramLoop ==
  ASSUME NEW pool, NEW ticks, NEW S, NEW start \in S,
         \A w \in S : ProgramTurn(pool, ticks, w) \in S
  PROVE  LET walk == ProgramTurns(pool, ticks, start)
         IN  /\ walk \in [Nat -> S]
             /\ walk[0] = start
             /\ \A n \in Nat : walk[n + 1] = ProgramTurn(pool, ticks, walk[n])
<1> DEFINE g == [w \in S |-> ProgramTurn(pool, ticks, w)]
           Is(f) == f = [n \in Nat |-> IF n = 0 THEN start
                                       ELSE ProgramTurn(pool, ticks, f[n - 1])]
           walk == ProgramTurns(pool, ticks, start)
<1>1. PICK f \in [Nat -> S] : IsLoop(f, g, start)
  <2>1. g \in [S -> S]  OBVIOUS
  <2> HIDE DEF g
  <2> QED  BY <2>1, LoopExists
<1>2. Is(f)
  <2>1. ASSUME NEW n \in Nat
        PROVE  f[n] = IF n = 0 THEN start ELSE ProgramTurn(pool, ticks, f[n - 1])
    <3>1. CASE n = 0  BY <1>1, <3>1 DEF IsLoop
    <3>2. CASE n # 0
      <4>1. n - 1 \in Nat /\ (n - 1) + 1 = n  BY <3>2
      <4>2. f[n] = g[f[n - 1]]  BY <1>1, <4>1 DEF IsLoop
      <4> QED  BY <1>1, <3>2, <4>1, <4>2
    <3> QED  BY <3>1, <3>2
  <2> QED  BY <1>1, <2>1
<1>3. Is(walk)  BY <1>2 DEF ProgramTurns
<1> HIDE DEF walk
<1>4. walk[0] = start  BY <1>3
<1>5. \A n \in Nat : walk[n + 1] = ProgramTurn(pool, ticks, walk[n])
  <2> TAKE n \in Nat
  <2>1. n + 1 \in Nat \ {0} /\ (n + 1) - 1 = n  OBVIOUS
  <2> QED  BY <1>3, <2>1
<1>6. \A n \in Nat : walk[n] \in S
  <2> DEFINE In == {n \in Nat : walk[n] \in S}
  <2>1. 0 \in In  BY <1>4
  <2>2. \A n \in Nat : n \in In => n + 1 \in In  BY <1>5
  <2> HIDE DEF In
  <2>3. \A n \in Nat : n \in In  BY <2>1, <2>2, EveryNat
  <2> QED  BY <2>3 DEF In
<1>7. walk \in [Nat -> S]  BY <1>3, <1>6
<1> QED  BY <1>4, <1>5, <1>7 DEF walk

LEMMA ClientLoop ==
  ASSUME NEW pool, NEW ticks, NEW S, NEW start \in S,
         \A w \in S : ClientTurn(pool, ticks, w) \in S
  PROVE  LET walk == ClientTurns(pool, ticks, start)
         IN  /\ walk \in [Nat -> S]
             /\ walk[0] = start
             /\ \A n \in Nat : walk[n + 1] = ClientTurn(pool, ticks, walk[n])
<1> DEFINE g == [w \in S |-> ClientTurn(pool, ticks, w)]
           Is(f) == f = [n \in Nat |-> IF n = 0 THEN start
                                       ELSE ClientTurn(pool, ticks, f[n - 1])]
           walk == ClientTurns(pool, ticks, start)
<1>1. PICK f \in [Nat -> S] : IsLoop(f, g, start)
  <2>1. g \in [S -> S]  OBVIOUS
  <2> HIDE DEF g
  <2> QED  BY <2>1, LoopExists
<1>2. Is(f)
  <2>1. ASSUME NEW n \in Nat
        PROVE  f[n] = IF n = 0 THEN start ELSE ClientTurn(pool, ticks, f[n - 1])
    <3>1. CASE n = 0  BY <1>1, <3>1 DEF IsLoop
    <3>2. CASE n # 0
      <4>1. n - 1 \in Nat /\ (n - 1) + 1 = n  BY <3>2
      <4>2. f[n] = g[f[n - 1]]  BY <1>1, <4>1 DEF IsLoop
      <4> QED  BY <1>1, <3>2, <4>1, <4>2
    <3> QED  BY <3>1, <3>2
  <2> QED  BY <1>1, <2>1
<1>3. Is(walk)  BY <1>2 DEF ClientTurns
<1> HIDE DEF walk
<1>4. walk[0] = start  BY <1>3
<1>5. \A n \in Nat : walk[n + 1] = ClientTurn(pool, ticks, walk[n])
  <2> TAKE n \in Nat
  <2>1. n + 1 \in Nat \ {0} /\ (n + 1) - 1 = n  OBVIOUS
  <2> QED  BY <1>3, <2>1
<1>6. \A n \in Nat : walk[n] \in S
  <2> DEFINE In == {n \in Nat : walk[n] \in S}
  <2>1. 0 \in In  BY <1>4
  <2>2. \A n \in Nat : n \in In => n + 1 \in In  BY <1>5
  <2> HIDE DEF In
  <2>3. \A n \in Nat : n \in In  BY <2>1, <2>2, EveryNat
  <2> QED  BY <2>3 DEF In
<1>7. walk \in [Nat -> S]  BY <1>3, <1>6
<1> QED  BY <1>4, <1>5, <1>7 DEF walk

LEMMA ArraysLoop ==
  ASSUME NEW pool, NEW a, NEW zero_for_one, NEW S, <<a>> \in S,
         \A s \in S : WithNext(pool, zero_for_one, s) \in S
  PROVE  LET loaded == ArraysLoaded(pool, a, zero_for_one)
         IN  /\ loaded \in [Nat -> S]
             /\ loaded[0] = <<a>>
             /\ \A n \in Nat : loaded[n + 1] = WithNext(pool, zero_for_one, loaded[n])
<1> DEFINE g == [s \in S |-> WithNext(pool, zero_for_one, s)]
           Is(f) == f = [n \in Nat |-> IF n = 0 THEN <<a>>
                                       ELSE WithNext(pool, zero_for_one, f[n - 1])]
           loaded == ArraysLoaded(pool, a, zero_for_one)
<1>1. PICK f \in [Nat -> S] : IsLoop(f, g, <<a>>)
  <2>1. g \in [S -> S]  OBVIOUS
  <2> HIDE DEF g
  <2> QED  BY <2>1, LoopExists
<1>2. Is(f)
  <2>1. ASSUME NEW n \in Nat
        PROVE  f[n] = IF n = 0 THEN <<a>> ELSE WithNext(pool, zero_for_one, f[n - 1])
    <3>1. CASE n = 0  BY <1>1, <3>1 DEF IsLoop
    <3>2. CASE n # 0
      <4>1. n - 1 \in Nat /\ (n - 1) + 1 = n  BY <3>2
      <4>2. f[n] = g[f[n - 1]]  BY <1>1, <4>1 DEF IsLoop
      <4> QED  BY <1>1, <3>2, <4>1, <4>2
    <3> QED  BY <3>1, <3>2
  <2> QED  BY <1>1, <2>1
<1>3. Is(loaded)  BY <1>2 DEF ArraysLoaded
<1> HIDE DEF loaded
<1>4. loaded[0] = <<a>>  BY <1>3
<1>5. \A n \in Nat : loaded[n + 1] = WithNext(pool, zero_for_one, loaded[n])
  <2> TAKE n \in Nat
  <2>1. n + 1 \in Nat \ {0} /\ (n + 1) - 1 = n  OBVIOUS
  <2> QED  BY <1>3, <2>1
<1>6. \A n \in Nat : loaded[n] \in S
  <2> DEFINE In == {n \in Nat : loaded[n] \in S}
  <2>1. 0 \in In  BY <1>4
  <2>2. \A n \in Nat : n \in In => n + 1 \in In  BY <1>5
  <2> HIDE DEF In
  <2>3. \A n \in Nat : n \in In  BY <2>1, <2>2, EveryNat
  <2> QED  BY <2>3 DEF In
<1>7. loaded \in [Nat -> S]  BY <1>3, <1>6
<1> QED  BY <1>4, <1>5, <1>7 DEF loaded

-----------------------------------------------------------------------------
(* A step of a walk *)

LEMMA ClientConstants ==
  /\ Q64 \in Nat \ {0} /\ Q64 - 1 \in 1..(Q64 - 1)
  /\ SqrtPrice[MIN_TICK] \in Nat \ {0} /\ SqrtPrice[MAX_TICK] \in Nat
  /\ SqrtPrice[MIN_TICK] < SqrtPrice[MAX_TICK] /\ SqrtPrice[MAX_TICK] < Q64 * Q64
  /\ FEE_RATE_DENOMINATOR_VALUE \in Nat /\ trade_fee_rate \in Nat
  /\ trade_fee_rate < FEE_RATE_DENOMINATOR_VALUE
  /\ MaxLiquidity \in Nat
BY WordAssumption, PriceAssumption, TickAssumption, LiquidityAssumption

(* SwapMath's theorems are about the same operators as the client's.       *)
LEMMA SameStep ==
  ASSUME NEW price, NEW target, NEW liq, NEW remaining, NEW is_base_input, NEW zero_for_one
  PROVE  Steps!ComputeSwapStep(price, target, liq, remaining, is_base_input, zero_for_one)
         = Math!ComputeSwapStep(price, target, liq, remaining, is_base_input, zero_for_one)
BY DEF Steps!ComputeSwapStep, Steps!NextPrice, Steps!AmountIn, Steps!AmountOut,
       Steps!CapOutput, Steps!StepFee, Steps!LessFee, Steps!MulDivFloor,
       Steps!MulDivCeil, Steps!DivRoundingUp, Steps!GetDeltaAmount0,
       Steps!GetDeltaAmount1, Steps!GetNextSqrtPriceFromInput,
       Steps!GetNextSqrtPriceFromOutput, Steps!NextPriceFromAmount0,
       Steps!NextPriceFromAmount1,
       Math!ComputeSwapStep, Math!NextPrice, Math!AmountIn, Math!AmountOut,
       Math!CapOutput, Math!StepFee, Math!LessFee, Math!MulDivFloor,
       Math!MulDivCeil, Math!DivRoundingUp, Math!GetDeltaAmount0,
       Math!GetDeltaAmount1, Math!GetNextSqrtPriceFromInput,
       Math!GetNextSqrtPriceFromOutput, Math!NextPriceFromAmount0,
       Math!NextPriceFromAmount1

Paid(step) == step.amount_in + step.fee_amount
Spent(step, is_base_input) == IF is_base_input THEN Paid(step) ELSE step.amount_out
Gained(step, is_base_input) == IF is_base_input THEN step.amount_out ELSE Paid(step)

(* A step stays between price and target, spends no more than there is,    *)
(* all of it when it stops short, and gains nothing when it stands still.  *)
StepFrom(price, target, remaining, is_base_input, zero_for_one, step) ==
  LET next  == step.sqrt_price_next
      spent == Spent(step, is_base_input)
  IN  /\ next \in Prices
      /\ IF zero_for_one THEN target <= next /\ next <= price
                         ELSE price <= next /\ next <= target
      /\ spent \in Nat /\ spent <= remaining /\ Gained(step, is_base_input) \in Nat
      /\ next # target => spent = remaining
      /\ next = price => Gained(step, is_base_input) = 0

LEMMA StepOf ==
  ASSUME NEW price \in Prices, NEW liq \in Nat, NEW target \in Prices,
         NEW remaining \in Nat \ {0},
         NEW is_base_input \in BOOLEAN, NEW zero_for_one \in BOOLEAN,
         IF zero_for_one THEN target <= price ELSE price <= target
  PROVE  StepFrom(price, target, remaining, is_base_input, zero_for_one,
           Math!ComputeSwapStep(price, target, liq, remaining, is_base_input, zero_for_one))
<1> DEFINE step == Math!ComputeSwapStep(price, target, liq, remaining,
                                        is_base_input, zero_for_one)
           next == step.sqrt_price_next
<1>1. Steps!Prices = Prices  BY DEF Prices, Steps!Prices
<1>2. Steps!ComputeSwapStep(price, target, liq, remaining, is_base_input, zero_for_one) = step
  BY SameStep
<1> HIDE DEF step
<1>3. /\ next \in Prices
      /\ IF zero_for_one THEN target <= next /\ next <= price
                         ELSE price <= next /\ next <= target
      /\ step.amount_in \in Nat /\ step.amount_out \in Nat /\ step.fee_amount \in Nat
      /\ IF next = target
         THEN Steps!AmountUsed(step, is_base_input) <= remaining
         ELSE Steps!AmountUsed(step, is_base_input) = remaining
  BY <1>1, <1>2, ClientConstants, Steps!AnyStepIs
<1>4. next = price => /\ step.amount_out = 0
                      /\ ~is_base_input => Paid(step) = 0
  BY <1>1, <1>2, ClientConstants, Steps!NoMoveNoTrade DEF Paid
<1>5. Steps!AmountUsed(step, is_base_input) = Spent(step, is_base_input)
  BY DEF Steps!AmountUsed, Spent, Paid
<1>6. Spent(step, is_base_input) \in Nat /\ Gained(step, is_base_input) \in Nat
  BY <1>3 DEF Spent, Gained, Paid
<1>7. Spent(step, is_base_input) <= remaining
      /\ (next # target => Spent(step, is_base_input) = remaining)
  BY <1>3, <1>5, <1>6
<1>8. next = price => Gained(step, is_base_input) = 0
  BY <1>4 DEF Gained
<1>9. StepFrom(price, target, remaining, is_base_input, zero_for_one, step)
  BY <1>3, <1>6, <1>7, <1>8 DEF StepFrom
<1> QED  BY <1>9 DEF step

-----------------------------------------------------------------------------
(* A turn of a walk *)

Pools ==
  {pool \in [sqrt_price : Prices, tick : MIN_TICK..MAX_TICK, liquidity : 0..MaxLiquidity,
             bitmap : SUBSET ArrayStarts] : Fits(pool.tick, pool.sqrt_price)}
Books == [net : [Ticks -> Int], initialized : SUBSET Ticks]

(* The limits that the program takes.                                      *)
LimitInside(request) ==
  LimitOf(request) \in Prices \ {SqrtPrice[MIN_TICK], SqrtPrice[MAX_TICK]}

Walks(request) ==
  [phase : {"walking", "failed", "done"}, request : {request}, sqrt_price : Prices,
   tick : MIN_TICK..MAX_TICK, liquidity : 0..MaxLiquidity, remaining : Nat,
   calculated : Nat, first : ArrayStarts, array : ArrayStarts,
   arrays : Seq(ArrayStarts), used : Seq(ArrayStarts), matched : BOOLEAN, turns : Nat]

(* Array a lies past array b, and tick t where the walk is heading.        *)
Past(request, a, b) == IF request.zero_for_one THEN a < b ELSE b < a
Heads(walk, t) == IF walk.request.zero_for_one THEN t <= walk.tick ELSE walk.tick < t

(* What the next turn needs: the walk has left neither the ticks of its    *)
(* array nor those right behind it, or has its first array still ahead.    *)
Placed(walk) ==
  IF walk.matched
  THEN IF walk.request.zero_for_one THEN walk.array - 1 <= walk.tick
                                    ELSE ArrayStart(walk.tick) <= walk.array
  ELSE Past(walk.request, walk.array, ArrayStart(walk.tick))

(* A walk that began in pool has not gone past its limit, and what it has  *)
(* gained moved its price.                                                 *)
OnWay(pool, walk) ==
  /\ Fits(walk.tick, walk.sqrt_price)
  /\ IF walk.request.zero_for_one
     THEN LimitOf(walk.request) <= walk.sqrt_price /\ walk.sqrt_price <= pool.sqrt_price
     ELSE walk.sqrt_price <= LimitOf(walk.request) /\ pool.sqrt_price <= walk.sqrt_price
  /\ walk.calculated > 0 => walk.sqrt_price # pool.sqrt_price
  /\ walk.phase = "walking" /\ ~Over(walk) => Placed(walk)

LEMMA RequestIs ==
  ASSUME NEW request \in Requests
  PROVE  /\ request.zero_for_one \in BOOLEAN /\ request.is_base_input \in BOOLEAN
         /\ request.amount \in Nat /\ request.kind \in {"Swap", "SwapV2"}
BY OfferAssumption DEF Requests

(* How far a step towards tick t may go.                                   *)
Reach(walk, t) ==
  IF walk.request.zero_for_one THEN Max({SqrtPrice[t], LimitOf(walk.request)})
                               ELSE Min({SqrtPrice[t], LimitOf(walk.request)})

LEMMA ReachIs ==
  ASSUME NEW pool \in Pools, NEW request \in Requests, LimitInside(request),
         NEW walk \in Walks(request), OnWay(pool, walk),
         NEW t \in Ticks, Heads(walk, t)
  PROVE  /\ Reach(walk, t) \in Prices
         /\ Reach(walk, t) \in {SqrtPrice[t], LimitOf(request)}
         /\ IF request.zero_for_one
            THEN LimitOf(request) <= Reach(walk, t) /\ Reach(walk, t) <= walk.sqrt_price
            ELSE Reach(walk, t) <= LimitOf(request) /\ walk.sqrt_price <= Reach(walk, t)
<1> DEFINE p == SqrtPrice[t]
           limit == LimitOf(request)
<1>1. /\ walk.request = request /\ walk.sqrt_price \in Prices
      /\ walk.tick \in MIN_TICK..MAX_TICK
      /\ request.zero_for_one \in BOOLEAN
  BY RequestIs DEF Walks
<1>2. p \in Prices /\ p \in Nat /\ limit \in Prices /\ limit \in Nat
      /\ walk.sqrt_price \in Nat
  BY <1>1, TicksType, PriceFacts DEF LimitInside
<1>3. t \in MIN_TICK..MAX_TICK /\ t \in Int /\ MIN_TICK \in Int /\ MAX_TICK \in Int
  BY TicksType, TickAssumption
<1>4. CASE request.zero_for_one
  <2>1. Reach(walk, t) = Max({p, limit})  BY <1>1, <1>4 DEF Reach
  <2>2. Max({p, limit}) \in {p, limit} /\ limit <= Max({p, limit})
        /\ p <= Max({p, limit})
    <3>1. \E x \in {p, limit} : \A y \in {p, limit} : x >= y  BY <1>2
    <3>2. Max({p, limit}) \in {p, limit} /\ \A y \in {p, limit} : Max({p, limit}) >= y
      BY <3>1 DEF Max
    <3> HIDE DEF p, limit
    <3> QED  BY <1>2, <3>2
  <2>3. p <= walk.sqrt_price
    <3>1. t <= walk.tick  BY <1>1, <1>4 DEF Heads
    <3>2. SqrtPrice[t] <= SqrtPrice[walk.tick]  BY <1>1, <1>3, <3>1, PriceFacts
    <3>3. SqrtPrice[walk.tick] <= walk.sqrt_price  BY DEF OnWay, Fits
    <3>4. SqrtPrice[walk.tick] \in Nat  BY <1>1, PriceFacts
    <3> QED  BY <1>2, <3>2, <3>3, <3>4
  <2>4. limit <= walk.sqrt_price  BY <1>1, <1>4 DEF OnWay
  <2> HIDE DEF p, limit
  <2> QED  BY <1>2, <1>4, <2>1, <2>2, <2>3, <2>4 DEF p, limit
<1>5. CASE ~request.zero_for_one
  <2>1. Reach(walk, t) = Min({p, limit})  BY <1>1, <1>5 DEF Reach
  <2>2. Min({p, limit}) \in {p, limit} /\ Min({p, limit}) <= limit
        /\ Min({p, limit}) <= p
    <3>1. \E x \in {p, limit} : \A y \in {p, limit} : x <= y  BY <1>2
    <3>2. Min({p, limit}) \in {p, limit} /\ \A y \in {p, limit} : Min({p, limit}) <= y
      BY <3>1 DEF Min
    <3> HIDE DEF p, limit
    <3> QED  BY <1>2, <3>2
  <2>3. walk.sqrt_price <= p
    <3>1. walk.tick < t /\ walk.tick < MAX_TICK /\ walk.tick + 1 \in MIN_TICK..MAX_TICK
          /\ walk.tick + 1 <= t
      BY <1>1, <1>3, <1>5 DEF Heads
    <3>2. SqrtPrice[walk.tick + 1] <= SqrtPrice[t]  BY <1>3, <3>1, PriceFacts
    <3>3. walk.sqrt_price <= SqrtPrice[walk.tick + 1]  BY <3>1 DEF OnWay, Fits
    <3>4. SqrtPrice[walk.tick + 1] \in Nat  BY <3>1, PriceFacts
    <3> QED  BY <1>2, <3>2, <3>3, <3>4
  <2>4. walk.sqrt_price <= limit  BY <1>1, <1>5 DEF OnWay
  <2> HIDE DEF p, limit
  <2> QED  BY <1>2, <1>5, <2>1, <2>2, <2>3, <2>4 DEF p, limit
<1> QED  BY <1>1, <1>4, <1>5

LEMMA FailedIs ==
  ASSUME NEW request, NEW walk \in Walks(request)
  PROVE  /\ Failed(walk) \in Walks(request) /\ Failed(walk).phase = "failed"
         /\ Failed(walk).first = walk.first /\ Failed(walk).array = walk.array
         /\ Failed(walk).arrays = walk.arrays /\ Failed(walk).used = walk.used
         /\ Failed(walk).tick = walk.tick /\ Failed(walk).sqrt_price = walk.sqrt_price
         /\ Failed(walk).calculated = walk.calculated
BY DEF Failed, Walks

(* A walk and what a step makes of it.                                     *)
Stepped(pool, walk, after) ==
  /\ after \in Walks(walk.request) /\ OnWay(pool, after)
  /\ after.phase = "walking" /\ after.matched
  /\ after.first = walk.first /\ after.array = walk.array
  /\ after.arrays = walk.arrays /\ after.used = walk.used
  /\ ~Over(after) => IF walk.request.zero_for_one THEN after.tick < walk.tick
                                                  ELSE walk.tick < after.tick

(* The fields of a walk after a step that the liquidity survived.          *)
FieldsAfter(ticks, walk, t, step, after) ==
  LET request == walk.request
      next    == step.sqrt_price_next
      crossed == walk.liquidity + (IF request.zero_for_one THEN -ticks.net[t]
                                                           ELSE ticks.net[t])
      reached == next = SqrtPrice[t]
  IN  /\ reached => AddDeltaOk(crossed, 0)
      /\ after \in [phase : {walk.phase}, request : {request}, sqrt_price : {next},
           tick : {IF reached THEN IF request.zero_for_one THEN t - 1 ELSE t
                   ELSE IF next # walk.sqrt_price THEN TickAt[next] ELSE walk.tick},
           liquidity : {IF reached THEN crossed ELSE walk.liquidity},
           remaining : {walk.remaining - Spent(step, request.is_base_input)},
           calculated : {walk.calculated + Gained(step, request.is_base_input)},
           first : {walk.first}, array : {walk.array}, arrays : {walk.arrays},
           used : {walk.used}, matched : {TRUE}, turns : {walk.turns + 1}]

LEMMA AfterStepIs ==
  ASSUME NEW request \in Requests, NEW walk \in Walks(request), NEW ticks \in Books,
         NEW t \in Ticks, NEW step,
         AfterStep(ticks, walk, t, step) # Failed(walk)
  PROVE  FieldsAfter(ticks, walk, t, step, AfterStep(ticks, walk, t, step))
<1> DEFINE next == step.sqrt_price_next
           spent == Spent(step, request.is_base_input)
           gained == Gained(step, request.is_base_input)
           crossed == walk.liquidity + (IF request.zero_for_one THEN -ticks.net[t]
                                                                ELSE ticks.net[t])
           reached == next = SqrtPrice[t]
           tick == IF reached THEN IF request.zero_for_one THEN t - 1 ELSE t
                   ELSE IF next # walk.sqrt_price THEN TickAt[next] ELSE walk.tick
           liq == IF reached THEN crossed ELSE walk.liquidity
           rest == walk.remaining - spent
           calc == walk.calculated + gained
           turns == walk.turns + 1
           after == [walk EXCEPT !.sqrt_price = next, !.tick = tick, !.liquidity = liq,
                                 !.remaining = rest, !.calculated = calc,
                                 !.matched = TRUE, !.turns = turns]
<1>1. walk.request = request  BY DEF Walks
<1>2. ~(reached /\ ~AddDeltaOk(crossed, 0))  BY <1>1 DEF AfterStep
<1>3. AfterStep(ticks, walk, t, step) = after
  BY <1>1, <1>2 DEF AfterStep, Gained, Spent, Paid, Walks
<1> HIDE DEF tick, liq, rest, calc, turns
<1>4. after \in
        [phase : {walk.phase}, request : {request}, sqrt_price : {next}, tick : {tick},
         liquidity : {liq}, remaining : {rest}, calculated : {calc},
         first : {walk.first}, array : {walk.array}, arrays : {walk.arrays},
         used : {walk.used}, matched : {TRUE}, turns : {turns}]
  BY DEF Walks
<1> HIDE DEF after
<1> QED  BY <1>1, <1>2, <1>3, <1>4 DEF tick, liq, rest, calc, turns, FieldsAfter

LEMMA StepToIs ==
  ASSUME NEW pool \in Pools, NEW ticks \in Books,
         NEW request \in Requests, LimitInside(request),
         NEW walk \in Walks(request), OnWay(pool, walk),
         walk.phase = "walking", walk.remaining # 0,
         NEW t \in Ticks, Heads(walk, t), ArrayStart(t) = walk.array
  PROVE  LET after == StepTo(ticks, walk, t)
         IN  after = Failed(walk) \/ Stepped(pool, walk, after)
<1> DEFINE after == StepTo(ticks, walk, t)
           target == Reach(walk, t)
           z == request.zero_for_one
           base == request.is_base_input
           limit == LimitOf(request)
           step == Math!ComputeSwapStep(walk.sqrt_price, target, walk.liquidity,
                                        walk.remaining, base, z)
           next == step.sqrt_price_next
           gained == Gained(step, base)
           spent == Spent(step, base)
           reached == next = SqrtPrice[t]
           crossed == walk.liquidity + (IF z THEN -ticks.net[t] ELSE ticks.net[t])
<1> SUFFICES ASSUME after # Failed(walk)
             PROVE  Stepped(pool, walk, after)
  OBVIOUS
<1>1. /\ walk.request = request /\ walk.sqrt_price \in Prices
      /\ walk.tick \in MIN_TICK..MAX_TICK /\ walk.tick \in Int
      /\ walk.liquidity \in 0..MaxLiquidity /\ walk.liquidity \in Nat
      /\ walk.remaining \in Nat /\ walk.calculated \in Nat
      /\ walk.first \in ArrayStarts /\ walk.array \in ArrayStarts
      /\ walk.arrays \in Seq(ArrayStarts) /\ walk.used \in Seq(ArrayStarts)
      /\ walk.turns \in Nat
      /\ z \in BOOLEAN /\ base \in BOOLEAN
  BY RequestIs, TickAssumption, LiquidityAssumption DEF Walks
<1>2. after = AfterStep(ticks, walk, t, step)
  <2>1. after = StepTowards(ticks, walk, t, target) /\ after # Failed(walk)
    BY DEF StepTo, Reach
  <2> HIDE DEF after, target
  <2> QED  BY <1>1, <2>1 DEF StepTowards
<1>3. /\ target \in Prices /\ target \in {SqrtPrice[t], limit}
      /\ IF z THEN limit <= target /\ target <= walk.sqrt_price
              ELSE target <= limit /\ walk.sqrt_price <= target
  BY ReachIs
<1> HIDE DEF after, target
<1>4. /\ next \in Prices
      /\ IF z THEN target <= next /\ next <= walk.sqrt_price
              ELSE walk.sqrt_price <= next /\ next <= target
      /\ spent \in Nat /\ spent <= walk.remaining /\ gained \in Nat
      /\ next # target => spent = walk.remaining
      /\ next = walk.sqrt_price => gained = 0
  <2>1. walk.remaining \in Nat \ {0}  BY <1>1
  <2>2. IF z THEN target <= walk.sqrt_price ELSE walk.sqrt_price <= target  BY <1>3
  <2>3. StepFrom(walk.sqrt_price, target, walk.remaining, base, z, step)
    BY <1>1, <1>3, <2>1, <2>2, StepOf
  <2> HIDE DEF step, z, base
  <2> QED  BY <2>3 DEF StepFrom
<1>5. /\ reached => AddDeltaOk(crossed, 0)
      /\ after \in [phase : {walk.phase}, request : {request}, sqrt_price : {next},
           tick : {IF reached THEN IF z THEN t - 1 ELSE t
                   ELSE IF next # walk.sqrt_price THEN TickAt[next] ELSE walk.tick},
           liquidity : {IF reached THEN crossed ELSE walk.liquidity},
           remaining : {walk.remaining - spent},
           calculated : {walk.calculated + gained},
           first : {walk.first}, array : {walk.array}, arrays : {walk.arrays},
           used : {walk.used}, matched : {TRUE}, turns : {walk.turns + 1}]
  <2> HIDE DEF step
  <2>1. FieldsAfter(ticks, walk, t, step, after)  BY <1>2, AfterStepIs
  <2> QED  BY <1>1, <2>1 DEF FieldsAfter
<1> DEFINE tick == IF reached THEN IF z THEN t - 1 ELSE t
                   ELSE IF next # walk.sqrt_price THEN TickAt[next] ELSE walk.tick
           liq == IF reached THEN crossed ELSE walk.liquidity
<1>6. /\ after.phase = "walking" /\ after.request = request /\ after.sqrt_price = next
      /\ after.tick = tick /\ after.remaining = walk.remaining - spent
      /\ after.calculated = walk.calculated + gained
      /\ after.first = walk.first /\ after.array = walk.array
      /\ after.arrays = walk.arrays /\ after.used = walk.used /\ after.matched = TRUE
  <2> DEFINE rest == walk.remaining - spent
             calc == walk.calculated + gained
             turns == walk.turns + 1
  <2>1. after \in [phase : {walk.phase}, request : {request}, sqrt_price : {next},
           tick : {tick}, liquidity : {liq}, remaining : {rest}, calculated : {calc},
           first : {walk.first}, array : {walk.array}, arrays : {walk.arrays},
           used : {walk.used}, matched : {TRUE}, turns : {turns}]
    BY <1>5
  <2> HIDE DEF tick, liq, next, rest, calc, turns
  <2>2. /\ after.phase = "walking" /\ after.request = request /\ after.sqrt_price = next
        /\ after.tick = tick /\ after.remaining = rest /\ after.calculated = calc
        /\ after.first = walk.first /\ after.array = walk.array
        /\ after.arrays = walk.arrays /\ after.used = walk.used /\ after.matched = TRUE
    BY <2>1
  <2> QED  BY <2>2 DEF rest, calc
<1>7. liq \in 0..MaxLiquidity
  <2>1. reached => crossed \in 0..MaxLiquidity
    <3>1. crossed \in Int
      <4>1. ticks.net[t] \in Int  BY DEF Books
      <4> HIDE DEF z
      <4> QED  BY <1>1, <4>1
    <3>2. crossed + 0 = crossed  BY <3>1
    <3> HIDE DEF crossed, reached
    <3> QED  BY <1>5, <3>2 DEF AddDeltaOk
  <2> HIDE DEF crossed, reached
  <2> QED  BY <1>1, <2>1
<1> HIDE DEF step, next, spent, gained
<1>8. /\ t \in MIN_TICK..MAX_TICK /\ t \in Int /\ MIN_TICK \in Int /\ MAX_TICK \in Int
      /\ next \in Nat /\ walk.sqrt_price \in Nat /\ pool.sqrt_price \in Nat
      /\ limit \in Prices /\ limit \in Nat /\ target \in Nat
      /\ limit # SqrtPrice[MIN_TICK] /\ SqrtPrice[MIN_TICK] <= limit
      /\ SqrtPrice[MIN_TICK] \in Nat
  <2>1. limit \in Prices /\ limit # SqrtPrice[MIN_TICK]  BY DEF LimitInside
  <2>2. pool.sqrt_price \in Prices  BY DEF Pools
  <2> HIDE DEF limit
  <2>3. SqrtPrice[MIN_TICK] <= limit
    <3>1. SqrtPrice[MIN_TICK] \in Nat /\ SqrtPrice[MAX_TICK] \in Nat  BY ClientConstants
    <3> QED  BY <2>1, <3>1 DEF Prices
  <2> QED  BY <1>1, <1>3, <1>4, <2>1, <2>2, <2>3, TicksType, PriceFacts, TickAssumption
<1>9. IF z THEN limit <= next /\ next <= pool.sqrt_price
           ELSE next <= limit /\ pool.sqrt_price <= next
  <2>1. IF z THEN walk.sqrt_price <= pool.sqrt_price ELSE pool.sqrt_price <= walk.sqrt_price
    BY <1>1 DEF OnWay
  <2> HIDE DEF z, limit
  <2> QED  BY <1>3, <1>4, <1>8, <2>1
<1>10. reached /\ z => t - 1 \in MIN_TICK..MAX_TICK
  <2> SUFFICES ASSUME reached, z
               PROVE  t # MIN_TICK
    BY <1>8
  <2>1. limit <= SqrtPrice[t]  BY <1>9
  <2> HIDE DEF limit
  <2> QED  BY <1>8, <2>1
<1>11. tick \in MIN_TICK..MAX_TICK /\ Fits(tick, next)
  <2>1. CASE reached /\ z
    <3>1. tick = t - 1 /\ t - 1 \in MIN_TICK..MAX_TICK /\ next = SqrtPrice[t]
      BY <1>10, <2>1
    <3>2. SqrtPrice[t - 1] <= SqrtPrice[t] /\ (t - 1) + 1 = t
          /\ SqrtPrice[t] <= SqrtPrice[t]
      <4>1. t - 1 <= t /\ (t - 1) + 1 = t /\ t <= t  BY <1>8
      <4> QED  BY <1>8, <3>1, <4>1, PriceFacts
    <3> HIDE DEF tick
    <3> QED  BY <3>1, <3>2 DEF Fits
  <2>2. CASE reached /\ ~z
    <3>1. tick = t /\ next = SqrtPrice[t]  BY <2>2
    <3>2. SqrtPrice[t] <= SqrtPrice[t]
          /\ (t < MAX_TICK => SqrtPrice[t] <= SqrtPrice[t + 1])
      <4>1. t <= t /\ (t < MAX_TICK => t + 1 \in MIN_TICK..MAX_TICK /\ t <= t + 1)  BY <1>8
      <4> QED  BY <1>8, <4>1, PriceFacts
    <3> HIDE DEF tick
    <3> QED  BY <1>8, <3>1, <3>2 DEF Fits
  <2>3. CASE ~reached /\ next # walk.sqrt_price
    <3>1. tick = TickAt[next]  BY <2>3
    <3> HIDE DEF tick
    <3> QED  BY <1>4, <3>1, TickAtFits
  <2>4. CASE ~reached /\ next = walk.sqrt_price
    <3>1. tick = walk.tick  BY <2>4
    <3>2. Fits(walk.tick, walk.sqrt_price)  BY DEF OnWay
    <3> HIDE DEF tick
    <3> QED  BY <1>1, <2>4, <3>1, <3>2
  <2> HIDE DEF tick, reached, z
  <2> QED  BY <2>1, <2>2, <2>3, <2>4
<1>12. after \in Walks(request)
  <2>1. walk.remaining - spent \in Nat /\ walk.calculated + gained \in Nat
        /\ walk.turns + 1 \in Nat
    BY <1>1, <1>4
  <2> HIDE DEF tick, liq
  <2>2. after \in [phase : {"walking"}, request : {request}, sqrt_price : {next},
           tick : {tick}, liquidity : {liq}, remaining : {walk.remaining - spent},
           calculated : {walk.calculated + gained},
           first : {walk.first}, array : {walk.array}, arrays : {walk.arrays},
           used : {walk.used}, matched : {TRUE}, turns : {walk.turns + 1}]
    BY <1>5 DEF tick, liq
  <2> QED  BY <1>1, <1>4, <1>7, <1>11, <2>1, <2>2 DEF Walks
<1>13. after.calculated > 0 => next # pool.sqrt_price
  <2> SUFFICES ASSUME after.calculated > 0, next = pool.sqrt_price
               PROVE  FALSE
    OBVIOUS
  <2>1. next = walk.sqrt_price
    <3>1. IF z THEN walk.sqrt_price <= pool.sqrt_price /\ next <= walk.sqrt_price
               ELSE pool.sqrt_price <= walk.sqrt_price /\ walk.sqrt_price <= next
      BY <1>1, <1>4 DEF OnWay
    <3> HIDE DEF z
    <3> QED  BY <1>8, <3>1
  <2>2. walk.calculated > 0  BY <1>1, <1>4, <1>6, <2>1
  <2> QED  BY <2>1, <2>2 DEF OnWay
(* Where the walk goes on, it has crossed t.                               *)
<1>14. ~Over(after) => reached
  <2> SUFFICES ASSUME ~reached
               PROVE  after.remaining = 0 \/ after.sqrt_price = limit
    BY <1>6 DEF Over
  <2>1. CASE next = target
    <3>1. next = limit  BY <1>3, <2>1
    <3> QED  BY <1>6, <3>1
  <2>2. CASE next # target
    <3>1. walk.remaining - spent = 0  BY <1>1, <1>4, <2>2
    <3> QED  BY <1>6, <3>1
  <2> QED  BY <2>1, <2>2
<1>15. reached => IF z THEN tick < walk.tick ELSE walk.tick < tick
  <2>1. IF z THEN t <= walk.tick ELSE walk.tick < t  BY <1>1 DEF Heads
  <2> SUFFICES ASSUME reached
               PROVE  IF z THEN tick < walk.tick ELSE walk.tick < tick
    OBVIOUS
  <2>2. tick = IF z THEN t - 1 ELSE t  OBVIOUS
  <2> HIDE DEF tick, z
  <2> QED  BY <1>1, <1>8, <2>1, <2>2
<1>16. ~Over(after) => Placed(after)
  <2> SUFFICES ASSUME reached
               PROVE  IF z THEN walk.array - 1 <= tick ELSE ArrayStart(tick) <= walk.array
    BY <1>6, <1>14 DEF Placed
  <2>1. walk.array \in Int /\ walk.array <= t  BY <1>8, ArrayStartBounds
  <2>2. tick = IF z THEN t - 1 ELSE t  OBVIOUS
  <2>3. walk.array <= walk.array  BY <2>1
  <2> HIDE DEF tick, z
  <2> QED  BY <1>8, <2>1, <2>2, <2>3
<1>17. OnWay(pool, after)
  <2> HIDE DEF tick, z, limit, reached
  <2>1. Fits(after.tick, after.sqrt_price)  BY <1>6, <1>11
  <2>2. IF after.request.zero_for_one
        THEN LimitOf(after.request) <= after.sqrt_price /\ after.sqrt_price <= pool.sqrt_price
        ELSE after.sqrt_price <= LimitOf(after.request) /\ pool.sqrt_price <= after.sqrt_price
    BY <1>6, <1>9 DEF z, limit
  <2>3. after.calculated > 0 => after.sqrt_price # pool.sqrt_price  BY <1>6, <1>13
  <2> QED  BY <1>16, <2>1, <2>2, <2>3 DEF OnWay
<1>18. ~Over(after) => IF walk.request.zero_for_one THEN after.tick < walk.tick
                                                   ELSE walk.tick < after.tick
  <2> HIDE DEF tick, reached
  <2> QED  BY <1>1, <1>6, <1>14, <1>15
<1> HIDE DEF reached, tick, z
<1> QED  BY <1>1, <1>6, <1>12, <1>17, <1>18 DEF Stepped

-----------------------------------------------------------------------------
(* Which tick, in which array *)

LEMMA NearestIs ==
  ASSUME NEW S, S \subseteq Int, NEW zero_for_one \in BOOLEAN,
         NEW t \in NearestOf(S, zero_for_one)
  PROVE  t \in S /\ NearestOf(S, zero_for_one) = {t}
<1>1. t \in S /\ Nearest(t, S, zero_for_one)  BY DEF NearestOf
<1>2. ASSUME NEW u \in NearestOf(S, zero_for_one)
      PROVE  u = t
  <2>1. u \in S /\ Nearest(u, S, zero_for_one)  BY DEF NearestOf
  <2>2. u \in Int /\ t \in Int  BY <1>1, <2>1
  <2> QED  BY <1>1, <2>1, <2>2 DEF Nearest
<1> QED  BY <1>1, <1>2

LEMMA ArrayAfterIs ==
  ASSUME NEW pool \in Pools, NEW request \in Requests, NEW a,
         NEW b \in ArrayAfter(pool, a, request.zero_for_one)
  PROVE  /\ b \in ArrayStarts /\ b \in Int /\ Past(request, b, a)
         /\ ArrayAfter(pool, a, request.zero_for_one) = {b}
<1>1. pool.bitmap \subseteq ArrayStarts  BY DEF Pools
<1>2. Beyond(pool.bitmap, a, request.zero_for_one) \subseteq pool.bitmap  BY DEF Beyond
<1>3. pool.bitmap \subseteq Int  BY <1>1, ArrayStartsInt
<1>4. /\ b \in Beyond(pool.bitmap, a, request.zero_for_one)
      /\ ArrayAfter(pool, a, request.zero_for_one) = {b}
  BY <1>2, <1>3, RequestIs, NearestIs DEF ArrayAfter
<1>5. Past(request, b, a)  BY <1>4, RequestIs DEF Beyond, Past
<1> QED  BY <1>1, <1>2, <1>3, <1>4, <1>5

LEMMA FirstArrayIs ==
  ASSUME NEW pool \in Pools, NEW request \in Requests,
         NEW a \in FirstArrayOf(pool, request.zero_for_one)
  PROVE  /\ a \in ArrayStarts
         /\ FirstArrayOf(pool, request.zero_for_one) = {a}
         /\ a # ArrayStart(pool.tick) => Past(request, a, ArrayStart(pool.tick))
<1>1. CASE ArrayStart(pool.tick) \in pool.bitmap
  <2>1. FirstArrayOf(pool, request.zero_for_one) = {ArrayStart(pool.tick)}
    BY <1>1 DEF FirstArrayOf
  <2>2. pool.bitmap \subseteq ArrayStarts  BY DEF Pools
  <2> QED  BY <1>1, <2>1, <2>2
<1>2. CASE ArrayStart(pool.tick) \notin pool.bitmap
  <2>1. FirstArrayOf(pool, request.zero_for_one)
          = ArrayAfter(pool, ArrayStart(pool.tick), request.zero_for_one)
    BY <1>2 DEF FirstArrayOf
  <2> DEFINE here == ArrayStart(pool.tick)
             after == ArrayAfter(pool, here, request.zero_for_one)
  <2>2. a \in after  BY <2>1
  <2>3. a \in ArrayStarts /\ Past(request, a, here) /\ after = {a}
    <3> HIDE DEF here
    <3> QED  BY <2>2, ArrayAfterIs
  <2> QED  BY <2>1, <2>3
<1> QED  BY <1>1, <1>2

(* The tick found in the present array lies ahead.                         *)
LEMMA TickHereIs ==
  ASSUME NEW pool \in Pools, NEW ticks \in Books, NEW request \in Requests,
         NEW walk \in Walks(request), OnWay(pool, walk),
         walk.phase = "walking", ~Over(walk),
         NEW t \in TickHere(ticks, walk)
  PROVE  t \in Ticks /\ ArrayStart(t) = walk.array /\ Heads(walk, t)
<1> DEFINE z == request.zero_for_one
           here == TicksOf(ticks, walk.array)
           ahead == IF ArrayStart(walk.tick) = walk.array
                    THEN Ahead(here, walk.tick, z) ELSE {}
           from == IF ahead = {} /\ ~walk.matched THEN here ELSE ahead
<1>1. walk.request = request /\ z \in BOOLEAN /\ walk.array \in Int /\ walk.tick \in Int
  <2>1. walk.request = request /\ walk.array \in ArrayStarts
        /\ walk.tick \in MIN_TICK..MAX_TICK
    BY DEF Walks
  <2>2. z \in BOOLEAN  BY RequestIs
  <2>3. walk.array \in Int  BY <2>1, ArrayStartsInt
  <2>4. walk.tick \in Int  BY <2>1, TickAssumption
  <2> QED  BY <2>1, <2>2, <2>3, <2>4
<1>2. here \subseteq Ticks /\ \A u \in here : ArrayStart(u) = walk.array
  BY DEF TicksOf, Books
<1>3. ahead \subseteq here  BY DEF Ahead
<1>4. t \in from
  <2>1. t \in NearestOf(from, z)  BY <1>1 DEF TickHere
  <2>2. from \subseteq Int  BY <1>2, <1>3, TicksType
  <2> HIDE DEF from, z
  <2> QED  BY <1>1, <2>1, <2>2, NearestIs
<1>5. t \in here  BY <1>3, <1>4
<1>6. CASE t \in ahead
  <2>1. IF z THEN t <= walk.tick ELSE t > walk.tick  BY <1>6 DEF Ahead
  <2>2. t \in Int  BY <1>2, <1>5, TicksType
  <2> HIDE DEF z, here
  <2> QED  BY <1>1, <1>2, <1>5, <2>1, <2>2 DEF Heads, z
<1>7. CASE t \notin ahead
  <2>1. ~walk.matched  BY <1>4, <1>7
  <2>2. Past(request, walk.array, ArrayStart(walk.tick))  BY <1>1, <2>1 DEF OnWay, Placed
  <2>3. t \in Int /\ ArrayStart(t) = walk.array  BY <1>2, <1>5, TicksType
  <2>4. ArrayStart(walk.tick) \in Int  BY <1>1, ArrayStartBounds
  <2>5. CASE z
    <3>1. ~(ArrayStart(walk.tick) <= ArrayStart(t))  BY <1>1, <2>2, <2>3, <2>4, <2>5 DEF Past
    <3>2. ~(walk.tick <= t)  BY <1>1, <2>3, <3>1, ArrayStartMonotone
    <3>3. t <= walk.tick  BY <1>1, <2>3, <3>2
    <3> QED  BY <1>1, <1>2, <1>5, <2>3, <2>5, <3>3 DEF Heads
  <2>6. CASE ~z
    <3>1. ~(ArrayStart(t) <= ArrayStart(walk.tick))  BY <1>1, <2>2, <2>3, <2>4, <2>6 DEF Past
    <3>2. ~(t <= walk.tick)  BY <1>1, <2>3, <3>1, ArrayStartMonotone
    <3>3. walk.tick < t  BY <1>1, <2>3, <3>2
    <3> QED  BY <1>1, <1>2, <1>5, <2>3, <2>6, <3>3 DEF Heads
  <2> QED  BY <2>5, <2>6
<1> QED  BY <1>6, <1>7

(* The walk as it enters an array past its present one.                    *)
Enters(walk, entered) ==
  /\ entered \in Walks(walk.request)
  /\ entered.phase = walk.phase /\ entered.sqrt_price = walk.sqrt_price
  /\ entered.tick = walk.tick /\ entered.liquidity = walk.liquidity
  /\ entered.remaining = walk.remaining /\ entered.calculated = walk.calculated
  /\ entered.matched = walk.matched /\ entered.turns = walk.turns
  /\ entered.first = walk.first
  /\ Past(walk.request, entered.array, walk.array)

LEMMA FirstHereIs ==
  ASSUME NEW pool \in Pools, NEW ticks \in Books, NEW request \in Requests,
         NEW walk \in Walks(request), OnWay(pool, walk),
         walk.phase = "walking", ~Over(walk), walk.matched,
         NEW entered, Enters(walk, entered)
  PROVE  /\ OnWay(pool, entered)
         /\ \A t \in FirstHere(ticks, entered) :
              t \in Ticks /\ ArrayStart(t) = entered.array /\ Heads(entered, t)
<1> DEFINE z == request.zero_for_one
           a == walk.array
           b == entered.array
           tick == walk.tick
<1>1. /\ walk.request = request /\ entered.request = request /\ z \in BOOLEAN
      /\ entered \in Walks(request)
      /\ entered.phase = "walking" /\ entered.sqrt_price = walk.sqrt_price
      /\ entered.tick = tick /\ entered.calculated = walk.calculated /\ entered.matched
      /\ IF z THEN b < a ELSE a < b
  BY RequestIs DEF Walks, Enters, Past
<1>2. a \in ArrayStarts /\ b \in ArrayStarts /\ tick \in Int /\ a \in Int /\ b \in Int
      /\ ArrayStart(a) = a /\ ArrayStart(b) = b /\ ArrayStart(tick) \in Int
  <2>1. a \in ArrayStarts /\ b \in ArrayStarts /\ tick \in MIN_TICK..MAX_TICK
    BY <1>1 DEF Walks
  <2>2. tick \in Int  BY <2>1, TickAssumption
  <2> QED  BY <2>1, <2>2, ArrayStartFixed, ArrayStartBounds
<1>3. IF z THEN a - 1 <= tick ELSE ArrayStart(tick) <= a
  BY <1>1 DEF OnWay, Placed
<1>4. IF z THEN b - 1 <= tick ELSE ArrayStart(tick) <= b
  <2> HIDE DEF a, b, tick, z
  <2> QED  BY <1>1, <1>2, <1>3
<1>5. OnWay(pool, entered)
  <2>1. Placed(entered)
    <3> HIDE DEF z
    <3> QED  BY <1>1, <1>4 DEF Placed, z
  <2> QED  BY <1>1, <2>1 DEF OnWay
<1>6. ASSUME NEW t \in FirstHere(ticks, entered)
      PROVE  t \in Ticks /\ ArrayStart(t) = b /\ Heads(entered, t)
  <2>1. t \in NearestOf(TicksOf(ticks, b), z)  BY <1>1 DEF FirstHere
  <2>2. TicksOf(ticks, b) \subseteq Ticks  BY DEF TicksOf, Books
  <2>3. t \in TicksOf(ticks, b)
    <3>1. TicksOf(ticks, b) \subseteq Int  BY <2>2, TicksType
    <3> HIDE DEF b, z
    <3> QED  BY <1>1, <2>1, <3>1, NearestIs
  <2>4. t \in Ticks /\ t \in Int /\ ArrayStart(t) = b  BY <2>2, <2>3, TicksType DEF TicksOf
  <2>5. CASE z
    <3>1. ~(ArrayStart(a) <= ArrayStart(t))  BY <1>1, <1>2, <2>4, <2>5
    <3>2. ~(a <= t)  BY <1>2, <2>4, <3>1, ArrayStartMonotone
    <3>3. t <= a - 1  BY <1>2, <2>4, <3>2
    <3>4. a - 1 <= tick  BY <1>3, <2>5
    <3>5. t <= tick
      <4> HIDE DEF a, tick
      <4> QED  BY <1>2, <2>4, <3>3, <3>4
    <3> QED  BY <1>1, <2>4, <2>5, <3>5 DEF Heads
  <2>6. CASE ~z
    <3>1. ~(ArrayStart(t) <= ArrayStart(tick))
      <4>1. ArrayStart(tick) <= a /\ a < b  BY <1>1, <1>3, <2>6
      <4> HIDE DEF a, b, tick
      <4> QED  BY <1>2, <2>4, <4>1
    <3>2. ~(t <= tick)  BY <1>2, <2>4, <3>1, ArrayStartMonotone
    <3>3. tick < t  BY <1>2, <2>4, <3>2
    <3> QED  BY <1>1, <2>4, <2>6, <3>3 DEF Heads
  <2> QED  BY <2>5, <2>6
<1> QED  BY <1>5, <1>6

(* A turn is a step from the array where the walk is, or from the one that *)
(* it enters, and fails where neither has a tick.                          *)
LEMMA TurnIs ==
  ASSUME NEW pool \in Pools, NEW ticks \in Books, NEW request \in Requests,
         LimitInside(request),
         NEW walk \in Walks(request), OnWay(pool, walk),
         walk.phase = "walking", ~Over(walk),
         NEW entered, entered = Failed(walk) \/ Enters(walk, entered)
  PROVE  LET after == Turn(ticks, walk, entered)
         IN  \/ after = Failed(walk) \/ Stepped(pool, walk, after)
             \/ /\ walk.matched /\ Enters(walk, entered)
                /\ after = Failed(entered) \/ Stepped(pool, entered, after)
<1> DEFINE after == Turn(ticks, walk, entered)
           here == TickHere(ticks, walk)
           first == FirstHere(ticks, entered)
<1>1. CASE here # {}
  <2> DEFINE t == CHOOSE u \in here : TRUE
  <2>1. after = StepTo(ticks, walk, t)  BY <1>1 DEF Turn, StepToOneOf
  <2>2. t \in here  BY <1>1
  <2> HIDE DEF t
  <2>3. t \in Ticks /\ ArrayStart(t) = walk.array /\ Heads(walk, t)  BY <2>2, TickHereIs
  <2>4. walk.remaining # 0  BY DEF Over
  <2> QED  BY <2>1, <2>3, <2>4, StepToIs
<1>2. CASE here = {} /\ ~MayEnter(walk, entered)
  BY <1>2 DEF Turn
<1>3. CASE here = {} /\ MayEnter(walk, entered)
  <2>1. after = StepToOneOf(ticks, entered, first)  BY <1>3 DEF Turn
  <2>2. walk.matched /\ entered.phase # "failed"  BY <1>3 DEF MayEnter
  <2>3. Failed(walk).phase = "failed"  BY FailedIs
  <2>4. Enters(walk, entered)  BY <2>2, <2>3
  <2>5. CASE first = {}  BY <2>1, <2>2, <2>4, <2>5 DEF StepToOneOf
  <2>6. CASE first # {}
    <3> DEFINE t == CHOOSE u \in first : TRUE
    <3>1. after = StepTo(ticks, entered, t)  BY <2>1, <2>6 DEF StepToOneOf
    <3>2. t \in first  BY <2>6
    <3> HIDE DEF t
    <3>3. OnWay(pool, entered) /\ t \in Ticks /\ ArrayStart(t) = entered.array
          /\ Heads(entered, t)
      BY <2>2, <2>4, <3>2, FirstHereIs
    <3>4. /\ walk.request = request /\ entered \in Walks(request)
          /\ entered.phase = "walking" /\ entered.remaining # 0
      BY <2>4 DEF Enters, Walks, Over
    <3>5. after = Failed(entered) \/ Stepped(pool, entered, after)
      BY <3>1, <3>3, <3>4, StepToIs
    <3> QED  BY <2>2, <2>4, <3>5
  <2> QED  BY <2>5, <2>6
<1> QED  BY <1>1, <1>2, <1>3

-----------------------------------------------------------------------------
(* The two walks *)

OnWalks(pool, request) == {walk \in Walks(request) : OnWay(pool, walk)}

Ended(walk, phase) == [walk EXCEPT !.phase = phase]

LEMMA EndedIs ==
  ASSUME NEW request, NEW walk \in Walks(request), NEW phase \in {"failed", "done"}
  PROVE  LET end == Ended(walk, phase)
         IN  /\ end \in Walks(request) /\ end.phase = phase
             /\ end.sqrt_price = walk.sqrt_price /\ end.tick = walk.tick
             /\ end.liquidity = walk.liquidity /\ end.remaining = walk.remaining
             /\ end.calculated = walk.calculated
             /\ end.first = walk.first /\ end.array = walk.array
             /\ end.arrays = walk.arrays /\ end.used = walk.used
             /\ end.matched = walk.matched /\ end.turns = walk.turns
BY DEF Ended, Walks

LEMMA EndedOnWay ==
  ASSUME NEW pool, NEW request, NEW walk \in OnWalks(pool, request),
         NEW phase \in {"failed", "done"}
  PROVE  Ended(walk, phase) \in OnWalks(pool, request)
<1> DEFINE end == Ended(walk, phase)
<1>1. walk \in Walks(request) /\ OnWay(pool, walk)  BY DEF OnWalks
<1>2. /\ end \in Walks(request) /\ end.phase = phase
      /\ end.sqrt_price = walk.sqrt_price /\ end.tick = walk.tick
      /\ end.calculated = walk.calculated
  BY <1>1, EndedIs
<1> HIDE DEF end
<1>3. walk.request = request /\ end.request = request /\ end.phase # "walking"
  BY <1>1, <1>2 DEF Walks
<1>4. OnWay(pool, end)  BY <1>1, <1>2, <1>3 DEF OnWay
<1> QED  BY <1>2, <1>4 DEF OnWalks, end

LEMMA FailedOnWay ==
  ASSUME NEW pool, NEW request, NEW walk \in OnWalks(pool, request)
  PROVE  Failed(walk) \in OnWalks(pool, request)
<1>1. Failed(walk) = Ended(walk, "failed")  BY DEF Failed, Ended
<1> QED  BY <1>1, EndedOnWay

LEMMA LeastIs ==
  ASSUME NEW S, S \subseteq Nat, S # {}
  PROVE  Min(S) \in S /\ \A y \in S : Min(S) <= y
<1>1. PICK x \in S : \A y \in S : ~(<<y, x>> \in OpToRel(<, Nat))
  BY WFMin, NatLessThanWellFounded
<1>2. ASSUME NEW y \in S
      PROVE  x <= y
  <2>1. x \in Nat /\ y \in Nat  OBVIOUS
  <2>2. ~(y < x)  BY <1>1, <2>1 DEF OpToRel
  <2> QED  BY <2>1, <2>2
<1> QED  BY <1>2 DEF Min

(* The program enters the next array of the bitmap, if it was given it.    *)
LEMMA ProgramEntersIs ==
  ASSUME NEW pool \in Pools, NEW request \in Requests, NEW walk \in Walks(request)
  PROVE  LET entered == ProgramEnters(pool, walk)
         IN  \/ entered = Failed(walk)
             \/ /\ Enters(walk, entered)
                /\ entered.array \in ArrayAfter(pool, walk.array, request.zero_for_one)
<1> DEFINE next == ArrayAfter(pool, walk.array, request.zero_for_one)
           at == {i \in DOMAIN walk.arrays : walk.arrays[i] \in next}
           a == walk.arrays[Min(at)]
           rest == SubSeq(walk.arrays, Min(at) + 1, Len(walk.arrays))
           used == Append(walk.used, a)
           entered == [walk EXCEPT !.array = a, !.used = used, !.arrays = rest]
<1>1. walk.request = request /\ walk.arrays \in Seq(ArrayStarts)
      /\ walk.used \in Seq(ArrayStarts)
  BY DEF Walks
<1>2. CASE at = {}  BY <1>1, <1>2 DEF ProgramEnters
<1>3. CASE at # {}
  <2>1. ProgramEnters(pool, walk) = entered  BY <1>1, <1>3 DEF ProgramEnters
  <2>2. at \subseteq 1..Len(walk.arrays) /\ Len(walk.arrays) \in Nat  BY <1>1
  <2>3. Min(at) \in at
    <3>1. at \subseteq Nat  BY <2>2
    <3> HIDE DEF at
    <3> QED  BY <1>3, <3>1, LeastIs
  <2>4. a \in next  BY <2>3
  <2>5. Min(at) \in 1..Len(walk.arrays)  BY <2>2, <2>3
  <2> HIDE DEF at
  <2>6. rest \in Seq(ArrayStarts)  BY <1>1, <2>2, <2>5
  <2>7. a \in ArrayStarts /\ Past(request, a, walk.array)  BY <2>4, ArrayAfterIs
  <2> HIDE DEF a, rest
  <2>8. used \in Seq(ArrayStarts)  BY <1>1, <2>7
  <2> HIDE DEF used
  <2>9. /\ entered \in Walks(request) /\ entered.array = a
        /\ entered.phase = walk.phase /\ entered.sqrt_price = walk.sqrt_price
        /\ entered.tick = walk.tick /\ entered.liquidity = walk.liquidity
        /\ entered.remaining = walk.remaining /\ entered.calculated = walk.calculated
        /\ entered.matched = walk.matched /\ entered.turns = walk.turns
        /\ entered.first = walk.first
    BY <2>6, <2>7, <2>8 DEF Walks
  <2> HIDE DEF entered
  <2>10. Enters(walk, entered)  BY <1>1, <2>7, <2>9 DEF Enters
  <2>11. entered.array \in ArrayAfter(pool, walk.array, request.zero_for_one)
    BY <2>4, <2>9 DEF next
  <2> QED  BY <2>1, <2>10, <2>11
<1> QED  BY <1>2, <1>3

(* No turn of the program's walk leaves the walks that are on their way.   *)
LEMMA ProgramTurnIs ==
  ASSUME NEW pool \in Pools, NEW ticks \in Books, NEW request \in Requests,
         LimitInside(request), NEW walk \in OnWalks(pool, request)
  PROVE  ProgramTurn(pool, ticks, walk) \in OnWalks(pool, request)
<1> DEFINE after == ProgramTurn(pool, ticks, walk)
           entered == ProgramEnters(pool, walk)
<1> SUFFICES after \in OnWalks(pool, request)
  OBVIOUS
<1>1. walk \in Walks(request) /\ OnWay(pool, walk)  BY DEF OnWalks
<1>2. CASE walk.phase # "walking"  BY <1>2 DEF ProgramTurn
<1>3. CASE walk.phase = "walking" /\ Over(walk)
  <2>1. after = Ended(walk, "done")  BY <1>3 DEF ProgramTurn, Ended
  <2> QED  BY <2>1, EndedOnWay
<1>4. CASE walk.phase = "walking" /\ ~Over(walk)
  <2>1. after = Turn(ticks, walk, entered)  BY <1>4 DEF ProgramTurn
  <2>2. entered = Failed(walk) \/ Enters(walk, entered)  BY <1>1, ProgramEntersIs
  <2> HIDE DEF entered, after
  <2>3. \/ after = Failed(walk) \/ Stepped(pool, walk, after)
        \/ /\ walk.matched /\ Enters(walk, entered)
           /\ after = Failed(entered) \/ Stepped(pool, entered, after)
    BY <1>1, <1>4, <2>1, <2>2, TurnIs
  <2>4. walk.request = request  BY <1>1 DEF Walks
  <2>5. CASE after = Failed(walk)  BY <2>5, FailedOnWay
  <2>6. CASE Stepped(pool, walk, after)  BY <2>4, <2>6 DEF Stepped, OnWalks
  <2>7. CASE walk.matched /\ Enters(walk, entered)
             /\ (after = Failed(entered) \/ Stepped(pool, entered, after))
    <3>1. OnWay(pool, entered)  BY <1>1, <1>4, <2>7, FirstHereIs
    <3>2. entered \in Walks(request)  BY <2>4, <2>7 DEF Enters
    <3>3. entered \in OnWalks(pool, request) /\ entered.request = request
      BY <3>1, <3>2 DEF OnWalks, Walks
    <3>4. CASE after = Failed(entered)  BY <3>3, <3>4, FailedOnWay
    <3>5. CASE Stepped(pool, entered, after)  BY <3>3, <3>5 DEF Stepped, OnWalks
    <3> QED  BY <2>7, <3>4, <3>5
  <2> QED  BY <2>3, <2>5, <2>6, <2>7
<1> QED  BY <1>2, <1>3, <1>4

(* Of the arrays that the client loaded, the walk enters at most one: the  *)
(* one after its first, which is the only one of them that it accepts.     *)
AtMostOne(pool, walk) ==
  LET next == ArrayAfter(pool, walk.first, walk.request.zero_for_one)
  IN  \/ /\ walk.used = <<walk.first>> /\ walk.array = walk.first
         /\ Len(walk.arrays) >= 2 => walk.arrays[2] \notin next
      \/ \E a \in next :
           /\ walk.used = <<walk.first, a>>
           /\ Len(walk.arrays) >= 1 => walk.arrays[1] \notin next

ClientWalks(pool, request) == {walk \in OnWalks(pool, request) : AtMostOne(pool, walk)}

EntersNext(pool, walk, entered) ==
  /\ walk.used = <<walk.first>> /\ walk.array = walk.first
  /\ \E a \in ArrayAfter(pool, walk.first, walk.request.zero_for_one) :
       entered.array = a /\ entered.used = <<walk.first, a>>

LEMMA Pairs ==
  ASSUME NEW S, NEW x \in S, NEW y \in S
  PROVE  /\ Append(<<x>>, y) = <<x, y>> /\ <<x, y>> \in Seq(S) /\ Len(<<x, y>>) = 2
         /\ <<x>> \in Seq(S) /\ Len(<<x>>) = 1
<1>1. <<x>> \in Seq(S) /\ Len(<<x>>) = 1 /\ <<x>>[1] = x  OBVIOUS
<1>2. <<x, y>> \in Seq(S) /\ Len(<<x, y>>) = 2 /\ <<x, y>>[1] = x /\ <<x, y>>[2] = y
  OBVIOUS
<1>3. Append(<<x>>, y) = <<x, y>>
  <2> DEFINE s == <<x>>
             t == <<x, y>>
             u == Append(s, y)
  <2>1. u \in Seq(S) /\ Len(u) = 2 /\ u[1] = x /\ u[2] = y
    <3>1. s \in Seq(S) /\ Len(s) = 1 /\ s[1] = x  BY <1>1
    <3> HIDE DEF s
    <3>2. u \in Seq(S) /\ Len(u) = Len(s) + 1 /\ u[Len(s) + 1] = y
          /\ \A i \in 1..Len(s) : u[i] = s[i]
      BY <3>1, AppendProperties, ZenonT(30)
    <3> HIDE DEF u
    <3>3. 1 \in 1..Len(s)  BY <3>1
    <3> QED  BY <3>1, <3>2, <3>3
  <2>2. t \in Seq(S) /\ Len(t) = 2 /\ t[1] = x /\ t[2] = y  BY <1>2
  <2> HIDE DEF t, u
  <2>3. u = t
    <3>1. \A i \in 1..Len(u) : u[i] = t[i]  BY <2>1, <2>2
    <3> QED  BY <2>1, <2>2, <3>1, SeqEqual
  <2> QED  BY <2>3 DEF t, u
<1> QED  BY <1>1, <1>2, <1>3

LEMMA SecondOfTwo ==
  ASSUME NEW S, NEW x \in S, NEW y \in S
  PROVE  SubSeq(<<x, y>>, 1 + 1, Len(<<x, y>>)) = <<y>>
<1> DEFINE s == <<x, y>>
           t == SubSeq(s, 2, 2)
           u == <<y>>
<1>1. s \in Seq(S) /\ Len(s) = 2 /\ s[2] = y  BY Pairs
<1>2. u \in Seq(S) /\ Len(u) = 1 /\ u[1] = y  BY Pairs
<1> HIDE DEF s, u
<1>3. t \in Seq(S) /\ Len(t) = 1 /\ t[1] = y
  <2>1. /\ t \in Seq(S) /\ Len(t) = 2 - 2 + 1
        /\ \A i \in 1..(2 - 2 + 1) : t[i] = s[2 + i - 1]
    BY <1>1, SubSeqProperties
  <2> HIDE DEF t
  <2>2. 1 \in 1..(2 - 2 + 1) /\ 2 - 2 + 1 = 1 /\ 2 + 1 - 1 = 2  OBVIOUS
  <2> QED  BY <1>1, <2>1, <2>2
<1> HIDE DEF t
<1>4. t = u
  <2>1. \A i \in 1..Len(t) : t[i] = u[i]  BY <1>2, <1>3
  <2> QED  BY <1>2, <1>3, <2>1, SeqEqual
<1>5. 1 + 1 = 2  OBVIOUS
<1> QED  BY <1>1, <1>4, <1>5 DEF s, t, u

LEMMA ClientEntersIs ==
  ASSUME NEW pool \in Pools, NEW request \in Requests, NEW walk \in Walks(request),
         AtMostOne(pool, walk)
  PROVE  LET entered == ClientEnters(pool, walk)
         IN  \/ entered = Failed(walk)
             \/ /\ Enters(walk, entered) /\ EntersNext(pool, walk, entered)
                /\ AtMostOne(pool, entered)
<1> DEFINE next == ArrayAfter(pool, walk.first, request.zero_for_one)
           a == Head(walk.arrays)
           rest == Tail(walk.arrays)
           used == Append(walk.used, a)
           entered == [walk EXCEPT !.array = a, !.used = used, !.arrays = rest]
<1>1. walk.request = request /\ walk.arrays \in Seq(ArrayStarts)
      /\ walk.used \in Seq(ArrayStarts) /\ walk.first \in ArrayStarts
  BY DEF Walks
<1>2. CASE walk.arrays = <<>> \/ a \notin next
  BY <1>1, <1>2 DEF ClientEnters
<1>3. CASE walk.arrays # <<>> /\ a \in next
  <2>1. ClientEnters(pool, walk) = entered  BY <1>1, <1>3 DEF ClientEnters
  <2>2. Len(walk.arrays) >= 1 /\ a = walk.arrays[1] /\ Len(walk.arrays) \in Nat
        /\ rest \in Seq(ArrayStarts) /\ Len(rest) = Len(walk.arrays) - 1
        /\ (Len(rest) >= 1 => rest[1] = walk.arrays[2])
    BY <1>1, <1>3
  <2>3. a \in ArrayStarts /\ Past(request, a, walk.first)  BY <1>3, ArrayAfterIs
  <2>4. walk.used = <<walk.first>> /\ walk.array = walk.first
        /\ (Len(walk.arrays) >= 2 => walk.arrays[2] \notin next)
    <3>1. AtMostOne(pool, walk)  OBVIOUS
    <3> HIDE DEF next
    <3> QED  BY <1>1, <1>3, <2>2, <3>1 DEF AtMostOne, next
  <2> HIDE DEF next
  <2>5. Len(rest) >= 1 => rest[1] \notin next
    <3> HIDE DEF rest
    <3> QED  BY <2>2, <2>4
  <2> HIDE DEF a, rest
  <2>6. used = <<walk.first, a>> /\ used \in Seq(ArrayStarts)
    <3>1. used = Append(<<walk.first>>, a)  BY <2>4
    <3> HIDE DEF used
    <3> QED  BY <1>1, <2>3, <3>1, Pairs
  <2> HIDE DEF used
  <2>7. /\ entered \in Walks(request) /\ entered.array = a
        /\ entered.phase = walk.phase /\ entered.sqrt_price = walk.sqrt_price
        /\ entered.tick = walk.tick /\ entered.liquidity = walk.liquidity
        /\ entered.remaining = walk.remaining /\ entered.calculated = walk.calculated
        /\ entered.matched = walk.matched /\ entered.turns = walk.turns
        /\ entered.first = walk.first /\ entered.used = used /\ entered.arrays = rest
    BY <2>2, <2>3, <2>6 DEF Walks
  <2> HIDE DEF entered
  <2>8. Enters(walk, entered)  BY <1>1, <2>3, <2>4, <2>7 DEF Enters
  <2>9. EntersNext(pool, walk, entered)
    BY <1>1, <1>3, <2>4, <2>6, <2>7 DEF EntersNext, next
  <2>10. AtMostOne(pool, entered)
    <3>1. entered.request = request  BY <2>7 DEF Walks
    <3>2. a \in next  BY <1>3
    <3> QED  BY <2>5, <2>6, <2>7, <3>1, <3>2 DEF AtMostOne, next
  <2> QED  BY <2>1, <2>8, <2>9, <2>10
<1> QED  BY <1>2, <1>3

LEMMA AtMostOneKept ==
  ASSUME NEW pool, NEW request, NEW walk \in Walks(request), NEW after \in Walks(request),
         AtMostOne(pool, walk),
         after.first = walk.first, after.array = walk.array,
         after.arrays = walk.arrays, after.used = walk.used
  PROVE  AtMostOne(pool, after)
<1>1. walk.request = after.request  BY DEF Walks
<1> QED  BY <1>1 DEF AtMostOne

(* What a walk may still become: nothing but itself when it has ended, and *)
(* nothing that entered another array when it has entered one.             *)
Later(walk, after) ==
  /\ after.first = walk.first
  /\ walk.phase # "walking" => after = walk
  /\ Len(walk.used) = 2 => after.used = walk.used

LEMMA ClientTurnIs ==
  ASSUME NEW pool \in Pools, NEW ticks \in Books, NEW request \in Requests,
         LimitInside(request), NEW walk \in ClientWalks(pool, request)
  PROVE  LET after == ClientTurn(pool, ticks, walk)
         IN  after \in ClientWalks(pool, request) /\ Later(walk, after)
<1> DEFINE after == ClientTurn(pool, ticks, walk)
           entered == ClientEnters(pool, walk)
<1> SUFFICES after \in ClientWalks(pool, request) /\ Later(walk, after)
  OBVIOUS
<1>1. walk \in Walks(request) /\ OnWay(pool, walk) /\ walk \in OnWalks(pool, request)
      /\ AtMostOne(pool, walk) /\ walk.request = request
  BY DEF ClientWalks, OnWalks, Walks
<1>2. CASE walk.phase # "walking"
  <2>1. after = walk  BY <1>2 DEF ClientTurn
  <2> HIDE DEF after
  <2> QED  BY <2>1 DEF Later
(* A walk that stays in its array.                                         *)
<1>3. ASSUME NEW w, w \in OnWalks(pool, request), walk.phase = "walking",
             w.first = walk.first, w.array = walk.array,
             w.arrays = walk.arrays, w.used = walk.used
      PROVE  w \in ClientWalks(pool, request) /\ Later(walk, w)
  <2>1. w \in Walks(request)  BY <1>3 DEF OnWalks
  <2>2. AtMostOne(pool, w)  BY <1>1, <1>3, <2>1, AtMostOneKept
  <2> QED  BY <1>3, <2>2 DEF ClientWalks, Later
<1>4. ASSUME walk.phase = "walking", NEW phase \in {"failed", "done"}
      PROVE  /\ Ended(walk, phase) \in ClientWalks(pool, request)
             /\ Later(walk, Ended(walk, phase))
  BY <1>1, <1>3, <1>4, EndedIs, EndedOnWay
<1>5. CASE walk.phase = "walking"
           /\ (Over(walk) \/ walk.tick <= MIN_TICK \/ walk.tick >= MAX_TICK)
  <2>1. after = Ended(walk, "done")  BY <1>5 DEF ClientTurn, Ended
  <2> HIDE DEF after
  <2> QED  BY <1>4, <1>5, <2>1
<1>6. CASE walk.phase = "walking" /\ walk.turns > LOOP_LIMIT
           /\ ~(Over(walk) \/ walk.tick <= MIN_TICK \/ walk.tick >= MAX_TICK)
  <2>1. after = Ended(walk, "failed")  BY <1>6 DEF ClientTurn, Ended, Failed
  <2> HIDE DEF after
  <2> QED  BY <1>4, <1>6, <2>1
<1>7. CASE walk.phase = "walking" /\ ~(walk.turns > LOOP_LIMIT)
           /\ ~(Over(walk) \/ walk.tick <= MIN_TICK \/ walk.tick >= MAX_TICK)
  <2>1. after = Turn(ticks, walk, entered)  BY <1>7 DEF ClientTurn
  <2>2. \/ entered = Failed(walk)
        \/ /\ Enters(walk, entered) /\ EntersNext(pool, walk, entered)
           /\ AtMostOne(pool, entered)
    BY <1>1, ClientEntersIs
  <2> HIDE DEF entered, after
  <2>3. \/ after = Failed(walk) \/ Stepped(pool, walk, after)
        \/ /\ walk.matched /\ Enters(walk, entered)
           /\ after = Failed(entered) \/ Stepped(pool, entered, after)
    BY <1>1, <1>7, <2>1, <2>2, TurnIs
  <2>4. Failed(walk) = Ended(walk, "failed")  BY DEF Failed, Ended
  <2>5. CASE after = Failed(walk)  BY <1>4, <1>7, <2>4, <2>5
  <2>6. CASE Stepped(pool, walk, after)
    <3>1. after \in OnWalks(pool, request)  BY <1>1, <2>6 DEF Stepped, OnWalks
    <3> QED  BY <1>3, <1>7, <2>6, <3>1 DEF Stepped
  <2>7. CASE walk.matched /\ Enters(walk, entered)
             /\ (after = Failed(entered) \/ Stepped(pool, entered, after))
    <3>1. OnWay(pool, entered)  BY <1>1, <1>7, <2>7, FirstHereIs
    <3>2. entered \in Walks(request)  BY <1>1, <2>7 DEF Enters
    <3>3. entered \in OnWalks(pool, request) /\ entered.request = request
      BY <3>1, <3>2 DEF OnWalks, Walks
    <3>4. entered # Failed(walk)
      <4>1. entered.phase = "walking"  BY <1>7, <2>7 DEF Enters
      <4>2. Failed(walk).phase = "failed"  BY <1>1, FailedIs
      <4> QED  BY <4>1, <4>2
    <3>5. AtMostOne(pool, entered) /\ Len(walk.used) # 2
      <4>1. EntersNext(pool, walk, entered) /\ AtMostOne(pool, entered)  BY <2>2, <3>4
      <4>2. walk.used = <<walk.first>>  BY <4>1 DEF EntersNext
      <4>3. Len(walk.used) = 1  BY <4>2
      <4> QED  BY <4>1, <4>3
    <3>6. after \in OnWalks(pool, request) /\ after \in Walks(request)
          /\ after.first = entered.first /\ after.array = entered.array
          /\ after.arrays = entered.arrays /\ after.used = entered.used
      <4>1. CASE after = Failed(entered)
        BY <3>2, <3>3, <4>1, FailedOnWay, FailedIs
      <4>2. CASE Stepped(pool, entered, after)
        BY <3>3, <4>2 DEF Stepped, OnWalks
      <4> QED  BY <2>7, <4>1, <4>2
    <3>7. AtMostOne(pool, after)  BY <3>2, <3>5, <3>6, AtMostOneKept
    <3>8. after.first = walk.first  BY <2>7, <3>6 DEF Enters
    <3> QED  BY <1>7, <3>5, <3>6, <3>7, <3>8 DEF ClientWalks, Later
  <2> QED  BY <2>3, <2>5, <2>6, <2>7
<1> QED  BY <1>2, <1>5, <1>6, <1>7

(* The arrays that the client loads lie one behind the other.              *)
LoadedFrom(pool, a, zero_for_one) ==
  {s \in Seq(ArrayStarts) :
     /\ Len(s) >= 1 /\ s[1] = a
     /\ Len(s) >= 2 => s[2] \in ArrayAfter(pool, a, zero_for_one)
     /\ Len(s) >= 3 => s[3] \notin ArrayAfter(pool, a, zero_for_one)}

LEMMA WithNextIs ==
  ASSUME NEW pool \in Pools, NEW request \in Requests, NEW a \in ArrayStarts,
         NEW s \in LoadedFrom(pool, a, request.zero_for_one)
  PROVE  WithNext(pool, request.zero_for_one, s)
           \in LoadedFrom(pool, a, request.zero_for_one)
<1> DEFINE z == request.zero_for_one
           after == ArrayAfter(pool, a, z)
           next == ArrayAfter(pool, s[Len(s)], z)
           b == CHOOSE x \in next : TRUE
           t == Append(s, b)
<1>1. /\ s \in Seq(ArrayStarts) /\ Len(s) \in Nat /\ Len(s) >= 1 /\ s[1] = a
      /\ Len(s) >= 2 => s[2] \in after
      /\ Len(s) >= 3 => s[3] \notin after
  BY DEF LoadedFrom
<1>2. CASE next = {}  BY <1>2 DEF WithNext
<1>3. CASE next # {}
  <2>1. WithNext(pool, z, s) = t  BY <1>3 DEF WithNext
  <2>2. b \in next  BY <1>3
  <2> HIDE DEF b, after
  <2>3. b \in ArrayStarts /\ b \in Int /\ Past(request, b, s[Len(s)])
    <3> DEFINE l == s[Len(s)]
    <3> HIDE DEF l
    <3> QED  BY <2>2, ArrayAfterIs DEF l
  <2>4. t \in Seq(ArrayStarts) /\ Len(t) = Len(s) + 1 /\ t[Len(s) + 1] = b
        /\ \A i \in 1..Len(s) : t[i] = s[i]
    BY <1>1, <2>3, AppendProperties
  <2> HIDE DEF t, next
  <2>8. Len(s) \in Nat /\ Len(s) >= 1  BY <1>1
  <2>5. Len(t) >= 1 /\ t[1] = a  BY <1>1, <2>4
  <2>6. Len(t) >= 2 => t[2] \in after
    <3>1. CASE Len(s) = 1
      <4>1. s[Len(s)] = a /\ t[2] = b  BY <1>1, <2>4, <3>1
      <4> QED  BY <2>2, <4>1 DEF next, after
    <3>2. CASE Len(s) # 1
      <4>1. Len(s) >= 2 /\ 2 \in 1..Len(s)
        <5> DEFINE n == Len(s)
        <5> HIDE DEF n
        <5>1. n \in Nat /\ n >= 1 /\ n # 1  BY <2>8, <3>2 DEF n
        <5>2. n >= 2 /\ 2 \in 1..n  BY <5>1
        <5> QED  BY <5>2 DEF n
      <4>2. t[2] = s[2]  BY <2>4, <4>1
      <4> QED  BY <1>1, <4>1, <4>2
    <3> QED  BY <3>1, <3>2
  <2>7. Len(t) >= 3 => t[3] \notin after
    <3>1. CASE Len(s) = 1  BY <2>4, <3>1
    <3>2. CASE Len(s) = 2
      <4>1. t[3] = b /\ s[2] \in after /\ s[Len(s)] = s[2]  BY <1>1, <2>4, <3>2
      <4>2. after = {s[2]} /\ s[2] \in Int
        <5>1. s[2] \in ArrayAfter(pool, a, request.zero_for_one)  BY <4>1 DEF after
        <5> QED  BY <5>1, ArrayAfterIs DEF after
      <4>3. b # s[2]
        <5>1. Past(request, b, s[2])  BY <2>3, <4>1
        <5> QED  BY <2>3, <4>2, <5>1, RequestIs DEF Past
      <4> QED  BY <4>1, <4>2, <4>3
    <3>3. CASE Len(s) # 1 /\ Len(s) # 2
      <4>1. Len(s) >= 3 /\ 3 \in 1..Len(s)
        <5> DEFINE n == Len(s)
        <5> HIDE DEF n
        <5>1. n \in Nat /\ n >= 1 /\ n # 1 /\ n # 2  BY <2>8, <3>3 DEF n
        <5>2. n >= 3 /\ 3 \in 1..n  BY <5>1
        <5> QED  BY <5>2 DEF n
      <4>2. t[3] = s[3]  BY <2>4, <4>1
      <4> QED  BY <1>1, <4>1, <4>2
    <3> QED  BY <3>1, <3>2, <3>3
  <2> QED  BY <2>1, <2>4, <2>5, <2>6, <2>7 DEF LoadedFrom, after
<1> QED  BY <1>2, <1>3

LEMMA LoadedIs ==
  ASSUME NEW pool \in Pools, NEW request \in Requests, NEW a \in ArrayStarts, NEW n \in Nat
  PROVE  ArraysLoaded(pool, a, request.zero_for_one)[n]
           \in LoadedFrom(pool, a, request.zero_for_one)
<1> DEFINE z == request.zero_for_one
           S == LoadedFrom(pool, a, z)
<1>1. <<a>> \in S  BY DEF LoadedFrom
<1>2. \A s \in S : WithNext(pool, z, s) \in S  BY WithNextIs
<1>3. ArraysLoaded(pool, a, z) \in [Nat -> S]
  <2> HIDE DEF S
  <2> QED  BY <1>1, <1>2, ArraysLoop
<1> HIDE DEF S
<1> QED  BY <1>3 DEF S

(* A walk that begins in the first array of its pool is on its way.        *)
LEMMA StartIs ==
  ASSUME NEW pool \in Pools, NEW request \in Requests,
         LimitInside(request), LimitAhead(request, pool),
         NEW amount \in Nat, NEW first \in FirstArrayOf(pool, request.zero_for_one),
         NEW arrays \in Seq(ArrayStarts)
  PROVE  Start(request, amount, pool, first, arrays) \in OnWalks(pool, request)
<1> DEFINE start == Start(request, amount, pool, first, arrays)
           here == ArrayStart(pool.tick)
           z == request.zero_for_one
           limit == LimitOf(request)
<1>1. pool.sqrt_price \in Prices /\ pool.tick \in MIN_TICK..MAX_TICK
      /\ pool.liquidity \in 0..MaxLiquidity /\ Fits(pool.tick, pool.sqrt_price)
  BY DEF Pools
<1>2. first \in ArrayStarts /\ (first # here => Past(request, first, here))
  BY FirstArrayIs
<1>3. start \in Walks(request)
  <2>1. <<first>> \in Seq(ArrayStarts)  BY <1>2
  <2>2. (first = here) \in BOOLEAN  OBVIOUS
  <2> DEFINE matched == first = here
  <2> HIDE DEF matched
  <2>3. matched \in BOOLEAN  BY <2>2 DEF matched
  <2>4. [phase |-> "walking", request |-> request, sqrt_price |-> pool.sqrt_price,
         tick |-> pool.tick, liquidity |-> pool.liquidity, remaining |-> amount,
         calculated |-> 0, first |-> first, array |-> first, arrays |-> arrays,
         used |-> <<first>>, matched |-> matched, turns |-> 0] \in Walks(request)
    BY <1>1, <1>2, <2>1, <2>3 DEF Walks
  <2> QED  BY <2>4 DEF Start, matched
<1>4. /\ start.request = request /\ start.sqrt_price = pool.sqrt_price
      /\ start.tick = pool.tick /\ start.calculated = 0 /\ start.array = first
      /\ start.matched = (first = here)
  BY DEF Start
<1> HIDE DEF start
<1>5. limit \in Nat /\ pool.sqrt_price \in Nat
  BY <1>1, PriceFacts DEF LimitInside
<1>6. IF z THEN limit <= pool.sqrt_price /\ pool.sqrt_price <= pool.sqrt_price
           ELSE pool.sqrt_price <= limit /\ pool.sqrt_price <= pool.sqrt_price
  <2>1. IF z THEN limit < pool.sqrt_price ELSE pool.sqrt_price < limit
    BY DEF LimitAhead
  <2> HIDE DEF z, limit
  <2> QED  BY <1>5, <2>1
<1>7. Placed(start)
  <2>1. pool.tick \in Int /\ here \in Int /\ here <= pool.tick
    <3>1. pool.tick \in Int  BY <1>1, TickAssumption
    <3> QED  BY <3>1, ArrayStartBounds
  <2>2. CASE first = here
    <3>1. here - 1 <= pool.tick /\ here <= here
      <4> HIDE DEF here
      <4> QED  BY <2>1
    <3> QED  BY <1>4, <2>2, <3>1 DEF Placed
  <2>3. CASE first # here  BY <1>2, <1>4, <2>3 DEF Placed
  <2> QED  BY <2>2, <2>3
<1>8. OnWay(pool, start)
  <2>1. ~(start.calculated > 0)  BY <1>4
  <2> HIDE DEF z, limit
  <2> QED  BY <1>1, <1>4, <1>6, <1>7, <2>1 DEF OnWay, z, limit
<1> QED  BY <1>3, <1>8 DEF OnWalks, start

-----------------------------------------------------------------------------
(* The program's walk *)

LEMMA MaxTurnsType == MaxTurns \in Nat
BY ClientAssumption, TickAssumption DEF MaxTurns

LEMMA ProgramWalkIs ==
  ASSUME NEW pool \in Pools, NEW ticks \in Books, NEW request \in Requests,
         LimitInside(request), NEW start \in OnWalks(pool, request)
  PROVE  ProgramWalk(pool, ticks, start) \in OnWalks(pool, request)
<1> DEFINE S == OnWalks(pool, request)
<1>1. \A w \in S : ProgramTurn(pool, ticks, w) \in S  BY ProgramTurnIs
<1>2. ProgramTurns(pool, ticks, start) \in [Nat -> S]
  <2> HIDE DEF S
  <2>1. start \in S  BY DEF S
  <2> QED  BY <1>1, <2>1, ProgramLoop
<1> HIDE DEF S
<1>3. ProgramWalk(pool, ticks, start) \in S  BY <1>2, MaxTurnsType DEF ProgramWalk
<1> QED  BY <1>3 DEF S

-----------------------------------------------------------------------------
(* The two walks are one *)

(* They differ in nothing but the arrays that they still have ahead.       *)
Alike(walk, other) ==
  /\ other.phase = walk.phase /\ other.sqrt_price = walk.sqrt_price
  /\ other.tick = walk.tick /\ other.liquidity = walk.liquidity
  /\ other.remaining = walk.remaining /\ other.calculated = walk.calculated
  /\ other.first = walk.first /\ other.array = walk.array /\ other.used = walk.used
  /\ other.matched = walk.matched /\ other.turns = walk.turns

LEMMA StepAlike ==
  ASSUME NEW ticks \in Books, NEW request \in Requests,
         NEW walk \in Walks(request), NEW other \in Walks(request), Alike(walk, other),
         NEW t \in Ticks, walk.phase = "walking",
         StepTo(ticks, walk, t).phase # "failed"
  PROVE  /\ Alike(StepTo(ticks, walk, t), StepTo(ticks, other, t))
         /\ StepTo(ticks, other, t).arrays = other.arrays
         /\ StepTo(ticks, walk, t).used = walk.used
<1> DEFINE z == request.zero_for_one
           base == request.is_base_input
           target == Reach(walk, t)
           step == Math!ComputeSwapStep(walk.sqrt_price, target, walk.liquidity,
                                        walk.remaining, base, z)
           crossed(w) == w.liquidity + (IF z THEN -ticks.net[t] ELSE ticks.net[t])
           fits == Math!StepFits(walk.sqrt_price, target, walk.liquidity,
                                 walk.remaining, base, z)
           after == AfterStep(ticks, walk, t, step)
           beside == AfterStep(ticks, other, t, step)
<1>1. walk.request = request /\ other.request = request  BY DEF Walks
<1>2. Failed(walk).phase = "failed" /\ Failed(other).phase = "failed"  BY FailedIs
<1>3. StepTo(ticks, walk, t) = StepTowards(ticks, walk, t, target)
      /\ StepTo(ticks, other, t) = StepTowards(ticks, other, t, target)
  BY <1>1 DEF StepTo, Reach
<1> HIDE DEF target
<1>4. StepTo(ticks, walk, t) = after /\ StepTo(ticks, other, t) = beside
  <2>1. StepTowards(ticks, walk, t, target) = IF fits THEN after ELSE Failed(walk)
    BY <1>1 DEF StepTowards
  <2>2. StepTowards(ticks, other, t, target) = IF fits THEN beside ELSE Failed(other)
    BY <1>1 DEF StepTowards, Alike
  <2> HIDE DEF fits, after, beside
  <2> QED  BY <1>2, <1>3, <2>1, <2>2
<1> HIDE DEF step
<1>5. FieldsAfter(ticks, walk, t, step, after)
  <2>1. after # Failed(walk)  BY <1>2, <1>4
  <2> QED  BY <2>1, AfterStepIs
<1>6. FieldsAfter(ticks, other, t, step, beside)
  <2>1. step.sqrt_price_next = SqrtPrice[t] => AddDeltaOk(crossed(other), 0)
    BY <1>1, <1>5 DEF FieldsAfter, Alike
  <2>2. beside.phase = other.phase
    BY <1>1, <2>1 DEF AfterStep, Walks
  <2>3. beside # Failed(other)
    <3>1. other.phase = "walking"  BY DEF Alike
    <3> HIDE DEF beside
    <3> QED  BY <1>2, <2>2, <3>1
  <2> QED  BY <2>3, AfterStepIs
<1> HIDE DEF after, beside
<1> DEFINE next == step.sqrt_price_next
           reached == next = SqrtPrice[t]
           tick == IF reached THEN IF z THEN t - 1 ELSE t
                   ELSE IF next # walk.sqrt_price THEN TickAt[next] ELSE walk.tick
           liq == IF reached THEN crossed(walk) ELSE walk.liquidity
           rest == walk.remaining - Spent(step, base)
           calc == walk.calculated + Gained(step, base)
           turns == walk.turns + 1
           Made(arrays) == [phase : {walk.phase}, request : {request},
             sqrt_price : {next}, tick : {tick}, liquidity : {liq},
             remaining : {rest}, calculated : {calc},
             first : {walk.first}, array : {walk.array}, arrays : {arrays},
             used : {walk.used}, matched : {TRUE}, turns : {turns}]
<1>7. after \in Made(walk.arrays)  BY <1>1, <1>5 DEF FieldsAfter
<1>8. beside \in Made(other.arrays)
  <2> DEFINE tickO == IF reached THEN IF z THEN t - 1 ELSE t
                      ELSE IF next # other.sqrt_price THEN TickAt[next] ELSE other.tick
             liqO == IF reached THEN crossed(other) ELSE other.liquidity
             restO == other.remaining - Spent(step, base)
             calcO == other.calculated + Gained(step, base)
             turnsO == other.turns + 1
  <2>1. beside \in [phase : {other.phase}, request : {request},
             sqrt_price : {next}, tick : {tickO}, liquidity : {liqO},
             remaining : {restO}, calculated : {calcO},
             first : {other.first}, array : {other.array}, arrays : {other.arrays},
             used : {other.used}, matched : {TRUE}, turns : {turnsO}]
    BY <1>1, <1>6 DEF FieldsAfter
  <2>2. tickO = tick /\ liqO = liq /\ restO = rest /\ calcO = calc /\ turnsO = turns
    <3> HIDE DEF reached, next
    <3> QED  BY DEF Alike
  <2>3. other.phase = walk.phase /\ other.first = walk.first /\ other.array = walk.array
        /\ other.used = walk.used
    BY DEF Alike
  <2> HIDE DEF next, tick, liq, rest, calc, turns, tickO, liqO, restO, calcO, turnsO
  <2> QED  BY <2>1, <2>2, <2>3
<1> HIDE DEF next, tick, liq, rest, calc, turns
<1>9. Alike(after, beside) /\ beside.arrays = other.arrays /\ after.used = walk.used
  BY <1>7, <1>8 DEF Alike
<1> QED  BY <1>4, <1>9

(* What the walk over the arrays used has still to enter.                  *)
Onward(used) == IF Len(used) = 2 THEN <<used[2]>> ELSE <<>>
Beside(walk, other, used) ==
  Alike(walk, other) /\ other.arrays = IF Len(walk.used) = 1 THEN Onward(used) ELSE <<>>

(* The program enters the array that the client enters, having been given  *)
(* that one only.                                                          *)
LEMMA EntersAlike ==
  ASSUME NEW pool \in Pools, NEW request \in Requests,
         NEW walk \in Walks(request), NEW other \in Walks(request),
         NEW entered \in Walks(request),
         EntersNext(pool, walk, entered), Enters(walk, entered),
         Beside(walk, other, entered.used)
  PROVE  Beside(entered, ProgramEnters(pool, other), entered.used)
         /\ ProgramEnters(pool, other) \in Walks(request)
<1> DEFINE after == ArrayAfter(pool, walk.first, request.zero_for_one)
           f == walk.first
<1>1. walk.request = request /\ other.request = request /\ f \in ArrayStarts
  BY DEF Walks
<1>2. PICK a \in after : entered.array = a /\ entered.used = <<f, a>>
  BY <1>1 DEF EntersNext
<1>3. walk.used = <<f>> /\ walk.array = f  BY DEF EntersNext
<1>4. a \in ArrayStarts /\ after = {a}  BY ArrayAfterIs
<1>5. Len(walk.used) = 1 /\ Len(entered.used) = 2 /\ entered.used[2] = a
      /\ Append(walk.used, a) = entered.used
  BY <1>1, <1>2, <1>3, <1>4, Pairs
<1>6. other.arrays = <<a>> /\ other.array = f /\ other.used = walk.used
  BY <1>3, <1>5 DEF Beside, Onward, Alike
<1>7. ArrayAfter(pool, other.array, other.request.zero_for_one) = {a}
  BY <1>1, <1>4, <1>6
<1> DEFINE at == {i \in DOMAIN other.arrays : other.arrays[i] \in {a}}
           used == Append(other.used, a)
           there == [other EXCEPT !.array = a, !.used = used, !.arrays = <<>>]
<1>8. at = {1}  BY <1>6
<1>9. Min(at) = 1
  <2>1. Min({1}) \in {1}  BY LeastIs
  <2> HIDE DEF at
  <2> QED  BY <1>8, <2>1
<1>10. SubSeq(other.arrays, 1 + 1, Len(other.arrays)) = <<>>  BY <1>6
<1>11. other.arrays[1] = a  BY <1>6
<1>12. ProgramEnters(pool, other) = there
  <2> HIDE DEF used
  <2>1. ProgramEnters(pool, other)
          = [other EXCEPT !.array = other.arrays[Min(at)],
               !.used = Append(other.used, other.arrays[Min(at)]),
               !.arrays = SubSeq(other.arrays, Min(at) + 1, Len(other.arrays))]
    BY <1>7, <1>8 DEF ProgramEnters
  <2> HIDE DEF at
  <2> QED  BY <1>9, <1>10, <1>11, <2>1 DEF used
<1>13. used = entered.used /\ used \in Seq(ArrayStarts)
  BY <1>5, <1>6 DEF Walks
<1> HIDE DEF used
<1>14. /\ there \in Walks(request) /\ there.array = a
       /\ there.phase = other.phase /\ there.sqrt_price = other.sqrt_price
       /\ there.tick = other.tick /\ there.liquidity = other.liquidity
       /\ there.remaining = other.remaining /\ there.calculated = other.calculated
       /\ there.matched = other.matched /\ there.turns = other.turns
       /\ there.first = other.first /\ there.used = used /\ there.arrays = <<>>
  <2>1. <<>> \in Seq(ArrayStarts)  OBVIOUS
  <2> QED  BY <1>4, <1>13, <2>1 DEF Walks
<1> HIDE DEF there
<1>15. Alike(entered, there)  BY <1>2, <1>13, <1>14 DEF Alike, Enters, Beside
<1> QED  BY <1>5, <1>12, <1>14, <1>15 DEF Beside

(* A turn keeps the two side by side, as long as the client's walk will    *)
(* end over the arrays used, and neither gives up nor stops at the first   *)
(* or last tick.                                                           *)
LEMMA TurnBeside ==
  ASSUME NEW pool \in Pools, NEW ticks \in Books, NEW request \in Requests,
         LimitInside(request), NEW walk \in ClientWalks(pool, request),
         NEW other \in OnWalks(pool, request), NEW used, Beside(walk, other, used),
         ClientTurn(pool, ticks, walk).phase # "failed",
         Len(ClientTurn(pool, ticks, walk).used) = 2
           => used = ClientTurn(pool, ticks, walk).used,
         ClientTurn(pool, ticks, walk).phase = "done"
           => ClientTurn(pool, ticks, walk).tick \notin {MIN_TICK, MAX_TICK}
  PROVE  Beside(ClientTurn(pool, ticks, walk), ProgramTurn(pool, ticks, other), used)
<1> DEFINE after == ClientTurn(pool, ticks, walk)
           beside == ProgramTurn(pool, ticks, other)
           entered == ClientEnters(pool, walk)
           there == ProgramEnters(pool, other)
<1>1. /\ walk \in Walks(request) /\ OnWay(pool, walk) /\ AtMostOne(pool, walk)
      /\ other \in Walks(request) /\ walk.request = request /\ other.request = request
      /\ walk.tick \in MIN_TICK..MAX_TICK
  BY DEF ClientWalks, OnWalks, Walks
<1>2. Alike(walk, other)  BY DEF Beside
<1>3. Over(other) <=> Over(walk)  BY <1>1, <1>2 DEF Over, Alike
<1>4. CASE walk.phase # "walking"
  <2>1. after = walk /\ beside = other
    BY <1>2, <1>4 DEF ClientTurn, ProgramTurn, Alike
  <2> HIDE DEF after, beside
  <2> QED  BY <2>1 DEF after, beside
<1>5. CASE walk.phase = "walking" /\ Over(walk)
  <2>1. after = Ended(walk, "done") /\ beside = Ended(other, "done")
    BY <1>2, <1>3, <1>5 DEF ClientTurn, ProgramTurn, Alike, Ended
  <2>2. Beside(Ended(walk, "done"), Ended(other, "done"), used)
    <3> DEFINE w == Ended(walk, "done")
               o == Ended(other, "done")
    <3>1. /\ w.phase = "done"
          /\ w.sqrt_price = walk.sqrt_price /\ w.tick = walk.tick
          /\ w.liquidity = walk.liquidity /\ w.remaining = walk.remaining
          /\ w.calculated = walk.calculated
          /\ w.first = walk.first /\ w.array = walk.array
          /\ w.used = walk.used /\ w.matched = walk.matched /\ w.turns = walk.turns
      BY <1>1, EndedIs
    <3>2. /\ o.phase = "done"
          /\ o.sqrt_price = other.sqrt_price /\ o.tick = other.tick
          /\ o.liquidity = other.liquidity /\ o.remaining = other.remaining
          /\ o.calculated = other.calculated
          /\ o.first = other.first /\ o.array = other.array /\ o.arrays = other.arrays
          /\ o.used = other.used /\ o.matched = other.matched /\ o.turns = other.turns
      BY <1>1, EndedIs
    <3> HIDE DEF w, o
    <3>3. Beside(w, o, used)  BY <1>2, <3>1, <3>2 DEF Beside, Alike
    <3> QED  BY <3>3 DEF w, o
  <2> QED  BY <2>1, <2>2
<1>6. CASE walk.phase = "walking" /\ ~Over(walk)
           /\ (walk.tick <= MIN_TICK \/ walk.tick >= MAX_TICK)
  <2>1. after = Ended(walk, "done")  BY <1>6 DEF ClientTurn, Ended
  <2>2. after.phase = "done" /\ after.tick = walk.tick  BY <1>1, <2>1, EndedIs
  <2>3. walk.tick \in {MIN_TICK, MAX_TICK}  BY <1>1, <1>6, TickAssumption
  <2> QED  BY <2>2, <2>3
<1>7. CASE walk.phase = "walking" /\ ~Over(walk) /\ walk.turns > LOOP_LIMIT
           /\ ~(walk.tick <= MIN_TICK \/ walk.tick >= MAX_TICK)
  <2>1. after = Failed(walk)  BY <1>7 DEF ClientTurn
  <2> QED  BY <1>1, <2>1, FailedIs
<1>8. CASE walk.phase = "walking" /\ ~Over(walk) /\ ~(walk.turns > LOOP_LIMIT)
           /\ ~(walk.tick <= MIN_TICK \/ walk.tick >= MAX_TICK)
  <2> DEFINE here == TickHere(ticks, walk)
             first == FirstHere(ticks, entered)
  <2>1. after = Turn(ticks, walk, entered)  BY <1>8 DEF ClientTurn
  <2>2. beside = Turn(ticks, other, there)
    BY <1>2, <1>3, <1>8 DEF ProgramTurn, Alike
  <2>3. TickHere(ticks, other) = here  BY <1>1, <1>2 DEF TickHere, Alike
  <2>4. after.phase # "failed" /\ (Len(after.used) = 2 => used = after.used)
    OBVIOUS
  <2> SUFFICES Beside(after, beside, used)
    OBVIOUS
  <2> HIDE DEF after, beside, entered, there
  <2>5. CASE here # {}
    <3> DEFINE t == CHOOSE u \in here : TRUE
    <3>1. t \in here  BY <2>5
    <3>2. after = StepTo(ticks, walk, t)  BY <2>1, <2>5 DEF Turn, StepToOneOf
    <3>3. beside = StepTo(ticks, other, t)  BY <2>2, <2>3, <2>5 DEF Turn, StepToOneOf
    <3> HIDE DEF t
    <3>4. t \in Ticks  BY <1>1, <1>8, <3>1, TickHereIs
    <3>5. Alike(after, beside) /\ beside.arrays = other.arrays /\ after.used = walk.used
      BY <1>1, <1>2, <1>8, <2>4, <3>2, <3>3, <3>4, StepAlike
    <3> QED  BY <3>5 DEF Beside
  <2>6. CASE here = {} /\ ~MayEnter(walk, entered)
    <3>1. after = Failed(walk)  BY <2>1, <2>6 DEF Turn
    <3> QED  BY <1>1, <2>4, <3>1, FailedIs
  <2>7. CASE here = {} /\ MayEnter(walk, entered)
    <3>1. walk.matched /\ entered.phase # "failed"  BY <2>7 DEF MayEnter
    <3>2. Enters(walk, entered) /\ EntersNext(pool, walk, entered)
      <4>1. Failed(walk).phase = "failed"  BY <1>1, FailedIs
      <4> QED  BY <1>1, <3>1, <4>1, ClientEntersIs DEF entered
    <3>3. entered \in Walks(request) /\ entered.request = request
          /\ entered.phase = "walking"
      BY <1>1, <1>8, <3>2 DEF Enters, Walks
    <3>4. after = StepToOneOf(ticks, entered, first)  BY <2>1, <2>7 DEF Turn
    <3>5. first # {}
      <4> SUFFICES ASSUME first = {}
                   PROVE  FALSE
        OBVIOUS
      <4>1. after = Failed(entered)  BY <3>4 DEF StepToOneOf
      <4> QED  BY <2>4, <3>3, <4>1, FailedIs
    <3> DEFINE t == CHOOSE u \in first : TRUE
    <3>6. t \in first  BY <3>5
    <3>7. after = StepTo(ticks, entered, t)  BY <3>4, <3>5 DEF StepToOneOf
    <3>8. t \in Ticks
      <4> HIDE DEF t
      <4> QED  BY <1>1, <1>8, <3>1, <3>2, <3>6, FirstHereIs
    <3>9. after.used = entered.used
      <4>1. Alike(entered, entered)  BY DEF Alike
      <4> HIDE DEF t
      <4> QED  BY <2>4, <3>3, <3>7, <3>8, <4>1, StepAlike
    <3>10. used = entered.used
      <4>1. PICK a \in ArrayAfter(pool, walk.first, request.zero_for_one) :
              entered.used = <<walk.first, a>>
        BY <1>1, <3>2 DEF EntersNext
      <4>2. Len(entered.used) = 2  BY <4>1
      <4> QED  BY <2>4, <3>9, <4>2
    <3>11. Beside(entered, there, used) /\ there \in Walks(request)
      BY <1>1, <3>2, <3>3, <3>10, EntersAlike DEF there
    <3>12. Alike(entered, there) /\ there.request = request
      BY <3>11 DEF Beside, Walks
    <3>13. FirstHere(ticks, there) = first  BY <3>3, <3>12 DEF FirstHere, Alike
    <3>14. MayEnter(other, there)  BY <1>2, <3>1, <3>12 DEF MayEnter, Alike
    <3>15. beside = StepTo(ticks, there, t)
      BY <2>2, <2>3, <2>7, <3>5, <3>13, <3>14 DEF Turn, StepToOneOf
    <3>16. Alike(after, beside) /\ beside.arrays = there.arrays
      <4> HIDE DEF t
      <4> QED  BY <2>4, <3>3, <3>7, <3>8, <3>11, <3>12, <3>15, StepAlike
    <3> QED  BY <3>9, <3>11, <3>16 DEF Beside
  <2> QED  BY <2>5, <2>6, <2>7
<1> QED  BY <1>4, <1>5, <1>6, <1>7, <1>8

LEMMA LaterLater ==
  ASSUME NEW u, NEW v, NEW w, Later(u, v), Later(v, w)
  PROVE  Later(u, w)
BY DEF Later

LEMMA ClientWalkIs ==
  ASSUME NEW pool \in Pools, NEW ticks \in Books, NEW request \in Requests,
         LimitInside(request), NEW start \in ClientWalks(pool, request)
  PROVE  LET walk == ClientTurns(pool, ticks, start)
         IN  /\ walk \in [Nat -> ClientWalks(pool, request)]
             /\ walk[0] = start
             /\ \A n \in Nat : walk[n + 1] = ClientTurn(pool, ticks, walk[n])
             /\ \A n \in 0..MaxTurns : Later(walk[n], SwapCompute(pool, ticks, start))
<1> DEFINE S == ClientWalks(pool, request)
           walk == ClientTurns(pool, ticks, start)
<1>1. \A w \in S : ClientTurn(pool, ticks, w) \in S /\ Later(w, ClientTurn(pool, ticks, w))
  BY ClientTurnIs
<1>2. /\ walk \in [Nat -> S]
      /\ walk[0] = start
      /\ \A n \in Nat : walk[n + 1] = ClientTurn(pool, ticks, walk[n])
  <2>1. start \in S  OBVIOUS
  <2> HIDE DEF S
  <2> QED  BY <1>1, <2>1, ClientLoop
<1>3. SwapCompute(pool, ticks, start) = walk[MaxTurns]  BY DEF SwapCompute
<1> HIDE DEF S, walk
<1>4. \A n \in Nat : walk[n] \in S /\ Later(walk[n], walk[n + 1])
  BY <1>1, <1>2
<1>5. ASSUME NEW m \in Nat
      PROVE  \A k \in Nat : Later(walk[m], walk[m + k])
  <2> DEFINE Reached == {k \in Nat : Later(walk[m], walk[m + k])}
  <2>1. 0 \in Reached
    <3>1. m + 0 = m  OBVIOUS
    <3>2. Later(walk[m], walk[m])  BY DEF Later
    <3> QED  BY <3>1, <3>2
  <2>2. ASSUME NEW k \in Nat, k \in Reached
        PROVE  k + 1 \in Reached
    <3>1. m + k \in Nat /\ m + (k + 1) = (m + k) + 1 /\ k + 1 \in Nat  OBVIOUS
    <3>2. Later(walk[m], walk[m + k])  BY <2>2
    <3>3. Later(walk[m + k], walk[(m + k) + 1])  BY <1>4, <3>1
    <3>4. Later(walk[m], walk[(m + k) + 1])  BY <3>2, <3>3, LaterLater
    <3> QED  BY <3>1, <3>4
  <2> HIDE DEF Reached
  <2>3. \A k \in Nat : k \in Reached  BY <2>1, <2>2, EveryNat
  <2> QED  BY <2>3 DEF Reached
<1>6. ASSUME NEW n \in 0..MaxTurns
      PROVE  Later(walk[n], walk[MaxTurns])
  <2>1. n \in Nat /\ MaxTurns - n \in Nat /\ n + (MaxTurns - n) = MaxTurns
    BY MaxTurnsType
  <2>2. Later(walk[n], walk[n + (MaxTurns - n)])  BY <1>5, <2>1
  <2> QED  BY <2>1, <2>2
<1> QED  BY <1>2, <1>3, <1>6 DEF S, walk

(* Whatever the client's walk ends with, the program's ends with, given    *)
(* the arrays that the client's has been in.                               *)
LEMMA SameWalk ==
  ASSUME NEW pool \in Pools, NEW ticks \in Books, NEW request \in Requests,
         LimitInside(request),
         NEW start \in ClientWalks(pool, request), NEW other \in OnWalks(pool, request),
         SwapCompute(pool, ticks, start).phase = "done",
         SwapCompute(pool, ticks, start).tick \notin {MIN_TICK, MAX_TICK},
         Beside(start, other, SwapCompute(pool, ticks, start).used)
  PROVE  Alike(SwapCompute(pool, ticks, start), ProgramWalk(pool, ticks, other))
<1> DEFINE c == ClientTurns(pool, ticks, start)
           p == ProgramTurns(pool, ticks, other)
           end == SwapCompute(pool, ticks, start)
<1>1. /\ c \in [Nat -> ClientWalks(pool, request)] /\ c[0] = start
      /\ \A n \in Nat : c[n + 1] = ClientTurn(pool, ticks, c[n])
      /\ \A n \in 0..MaxTurns : Later(c[n], end)
  BY ClientWalkIs
<1>2. /\ p \in [Nat -> OnWalks(pool, request)] /\ p[0] = other
      /\ \A n \in Nat : p[n + 1] = ProgramTurn(pool, ticks, p[n])
  <2>1. \A w \in OnWalks(pool, request) :
          ProgramTurn(pool, ticks, w) \in OnWalks(pool, request)
    BY ProgramTurnIs
  <2> QED  BY <2>1, ProgramLoop
<1>3. end = c[MaxTurns] /\ ProgramWalk(pool, ticks, other) = p[MaxTurns]
  BY DEF SwapCompute, ProgramWalk
<1>4. end.phase = "done" /\ end.tick \notin {MIN_TICK, MAX_TICK}
      /\ Beside(start, other, end.used)
  OBVIOUS
<1> SUFFICES Alike(end, p[MaxTurns])
  BY <1>3
<1> HIDE DEF c, p, end
<1> DEFINE Same == {n \in Nat : n <= MaxTurns => Beside(c[n], p[n], end.used)}
<1>5. 0 \in Same  BY <1>1, <1>2, <1>4
<1>6. ASSUME NEW n \in Nat, n \in Same
      PROVE  n + 1 \in Same
  <2> SUFFICES ASSUME n + 1 <= MaxTurns
               PROVE  Beside(c[n + 1], p[n + 1], end.used)
    OBVIOUS
  <2>1. n <= MaxTurns /\ n + 1 \in 0..MaxTurns  BY MaxTurnsType
  <2>2. Beside(c[n], p[n], end.used)  BY <1>6, <2>1
  <2>3. Later(c[n + 1], end)  BY <1>1, <2>1
  <2>4. /\ c[n + 1].phase # "failed"
        /\ Len(c[n + 1].used) = 2 => end.used = c[n + 1].used
        /\ c[n + 1].phase = "done" => c[n + 1].tick \notin {MIN_TICK, MAX_TICK}
    BY <1>4, <2>3 DEF Later
  <2>5. c[n] \in ClientWalks(pool, request) /\ p[n] \in OnWalks(pool, request)
        /\ c[n + 1] = ClientTurn(pool, ticks, c[n])
        /\ p[n + 1] = ProgramTurn(pool, ticks, p[n])
    BY <1>1, <1>2
  <2> QED  BY <2>2, <2>4, <2>5, TurnBeside
<1> HIDE DEF Same
<1>7. MaxTurns \in Same  BY <1>5, <1>6, EveryNat, MaxTurnsType
<1> QED  BY <1>3, <1>7, MaxTurnsType DEF Same, Beside

-----------------------------------------------------------------------------
(* Transfer fees *)

FeeConfigs == [transfer_fee_basis_points : 0..ONE_IN_BASIS_POINTS, maximum_fee : Nat]

LEMMA CeilDivIs ==
  ASSUME NEW x \in Nat, NEW d \in Nat \ {0}
  PROVE  /\ CeilDiv(x, d) \in Nat /\ x <= CeilDiv(x, d) * d /\ CeilDiv(x, d) * d < x + d
<1> DEFINE n == x + d - 1
           q == CeilDiv(x, d)
<1>1. n \in Nat  OBVIOUS
<1>2. q = n \div d  BY DEF CeilDiv
<1>3. q \in Int /\ q * d <= n /\ n < q * d + d  BY <1>1, <1>2, DivBounds
<1>4. q \in Nat
  <2>1. 0 * d < (q + 1) * d  BY <1>1, <1>3
  <2>2. 0 < q + 1  BY <1>3, <2>1, MulCancel
  <2> QED  BY <1>3, <2>2
<1>5. q * d \in Nat  BY <1>4
<1> HIDE DEF q
<1> QED  BY <1>1, <1>3, <1>4, <1>5 DEF q

LEMMA CeilDivMonotone ==
  ASSUME NEW x \in Nat, NEW y \in Nat, x <= y, NEW d \in Nat \ {0}
  PROVE  CeilDiv(x, d) <= CeilDiv(y, d)
<1> DEFINE p == CeilDiv(x, d)
           q == CeilDiv(y, d)
<1>1. p \in Nat /\ p * d < x + d /\ q \in Nat /\ y <= q * d  BY CeilDivIs
<1> HIDE DEF p, q
<1>2. p * d < (q + 1) * d
  <2>1. (q + 1) * d = q * d + d /\ p * d \in Nat /\ q * d \in Nat  BY <1>1
  <2> QED  BY <1>1, <2>1
<1>3. p < q + 1  BY <1>1, <1>2, MulCancel
<1>4. p <= q  BY <1>1, <1>3
<1> QED  BY <1>4 DEF p, q

LEMMA TimesMonotone ==
  ASSUME NEW x \in Nat, NEW y \in Nat, x <= y, NEW d \in Nat
  PROVE  x * d <= y * d /\ x * d \in Nat /\ y * d \in Nat
OBVIOUS

(* A transfer keeps no more than it moves, and no less of more.            *)
LEMMA FeeIs ==
  ASSUME NEW config \in FeeConfigs, NEW x \in Nat
  PROVE  CalculateFee(config, x) \in Nat /\ CalculateFee(config, x) <= x
<1> DEFINE bps == config.transfer_fee_basis_points
           one == ONE_IN_BASIS_POINTS
           q == CeilDiv(x * bps, one)
<1>1. bps \in Nat /\ bps <= one /\ one \in Nat \ {0} /\ config.maximum_fee \in Nat
  BY BasisPointsAssumption DEF FeeConfigs
<1>2. CalculateFee(config, x) = Lesser(q, config.maximum_fee)  BY DEF CalculateFee
<1> HIDE DEF bps, one
<1>3. x * bps <= x * one /\ x * bps \in Nat /\ x * one \in Nat
  <2>1. bps * x <= one * x /\ bps * x \in Nat /\ one * x \in Nat  BY <1>1, TimesMonotone
  <2> QED  BY <1>1, <2>1
<1>4. q \in Nat /\ q * one < x * bps + one  BY <1>1, <1>3, CeilDivIs
<1> HIDE DEF q
<1>5. q <= x
  <2>1. q * one < (x + 1) * one
    <3>1. (x + 1) * one = x * one + one /\ q * one \in Nat  BY <1>1, <1>4
    <3> QED  BY <1>1, <1>3, <1>4, <3>1
  <2>2. q < x + 1  BY <1>1, <1>4, <2>1, MulCancel
  <2> QED  BY <1>4, <2>2
<1> QED  BY <1>1, <1>2, <1>4, <1>5 DEF Lesser

LEMMA FeeMonotone ==
  ASSUME NEW config \in FeeConfigs, NEW x \in Nat, NEW y \in Nat, x <= y
  PROVE  CalculateFee(config, x) <= CalculateFee(config, y)
<1> DEFINE bps == config.transfer_fee_basis_points
           p == CeilDiv(x * bps, ONE_IN_BASIS_POINTS)
           q == CeilDiv(y * bps, ONE_IN_BASIS_POINTS)
           most == config.maximum_fee
<1>1. bps \in Nat /\ most \in Nat  BY BasisPointsAssumption DEF FeeConfigs
<1>2. CalculateFee(config, x) = Lesser(p, most) /\ CalculateFee(config, y) = Lesser(q, most)
  BY DEF CalculateFee
<1> HIDE DEF bps, most
<1>3. x * bps <= y * bps /\ x * bps \in Nat /\ y * bps \in Nat  BY <1>1, TimesMonotone
<1>4. p <= q /\ p \in Nat /\ q \in Nat
  BY <1>3, BasisPointsAssumption, CeilDivIs, CeilDivMonotone
<1> HIDE DEF p, q
<1> QED  BY <1>1, <1>2, <1>4 DEF Lesser

LEMMA PreFeeMonotone ==
  ASSUME NEW config \in FeeConfigs, NEW x \in Nat, NEW y \in Nat, x <= y,
         config.transfer_fee_basis_points # ONE_IN_BASIS_POINTS
  PROVE  /\ CalculatePreFeeAmount(config, x) \in Nat
         /\ CalculatePreFeeAmount(config, x) <= CalculatePreFeeAmount(config, y)
<1> DEFINE bps == config.transfer_fee_basis_points
           most == config.maximum_fee
           rest == ONE_IN_BASIS_POINTS - bps
           Raw(v) == CeilDiv(v * ONE_IN_BASIS_POINTS, rest)
           Pre(v) == IF Raw(v) - v >= most THEN v + most ELSE Raw(v)
<1>1. bps \in Nat /\ most \in Nat /\ rest \in Nat \ {0} /\ rest <= ONE_IN_BASIS_POINTS
      /\ ONE_IN_BASIS_POINTS \in Nat \ {0}
  BY BasisPointsAssumption DEF FeeConfigs
<1>2. CalculatePreFeeAmount(config, x) = (IF bps = 0 \/ x = 0 THEN x ELSE Pre(x))
      /\ CalculatePreFeeAmount(config, y) = (IF bps = 0 \/ y = 0 THEN y ELSE Pre(y))
  BY DEF CalculatePreFeeAmount
<1> HIDE DEF bps, most, rest
<1>3. Raw(x) \in Nat /\ Raw(y) \in Nat /\ Raw(x) <= Raw(y)
  <2>1. x * ONE_IN_BASIS_POINTS <= y * ONE_IN_BASIS_POINTS
        /\ x * ONE_IN_BASIS_POINTS \in Nat /\ y * ONE_IN_BASIS_POINTS \in Nat
    BY <1>1, TimesMonotone
  <2> QED  BY <1>1, <2>1, CeilDivIs, CeilDivMonotone
<1> HIDE DEF Raw
<1>4. Pre(x) \in Nat /\ Pre(y) \in Nat /\ Pre(x) <= Pre(y)  BY <1>1, <1>3
<1> HIDE DEF Pre
<1> QED  BY <1>2, <1>4

(* What must be sent for more to arrive is no less.                        *)
LEMMA SentMonotone ==
  ASSUME NEW config \in FeeConfigs, NEW x \in Nat, NEW y \in Nat, x <= y
  PROVE  x + InverseFee(config, x) <= y + InverseFee(config, y)
<1> DEFINE p == CalculatePreFeeAmount(config, x)
           q == CalculatePreFeeAmount(config, y)
<1>1. CASE config.transfer_fee_basis_points = ONE_IN_BASIS_POINTS
  <2>1. InverseFee(config, x) = config.maximum_fee /\ config.maximum_fee \in Nat
        /\ InverseFee(config, y) = config.maximum_fee
    BY <1>1 DEF InverseFee, FeeConfigs
  <2> QED  BY <2>1
<1>2. CASE config.transfer_fee_basis_points # ONE_IN_BASIS_POINTS
  <2>1. InverseFee(config, x) = CalculateFee(config, p)
        /\ InverseFee(config, y) = CalculateFee(config, q)
    BY <1>2 DEF InverseFee
  <2>2. p \in Nat /\ p <= q /\ q \in Nat
    <3>1. p \in Nat /\ p <= q  BY <1>2, PreFeeMonotone
    <3>2. y <= y  OBVIOUS
    <3>3. q \in Nat  BY <1>2, <3>2, PreFeeMonotone
    <3> QED  BY <3>1, <3>3
  <2> HIDE DEF p, q
  <2>3. CalculateFee(config, p) \in Nat /\ CalculateFee(config, q) \in Nat
        /\ CalculateFee(config, p) <= CalculateFee(config, q)
    BY <2>2, FeeIs, FeeMonotone
  <2> QED  BY <2>1, <2>3
<1> QED  BY <1>1, <1>2

LEMMA NoFeeIs ==
  ASSUME NEW x \in Nat
  PROVE  CalculateFee(NoFee, x) = 0 /\ InverseFee(NoFee, x) = 0
<1>1. NoFee.transfer_fee_basis_points = 0 /\ NoFee.maximum_fee = 0  BY DEF NoFee
<1>2. NoFee \in FeeConfigs  BY BasisPointsAssumption DEF NoFee, FeeConfigs
<1>3. CalculateFee(NoFee, x) = 0
  <2> DEFINE q == CeilDiv(x * NoFee.transfer_fee_basis_points, ONE_IN_BASIS_POINTS)
  <2>1. q \in Nat
    <3>1. x * NoFee.transfer_fee_basis_points \in Nat  BY <1>1
    <3> QED  BY <3>1, BasisPointsAssumption, CeilDivIs
  <2>2. CalculateFee(NoFee, x) = Lesser(q, 0)  BY <1>1 DEF CalculateFee
  <2>3. CalculateFee(NoFee, x) \in Nat  BY <1>2, FeeIs
  <2> HIDE DEF q
  <2> QED  BY <2>1, <2>2, <2>3 DEF Lesser
<1>4. CalculatePreFeeAmount(NoFee, x) = x  BY <1>1 DEF CalculatePreFeeAmount
<1>5. NoFee.transfer_fee_basis_points # ONE_IN_BASIS_POINTS  BY <1>1, BasisPointsAssumption
<1> QED  BY <1>3, <1>4, <1>5 DEF InverseFee

LEMMA MintIs ==
  ASSUME mint \in Mints, NEW request
  PROVE  InputMint(request) \in FeeConfigs /\ OutputMint(request) \in FeeConfigs
<1>1. mint \in Seq(FeeConfigs) /\ Len(mint) = 2  BY MintAssumption DEF FeeConfigs
<1>2. mint[1] \in FeeConfigs /\ mint[2] \in FeeConfigs
  <2>1. \A i \in 1..Len(mint) : mint[i] \in FeeConfigs  BY <1>1, ElementOfSeq
  <2>2. 1 \in 1..Len(mint) /\ 2 \in 1..Len(mint)  BY <1>1
  <2> QED  BY <2>1, <2>2
<1> QED  BY <1>2 DEF InputMint, OutputMint

LEMMA AmountsAre ==
  ASSUME mint \in Mints, NEW request \in Requests, OutputMint(request) = NoFee
  PROVE  AmountToQuote(request) \in Nat /\ AmountSpecified(request) = AmountToQuote(request)
<1> DEFINE x == request.amount
           fee == CalculateFee(InputMint(request), x)
<1>1. x \in Nat  BY RequestIs
<1>2. fee \in Nat /\ fee <= x  BY <1>1, MintIs, FeeIs
<1>3. InverseFee(OutputMint(request), x) = 0  BY <1>1, NoFeeIs
<1> HIDE DEF x, fee
<1>4. x - fee \in Nat /\ x + 0 = x  BY <1>1, <1>2
<1> QED  BY <1>1, <1>3, <1>4 DEF AmountToQuote, AmountSpecified, x, fee

(* The quote itself meets the threshold that is made of it.                *)
LEMMA ThresholdIs ==
  ASSUME mint \in Mints, NEW request \in Requests, OutputMint(request) = NoFee,
         NEW end, end.request = request, end.calculated \in Nat
  PROVE  WithinThreshold(end, OtherAmountThreshold(request, end.calculated))
<1> DEFINE x == end.calculated
           config == InputMint(request)
           low == (x * (10 - SlippageTenths)) \div 10
           high == CeilDiv(x * (10 + SlippageTenths), 10)
<1>1. SlippageTenths \in Nat /\ 10 - SlippageTenths \in Nat /\ 10 - SlippageTenths <= 10
      /\ 10 + SlippageTenths \in Nat /\ 10 <= 10 + SlippageTenths
  BY ClientAssumption
<1>2. x \in Nat  OBVIOUS
<1> HIDE DEF x
<1>3. CASE request.is_base_input
  <2> DEFINE s == 10 - SlippageTenths
  <2>1. s \in Nat /\ s <= 10  BY <1>1
  <2> HIDE DEF s
  <2>2. x * s \in Nat /\ x * s <= x * 10
    <3>1. s * x <= 10 * x /\ s * x \in Nat  BY <1>2, <2>1, TimesMonotone
    <3> QED  BY <1>2, <2>1, <3>1
  <2> DEFINE n == x * s
             q == n \div 10
  <2>3. q \in Int /\ q * 10 <= n
    <3> HIDE DEF n
    <3>1. n \in Int /\ 10 \in Nat \ {0}  BY <2>2 DEF n
    <3> QED  BY <3>1, DivBounds
  <2>4. q <= x
    <3> HIDE DEF n, q
    <3>1. n <= x * 10 /\ n \in Nat  BY <2>2 DEF n
    <3> QED  BY <1>2, <2>3, <3>1
  <2>5. OtherAmountThreshold(request, x) = q  BY <1>3 DEF OtherAmountThreshold, s
  <2>6. CalculateFee(OutputMint(request), x) = 0  BY <1>2, NoFeeIs
  <2>7. x - 0 >= q
    <3> HIDE DEF q
    <3> QED  BY <1>2, <2>3, <2>4
  <2> HIDE DEF q
  <2> QED  BY <1>3, <2>5, <2>6, <2>7 DEF WithinThreshold, x
<1>4. CASE ~request.is_base_input
  <2> DEFINE s == 10 + SlippageTenths
  <2>1. s \in Nat /\ 10 <= s  BY <1>1
  <2>2. high = CeilDiv(x * s, 10)  OBVIOUS
  <2> HIDE DEF s, high
  <2>3. x * s \in Nat /\ x * 10 <= x * s
    <3>1. 10 * x <= s * x /\ s * x \in Nat  BY <1>2, <2>1, TimesMonotone
    <3> QED  BY <1>2, <2>1, <3>1
  <2>4. high \in Nat /\ x * s <= high * 10  BY <2>2, <2>3, CeilDivIs
  <2>5. x <= high
    <3> DEFINE n == x * s
    <3>1. n \in Nat /\ x * 10 <= n /\ n <= high * 10  BY <2>3, <2>4
    <3> HIDE DEF n
    <3> QED  BY <1>2, <2>4, <3>1
  <2>6. x + InverseFee(config, x) <= high + InverseFee(config, high)
    BY <1>2, <2>4, <2>5, MintIs, SentMonotone
  <2>7. OtherAmountThreshold(request, x) = high + InverseFee(config, high)
    BY <1>4 DEF OtherAmountThreshold, high
  <2> QED  BY <1>4, <2>6, <2>7 DEF WithinThreshold, x
<1> QED  BY <1>3, <1>4

-----------------------------------------------------------------------------
(* The quote is kept *)

SeenIsTyped == PoolSeen \in Pools /\ TicksSeen \in Books

LEMMA SeenType ==
  ASSUME TypeOK, TickFitsPrice
  PROVE  SeenIsTyped
<1>1. PoolSeen \in [sqrt_price : Prices, tick : MIN_TICK..MAX_TICK,
                    liquidity : 0..MaxLiquidity, bitmap : SUBSET ArrayStarts]
  BY DEF TypeOK, PoolSeen
<1>2. Fits(PoolSeen.tick, PoolSeen.sqrt_price)  BY DEF TickFitsPrice, PoolSeen
<1>3. Initialized \subseteq Ticks  BY DEF Initialized
<1>4. TicksSeen \in Books  BY <1>3 DEF TypeOK, TicksSeen, Books
<1> QED  BY <1>1, <1>2, <1>4 DEF SeenIsTyped, Pools

(* The client's walk begins as it should, in the first of the arrays that  *)
(* it loaded.                                                              *)
LEMMA ClientStartIs ==
  ASSUME NEW pool \in Pools, NEW request \in Requests,
         LimitInside(request), LimitAhead(request, pool), NEW amount \in Nat,
         NEW first \in FirstArrayOf(pool, request.zero_for_one)
  PROVE  Start(request, amount, pool, first,
               Tail(ArraysFrom(pool, first, request.zero_for_one)))
           \in ClientWalks(pool, request)
<1> DEFINE z == request.zero_for_one
           arrays == ArraysFrom(pool, first, z)
           rest == Tail(arrays)
           start == Start(request, amount, pool, first, rest)
<1>1. first \in ArrayStarts  BY FirstArrayIs
<1>2. arrays \in LoadedFrom(pool, first, z)
  BY <1>1, ClientAssumption, LoadedIs DEF ArraysFrom
<1> HIDE DEF arrays
<1>3. /\ arrays \in Seq(ArrayStarts) /\ Len(arrays) \in Nat /\ Len(arrays) >= 1
      /\ Len(arrays) >= 3 => arrays[3] \notin ArrayAfter(pool, first, z)
  BY <1>2 DEF LoadedFrom
<1>4. rest \in Seq(ArrayStarts) /\ Len(rest) = Len(arrays) - 1
      /\ \A i \in 1..Len(rest) : rest[i] = arrays[i + 1]
  <2>1. arrays # <<>>  BY <1>3
  <2> QED  BY <1>3, <2>1, HeadTailProperties
<1> HIDE DEF rest
<1>5. Len(rest) >= 2 => rest[2] \notin ArrayAfter(pool, first, z)
  <2> SUFFICES ASSUME Len(rest) >= 2
               PROVE  rest[2] \notin ArrayAfter(pool, first, z)
    OBVIOUS
  <2> DEFINE m == Len(rest)
             n == Len(arrays)
  <2>1. n \in Nat /\ m = n - 1 /\ m >= 2  BY <1>3, <1>4
  <2> HIDE DEF m, n
  <2>2. 2 \in 1..m /\ n >= 3 /\ 2 + 1 = 3  BY <2>1
  <2>3. rest[2] = arrays[3]  BY <1>4, <2>2 DEF m
  <2> QED  BY <1>3, <2>2, <2>3 DEF n
<1>6. start \in OnWalks(pool, request)  BY <1>4, StartIs
<1>7. /\ start.first = first /\ start.array = first /\ start.used = <<first>>
      /\ start.arrays = rest /\ start.request = request
  BY DEF Start
<1>8. AtMostOne(pool, start)
  <2> HIDE DEF start
  <2> QED  BY <1>5, <1>7 DEF AtMostOne
<1> QED  BY <1>6, <1>8 DEF ClientWalks, rest, arrays

FirstAmong(pool, request, arrays) ==
  {i \in DOMAIN arrays : arrays[i] \in FirstArrayOf(pool, request.zero_for_one)}
StartAmong(pool, request, amount, arrays) ==
  LET at == FirstAmong(pool, request, arrays)
  IN  Start(request, amount, pool, arrays[Min(at)],
            SubSeq(arrays, Min(at) + 1, Len(arrays)))

(* The arrays that the program is given are those of the quote, the first  *)
(* of which it finds to be its first, so that its walk begins beside the   *)
(* client's.                                                               *)
LEMMA ProgramStartIs ==
  ASSUME NEW pool \in Pools, NEW request \in Requests,
         LimitInside(request), LimitAhead(request, pool), NEW amount \in Nat,
         NEW first \in FirstArrayOf(pool, request.zero_for_one),
         NEW start, start.request = request, start.phase = "walking",
         start.sqrt_price = pool.sqrt_price, start.tick = pool.tick,
         start.liquidity = pool.liquidity, start.remaining = amount,
         start.calculated = 0, start.first = first, start.array = first,
         start.used = <<first>>, start.matched = (first = ArrayStart(pool.tick)),
         start.turns = 0,
         NEW end \in Walks(request), AtMostOne(pool, end), end.first = first
  PROVE  /\ FirstAmong(pool, request, end.used) # {}
         /\ StartAmong(pool, request, amount, end.used) \in OnWalks(pool, request)
         /\ Beside(start, StartAmong(pool, request, amount, end.used), end.used)
<1> DEFINE used == end.used
           at == {i \in DOMAIN used : used[i] \in FirstArrayOf(pool, request.zero_for_one)}
           rest == SubSeq(used, 1 + 1, Len(used))
<1>1. FirstArrayOf(pool, request.zero_for_one) = {first} /\ first \in ArrayStarts
      /\ first \in Int
  <2>1. FirstArrayOf(pool, request.zero_for_one) = {first} /\ first \in ArrayStarts
    BY FirstArrayIs
  <2> QED  BY <2>1, ArrayStartsInt
<1>2. end.request = request  BY DEF Walks
<1>3. at = {1} /\ used[1] = first /\ rest = Onward(used) /\ rest \in Seq(ArrayStarts)
  <2>1. CASE used = <<first>>
    <3>1. Len(used) = 1 /\ used[1] = first /\ DOMAIN used = {1}  BY <2>1
    <3>2. rest = <<>>  BY <2>1
    <3>3. Onward(used) = <<>>  BY <3>1 DEF Onward
    <3> HIDE DEF used, rest
    <3> QED  BY <1>1, <3>1, <3>2, <3>3
  <2>2. ASSUME NEW a \in ArrayAfter(pool, first, request.zero_for_one), used = <<first, a>>
        PROVE  at = {1} /\ used[1] = first /\ rest = Onward(used)
               /\ rest \in Seq(ArrayStarts)
    <3>1. a \in ArrayStarts /\ a \in Int /\ Past(request, a, first)  BY ArrayAfterIs
    <3>2. a # first  BY <1>1, <3>1 DEF Past
    <3>3. Len(used) = 2 /\ used[1] = first /\ used[2] = a /\ DOMAIN used = {1, 2}  BY <2>2
    <3>4. rest = <<a>>  BY <1>1, <2>2, <3>1, SecondOfTwo
    <3>5. Onward(used) = <<a>>  BY <3>3 DEF Onward
    <3>6. <<a>> \in Seq(ArrayStarts)  BY <3>1
    <3> HIDE DEF used, rest
    <3> QED  BY <1>1, <3>2, <3>3, <3>4, <3>5, <3>6
  <2> QED  BY <1>2, <2>1, <2>2 DEF AtMostOne
<1>4. Min(at) = 1
  <2>1. Min({1}) \in {1}  BY LeastIs
  <2> HIDE DEF at
  <2> QED  BY <1>3, <2>1
<1> DEFINE other == Start(request, amount, pool, first, rest)
<1>5. other \in OnWalks(pool, request)
  <2> HIDE DEF rest
  <2> QED  BY <1>3, StartIs
<1>6. Beside(start, other, used)
  <2>1. /\ other.phase = "walking" /\ other.request = request
        /\ other.sqrt_price = pool.sqrt_price /\ other.tick = pool.tick
        /\ other.liquidity = pool.liquidity /\ other.remaining = amount
        /\ other.calculated = 0 /\ other.first = first /\ other.array = first
        /\ other.used = <<first>> /\ other.matched = (first = ArrayStart(pool.tick))
        /\ other.turns = 0 /\ other.arrays = rest
    BY DEF Start
  <2> HIDE DEF other, rest, used
  <2>2. Len(start.used) = 1  OBVIOUS
  <2> QED  BY <1>3, <2>1, <2>2 DEF Beside, Alike
<1>7. FirstAmong(pool, request, used) = at  BY DEF FirstAmong
<1>8. StartAmong(pool, request, amount, used) = other
  <2> HIDE DEF at, used
  <2> QED  BY <1>3, <1>4, <1>7 DEF StartAmong
<1> HIDE DEF at, used, other
<1> QED  BY <1>3, <1>5, <1>6, <1>7, <1>8 DEF used

(* Where the client has a quote, the program's swap ends with its amounts. *)
LEMMA QuotedIsTraded ==
  ASSUME mint \in Mints, SeenIsTyped,
         NEW request \in Requests, OutputMint(request) = NoFee,
         LimitOf(request) \notin {SqrtPrice[MIN_TICK], SqrtPrice[MAX_TICK]},
         ClientTakes(request, PoolSeen),
         FirstArrayOf(PoolSeen, request.zero_for_one) # {},
         NEW quote, quote = Quote(request, PoolSeen), quote.phase = "done",
         quote.tick \notin {MIN_TICK, MAX_TICK}, quote.calculated > 0,
         quote.remaining < AmountToQuote(request)
  PROVE  LET end == Exact(request, quote.used)
         IN  /\ end.phase = "done" /\ end.request = request
             /\ end.calculated = quote.calculated /\ end.remaining = quote.remaining
             /\ quote.calculated \in Nat /\ quote.used \in Seq(ArrayStarts)
             /\ quote.used # <<>>
<1> DEFINE pool == PoolSeen
           ticks == TicksSeen
           z == request.zero_for_one
           first == CHOOSE a \in FirstArrayOf(pool, z) : TRUE
           amount == AmountToQuote(request)
           rest == Tail(ArraysFrom(pool, first, z))
           start == Start(request, amount, pool, first, rest)
<1>1. pool \in Pools /\ ticks \in Books  BY DEF SeenIsTyped
<1>2. LimitInside(request) /\ LimitAhead(request, pool) /\ amount # 0
  BY DEF ClientTakes, LimitInside
<1>3. amount \in Nat /\ AmountSpecified(request) = amount  BY AmountsAre
<1>4. first \in FirstArrayOf(pool, z)  OBVIOUS
<1>5. quote = SwapCompute(pool, ticks, start)  BY DEF Quote
<1> HIDE DEF pool, ticks, first, amount
<1>6. start \in ClientWalks(pool, request)  BY <1>1, <1>2, <1>3, <1>4, ClientStartIs
<1>7. /\ start.request = request /\ start.phase = "walking"
      /\ start.sqrt_price = pool.sqrt_price /\ start.tick = pool.tick
      /\ start.liquidity = pool.liquidity /\ start.remaining = amount
      /\ start.calculated = 0 /\ start.first = first /\ start.array = first
      /\ start.used = <<first>> /\ start.matched = (first = ArrayStart(pool.tick))
      /\ start.turns = 0
  BY DEF Start
<1> HIDE DEF start, rest
<1>8. quote \in ClientWalks(pool, request)
  <2>1. ClientTurns(pool, ticks, start) \in [Nat -> ClientWalks(pool, request)]
    BY <1>1, <1>2, <1>6, ClientWalkIs
  <2> QED  BY <1>5, <2>1, MaxTurnsType DEF SwapCompute
<1>9. quote.first = first /\ quote \in Walks(request) /\ AtMostOne(pool, quote)
      /\ quote \in OnWalks(pool, request) /\ quote.request = request
  <2>1. ClientTurns(pool, ticks, start)[0] = start
        /\ Later(ClientTurns(pool, ticks, start)[0], quote)
    <3>1. 0 \in 0..MaxTurns  BY MaxTurnsType
    <3> QED  BY <1>1, <1>2, <1>5, <1>6, <3>1, ClientWalkIs
  <2> QED  BY <1>7, <1>8, <2>1 DEF Later, ClientWalks, OnWalks, Walks
<1> DEFINE used == quote.used
           at == FirstAmong(pool, request, used)
           other == StartAmong(pool, request, amount, used)
           end == ProgramWalk(pool, ticks, other)
<1>10. at # {} /\ other \in OnWalks(pool, request) /\ Beside(start, other, used)
  BY <1>1, <1>2, <1>3, <1>4, <1>7, <1>9, ProgramStartIs
<1> HIDE DEF at, other
<1>11. Alike(quote, end)
  BY <1>1, <1>2, <1>5, <1>6, <1>10, SameWalk
<1>12. end \in OnWalks(pool, request)  BY <1>1, <1>2, <1>10, ProgramWalkIs
<1> HIDE DEF end
<1>13. /\ end.phase = "done" /\ end.calculated = quote.calculated
       /\ end.remaining = quote.remaining /\ end.calculated > 0
       /\ end.remaining < AmountSpecified(request)
       /\ end.request = request
  BY <1>3, <1>11, <1>12 DEF Alike, OnWalks, Walks, amount
<1>14. end.sqrt_price # sqrt_price
  <2>1. end.sqrt_price # pool.sqrt_price  BY <1>12, <1>13 DEF OnWalks, OnWay
  <2> QED  BY <2>1 DEF pool, PoolSeen
<1>15. Exact(request, used) = end
  <2>1. ProgramTakes(request)
    BY <1>2, <1>3 DEF ProgramTakes, LimitInside, pool
  <2>2. Exact(request, used) = Traded(request, end)
    BY <1>3, <1>10, <2>1 DEF Exact, at, other, end, pool, ticks, amount,
      FirstAmong, StartAmong
  <2> QED  BY <1>13, <1>14, <2>2 DEF Traded
<1>16. used \in Seq(ArrayStarts) /\ quote.calculated \in Nat  BY <1>9 DEF Walks
<1>17. used # <<>>
  <2>1. at \subseteq DOMAIN used  BY DEF at, FirstAmong
  <2> QED  BY <1>10, <2>1
<1> QED  BY <1>13, <1>15, <1>16, <1>17

-----------------------------------------------------------------------------
(* The invariant *)

(* A command that nobody disturbs knows the pool as it is, and has sent    *)
(* the quote that the pool would give it still.                            *)
IsQuote(c) ==
  LET quote == Quote(c.request, PoolSeen)
  IN  /\ ClientTakes(c.request, PoolSeen)
      /\ FirstArrayOf(PoolSeen, c.request.zero_for_one) # {}
      /\ quote.phase = "done"
      /\ c.quote = [calculated |-> quote.calculated, remaining |-> quote.remaining,
                    tick |-> quote.tick]
      /\ c.instr = SwapSent(c.request, quote.used,
                            OtherAmountThreshold(c.request, quote.calculated))
PoolFresh == command.phase = "pool" /\ command.others = 0 => command.pool = PoolSeen
QuoteFresh == command.phase = "sent" /\ command.others = 0 => IsQuote(command)

IsSent(c) ==
  c = [phase |-> "sent", request |-> c.request, others |-> c.others,
       quote |-> c.quote, instr |-> c.instr]
CommandOk(c) ==
  \/ c = Idle
  \/ /\ c \in [phase : {"pool"}, request : Requests, pool : Pools, others : Nat]
     /\ FirstArrayOf(c.pool, c.request.zero_for_one) # {}
  \/ /\ IsSent(c) /\ c.request \in Requests /\ c.others \in Nat
     /\ LimitInside(c.request) => TickArrayStates(c.instr) \in Seq(ArrayStarts)
  \/ c \in [phase : {"failed"}, request : Requests, others : Nat]

ClientInv ==
  /\ TypeInv /\ TickFitsPrice /\ mint \in Mints
  /\ CommandOk(command) /\ PoolFresh /\ QuoteFresh

LEMMA SentArrays ==
  ASSUME NEW request \in Requests, NEW used \in Seq(ArrayStarts), used # <<>>, NEW limit
  PROVE  TickArrayStates(SwapSent(request, used, limit)) = used
<1>1. CASE request.kind = "Swap"
  <2>1. TickArrayStates(SwapSent(request, used, limit)) = <<Head(used)>> \o Tail(used)
    BY <1>1 DEF TickArrayStates, SwapSent, SwapInstr
  <2>2. <<Head(used)>> \o Tail(used) = used  BY HeadTailProperties
  <2> QED  BY <2>1, <2>2
<1>2. CASE request.kind # "Swap"
  <2>1. TickArrayStates(SwapSent(request, used, limit)) = <<>> \o used
    BY <1>2 DEF TickArrayStates, SwapSent, SwapV2Instr
  <2>2. <<>> \o used = used  OBVIOUS
  <2> QED  BY <2>1, <2>2
<1> QED  BY <1>1, <1>2

LEMMA KeptByInv == ClientInv => QuoteIsKept
<1> DEFINE request == command.request
           quote == Quote(request, PoolSeen)
           end == Exact(request, quote.used)
<1> SUFFICES ASSUME ClientInv, command.phase = "sent", command.others = 0,
                    OutputMint(request) = NoFee,
                    LimitOf(request) \notin {SqrtPrice[MIN_TICK], SqrtPrice[MAX_TICK]},
                    command.quote.tick \notin {MIN_TICK, MAX_TICK},
                    command.quote.calculated > 0,
                    command.quote.remaining < AmountToQuote(request)
             PROVE  Confirms(Exact(request, TickArrayStates(command.instr)))
  BY DEF QuoteIsKept, Undisturbed
<1>1. mint \in Mints /\ SeenIsTyped  BY SeenType DEF ClientInv, TypeInv
<1>2. request \in Requests
  <2>1. CommandOk(command) /\ command # Idle  BY DEF ClientInv, Idle
  <2> QED  BY <2>1 DEF CommandOk
<1>3. /\ ClientTakes(request, PoolSeen)
      /\ FirstArrayOf(PoolSeen, request.zero_for_one) # {}
      /\ quote.phase = "done"
      /\ command.quote.calculated = quote.calculated
      /\ command.quote.remaining = quote.remaining
      /\ command.quote.tick = quote.tick
      /\ command.instr = SwapSent(request, quote.used,
                                  OtherAmountThreshold(request, quote.calculated))
  BY DEF ClientInv, QuoteFresh, IsQuote
<1>4. /\ end.phase = "done" /\ end.request = request
      /\ end.calculated = quote.calculated /\ end.remaining = quote.remaining
      /\ quote.calculated \in Nat /\ quote.used \in Seq(ArrayStarts) /\ quote.used # <<>>
  <2> HIDE DEF request
  <2>1. quote.tick \notin {MIN_TICK, MAX_TICK} /\ quote.calculated > 0
        /\ quote.remaining < AmountToQuote(request)
    BY <1>3 DEF request
  <2> QED  BY <1>1, <1>2, <1>3, <2>1, QuotedIsTraded DEF request
<1> HIDE DEF request, quote, end
<1>5. Exact(request, TickArrayStates(command.instr)) = end
  BY <1>2, <1>3, <1>4, SentArrays DEF end
<1>6. WithinThreshold(end, OtherAmountThreshold(request, end.calculated))
  BY <1>1, <1>2, <1>4, ThresholdIs DEF request
<1>7. command.instr.other_amount_threshold = OtherAmountThreshold(request, end.calculated)
  BY <1>3, <1>4 DEF SwapSent, SwapInstr, SwapV2Instr
<1> QED  BY <1>3, <1>4, <1>5, <1>6, <1>7 DEF Confirms, request

(* Where nothing but the command changes, its quote stays what it was.     *)
LEMMA QuoteFrame ==
  ASSUME UNCHANGED <<vars, mint>>, NEW c
  PROVE  PoolSeen' = PoolSeen /\ (IsQuote(c) => IsQuote(c)')
<1>1. PoolSeen' = PoolSeen /\ TicksSeen' = TicksSeen
  BY DEF PoolSeen, TicksSeen, Initialized, vars, bookVars, tickVars, indexVars, poolVars
<1>2. mint' = mint  OBVIOUS
<1>3. Quote(c.request, PoolSeen)' = Quote(c.request, PoolSeen)
  BY <1>1, <1>2 DEF Quote, ClientTakes, AmountToQuote, InputMint
<1>4. ClientTakes(c.request, PoolSeen)' = ClientTakes(c.request, PoolSeen)
  BY <1>1, <1>2 DEF ClientTakes, AmountToQuote, InputMint
<1>5. \A x : OtherAmountThreshold(c.request, x)' = OtherAmountThreshold(c.request, x)
  BY <1>2 DEF OtherAmountThreshold, InputMint
<1> QED  BY <1>1, <1>3, <1>4, <1>5 DEF IsQuote

-----------------------------------------------------------------------------
(* The steps *)

LEMMA InverseFeeType ==
  ASSUME NEW config \in FeeConfigs, NEW x \in Nat
  PROVE  InverseFee(config, x) \in Nat
<1>1. CASE config.transfer_fee_basis_points = ONE_IN_BASIS_POINTS
  BY <1>1 DEF InverseFee, FeeConfigs
<1>2. CASE config.transfer_fee_basis_points # ONE_IN_BASIS_POINTS
  <2>1. x <= x  OBVIOUS
  <2>2. CalculatePreFeeAmount(config, x) \in Nat  BY <1>2, <2>1, PreFeeMonotone
  <2> QED  BY <1>2, <2>2, FeeIs DEF InverseFee
<1> QED  BY <1>1, <1>2

LEMMA AmountsType ==
  ASSUME mint \in Mints, NEW request \in Requests
  PROVE  AmountToQuote(request) \in Nat /\ AmountSpecified(request) \in Nat
<1> DEFINE x == request.amount
           fee == CalculateFee(InputMint(request), x)
           more == InverseFee(OutputMint(request), x)
<1>1. x \in Nat  BY RequestIs
<1>2. fee \in Nat /\ fee <= x /\ more \in Nat  BY <1>1, MintIs, FeeIs, InverseFeeType
<1> HIDE DEF x, fee, more
<1>3. x - fee \in Nat /\ x + more \in Nat  BY <1>1, <1>2
<1> QED  BY <1>1, <1>3 DEF AmountToQuote, AmountSpecified, x, fee, more

(* A swap that the program accepts is a whole walk through the pool, from  *)
(* its first array on.                                                     *)
Runs(request, end) ==
  \E amount \in Nat, first \in FirstArrayOf(PoolSeen, request.zero_for_one),
     rest \in Seq(ArrayStarts) :
    end = ProgramWalk(PoolSeen, TicksSeen, Start(request, amount, PoolSeen, first, rest))

LEMMA ExactRuns ==
  ASSUME mint \in Mints, NEW request \in Requests, NEW arrays,
         LimitInside(request) => arrays \in Seq(ArrayStarts),
         Exact(request, arrays).phase = "done"
  PROVE  /\ LimitInside(request) /\ LimitAhead(request, PoolSeen)
         /\ Runs(request, Exact(request, arrays))
<1> DEFINE pool == PoolSeen
           at == FirstAmong(pool, request, arrays)
           a == arrays[Min(at)]
           amount == AmountSpecified(request)
           rest == SubSeq(arrays, Min(at) + 1, Len(arrays))
           end == ProgramWalk(pool, TicksSeen, Start(request, amount, pool, a, rest))
<1>1. ProgramTakes(request) /\ at # {} /\ Exact(request, arrays) = Traded(request, end)
  BY DEF Exact, FirstAmong
<1>2. Exact(request, arrays) = end  BY <1>1 DEF Traded
<1>3. LimitInside(request) /\ LimitAhead(request, pool) /\ arrays \in Seq(ArrayStarts)
  BY <1>1 DEF ProgramTakes, LimitInside
<1>4. Min(at) \in 1..Len(arrays) /\ Len(arrays) \in Nat
      /\ a \in FirstArrayOf(pool, request.zero_for_one)
  <2>1. at \subseteq 1..Len(arrays) /\ Len(arrays) \in Nat  BY <1>3 DEF FirstAmong
  <2>2. at \subseteq Nat  BY <2>1
  <2>3. Min(at) \in at
    <3> HIDE DEF at
    <3> QED  BY <1>1, <2>2, LeastIs
  <2>4. a \in FirstArrayOf(pool, request.zero_for_one)  BY <2>3 DEF FirstAmong
  <2> HIDE DEF at, a
  <2> QED  BY <2>1, <2>3, <2>4
<1> HIDE DEF at
<1>5. rest \in Seq(ArrayStarts)  BY <1>3, <1>4
<1>6. amount \in Nat  BY AmountsType
<1> HIDE DEF a, rest, amount
<1>7. Runs(request, end)  BY <1>4, <1>5, <1>6 DEF Runs
<1> QED  BY <1>2, <1>3, <1>7

LEMMA ExactIs ==
  ASSUME mint \in Mints, SeenIsTyped, NEW request \in Requests, NEW arrays,
         LimitInside(request) => arrays \in Seq(ArrayStarts),
         Exact(request, arrays).phase = "done"
  PROVE  Exact(request, arrays) \in OnWalks(PoolSeen, request)
<1> DEFINE end == Exact(request, arrays)
<1>1. LimitInside(request) /\ LimitAhead(request, PoolSeen) /\ Runs(request, end)
  BY ExactRuns
<1>2. PoolSeen \in Pools /\ TicksSeen \in Books  BY DEF SeenIsTyped
<1> HIDE DEF end
<1>3. PICK amount \in Nat, first \in FirstArrayOf(PoolSeen, request.zero_for_one),
           rest \in Seq(ArrayStarts) :
        end = ProgramWalk(PoolSeen, TicksSeen, Start(request, amount, PoolSeen, first, rest))
  BY <1>1 DEF Runs
<1>4. Start(request, amount, PoolSeen, first, rest) \in OnWalks(PoolSeen, request)
  BY <1>1, <1>2, StartIs
<1>5. end \in OnWalks(PoolSeen, request)  BY <1>1, <1>2, <1>3, <1>4, ProgramWalkIs
<1> QED  BY <1>5 DEF end

(* What such a walk leaves in the pool has its type and fits.              *)
LEMMA SwappedIs ==
  ASSUME TypeInv, TickFitsPrice, NEW pool, NEW request, NEW end \in OnWalks(pool, request),
         Swapped(end)
  PROVE  TypeInv' /\ TickFitsPrice' /\ mint' = mint
<1>1. end.sqrt_price \in Prices /\ end.tick \in MIN_TICK..MAX_TICK
      /\ end.liquidity \in 0..MaxLiquidity /\ Fits(end.tick, end.sqrt_price)
  BY DEF OnWalks, Walks, OnWay
<1>2. /\ sqrt_price' = end.sqrt_price /\ tick_current' = end.tick
      /\ liquidity' = end.liquidity /\ mint' = mint /\ position' = position /\ swap' = swap
      /\ UNCHANGED <<liquidity_net, liquidity_gross, initialized_tick_count,
                     tick_array_bitmap, protocol_liquidity>>
  BY DEF Swapped, bookVars, tickVars, indexVars
<1>3. TypeOK'  BY <1>1, <1>2 DEF TypeInv, TypeOK
<1>4. SwapLimitAhead' /\ RangeOrdered'
  BY <1>2 DEF TypeInv, SwapLimitAhead, RangeOrdered
<1>5. TickFitsPrice'  BY <1>1, <1>2 DEF TickFitsPrice, Fits
<1> QED  BY <1>2, <1>3, <1>4, <1>5 DEF TypeInv

(* What others know of the arrays is typed as well.                        *)
LEMMA AllArraysType ==
  ASSUME SeenIsTyped, TypeOK, NEW request \in Requests,
         NEW arrays \in AllArrays(request.zero_for_one)
  PROVE  arrays \in Seq(ArrayStarts)
<1> DEFINE first == ArrayStart(MIN_TICK)
           last == ArrayStart(MAX_TICK)
           n == Cardinality(tick_array_bitmap)
<1>1. n \in Nat
  <2>1. MIN_TICK \in Int /\ MAX_TICK \in Int  BY TickAssumption
  <2>2. first \in Int /\ last \in Int  BY <2>1, ArrayStartBounds
  <2>3. ASSUME NEW t \in MIN_TICK..MAX_TICK
        PROVE  ArrayStart(t) \in first..last
    <3>1. t \in Int /\ MIN_TICK <= t /\ t <= MAX_TICK  BY <2>1
    <3>2. ArrayStart(t) \in Int /\ first <= ArrayStart(t) /\ ArrayStart(t) <= last
      BY <2>1, <3>1, ArrayStartBounds, ArrayStartMonotone
    <3> HIDE DEF first, last
    <3> QED  BY <2>2, <3>2
  <2> HIDE DEF first, last
  <2>4. ArrayStarts \subseteq first..last  BY <2>3 DEF ArrayStarts
  <2>5. IsFiniteSet(first..last)  BY <2>2, FS_Interval
  <2>6. tick_array_bitmap \subseteq first..last  BY <2>4 DEF TypeOK
  <2>7. IsFiniteSet(tick_array_bitmap)  BY <2>5, <2>6, FS_Subset
  <2> QED  BY <2>7, FS_CardinalityType
<1>2. PICK a \in FirstArrayOf(PoolSeen, request.zero_for_one) :
        arrays = ArraysLoaded(PoolSeen, a, request.zero_for_one)[n]
  BY DEF AllArrays
<1>3. PoolSeen \in Pools  BY DEF SeenIsTyped
<1>4. a \in ArrayStarts  BY <1>3, FirstArrayIs
<1> HIDE DEF n
<1> QED  BY <1>1, <1>2, <1>3, <1>4, LoadedIs DEF LoadedFrom

(* The arrays of a quote.                                                  *)
LEMMA QuoteType ==
  ASSUME mint \in Mints, SeenIsTyped, NEW request \in Requests, NEW pool \in Pools,
         FirstArrayOf(pool, request.zero_for_one) # {}, LimitInside(request),
         Quote(request, pool).phase = "done"
  PROVE  Quote(request, pool).used \in Seq(ArrayStarts) /\ Quote(request, pool).used # <<>>
<1> DEFINE z == request.zero_for_one
           first == CHOOSE a \in FirstArrayOf(pool, z) : TRUE
           start == Start(request, AmountToQuote(request), pool, first,
                          Tail(ArraysFrom(pool, first, z)))
           quote == Quote(request, pool)
<1>1. ClientTakes(request, pool) /\ quote = SwapCompute(pool, TicksSeen, start)
  BY DEF Quote
<1>2. first \in FirstArrayOf(pool, z)  OBVIOUS
<1> HIDE DEF first, quote
<1>3. AmountToQuote(request) \in Nat /\ TicksSeen \in Books  BY AmountsType DEF SeenIsTyped
<1>4. start \in ClientWalks(pool, request)
  BY <1>1, <1>2, <1>3, ClientStartIs DEF ClientTakes
<1> HIDE DEF start
<1>5. ClientTurns(pool, TicksSeen, start) \in [Nat -> ClientWalks(pool, request)]
  BY <1>3, <1>4, ClientWalkIs
<1>6. quote \in ClientWalks(pool, request)
  BY <1>1, <1>5, MaxTurnsType DEF SwapCompute
<1>7. quote.used \in Seq(ArrayStarts) /\ AtMostOne(pool, quote)
  BY <1>6 DEF ClientWalks, OnWalks, Walks
<1>8. quote.used # <<>>
  <2>1. quote.first \in ArrayStarts /\ quote.request = request
    BY <1>6 DEF ClientWalks, OnWalks, Walks
  <2>2. CASE quote.used = <<quote.first>>
    <3>1. Len(<<quote.first>>) = 1 /\ Len(<<>>) = 0  BY <2>1, Pairs
    <3> QED  BY <2>2, <3>1
  <2>3. ASSUME NEW a \in ArrayAfter(pool, quote.first, z), quote.used = <<quote.first, a>>
        PROVE  quote.used # <<>>
    <3>1. a \in ArrayStarts  BY ArrayAfterIs
    <3>2. Len(<<quote.first, a>>) = 2 /\ Len(<<>>) = 0  BY <2>1, <3>1, Pairs
    <3> QED  BY <2>3, <3>2
  <2> QED  BY <1>7, <2>1, <2>2, <2>3 DEF AtMostOne
<1> QED  BY <1>7, <1>8 DEF quote

(* A swap of the program, the client's or another's, keeps the types.      *)
LEMMA ExactKeeps ==
  ASSUME TypeInv, TickFitsPrice, mint \in Mints, NEW request \in Requests, NEW arrays,
         LimitInside(request) => arrays \in Seq(ArrayStarts), Swapped(Exact(request, arrays))
  PROVE  TypeInv' /\ TickFitsPrice' /\ mint' = mint
<1> DEFINE end == Exact(request, arrays)
<1>1. SeenIsTyped /\ PoolSeen \in Pools  BY SeenType DEF TypeInv, SeenIsTyped
<1>2. end.phase = "done"  BY DEF Swapped
<1>3. end \in OnWalks(PoolSeen, request)  BY <1>1, <1>2, ExactIs
<1> HIDE DEF end
<1>4. Swapped(end)  BY DEF end
<1> QED  BY <1>3, <1>4, SwappedIs

OthersOpens ==
  \E n \in Nft, range \in Offered, amount \in Deposits \cap NewLiquidity :
    OthersOpen(n, range, amount)
OthersIncreases ==
  \E n \in Nft, amount \in Deposits \cap NewLiquidity : OthersIncrease(n, amount)
OthersDecreases == \E n \in Nft, amount \in Deposits : OthersDecrease(n, amount)
OthersCloses == \E n \in Nft : OthersClose(n)
OthersSwaps == \E request \in Requests : OthersSwap(request)
BookSteps == OthersOpens \/ OthersIncreases \/ OthersDecreases \/ OthersCloses

(* What others do to the book are steps of the book.                       *)
LEMMA OthersBook ==
  ASSUME TypeInv, BookSteps
  PROVE  Next /\ OthersAct
<1>1. ASSUME NEW n \in Nft, NEW range \in Offered, NEW amount \in Deposits \cap NewLiquidity,
             OthersOpen(n, range, amount)
      PROVE  Next /\ OthersAct
  <2>1. range[1] \in Ticks /\ range[2] \in Ticks  BY OfferAssumption
  <2>2. OpenPosition(n, range[1], range[2], amount) /\ OthersAct  BY <1>1 DEF OthersOpen
  <2> QED  BY <2>1, <2>2 DEF Next
<1>2. ASSUME NEW n \in Nft, NEW amount \in Deposits \cap NewLiquidity,
             OthersIncrease(n, amount)
      PROVE  Next /\ OthersAct
  BY <1>2 DEF OthersIncrease, Next
<1>3. ASSUME NEW n \in Nft, NEW amount \in Deposits, OthersDecrease(n, amount)
      PROVE  Next /\ OthersAct
  <2>1. DecreaseLiquidity(n, amount) /\ OthersAct  BY <1>3 DEF OthersDecrease
  <2>2. position[n] \in Position /\ amount <= position[n].liquidity
    BY <2>1 DEF DecreaseLiquidity, TypeInv, TypeOK
  <2>3. position[n].liquidity \in 0..MaxLiquidity  BY <2>2 DEF Position
  <2>4. amount \in Nat  BY OfferAssumption
  <2>5. amount \in 0..MaxLiquidity  BY <2>2, <2>3, <2>4, LiquidityAssumption
  <2> QED  BY <2>1, <2>5 DEF Next
<1>4. ASSUME NEW n \in Nft, OthersClose(n)
      PROVE  Next /\ OthersAct
  BY <1>4 DEF OthersClose, Next
<1> QED  BY <1>1, <1>2, <1>3, <1>4
           DEF BookSteps, OthersOpens, OthersIncreases, OthersDecreases, OthersCloses

(* No step of the client's or of others' breaks the types of the book.     *)
LEMMA ClientNextBook ==
  ASSUME ClientInv, [ClientNext]_clientVars
  PROVE  TypeInv' /\ TickFitsPrice' /\ mint' \in Mints
<1>1. TypeInv /\ TickFitsPrice /\ mint \in Mints  BY DEF ClientInv
<1>2. ASSUME UNCHANGED <<vars, mint>>
      PROVE  TypeInv' /\ TickFitsPrice' /\ mint' = mint
  BY <1>1, <1>2, NextType, NextFits DEF FitInv
<1>3. CASE BookSteps
  <2>1. Next /\ mint' = mint  BY <1>1, <1>3, OthersBook DEF OthersAct
  <2> QED  BY <1>1, <2>1, NextType, NextFits DEF FitInv
<1>4. ASSUME NEW request \in Requests, OthersSwap(request)
      PROVE  TypeInv' /\ TickFitsPrice' /\ mint' = mint
  <2>1. PICK arrays \in AllArrays(request.zero_for_one) : Swapped(Exact(request, arrays))
    BY <1>4 DEF OthersSwap
  <2>2. arrays \in Seq(ArrayStarts)  BY <1>1, SeenType, AllArraysType DEF TypeInv
  <2> QED  BY <1>1, <2>1, <2>2, ExactKeeps
<1>5. ASSUME NEW kind, Lands(kind)
      PROVE  TypeInv' /\ TickFitsPrice' /\ mint' = mint
  <2>1. command.phase = "sent"
        /\ Swapped(Exact(command.request, TickArrayStates(command.instr)))
    BY <1>5 DEF Lands, LandsAs
  <2>2. command.request \in Requests
        /\ (LimitInside(command.request) => TickArrayStates(command.instr) \in Seq(ArrayStarts))
    BY <2>1 DEF ClientInv, CommandOk, Idle
  <2> QED  BY <1>1, <2>1, <2>2, ExactKeeps
<1>6. CASE \E request \in Requests : ReadPool(request)  BY <1>1, <1>2, <1>6 DEF ReadPool
<1>7. CASE Swap \/ SwapV2  BY <1>1, <1>2, <1>7 DEF Swap, SwapV2, Sends
<1>8. CASE SwapLands \/ SwapV2Lands  BY <1>1, <1>5, <1>8 DEF SwapLands, SwapV2Lands
<1>9. CASE Fails  BY <1>1, <1>2, <1>9 DEF Fails
<1>10. CASE UNCHANGED clientVars  BY <1>1, <1>2, <1>10 DEF clientVars
<1> QED
  BY <1>1, <1>3, <1>4, <1>6, <1>7, <1>8, <1>9, <1>10
  DEF ClientNext, BookSteps, OthersOpens, OthersIncreases, OthersDecreases, OthersCloses

(* What the client's own steps leave it with.                              *)
LEMMA SentIs ==
  ASSUME NEW request \in Requests, NEW others \in Nat, NEW quote, NEW instr,
         LimitInside(request) => TickArrayStates(instr) \in Seq(ArrayStarts)
  PROVE  CommandOk([phase |-> "sent", request |-> request, others |-> others,
                    quote |-> quote, instr |-> instr])
BY DEF CommandOk, IsSent

LEMMA SendsOk ==
  ASSUME ClientInv, NEW kind, Sends(kind)
  PROVE  /\ CommandOk(command') /\ command'.others = command.others /\ command.others \in Nat
         /\ command'.phase \in {"sent", "failed"}
         /\ command.others = 0 /\ command'.phase = "sent" => IsQuote(command')
<1> DEFINE request == command.request
           pool == command.pool
           others == command.others
           quote == Quote(request, pool)
           threshold == OtherAmountThreshold(request, quote.calculated)
           instr == SwapSent(request, quote.used, threshold)
           short == [calculated |-> quote.calculated, remaining |-> quote.remaining,
                     tick |-> quote.tick]
<1>1. command.phase = "pool" /\ command' = Quoted(quote) /\ UNCHANGED <<vars, mint>>
  BY DEF Sends
<1>2. /\ command \in [phase : {"pool"}, request : Requests, pool : Pools, others : Nat]
      /\ FirstArrayOf(pool, request.zero_for_one) # {}
  BY <1>1 DEF ClientInv, CommandOk, Idle, IsSent
<1>3. request \in Requests /\ pool \in Pools /\ others \in Nat  BY <1>2
<1>4. mint \in Mints /\ SeenIsTyped  BY SeenType DEF ClientInv, TypeInv
<1>5. CASE quote.phase = "done"
  <2>1. command' = [phase |-> "sent", request |-> request, others |-> others,
                    quote |-> short, instr |-> instr]
    BY <1>1, <1>5 DEF Quoted
  <2>2. LimitInside(request) => TickArrayStates(instr) \in Seq(ArrayStarts)
    <3> SUFFICES ASSUME LimitInside(request)
                 PROVE  TickArrayStates(instr) \in Seq(ArrayStarts)
      OBVIOUS
    <3>1. quote.used \in Seq(ArrayStarts) /\ quote.used # <<>>
      <4> HIDE DEF request, pool
      <4> QED  BY <1>2, <1>3, <1>4, <1>5, QuoteType
    <3> HIDE DEF request, quote, threshold
    <3> QED  BY <1>3, <3>1, SentArrays
  <2>3. ClientTakes(request, pool)  BY <1>5 DEF Quote
  <2> HIDE DEF quote, instr, request, pool, others, short
  <2>4. CommandOk(command')  BY <1>3, <2>1, <2>2, SentIs
  <2>5. command'.others = others /\ command'.phase = "sent" /\ command'.request = request
        /\ command'.quote = short /\ command'.instr = instr
    BY <2>1
  <2>6. others = 0 => IsQuote(command')
    <3> SUFFICES ASSUME others = 0 PROVE IsQuote(command')  OBVIOUS
    <3>1. pool = PoolSeen  BY <1>1 DEF ClientInv, PoolFresh, pool, others
    <3> QED  BY <1>2, <1>5, <2>3, <2>5, <3>1 DEF IsQuote, quote, instr, short
  <2> QED  BY <1>3, <2>4, <2>5, <2>6 DEF others
<1>6. CASE quote.phase # "done"
  <2>1. command' = [phase |-> "failed", request |-> request, others |-> others]
    BY <1>1, <1>6 DEF Quoted
  <2> HIDE DEF quote, request, others
  <2>2. command' \in [phase : {"failed"}, request : Requests, others : Nat]
    BY <1>3, <2>1
  <2>3. CommandOk(command')  BY <2>2 DEF CommandOk
  <2>4. command'.others = others /\ command'.phase = "failed"  BY <2>1
  <2> QED  BY <1>3, <2>3, <2>4 DEF others
<1> QED  BY <1>5, <1>6

LEMMA ReadsOk ==
  ASSUME ClientInv, NEW request \in Requests, ReadPool(request)
  PROVE  CommandOk(command') /\ command'.phase = "pool" /\ command'.pool = PoolSeen
<1>1. command' = [phase |-> "pool", request |-> request, pool |-> PoolSeen, others |-> 0]
      /\ FirstArrayOf(PoolSeen, request.zero_for_one) # {}
  BY DEF ReadPool
<1>2. PoolSeen \in Pools  BY SeenType DEF ClientInv, TypeInv, SeenIsTyped
<1> DEFINE pool == PoolSeen
<1> HIDE DEF pool
<1>3. command' = [phase |-> "pool", request |-> request, pool |-> pool, others |-> 0]
      /\ FirstArrayOf(pool, request.zero_for_one) # {} /\ pool \in Pools
  BY <1>1, <1>2 DEF pool
<1>4. /\ command' \in [phase : {"pool"}, request : Requests, pool : Pools, others : Nat]
      /\ command'.pool = pool /\ command'.request = request /\ command'.phase = "pool"
  BY <1>3
<1> QED  BY <1>3, <1>4 DEF CommandOk, pool

(* Others are noticed.                                                     *)
LEMMA OthersOk ==
  ASSUME CommandOk(command), OthersAct
  PROVE  CommandOk(command') /\ (command' # Idle => command'.others # 0)
<1>1. CASE command = Idle  BY <1>1 DEF OthersAct
<1>2. CASE command # Idle
  <2> DEFINE n == command.others + 1
  <2>1. command' = [command EXCEPT !.others = n]  BY <1>2 DEF OthersAct
  <2>2. command.others \in Nat  BY <1>2 DEF CommandOk
  <2>3. n \in Nat /\ n # 0  BY <2>2
  <2> HIDE DEF n
  <2>4. CASE /\ command \in [phase : {"pool"}, request : Requests, pool : Pools, others : Nat]
             /\ FirstArrayOf(command.pool, command.request.zero_for_one) # {}
    <3>1. command' \in [phase : {"pool"}, request : Requests, pool : Pools, others : Nat]
          /\ command'.pool = command.pool /\ command'.request = command.request
          /\ command'.others = n
      BY <2>1, <2>3, <2>4
    <3> QED  BY <2>3, <2>4, <3>1 DEF CommandOk
  <2>5. CASE command \in [phase : {"failed"}, request : Requests, others : Nat]
    <3>1. command' \in [phase : {"failed"}, request : Requests, others : Nat]
          /\ command'.others = n
      BY <2>1, <2>3, <2>5
    <3> QED  BY <2>3, <3>1 DEF CommandOk
  <2>6. CASE /\ IsSent(command) /\ command.request \in Requests
             /\ LimitInside(command.request)
                  => TickArrayStates(command.instr) \in Seq(ArrayStarts)
    <3>1. command' = [phase |-> "sent", request |-> command.request, others |-> n,
                      quote |-> command.quote, instr |-> command.instr]
      <4> DEFINE r == command.request
                 o == command.others
                 q == command.quote
                 i == command.instr
      <4>1. command = [phase |-> "sent", request |-> r, others |-> o, quote |-> q, instr |-> i]
        BY <2>6 DEF IsSent
      <4> HIDE DEF r, o, q, i
      <4> QED  BY <2>1, <4>1 DEF r, o, q, i
    <3>2. CommandOk(command')  BY <2>3, <2>6, <3>1, SentIs
    <3>3. command'.others = n  BY <3>1
    <3> QED  BY <2>3, <3>2, <3>3
  <2> QED  BY <1>2, <2>4, <2>5, <2>6 DEF CommandOk
<1> QED  BY <1>1, <1>2

-----------------------------------------------------------------------------
(* The theorems *)

CommandInv == CommandOk(command) /\ PoolFresh /\ QuoteFresh

LEMMA IdleInv ==
  ASSUME command' = Idle
  PROVE  CommandInv'
BY DEF CommandInv, CommandOk, PoolFresh, QuoteFresh, Idle

LEMMA OthersInv ==
  ASSUME CommandOk(command), OthersAct
  PROVE  CommandInv'
<1>1. CommandOk(command') /\ (command' # Idle => command'.others # 0)  BY OthersOk
<1>2. CASE command' = Idle  BY <1>2, IdleInv
<1>3. CASE command' # Idle
  BY <1>1, <1>3 DEF CommandInv, PoolFresh, QuoteFresh, CommandOk
<1> QED  BY <1>2, <1>3

LEMMA SendsInv ==
  ASSUME ClientInv, NEW kind, Sends(kind)
  PROVE  CommandInv'
<1>1. /\ CommandOk(command') /\ command'.others = command.others /\ command.others \in Nat
      /\ command'.phase \in {"sent", "failed"}
      /\ command.others = 0 /\ command'.phase = "sent" => IsQuote(command')
  BY SendsOk
<1>2. UNCHANGED <<vars, mint>>  BY DEF Sends
<1>3. QuoteFresh'
  <2> SUFFICES ASSUME command'.phase = "sent", command'.others = 0
               PROVE  IsQuote(command)'
    BY DEF QuoteFresh
  <2>1. PICK c : c = command'  OBVIOUS
  <2>2. IsQuote(c)  BY <1>1, <2>1
  <2>3. IsQuote(c)'  BY <1>2, <2>2, QuoteFrame
  <2> QED  BY <2>1, <2>3 DEF IsQuote
<1>4. CommandOk(command)'  BY <1>1 DEF CommandOk
<1>5. PoolFresh'  BY <1>1 DEF PoolFresh
<1> QED  BY <1>3, <1>4, <1>5 DEF CommandInv

LEMMA ReadsInv ==
  ASSUME ClientInv, NEW request \in Requests, ReadPool(request)
  PROVE  CommandInv'
<1>1. CommandOk(command') /\ command'.phase = "pool" /\ command'.pool = PoolSeen
  BY ReadsOk
<1>2. PoolSeen' = PoolSeen  BY QuoteFrame DEF ReadPool
<1>3. CommandOk(command)'  BY <1>1 DEF CommandOk
<1> QED  BY <1>1, <1>2, <1>3 DEF CommandInv, PoolFresh, QuoteFresh

LEMMA StutterInv ==
  ASSUME ClientInv, UNCHANGED clientVars
  PROVE  CommandInv'
<1>1. UNCHANGED <<vars, mint>> /\ command' = command  BY DEF clientVars
<1>2. CommandOk(command)'  BY <1>1 DEF ClientInv, CommandOk
<1>3. PoolFresh'  BY <1>1, QuoteFrame DEF ClientInv, PoolFresh
<1>4. QuoteFresh'
  <2> SUFFICES ASSUME command'.phase = "sent", command'.others = 0
               PROVE  IsQuote(command)'
    BY DEF QuoteFresh
  <2>1. PICK c : c = command  OBVIOUS
  <2>2. IsQuote(c)  BY <1>1, <2>1 DEF ClientInv, QuoteFresh
  <2>3. IsQuote(c)'  BY <1>1, <2>2, QuoteFrame
  <2> QED  BY <1>1, <2>1, <2>3 DEF IsQuote
<1> QED  BY <1>2, <1>3, <1>4 DEF CommandInv

LEMMA ClientInitInv == ClientInit => ClientInv
<1> SUFFICES ASSUME ClientInit PROVE ClientInv  OBVIOUS
<1>1. Init /\ mint \in Mints /\ command = Idle  BY DEF ClientInit
<1>2. TypeInv /\ TickFitsPrice  BY <1>1, InitType, InitFits
<1>3. CommandOk(command) /\ PoolFresh /\ QuoteFresh
  BY <1>1 DEF CommandOk, PoolFresh, QuoteFresh, Idle
<1> QED  BY <1>1, <1>2, <1>3 DEF ClientInv

LEMMA ClientNextInv == ClientInv /\ [ClientNext]_clientVars => ClientInv'
<1> SUFFICES ASSUME ClientInv, [ClientNext]_clientVars PROVE ClientInv'  OBVIOUS
<1>1. TypeInv' /\ TickFitsPrice' /\ mint' \in Mints  BY ClientNextBook
<1>2. TypeInv /\ CommandOk(command)  BY DEF ClientInv
<1>3. CommandInv'
  <2>1. CASE \E request \in Requests : ReadPool(request)  BY <2>1, ReadsInv
  <2>2. CASE Swap \/ SwapV2  BY <2>2, SendsInv DEF Swap, SwapV2
  <2>3. CASE SwapLands \/ SwapV2Lands
    BY <2>3, IdleInv DEF SwapLands, SwapV2Lands, Lands
  <2>4. CASE Fails  BY <2>4, IdleInv DEF Fails
  <2>5. CASE BookSteps  BY <1>2, <2>5, OthersBook, OthersInv
  <2>6. CASE \E request \in Requests : OthersSwap(request)
    BY <1>2, <2>6, OthersInv DEF OthersSwap
  <2>7. CASE UNCHANGED clientVars  BY <2>7, StutterInv
  <2> QED
    BY <2>1, <2>2, <2>3, <2>4, <2>5, <2>6, <2>7
    DEF ClientNext, BookSteps, OthersOpens, OthersIncreases, OthersDecreases, OthersCloses
<1> QED  BY <1>1, <1>3 DEF ClientInv, CommandInv

LEMMA ClientInvariant == ClientSpec => []ClientInv
<1>1. ClientInit => ClientInv  BY ClientInitInv
<1>2. ClientInv /\ [ClientNext]_clientVars => ClientInv'  BY ClientNextInv
<1> QED  BY <1>1, <1>2, PTL DEF ClientSpec

(* Whole swaps with real amounts, the client's and others', keep the words *)
(* of the pool in their ranges and leave it a tick that goes with its      *)
(* price, as the turns of the swap loop do one by one.                     *)
THEOREM ClientTyped == ClientSpec => [](TypeOK /\ TickFitsPrice)
<1>1. ClientInv => TypeOK /\ TickFitsPrice  BY DEF ClientInv, TypeInv
<1> QED  BY <1>1, ClientInvariant, PTL

(* The quote of a client that nobody disturbs is kept, in every pool and   *)
(* for every request: swap_compute gave the amounts that swap_internal     *)
(* then trades with the arrays that were sent, within the threshold.       *)
THEOREM QuoteKept == ClientSpec => []QuoteIsKept
<1>1. ClientInv => QuoteIsKept  BY KeptByInv
<1> QED  BY <1>1, ClientInvariant, PTL

-----------------------------------------------------------------------------
(* Walks end *)

Further(walk, after) ==
  IF walk.request.zero_for_one THEN after.tick < walk.tick ELSE walk.tick < after.tick

(* A turn ends the walk, or leaves it to be ended by the next one, or      *)
(* carries its tick further.                                               *)
Moves(walk, after) ==
  IF walk.phase # "walking" THEN after = walk
  ELSE \/ after.phase # "walking"
       \/ ~Over(walk) /\ (Over(after) \/ Further(walk, after))

LEMMA TurnMoves ==
  ASSUME NEW pool \in Pools, NEW ticks \in Books, NEW request \in Requests,
         LimitInside(request), NEW walk \in Walks(request), OnWay(pool, walk),
         walk.phase = "walking", ~Over(walk),
         NEW entered, entered = Failed(walk) \/ Enters(walk, entered)
  PROVE  Moves(walk, Turn(ticks, walk, entered))
<1> DEFINE after == Turn(ticks, walk, entered)
<1>1. walk.request = request  BY DEF Walks
<1>2. \/ after = Failed(walk) \/ Stepped(pool, walk, after)
      \/ /\ walk.matched /\ Enters(walk, entered)
         /\ after = Failed(entered) \/ Stepped(pool, entered, after)
  BY TurnIs
<1> HIDE DEF after
<1>3. CASE after = Failed(walk)
  <2>1. after.phase = "failed"  BY <1>3, FailedIs
  <2> QED  BY <2>1 DEF Moves, after
<1>4. CASE Stepped(pool, walk, after)
  BY <1>4 DEF Stepped, Moves, Further, after
<1>5. CASE Enters(walk, entered) /\ after = Failed(entered)
  <2>1. entered \in Walks(request)  BY <1>1, <1>5 DEF Enters
  <2>2. after.phase = "failed"  BY <1>5, <2>1, FailedIs
  <2> QED  BY <2>2 DEF Moves, after
<1>6. CASE Enters(walk, entered) /\ Stepped(pool, entered, after)
  <2>1. entered.tick = walk.tick /\ entered.request = walk.request
    BY <1>1, <1>6 DEF Enters, Walks
  <2> QED  BY <1>6, <2>1 DEF Stepped, Moves, Further, after
<1> QED  BY <1>2, <1>3, <1>4, <1>5, <1>6

LEMMA EndMoves ==
  ASSUME NEW request, NEW walk \in Walks(request), walk.phase = "walking",
         NEW phase \in {"failed", "done"}
  PROVE  Moves(walk, Ended(walk, phase))
<1>1. Ended(walk, phase).phase = phase  BY EndedIs
<1> QED  BY <1>1 DEF Moves

LEMMA ProgramTurnMoves ==
  ASSUME NEW pool \in Pools, NEW ticks \in Books, NEW request \in Requests,
         LimitInside(request), NEW walk \in OnWalks(pool, request)
  PROVE  Moves(walk, ProgramTurn(pool, ticks, walk))
<1>1. walk \in Walks(request) /\ OnWay(pool, walk)  BY DEF OnWalks
<1>2. CASE walk.phase # "walking"  BY <1>2 DEF ProgramTurn, Moves
<1>3. CASE walk.phase = "walking" /\ Over(walk)
  <2>1. ProgramTurn(pool, ticks, walk) = Ended(walk, "done")
    BY <1>3 DEF ProgramTurn, Ended
  <2> QED  BY <1>1, <1>3, <2>1, EndMoves
<1>4. CASE walk.phase = "walking" /\ ~Over(walk)
  <2> DEFINE entered == ProgramEnters(pool, walk)
  <2>1. ProgramTurn(pool, ticks, walk) = Turn(ticks, walk, entered)
    BY <1>4 DEF ProgramTurn
  <2>2. entered = Failed(walk) \/ Enters(walk, entered)  BY <1>1, ProgramEntersIs
  <2> HIDE DEF entered
  <2> QED  BY <1>1, <1>4, <2>1, <2>2, TurnMoves
<1> QED  BY <1>2, <1>3, <1>4

LEMMA ClientTurnMoves ==
  ASSUME NEW pool \in Pools, NEW ticks \in Books, NEW request \in Requests,
         LimitInside(request), NEW walk \in ClientWalks(pool, request)
  PROVE  Moves(walk, ClientTurn(pool, ticks, walk))
<1> DEFINE stops == Over(walk) \/ walk.tick <= MIN_TICK \/ walk.tick >= MAX_TICK
<1>1. walk \in Walks(request) /\ OnWay(pool, walk) /\ AtMostOne(pool, walk)
  BY DEF ClientWalks, OnWalks
<1>2. CASE walk.phase # "walking"  BY <1>2 DEF ClientTurn, Moves
<1>3. CASE walk.phase = "walking" /\ stops
  <2>1. ClientTurn(pool, ticks, walk) = Ended(walk, "done")
    BY <1>3 DEF ClientTurn, Ended
  <2> QED  BY <1>1, <1>3, <2>1, EndMoves
<1>4. CASE walk.phase = "walking" /\ ~stops /\ walk.turns > LOOP_LIMIT
  <2>1. ClientTurn(pool, ticks, walk) = Ended(walk, "failed")
    BY <1>4 DEF ClientTurn, Ended, Failed
  <2> QED  BY <1>1, <1>4, <2>1, EndMoves
<1>5. CASE walk.phase = "walking" /\ ~stops /\ ~(walk.turns > LOOP_LIMIT)
  <2> DEFINE entered == ClientEnters(pool, walk)
  <2>1. ClientTurn(pool, ticks, walk) = Turn(ticks, walk, entered)
    BY <1>5 DEF ClientTurn
  <2>2. entered = Failed(walk) \/ Enters(walk, entered)  BY <1>1, ClientEntersIs
  <2> HIDE DEF entered
  <2> QED  BY <1>1, <1>5, <2>1, <2>2, TurnMoves
<1> QED  BY <1>2, <1>3, <1>4, <1>5

(* There are only so many ticks to go.                                     *)
LEMMA MovesEnd ==
  ASSUME NEW pool, NEW request \in Requests,
         NEW walk \in [Nat -> OnWalks(pool, request)],
         \A n \in Nat : Moves(walk[n], walk[n + 1])
  PROVE  walk[MaxTurns].phase # "walking"
<1> DEFINE Gone(n) == IF request.zero_for_one THEN walk[0].tick - walk[n].tick
                                              ELSE walk[n].tick - walk[0].tick
           span == MAX_TICK - MIN_TICK
<1>1. \A n \in Nat : walk[n].tick \in MIN_TICK..MAX_TICK /\ walk[n].request = request
  BY DEF OnWalks, Walks
<1>2. MIN_TICK \in Int /\ MAX_TICK \in Int /\ span \in Nat  BY TickAssumption
<1>3. \A n \in Nat : Gone(n) \in Int /\ Gone(n) <= span
  <2> SUFFICES ASSUME NEW n \in Nat PROVE Gone(n) \in Int /\ Gone(n) <= span  OBVIOUS
  <2> DEFINE x == walk[0].tick
             y == walk[n].tick
  <2>1. x \in MIN_TICK..MAX_TICK /\ y \in MIN_TICK..MAX_TICK  BY <1>1
  <2> HIDE DEF x, y
  <2>2. x - y \in Int /\ x - y <= span /\ y - x \in Int /\ y - x <= span  BY <1>2, <2>1
  <2> QED  BY <2>2 DEF x, y
<1> DEFINE Goes(n) == walk[n].phase = "walking" /\ ~Over(walk[n])
           S == {n \in Nat : Goes(n) => n <= Gone(n)}
<1>4. \A n \in Nat : n \in S
  <2>1. 0 \in S
    <3> DEFINE x == walk[0].tick
    <3>1. x \in Int  BY <1>1, <1>2
    <3> HIDE DEF x
    <3>2. 0 <= x - x  BY <3>1
    <3> QED  BY <3>2 DEF x
  <2>2. ASSUME NEW n \in Nat, n \in S
        PROVE  n + 1 \in S
    <3> SUFFICES ASSUME Goes(n + 1) PROVE n + 1 <= Gone(n + 1)  OBVIOUS
    <3>1. Moves(walk[n], walk[n + 1]) /\ n + 1 \in Nat  OBVIOUS
    <3>2. Goes(n) /\ Further(walk[n], walk[n + 1])  BY <3>1 DEF Moves
    <3>3. n <= Gone(n)  BY <2>2, <3>2
    <3> DEFINE x == walk[0].tick
               y == walk[n].tick
               z == walk[n + 1].tick
    <3>4. x \in Int /\ y \in Int /\ z \in Int  BY <1>1, <1>2, <3>1
    <3>5. IF request.zero_for_one THEN z < y ELSE y < z  BY <1>1, <3>2 DEF Further
    <3>6. IF request.zero_for_one THEN n <= x - y ELSE n <= y - x  BY <3>3
    <3> HIDE DEF x, y, z
    <3>7. IF request.zero_for_one THEN n + 1 <= x - z ELSE n + 1 <= z - x
      BY <3>4, <3>5, <3>6
    <3> QED  BY <3>7 DEF x, z
  <2> HIDE DEF S
  <2> QED  BY <2>1, <2>2, EveryNat
<1>5. ~Goes(span + 1)
  <2>1. span + 1 \in Nat  BY <1>2
  <2>2. Goes(span + 1) => span + 1 <= Gone(span + 1)  BY <1>4, <2>1
  <2>3. Gone(span + 1) \in Int /\ Gone(span + 1) <= span  BY <1>3, <2>1
  <2> HIDE DEF span, Goes, Gone
  <2> QED  BY <1>2, <2>2, <2>3
<1>6. walk[span + 2].phase # "walking"
  <2>1. span + 1 \in Nat /\ (span + 1) + 1 = span + 2
    <3> HIDE DEF span
    <3> QED  BY <1>2
  <2>2. Moves(walk[span + 1], walk[span + 2])  BY <2>1
  <2> HIDE DEF span
  <2> QED  BY <1>5, <2>2 DEF Moves
<1>7. \A k \in Nat : walk[span + 2 + k].phase # "walking"
  <2> DEFINE T == {k \in Nat : walk[span + 2 + k].phase # "walking"}
  <2> HIDE DEF span
  <2>1. 0 \in T
    <3>1. span + 2 + 0 = span + 2  BY <1>2
    <3> QED  BY <1>6, <3>1
  <2>2. ASSUME NEW k \in Nat, k \in T
        PROVE  k + 1 \in T
    <3>1. span + 2 + k \in Nat /\ span + 2 + (k + 1) = (span + 2 + k) + 1  BY <1>2
    <3>2. Moves(walk[span + 2 + k], walk[span + 2 + (k + 1)])  BY <3>1
    <3> QED  BY <2>2, <3>2 DEF Moves
  <2> HIDE DEF T
  <2>3. \A k \in Nat : k \in T  BY <2>1, <2>2, EveryNat
  <2> QED  BY <2>3 DEF T
<1>8. LOOP_LIMIT + 1 \in Nat /\ MaxTurns = span + 2 + (LOOP_LIMIT + 1)
  BY <1>2, ClientAssumption DEF MaxTurns
<1> HIDE DEF span
<1> QED  BY <1>7, <1>8

LEMMA ProgramWalkEnds ==
  ASSUME NEW pool \in Pools, NEW ticks \in Books, NEW request \in Requests,
         LimitInside(request), NEW start \in OnWalks(pool, request)
  PROVE  ProgramWalk(pool, ticks, start).phase # "walking"
<1> DEFINE S == OnWalks(pool, request)
           walk == ProgramTurns(pool, ticks, start)
<1>1. \A w \in S : ProgramTurn(pool, ticks, w) \in S /\ Moves(w, ProgramTurn(pool, ticks, w))
  BY ProgramTurnIs, ProgramTurnMoves
<1>2. start \in S  OBVIOUS
<1>3. walk \in [Nat -> S] /\ \A n \in Nat : walk[n + 1] = ProgramTurn(pool, ticks, walk[n])
  <2> HIDE DEF S
  <2> QED  BY <1>1, <1>2, ProgramLoop
<1>4. ProgramWalk(pool, ticks, start) = walk[MaxTurns]  BY DEF ProgramWalk
<1> HIDE DEF walk
<1>5. \A n \in Nat : Moves(walk[n], walk[n + 1])
  <2> HIDE DEF S
  <2> QED  BY <1>1, <1>3
<1> QED  BY <1>3, <1>4, <1>5, MovesEnd

LEMMA SwapComputeEnds ==
  ASSUME NEW pool \in Pools, NEW ticks \in Books, NEW request \in Requests,
         LimitInside(request), NEW start \in ClientWalks(pool, request)
  PROVE  SwapCompute(pool, ticks, start).phase # "walking"
<1> DEFINE S == ClientWalks(pool, request)
           walk == ClientTurns(pool, ticks, start)
<1>1. \A w \in S : ClientTurn(pool, ticks, w) \in S /\ Moves(w, ClientTurn(pool, ticks, w))
  BY ClientTurnIs, ClientTurnMoves
<1>2. start \in S  OBVIOUS
<1>3. walk \in [Nat -> S] /\ \A n \in Nat : walk[n + 1] = ClientTurn(pool, ticks, walk[n])
  <2> HIDE DEF S
  <2> QED  BY <1>1, <1>2, ClientLoop
<1>4. SwapCompute(pool, ticks, start) = walk[MaxTurns]  BY DEF SwapCompute
<1> HIDE DEF walk
<1>5. \A n \in Nat : Moves(walk[n], walk[n + 1])
  <2> HIDE DEF S
  <2> QED  BY <1>1, <1>3
<1>6. S \subseteq OnWalks(pool, request)  BY DEF ClientWalks
<1> HIDE DEF S
<1>7. walk \in [Nat -> OnWalks(pool, request)]  BY <1>3, <1>6
<1> QED  BY <1>4, <1>5, <1>7, MovesEnd

(* The walk of every swap that the program would take now.                 *)
ProgramEnds ==
  \A request \in Requests, arrays \in Seq(ArrayStarts) :
    ProgramTakes(request) =>
      \A first \in FirstArrayOf(PoolSeen, request.zero_for_one) :
        ProgramWalk(PoolSeen, TicksSeen,
          Start(request, AmountSpecified(request), PoolSeen, first, arrays)).phase # "walking"
(* The walk of the client that has asked for the pool.                     *)
QuoteEnds ==
  command.phase = "pool" /\ LimitInside(command.request)
  => Quote(command.request, command.pool).phase # "walking"

LEMMA EndsByInv == ClientInv => ProgramEnds /\ QuoteEnds
<1> SUFFICES ASSUME ClientInv PROVE ProgramEnds /\ QuoteEnds  OBVIOUS
<1>1. mint \in Mints /\ PoolSeen \in Pools /\ TicksSeen \in Books
  BY SeenType DEF ClientInv, TypeInv, SeenIsTyped
<1>2. ProgramEnds
  <2> SUFFICES ASSUME NEW request \in Requests, NEW arrays \in Seq(ArrayStarts),
                      ProgramTakes(request),
                      NEW first \in FirstArrayOf(PoolSeen, request.zero_for_one)
               PROVE  ProgramWalk(PoolSeen, TicksSeen,
                        Start(request, AmountSpecified(request), PoolSeen, first, arrays)).phase
                      # "walking"
    BY DEF ProgramEnds
  <2> DEFINE pool == PoolSeen
             ticks == TicksSeen
             amount == AmountSpecified(request)
             start == Start(request, amount, pool, first, arrays)
  <2>1. LimitInside(request) /\ LimitAhead(request, pool)
    BY DEF ProgramTakes, LimitInside
  <2>2. amount \in Nat  BY <1>1, AmountsType
  <2>3. pool \in Pools /\ ticks \in Books  BY <1>1
  <2>4. first \in FirstArrayOf(pool, request.zero_for_one)  OBVIOUS
  <2> HIDE DEF pool, ticks, amount
  <2>5. start \in OnWalks(pool, request)  BY <2>1, <2>2, <2>3, <2>4, StartIs
  <2> HIDE DEF start
  <2>6. ProgramWalk(pool, ticks, start).phase # "walking"
    BY <2>1, <2>3, <2>5, ProgramWalkEnds
  <2> QED  BY <2>6 DEF start, amount, pool, ticks
<1>3. QuoteEnds
  <2> SUFFICES ASSUME command.phase = "pool", LimitInside(command.request),
                      ClientTakes(command.request, command.pool)
               PROVE  Quote(command.request, command.pool).phase # "walking"
    BY DEF QuoteEnds, Quote
  <2> DEFINE request == command.request
             pool == command.pool
             z == request.zero_for_one
             ticks == TicksSeen
             amount == AmountToQuote(request)
             first == CHOOSE a \in FirstArrayOf(pool, z) : TRUE
             start == Start(request, amount, pool, first, Tail(ArraysFrom(pool, first, z)))
  <2>1. /\ command \in [phase : {"pool"}, request : Requests, pool : Pools, others : Nat]
        /\ FirstArrayOf(pool, z) # {}
    BY DEF ClientInv, CommandOk, Idle, IsSent
  <2>2. request \in Requests /\ pool \in Pools /\ ticks \in Books  BY <1>1, <2>1
  <2>3. LimitInside(request) /\ LimitAhead(request, pool)  BY DEF ClientTakes
  <2>4. Quote(request, pool) = SwapCompute(pool, ticks, start)  BY DEF Quote
  <2>5. first \in FirstArrayOf(pool, request.zero_for_one)  BY <2>1
  <2>6. amount \in Nat
    <3> HIDE DEF request
    <3> QED  BY <1>1, <2>2, AmountsType
  <2> HIDE DEF request, pool, ticks, first, amount
  <2>7. start \in ClientWalks(pool, request)
    BY <2>2, <2>3, <2>5, <2>6, ClientStartIs
  <2> HIDE DEF start
  <2>8. SwapCompute(pool, ticks, start).phase # "walking"
    BY <2>2, <2>3, <2>7, SwapComputeEnds
  <2> QED  BY <2>4, <2>8 DEF request, pool
<1> QED  BY <1>2, <1>3

(* Both loops end by themselves: in every pool that can be reached, and    *)
(* for every request with a limit inside the price range, MaxTurns turns   *)
(* are enough for swap_internal's and for swap_compute's.                  *)
THEOREM LoopsEnd == ClientSpec => [](ProgramEnds /\ QuoteEnds)
<1>1. ClientInv => ProgramEnds /\ QuoteEnds  BY EndsByInv
<1> QED  BY <1>1, ClientInvariant, PTL
-----------------------------------------------------------------------------
(* Whole swaps and the book *)

(* A walk as the SwapState of the book's own loop, and the walks through   *)
(* the pool as it is that agree with the book.                             *)
AsSwap(walk) ==
  [phase |-> "walking", zero_for_one |-> walk.request.zero_for_one,
   limit |-> LimitOf(walk.request), sqrt_price |-> walk.sqrt_price, tick |-> walk.tick,
   liquidity |-> walk.liquidity, array |-> walk.array, matched |-> walk.matched]

Balanced(walk) ==
  /\ walk.liquidity = W(Covers(walk.tick))
  /\ walk.phase = "walking" /\ ~Over(walk) => Place(AsSwap(walk))
BookWalks(request) == {walk \in OnWalks(PoolSeen, request) : Balanced(walk)}

LEMMA AsSwapIs ==
  ASSUME NEW request \in Requests, LimitInside(request), NEW walk \in Walks(request)
  PROVE  LET state == AsSwap(walk)
         IN  /\ state \in SwapState
             /\ state.zero_for_one = request.zero_for_one
             /\ state.limit = LimitOf(request) /\ state.sqrt_price = walk.sqrt_price
             /\ state.tick = walk.tick /\ state.liquidity = walk.liquidity
             /\ state.array = walk.array /\ state.matched = walk.matched
<1> DEFINE z == request.zero_for_one
           limit == LimitOf(request)
<1>1. z \in BOOLEAN /\ limit \in Prices  BY RequestIs DEF LimitInside
<1>2. /\ walk.request = request /\ walk.sqrt_price \in Prices
      /\ walk.tick \in MIN_TICK..MAX_TICK /\ walk.liquidity \in 0..MaxLiquidity
      /\ walk.array \in ArrayStarts /\ walk.matched \in BOOLEAN
  BY DEF Walks
<1> HIDE DEF z, limit
<1>3. AsSwap(walk) =
        [phase |-> "walking", zero_for_one |-> z, limit |-> limit,
         sqrt_price |-> walk.sqrt_price, tick |-> walk.tick, liquidity |-> walk.liquidity,
         array |-> walk.array, matched |-> walk.matched]
  BY <1>2 DEF AsSwap, z, limit
<1>4. /\ AsSwap(walk).zero_for_one = z
      /\ AsSwap(walk).limit = limit /\ AsSwap(walk).sqrt_price = walk.sqrt_price
      /\ AsSwap(walk).tick = walk.tick /\ AsSwap(walk).liquidity = walk.liquidity
      /\ AsSwap(walk).array = walk.array /\ AsSwap(walk).matched = walk.matched
      /\ AsSwap(walk) \in SwapState
  BY <1>1, <1>2, <1>3 DEF SwapState
<1> QED  BY <1>4 DEF z, limit

LEMMA NearestExists ==
  ASSUME NEW S, S \subseteq MIN_TICK..MAX_TICK, S # {}, NEW zero_for_one \in BOOLEAN
  PROVE  NearestOf(S, zero_for_one) # {}
<1>1. MIN_TICK \in Int /\ MAX_TICK \in Int  BY TickAssumption
<1>2. \A t \in S : t \in Int /\ MIN_TICK <= t /\ t <= MAX_TICK  BY <1>1
<1>3. CASE zero_for_one
  <2> DEFINE D == {MAX_TICK - t : t \in S}
  <2>1. D \subseteq Nat /\ D # {}
    <3>1. PICK t \in S : TRUE  OBVIOUS
    <3>2. MAX_TICK - t \in D  OBVIOUS
    <3>3. ASSUME NEW u \in S PROVE MAX_TICK - u \in Nat  BY <1>1, <1>2
    <3> QED  BY <3>2, <3>3
  <2>2. PICK d \in D : \A e \in D : d <= e
    <3> HIDE DEF D
    <3> QED  BY <2>1, LeastIs
  <2>3. PICK t \in S : d = MAX_TICK - t  OBVIOUS
  <2>4. ASSUME NEW u \in S PROVE u <= t
    <3>1. MAX_TICK - t <= MAX_TICK - u  BY <2>2, <2>3
    <3> QED  BY <1>1, <1>2, <3>1
  <2>5. Nearest(t, S, zero_for_one)  BY <1>3, <2>4 DEF Nearest
  <2> QED  BY <2>5 DEF NearestOf
<1>4. CASE ~zero_for_one
  <2> DEFINE D == {t - MIN_TICK : t \in S}
  <2>1. D \subseteq Nat /\ D # {}
    <3>1. PICK t \in S : TRUE  OBVIOUS
    <3>2. t - MIN_TICK \in D  OBVIOUS
    <3>3. ASSUME NEW u \in S PROVE u - MIN_TICK \in Nat  BY <1>1, <1>2
    <3> QED  BY <3>2, <3>3
  <2>2. PICK d \in D : \A e \in D : d <= e
    <3> HIDE DEF D
    <3> QED  BY <2>1, LeastIs
  <2>3. PICK t \in S : d = t - MIN_TICK  OBVIOUS
  <2>4. ASSUME NEW u \in S PROVE t <= u
    <3>1. t - MIN_TICK <= u - MIN_TICK  BY <2>2, <2>3
    <3> QED  BY <1>1, <1>2, <3>1
  <2>5. Nearest(t, S, zero_for_one)  BY <1>4, <2>4 DEF Nearest
  <2> QED  BY <2>5 DEF NearestOf
<1> QED  BY <1>3, <1>4

(* The tick that a walk finds is the one that the book's loop goes to.     *)
LEMMA HereIsNext ==
  ASSUME NEW request \in Requests, LimitInside(request), NEW walk \in Walks(request)
  PROVE  /\ \A t \in TickHere(TicksSeen, walk) :
              t \in Ticks /\ IsNextTick(AsSwap(walk), walk.array, t)
         /\ TickHere(TicksSeen, walk) = {} /\ walk.matched => AheadInArray(AsSwap(walk)) = {}
<1> DEFINE z == request.zero_for_one
           state == AsSwap(walk)
           here == TicksOf(TicksSeen, walk.array)
           ahead == IF ArrayStart(walk.tick) = walk.array
                    THEN Ahead(here, walk.tick, z) ELSE {}
           from == IF ahead = {} /\ ~walk.matched THEN here ELSE ahead
<1>1. /\ state.zero_for_one = z /\ state.tick = walk.tick
      /\ state.array = walk.array /\ state.matched = walk.matched
  BY AsSwapIs
<1>2. walk.request = request /\ z \in BOOLEAN  BY RequestIs DEF Walks
<1> HIDE DEF state
<1>3. here = InitializedIn(walk.array) /\ here \subseteq Ticks
  BY DEF TicksOf, TicksSeen, InitializedIn, Initialized
<1>4. AheadInArray(state) = ahead  BY <1>1, <1>3 DEF AheadInArray
<1>5. ahead \subseteq here  BY DEF Ahead
<1>6. TickHere(TicksSeen, walk) = NearestOf(from, z)  BY <1>2 DEF TickHere
<1> HIDE DEF ahead, here, z
<1>7. ASSUME NEW t \in TickHere(TicksSeen, walk)
      PROVE  t \in Ticks /\ IsNextTick(state, walk.array, t)
  <2>1. t \in from /\ Nearest(t, from, z)  BY <1>6 DEF NearestOf
  <2>2. t \in Ticks  BY <1>3, <1>5, <2>1
  <2>3. CASE ahead # {}
    BY <1>1, <1>4, <2>1, <2>2, <2>3 DEF IsNextTick
  <2>4. CASE ahead = {}
    <3>1. ~walk.matched /\ Nearest(t, InitializedIn(walk.array), z)
      BY <1>3, <2>1, <2>4
    <3> QED  BY <1>1, <1>4, <2>2, <2>4, <3>1 DEF IsNextTick
  <2> QED  BY <2>3, <2>4
<1>8. ASSUME TickHere(TicksSeen, walk) = {}, walk.matched
      PROVE  AheadInArray(state) = {}
  <2>1. NearestOf(ahead, z) = {}  BY <1>6, <1>8
  <2>2. ahead \subseteq MIN_TICK..MAX_TICK  BY <1>3, <1>5, TicksType
  <2>3. ahead = {}  BY <1>2, <2>1, <2>2, NearestExists
  <2> QED  BY <1>4, <2>3
<1> QED  BY <1>7, <1>8 DEF state

LEMMA EnteredIsNext ==
  ASSUME NEW request \in Requests, LimitInside(request), NEW walk \in Walks(request),
         walk.matched, TickHere(TicksSeen, walk) = {},
         NEW entered, entered.request = request,
         entered.array \in ArrayAfter(PoolSeen, walk.array, request.zero_for_one),
         NEW t \in FirstHere(TicksSeen, entered)
  PROVE  t \in Ticks /\ IsNextTick(AsSwap(walk), entered.array, t)
<1> DEFINE z == request.zero_for_one
           state == AsSwap(walk)
           a == entered.array
           beyond == Beyond(tick_array_bitmap, walk.array, z)
<1>1. state.zero_for_one = z /\ state.array = walk.array /\ state.matched
  BY AsSwapIs
<1>2. AheadInArray(state) = {}  BY HereIsNext
<1> HIDE DEF state
<1>3. t \in NearestOf(TicksOf(TicksSeen, a), z)  BY DEF FirstHere
<1>4. TicksOf(TicksSeen, a) = InitializedIn(a) /\ InitializedIn(a) \subseteq Ticks
  BY DEF TicksOf, TicksSeen, InitializedIn, Initialized
<1>5. a \in NearestOf(beyond, z)  BY DEF ArrayAfter, PoolSeen
<1> HIDE DEF a, z, beyond
<1>6. Nearest(t, InitializedIn(a), z) /\ t \in InitializedIn(a)
  BY <1>3, <1>4 DEF NearestOf
<1>7. Nearest(a, beyond, z)  BY <1>5 DEF NearestOf
<1>8. IsNextTick(state, a, t)  BY <1>1, <1>2, <1>6, <1>7 DEF IsNextTick, beyond
<1> QED  BY <1>4, <1>6, <1>8 DEF a, state

(* What a step towards a tick makes of a walk, in the book's terms.        *)
StepsTo(ticks, walk, t, after) ==
  LET state == AsSwap(walk)
  IN  /\ Between(after.sqrt_price, walk.sqrt_price, Target(state, t))
      /\ after.sqrt_price \in Prices
      /\ after.tick = TickReached(state, t, after.sqrt_price)
      /\ after.liquidity = IF after.sqrt_price = SqrtPrice[t]
                           THEN IF state.zero_for_one THEN walk.liquidity - ticks.net[t]
                                                      ELSE walk.liquidity + ticks.net[t]
                           ELSE walk.liquidity
      /\ after.request = walk.request /\ after.array = walk.array /\ after.matched
      /\ ~Over(after) => after.sqrt_price = SqrtPrice[t]

LEMMA StepsToIs ==
  ASSUME NEW pool \in Pools, NEW ticks \in Books,
         NEW request \in Requests, LimitInside(request),
         NEW walk \in Walks(request), OnWay(pool, walk), walk.remaining # 0,
         NEW t \in Ticks, Heads(walk, t), StepTo(ticks, walk, t) # Failed(walk)
  PROVE  StepsTo(ticks, walk, t, StepTo(ticks, walk, t))
<1> DEFINE after == StepTo(ticks, walk, t)
           target == Reach(walk, t)
           z == request.zero_for_one
           base == request.is_base_input
           limit == LimitOf(request)
           state == AsSwap(walk)
           step == Math!ComputeSwapStep(walk.sqrt_price, target, walk.liquidity,
                                        walk.remaining, base, z)
           next == step.sqrt_price_next
           spent == Spent(step, base)
<1>1. /\ walk.request = request /\ walk.sqrt_price \in Prices
      /\ walk.liquidity \in Nat /\ walk.remaining \in Nat \ {0}
      /\ z \in BOOLEAN /\ base \in BOOLEAN /\ ticks.net[t] \in Int
  BY RequestIs, LiquidityAssumption DEF Walks, Books
<1>2. after = AfterStep(ticks, walk, t, step)
  <2>1. after = StepTowards(ticks, walk, t, target) /\ after # Failed(walk)
    BY DEF StepTo, Reach
  <2> HIDE DEF after, target
  <2> QED  BY <1>1, <2>1 DEF StepTowards
<1>3. /\ target \in Prices /\ target \in {SqrtPrice[t], limit}
      /\ IF z THEN limit <= target /\ target <= walk.sqrt_price
              ELSE target <= limit /\ walk.sqrt_price <= target
  BY ReachIs
<1>4. /\ state.zero_for_one = z /\ state.limit = limit
      /\ state.sqrt_price = walk.sqrt_price /\ state.tick = walk.tick
  BY AsSwapIs
<1>5. SqrtPrice[t] \in Nat /\ limit \in Nat /\ walk.sqrt_price \in Nat /\ target \in Nat
  BY <1>1, <1>3, TicksType, PriceFacts DEF LimitInside
<1> HIDE DEF state
<1>6. Target(state, t) = target
  <2>1. CASE z
    <3>1. target = Max({SqrtPrice[t], limit})  BY <1>1, <2>1 DEF Reach
    <3>2. \E x \in {SqrtPrice[t], limit} : \A y \in {SqrtPrice[t], limit} : x >= y
      <4> HIDE DEF limit
      <4> QED  BY <1>5
    <3>3. target \in {SqrtPrice[t], limit} /\ target >= SqrtPrice[t] /\ target >= limit
      <4>1. /\ Max({SqrtPrice[t], limit}) \in {SqrtPrice[t], limit}
            /\ \A y \in {SqrtPrice[t], limit} : Max({SqrtPrice[t], limit}) >= y
        BY <3>2 DEF Max
      <4> QED  BY <3>1, <4>1
    <3> HIDE DEF target, limit, z
    <3> QED  BY <1>4, <1>5, <2>1, <3>3 DEF Target
  <2>2. CASE ~z
    <3>1. target = Min({SqrtPrice[t], limit})  BY <1>1, <2>2 DEF Reach
    <3>2. \E x \in {SqrtPrice[t], limit} : \A y \in {SqrtPrice[t], limit} : x <= y
      <4> HIDE DEF limit
      <4> QED  BY <1>5
    <3>3. target \in {SqrtPrice[t], limit} /\ target <= SqrtPrice[t] /\ target <= limit
      <4>1. /\ Min({SqrtPrice[t], limit}) \in {SqrtPrice[t], limit}
            /\ \A y \in {SqrtPrice[t], limit} : Min({SqrtPrice[t], limit}) <= y
        BY <3>2 DEF Min
      <4> QED  BY <3>1, <4>1
    <3> HIDE DEF target, limit, z
    <3> QED  BY <1>4, <1>5, <2>2, <3>3 DEF Target
  <2> QED  BY <2>1, <2>2
<1> HIDE DEF target
<1>7. /\ next \in Prices
      /\ IF z THEN target <= next /\ next <= walk.sqrt_price
              ELSE walk.sqrt_price <= next /\ next <= target
      /\ spent \in Nat /\ (next # target => spent = walk.remaining)
  <2>1. IF z THEN target <= walk.sqrt_price ELSE walk.sqrt_price <= target  BY <1>3
  <2>2. StepFrom(walk.sqrt_price, target, walk.remaining, base, z, step)
    BY <1>1, <1>3, <2>1, StepOf
  <2> HIDE DEF step, z, base
  <2> QED  BY <2>2 DEF StepFrom, spent, base
<1> DEFINE tick == IF next = SqrtPrice[t] THEN IF z THEN t - 1 ELSE t
                   ELSE IF next # walk.sqrt_price THEN TickAt[next] ELSE walk.tick
           crossed == walk.liquidity + (IF z THEN -ticks.net[t] ELSE ticks.net[t])
           liq == IF next = SqrtPrice[t] THEN crossed ELSE walk.liquidity
           rest == walk.remaining - spent
<1> HIDE DEF after, step
<1>8. /\ after.request = request /\ after.sqrt_price = next /\ after.tick = tick
      /\ after.liquidity = liq /\ after.remaining = rest
      /\ after.array = walk.array /\ after.matched
  <2> DEFINE calc == walk.calculated + Gained(step, base)
             turns == walk.turns + 1
  <2>1. FieldsAfter(ticks, walk, t, step, after)  BY <1>2, AfterStepIs DEF after
  <2>2. after \in [phase : {walk.phase}, request : {request}, sqrt_price : {next},
           tick : {tick}, liquidity : {liq}, remaining : {rest}, calculated : {calc},
           first : {walk.first}, array : {walk.array}, arrays : {walk.arrays},
           used : {walk.used}, matched : {TRUE}, turns : {turns}]
    BY <1>1, <2>1 DEF FieldsAfter
  <2> HIDE DEF tick, liq, next, rest, calc, turns
  <2> QED  BY <2>2
<1>9. liq = IF next = SqrtPrice[t]
            THEN IF z THEN walk.liquidity - ticks.net[t] ELSE walk.liquidity + ticks.net[t]
            ELSE walk.liquidity
  <2>1. crossed = IF z THEN walk.liquidity - ticks.net[t] ELSE walk.liquidity + ticks.net[t]
    <3> HIDE DEF z
    <3> QED  BY <1>1
  <2> QED  BY <2>1
<1> HIDE DEF next, spent, crossed
<1>10. tick = TickReached(state, t, next)  BY <1>4 DEF TickReached
<1>11. Between(next, walk.sqrt_price, target)
  <2> HIDE DEF z
  <2> QED  BY <1>7 DEF Between
<1>12. ~Over(after) => next = SqrtPrice[t]
  <2> SUFFICES ASSUME next # SqrtPrice[t] PROVE Over(after)  BY <1>8
  <2>1. CASE next = target
    <3>1. next = limit  BY <1>3, <2>1
    <3> QED  BY <1>8, <3>1 DEF Over
  <2>2. CASE next # target
    <3>1. walk.remaining - spent = 0  BY <1>1, <1>7, <2>2
    <3> QED  BY <1>8, <3>1 DEF Over
  <2> QED  BY <2>1, <2>2
<1> HIDE DEF tick, liq, rest, z
<1>13. StepsTo(ticks, walk, t, after)
  BY <1>1, <1>4, <1>6, <1>7, <1>8, <1>9, <1>10, <1>11, <1>12 DEF StepsTo, state
<1> QED  BY <1>13 DEF after
(* A step of a walk that agrees with the book, from where it stands or     *)
(* from the array that it enters, leaves a walk that does.                 *)
LEMMA StepBalanced ==
  ASSUME BookInv, NEW request \in Requests, LimitInside(request),
         NEW walk \in BookWalks(request), walk.phase = "walking", ~Over(walk),
         NEW from \in Walks(request), OnWay(PoolSeen, from),
         from.sqrt_price = walk.sqrt_price, from.tick = walk.tick,
         from.liquidity = walk.liquidity, from.remaining = walk.remaining,
         NEW t \in Ticks, IsNextTick(AsSwap(walk), from.array, t), Heads(from, t),
         StepTo(TicksSeen, from, t) # Failed(from)
  PROVE  Balanced(StepTo(TicksSeen, from, t))
<1> DEFINE after == StepTo(TicksSeen, from, t)
           state == AsSwap(walk)
           a == from.array
           p == after.sqrt_price
           z == request.zero_for_one
<1>1. SeenIsTyped
  BY SeenType DEF BookInv, FitInv, TypeInv
<1>2. walk \in Walks(request) /\ OnWay(PoolSeen, walk) /\ Balanced(walk)
  BY DEF BookWalks, OnWalks
<1>3. /\ walk.request = request /\ from.request = request /\ from.remaining # 0
      /\ a \in ArrayStarts
  BY <1>2 DEF Walks, Over
<1>4. StepsTo(TicksSeen, from, t, after)
  BY <1>1, <1>3, StepsToIs DEF SeenIsTyped
<1>5. /\ state \in SwapState /\ state.zero_for_one = z /\ state.limit = LimitOf(request)
      /\ state.sqrt_price = walk.sqrt_price /\ state.tick = walk.tick
      /\ state.liquidity = walk.liquidity
  BY <1>2, AsSwapIs
<1>6. LET other == AsSwap(from)
      IN  /\ other.zero_for_one = z /\ other.limit = LimitOf(request)
          /\ other.sqrt_price = walk.sqrt_price /\ other.tick = walk.tick
  BY AsSwapIs
<1> HIDE DEF after, p
<1>7. /\ Between(p, state.sqrt_price, Target(state, t)) /\ p \in Prices
      /\ after.tick = TickReached(state, t, p)
      /\ after.liquidity = IF p = SqrtPrice[t] THEN Crossed(state, t) ELSE state.liquidity
      /\ after.request = request /\ after.array = a /\ after.matched
      /\ ~Over(after) => p = SqrtPrice[t]
  <2>1. Target(AsSwap(from), t) = Target(state, t)
    BY <1>5, <1>6 DEF Target
  <2>2. TickReached(AsSwap(from), t, p) = TickReached(state, t, p)
    BY <1>5, <1>6 DEF TickReached
  <2>3. TicksSeen.net = liquidity_net  BY DEF TicksSeen
  <2> HIDE DEF state, z, a
  <2>4. Crossed(state, t) = IF z THEN walk.liquidity - TicksSeen.net[t]
                                 ELSE walk.liquidity + TicksSeen.net[t]
    BY <1>5, <2>3 DEF Crossed
  <2> QED  BY <1>3, <1>4, <1>5, <1>6, <2>1, <2>2, <2>4 DEF StepsTo, p, a
<1>8. OnBook(state)
  <2>1. Place(state) /\ state.liquidity = W(Covers(state.tick))
    BY <1>2, <1>5 DEF Balanced
  <2>2. Fits(state.tick, state.sqrt_price)  BY <1>2, <1>5 DEF OnWay
  <2> QED  BY <2>1, <2>2 DEF OnBook
<1>9. Turns(state, a, t, p)
  <2>1. IF z THEN state.limit <= state.sqrt_price ELSE state.sqrt_price <= state.limit
    BY <1>2, <1>3, <1>5 DEF OnWay
  <2>2. IsNextTick(state, a, t)  OBVIOUS
  <2> HIDE DEF state, a
  <2>3. StepInOrder(state, t)  BY <1>3, <1>5, <1>8, <2>1, <2>2, StepAlwaysInOrder
  <2> QED  BY <1>7, <2>2, <2>3 DEF Turns
<1>10. after.liquidity = W(Covers(after.tick))
  <2> HIDE DEF state, a
  <2> QED  BY <1>3, <1>5, <1>7, <1>8, <1>9, TurnSum
<1>11. ASSUME ~Over(after) PROVE Place(AsSwap(after))
  <2>1. after.tick = IF z THEN t - 1 ELSE t  BY <1>5, <1>7, <1>11 DEF TickReached
  <2>2. Place(state) /\ IsNextTick(state, a, t) /\ TypeInv
    BY <1>8 DEF OnBook, BookInv, FitInv
  <2> HIDE DEF state
  <2>3. ArrayStart(after.tick) = a \/ (z /\ after.tick = a - 1)
    <3> HIDE DEF a
    <3> QED  BY <1>3, <1>5, <2>1, <2>2, CrossedPlace
  <2>4. /\ AsSwap(after).matched /\ AsSwap(after).zero_for_one = z
        /\ AsSwap(after).tick = after.tick /\ AsSwap(after).array = a
    BY <1>7 DEF AsSwap
  <2> HIDE DEF a
  <2> QED  BY <2>3, <2>4 DEF Place
<1>12. Balanced(after)  BY <1>10, <1>11 DEF Balanced
<1> QED  BY <1>12 DEF after
LEMMA EndedBalanced ==
  ASSUME NEW request, NEW walk \in Walks(request), NEW phase \in {"failed", "done"},
         walk.liquidity = W(Covers(walk.tick))
  PROVE  Balanced(Ended(walk, phase))
<1> DEFINE end == Ended(walk, phase)
<1>1. end.phase = phase /\ end.tick = walk.tick /\ end.liquidity = walk.liquidity
  BY EndedIs
<1> HIDE DEF end
<1>2. Balanced(end)  BY <1>1 DEF Balanced
<1> QED  BY <1>2 DEF end

(* Every turn of the program's loop keeps a walk in agreement with the     *)
(* book, as a step of the book's own loop does.                            *)
LEMMA BookTurn ==
  ASSUME BookInv, NEW request \in Requests, LimitInside(request),
         NEW walk \in BookWalks(request)
  PROVE  ProgramTurn(PoolSeen, TicksSeen, walk) \in BookWalks(request)
<1> DEFINE after == ProgramTurn(PoolSeen, TicksSeen, walk)
           entered == ProgramEnters(PoolSeen, walk)
           here == TickHere(TicksSeen, walk)
           first == FirstHere(TicksSeen, entered)
<1>1. SeenIsTyped
  BY SeenType DEF BookInv, FitInv, TypeInv
<1>2. /\ walk \in OnWalks(PoolSeen, request) /\ walk \in Walks(request)
      /\ OnWay(PoolSeen, walk) /\ Balanced(walk) /\ walk.request = request
      /\ walk.liquidity = W(Covers(walk.tick))
  BY DEF BookWalks, OnWalks, Walks, Balanced
<1>3. after \in OnWalks(PoolSeen, request)  BY <1>1, <1>2, ProgramTurnIs DEF SeenIsTyped
<1> SUFFICES Balanced(after)  BY <1>3 DEF BookWalks
<1>4. ASSUME NEW from \in Walks(request), from.liquidity = W(Covers(from.tick))
      PROVE  Balanced(Failed(from))
  <2>1. Failed(from) = Ended(from, "failed")  BY DEF Failed, Ended
  <2> QED  BY <1>4, <2>1, EndedBalanced
<1>5. CASE walk.phase # "walking"  BY <1>2, <1>5 DEF ProgramTurn
<1>6. CASE walk.phase = "walking" /\ Over(walk)
  <2>1. after = Ended(walk, "done")  BY <1>6 DEF ProgramTurn, Ended
  <2> QED  BY <1>2, <2>1, EndedBalanced
<1>7. CASE walk.phase = "walking" /\ ~Over(walk)
  <2>1. after = Turn(TicksSeen, walk, entered)  BY <1>7 DEF ProgramTurn
  <2>2. \/ entered = Failed(walk)
        \/ /\ Enters(walk, entered)
           /\ entered.array \in ArrayAfter(PoolSeen, walk.array, request.zero_for_one)
    BY <1>1, <1>2, ProgramEntersIs DEF SeenIsTyped
  <2> HIDE DEF entered, after
  <2>3. CASE here # {}
    <3> DEFINE t == CHOOSE u \in here : TRUE
    <3>1. after = StepTo(TicksSeen, walk, t)  BY <2>1, <2>3 DEF Turn, StepToOneOf
    <3>2. t \in here  BY <2>3
    <3> HIDE DEF t
    <3>3. t \in Ticks /\ IsNextTick(AsSwap(walk), walk.array, t)  BY <1>2, <3>2, HereIsNext
    <3>4. Heads(walk, t)  BY <1>1, <1>2, <1>7, <3>2, TickHereIs DEF SeenIsTyped
    <3>5. CASE after = Failed(walk)  BY <1>2, <1>4, <3>5
    <3>6. CASE after # Failed(walk)
      BY <1>2, <1>7, <3>1, <3>3, <3>4, <3>6, StepBalanced
    <3> QED  BY <3>5, <3>6
  <2>4. CASE here = {} /\ ~MayEnter(walk, entered)
    <3>1. after = Failed(walk)  BY <2>1, <2>4 DEF Turn
    <3> QED  BY <1>2, <1>4, <3>1
  <2>5. CASE here = {} /\ MayEnter(walk, entered)
    <3>1. after = StepToOneOf(TicksSeen, entered, first)  BY <2>1, <2>5 DEF Turn
    <3>2. walk.matched /\ entered.phase # "failed"  BY <2>5 DEF MayEnter
    <3>3. /\ Enters(walk, entered)
          /\ entered.array \in ArrayAfter(PoolSeen, walk.array, request.zero_for_one)
      BY <1>2, <2>2, <3>2, FailedIs
    <3>4. /\ entered \in Walks(request) /\ entered.sqrt_price = walk.sqrt_price
          /\ entered.tick = walk.tick /\ entered.liquidity = walk.liquidity
          /\ entered.remaining = walk.remaining /\ entered.request = request
      BY <1>2, <3>3 DEF Enters, Walks
    <3>5. CASE after = Failed(entered)  BY <1>2, <1>4, <3>4, <3>5
    <3>6. CASE after # Failed(entered)
      <4> DEFINE t == CHOOSE u \in first : TRUE
      <4>1. first # {} /\ after = StepTo(TicksSeen, entered, t)
        BY <3>1, <3>6 DEF StepToOneOf
      <4>2. t \in first  BY <4>1
      <4> HIDE DEF t
      <4>3. OnWay(PoolSeen, entered) /\ Heads(entered, t)
        BY <1>1, <1>2, <1>7, <3>2, <3>3, <4>2, FirstHereIs DEF SeenIsTyped
      <4>4. t \in Ticks /\ IsNextTick(AsSwap(walk), entered.array, t)
        BY <1>2, <2>5, <3>2, <3>3, <3>4, <4>2, EnteredIsNext
      <4> QED  BY <1>7, <3>4, <3>6, <4>1, <4>3, <4>4, StepBalanced
    <3> QED  BY <3>5, <3>6
  <2> QED  BY <2>3, <2>4, <2>5
<1> QED  BY <1>5, <1>6, <1>7

LEMMA BookWalkIs ==
  ASSUME BookInv, NEW request \in Requests, LimitInside(request),
         NEW start \in BookWalks(request)
  PROVE  ProgramWalk(PoolSeen, TicksSeen, start) \in BookWalks(request)
<1> DEFINE S == BookWalks(request)
<1>1. \A w \in S : ProgramTurn(PoolSeen, TicksSeen, w) \in S  BY BookTurn
<1>2. ProgramTurns(PoolSeen, TicksSeen, start) \in [Nat -> S]
  <2> HIDE DEF S
  <2>1. start \in S  BY DEF S
  <2> QED  BY <1>1, <2>1, ProgramLoop
<1> HIDE DEF S
<1>3. ProgramWalk(PoolSeen, TicksSeen, start) \in S  BY <1>2, MaxTurnsType DEF ProgramWalk
<1> QED  BY <1>3 DEF S
LEMMA StartBalanced ==
  ASSUME BookInv, NEW request \in Requests, LimitInside(request),
         LimitAhead(request, PoolSeen), NEW amount \in Nat,
         NEW first \in FirstArrayOf(PoolSeen, request.zero_for_one),
         NEW rest \in Seq(ArrayStarts)
  PROVE  Start(request, amount, PoolSeen, first, rest) \in BookWalks(request)
<1> DEFINE start == Start(request, amount, PoolSeen, first, rest)
           here == ArrayStart(tick_current)
           z == request.zero_for_one
<1>1. PoolSeen \in Pools  BY SeenType DEF BookInv, FitInv, TypeInv, SeenIsTyped
<1>2. start \in OnWalks(PoolSeen, request)  BY <1>1, StartIs
<1>3. /\ start.tick = tick_current /\ start.liquidity = liquidity /\ start.array = first
      /\ start.matched = (first = here) /\ start.request = request
  BY DEF Start, PoolSeen
<1> HIDE DEF start
<1>4. start.liquidity = W(Covers(start.tick))  BY <1>3 DEF BookInv, ActiveSum
<1>5. /\ AsSwap(start).tick = tick_current /\ AsSwap(start).array = first
      /\ AsSwap(start).matched = (first = here) /\ AsSwap(start).zero_for_one = z
  BY <1>3 DEF AsSwap
<1>6. Place(AsSwap(start))
  <2>1. CASE first = here  BY <1>5, <2>1 DEF Place
  <2>2. CASE first # here
    <3>1. /\ here \notin tick_array_bitmap
          /\ first \in NearestOf(Beyond(tick_array_bitmap, here, z), z)
      BY <2>2 DEF FirstArrayOf, ArrayAfter, PoolSeen
    <3>2. Nearest(first, Beyond(tick_array_bitmap, here, z), z)  BY <3>1 DEF NearestOf
    <3> HIDE DEF here, z
    <3> QED  BY <1>5, <2>2, <3>1, <3>2 DEF Place, here
  <2> QED  BY <2>1, <2>2
<1> QED  BY <1>2, <1>4, <1>6 DEF BookWalks, Balanced, start

LEMMA ExactBalanced ==
  ASSUME BookInv, mint \in Mints, NEW request \in Requests, NEW arrays,
         LimitInside(request) => arrays \in Seq(ArrayStarts),
         Exact(request, arrays).phase = "done"
  PROVE  Exact(request, arrays) \in BookWalks(request)
<1> DEFINE end == Exact(request, arrays)
<1>1. LimitInside(request) /\ LimitAhead(request, PoolSeen) /\ Runs(request, end)
  BY ExactRuns
<1> HIDE DEF end
<1>2. PICK amount \in Nat, first \in FirstArrayOf(PoolSeen, request.zero_for_one),
           rest \in Seq(ArrayStarts) :
        end = ProgramWalk(PoolSeen, TicksSeen, Start(request, amount, PoolSeen, first, rest))
  BY <1>1 DEF Runs
<1>3. Start(request, amount, PoolSeen, first, rest) \in BookWalks(request)
  BY <1>1, StartBalanced
<1>4. end \in BookWalks(request)  BY <1>1, <1>2, <1>3, BookWalkIs
<1> QED  BY <1>4 DEF end

(* What a whole swap leaves in the pool agrees with the book, and moves    *)
(* the market of the ledger.                                               *)
LEMMA SwappedBook ==
  ASSUME BookInv, swap.phase = "idle", NEW request, NEW end \in BookWalks(request),
         Swapped(end)
  PROVE  BookInv' /\ swap' = swap /\ Ledger!Move
<1>1. /\ end \in OnWalks(PoolSeen, request) /\ end.tick \in MIN_TICK..MAX_TICK
      /\ end.liquidity = W(Covers(end.tick))
  BY DEF BookWalks, OnWalks, Walks, Balanced
<1>2. /\ UNCHANGED <<bookVars, position>> /\ swap' = swap
      /\ tick_current' = end.tick /\ liquidity' = end.liquidity
  BY DEF Swapped
<1>3. TypeInv /\ TickFitsPrice /\ ArrayIndexExact /\ LedgerSums
  BY DEF BookInv, WalkInv, IndexInv, FitInv
<1>4. TypeInv' /\ TickFitsPrice'  BY <1>1, <1>3, SwappedIs
<1>5. ArrayIndexExact'
  BY <1>2, <1>3 DEF ArrayIndexExact, InitializedIn, Initialized,
                    bookVars, tickVars, indexVars
<1>6. LedgerSums'
  BY <1>2, <1>3 DEF LedgerSums, bookVars, tickVars, W, Sum, Units, Within,
                    Starts, Ends, AllRanges
<1>7. WNext(Covers(end.tick)) = W(Covers(end.tick))  BY <1>2 DEF WNext, W
<1>8. ActiveSum'  BY <1>1, <1>2, <1>7, WPrime DEF ActiveSum
<1>9. WalkPlace' /\ WalkSum'  BY <1>2 DEF WalkPlace, WalkSum
<1>10. Ledger!Move
  <2>1. liquidity' = Ledger!Covering(position, tick_current')
    BY <1>1, <1>2, <1>3, CoveringIs
  <2> QED  BY <1>1, <1>2, <2>1 DEF Ledger!Move
<1> QED
  BY <1>2, <1>4, <1>5, <1>6, <1>8, <1>9, <1>10 DEF BookInv, WalkInv, IndexInv, FitInv
(* No step of the client's or of others' breaks the book, and seen from    *)
(* the ledger each of them is one of its steps.                            *)
WholeInv == ClientInv /\ BookInv /\ swap.phase = "idle"
KeepsBook == BookInv' /\ swap' = swap /\ [Ledger!Next]_(Ledger!ledgerVars)

LEMMA ClientNextKeeps ==
  ASSUME WholeInv, [ClientNext]_clientVars
  PROVE  KeepsBook
<1>1. BookInv /\ TypeInv /\ mint \in Mints /\ swap.phase = "idle" /\ TickFitsPrice
  BY DEF WholeInv, ClientInv
<1>2. ASSUME [Next]_vars, swap' = swap PROVE KeepsBook
  BY <1>1, <1>2, BookNext, LedgerStep DEF KeepsBook
<1>3. ASSUME UNCHANGED <<vars, mint>> PROVE KeepsBook
  BY <1>2, <1>3 DEF vars
<1>4. CASE BookSteps
  <2>1. Next  BY <1>1, <1>4, OthersBook
  <2>2. swap' = swap
    BY <1>4 DEF BookSteps, OthersOpens, OthersIncreases, OthersDecreases, OthersCloses,
                OthersOpen, OthersIncrease, OthersDecrease, OthersClose, OpenPosition,
                IncreaseLiquidity, DecreaseLiquidity, ClosePosition, AddLiquidity,
                ModifyPosition
  <2> QED  BY <1>2, <2>1, <2>2
<1>5. ASSUME NEW request \in Requests, NEW arrays,
             LimitInside(request) => arrays \in Seq(ArrayStarts),
             Swapped(Exact(request, arrays))
      PROVE  KeepsBook
  <2> DEFINE end == Exact(request, arrays)
  <2>1. end.phase = "done"  BY <1>5 DEF Swapped
  <2>2. end \in BookWalks(request)  BY <1>1, <1>5, <2>1, ExactBalanced
  <2> HIDE DEF end
  <2>3. Swapped(end)  BY <1>5 DEF end
  <2>4. BookInv' /\ swap' = swap /\ Ledger!Move  BY <1>1, <2>2, <2>3, SwappedBook
  <2> QED  BY <2>4 DEF KeepsBook, Ledger!Next
<1>6. ASSUME NEW request \in Requests, OthersSwap(request) PROVE KeepsBook
  <2>1. PICK arrays \in AllArrays(request.zero_for_one) : Swapped(Exact(request, arrays))
    BY <1>6 DEF OthersSwap
  <2>2. arrays \in Seq(ArrayStarts)  BY <1>1, SeenType, AllArraysType DEF TypeInv
  <2> QED  BY <1>5, <2>1, <2>2
<1>7. ASSUME NEW kind, Lands(kind) PROVE KeepsBook
  <2>1. command.phase = "sent"
        /\ Swapped(Exact(command.request, TickArrayStates(command.instr)))
    BY <1>7 DEF Lands, LandsAs
  <2>2. command.request \in Requests
        /\ (LimitInside(command.request) => TickArrayStates(command.instr) \in Seq(ArrayStarts))
    BY <2>1 DEF WholeInv, ClientInv, CommandOk, Idle
  <2> QED  BY <1>5, <2>1, <2>2
<1>8. CASE \E request \in Requests : ReadPool(request)  BY <1>3, <1>8 DEF ReadPool
<1>9. CASE Swap \/ SwapV2  BY <1>3, <1>9 DEF Swap, SwapV2, Sends
<1>10. CASE SwapLands \/ SwapV2Lands  BY <1>7, <1>10 DEF SwapLands, SwapV2Lands
<1>11. CASE Fails  BY <1>3, <1>11 DEF Fails
<1>12. CASE UNCHANGED clientVars  BY <1>3, <1>12 DEF clientVars
<1> QED
  BY <1>4, <1>6, <1>8, <1>9, <1>10, <1>11, <1>12
  DEF ClientNext, BookSteps, OthersOpens, OthersIncreases, OthersDecreases, OthersCloses

LEMMA WholeInvariant == ClientSpec => []WholeInv
<1>1. ClientInit => WholeInv
  <2> SUFFICES ASSUME ClientInit PROVE WholeInv  OBVIOUS
  <2>1. Init  BY DEF ClientInit
  <2>2. swap.phase = "idle"  BY <2>1 DEF Init, IdleSwap
  <2> QED  BY <2>1, <2>2, ClientInitInv, BookInit DEF WholeInv
<1>2. WholeInv /\ [ClientNext]_clientVars => WholeInv'
  <2> SUFFICES ASSUME WholeInv, [ClientNext]_clientVars PROVE WholeInv'  OBVIOUS
  <2>1. BookInv' /\ swap' = swap  BY ClientNextKeeps DEF KeepsBook
  <2>2. ClientInv'  BY ClientNextInv DEF WholeInv
  <2> QED  BY <2>1, <2>2 DEF WholeInv
<1> QED  BY <1>1, <1>2, PTL DEF ClientSpec

(* Whole swaps with compute_swap_step's own amounts, the client's through  *)
(* the arrays that it sent and others' through all of them, leave a pool   *)
(* whose liquidity is that of the positions in range, and ticks, protocol  *)
(* positions, counts and bitmap that the next swap can rely on.            *)
THEOREM ClientKeepsBook ==
  ClientSpec => [](ActiveLiquidity /\ LedgerAgrees /\ ArrayIndexExact)
<1>1. WholeInv => ActiveLiquidity /\ LedgerAgrees /\ ArrayIndexExact
  <2> SUFFICES ASSUME WholeInv PROVE ActiveLiquidity /\ LedgerAgrees /\ ArrayIndexExact
    OBVIOUS
  <2>1. TypeInv /\ LedgerSums /\ ActiveSum /\ ArrayIndexExact
    BY DEF WholeInv, BookInv, WalkInv, IndexInv, FitInv
  <2> QED  BY <2>1, LedgerBridge DEF ActiveSum
<1> QED  BY <1>1, WholeInvariant, PTL

(* Seen from the positions, such a swap is what the ledger calls a move of *)
(* the market, as is a swap that takes one turn after the other: the walks *)
(* with real amounts implement the ledger too.                             *)
THEOREM ClientImplementsLedger == ClientSpec => ImplementsLedger
<1>1. ClientInit => Ledger!Init
  <2> SUFFICES ASSUME ClientInit PROVE Ledger!Init  OBVIOUS
  <2>1. Init /\ TypeInv  BY InitType DEF ClientInit
  <2>2. tick_current \in MIN_TICK..MAX_TICK  BY <2>1 DEF TypeInv, TypeOK
  <2> QED  BY <2>1, <2>2 DEF Init, Ledger!Init
<1>2. WholeInv /\ [ClientNext]_clientVars => [Ledger!Next]_(Ledger!ledgerVars)
  BY ClientNextKeeps DEF KeepsBook
<1> QED  BY <1>1, <1>2, WholeInvariant, PTL DEF ClientSpec, ImplementsLedger, Ledger!Spec
=============================================================================
