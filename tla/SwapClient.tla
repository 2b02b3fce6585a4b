------------------------------- MODULE SwapClient -------------------------------
(***************************************************************************)
(* The client's Swap and SwapV2 commands against the pool they trade with. *)
(* A command asks for the pool and its bitmap, then for the tick arrays    *)
(* that the bitmap names, walks them as the program will, and sends the    *)
(* amount that came out, give or take the slippage, with the arrays that   *)
(* its walk went through.  Others trade and move liquidity between any two *)
(* of these.  A mint may keep a fee on transfers, always the same one.     *)
(*                                                                         *)
(* The book is TickLiquidity's, the amounts are SwapMath's, and a swap on  *)
(* chain is one step here: TickLiquidity's loop with real amounts.         *)
(***************************************************************************)
EXTENDS TickLiquidity, TransferFees, Sequences

CONSTANTS
  Q64, FEE_RATE_DENOMINATOR_VALUE, trade_fee_rate,
  ARRAYS_AHEAD,    \* load_cur_and_next_five_tick_array: 5
  LOOP_LIMIT,      \* swap_compute: 10
  SlippageTenths,  \* ClientConfig's slippage
  Mints,           \* the transfer fees of the two mints, as pairs
  TradeAmounts, Limits, \* what a trader may ask for; bounds of the model
  Deposits, Offered,  \* liquidity and ranges of positions; bounds of the model
  MaxOthers        \* what others do during one command; bound of the model

(* The words hold a price, rates are below one, and offers are ranges.     *)
ASSUME WordAssumption ==
  /\ Q64 \in Nat \ {0, 1} /\ SqrtPrice[MIN_TICK] > 0 /\ SqrtPrice[MAX_TICK] < Q64 * Q64
  /\ FEE_RATE_DENOMINATOR_VALUE \in Nat /\ trade_fee_rate \in Nat
  /\ trade_fee_rate < FEE_RATE_DENOMINATOR_VALUE
ASSUME ClientAssumption == ARRAYS_AHEAD \in Nat /\ LOOP_LIMIT \in Nat /\ SlippageTenths \in 0..10
ASSUME MintAssumption ==
  Mints \subseteq {fees \in Seq([transfer_fee_basis_points : 0..ONE_IN_BASIS_POINTS,
                                 maximum_fee : Nat]) : Len(fees) = 2}
ASSUME OfferAssumption ==
  /\ TradeAmounts \subseteq Nat /\ Limits \subseteq Nat
  /\ Deposits \subseteq Nat /\ Offered \subseteq Ticks \X Ticks

VARIABLES
  mint,     \* the transfer fee of token_0 and of token_1
  command   \* what the client knows so far, and what it sent

clientVars == <<vars, mint, command>>

Math == INSTANCE SwapMath WITH
          PriceLower <- SqrtPrice[MIN_TICK], PriceUpper <- SqrtPrice[MAX_TICK],
          MaxAmount <- Q64 - 1, reserve_0 <- 0, reserve_1 <- 0

Idle == [phase |-> "idle"]

Requests == [kind : {"Swap", "SwapV2"}, zero_for_one : BOOLEAN, is_base_input : BOOLEAN,
             amount : TradeAmounts, limit : Limits]

InputMint(request) == mint[IF request.zero_for_one THEN 1 ELSE 2]
OutputMint(request) == mint[IF request.zero_for_one THEN 2 ELSE 1]

-----------------------------------------------------------------------------
(* What a walk looks at: PoolState with its bitmap, and the ticks.         *)

PoolSeen == [sqrt_price |-> sqrt_price, tick |-> tick_current, liquidity |-> liquidity,
             bitmap |-> tick_array_bitmap]
TicksSeen == [net |-> liquidity_net, initialized |-> Initialized]

NearestOf(S, zero_for_one) == {t \in S : Nearest(t, S, zero_for_one)}
TicksOf(ticks, a) == {t \in ticks.initialized : ArrayStart(t) = a}

(* next_initialized_tick_array_start_index, and get_first_initialized_     *)
(* tick_array: at most one array.                                          *)
ArrayAfter(pool, a, zero_for_one) ==
  NearestOf(Beyond(pool.bitmap, a, zero_for_one), zero_for_one)
FirstArrayOf(pool, zero_for_one) ==
  LET here == ArrayStart(pool.tick)
  IN  IF here \in pool.bitmap THEN {here} ELSE ArrayAfter(pool, here, zero_for_one)

-----------------------------------------------------------------------------
(* One turn of a walk, which client and program have in common *)

(* The limit is a price ahead, and by default the last but one.            *)
LimitOf(request) ==
  IF request.limit # 0 THEN request.limit
  ELSE IF request.zero_for_one THEN SqrtPrice[MIN_TICK] + 1 ELSE SqrtPrice[MAX_TICK] - 1
LimitAhead(request, pool) ==
  IF request.zero_for_one THEN LimitOf(request) < pool.sqrt_price
                          ELSE pool.sqrt_price < LimitOf(request)

(* The walk before its first turn: first is the array it starts in, arrays *)
(* are those still to come, used those it has been in.                     *)
Start(request, amount_specified, pool, first, arrays) ==
  [phase |-> "walking", request |-> request, sqrt_price |-> pool.sqrt_price,
   tick |-> pool.tick, liquidity |-> pool.liquidity, remaining |-> amount_specified,
   calculated |-> 0, first |-> first, array |-> first, arrays |-> arrays,
   used |-> <<first>>, matched |-> first = ArrayStart(pool.tick), turns |-> 0]
Failed(walk) == [walk EXCEPT !.phase = "failed"]

(* The tick that the walk finds where it is: the nearest ahead, or once,   *)
(* in an array that the current tick is not in, the first.                 *)
TickHere(ticks, walk) ==
  LET here  == TicksOf(ticks, walk.array)
      ahead == IF ArrayStart(walk.tick) = walk.array
               THEN Ahead(here, walk.tick, walk.request.zero_for_one) ELSE {}
  IN  NearestOf(IF ahead = {} /\ ~walk.matched THEN here ELSE ahead,
                walk.request.zero_for_one)

(* The walk after a step: its amounts, and the crossing of t if it got     *)
(* there.                                                                  *)
AfterStep(ticks, walk, t, step) ==
  LET zero_for_one == walk.request.zero_for_one
      base_in  == walk.request.is_base_input
      price    == step.sqrt_price_next
      crossed  == walk.liquidity
                    + (IF zero_for_one THEN -ticks.net[t] ELSE ticks.net[t])
      paid     == step.amount_in + step.fee_amount
      reached  == price = SqrtPrice[t]
  IN  IF reached /\ ~AddDeltaOk(crossed, 0)
      THEN Failed(walk)
      ELSE [walk EXCEPT
              !.sqrt_price = price,
              !.tick = IF reached THEN IF zero_for_one THEN t - 1 ELSE t
                       ELSE IF price # walk.sqrt_price THEN TickAt[price] ELSE @,
              !.liquidity  = IF reached THEN crossed ELSE @,
              !.remaining  = @ - (IF base_in THEN paid ELSE step.amount_out),
              !.calculated = @ + (IF base_in THEN step.amount_out ELSE paid),
              !.matched = TRUE,
              !.turns   = @ + 1]

(* compute_swap_step towards tick t, no further than the limit.  An amount *)
(* or a liquidity that leaves its word ends the walk.                      *)
StepTowards(ticks, walk, t, target) ==
  LET request == walk.request
  IN  IF Math!StepFits(walk.sqrt_price, target, walk.liquidity, walk.remaining,
                       request.is_base_input, request.zero_for_one)
      THEN AfterStep(ticks, walk, t,
             Math!ComputeSwapStep(walk.sqrt_price, target, walk.liquidity, walk.remaining,
                                  request.is_base_input, request.zero_for_one))
      ELSE Failed(walk)
StepTo(ticks, walk, t) ==
  StepTowards(ticks, walk, t,
    IF walk.request.zero_for_one THEN Max({SqrtPrice[t], LimitOf(walk.request)})
                                 ELSE Min({SqrtPrice[t], LimitOf(walk.request)}))

(* Where the present array has no tick to go to, the walk enters another   *)
(* one and goes to its first.                                              *)
MayEnter(walk, entered) == walk.matched /\ entered.phase # "failed"
FirstHere(ticks, walk) ==
  NearestOf(TicksOf(ticks, walk.array), walk.request.zero_for_one)
StepToOneOf(ticks, walk, found) ==
  IF found = {} THEN Failed(walk) ELSE StepTo(ticks, walk, CHOOSE t \in found : TRUE)
Turn(ticks, walk, entered) ==
  LET stays == TickHere(ticks, walk) # {}
  IN  IF ~stays /\ ~MayEnter(walk, entered) THEN Failed(walk)
      ELSE StepToOneOf(ticks, IF stays THEN walk ELSE entered,
             IF stays THEN TickHere(ticks, walk) ELSE FirstHere(ticks, entered))

(* More turns than any walk takes: the client counts its own, and each of  *)
(* the program's moves the tick.                                           *)
MaxTurns == LOOP_LIMIT + (MAX_TICK - MIN_TICK) + 3

Over(walk) == walk.remaining = 0 \/ walk.sqrt_price = LimitOf(walk.request)

-----------------------------------------------------------------------------
(* swap_internal *)

(* The accounts are skipped up to the next array of the bitmap.            *)
ProgramEnters(pool, walk) ==
  LET next == ArrayAfter(pool, walk.array, walk.request.zero_for_one)
      at   == {i \in DOMAIN walk.arrays : walk.arrays[i] \in next}
  IN  IF at = {} THEN Failed(walk)
      ELSE LET a == walk.arrays[Min(at)]
           IN  [walk EXCEPT !.array = a, !.used = Append(@, a),
                            !.arrays = SubSeq(@, Min(at) + 1, Len(@))]

(* The loop, turn after turn; a walk that has ended stays as it is.        *)
ProgramTurn(pool, ticks, walk) ==
  IF walk.phase # "walking" THEN walk
  ELSE IF Over(walk) THEN [walk EXCEPT !.phase = "done"]
  ELSE Turn(ticks, walk, ProgramEnters(pool, walk))
ProgramTurns(pool, ticks, start) ==
  LET walk[n \in Nat] == IF n = 0 THEN start ELSE ProgramTurn(pool, ticks, walk[n - 1])
  IN  walk
ProgramWalk(pool, ticks, start) == ProgramTurns(pool, ticks, start)[MaxTurns]

(* exact_internal_v2 takes the transfer fee off an input that is given,    *)
(* and puts it on an output that is asked for.                             *)
AmountSpecified(request) ==
  IF request.is_base_input
  THEN request.amount - CalculateFee(InputMint(request), request.amount)
  ELSE request.amount + InverseFee(OutputMint(request), request.amount)

(* A limit at the very first or last price is refused.                     *)
ProgramTakes(request) ==
  /\ AmountSpecified(request) # 0
  /\ LimitOf(request) \in Prices \ {SqrtPrice[MIN_TICK], SqrtPrice[MAX_TICK]}
  /\ LimitAhead(request, PoolSeen)

(* exact_internal and exact_internal_v2 with the tick arrays of the        *)
(* transaction: the first one is looked for among them, both amounts must  *)
(* be something and the price must move.                                   *)
Traded(request, end) ==
  IF /\ end.phase = "done"
     /\ end.calculated > 0 /\ end.remaining < AmountSpecified(request)
     /\ end.sqrt_price # sqrt_price
  THEN end ELSE [phase |-> "failed"]
Exact(request, arrays) ==
  LET first == FirstArrayOf(PoolSeen, request.zero_for_one)
      at    == {i \in DOMAIN arrays : arrays[i] \in first}
  IN  IF ~ProgramTakes(request) \/ at = {}
      THEN [phase |-> "failed"]
      ELSE Traded(request,
             ProgramWalk(PoolSeen, TicksSeen,
               Start(request, AmountSpecified(request), PoolSeen, arrays[Min(at)],
                     SubSeq(arrays, Min(at) + 1, Len(arrays)))))

(* What the trader's own account gains or loses must be within the         *)
(* threshold.                                                              *)
WithinThreshold(end, other_amount_threshold) ==
  LET amount == end.calculated
  IN  IF end.request.is_base_input
      THEN amount - CalculateFee(OutputMint(end.request), amount) >= other_amount_threshold
      ELSE amount + InverseFee(InputMint(end.request), amount) <= other_amount_threshold

(* What a swap that went through leaves in the pool.                       *)
Swapped(end) ==
  /\ end.phase = "done"
  /\ sqrt_price' = end.sqrt_price
  /\ tick_current' = end.tick
  /\ liquidity' = end.liquidity
  /\ UNCHANGED <<bookVars, position, swap, mint>>

-----------------------------------------------------------------------------
(* The client *)

(* load_cur_and_next_five_tick_array: the arrays by the pool's bitmap.     *)
WithNext(pool, zero_for_one, arrays) ==
  LET next == ArrayAfter(pool, arrays[Len(arrays)], zero_for_one)
  IN  IF next = {} THEN arrays ELSE Append(arrays, CHOOSE a \in next : TRUE)
ArraysLoaded(pool, a, zero_for_one) ==
  LET loaded[n \in Nat] ==
        IF n = 0 THEN <<a>> ELSE WithNext(pool, zero_for_one, loaded[n - 1])
  IN  loaded
ArraysFrom(pool, a, zero_for_one) == ArraysLoaded(pool, a, zero_for_one)[ARRAYS_AHEAD]

(* The client takes the next array that it loaded, and wants it to be the  *)
(* one after the array it started in.                                      *)
ClientEnters_NotListed(pool, walk) ==
  IF walk.arrays = <<>> THEN Failed(walk)
  ELSE IF Head(walk.arrays) \in ArrayAfter(pool, walk.first, walk.request.zero_for_one)
       THEN [walk EXCEPT !.array = Head(walk.arrays), !.arrays = Tail(@)]
       ELSE Failed(walk)
ClientEnters(pool, walk) ==
  IF walk.arrays = <<>> THEN Failed(walk)
  ELSE IF Head(walk.arrays) \in ArrayAfter(pool, walk.first, walk.request.zero_for_one)
       THEN [walk EXCEPT !.array = Head(walk.arrays), !.used = Append(@, Head(walk.arrays)),
                         !.arrays = Tail(@)]
       ELSE Failed(walk)

(* swap_compute: the walk also ends at the first and the last tick.        *)
ClientTurn(pool, ticks, walk) ==
  IF walk.phase # "walking" THEN walk
  ELSE IF Over(walk) \/ walk.tick <= MIN_TICK \/ walk.tick >= MAX_TICK
       THEN [walk EXCEPT !.phase = "done"]
  ELSE IF walk.turns > LOOP_LIMIT THEN Failed(walk)
  ELSE Turn(ticks, walk, ClientEnters(pool, walk))
ClientTurns(pool, ticks, start) ==
  LET walk[n \in Nat] == IF n = 0 THEN start ELSE ClientTurn(pool, ticks, walk[n - 1])
  IN  walk
SwapCompute(pool, ticks, start) == ClientTurns(pool, ticks, start)[MaxTurns]

(* What the client takes for the program's amount_specified: it does not   *)
(* ask what the output mint will keep.                                     *)
AmountToQuote(request) ==
  IF request.is_base_input
  THEN request.amount - CalculateFee(InputMint(request), request.amount) ELSE request.amount

(* A limit at the very first or last price will do.                        *)
ClientTakes(request, pool) ==
  /\ AmountToQuote(request) # 0
  /\ LimitOf(request) \in Prices
  /\ LimitAhead(request, pool)

(* The least to get, or the most to pay, the input's transfer fee included.*)
OtherAmountThreshold(request, amount) ==
  LET slipped == IF request.is_base_input THEN (amount * (10 - SlippageTenths)) \div 10
                 ELSE CeilDiv(amount * (10 + SlippageTenths), 10)
  IN  IF request.is_base_input THEN slipped
      ELSE slipped + InverseFee(InputMint(request), slipped)

(* A command asks for the pool, of which some array must lie ahead.  Swap  *)
(* is for plain token accounts.                                            *)
ReadPool(request) ==
  /\ command = Idle
  /\ request.kind = "Swap" => mint = <<NoFee, NoFee>>
  /\ FirstArrayOf(PoolSeen, request.zero_for_one) # {}
  /\ command' = [phase |-> "pool", request |-> request, pool |-> PoolSeen, others |-> 0]
  /\ UNCHANGED <<vars, mint>>

(* It asks for the tick arrays, quotes and sends.                          *)
Quote(request, pool) ==
  LET first  == CHOOSE a \in FirstArrayOf(pool, request.zero_for_one) : TRUE
      arrays == ArraysFrom(pool, first, request.zero_for_one)
  IN  IF ClientTakes(request, pool)
      THEN SwapCompute(pool, TicksSeen,
             Start(request, AmountToQuote(request), pool, first, Tail(arrays)))
      ELSE [phase |-> "failed"]

(* Swap names the first array of the walk in an account of its own and the *)
(* others behind it, SwapV2 names all in a row.                            *)
SwapInstr(used, other_amount_threshold) ==
  [tick_array |-> <<Head(used)>>, remaining_accounts |-> Tail(used),
   other_amount_threshold |-> other_amount_threshold]
SwapV2Instr(used, other_amount_threshold) ==
  [tick_array |-> <<>>, remaining_accounts |-> used,
   other_amount_threshold |-> other_amount_threshold]
TickArrayStates(instr) == instr.tick_array \o instr.remaining_accounts

SwapSent(request, used, other_amount_threshold) ==
  IF request.kind = "Swap" THEN SwapInstr(used, other_amount_threshold)
                           ELSE SwapV2Instr(used, other_amount_threshold)

(* The command sends what it made of its quote, and panics without one.    *)
Quoted(quote) ==
  IF quote.phase = "done"
  THEN [phase |-> "sent", request |-> command.request, others |-> command.others,
        quote |-> [calculated |-> quote.calculated, remaining |-> quote.remaining,
                   tick |-> quote.tick],
        instr |-> SwapSent(command.request, quote.used,
                           OtherAmountThreshold(command.request, quote.calculated))]
  ELSE [phase |-> "failed", request |-> command.request, others |-> command.others]
Sends(kind) ==
  /\ command.phase = "pool" /\ command.request.kind = kind
  /\ command' = Quoted(Quote(command.request, command.pool))
  /\ UNCHANGED <<vars, mint>>
Swap == Sends("Swap")
SwapV2 == Sends("SwapV2")

(* swap and swap_v2: the transaction lands within the threshold.           *)
LandsAs(end) ==
  /\ Swapped(end)
  /\ WithinThreshold(end, command.instr.other_amount_threshold)
Lands(kind) ==
  /\ command.phase = "sent" /\ command.request.kind = kind
  /\ LandsAs(Exact(command.request, TickArrayStates(command.instr)))
  /\ command' = Idle
SwapLands == Lands("Swap")
SwapV2Lands == Lands("SwapV2")

(* Refused, lost, or given up.                                             *)
Fails ==
  /\ command # Idle
  /\ command' = Idle
  /\ UNCHANGED <<vars, mint>>

-----------------------------------------------------------------------------
(* Other people *)

(* All the arrays from the first one on, if there is one.                  *)
AllArrays(zero_for_one) ==
  {ArraysLoaded(PoolSeen, a, zero_for_one)[Cardinality(tick_array_bitmap)] :
     a \in FirstArrayOf(PoolSeen, zero_for_one)}

OthersAct ==
  /\ IF command = Idle THEN UNCHANGED command
     ELSE command.others < MaxOthers /\ command' = [command EXCEPT !.others = @ + 1]
  /\ UNCHANGED mint

OthersOpen(n, range, amount) == OpenPosition(n, range[1], range[2], amount) /\ OthersAct
OthersIncrease(n, amount) == IncreaseLiquidity(n, amount) /\ OthersAct
OthersDecrease(n, amount) == DecreaseLiquidity(n, amount) /\ OthersAct
OthersClose(n) == ClosePosition(n) /\ OthersAct
OthersSwap(request) ==
  /\ request.kind = "SwapV2"
  /\ \E arrays \in AllArrays(request.zero_for_one) : Swapped(Exact(request, arrays))
  /\ OthersAct

-----------------------------------------------------------------------------
ClientInit == Init /\ mint \in Mints /\ command = Idle

ClientNext ==
  \/ \E request \in Requests : ReadPool(request)
  \/ Swap
  \/ SwapV2
  \/ SwapLands
  \/ SwapV2Lands
  \/ Fails
  \/ \E n \in Nft, range \in Offered, amount \in Deposits \cap NewLiquidity :
       OthersOpen(n, range, amount)
  \/ \E n \in Nft, amount \in Deposits \cap NewLiquidity : OthersIncrease(n, amount)
  \/ \E n \in Nft, amount \in Deposits : OthersDecrease(n, amount)
  \/ \E n \in Nft : OthersClose(n)
  \/ \E request \in Requests : OthersSwap(request)

ClientSpec == ClientInit /\ [][ClientNext]_clientVars

-----------------------------------------------------------------------------
(* Properties *)

Undisturbed == command # Idle /\ command.others = 0

Confirms(end) ==
  /\ end.phase = "done"
  /\ end.calculated = command.quote.calculated
  /\ end.remaining = command.quote.remaining
  /\ WithinThreshold(end, command.instr.other_amount_threshold)

(* A quote that nobody disturbs is kept: swap_compute, a second rendering  *)
(* of swap_internal over tick arrays that were fetched by the bitmap, ends *)
(* with the very amounts that the program then trades, with no other       *)
(* arrays than those that it sends along, and the program accepts it.      *)
(* Left out are output mints that charge a fee, limits at the first or     *)
(* last price, walks that ended at the first or last tick, and trades of   *)
(* nothing.                                                                *)
QuoteIsKept ==
  command.phase = "sent" /\ Undisturbed
    /\ OutputMint(command.request) = NoFee
    /\ LimitOf(command.request) \notin {SqrtPrice[MIN_TICK], SqrtPrice[MAX_TICK]}
    /\ command.quote.tick \notin {MIN_TICK, MAX_TICK}
    /\ command.quote.calculated > 0
    /\ command.quote.remaining < AmountToQuote(command.request)
  => Confirms(Exact(command.request, TickArrayStates(command.instr)))

(* "loop across ticks until input liquidity is consumed, or the limit      *)
(* price is reached" (swap_compute): a trade that the program would do is  *)
(* one that the client can quote.                                          *)
QuoteIsFound ==
  command.phase = "failed" /\ Undisturbed
  => \A arrays \in AllArrays(command.request.zero_for_one) :
       Exact(command.request, arrays).phase = "failed"
=================================================================================
