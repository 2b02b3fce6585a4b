----------------------------- MODULE LiquidityClient -----------------------------
(***************************************************************************)
(* The client's commands that open a position, add to it and draw on it.   *)
(* A command asks the cluster for the pool, then for the mints, then for   *)
(* the owner's positions, works out how much it is ready to pay or to go   *)
(* without, and sends one transaction.  The chain does not wait: others    *)
(* trade and the epoch changes between any two of these requests, and the  *)
(* transaction may be lost.                                                *)
(*                                                                         *)
(* The pool is SwapMath's, of one range, which is also the range of the    *)
(* position; trade fees and rewards are left out.                          *)
(***************************************************************************)
EXTENDS SwapMath, TransferFees, Sequences

CONSTANTS
  NoPosition,           \* the owner has no position on the range
  TransferFeeConfigs,   \* the mints' TransferFeeConfig extensions: a fee, the one
                        \* that replaces it, and the epoch in which it does
  SlippageTenths,       \* ClientConfig's slippage
  MaxEpoch              \* bound of the model

VARIABLES
  epoch,
  mint,      \* the extension of each of the two mints
  personal,  \* the liquidity of the owner's position
  command    \* what the client knows so far, and what it sent

clientVars == <<epoch, mint, personal, command>>

Tokens == {0, 1}
Idle == [phase |-> "idle"]

-----------------------------------------------------------------------------
(* What both sides reckon with *)

GetEpochFee(config, at) ==
  IF at >= config.newer_epoch THEN config.newer_transfer_fee ELSE config.older_transfer_fee

(* get_delta_amounts_signed at a price inside the range.                   *)
DeltaAmounts(price, liq, round_up) ==
  [i \in Tokens |-> IF i = 0 THEN GetDeltaAmount0(price, PriceUpper, liq, round_up)
                             ELSE GetDeltaAmount1(PriceLower, price, liq, round_up)]

-----------------------------------------------------------------------------
(* The client *)

AmountWithSlippage(amount, round_up) ==
  IF round_up THEN CeilDiv(amount * (10 + SlippageTenths), 10)
              ELSE (amount * (10 - SlippageTenths)) \div 10

(* The client's own fee functions: of an account's state, at an epoch, for *)
(* an amount.                                                              *)
GetTransferInverseFee(account_state, at, post_fee_amount) ==
  InverseFee(GetEpochFee(account_state, at), post_fee_amount)
GetTransferFee(account_state, at, pre_fee_amount) ==
  CalculateFee(GetEpochFee(account_state, at), pre_fee_amount)

(* Both are called with the amount in the place of the epoch.              *)
GetPoolMintsInverseFee(amounts) ==
  [i \in Tokens |-> GetTransferInverseFee(mint[i], amounts[i], epoch)]
GetPoolMintsTransferFee(amounts) ==
  [i \in Tokens |-> GetTransferFee(mint[i], amounts[i], epoch)]

SingleAmountLiquidity(price, is_base_0, input_amount) ==
  IF is_base_0 THEN GetLiquidityFromSingleAmount0(price, input_amount)
               ELSE GetLiquidityFromSingleAmount1(price, input_amount)

(* The first request of every command: the pool, and for a deposit what    *)
(* the input amount will buy.                                              *)
ReadForDeposit(kind, is_base_0, input_amount) ==
  /\ command = Idle
  /\ command' = [phase |-> "pool", kind |-> kind, price |-> sqrt_price,
                 liquidity |-> SingleAmountLiquidity(sqrt_price, is_base_0, input_amount),
                 all |-> FALSE]
  /\ UNCHANGED <<vars, epoch, mint, personal>>

(* DecreaseLiquidity needs the position at once, for its liquidity when    *)
(* none is given.                                                          *)
ReadForDecrease(amount) ==
  /\ command = Idle
  /\ personal # NoPosition
  /\ command' = [phase |-> "pool", kind |-> "decrease", price |-> sqrt_price,
                 liquidity |-> amount, all |-> amount = personal]
  /\ UNCHANGED <<vars, epoch, mint, personal>>

(* The request for the mints and the epoch completes the limits: the most  *)
(* a deposit may take, with its transfer fee, or the least a withdrawal    *)
(* may bring, without it; a fee above that panics.                         *)
Quoted(limit) == [phase |-> "quoted", kind |-> command.kind, price |-> command.price,
                  liquidity |-> command.liquidity, all |-> command.all,
                  epoch |-> epoch, limit |-> limit]

QuoteDeposit ==
  LET amounts == DeltaAmounts(command.price, command.liquidity, TRUE)
      slipped == [i \in Tokens |-> AmountWithSlippage(amounts[i], TRUE)]
      fee     == GetPoolMintsInverseFee(slipped)
  IN  Quoted([i \in Tokens |-> slipped[i] + fee[i]])

QuoteDecrease ==
  LET amounts == DeltaAmounts(command.price, command.liquidity, FALSE)
      slipped == [i \in Tokens |-> AmountWithSlippage(amounts[i], FALSE)]
      fee     == GetPoolMintsTransferFee(slipped)
  IN  IF \A i \in Tokens : fee[i] <= slipped[i]
      THEN Quoted([i \in Tokens |-> slipped[i] - fee[i]])
      ELSE [Quoted(fee) EXCEPT !.phase = "panicked"]

ReadMints ==
  /\ command.phase = "pool"
  /\ command' = IF command.kind = "decrease" THEN QuoteDecrease ELSE QuoteDeposit
  /\ UNCHANGED <<vars, epoch, mint, personal>>

(* What a transaction asks the program for.                                *)
OpenPositionInstr(liq, amount_max) ==
  [name |-> "open_position_v2", liquidity |-> liq, amount_max |-> amount_max]
IncreaseLiquidityInstr(liq, amount_max) ==
  [name |-> "increase_liquidity_v2", liquidity |-> liq, amount_max |-> amount_max]
DecreaseLiquidityInstr(liq, amount_min) ==
  [name |-> "decrease_liquidity_v2", liquidity |-> liq, amount_min |-> amount_min]
ClosePersonalPositionInstr == [name |-> "close_position"]

Sent(kind, txn) ==
  /\ command.phase = "quoted" /\ command.kind = kind
  /\ command' = [phase |-> "sent", price |-> command.price, epoch |-> command.epoch,
                 liquidity |-> command.liquidity, txn |-> txn]
  /\ UNCHANGED <<vars, epoch, mint, personal>>

(* OpenPosition refuses when the owner has a position on the range, the    *)
(* other commands when there is none.  A withdrawal of all there was when  *)
(* the client asked closes the position with the same transaction.         *)
SendOpenPosition ==
  /\ personal = NoPosition
  /\ Sent("open", <<OpenPositionInstr(command.liquidity, command.limit)>>)
SendIncreaseLiquidity ==
  /\ personal # NoPosition
  /\ Sent("increase", <<IncreaseLiquidityInstr(command.liquidity, command.limit)>>)
SendDecreaseLiquidity ==
  Sent("decrease",
       <<DecreaseLiquidityInstr(command.liquidity, command.limit)>>
         \o (IF command.all THEN <<ClosePersonalPositionInstr>> ELSE <<>>))

-----------------------------------------------------------------------------
(* The chain *)

(* open_position_v2 and increase_liquidity_v2 take no more than the limit, *)
(* the fee at the current epoch included, and not nothing.                 *)
DepositAccepted(liq, amount_max) ==
  LET amounts == DeltaAmounts(sqrt_price, liq, TRUE)
  IN  /\ \E i \in Tokens : amounts[i] > 0
      /\ \A i \in Tokens :
           amounts[i] + InverseFee(GetEpochFee(mint[i], epoch), amounts[i]) <= amount_max[i]

(* decrease_liquidity_v2 gives no less, its transfer fee taken off.        *)
DecreaseAccepted(liq, amount_min) ==
  LET amounts == DeltaAmounts(sqrt_price, liq, FALSE)
  IN  liq > 0 => \A i \in Tokens :
        amounts[i] - CalculateFee(GetEpochFee(mint[i], epoch), amounts[i]) >= amount_min[i]

Accepted(instr) ==
  IF instr.name = "decrease_liquidity_v2" THEN DecreaseAccepted(instr.liquidity, instr.amount_min)
                                          ELSE DepositAccepted(instr.liquidity, instr.amount_max)

(* The transaction lands, all of it.                                       *)
Landing(name) == command.phase = "sent" /\ command.txn[1].name = name

(* An empty position takes no tokens.                                      *)
OpenPositionLands ==
  /\ Landing("open_position_v2")
  /\ IF command.liquidity = 0 THEN UNCHANGED vars
     ELSE Accepted(command.txn[1]) /\ Deposit(command.liquidity)
  /\ personal' = command.liquidity
  /\ command' = Idle
  /\ UNCHANGED <<epoch, mint>>
IncreaseLiquidityLands ==
  /\ Landing("increase_liquidity_v2")
  /\ Accepted(command.txn[1])
  /\ Deposit(command.liquidity)
  /\ personal' = personal + command.liquidity
  /\ command' = Idle
  /\ UNCHANGED <<epoch, mint>>
DecreaseLiquidityLands ==
  /\ Landing("decrease_liquidity_v2")
  /\ Accepted(command.txn[1])
  /\ Withdraw(command.liquidity)
  /\ personal' = IF Len(command.txn) = 2 THEN NoPosition ELSE personal - command.liquidity
  /\ command' = Idle
  /\ UNCHANGED <<epoch, mint>>

(* Refused, lost, or given up.                                             *)
Fails ==
  /\ command.phase \in {"pool", "quoted", "sent", "panicked"}
  /\ command' = Idle
  /\ UNCHANGED <<vars, epoch, mint, personal>>

NextEpoch ==
  /\ epoch < MaxEpoch
  /\ epoch' = epoch + 1
  /\ UNCHANGED <<vars, mint, personal, command>>

(* Other people, who cannot touch the owner's liquidity.                   *)
OthersDeposit(amount) == Deposit(amount) /\ UNCHANGED clientVars
OthersWithdraw(amount) ==
  /\ amount <= liquidity - (IF personal = NoPosition THEN 0 ELSE personal)
  /\ Withdraw(amount)
  /\ UNCHANGED clientVars
OthersSwap(target, remaining, is_base_input, zero_for_one) ==
  SwapStep(target, remaining, is_base_input, zero_for_one) /\ UNCHANGED clientVars

-----------------------------------------------------------------------------
ClientInit ==
  /\ Init
  /\ epoch = 0
  /\ mint \in [Tokens -> TransferFeeConfigs]
  /\ personal = NoPosition
  /\ command = Idle

ClientNext ==
  \/ \E kind \in {"open", "increase"}, is_base_0 \in BOOLEAN, input_amount \in Amounts :
       ReadForDeposit(kind, is_base_0, input_amount)
  \/ \E amount \in 0..MaxLiquidity :
       (personal # NoPosition /\ amount <= personal) /\ ReadForDecrease(amount)
  \/ ReadMints
  \/ SendOpenPosition
  \/ SendIncreaseLiquidity
  \/ SendDecreaseLiquidity
  \/ OpenPositionLands
  \/ IncreaseLiquidityLands
  \/ DecreaseLiquidityLands
  \/ Fails
  \/ NextEpoch
  \/ \E amount \in 1..(MaxLiquidity - liquidity) : OthersDeposit(amount)
  \/ \E amount \in 1..liquidity : OthersWithdraw(amount)
  \/ \E target \in Prices, remaining \in Amounts, is_base_input, zero_for_one \in BOOLEAN :
       OthersSwap(target, remaining, is_base_input, zero_for_one)

ClientSpec == ClientInit /\ [][ClientNext]_<<vars, clientVars>>

-----------------------------------------------------------------------------
(* Properties *)

(* A command fails on its limits only for what happened since it asked:    *)
(* while price and epoch are those that it saw, a transaction that moves   *)
(* any liquidity is accepted, and no quote panics.  What the mints keep of *)
(* the transfer is part of the limits for that.                            *)
QuoteIsAccepted ==
  command.phase \in {"sent", "panicked"} /\ command.liquidity > 0
    /\ command.price = sqrt_price /\ command.epoch = epoch
  => command.phase = "sent" /\ Accepted(command.txn[1])
=================================================================================
