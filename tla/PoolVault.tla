------------------------------- MODULE PoolVault -------------------------------
(***************************************************************************)
(* The two token vaults of a pool and everyone who has a claim on them:    *)
(* the liquidity providers (what stands behind their liquidity, and fees   *)
(* they have not collected), the protocol and the fund.  The instructions  *)
(* move tokens, which a Token-2022 mint may tax, between users and the     *)
(* vaults; the pool's status byte, set by the admin and by the program     *)
(* itself, says which of them are allowed.                                 *)
(*                                                                         *)
(* How large an amount is does not matter here, only that it agrees with   *)
(* what other modules promise: liquidity never asks for more than the      *)
(* reserve behind it (SwapMath!Solvent).                                   *)
(***************************************************************************)
EXTENDS TransferFees

CONSTANTS
  Token,                       \* the two tokens of the pool
  FEE_RATE_DENOMINATOR_VALUE,  \* of the protocol's and the fund's rate
  TransferFeeConfigs,          \* the transfer fees a mint may charge
  Statuses,                    \* the status bytes that the admin sets
  MaxVault,                    \* the bounds of the model: on a vault, and on
  MaxFee                       \* the trade fee of a step

PoolStatusBits ==
  {"OpenPositionOrIncreaseLiquidity", "DecreaseLiquidity", "CollectFee",
   "CollectReward", "Swap"}

ASSUME VaultAssumption ==
  /\ FEE_RATE_DENOMINATOR_VALUE \in Nat \ {0}
  /\ TransferFeeConfigs \subseteq
       [transfer_fee_basis_points : 0..ONE_IN_BASIS_POINTS, maximum_fee : Nat]
  /\ Statuses \subseteq SUBSET PoolStatusBits
  /\ MaxVault \in Nat /\ MaxFee \in Nat

VARIABLES
  vault,         \* the amount of each vault account
  reserve,       \* what the vault holds for the pool's liquidity
  unclaimed,     \* PoolState.total_fees_token - total_fees_claimed_token
  protocol_fees, \* PoolState.protocol_fees_token
  fund_fees,     \* PoolState.fund_fees_token
  status,        \* PoolState.status: the bits that are set, which disable
  amm_config,    \* AmmConfig's protocol_fee_rate and fund_fee_rate
  transfer_fee   \* each mint's TransferFeeConfig

claimVars == <<reserve, unclaimed, protocol_fees, fund_fees>>
vars == <<vault, claimVars, status, amm_config, transfer_fee>>

Amounts == [Token -> 0..MaxVault]
Rates == 0..FEE_RATE_DENOMINATOR_VALUE
(* The rates that create_amm_config lets through.                          *)
AmmConfigs == {config \in [protocol_fee_rate : Rates, fund_fee_rate : Rates] :
                 config.protocol_fee_rate + config.fund_fee_rate <= FEE_RATE_DENOMINATOR_VALUE}
Plus(f, g) == [tk \in Token |-> f[tk] + g[tk]]
Minus(f, g) == [tk \in Token |-> f[tk] - g[tk]]
Only(tk, amount) == [t \in Token |-> IF t = tk THEN amount ELSE 0]
AtMost(f, g) == \A tk \in Token : f[tk] <= g[tk]

(* The bound of the model on what comes in.                                *)
VaultBound == \A tk \in Token : vault'[tk] <= MaxVault

-----------------------------------------------------------------------------
(* Transfer fees *)

TransferFee(tk, pre_fee_amount) == CalculateFee(transfer_fee[tk], pre_fee_amount)

(* What to add to an amount so that it arrives.                            *)
TransferInverseFee_OfAmount(tk, post_fee_amount) ==
  CalculateFee(transfer_fee[tk], post_fee_amount)
TransferInverseFee(tk, post_fee_amount) == InverseFee(transfer_fee[tk], post_fee_amount)

(* What arrives when a user sends an amount, and what a user must send.    *)
Received(tk, amount) == amount - TransferFee(tk, amount)
Gross(tk, amount) == amount + TransferInverseFee(tk, amount)
PlainTokens == \A tk \in Token : transfer_fee[tk] = NoFee

-----------------------------------------------------------------------------
(* Liquidity *)

Deposited_AnyStatus(paid, amounts) ==
  /\ \E tk \in Token : amounts[tk] > 0
  /\ vault' = [tk \in Token |-> vault[tk] + Received(tk, paid[tk])]
  /\ VaultBound
  /\ reserve' = Plus(reserve, amounts)
  /\ UNCHANGED <<unclaimed, protocol_fees, fund_fees, status, amm_config, transfer_fee>>
Deposited(paid, amounts) ==
  /\ "OpenPositionOrIncreaseLiquidity" \notin status
  /\ \E tk \in Token : amounts[tk] > 0
  /\ vault' = [tk \in Token |-> vault[tk] + Received(tk, paid[tk])]
  /\ VaultBound
  /\ reserve' = Plus(reserve, amounts)
  /\ UNCHANGED <<unclaimed, protocol_fees, fund_fees, status, amm_config, transfer_fee>>

(* open_position and increase_liquidity, with token accounts only or with  *)
(* mints that may charge a fee.                                            *)
DepositV1(amounts) == PlainTokens /\ Deposited(amounts, amounts)
DepositV2(amounts) ==
  Deposited([tk \in Token |-> Gross(tk, amounts[tk])], amounts)

(* check_unclaimed_fees_and_vault: fees are no longer collected once they  *)
(* are all that a vault holds.                                             *)
StatusChecked_AtOnce(unclaimed_fees, vaults) ==
  IF \E tk \in Token : unclaimed_fees[tk] >= vaults[tk]
  THEN status \cup {"CollectFee"} ELSE status
StatusChecked(unclaimed_fees, vaults) ==
  IF \E tk \in Token : unclaimed_fees[tk] >= vaults[tk] /\ vaults[tk] # 0
  THEN status \cup {"CollectFee"} ELSE status

MayDecrease == ~({"DecreaseLiquidity", "CollectFee", "CollectReward"} \subseteq status)

(* decrease_liquidity pays out of the reserve while its own bit is clear,  *)
(* and the position's fees, if the pool has that many, while CollectFee is.*)
DecreaseLiquidity(amounts, fees) ==
  /\ MayDecrease
  /\ "DecreaseLiquidity" \in status => \A tk \in Token : amounts[tk] = 0
  /\ "CollectFee" \in status => \A tk \in Token : fees[tk] = 0
  /\ AtMost(amounts, reserve)
  /\ AtMost(fees, unclaimed)
  /\ AtMost(Plus(amounts, fees), vault)
  /\ vault' = Minus(vault, Plus(amounts, fees))
  /\ reserve' = Minus(reserve, amounts)
  /\ unclaimed' = Minus(unclaimed, fees)
  /\ status' = StatusChecked(unclaimed', vault')
  /\ UNCHANGED <<protocol_fees, fund_fees, amm_config, transfer_fee>>

-----------------------------------------------------------------------------
(* Swaps *)

Share(fee, rate) == (fee * rate) \div FEE_RATE_DENOMINATOR_VALUE

(* swap_internal splits the fee of each step: the protocol's share and the *)
(* fund's are reckoned from the whole, and the providers keep the rest,    *)
(* which the checked_sub keeps from going below zero.                      *)
SplitFee_RestOfRest(fee) ==
  LET protocol == Share(fee, amm_config.protocol_fee_rate)
      fund == Share(fee, amm_config.fund_fee_rate)
  IN  [protocol |-> protocol, fund |-> fund, providers |-> fee - protocol]
SplitFee(fee) ==
  LET protocol == Share(fee, amm_config.protocol_fee_rate)
      fund == Share(fee, amm_config.fund_fee_rate)
  IN  [protocol |-> protocol, fund |-> fund, providers |-> fee - protocol - fund]

(* The tail of swap_internal, after a walk of two steps that took their    *)
(* fees: amount_in went into the reserve, amount_out came from it.         *)
SwapInternal(in, out, amount_in, amount_out, fee_1, fee_2) ==
  LET s1 == SplitFee(fee_1)
      s2 == SplitFee(fee_2)
  IN  /\ "Swap" \notin status
      /\ s1.providers >= 0 /\ s2.providers >= 0
      /\ amount_out <= reserve[out]
      /\ reserve' = Minus(Plus(reserve, Only(in, amount_in)), Only(out, amount_out))
      /\ unclaimed' = Plus(unclaimed, Only(in, s1.providers + s2.providers))
      /\ protocol_fees' = Plus(protocol_fees, Only(in, s1.protocol + s2.protocol))
      /\ fund_fees' = Plus(fund_fees, Only(in, s1.fund + s2.fund))

(* The transfers of a swap.  A vault that would be left empty freezes the  *)
(* pool.                                                                   *)
StatusSettled(out, amount_out) ==
  IF vault[out] <= amount_out THEN PoolStatusBits ELSE status

Settle(in, out, paid, amount_out) ==
  /\ amount_out <= vault[out]
  /\ vault' = Minus(Plus(vault, Only(in, Received(in, paid))), Only(out, amount_out))
  /\ VaultBound
  /\ status' = StatusSettled(out, amount_out)

(* exact_internal and exact_internal_v2: the trader's side of the swap     *)
(* includes the trade fees, and neither side may be nothing.               *)
SwapV1(in, out, amount_in, amount_out, fee_1, fee_2) ==
  LET amount == amount_in + fee_1 + fee_2
  IN  /\ PlainTokens
      /\ in # out
      /\ SwapInternal(in, out, amount_in, amount_out, fee_1, fee_2)
      /\ amount # 0 /\ amount_out # 0
      /\ Settle(in, out, amount, amount_out)
      /\ UNCHANGED <<amm_config, transfer_fee>>
SwapV2(in, out, amount_in, amount_out, fee_1, fee_2) ==
  LET amount == amount_in + fee_1 + fee_2
  IN  /\ in # out
      /\ SwapInternal(in, out, amount_in, amount_out, fee_1, fee_2)
      /\ amount # 0 /\ amount_out # 0
      /\ Settle(in, out, Gross(in, amount), amount_out)
      /\ UNCHANGED <<amm_config, transfer_fee>>

-----------------------------------------------------------------------------
(* Admin instructions *)

(* What is asked for, as far as it is owed.                                *)
Granted_InFull(requested, owed) == requested
Granted(requested, owed) == [tk \in Token |-> Lesser(requested[tk], owed[tk])]

CollectProtocolFee(requested) ==
  LET amounts == Granted(requested, protocol_fees)
  IN  /\ AtMost(amounts, vault)
      /\ protocol_fees' = Minus(protocol_fees, amounts)
      /\ vault' = Minus(vault, amounts)
      /\ status' = StatusChecked(unclaimed, vault')
      /\ UNCHANGED <<reserve, unclaimed, fund_fees, amm_config, transfer_fee>>

CollectFundFee(requested) ==
  LET amounts == Granted(requested, fund_fees)
  IN  /\ AtMost(amounts, vault)
      /\ fund_fees' = Minus(fund_fees, amounts)
      /\ vault' = Minus(vault, amounts)
      /\ status' = StatusChecked(unclaimed, vault')
      /\ UNCHANGED <<reserve, unclaimed, protocol_fees, amm_config, transfer_fee>>

UpdatePoolStatus(new) ==
  /\ status' = new
  /\ UNCHANGED <<vault, claimVars, amm_config, transfer_fee>>

(* update_amm_config keeps the sum of the two rates within the whole.      *)
UpdateProtocolFeeRate(rate) ==
  /\ rate + amm_config.fund_fee_rate <= FEE_RATE_DENOMINATOR_VALUE
  /\ amm_config' = [amm_config EXCEPT !.protocol_fee_rate = rate]
  /\ UNCHANGED <<vault, claimVars, status, transfer_fee>>
UpdateFundFeeRate(rate) ==
  /\ rate + amm_config.protocol_fee_rate <= FEE_RATE_DENOMINATOR_VALUE
  /\ amm_config' = [amm_config EXCEPT !.fund_fee_rate = rate]
  /\ UNCHANGED <<vault, claimVars, status, transfer_fee>>

(* Anyone may send tokens to a vault account, outside the program.         *)
Donate(tk) ==
  /\ vault' = [vault EXCEPT ![tk] = @ + 1]
  /\ VaultBound
  /\ UNCHANGED <<claimVars, status, amm_config, transfer_fee>>

-----------------------------------------------------------------------------
Init ==
  /\ vault = [tk \in Token |-> 0]
  /\ reserve = [tk \in Token |-> 0]
  /\ unclaimed = [tk \in Token |-> 0]
  /\ protocol_fees = [tk \in Token |-> 0]
  /\ fund_fees = [tk \in Token |-> 0]
  /\ status = {}
  /\ amm_config \in AmmConfigs
  /\ transfer_fee \in [Token -> TransferFeeConfigs]

Next ==
  \/ \E amounts \in Amounts : DepositV1(amounts)
  \/ \E amounts \in Amounts : DepositV2(amounts)
  \/ \E amounts, fees \in Amounts : DecreaseLiquidity(amounts, fees)
  \/ \E in, out \in Token, amount_in, amount_out \in 0..MaxVault, fee_1, fee_2 \in 0..MaxFee :
       SwapV1(in, out, amount_in, amount_out, fee_1, fee_2)
  \/ \E in, out \in Token, amount_in, amount_out \in 0..MaxVault, fee_1, fee_2 \in 0..MaxFee :
       SwapV2(in, out, amount_in, amount_out, fee_1, fee_2)
  \/ \E requested \in Amounts : CollectProtocolFee(requested)
  \/ \E requested \in Amounts : CollectFundFee(requested)
  \/ \E new \in Statuses : UpdatePoolStatus(new)
  \/ \E rate \in Rates : UpdateProtocolFeeRate(rate)
  \/ \E rate \in Rates : UpdateFundFeeRate(rate)
  \/ \E tk \in Token : Donate(tk)

Spec == Init /\ [][Next]_vars

-----------------------------------------------------------------------------
(* Properties *)

VaultTypeOK ==
  /\ vault \in Amounts
  /\ reserve \in [Token -> Nat]
  /\ unclaimed \in [Token -> Nat]
  /\ protocol_fees \in [Token -> Nat]
  /\ fund_fees \in [Token -> Nat]
  /\ status \subseteq PoolStatusBits
  /\ amm_config \in AmmConfigs
  /\ transfer_fee \in [Token -> TransferFeeConfigs]

(* What a vault holds above all claims on it.                              *)
Surplus(tk) == vault[tk] - reserve[tk] - unclaimed[tk] - protocol_fees[tk] - fund_fees[tk]

(* Each vault holds enough for everyone at once: the liquidity, the fees   *)
(* of the positions, the protocol and the fund, whoever comes first, and   *)
(* whatever the mint kept of every deposit and swap.                       *)
VaultCovers == \A tk \in Token : Surplus(tk) >= 0

(* No instruction takes a token that is not booked to someone, or books    *)
(* one that did not arrive: only gifts add to the surplus, nothing lowers  *)
(* it.                                                                     *)
SurplusOnlyGiven ==
  [][\A tk \in Token : Surplus(tk)' # Surplus(tk) => Donate(tk)]_vars

(* Except for the admin, bits of the status are set by two safety checks   *)
(* only, and never in a pool that owes: all bits when a swap took the last *)
(* of a vault and nobody has a claim on that token any more, and           *)
(* CollectFee when all that a vault holds are the providers' fees.         *)
DisabledOnlyWhenBare ==
  [][~(\E new \in Statuses : UpdatePoolStatus(new)) /\ status' # status =>
       \E tk \in Token :
         /\ reserve'[tk] = 0 /\ protocol_fees'[tk] = 0 /\ fund_fees'[tk] = 0
         /\ vault'[tk] = unclaimed'[tk]
         /\ \/ status' = PoolStatusBits /\ vault'[tk] = 0
            \/ status' = status \cup {"CollectFee"} /\ vault'[tk] > 0]_vars

(* While all bits are set nothing of the providers moves, in whatever      *)
(* order the other instructions come, and no tokens come in but gifts.     *)
FreezeHolds ==
  [][status = PoolStatusBits =>
       /\ UNCHANGED <<reserve, unclaimed>>
       /\ \A tk \in Token : vault'[tk] > vault[tk] => Donate(tk)]_vars
=============================================================================
