-------------------------------- MODULE Rewards --------------------------------
(***************************************************************************)
(* Rewards: tokens that a pool's owner deposits in a vault and that the    *)
(* pool emits, so much a second from open_time to end_time, to the         *)
(* liquidity in range.  On top of the liquidity book: the clock, the       *)
(* reward's parameters and totals, its growth in the pool, outside ticks   *)
(* and inside ranges, and what positions are owed.                         *)
(*                                                                         *)
(* A pool has REWARD_NUM rewards that do not meet; the module follows one. *)
(* reward_state, which only clients read, and the choice of mint and slot  *)
(* are left out.                                                           *)
(***************************************************************************)
EXTENDS TickLiquidity, TransferFees

CONSTANTS
  Q64,             \* the unit of growth and of emissions
  Word,            \* the number of values of a growth
  Schedules,       \* the <<open_time, end_time, emissions_per_second>> that are asked for
  MIN_REWARD_PERIOD, MAX_REWARD_PERIOD, INCREASE_EMISSIONES_PERIOD,
  RewardMintFees,  \* the transfer fees that the reward's mint may charge at some time
  MaxTime,         \* the bounds of the model: where its clock stops,
  MaxVault,        \* what a change of the schedule may fill the vault to,
  MaxShortfall,    \* by how much its deposits may fall short in all,
  Offers,          \* the ranges that positions are opened with,
  Amounts,         \* the liquidity that one instruction adds or takes,
  Limits           \* and the price limits that swaps give

ASSUME RewardAssumption ==
  /\ Q64 \in Nat \ {0} /\ Word \in Nat \ {0}
  /\ Schedules \subseteq (0..MaxTime) \X (0..MaxTime) \X (Nat \ {0})
  /\ MIN_REWARD_PERIOD \in Nat \ {0} /\ MAX_REWARD_PERIOD \in Nat
  /\ INCREASE_EMISSIONES_PERIOD \in Nat
  /\ RewardMintFees \subseteq [transfer_fee_basis_points : 0..ONE_IN_BASIS_POINTS,
                              maximum_fee : Nat]
  /\ MaxTime \in Nat /\ MaxVault \in Nat /\ MaxShortfall \in Nat
  /\ Offers \subseteq Ranges /\ Amounts \subseteq 0..MaxLiquidity /\ Limits \subseteq Prices

VARIABLES
  now,               \* Clock::unix_timestamp
  reward,            \* PoolState.reward_infos[i]; unclaimed stands for the
                     \* difference reward_total_emissioned - reward_claimed
  vault,             \* the balance of reward_info.token_vault
  reward_outside,    \* TickState.reward_growths_outside_x64[i], by tick
  protocol_growth,   \* ProtocolPositionState.reward_growth_inside[i], by range
  growth_last,       \* PositionRewardInfo.growth_inside_last_x64, by NFT
  reward_owed,       \* PositionRewardInfo.reward_amount_owed, by NFT
  walk,              \* of the swap under way: the updated reward, the ticks written
  shortfall          \* history: by how much deposits fell short of what they pay for

positionRewardVars == <<protocol_growth, growth_last, reward_owed>>
rewardVars == <<now, reward, vault, reward_outside, positionRewardVars, walk, shortfall>>

Inexact(a) == IF a % Q64 = 0 THEN 0 ELSE 1

-----------------------------------------------------------------------------
(* Emission *)

Latest(r) == IF now < r.end_time THEN now ELSE r.end_time
Emitting(r) == r.initialized /\ r.open_time < now

(* Without liquidity time passes and nothing is emitted.  The growth is    *)
(* rounded down, what has been emitted is rounded up.                      *)
Updated_KeepsTime(r) ==
  LET emission == (Latest(r) - r.last_update_time) * r.emissions_per_second
  IN  IF ~Emitting(r) \/ liquidity = 0 THEN r
      ELSE [r EXCEPT !.last_update_time = Latest(r),
                     !.growth_global    = @ + emission \div liquidity,
                     !.unclaimed        = @ + CeilDiv(emission, Q64)]
Updated(r) ==
  LET emission == (Latest(r) - r.last_update_time) * r.emissions_per_second
  IN  IF ~Emitting(r) THEN r
      ELSE IF liquidity = 0 THEN [r EXCEPT !.last_update_time = Latest(r)]
      ELSE [r EXCEPT !.last_update_time = Latest(r),
                     !.growth_global    = @ + emission \div liquidity,
                     !.unclaimed        = @ + CeilDiv(emission, Q64)]

(* update_reward_infos requires that time has not run backwards; if it     *)
(* had, whatever touches the pool would fail.  Its checked_add panics when *)
(* the growth leaves its word.                                             *)
TimeOk(r) == Emitting(r) /\ liquidity # 0 => r.last_update_time <= Latest(r)
UpdateOk(r) == TimeOk(r) /\ Updated(r).growth_global < Word

(* The instruction that anyone may send.                                   *)
UpdateRewardInfos ==
  /\ swap.phase = "idle"
  /\ UpdateOk(reward)
  /\ reward' = Updated(reward)
  /\ UNCHANGED <<vars, now, vault, reward_outside, positionRewardVars, walk, shortfall>>

(* What reaches the vault of an amount that is sent to it.                 *)
Arrives(mint_fee, amount) == amount - CalculateFee(mint_fee, amount)

PeriodOk(period) == MIN_REWARD_PERIOD <= period /\ period <= MAX_REWARD_PERIOD

(* initialize_reward, with the deposit of all that is to be emitted and of *)
(* the fee that the mint will keep of it.                                  *)
InitializeReward(mint_fee, open_time, end_time, emissions) ==
  LET reward_amount == CeilDiv((end_time - open_time) * emissions, Q64)
  IN  /\ swap.phase = "idle"
      /\ ~reward.initialized
      /\ now <= open_time /\ open_time < end_time
      /\ PeriodOk(end_time - open_time)
      /\ reward' = [reward EXCEPT
           !.initialized = TRUE, !.open_time = open_time, !.end_time = end_time,
           !.last_update_time = open_time, !.emissions_per_second = emissions]
      /\ vault' = vault + Arrives(mint_fee, reward_amount + InverseFee(mint_fee, reward_amount))
      /\ UNCHANGED <<vars, now, reward_outside, positionRewardVars, walk, shortfall>>

(* The transfer at the end of set_reward_params sends no more than the     *)
(* amount itself: what the mint keeps of it the vault does without, and    *)
(* without the fractions that rounding took off.                           *)
Deposit(mint_fee, reward_amount, fractions) ==
  /\ vault' = vault + Arrives(mint_fee, reward_amount)
  /\ shortfall' = shortfall + CalculateFee(mint_fee, reward_amount) + fractions

(* set_reward_params.  A new cycle is set up when the last one is over     *)
(* (and, for the admin, when it has not begun): all of it is paid for.     *)
StartCycle(mint_fee, r, admin, open_time, end_time, emissions) ==
  /\ r.last_update_time = r.end_time \/ (admin /\ now < r.open_time)
  /\ ~admin => PeriodOk(end_time - open_time)
  /\ reward' = [r EXCEPT !.open_time = open_time, !.last_update_time = open_time,
                         !.end_time = end_time, !.emissions_per_second = emissions]
  /\ Deposit(mint_fee, CeilDiv((end_time - open_time) * emissions, Q64), 0)

(* Otherwise the running cycle is changed: a higher rate is paid for until *)
(* the old end, and the extension at the new rate, both rounded down.  The *)
(* owner must extend, and may lower the rate only shortly before the end;  *)
(* the admin may do either at any time, and shorten the cycle.             *)
ExtensionOf(r, end_time) == IF end_time > r.end_time THEN end_time - r.end_time ELSE 0
ExtendCycle_ForgetsRate(mint_fee, r, admin, end_time, emissions) ==
  LET extension == ExtensionOf(r, end_time)
  IN  /\ r.last_update_time # r.end_time /\ ~(admin /\ now < r.open_time)
      /\ now <= r.end_time
      /\ ~admin => /\ PeriodOk(end_time - r.end_time)
                   /\ emissions < r.emissions_per_second =>
                        r.end_time - now < INCREASE_EMISSIONES_PERIOD
      /\ reward' = [r EXCEPT !.end_time = end_time, !.emissions_per_second = emissions]
      /\ Deposit(mint_fee, (extension * emissions) \div Q64, Inexact(extension * emissions))
ExtendCycle_RestartsClock(mint_fee, r, admin, end_time, emissions) ==
  LET extension == ExtensionOf(r, end_time)
  IN  /\ r.last_update_time # r.end_time /\ ~(admin /\ now < r.open_time)
      /\ now <= r.end_time
      /\ reward' = [r EXCEPT !.end_time = end_time, !.emissions_per_second = emissions,
                             !.last_update_time = end_time]
      /\ Deposit(mint_fee, (extension * emissions) \div Q64, Inexact(extension * emissions))
ExtendCycle(mint_fee, r, admin, end_time, emissions) ==
  LET extension == ExtensionOf(r, end_time)
      raise == IF emissions > r.emissions_per_second
               THEN emissions - r.emissions_per_second ELSE 0
  IN  /\ r.last_update_time # r.end_time /\ ~(admin /\ now < r.open_time)
      /\ now <= r.end_time
      /\ ~admin => /\ PeriodOk(end_time - r.end_time)
                   /\ emissions < r.emissions_per_second =>
                        r.end_time - now < INCREASE_EMISSIONES_PERIOD
      /\ reward' = [r EXCEPT !.end_time = end_time, !.emissions_per_second = emissions]
      /\ Deposit(mint_fee,
                 ((r.end_time - now) * raise) \div Q64 + (extension * emissions) \div Q64,
                 Inexact((r.end_time - now) * raise) + Inexact(extension * emissions))

SetRewardParams(mint_fee, admin, open_time, end_time, emissions) ==
  /\ swap.phase = "idle"
  /\ now < open_time /\ open_time < end_time
  /\ UpdateOk(reward)
  /\ reward.initialized
  /\ ~admin => reward.open_time < now
  /\ \/ StartCycle(mint_fee, Updated(reward), admin, open_time, end_time, emissions)
     \/ ExtendCycle(mint_fee, Updated(reward), admin, end_time, emissions)
  /\ vault' <= MaxVault /\ shortfall' <= MaxShortfall
  /\ UNCHANGED <<vars, now, reward_outside, positionRewardVars, walk>>

(* collect_remaining_rewards: when the cycle is over the owner takes what  *)
(* the vault holds beyond what was emitted and not claimed.  A vault that  *)
(* holds less makes the checked_sub panic.                                 *)
CollectRemainingRewards_All ==
  /\ swap.phase = "idle"
  /\ UpdateOk(reward)
  /\ reward.initialized
  /\ LET r == Updated(reward)
     IN  /\ r.last_update_time = r.end_time
         /\ reward' = r
         /\ vault' = 0
  /\ UNCHANGED <<vars, now, reward_outside, positionRewardVars, walk, shortfall>>
CollectRemainingRewards ==
  /\ swap.phase = "idle"
  /\ UpdateOk(reward)
  /\ reward.initialized
  /\ LET r == Updated(reward)
     IN  /\ r.last_update_time = r.end_time
         /\ r.unclaimed <= vault
         /\ reward' = r
         /\ vault' = r.unclaimed
  /\ UNCHANGED <<vars, now, reward_outside, positionRewardVars, walk, shortfall>>

-----------------------------------------------------------------------------
(* Positions *)

Wrapped_Not(x) == x
Wrapped(x) == x % Word

(* get_reward_growths_inside, whose checked_sub panics below zero.         *)
GrowthBelow(r, outside, lower) ==
  IF tick_current >= lower THEN outside[lower] ELSE r.growth_global - outside[lower]
GrowthAbove(r, outside, upper) ==
  IF tick_current < upper THEN outside[upper] ELSE r.growth_global - outside[upper]
GrowthInside(r, outside, lower, upper) ==
  IF ~r.initialized THEN 0
  ELSE Wrapped(r.growth_global - GrowthBelow(r, outside, lower)
                               - GrowthAbove(r, outside, upper))

(* TickState::update.                                                      *)
OutsideUpdated(r, lower, upper, delta) ==
  [t \in Ticks |->
     IF t \in {lower, upper} /\ delta # 0 /\ liquidity_gross[t] = 0 /\ t <= tick_current
     THEN r.growth_global ELSE reward_outside[t]]

(* update_position: the reward is brought up to date with the liquidity    *)
(* so far, then the ticks, then the protocol position.                     *)
ModifyReward(lower, upper, delta) ==
  LET r == Updated(reward)
      outside == OutsideUpdated(r, lower, upper, delta)
      Cleared(t) == t \in {lower, upper} /\ delta < 0 /\ Flipped(t, delta)
  IN  /\ UpdateOk(reward)
      /\ GrowthBelow(r, outside, lower) >= 0 /\ GrowthAbove(r, outside, upper) >= 0
      /\ protocol_growth' =
           [protocol_growth EXCEPT ![<<lower, upper>>] = GrowthInside(r, outside, lower, upper)]
      /\ reward_outside' = [t \in Ticks |-> IF Cleared(t) THEN 0 ELSE outside[t]]

(* PersonalPositionState::update_rewards, before the liquidity changes.    *)
Caught(n) == protocol_growth'[<<position[n].lower, position[n].upper>>]
OwedAfter_KeepsLast(n) ==
  reward_owed[n] + (Wrapped(Caught(n)) * position[n].liquidity) \div Q64
OwedAfter(n) ==
  reward_owed[n] + (Wrapped(Caught(n) - growth_last[n]) * position[n].liquidity) \div Q64

RewardOpenPosition(n, lower, upper, amount) ==
  /\ OpenPosition(n, lower, upper, amount)
  /\ IF amount = 0
     THEN UNCHANGED <<reward, reward_outside, protocol_growth>>
     ELSE ModifyReward(lower, upper, amount) /\ reward' = Updated(reward)
  /\ growth_last' = [growth_last EXCEPT ![n] = protocol_growth'[<<lower, upper>>]]
  /\ UNCHANGED <<now, vault, reward_owed, walk, shortfall>>

RewardIncreaseLiquidity(n, amount) ==
  /\ IncreaseLiquidity(n, amount)
  /\ ModifyReward(position[n].lower, position[n].upper, amount)
  /\ reward' = Updated(reward)
  /\ growth_last' = [growth_last EXCEPT ![n] = Caught(n)]
  /\ reward_owed' = [reward_owed EXCEPT ![n] = OwedAfter(n)]
  /\ UNCHANGED <<now, vault, walk, shortfall>>

(* collect_rewards: what is owed, or what the vault holds if that is less. *)
(* It must have been emitted and not been claimed before.                  *)
CollectReward(n, r, owed) ==
  LET paid == IF owed <= vault THEN owed ELSE vault
  IN  /\ owed <= r.unclaimed
      /\ reward_owed' = [reward_owed EXCEPT ![n] = owed - paid]
      /\ reward' = [r EXCEPT !.unclaimed = @ - paid]
      /\ vault' = vault - paid

(* decrease_liquidity; whether it pays rewards is up to the pool's         *)
(* CollectReward bit.                                                      *)
RewardDecreaseLiquidity(n, amount, collect) ==
  /\ DecreaseLiquidity(n, amount)
  /\ ModifyReward(position[n].lower, position[n].upper, -amount)
  /\ growth_last' = [growth_last EXCEPT ![n] = Caught(n)]
  /\ IF collect THEN CollectReward(n, Updated(reward), OwedAfter(n))
     ELSE /\ reward' = Updated(reward)
          /\ reward_owed' = [reward_owed EXCEPT ![n] = OwedAfter(n)]
          /\ UNCHANGED vault
  /\ UNCHANGED <<now, walk, shortfall>>

(* decrease_liquidity while the pool's DecreaseLiquidity bit is off: pays  *)
(* what is owed already, and updates nothing.                              *)
CollectOwedReward(n) ==
  /\ swap.phase = "idle"
  /\ position[n] # NoPosition
  /\ CollectReward(n, reward, reward_owed[n])
  /\ UNCHANGED <<vars, now, reward_outside, protocol_growth, growth_last, walk, shortfall>>

RewardClosePosition(n) ==
  /\ ClosePosition(n)
  /\ reward_owed[n] = 0
  /\ growth_last' = [growth_last EXCEPT ![n] = 0]
  /\ UNCHANGED <<now, reward, vault, reward_outside, protocol_growth, reward_owed, walk,
                 shortfall>>

-----------------------------------------------------------------------------
(* Swap *)

NoReward ==
  [initialized |-> FALSE, open_time |-> 0, end_time |-> 0, last_update_time |-> 0,
   emissions_per_second |-> 0, growth_global |-> 0, unclaimed |-> 0]
IdleWalk == [reward |-> NoReward, outside |-> [t \in Ticks |-> 0]]

(* The reward is brought up to date once, with the liquidity before the    *)
(* swap.                                                                   *)
RewardSwapBegin(zero_for_one, limit) ==
  /\ SwapBegin(zero_for_one, limit)
  /\ UpdateOk(reward)
  /\ walk' = [reward |-> Updated(reward), outside |-> reward_outside]
  /\ UNCHANGED <<now, reward, vault, reward_outside, positionRewardVars, shortfall>>

(* TickState::cross.                                                       *)
OutsideCrossed_Stale(t) == [walk.outside EXCEPT ![t] = reward.growth_global - @]
OutsideCrossed(t) ==
  IF walk.reward.initialized
  THEN [walk.outside EXCEPT ![t] = walk.reward.growth_global - @] ELSE walk.outside

RewardSwapStep(a, t, p, spent) ==
  /\ SwapStep(a, t, p, spent)
  /\ p = SqrtPrice[t] => walk.outside[t] <= walk.reward.growth_global
  /\ walk' = [walk EXCEPT !.outside = IF p = SqrtPrice[t] THEN OutsideCrossed(t) ELSE @]
  /\ UNCHANGED <<now, reward, vault, reward_outside, positionRewardVars, shortfall>>

RewardSwapEnd ==
  /\ SwapEnd
  /\ reward' = walk.reward
  /\ reward_outside' = walk.outside
  /\ walk' = IdleWalk
  /\ UNCHANGED <<now, vault, positionRewardVars, shortfall>>

RewardSwapAbort ==
  /\ SwapAbort
  /\ walk' = IdleWalk
  /\ UNCHANGED <<now, reward, vault, reward_outside, positionRewardVars, shortfall>>

-----------------------------------------------------------------------------
(* The clock.                                                              *)
PassTime ==
  /\ swap.phase = "idle"
  /\ now < MaxTime
  /\ now' = now + 1
  /\ UNCHANGED <<vars, reward, vault, reward_outside, positionRewardVars, walk, shortfall>>

RewardInit ==
  /\ Init
  /\ now = 0
  /\ reward = NoReward
  /\ vault = 0
  /\ reward_outside = [t \in Ticks |-> 0]
  /\ protocol_growth = [r \in Ranges |-> 0]
  /\ growth_last = [n \in Nft |-> 0]
  /\ reward_owed = [n \in Nft |-> 0]
  /\ walk = IdleWalk
  /\ shortfall = 0

RewardNext ==
  \/ \E n \in Nft, range \in Offers, amount \in Amounts \cap NewLiquidity :
       RewardOpenPosition(n, range[1], range[2], amount)
  \/ \E n \in Nft, amount \in Amounts \cap NewLiquidity :
       RewardIncreaseLiquidity(n, amount)
  \/ \E n \in Nft, amount \in Amounts, collect \in BOOLEAN :
       RewardDecreaseLiquidity(n, amount, collect)
  \/ \E n \in Nft : CollectOwedReward(n)
  \/ \E n \in Nft : RewardClosePosition(n)
  \/ \E zero_for_one \in BOOLEAN, limit \in Limits : RewardSwapBegin(zero_for_one, limit)
  \/ \E a \in ArrayStarts, t \in Ticks, p \in Prices, spent \in BOOLEAN :
       RewardSwapStep(a, t, p, spent)
  \/ RewardSwapEnd
  \/ RewardSwapAbort
  \/ UpdateRewardInfos
  \/ \E mint_fee \in RewardMintFees, s \in Schedules :
       InitializeReward(mint_fee, s[1], s[2], s[3])
  \/ \E mint_fee \in RewardMintFees, admin \in BOOLEAN, s \in Schedules :
       SetRewardParams(mint_fee, admin, s[1], s[2], s[3])
  \/ CollectRemainingRewards
  \/ PassTime

RewardSpec == RewardInit /\ [][RewardNext]_<<vars, rewardVars>>

-----------------------------------------------------------------------------
(* Properties *)

RewardTypeOK ==
  /\ now \in 0..MaxTime
  /\ reward \in [initialized : BOOLEAN, open_time : 0..MaxTime, end_time : 0..MaxTime,
                 last_update_time : 0..MaxTime, emissions_per_second : Nat,
                 growth_global : 0..(Word - 1), unclaimed : Nat]
  /\ vault \in Nat
  /\ reward_outside \in [Ticks -> 0..(Word - 1)]
  /\ protocol_growth \in [Ranges -> 0..(Word - 1)]
  /\ growth_last \in [Nft -> 0..(Word - 1)]
  /\ reward_owed \in [Nft -> Nat]

(* The reward as the instruction under way sees it.                        *)
Walking == swap.phase # "idle"
Tick == IF Walking THEN swap.tick ELSE tick_current
Reward == IF Walking THEN walk.reward ELSE reward
Outside == IF Walking THEN walk.outside ELSE reward_outside

Inside(lower, upper) ==
  LET below == IF Tick >= lower THEN Outside[lower] ELSE Reward.growth_global - Outside[lower]
      above == IF Tick < upper THEN Outside[upper] ELSE Reward.growth_global - Outside[upper]
  IN  Wrapped(Reward.growth_global - below - above)

(* What position n could collect, if it caught up with the pool.           *)
Claim(n) ==
  reward_owed[n]
    + (Wrapped(Inside(position[n].lower, position[n].upper) - growth_last[n])
         * position[n].liquidity) \div Q64

(* Nobody earns from a reward while out of range, and everybody in range   *)
(* earns at the pool's rate: the growth inside a range moves with the      *)
(* pool's exactly when the tick is in the range, whatever is crossed,      *)
(* opened, closed or changed in the reward's schedule.                     *)
RewardGrowthMoves ==
  [][\A r \in Ranges :
       ~RewardSwapAbort /\ protocol_liquidity[r] > 0 /\ protocol_liquidity'[r] > 0 =>
         LET grown == Reward'.growth_global - Reward.growth_global
             moved == IF r[1] <= Tick /\ Tick < r[2] THEN grown ELSE 0
         IN  Inside(r[1], r[2])' = Wrapped(Inside(r[1], r[2]) + moved)]_<<vars, rewardVars>>

(* All that positions could collect was emitted and has not been claimed:  *)
(* check_unclaimed_reward never refuses an owner, although growth and      *)
(* emission are rounded update by update.                                  *)
RewardsCovered == MapThenSumSet(Claim, Open) <= Reward.unclaimed

(* The vault holds what positions could collect and what will be emitted   *)
(* to the end of the cycle: no second is emitted twice, none before the    *)
(* open time or after the end, and a change of the schedule is paid for.   *)
(* What initialize_reward deposits arrives in full, whatever fee the mint  *)
(* charges.  Only deposits of set_reward_params fall short, by a unit for  *)
(* each amount rounded down and by what the mint keeps of the transfer.    *)
RewardsFunded ==
  LET rest == ((reward.end_time - reward.last_update_time) * reward.emissions_per_second)
                 \div Q64
  IN  ~Walking => MapThenSumSet(Claim, Open) + rest <= vault + shortfall

(* When the owner takes back what was not emitted, the vault still holds   *)
(* everything that positions can collect.                                  *)
RemainderIsSpare ==
  [][CollectRemainingRewards => MapThenSumSet(Claim, Open)' <= vault']_<<vars, rewardVars>>

(* The schedule never lets time run backwards, which would make every      *)
(* instruction that touches the pool fail, withdrawals included.           *)
UpdateNeverFails == TimeOk(reward)

(* Whoever changes the active liquidity, a deposit, a withdrawal or a swap, *)
(* first accounts for the time that passed with the liquidity before: no   *)
(* liquidity earns for a time in which it was not there, and a stretch     *)
(* without any earns nobody anything.                                      *)
LiquidityChangesAccounted ==
  [][liquidity' # liquidity /\ Emitting(reward') =>
       reward'.last_update_time = Latest(reward')]_<<vars, rewardVars>>

(* "Collect remaining reward token for reward founder": once the cycle is  *)
(* over and accounted for, collect_remaining_rewards works.                *)
RemainderCollectable ==
  reward.initialized /\ reward.last_update_time = reward.end_time => reward.unclaimed <= vault
================================================================================
