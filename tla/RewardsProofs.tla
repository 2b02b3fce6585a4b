----------------------------- MODULE RewardsProofs -----------------------------
(***************************************************************************)
(* What is proved of rewards: however the schedule of a reward is set up,  *)
(* extended, raised or cut short, its clock never runs backwards; nobody   *)
(* changes the active liquidity without accounting for the time before;    *)
(* the growth inside a range moves with the pool's exactly while the tick  *)
(* is in the range; what counts as emitted covers what the positions can   *)
(* collect; and the vault pays for what they can collect and for the rest  *)
(* of the cycle, up to what set_reward_params deposits less than it should *)
(* because it rounds down and does not add the fee of the mint.            *)
(***************************************************************************)
EXTENDS Rewards, TickLiquidityProofs

-----------------------------------------------------------------------------
(* The book underneath *)

LEMMA RewardNextIsNext == [RewardNext]_<<vars, rewardVars>> => [Next]_vars
<1> SUFFICES ASSUME RewardNext PROVE Next \/ UNCHANGED vars  OBVIOUS
<1>1. ASSUME NEW n \in Nft, NEW range \in Offers, NEW amount \in Amounts \cap NewLiquidity,
             RewardOpenPosition(n, range[1], range[2], amount)
      PROVE  Next
  <2>1. range[1] \in Ticks /\ range[2] \in Ticks  BY RewardAssumption DEF Ranges
  <2> QED  BY <1>1, <2>1 DEF RewardOpenPosition, Next
<1>2. ASSUME NEW n \in Nft, NEW amount \in Amounts \cap NewLiquidity,
             RewardIncreaseLiquidity(n, amount)
      PROVE  Next
  BY <1>2 DEF RewardIncreaseLiquidity, Next
<1>3. ASSUME NEW n \in Nft, NEW amount \in Amounts, NEW collect \in BOOLEAN,
             RewardDecreaseLiquidity(n, amount, collect)
      PROVE  Next
  <2>1. amount \in 0..MaxLiquidity  BY RewardAssumption
  <2> QED  BY <1>3, <2>1 DEF RewardDecreaseLiquidity, Next
<1>4. ASSUME NEW n \in Nft, CollectOwedReward(n) PROVE UNCHANGED vars
  BY <1>4 DEF CollectOwedReward
<1>5. ASSUME NEW n \in Nft, RewardClosePosition(n) PROVE Next
  BY <1>5 DEF RewardClosePosition, Next
<1>6. ASSUME NEW zero_for_one \in BOOLEAN, NEW limit \in Limits,
             RewardSwapBegin(zero_for_one, limit)
      PROVE  Next
  <2>1. limit \in Prices  BY RewardAssumption
  <2> QED  BY <1>6, <2>1 DEF RewardSwapBegin, Next
<1>7. ASSUME NEW a \in ArrayStarts, NEW t \in Ticks, NEW p \in Prices,
             NEW spent \in BOOLEAN, RewardSwapStep(a, t, p, spent)
      PROVE  Next
  BY <1>7 DEF RewardSwapStep, Next
<1>8. ASSUME RewardSwapEnd \/ RewardSwapAbort PROVE Next
  BY <1>8 DEF RewardSwapEnd, RewardSwapAbort, Next
<1>9. ASSUME NEW fee \in RewardMintFees, NEW s \in Schedules, NEW admin \in BOOLEAN,
             \/ InitializeReward(fee, s[1], s[2], s[3])
             \/ SetRewardParams(fee, admin, s[1], s[2], s[3])
      PROVE  UNCHANGED vars
  BY <1>9 DEF InitializeReward, SetRewardParams
<1>10. ASSUME UpdateRewardInfos \/ CollectRemainingRewards \/ PassTime PROVE UNCHANGED vars
  BY <1>10 DEF UpdateRewardInfos, CollectRemainingRewards, PassTime
<1> QED  BY <1>1, <1>2, <1>3, <1>4, <1>5, <1>6, <1>7, <1>8, <1>9, <1>10 DEF RewardNext

(* The pool with a reward is a liquidity book: everything proved of the    *)
(* book holds of it too.                                                   *)
THEOREM RewardsKeepBook == RewardSpec => Spec
<1>1. RewardInit => Init  BY DEF RewardInit
<1> QED  BY <1>1, RewardNextIsNext, PTL DEF RewardSpec, Spec

LEMMA RewardBook == RewardSpec => []BookInv
BY RewardsKeepBook, BookInvariant, PTL

-----------------------------------------------------------------------------
(* The invariant *)

RewardRecord ==
  [initialized : BOOLEAN, open_time : 0..MaxTime, end_time : 0..MaxTime,
   last_update_time : 0..MaxTime, emissions_per_second : Nat,
   growth_global : 0..(Word - 1), unclaimed : Nat]

RewardWords ==
  /\ now \in 0..MaxTime /\ reward \in RewardRecord /\ vault \in Nat
  /\ reward_outside \in [Ticks -> Nat]
  /\ protocol_growth \in [Ranges -> 0..(Word - 1)]
  /\ growth_last \in [Nft -> 0..(Word - 1)]
  /\ reward_owed \in [Nft -> Nat]
  /\ shortfall \in Nat
  /\ walk \in [reward : RewardRecord, outside : [Ticks -> Nat]]

(* A reward is accounted for up to some time in the past, or only from its *)
(* open time on, and never up to a time before that.                       *)
ScheduleOk(r) ==
  /\ r.last_update_time <= r.end_time
  /\ r.last_update_time <= now \/ r.last_update_time <= r.open_time
  /\ IF r.initialized THEN r.open_time <= r.last_update_time ELSE r.emissions_per_second = 0

(* Accounted for up to now.                                                *)
Fresh(r) == Emitting(r) => r.last_update_time = Latest(r)

(* No tick sees more growth outside than there is in all, and there is     *)
(* none before there is a reward: that crossing skips a reward without a   *)
(* mint makes no difference.                                               *)
GrowthOk(r, outside) ==
  /\ ~r.initialized => r.growth_global = 0
  /\ \A t \in Ticks : outside[t] <= r.growth_global

RewardInv ==
  /\ RewardWords
  /\ ScheduleOk(reward) /\ GrowthOk(reward, reward_outside)
  /\ Walking => /\ ScheduleOk(walk.reward) /\ GrowthOk(walk.reward, walk.outside)
                /\ Fresh(walk.reward)

LEMMA RewardConstants ==
  /\ Q64 \in Nat \ {0} /\ Word \in Nat \ {0} /\ MaxTime \in Nat
  /\ 0 \in 0..(Word - 1) /\ 0 \in 0..MaxTime
  /\ \A s \in Schedules : s[1] \in 0..MaxTime /\ s[2] \in 0..MaxTime /\ s[3] \in Nat
BY RewardAssumption

LEMMA WrappedType == \A x \in Int : Wrapped(x) \in 0..(Word - 1)
BY RewardConstants, ModBounds DEF Wrapped

-----------------------------------------------------------------------------
(* The fee of the reward's mint *)

FeeConfigs == [transfer_fee_basis_points : 0..ONE_IN_BASIS_POINTS, maximum_fee : Nat]

LEMMA MintFeesAreConfigs == RewardMintFees \subseteq FeeConfigs
BY RewardAssumption DEF FeeConfigs

LEMMA CeilDivIs ==
  ASSUME NEW x \in Nat, NEW d \in Nat \ {0}
  PROVE  /\ CeilDiv(x, d) \in Nat /\ x <= CeilDiv(x, d) * d /\ CeilDiv(x, d) * d < x + d
<1> DEFINE n == x + d - 1
           q == CeilDiv(x, d)
<1>1. n \in Nat  OBVIOUS
<1>2. q = n \div d  BY DEF CeilDiv
<1>3. q \in Nat /\ q * d <= n /\ n < q * d + d  BY <1>1, <1>2, DivBounds, DivNat
<1>4. q * d \in Nat  BY <1>3, TimesNat
<1> HIDE DEF q
<1> QED  BY <1>1, <1>3, <1>4 DEF q

LEMMA CeilDivAbove ==
  ASSUME NEW x \in Nat
  PROVE  CeilDiv(x, Q64) \in Nat /\ x <= CeilDiv(x, Q64) * Q64
BY CeilDivIs, RewardConstants

(* A quotient rounded up is no more than what covers the dividend.         *)
LEMMA CeilDivBelow ==
  ASSUME NEW x \in Nat, NEW d \in Nat \ {0}, NEW k \in Nat, x <= k * d
  PROVE  CeilDiv(x, d) <= k
<1> DEFINE q == CeilDiv(x, d)
<1>1. q \in Nat /\ q * d < x + d  BY CeilDivIs
<1> HIDE DEF q
<1>2. q * d \in Nat /\ k * d \in Nat /\ (k + 1) * d = k * d + d  BY <1>1, TimesNat
<1>3. q * d < (k + 1) * d  BY <1>1, <1>2
<1>4. q < k + 1  BY <1>1, <1>3, MulCancel
<1> QED  BY <1>1, <1>4 DEF q

(* The mint keeps no more of a transfer than its maximum, and no more than *)
(* the whole.                                                              *)
LEMMA FeeIs ==
  ASSUME NEW fee \in FeeConfigs, NEW x \in Nat
  PROVE  /\ CalculateFee(fee, x) \in Nat /\ CalculateFee(fee, x) <= x
         /\ CalculateFee(fee, x) <= fee.maximum_fee
         /\ x * fee.transfer_fee_basis_points \in Nat
         /\ CalculateFee(fee, x) <=
              CeilDiv(x * fee.transfer_fee_basis_points, ONE_IN_BASIS_POINTS)
<1> DEFINE bps == fee.transfer_fee_basis_points
           one == ONE_IN_BASIS_POINTS
           q == CeilDiv(x * bps, one)
           most == fee.maximum_fee
<1>1. bps \in Nat /\ one \in Nat \ {0} /\ most \in Nat /\ one - bps \in Nat
  BY BasisPointsAssumption DEF FeeConfigs
<1>2. CalculateFee(fee, x) = Lesser(q, most)  BY DEF CalculateFee
<1> HIDE DEF bps, one, most
<1>3. x * bps \in Nat /\ x * bps <= x * one
  <2>1. x * one = x * bps + x * (one - bps)  BY <1>1
  <2>2. x * bps \in Nat /\ x * (one - bps) \in Nat  BY <1>1, TimesNat
  <2> QED  BY <2>1, <2>2
<1>4. q \in Nat /\ q <= x  BY <1>1, <1>3, CeilDivIs, CeilDivBelow
<1> HIDE DEF q
<1>5. Lesser(q, most) \in Nat /\ Lesser(q, most) <= q /\ Lesser(q, most) <= most
  BY <1>1, <1>4 DEF Lesser
<1> QED  BY <1>2, <1>3, <1>4, <1>5 DEF bps, one, most, q

(* It keeps no less of more.                                               *)
LEMMA FeeMonotone ==
  ASSUME NEW fee \in FeeConfigs, NEW x \in Nat, NEW y \in Nat, x <= y
  PROVE  CalculateFee(fee, x) <= CalculateFee(fee, y)
<1> DEFINE bps == fee.transfer_fee_basis_points
           one == ONE_IN_BASIS_POINTS
           p == CeilDiv(x * bps, one)
           q == CeilDiv(y * bps, one)
           most == fee.maximum_fee
<1>1. bps \in Nat /\ one \in Nat \ {0} /\ most \in Nat
  BY BasisPointsAssumption DEF FeeConfigs
<1>2. CalculateFee(fee, x) = Lesser(p, most) /\ CalculateFee(fee, y) = Lesser(q, most)
  BY DEF CalculateFee
<1> HIDE DEF bps, one, most
<1>3. x * bps \in Nat /\ y * bps \in Nat /\ x * bps <= y * bps
  <2>1. y - x \in Nat /\ y * bps = x * bps + (y - x) * bps  BY <1>1
  <2>2. x * bps \in Nat /\ (y - x) * bps \in Nat  BY <1>1, <2>1, TimesNat
  <2> QED  BY <2>1, <2>2
<1>4. p \in Nat /\ q \in Nat /\ y * bps <= q * one  BY <1>1, <1>3, CeilDivIs
<1>5. p <= q
  <2> HIDE DEF q
  <2>1. q * one \in Nat  BY <1>1, <1>4, TimesNat
  <2>2. x * bps <= q * one  BY <1>3, <1>4, <2>1
  <2> QED  BY <1>1, <1>3, <1>4, <2>2, CeilDivBelow
<1> HIDE DEF p, q
<1> QED  BY <1>1, <1>2, <1>4, <1>5 DEF Lesser

(* The doubly rounded amount to send leaves room for its own fee.          *)
LEMMA PreFeeLeavesFee ==
  ASSUME NEW fee \in FeeConfigs, fee.transfer_fee_basis_points # ONE_IN_BASIS_POINTS,
         NEW x \in Nat
  PROVE  LET pre == CalculatePreFeeAmount(fee, x)
         IN  pre \in Nat /\ x + CalculateFee(fee, pre) <= pre
<1> DEFINE bps == fee.transfer_fee_basis_points
           one == ONE_IN_BASIS_POINTS
           most == fee.maximum_fee
           r == one - bps
           raw == CeilDiv(x * one, r)
           pre == CalculatePreFeeAmount(fee, x)
<1> SUFFICES pre \in Nat /\ x + CalculateFee(fee, pre) <= pre  OBVIOUS
<1>1. bps \in Nat /\ one \in Nat \ {0} /\ most \in Nat /\ r \in Nat \ {0} /\ one = bps + r
  BY BasisPointsAssumption DEF FeeConfigs
<1>2. pre = IF bps = 0 \/ x = 0 THEN x ELSE IF raw - x >= most THEN x + most ELSE raw
  BY DEF CalculatePreFeeAmount
<1>3. x * one \in Nat  BY <1>1, TimesNat
<1>4. raw \in Nat /\ x * one <= raw * r
  <2> HIDE DEF r, one
  <2> QED  BY <1>1, <1>3, CeilDivIs
<1>5. CASE bps = 0 \/ x = 0
  <2>1. pre = x  BY <1>2, <1>5
  <2>2. CalculateFee(fee, x) \in Nat /\ CalculateFee(fee, x) <= CeilDiv(x * bps, one)
    BY FeeIs
  <2>3. x * bps = 0  BY <1>1, <1>5
  <2>4. CeilDiv(0, one) <= 0
    <3> HIDE DEF one
    <3>1. 0 <= 0 * one  BY <1>1
    <3> QED  BY <1>1, <3>1, CeilDivBelow
  <2>5. CeilDiv(0, one) \in Nat
    <3> HIDE DEF one
    <3> QED  BY <1>1, CeilDivIs
  <2> HIDE DEF pre, one, bps
  <2> QED  BY <2>1, <2>2, <2>3, <2>4, <2>5
<1>6. CASE ~(bps = 0 \/ x = 0) /\ raw - x >= most
  <2>1. pre = x + most /\ pre \in Nat  BY <1>1, <1>2, <1>6
  <2>2. CalculateFee(fee, pre) \in Nat /\ CalculateFee(fee, pre) <= most  BY <2>1, FeeIs
  <2> HIDE DEF pre, most
  <2> QED  BY <1>1, <2>1, <2>2
<1>7. CASE ~(bps = 0 \/ x = 0) /\ ~(raw - x >= most)
  <2>1. pre = raw  BY <1>2, <1>7
  <2>2. /\ CalculateFee(fee, raw) \in Nat /\ CalculateFee(fee, raw) <= CeilDiv(raw * bps, one)
        /\ raw * bps \in Nat
    BY <1>4, FeeIs
  <2> HIDE DEF raw, r, one, bps, pre
  <2>3. raw * one = raw * bps + raw * r /\ raw * r \in Nat /\ raw * one \in Nat
    BY <1>1, <1>4, TimesNat
  <2>4. x * one <= raw * one  BY <1>3, <1>4, <2>2, <2>3
  <2>5. x <= raw
    <3> SUFFICES ASSUME raw < x PROVE FALSE  BY <1>4
    <3> DEFINE e == x - raw
    <3>1. e \in Nat \ {0} /\ x = raw + e  BY <1>4
    <3> HIDE DEF e
    <3>2. (raw + e) * one = raw * one + e * one  BY <1>1, <1>4, <3>1
    <3>3. e * one \in Nat /\ e * one > 0  BY <1>1, <3>1
    <3> QED  BY <2>3, <2>4, <3>1, <3>2, <3>3
  <2>6. raw - x \in Nat /\ (raw - x) * one = raw * one - x * one  BY <1>1, <1>4, <2>5
  <2>7. raw * bps <= (raw - x) * one  BY <1>3, <1>4, <2>2, <2>3, <2>6
  <2>8. CeilDiv(raw * bps, one) <= raw - x  BY <1>1, <2>2, <2>6, <2>7, CeilDivBelow
  <2>9. CeilDiv(raw * bps, one) \in Nat  BY <1>1, <2>2, CeilDivIs
  <2> QED  BY <1>4, <2>1, <2>2, <2>6, <2>8, <2>9
<1> QED  BY <1>5, <1>6, <1>7

(* An amount sent with its inverse fee on top arrives in full.             *)
LEMMA InverseFeeArrives ==
  ASSUME NEW fee \in FeeConfigs, NEW x \in Nat
  PROVE  LET arrived == Arrives(fee, x + InverseFee(fee, x))
         IN  arrived \in Nat /\ x <= arrived
<1> DEFINE f == InverseFee(fee, x)
           pre == CalculatePreFeeAmount(fee, x)
<1>1. f \in Nat /\ CalculateFee(fee, x + f) <= f
  <2>1. CASE fee.transfer_fee_basis_points = ONE_IN_BASIS_POINTS
    <3>1. f = fee.maximum_fee /\ f \in Nat  BY <2>1 DEF InverseFee, FeeConfigs
    <3> HIDE DEF f
    <3>2. x + f \in Nat  BY <3>1
    <3> QED  BY <3>1, <3>2, FeeIs
  <2>2. CASE fee.transfer_fee_basis_points # ONE_IN_BASIS_POINTS
    <3>1. f = CalculateFee(fee, pre)  BY <2>2 DEF InverseFee
    <3>2. pre \in Nat /\ x + CalculateFee(fee, pre) <= pre  BY <2>2, PreFeeLeavesFee
    <3> HIDE DEF f, pre
    <3>3. f \in Nat /\ x + f \in Nat /\ x + f <= pre  BY <3>1, <3>2, FeeIs
    <3> QED  BY <3>1, <3>2, <3>3, FeeMonotone
  <2> QED  BY <2>1, <2>2
<1> HIDE DEF f
<1>2. x + f \in Nat /\ CalculateFee(fee, x + f) \in Nat  BY <1>1, FeeIs
<1> QED  BY <1>1, <1>2 DEF Arrives, f

(* What a deposit of set_reward_params fails to bring, the shortfall       *)
(* counts.                                                                 *)
LEMMA DepositIs ==
  ASSUME RewardInv, NEW fee \in RewardMintFees, NEW amount \in Nat, NEW fractions \in Nat,
         Deposit(fee, amount, fractions)
  PROVE  /\ vault' \in Nat /\ shortfall' \in Nat
         /\ vault' + shortfall' = vault + shortfall + (amount + fractions)
<1>1. vault \in Nat /\ shortfall \in Nat  BY DEF RewardInv, RewardWords
<1>2. CalculateFee(fee, amount) \in Nat /\ CalculateFee(fee, amount) <= amount
  BY MintFeesAreConfigs, FeeIs
<1>3. /\ vault' = vault + (amount - CalculateFee(fee, amount))
      /\ shortfall' = shortfall + CalculateFee(fee, amount) + fractions
  BY DEF Deposit, Arrives
<1> QED  BY <1>1, <1>2, <1>3

-----------------------------------------------------------------------------
(* Types *)

LEMMA NoRewardType ==
  NoReward \in RewardRecord /\ IdleWalk \in [reward : RewardRecord, outside : [Ticks -> Nat]]
<1>1. NoReward \in RewardRecord  BY RewardConstants DEF NoReward, RewardRecord
<1> QED  BY <1>1 DEF IdleWalk

(* What is emitted to this moment.                                         *)
LEMMA EmissionType ==
  ASSUME RewardInv, Emitting(reward)
  PROVE  /\ Latest(reward) \in 0..MaxTime
         /\ reward.last_update_time <= Latest(reward) /\ reward.open_time <= Latest(reward)
         /\ (Latest(reward) - reward.last_update_time) * reward.emissions_per_second \in Nat
<1> DEFINE last == Latest(reward)
<1>1. reward \in RewardRecord /\ now \in 0..MaxTime /\ ScheduleOk(reward)
  BY DEF RewardInv, RewardWords
<1>2. /\ reward.end_time \in 0..MaxTime /\ reward.open_time \in 0..MaxTime
      /\ reward.last_update_time \in 0..MaxTime /\ reward.emissions_per_second \in Nat
  BY <1>1 DEF RewardRecord
<1>3. /\ last \in 0..MaxTime
      /\ reward.last_update_time <= last /\ reward.open_time <= last
  BY <1>1, <1>2 DEF ScheduleOk, Emitting, Latest
<1> HIDE DEF last
<1>4. last - reward.last_update_time \in Nat  BY <1>2, <1>3, RewardConstants
<1>5. (last - reward.last_update_time) * reward.emissions_per_second \in Nat
  BY <1>2, <1>4, TimesNat
<1> QED  BY <1>3, <1>5 DEF last

(* Bringing a reward up to date.                                           *)
LEMMA UpdatedKeeps ==
  ASSUME TypeInv, RewardInv, UpdateOk(reward)
  PROVE  LET r == Updated(reward)
         IN  /\ r \in RewardRecord /\ ScheduleOk(r) /\ Fresh(r)
             /\ GrowthOk(r, reward_outside)
             /\ r.initialized = reward.initialized
             /\ r.open_time = reward.open_time /\ r.end_time = reward.end_time
             /\ r.emissions_per_second = reward.emissions_per_second
<1> DEFINE last == Latest(reward)
           emission == (last - reward.last_update_time) * reward.emissions_per_second
<1>1. /\ reward \in RewardRecord /\ now \in 0..MaxTime /\ ScheduleOk(reward)
      /\ GrowthOk(reward, reward_outside) /\ reward_outside \in [Ticks -> Nat]
  BY DEF RewardInv, RewardWords
<1>2. /\ reward.end_time \in 0..MaxTime /\ reward.open_time \in 0..MaxTime
      /\ reward.last_update_time \in 0..MaxTime /\ reward.emissions_per_second \in Nat
      /\ reward.growth_global \in 0..(Word - 1) /\ reward.unclaimed \in Nat
  BY <1>1 DEF RewardRecord
<1>3. last \in 0..MaxTime /\ last <= now /\ last <= reward.end_time
  BY <1>1, <1>2 DEF Latest
<1>4. CASE ~Emitting(reward)  BY <1>1, <1>4 DEF Updated, Fresh
<1>5. ASSUME Emitting(reward)
      PROVE  /\ reward.last_update_time <= last /\ reward.open_time <= last
             /\ emission \in Nat
  BY <1>5, EmissionType
<1>6. ASSUME Emitting(reward), NEW growth \in Nat, NEW unclaimed \in Nat,
             reward.growth_global <= growth,
             Updated(reward) = [reward EXCEPT !.last_update_time = last,
                                              !.growth_global = growth,
                                              !.unclaimed = unclaimed]
      PROVE  LET r == Updated(reward)
             IN  /\ r \in RewardRecord /\ ScheduleOk(r) /\ Fresh(r)
                 /\ GrowthOk(r, reward_outside)
                 /\ r.initialized = reward.initialized
                 /\ r.open_time = reward.open_time /\ r.end_time = reward.end_time
                 /\ r.emissions_per_second = reward.emissions_per_second
  <2> DEFINE r == Updated(reward)
  <2>1. /\ r.last_update_time = last /\ r.growth_global = growth
        /\ r.initialized = reward.initialized
        /\ r.open_time = reward.open_time /\ r.end_time = reward.end_time
        /\ r.emissions_per_second = reward.emissions_per_second
    <3> HIDE DEF last
    <3> QED  BY <1>1, <1>6 DEF RewardRecord
  <2>2. growth \in 0..(Word - 1)
    <3>1. growth < Word  BY <2>1 DEF UpdateOk
    <3> QED  BY <3>1, RewardConstants
  <2>3. r \in RewardRecord
    <3> HIDE DEF last
    <3> QED  BY <1>1, <1>3, <1>6, <2>2 DEF RewardRecord
  <2>4. last = Latest(r)  BY <2>1 DEF Latest
  <2>5. r.initialized  BY <1>6, <2>1 DEF Emitting
  <2>6. reward.open_time <= last  BY <1>5, <1>6
  <2> HIDE DEF r, last
  <2>7. ScheduleOk(r) /\ Fresh(r)
    BY <1>3, <2>1, <2>4, <2>5, <2>6 DEF ScheduleOk, Fresh
  <2>8. GrowthOk(r, reward_outside)
    <3>1. \A t \in Ticks : reward_outside[t] <= reward.growth_global  BY <1>1 DEF GrowthOk
    <3>2. \A t \in Ticks : reward_outside[t] \in Nat /\ reward_outside[t] <= growth
      BY <1>1, <1>2, <1>6, <3>1, RewardConstants
    <3> QED  BY <2>1, <2>5, <3>2 DEF GrowthOk
  <2> QED  BY <2>1, <2>3, <2>7, <2>8 DEF r
<1>7. CASE Emitting(reward) /\ liquidity = 0
  <2>1. Updated(reward) = [reward EXCEPT !.last_update_time = last]
    BY <1>7 DEF Updated
  <2>2. Updated(reward) = [reward EXCEPT !.last_update_time = last,
                                         !.growth_global = reward.growth_global,
                                         !.unclaimed = reward.unclaimed]
    <3> HIDE DEF last
    <3> QED  BY <1>1, <2>1 DEF RewardRecord
  <2>3. reward.growth_global \in Nat /\ reward.growth_global <= reward.growth_global
    BY <1>2, RewardConstants
  <2> HIDE DEF last, emission
  <2> QED  BY <1>2, <1>6, <1>7, <2>2, <2>3
<1>8. CASE Emitting(reward) /\ liquidity # 0
  <2> DEFINE growth == reward.growth_global + emission \div liquidity
             unclaimed == reward.unclaimed + CeilDiv(emission, Q64)
  <2>1. liquidity \in Nat \ {0}  BY <1>8, LiquidityAssumption DEF TypeInv, TypeOK
  <2>2. growth \in Nat /\ unclaimed \in Nat /\ reward.growth_global <= growth
    <3>1. emission \in Nat /\ reward.growth_global \in Nat  BY <1>2, <1>5, <1>8, RewardConstants
    <3> HIDE DEF emission
    <3>2. emission \div liquidity \in Nat /\ CeilDiv(emission, Q64) \in Nat
      BY <2>1, <3>1, DivNat, CeilDivAbove
    <3> QED  BY <1>2, <3>1, <3>2
  <2>3. Updated(reward) = [reward EXCEPT !.last_update_time = last,
                                         !.growth_global = growth,
                                         !.unclaimed = unclaimed]
    BY <1>8 DEF Updated
  <2> HIDE DEF growth, unclaimed
  <2> QED  BY <1>6, <1>8, <2>2, <2>3
<1> QED  BY <1>4, <1>7, <1>8

(* The clock of a reward does not run backwards.                           *)
LEMMA ScheduleUpdates ==
  ASSUME RewardInv
  PROVE  TimeOk(reward)
<1>1. reward \in RewardRecord /\ now \in 0..MaxTime /\ ScheduleOk(reward)
  BY DEF RewardInv, RewardWords
<1> QED  BY <1>1 DEF RewardRecord, ScheduleOk, TimeOk, Emitting, Latest

LEMMA InitReward == RewardInit => RewardInv
<1> SUFFICES ASSUME RewardInit PROVE RewardInv  OBVIOUS
<1>1. RewardWords  BY NoRewardType, RewardConstants DEF RewardInit, RewardWords
<1>2. ScheduleOk(reward) /\ GrowthOk(reward, reward_outside)
  BY DEF RewardInit, NoReward, ScheduleOk, GrowthOk
<1>3. ~Walking  BY DEF RewardInit, Init, IdleSwap, Walking
<1> QED  BY <1>1, <1>2, <1>3 DEF RewardInv

(* Updating the ticks and the protocol position of a range.                *)
LEMMA ModifyRewardKeeps ==
  ASSUME TypeInv, RewardInv, NEW lower \in Ticks, NEW upper \in Ticks, lower < upper,
         NEW delta \in Int, ModifyReward(lower, upper, delta)
  PROVE  /\ protocol_growth' \in [Ranges -> 0..(Word - 1)]
         /\ reward_outside' \in [Ticks -> Nat]
         /\ GrowthOk(Updated(reward), reward_outside')
<1> DEFINE r == Updated(reward)
           outside == OutsideUpdated(r, lower, upper, delta)
           inside == GrowthInside(r, outside, lower, upper)
<1>0. UpdateOk(reward)  BY DEF ModifyReward
<1>1. /\ r \in RewardRecord /\ r.growth_global \in Nat /\ GrowthOk(r, reward_outside)
      /\ reward_outside \in [Ticks -> Nat] /\ protocol_growth \in [Ranges -> 0..(Word - 1)]
  <2>1. r \in RewardRecord /\ GrowthOk(r, reward_outside)  BY <1>0, UpdatedKeeps
  <2> HIDE DEF r
  <2> QED  BY <2>1, RewardConstants DEF RewardInv, RewardWords, RewardRecord
<1>2. /\ protocol_growth' = [protocol_growth EXCEPT ![<<lower, upper>>] = inside]
      /\ \A t \in Ticks : reward_outside'[t] = 0 \/ reward_outside'[t] = outside[t]
      /\ reward_outside' \in [Ticks -> {reward_outside'[t] : t \in Ticks}]
  BY DEF ModifyReward
<1> HIDE DEF r
<1>3. /\ outside \in [Ticks -> Nat]
      /\ \A t \in Ticks : outside[t] = r.growth_global \/ outside[t] = reward_outside[t]
  BY <1>1 DEF OutsideUpdated
<1> HIDE DEF outside
<1>4. inside \in 0..(Word - 1)
  <2> DEFINE below == GrowthBelow(r, outside, lower)
             above == GrowthAbove(r, outside, upper)
  <2>1. below \in Int /\ above \in Int  BY <1>1, <1>3 DEF GrowthBelow, GrowthAbove
  <2> HIDE DEF below, above
  <2>2. r.growth_global - below - above \in Int  BY <1>1, <2>1
  <2> QED  BY <2>2, WrappedType, RewardConstants DEF GrowthInside, below, above
<1> HIDE DEF inside
<1>5. protocol_growth' \in [Ranges -> 0..(Word - 1)]  BY <1>1, <1>2, <1>4
<1>6. reward_outside' \in [Ticks -> Nat]  BY <1>2, <1>3
<1>7. GrowthOk(r, reward_outside')  BY <1>1, <1>2, <1>3 DEF GrowthOk
<1> QED  BY <1>5, <1>6, <1>7 DEF r

LEMMA OwedType ==
  ASSUME TypeInv, RewardInv, NEW n \in Nft, position[n] # NoPosition,
         Caught(n) \in 0..(Word - 1)
  PROVE  OwedAfter(n) \in Nat
<1>1. growth_last[n] \in 0..(Word - 1) /\ reward_owed[n] \in Nat
  BY DEF RewardInv, RewardWords
<1>2. Caught(n) - growth_last[n] \in Int  BY <1>1, RewardConstants
<1>3. Wrapped(Caught(n) - growth_last[n]) \in Nat  BY <1>2, WrappedType, RewardConstants
<1>4. position[n].liquidity \in Nat  BY HoldsOpen
<1> DEFINE x == Wrapped(Caught(n) - growth_last[n]) * position[n].liquidity
<1>5. x \in Nat  BY <1>3, <1>4, TimesNat
<1>6. OwedAfter(n) = reward_owed[n] + x \div Q64  BY DEF OwedAfter
<1> HIDE DEF x
<1> QED  BY <1>1, <1>5, <1>6, DivNat, RewardConstants

(* What an instruction other than a swap has to show.                      *)
LEMMA InstructionKeeps ==
  ASSUME RewardInv, swap.phase = "idle", swap' = swap, walk' = walk,
         now' \in 0..MaxTime, now <= now', shortfall' \in Nat,
         reward' \in RewardRecord, ScheduleOk(reward'), GrowthOk(reward', reward_outside'),
         vault' \in Nat, reward_outside' \in [Ticks -> Nat],
         protocol_growth' \in [Ranges -> 0..(Word - 1)],
         growth_last' \in [Nft -> 0..(Word - 1)], reward_owed' \in [Nft -> Nat]
  PROVE  RewardInv'
<1>1. RewardWords'  BY DEF RewardInv, RewardWords
<1>2. now \in 0..MaxTime /\ reward'.last_update_time \in Int /\ reward'.open_time \in Int
  BY DEF RewardInv, RewardWords, RewardRecord
<1>3. ScheduleOk(reward)'  BY <1>2 DEF ScheduleOk
<1>4. GrowthOk(reward, reward_outside)'  BY DEF GrowthOk
<1>5. ~Walking'  BY DEF Walking
<1> QED  BY <1>1, <1>3, <1>4, <1>5 DEF RewardInv

(* A reward whose schedule is as it was.                                   *)
SameSchedule(r, s) ==
  /\ r \in RewardRecord /\ r.initialized = s.initialized
  /\ r.last_update_time = s.last_update_time
  /\ r.open_time = s.open_time /\ r.end_time = s.end_time
  /\ r.emissions_per_second = s.emissions_per_second
  /\ r.growth_global = s.growth_global

(* collect_rewards takes the same from what is owed, what is unclaimed and *)
(* the vault.                                                              *)
LEMMA CollectPays ==
  ASSUME NEW n \in Nft, NEW r \in RewardRecord, NEW owed \in Nat, vault \in Nat,
         reward_owed \in [Nft -> Nat], CollectReward(n, r, owed)
  PROVE  \E paid, left \in Nat :
           /\ left + paid = owed
           /\ reward_owed' = [reward_owed EXCEPT ![n] = left]
           /\ SameSchedule(reward', r)
           /\ reward'.unclaimed = r.unclaimed - paid
           /\ vault' = vault - paid
           /\ reward_owed' \in [Nft -> Nat] /\ vault' \in Nat
<1> DEFINE paid == IF owed <= vault THEN owed ELSE vault
<1>1. /\ reward_owed' = [reward_owed EXCEPT ![n] = owed - paid]
      /\ reward' = [r EXCEPT !.unclaimed = r.unclaimed - paid]
      /\ vault' = vault - paid
  BY DEF CollectReward, RewardRecord
<1>2. paid \in Nat /\ paid <= owed /\ paid <= vault /\ owed <= r.unclaimed
  BY DEF CollectReward
<1> HIDE DEF paid
<1>3. /\ r.unclaimed - paid \in Nat /\ owed - paid \in Nat /\ vault - paid \in Nat
      /\ (owed - paid) + paid = owed
  BY <1>2 DEF RewardRecord
<1>4. SameSchedule(reward', r) /\ reward'.unclaimed = r.unclaimed - paid
  BY <1>1, <1>3 DEF SameSchedule, RewardRecord
<1> QED  BY <1>1, <1>2, <1>3, <1>4

LEMMA SameKeeps ==
  ASSUME NEW r, NEW s, SameSchedule(r, s), NEW outside
  PROVE  /\ ScheduleOk(s) => ScheduleOk(r)
         /\ GrowthOk(s, outside) => GrowthOk(r, outside)
         /\ Fresh(s) => Fresh(r)
BY DEF SameSchedule, ScheduleOk, GrowthOk, Fresh, Emitting, Latest

(* An instruction that adds or removes liquidity, and may pay rewards.     *)
LEMMA ModifyKeeps ==
  ASSUME TypeInv, RewardInv, swap.phase = "idle", swap' = swap, UNCHANGED <<now, walk, shortfall>>,
         NEW lower \in Ticks, NEW upper \in Ticks, lower < upper,
         NEW delta \in Int, ModifyReward(lower, upper, delta),
         SameSchedule(reward', Updated(reward)),
         vault' \in Nat, growth_last' \in [Nft -> 0..(Word - 1)], reward_owed' \in [Nft -> Nat]
  PROVE  RewardInv'
<1> DEFINE r == Updated(reward)
<1>1. /\ protocol_growth' \in [Ranges -> 0..(Word - 1)] /\ reward_outside' \in [Ticks -> Nat]
      /\ GrowthOk(r, reward_outside')
  BY ModifyRewardKeeps
<1>2. ScheduleOk(r)  BY UpdatedKeeps DEF ModifyReward
<1>3. now \in 0..MaxTime /\ now <= now /\ shortfall \in Nat
  BY RewardConstants DEF RewardInv, RewardWords
<1>4. reward' \in RewardRecord  BY DEF SameSchedule
<1> HIDE DEF r
<1>5. ScheduleOk(reward') /\ GrowthOk(reward', reward_outside')
  BY <1>1, <1>2, SameKeeps DEF r
<1> QED  BY <1>1, <1>3, <1>4, <1>5, InstructionKeeps

LEMMA UpdatedSame ==
  ASSUME TypeInv, RewardInv, UpdateOk(reward), reward' = Updated(reward)
  PROVE  SameSchedule(reward', Updated(reward))
BY UpdatedKeeps DEF SameSchedule

(* What the deposits of a new cycle and of a changed one come to.          *)
LEMMA DepositType ==
  ASSUME NEW open_time \in 0..MaxTime, NEW end_time \in 0..MaxTime, open_time < end_time,
         NEW emissions \in Nat
  PROVE  /\ (end_time - open_time) * emissions \in Nat
         /\ CeilDiv((end_time - open_time) * emissions, Q64) \in Nat
<1>1. end_time - open_time \in Nat  BY RewardConstants
<1>2. (end_time - open_time) * emissions \in Nat  BY <1>1, TimesNat
<1> QED  BY <1>2, CeilDivAbove

Raise(r, emissions) ==
  IF emissions > r.emissions_per_second THEN emissions - r.emissions_per_second ELSE 0

LEMMA ExtensionType ==
  ASSUME NEW r \in RewardRecord, NEW end_time \in 0..MaxTime, NEW emissions \in Nat,
         now \in 0..MaxTime, now <= r.end_time
  PROVE  /\ Raise(r, emissions) \in Nat /\ ExtensionOf(r, end_time) \in Nat
         /\ (r.end_time - now) * Raise(r, emissions) \in Nat
         /\ ExtensionOf(r, end_time) * emissions \in Nat
<1>1. r.end_time \in 0..MaxTime /\ r.emissions_per_second \in Nat  BY DEF RewardRecord
<1>2. Raise(r, emissions) \in Nat /\ ExtensionOf(r, end_time) \in Nat
  BY <1>1, RewardConstants DEF Raise, ExtensionOf
<1>3. r.end_time - now \in Nat  BY <1>1, RewardConstants
<1> QED  BY <1>2, <1>3, TimesNat

(* Setting up a reward and changing its schedule.                          *)
LEMMA ScheduleKeeps ==
  ASSUME TypeInv, RewardInv, NEW fee \in RewardMintFees, NEW admin \in BOOLEAN,
         NEW s \in Schedules, SetRewardParams(fee, admin, s[1], s[2], s[3])
  PROVE  RewardInv'
<1> DEFINE r == Updated(reward)
           open_time == s[1]
           end_time == s[2]
           emissions == s[3]
<1>0. open_time \in 0..MaxTime /\ end_time \in 0..MaxTime /\ emissions \in Nat
  BY RewardConstants
<1>1. /\ swap.phase = "idle" /\ now < open_time /\ open_time < end_time
      /\ reward.initialized /\ (~admin => reward.open_time < now)
      /\ UpdateOk(reward)
      /\ StartCycle(fee, r, admin, open_time, end_time, emissions)
           \/ ExtendCycle(fee, r, admin, end_time, emissions)
      /\ swap' = swap
      /\ UNCHANGED <<now, reward_outside, protocol_growth, growth_last, reward_owed, walk>>
  BY DEF SetRewardParams, vars, positionRewardVars
<1>2. /\ r \in RewardRecord /\ ScheduleOk(r) /\ r.initialized
      /\ GrowthOk(r, reward_outside)
      /\ r.open_time = reward.open_time
  BY <1>1, UpdatedKeeps
<1>3. /\ now \in 0..MaxTime /\ vault \in Nat /\ reward_outside \in [Ticks -> Nat]
      /\ protocol_growth \in [Ranges -> 0..(Word - 1)]
      /\ growth_last \in [Nft -> 0..(Word - 1)]
      /\ reward_owed \in [Nft -> Nat] /\ shortfall \in Nat
  BY DEF RewardInv, RewardWords
<1>4. /\ r.end_time \in 0..MaxTime /\ r.open_time \in 0..MaxTime
      /\ r.last_update_time \in 0..MaxTime /\ r.emissions_per_second \in Nat
  BY <1>2 DEF RewardRecord
<1> HIDE DEF r, open_time, end_time, emissions
<1>5. CASE StartCycle(fee, r, admin, open_time, end_time, emissions)
  <2>1. /\ reward' = [r EXCEPT !.open_time = open_time, !.last_update_time = open_time,
                               !.end_time = end_time, !.emissions_per_second = emissions]
        /\ Deposit(fee, CeilDiv((end_time - open_time) * emissions, Q64), 0)
    BY <1>5 DEF StartCycle
  <2>2. /\ reward' \in RewardRecord /\ reward'.initialized
        /\ reward'.open_time = open_time /\ reward'.last_update_time = open_time
        /\ reward'.end_time = end_time /\ reward'.growth_global = r.growth_global
    BY <1>0, <1>2, <2>1 DEF RewardRecord
  <2>3. vault' \in Nat /\ shortfall' \in Nat
    <3>1. CeilDiv((end_time - open_time) * emissions, Q64) \in Nat
      BY <1>0, <1>1, DepositType
    <3> QED  BY <2>1, <3>1, DepositIs
  <2>4. ScheduleOk(reward') /\ GrowthOk(reward', reward_outside')
    BY <1>0, <1>1, <1>2, <2>2, RewardConstants DEF ScheduleOk, GrowthOk
  <2> QED  BY <1>1, <1>3, <2>1, <2>2, <2>3, <2>4, InstructionKeeps
<1>6. CASE ExtendCycle(fee, r, admin, end_time, emissions)
  <2> DEFINE x == (r.end_time - now) * Raise(r, emissions)
             y == ExtensionOf(r, end_time) * emissions
  <2>1. /\ ~(admin /\ now < r.open_time) /\ now <= r.end_time
        /\ reward' = [r EXCEPT !.end_time = end_time, !.emissions_per_second = emissions]
        /\ Deposit(fee, x \div Q64 + y \div Q64, Inexact(x) + Inexact(y))
    BY <1>6 DEF ExtendCycle, Raise
  <2>2. /\ reward' \in RewardRecord /\ reward'.initialized
        /\ reward'.open_time = r.open_time
        /\ reward'.last_update_time = r.last_update_time
        /\ reward'.end_time = end_time /\ reward'.growth_global = r.growth_global
    BY <1>0, <1>2, <2>1 DEF RewardRecord
  <2>3. x \in Nat /\ y \in Nat  BY <1>0, <1>2, <1>3, <2>1, ExtensionType
  <2> HIDE DEF x, y
  <2>4. vault' \in Nat /\ shortfall' \in Nat
    <3>1. x \div Q64 \in Nat /\ y \div Q64 \in Nat  BY <2>3, DivNat, RewardConstants
    <3>2. Inexact(x) \in Nat /\ Inexact(y) \in Nat  BY DEF Inexact
    <3>3. x \div Q64 + y \div Q64 \in Nat /\ Inexact(x) + Inexact(y) \in Nat  BY <3>1, <3>2
    <3> QED  BY <2>1, <3>3, DepositIs
  <2>5. ScheduleOk(reward') /\ GrowthOk(reward', reward_outside')
    BY <1>0, <1>1, <1>2, <1>3, <1>4, <2>1, <2>2, RewardConstants DEF ScheduleOk, GrowthOk
  <2> QED  BY <1>1, <1>3, <2>2, <2>4, <2>5, InstructionKeeps
<1> QED  BY <1>1, <1>5, <1>6

LEMMA InitializeKeeps ==
  ASSUME RewardInv, NEW fee \in RewardMintFees, NEW s \in Schedules,
         InitializeReward(fee, s[1], s[2], s[3])
  PROVE  RewardInv'
<1> DEFINE open_time == s[1]
           end_time == s[2]
           emissions == s[3]
           amount == CeilDiv((end_time - open_time) * emissions, Q64)
<1>0. open_time \in 0..MaxTime /\ end_time \in 0..MaxTime /\ emissions \in Nat
  BY RewardConstants
<1>1. /\ now \in 0..MaxTime /\ vault \in Nat /\ reward_outside \in [Ticks -> Nat]
      /\ protocol_growth \in [Ranges -> 0..(Word - 1)]
      /\ growth_last \in [Nft -> 0..(Word - 1)]
      /\ reward_owed \in [Nft -> Nat] /\ reward \in RewardRecord /\ shortfall \in Nat
      /\ GrowthOk(reward, reward_outside)
  BY DEF RewardInv, RewardWords
<1>2. /\ swap.phase = "idle" /\ open_time < end_time
      /\ reward' = [reward EXCEPT
           !.initialized = TRUE, !.open_time = open_time, !.end_time = end_time,
           !.last_update_time = open_time, !.emissions_per_second = emissions]
      /\ vault' = vault + Arrives(fee, amount + InverseFee(fee, amount))
      /\ swap' = swap
      /\ UNCHANGED <<now, reward_outside, protocol_growth, growth_last, reward_owed, walk,
                     shortfall>>
  BY DEF InitializeReward, vars, positionRewardVars
<1> HIDE DEF open_time, end_time, emissions
<1>3. /\ reward' \in RewardRecord /\ reward'.initialized
      /\ reward'.open_time = open_time /\ reward'.last_update_time = open_time
      /\ reward'.end_time = end_time /\ reward'.growth_global = reward.growth_global
  BY <1>0, <1>1, <1>2 DEF RewardRecord
<1>4. vault' \in Nat
  <2>1. amount \in Nat  BY <1>0, <1>2, DepositType
  <2> HIDE DEF amount
  <2>2. Arrives(fee, amount + InverseFee(fee, amount)) \in Nat
    BY <2>1, MintFeesAreConfigs, InverseFeeArrives
  <2> QED  BY <1>1, <1>2, <2>2
<1>5. ScheduleOk(reward') /\ GrowthOk(reward', reward_outside')
  BY <1>0, <1>1, <1>2, <1>3, RewardConstants DEF ScheduleOk, GrowthOk
<1> QED  BY <1>1, <1>2, <1>3, <1>4, <1>5, InstructionKeeps

LEMMA NextReward == TypeInv /\ RewardInv /\ [RewardNext]_<<vars, rewardVars>> => RewardInv'
<1> SUFFICES ASSUME TypeInv, RewardInv, [RewardNext]_<<vars, rewardVars>> PROVE RewardInv'
  OBVIOUS
<1>0. /\ now \in 0..MaxTime /\ now <= now /\ shortfall \in Nat
      /\ reward \in RewardRecord /\ vault \in Nat
      /\ reward_outside \in [Ticks -> Nat]
      /\ protocol_growth \in [Ranges -> 0..(Word - 1)]
      /\ growth_last \in [Nft -> 0..(Word - 1)] /\ reward_owed \in [Nft -> Nat]
      /\ walk \in [reward : RewardRecord, outside : [Ticks -> Nat]]
      /\ ScheduleOk(reward) /\ GrowthOk(reward, reward_outside)
  BY RewardConstants DEF RewardInv, RewardWords
<1>1. ASSUME NEW n \in Nft, NEW range \in Offers, NEW amount \in Amounts \cap NewLiquidity,
             RewardOpenPosition(n, range[1], range[2], amount)
      PROVE  RewardInv'
  <2> DEFINE lower == range[1]
             upper == range[2]
  <2>1. lower \in Ticks /\ upper \in Ticks  BY RewardAssumption DEF Ranges
  <2>2. /\ amount \in Int /\ lower < upper /\ swap.phase = "idle"
        /\ AddLiquidity(lower, upper, amount)
        /\ IF amount = 0
           THEN UNCHANGED <<reward, reward_outside, protocol_growth>>
           ELSE ModifyReward(lower, upper, amount) /\ reward' = Updated(reward)
        /\ growth_last' = [growth_last EXCEPT ![n] = protocol_growth'[<<lower, upper>>]]
        /\ UNCHANGED <<now, vault, reward_owed, walk, shortfall>>
    BY <1>1 DEF RewardOpenPosition, OpenPosition, NewLiquidity
  <2> HIDE DEF lower, upper
  <2>3. swap' = swap  BY <2>2 DEF AddLiquidity, ModifyPosition
  <2>4. <<lower, upper>> \in Ranges  BY <2>1, <2>2 DEF Ranges
  <2>5. protocol_growth' \in [Ranges -> 0..(Word - 1)]
    BY <1>0, <2>1, <2>2, ModifyRewardKeeps
  <2>6. growth_last' \in [Nft -> 0..(Word - 1)]  BY <1>0, <2>2, <2>4, <2>5
  <2>7. CASE amount = 0  BY <1>0, <2>2, <2>3, <2>6, <2>7, InstructionKeeps
  <2>8. CASE amount # 0
    <3>1. SameSchedule(reward', Updated(reward))
      BY <2>2, <2>8, UpdatedSame DEF ModifyReward
    <3> QED  BY <1>0, <2>1, <2>2, <2>3, <2>6, <2>8, <3>1, ModifyKeeps
  <2> QED  BY <2>7, <2>8
<1>2. ASSUME NEW n \in Nft, NEW amount \in Amounts \cap NewLiquidity,
             RewardIncreaseLiquidity(n, amount)
      PROVE  RewardInv'
  <2>1. /\ amount \in Int /\ position[n] # NoPosition /\ swap.phase = "idle"
        /\ AddLiquidity(position[n].lower, position[n].upper, amount)
        /\ ModifyReward(position[n].lower, position[n].upper, amount)
        /\ reward' = Updated(reward)
        /\ growth_last' = [growth_last EXCEPT ![n] = Caught(n)]
        /\ reward_owed' = [reward_owed EXCEPT ![n] = OwedAfter(n)]
        /\ UNCHANGED <<now, vault, walk, shortfall>>
    BY <1>2 DEF RewardIncreaseLiquidity, IncreaseLiquidity, NewLiquidity
  <2>2. swap' = swap  BY <2>1 DEF AddLiquidity, ModifyPosition
  <2>3. /\ position[n].lower \in Ticks /\ position[n].upper \in Ticks
        /\ position[n].lower < position[n].upper
    BY <2>1, HoldsOpen
  <2>4. protocol_growth' \in [Ranges -> 0..(Word - 1)]  BY <2>1, <2>3, ModifyRewardKeeps
  <2>5. Caught(n) \in 0..(Word - 1)  BY <2>3, <2>4 DEF Caught, Ranges
  <2>6. OwedAfter(n) \in Nat  BY <2>1, <2>5, OwedType
  <2>7. growth_last' \in [Nft -> 0..(Word - 1)] /\ reward_owed' \in [Nft -> Nat]
    BY <1>0, <2>1, <2>5, <2>6
  <2>8. SameSchedule(reward', Updated(reward))  BY <2>1, UpdatedSame DEF ModifyReward
  <2> QED  BY <1>0, <2>1, <2>2, <2>3, <2>7, <2>8, ModifyKeeps
<1>3. ASSUME NEW n \in Nft, NEW amount \in Amounts, NEW collect \in BOOLEAN,
             RewardDecreaseLiquidity(n, amount, collect)
      PROVE  RewardInv'
  <2>0. -amount \in Int  BY RewardAssumption, LiquidityAssumption
  <2>1. /\ position[n] # NoPosition /\ swap.phase = "idle"
        /\ ModifyPosition(position[n].lower, position[n].upper, -amount)
        /\ ModifyReward(position[n].lower, position[n].upper, -amount)
        /\ growth_last' = [growth_last EXCEPT ![n] = Caught(n)]
        /\ \/ CollectReward(n, Updated(reward), OwedAfter(n))
           \/ /\ reward' = Updated(reward)
              /\ reward_owed' = [reward_owed EXCEPT ![n] = OwedAfter(n)]
              /\ UNCHANGED vault
        /\ UNCHANGED <<now, walk, shortfall>>
    BY <1>3 DEF RewardDecreaseLiquidity, DecreaseLiquidity
  <2>2. swap' = swap  BY <2>1 DEF ModifyPosition
  <2>3. /\ position[n].lower \in Ticks /\ position[n].upper \in Ticks
        /\ position[n].lower < position[n].upper
    BY <2>1, HoldsOpen
  <2>4. protocol_growth' \in [Ranges -> 0..(Word - 1)]  BY <2>0, <2>1, <2>3, ModifyRewardKeeps
  <2>5. Caught(n) \in 0..(Word - 1)  BY <2>3, <2>4 DEF Caught, Ranges
  <2>6. OwedAfter(n) \in Nat  BY <2>1, <2>5, OwedType
  <2>7. growth_last' \in [Nft -> 0..(Word - 1)]  BY <1>0, <2>1, <2>5
  <2>8. UpdateOk(reward)  BY <2>1 DEF ModifyReward
  <2>9. /\ SameSchedule(reward', Updated(reward))
        /\ reward_owed' \in [Nft -> Nat] /\ vault' \in Nat
    <3>1. CASE CollectReward(n, Updated(reward), OwedAfter(n))
      <4>1. Updated(reward) \in RewardRecord  BY <2>8, UpdatedKeeps
      <4> QED  BY <1>0, <2>6, <3>1, <4>1, CollectPays
    <3>2. CASE /\ reward' = Updated(reward)
               /\ reward_owed' = [reward_owed EXCEPT ![n] = OwedAfter(n)]
               /\ UNCHANGED vault
      BY <1>0, <2>6, <2>8, <3>2, UpdatedSame
    <3> QED  BY <2>1, <3>1, <3>2
  <2> QED  BY <1>0, <2>0, <2>1, <2>2, <2>3, <2>7, <2>9, ModifyKeeps
<1>4. ASSUME NEW n \in Nft, CollectOwedReward(n) PROVE RewardInv'
  <2>1. /\ swap.phase = "idle" /\ swap' = swap /\ CollectReward(n, reward, reward_owed[n])
        /\ UNCHANGED <<now, reward_outside, protocol_growth, growth_last, walk, shortfall>>
    BY <1>4 DEF CollectOwedReward, vars
  <2>2. /\ SameSchedule(reward', reward)
        /\ reward_owed' \in [Nft -> Nat] /\ vault' \in Nat
    BY <1>0, <2>1, CollectPays
  <2>3. /\ reward' \in RewardRecord
        /\ ScheduleOk(reward') /\ GrowthOk(reward', reward_outside')
    BY <1>0, <2>1, <2>2, SameKeeps DEF SameSchedule
  <2> QED  BY <1>0, <2>1, <2>2, <2>3, InstructionKeeps
<1>5. ASSUME NEW n \in Nft, RewardClosePosition(n) PROVE RewardInv'
  <2>1. /\ swap.phase = "idle" /\ swap' = swap
        /\ growth_last' = [growth_last EXCEPT ![n] = 0]
        /\ UNCHANGED <<now, reward, vault, reward_outside, protocol_growth, reward_owed, walk,
                       shortfall>>
    BY <1>5 DEF RewardClosePosition, ClosePosition
  <2>2. growth_last' \in [Nft -> 0..(Word - 1)]  BY <1>0, <2>1, RewardConstants
  <2> QED  BY <1>0, <2>1, <2>2, InstructionKeeps
<1>6. ASSUME NEW zero_for_one \in BOOLEAN, NEW limit \in Limits,
             RewardSwapBegin(zero_for_one, limit)
      PROVE  RewardInv'
  <2>1. /\ UpdateOk(reward)
        /\ walk' = [reward |-> Updated(reward), outside |-> reward_outside]
        /\ UNCHANGED <<now, reward, vault, reward_outside, positionRewardVars, shortfall>>
    BY <1>6 DEF RewardSwapBegin
  <2>2. /\ Updated(reward) \in RewardRecord /\ ScheduleOk(Updated(reward))
        /\ Fresh(Updated(reward)) /\ GrowthOk(Updated(reward), reward_outside)
    BY <2>1, UpdatedKeeps
  <2>3. walk'.reward = Updated(reward) /\ walk'.outside = reward_outside  BY <2>1
  <2> DEFINE r == Updated(reward)
  <2> HIDE DEF r
  <2>4. RewardWords'  BY <1>0, <2>1, <2>2 DEF RewardWords, positionRewardVars
  <2>5. ScheduleOk(reward)' /\ GrowthOk(reward, reward_outside)'
    BY <1>0, <2>1 DEF ScheduleOk, GrowthOk
  <2>6. /\ ScheduleOk(walk.reward)' /\ GrowthOk(walk.reward, walk.outside)'
        /\ Fresh(walk.reward)'
    <3>1. ScheduleOk(r) /\ Fresh(r) /\ GrowthOk(r, reward_outside)  BY <2>2 DEF r
    <3>2. walk'.reward = r /\ now' = now /\ walk'.outside = reward_outside
      BY <2>1, <2>3 DEF r
    <3> QED  BY <3>1, <3>2 DEF ScheduleOk, GrowthOk, Fresh, Emitting, Latest
  <2> QED  BY <2>4, <2>5, <2>6 DEF RewardInv
<1>7. ASSUME NEW a \in ArrayStarts, NEW t \in Ticks, NEW p \in Prices,
             NEW spent \in BOOLEAN, RewardSwapStep(a, t, p, spent)
      PROVE  RewardInv'
  <2> DEFINE r == walk.reward
             outside == IF p = SqrtPrice[t] THEN OutsideCrossed(t) ELSE walk.outside
  <2>1. /\ swap.phase = "walking" /\ walk' = [walk EXCEPT !.outside = outside]
        /\ p = SqrtPrice[t] => walk.outside[t] <= r.growth_global
        /\ UNCHANGED <<now, reward, vault, reward_outside, positionRewardVars, shortfall>>
    BY <1>7 DEF RewardSwapStep, SwapStep
  <2>2. /\ r \in RewardRecord /\ r.growth_global \in Nat /\ walk.outside \in [Ticks -> Nat]
        /\ ScheduleOk(r) /\ Fresh(r) /\ GrowthOk(r, walk.outside)
    BY <1>0, <2>1, RewardConstants DEF RewardInv, Walking, RewardRecord
  <2>3. outside \in [Ticks -> Nat] /\ GrowthOk(r, outside)
    <3>1. CASE p = SqrtPrice[t] /\ r.initialized
      <4>1. outside = [walk.outside EXCEPT ![t] = r.growth_global - walk.outside[t]]
        BY <3>1 DEF OutsideCrossed
      <4>2. /\ r.growth_global - walk.outside[t] \in Nat
            /\ r.growth_global - walk.outside[t] <= r.growth_global
        BY <2>1, <2>2, <3>1
      <4> QED  BY <2>2, <3>1, <4>1, <4>2 DEF GrowthOk
    <3>2. CASE ~(p = SqrtPrice[t] /\ r.initialized)
      BY <2>2, <3>2 DEF OutsideCrossed
    <3> QED  BY <3>1, <3>2
  <2> HIDE DEF outside
  <2>4. walk'.reward = r /\ walk'.outside = outside  BY <1>0, <2>1
  <2>5. walk' \in [reward : RewardRecord, outside : [Ticks -> Nat]]  BY <1>0, <2>1, <2>3
  <2>6. RewardWords'  BY <1>0, <2>1, <2>5 DEF RewardWords, positionRewardVars
  <2>7. ScheduleOk(reward)' /\ GrowthOk(reward, reward_outside)'
    BY <1>0, <2>1 DEF ScheduleOk, GrowthOk
  <2>8. /\ ScheduleOk(walk.reward)' /\ GrowthOk(walk.reward, walk.outside)'
        /\ Fresh(walk.reward)'
    <3>1. now' = now  BY <2>1
    <3> HIDE DEF r
    <3> QED  BY <2>2, <2>3, <2>4, <3>1 DEF ScheduleOk, GrowthOk, Fresh, Emitting, Latest
  <2> QED  BY <2>6, <2>7, <2>8 DEF RewardInv
<1>8. ASSUME RewardSwapEnd PROVE RewardInv'
  <2>1. /\ swap.phase = "done" /\ swap'.phase = "idle"
        /\ reward' = walk.reward /\ reward_outside' = walk.outside /\ walk' = IdleWalk
        /\ UNCHANGED <<now, vault, positionRewardVars, shortfall>>
    BY <1>8 DEF RewardSwapEnd, SwapEnd, IdleSwap
  <2>2. ScheduleOk(walk.reward) /\ GrowthOk(walk.reward, walk.outside)
    BY <2>1 DEF RewardInv, Walking
  <2>3. RewardWords'  BY <1>0, <2>1, NoRewardType DEF RewardWords, positionRewardVars
  <2>4. ScheduleOk(reward)' /\ GrowthOk(reward, reward_outside)'
    BY <2>1, <2>2 DEF ScheduleOk, GrowthOk
  <2>5. ~Walking'  BY <2>1 DEF Walking
  <2> QED  BY <2>3, <2>4, <2>5 DEF RewardInv
<1>9. ASSUME RewardSwapAbort PROVE RewardInv'
  <2>1. /\ swap'.phase = "idle" /\ walk' = IdleWalk
        /\ UNCHANGED <<now, reward, vault, reward_outside, positionRewardVars, shortfall>>
    BY <1>9 DEF RewardSwapAbort, SwapAbort, IdleSwap
  <2>2. RewardWords'  BY <1>0, <2>1, NoRewardType DEF RewardWords, positionRewardVars
  <2>3. ScheduleOk(reward)' /\ GrowthOk(reward, reward_outside)'
    BY <1>0, <2>1 DEF ScheduleOk, GrowthOk
  <2>4. ~Walking'  BY <2>1 DEF Walking
  <2> QED  BY <2>2, <2>3, <2>4 DEF RewardInv
<1>10. ASSUME UpdateRewardInfos PROVE RewardInv'
  <2>1. /\ swap.phase = "idle" /\ swap' = swap /\ reward' = Updated(reward)
        /\ UpdateOk(reward)
        /\ UNCHANGED <<now, vault, reward_outside, protocol_growth, growth_last,
                       reward_owed, walk, shortfall>>
    BY <1>10 DEF UpdateRewardInfos, vars, positionRewardVars
  <2>2. /\ reward' \in RewardRecord
        /\ ScheduleOk(reward') /\ GrowthOk(reward', reward_outside')
    BY <2>1, UpdatedKeeps
  <2> QED  BY <1>0, <2>1, <2>2, InstructionKeeps
<1>11. ASSUME CollectRemainingRewards PROVE RewardInv'
  <2>1. /\ swap.phase = "idle" /\ swap' = swap /\ reward' = Updated(reward)
        /\ UpdateOk(reward)
        /\ vault' = Updated(reward).unclaimed
        /\ UNCHANGED <<now, reward_outside, protocol_growth, growth_last, reward_owed, walk, shortfall>>
    BY <1>11 DEF CollectRemainingRewards, vars, positionRewardVars
  <2>2. /\ reward' \in RewardRecord
        /\ ScheduleOk(reward') /\ GrowthOk(reward', reward_outside')
    BY <2>1, UpdatedKeeps
  <2>3. vault' \in Nat  BY <2>1, <2>2 DEF RewardRecord
  <2> QED  BY <1>0, <2>1, <2>2, <2>3, InstructionKeeps
<1>12. ASSUME PassTime PROVE RewardInv'
  <2>1. /\ swap.phase = "idle" /\ swap' = swap /\ now < MaxTime /\ now' = now + 1
        /\ UNCHANGED <<reward, vault, reward_outside, protocol_growth, growth_last,
                       reward_owed, walk, shortfall>>
    BY <1>12 DEF PassTime, vars, positionRewardVars
  <2>2. now' \in 0..MaxTime /\ now <= now'  BY <1>0, <2>1, RewardConstants
  <2> QED  BY <1>0, <2>1, <2>2, InstructionKeeps
<1>13. CASE UNCHANGED <<vars, rewardVars>>
  <2>1. /\ swap' = swap
        /\ UNCHANGED <<now, reward, vault, reward_outside, protocol_growth, growth_last,
                       reward_owed, walk, shortfall>>
    BY <1>13 DEF vars, rewardVars, positionRewardVars
  <2> QED  BY <2>1 DEF RewardInv, RewardWords, ScheduleOk, GrowthOk, Fresh, Emitting, Latest,
                       Walking
<1> QED
  BY <1>1, <1>2, <1>3, <1>4, <1>5, <1>6, <1>7, <1>8, <1>9, <1>10, <1>11, <1>12, <1>13,
     ScheduleKeeps, InitializeKeeps
  DEF RewardNext

LEMMA RewardInvariant == RewardSpec => []RewardInv
<1>1. BookInv => TypeInv  BY DEF BookInv, FitInv
<1>2. RewardInit => RewardInv  BY InitReward
<1> QED  BY <1>1, <1>2, RewardBook, NextReward, PTL DEF RewardSpec

(* Growth stays within its word, outside of a tick as in the pool, whose   *)
(* checked_add panics first; a claim never makes the counter or the vault  *)
(* negative.                                                               *)
THEOREM RewardsTyped == RewardSpec => []RewardTypeOK
<1>1. RewardInv => RewardTypeOK
  <2> SUFFICES ASSUME RewardInv PROVE RewardTypeOK  OBVIOUS
  <2>1. /\ reward \in RewardRecord /\ reward.growth_global \in 0..(Word - 1)
        /\ reward_outside \in [Ticks -> Nat] /\ GrowthOk(reward, reward_outside)
    BY DEF RewardInv, RewardWords, RewardRecord
  <2>2. reward_outside \in [Ticks -> 0..(Word - 1)]
    <3>1. \A t \in Ticks : reward_outside[t] \in 0..(Word - 1)
      BY <2>1, RewardConstants DEF GrowthOk
    <3> QED  BY <2>1, <3>1
  <2> QED  BY <2>2 DEF RewardInv, RewardWords, RewardRecord, RewardTypeOK
<1> QED  BY <1>1, RewardInvariant, PTL

(* No schedule, however the owner and the admin change it, ever lets the   *)
(* reward's time run backwards: the require! of update_reward_infos, which *)
(* every instruction that touches the pool goes through, never fails.      *)
THEOREM ClockNeverBack == RewardSpec => []UpdateNeverFails
<1>1. RewardInv => UpdateNeverFails  BY ScheduleUpdates DEF UpdateNeverFails
<1> QED  BY <1>1, RewardInvariant, PTL

-----------------------------------------------------------------------------
(* Liquidity and time *)

Accounted ==
  liquidity' # liquidity /\ Emitting(reward') => reward'.last_update_time = Latest(reward')

LEMMA FreshAccounted ==
  ASSUME TypeInv, RewardInv, UpdateOk(reward), SameSchedule(reward', Updated(reward))
  PROVE  Accounted
<1> DEFINE r == Updated(reward)
<1>1. Fresh(r)  BY UpdatedKeeps
<1> HIDE DEF r
<1>2. Fresh(reward')  BY <1>1, SameKeeps DEF r
<1> QED  BY <1>2 DEF Fresh, Accounted

LEMMA NextAccounted ==
  TypeInv /\ RewardInv /\ [RewardNext]_<<vars, rewardVars>> =>
    [Accounted]_<<vars, rewardVars>>
<1> SUFFICES ASSUME TypeInv, RewardInv, RewardNext PROVE Accounted  OBVIOUS
<1>1. ASSUME NEW n \in Nft, NEW range \in Offers, NEW amount \in Amounts \cap NewLiquidity,
             RewardOpenPosition(n, range[1], range[2], amount)
      PROVE  Accounted
  <2>1. CASE amount = 0
    BY <1>1, <2>1 DEF RewardOpenPosition, OpenPosition, AddLiquidity, poolVars, Accounted
  <2>2. CASE amount # 0
    BY <1>1, <2>2, UpdatedSame, FreshAccounted DEF RewardOpenPosition, ModifyReward
  <2> QED  BY <2>1, <2>2
<1>2. ASSUME NEW n \in Nft, NEW amount \in Amounts \cap NewLiquidity,
             RewardIncreaseLiquidity(n, amount)
      PROVE  Accounted
  BY <1>2, UpdatedSame, FreshAccounted DEF RewardIncreaseLiquidity, ModifyReward
<1>3. ASSUME NEW n \in Nft, NEW amount \in Amounts, NEW collect \in BOOLEAN,
             RewardDecreaseLiquidity(n, amount, collect)
      PROVE  Accounted
  <2>0. UpdateOk(reward)  BY <1>3 DEF RewardDecreaseLiquidity, ModifyReward
  <2>1. CASE reward' = Updated(reward)  BY <2>0, <2>1, UpdatedSame, FreshAccounted
  <2>2. CASE CollectReward(n, Updated(reward), OwedAfter(n))
    <3> DEFINE r == Updated(reward)
    <3>1. r \in RewardRecord  BY <2>0, UpdatedKeeps
    <3>2. \E paid : reward' = [r EXCEPT !.unclaimed = paid]  BY <2>2 DEF CollectReward
    <3> HIDE DEF r
    <3>3. /\ reward'.initialized = r.initialized
          /\ reward'.last_update_time = r.last_update_time
          /\ reward'.open_time = r.open_time /\ reward'.end_time = r.end_time
      BY <3>1, <3>2 DEF RewardRecord
    <3>4. Fresh(r)  BY <2>0, UpdatedKeeps DEF r
    <3> QED  BY <3>3, <3>4 DEF Fresh, Emitting, Latest, Accounted
  <2> QED  BY <1>3, <2>1, <2>2 DEF RewardDecreaseLiquidity
<1>4. ASSUME RewardSwapEnd PROVE Accounted
  <2>1. swap.phase = "done" /\ reward' = walk.reward
    BY <1>4 DEF RewardSwapEnd, SwapEnd
  <2>2. Fresh(walk.reward)  BY <2>1 DEF RewardInv, Walking
  <2> QED  BY <2>1, <2>2 DEF Fresh, Accounted
<1>5. ASSUME liquidity' = liquidity PROVE Accounted  BY <1>5 DEF Accounted
<1>6. ASSUME NEW n \in Nft, CollectOwedReward(n) \/ RewardClosePosition(n)
      PROVE  liquidity' = liquidity
  BY <1>6 DEF CollectOwedReward, RewardClosePosition, ClosePosition, vars, poolVars
<1>7. ASSUME NEW zero_for_one \in BOOLEAN, NEW limit \in Limits,
             RewardSwapBegin(zero_for_one, limit)
      PROVE  liquidity' = liquidity
  BY <1>7 DEF RewardSwapBegin, SwapBegin, poolVars
<1>8. ASSUME NEW a \in ArrayStarts, NEW t \in Ticks, NEW p \in Prices,
             NEW spent \in BOOLEAN, RewardSwapStep(a, t, p, spent)
      PROVE  liquidity' = liquidity
  BY <1>8 DEF RewardSwapStep, SwapStep, poolVars
<1>9. ASSUME RewardSwapAbort PROVE liquidity' = liquidity
  BY <1>9 DEF RewardSwapAbort, SwapAbort, poolVars
<1>10. ASSUME NEW fee \in RewardMintFees, NEW s \in Schedules, NEW admin \in BOOLEAN,
              \/ InitializeReward(fee, s[1], s[2], s[3])
              \/ SetRewardParams(fee, admin, s[1], s[2], s[3])
       PROVE  liquidity' = liquidity
  BY <1>10 DEF InitializeReward, SetRewardParams, vars, poolVars
<1>11. ASSUME UpdateRewardInfos \/ CollectRemainingRewards \/ PassTime
       PROVE  liquidity' = liquidity
  BY <1>11 DEF UpdateRewardInfos, CollectRemainingRewards, PassTime, vars, poolVars
<1> QED
  BY <1>1, <1>2, <1>3, <1>4, <1>5, <1>6, <1>7, <1>8, <1>9, <1>10, <1>11 DEF RewardNext

(* Whoever changes the active liquidity, a deposit, a withdrawal or a      *)
(* swap, first accounts for the time with the liquidity before: nobody     *)
(* earns for a time in which his liquidity was not there.                  *)
THEOREM TimeAccounted == RewardSpec => LiquidityChangesAccounted
<1>1. BookInv => TypeInv  BY DEF BookInv, FitInv
<1>2. RewardSpec => [][Accounted]_<<vars, rewardVars>>
  BY <1>1, RewardBook, RewardInvariant, NextAccounted, PTL DEF RewardSpec
<1> QED  BY <1>2 DEF LiquidityChangesAccounted, Accounted

-----------------------------------------------------------------------------
(* Growth inside a range *)

Moves(r) ==
  LET grown == Reward'.growth_global - Reward.growth_global
      moved == IF r[1] <= Tick /\ Tick < r[2] THEN grown ELSE 0
  IN  Inside(r[1], r[2])' = Wrapped(Inside(r[1], r[2]) + moved)

LEMMA WalkTypes ==
  ASSUME TypeInv, RewardInv
  PROVE  /\ Tick \in Int /\ Reward.growth_global \in Int
         /\ \A t \in Ticks : Outside[t] \in Int /\ t \in Int
<1>1. tick_current \in Int /\ swap.tick \in Int
  BY TickAssumption DEF TypeInv, TypeOK, SwapState
<1>2. /\ reward.growth_global \in Int /\ walk.reward.growth_global \in Int
      /\ reward_outside \in [Ticks -> Int] /\ walk.outside \in [Ticks -> Int]
  BY DEF RewardInv, RewardWords, RewardRecord
<1> QED  BY <1>1, <1>2, TicksType DEF Tick, Reward, Outside

(* InsideFollows, for the growth of the reward.                            *)
LEMMA EndsMove ==
  ASSUME TypeInv, RewardInv, NEW r \in Ranges,
         NEW T2 \in Int, NEW G2 \in Int, NEW O2,
         Tick' = T2, Reward'.growth_global = G2, Outside' = O2,
         \A v \in {r[1], r[2]} :
           LeftAlone(v, Tick, T2, Outside, O2) \/ SidesSwapped(v, Tick, T2, G2, Outside, O2)
  PROVE  Moves(r)
<1> DEFINE G == Reward.growth_global
<1>1. r[1] \in Ticks /\ r[2] \in Ticks /\ r[1] < r[2]  BY DEF Ranges
<1>2. /\ Tick \in Int /\ G \in Int /\ r[1] \in Int /\ r[2] \in Int
      /\ Outside[r[1]] \in Int /\ Outside[r[2]] \in Int
  BY <1>1, WalkTypes
<1>3. /\ Inside(r[1], r[2]) = InsideAt(Tick, G, Outside, r[1], r[2], Word)
      /\ Inside(r[1], r[2])' = InsideAt(T2, G2, O2, r[1], r[2], Word)
  BY DEF Inside, Wrapped, InsideAt, BelowAt, AboveAt
<1> HIDE DEF G
<1>4. Follows(Word, r[1], r[2], Tick, T2, G, G2, Outside, O2)
  BY <1>1, <1>2, RewardConstants, InsideFollows
<1>5. Inside(r[1], r[2])' =
        Wrapped(Inside(r[1], r[2]) + (IF r[1] <= Tick /\ Tick < r[2] THEN G2 - G ELSE 0))
  BY <1>3, <1>4 DEF Wrapped, Follows
<1> QED  BY <1>5 DEF Moves, G

(* An instruction that leaves the tick and both ends alone, whatever was   *)
(* emitted.                                                                *)
LEMMA StillMoves ==
  ASSUME TypeInv, RewardInv, NEW r \in Ranges, Tick' = Tick, Reward'.growth_global \in Int,
         Outside'[r[1]] = Outside[r[1]], Outside'[r[2]] = Outside[r[2]]
  PROVE  Moves(r)
<1>1. Tick' \in Int  BY WalkTypes
<1>2. \A v \in {r[1], r[2]} : LeftAlone(v, Tick, Tick', Outside, Outside')
  BY DEF LeftAlone
<1> QED  BY <1>1, <1>2, EndsMove

LEMMA ModifyLeavesEnds ==
  ASSUME TypeInv, NEW lower \in Ticks, NEW upper \in Ticks, lower < upper,
         NEW delta \in Int, ModifyPosition(lower, upper, delta),
         ModifyReward(lower, upper, delta),
         NEW t \in Initialized, liquidity_gross'[t] # 0
  PROVE  reward_outside'[t] = reward_outside[t]
<1>1. liquidity_gross[t] # 0 /\ (t \in {lower, upper} => ~Flipped(t, delta))
  BY EndsNotFlipped
<1>2. t \in Ticks  BY DEF Initialized
<1>3. OutsideUpdated(Updated(reward), lower, upper, delta)[t] = reward_outside[t]
  BY <1>1, <1>2 DEF OutsideUpdated
<1> QED  BY <1>1, <1>2, <1>3 DEF ModifyReward

(* A turn of the swap loop.                                                *)
LEMMA StepMoves ==
  ASSUME BookInv, RewardInv, EndsInitialized,
         NEW a \in ArrayStarts, NEW t \in Ticks, NEW p \in Prices,
         NEW spent \in BOOLEAN, RewardSwapStep(a, t, p, spent),
         NEW r \in Ranges, protocol_liquidity[r] > 0
  PROVE  Moves(r)
<1>0. TypeInv  BY DEF BookInv, FitInv
<1> DEFINE growth == walk.reward.growth_global
           after == TickReached(swap, t, p)
           outside == IF p = SqrtPrice[t] THEN OutsideCrossed(t) ELSE walk.outside
<1>1. /\ SwapStep(a, t, p, spent) /\ swap.phase = "walking"
      /\ walk' = [walk EXCEPT !.outside = outside]
  BY DEF RewardSwapStep, SwapStep
<1>2. swap'.phase # "idle" /\ swap'.tick = after
  BY <1>0, <1>1 DEF SwapStep, TypeInv, TypeOK, SwapState
<1>3. walk'.reward = walk.reward /\ walk'.outside = outside
  BY <1>1 DEF RewardInv, RewardWords
<1>4. /\ Tick = swap.tick /\ Outside = walk.outside
      /\ Tick' = after /\ Reward'.growth_global = growth /\ Outside' = outside
  BY <1>1, <1>2, <1>3 DEF Tick, Reward, Outside, Walking
<1>5. /\ growth \in Nat /\ walk.outside \in [Ticks -> Nat]
      /\ GrowthOk(walk.reward, walk.outside)
  BY <1>1, RewardConstants DEF RewardInv, RewardWords, RewardRecord, Walking
<1>6. after \in Int
  <2>1. after \in MIN_TICK..MAX_TICK  BY <1>0, <1>1, SwapStepBounds
  <2> QED  BY <2>1, TickAssumption
<1>7. ASSUME NEW v \in Initialized
      PROVE  \/ LeftAlone(v, swap.tick, after, walk.outside, outside)
             \/ SidesSwapped(v, swap.tick, after, growth, walk.outside, outside)
  <2>1. v \in Ticks  BY DEF Initialized
  <2>2. (v <= after) <=>
          IF p = SqrtPrice[t] /\ v = t THEN ~(v <= swap.tick) ELSE v <= swap.tick
    BY <1>1, StepOver
  <2>3. outside[v] = IF p = SqrtPrice[t] /\ v = t THEN growth - walk.outside[v]
                                                  ELSE walk.outside[v]
    <3>1. CASE walk.reward.initialized
      BY <1>5, <2>1, <3>1 DEF OutsideCrossed
    <3>2. CASE ~walk.reward.initialized
      <4>1. outside = walk.outside  BY <3>2 DEF OutsideCrossed
      <4>2. growth = 0 /\ walk.outside[v] = 0  BY <1>5, <2>1, <3>2 DEF GrowthOk
      <4> QED  BY <4>1, <4>2
    <3> QED  BY <3>1, <3>2
  <2> HIDE DEF outside, after, growth
  <2> QED  BY <2>2, <2>3 DEF LeftAlone, SidesSwapped
<1>8. r[1] \in Initialized /\ r[2] \in Initialized  BY DEF EndsInitialized
<1> HIDE DEF outside, after, growth
<1> QED  BY <1>0, <1>4, <1>5, <1>6, <1>7, <1>8, EndsMove

LEMMA NextMoves ==
  ASSUME BookInv, RewardInv, RewardInv', EndsInitialized, EndsInitialized', RewardNext,
         NEW r \in Ranges, ~RewardSwapAbort,
         protocol_liquidity[r] > 0, protocol_liquidity'[r] > 0
  PROVE  Moves(r)
<1>0. /\ TypeInv /\ walk.reward.growth_global \in Int
      /\ reward'.growth_global \in Int /\ walk'.reward.growth_global \in Int
  BY DEF BookInv, FitInv, RewardInv, RewardWords, RewardRecord
<1>1. /\ r[1] \in Initialized /\ r[2] \in Initialized
      /\ liquidity_gross'[r[1]] # 0 /\ liquidity_gross'[r[2]] # 0
  BY DEF EndsInitialized, Initialized
<1>2. ASSUME swap.phase = "idle", swap' = swap, tick_current' = tick_current,
             \/ UNCHANGED reward_outside
             \/ \E lower, upper \in Ticks, delta \in Int :
                  /\ lower < upper
                  /\ ModifyPosition(lower, upper, delta)
                  /\ ModifyReward(lower, upper, delta)
      PROVE  Moves(r)
  <2>1. reward_outside'[r[1]] = reward_outside[r[1]] /\ reward_outside'[r[2]] = reward_outside[r[2]]
    BY <1>0, <1>1, <1>2, ModifyLeavesEnds
  <2>2. /\ Tick' = Tick /\ Reward' = reward'
        /\ Outside = reward_outside /\ Outside' = reward_outside'
    BY <1>2 DEF Tick, Reward, Outside, Walking
  <2> QED  BY <1>0, <2>1, <2>2, StillMoves
<1>3. ASSUME NEW n \in Nft, NEW range \in Offers, NEW amount \in Amounts \cap NewLiquidity,
             RewardOpenPosition(n, range[1], range[2], amount)
      PROVE  Moves(r)
  <2> DEFINE lower == range[1]
             upper == range[2]
  <2>1. lower \in Ticks /\ upper \in Ticks  BY RewardAssumption DEF Ranges
  <2>2. /\ amount \in Int /\ lower < upper /\ swap.phase = "idle"
        /\ AddLiquidity(lower, upper, amount)
        /\ amount = 0 => UNCHANGED reward_outside
        /\ amount # 0 => ModifyReward(lower, upper, amount)
    BY <1>3 DEF RewardOpenPosition, OpenPosition, NewLiquidity
  <2> HIDE DEF lower, upper
  <2>3. swap' = swap /\ tick_current' = tick_current
    BY <2>2 DEF AddLiquidity, ModifyPosition, poolVars
  <2>4. CASE amount = 0  BY <1>2, <2>2, <2>3, <2>4
  <2>5. CASE amount # 0
    <3>1. ModifyPosition(lower, upper, amount)  BY <2>2, <2>5 DEF AddLiquidity
    <3> QED  BY <1>2, <2>1, <2>2, <2>3, <2>5, <3>1
  <2> QED  BY <2>4, <2>5
<1>4. ASSUME NEW n \in Nft, NEW amount \in Amounts \cap NewLiquidity,
             RewardIncreaseLiquidity(n, amount)
      PROVE  Moves(r)
  <2>1. /\ amount \in Int /\ amount # 0 /\ position[n] # NoPosition /\ swap.phase = "idle"
        /\ AddLiquidity(position[n].lower, position[n].upper, amount)
        /\ ModifyReward(position[n].lower, position[n].upper, amount)
    BY <1>4 DEF RewardIncreaseLiquidity, IncreaseLiquidity, NewLiquidity
  <2>2. /\ position[n].lower \in Ticks /\ position[n].upper \in Ticks
        /\ position[n].lower < position[n].upper
    BY <1>0, <2>1, HoldsOpen
  <2>3. ModifyPosition(position[n].lower, position[n].upper, amount)
    BY <2>1 DEF AddLiquidity
  <2>4. swap' = swap /\ tick_current' = tick_current  BY <2>3 DEF ModifyPosition
  <2> QED  BY <1>2, <2>1, <2>2, <2>3, <2>4
<1>5. ASSUME NEW n \in Nft, NEW amount \in Amounts, NEW collect \in BOOLEAN,
             RewardDecreaseLiquidity(n, amount, collect)
      PROVE  Moves(r)
  <2>0. -amount \in Int  BY RewardAssumption, LiquidityAssumption
  <2>1. /\ position[n] # NoPosition /\ swap.phase = "idle"
        /\ ModifyPosition(position[n].lower, position[n].upper, -amount)
        /\ ModifyReward(position[n].lower, position[n].upper, -amount)
    BY <1>5 DEF RewardDecreaseLiquidity, DecreaseLiquidity
  <2>2. /\ position[n].lower \in Ticks /\ position[n].upper \in Ticks
        /\ position[n].lower < position[n].upper
    BY <1>0, <2>1, HoldsOpen
  <2>3. swap' = swap /\ tick_current' = tick_current  BY <2>1 DEF ModifyPosition
  <2> QED  BY <1>2, <2>0, <2>1, <2>2, <2>3
<1>6. ASSUME NEW n \in Nft, CollectOwedReward(n) \/ RewardClosePosition(n)
      PROVE  Moves(r)
  <2>1. /\ swap.phase = "idle" /\ swap' = swap /\ tick_current' = tick_current
        /\ UNCHANGED reward_outside
    BY <1>6 DEF CollectOwedReward, RewardClosePosition, ClosePosition, vars, poolVars
  <2> QED  BY <1>2, <2>1
<1>7. ASSUME NEW fee \in RewardMintFees, NEW s \in Schedules, NEW admin \in BOOLEAN,
             \/ InitializeReward(fee, s[1], s[2], s[3])
             \/ SetRewardParams(fee, admin, s[1], s[2], s[3])
      PROVE  Moves(r)
  <2>1. /\ swap.phase = "idle" /\ swap' = swap /\ tick_current' = tick_current
        /\ UNCHANGED reward_outside
    BY <1>7 DEF InitializeReward, SetRewardParams, vars, poolVars
  <2> QED  BY <1>2, <2>1
<1>8. ASSUME UpdateRewardInfos \/ CollectRemainingRewards \/ PassTime PROVE Moves(r)
  <2>1. /\ swap.phase = "idle" /\ swap' = swap /\ tick_current' = tick_current
        /\ UNCHANGED reward_outside
    BY <1>8 DEF UpdateRewardInfos, CollectRemainingRewards, PassTime, vars, poolVars
  <2> QED  BY <1>2, <2>1
<1>9. ASSUME NEW zero_for_one \in BOOLEAN, NEW limit \in Limits,
             RewardSwapBegin(zero_for_one, limit)
      PROVE  Moves(r)
  <2>1. /\ swap.phase = "idle" /\ swap'.phase = "walking" /\ swap'.tick = tick_current
        /\ walk'.outside = reward_outside
    BY <1>9 DEF RewardSwapBegin, SwapBegin
  <2>2. Tick' = Tick /\ Reward' = walk'.reward /\ Outside' = Outside
    BY <2>1 DEF Tick, Reward, Outside, Walking
  <2> QED  BY <1>0, <2>2, StillMoves
<1>10. ASSUME NEW a \in ArrayStarts, NEW t \in Ticks, NEW p \in Prices,
              NEW spent \in BOOLEAN, RewardSwapStep(a, t, p, spent)
       PROVE  Moves(r)
  BY <1>10, StepMoves
<1>11. ASSUME RewardSwapEnd PROVE Moves(r)
  <2>1. /\ swap.phase = "done" /\ swap'.phase = "idle" /\ tick_current' = swap.tick
        /\ reward' = walk.reward /\ reward_outside' = walk.outside
    BY <1>11 DEF RewardSwapEnd, SwapEnd, IdleSwap
  <2>2. Tick' = Tick /\ Reward' = walk.reward /\ Outside' = Outside
    BY <2>1 DEF Tick, Reward, Outside, Walking
  <2> QED  BY <1>0, <2>2, StillMoves
<1> QED  BY <1>3, <1>4, <1>5, <1>6, <1>7, <1>8, <1>9, <1>10, <1>11 DEF RewardNext

(* Nobody earns from a reward while out of range, and everybody in range   *)
(* earns at the pool's rate, whatever ticks are crossed, positions opened  *)
(* or closed, and schedules changed.                                       *)
THEOREM RewardInsideMoves == RewardSpec => RewardGrowthMoves
<1> DEFINE Step ==
      \A r \in Ranges :
        ~RewardSwapAbort /\ protocol_liquidity[r] > 0 /\ protocol_liquidity'[r] > 0 => Moves(r)
<1>1. BookInv /\ BookInv' /\ RewardInv /\ RewardInv' /\ [RewardNext]_<<vars, rewardVars>> =>
        [Step]_<<vars, rewardVars>>
  <2> SUFFICES ASSUME BookInv, BookInv', RewardInv, RewardInv', RewardNext PROVE Step
    OBVIOUS
  <2>1. EndsInitialized  BY RangeEnds
  <2>2. BookInv' => EndsInitialized'  BY RangeEnds, PTL
  <2> QED  BY <2>1, <2>2, NextMoves
<1>2. RewardSpec => [][Step]_<<vars, rewardVars>>
  BY <1>1, RewardBook, RewardInvariant, PTL DEF RewardSpec
<1> QED  BY <1>2 DEF RewardGrowthMoves, Moves

-----------------------------------------------------------------------------
(* What all positions together are due *)

(* What the positions are due as the pool has it when its reward is r, and *)
(* as the swap under way does: the same outside a swap.                    *)
Due(r) == Worth(Word, Q64, position, growth_last, reward_owed,
                tick_current, r.growth_global, reward_outside)
WalkWorth == Worth(Word, Q64, position, growth_last, reward_owed,
                   Tick, Reward.growth_global, Outside)

(* What is left to emit, in units of 1/Q64.                                *)
ToEmit(r) == (r.end_time - r.last_update_time) * r.emissions_per_second

(* A worth w is covered when it was emitted and not claimed, and when the  *)
(* vault, but for what the shortfall counts, pays for it and for what is   *)
(* left to emit.                                                           *)
Covered(w, r, funds) ==
  /\ Total(w, Nft) <= r.unclaimed * Q64
  /\ Total(w, Nft) + ToEmit(r) <= funds * Q64

(* The inductive form of RewardsCovered and RewardsFunded: nothing is      *)
(* rounded, and the pool that an aborted swap falls back to is covered     *)
(* too.                                                                    *)
CoverInv ==
  /\ Covered(Due(reward), reward, vault + shortfall)
  /\ Covered(WalkWorth, Reward, vault + shortfall)

(* The worth of every position is an amount, whatever the reward r is.     *)
WorthsTyped ==
  /\ position \in Positions
  /\ growth_last \in [Nft -> 0..(Word - 1)]
  /\ reward_owed \in [Nft -> Nat]
  /\ vault \in Nat /\ shortfall \in Nat
  /\ reward \in RewardRecord /\ Reward \in RewardRecord
  /\ ScheduleOk(reward) /\ ScheduleOk(Reward)
  /\ Tick \in Int /\ Reward.growth_global \in Int /\ \A t \in Ticks : Outside[t] \in Int
  /\ tick_current \in Int /\ \A t \in Ticks : reward_outside[t] \in Int
  /\ \A n \in Nft : WalkWorth[n] \in Nat
  /\ \A r \in RewardRecord, n \in Nft :
       /\ Due(r)[n] \in Nat
       /\ Earned(Word, position, growth_last, tick_current, r.growth_global,
                 reward_outside, n) \in Nat

LEMMA StateTyped == TypeInv /\ RewardInv => WorthsTyped
<1> SUFFICES ASSUME TypeInv, RewardInv PROVE WorthsTyped  OBVIOUS
<1>1. /\ position \in Positions
      /\ growth_last \in [Nft -> 0..(Word - 1)] /\ reward_owed \in [Nft -> Nat]
      /\ vault \in Nat /\ shortfall \in Nat
      /\ reward \in RewardRecord /\ Reward \in RewardRecord
      /\ ScheduleOk(reward) /\ ScheduleOk(Reward)
      /\ \A t \in Ticks : reward_outside[t] \in Int
  BY DEF TypeInv, TypeOK, Positions, RewardInv, RewardWords, Reward
<1>2. tick_current \in Int  BY TickAssumption DEF TypeInv, TypeOK
<1>3. Tick \in Int /\ Reward.growth_global \in Int /\ \A t \in Ticks : Outside[t] \in Int
  BY WalkTypes
<1>4. \A n \in Nft : WalkWorth[n] \in Nat
  BY <1>1, <1>3, WorthType, RewardConstants DEF WalkWorth
<1>5. ASSUME NEW r \in RewardRecord, NEW n \in Nft
      PROVE  /\ Due(r)[n] \in Nat
             /\ Earned(Word, position, growth_last, tick_current, r.growth_global,
                       reward_outside, n) \in Nat
  <2>1. r.growth_global \in Int  BY RewardConstants DEF RewardRecord
  <2> QED  BY <1>1, <1>2, <2>1, WorthType, RewardConstants DEF Due
<1> QED  BY <1>1, <1>2, <1>3, <1>4, <1>5 DEF WorthsTyped

LEMMA ToEmitType ==
  ASSUME NEW r \in RewardRecord, ScheduleOk(r)
  PROVE  ToEmit(r) \in Nat
<1>1. /\ r.end_time \in Nat /\ r.last_update_time \in Nat /\ r.emissions_per_second \in Nat
      /\ r.last_update_time <= r.end_time
  BY RewardConstants DEF RewardRecord, ScheduleOk
<1>2. r.end_time - r.last_update_time \in Nat  BY <1>1
<1> QED  BY <1>1, <1>2, TimesNat DEF ToEmit

(* Funds that grow together with what they pay for.                        *)
LEMMA FundsGrow ==
  ASSUME NEW s \in Int, NEW e \in Int, NEW funds \in Int, NEW d \in Int,
         s <= funds * Q64, e <= d * Q64
  PROVE  s + e <= (funds + d) * Q64
<1>1. Q64 \in Int  BY RewardConstants
<1>2. (funds + d) * Q64 = funds * Q64 + d * Q64  BY <1>1
<1>3. funds * Q64 \in Int /\ d * Q64 \in Int  BY <1>1
<1> QED  BY <1>2, <1>3

(* Bringing a reward up to date gives the liquidity in range no more than  *)
(* it counts as emitted, and takes what it emits from what was left.       *)
LEMMA UpdateCovers ==
  ASSUME BookInv, RewardInv, CoverInv, UpdateOk(reward)
  PROVE  Covered(Due(Updated(reward)), Updated(reward), vault + shortfall)
<1> DEFINE r == Updated(reward)
           last == Latest(reward)
           emission == (last - reward.last_update_time) * reward.emissions_per_second
           funds == vault + shortfall
           b == Due(r)
           c == Due(reward)
<1>0. TypeInv /\ TimeOk(reward)  BY ScheduleUpdates DEF BookInv, FitInv
<1>1. WorthsTyped /\ IsFiniteSet(Nft)  BY <1>0, StateTyped, NftAssumption
<1>2. reward \in RewardRecord /\ r \in RewardRecord /\ ScheduleOk(reward) /\ ScheduleOk(r)
  BY <1>0, UpdatedKeeps DEF RewardInv, RewardWords
<1>3. Covered(c, reward, funds)  BY DEF CoverInv
<1>4. CASE ~Emitting(reward)
  <2>1. r = reward  BY <1>4 DEF Updated
  <2> HIDE DEF r
  <2> QED  BY <1>3, <2>1 DEF r
<1>5. ASSUME NEW g \in Nat, NEW d \in Nat, reward.last_update_time <= last,
             r.growth_global = reward.growth_global + g, r.unclaimed = reward.unclaimed + d,
             r.last_update_time = last, g * liquidity <= emission, g * liquidity <= d * Q64
      PROVE  Covered(b, r, funds)
  <2> DEFINE G == reward.growth_global
             x == g * liquidity
  <2>1. Total(b, Nft) <= Total(c, Nft) + x
    <3>1. b = Worth(Word, Q64, position, growth_last, reward_owed, tick_current, G + g,
                    reward_outside)
      BY <1>5 DEF Due
    <3>2. c = Worth(Word, Q64, position, growth_last, reward_owed, tick_current, G,
                    reward_outside)
      BY DEF Due
    <3>3. /\ growth_last \in [Nft -> 0..(Word - 1)] /\ reward_owed \in [Nft -> Nat]
          /\ tick_current \in Int /\ G \in Int /\ \A t \in Ticks : reward_outside[t] \in Int
      BY <1>1, <1>2, RewardConstants DEF WorthsTyped, RewardRecord
    <3>4. liquidity = W(Covers(tick_current))  BY DEF BookInv, ActiveSum
    <3>5. Q64 \in Nat /\ Word \in Nat \ {0}  BY RewardConstants
    <3> HIDE DEF b, c, r, G
    <3>6. ASSUME NEW n \in Nft, HasStake(position, n)
          PROVE  Follows(Word, position[n].lower, position[n].upper, tick_current,
                         tick_current, G, G + g, reward_outside, reward_outside)
      <4>1. /\ position[n].lower \in Ticks /\ position[n].upper \in Ticks
            /\ position[n].lower < position[n].upper
        BY <1>0, <3>6, HoldsOpen DEF HasStake
      <4>2. position[n].lower \in Int /\ position[n].upper \in Int  BY <4>1, TicksType
      <4>3. \A v : LeftAlone(v, tick_current, tick_current, reward_outside, reward_outside)
        BY DEF LeftAlone
      <4>4. reward_outside[position[n].lower] \in Int /\ reward_outside[position[n].upper] \in Int
        BY <3>3, <4>1
      <4>5. G + g \in Int  BY <3>3
      <4> QED  BY <3>3, <3>5, <4>1, <4>2, <4>3, <4>4, <4>5, InsideFollows
    <3> QED  BY <1>0, <3>1, <3>2, <3>3, <3>4, <3>5, <3>6, WorthGrows DEF x
  <2>2. Total(b, Nft) \in Int /\ Total(c, Nft) \in Int
    <3>1. \A n \in Nft : b[n] \in Int /\ c[n] \in Int  BY <1>1, <1>2 DEF WorthsTyped
    <3> HIDE DEF b, c
    <3> QED  BY <1>1, <3>1, TotalType
  <2>3. ToEmit(r) = ToEmit(reward) - emission /\ ToEmit(reward) \in Nat
    <3>1. r.end_time = reward.end_time /\ r.emissions_per_second = reward.emissions_per_second
      BY <1>0, UpdatedKeeps
    <3>2. /\ reward.end_time \in Int /\ reward.last_update_time \in Int
          /\ reward.emissions_per_second \in Int /\ last \in Int
      <4>1. now \in Int  BY RewardConstants DEF RewardInv, RewardWords
      <4> QED  BY <1>2, <4>1, RewardConstants DEF RewardRecord, Latest
    <3> HIDE DEF last, r
    <3> QED  BY <1>2, <1>5, <3>1, <3>2, ToEmitType DEF ToEmit
  <2>4. /\ emission \in Int /\ x \in Int
        /\ x <= emission /\ x <= d * Q64
    <3>1. ToEmit(r) \in Nat  BY <1>2, ToEmitType
    <3>2. liquidity \in Nat  BY <1>0, LiquidityAssumption DEF TypeInv, TypeOK
    <3>3. x \in Nat  BY <3>2, TimesNat
    <3>4. emission \in Int
      <4>1. /\ reward.last_update_time \in Int /\ reward.emissions_per_second \in Int
            /\ last \in Int
        <5>1. now \in Int  BY RewardConstants DEF RewardInv, RewardWords
        <5> QED  BY <1>2, <5>1, RewardConstants DEF RewardRecord, Latest
      <4> HIDE DEF last
      <4> QED  BY <4>1
    <3> QED  BY <1>5, <3>3, <3>4
  <2>5. reward.unclaimed \in Int /\ funds \in Int
    BY <1>1, <1>2 DEF WorthsTyped, RewardRecord
  <2>6. Total(c, Nft) <= reward.unclaimed * Q64 /\ Total(c, Nft) + ToEmit(reward) <= funds * Q64
    BY <1>3 DEF Covered
  <2> HIDE DEF b, c, x, emission, funds
  <2>7. Total(c, Nft) + x <= (reward.unclaimed + d) * Q64
    <3> DEFINE s == Total(c, Nft)
               u == reward.unclaimed
    <3>1. s \in Int /\ u \in Int /\ d \in Int /\ x \in Int  BY <1>5, <2>2, <2>4, <2>5
    <3>2. s <= u * Q64 /\ x <= d * Q64  BY <2>4, <2>6
    <3> HIDE DEF s, u
    <3>3. s + x <= (u + d) * Q64  BY <3>1, <3>2, FundsGrow
    <3> QED  BY <3>3 DEF s, u
  <2>8. Total(b, Nft) <= (reward.unclaimed + d) * Q64
    <3> DEFINE y == (reward.unclaimed + d) * Q64
    <3>1. y \in Int  BY <2>5, RewardConstants
    <3>2. Total(c, Nft) + x <= y  BY <2>7
    <3> HIDE DEF y
    <3>3. Total(b, Nft) <= y  BY <2>1, <2>2, <2>4, <3>1, <3>2
    <3> QED  BY <3>3 DEF y
  <2>9. Total(b, Nft) + ToEmit(r) <= funds * Q64
    <3> DEFINE y == funds * Q64
    <3>1. y \in Int  BY <2>5, RewardConstants
    <3>2. Total(c, Nft) + ToEmit(reward) <= y  BY <2>6
    <3> HIDE DEF y, r
    <3>3. Total(b, Nft) + ToEmit(r) <= y  BY <2>1, <2>2, <2>3, <2>4, <3>1, <3>2
    <3> QED  BY <3>3 DEF y
  <2> QED  BY <1>5, <2>8, <2>9 DEF Covered
<1>6. CASE Emitting(reward) /\ liquidity = 0
  <2>1. r = [reward EXCEPT !.last_update_time = last]  BY <1>6 DEF Updated
  <2>2. /\ reward.growth_global \in Int /\ reward.unclaimed \in Int
        /\ reward.last_update_time <= last /\ emission \in Nat
    BY <1>0, <1>2, <1>6, EmissionType, RewardConstants DEF RewardRecord
  <2> HIDE DEF last, r
  <2>3. /\ r.growth_global = reward.growth_global + 0 /\ r.unclaimed = reward.unclaimed + 0
        /\ r.last_update_time = last
    BY <1>2, <2>1, <2>2 DEF RewardRecord
  <2> HIDE DEF emission
  <2>4. 0 * liquidity <= emission /\ 0 * liquidity <= 0 * Q64
    BY <1>6, <2>2, RewardConstants
  <2> QED  BY <1>5, <2>2, <2>3, <2>4, 0 \in Nat DEF r, last, emission
<1>7. CASE Emitting(reward) /\ liquidity # 0
  <2> DEFINE g == emission \div liquidity
             d == CeilDiv(emission, Q64)
  <2>1. r = [reward EXCEPT !.last_update_time = last,
                           !.growth_global = reward.growth_global + g,
                           !.unclaimed = reward.unclaimed + d]
    BY <1>7 DEF Updated
  <2>2. reward.last_update_time <= last /\ emission \in Nat
    BY <1>0, <1>7, EmissionType
  <2>3. liquidity \in Nat \ {0}  BY <1>0, <1>7, LiquidityAssumption DEF TypeInv, TypeOK
  <2> HIDE DEF last, r, emission
  <2>4. /\ g \in Nat /\ d \in Nat /\ g * liquidity <= emission /\ emission <= d * Q64
    BY <2>2, <2>3, QuotientBelow, CeilDivAbove
  <2> HIDE DEF g, d
  <2>5. /\ r.growth_global = reward.growth_global + g /\ r.unclaimed = reward.unclaimed + d
        /\ r.last_update_time = last
    BY <1>2, <2>1 DEF RewardRecord
  <2>6. g * liquidity <= d * Q64
    <3>1. g * liquidity \in Nat /\ d * Q64 \in Nat  BY <2>3, <2>4, RewardConstants, TimesNat
    <3> QED  BY <2>2, <2>4, <3>1
  <2> QED  BY <1>5, <2>2, <2>4, <2>5, <2>6 DEF r, last, emission
<1> QED  BY <1>4, <1>6, <1>7

(* What position m earned when the pool's reward is r.                     *)
Held(m, r) == Earned(Word, position, growth_last, tick_current, r.growth_global,
                     reward_outside, m)

(* An instruction leaves the ends of every other position's range alone,   *)
(* and so what that position earned when the reward was up to date.        *)
LEMMA OthersEarn ==
  ASSUME BookInv, BookInv', RewardInv, NEW m \in Nft, NEW r,
         position'[m] = position[m], growth_last'[m] = growth_last[m],
         tick_current' = tick_current, reward'.growth_global = r.growth_global,
         \/ reward_outside' = reward_outside
         \/ \E lower, upper \in Ticks, delta \in Int :
              /\ lower < upper
              /\ ModifyPosition(lower, upper, delta)
              /\ ModifyReward(lower, upper, delta)
  PROVE  Held(m, reward)' = Held(m, r)
<1> USE DEF Held
<1>1. CASE ~HasStake(position, m)  BY <1>1 DEF Earned, HasStake
<1>2. CASE HasStake(position, m)
  <2>1. StakesOnTicks /\ TypeInv  BY StakesStand DEF BookInv, FitInv
  <2>2. BookInv' => StakesOnTicks'  BY StakesStand, PTL
  <2>3. /\ position[m].lower \in Initialized /\ position[m].upper \in Initialized
        /\ liquidity_gross'[position[m].lower] # 0
        /\ liquidity_gross'[position[m].upper] # 0
    BY <1>2, <2>1, <2>2 DEF StakesOnTicks, HasStake, Initialized
  <2>4. /\ reward_outside'[position[m].lower] = reward_outside[position[m].lower]
        /\ reward_outside'[position[m].upper] = reward_outside[position[m].upper]
    BY <2>1, <2>3, ModifyLeavesEnds
  <2> QED  BY <1>2, <2>4 DEF Earned, HasStake, InsideAt, BelowAt, AboveAt
<1> QED  BY <1>1, <1>2

(* Where a position keeps liquidity, what the protocol position shows is   *)
(* what is inside the range with the reward up to date: of the ticks that  *)
(* the instruction leaves and, if it had liquidity before, of the ticks    *)
(* that it found.                                                          *)
LEMMA ModifyShowsInside ==
  ASSUME TypeInv, TypeInv', NEW lower \in Ticks, NEW upper \in Ticks, lower < upper,
         RewardInv, NEW delta \in Int, ModifyPosition(lower, upper, delta),
         ModifyReward(lower, upper, delta)
  PROVE  LET G == Updated(reward).growth_global
         IN  /\ lower \in Initialized /\ upper \in Initialized =>
                  protocol_growth'[<<lower, upper>>]
                    = InsideAt(tick_current, G, reward_outside, lower, upper, Word)
             /\ liquidity_gross'[lower] # 0 /\ liquidity_gross'[upper] # 0 =>
                  protocol_growth'[<<lower, upper>>]
                    = InsideAt(tick_current, G, reward_outside', lower, upper, Word)
<1> DEFINE r == Updated(reward)
           outside == OutsideUpdated(r, lower, upper, delta)
           range == <<lower, upper>>
           G == r.growth_global
<1>1. range \in Ranges  BY DEF Ranges
<1>2. protocol_growth'[range] = GrowthInside(r, outside, lower, upper)
  BY <1>1 DEF ModifyReward, RewardInv, RewardWords
<1>3. /\ r \in RewardRecord /\ GrowthOk(r, reward_outside)
      /\ reward_outside \in [Ticks -> Nat]
  BY UpdatedKeeps DEF ModifyReward, RewardInv, RewardWords
<1>4. outside[lower] \in Nat /\ outside[upper] \in Nat /\ GrowthOk(r, outside)
  <2> HIDE DEF r
  <2>1. r.growth_global \in Nat  BY <1>3, RewardConstants DEF RewardRecord
  <2>2. \A t \in Ticks : outside[t] = r.growth_global \/ outside[t] = reward_outside[t]
    BY DEF OutsideUpdated
  <2> HIDE DEF outside
  <2> QED  BY <1>3, <2>1, <2>2 DEF GrowthOk
<1>5. GrowthInside(r, outside, lower, upper)
        = InsideAt(tick_current, G, outside, lower, upper, Word)
  <2> HIDE DEF r, outside
  <2>1. CASE r.initialized
    BY <2>1 DEF GrowthInside, Wrapped, InsideAt, GrowthBelow, GrowthAbove, BelowAt, AboveAt
  <2>2. CASE ~r.initialized
    <3>1. G = 0 /\ outside[lower] = 0 /\ outside[upper] = 0
      BY <1>4, <2>2 DEF GrowthOk
    <3>2. BelowAt(tick_current, G, outside, lower) = 0
            /\ AboveAt(tick_current, G, outside, upper) = 0
      BY <3>1 DEF BelowAt, AboveAt
    <3>3. 0 - 0 - 0 = 0 /\ 0 % Word = 0  BY RewardConstants
    <3> QED  BY <2>2, <3>1, <3>2, <3>3 DEF GrowthInside, InsideAt
  <2> QED  BY <2>1, <2>2
<1>6. \A O, O2 : O[lower] = O2[lower] /\ O[upper] = O2[upper] =>
        InsideAt(tick_current, G, O, lower, upper, Word)
          = InsideAt(tick_current, G, O2, lower, upper, Word)
  BY DEF InsideAt, BelowAt, AboveAt
<1>7. ASSUME lower \in Initialized, upper \in Initialized
      PROVE  outside[lower] = reward_outside[lower] /\ outside[upper] = reward_outside[upper]
  BY <1>7 DEF OutsideUpdated, Initialized
<1>8. ASSUME NEW t \in {lower, upper}, liquidity_gross'[t] # 0
      PROVE  reward_outside'[t] = outside[t]
  <2>1. liquidity_gross \in [Ticks -> Nat] /\ liquidity_gross' \in [Ticks -> Nat]
    BY LiquidityAssumption DEF TypeInv, TypeOK
  <2>2. lower # upper  BY TicksType
  <2>3. liquidity_gross'[t] = liquidity_gross[t] + delta
    BY <2>1, <2>2 DEF ModifyPosition
  <2>4. ~(delta < 0 /\ Flipped(t, delta))
    BY <1>8, <2>1, <2>3 DEF Flipped
  <2> QED  BY <2>4 DEF ModifyReward
<1> HIDE DEF outside, r
<1>9. ASSUME lower \in Initialized, upper \in Initialized
      PROVE  protocol_growth'[range]
               = InsideAt(tick_current, G, reward_outside, lower, upper, Word)
  BY <1>2, <1>5, <1>6, <1>7, <1>9
<1>10. ASSUME liquidity_gross'[lower] # 0, liquidity_gross'[upper] # 0
       PROVE  protocol_growth'[range]
                = InsideAt(tick_current, G, reward_outside', lower, upper, Word)
  BY <1>2, <1>5, <1>6, <1>8, <1>10
<1> QED  BY <1>9, <1>10 DEF r

(* A position that is up to date has earned nothing since.                 *)
LEMMA CaughtUp ==
  ASSUME StakesOnTicks', TypeInv, TypeInv', RewardInv, RewardInv', NEW n \in Nft,
         NEW lower \in Ticks, NEW upper \in Ticks, lower < upper, NEW delta \in Int,
         ModifyPosition(lower, upper, delta), ModifyReward(lower, upper, delta),
         reward'.growth_global = Updated(reward).growth_global,
         position'[n] # NoPosition, position'[n].lower = lower, position'[n].upper = upper,
         growth_last'[n] = protocol_growth'[<<lower, upper>>]
  PROVE  Held(n, reward)' = 0
<1> USE DEF Held
<1>1. CASE ~HasStake(position', n)  BY <1>1 DEF Earned
<1>2. CASE HasStake(position', n)
  <2>1. liquidity_gross'[lower] # 0 /\ liquidity_gross'[upper] # 0
    BY <1>2 DEF StakesOnTicks, HasStake, Initialized
  <2>2. tick_current' = tick_current  BY DEF ModifyPosition
  <2>3. growth_last'[n] = InsideAt(tick_current', reward'.growth_global, reward_outside',
                                   lower, upper, Word)
    BY <2>1, <2>2, ModifyShowsInside
  <2>4. growth_last'[n] \in Int  BY RewardConstants DEF RewardInv, RewardWords
  <2>5. Wrapped(growth_last'[n] - growth_last'[n]) = 0
    <3> DEFINE g == growth_last'[n]
    <3>1. g - g = 0  BY <2>4
    <3>2. 0 % Word = 0  BY RewardConstants
    <3> QED  BY <3>1, <3>2 DEF Wrapped
  <2>6. position'[n].liquidity \in Int
    BY <1>2, LiquidityAssumption DEF HasStake, TypeInv, TypeOK, Position
  <2> QED  BY <1>2, <2>3, <2>5, <2>6 DEF Earned, Wrapped
<1> QED  BY <1>1, <1>2

(* What an instruction credits to a position is no more than it earned.    *)
LEMMA CreditBelow ==
  ASSUME BookInv, RewardInv, RewardInv', TypeInv', NEW n \in Nft,
         position[n] # NoPosition, NEW delta \in Int,
         ModifyPosition(position[n].lower, position[n].upper, delta),
         ModifyReward(position[n].lower, position[n].upper, delta)
  PROVE  \E credit \in Nat :
           /\ OwedAfter(n) = reward_owed[n] + credit
           /\ credit * Q64 <= Held(n, Updated(reward))
<1> DEFINE lower == position[n].lower
           upper == position[n].upper
           x == Wrapped(Caught(n) - growth_last[n]) * position[n].liquidity
<1>1. TypeInv /\ StakesOnTicks  BY StakesStand DEF BookInv, FitInv
<1>2. /\ lower \in Ticks /\ upper \in Ticks /\ lower < upper
      /\ position[n].liquidity \in Nat
  BY <1>1, HoldsOpen
<1>3. Caught(n) \in Int /\ growth_last[n] \in Int
  BY <1>2, RewardConstants DEF Caught, Ranges, RewardInv, RewardWords
<1>4. Wrapped(Caught(n) - growth_last[n]) \in Nat
  BY <1>3, WrappedType, RewardConstants
<1>5. x \in Nat  BY <1>2, <1>4, TimesNat
<1>6. OwedAfter(n) = reward_owed[n] + x \div Q64  BY DEF OwedAfter
<1>7. x \div Q64 \in Nat /\ (x \div Q64) * Q64 <= x
  <2> HIDE DEF x
  <2> QED  BY <1>5, QuotientBelow, RewardConstants
<1>8. x = Held(n, Updated(reward))
  <2>1. CASE HasStake(position, n)
    <3>1. lower \in Initialized /\ upper \in Initialized
      BY <1>1, <2>1 DEF StakesOnTicks
    <3>2. Caught(n) = InsideAt(tick_current, Updated(reward).growth_global, reward_outside,
                               lower, upper, Word)
      BY <1>1, <1>2, <3>1, ModifyShowsInside DEF Caught
    <3> QED  BY <2>1, <3>2 DEF Held, Earned, Wrapped
  <2>2. CASE ~HasStake(position, n)
    <3>1. position[n].liquidity = 0  BY <1>2, <2>2 DEF HasStake
    <3>2. x = 0  BY <1>4, <3>1
    <3> QED  BY <2>2, <3>2 DEF Held, Earned
  <2> QED  BY <2>1, <2>2
<1> HIDE DEF x
<1> QED  BY <1>6, <1>7, <1>8

(* Outside a swap there is one worth.                                      *)
PoolCovered == Covered(Due(reward), reward, vault + shortfall)

LEMMA IdleCovers == swap.phase = "idle" /\ PoolCovered => CoverInv
BY DEF PoolCovered, CoverInv, Walking, Due, WalkWorth, Tick, Reward, Outside

(* What an instruction has to show that first makes r of the reward and    *)
(* then sees to one position.                                              *)
LEMMA InstructionCovers ==
  ASSUME TypeInv, TypeInv', RewardInv, RewardInv', swap'.phase = "idle",
         UNCHANGED shortfall,
         NEW r \in RewardRecord, ScheduleOk(r), Covered(Due(r), r, vault + shortfall),
         SameSchedule(reward', r), NEW n \in Nft, NEW paid \in Nat,
         reward'.unclaimed = r.unclaimed - paid, vault' = vault - paid,
         \A m \in Nft : m # n =>
           reward_owed'[m] = reward_owed[m] /\ Held(m, reward)' = Held(m, r),
         (reward_owed'[n] + paid) * Q64 + Held(n, reward)'
           <= reward_owed[n] * Q64 + Held(n, r)
  PROVE  CoverInv'
<1> DEFINE b == Due(reward)'
           c == Due(r)
           u == r.unclaimed
           funds == vault + shortfall
           rest == ToEmit(r)
<1>1. WorthsTyped /\ IsFiniteSet(Nft)  BY StateTyped, NftAssumption
<1>2. WorthsTyped'
  <2>1. TypeInv' /\ RewardInv' => WorthsTyped'  BY StateTyped, PTL
  <2> QED  BY <2>1
<1>3. \A m \in Nft : b[m] \in Int /\ c[m] \in Int
  BY <1>1, <1>2 DEF WorthsTyped, SameSchedule
<1>4. \A m \in Nft : /\ c[m] = reward_owed[m] * Q64 + Held(m, r)
                     /\ b[m] = reward_owed'[m] * Q64 + Held(m, reward)'
  BY DEF Due, Worth, Held
<1>5. \A m \in Nft : m # n => b[m] <= c[m]
  <2> SUFFICES ASSUME NEW m \in Nft, m # n PROVE b[m] <= c[m]  OBVIOUS
  <2>1. b[m] = c[m]  BY <1>4
  <2> QED  BY <1>3, <2>1
<1>6. b[n] + paid * Q64 <= c[n]
  <2> DEFINE e == Held(n, r)
             e2 == Held(n, reward)'
             o == reward_owed[n]
             o2 == reward_owed'[n]
  <2>1. /\ o \in Nat /\ o2 \in Nat /\ e \in Nat /\ e2 \in Nat
    BY <1>1, <1>2 DEF WorthsTyped, Held
  <2>2. c[n] = o * Q64 + e /\ b[n] = o2 * Q64 + e2 /\ (o2 + paid) * Q64 + e2 <= o * Q64 + e
    BY <1>4
  <2> HIDE DEF o, o2, e, e2, b, c
  <2>3. (o2 + paid) * Q64 = o2 * Q64 + paid * Q64  BY <2>1, RewardConstants
  <2>4. o2 * Q64 \in Nat /\ paid * Q64 \in Nat /\ o * Q64 \in Nat
    BY <2>1, RewardConstants, TimesNat
  <2> QED  BY <2>1, <2>2, <2>3, <2>4
<1>7. Total(c, Nft) <= u * Q64 /\ Total(c, Nft) + rest <= funds * Q64  BY DEF Covered
<1>8. rest \in Nat /\ u \in Nat /\ funds \in Nat
  BY <1>1, ToEmitType DEF RewardRecord, WorthsTyped
<1>9. ToEmit(reward') = rest  BY DEF ToEmit, SameSchedule
<1>10. vault' + shortfall' = funds - paid  BY <1>1 DEF WorthsTyped
<1> HIDE DEF b, c, u, funds, rest
<1>11. Total(b, Nft) <= Total(c, Nft) + (b[n] - c[n])
  BY <1>1, <1>3, <1>5, TotalOneChange
<1>12. Total(b, Nft) \in Int /\ Total(c, Nft) \in Int  BY <1>1, <1>3, TotalType
<1>13. /\ (u - paid) * Q64 = u * Q64 - paid * Q64
       /\ (funds - paid) * Q64 = funds * Q64 - paid * Q64
       /\ u * Q64 \in Int /\ funds * Q64 \in Int /\ paid * Q64 \in Int
  BY <1>8, RewardConstants
<1>14. Total(b, Nft) <= Total(c, Nft) - paid * Q64
  BY <1>3, <1>6, <1>11, <1>12, <1>13
<1>15. /\ Total(b, Nft) <= (u - paid) * Q64
       /\ Total(b, Nft) + rest <= (funds - paid) * Q64
  BY <1>7, <1>8, <1>12, <1>13, <1>14
<1>16. PoolCovered'
  BY <1>9, <1>10, <1>15 DEF PoolCovered, Covered, ToEmit, b, u
<1>17. (swap.phase = "idle" /\ PoolCovered => CoverInv)'  BY IdleCovers, PTL
<1> QED  BY <1>16, <1>17

(* What a change of the schedule has to show: nobody's worth changes, and  *)
(* what is left to emit grows by no more than what is paid for.            *)
LEMMA DepositCovers ==
  ASSUME TypeInv, RewardInv, swap'.phase = "idle",
         UNCHANGED <<position, growth_last, reward_owed, tick_current, reward_outside>>,
         NEW r \in RewardRecord, ScheduleOk(r), Covered(Due(r), r, vault + shortfall),
         reward'.growth_global = r.growth_global, reward'.unclaimed = r.unclaimed,
         NEW d \in Nat, vault' + shortfall' = vault + shortfall + d,
         ToEmit(reward') \in Nat, ToEmit(reward') <= ToEmit(r) + d * Q64
  PROVE  CoverInv'
<1> DEFINE c == Due(r)
           funds == vault + shortfall
           rest == ToEmit(r)
           rest2 == ToEmit(reward')
<1>1. WorthsTyped /\ IsFiniteSet(Nft)  BY StateTyped, NftAssumption
<1>2. Total(c, Nft) <= r.unclaimed * Q64 /\ Total(c, Nft) + rest <= funds * Q64
  BY DEF Covered
<1>3. Due(reward)' = c  BY DEF Due
<1>4. Total(c, Nft) \in Int
  <2>1. \A n \in Nft : c[n] \in Int  BY <1>1 DEF WorthsTyped
  <2> HIDE DEF c
  <2> QED  BY <1>1, <2>1, TotalType
<1>5. funds \in Int /\ rest \in Int  BY <1>1, ToEmitType DEF WorthsTyped
<1>6. Total(c, Nft) + rest2 <= (funds + d) * Q64
  <2> HIDE DEF c, funds, rest, rest2
  <2>1. d * Q64 \in Int /\ rest2 \in Int  BY RewardConstants DEF rest2
  <2>2. (Total(c, Nft) + rest) + d * Q64 <= (funds + d) * Q64
    <3>1. Total(c, Nft) + rest \in Int /\ d * Q64 <= d * Q64 /\ d \in Int
      BY <1>4, <1>5, <2>1
    <3> QED  BY <1>2, <1>5, <2>1, <3>1, FundsGrow
  <2>3. (funds + d) * Q64 \in Int  BY <1>5, RewardConstants
  <2>4. rest2 <= rest + d * Q64  BY DEF rest, rest2
  <2> QED  BY <1>4, <1>5, <2>1, <2>2, <2>3, <2>4
<1>7. PoolCovered'  BY <1>2, <1>3, <1>6 DEF PoolCovered, Covered, ToEmit
<1>8. (swap.phase = "idle" /\ PoolCovered => CoverInv)'  BY IdleCovers, PTL
<1> QED  BY <1>7, <1>8

(* A new cycle: all that it emits is paid for, or counted as missing.      *)
LEMMA StartCovers ==
  ASSUME TypeInv, RewardInv, swap'.phase = "idle",
         UNCHANGED <<position, growth_last, reward_owed, tick_current, reward_outside>>,
         NEW r \in RewardRecord, ScheduleOk(r), Covered(Due(r), r, vault + shortfall),
         NEW open_time \in 0..MaxTime, NEW end_time \in 0..MaxTime, open_time < end_time,
         NEW emissions \in Nat,
         reward'.growth_global = r.growth_global, reward'.unclaimed = r.unclaimed,
         reward'.last_update_time = open_time, reward'.end_time = end_time,
         reward'.emissions_per_second = emissions,
         NEW d \in Nat, CeilDiv((end_time - open_time) * emissions, Q64) <= d,
         vault' + shortfall' = vault + shortfall + d
  PROVE  CoverInv'
<1> DEFINE x == (end_time - open_time) * emissions
           least == CeilDiv(x, Q64)
<1>1. x \in Nat  BY DepositType
<1>2. ToEmit(reward') = x  BY DEF ToEmit
<1>3. ToEmit(r) \in Nat  BY ToEmitType
<1>4. least <= d  OBVIOUS
<1> HIDE DEF x
<1>5. least \in Nat /\ x <= least * Q64  BY <1>1, CeilDivAbove
<1> HIDE DEF least
<1>6. x <= d * Q64 /\ d * Q64 \in Nat
  <2>1. d - least \in Nat /\ d * Q64 = least * Q64 + (d - least) * Q64
    BY <1>4, <1>5, RewardConstants
  <2>2. least * Q64 \in Nat /\ (d - least) * Q64 \in Nat
    BY <1>5, <2>1, RewardConstants, TimesNat
  <2> QED  BY <1>1, <1>5, <2>1, <2>2
<1>7. ToEmit(reward') <= ToEmit(r) + d * Q64  BY <1>1, <1>2, <1>3, <1>6
<1> QED  BY <1>1, <1>2, <1>7, DepositCovers

(* A quotient rounded down lacks at most one unit.                         *)
LEMMA InexactAbove ==
  ASSUME NEW x \in Nat
  PROVE  /\ x \div Q64 + Inexact(x) \in Nat
         /\ x <= (x \div Q64 + Inexact(x)) * Q64
<1> DEFINE q == x \div Q64
           z == x % Q64
           i == Inexact(x)
<1>1. Q64 \in Nat \ {0}  BY RewardConstants
<1>2. z \in 0..(Q64 - 1) /\ x = Q64 * q + z  BY <1>1, ModBounds
<1>3. q \in Nat  BY <1>1, DivNat
<1>4. i = (IF z = 0 THEN 0 ELSE 1)  BY DEF Inexact
<1> HIDE DEF q, z, i
<1>5. q + i \in Nat /\ i \in Nat /\ z <= i * Q64
  <2>1. 0 * Q64 = 0 /\ 1 * Q64 = Q64  BY <1>1
  <2> QED  BY <1>1, <1>2, <1>3, <1>4, <2>1
<1>6. (q + i) * Q64 = Q64 * q + i * Q64  BY <1>1, <1>3, <1>5
<1>7. Q64 * q \in Nat /\ i * Q64 \in Nat  BY <1>1, <1>3, <1>5, TimesNat
<1> QED  BY <1>1, <1>2, <1>5, <1>6, <1>7 DEF q, i

(* A cycle changed at this moment: the higher rate to the old end and the  *)
(* extension at the new rate pay for what is left to emit beyond what was. *)
LEMMA ExtendCovers ==
  ASSUME TypeInv, RewardInv, swap'.phase = "idle",
         UNCHANGED <<position, growth_last, reward_owed, tick_current, reward_outside>>,
         NEW r \in RewardRecord, ScheduleOk(r), Covered(Due(r), r, vault + shortfall),
         r.last_update_time = now,
         NEW end_time \in 0..MaxTime, now <= end_time, NEW emissions \in Nat,
         reward'.growth_global = r.growth_global, reward'.unclaimed = r.unclaimed,
         reward'.last_update_time = now, reward'.end_time = end_time,
         reward'.emissions_per_second = emissions,
         NEW x, x = (r.end_time - now) * Raise(r, emissions),
         NEW y, y = ExtensionOf(r, end_time) * emissions,
         vault' + shortfall' =
           vault + shortfall + (x \div Q64 + y \div Q64 + (Inexact(x) + Inexact(y)))
  PROVE  CoverInv'
<1> DEFINE a == r.end_time - now
           k == ExtensionOf(r, end_time)
           raise == Raise(r, emissions)
           eps == r.emissions_per_second
           left == end_time - now
           dx == x \div Q64 + Inexact(x)
           dy == y \div Q64 + Inexact(y)
<1>1. /\ now \in 0..MaxTime /\ r.end_time \in 0..MaxTime /\ eps \in Nat
      /\ vault \in Nat /\ shortfall \in Nat /\ now <= r.end_time
  BY DEF RewardInv, RewardWords, RewardRecord, ScheduleOk
<1>2. /\ a \in Nat /\ left \in Nat /\ k \in Nat /\ raise \in Nat
      /\ left <= a + k /\ emissions <= eps + raise
  <2>1. now \in Int /\ r.end_time \in Int /\ end_time \in Int  BY <1>1, RewardConstants
  <2> QED  BY <1>1, <2>1 DEF ExtensionOf, Raise
<1>3. x = a * raise /\ y = k * emissions /\ ToEmit(r) = a * eps /\ ToEmit(reward') = left * emissions
  BY DEF ToEmit
<1> HIDE DEF a, k, raise, eps, left
<1>4. x \in Nat /\ y \in Nat /\ a * eps \in Nat /\ left * emissions \in Nat
  BY <1>1, <1>2, <1>3, TimesNat
<1>5. left * emissions <= a * eps + x + y
  <2>1. left * emissions <= (a + k) * emissions
    <3> DEFINE e == a + k - left
    <3>1. e \in Nat /\ a + k = left + e  BY <1>2
    <3> HIDE DEF e
    <3>2. (left + e) * emissions = left * emissions + e * emissions  BY <1>2, <3>1
    <3>3. e * emissions \in Nat  BY <3>1, TimesNat
    <3> QED  BY <1>4, <3>1, <3>2, <3>3
  <2>2. (a + k) * emissions = a * emissions + k * emissions  BY <1>2
  <2>3. a * emissions <= a * (eps + raise)
    <3> DEFINE e == eps + raise - emissions
    <3>1. e \in Nat /\ eps + raise = emissions + e  BY <1>1, <1>2
    <3> HIDE DEF e
    <3>2. a * (emissions + e) = a * emissions + a * e  BY <1>2, <3>1
    <3>3. a * e \in Nat /\ a * emissions \in Nat  BY <1>2, <3>1, TimesNat
    <3> QED  BY <3>1, <3>2, <3>3
  <2>4. a * (eps + raise) = a * eps + a * raise  BY <1>1, <1>2
  <2>5. a * emissions \in Nat /\ k * emissions \in Nat /\ a * raise \in Nat
    BY <1>2, TimesNat
  <2> QED  BY <1>3, <1>4, <2>1, <2>2, <2>3, <2>4, <2>5
<1>6. /\ dx \in Nat /\ x <= dx * Q64 /\ dy \in Nat /\ y <= dy * Q64
  BY <1>4, InexactAbove
<1>7. vault' + shortfall' = vault + shortfall + (dx + dy)
  <2>1. x \div Q64 \in Nat /\ y \div Q64 \in Nat  BY <1>4, DivNat, RewardConstants
  <2>2. Inexact(x) \in Nat /\ Inexact(y) \in Nat  BY DEF Inexact
  <2> QED  BY <1>1, <2>1, <2>2
<1> HIDE DEF dx, dy
<1>8. (dx + dy) * Q64 = dx * Q64 + dy * Q64 /\ dx * Q64 \in Nat /\ dy * Q64 \in Nat
  BY <1>6, RewardConstants, TimesNat
<1>9. ToEmit(reward') <= ToEmit(r) + (dx + dy) * Q64
  BY <1>3, <1>4, <1>5, <1>6, <1>8
<1>10. dx + dy \in Nat /\ ToEmit(reward') \in Nat  BY <1>3, <1>4, <1>6
<1> QED  BY <1>7, <1>9, <1>10, DepositCovers

(* A turn of the swap loop emits nothing, and nobody earns from it.        *)
LEMMA StepCovers ==
  ASSUME BookInv, BookInv', RewardInv, RewardInv', CoverInv,
         NEW a \in ArrayStarts, NEW t \in Ticks, NEW p \in Prices,
         NEW spent \in BOOLEAN, RewardSwapStep(a, t, p, spent)
  PROVE  CoverInv'
<1> DEFINE b == WalkWorth'
           c == WalkWorth
           G == Reward.growth_global
<1>1. /\ swap.phase = "walking" /\ swap'.phase # "idle"
      /\ position' = position /\ tick_current' = tick_current
      /\ walk'.reward = walk.reward
      /\ UNCHANGED <<now, reward, vault, reward_outside, positionRewardVars, shortfall>>
  <2>1. SwapStep(a, t, p, spent)  BY DEF RewardSwapStep
  <2>2. /\ swap.phase = "walking" /\ swap'.phase # "idle"
        /\ position' = position /\ tick_current' = tick_current
    BY <2>1 DEF SwapStep, poolVars, BookInv, FitInv, TypeInv, TypeOK, SwapState
  <2>3. walk'.reward = walk.reward  BY DEF RewardSwapStep, RewardInv, RewardWords
  <2> QED  BY <2>2, <2>3 DEF RewardSwapStep
<1>2. TypeInv /\ TypeInv' /\ EndsInitialized /\ StakesOnTicks
  BY RangeEnds, StakesStand DEF BookInv, FitInv
<1>3. WorthsTyped /\ IsFiniteSet(Nft)  BY <1>2, StateTyped, NftAssumption
<1>4. WorthsTyped'
  <2>1. TypeInv' /\ RewardInv' => WorthsTyped'  BY StateTyped, PTL
  <2> QED  BY <1>2, <2>1
<1>5. Reward' = Reward  BY <1>1 DEF Reward, Walking
<1>6. ASSUME NEW n \in Nft, HasStake(position, n)
      PROVE  Follows(Word, position[n].lower, position[n].upper, Tick, Tick',
                     G, G + 0, Outside, Outside')
  <2>0. PICK r : r = <<position[n].lower, position[n].upper>>  OBVIOUS
  <2>1. /\ r[1] \in Ticks /\ r[2] \in Ticks /\ r[1] < r[2]
        /\ position[n].liquidity \in 0..MaxLiquidity
    BY <1>2, <1>6, <2>0, HoldsOpen DEF HasStake, TypeInv, TypeOK, Position
  <2>2. r \in Ranges  BY <2>0, <2>1 DEF Ranges
  <2>3. protocol_liquidity[r] > 0
    <3>1. n \in Within(position, {r})  BY <1>6, <2>0 DEF HasStake, Within
    <3>2. {n} \subseteq Within(position, {r}) /\ Within(position, {r}) \subseteq Nft
      BY <3>1 DEF Within
    <3>3. Sum(position, {n}) <= W({r})  BY <3>2, SumMonotone DEF W
    <3>4. Sum(position, {n}) = position[n].liquidity  BY <2>1, SumSingle
    <3>5. protocol_liquidity[r] = W({r}) /\ W({r}) \in Nat
      BY <2>2, WType DEF BookInv, LedgerSums
    <3>6. position[n].liquidity \in Nat /\ position[n].liquidity > 0
      BY <1>6, <2>1, LiquidityAssumption DEF HasStake
    <3> QED  BY <3>3, <3>4, <3>5, <3>6
  <2>4. Moves(r)  BY <1>2, <2>2, <2>3, StepMoves
  <2>5. /\ Inside(r[1], r[2]) = InsideAt(Tick, G, Outside, r[1], r[2], Word)
        /\ Inside(r[1], r[2])' = InsideAt(Tick', G, Outside', r[1], r[2], Word)
    BY <1>5 DEF Inside, Wrapped, InsideAt, BelowAt, AboveAt
  <2>6. G + 0 = G /\ G - G = 0 /\ Reward'.growth_global - Reward.growth_global = 0
    BY <1>3, <1>5 DEF WorthsTyped
  <2> HIDE DEF G
  <2>7. InsideAt(Tick', G, Outside', r[1], r[2], Word)
          = (InsideAt(Tick, G, Outside, r[1], r[2], Word)
               + (IF r[1] <= Tick /\ Tick < r[2] THEN 0 ELSE 0)) % Word
    BY <2>4, <2>5, <2>6 DEF Moves, Wrapped
  <2> QED  BY <2>0, <2>6, <2>7 DEF Follows
<1>7. Total(b, Nft) <= Total(c, Nft) + 0 * W(Covers(Tick))
  <2>1. G + 0 = G  BY <1>3 DEF WorthsTyped
  <2>2. b = Worth(Word, Q64, position, growth_last, reward_owed, Tick', G + 0, Outside')
    BY <1>1, <1>5, <2>1 DEF WalkWorth, positionRewardVars
  <2>3. c = Worth(Word, Q64, position, growth_last, reward_owed, Tick, G, Outside)
    BY DEF WalkWorth
  <2>4. /\ growth_last \in [Nft -> 0..(Word - 1)] /\ reward_owed \in [Nft -> Nat]
        /\ Tick \in Int /\ Tick' \in Int /\ G \in Int
        /\ \A v \in Ticks : Outside[v] \in Int /\ Outside'[v] \in Int
    BY <1>3, <1>4 DEF WorthsTyped
  <2>5. Q64 \in Nat /\ Word \in Nat \ {0} /\ 0 \in Nat  BY RewardConstants
  <2> HIDE DEF b, c, G
  <2> QED  BY <1>2, <1>6, <2>2, <2>3, <2>4, <2>5, WorthGrows
<1>8. Total(b, Nft) \in Int /\ Total(c, Nft) \in Int /\ W(Covers(Tick)) \in Int
  <2>1. \A n \in Nft : b[n] \in Int /\ c[n] \in Int  BY <1>3, <1>4 DEF WorthsTyped
  <2>2. W(Covers(Tick)) \in Int
    <3>1. W(Covers(Tick)) = swap.liquidity /\ swap.liquidity \in Nat
      BY <1>1, <1>2, LiquidityAssumption
      DEF Tick, Walking, BookInv, WalkSum, TypeInv, TypeOK, SwapState
    <3> QED  BY <3>1
  <2> HIDE DEF b, c
  <2> QED  BY <1>3, <2>1, <2>2, TotalType
<1> DEFINE u == Reward.unclaimed
           left == ToEmit(Reward)
           funds == vault + shortfall
<1>9. /\ Total(c, Nft) <= u * Q64 /\ Total(c, Nft) + left <= funds * Q64
      /\ left \in Int /\ u * Q64 \in Int /\ funds * Q64 \in Int
  <2>1. Total(c, Nft) <= u * Q64 /\ Total(c, Nft) + left <= funds * Q64
    BY DEF CoverInv, Covered
  <2>2. left \in Int /\ u \in Int /\ funds \in Int
    BY <1>3, ToEmitType DEF WorthsTyped, RewardRecord
  <2> HIDE DEF left, u, funds, c
  <2> QED  BY <2>1, <2>2, RewardConstants
<1>10. ToEmit(Reward') = left /\ Reward'.unclaimed = u /\ vault' + shortfall' = funds
  BY <1>1, <1>5
<1> HIDE DEF b, c, left, u, funds
<1>11. Total(b, Nft) <= u * Q64 /\ Total(b, Nft) + left <= funds * Q64
  <2>1. Total(b, Nft) <= Total(c, Nft)  BY <1>7, <1>8
  <2> QED  BY <1>8, <1>9, <2>1
<1>12. Covered(WalkWorth, Reward, vault + shortfall)'
  BY <1>10, <1>11 DEF Covered, ToEmit, b
<1>13. Covered(Due(reward), reward, vault + shortfall)'
  BY <1>1 DEF CoverInv, Covered, Due, ToEmit, positionRewardVars
<1> QED  BY <1>12, <1>13 DEF CoverInv

LEMMA InitCovers == RewardInit => CoverInv
<1> SUFFICES ASSUME RewardInit PROVE CoverInv  OBVIOUS
<1>1. ~Walking /\ reward = NoReward /\ vault = 0 /\ shortfall = 0
  BY DEF RewardInit, Init, IdleSwap, Walking
<1>2. \A n \in Nft : reward_owed[n] = 0 /\ ~HasStake(position, n)
  BY DEF RewardInit, Init, HasStake
<1> DEFINE c == Due(reward)
<1>3. WalkWorth = c /\ Reward = reward
  BY <1>1 DEF WalkWorth, Due, Tick, Reward, Outside
<1>4. \A n \in Nft : c[n] = 0
  BY <1>2, RewardConstants DEF Due, Worth, Earned
<1>5. IsFiniteSet(Nft)  BY NftAssumption
<1> HIDE DEF c
<1>6. Total(c, Nft) <= 0 /\ Total(c, Nft) \in Int
  <2>1. \A n \in Nft : c[n] \in Int /\ c[n] \in Int /\ c[n] \in Int  BY <1>4
  <2>2. \A n \in Nft : 2 * c[n] <= c[n] + 0 * c[n]  BY <1>4
  <2>3. 2 * Total(c, Nft) <= Total(c, Nft) + 0 * Total(c, Nft)
    BY ONLY <1>5, <2>1, <2>2, 0 \in Int, 2 \in Int, TotalBounded
  <2>4. Total(c, Nft) \in Int  BY <1>5, <2>1, TotalType
  <2> QED  BY <2>3, <2>4
<1>7. /\ ToEmit(reward) = 0 /\ reward.unclaimed * Q64 = 0
      /\ (vault + shortfall) * Q64 = 0
  BY <1>1, RewardConstants DEF ToEmit, NoReward
<1>8. Covered(c, reward, vault + shortfall)  BY <1>6, <1>7 DEF Covered
<1> QED  BY <1>3, <1>8 DEF CoverInv, c

(* Adding, removing and collecting on position n: growth is credited, and  *)
(* paid leaves what is owed, the unclaimed emission and the vault alike.   *)
LEMMA ModifyCovers ==
  ASSUME BookInv, BookInv', RewardInv, RewardInv', CoverInv, swap.phase = "idle",
         NEW n \in Nft, NEW delta \in Int, position[n] # NoPosition,
         position[n].liquidity + delta \in 0..MaxLiquidity,
         ModifyPosition(position[n].lower, position[n].upper, delta),
         ModifyReward(position[n].lower, position[n].upper, delta),
         position' = [position EXCEPT ![n].liquidity = position[n].liquidity + delta],
         growth_last' = [growth_last EXCEPT ![n] = Caught(n)],
         SameSchedule(reward', Updated(reward)), UNCHANGED shortfall,
         NEW paid \in Nat, NEW left \in Nat, left + paid = OwedAfter(n),
         reward_owed' = [reward_owed EXCEPT ![n] = left],
         reward'.unclaimed = Updated(reward).unclaimed - paid, vault' = vault - paid
  PROVE  CoverInv'
<1> DEFINE r == Updated(reward)
<1>0. TypeInv /\ TypeInv' /\ UpdateOk(reward) /\ StakesOnTicks'
  <2>1. BookInv' => StakesOnTicks'  BY StakesStand, PTL
  <2> QED  BY <2>1 DEF BookInv, FitInv, ModifyReward
<1>1. r \in RewardRecord /\ ScheduleOk(r)  BY <1>0, UpdatedKeeps
<1>2. Covered(Due(r), r, vault + shortfall)  BY <1>0, UpdateCovers
<1>3. /\ position \in Positions /\ reward_owed \in [Nft -> Nat]
      /\ growth_last \in [Nft -> 0..(Word - 1)]
  BY <1>0 DEF TypeInv, TypeOK, Positions, RewardInv, RewardWords
<1>4. /\ position[n].lower \in Ticks /\ position[n].upper \in Ticks
      /\ position[n].lower < position[n].upper /\ position[n] \in Position
  BY <1>0, HoldsOpen
<1>5. swap' = swap /\ tick_current' = tick_current  BY DEF ModifyPosition
<1>6. reward'.growth_global = r.growth_global  BY DEF SameSchedule
<1>7. ASSUME NEW m \in Nft, m # n
      PROVE  reward_owed'[m] = reward_owed[m] /\ Held(m, reward)' = Held(m, r)
  <2>1. /\ position'[m] = position[m] /\ growth_last'[m] = growth_last[m]
        /\ reward_owed'[m] = reward_owed[m]
    BY <1>3, <1>7
  <2> HIDE DEF r
  <2> QED  BY <1>4, <1>5, <1>6, <2>1, OthersEarn
<1>8. Held(n, reward)' = 0
  <2>1. /\ position'[n].lower = position[n].lower /\ position'[n].upper = position[n].upper
        /\ position'[n] = [position[n] EXCEPT !.liquidity = position[n].liquidity + delta]
    BY <1>3, <1>4 DEF Position, Positions
  <2>2. position'[n] # NoPosition
    <3>1. position'[n] \in Position  BY <1>4, <2>1 DEF Position
    <3> QED  BY <3>1, NotAPosition
  <2>3. growth_last'[n] = protocol_growth'[<<position[n].lower, position[n].upper>>]
    BY <1>3 DEF Caught
  <2> QED  BY <1>0, <1>4, <1>6, <2>1, <2>2, <2>3, CaughtUp
<1>9. PICK credit \in Nat : /\ OwedAfter(n) = reward_owed[n] + credit
                            /\ credit * Q64 <= Held(n, r)
  BY <1>0, CreditBelow
<1>10. (reward_owed'[n] + paid) * Q64 + Held(n, reward)' <= reward_owed[n] * Q64 + Held(n, r)
  <2> DEFINE o == reward_owed[n]
             e == Held(n, r)
  <2>1. reward_owed'[n] + paid = o + credit /\ o \in Nat  BY <1>3, <1>9
  <2>2. credit * Q64 <= e  BY <1>9
  <2>3. e \in Nat  BY <1>0, <1>1, StateTyped DEF WorthsTyped, Held
  <2> HIDE DEF o, e
  <2>4. (o + credit) * Q64 = o * Q64 + credit * Q64  BY <1>9, <2>1, RewardConstants
  <2>5. o * Q64 \in Nat /\ credit * Q64 \in Nat  BY <1>9, <2>1, RewardConstants, TimesNat
  <2>6. (o + credit) * Q64 + 0 <= o * Q64 + e  BY <2>2, <2>3, <2>4, <2>5
  <2> QED  BY <1>8, <2>1, <2>6 DEF o, e
<1> HIDE DEF r
<1>11. reward'.unclaimed = r.unclaimed - paid /\ SameSchedule(reward', r)  BY DEF r
<1> QED  BY <1>0, <1>1, <1>2, <1>5, <1>7, <1>10, <1>11, InstructionCovers

(* Changing the schedule of a reward that is up to date.                   *)
LEMMA ScheduleCovers ==
  ASSUME BookInv, RewardInv, RewardInv', CoverInv, NEW admin \in BOOLEAN,
         NEW fee \in RewardMintFees, NEW s \in Schedules,
         SetRewardParams(fee, admin, s[1], s[2], s[3])
  PROVE  CoverInv'
<1> DEFINE r == Updated(reward)
           open_time == s[1]
           end_time == s[2]
           emissions == s[3]
<1>0. open_time \in 0..MaxTime /\ end_time \in 0..MaxTime /\ emissions \in Nat
  BY RewardConstants
<1>1. /\ swap'.phase = "idle" /\ now < open_time /\ open_time < end_time
      /\ reward.initialized /\ (~admin => reward.open_time < now)
      /\ UpdateOk(reward)
      /\ StartCycle(fee, r, admin, open_time, end_time, emissions)
           \/ ExtendCycle(fee, r, admin, end_time, emissions)
      /\ UNCHANGED <<position, growth_last, reward_owed, tick_current, reward_outside>>
  BY DEF SetRewardParams, vars, poolVars, positionRewardVars
<1>2. /\ TypeInv /\ r \in RewardRecord /\ ScheduleOk(r) /\ Fresh(r) /\ r.initialized
      /\ r.open_time = reward.open_time
  BY <1>1, UpdatedKeeps DEF BookInv, FitInv
<1>3. Covered(Due(r), r, vault + shortfall)  BY <1>1, UpdateCovers
<1>4. /\ now \in 0..MaxTime /\ r.end_time \in 0..MaxTime /\ r.open_time \in 0..MaxTime
      /\ r.last_update_time \in 0..MaxTime
  BY <1>2 DEF RewardInv, RewardWords, RewardRecord
<1> HIDE DEF r, open_time, end_time, emissions
<1>5. CASE StartCycle(fee, r, admin, open_time, end_time, emissions)
  <2>1. /\ reward' = [r EXCEPT !.open_time = open_time, !.last_update_time = open_time,
                               !.end_time = end_time, !.emissions_per_second = emissions]
        /\ Deposit(fee, CeilDiv((end_time - open_time) * emissions, Q64), 0)
    BY <1>5 DEF StartCycle
  <2>2. /\ reward'.growth_global = r.growth_global /\ reward'.unclaimed = r.unclaimed
        /\ reward'.last_update_time = open_time /\ reward'.end_time = end_time
        /\ reward'.emissions_per_second = emissions
    BY <1>2, <2>1 DEF RewardRecord
  <2> DEFINE d == CeilDiv((end_time - open_time) * emissions, Q64)
  <2>3. d \in Nat  BY <1>0, <1>1, DepositType
  <2>4. vault' + shortfall' = vault + shortfall + d
    <3> HIDE DEF d
    <3>1. vault' + shortfall' = vault + shortfall + (d + 0)  BY <2>1, <2>3, DepositIs DEF d
    <3> QED  BY <2>3, <3>1
  <2>5. d <= d  BY <2>3
  <2> QED  BY <1>0, <1>1, <1>2, <1>3, <2>2, <2>3, <2>4, <2>5, StartCovers
<1>6. CASE ExtendCycle(fee, r, admin, end_time, emissions)
  <2> DEFINE x == (r.end_time - now) * Raise(r, emissions)
             y == ExtensionOf(r, end_time) * emissions
  <2>1. /\ ~(admin /\ now < r.open_time) /\ now <= r.end_time
        /\ reward' = [r EXCEPT !.end_time = end_time, !.emissions_per_second = emissions]
        /\ Deposit(fee, x \div Q64 + y \div Q64, Inexact(x) + Inexact(y))
    BY <1>6 DEF ExtendCycle, Raise
  <2>2. r.last_update_time = now
    <3>1. now \in Int /\ r.open_time \in Int /\ r.end_time \in Int /\ r.last_update_time \in Int
      BY <1>4, RewardConstants
    <3>2. CASE r.open_time < now
      BY <1>2, <2>1, <3>1, <3>2 DEF Fresh, Emitting, Latest
    <3>3. CASE ~(r.open_time < now)
      <4>1. r.open_time = now  BY <1>1, <1>2, <2>1, <3>1, <3>3
      <4> QED  BY <1>2, <3>1, <4>1 DEF ScheduleOk
    <3> QED  BY <3>2, <3>3
  <2>3. /\ reward'.growth_global = r.growth_global /\ reward'.unclaimed = r.unclaimed
        /\ reward'.last_update_time = now /\ reward'.end_time = end_time
        /\ reward'.emissions_per_second = emissions
    BY <1>2, <2>1, <2>2 DEF RewardRecord
  <2>4. now <= end_time  BY <1>0, <1>1, <1>4, RewardConstants
  <2>5. vault' + shortfall' =
          vault + shortfall + (x \div Q64 + y \div Q64 + (Inexact(x) + Inexact(y)))
    <3>1. x \in Nat /\ y \in Nat  BY <1>0, <1>2, <1>4, <2>1, ExtensionType
    <3> HIDE DEF x, y
    <3>2. x \div Q64 \in Nat /\ y \div Q64 \in Nat  BY <3>1, DivNat, RewardConstants
    <3>3. Inexact(x) \in Nat /\ Inexact(y) \in Nat  BY DEF Inexact
    <3>4. x \div Q64 + y \div Q64 \in Nat /\ Inexact(x) + Inexact(y) \in Nat
      BY <3>2, <3>3
    <3> QED  BY <2>1, <3>4, DepositIs
  <2> QED  BY <1>0, <1>1, <1>2, <1>3, <2>2, <2>3, <2>4, <2>5, ExtendCovers
<1> QED  BY <1>1, <1>5, <1>6

LEMMA NextCovers ==
  ASSUME BookInv, BookInv', RewardInv, RewardInv', CoverInv,
         [RewardNext]_<<vars, rewardVars>>
  PROVE  CoverInv'
<1>0. TypeInv /\ TypeInv' /\ WorthsTyped
  BY StateTyped DEF BookInv, FitInv
<1>S. StakesOnTicks'
  <2>1. BookInv' => StakesOnTicks'  BY StakesStand, PTL
  <2> QED  BY <2>1
<1>T. /\ position \in Positions /\ reward_owed \in [Nft -> Nat] /\ vault \in Nat
      /\ growth_last \in [Nft -> 0..(Word - 1)] /\ shortfall \in Nat
      /\ reward \in RewardRecord /\ ScheduleOk(reward)
  BY <1>0 DEF WorthsTyped
<1>C. Covered(Due(reward), reward, vault + shortfall)  BY DEF CoverInv
<1>P. swap'.phase = "idle" /\ PoolCovered' => CoverInv'
  <2>1. (swap.phase = "idle" /\ PoolCovered => CoverInv)'  BY IdleCovers, PTL
  <2> QED  BY <2>1
<1>U. UpdateOk(reward) =>
        /\ Updated(reward) \in RewardRecord /\ ScheduleOk(Updated(reward))
        /\ Covered(Due(Updated(reward)), Updated(reward), vault + shortfall)
  BY <1>0, UpdatedKeeps, UpdateCovers
<1>1. ASSUME NEW n \in Nft, NEW range \in Offers, NEW amount \in Amounts \cap NewLiquidity,
             RewardOpenPosition(n, range[1], range[2], amount)
      PROVE  CoverInv'
  <2> DEFINE lower == range[1]
             upper == range[2]
  <2>1. lower \in Ticks /\ upper \in Ticks  BY RewardAssumption DEF Ranges
  <2>2. /\ amount \in Int /\ lower < upper /\ swap.phase = "idle"
        /\ position[n] = NoPosition
        /\ AddLiquidity(lower, upper, amount)
        /\ position' = [position EXCEPT
             ![n] = [lower |-> lower, upper |-> upper, liquidity |-> amount]]
        /\ IF amount = 0
           THEN UNCHANGED <<reward, reward_outside, protocol_growth>>
           ELSE ModifyReward(lower, upper, amount) /\ reward' = Updated(reward)
        /\ growth_last' = [growth_last EXCEPT ![n] = protocol_growth'[<<lower, upper>>]]
        /\ UNCHANGED <<vault, reward_owed, shortfall>>
    BY <1>1 DEF RewardOpenPosition, OpenPosition, NewLiquidity
  <2> HIDE DEF lower, upper
  <2>3. swap' = swap /\ tick_current' = tick_current
    BY <2>2 DEF AddLiquidity, ModifyPosition, poolVars
  <2>4. PICK r : /\ r = IF amount = 0 THEN reward ELSE Updated(reward)
                 /\ reward' = r /\ r \in RewardRecord /\ ScheduleOk(r)
                 /\ Covered(Due(r), r, vault + shortfall)
    <3>1. CASE amount = 0  BY <1>T, <1>C, <2>2, <3>1
    <3>2. CASE amount # 0  BY <1>U, <2>2, <3>2 DEF ModifyReward
    <3> QED  BY <3>1, <3>2
  <2>5. amount # 0 => ModifyPosition(lower, upper, amount) /\ ModifyReward(lower, upper, amount)
    BY <2>2 DEF AddLiquidity
  <2>6. ASSUME NEW m \in Nft, m # n
        PROVE  reward_owed'[m] = reward_owed[m] /\ Held(m, reward)' = Held(m, r)
    <3>1. position'[m] = position[m] /\ growth_last'[m] = growth_last[m]
      BY <1>T, <2>2, <2>6
    <3>2. \/ reward_outside' = reward_outside
          \/ ModifyPosition(lower, upper, amount) /\ ModifyReward(lower, upper, amount)
      BY <2>2, <2>5
    <3>3. reward'.growth_global = r.growth_global  BY <2>4
    <3> QED  BY <2>1, <2>2, <2>3, <3>1, <3>2, <3>3, OthersEarn
  <2>7. Held(n, r) = 0  BY <2>2 DEF Held, Earned, HasStake
  <2>8. Held(n, reward)' = 0
    <3>1. position'[n] = [lower |-> lower, upper |-> upper, liquidity |-> amount]
      BY <1>T, <2>2 DEF Positions
    <3>2. CASE amount = 0  BY <3>1, <3>2 DEF Held, Earned, HasStake
    <3>3. CASE amount # 0
      <4>1. position'[n] # NoPosition
        <5>1. liquidity_gross[lower] \in Nat
          BY <1>0, <2>1, LiquidityAssumption DEF TypeInv, TypeOK
        <5>2. liquidity_gross[lower] + amount \in 0..MaxLiquidity /\ amount >= 0
          BY <2>5, <3>3 DEF ModifyPosition, AddDeltaOk, NewLiquidity
        <5>3. amount \in 0..MaxLiquidity  BY <2>2, <5>1, <5>2, LiquidityAssumption
        <5> QED  BY <2>1, <3>1, <5>3, NotAPosition DEF Position
      <4>2. growth_last'[n] = protocol_growth'[<<lower, upper>>]  BY <1>T, <2>2
      <4>3. /\ ModifyPosition(lower, upper, amount) /\ ModifyReward(lower, upper, amount)
            /\ amount \in Int /\ lower < upper
            /\ position'[n].lower = lower /\ position'[n].upper = upper
            /\ reward'.growth_global = Updated(reward).growth_global
        BY <2>2, <2>5, <3>1, <3>3
      <4> QED  BY <1>0, <1>S, <2>1, <4>1, <4>2, <4>3, CaughtUp
    <3> QED  BY <3>2, <3>3
  <2>9. SameSchedule(reward', r) /\ reward'.unclaimed = r.unclaimed - 0 /\ vault' = vault - 0
    BY <1>T, <2>2, <2>4 DEF SameSchedule, RewardRecord
  <2>10. (reward_owed'[n] + 0) * Q64 + Held(n, reward)' <= reward_owed[n] * Q64 + Held(n, r)
    <3>1. reward_owed'[n] + 0 = reward_owed[n] /\ reward_owed[n] \in Nat  BY <1>T, <2>2
    <3>2. reward_owed[n] * Q64 \in Nat  BY <3>1, RewardConstants, TimesNat
    <3> QED  BY <2>7, <2>8, <3>1, <3>2
  <2> QED  BY <1>0, <2>2, <2>3, <2>4, <2>6, <2>9, <2>10, 0 \in Nat, InstructionCovers
<1>2. ASSUME NEW n \in Nft, NEW amount \in Amounts \cap NewLiquidity,
             RewardIncreaseLiquidity(n, amount)
      PROVE  CoverInv'
  <2>1. /\ amount \in Int /\ position[n] # NoPosition /\ swap.phase = "idle"
        /\ position[n].liquidity + amount \in 0..MaxLiquidity
        /\ ModifyPosition(position[n].lower, position[n].upper, amount)
        /\ ModifyReward(position[n].lower, position[n].upper, amount)
        /\ position' = [position EXCEPT ![n].liquidity = position[n].liquidity + amount]
        /\ reward' = Updated(reward)
        /\ growth_last' = [growth_last EXCEPT ![n] = Caught(n)]
        /\ reward_owed' = [reward_owed EXCEPT ![n] = OwedAfter(n)]
        /\ UNCHANGED <<vault, shortfall>>
    BY <1>2 DEF RewardIncreaseLiquidity, IncreaseLiquidity, AddLiquidity, NewLiquidity,
                AddDeltaOk
  <2>2. OwedAfter(n) \in Nat
    <3>1. PICK credit \in Nat : OwedAfter(n) = reward_owed[n] + credit
      BY <1>0, <2>1, CreditBelow
    <3> QED  BY <1>T, <3>1
  <2>3. OwedAfter(n) + 0 = OwedAfter(n) /\ vault' = vault - 0 /\ 0 \in Nat
    BY <1>T, <2>1, <2>2
  <2>4. SameSchedule(reward', Updated(reward)) /\ reward'.unclaimed = Updated(reward).unclaimed - 0
    <3> DEFINE r == Updated(reward)
    <3>1. r \in RewardRecord  BY <1>U, <2>1 DEF ModifyReward
    <3>2. reward' = r  BY <2>1
    <3> HIDE DEF r
    <3>3. SameSchedule(reward', r) /\ reward'.unclaimed = r.unclaimed - 0
      BY <3>1, <3>2 DEF SameSchedule, RewardRecord
    <3> QED  BY <3>3 DEF r
  <2> QED  BY <2>1, <2>2, <2>3, <2>4, ModifyCovers
<1>3. ASSUME NEW n \in Nft, NEW amount \in Amounts, NEW collect \in BOOLEAN,
             RewardDecreaseLiquidity(n, amount, collect)
      PROVE  CoverInv'
  <2>0. amount \in 0..MaxLiquidity  BY RewardAssumption
  <2>1. /\ position[n] # NoPosition /\ swap.phase = "idle"
        /\ amount <= position[n].liquidity
        /\ ModifyPosition(position[n].lower, position[n].upper, -amount)
        /\ ModifyReward(position[n].lower, position[n].upper, -amount)
        /\ position' = [position EXCEPT ![n].liquidity = position[n].liquidity - amount]
        /\ growth_last' = [growth_last EXCEPT ![n] = Caught(n)]
        /\ \/ CollectReward(n, Updated(reward), OwedAfter(n))
           \/ /\ reward' = Updated(reward)
              /\ reward_owed' = [reward_owed EXCEPT ![n] = OwedAfter(n)]
              /\ UNCHANGED vault
        /\ UNCHANGED shortfall
    BY <1>3 DEF RewardDecreaseLiquidity, DecreaseLiquidity
  <2>2. /\ -amount \in Int
        /\ position[n].liquidity + (-amount) = position[n].liquidity - amount
        /\ position[n].liquidity + (-amount) \in 0..MaxLiquidity
    <3>1. position[n].liquidity \in 0..MaxLiquidity
      BY <1>0, <2>1 DEF TypeInv, TypeOK, Position
    <3> QED  BY <2>0, <2>1, <3>1, LiquidityAssumption
  <2>3. OwedAfter(n) \in Nat
    <3>1. PICK credit \in Nat : OwedAfter(n) = reward_owed[n] + credit
      BY <1>0, <2>1, <2>2, CreditBelow
    <3> QED  BY <1>T, <3>1
  <2>4. \E paid, left \in Nat :
          /\ left + paid = OwedAfter(n)
          /\ reward_owed' = [reward_owed EXCEPT ![n] = left]
          /\ SameSchedule(reward', Updated(reward))
          /\ reward'.unclaimed = Updated(reward).unclaimed - paid
          /\ vault' = vault - paid
    <3> DEFINE r == Updated(reward)
               owed == OwedAfter(n)
    <3>1. r \in RewardRecord  BY <1>U, <2>1 DEF ModifyReward
    <3> HIDE DEF r, owed
    <3>2. CASE CollectReward(n, r, owed)
      BY <1>T, <2>3, <3>1, <3>2, CollectPays DEF owed, r
    <3>3. CASE reward' = r /\ reward_owed' = [reward_owed EXCEPT ![n] = owed] /\ UNCHANGED vault
      <4>1. SameSchedule(reward', r) /\ reward'.unclaimed = r.unclaimed - 0
        BY <3>1, <3>3 DEF SameSchedule, RewardRecord
      <4>2. owed + 0 = owed /\ vault' = vault - 0 /\ 0 \in Nat /\ owed \in Nat
        BY <1>T, <2>3, <3>3 DEF owed
      <4> QED  BY <3>3, <4>1, <4>2 DEF owed, r
    <3> QED  BY <2>1, <3>2, <3>3 DEF owed, r
  <2> QED  BY <2>1, <2>2, <2>4, ModifyCovers
<1>4. ASSUME NEW n \in Nft, CollectOwedReward(n) PROVE CoverInv'
  <2>1. /\ swap'.phase = "idle" /\ CollectReward(n, reward, reward_owed[n])
        /\ UNCHANGED <<position, tick_current, reward_outside, growth_last, shortfall>>
    BY <1>4 DEF CollectOwedReward, vars, poolVars
  <2>2. PICK paid \in Nat, left \in Nat :
          /\ left + paid = reward_owed[n]
          /\ reward_owed' = [reward_owed EXCEPT ![n] = left]
          /\ SameSchedule(reward', reward)
          /\ reward'.unclaimed = reward.unclaimed - paid
          /\ vault' = vault - paid
    BY <1>T, <2>1, CollectPays
  <2>3. \A m \in Nft : Held(m, reward)' = Held(m, reward)
    BY <2>1, <2>2 DEF Held, Earned, HasStake, SameSchedule
  <2>4. \A m \in Nft : m # n => reward_owed'[m] = reward_owed[m]  BY <1>T, <2>2
  <2>5. (reward_owed'[n] + paid) * Q64 + Held(n, reward)'
          <= reward_owed[n] * Q64 + Held(n, reward)
    <3>1. reward_owed'[n] + paid = reward_owed[n] /\ reward_owed[n] \in Nat  BY <1>T, <2>2
    <3>2. reward_owed[n] * Q64 \in Nat  BY <3>1, RewardConstants, TimesNat
    <3>3. Held(n, reward) \in Nat  BY <1>0, <1>T DEF WorthsTyped, Held
    <3> QED  BY <2>3, <3>1, <3>2, <3>3
  <2> QED  BY <1>0, <1>T, <1>C, <2>1, <2>2, <2>3, <2>4, <2>5, InstructionCovers
<1>5. ASSUME NEW n \in Nft, RewardClosePosition(n) PROVE CoverInv'
  <2>1. /\ swap'.phase = "idle" /\ position[n].liquidity = 0 /\ position[n] # NoPosition
        /\ position' = [position EXCEPT ![n] = NoPosition]
        /\ growth_last' = [growth_last EXCEPT ![n] = 0]
        /\ UNCHANGED <<reward, vault, reward_owed, tick_current, reward_outside, shortfall>>
    BY <1>5 DEF RewardClosePosition, ClosePosition, poolVars
  <2>2. \A m \in Nft : Held(m, reward)' = Held(m, reward)
    <3> SUFFICES ASSUME NEW m \in Nft PROVE Held(m, reward)' = Held(m, reward)  OBVIOUS
    <3>1. CASE m = n
      <4>1. position'[n] = NoPosition  BY <1>T, <2>1 DEF Positions
      <4> QED  BY <2>1, <3>1, <4>1 DEF Held, Earned, HasStake
    <3>2. CASE m # n
      <4>1. position'[m] = position[m] /\ growth_last'[m] = growth_last[m]
        BY <1>T, <2>1, <3>2
      <4> QED  BY <2>1, <4>1 DEF Held, Earned, HasStake
    <3> QED  BY <3>1, <3>2
  <2>3. (reward_owed'[n] + 0) * Q64 + Held(n, reward)'
          <= reward_owed[n] * Q64 + Held(n, reward)
    <3>1. reward_owed'[n] + 0 = reward_owed[n] /\ reward_owed[n] \in Nat  BY <1>T, <2>1
    <3>2. reward_owed[n] * Q64 \in Nat  BY <3>1, RewardConstants, TimesNat
    <3>3. Held(n, reward) \in Nat  BY <1>0, <1>T DEF WorthsTyped, Held
    <3> QED  BY <2>2, <3>1, <3>2, <3>3
  <2>4. /\ SameSchedule(reward', reward) /\ reward'.unclaimed = reward.unclaimed - 0
        /\ vault' = vault - 0 /\ 0 \in Nat
    BY <1>T, <2>1 DEF SameSchedule, RewardRecord
  <2> QED  BY <1>0, <1>T, <1>C, <2>1, <2>2, <2>3, <2>4, InstructionCovers
<1>6. ASSUME NEW zero_for_one \in BOOLEAN, NEW limit \in Limits,
             RewardSwapBegin(zero_for_one, limit)
      PROVE  CoverInv'
  <2>1. /\ swap'.phase = "walking" /\ swap'.tick = tick_current /\ UpdateOk(reward)
        /\ walk'.reward = Updated(reward) /\ walk'.outside = reward_outside
        /\ UNCHANGED <<position, tick_current, reward, vault, reward_outside,
                       positionRewardVars, shortfall>>
    BY <1>6 DEF RewardSwapBegin, SwapBegin, poolVars
  <2> DEFINE r == Updated(reward)
             c == Due(r)
             c0 == Due(reward)
  <2>2. Covered(c, r, vault + shortfall)  BY <1>U, <2>1
  <2>3. /\ WalkWorth' = c /\ Reward' = r /\ Due(reward)' = c0
        /\ vault' + shortfall' = vault + shortfall
    BY <2>1 DEF WalkWorth, Due, Tick, Reward, Outside, Walking, positionRewardVars
  <2> HIDE DEF r, c, c0
  <2>4. Covered(WalkWorth, Reward, vault + shortfall)'
    BY <2>2, <2>3 DEF Covered, ToEmit
  <2>5. Covered(Due(reward), reward, vault + shortfall)'
    BY <1>C, <2>1, <2>3 DEF Covered, ToEmit, c0
  <2> QED  BY <2>4, <2>5 DEF CoverInv
<1>7. ASSUME NEW a \in ArrayStarts, NEW t \in Ticks, NEW p \in Prices,
             NEW spent \in BOOLEAN, RewardSwapStep(a, t, p, spent)
      PROVE  CoverInv'
  BY <1>7, StepCovers
<1>8. ASSUME RewardSwapEnd PROVE CoverInv'
  <2>1. /\ swap.phase = "done" /\ swap'.phase = "idle" /\ tick_current' = swap.tick
        /\ reward' = walk.reward /\ reward_outside' = walk.outside
        /\ UNCHANGED <<position, vault, positionRewardVars, shortfall>>
    BY <1>8 DEF RewardSwapEnd, SwapEnd, IdleSwap
  <2>2. Due(reward)' = WalkWorth /\ reward' = Reward
    BY <2>1 DEF WalkWorth, Due, Tick, Reward, Outside, Walking, positionRewardVars
  <2>3. Covered(WalkWorth, Reward, vault + shortfall)  BY DEF CoverInv
  <2>4. PoolCovered'  BY <2>1, <2>2, <2>3 DEF PoolCovered, Covered, ToEmit
  <2> QED  BY <1>P, <2>1, <2>4
<1>9. ASSUME swap'.phase = "idle",
             UNCHANGED <<position, tick_current, reward, vault, reward_outside,
                         growth_last, reward_owed, shortfall>>
      PROVE  CoverInv'
  <2>1. Due(reward)' = Due(reward)  BY <1>9 DEF Due
  <2>2. PoolCovered'  BY <1>C, <1>9, <2>1 DEF PoolCovered, Covered, ToEmit
  <2> QED  BY <1>P, <1>9, <2>2
<1>10. ASSUME RewardSwapAbort \/ PassTime PROVE CoverInv'
  <2>1. /\ swap'.phase = "idle"
        /\ UNCHANGED <<position, tick_current, reward, vault, reward_outside,
                       growth_last, reward_owed, shortfall>>
    BY <1>10 DEF RewardSwapAbort, SwapAbort, PassTime, IdleSwap, vars, poolVars,
                 positionRewardVars
  <2> QED  BY <1>9, <2>1
<1>11. ASSUME UpdateRewardInfos PROVE CoverInv'
  <2>1. /\ swap'.phase = "idle" /\ UpdateOk(reward) /\ reward' = Updated(reward)
        /\ UNCHANGED <<position, tick_current, vault, reward_outside, growth_last,
                       reward_owed, shortfall>>
    BY <1>11 DEF UpdateRewardInfos, vars, poolVars, positionRewardVars
  <2>2. Due(reward)' = Due(Updated(reward))  BY <2>1 DEF Due
  <2>3. Covered(Due(Updated(reward)), Updated(reward), vault + shortfall)  BY <1>U, <2>1
  <2>4. PoolCovered'  BY <2>1, <2>2, <2>3 DEF PoolCovered, Covered, ToEmit
  <2> QED  BY <1>P, <2>1, <2>4
<1>12. ASSUME NEW fee \in RewardMintFees, NEW s \in Schedules,
              InitializeReward(fee, s[1], s[2], s[3])
       PROVE  CoverInv'
  <2> DEFINE open_time == s[1]
             end_time == s[2]
             emissions == s[3]
             amount == CeilDiv((end_time - open_time) * emissions, Q64)
             d == Arrives(fee, amount + InverseFee(fee, amount))
  <2>0. open_time \in 0..MaxTime /\ end_time \in 0..MaxTime /\ emissions \in Nat
    BY RewardConstants
  <2>1. /\ swap'.phase = "idle" /\ open_time < end_time
        /\ reward' = [reward EXCEPT
             !.initialized = TRUE, !.open_time = open_time, !.end_time = end_time,
             !.last_update_time = open_time, !.emissions_per_second = emissions]
        /\ vault' = vault + d
        /\ UNCHANGED <<position, growth_last, reward_owed, tick_current, reward_outside,
                       shortfall>>
    BY <1>12 DEF InitializeReward, vars, poolVars, positionRewardVars
  <2> HIDE DEF open_time, end_time, emissions
  <2>2. /\ reward'.growth_global = reward.growth_global /\ reward'.unclaimed = reward.unclaimed
        /\ reward'.last_update_time = open_time /\ reward'.end_time = end_time
        /\ reward'.emissions_per_second = emissions
    BY <1>T, <2>1 DEF RewardRecord
  <2>3. d \in Nat /\ amount <= d
    <3>1. amount \in Nat  BY <2>0, <2>1, DepositType
    <3> HIDE DEF amount
    <3> QED  BY <3>1, MintFeesAreConfigs, InverseFeeArrives
  <2>4. vault' + shortfall' = vault + shortfall + d
    <3> HIDE DEF d
    <3> QED  BY <1>T, <2>1, <2>3
  <2> HIDE DEF d
  <2> QED  BY <1>0, <1>T, <1>C, <2>0, <2>1, <2>2, <2>3, <2>4, StartCovers
<1>13. ASSUME NEW fee \in RewardMintFees, NEW s \in Schedules, NEW admin \in BOOLEAN,
              SetRewardParams(fee, admin, s[1], s[2], s[3])
       PROVE  CoverInv'
  BY <1>13, ScheduleCovers
<1>14. ASSUME CollectRemainingRewards PROVE CoverInv'
  <2> DEFINE r == Updated(reward)
             c == Due(r)
  <2>1. /\ swap'.phase = "idle" /\ UpdateOk(reward) /\ reward' = r
        /\ r.last_update_time = r.end_time /\ vault' = r.unclaimed
        /\ UNCHANGED <<position, tick_current, reward_outside, growth_last, reward_owed,
                       shortfall>>
    BY <1>14 DEF CollectRemainingRewards, vars, poolVars, positionRewardVars
  <2>2. Due(reward)' = c  BY <2>1 DEF Due
  <2>3. r \in RewardRecord /\ Total(c, Nft) <= r.unclaimed * Q64
    BY <1>U, <2>1 DEF Covered
  <2>4. Total(c, Nft) \in Int
    <3>1. IsFiniteSet(Nft) /\ \A n \in Nft : c[n] \in Int
      BY <1>0, <2>3, NftAssumption DEF WorthsTyped
    <3> HIDE DEF c
    <3> QED  BY <3>1, TotalType
  <2> HIDE DEF r, c
  <2>5. ToEmit(r) = 0
    <3>1. r.end_time \in Int /\ r.emissions_per_second \in Int
      BY <2>3, RewardConstants DEF RewardRecord
    <3>2. r.end_time - r.last_update_time = 0  BY <2>1, <3>1
    <3> QED  BY <3>1, <3>2 DEF ToEmit
  <2>6. Total(c, Nft) + 0 <= (r.unclaimed + shortfall) * Q64
    <3>1. r.unclaimed \in Nat  BY <2>3 DEF RewardRecord
    <3>2. 0 <= shortfall * Q64  BY <1>T, RewardConstants, TimesNat
    <3> QED  BY <1>T, <2>3, <2>4, <3>1, <3>2, FundsGrow
  <2>7. PoolCovered'
    BY <2>1, <2>2, <2>3, <2>4, <2>5, <2>6 DEF PoolCovered, Covered, ToEmit
  <2> QED  BY <1>P, <2>1, <2>7
<1>15. CASE UNCHANGED <<vars, rewardVars>>
  BY <1>15 DEF CoverInv, Covered, ToEmit, Due, WalkWorth, Tick, Reward, Outside, Walking,
               vars, rewardVars, poolVars, positionRewardVars
<1> QED
  BY <1>1, <1>2, <1>3, <1>4, <1>5, <1>6, <1>7, <1>8, <1>10, <1>11, <1>12, <1>13, <1>14, <1>15
  DEF RewardNext

LEMMA CoverInvariant == RewardSpec => []CoverInv
<1>1. BookInv /\ BookInv' /\ RewardInv /\ RewardInv' /\ CoverInv
        /\ [RewardNext]_<<vars, rewardVars>> => CoverInv'
  BY NextCovers
<1> QED  BY <1>1, InitCovers, RewardBook, RewardInvariant, PTL DEF RewardSpec

(* The sum of the claims is the total of a table of them.               *)
LEMMA ClaimsTotal ==
  ASSUME TypeInv
  PROVE  MapThenSumSet(Claim, Open) = Total([n \in Open |-> Claim(n)], Open)
<1> DEFINE c == [n \in Open |-> Claim(n)]
           IsClaims(g) == g = [s \in SUBSET Open |->
                                 IF s = {} THEN 0 ELSE Claim(Some(s)) + g[Rest(s)]]
           h == CHOOSE g : IsClaims(g)
<1>1. IsFiniteSet(Open)
  <2>1. Open \subseteq Nft  BY DEF Open
  <2> QED  BY <2>1, NftAssumption, FS_Subset
<1>2. MapThenSumSet(Claim, Open) = h[Open]
  BY Zenon DEF MapThenSumSet, MapThenFoldSet, Some, Rest
<1>3. ASSUME NEW g PROVE IsSum(g, c, Open) <=> IsClaims(g)
  <2>1. ASSUME NEW s \in SUBSET Open, s # {} PROVE c[Some(s)] = Claim(Some(s))
    <3>1. Some(s) \in Open  BY <2>1, SomeIn
    <3> QED  BY <3>1
  <2> HIDE DEF c
  <2>2. [s \in SUBSET Open |-> IF s = {} THEN 0 ELSE c[Some(s)] + g[Rest(s)]]
          = [s \in SUBSET Open |-> IF s = {} THEN 0 ELSE Claim(Some(s)) + g[Rest(s)]]
    BY <2>1, Zenon
  <2> QED  BY <2>2, Zenon DEF IsSum
<1>4. \E g : IsSum(g, c, Open)  BY <1>1, TotalExists
<1>5. IsClaims(h)
  <2>1. \E g : IsClaims(g)  BY <1>3, <1>4
  <2> HIDE DEF IsClaims
  <2> QED  BY <2>1
<1> HIDE DEF h, c
<1>6. IsSum(h, c, Open)  BY <1>3, <1>5
<1>7. Total(c, Open) = h[Open]  BY <1>1, <1>6, TotalTable
<1> QED  BY <1>2, <1>7 DEF c

(* A claim rounds what was earned down.                                    *)
LEMMA ClaimBelow ==
  ASSUME TypeInv, RewardInv, NEW n \in Open
  PROVE  Claim(n) \in Nat /\ Q64 * Claim(n) <= WalkWorth[n]
<1> DEFINE in == InsideAt(Tick, Reward.growth_global, Outside, position[n].lower, position[n].upper, Word)
           x == Wrapped(in - growth_last[n]) * position[n].liquidity
           o == reward_owed[n]
<1>0. n \in Nft /\ position[n] # NoPosition /\ WorthsTyped
  BY StateTyped DEF Open
<1>1. /\ position[n].lower \in Ticks /\ position[n].upper \in Ticks
      /\ position[n].lower \in Int /\ position[n].upper \in Int
      /\ position[n].liquidity \in Nat
  BY <1>0, HoldsOpen, TicksType
<1>2. Inside(position[n].lower, position[n].upper) = in
  BY DEF Inside, Wrapped, InsideAt, BelowAt, AboveAt
<1>3. in \in 0..(Word - 1)  BY <1>0, <1>1, InsideType, RewardConstants DEF WorthsTyped
<1> HIDE DEF in
<1>4. growth_last[n] \in 0..(Word - 1) /\ o \in Nat
  BY <1>0 DEF WorthsTyped
<1>5. in - growth_last[n] \in Int  BY <1>3, <1>4, RewardConstants
<1>6. Wrapped(in - growth_last[n]) \in Nat  BY <1>5, WrappedType, RewardConstants
<1>7. x \in Nat  BY <1>1, <1>6, TimesNat
<1>8. Earned(Word, position, growth_last, Tick, Reward.growth_global, Outside, n) = x
  <2>1. CASE HasStake(position, n)  BY <2>1 DEF Earned, in, Wrapped
  <2>2. CASE ~HasStake(position, n)
    <3>1. position[n].liquidity = 0  BY <1>0, <1>1, <2>2 DEF HasStake
    <3>2. x = 0  BY <1>6, <3>1
    <3> QED  BY <2>2, <3>2 DEF Earned
  <2> QED  BY <2>1, <2>2
<1>9. Claim(n) = o + x \div Q64  BY <1>2 DEF Claim
<1>10. WalkWorth[n] = o * Q64 + x  BY <1>0, <1>8 DEF WalkWorth, Worth
<1> HIDE DEF x, o
<1> DEFINE q == x \div Q64
<1>11. q \in Nat /\ q * Q64 <= x  BY <1>7, QuotientBelow, RewardConstants
<1> HIDE DEF q
<1>12. Q64 * (o + q) = o * Q64 + q * Q64 /\ o * Q64 \in Nat /\ q * Q64 \in Nat
  BY <1>4, <1>11, RewardConstants, TimesNat
<1> QED  BY <1>4, <1>7, <1>9, <1>10, <1>11, <1>12 DEF q

(* And all claims together are no more than what the positions are due.    *)
LEMMA ClaimsBelow ==
  ASSUME TypeInv, RewardInv
  PROVE  /\ MapThenSumSet(Claim, Open) \in Int /\ Total(WalkWorth, Nft) \in Int
         /\ Q64 * MapThenSumSet(Claim, Open) <= Total(WalkWorth, Nft)
<1> DEFINE c == [n \in Open |-> Claim(n)]
           w == WalkWorth
           s == Total(c, Open)
<1>1. WorthsTyped /\ Open \subseteq Nft /\ IsFiniteSet(Nft)
  BY StateTyped, NftAssumption DEF Open
<1>2. IsFiniteSet(Open)  BY <1>1, FS_Subset
<1>3. \A n \in Open : c[n] \in Int /\ Q64 * c[n] <= w[n]  BY ClaimBelow
<1>4. \A n \in Nft : w[n] \in Nat  BY <1>1 DEF WorthsTyped
<1>5. MapThenSumSet(Claim, Open) = s  BY ClaimsTotal
<1> HIDE DEF c, w
<1>6. s \in Int /\ Total(w, Open) \in Int /\ Total(w, Nft) \in Int
  BY <1>1, <1>2, <1>3, <1>4, TotalType
<1>7. Q64 * s <= Total(w, Open)
  <2>1. \A n \in Open : c[n] \in Int /\ w[n] \in Int /\ w[n] \in Int  BY <1>1, <1>3, <1>4
  <2>2. \A n \in Open : Q64 * c[n] <= w[n] + 0 * w[n]  BY <1>3, <2>1
  <2>3. Q64 \in Int /\ 0 \in Int  BY RewardConstants
  <2>4. Q64 * s <= Total(w, Open) + 0 * Total(w, Open)
    BY ONLY <1>2, <2>1, <2>2, <2>3, TotalBounded
  <2> HIDE DEF s
  <2> QED  BY <1>6, <2>4
<1>8. Total(w, Open) <= Total(w, Nft)  BY <1>1, <1>4, TotalOfPart
<1>9. Q64 * s \in Int  BY <1>6, RewardConstants
<1> HIDE DEF s
<1>10. Q64 * s <= Total(w, Nft)  BY <1>6, <1>7, <1>8, <1>9
<1> QED  BY <1>5, <1>6, <1>10 DEF w

(* Units compare as their multiples do.                                    *)
LEMMA UnitsBelow ==
  ASSUME NEW s \in Int, NEW u \in Int, Q64 * s <= u * Q64
  PROVE  s <= u
<1> SUFFICES ASSUME s > u PROVE FALSE  OBVIOUS
<1> DEFINE d == s - u
<1>1. d \in Nat \ {0} /\ s = u + d  OBVIOUS
<1> HIDE DEF d
<1>2. Q64 \in Nat \ {0}  BY RewardConstants
<1>3. Q64 * s = u * Q64 + Q64 * d /\ Q64 * d > 0  BY <1>1, <1>2
<1>4. Q64 * d \in Nat /\ u * Q64 \in Int  BY <1>1, <1>2, TimesNat
<1> QED  BY <1>3, <1>4

LEMMA CoverIsEnough == TypeInv /\ RewardInv /\ CoverInv => RewardsCovered /\ RewardsFunded
<1> SUFFICES ASSUME TypeInv, RewardInv, CoverInv PROVE RewardsCovered /\ RewardsFunded
  OBVIOUS
<1> DEFINE s == MapThenSumSet(Claim, Open)
           T == Total(WalkWorth, Nft)
           u == Reward.unclaimed
           funds == vault + shortfall
<1>1. s \in Int /\ T \in Int /\ Q64 * s <= T  BY ClaimsBelow
<1>2. WorthsTyped  BY StateTyped
<1>3. u \in Int /\ funds \in Int  BY <1>2 DEF WorthsTyped, RewardRecord
<1>4. T <= u * Q64 /\ T + ToEmit(Reward) <= funds * Q64  BY DEF CoverInv, Covered
<1>5. ToEmit(reward) \in Nat  BY <1>2, ToEmitType DEF WorthsTyped
<1> HIDE DEF s, T, u, funds
<1>6. Q64 * s \in Int /\ u * Q64 \in Int /\ funds * Q64 \in Int
  BY <1>1, <1>3, RewardConstants
<1>7. RewardsCovered
  <2>1. Q64 * s <= u * Q64  BY <1>1, <1>4, <1>6
  <2>2. s <= u  BY <1>1, <1>3, <2>1, UnitsBelow
  <2> QED  BY <2>2 DEF RewardsCovered, s, u
<1>8. ASSUME ~Walking PROVE s + ToEmit(reward) \div Q64 <= funds
  <2> DEFINE y == ToEmit(reward)
             q == y \div Q64
  <2>1. Reward = reward  BY <1>8 DEF Reward
  <2>2. y \in Nat /\ T + y <= funds * Q64  BY <1>4, <1>5, <2>1
  <2> HIDE DEF y
  <2>3. q \in Nat /\ q * Q64 <= y  BY <2>2, QuotientBelow, RewardConstants
  <2> HIDE DEF q
  <2>4. Q64 * (s + q) = Q64 * s + q * Q64 /\ q * Q64 \in Nat
    BY <1>1, <2>3, RewardConstants, TimesNat
  <2>5. Q64 * (s + q) <= funds * Q64  BY <1>1, <1>6, <2>2, <2>3, <2>4
  <2>6. s + q \in Int  BY <1>1, <2>3
  <2>7. s + q <= funds  BY <1>3, <2>5, <2>6, UnitsBelow
  <2> QED  BY <2>7 DEF q, y
<1>9. RewardsFunded  BY <1>8 DEF RewardsFunded, ToEmit, s, funds
<1> QED  BY <1>7, <1>9

(* All that positions could collect at this moment was emitted and has not *)
(* been claimed, for any number of positions, any schedules and any        *)
(* rounding on the way: check_unclaimed_reward never refuses an owner.     *)
THEOREM RewardsAlwaysCovered == RewardSpec => []RewardsCovered
<1>1. BookInv => TypeInv  BY DEF BookInv, FitInv
<1> QED  BY <1>1, RewardBook, RewardInvariant, CoverInvariant, CoverIsEnough, PTL

(* The vault holds what positions could collect and what will be emitted   *)
(* to the end of the cycle, however the schedule was set up, extended,     *)
(* raised, lowered or cut short and whatever fees the mint charged, except *)
(* that deposits of set_reward_params fall short by a unit for each amount *)
(* rounded down and by the fee that they were sent without.                *)
THEOREM RewardsAlwaysFunded == RewardSpec => []RewardsFunded
<1>1. BookInv => TypeInv  BY DEF BookInv, FitInv
<1> QED  BY <1>1, RewardBook, RewardInvariant, CoverInvariant, CoverIsEnough, PTL

(* When the owner takes back what was not emitted, the vault still holds   *)
(* everything that positions can collect.                                  *)
THEOREM RemainderSpare == RewardSpec => RemainderIsSpare
<1> DEFINE Spare == CollectRemainingRewards => MapThenSumSet(Claim, Open)' <= vault'
<1>1. RewardsCovered' => Spare
  <2> SUFFICES ASSUME RewardsCovered', CollectRemainingRewards
               PROVE  MapThenSumSet(Claim, Open)' <= vault'
    OBVIOUS
  <2>1. swap'.phase = "idle" /\ vault' = reward'.unclaimed
    BY DEF CollectRemainingRewards, vars
  <2>2. Reward' = reward'  BY <2>1 DEF Reward, Walking
  <2> QED  BY <2>1, <2>2 DEF RewardsCovered
<1>2. RewardSpec => [][Spare]_<<vars, rewardVars>>
  BY <1>1, RewardsAlwaysCovered, PTL
<1> QED  BY <1>2 DEF RemainderIsSpare
=============================================================================
