---------------------------- MODULE PoolVaultProofs ----------------------------
(***************************************************************************)
(* The vaults of a pool cover all claims on them, for any tokens, transfer *)
(* fees and rates.  What the token program keeps of a transfer into the    *)
(* vault is exactly what the program had added for it; the rest is         *)
(* bookkeeping, one instruction after the other.                           *)
(***************************************************************************)
EXTENDS PoolVault, TLAPS

-----------------------------------------------------------------------------
(* Arithmetic *)

(* A rounded-up quotient is the least that the divisor multiplies to the   *)
(* dividend or more.                                                       *)
LEMMA CeilDivBounds ==
  ASSUME NEW x \in Nat, NEW y \in Nat \ {0}
  PROVE  /\ CeilDiv(x, y) \in Nat
         /\ CeilDiv(x, y) * y >= x
         /\ CeilDiv(x, y) * y < x + y
<1> DEFINE n == x + y - 1
<1> DEFINE q == n \div y
<1>1. n \in Nat
  OBVIOUS
<1>2. q \in Nat /\ n % y \in 0..(y - 1) /\ n = y * q + (n % y)
  BY <1>1, Z3
<1>3. CeilDiv(x, y) = q
  BY DEF CeilDiv
<1>4. q * y = y * q /\ y * q \in Nat
  BY <1>2, SMT
<1>5. y * q >= x /\ y * q < x + y
  <2> HIDE DEF q
  <2> QED  BY <1>2, <1>4, SMT
<1> QED  BY <1>2, <1>3, <1>4, <1>5

(* Products of natural numbers keep their order.                           *)
LEMMA ProductsInOrder ==
  ASSUME NEW x \in Nat, NEW y \in Nat, NEW z \in Nat, x < y
  PROVE  x * z + z <= y * z
<1> DEFINE d == y - x - 1
<1>1. d \in Nat /\ y = x + 1 + d
  OBVIOUS
<1>2. y * z = x * z + z + d * z
  <2> HIDE DEF d
  <2> QED  BY <1>1, SMT
<1>3. d * z \in Nat /\ x * z \in Nat /\ y * z \in Nat
  <2> HIDE DEF d
  <2> QED  BY <1>1, SMT
<1> QED  BY <1>2, <1>3

(* A quotient of q times z, and a bit less than another z, is q at least.  *)
LEMMA CeilDivIs ==
  ASSUME NEW x \in Nat, NEW z \in Nat \ {0}, NEW q \in Nat,
         x <= q * z, q * z < x + z
  PROVE  CeilDiv(x, z) = q
<1> DEFINE c == CeilDiv(x, z)
<1>1. c \in Nat /\ c * z >= x /\ c * z < x + z
  BY CeilDivBounds
<1> HIDE DEF c
<1>2. c * z \in Nat /\ q * z \in Nat
  BY <1>1, SMT
<1>3. ~(c < q)
  <2> SUFFICES ASSUME c < q  PROVE FALSE
    OBVIOUS
  <2>1. c * z + z <= q * z
    BY <1>1, ProductsInOrder
  <2> QED  BY <1>1, <1>2, <2>1
<1>4. ~(q < c)
  <2> SUFFICES ASSUME q < c  PROVE FALSE
    OBVIOUS
  <2>1. q * z + z <= c * z
    BY <1>1, ProductsInOrder
  <2> QED  BY <1>1, <1>2, <2>1
<1>5. c = q
  BY <1>1, <1>3, <1>4
<1> QED  BY <1>5 DEF c

-----------------------------------------------------------------------------
(* Transfer fees *)

LEMMA FeeIsNat ==
  ASSUME NEW config \in [transfer_fee_basis_points : 0..ONE_IN_BASIS_POINTS,
                         maximum_fee : Nat],
         NEW x \in Nat
  PROVE  CalculateFee(config, x) \in Nat
<1> DEFINE b == config.transfer_fee_basis_points
<1>1. x * b \in Nat
  BY VaultAssumption, BasisPointsAssumption, SMT
<1>2. CeilDiv(x * b, ONE_IN_BASIS_POINTS) \in Nat
  BY <1>1, VaultAssumption, BasisPointsAssumption, CeilDivBounds
<1> QED  BY <1>2 DEF CalculateFee, Lesser

(* calculate_fee takes back of calculate_pre_fee_amount just what the      *)
(* latter had added: nothing is lost to the two roundings and the cap.     *)
LEMMA PreFeeExact ==
  ASSUME NEW config \in [transfer_fee_basis_points : 0..ONE_IN_BASIS_POINTS,
                         maximum_fee : Nat],
         config.transfer_fee_basis_points # ONE_IN_BASIS_POINTS,
         NEW a \in Nat
  PROVE  LET pre == CalculatePreFeeAmount(config, a)
         IN  pre \in Nat /\ pre = a + CalculateFee(config, pre)
<1> DEFINE O == ONE_IN_BASIS_POINTS
           b == config.transfer_fee_basis_points
           M == config.maximum_fee
           r == O - b
           raw == CeilDiv(a * O, r)
<1>1. O \in Nat \ {0} /\ b \in Nat /\ M \in Nat /\ r \in Nat \ {0} /\ O = b + r
  BY VaultAssumption, BasisPointsAssumption
<1>2. a * O \in Nat
  BY <1>1, SMT
<1>3. raw \in Nat /\ raw * r >= a * O /\ raw * r < a * O + r
  <2> HIDE DEF O, r
  <2> QED  BY <1>1, <1>2, CeilDivBounds
<1>4. ASSUME b = 0 \/ a = 0
      PROVE  a * b = 0 /\ CeilDiv(a * b, O) = 0
  <2>1. a * b = 0
    BY <1>1, <1>4, SMT
  <2>2. CeilDiv(0, O) = 0
    <3> HIDE DEF O
    <3>1. 0 <= 0 * O /\ 0 * O < 0 + O
      BY <1>1, SMT
    <3> QED  BY <1>1, <3>1, CeilDivIs
  <2> QED  BY <2>1, <2>2
<1>5. CASE b = 0 \/ a = 0
  <2>1. CalculatePreFeeAmount(config, a) = a
    BY <1>5 DEF CalculatePreFeeAmount
  <2>2. CalculateFee(config, a) = 0
    BY <1>1, <1>4, <1>5 DEF CalculateFee, Lesser
  <2> QED  BY <2>1, <2>2
<1>6. ASSUME NEW p \in Nat
      PROVE  p * O = p * b + p * r /\ p * b \in Nat /\ p * r \in Nat /\ p * O \in Nat
  <2> HIDE DEF O, b, r
  <2> QED  BY <1>1, SMT
<1>7. CASE b # 0 /\ a # 0 /\ raw - a < M
  <2>1. CalculatePreFeeAmount(config, a) = raw
    BY <1>1, <1>3, <1>7 DEF CalculatePreFeeAmount
  <2>2. a <= raw
    <3> SUFFICES ASSUME raw < a  PROVE FALSE
      BY <1>3
    <3> HIDE DEF raw, O, r, b
    <3>1. raw * r + r <= a * r
      BY <1>1, <1>3, ProductsInOrder
    <3> QED  BY <1>1, <1>3, <1>6, <3>1
  <2>3. (raw - a) * O = raw * O - a * O /\ raw - a \in Nat
    <3> HIDE DEF raw, O, r, b
    <3> QED  BY <1>1, <1>3, <2>2, SMT
  <2>4. CeilDiv(raw * b, O) = raw - a
    <3> HIDE DEF raw, O, r, b
    <3>1. raw * b <= (raw - a) * O /\ (raw - a) * O < raw * b + O
      BY <1>1, <1>3, <1>6, <2>3
    <3> QED  BY <1>1, <1>3, <1>6, <2>3, <3>1, CeilDivIs
  <2>5. CalculateFee(config, raw) = raw - a
    BY <1>1, <1>7, <2>3, <2>4 DEF CalculateFee, Lesser
  <2> QED  BY <1>3, <2>1, <2>5
<1>8. CASE b # 0 /\ a # 0 /\ raw - a >= M
  <2>1. CalculatePreFeeAmount(config, a) = a + M
    BY <1>1, <1>3, <1>8 DEF CalculatePreFeeAmount
  <2>2. a + M \in Nat
    BY <1>1
  <2> DEFINE c == CeilDiv((a + M) * b, O)
  <2>3. c \in Nat /\ c * O >= (a + M) * b
    <3> HIDE DEF O, b
    <3> QED  BY <1>1, <1>6, <2>2, CeilDivBounds
  <2>4. c >= M
    <3> SUFFICES ASSUME c < M  PROVE FALSE
      BY <1>1, <2>3
    <3> HIDE DEF c, O, r, b, M, raw
    <3> DEFINE p == a + M - 1
    <3>1. p \in Nat /\ p < raw
      BY <1>1, <1>3, <1>8, <2>3
    <3>2. p * r + r <= raw * r
      <4> HIDE DEF p
      <4> QED  BY <1>1, <1>3, <3>1, ProductsInOrder
    <3>3. c + a <= p
      BY <1>1, <2>3
    <3>4. (c + a) * O <= p * O
      <4> HIDE DEF p
      <4>1. CASE c + a = p
        BY <1>6, <3>1, <4>1
      <4>2. CASE c + a < p
        <5>1. (c + a) * O + O <= p * O
          BY <1>1, <2>3, <3>1, <4>2, ProductsInOrder
        <5> QED  BY <1>1, <1>6, <2>3, <3>1, <5>1
      <4> QED  BY <2>3, <3>1, <3>3, <4>1, <4>2
    <3>5. (c + a) * O = c * O + a * O /\ (a + M) * b = p * b + b
      BY <1>1, <2>3, SMT
    <3> HIDE DEF p
    <3> QED  BY <1>1, <1>2, <1>3, <1>6, <2>3, <3>1, <3>2, <3>4, <3>5
  <2>5. CalculateFee(config, a + M) = M
    BY <1>1, <2>3, <2>4 DEF CalculateFee, Lesser
  <2> QED  BY <2>1, <2>2, <2>5
<1> QED  BY <1>1, <1>3, <1>5, <1>7, <1>8

LEMMA PlainArrivesWhole ==
  ASSUME NEW tk \in Token, transfer_fee[tk] = NoFee, NEW a \in Nat
  PROVE  Received(tk, a) = a
<1>1. a * 0 = 0
  BY SMT
<1>2. CeilDiv(0, ONE_IN_BASIS_POINTS) \in Nat
  BY VaultAssumption, BasisPointsAssumption, CeilDivBounds
<1> QED  BY <1>1, <1>2 DEF Received, TransferFee, CalculateFee, NoFee, Lesser

(* An amount sent with its inverse fee on top arrives whole, and what is   *)
(* sent without may lose some on the way.                                  *)
LEMMA ArrivesWhole ==
  ASSUME VaultTypeOK, NEW tk \in Token, NEW a \in Nat
  PROVE  Gross(tk, a) \in Nat /\ Received(tk, Gross(tk, a)) = a
<1> DEFINE config == transfer_fee[tk]
           O == ONE_IN_BASIS_POINTS
           M == config.maximum_fee
<1>1. config \in [transfer_fee_basis_points : 0..O, maximum_fee : Nat]
  BY VaultAssumption, BasisPointsAssumption DEF VaultTypeOK
<1>2. CASE config.transfer_fee_basis_points = O
  <2>1. Gross(tk, a) = a + M /\ a + M \in Nat /\ M \in Nat
    BY <1>1, <1>2 DEF Gross, TransferInverseFee, InverseFee
  <2> DEFINE x == (a + M) * O
             q == CeilDiv(x, O)
  <2>2. O \in Nat \ {0} /\ x \in Nat
    BY VaultAssumption, BasisPointsAssumption, <2>1, SMT
  <2>3. q = a + M
    <3>1. x <= (a + M) * O /\ (a + M) * O < x + O
      BY <2>2
    <3> HIDE DEF x, O, M
    <3> QED  BY <2>1, <2>2, <3>1, CeilDivIs
  <2>4. TransferFee(tk, a + M) = M
    BY <1>1, <1>2, <2>1, <2>3 DEF TransferFee, CalculateFee, Lesser
  <2> QED  BY <2>1, <2>4 DEF Received
<1>3. CASE config.transfer_fee_basis_points # O
  <2> DEFINE pre == CalculatePreFeeAmount(config, a)
  <2>1. pre \in Nat /\ pre = a + CalculateFee(config, pre)
    BY <1>1, <1>3, PreFeeExact
  <2>2. Gross(tk, a) = pre
    BY <1>3, <2>1 DEF Gross, TransferInverseFee, InverseFee
  <2>3. CalculateFee(config, pre) \in Nat
    BY <1>1, <2>1, FeeIsNat
  <2> QED  BY <2>1, <2>2, <2>3 DEF Received, TransferFee
<1> QED  BY <1>2, <1>3

-----------------------------------------------------------------------------
(* Shares of a trade fee *)

LEMMA ShareIsNat ==
  ASSUME NEW fee \in Nat, NEW rate \in Rates
  PROVE  Share(fee, rate) \in Nat
<1>1. fee * rate \in Nat
  BY VaultAssumption, BasisPointsAssumption, SMT DEF Rates
<1>2. ASSUME NEW x \in Nat, NEW y \in Nat \ {0}  PROVE x \div y \in Nat
  BY Z3
<1> QED  BY <1>1, <1>2, VaultAssumption, BasisPointsAssumption DEF Share

(* Protocol, fund and providers get the fee between them, no more and no   *)
(* less: as the rates make no more than one, nobody's part is negative.    *)
LEMMA SplitIsWhole ==
  ASSUME amm_config \in AmmConfigs, NEW fee \in Nat
  PROVE  LET s == SplitFee(fee)
         IN  /\ s.protocol \in Nat /\ s.fund \in Nat /\ s.providers \in Nat
             /\ s.protocol + s.fund + s.providers = fee
<1> DEFINE rate_1 == amm_config.protocol_fee_rate
           rate_2 == amm_config.fund_fee_rate
<1>1. /\ rate_1 \in Rates /\ rate_2 \in Rates
      /\ rate_1 + rate_2 <= FEE_RATE_DENOMINATOR_VALUE
  BY DEF AmmConfigs
<1>2. /\ Share(fee, rate_1) \in Nat
      /\ Share(fee, rate_2) \in Nat
  BY <1>1, ShareIsNat
<1>3. Share(fee, rate_1) + Share(fee, rate_2) <= fee
  <2>1. ASSUME NEW x \in Nat, NEW y \in Nat \ {0}  PROVE (x \div y) * y <= x
    BY Z3
  <2>2. /\ Share(fee, rate_1) * FEE_RATE_DENOMINATOR_VALUE <= fee * rate_1
        /\ Share(fee, rate_2) * FEE_RATE_DENOMINATOR_VALUE <= fee * rate_2
    <3>1. fee * rate_1 \in Nat /\ fee * rate_2 \in Nat
      BY <1>1, VaultAssumption, SMT DEF Rates
    <3> QED  BY <2>1, <3>1, VaultAssumption DEF Share
  <2>3. ASSUME NEW f \in Nat, NEW x \in Nat, NEW y \in Nat, NEW p \in Nat, NEW q \in Nat,
               NEW d \in Nat \ {0}, x * d <= f * p, y * d <= f * q, p + q <= d
        PROVE  x + y <= f
    <3>1. (x + y) * d <= f * (p + q)
      BY <2>3, Z3
    <3>2. f * (p + q) <= f * d
      BY <2>3, Z3
    <3>3. ASSUME NEW s \in Nat, s * d <= f * d  PROVE s <= f
      BY <3>3, Z3
    <3> DEFINE s == x + y
    <3>4. s \in Nat /\ s * d <= f * d
      BY <3>1, <3>2, Z3
    <3> HIDE DEF s
    <3>5. s <= f
      BY <3>3, <3>4
    <3> QED  BY <3>5 DEF s
  <2>4. rate_1 \in Nat /\ rate_2 \in Nat
    BY <1>1, VaultAssumption DEF Rates
  <2> HIDE DEF rate_1, rate_2
  <2> QED  BY <1>1, <1>2, <2>2, <2>3, <2>4, VaultAssumption
<1> QED  BY <1>2, <1>3 DEF SplitFee

-----------------------------------------------------------------------------
(* The vaults *)

(* The inductive invariant is the property with the types: a vault covers  *)
(* its claims because every instruction books exactly what it moves.       *)
VaultInv == VaultTypeOK /\ VaultCovers

LEMMA VaultInvInit == Init => VaultInv
BY VaultAssumption, BasisPointsAssumption DEF Init, VaultInv, VaultTypeOK, VaultCovers, Surplus, Amounts

LEMMA DepositKeeps ==
  ASSUME VaultInv, NEW amounts \in Amounts, DepositV1(amounts) \/ DepositV2(amounts)
  PROVE  VaultInv' /\ \A tk \in Token : Surplus(tk)' = Surplus(tk)
<1>1. \A tk \in Token : amounts[tk] \in Nat
  BY VaultAssumption, BasisPointsAssumption DEF Amounts
<1> DEFINE arrived(paid) == \A tk \in Token : Received(tk, paid[tk]) = amounts[tk]
<1>2. PICK paid : Deposited(paid, amounts) /\ arrived(paid)
  <2>1. CASE DepositV1(amounts)
    <3>1. \A tk \in Token : Received(tk, amounts[tk]) = amounts[tk]
      <4> SUFFICES ASSUME NEW tk \in Token
                   PROVE  Received(tk, amounts[tk]) = amounts[tk]
        OBVIOUS
      <4>1. transfer_fee[tk] = NoFee
        BY <2>1 DEF DepositV1, PlainTokens
      <4> QED  BY <1>1, <4>1, PlainArrivesWhole
    <3> QED  BY <2>1, <3>1 DEF DepositV1
  <2>2. CASE DepositV2(amounts)
    <3> DEFINE gross == [tk \in Token |-> Gross(tk, amounts[tk])]
    <3>1. \A tk \in Token : Received(tk, gross[tk]) = amounts[tk]
      BY <1>1, ArrivesWhole DEF VaultInv
    <3>2. Deposited(gross, amounts)
      BY <2>2 DEF DepositV2
    <3> QED  BY <3>1, <3>2
  <2> QED  BY <2>1, <2>2
<1>3. /\ vault' = [tk \in Token |-> vault[tk] + amounts[tk]]
      /\ reserve' = [tk \in Token |-> reserve[tk] + amounts[tk]]
      /\ \A tk \in Token : vault'[tk] <= MaxVault
      /\ UNCHANGED <<unclaimed, protocol_fees, fund_fees, status, amm_config, transfer_fee>>
  BY <1>2 DEF Deposited, Plus, VaultBound
<1> QED  BY <1>1, <1>3, VaultAssumption, BasisPointsAssumption
         DEF VaultInv, VaultTypeOK, VaultCovers, Surplus, Amounts

LEMMA DecreaseKeeps ==
  ASSUME VaultInv, NEW amounts \in Amounts, NEW fees \in Amounts,
         DecreaseLiquidity(amounts, fees)
  PROVE  VaultInv' /\ \A tk \in Token : Surplus(tk)' = Surplus(tk)
<1>1. \A tk \in Token : amounts[tk] \in Nat /\ fees[tk] \in Nat
  BY VaultAssumption, BasisPointsAssumption DEF Amounts
<1>2. /\ vault' = [tk \in Token |-> vault[tk] - (amounts[tk] + fees[tk])]
      /\ reserve' = [tk \in Token |-> reserve[tk] - amounts[tk]]
      /\ unclaimed' = [tk \in Token |-> unclaimed[tk] - fees[tk]]
      /\ \A tk \in Token : /\ amounts[tk] <= reserve[tk] /\ fees[tk] <= unclaimed[tk]
                           /\ amounts[tk] + fees[tk] <= vault[tk]
      /\ UNCHANGED <<protocol_fees, fund_fees, amm_config, transfer_fee>>
  BY DEF DecreaseLiquidity, AtMost, Plus, Minus
<1>3. status' \subseteq PoolStatusBits
  BY DEF DecreaseLiquidity, StatusChecked, VaultInv, VaultTypeOK, PoolStatusBits
<1> QED  BY <1>1, <1>2, <1>3, VaultAssumption, BasisPointsAssumption
         DEF VaultInv, VaultTypeOK, VaultCovers, Surplus, Amounts

LEMMA SwapKeeps ==
  ASSUME VaultInv, NEW in \in Token, NEW out \in Token,
         NEW amount_in \in 0..MaxVault, NEW amount_out \in 0..MaxVault,
         NEW fee_1 \in 0..MaxFee, NEW fee_2 \in 0..MaxFee,
         \/ SwapV1(in, out, amount_in, amount_out, fee_1, fee_2)
         \/ SwapV2(in, out, amount_in, amount_out, fee_1, fee_2)
  PROVE  VaultInv' /\ \A tk \in Token : Surplus(tk)' = Surplus(tk)
<1> DEFINE amount == amount_in + fee_1 + fee_2
           s1 == SplitFee(fee_1)
           s2 == SplitFee(fee_2)
<1>1. /\ amount_in \in Nat /\ amount_out \in Nat /\ fee_1 \in Nat /\ fee_2 \in Nat
      /\ amount \in Nat
  BY VaultAssumption, BasisPointsAssumption
<1>2. PICK paid : Settle(in, out, paid, amount_out) /\ Received(in, paid) = amount
  <2>1. CASE SwapV1(in, out, amount_in, amount_out, fee_1, fee_2)
    <3>1. transfer_fee[in] = NoFee
      BY <2>1 DEF SwapV1, PlainTokens
    <3>2. Received(in, amount) = amount
      BY <1>1, <3>1, PlainArrivesWhole
    <3> QED  BY <2>1, <3>2 DEF SwapV1
  <2>2. CASE SwapV2(in, out, amount_in, amount_out, fee_1, fee_2)
    <3>1. Received(in, Gross(in, amount)) = amount
      BY <1>1, ArrivesWhole DEF VaultInv
    <3> QED  BY <2>2, <3>1 DEF SwapV2
  <2> QED  BY <2>1, <2>2
<1>3. /\ SwapInternal(in, out, amount_in, amount_out, fee_1, fee_2) /\ in # out
      /\ UNCHANGED <<amm_config, transfer_fee>>
  BY DEF SwapV1, SwapV2
<1>4. /\ s1.protocol \in Nat /\ s1.fund \in Nat /\ s1.providers \in Nat
      /\ s1.protocol + s1.fund + s1.providers = fee_1
  BY <1>1, <1>3, SplitIsWhole DEF SwapInternal, VaultInv, VaultTypeOK
<1>5. /\ s2.protocol \in Nat /\ s2.fund \in Nat /\ s2.providers \in Nat
      /\ s2.protocol + s2.fund + s2.providers = fee_2
  BY <1>1, <1>3, SplitIsWhole DEF SwapInternal, VaultInv, VaultTypeOK
<1>6. /\ vault' = [tk \in Token |-> IF tk = in THEN vault[tk] + amount
                                    ELSE IF tk = out THEN vault[tk] - amount_out
                                    ELSE vault[tk]]
      /\ amount_out <= vault[out]
      /\ \A tk \in Token : vault'[tk] <= MaxVault
  BY <1>1, <1>2, <1>3 DEF Settle, Plus, Minus, Only, VaultBound, VaultInv, VaultTypeOK, Amounts
<1>7. /\ reserve' = [tk \in Token |-> IF tk = in THEN reserve[tk] + amount_in
                                      ELSE IF tk = out THEN reserve[tk] - amount_out
                                      ELSE reserve[tk]]
      /\ amount_out <= reserve[out]
  BY <1>1, <1>3 DEF SwapInternal, Plus, Minus, Only, VaultInv, VaultTypeOK
<1>8. /\ unclaimed' = [tk \in Token |-> unclaimed[tk]
                          + (IF tk = in THEN s1.providers + s2.providers ELSE 0)]
      /\ protocol_fees' = [tk \in Token |-> protocol_fees[tk]
                             + (IF tk = in THEN s1.protocol + s2.protocol ELSE 0)]
      /\ fund_fees' = [tk \in Token |-> fund_fees[tk]
                         + (IF tk = in THEN s1.fund + s2.fund ELSE 0)]
  BY <1>3 DEF SwapInternal, Plus, Only
<1>9. status' \subseteq PoolStatusBits
  BY <1>2 DEF Settle, StatusSettled, VaultInv, VaultTypeOK
<1>10. VaultTypeOK'
  <2> HIDE DEF s1, s2
  <2>1. vault' \in Amounts
    BY <1>1, <1>6, VaultAssumption, BasisPointsAssumption DEF VaultInv, VaultTypeOK, Amounts
  <2>2. reserve' \in [Token -> Nat]
    BY <1>1, <1>7 DEF VaultInv, VaultTypeOK
  <2>3. /\ unclaimed' \in [Token -> Nat] /\ protocol_fees' \in [Token -> Nat]
        /\ fund_fees' \in [Token -> Nat]
    BY <1>4, <1>5, <1>8 DEF VaultInv, VaultTypeOK
  <2> QED  BY <1>3, <1>9, <2>1, <2>2, <2>3 DEF VaultInv, VaultTypeOK
<1>11. \A tk \in Token : Surplus(tk)' = Surplus(tk)
  <2> HIDE DEF s1, s2
  <2> SUFFICES ASSUME NEW tk \in Token  PROVE Surplus(tk)' = Surplus(tk)
    OBVIOUS
  <2>1. /\ vault[tk] \in Int /\ reserve[tk] \in Int /\ unclaimed[tk] \in Int
        /\ protocol_fees[tk] \in Int /\ fund_fees[tk] \in Int
    BY DEF VaultInv, VaultTypeOK, Amounts
  <2>2. CASE tk = in
    <3>1. /\ vault'[tk] = vault[tk] + (amount_in + fee_1 + fee_2)
          /\ reserve'[tk] = reserve[tk] + amount_in
      BY <1>6, <1>7, <2>2
    <3>2. /\ unclaimed'[tk] = unclaimed[tk] + (s1.providers + s2.providers)
          /\ protocol_fees'[tk] = protocol_fees[tk] + (s1.protocol + s2.protocol)
          /\ fund_fees'[tk] = fund_fees[tk] + (s1.fund + s2.fund)
      BY <1>8, <2>2
    <3> QED  BY <1>1, <1>4, <1>5, <2>1, <3>1, <3>2 DEF Surplus
  <2>3. CASE tk # in
    <3>1. /\ unclaimed'[tk] = unclaimed[tk] + 0
          /\ protocol_fees'[tk] = protocol_fees[tk] + 0
          /\ fund_fees'[tk] = fund_fees[tk] + 0
      BY <1>8, <2>3
    <3>2. \/ /\ vault'[tk] = vault[tk] - amount_out
             /\ reserve'[tk] = reserve[tk] - amount_out
          \/ vault'[tk] = vault[tk] /\ reserve'[tk] = reserve[tk]
      BY <1>6, <1>7, <2>3
    <3> QED  BY <1>1, <2>1, <3>1, <3>2 DEF Surplus
  <2> QED  BY <2>2, <2>3
<1> QED  BY <1>10, <1>11 DEF VaultInv, VaultCovers

LEMMA GrantedWithin ==
  ASSUME NEW requested, NEW owed \in [Token -> Nat],
         \A tk \in Token : requested[tk] \in Nat
  PROVE  \A tk \in Token : /\ Granted(requested, owed)[tk] \in Nat
                          /\ Granted(requested, owed)[tk] <= owed[tk]
<1> SUFFICES ASSUME NEW tk \in Token
             PROVE  /\ Granted(requested, owed)[tk] \in Nat
                    /\ Granted(requested, owed)[tk] <= owed[tk]
  OBVIOUS
<1>1. Granted(requested, owed)[tk] = Lesser(requested[tk], owed[tk])
  BY DEF Granted
<1>2. requested[tk] \in Nat /\ owed[tk] \in Nat
  OBVIOUS
<1> QED  BY <1>1, <1>2 DEF Lesser

LEMMA CollectKeeps ==
  ASSUME VaultInv, NEW requested \in Amounts,
         CollectProtocolFee(requested) \/ CollectFundFee(requested)
  PROVE  VaultInv' /\ \A tk \in Token : Surplus(tk)' = Surplus(tk)
<1>1. \A tk \in Token : requested[tk] \in Nat
  BY VaultAssumption, BasisPointsAssumption DEF Amounts
<1>2. status' \subseteq PoolStatusBits
  BY DEF CollectProtocolFee, CollectFundFee, StatusChecked, VaultInv, VaultTypeOK,
         PoolStatusBits
<1>3. CASE CollectProtocolFee(requested)
  <2>1. \A tk \in Token : /\ Granted(requested, protocol_fees)[tk] \in Nat
                         /\ Granted(requested, protocol_fees)[tk] <= protocol_fees[tk]
    BY <1>1, GrantedWithin DEF VaultInv, VaultTypeOK
  <2> QED  BY <1>2, <1>3, <2>1, VaultAssumption, BasisPointsAssumption
           DEF CollectProtocolFee, Minus, AtMost, VaultInv, VaultTypeOK, VaultCovers,
               Surplus, Amounts
<1>4. CASE CollectFundFee(requested)
  <2>1. \A tk \in Token : /\ Granted(requested, fund_fees)[tk] \in Nat
                         /\ Granted(requested, fund_fees)[tk] <= fund_fees[tk]
    BY <1>1, GrantedWithin DEF VaultInv, VaultTypeOK
  <2> QED  BY <1>2, <1>4, <2>1, VaultAssumption, BasisPointsAssumption
           DEF CollectFundFee, Minus, AtMost, VaultInv, VaultTypeOK, VaultCovers,
               Surplus, Amounts
<1> QED  BY <1>3, <1>4

(* The instructions that move no token.                                    *)
LEMMA AdminKeeps ==
  ASSUME VaultInv,
         \/ \E new \in Statuses : UpdatePoolStatus(new)
         \/ \E rate \in Rates : UpdateProtocolFeeRate(rate) \/ UpdateFundFeeRate(rate)
         \/ UNCHANGED vars
  PROVE  VaultInv' /\ \A tk \in Token : Surplus(tk)' = Surplus(tk)
<1>1. UNCHANGED <<vault, claimVars, transfer_fee>>
  BY DEF UpdatePoolStatus, UpdateProtocolFeeRate, UpdateFundFeeRate, vars
<1>2. status' \subseteq PoolStatusBits
  BY VaultAssumption, BasisPointsAssumption DEF UpdatePoolStatus, UpdateProtocolFeeRate, UpdateFundFeeRate, vars,
                         VaultInv, VaultTypeOK
<1>3. amm_config' \in AmmConfigs
  BY VaultAssumption DEF AmmConfigs, Rates, UpdatePoolStatus, UpdateProtocolFeeRate, UpdateFundFeeRate, vars,
         VaultInv, VaultTypeOK
<1> QED  BY <1>1, <1>2, <1>3 DEF VaultInv, VaultTypeOK, VaultCovers, Surplus, claimVars

LEMMA DonateKeeps ==
  ASSUME VaultInv, NEW tk \in Token, Donate(tk)
  PROVE  VaultInv' /\ \A t \in Token : Surplus(t)' # Surplus(t) => t = tk
BY VaultAssumption, BasisPointsAssumption DEF Donate, VaultBound, claimVars, VaultInv, VaultTypeOK, VaultCovers,
                       Surplus, Amounts

(* One instruction keeps the invariant, and a token's surplus unless it is *)
(* a gift of that token.                                                   *)
LEMMA VaultStep ==
  ASSUME VaultInv, [Next]_vars
  PROVE  VaultInv' /\ \A tk \in Token : Surplus(tk)' # Surplus(tk) => Donate(tk)
<1>1. CASE \E amounts \in Amounts : DepositV1(amounts) \/ DepositV2(amounts)
  BY <1>1, DepositKeeps
<1>2. CASE \E amounts, fees \in Amounts : DecreaseLiquidity(amounts, fees)
  BY <1>2, DecreaseKeeps
<1>3. CASE \E in, out \in Token, amount_in, amount_out \in 0..MaxVault,
             fee_1, fee_2 \in 0..MaxFee :
             \/ SwapV1(in, out, amount_in, amount_out, fee_1, fee_2)
             \/ SwapV2(in, out, amount_in, amount_out, fee_1, fee_2)
  BY <1>3, SwapKeeps
<1>4. CASE \E requested \in Amounts : CollectProtocolFee(requested) \/ CollectFundFee(requested)
  BY <1>4, CollectKeeps
<1>5. CASE \/ \E new \in Statuses : UpdatePoolStatus(new)
           \/ \E rate \in Rates : UpdateProtocolFeeRate(rate) \/ UpdateFundFeeRate(rate)
           \/ UNCHANGED vars
  BY <1>5, AdminKeeps
<1>6. CASE \E tk \in Token : Donate(tk)
  BY <1>6, DonateKeeps
<1> QED  BY <1>1, <1>2, <1>3, <1>4, <1>5, <1>6 DEF Next

LEMMA VaultInvHolds == Spec => []VaultInv
<1>1. VaultInv /\ [Next]_vars => VaultInv'
  BY VaultStep
<1> QED  BY <1>1, VaultInvInit, PTL DEF Spec

(* Each vault covers every claim on it: the property VaultCovers of the    *)
(* runs, for any two or more tokens, transfer fees, rates and bounds.      *)
THEOREM ClaimsCovered == Spec => []VaultCovers
<1>1. VaultInv => VaultCovers
  BY DEF VaultInv
<1> QED  BY <1>1, VaultInvHolds, PTL

(* The types of the vault's ledger: no claim and no vault goes below zero. *)
THEOREM LedgerTyped == Spec => []VaultTypeOK
<1>1. VaultInv => VaultTypeOK
  BY DEF VaultInv
<1> QED  BY <1>1, VaultInvHolds, PTL

(* However the admin sets the two rates, and at any fee of a step, the     *)
(* shares of the protocol and the fund fit in the fee: the checked_sub of  *)
(* swap_internal never panics.                                             *)
THEOREM SharesWithinFee == Spec => [](\A fee \in Nat : SplitFee(fee).providers >= 0)
<1>1. VaultInv => \A fee \in Nat : SplitFee(fee).providers >= 0
  BY SplitIsWhole DEF VaultInv, VaultTypeOK
<1> QED  BY <1>1, VaultInvHolds, PTL

(* Nothing that a deposit, a withdrawal, a swap or a collection moves is   *)
(* left unbooked, whatever the mints keep of the transfers: the property   *)
(* SurplusOnlyGiven of the runs.                                           *)
THEOREM NothingUnbooked == Spec => SurplusOnlyGiven
<1>1. VaultInv /\ [Next]_vars => [\A tk \in Token : Surplus(tk)' # Surplus(tk) => Donate(tk)]_vars
  BY VaultStep
<1> QED  BY <1>1, VaultInvHolds, PTL DEF Spec, SurplusOnlyGiven

-----------------------------------------------------------------------------
(* The status *)

LEMMA NothingLeft ==
  ASSUME NEW v \in Nat, NEW r \in Nat, NEW u \in Nat, NEW p \in Nat, NEW f \in Nat,
         v - r - u - p - f >= 0, u >= v
  PROVE  r = 0 /\ p = 0 /\ f = 0 /\ v = u
OBVIOUS

(* A status that check_unclaimed_fees_and_vault changed shows a vault with *)
(* nothing in it but the providers' fees: the check's >= can only be an    *)
(* equality, since the vault covers all other claims too.                  *)
LEMMA CheckedWhenBare ==
  ASSUME VaultTypeOK', VaultCovers', status' = StatusChecked(unclaimed', vault'),
         status' # status
  PROVE  \E tk \in Token :
           /\ reserve'[tk] = 0 /\ protocol_fees'[tk] = 0 /\ fund_fees'[tk] = 0
           /\ vault'[tk] = unclaimed'[tk]
           /\ status' = status \cup {"CollectFee"} /\ vault'[tk] > 0
<1>1. PICK tk \in Token : unclaimed'[tk] >= vault'[tk] /\ vault'[tk] # 0
  BY DEF StatusChecked
<1>2. status' = status \cup {"CollectFee"}
  BY <1>1 DEF StatusChecked
<1>3. /\ vault'[tk] \in Nat /\ reserve'[tk] \in Nat /\ unclaimed'[tk] \in Nat
      /\ protocol_fees'[tk] \in Nat /\ fund_fees'[tk] \in Nat
  BY VaultAssumption, BasisPointsAssumption DEF VaultTypeOK, Amounts
<1>4. vault'[tk] - reserve'[tk] - unclaimed'[tk] - protocol_fees'[tk] - fund_fees'[tk] >= 0
  BY DEF VaultCovers, Surplus
<1>5. reserve'[tk] = 0 /\ protocol_fees'[tk] = 0 /\ fund_fees'[tk] = 0 /\ vault'[tk] = unclaimed'[tk]
  BY <1>1, <1>3, <1>4, NothingLeft
<1>6. vault'[tk] > 0
  BY <1>1, <1>3
<1> QED  BY <1>2, <1>5, <1>6

(* A swap freezes the pool only when the vault it paid from is empty, and  *)
(* then nobody has a claim on that token.                                  *)
LEMMA FrozenWhenEmpty ==
  ASSUME VaultInv, VaultInv', NEW in \in Token, NEW out \in Token,
         NEW amount_in \in 0..MaxVault, NEW amount_out \in 0..MaxVault,
         NEW fee_1 \in 0..MaxFee, NEW fee_2 \in 0..MaxFee,
         \/ SwapV1(in, out, amount_in, amount_out, fee_1, fee_2)
         \/ SwapV2(in, out, amount_in, amount_out, fee_1, fee_2),
         status' # status
  PROVE  /\ status' = PoolStatusBits
         /\ vault'[out] = 0 /\ reserve'[out] = 0 /\ unclaimed'[out] = 0
         /\ protocol_fees'[out] = 0 /\ fund_fees'[out] = 0
<1>1. PICK paid : Settle(in, out, paid, amount_out) /\ in # out
  BY DEF SwapV1, SwapV2
<1>2. vault[out] <= amount_out /\ status' = PoolStatusBits /\ amount_out <= vault[out]
  BY <1>1 DEF Settle, StatusSettled
<1>3. /\ vault[out] \in Nat /\ vault[in] \in Nat /\ amount_out \in Nat
  BY VaultAssumption, BasisPointsAssumption DEF VaultInv, VaultTypeOK, Amounts
<1>4. vault'[out] = 0
  <2>1. Only(in, Received(in, paid))[out] = 0 /\ Only(out, amount_out)[out] = amount_out
    BY <1>1 DEF Only
  <2>2. Plus(vault, Only(in, Received(in, paid)))[out] = vault[out]
    BY <1>3, <2>1 DEF Plus
  <2>3. vault'[out] = vault[out] - amount_out
    BY <1>1, <2>1, <2>2 DEF Settle, Minus
  <2> QED  BY <1>2, <1>3, <2>3
<1>5. /\ reserve'[out] \in Nat /\ unclaimed'[out] \in Nat
      /\ protocol_fees'[out] \in Nat /\ fund_fees'[out] \in Nat
  BY DEF VaultInv, VaultTypeOK
<1>6. vault'[out] - reserve'[out] - unclaimed'[out] - protocol_fees'[out] - fund_fees'[out] >= 0
  BY DEF VaultInv, VaultCovers, Surplus
<1>7. unclaimed'[out] = 0 /\ reserve'[out] = 0 /\ protocol_fees'[out] = 0 /\ fund_fees'[out] = 0
  BY <1>4, <1>5, <1>6, NothingLeft
<1> QED  BY <1>2, <1>4, <1>7

(* The program disables instructions only in a pool that owes nobody what  *)
(* it then withholds: the property DisabledOnlyWhenBare of the runs.       *)
THEOREM NeverDisabledOwing == Spec => DisabledOnlyWhenBare
<1> DEFINE Bare ==
      ~(\E new \in Statuses : UpdatePoolStatus(new)) /\ status' # status =>
       \E tk \in Token :
         /\ reserve'[tk] = 0 /\ protocol_fees'[tk] = 0 /\ fund_fees'[tk] = 0
         /\ vault'[tk] = unclaimed'[tk]
         /\ \/ status' = PoolStatusBits /\ vault'[tk] = 0
            \/ status' = status \cup {"CollectFee"} /\ vault'[tk] > 0
<1>1. VaultInv /\ [Next]_vars => [Bare]_vars
  <2> SUFFICES ASSUME VaultInv, Next, status' # status,
                      ~(\E new \in Statuses : UpdatePoolStatus(new))
               PROVE  Bare
    BY DEF vars
  <2>1. VaultInv'
    BY VaultStep
  <2>2. CASE status' = StatusChecked(unclaimed', vault')
    BY <2>1, <2>2, CheckedWhenBare DEF VaultInv
  <2>3. CASE \E in, out \in Token, amount_in, amount_out \in 0..MaxVault,
               fee_1, fee_2 \in 0..MaxFee :
               \/ SwapV1(in, out, amount_in, amount_out, fee_1, fee_2)
               \/ SwapV2(in, out, amount_in, amount_out, fee_1, fee_2)
    <3>1. PICK in, out \in Token, amount_in, amount_out \in 0..MaxVault,
               fee_1, fee_2 \in 0..MaxFee :
               \/ SwapV1(in, out, amount_in, amount_out, fee_1, fee_2)
               \/ SwapV2(in, out, amount_in, amount_out, fee_1, fee_2)
      BY <2>3
    <3> QED  BY <2>1, <3>1, FrozenWhenEmpty
  <2>4. CASE \E amounts, fees \in Amounts : DecreaseLiquidity(amounts, fees)
    BY <2>2, <2>4 DEF DecreaseLiquidity
  <2>5. CASE \E requested \in Amounts :
               CollectProtocolFee(requested) \/ CollectFundFee(requested)
    BY <2>2, <2>5 DEF CollectProtocolFee, CollectFundFee
  <2> QED  BY <2>3, <2>4, <2>5
           DEF Next, DepositV1, DepositV2, Deposited, UpdateProtocolFeeRate,
               UpdateFundFeeRate, Donate
<1> QED  BY <1>1, VaultInvHolds, PTL DEF Spec, DisabledOnlyWhenBare

-----------------------------------------------------------------------------
(* The freeze *)

(* With all bits set no bit is clear for a deposit, a withdrawal or a swap.*)
LEMMA FrozenRefuses ==
  ASSUME status = PoolStatusBits
  PROVE  /\ \A paid, amounts : ~Deposited(paid, amounts)
         /\ \A amounts, fees : ~DecreaseLiquidity(amounts, fees)
         /\ \A in, out, amount_in, amount_out, fee_1, fee_2 :
              ~SwapInternal(in, out, amount_in, amount_out, fee_1, fee_2)
BY DEF PoolStatusBits, Deposited, DecreaseLiquidity, MayDecrease, SwapInternal

(* What a collection takes out of the vaults leaves the providers' claims  *)
(* as they are.                                                            *)
LEMMA CollectOnlyTakes ==
  ASSUME VaultInv, NEW requested \in Amounts,
         CollectProtocolFee(requested) \/ CollectFundFee(requested)
  PROVE  UNCHANGED <<reserve, unclaimed>> /\ \A tk \in Token : vault'[tk] <= vault[tk]
<1>1. \A tk \in Token : requested[tk] \in Nat /\ vault[tk] \in Nat
  BY VaultAssumption, BasisPointsAssumption DEF Amounts, VaultInv, VaultTypeOK
<1>2. CASE CollectProtocolFee(requested)
  BY <1>1, <1>2, GrantedWithin DEF CollectProtocolFee, Minus, VaultInv, VaultTypeOK
<1>3. CASE CollectFundFee(requested)
  BY <1>1, <1>3, GrantedWithin DEF CollectFundFee, Minus, VaultInv, VaultTypeOK
<1> QED  BY <1>2, <1>3

(* In a frozen pool nothing of the providers moves, and tokens come in     *)
(* only as gifts: the property FreezeHolds of the runs.                    *)
THEOREM FreezeKept == Spec => FreezeHolds
<1> DEFINE Held ==
      status = PoolStatusBits =>
        /\ UNCHANGED <<reserve, unclaimed>>
        /\ \A tk \in Token : vault'[tk] > vault[tk] => Donate(tk)
<1>1. ASSUME VaultInv, Next  PROVE Held
  <2> SUFFICES ASSUME status = PoolStatusBits
               PROVE  /\ UNCHANGED <<reserve, unclaimed>>
                      /\ \A tk \in Token : vault'[tk] > vault[tk] => Donate(tk)
    OBVIOUS
  <2>1. \A tk \in Token : vault[tk] \in Nat
    BY <1>1, VaultAssumption DEF VaultInv, VaultTypeOK, Amounts
  <2>2. CASE \E requested \in Amounts : CollectProtocolFee(requested) \/ CollectFundFee(requested)
    <3>1. PICK requested \in Amounts : CollectProtocolFee(requested) \/ CollectFundFee(requested)
      BY <2>2
    <3>2. UNCHANGED <<reserve, unclaimed>> /\ \A tk \in Token : vault'[tk] <= vault[tk]
      BY <1>1, <3>1, CollectOnlyTakes
    <3>3. \A tk \in Token : vault'[tk] \in Nat
      <4>1. VaultInv'
        BY <1>1, <3>1, CollectKeeps
      <4> QED  BY <4>1, VaultAssumption DEF VaultInv, VaultTypeOK, Amounts
    <3> QED  BY <2>1, <3>2, <3>3
  <2>3. CASE \/ \E new \in Statuses : UpdatePoolStatus(new)
             \/ \E rate \in Rates : UpdateProtocolFeeRate(rate) \/ UpdateFundFeeRate(rate)
    <3>1. UNCHANGED <<vault, reserve, unclaimed>>
      BY <2>3 DEF UpdatePoolStatus, UpdateProtocolFeeRate, UpdateFundFeeRate, claimVars
    <3> QED  BY <2>1, <3>1
  <2>4. CASE \E tk \in Token : Donate(tk)
    <3>1. PICK tk \in Token : Donate(tk)
      BY <2>4
    <3>2. UNCHANGED <<reserve, unclaimed>> /\ vault' = [vault EXCEPT ![tk] = @ + 1]
      BY <3>1 DEF Donate, claimVars
    <3>3. vault \in Amounts
      BY <1>1 DEF VaultInv, VaultTypeOK
    <3>4. \A t \in Token : t # tk => vault'[t] = vault[t]
      BY <3>2, <3>3 DEF Amounts
    <3> QED  BY <2>1, <3>1, <3>2, <3>4
  <2>5. ~(\E amounts \in Amounts : DepositV1(amounts) \/ DepositV2(amounts))
    BY FrozenRefuses DEF DepositV1, DepositV2
  <2>6. ~(\E amounts, fees \in Amounts : DecreaseLiquidity(amounts, fees))
    BY FrozenRefuses
  <2>7. ~(\E in, out \in Token, amount_in, amount_out \in 0..MaxVault, fee_1, fee_2 \in 0..MaxFee :
             \/ SwapV1(in, out, amount_in, amount_out, fee_1, fee_2)
             \/ SwapV2(in, out, amount_in, amount_out, fee_1, fee_2))
    BY FrozenRefuses DEF SwapV1, SwapV2
  <2> QED  BY <1>1, <2>2, <2>3, <2>4, <2>5, <2>6, <2>7 DEF Next
<1>2. VaultInv /\ [Next]_vars => [Held]_vars
  BY <1>1
<1> QED  BY <1>2, VaultInvHolds, PTL DEF Spec, FreezeHolds
=============================================================================
