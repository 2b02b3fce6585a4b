----------------------------- MODULE SwapMathProofs -----------------------------
(***************************************************************************)
(* The theorems about the arithmetic of a swap, for every word size, every *)
(* price range and every fee rate below one: all the roundings together    *)
(* never leave the pool short, a step neither overshoots its target nor    *)
(* uses more than it was given, and it pays at least the fee.              *)
(*                                                                         *)
(* Nothing is known of a quotient but what it is good for: a quotient      *)
(* rounded down is at least k when k times the divisor fits into the       *)
(* dividend, and one rounded up is at most k when the dividend fits into   *)
(* k times the divisor.  Each amount, each price and the fee are brought   *)
(* into that form, and all else is inequalities between products.          *)
(***************************************************************************)
EXTENDS SwapMath, TLAPS

-----------------------------------------------------------------------------
(* Products *)

LEMMA TimesNat ==
  ASSUME NEW x \in Nat, NEW y \in Nat
  PROVE  x * y \in Nat
OBVIOUS

LEMMA TimesMonotone ==
  ASSUME NEW x \in Int, NEW y \in Int, NEW d \in Nat, x <= y
  PROVE  x * d <= y * d
OBVIOUS

LEMMA LessNot ==
  ASSUME NEW x \in Nat, NEW y \in Nat, x < y
  PROVE  ~ (y <= x) /\ x + 1 <= y
OBVIOUS

LEMMA TimesCancels ==
  ASSUME NEW x \in Int, NEW y \in Int, NEW d \in Nat \ {0}, x * d <= y * d
  PROVE  x <= y
<1> SUFFICES ASSUME y + 1 <= x PROVE FALSE  OBVIOUS
<1>1. (y + 1) * d <= x * d  BY TimesMonotone
<1>2. (y + 1) * d = y * d + d /\ y * d \in Int /\ x * d \in Int  OBVIOUS
<1> QED  BY <1>1, <1>2

LEMMA TimesAssociates ==
  ASSUME NEW x \in Int, NEW y \in Int, NEW z \in Int
  PROVE  (x * y) * z = x * (y * z)
OBVIOUS

-----------------------------------------------------------------------------
(* Quotients *)

LEMMA Floor ==
  ASSUME NEW n \in Nat, NEW d \in Nat \ {0}
  PROVE  /\ n \div d \in Nat
         /\ \A k \in Nat : k <= n \div d <=> k * d <= n
<1> DEFINE q == n \div d
           r == n % d
<1>1. q \in Nat /\ r \in 0..(d - 1) /\ n = d * q + r  OBVIOUS
<1> HIDE DEF q, r
<1>2. ASSUME NEW k \in Nat PROVE k <= q <=> k * d <= n
  <2>1. CASE k <= q
    <3>1. k * d <= q * d  BY <1>1, <2>1, TimesMonotone
    <3>2. q * d = d * q /\ q * d \in Nat /\ k * d \in Nat  BY <1>1
    <3> QED  BY <1>1, <2>1, <3>1, <3>2
  <2>2. CASE q + 1 <= k
    <3>1. (q + 1) * d <= k * d  BY <1>1, <2>2, TimesMonotone
    <3>2. (q + 1) * d = d * q + d /\ d * q \in Nat /\ k * d \in Nat  BY <1>1
    <3> QED  BY <1>1, <2>2, <3>1, <3>2
  <2> QED  BY <1>1, <2>1, <2>2
<1> QED  BY <1>1, <1>2 DEF q

Ceil(n, d) == (n + (d - 1)) \div d

LEMMA CeilIs ==
  ASSUME NEW n \in Nat, NEW d \in Nat \ {0}
  PROVE  /\ Ceil(n, d) \in Nat
         /\ \A k \in Nat : Ceil(n, d) <= k <=> n <= k * d
<1> DEFINE m == n + (d - 1)
           c == Ceil(n, d)
<1>1. m \in Nat /\ c = m \div d  BY DEF Ceil
<1>2. c \in Nat /\ \A k \in Nat : k <= c <=> k * d <= m  BY <1>1, Floor
<1> HIDE DEF c
<1>3. ASSUME NEW k \in Nat PROVE c <= k <=> n <= k * d
  <2>1. k + 1 <= c <=> (k + 1) * d <= m  BY <1>2
  <2>2. (k + 1) * d = k * d + d /\ k * d \in Nat  OBVIOUS
  <2> QED  BY <1>1, <1>2, <2>1, <2>2
<1> QED  BY <1>2, <1>3 DEF c

LEMMA DivRoundingUpIs ==
  ASSUME NEW n \in Nat, NEW d \in Nat \ {0}
  PROVE  /\ DivRoundingUp(n, d) \in Nat
         /\ \A k \in Nat : DivRoundingUp(n, d) <= k <=> n <= k * d
<1> DEFINE q == n \div d
           r == n % d
           c == DivRoundingUp(n, d)
<1>1. q \in Nat /\ r \in 0..(d - 1) /\ n = d * q + r  OBVIOUS
<1>2. c = IF r > 0 THEN q + 1 ELSE q  BY <1>1 DEF DivRoundingUp
<1>3. \A k \in Nat : k <= q <=> k * d <= n  BY Floor
<1> HIDE DEF q, r, c
<1>4. ASSUME NEW k \in Nat PROVE c <= k <=> n <= k * d
  <2>1. k * d \in Nat /\ d * q = q * d /\ q * d \in Nat  BY <1>1
  <2>2. CASE r > 0
    <3>1. k <= q <=> k * d <= n  BY <1>3
    <3>2. k * d # n
      <4>1. SUFFICES ASSUME k * d = n PROVE FALSE  OBVIOUS
      <4>2. k <= q  BY <3>1, <4>1
      <4>3. k * d <= q * d  BY <1>1, <4>2, TimesMonotone
      <4> QED  BY <1>1, <2>1, <2>2, <4>1, <4>3
    <3> QED  BY <1>1, <1>2, <2>1, <2>2, <3>1, <3>2
  <2>3. CASE r = 0
    <3>1. n = q * d /\ c = q  BY <1>1, <1>2, <2>1, <2>3
    <3>2. q <= k => q * d <= k * d  BY <1>1, TimesMonotone
    <3>3. q * d <= k * d => q <= k  BY <1>1, TimesCancels
    <3> QED  BY <3>1, <3>2, <3>3
  <2> QED  BY <1>1, <2>2, <2>3
<1> QED  BY <1>1, <1>2, <1>4 DEF c
-----------------------------------------------------------------------------
(* Amounts *)

LEMMA SwapConstants ==
  /\ Q64 \in Nat \ {0} /\ PriceLower \in Nat \ {0} /\ PriceUpper \in Nat \ {0}
  /\ PriceLower < PriceUpper
  /\ MaxLiquidity \in Nat /\ MaxAmount \in Nat \ {0}
  /\ \A p \in Prices : p \in Nat \ {0} /\ PriceLower <= p /\ p <= PriceUpper
  /\ \A a \in Amounts : a \in Nat \ {0}
BY PriceAssumption, BoundAssumption DEF Prices, Amounts

(* What the liquidity is worth of token 0 between two prices, times the    *)
(* product of the prices.                                                  *)
Worth0(low, high, liq) == (liq * Q64) * (high - low)

LEMMA Worth0Type ==
  ASSUME NEW low \in Nat, NEW high \in Nat, low <= high, NEW liq \in Nat
  PROVE  Worth0(low, high, liq) \in Nat
<1>1. liq * Q64 \in Nat /\ high - low \in Nat  BY SwapConstants, TimesNat
<1> QED  BY <1>1, TimesNat DEF Worth0

LEMMA Amount0Is ==
  ASSUME NEW low \in Nat \ {0}, NEW high \in Nat \ {0}, low <= high, NEW liq \in Nat
  PROVE  /\ GetDeltaAmount0(low, high, liq, TRUE) \in Nat
         /\ GetDeltaAmount0(low, high, liq, FALSE) \in Nat
         /\ \A k \in Nat :
              /\ GetDeltaAmount0(low, high, liq, TRUE) <= k
                   <=> Worth0(low, high, liq) <= (k * low) * high
              /\ k <= GetDeltaAmount0(low, high, liq, FALSE)
                   <=> (k * low) * high <= Worth0(low, high, liq)
<1> DEFINE w == Worth0(low, high, liq)
           c == Ceil(w, high)
           f == w \div high
<1>1. w \in Nat  BY Worth0Type
<1>2. GetDeltaAmount0(low, high, liq, TRUE) = DivRoundingUp(c, low)
  BY DEF GetDeltaAmount0, MulDivCeil, Ceil, Worth0
<1>3. GetDeltaAmount0(low, high, liq, FALSE) = f \div low
  BY DEF GetDeltaAmount0, MulDivFloor, Worth0
<1> HIDE DEF w
<1>4. c \in Nat /\ \A k \in Nat : c <= k <=> w <= k * high  BY <1>1, CeilIs
<1>5. f \in Nat /\ \A k \in Nat : k <= f <=> k * high <= w  BY <1>1, Floor
<1> HIDE DEF c, f
<1>6. /\ DivRoundingUp(c, low) \in Nat
      /\ \A k \in Nat : DivRoundingUp(c, low) <= k <=> c <= k * low
  BY <1>4, DivRoundingUpIs
<1>7. f \div low \in Nat /\ \A k \in Nat : k <= f \div low <=> k * low <= f
  BY <1>5, Floor
<1>8. \A k \in Nat : k * low \in Nat  BY TimesNat
<1> QED  BY <1>2, <1>3, <1>4, <1>5, <1>6, <1>7, <1>8 DEF w

LEMMA Amount1Is ==
  ASSUME NEW low \in Nat, NEW high \in Nat, low <= high, NEW liq \in Nat
  PROVE  /\ GetDeltaAmount1(low, high, liq, TRUE) \in Nat
         /\ GetDeltaAmount1(low, high, liq, FALSE) \in Nat
         /\ \A k \in Nat :
              /\ GetDeltaAmount1(low, high, liq, TRUE) <= k
                   <=> liq * (high - low) <= k * Q64
              /\ k <= GetDeltaAmount1(low, high, liq, FALSE)
                   <=> k * Q64 <= liq * (high - low)
<1> DEFINE w == liq * (high - low)
<1>1. w \in Nat /\ Q64 \in Nat \ {0}
  <2>1. high - low \in Nat  OBVIOUS
  <2> QED  BY <2>1, TimesNat, SwapConstants
<1>2. /\ GetDeltaAmount1(low, high, liq, TRUE) = Ceil(w, Q64)
      /\ GetDeltaAmount1(low, high, liq, FALSE) = w \div Q64
  BY DEF GetDeltaAmount1, MulDivCeil, MulDivFloor, Ceil
<1> HIDE DEF w
<1>3. Ceil(w, Q64) \in Nat /\ \A k \in Nat : Ceil(w, Q64) <= k <=> w <= k * Q64
  BY <1>1, CeilIs
<1>4. w \div Q64 \in Nat /\ \A k \in Nat : k <= w \div Q64 <=> k * Q64 <= w
  BY <1>1, Floor
<1> QED  BY <1>2, <1>3, <1>4 DEF w

-----------------------------------------------------------------------------
(* The price that an amount carries to: one lemma for each side of the     *)
(* swap and each token                                                     *)

LEMMA InputOf0 ==
  ASSUME NEW price \in Nat \ {0}, NEW target \in Nat \ {0}, target <= price,
         NEW liq \in Nat, NEW amount \in Nat,
         amount < GetDeltaAmount0(target, price, liq, TRUE)
  PROVE  LET next == NextPriceFromAmount0(price, liq, amount, TRUE)
         IN  /\ liq > 0
             /\ next \in Nat \ {0} /\ target < next /\ next <= price
             /\ GetDeltaAmount0(next, price, liq, TRUE) <= amount
<1> DEFINE b == liq * Q64
           next == NextPriceFromAmount0(price, liq, amount, TRUE)
           spent == amount * price
<1>1. b \in Nat /\ spent \in Nat  BY SwapConstants, TimesNat
<1>2. ~ (b * (price - target) <= (amount * target) * price)
  <2>1. /\ GetDeltaAmount0(target, price, liq, TRUE) \in Nat
        /\ GetDeltaAmount0(target, price, liq, TRUE) <= amount
             <=> Worth0(target, price, liq) <= (amount * target) * price
    BY Amount0Is
  <2>2. ~ (GetDeltaAmount0(target, price, liq, TRUE) <= amount)  BY <2>1, LessNot
  <2>3. Worth0(target, price, liq) = b * (price - target)  BY DEF Worth0
  <2> HIDE DEF b, spent, next
  <2> QED  BY <2>1, <2>2, <2>3, Zenon
<1>3. (amount * target) * price = target * spent  OBVIOUS
<1>4. b * (price - target) = b * price - b * target
  BY <1>1
<1>5. target * spent \in Nat /\ b * price \in Nat /\ b * target \in Nat
  BY <1>1, TimesNat
<1>6. b * price > b * target + target * spent
  <2> HIDE DEF b, spent
  <2> QED  BY <1>1, <1>2, <1>3, <1>4, <1>5
<1>7. b > 0
  <2>1. SUFFICES ASSUME b = 0 PROVE FALSE  BY <1>1
  <2> HIDE DEF b, spent
  <2>2. b * price = 0 /\ b * target = 0  BY <2>1
  <2> QED  BY <1>5, <1>6, <2>2
<1>8. liq > 0
  <2>1. liq = 0 => b = 0  BY SwapConstants
  <2> QED  BY <1>7, <2>1
<1>9. CASE amount = 0
  <2>1. next = price  BY <1>9 DEF NextPriceFromAmount0
  <2>2. target < price
    <3> HIDE DEF b, spent
    <3>1. SUFFICES ASSUME target = price PROVE FALSE  OBVIOUS
    <3> QED  BY <1>5, <1>6, <3>1
  <2>3. Worth0(price, price, liq) <= (amount * price) * price
    <3>1. Worth0(price, price, liq) = b * 0  BY DEF Worth0
    <3>2. b * 0 = 0  BY <1>1
    <3>3. (amount * price) * price \in Nat  BY TimesNat
    <3> HIDE DEF b
    <3> QED  BY <3>1, <3>2, <3>3
  <2>4. GetDeltaAmount0(price, price, liq, TRUE) <= amount
    <3>1. price <= price  OBVIOUS
    <3>2. GetDeltaAmount0(price, price, liq, TRUE) <= amount
            <=> Worth0(price, price, liq) <= (amount * price) * price
      BY <3>1, Amount0Is
    <3> QED  BY <2>3, <3>2
  <2> HIDE DEF next
  <2>5. next \in Nat \ {0} /\ next <= price  BY <2>1
  <2> QED  BY <1>8, <2>1, <2>2, <2>4, <2>5 DEF next
<1>10. CASE amount # 0
  <2> DEFINE d == b + spent
             c == Ceil(b * price, d)
  <2>1. next = c
    BY <1>10 DEF NextPriceFromAmount0, MulDivCeil, Ceil
  <2> HIDE DEF b, spent, next
  <2>2. d \in Nat \ {0}  BY <1>1, <1>7
  <2>3. c \in Nat /\ \A k \in Nat : c <= k <=> b * price <= k * d
    BY <1>5, <2>2, CeilIs
  <2>4. \A k \in Nat : k * d = b * k + k * spent /\ b * k \in Nat /\ k * spent \in Nat
    BY <1>1
  <2> HIDE DEF d, c
  <2>5. c <= price  BY <2>3, <2>4
  <2>6. ~ (c <= target)
    <3>1. target * d = b * target + target * spent  BY <2>4
    <3>2. ~ (b * price <= target * d)  BY <1>5, <1>6, <3>1
    <3> QED  BY <2>3, <3>2
  <2>7. c \in Nat \ {0} /\ target < c  BY <2>3, <2>6
  <2>8. b * (price - c) <= (amount * c) * price
    <3>1. b * price <= b * c + c * spent  BY <2>3, <2>4
    <3>2. b * (price - c) = b * price - b * c  BY <1>1, <2>3
    <3>3. (amount * c) * price = c * spent  BY <2>3 DEF spent
    <3>4. b * c \in Nat /\ c * spent \in Nat  BY <2>3, <2>4
    <3> QED  BY <1>5, <3>1, <3>2, <3>3, <3>4
  <2>9. Worth0(c, price, liq) <= (amount * c) * price  BY <2>8 DEF Worth0, b
  <2>10. GetDeltaAmount0(c, price, liq, TRUE) <= amount
    BY <2>5, <2>7, <2>9, Amount0Is
  <2> QED  BY <1>8, <2>1, <2>5, <2>7, <2>10 DEF next
<1> QED  BY <1>9, <1>10
LEMMA InputOf1 ==
  ASSUME NEW price \in Nat \ {0}, NEW target \in Nat \ {0}, price <= target,
         NEW liq \in Nat, NEW amount \in Nat,
         amount < GetDeltaAmount1(price, target, liq, TRUE)
  PROVE  LET next == NextPriceFromAmount1(price, liq, amount, TRUE)
         IN  /\ liq > 0
             /\ next \in Nat \ {0} /\ price <= next /\ next < target
             /\ GetDeltaAmount1(price, next, liq, TRUE) <= amount
<1> DEFINE paid == amount * Q64
           f == paid \div liq
           next == NextPriceFromAmount1(price, liq, amount, TRUE)
<1>1. paid \in Nat /\ target - price \in Nat  BY SwapConstants, TimesNat
<1>2. ~ (liq * (target - price) <= paid)
  <2>1. /\ GetDeltaAmount1(price, target, liq, TRUE) \in Nat
        /\ GetDeltaAmount1(price, target, liq, TRUE) <= amount
             <=> liq * (target - price) <= paid
    BY Amount1Is
  <2>2. ~ (GetDeltaAmount1(price, target, liq, TRUE) <= amount)  BY <2>1, LessNot
  <2> HIDE DEF paid
  <2> QED  BY <2>1, <2>2
<1>3. next = price + f  BY DEF NextPriceFromAmount1
<1> HIDE DEF paid
<1>4. liq > 0
  <2>1. liq = 0 => liq * (target - price) = 0  BY <1>1
  <2> QED  BY <1>1, <1>2, <2>1
<1>5. f \in Nat /\ \A k \in Nat : k <= f <=> k * liq <= paid  BY <1>1, <1>4, Floor
<1> HIDE DEF f, next
<1>6. f < target - price
  <2>1. target - price <= f <=> (target - price) * liq <= paid  BY <1>1, <1>5
  <2>2. (target - price) * liq = liq * (target - price)  BY <1>1
  <2> QED  BY <1>1, <1>2, <1>5, <2>1, <2>2
<1>7. next \in Nat \ {0} /\ price <= next /\ next < target /\ next - price = f
  BY <1>3, <1>5, <1>6
<1>8. liq * (next - price) <= paid
  <2>1. f * liq <= paid /\ f * liq = liq * f  BY <1>5
  <2> QED  BY <1>7, <2>1
<1>9. GetDeltaAmount1(price, next, liq, TRUE) <= amount
  <2>1. GetDeltaAmount1(price, next, liq, TRUE) <= amount
          <=> liq * (next - price) <= amount * Q64
    BY <1>7, Amount1Is
  <2> QED  BY <1>8, <2>1 DEF paid
<1> QED  BY <1>4, <1>7, <1>9 DEF next

LEMMA OutputOf1 ==
  ASSUME NEW price \in Nat \ {0}, NEW target \in Nat \ {0}, target <= price,
         NEW liq \in Nat, NEW amount \in Nat,
         amount < GetDeltaAmount1(target, price, liq, FALSE)
  PROVE  LET next == NextPriceFromAmount1(price, liq, amount, FALSE)
         IN  /\ liq > 0
             /\ next \in Nat \ {0} /\ target <= next /\ next <= price
             /\ amount <= GetDeltaAmount1(next, price, liq, FALSE)
<1> DEFINE paid == amount * Q64
           c == DivRoundingUp(paid, liq)
           next == NextPriceFromAmount1(price, liq, amount, FALSE)
<1>1. paid \in Nat /\ price - target \in Nat  BY SwapConstants, TimesNat
<1>2. paid + Q64 <= liq * (price - target)
  <2>1. /\ GetDeltaAmount1(target, price, liq, FALSE) \in Nat
        /\ amount + 1 <= GetDeltaAmount1(target, price, liq, FALSE)
             <=> (amount + 1) * Q64 <= liq * (price - target)
    <3>1. amount + 1 \in Nat  OBVIOUS
    <3> QED  BY <3>1, Amount1Is
  <2>2. amount + 1 <= GetDeltaAmount1(target, price, liq, FALSE)  BY <2>1, LessNot
  <2>3. (amount + 1) * Q64 = paid + Q64  BY SwapConstants
  <2> HIDE DEF paid
  <2> QED  BY <2>1, <2>2, <2>3
<1>3. next = price - c  BY DEF NextPriceFromAmount1
<1> HIDE DEF paid
<1>4. liq > 0
  <2>1. liq = 0 => liq * (price - target) = 0  BY <1>1
  <2> QED  BY <1>1, <1>2, <2>1, SwapConstants
<1>5. c \in Nat /\ \A k \in Nat : c <= k <=> paid <= k * liq
  BY <1>1, <1>4, DivRoundingUpIs
<1> HIDE DEF c, next
<1>6. c <= price - target
  <2>1. c <= price - target <=> paid <= (price - target) * liq  BY <1>1, <1>5
  <2>2. (price - target) * liq = liq * (price - target) /\ (price - target) * liq \in Nat
    BY <1>1, TimesNat
  <2> QED  BY <1>1, <1>2, <2>1, <2>2, SwapConstants
<1>7. next \in Nat \ {0} /\ target <= next /\ next <= price /\ price - next = c
  BY <1>3, <1>5, <1>6
<1>8. paid <= liq * (price - next)
  <2>1. paid <= c * liq /\ c * liq = liq * c  BY <1>5
  <2> QED  BY <1>7, <2>1
<1>9. amount <= GetDeltaAmount1(next, price, liq, FALSE)
  <2>1. amount <= GetDeltaAmount1(next, price, liq, FALSE)
          <=> amount * Q64 <= liq * (price - next)
    BY <1>7, Amount1Is
  <2> QED  BY <1>8, <2>1 DEF paid
<1> QED  BY <1>4, <1>7, <1>9 DEF next

LEMMA OutputOf0 ==
  ASSUME NEW price \in Nat \ {0}, NEW target \in Nat \ {0}, price <= target,
         NEW liq \in Nat, NEW amount \in Nat \ {0},
         amount < GetDeltaAmount0(price, target, liq, FALSE)
  PROVE  LET next == NextPriceFromAmount0(price, liq, amount, FALSE)
         IN  /\ liq > 0
             /\ next \in Nat \ {0} /\ price <= next /\ next <= target
             /\ amount <= GetDeltaAmount0(price, next, liq, FALSE)
<1> DEFINE b == liq * Q64
           next == NextPriceFromAmount0(price, liq, amount, FALSE)
           taken == amount * price
           d == b - taken
           c == Ceil(b * price, d)
<1>1. b \in Nat /\ taken \in Nat  BY SwapConstants, TimesNat
<1>2. ((amount + 1) * price) * target <= b * (target - price)
  <2>1. /\ GetDeltaAmount0(price, target, liq, FALSE) \in Nat
        /\ amount + 1 <= GetDeltaAmount0(price, target, liq, FALSE)
             <=> ((amount + 1) * price) * target <= Worth0(price, target, liq)
    <3>1. amount + 1 \in Nat  OBVIOUS
    <3> QED  BY <3>1, Amount0Is
  <2>2. amount + 1 <= GetDeltaAmount0(price, target, liq, FALSE)  BY <2>1, LessNot
  <2>3. Worth0(price, target, liq) = b * (target - price)  BY DEF Worth0
  <2> HIDE DEF b
  <2> QED  BY <2>1, <2>2, <2>3, Zenon
<1>3. ((amount + 1) * price) * target = taken * target + price * target
  <2>1. (amount + 1) * price = taken + price  OBVIOUS
  <2> HIDE DEF taken
  <2> QED  BY <1>1, <2>1
<1>4. next = c
  BY DEF NextPriceFromAmount0, MulDivCeil, Ceil
<1> HIDE DEF b, taken, c, next
<1>5. b * (target - price) = b * target - b * price  BY <1>1
<1>6. /\ taken * target \in Nat /\ b * target \in Nat /\ b * price \in Nat
      /\ price * target \in Nat /\ price * target > 0
  <2>1. price * target \in Nat  BY TimesNat
  <2>2. price * target >= 1 * target  BY TimesMonotone
  <2> QED  BY <1>1, <2>1, <2>2, TimesNat
<1>7. taken * target + b * price < b * target
  BY <1>2, <1>3, <1>5, <1>6
<1>8. taken < b
  <2>1. SUFFICES ASSUME b <= taken PROVE FALSE  BY <1>1
  <2>2. b * target <= taken * target  BY <1>1, <2>1, TimesMonotone
  <2> QED  BY <1>6, <1>7, <2>2
<1>9. d \in Nat \ {0}  BY <1>1, <1>8
<1>10. c \in Nat /\ \A k \in Nat : c <= k <=> b * price <= k * d
  BY <1>6, <1>9, CeilIs DEF c
<1>11. \A k \in Nat : k * d = b * k - k * taken /\ b * k \in Nat /\ k * taken \in Nat
  BY <1>1
<1> HIDE DEF d
<1>12. liq > 0
  <2>1. liq = 0 => b = 0  BY SwapConstants DEF b
  <2> QED  BY <1>1, <1>8, <2>1
<1>13. c <= target
  <2>1. target * d = b * target - target * taken /\ target * taken = taken * target
    BY <1>1, <1>11
  <2>2. b * price <= target * d  BY <1>6, <1>7, <2>1
  <2> QED  BY <1>10, <2>2
<1>14. price <= c
  <2>1. SUFFICES ASSUME c <= price - 1 PROVE FALSE  BY <1>10
  <2>2. b * price <= (price - 1) * d  BY <1>10, <2>1
  <2>3. (price - 1) * d = price * d - d /\ price * d = b * price - price * taken
        /\ price * taken \in Nat
    BY <1>9, <1>11
  <2> QED  BY <1>6, <1>9, <2>2, <2>3
<1>15. (amount * price) * c <= b * (c - price)
  <2>1. b * price <= b * c - c * taken /\ b * c \in Nat /\ c * taken \in Nat
    BY <1>10, <1>11
  <2>2. b * (c - price) = b * c - b * price  BY <1>1, <1>10
  <2>3. (amount * price) * c = c * taken  BY <1>10 DEF taken
  <2> QED  BY <1>6, <2>1, <2>2, <2>3
<1>16. amount <= GetDeltaAmount0(price, c, liq, FALSE)
  <2>1. c \in Nat \ {0}  BY <1>10, <1>14
  <2>2. amount <= GetDeltaAmount0(price, c, liq, FALSE)
          <=> (amount * price) * c <= Worth0(price, c, liq)
    BY <1>14, <2>1, Amount0Is
  <2> QED  BY <1>15, <2>2 DEF Worth0, b
<1>17. c \in Nat \ {0}  BY <1>10, <1>14
<1> QED  BY <1>4, <1>12, <1>13, <1>14, <1>16, <1>17 DEF next
-----------------------------------------------------------------------------
(* The fee *)

F == FEE_RATE_DENOMINATOR_VALUE
R == trade_fee_rate

LEMMA RateConstants == F \in Nat /\ R \in Nat /\ F - R \in Nat \ {0} /\ F \in Nat \ {0}
BY RateAssumption DEF F, R

LEMMA LessFeeIs ==
  ASSUME NEW amount \in Nat
  PROVE  /\ LessFee(amount) \in Nat
         /\ \A k \in Nat : k <= LessFee(amount) <=> k * F <= amount * (F - R)
<1> DEFINE n == amount * (F - R)
<1>1. n \in Nat  BY RateConstants, TimesNat
<1>2. LessFee(amount) = n \div F  BY DEF LessFee, MulDivFloor, F, R
<1> HIDE DEF n
<1>3. n \div F \in Nat /\ \A k \in Nat : k <= n \div F <=> k * F <= n
  BY <1>1, RateConstants, Floor
<1> QED  BY <1>2, <1>3 DEF n

FeeOn(amount_in) ==
  MulDivCeil(amount_in, trade_fee_rate, FEE_RATE_DENOMINATOR_VALUE - trade_fee_rate)

LEMMA FeeOnIs ==
  ASSUME NEW amount_in \in Nat
  PROVE  /\ FeeOn(amount_in) \in Nat
         /\ \A k \in Nat : FeeOn(amount_in) <= k <=> amount_in * R <= k * (F - R)
<1> DEFINE n == amount_in * R
           d == F - R
<1>1. n \in Nat  BY RateConstants, TimesNat
<1>2. FeeOn(amount_in) = Ceil(n, d)  BY DEF FeeOn, MulDivCeil, Ceil, F, R
<1>3. d \in Nat \ {0}  BY RateConstants
<1> HIDE DEF n, d
<1>4. Ceil(n, d) \in Nat /\ \A k \in Nat : Ceil(n, d) <= k <=> n <= k * d
  BY <1>1, <1>3, CeilIs
<1> QED  BY <1>2, <1>4 DEF n, d

(* An input within what remains less the fee leaves room for its fee, and  *)
(* what is left of the remainder is a fee that is high enough.             *)
LEMMA FeeFits ==
  ASSUME NEW amount_in \in Nat, NEW remaining \in Nat, amount_in <= LessFee(remaining)
  PROVE  /\ amount_in <= remaining
         /\ amount_in + FeeOn(amount_in) <= remaining
         /\ (remaining - amount_in) * F >= R * remaining
<1>1. amount_in * F <= remaining * (F - R)  BY LessFeeIs
<1>2. /\ F \in Nat \ {0} /\ R \in Nat /\ F - R \in Nat \ {0}  BY RateConstants
<1>3. remaining * (F - R) = remaining * F - remaining * R
      /\ remaining * F \in Nat /\ remaining * R \in Nat /\ amount_in * F \in Nat
      /\ amount_in * R \in Nat
  <2> HIDE DEF F, R
  <2> QED  BY <1>2, TimesNat
<1>4. amount_in <= remaining
  <2>1. amount_in * F <= remaining * F  BY <1>1, <1>3
  <2> QED  BY <1>2, <2>1, TimesCancels
<1>5. (remaining - amount_in) * F = remaining * F - amount_in * F /\ R * remaining = remaining * R
  <2> HIDE DEF F, R
  <2> QED  BY <1>2
<1>6. (remaining - amount_in) * F >= R * remaining  BY <1>1, <1>3, <1>5
<1>7. amount_in * R <= (remaining - amount_in) * (F - R)
  <2> DEFINE left == remaining - amount_in
  <2>1. left \in Nat  BY <1>4
  <2>2. left * (F - R) = left * F - left * R
    <3> HIDE DEF F, R, left
    <3> QED  BY <1>2, <2>1
  <2>3. left * R = remaining * R - amount_in * R
    <3> HIDE DEF F, R
    <3> QED  BY <1>2
  <2>4. left * F = remaining * F - amount_in * F  BY <1>5
  <2> HIDE DEF F, R, left
  <2>5. amount_in * R <= left * (F - R)  BY <1>1, <1>3, <2>2, <2>3, <2>4
  <2> QED  BY <2>5 DEF left
<1>8. FeeOn(amount_in) <= remaining - amount_in
  <2>1. remaining - amount_in \in Nat  BY <1>4
  <2> QED  BY <1>7, <2>1, FeeOnIs
<1>9. FeeOn(amount_in) \in Nat  BY FeeOnIs
<1> QED  BY <1>4, <1>6, <1>8, <1>9

LEMMA FeeEnough ==
  ASSUME NEW amount_in \in Nat
  PROVE  FeeOn(amount_in) * F >= R * (amount_in + FeeOn(amount_in))
<1> DEFINE fee == FeeOn(amount_in)
<1>1. fee \in Nat /\ amount_in * R <= fee * (F - R)  BY FeeOnIs
<1>2. F \in Nat /\ R \in Nat  BY RateConstants
<1> HIDE DEF fee, F, R
<1>3. /\ fee * (F - R) = fee * F - fee * R
      /\ R * (amount_in + fee) = amount_in * R + fee * R
      /\ fee * F \in Nat /\ fee * R \in Nat /\ amount_in * R \in Nat
  BY <1>1, <1>2
<1>4. fee * F >= R * (amount_in + fee)  BY <1>1, <1>3
<1> QED  BY <1>4 DEF fee

-----------------------------------------------------------------------------
(* A step *)

LEMMA AmountsType ==
  ASSUME NEW x \in Prices, NEW y \in Prices, NEW liq \in Nat, NEW zero_for_one \in BOOLEAN,
         IF zero_for_one THEN y <= x ELSE x <= y
  PROVE  /\ AmountIn(x, y, liq, zero_for_one) \in Nat
         /\ AmountOut(x, y, liq, zero_for_one) \in Nat
<1>1. x \in Nat \ {0} /\ y \in Nat \ {0} /\ x \in Nat /\ y \in Nat  BY SwapConstants
<1>2. CASE zero_for_one
  BY <1>1, <1>2, Amount0Is, Amount1Is DEF AmountIn, AmountOut
<1>3. CASE ~zero_for_one
  BY <1>1, <1>3, Amount0Is, Amount1Is DEF AmountIn, AmountOut
<1> QED  BY <1>2, <1>3

(* All that has to be known of the price that a step reaches.              *)
LEMMA NextPriceIs ==
  ASSUME NEW price \in Prices, NEW liq \in Nat, NEW target \in Prices,
         NEW remaining \in Nat \ {0},
         NEW is_base_input \in BOOLEAN, NEW zero_for_one \in BOOLEAN,
         IF zero_for_one THEN target <= price ELSE price <= target
  PROVE  LET next == NextPrice(price, target, liq, remaining,
                               is_base_input, zero_for_one)
         IN  /\ next \in Prices
             /\ IF zero_for_one THEN target <= next /\ next <= price
                                ELSE price <= next /\ next <= target
             /\ is_base_input =>
                  AmountIn(price, next, liq, zero_for_one) <= LessFee(remaining)
             /\ next # target =>
                  /\ liq > 0
                  /\ ~is_base_input =>
                       remaining <= AmountOut(price, next, liq, zero_for_one)
<1> DEFINE next == NextPrice(price, target, liq, remaining, is_base_input, zero_for_one)
           whole_in == AmountIn(price, target, liq, zero_for_one)
           whole_out == AmountOut(price, target, liq, zero_for_one)
           fair == LessFee(remaining)
           Good(p) ==
             /\ p \in Nat
             /\ IF zero_for_one THEN target <= p /\ p <= price ELSE price <= p /\ p <= target
             /\ is_base_input => AmountIn(price, p, liq, zero_for_one) <= fair
             /\ p # target =>
                  /\ liq > 0
                  /\ ~is_base_input => remaining <= AmountOut(price, p, liq, zero_for_one)
<1>1. /\ price \in Prices /\ liq \in Nat
      /\ price \in Nat \ {0} /\ target \in Nat \ {0} /\ remaining \in Nat \ {0}
      /\ IF zero_for_one THEN target <= price ELSE price <= target
  BY SwapConstants
<1>2. fair \in Nat  BY <1>1, LessFeeIs
<1>3. whole_in \in Nat /\ whole_out \in Nat  BY <1>1, AmountsType
<1>4. /\ ~(fair >= whole_in) => fair < whole_in
      /\ ~(remaining >= whole_out) => remaining < whole_out
  <2> HIDE DEF fair, whole_in, whole_out
  <2> QED  BY <1>1, <1>2, <1>3
<1> SUFFICES Good(next)
  <2> HIDE DEF next, fair
  <2>1. next \in Nat /\ PriceLower <= next /\ next <= PriceUpper
    BY <1>1, SwapConstants
  <2>2. next \in Prices  BY <2>1, SwapConstants DEF Prices
  <2> QED  BY <2>2 DEF next, fair
<1>5. CASE is_base_input /\ fair >= whole_in
  <2>1. next = target  BY <1>5 DEF NextPrice
  <2> HIDE DEF next
  <2> QED  BY <1>1, <1>2, <1>3, <1>5, <2>1
<1>6. CASE ~is_base_input /\ remaining >= whole_out
  <2>1. next = target  BY <1>6 DEF NextPrice
  <2> HIDE DEF next
  <2> QED  BY <1>1, <1>6, <2>1
<1>7. CASE is_base_input /\ ~(fair >= whole_in) /\ zero_for_one
  <2>1. next = NextPriceFromAmount0(price, liq, fair, TRUE)
    BY <1>7 DEF NextPrice, GetNextSqrtPriceFromInput
  <2>2. fair < GetDeltaAmount0(target, price, liq, TRUE)
    <3>1. whole_in = GetDeltaAmount0(target, price, liq, TRUE)  BY <1>7 DEF AmountIn
    <3> HIDE DEF fair, whole_in
    <3>2. fair < whole_in  BY <1>4, <1>7
    <3> QED  BY <3>1, <3>2
  <2> HIDE DEF fair, whole_in, whole_out
  <2>3. /\ liq > 0
        /\ NextPriceFromAmount0(price, liq, fair, TRUE) \in Nat \ {0}
        /\ target < NextPriceFromAmount0(price, liq, fair, TRUE)
        /\ NextPriceFromAmount0(price, liq, fair, TRUE) <= price
        /\ GetDeltaAmount0(NextPriceFromAmount0(price, liq, fair, TRUE), price, liq, TRUE) <= fair
    BY <1>1, <1>2, <1>7, <2>2, InputOf0
  <2> HIDE DEF next
  <2>4. liq > 0 /\ next \in Nat \ {0} /\ target <= next /\ next <= price
    <3>1. target \in Nat  BY SwapConstants
    <3>2. liq > 0 /\ next \in Nat \ {0} /\ target < next /\ next <= price  BY <2>1, <2>3
    <3> QED  BY <3>1, <3>2
  <2>5. AmountIn(price, next, liq, zero_for_one) <= fair  BY <1>7, <2>1, <2>3 DEF AmountIn
  <2> QED  BY <1>1, <1>7, <2>4, <2>5
<1>8. CASE is_base_input /\ ~(fair >= whole_in) /\ ~zero_for_one
  <2>1. next = NextPriceFromAmount1(price, liq, fair, TRUE)
    BY <1>8 DEF NextPrice, GetNextSqrtPriceFromInput
  <2>2. fair < GetDeltaAmount1(price, target, liq, TRUE)
    <3>1. whole_in = GetDeltaAmount1(price, target, liq, TRUE)  BY <1>8 DEF AmountIn
    <3> HIDE DEF fair, whole_in
    <3>2. fair < whole_in  BY <1>4, <1>8
    <3> QED  BY <3>1, <3>2
  <2> HIDE DEF fair, whole_in, whole_out
  <2>3. /\ liq > 0
        /\ NextPriceFromAmount1(price, liq, fair, TRUE) \in Nat \ {0}
        /\ price <= NextPriceFromAmount1(price, liq, fair, TRUE)
        /\ NextPriceFromAmount1(price, liq, fair, TRUE) < target
        /\ GetDeltaAmount1(price, NextPriceFromAmount1(price, liq, fair, TRUE), liq, TRUE) <= fair
    BY <1>1, <1>2, <1>8, <2>2, InputOf1
  <2> HIDE DEF next
  <2>4. liq > 0 /\ next \in Nat \ {0} /\ price <= next /\ next < target  BY <2>1, <2>3
  <2>5. AmountIn(price, next, liq, zero_for_one) <= fair  BY <1>8, <2>1, <2>3 DEF AmountIn
  <2> QED  BY <1>1, <1>8, <2>4, <2>5
<1>9. CASE ~is_base_input /\ ~(remaining >= whole_out) /\ zero_for_one
  <2>1. next = NextPriceFromAmount1(price, liq, remaining, FALSE)
    BY <1>9 DEF NextPrice, GetNextSqrtPriceFromOutput
  <2>2. remaining < GetDeltaAmount1(target, price, liq, FALSE)
    <3>1. whole_out = GetDeltaAmount1(target, price, liq, FALSE)  BY <1>9 DEF AmountOut
    <3> HIDE DEF fair, whole_out
    <3>2. remaining < whole_out  BY <1>4, <1>9
    <3> QED  BY <3>1, <3>2
  <2> HIDE DEF fair, whole_in, whole_out
  <2>3. /\ liq > 0
        /\ NextPriceFromAmount1(price, liq, remaining, FALSE) \in Nat \ {0}
        /\ target <= NextPriceFromAmount1(price, liq, remaining, FALSE)
        /\ NextPriceFromAmount1(price, liq, remaining, FALSE) <= price
        /\ remaining <= GetDeltaAmount1(NextPriceFromAmount1(price, liq, remaining, FALSE),
                                        price, liq, FALSE)
    BY <1>1, <1>9, <2>2, OutputOf1
  <2> HIDE DEF next
  <2> QED  BY <1>1, <1>9, <2>1, <2>3 DEF AmountOut
<1>10. CASE ~is_base_input /\ ~(remaining >= whole_out) /\ ~zero_for_one
  <2>1. next = NextPriceFromAmount0(price, liq, remaining, FALSE)
    BY <1>10 DEF NextPrice, GetNextSqrtPriceFromOutput
  <2>2. remaining < GetDeltaAmount0(price, target, liq, FALSE)
    <3>1. whole_out = GetDeltaAmount0(price, target, liq, FALSE)  BY <1>10 DEF AmountOut
    <3> HIDE DEF fair, whole_out
    <3>2. remaining < whole_out  BY <1>4, <1>10
    <3> QED  BY <3>1, <3>2
  <2> HIDE DEF fair, whole_in, whole_out
  <2>3. /\ liq > 0
        /\ NextPriceFromAmount0(price, liq, remaining, FALSE) \in Nat \ {0}
        /\ price <= NextPriceFromAmount0(price, liq, remaining, FALSE)
        /\ NextPriceFromAmount0(price, liq, remaining, FALSE) <= target
        /\ remaining <= GetDeltaAmount0(price, NextPriceFromAmount0(price, liq, remaining, FALSE),
                                        liq, FALSE)
    BY <1>1, <1>10, <2>2, OutputOf0
  <2> HIDE DEF next
  <2> QED  BY <1>1, <1>10, <2>1, <2>3 DEF AmountOut
<1> HIDE DEF Good
<1> QED  BY <1>5, <1>6, <1>7, <1>8, <1>9, <1>10

(* A step from any price, with any liquidity; and from where the pool is.  *)
LEMMA AnyStepIs ==
  ASSUME NEW price \in Prices, NEW liq \in Nat, NEW target \in Prices,
         NEW remaining \in Nat \ {0},
         NEW is_base_input \in BOOLEAN, NEW zero_for_one \in BOOLEAN,
         IF zero_for_one THEN target <= price ELSE price <= target
  PROVE  LET step == ComputeSwapStep(price, target, liq, remaining,
                                     is_base_input, zero_for_one)
         IN  /\ step.sqrt_price_next \in Prices
             /\ IF zero_for_one
                THEN target <= step.sqrt_price_next /\ step.sqrt_price_next <= price
                ELSE price <= step.sqrt_price_next /\ step.sqrt_price_next <= target
             /\ step.amount_in = AmountIn(price, step.sqrt_price_next, liq, zero_for_one)
             /\ step.amount_in \in Nat /\ step.amount_out \in Nat /\ step.fee_amount \in Nat
             /\ step.amount_out
                  <= AmountOut(price, step.sqrt_price_next, liq, zero_for_one)
             /\ IF step.sqrt_price_next = target
                THEN AmountUsed(step, is_base_input) <= remaining
                ELSE AmountUsed(step, is_base_input) = remaining /\ liq > 0
             /\ step.fee_amount * F >= R * (step.amount_in + step.fee_amount)
<1> DEFINE next == NextPrice(price, target, liq, remaining,
                             is_base_input, zero_for_one)
           in == AmountIn(price, next, liq, zero_for_one)
           out == AmountOut(price, next, liq, zero_for_one)
           got == CapOutput(out, remaining, is_base_input)
           fee == StepFee(in, remaining, next = target, is_base_input)
           step == ComputeSwapStep(price, target, liq, remaining,
                                   is_base_input, zero_for_one)
<1>1. step = [sqrt_price_next |-> next, amount_in |-> in, amount_out |-> got,
              fee_amount |-> fee]
  BY DEF ComputeSwapStep
<1>2. /\ next \in Prices
      /\ IF zero_for_one THEN target <= next /\ next <= price
                         ELSE price <= next /\ next <= target
      /\ is_base_input => in <= LessFee(remaining)
      /\ next # target => liq > 0 /\ (~is_base_input => remaining <= out)
  BY NextPriceIs
<1>3. remaining \in Nat /\ liq \in Nat /\ price \in Prices
  BY SwapConstants
<1>4. in \in Nat /\ out \in Nat
  <2> HIDE DEF next
  <2>1. IF zero_for_one THEN next <= price ELSE price <= next  BY <1>2
  <2> QED  BY <1>2, <1>3, <2>1, AmountsType
<1> HIDE DEF next, in, out
<1>5. got \in Nat /\ got <= out /\ (~is_base_input => got <= remaining)
      /\ (~is_base_input /\ remaining <= out => got = remaining)
  <2>1. CASE is_base_input  BY <1>4, <2>1 DEF CapOutput
  <2>2. CASE ~is_base_input
    <3>1. got = IF out > remaining THEN remaining ELSE out  BY <2>2 DEF CapOutput
    <3> QED  BY <1>3, <1>4, <2>2, <3>1
  <2> QED  BY <2>1, <2>2
<1> SUFFICES /\ fee \in Nat
             /\ IF next = target
                THEN AmountUsed(step, is_base_input) <= remaining
                ELSE AmountUsed(step, is_base_input) = remaining /\ liq > 0
             /\ fee * F >= R * (in + fee)
  <2>1. step.sqrt_price_next = next /\ step.amount_in = in
        /\ step.amount_out = got /\ step.fee_amount = fee
    BY <1>1
  <2>2. in = AmountIn(price, next, liq, zero_for_one)
        /\ out = AmountOut(price, next, liq, zero_for_one)
    BY DEF in, out
  <2>3. IF zero_for_one
        THEN target <= step.sqrt_price_next /\ step.sqrt_price_next <= price
        ELSE price <= step.sqrt_price_next /\ step.sqrt_price_next <= target
    BY <1>2, <2>1
  <2>4. step.sqrt_price_next \in Prices /\ step.amount_in \in Nat /\ step.amount_out \in Nat
    BY <1>2, <1>4, <1>5, <2>1
  <2>5. /\ step.amount_in = AmountIn(price, step.sqrt_price_next, liq, zero_for_one)
        /\ step.amount_out <= AmountOut(price, step.sqrt_price_next, liq, zero_for_one)
    BY <1>5, <2>1, <2>2
  <2> HIDE DEF got, fee, step
  <2> QED  BY <2>1, <2>3, <2>4, <2>5 DEF step
<1>6. CASE is_base_input
  <2>1. /\ in <= LessFee(remaining) /\ in <= remaining
        /\ in + FeeOn(in) <= remaining
        /\ (remaining - in) * F >= R * remaining
    BY <1>2, <1>3, <1>4, <1>6, FeeFits
  <2>2. AmountUsed(step, is_base_input) = in + fee  BY <1>1, <1>6 DEF AmountUsed
  <2>3. CASE next = target
    <3>1. fee = FeeOn(in)  BY <1>6, <2>3 DEF StepFee, FeeOn
    <3>2. fee \in Nat /\ fee * F >= R * (in + fee)
      BY <1>4, <3>1, FeeOnIs, FeeEnough
    <3> HIDE DEF got, fee, step
    <3> QED  BY <2>1, <2>2, <2>3, <3>1, <3>2
  <2>4. CASE next # target
    <3>1. fee = remaining - in  BY <1>6, <2>4 DEF StepFee
    <3>2. fee \in Nat /\ in + fee = remaining  BY <1>3, <1>4, <2>1, <3>1
    <3>3. fee * F >= R * (in + fee)  BY <2>1, <3>1, <3>2
    <3> HIDE DEF got, fee, step
    <3> QED  BY <1>2, <2>2, <2>4, <3>2, <3>3
  <2> QED  BY <2>3, <2>4
<1>7. CASE ~is_base_input
  <2>1. fee = FeeOn(in)  BY <1>7 DEF StepFee, FeeOn
  <2>2. fee \in Nat /\ fee * F >= R * (in + fee)
    BY <1>4, <2>1, FeeOnIs, FeeEnough
  <2>3. AmountUsed(step, is_base_input) = got  BY <1>1, <1>7 DEF AmountUsed
  <2>4. got <= remaining /\ (remaining <= out => got = remaining)  BY <1>5, <1>7
  <2>5. next # target => liq > 0 /\ remaining <= out  BY <1>2, <1>7
  <2> HIDE DEF got, fee, step
  <2> QED  BY <2>2, <2>3, <2>4, <2>5
<1> QED  BY <1>6, <1>7

(* A step that leaves the price where it is trades nothing: what it takes  *)
(* of a given input is all fee.                                            *)
LEMMA NoMoveNoTrade ==
  ASSUME NEW price \in Prices, NEW liq \in Nat, NEW target \in Prices,
         NEW remaining \in Nat \ {0},
         NEW is_base_input \in BOOLEAN, NEW zero_for_one \in BOOLEAN,
         IF zero_for_one THEN target <= price ELSE price <= target
  PROVE  LET step == ComputeSwapStep(price, target, liq, remaining,
                                     is_base_input, zero_for_one)
         IN  step.sqrt_price_next = price =>
               /\ step.amount_out = 0
               /\ ~is_base_input => step.amount_in + step.fee_amount = 0
<1> DEFINE step == ComputeSwapStep(price, target, liq, remaining, is_base_input, zero_for_one)
<1> SUFFICES ASSUME step.sqrt_price_next = price
             PROVE  /\ step.amount_out = 0
                    /\ ~is_base_input => step.amount_in + step.fee_amount = 0
  OBVIOUS
<1>1. /\ step.amount_in = AmountIn(price, price, liq, zero_for_one)
      /\ step.amount_in \in Nat /\ step.amount_out \in Nat
      /\ step.amount_out <= AmountOut(price, price, liq, zero_for_one)
  <2> HIDE DEF step
  <2>1. /\ step.amount_in = AmountIn(price, step.sqrt_price_next, liq, zero_for_one)
        /\ step.amount_in \in Nat /\ step.amount_out \in Nat
        /\ step.amount_out <= AmountOut(price, step.sqrt_price_next, liq, zero_for_one)
    BY AnyStepIs DEF step
  <2> QED  BY <2>1
<1>2. ~is_base_input => step.fee_amount = FeeOn(step.amount_in)
  BY DEF ComputeSwapStep, StepFee, FeeOn
<1> HIDE DEF step
<1>3. price \in Nat \ {0} /\ Q64 \in Nat \ {0} /\ 0 \in Nat /\ price <= price
      /\ price \in Nat
  <2>1. price \in Nat \ {0} /\ Q64 \in Nat \ {0}  BY SwapConstants
  <2> QED  BY <2>1
<1>4. Worth0(price, price, liq) = 0 /\ liq * (price - price) = 0
  <2>1. price - price = 0  BY <1>3
  <2>2. liq * 0 = 0 /\ (liq * Q64) * 0 = 0  BY <1>3
  <2> QED  BY <2>1, <2>2 DEF Worth0
<1>5. /\ GetDeltaAmount0(price, price, liq, TRUE) <= 0
      /\ GetDeltaAmount1(price, price, liq, TRUE) <= 0
  <2>1. /\ GetDeltaAmount0(price, price, liq, TRUE) <= 0
             <=> Worth0(price, price, liq) <= (0 * price) * price
        /\ GetDeltaAmount1(price, price, liq, TRUE) <= 0
             <=> liq * (price - price) <= 0 * Q64
    BY <1>3, Amount0Is, Amount1Is
  <2>2. (0 * price) * price = 0 /\ 0 * Q64 = 0  BY <1>3
  <2>3. Worth0(price, price, liq) <= (0 * price) * price  BY <1>4, <2>2
  <2>4. liq * (price - price) <= 0 * Q64  BY <1>4, <2>2
  <2> QED  BY <2>1, <2>3, <2>4
<1>6. step.amount_in = 0
  <2>1. CASE zero_for_one
    <3>1. step.amount_in = GetDeltaAmount0(price, price, liq, TRUE)
      BY <1>1, <2>1 DEF AmountIn
    <3>2. step.amount_in \in Nat /\ step.amount_in <= 0  BY <1>1, <1>5, <3>1
    <3> QED  BY <3>2
  <2>2. CASE ~zero_for_one
    <3>1. step.amount_in = GetDeltaAmount1(price, price, liq, TRUE)
      BY <1>1, <2>2 DEF AmountIn
    <3>2. step.amount_in \in Nat /\ step.amount_in <= 0  BY <1>1, <1>5, <3>1
    <3> QED  BY <3>2
  <2> QED  BY <2>1, <2>2
<1>7. AmountOut(price, price, liq, zero_for_one) = 0
  <2> DEFINE out0 == GetDeltaAmount0(price, price, liq, FALSE)
             out1 == GetDeltaAmount1(price, price, liq, FALSE)
  <2>1. /\ out0 \in Nat /\ \A k \in Nat : k <= out0 <=> (k * price) * price <= 0
        /\ out1 \in Nat /\ \A k \in Nat : k <= out1 <=> k * Q64 <= 0
    <3>1. /\ out0 \in Nat
          /\ \A k \in Nat : k <= out0 <=> (k * price) * price <= Worth0(price, price, liq)
          /\ out1 \in Nat /\ \A k \in Nat : k <= out1 <=> k * Q64 <= liq * (price - price)
      BY <1>3, Amount0Is, Amount1Is
    <3> HIDE DEF out0, out1
    <3> QED  BY <1>4, <3>1
  <2>2. AmountOut(price, price, liq, zero_for_one) = IF zero_for_one THEN out1 ELSE out0
    BY DEF AmountOut
  <2> HIDE DEF out0, out1
  <2>3. ~(1 <= out0)
    <3>1. (1 * price) * price \in Nat \ {0} /\ 1 \in Nat  BY <1>3
    <3>2. ~((1 * price) * price <= 0)  BY <3>1
    <3> QED  BY <2>1, <3>1, <3>2
  <2>4. ~(1 <= out1)
    <3>1. ~(1 * Q64 <= 0) /\ 1 \in Nat  BY <1>3
    <3> QED  BY <2>1, <3>1
  <2> QED  BY <2>1, <2>2, <2>3, <2>4
<1>8. FeeOn(0) = 0
  <2>1. FeeOn(0) \in Nat /\ (FeeOn(0) <= 0 <=> 0 * R <= 0 * (F - R))  BY <1>3, FeeOnIs
  <2>2. 0 * R = 0 /\ 0 * (F - R) = 0  BY RateConstants
  <2> QED  BY <2>1, <2>2
<1>9. step.amount_out = 0
  <2>1. step.amount_out <= 0  BY <1>1, <1>7
  <2> QED  BY <1>1, <2>1
<1> QED  BY <1>2, <1>6, <1>8, <1>9

LEMMA StepIs ==
  ASSUME TypeOK, NEW target \in Prices, NEW remaining \in Amounts,
         NEW is_base_input \in BOOLEAN, NEW zero_for_one \in BOOLEAN,
         Towards(target, zero_for_one)
  PROVE  LET step == ComputeSwapStep(sqrt_price, target, liquidity, remaining,
                                     is_base_input, zero_for_one)
         IN  /\ step.sqrt_price_next \in Prices
             /\ IF zero_for_one
                THEN target <= step.sqrt_price_next /\ step.sqrt_price_next <= sqrt_price
                ELSE sqrt_price <= step.sqrt_price_next /\ step.sqrt_price_next <= target
             /\ step.amount_in = AmountIn(sqrt_price, step.sqrt_price_next, liquidity, zero_for_one)
             /\ step.amount_in \in Nat /\ step.amount_out \in Nat /\ step.fee_amount \in Nat
             /\ step.amount_out
                  <= AmountOut(sqrt_price, step.sqrt_price_next, liquidity, zero_for_one)
             /\ IF step.sqrt_price_next = target
                THEN AmountUsed(step, is_base_input) <= remaining
                ELSE AmountUsed(step, is_base_input) = remaining /\ liquidity > 0
             /\ step.fee_amount * F >= R * (step.amount_in + step.fee_amount)
<1>1. /\ sqrt_price \in Prices /\ liquidity \in Nat /\ remaining \in Nat \ {0}
      /\ IF zero_for_one THEN target <= sqrt_price ELSE sqrt_price <= target
  BY SwapConstants DEF TypeOK, Towards
<1> QED  BY <1>1, AnyStepIs

-----------------------------------------------------------------------------
(* The reserves *)

SolventInv == TypeOK /\ Solvent

(* The reserves are worth the liquidity after a move of the price when     *)
(* they were before: inequalities between products.                        *)
LEMMA Moves0 ==
  ASSUME NEW b \in Nat, NEW u \in Nat \ {0}, NEW x \in Nat \ {0}, NEW y \in Nat \ {0},
         NEW r \in Int, NEW a \in Int,
         b * (u - x) <= (r * x) * u, b * (x - y) <= (a * x) * y
  PROVE  b * (u - y) <= ((r + a) * y) * u
<1> DEFINE old == (r * x) * u
           new == (a * x) * y
           goal == b * (u - y)
           have == ((r + a) * y) * u
<1>1. goal * x = (b * (u - x)) * y + (b * (x - y)) * u
  OBVIOUS
<1>2. have * x = old * y + new * u
  OBVIOUS
<1>3. (b * (u - x)) * y <= old * y /\ (b * (x - y)) * u <= new * u
  <2>1. b * (u - x) \in Int /\ b * (x - y) \in Int /\ old \in Int /\ new \in Int
    OBVIOUS
  <2> HIDE DEF old, new
  <2> QED  BY <2>1, TimesMonotone DEF old, new
<1>4. /\ goal \in Int /\ have \in Int /\ old * y \in Int /\ new * u \in Int
      /\ (b * (u - x)) * y \in Int /\ (b * (x - y)) * u \in Int
  OBVIOUS
<1> HIDE DEF old, new, goal, have
<1>5. goal * x <= have * x  BY <1>1, <1>2, <1>3, <1>4
<1>6. goal <= have  BY <1>4, <1>5, TimesCancels
<1> QED  BY <1>6 DEF goal, have

(* What is worth a natural number is a natural number.                     *)
LEMMA NotShort ==
  ASSUME NEW r \in Int, NEW d \in Nat \ {0}, NEW w \in Nat, w <= r * d
  PROVE  r \in Nat
<1>1. 0 * d <= r * d /\ 0 * d = 0  OBVIOUS
<1>2. 0 <= r  BY <1>1, TimesCancels
<1> QED  BY <1>2

LEMMA NotShortOf0 ==
  ASSUME NEW r \in Int, NEW x \in Nat \ {0}, NEW u \in Nat \ {0}, NEW w \in Nat,
         w <= (r * x) * u
  PROVE  r \in Nat
<1>1. r * x \in Nat  BY NotShort
<1>2. 0 <= r * x  BY <1>1
<1> QED  BY <1>2, NotShort

(* The reserve of token 0, the reserve of token 1 and the liquidity at a   *)
(* price of the range.                                                     *)
Backed(price, liq, r0, r1) ==
  /\ liq * Q64 * (PriceUpper - price) <= r0 * price * PriceUpper
  /\ liq * (price - PriceLower) <= r1 * Q64

LEMMA BackedMeans ==
  ASSUME NEW price \in Prices, NEW liq \in Nat, NEW r0 \in Int, NEW r1 \in Int,
         Backed(price, liq, r0, r1)
  PROVE  r0 \in Nat /\ r1 \in Nat
<1>1. /\ price \in Nat \ {0} /\ PriceUpper \in Nat \ {0} /\ Q64 \in Nat \ {0}
      /\ PriceUpper - price \in Nat /\ price - PriceLower \in Nat
  BY SwapConstants
<1>2. liq * Q64 * (PriceUpper - price) \in Nat  BY <1>1, TimesNat
<1>3. liq * (price - PriceLower) \in Nat  BY <1>1, TimesNat
<1>4. r0 \in Nat  BY <1>1, <1>2, NotShortOf0 DEF Backed
<1>5. r1 \in Nat  BY <1>1, <1>3, NotShort DEF Backed
<1> QED  BY <1>4, <1>5
LEMMA Changes ==
  ASSUME NEW price \in Prices, NEW liq \in Nat, NEW l \in Int,
         NEW r0 \in Int, NEW r1 \in Int, NEW a0 \in Int, NEW a1 \in Int,
         Backed(price, liq, r0, r1), Backed(price, l, a0, a1)
  PROVE  Backed(price, liq + l, r0 + a0, r1 + a1)
<1> DEFINE x == PriceUpper - price
           y == price - PriceLower
<1>1. /\ price \in Nat /\ PriceUpper \in Nat /\ Q64 \in Nat /\ x \in Nat /\ y \in Nat
  BY SwapConstants
<1>2. /\ liq * Q64 * x <= r0 * price * PriceUpper /\ liq * y <= r1 * Q64
      /\ l * Q64 * x <= a0 * price * PriceUpper /\ l * y <= a1 * Q64
  BY DEF Backed
<1> HIDE DEF x, y
<1>3. /\ (liq + l) * Q64 * x = liq * Q64 * x + l * Q64 * x
      /\ (r0 + a0) * price * PriceUpper = r0 * price * PriceUpper + a0 * price * PriceUpper
      /\ (liq + l) * y = liq * y + l * y /\ (r1 + a1) * Q64 = r1 * Q64 + a1 * Q64
  BY <1>1
<1>4. /\ liq * Q64 * x \in Int /\ l * Q64 * x \in Int /\ liq * y \in Int /\ l * y \in Int
      /\ r0 * price * PriceUpper \in Int /\ a0 * price * PriceUpper \in Int
      /\ r1 * Q64 \in Int /\ a1 * Q64 \in Int
  BY <1>1
<1>5. /\ (liq + l) * Q64 * x <= (r0 + a0) * price * PriceUpper
      /\ (liq + l) * y <= (r1 + a1) * Q64
  BY <1>2, <1>3, <1>4
<1> QED  BY <1>5 DEF Backed, x, y

LEMMA DepositPays ==
  ASSUME NEW price \in Prices, NEW l \in Nat
  PROVE  /\ Backed(price, l, GetDeltaAmount0(price, PriceUpper, l, TRUE),
                              GetDeltaAmount1(PriceLower, price, l, TRUE))
         /\ Backed(price, -l, -GetDeltaAmount0(price, PriceUpper, l, FALSE),
                               -GetDeltaAmount1(PriceLower, price, l, FALSE))
         /\ GetDeltaAmount0(price, PriceUpper, l, TRUE) \in Nat
         /\ GetDeltaAmount1(PriceLower, price, l, TRUE) \in Nat
         /\ GetDeltaAmount0(price, PriceUpper, l, FALSE) \in Nat
         /\ GetDeltaAmount1(PriceLower, price, l, FALSE) \in Nat
<1> DEFINE u0 == GetDeltaAmount0(price, PriceUpper, l, TRUE)
           u1 == GetDeltaAmount1(PriceLower, price, l, TRUE)
           d0 == GetDeltaAmount0(price, PriceUpper, l, FALSE)
           d1 == GetDeltaAmount1(PriceLower, price, l, FALSE)
           x == PriceUpper - price
           y == price - PriceLower
<1>1. /\ price \in Nat \ {0} /\ PriceUpper \in Nat \ {0} /\ PriceLower \in Nat \ {0}
      /\ price <= PriceUpper /\ PriceLower <= price
      /\ price \in Nat /\ PriceLower \in Nat /\ PriceUpper \in Nat /\ Q64 \in Nat
      /\ x \in Nat /\ y \in Nat
  BY SwapConstants
<1>2. /\ u0 \in Nat /\ d0 \in Nat
      /\ \A k \in Nat : u0 <= k <=> l * Q64 * x <= k * price * PriceUpper
      /\ \A k \in Nat : k <= d0 <=> k * price * PriceUpper <= l * Q64 * x
  BY <1>1, Amount0Is DEF Worth0
<1>3. /\ u1 \in Nat /\ d1 \in Nat
      /\ \A k \in Nat : u1 <= k <=> l * y <= k * Q64
      /\ \A k \in Nat : k <= d1 <=> k * Q64 <= l * y
  BY <1>1, Amount1Is
<1> HIDE DEF u0, u1, d0, d1, x, y
<1>4. /\ l * Q64 * x <= u0 * price * PriceUpper /\ d0 * price * PriceUpper <= l * Q64 * x
      /\ l * y <= u1 * Q64 /\ d1 * Q64 <= l * y
  BY <1>2, <1>3
<1>5. Backed(price, l, u0, u1)  BY <1>4 DEF Backed, x, y
<1>6. /\ (-l) * Q64 * x = -(l * Q64 * x) /\ (-l) * y = -(l * y)
      /\ (-d0) * price * PriceUpper = -(d0 * price * PriceUpper)
      /\ (-d1) * Q64 = -(d1 * Q64)
      /\ l * Q64 * x \in Int /\ l * y \in Int /\ d0 * price * PriceUpper \in Int
      /\ d1 * Q64 \in Int
  BY <1>1, <1>2, <1>3
<1>7. /\ (-l) * Q64 * x <= (-d0) * price * PriceUpper
      /\ (-l) * y <= (-d1) * Q64
  BY <1>4, <1>6
<1>8. Backed(price, -l, -d0, -d1)  BY <1>7 DEF Backed, x, y
<1> QED  BY <1>2, <1>3, <1>5, <1>8 DEF u0, u1, d0, d1

(* A step of the swap takes enough for the price that it reaches.          *)
LEMMA StepPays ==
  ASSUME NEW price \in Prices, NEW next \in Prices, NEW liq \in Nat,
         NEW r0 \in Int, NEW r1 \in Int, Backed(price, liq, r0, r1),
         NEW zero_for_one \in BOOLEAN,
         IF zero_for_one THEN next <= price ELSE price <= next,
         NEW got \in Nat, got <= AmountOut(price, next, liq, zero_for_one)
  PROVE  LET in == AmountIn(price, next, liq, zero_for_one)
         IN  IF zero_for_one THEN Backed(next, liq, r0 + in, r1 - got)
                             ELSE Backed(next, liq, r0 - got, r1 + in)
<1> DEFINE in == AmountIn(price, next, liq, zero_for_one)
           out == AmountOut(price, next, liq, zero_for_one)
           b == liq * Q64
           u == PriceUpper
<1>1. /\ price \in Nat \ {0} /\ next \in Nat \ {0} /\ u \in Nat \ {0}
      /\ PriceLower \in Nat /\ Q64 \in Nat \ {0} /\ b \in Nat
      /\ price \in Nat /\ next \in Nat
  BY SwapConstants, TimesNat
<1>2. in \in Nat /\ out \in Nat  BY AmountsType
<1>3. /\ b * (u - price) <= (r0 * price) * u
      /\ liq * (price - PriceLower) <= r1 * Q64
  BY DEF Backed
<1>4. CASE zero_for_one
  <2>1. next <= price  BY <1>4
  <2>2. in = GetDeltaAmount0(next, price, liq, TRUE)
        /\ out = GetDeltaAmount1(next, price, liq, FALSE)
    BY <1>4 DEF AmountIn, AmountOut
  <2>3. \A k \in Nat : in <= k <=> b * (price - next) <= (k * next) * price
    <3>1. \A k \in Nat : GetDeltaAmount0(next, price, liq, TRUE) <= k
                            <=> b * (price - next) <= (k * next) * price
      BY <1>1, <2>1, Amount0Is DEF Worth0
    <3> HIDE DEF in, out
    <3> QED  BY <2>2, <3>1
  <2>4. \A k \in Nat : k <= out <=> k * Q64 <= liq * (price - next)
    <3>1. \A k \in Nat : k <= GetDeltaAmount1(next, price, liq, FALSE)
                            <=> k * Q64 <= liq * (price - next)
      BY <1>1, <2>1, Amount1Is
    <3> HIDE DEF in, out
    <3> QED  BY <2>2, <3>1
  <2>5. got <= out  OBVIOUS
  <2> HIDE DEF in, out, b, u
  <2>6. b * (price - next) <= (in * next) * price  BY <1>2, <2>3
  <2>7. (in * next) * price = (in * price) * next  BY <1>1, <1>2
  <2>8. b * (u - next) <= ((r0 + in) * next) * u
    BY <1>1, <1>2, <1>3, <2>6, <2>7, Moves0
  <2>9. got * Q64 <= liq * (price - next)  BY <2>4, <2>5
  <2>10. liq * (next - PriceLower) <= (r1 - got) * Q64
    <3>1. /\ liq * (next - PriceLower) = liq * (price - PriceLower) - liq * (price - next)
          /\ (r1 - got) * Q64 = r1 * Q64 - got * Q64
          /\ liq * (price - PriceLower) \in Int /\ liq * (price - next) \in Int
          /\ r1 * Q64 \in Int /\ got * Q64 \in Int
      BY <1>1
    <3> QED  BY <1>3, <2>9, <3>1
  <2>11. Backed(next, liq, r0 + in, r1 - got)  BY <2>8, <2>10 DEF Backed, b, u
  <2> QED  BY <1>4, <2>11 DEF in
<1>5. CASE ~zero_for_one
  <2>1. price <= next  BY <1>5
  <2>2. in = GetDeltaAmount1(price, next, liq, TRUE)
        /\ out = GetDeltaAmount0(price, next, liq, FALSE)
    BY <1>5 DEF AmountIn, AmountOut
  <2>3. \A k \in Nat : in <= k <=> liq * (next - price) <= k * Q64
    <3>1. \A k \in Nat : GetDeltaAmount1(price, next, liq, TRUE) <= k
                            <=> liq * (next - price) <= k * Q64
      BY <1>1, <2>1, Amount1Is
    <3> HIDE DEF in, out
    <3> QED  BY <2>2, <3>1
  <2>4. \A k \in Nat : k <= out <=> (k * price) * next <= b * (next - price)
    <3>1. \A k \in Nat : k <= GetDeltaAmount0(price, next, liq, FALSE)
                            <=> (k * price) * next <= b * (next - price)
      BY <1>1, <2>1, Amount0Is DEF Worth0
    <3> HIDE DEF in, out
    <3> QED  BY <2>2, <3>1
  <2>5. got <= out  OBVIOUS
  <2> HIDE DEF in, out, b, u
  <2>6. (got * price) * next <= b * (next - price)  BY <2>4, <2>5
  <2>7. b * (price - next) <= ((-got) * price) * next
    <3>1. /\ b * (price - next) = -(b * (next - price))
          /\ ((-got) * price) * next = -((got * price) * next)
          /\ b * (next - price) \in Int /\ (got * price) * next \in Int
      BY <1>1
    <3> QED  BY <2>6, <3>1
  <2>8. b * (u - next) <= ((r0 + (-got)) * next) * u
    <3>1. -got \in Int  OBVIOUS
    <3> QED  BY <1>1, <1>3, <2>7, <3>1, Moves0
  <2>9. r0 + (-got) = r0 - got  OBVIOUS
  <2>10. liq * (next - price) <= in * Q64  BY <1>2, <2>3
  <2>11. liq * (next - PriceLower) <= (r1 + in) * Q64
    <3>1. /\ liq * (next - PriceLower) = liq * (price - PriceLower) + liq * (next - price)
          /\ (r1 + in) * Q64 = r1 * Q64 + in * Q64
          /\ liq * (price - PriceLower) \in Int /\ liq * (next - price) \in Int
          /\ r1 * Q64 \in Int /\ in * Q64 \in Int
      BY <1>1, <1>2
    <3> QED  BY <1>3, <2>10, <3>1
  <2>12. Backed(next, liq, r0 - got, r1 + in)
    BY <2>8, <2>9, <2>11 DEF Backed, b, u
  <2> QED  BY <1>5, <2>12 DEF in
<1> QED  BY <1>4, <1>5
-----------------------------------------------------------------------------
(* The theorems *)

LEMMA SolventIs == Solvent <=> Backed(sqrt_price, liquidity, reserve_0, reserve_1)
BY DEF Solvent, Backed

LEMMA InvFrom ==
  ASSUME sqrt_price' \in Prices, liquidity' \in 0..MaxLiquidity,
         reserve_0' \in Int, reserve_1' \in Int,
         reserve_0' <= MaxAmount, reserve_1' <= MaxAmount,
         Backed(sqrt_price', liquidity', reserve_0', reserve_1')
  PROVE  SolventInv'
<1>1. MaxAmount \in Nat /\ MaxLiquidity \in Nat  BY SwapConstants
<1>2. liquidity' \in Nat  BY <1>1
<1>3. reserve_0' \in Nat /\ reserve_1' \in Nat  BY <1>2, BackedMeans
<1>4. TypeOK'  BY <1>1, <1>3 DEF TypeOK
<1>5. Solvent'  BY DEF Solvent, Backed
<1> QED  BY <1>4, <1>5 DEF SolventInv

LEMMA SolventInvariant == Spec => []SolventInv
<1>1. Init => SolventInv
  <2> SUFFICES ASSUME Init PROVE SolventInv  OBVIOUS
  <2>1. /\ sqrt_price \in Prices /\ liquidity = 0 /\ reserve_0 = 0 /\ reserve_1 = 0
        /\ sqrt_price \in Nat /\ PriceUpper \in Nat /\ PriceLower \in Nat /\ Q64 \in Nat
        /\ MaxAmount \in Nat /\ MaxLiquidity \in Nat
    BY SwapConstants DEF Init
  <2>2. TypeOK  BY <2>1 DEF TypeOK
  <2>3. /\ 0 * Q64 * (PriceUpper - sqrt_price) = 0 /\ 0 * sqrt_price * PriceUpper = 0
        /\ 0 * (sqrt_price - PriceLower) = 0 /\ 0 * Q64 = 0
    BY <2>1
  <2>4. Solvent  BY <2>1, <2>3 DEF Solvent
  <2> QED  BY <2>2, <2>4 DEF SolventInv
<1>2. SolventInv /\ [Next]_vars => SolventInv'
  <2> SUFFICES ASSUME SolventInv, [Next]_vars PROVE SolventInv'  OBVIOUS
  <2>1. /\ TypeOK /\ Backed(sqrt_price, liquidity, reserve_0, reserve_1)
        /\ sqrt_price \in Prices /\ liquidity \in Nat /\ liquidity <= MaxLiquidity
        /\ reserve_0 \in Nat /\ reserve_1 \in Nat
        /\ reserve_0 <= MaxAmount /\ reserve_1 <= MaxAmount
        /\ MaxAmount \in Nat /\ MaxLiquidity \in Nat
    BY SolventIs, SwapConstants DEF SolventInv, TypeOK
  <2>2. ASSUME NEW amount \in 1..(MaxLiquidity - liquidity), Deposit(amount)
        PROVE  SolventInv'
    <3> DEFINE in_0 == GetDeltaAmount0(sqrt_price, PriceUpper, amount, TRUE)
               in_1 == GetDeltaAmount1(PriceLower, sqrt_price, amount, TRUE)
    <3>1. amount \in Nat /\ liquidity + amount \in 0..MaxLiquidity  BY <2>1
    <3>2. in_0 \in Nat /\ in_1 \in Nat /\ Backed(sqrt_price, amount, in_0, in_1)
      BY <2>1, <3>1, DepositPays
    <3>3. /\ sqrt_price' = sqrt_price /\ liquidity' = liquidity + amount
          /\ reserve_0' = reserve_0 + in_0 /\ reserve_1' = reserve_1 + in_1
          /\ reserve_0 + in_0 \in 0..MaxAmount /\ reserve_1 + in_1 \in 0..MaxAmount
      BY <2>2 DEF Deposit
    <3> HIDE DEF in_0, in_1
    <3>4. Backed(sqrt_price, liquidity + amount, reserve_0 + in_0, reserve_1 + in_1)
      BY <2>1, <3>1, <3>2, Changes
    <3>5. /\ reserve_0' \in Int /\ reserve_1' \in Int
          /\ reserve_0' <= MaxAmount /\ reserve_1' <= MaxAmount
      BY <2>1, <3>3
    <3> QED  BY <2>1, <3>1, <3>3, <3>4, <3>5, InvFrom
  <2>3. ASSUME NEW amount \in 1..liquidity, Withdraw(amount)
        PROVE  SolventInv'
    <3> DEFINE out_0 == GetDeltaAmount0(sqrt_price, PriceUpper, amount, FALSE)
               out_1 == GetDeltaAmount1(PriceLower, sqrt_price, amount, FALSE)
    <3>1. amount \in Nat /\ liquidity - amount \in 0..MaxLiquidity  BY <2>1
    <3>2. out_0 \in Nat /\ out_1 \in Nat /\ Backed(sqrt_price, -amount, -out_0, -out_1)
      BY <2>1, <3>1, DepositPays
    <3>3. /\ sqrt_price' = sqrt_price /\ liquidity' = liquidity - amount
          /\ reserve_0' = reserve_0 - out_0 /\ reserve_1' = reserve_1 - out_1
      BY <2>3 DEF Withdraw
    <3> HIDE DEF out_0, out_1
    <3>4. -amount \in Int /\ -out_0 \in Int /\ -out_1 \in Int
          /\ reserve_0 \in Int /\ reserve_1 \in Int
      BY <2>1, <3>1, <3>2
    <3>5. Backed(sqrt_price, liquidity + (-amount), reserve_0 + (-out_0), reserve_1 + (-out_1))
      BY <2>1, <3>2, <3>4, Changes
    <3>6. /\ liquidity' = liquidity + (-amount)
          /\ reserve_0' = reserve_0 + (-out_0) /\ reserve_1' = reserve_1 + (-out_1)
      BY <2>1, <3>1, <3>2, <3>3
    <3>7. /\ reserve_0' \in Int /\ reserve_1' \in Int
          /\ reserve_0' <= MaxAmount /\ reserve_1' <= MaxAmount
      BY <2>1, <3>2, <3>3
    <3> QED  BY <2>1, <3>1, <3>3, <3>5, <3>6, <3>7, InvFrom
  <2>4. ASSUME NEW target \in Prices, NEW remaining \in Amounts,
               NEW is_base_input \in BOOLEAN, NEW zero_for_one \in BOOLEAN,
               SwapStep(target, remaining, is_base_input, zero_for_one)
        PROVE  SolventInv'
    <3> DEFINE step == ComputeSwapStep(sqrt_price, target, liquidity, remaining,
                                       is_base_input, zero_for_one)
               next == step.sqrt_price_next
               in == step.amount_in
               got == step.amount_out
    <3>1. /\ Towards(target, zero_for_one)
          /\ sqrt_price' = next /\ liquidity' = liquidity
          /\ IF zero_for_one THEN reserve_0' = reserve_0 + in /\ reserve_1' = reserve_1 - got
                             ELSE reserve_1' = reserve_1 + in /\ reserve_0' = reserve_0 - got
          /\ reserve_0' <= MaxAmount /\ reserve_1' <= MaxAmount
      BY <2>4 DEF SwapStep
    <3>2. /\ next \in Prices
          /\ IF zero_for_one THEN target <= next /\ next <= sqrt_price
                             ELSE sqrt_price <= next /\ next <= target
          /\ in = AmountIn(sqrt_price, next, liquidity, zero_for_one)
          /\ in \in Nat /\ got \in Nat
          /\ got <= AmountOut(sqrt_price, next, liquidity, zero_for_one)
      BY <2>1, <3>1, StepIs
    <3> HIDE DEF step, next, in, got
    <3>3. IF zero_for_one THEN next <= sqrt_price ELSE sqrt_price <= next  BY <3>2
    <3>4. reserve_0 \in Int /\ reserve_1 \in Int  BY <2>1
    <3>5. IF zero_for_one THEN Backed(next, liquidity, reserve_0 + in, reserve_1 - got)
                          ELSE Backed(next, liquidity, reserve_0 - got, reserve_1 + in)
      BY <2>1, <3>2, <3>3, <3>4, StepPays
    <3>6. Backed(next, liquidity, reserve_0', reserve_1')  BY <3>1, <3>5
    <3>7. reserve_0' \in Int /\ reserve_1' \in Int  BY <2>1, <3>1, <3>2
    <3>8. liquidity' \in 0..MaxLiquidity  BY <2>1, <3>1
    <3> QED  BY <3>1, <3>2, <3>6, <3>7, <3>8, InvFrom
  <2>5. CASE UNCHANGED vars
    BY <2>5 DEF vars, SolventInv, TypeOK, Solvent
  <2> QED  BY <2>2, <2>3, <2>4, <2>5 DEF Next
<1> QED  BY <1>1, <1>2, PTL DEF Spec

(* The words of the pool never go below zero, and no rounding takes the    *)
(* price out of its range.                                                 *)
THEOREM SwapMathTyped == Spec => []TypeOK
<1>1. SolventInv => TypeOK  BY DEF SolventInv
<1> QED  BY <1>1, SolventInvariant, PTL

(* The reserves are worth the liquidity after every sequence of deposits,  *)
(* withdrawals and steps, whatever the unit, the range, the fee rate and   *)
(* the amounts: the roundings are all in the pool's favour.                *)
THEOREM AlwaysSolvent == Spec => []Solvent
<1>1. SolventInv => Solvent  BY DEF SolventInv
<1> QED  BY <1>1, SolventInvariant, PTL

(* A step uses no more than remains, and all of it when it stops short.    *)
THEOREM StepsUseRemaining == Spec => []StepUsesRemaining
<1>1. TypeOK => StepUsesRemaining
  BY StepIs DEF StepUsesRemaining, AllSteps
<1> QED  BY <1>1, SwapMathTyped, PTL

(* A step ends between where it began and its target.                      *)
THEOREM StepsStayBetween == Spec => []StepStaysBetween
<1>1. TypeOK => StepStaysBetween
  BY StepIs DEF StepStaysBetween, AllSteps
<1> QED  BY <1>1, SwapMathTyped, PTL

(* Whichever way the fee is reckoned, it is at least the rate on all that  *)
(* the step takes in.                                                      *)
THEOREM FeeAlwaysCharged == Spec => []FeeCharged
<1>1. TypeOK => FeeCharged
  BY StepIs DEF FeeCharged, AllSteps, F, R
<1> QED  BY <1>1, SwapMathTyped, PTL
-----------------------------------------------------------------------------
(* Liquidity reckoned from an amount *)

LEMMA QuoteOf0 ==
  ASSUME NEW low \in Nat \ {0}, NEW high \in Nat \ {0}, low < high, NEW amount \in Nat
  PROVE  LET liq == GetLiquidityFromAmount0(low, high, amount)
         IN  liq \in Nat /\ GetDeltaAmount0(low, high, liq, TRUE) <= amount
<1> DEFINE both == low * high
           g == both \div Q64
           paid == amount * g
           d == high - low
           liq == GetLiquidityFromAmount0(low, high, amount)
<1>1. both \in Nat /\ Q64 \in Nat \ {0} /\ d \in Nat \ {0} /\ low <= high
  BY SwapConstants, TimesNat
<1>2. liq = paid \div d  BY DEF GetLiquidityFromAmount0, MulDivFloor
<1> HIDE DEF d
<1>3. g \in Nat /\ \A k \in Nat : k <= g <=> k * Q64 <= both
  <2> HIDE DEF both
  <2> QED  BY <1>1, Floor
<1>4. g * Q64 <= both  BY <1>3
<1> HIDE DEF both, g
<1>5. paid \in Nat  BY <1>3, TimesNat
<1> HIDE DEF paid, liq
<1>6. liq \in Nat /\ \A k \in Nat : k <= liq <=> k * d <= paid  BY <1>1, <1>2, <1>5, Floor
<1>7. liq * d <= paid  BY <1>6
<1>8. (liq * Q64) * d = (liq * d) * Q64 /\ liq * d \in Nat  BY <1>1, <1>6
<1>9. (liq * d) * Q64 <= paid * Q64  BY <1>1, <1>5, <1>7, <1>8, TimesMonotone
<1>10. paid * Q64 = (g * Q64) * amount /\ g * Q64 \in Nat  BY <1>1, <1>3 DEF paid
<1>11. (g * Q64) * amount <= both * amount  BY <1>1, <1>4, <1>10, TimesMonotone
<1>12. both * amount = (amount * low) * high  BY DEF both
<1>13. Worth0(low, high, liq) = (liq * Q64) * d  BY DEF Worth0, d
<1>14. Worth0(low, high, liq) <= (amount * low) * high
  <2> DEFINE w == (liq * d) * Q64
             x == paid * Q64
             y == both * amount
  <2>1. w \in Nat /\ x \in Nat /\ y \in Nat  BY <1>1, <1>5, <1>8, TimesNat
  <2>2. w <= x /\ x <= y  BY <1>9, <1>10, <1>11
  <2>3. Worth0(low, high, liq) = w /\ (amount * low) * high = y  BY <1>8, <1>12, <1>13
  <2> HIDE DEF w, x, y
  <2> QED  BY <2>1, <2>2, <2>3
<1> QED  BY <1>1, <1>6, <1>14, Amount0Is DEF liq

LEMMA QuoteOf1 ==
  ASSUME NEW low \in Nat, NEW high \in Nat, low < high, NEW amount \in Nat
  PROVE  LET liq == GetLiquidityFromAmount1(low, high, amount)
         IN  liq \in Nat /\ GetDeltaAmount1(low, high, liq, TRUE) <= amount
<1> DEFINE paid == amount * Q64
           d == high - low
           liq == GetLiquidityFromAmount1(low, high, amount)
<1>1. paid \in Nat /\ d \in Nat \ {0} /\ low <= high  BY SwapConstants, TimesNat
<1>2. liq = paid \div d  BY DEF GetLiquidityFromAmount1, MulDivFloor
<1> HIDE DEF paid, d, liq
<1>3. liq \in Nat /\ \A k \in Nat : k <= liq <=> k * d <= paid  BY <1>1, <1>2, Floor
<1>4. liq * d <= paid  BY <1>3
<1>5. liq * (high - low) <= amount * Q64  BY <1>4 DEF d, paid
<1> QED  BY <1>1, <1>3, <1>5, Amount1Is DEF liq

(* No liquidity costs nothing, where a price lies at the end of the range. *)
LEMMA NothingCostsNothing ==
  ASSUME NEW price \in Nat \ {0}, NEW amount \in Nat
  PROVE  /\ GetDeltaAmount0(price, price, 0, TRUE) <= amount
         /\ GetDeltaAmount1(price, price, 0, TRUE) <= amount
<1>1. price <= price /\ price - price = 0 /\ 0 * Q64 = 0  BY SwapConstants
<1>2. Worth0(price, price, 0) = 0 /\ 0 * (price - price) = 0  BY <1>1 DEF Worth0
<1>3. (amount * price) * price \in Nat /\ amount * Q64 \in Nat
  BY SwapConstants, TimesNat
<1>4. Worth0(price, price, 0) <= (amount * price) * price  BY <1>2, <1>3
<1>5. 0 * (price - price) <= amount * Q64  BY <1>2, <1>3
<1>6. GetDeltaAmount0(price, price, 0, TRUE) <= amount
        <=> Worth0(price, price, 0) <= (amount * price) * price
  <2>1. 0 \in Nat /\ price <= price  OBVIOUS
  <2> QED  BY <2>1, Amount0Is
<1>7. GetDeltaAmount1(price, price, 0, TRUE) <= amount
        <=> 0 * (price - price) <= amount * Q64
  <2>1. 0 \in Nat /\ price \in Nat /\ price <= price  OBVIOUS
  <2> QED  BY <2>1, Amount1Is
<1> QED  BY <1>4, <1>5, <1>6, <1>7

(* What liquidity was reckoned from a maximal amount costs no more.        *)
THEOREM QuotesAffordable == Spec => []QuoteAffordable
<1>1. ASSUME TypeOK, NEW amount \in Amounts
      PROVE  GetDeltaAmount0(sqrt_price, PriceUpper,
               GetLiquidityFromSingleAmount0(sqrt_price, amount), TRUE) <= amount
  <2>1. /\ sqrt_price \in Nat \ {0} /\ PriceLower <= sqrt_price /\ sqrt_price <= PriceUpper
        /\ PriceUpper \in Nat \ {0} /\ PriceLower \in Nat \ {0}
        /\ PriceLower < PriceUpper /\ amount \in Nat
    BY <1>1, SwapConstants DEF TypeOK
  <2>2. CASE sqrt_price = PriceUpper
    <3>1. GetLiquidityFromSingleAmount0(sqrt_price, amount) = 0
      BY <2>1, <2>2 DEF GetLiquidityFromSingleAmount0
    <3>2. GetDeltaAmount0(PriceUpper, PriceUpper, 0, TRUE) <= amount
      BY <2>1, NothingCostsNothing
    <3> QED  BY <2>2, <3>1, <3>2
  <2>3. CASE sqrt_price < PriceUpper
    <3>1. GetLiquidityFromSingleAmount0(sqrt_price, amount)
            = GetLiquidityFromAmount0(sqrt_price, PriceUpper, amount)
      BY <2>1, <2>3 DEF GetLiquidityFromSingleAmount0
    <3>2. GetDeltaAmount0(sqrt_price, PriceUpper,
            GetLiquidityFromAmount0(sqrt_price, PriceUpper, amount), TRUE) <= amount
      BY <2>1, <2>3, QuoteOf0
    <3> QED  BY <3>1, <3>2
  <2>4. sqrt_price < PriceUpper \/ sqrt_price = PriceUpper  BY <2>1
  <2> QED  BY <2>2, <2>3, <2>4, Zenon
<1>2. ASSUME TypeOK, NEW amount \in Amounts
      PROVE  GetDeltaAmount1(PriceLower, sqrt_price,
               GetLiquidityFromSingleAmount1(sqrt_price, amount), TRUE) <= amount
  <2>1. /\ sqrt_price \in Nat \ {0} /\ PriceLower <= sqrt_price /\ sqrt_price <= PriceUpper
        /\ PriceLower \in Nat \ {0} /\ PriceUpper \in Nat \ {0} /\ amount \in Nat
    BY <1>1, <1>2, SwapConstants DEF TypeOK
  <2>2. CASE sqrt_price = PriceLower
    <3>1. GetLiquidityFromSingleAmount1(sqrt_price, amount) = 0
      BY <2>1, <2>2 DEF GetLiquidityFromSingleAmount1
    <3>2. GetDeltaAmount1(PriceLower, PriceLower, 0, TRUE) <= amount
      BY <2>1, NothingCostsNothing
    <3> QED  BY <2>2, <3>1, <3>2
  <2>3. CASE PriceLower < sqrt_price
    <3>1. GetLiquidityFromSingleAmount1(sqrt_price, amount)
            = GetLiquidityFromAmount1(PriceLower, sqrt_price, amount)
      BY <2>1, <2>3 DEF GetLiquidityFromSingleAmount1
    <3>2. GetDeltaAmount1(PriceLower, sqrt_price,
            GetLiquidityFromAmount1(PriceLower, sqrt_price, amount), TRUE) <= amount
      BY <2>1, <2>3, QuoteOf1
    <3> QED  BY <3>1, <3>2
  <2>4. PriceLower < sqrt_price \/ sqrt_price = PriceLower  BY <2>1
  <2> QED  BY <2>2, <2>3, <2>4, Zenon
<1>3. TypeOK => QuoteAffordable  BY <1>1, <1>2 DEF QuoteAffordable
<1> QED  BY <1>3, SwapMathTyped, PTL
================================================================================
