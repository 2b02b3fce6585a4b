------------------------- MODULE TickArrayBitmapProofs -------------------------
(***************************************************************************)
(* The theorems about the bitmap: for every spacing, size of arrays and of *)
(* words, its words are one index of the tick arrays, and a search that    *)
(* hands over between the pool's word and those of the extension answers   *)
(* as if there were no words.                                              *)
(*                                                                         *)
(* An array is known by its number k, the start tick being k times the     *)
(* array's length.  Its word is k \div B and its bit k % B, whatever the   *)
(* sign: what the code has to say about signs, multiples and boundaries    *)
(* comes to that (Places).                                                 *)
(***************************************************************************)
EXTENDS TickArrayBitmap, WellFoundedInduction, TLAPS

-----------------------------------------------------------------------------
(* Arithmetic *)

LEMMA TimesInt ==
  ASSUME NEW x \in Int, NEW y \in Int
  PROVE  x * y \in Int
OBVIOUS

LEMMA TimesLess ==
  ASSUME NEW x \in Int, NEW y \in Int, NEW d \in Nat \ {0}
  PROVE  x < y <=> x * d < y * d
<1>1. ASSUME NEW a \in Int, NEW b \in Int, a < b PROVE a * d < b * d
  <2>1. PICK c \in Nat \ {0} : b = a + c
    <3>1. b - a \in Nat \ {0} /\ b = a + (b - a)  BY <1>1
    <3> QED  BY <3>1
  <2>2. b * d = a * d + c * d /\ c * d >= d /\ a * d \in Int /\ c * d \in Int  BY <2>1
  <2> QED  BY <2>2
<1>2. x < y => x * d < y * d  BY <1>1
<1>3. y < x => y * d < x * d  BY <1>1
<1>4. x * d \in Int /\ y * d \in Int  OBVIOUS
<1> QED  BY <1>2, <1>3, <1>4

LEMMA TimesLeq ==
  ASSUME NEW x \in Int, NEW y \in Int, NEW d \in Nat \ {0}
  PROVE  x <= y <=> x * d <= y * d
<1>1. y < x <=> y * d < x * d  BY TimesLess
<1>2. x * d \in Int /\ y * d \in Int  OBVIOUS
<1> QED  BY <1>1, <1>2

LEMMA TimesAssociates ==
  ASSUME NEW x \in Int, NEW y \in Int, NEW z \in Int
  PROVE  (x * y) * z = x * (y * z)
OBVIOUS

LEMMA DivMod ==
  ASSUME NEW n \in Int, NEW d \in Nat \ {0}
  PROVE  /\ n \div d \in Int /\ n % d \in 0..(d - 1)
         /\ n = (n \div d) * d + (n % d)
<1>1. (n \div d) \in Int /\ n % d \in 0..(d - 1) /\ n = d * (n \div d) + (n % d)  OBVIOUS
<1>2. d * (n \div d) = (n \div d) * d  BY <1>1
<1> QED  BY <1>1, <1>2

(* Quotient and remainder are the only ones.                               *)
LEMMA QuotientIs ==
  ASSUME NEW n \in Int, NEW d \in Nat \ {0}, NEW q \in Int, NEW r \in 0..(d - 1),
         n = q * d + r
  PROVE  n \div d = q /\ n % d = r
<1> DEFINE p == n \div d
           s == n % d
<1>1. p \in Int /\ s \in 0..(d - 1) /\ n = p * d + s  BY DivMod
<1> HIDE DEF p, s
<1>2. p * d \in Int /\ q * d \in Int  BY <1>1
<1>3. CASE p < q
  <2>1. p + 1 <= q  BY <1>1, <1>3
  <2>2. (p + 1) * d <= q * d  BY <1>1, <2>1, TimesLeq
  <2>3. (p + 1) * d = p * d + d  BY <1>1
  <2> QED  BY <1>1, <1>2, <2>2, <2>3
<1>4. CASE q < p
  <2>1. q + 1 <= p  BY <1>1, <1>4
  <2>2. (q + 1) * d <= p * d  BY <1>1, <2>1, TimesLeq
  <2>3. (q + 1) * d = q * d + d  OBVIOUS
  <2> QED  BY <1>1, <1>2, <2>2, <2>3
<1>5. CASE p = q  BY <1>1, <1>2, <1>5 DEF p, s
<1> QED  BY <1>1, <1>3, <1>4, <1>5

-----------------------------------------------------------------------------
(* Greatest and least bits *)

LEMMA MinIs ==
  ASSUME NEW S, S \subseteq Nat, S # {}
  PROVE  Min(S) \in S /\ \A x \in S : Min(S) <= x
<1>1. PICK x \in S : \A y \in S : <<y, x>> \notin OpToRel(<, Nat)
  BY WFMin, NatLessThanWellFounded
<1>2. \A y \in S : x <= y
  <2>1. \A y \in S : ~ (y < x)  BY <1>1 DEF OpToRel
  <2>2. x \in Nat /\ \A y \in S : y \in Nat  OBVIOUS
  <2> QED  BY <2>1, <2>2
<1>3. \E z \in S : \A y \in S : z =< y  BY <1>2
<1> QED  BY <1>3 DEF Min

LEMMA MaxIs ==
  ASSUME NEW S, NEW top \in Nat, S \subseteq 0..top, S # {}
  PROVE  Max(S) \in S /\ \A x \in S : x <= Max(S)
<1> DEFINE R == {top - x : x \in S}
<1>1. R \subseteq Nat /\ R # {}
  <2>1. \A x \in S : x \in 0..top  OBVIOUS
  <2>2. \A x \in S : top - x \in Nat  BY <2>1
  <2> QED  BY <2>2
<1>2. Min(R) \in R /\ \A y \in R : Min(R) <= y
  <2> HIDE DEF R
  <2> QED  BY <1>1, MinIs
<1>3. PICK x \in S : Min(R) = top - x  BY <1>2
<1>4. ASSUME NEW y \in S PROVE y <= x
  <2>1. top - y \in R  OBVIOUS
  <2>2. top - x <= top - y  BY <1>2, <1>3, <2>1
  <2>3. x \in 0..top /\ y \in 0..top  OBVIOUS
  <2> QED  BY <2>2, <2>3
<1>5. \E z \in S : \A y \in S : z >= y  BY <1>3, <1>4
<1> QED  BY <1>5 DEF Max

-----------------------------------------------------------------------------
(* Array numbers *)

B == TICK_ARRAY_BITMAP_SIZE
E == EXTENSION_TICKARRAY_BITMAP_SIZE
Start(k) == k * TickCount
Lo == MIN_TICK \div TickCount
Hi == MAX_TICK \div TickCount

(* The arrays whose bits are in the pool's word.                           *)
InPool(k) == -B <= k /\ k < B

Spaced == tick_spacing \in TickSpacings

LEMMA Sizes ==
  Spaced =>
    /\ TickCount \in Nat \ {0} /\ B \in Nat \ {0} /\ E \in Nat /\ MAX_TICK \in Nat \ {0}
    /\ MaxTickInBitmap = Start(B)
    /\ MAX_TICK # Start(B)
    /\ MAX_TICK < Start((E + 1) * B)
<1> SUFFICES ASSUME Spaced
             PROVE  /\ TickCount \in Nat \ {0} /\ B \in Nat \ {0} /\ E \in Nat
                    /\ MAX_TICK \in Nat \ {0}
                    /\ MaxTickInBitmap = Start(B)
                    /\ MAX_TICK # Start(B)
                    /\ MAX_TICK < Start((E + 1) * B)
  OBVIOUS
<1> DEFINE s == tick_spacing
           size == TICK_ARRAY_SIZE
           half == s * size * B
<1>1. /\ s \in Nat \ {0} /\ size \in Nat \ {0} /\ B \in Nat \ {0} /\ E \in Nat
      /\ MAX_TICK \in Nat \ {0}
      /\ MAX_TICK # half /\ MAX_TICK < half * (E + 1)
  BY BitmapAssumption DEF Spaced, B, E
<1>2. TickCount = size * s /\ MaxTickInBitmap = half
  BY DEF TickCount, MaxTickInBitmap, B
<1> HIDE DEF s, size
<1>3. size * s \in Nat \ {0}  BY <1>1
<1>4. half = B * (size * s)  BY <1>1
<1>5. half * (E + 1) = ((E + 1) * B) * (size * s)  BY <1>1
<1> QED  BY <1>1, <1>2, <1>3, <1>4, <1>5 DEF Start

LEMMA StartOrder ==
  ASSUME Spaced, NEW j \in Int, NEW k \in Int
  PROVE  /\ Start(j) \in Int
         /\ j < k <=> Start(j) < Start(k)
         /\ j <= k <=> Start(j) <= Start(k)
         /\ j = k <=> Start(j) = Start(k)
<1>1. TickCount \in Nat \ {0}  BY Sizes
<1>2. Start(j) \in Int /\ Start(k) \in Int  BY <1>1, TimesInt DEF Start
<1>3. j < k <=> Start(j) < Start(k)  BY <1>1, TimesLess DEF Start
<1>4. j <= k <=> Start(j) <= Start(k)  BY <1>1, TimesLeq DEF Start
<1> QED  BY <1>2, <1>3, <1>4

LEMMA StartIs ==
  ASSUME Spaced, NEW t \in Int
  PROVE  /\ t \div TickCount \in Int
         /\ ArrayStart(t) = Start(t \div TickCount)
         /\ Start(t \div TickCount) <= t /\ t < Start((t \div TickCount) + 1)
         /\ t % TickCount = 0 => t = Start(t \div TickCount)
<1> DEFINE q == t \div TickCount
           r == t % TickCount
<1>1. TickCount \in Nat \ {0}  BY Sizes
<1>2. q \in Int /\ r \in 0..(TickCount - 1) /\ t = q * TickCount + r  BY <1>1, DivMod
<1>3. ArrayStart(t) = q * TickCount  BY DEF ArrayStart
<1> HIDE DEF q, r
<1>4. (q + 1) * TickCount = q * TickCount + TickCount /\ q * TickCount \in Int
  BY <1>1, <1>2
<1>5. q * TickCount <= t /\ t < (q + 1) * TickCount /\ (r = 0 => t = q * TickCount)
  BY <1>1, <1>2, <1>4
<1> QED  BY <1>2, <1>3, <1>5 DEF q, r, Start

LEMMA Ends ==
  Spaced =>
    /\ Lo \in Int /\ Hi \in Int /\ Lo <= -1 /\ 0 <= Hi
    /\ ArrayStart(MIN_TICK) = Start(Lo) /\ ArrayStart(MAX_TICK) = Start(Hi)
    /\ Start(Lo) <= MIN_TICK /\ MIN_TICK < Start(Lo + 1)
    /\ Start(Hi) <= MAX_TICK /\ MAX_TICK < Start(Hi + 1)
    /\ -((E + 1) * B) <= Lo /\ Hi < (E + 1) * B
<1> SUFFICES ASSUME Spaced
             PROVE  /\ Lo \in Int /\ Hi \in Int /\ Lo <= -1 /\ 0 <= Hi
                    /\ ArrayStart(MIN_TICK) = Start(Lo) /\ ArrayStart(MAX_TICK) = Start(Hi)
                    /\ Start(Lo) <= MIN_TICK /\ MIN_TICK < Start(Lo + 1)
                    /\ Start(Hi) <= MAX_TICK /\ MAX_TICK < Start(Hi + 1)
                    /\ -((E + 1) * B) <= Lo /\ Hi < (E + 1) * B
  OBVIOUS
<1> DEFINE beyond == (E + 1) * B
<1>1. /\ TickCount \in Nat \ {0} /\ MAX_TICK \in Nat \ {0} /\ MAX_TICK < Start(beyond)
      /\ E + 1 \in Int /\ B \in Int
  BY Sizes
<1>2. beyond \in Int /\ MIN_TICK = -MAX_TICK  BY <1>1, TimesInt DEF MIN_TICK
<1> HIDE DEF beyond
<1>3. /\ Lo \in Int /\ ArrayStart(MIN_TICK) = Start(Lo)
      /\ Start(Lo) <= MIN_TICK /\ MIN_TICK < Start(Lo + 1)
  <2>1. MIN_TICK \in Int  BY <1>1, <1>2
  <2> QED  BY <2>1, StartIs DEF Lo
<1>4. /\ Hi \in Int /\ ArrayStart(MAX_TICK) = Start(Hi)
      /\ Start(Hi) <= MAX_TICK /\ MAX_TICK < Start(Hi + 1)
  <2>1. MAX_TICK \in Int  BY <1>1
  <2> QED  BY <2>1, StartIs DEF Hi
<1>5. /\ Start(Lo) \in Int /\ Start(Lo + 1) \in Int /\ Start(Hi) \in Int
      /\ Start(Hi + 1) \in Int /\ Start(beyond) \in Int /\ Start(-beyond) \in Int
  BY <1>2, <1>3, <1>4, StartOrder
<1>6. Start(0) = 0 /\ Start(-beyond) = -Start(beyond)  BY <1>1, <1>2 DEF Start
<1>7. Lo < 0
  <2>1. Start(Lo) < Start(0)  BY <1>1, <1>2, <1>3, <1>5, <1>6
  <2> QED  BY <1>3, <2>1, StartOrder
<1>8. 0 < Hi + 1
  <2>1. Start(0) < Start(Hi + 1)  BY <1>1, <1>4, <1>5, <1>6
  <2> QED  BY <1>4, <2>1, StartOrder
<1>9. Hi < beyond
  <2>1. Start(Hi) < Start(beyond)  BY <1>1, <1>4, <1>5
  <2> QED  BY <1>2, <1>4, <2>1, StartOrder
<1>10. -beyond < Lo + 1
  <2>1. Start(-beyond) < Start(Lo + 1)  BY <1>1, <1>2, <1>3, <1>5, <1>6
  <2>2. -beyond \in Int /\ Lo + 1 \in Int  BY <1>2, <1>3
  <2> QED  BY <2>1, <2>2, StartOrder
<1>11. Lo <= -1 /\ 0 <= Hi /\ -beyond <= Lo  BY <1>2, <1>3, <1>4, <1>7, <1>8, <1>10
<1> QED  BY <1>3, <1>4, <1>9, <1>11 DEF beyond

(* The valid starts are those of the numbers from Lo to Hi.                *)
LEMMA ValidStartIs ==
  ASSUME Spaced, NEW k \in Int
  PROVE  ValidStart(Start(k)) <=> k \in Lo..Hi
<1>1. /\ Lo \in Int /\ Hi \in Int /\ Lo <= -1 /\ 0 <= Hi
      /\ ArrayStart(MIN_TICK) = Start(Lo)
      /\ Start(Lo) <= MIN_TICK /\ MIN_TICK < Start(Lo + 1)
      /\ Start(Hi) <= MAX_TICK /\ MAX_TICK < Start(Hi + 1)
  BY Ends
<1>2. MAX_TICK \in Int /\ MIN_TICK \in Int  BY Sizes DEF MIN_TICK
<1>3. /\ Start(k) \in Int /\ Start(Lo) \in Int /\ Start(Lo + 1) \in Int
      /\ Start(Hi) \in Int /\ Start(Hi + 1) \in Int
  BY <1>1, StartOrder
<1>4. CASE Start(k) < MIN_TICK
  <2>1. ValidStart(Start(k)) <=> Start(k) = Start(Lo)  BY <1>1, <1>4 DEF ValidStart
  <2>2. Start(k) < Start(Lo + 1)  BY <1>1, <1>2, <1>3, <1>4
  <2>3. k < Lo + 1  BY <1>1, <2>2, StartOrder
  <2>4. Start(k) = Start(Lo) <=> k = Lo  BY <1>1, StartOrder
  <2> QED  BY <1>1, <2>1, <2>3, <2>4
<1>5. CASE ~ (Start(k) < MIN_TICK)
  <2>1. Start(k) % TickCount = 0
    <3>1. TickCount \in Nat \ {0}  BY Sizes
    <3>2. k * TickCount = k * TickCount + 0 /\ 0 \in 0..(TickCount - 1)
          /\ k * TickCount \in Int
      BY <3>1
    <3>3. (k * TickCount) % TickCount = 0  BY <3>1, <3>2, QuotientIs
    <3> QED  BY <3>3 DEF Start
  <2>2. ValidStart(Start(k)) <=> Start(k) <= MAX_TICK  BY <1>5, <2>1 DEF ValidStart
  <2>3. Start(Lo) <= Start(k)  BY <1>1, <1>2, <1>3, <1>5
  <2>4. Lo <= k  BY <1>1, <2>3, StartOrder
  <2>5. Start(k) <= MAX_TICK => k <= Hi
    <3>1. SUFFICES ASSUME Start(k) <= MAX_TICK PROVE k <= Hi  OBVIOUS
    <3>2. Start(k) < Start(Hi + 1)  BY <1>1, <1>2, <1>3, <3>1
    <3>3. k < Hi + 1  BY <1>1, <3>2, StartOrder
    <3> QED  BY <1>1, <3>3
  <2>6. k <= Hi => Start(k) <= MAX_TICK
    <3>1. SUFFICES ASSUME k <= Hi PROVE Start(k) <= MAX_TICK  OBVIOUS
    <3>2. Start(k) <= Start(Hi)  BY <1>1, <3>1, StartOrder
    <3> QED  BY <1>1, <1>2, <1>3, <3>2
  <2> QED  BY <1>1, <2>2, <2>4, <2>5, <2>6
<1> QED  BY <1>4, <1>5

LEMMA ArrayStartsAre ==
  ASSUME Spaced
  PROVE  /\ \A k \in Lo..Hi : Start(k) \in ArrayStarts
         /\ \A tick \in ArrayStarts : \E k \in Lo..Hi : tick = Start(k)
<1>1. /\ Lo \in Int /\ Hi \in Int /\ ArrayStart(MIN_TICK) = Start(Lo)
      /\ Start(Lo) \in Int /\ Start(Hi) \in Int /\ MAX_TICK \in Int
      /\ Lo <= Hi /\ Start(Hi) <= MAX_TICK
  BY Ends, StartOrder, Sizes
<1>2. ASSUME NEW k \in Lo..Hi PROVE Start(k) \in ArrayStarts
  <2>1. ValidStart(Start(k))  BY <1>1, ValidStartIs
  <2>2. Start(k) \in Int /\ Start(Lo) <= Start(k) /\ Start(k) <= Start(Hi)
    BY <1>1, StartOrder
  <2>3. Start(k) \in Start(Lo)..MAX_TICK  BY <1>1, <2>2
  <2> QED  BY <1>1, <2>1, <2>3 DEF ArrayStarts
<1>3. ASSUME NEW tick \in ArrayStarts PROVE \E k \in Lo..Hi : tick = Start(k)
  <2>1. tick \in Start(Lo)..MAX_TICK /\ ValidStart(tick)  BY <1>1 DEF ArrayStarts
  <2>2. tick = Start(Lo) \/ tick % TickCount = 0  BY <1>1, <2>1 DEF ValidStart
  <2>3. CASE tick = Start(Lo)
    <3>1. Lo \in Lo..Hi  BY <1>1
    <3> QED  BY <2>3, <3>1
  <2>4. CASE tick % TickCount = 0
    <3>1. tick \in Int  BY <2>1, <1>1
    <3>2. PICK k \in Int : tick = Start(k)  BY <2>4, <3>1, StartIs
    <3>3. k \in Lo..Hi  BY <2>1, <3>2, ValidStartIs
    <3> QED  BY <3>2, <3>3
  <2> QED  BY <2>2, <2>3, <2>4
<1> QED  BY <1>2, <1>3

-----------------------------------------------------------------------------
(* Words and bits *)

WordNr(k) == k \div B
BitNr(k) == k % B

LEMMA NumberIs ==
  ASSUME Spaced, NEW k \in Int
  PROVE  /\ WordNr(k) \in Int /\ BitNr(k) \in 0..(B - 1)
         /\ k = WordNr(k) * B + BitNr(k)
         /\ WordNr(k) * B \in Int
         /\ (WordNr(k) + 1) * B = WordNr(k) * B + B
<1>1. B \in Nat \ {0}  BY Sizes
<1>2. WordNr(k) \in Int /\ BitNr(k) \in 0..(B - 1) /\ k = WordNr(k) * B + BitNr(k)
  BY <1>1, DivMod DEF WordNr, BitNr
<1> QED  BY <1>1, <1>2, TimesInt

(* Word and bit of the number that has them.                               *)
LEMMA NumberOf ==
  ASSUME Spaced, NEW w \in Int, NEW b \in 0..(B - 1)
  PROVE  w * B + b \in Int /\ WordNr(w * B + b) = w /\ BitNr(w * B + b) = b
<1>1. B \in Nat \ {0}  BY Sizes
<1>2. w * B \in Int  BY <1>1, TimesInt
<1> HIDE DEF B
<1>3. w * B + b \in Int  BY <1>1, <1>2
<1>4. (w * B + b) \div B = w /\ (w * B + b) % B = b
  <2> DEFINE n == w * B + b
  <2>1. n \in Int /\ n = w * B + b  BY <1>3
  <2> HIDE DEF n
  <2>2. n \div B = w /\ n % B = b  BY <1>1, <2>1, QuotientIs
  <2> QED  BY <2>2 DEF n
<1> QED  BY <1>3, <1>4 DEF WordNr, BitNr

LEMMA WordOrder ==
  ASSUME Spaced, NEW k \in Int, NEW w \in Int
  PROVE  /\ WordNr(k) < w <=> k < w * B
         /\ w <= WordNr(k) <=> w * B <= k
<1>1. B \in Nat \ {0}  BY Sizes
<1>2. /\ WordNr(k) \in Int /\ BitNr(k) \in 0..(B - 1) /\ k = WordNr(k) * B + BitNr(k)
      /\ WordNr(k) * B \in Int /\ (WordNr(k) + 1) * B = WordNr(k) * B + B
  BY NumberIs
<1>3. w * B \in Int  BY <1>1, TimesInt
<1>4. WordNr(k) + 1 <= w <=> (WordNr(k) + 1) * B <= w * B  BY <1>1, <1>2, TimesLeq
<1>5. w <= WordNr(k) <=> w * B <= WordNr(k) * B  BY <1>1, <1>2, TimesLeq
<1> QED  BY <1>1, <1>2, <1>3, <1>4, <1>5

LEMMA InPoolIs ==
  ASSUME Spaced, NEW k \in Int
  PROVE  InPool(k) <=> WordNr(k) \in {-1, 0}
<1>1. B \in Nat \ {0} /\ WordNr(k) \in Int  BY Sizes, NumberIs
<1>2. -1 <= WordNr(k) <=> (-1) * B <= k  BY WordOrder
<1>3. WordNr(k) < 1 <=> k < 1 * B  BY WordOrder
<1>4. (-1) * B = -B /\ 1 * B = B  BY <1>1
<1> QED  BY <1>1, <1>2, <1>3, <1>4 DEF InPool

LEMMA SignIs ==
  ASSUME Spaced, NEW k \in Int
  PROVE  /\ k < 0 <=> WordNr(k) < 0
         /\ k < 0 <=> Start(k) < 0
<1>1. WordNr(k) < 0 <=> k < 0 * B  BY WordOrder
<1>2. k < 0 <=> Start(k) < Start(0)  BY StartOrder
<1>3. 0 * B = 0 /\ Start(0) = 0  BY Sizes DEF Start
<1> QED  BY <1>1, <1>2, <1>3

(* An offset, a bit and a boundary of the code, in numbers.  A word is     *)
(* Start(B) ticks wide.                                                    *)
LEMMA Places ==
  ASSUME Spaced, NEW k \in Int
  PROVE  /\ PoolBit(Start(k)) = k + B
         /\ WordBit(Start(k)) = BitNr(k)
         /\ WordOffset(Start(k)) = IF k < 0 THEN -WordNr(k) - 2 ELSE WordNr(k) - 1
         /\ WordMin(Start(k)) = Start(WordNr(k) * B)
         /\ WordMax(Start(k)) = Start((WordNr(k) + 1) * B)
<1> DEFINE w == WordNr(k)
           b == BitNr(k)
           M == MaxTickInBitmap
           t == Start(k)
           a == Abs(t)
           q == a \div M
           r == a % M
<1>1. /\ TickCount \in Nat \ {0} /\ B \in Nat \ {0} /\ M = B * TickCount
  BY Sizes DEF Start
<1>2. w \in Int /\ b \in 0..(B - 1) /\ k = w * B + b  BY NumberIs
<1>3. M \in Nat \ {0}
  <2>1. B * TickCount \in Nat \ {0}  BY <1>1
  <2> QED  BY <1>1, <2>1
<1>4. t \in Int /\ (k < 0 <=> t < 0)  BY StartOrder, SignIs
<1> HIDE DEF M, w, b
<1>5. t = w * M + b * TickCount
  <2>1. (w * B + b) * TickCount = w * (B * TickCount) + b * TickCount  BY <1>1, <1>2
  <2> QED  BY <1>1, <1>2, <2>1 DEF Start
<1>6. /\ b * TickCount \in 0..(M - 1) /\ w * M \in Int
      /\ (B - b) * TickCount = M - b * TickCount
  <2>1. (B - b) * TickCount = B * TickCount - b * TickCount
        /\ b * TickCount \in Nat /\ w * M \in Int
    BY <1>1, <1>2, <1>3
  <2>2. 0 < (B - b) * TickCount
    <3>1. B - b \in Nat \ {0}  BY <1>1, <1>2
    <3> QED  BY <1>1, <3>1
  <2> QED  BY <1>1, <1>3, <2>1, <2>2
<1>7. \A c \in Nat : (c * TickCount) \div TickCount = c
  <2> SUFFICES ASSUME NEW c \in Nat PROVE (c * TickCount) \div TickCount = c  OBVIOUS
  <2>1. c * TickCount = c * TickCount + 0 /\ 0 \in 0..(TickCount - 1)
        /\ c * TickCount \in Int
    BY <1>1
  <2> QED  BY <1>1, <2>1, QuotientIs
<1>8. PoolBit(t) = k + B
  <2>1. k * TickCount = k * TickCount + 0 /\ 0 \in 0..(TickCount - 1)
        /\ k * TickCount \in Int
    BY <1>1
  <2>2. (k * TickCount) \div TickCount = k  BY <1>1, <2>1, QuotientIs
  <2> QED  BY <2>2 DEF PoolBit, Start, B
<1>9. M * w = Start(w * B) /\ M * w + M = Start((w + 1) * B)
  <2>1. (w * B) * TickCount = (B * TickCount) * w  BY <1>1, <1>2
  <2>2. ((w + 1) * B) * TickCount = (B * TickCount) * w + B * TickCount  BY <1>1, <1>2
  <2> QED  BY <1>1, <2>1, <2>2 DEF Start
<1>10. CASE k >= 0
  <2>1. a = t /\ ~ (t < 0)  BY <1>4, <1>10 DEF Abs
  <2>2. q = w /\ r = b * TickCount
    <3>1. a \in Int /\ a = w * M + b * TickCount  BY <1>4, <1>5, <2>1
    <3> HIDE DEF a
    <3> QED  BY <1>2, <1>3, <1>6, <3>1, QuotientIs
  <2>3. WordBit(t) = b
    <3>1. (b * TickCount) \div TickCount = b  BY <1>2, <1>7
    <3> QED  BY <2>1, <2>2, <3>1 DEF WordBit, M
  <2>4. WordOffset(t) = w - 1
    <3>1. WordOffset(t) = q - 1 - 0  BY <2>1 DEF WordOffset, M
    <3> QED  BY <1>2, <2>2, <3>1
  <2>5. WordMin(t) = M * w  BY <2>1, <2>2 DEF WordMin, M
  <2>6. WordMax(t) = M * w + M  BY <2>5 DEF WordMax, M
  <2> QED  BY <1>8, <1>9, <1>10, <2>3, <2>4, <2>5, <2>6 DEF w, b
<1>11. CASE k < 0 /\ b = 0
  <2>1. a = -t /\ t < 0  BY <1>4, <1>11 DEF Abs
  <2>2. q = -w /\ r = 0
    <3>1. (-w) * M = -(w * M) /\ 0 * TickCount = 0  BY <1>1, <1>2, <1>3
    <3>2. a \in Int /\ a = (-w) * M + 0
      BY <1>4, <1>5, <1>6, <1>11, <2>1, <3>1
    <3>3. -w \in Int /\ 0 \in 0..(M - 1)  BY <1>2, <1>3
    <3> HIDE DEF a
    <3> QED  BY <1>3, <3>2, <3>3, QuotientIs
  <2>3. WordBit(t) = b
    <3>1. (0 * TickCount) \div TickCount = 0 /\ 0 * TickCount = 0  BY <1>1, <1>7
    <3> QED  BY <1>11, <2>1, <2>2, <3>1 DEF WordBit, M
  <2>4. WordOffset(t) = -w - 2
    <3>1. WordOffset(t) = q - 1 - 1  BY <2>1, <2>2 DEF WordOffset, M
    <3> QED  BY <1>2, <2>2, <3>1
  <2>5. WordMin(t) = M * w
    <3>1. WordMin(t) = -(M * q)  BY <2>1, <2>2 DEF WordMin, M
    <3>2. -(M * (-w)) = M * w  BY <1>2, <1>3
    <3> QED  BY <2>2, <3>1, <3>2
  <2>6. WordMax(t) = M * w + M  BY <2>5 DEF WordMax, M
  <2> QED  BY <1>8, <1>9, <1>11, <2>3, <2>4, <2>5, <2>6 DEF w, b
<1>12. CASE k < 0 /\ b # 0
  <2>1. a = -t /\ t < 0  BY <1>4, <1>12 DEF Abs
  <2>2. q = -w - 1 /\ r = (B - b) * TickCount
    <3>1. (-w - 1) * M = -(w * M) - M  BY <1>2, <1>3
    <3>2. a \in Int /\ a = (-w - 1) * M + (B - b) * TickCount
      BY <1>3, <1>4, <1>5, <1>6, <2>1, <3>1
    <3>3. -w - 1 \in Int /\ (B - b) * TickCount \in 0..(M - 1)
      <4>1. 0 < b * TickCount  BY <1>1, <1>2, <1>12
      <4> QED  BY <1>2, <1>3, <1>6, <4>1
    <3> HIDE DEF a
    <3> QED  BY <1>3, <3>2, <3>3, QuotientIs
  <2>3. r # 0
    <3>1. B - b \in Nat \ {0}  BY <1>1, <1>2
    <3>2. 0 < (B - b) * TickCount  BY <1>1, <3>1
    <3> QED  BY <2>2, <3>2
  <2>4. WordBit(t) = b
    <3>1. ((B - b) * TickCount) \div TickCount = B - b
      <4>1. B - b \in Nat  BY <1>1, <1>2
      <4> QED  BY <1>7, <4>1
    <3>2. WordBit(t) = B - r \div TickCount  BY <2>1, <2>3 DEF WordBit, M, B
    <3> QED  BY <1>1, <1>2, <2>2, <3>1, <3>2
  <2>5. WordOffset(t) = -w - 2
    <3>1. WordOffset(t) = q - 1 - 0  BY <2>1, <2>3 DEF WordOffset, M
    <3> QED  BY <1>2, <2>2, <3>1
  <2>6. WordMin(t) = M * w
    <3>1. WordMin(t) = -(M * (q + 1))  BY <2>1, <2>3 DEF WordMin, M
    <3>2. -(M * ((-w - 1) + 1)) = M * w
      <4>1. (-w - 1) + 1 = -w  BY <1>2
      <4>2. -(M * (-w)) = M * w  BY <1>2, <1>3
      <4> QED  BY <4>1, <4>2
    <3> QED  BY <2>2, <3>1, <3>2
  <2>7. WordMax(t) = M * w + M  BY <2>6 DEF WordMax, M
  <2> QED  BY <1>8, <1>9, <1>12, <2>4, <2>5, <2>6, <2>7 DEF w, b
<1> QED  BY <1>10, <1>11, <1>12

-----------------------------------------------------------------------------
(* Where the words end *)

LEMMA Minus ==
  ASSUME Spaced
  PROVE  Start(-B) = -MaxTickInBitmap /\ Start(B) = MaxTickInBitmap
         /\ MaxTickInBitmap \in Nat /\ -B \in Int /\ B \in Int
<1>1. TickCount \in Nat \ {0} /\ B \in Nat \ {0} /\ MaxTickInBitmap = B * TickCount
  BY Sizes DEF Start
<1>2. (-B) * TickCount = -(B * TickCount) /\ B * TickCount \in Nat  BY <1>1
<1> QED  BY <1>1, <1>2 DEF Start

LEMMA OverflowsIs ==
  ASSUME Spaced, NEW k \in Lo..Hi
  PROVE  Overflows(Start(k)) <=> ~ InPool(k)
<1> DEFINE M == MaxTickInBitmap
           top == IF M > MAX_TICK THEN ArrayStart(MAX_TICK) + TickCount ELSE M
           bottom == IF -M < MIN_TICK THEN ArrayStart(MIN_TICK) ELSE -M
           s == Start(k)
<1>1. /\ Lo \in Int /\ Hi \in Int
      /\ ArrayStart(MIN_TICK) = Start(Lo) /\ ArrayStart(MAX_TICK) = Start(Hi)
      /\ Start(Lo) <= MIN_TICK /\ MIN_TICK < Start(Lo + 1)
      /\ Start(Hi) <= MAX_TICK /\ MAX_TICK < Start(Hi + 1)
  BY Ends
<1>2. /\ Start(-B) = -M /\ Start(B) = M /\ M \in Nat /\ B \in Int /\ -B \in Int
      /\ MAX_TICK \in Int /\ MIN_TICK \in Int
  BY Minus, Sizes DEF MIN_TICK
<1>3. k \in Int /\ Lo <= k /\ k <= Hi  BY <1>1
<1>4. Start(Hi) + TickCount = Start(Hi + 1)
  <2>1. TickCount \in Nat  BY Sizes
  <2> QED  BY <1>1, <2>1 DEF Start
<1>5. /\ s \in Int /\ Start(Hi) \in Int /\ Start(Lo) \in Int /\ Start(Lo + 1) \in Int
      /\ Start(Hi + 1) \in Int
  BY <1>1, <1>3, StartOrder
<1>6. Overflows(s) <=> s >= top \/ s < bottom  BY DEF Overflows
<1> HIDE DEF M, s
<1>7. s >= top <=> ~ (k < B)
  <2>1. CASE M > MAX_TICK
    <3>1. k < Hi + 1 => s < Start(Hi + 1)  BY <1>1, <1>3, StartOrder DEF s
    <3>2. Start(Hi) < Start(B)  BY <1>1, <1>2, <1>5, <2>1
    <3>3. Hi < B  BY <1>1, <1>2, <3>2, StartOrder
    <3>4. top = Start(Hi + 1)  BY <1>1, <1>4, <2>1
    <3> HIDE DEF top
    <3> QED  BY <1>1, <1>2, <1>3, <1>5, <3>1, <3>3, <3>4
  <2>2. CASE ~ (M > MAX_TICK)
    <3>1. k < B <=> s < Start(B)  BY <1>2, <1>3, StartOrder DEF s
    <3>2. top = Start(B)  BY <1>2, <2>2
    <3> HIDE DEF top
    <3> QED  BY <1>2, <1>3, <1>5, <3>1, <3>2
  <2> QED  BY <2>1, <2>2
<1>8. s < bottom <=> ~ (-B <= k)
  <2>1. CASE -M < MIN_TICK
    <3>1. Start(Lo) <= s  BY <1>1, <1>3, StartOrder DEF s
    <3>2. Start(-B) < Start(Lo + 1)  BY <1>1, <1>2, <1>5, <2>1
    <3>3. -B < Lo + 1  BY <1>1, <1>2, <3>2, StartOrder
    <3>4. bottom = Start(Lo)  BY <1>1, <2>1
    <3> HIDE DEF bottom
    <3> QED  BY <1>1, <1>2, <1>3, <1>5, <3>1, <3>3, <3>4
  <2>2. CASE ~ (-M < MIN_TICK)
    <3>1. -B <= k <=> Start(-B) <= s  BY <1>2, <1>3, StartOrder DEF s
    <3>2. bottom = Start(-B)  BY <1>2, <2>2
    <3>3. Start(-B) \in Int  BY <1>2
    <3> HIDE DEF bottom
    <3> QED  BY <1>2, <1>3, <1>5, <3>1, <3>2, <3>3
  <2> QED  BY <2>1, <2>2
<1> HIDE DEF top, bottom
<1>9. Overflows(s) <=> ~ (k < B) \/ ~ (-B <= k)  BY <1>6, <1>7, <1>8
<1> QED  BY <1>9 DEF InPool, s

(* What get_bitmap_offset requires holds of every array beyond the pool's  *)
(* word.                                                                   *)
LEMMA InExtensionIs ==
  ASSUME Spaced, NEW k \in Lo..Hi, ~ InPool(k)
  PROVE  InExtension(Start(k))
<1> DEFINE M == MaxTickInBitmap
           s == Start(k)
<1>1. /\ Lo \in Int /\ Hi \in Int
      /\ MIN_TICK < Start(Lo + 1) /\ Start(Hi) <= MAX_TICK
  BY Ends
<1>2. /\ Start(-B) = -M /\ Start(B) = M /\ M \in Nat /\ B \in Int /\ -B \in Int
      /\ MAX_TICK \in Int /\ MIN_TICK = -MAX_TICK /\ MAX_TICK # M
  BY Minus, Sizes DEF MIN_TICK
<1>3. k \in Int /\ Lo <= k /\ k <= Hi  BY <1>1
<1>4. ValidStart(s)  BY <1>3, ValidStartIs
<1>5. s \in Int /\ Start(Hi) \in Int /\ Start(Lo + 1) \in Int  BY <1>1, <1>3, StartOrder
<1> HIDE DEF M, s
<1>6. -M <= s /\ s < M <=> InPool(k)
  <2>1. -B <= k <=> Start(-B) <= s  BY <1>2, <1>3, StartOrder DEF s
  <2>2. k < B <=> s < Start(B)  BY <1>2, <1>3, StartOrder DEF s
  <2> QED  BY <1>2, <2>1, <2>2 DEF InPool
<1>7. MAX_TICK > M
  <2>1. CASE B <= k
    <3>1. B <= Hi  BY <1>1, <1>2, <1>3, <2>1
    <3>2. Start(B) <= Start(Hi)  BY <1>1, <1>2, <3>1, StartOrder
    <3> QED  BY <1>1, <1>2, <1>5, <3>2
  <2>2. CASE k < -B
    <3>1. Lo + 1 <= -B /\ Lo + 1 \in Int  BY <1>1, <1>2, <1>3, <2>2
    <3>2. Start(Lo + 1) <= Start(-B)  BY <1>2, <3>1, StartOrder
    <3> QED  BY <1>1, <1>2, <1>5, <3>2
  <2>3. B <= k \/ k < -B  BY <1>2, <1>3 DEF InPool
  <2> QED  BY <2>1, <2>2, <2>3
<1> QED  BY <1>4, <1>6, <1>7 DEF InExtension, M, s

LEMMA OutOfTicksIs ==
  ASSUME Spaced, NEW k \in Int
  PROVE  OutOfTicks(Start(k)) <=> k \notin Lo..Hi
<1>1. /\ Lo \in Int /\ Hi \in Int
      /\ ArrayStart(MIN_TICK) = Start(Lo) /\ ArrayStart(MAX_TICK) = Start(Hi)
  BY Ends
<1>2. Start(k) < Start(Lo) <=> k < Lo  BY <1>1, StartOrder
<1>3. Start(k) > Start(Hi) <=> k > Hi
  <2>1. Start(Hi) < Start(k) <=> Hi < k  BY <1>1, StartOrder
  <2>2. Start(k) \in Int /\ Start(Hi) \in Int  BY <1>1, StartOrder
  <2> QED  BY <1>1, <2>1, <2>2
<1> QED  BY <1>1, <1>2, <1>3 DEF OutOfTicks

(* Every array beyond the pool's word has a word in the extension.         *)
LEMMA WordExists ==
  ASSUME Spaced, NEW k \in Lo..Hi, ~ InPool(k)
  PROVE  IF k < 0 THEN -WordNr(k) - 2 \in Offsets ELSE WordNr(k) - 1 \in Offsets
<1>1. /\ Lo \in Int /\ Hi \in Int /\ -((E + 1) * B) <= Lo /\ Hi < (E + 1) * B  BY Ends
<1>2. E \in Nat /\ B \in Nat \ {0}  BY Sizes
<1>3. k \in Int  BY <1>1
<1>4. WordNr(k) \in Int /\ WordNr(k) \notin {-1, 0} /\ (k < 0 <=> WordNr(k) < 0)
  BY <1>3, NumberIs, InPoolIs, SignIs
<1>5. WordNr(k) < E + 1
  <2>1. (E + 1) * B \in Int  BY <1>2
  <2>2. k < (E + 1) * B  BY <1>1, <2>1
  <2>3. E + 1 \in Int  BY <1>2
  <2> QED  BY <1>3, <2>2, <2>3, WordOrder
<1>6. -(E + 1) <= WordNr(k)
  <2>1. (-(E + 1)) * B = -((E + 1) * B) /\ (E + 1) * B \in Int  BY <1>2
  <2>2. (-(E + 1)) * B <= k  BY <1>1, <2>1
  <2>3. -(E + 1) \in Int  BY <1>2
  <2> QED  BY <1>3, <2>2, <2>3, WordOrder
<1> QED  BY <1>2, <1>4, <1>5, <1>6 DEF Offsets, E

-----------------------------------------------------------------------------
(* Flags *)

(* The bit of an array, by its number.                                     *)
Flag(k) ==
  IF InPool(k) THEN k + B \in tick_array_bitmap
  ELSE IF k < 0 THEN BitNr(k) \in negative_tick_array_bitmap[-WordNr(k) - 2]
  ELSE BitNr(k) \in positive_tick_array_bitmap[WordNr(k) - 1]

LEMMA WordIs ==
  ASSUME Spaced, NEW k \in Int
  PROVE  Word(Start(k)) = IF k < 0 THEN negative_tick_array_bitmap[-WordNr(k) - 2]
                                   ELSE positive_tick_array_bitmap[WordNr(k) - 1]
<1>1. k < 0 <=> Start(k) < 0  BY SignIs
<1>2. WordOffset(Start(k)) = IF k < 0 THEN -WordNr(k) - 2 ELSE WordNr(k) - 1  BY Places
<1> QED  BY <1>1, <1>2 DEF Word

LEMMA FlagIs ==
  ASSUME Spaced, NEW k \in Lo..Hi
  PROVE  IsFlagged(Start(k)) <=> Flag(k)
<1>1. k \in Int  BY Ends
<1>2. /\ Overflows(Start(k)) <=> ~ InPool(k)
      /\ PoolBit(Start(k)) = k + B
      /\ WordBit(Start(k)) = BitNr(k)
  BY <1>1, OverflowsIs, Places
<1> QED  BY <1>1, <1>2, WordIs DEF IsFlagged, Flag

-----------------------------------------------------------------------------
(* The invariant *)

(* The bits that are set are bits of arrays.                               *)
BitsOnArrays ==
  /\ \A b \in tick_array_bitmap : b - B \in Lo..Hi
  /\ \A o \in Offsets : \A b \in positive_tick_array_bitmap[o] : (o + 1) * B + b \in Lo..Hi
  /\ \A o \in Offsets : \A b \in negative_tick_array_bitmap[o] : (-o - 2) * B + b \in Lo..Hi

SearchRecord ==
  [phase : {"idle", "pool", "extension", "found", "none", "missing"}, from : Int,
   first : BOOLEAN, zero_for_one : BOOLEAN, extension : BOOLEAN, last : Int]

(* The search began at array f, has come to array l, and passed no flag.   *)
Passed(s, f, l) ==
  /\ s.from = Start(f) /\ s.last = Start(l)
  /\ s.first => ~ Flag(f)
  /\ IF s.zero_for_one
     THEN l <= f /\ \A k \in Lo..Hi : l <= k /\ k < f => ~ Flag(k)
     ELSE f <= l /\ \A k \in Lo..Hi : f < k /\ k <= l => ~ Flag(k)

NextNr(s, l) == IF s.zero_for_one THEN l - 1 ELSE l + 1

(* A search comes to the pool's word with an array's number, the first     *)
(* time with its own; and to the extension for an array that is not in the *)
(* pool's word.                                                            *)
SearchOk(s) ==
  /\ s.phase = "pool" =>
       \E f, l \in Lo..Hi : Passed(s, f, l) /\ (~s.extension => l = f)
  /\ s.phase = "extension" =>
       /\ s.extension
       /\ \E f \in Lo..Hi, l \in Int : Passed(s, f, l) /\ ~ InPool(NextNr(s, l))

IndexInv == TypeOK /\ BitsOnArrays /\ search \in SearchRecord /\ SearchOk(search)

LEMMA InvConstants ==
  IndexInv => /\ Spaced
              /\ Lo \in Int /\ Hi \in Int /\ Lo <= Hi /\ B \in Nat \ {0}
BY Ends, Sizes DEF IndexInv, TypeOK, Spaced

-----------------------------------------------------------------------------
(* Answers *)

Core == {start \in ArrayStarts : ~Overflows(start)}
Flagged == {start \in ArrayStarts : IsFlagged(start)}
Asked(s) ==
  [phase |-> IF s.phase \in {"pool", "extension"} THEN "asked" ELSE s.phase,
   from |-> s.from, first |-> s.first,
   zero_for_one |-> s.zero_for_one, extension |-> s.extension,
   answer |-> IF s.phase = "found" THEN s.last ELSE s.from]

LEMMA FlaggedAre ==
  ASSUME Spaced
  PROVE  /\ \A a : a \in Flagged <=> \E k \in Lo..Hi : a = Start(k) /\ Flag(k)
         /\ \A k \in Lo..Hi : Start(k) \in Flagged <=> Flag(k)
<1>1. /\ \A k \in Lo..Hi : Start(k) \in ArrayStarts
      /\ \A tick \in ArrayStarts : \E k \in Lo..Hi : tick = Start(k)
  BY ArrayStartsAre
<1>2. \A k \in Lo..Hi : IsFlagged(Start(k)) <=> Flag(k)  BY FlagIs
<1> QED  BY <1>1, <1>2 DEF Flagged

LEMMA CoreIs ==
  ASSUME Spaced, NEW k \in Lo..Hi
  PROVE  Start(k) \in Core <=> InPool(k)
BY ArrayStartsAre, OverflowsIs DEF Core

(* What a search may answer, in numbers.                                   *)
LEMMA CandidatesAre ==
  ASSUME Spaced, NEW s, NEW f \in Lo..Hi, s.from = Start(f), s.first => ~ Flag(f)
  PROVE  \A a : a \in Index!Candidates(s)
                  <=> \E k \in Lo..Hi : /\ a = Start(k) /\ Flag(k)
                                        /\ IF s.zero_for_one THEN k < f ELSE f < k
<1>1. Lo \in Int /\ Hi \in Int /\ f \in Int  BY Ends
<1>2. ~ (s.first /\ s.from \in Flagged)  BY FlaggedAre
<1>3. Index!Candidates(s) = {a \in Flagged : IF s.zero_for_one THEN a < s.from ELSE s.from < a}
  BY <1>2 DEF Index!Candidates, Flagged
<1>4. \A k \in Lo..Hi : (k < f <=> Start(k) < s.from) /\ (f < k <=> s.from < Start(k))
  BY <1>1, StartOrder
<1> QED  BY <1>3, <1>4, FlaggedAre

LEMMA AnswersFound ==
  ASSUME Spaced, NEW s, NEW f \in Lo..Hi, NEW k \in Lo..Hi,
         s.phase = "found", s.from = Start(f), s.answer = Start(k), Flag(k),
         s.first => ~ Flag(f),
         IF s.zero_for_one THEN k < f /\ \A j \in Lo..Hi : Flag(j) /\ j < f => j <= k
                           ELSE f < k /\ \A j \in Lo..Hi : Flag(j) /\ f < j => k <= j
  PROVE  Index!Answers(s)
<1>1. Lo \in Int /\ Hi \in Int /\ k \in Int  BY Ends
<1>2. \A a : a \in Index!Candidates(s)
               <=> \E j \in Lo..Hi : /\ a = Start(j) /\ Flag(j)
                                     /\ IF s.zero_for_one THEN j < f ELSE f < j
  BY CandidatesAre
<1>3. s.answer \in Index!Candidates(s)  BY <1>2
<1>4. ASSUME NEW a \in Index!Candidates(s)
      PROVE  IF s.zero_for_one THEN a <= s.answer ELSE s.answer <= a
  <2>1. PICK j \in Lo..Hi : /\ a = Start(j) /\ Flag(j)
                            /\ IF s.zero_for_one THEN j < f ELSE f < j
    BY <1>2
  <2>2. IF s.zero_for_one THEN j <= k ELSE k <= j  BY <2>1
  <2>3. j \in Int  BY <1>1
  <2>4. (j <= k <=> Start(j) <= Start(k)) /\ (k <= j <=> Start(k) <= Start(j))
    BY <1>1, <2>3, StartOrder
  <2> QED  BY <2>1, <2>2, <2>4
<1> QED  BY <1>3, <1>4 DEF Index!Answers

LEMMA AnswersItself ==
  ASSUME Spaced, NEW s, NEW f \in Lo..Hi,
         s.phase = "found", s.from = Start(f), s.answer = Start(f), s.first, Flag(f)
  PROVE  Index!Answers(s)
<1>1. s.from \in Flagged  BY FlaggedAre
<1>2. Index!Candidates(s) = {s.from}  BY <1>1 DEF Index!Candidates, Flagged
<1>3. Start(f) \in Int
  <2>1. f \in Int  BY Ends
  <2> QED  BY <2>1, StartOrder
<1>4. Start(f) <= Start(f)  BY <1>3
<1> QED  BY <1>2, <1>4 DEF Index!Answers

LEMMA AnswersNone ==
  ASSUME Spaced, NEW s, NEW f \in Lo..Hi,
         s.phase = "none", s.from = Start(f), s.first => ~ Flag(f),
         \A j \in Lo..Hi : Flag(j) => ~ (IF s.zero_for_one THEN j < f ELSE f < j)
  PROVE  Index!Answers(s)
<1>1. \A a : a \notin Index!Candidates(s)  BY CandidatesAre
<1> QED  BY <1>1 DEF Index!Answers

LEMMA AnswersMissing ==
  ASSUME Spaced, NEW s, NEW f \in Lo..Hi,
         s.phase = "missing", s.from = Start(f), ~s.extension,
         InPool(f) => /\ s.first => ~ Flag(f)
                      /\ \A j \in Lo..Hi :
                           Flag(j) /\ InPool(j) => ~ (IF s.zero_for_one THEN j < f ELSE f < j)
  PROVE  Index!Answers(s)
<1>1. s.from \in Core <=> InPool(f)  BY CoreIs
<1>2. ASSUME InPool(f) PROVE Index!Candidates(s) \cap Core = {}
  <2>1. s.first => ~ Flag(f)  BY <1>2
  <2>2. \A a : a \in Index!Candidates(s)
                 <=> \E k \in Lo..Hi : /\ a = Start(k) /\ Flag(k)
                                       /\ IF s.zero_for_one THEN k < f ELSE f < k
    BY <2>1, CandidatesAre
  <2> QED  BY <1>2, <2>2, CoreIs
<1> QED  BY <1>1, <1>2 DEF Index!Answers, Core

-----------------------------------------------------------------------------
(* Turns of a search *)

BitmapKept == UNCHANGED <<tick_spacing, bitmapVars>>

LEMMA SpacingKept ==
  ASSUME tick_spacing' = tick_spacing
  PROVE  /\ TickCount' = TickCount /\ MaxTickInBitmap' = MaxTickInBitmap
         /\ ArrayStarts' = ArrayStarts /\ Core' = Core /\ Lo' = Lo /\ Hi' = Hi
         /\ \A k : Start(k)' = Start(k) /\ (Overflows(k)' <=> Overflows(k))
<1>1. TickCount' = TickCount /\ MaxTickInBitmap' = MaxTickInBitmap
  BY DEF TickCount, MaxTickInBitmap
<1>2. \A t : ArrayStart(t)' = ArrayStart(t)  BY <1>1 DEF ArrayStart
<1>3. \A t : ValidStart(t)' <=> ValidStart(t)  BY <1>1, <1>2 DEF ValidStart
<1>4. ArrayStarts' = ArrayStarts  BY <1>2, <1>3 DEF ArrayStarts
<1>5. \A t : Overflows(t)' <=> Overflows(t)  BY <1>1, <1>2 DEF Overflows
<1>6. Core' = Core  BY <1>4, <1>5 DEF Core
<1>7. Lo' = Lo /\ Hi' = Hi  BY <1>1 DEF Lo, Hi
<1>8. \A k : Start(k)' = Start(k)  BY <1>1 DEF Start
<1> QED  BY <1>1, <1>4, <1>5, <1>6, <1>7, <1>8

LEMMA KeptIs ==
  ASSUME BitmapKept
  PROVE  /\ ArrayStarts' = ArrayStarts /\ Core' = Core /\ Flagged' = Flagged
         /\ Lo' = Lo /\ Hi' = Hi
         /\ \A k : Start(k)' = Start(k) /\ (Flag(k)' <=> Flag(k))
<1>1. /\ tick_spacing' = tick_spacing /\ tick_array_bitmap' = tick_array_bitmap
      /\ positive_tick_array_bitmap' = positive_tick_array_bitmap
      /\ negative_tick_array_bitmap' = negative_tick_array_bitmap
  BY DEF BitmapKept, bitmapVars
<1>2. \A t : IsFlagged(t)' <=> IsFlagged(t)
  BY <1>1, SpacingKept DEF IsFlagged, PoolBit, WordBit, Word, WordOffset
<1>3. Flagged' = Flagged  BY <1>1, <1>2, SpacingKept DEF Flagged
<1>4. \A k : Flag(k)' <=> Flag(k)  BY <1>1 DEF Flag
<1> QED  BY <1>1, <1>3, <1>4, SpacingKept

(* What a step of a search has to show.                                    *)
LEMMA SearchKeeps ==
  ASSUME IndexInv, BitmapKept, search' \in SearchRecord, SearchOk(search')
  PROVE  IndexInv'
<1>1. /\ tick_spacing' = tick_spacing /\ tick_array_bitmap' = tick_array_bitmap
      /\ positive_tick_array_bitmap' = positive_tick_array_bitmap
      /\ negative_tick_array_bitmap' = negative_tick_array_bitmap
  BY DEF BitmapKept, bitmapVars
<1>2. /\ Lo' = Lo /\ Hi' = Hi
      /\ \A k : Start(k)' = Start(k) /\ (Flag(k)' <=> Flag(k))
  BY KeptIs
<1>3. BitsOnArrays'  BY <1>1, <1>2 DEF IndexInv, BitsOnArrays
<1>4. TypeOK'  BY <1>1 DEF IndexInv, TypeOK, SearchRecord
<1>5. SearchOk(search)'
  <2>1. \A f, l : Passed(search, f, l)' <=> Passed(search', f, l)  BY <1>2 DEF Passed
  <2>2. \A l : NextNr(search, l)' = NextNr(search', l)  BY DEF NextNr
  <2> QED  BY <1>2, <2>1, <2>2 DEF SearchOk
<1> QED  BY <1>3, <1>4, <1>5 DEF IndexInv, SearchRecord

(* The step of the index that a step of a search is.                       *)
LEMMA AsksIs ==
  ASSUME BitmapKept, search.phase = "idle", search'.from \in ArrayStarts,
         search'.phase = "pool" \/ Index!Answers(Asked(search'))
  PROVE  Index!Ask
<1>1. ArrayStarts' = ArrayStarts /\ Core' = Core /\ Flagged' = Flagged  BY KeptIs
<1>2. Asked(search).phase = "idle" /\ Asked(search').from = search'.from
      /\ (search'.phase = "pool" => Asked(search').phase = "asked")
  BY DEF Asked
<1> QED  BY <1>1, <1>2 DEF Index!Ask, Asked, Core, Flagged

LEMMA AnsweredIs ==
  ASSUME NEW P, NEW F, NEW G, NEW D, NEW X, NEW A,
         NEW r \in [phase : P, from : F, first : G, zero_for_one : D, extension : X, answer : A],
         NEW s \in [phase : P, from : F, first : G, zero_for_one : D, extension : X, answer : A],
         s.from = r.from, s.first = r.first, s.zero_for_one = r.zero_for_one,
         s.extension = r.extension
  PROVE  s = [r EXCEPT !.phase = s.phase, !.answer = s.answer]
OBVIOUS

LEMMA AnswersIs ==
  ASSUME BitmapKept, search.phase \in {"pool", "extension"},
         search'.phase \in {"found", "none", "missing"},
         search'.from = search.from, search'.first = search.first,
         search'.zero_for_one = search.zero_for_one,
         search'.extension = search.extension,
         Index!Answers(Asked(search'))
  PROVE  Index!Answer
<1>1. ArrayStarts' = ArrayStarts /\ Core' = Core /\ Flagged' = Flagged  BY KeptIs
<1>2. Asked(search).phase = "asked"  BY DEF Asked
<1>3. Asked(search') = [Asked(search) EXCEPT !.phase = search'.phase,
                                             !.answer = Asked(search').answer]
  <2> DEFINE r == Asked(search)
             s == Asked(search')
             Answered == [phase : {r.phase, s.phase}, from : {r.from}, first : {r.first},
                          zero_for_one : {r.zero_for_one}, extension : {r.extension},
                          answer : {r.answer, s.answer}]
  <2>1. s.phase = search'.phase  BY DEF Asked
  <2>2. /\ s.from = r.from /\ s.first = r.first /\ s.zero_for_one = r.zero_for_one
        /\ s.extension = r.extension
    BY DEF Asked
  <2>3. r \in Answered  BY DEF Asked
  <2>4. s \in Answered  BY <2>2 DEF Asked
  <2> HIDE DEF r, s
  <2>5. s = [r EXCEPT !.phase = s.phase, !.answer = s.answer]
    BY <2>2, <2>3, <2>4, AnsweredIs
  <2> QED  BY <2>1, <2>5 DEF r, s
<1>4. search'.phase \in Index!Ended  BY DEF Index!Ended
<1> QED  BY <1>1, <1>2, <1>3, <1>4 DEF Index!Answer, Asked, Core, Flagged

(* The first bit from a bit on.                                            *)
LEMMA LeadingIs ==
  ASSUME NEW top \in Nat, NEW word \in SUBSET (0..top), NEW bit \in Int,
         From(word, bit) # {}
  PROVE  /\ Leading(From(word, bit)) \in From(word, bit)
         /\ \A x \in From(word, bit) :
              IF search.zero_for_one THEN x <= Leading(From(word, bit))
                                     ELSE Leading(From(word, bit)) <= x
<1> DEFINE S == From(word, bit)
<1>1. S \subseteq 0..top /\ S \subseteq Nat /\ S # {}
  <2>1. S \subseteq word  BY DEF From
  <2>2. \A x \in word : x \in 0..top /\ x \in Nat  OBVIOUS
  <2> QED  BY <2>1, <2>2
<1> HIDE DEF S
<1>2. CASE search.zero_for_one
  <2>1. Leading(S) = Max(S)  BY <1>2 DEF Leading
  <2> QED  BY <1>1, <1>2, <2>1, MaxIs DEF S
<1>3. CASE ~ search.zero_for_one
  <2>1. Leading(S) = Min(S)  BY <1>3 DEF Leading
  <2> QED  BY <1>1, <1>3, <2>1, MinIs DEF S
<1> QED  BY <1>2, <1>3

LEMMA FollowingIs ==
  ASSUME Spaced, NEW l \in Int, search.last = Start(l)
  PROVE  NextNr(search, l) \in Int /\ Following = Start(NextNr(search, l))
<1>1. TickCount \in Nat  BY Sizes
<1>2. /\ (l - 1) * TickCount = l * TickCount - TickCount
      /\ (l + 1) * TickCount = l * TickCount + TickCount
  BY <1>1
<1> QED  BY <1>2 DEF NextNr, Following, Start

(* Passing from array l over all that has no flag, to array m.             *)
LEMMA PassedOn ==
  ASSUME IndexInv, NEW s \in SearchRecord, NEW f \in Lo..Hi, NEW l \in Int, NEW m \in Int,
         Passed(search, f, l), s.from = search.from, s.first = search.first,
         s.zero_for_one = search.zero_for_one, s.last = Start(m),
         IF search.zero_for_one THEN m <= l /\ \A k \in Lo..Hi : m <= k /\ k < l => ~ Flag(k)
                                ELSE l <= m /\ \A k \in Lo..Hi : l < k /\ k <= m => ~ Flag(k)
  PROVE  Passed(s, f, m)
<1>1. /\ Lo \in Int /\ Hi \in Int /\ f \in Int  BY InvConstants
<1>2. s.from = Start(f) /\ (s.first => ~ Flag(f))  BY DEF Passed
<1>3. CASE search.zero_for_one
  <2>1. l <= f /\ \A k \in Lo..Hi : l <= k /\ k < f => ~ Flag(k)  BY <1>3 DEF Passed
  <2>2. m <= l /\ \A k \in Lo..Hi : m <= k /\ k < l => ~ Flag(k)  BY <1>3
  <2>3. m <= f  BY <1>1, <2>1, <2>2
  <2>4. \A k \in Lo..Hi : m <= k /\ k < f => ~ Flag(k)  BY <1>1, <2>1, <2>2
  <2> QED  BY <1>2, <1>3, <2>3, <2>4 DEF Passed
<1>4. CASE ~ search.zero_for_one
  <2>1. f <= l /\ \A k \in Lo..Hi : f < k /\ k <= l => ~ Flag(k)  BY <1>4 DEF Passed
  <2>2. l <= m /\ \A k \in Lo..Hi : l < k /\ k <= m => ~ Flag(k)  BY <1>4
  <2>3. f <= m  BY <1>1, <2>1, <2>2
  <2>4. \A k \in Lo..Hi : f < k /\ k <= m => ~ Flag(k)  BY <1>1, <2>1, <2>2
  <2> QED  BY <1>2, <1>4, <2>3, <2>4 DEF Passed
<1> QED  BY <1>3, <1>4

(* An array that is flagged, next after those that were passed.            *)
LEMMA NextIsNearest ==
  ASSUME IndexInv, NEW f \in Lo..Hi, NEW l \in Int, NEW k \in Lo..Hi,
         Passed(search, f, l), Flag(k),
         LET n == NextNr(search, l)
         IN  IF search.zero_for_one THEN k <= n /\ \A j \in Lo..Hi : Flag(j) /\ j <= n => j <= k
                                    ELSE n <= k /\ \A j \in Lo..Hi : Flag(j) /\ n <= j => k <= j,
         BitmapKept, search.phase \in {"pool", "extension"},
         search' = [search EXCEPT !.phase = "found", !.last = Start(k)]
  PROVE  IndexInv' /\ Index!Answer
<1>1. /\ Spaced /\ Lo \in Int /\ Hi \in Int /\ f \in Int /\ k \in Int  BY InvConstants
<1>2. search \in SearchRecord  BY DEF IndexInv
<1>3. Start(k) \in Int  BY <1>1, StartOrder
<1>4. /\ search'.phase = "found" /\ search'.last = Start(k) /\ search'.from = search.from
      /\ search'.first = search.first /\ search'.zero_for_one = search.zero_for_one
      /\ search'.extension = search.extension /\ search' \in SearchRecord
  BY <1>2, <1>3 DEF SearchRecord
<1>5. SearchOk(search')  BY <1>4 DEF SearchOk
<1>6. IndexInv'  BY <1>4, <1>5, SearchKeeps
<1>7. Index!Answers(Asked(search'))
  <2> DEFINE s == Asked(search')
  <2>1. /\ s.phase = "found" /\ s.from = Start(f) /\ s.answer = Start(k)
        /\ s.first = search.first /\ s.zero_for_one = search.zero_for_one
    BY <1>4 DEF Asked, Passed
  <2>2. s.first => ~ Flag(f)  BY <2>1 DEF Passed
  <2> HIDE DEF s
  <2>3. CASE search.zero_for_one
    <3>1. l <= f /\ \A j \in Lo..Hi : l <= j /\ j < f => ~ Flag(j)  BY <2>3 DEF Passed
    <3>2. k <= l - 1 /\ \A j \in Lo..Hi : Flag(j) /\ j <= l - 1 => j <= k
      BY <2>3 DEF NextNr
    <3>3. k < f /\ \A j \in Lo..Hi : Flag(j) /\ j < f => j <= k  BY <1>1, <3>1, <3>2
    <3> QED  BY <1>1, <2>1, <2>2, <2>3, <3>3, AnswersFound DEF s
  <2>4. CASE ~ search.zero_for_one
    <3>1. f <= l /\ \A j \in Lo..Hi : f < j /\ j <= l => ~ Flag(j)  BY <2>4 DEF Passed
    <3>2. l + 1 <= k /\ \A j \in Lo..Hi : Flag(j) /\ l + 1 <= j => k <= j
      BY <2>4 DEF NextNr
    <3>3. f < k /\ \A j \in Lo..Hi : Flag(j) /\ f < j => k <= j  BY <1>1, <3>1, <3>2
    <3> QED  BY <1>1, <2>1, <2>2, <2>4, <3>3, AnswersFound DEF s
  <2> QED  BY <2>3, <2>4
<1>8. Index!Answer  BY <1>4, <1>7, AnswersIs
<1> QED  BY <1>6, <1>8

(* A turn that only moves on.                                              *)
LEMMA TurnGoesOn ==
  ASSUME IndexInv, BitmapKept, search.phase \in {"pool", "extension"},
         NEW phase \in {"pool", "extension"}, NEW last \in Int,
         search' = [search EXCEPT !.phase = phase, !.last = last], SearchOk(search')
  PROVE  IndexInv' /\ UNCHANGED Index!indexVars
<1>1. search \in SearchRecord  BY DEF IndexInv
<1>2. /\ search'.phase = phase /\ search'.from = search.from
      /\ search'.first = search.first /\ search'.zero_for_one = search.zero_for_one
      /\ search'.extension = search.extension /\ search' \in SearchRecord
  BY <1>1 DEF SearchRecord
<1>3. IndexInv'  BY <1>2, SearchKeeps
<1>4. ArrayStarts' = ArrayStarts /\ Core' = Core /\ Flagged' = Flagged  BY KeptIs
<1>5. Asked(search') = Asked(search)
  <2> DEFINE r == Asked(search)
             s == Asked(search')
             Same == [phase : {r.phase}, from : {r.from}, first : {r.first},
                      zero_for_one : {r.zero_for_one}, extension : {r.extension},
                      answer : {r.answer}]
  <2>1. /\ s.from = r.from /\ s.first = r.first /\ s.zero_for_one = r.zero_for_one
        /\ s.extension = r.extension /\ s.phase = r.phase /\ s.answer = r.answer
    BY <1>2 DEF Asked
  <2>2. r \in Same  BY DEF Asked
  <2>3. s \in Same  BY <2>1 DEF Asked
  <2> HIDE DEF r, s
  <2>4. s = [r EXCEPT !.phase = s.phase, !.answer = s.answer]
    BY <2>1, <2>2, <2>3, AnsweredIs
  <2>5. r = [r EXCEPT !.phase = s.phase, !.answer = s.answer]
    BY <2>1, <2>2, <2>3, AnsweredIs
  <2> QED  BY <2>4, <2>5 DEF r, s
<1> QED  BY <1>3, <1>4, <1>5 DEF Index!indexVars, Asked, Core, Flagged

(* A turn that ends the search without an array.                           *)
LEMMA TurnEnds ==
  ASSUME IndexInv, BitmapKept, search.phase \in {"pool", "extension"},
         NEW phase \in {"none", "missing"}, NEW last \in Int, NEW f \in Lo..Hi,
         search.from = Start(f),
         search' = [search EXCEPT !.phase = phase, !.last = last],
         phase = "none" =>
           /\ search.first => ~ Flag(f)
           /\ \A j \in Lo..Hi :
                Flag(j) => ~ (IF search.zero_for_one THEN j < f ELSE f < j),
         phase = "missing" =>
           /\ ~ search.extension
           /\ InPool(f) =>
                /\ search.first => ~ Flag(f)
                /\ \A j \in Lo..Hi :
                     Flag(j) /\ InPool(j) => ~ (IF search.zero_for_one THEN j < f ELSE f < j)
  PROVE  IndexInv' /\ Index!Answer
<1>1. Spaced /\ search \in SearchRecord  BY InvConstants DEF IndexInv
<1>2. /\ search'.phase = phase /\ search'.from = search.from
      /\ search'.first = search.first /\ search'.zero_for_one = search.zero_for_one
      /\ search'.extension = search.extension /\ search' \in SearchRecord
  BY <1>1 DEF SearchRecord
<1>3. SearchOk(search')  BY <1>2 DEF SearchOk
<1>4. IndexInv'  BY <1>2, <1>3, SearchKeeps
<1>5. Index!Answers(Asked(search'))
  <2> DEFINE s == Asked(search')
  <2>1. /\ s.phase = phase /\ s.from = Start(f) /\ s.first = search.first
        /\ s.zero_for_one = search.zero_for_one /\ s.extension = search.extension
    BY <1>2 DEF Asked
  <2> HIDE DEF s
  <2>2. CASE phase = "none"  BY <1>1, <2>1, <2>2, AnswersNone DEF s
  <2>3. CASE phase = "missing"  BY <1>1, <2>1, <2>3, AnswersMissing DEF s
  <2> QED  BY <2>2, <2>3
<1>6. Index!Answer  BY <1>2, <1>5, AnswersIs
<1> QED  BY <1>4, <1>6

LEMMA PoolTurn ==
  ASSUME IndexInv, LookInPool
  PROVE  IndexInv' /\ (Index!Answer \/ UNCHANGED Index!indexVars)
<1> DEFINE M == MaxTickInBitmap
           bits == IF Following < -M \/ Following >= M THEN {}
                   ELSE From(tick_array_bitmap, PoolBit(Following))
<1>1. /\ Spaced /\ Lo \in Int /\ Hi \in Int /\ Lo <= Hi /\ B \in Nat \ {0}
  BY InvConstants
<1>2. /\ search.phase = "pool" /\ search \in SearchRecord /\ BitmapKept
  BY DEF LookInPool, IndexInv, BitmapKept
<1>3. PICK f \in Lo..Hi, l \in Lo..Hi : Passed(search, f, l) /\ (~search.extension => l = f)
  BY <1>2 DEF IndexInv, SearchOk
<1>4. f \in Int /\ l \in Int  BY <1>1
<1> DEFINE n == NextNr(search, l)
<1>5. search.last = Start(l) /\ search.from = Start(f) /\ (search.first => ~ Flag(f))
  BY <1>3 DEF Passed
<1>6. n \in Int /\ Following = Start(n)  BY <1>1, <1>4, <1>5, FollowingIs
<1>7. ValidStart(search.last)  BY <1>1, <1>3, <1>4, <1>5, ValidStartIs
<1>8. IF search.zero_for_one
      THEN n < l /\ \A j \in Int : j < l => j <= n
      ELSE l < n /\ \A j \in Int : l < j => n <= j
  BY <1>4 DEF NextNr
<1>9. /\ IF search.zero_for_one THEN l <= f ELSE f <= l
      /\ \A j \in Lo..Hi : /\ Flag(j)
                           /\ IF search.zero_for_one THEN j < f ELSE f < j
                           => IF search.zero_for_one THEN j <= n ELSE n <= j
  <2>1. CASE search.zero_for_one
    <3>1. l <= f /\ \A j \in Lo..Hi : l <= j /\ j < f => ~ Flag(j)  BY <1>3, <2>1 DEF Passed
    <3>2. ASSUME NEW j \in Lo..Hi, Flag(j), j < f PROVE j <= n
      <4>1. j \in Int /\ ~ (l <= j)  BY <1>1, <3>1, <3>2
      <4> QED  BY <1>4, <1>8, <2>1, <4>1
    <3> QED  BY <2>1, <3>1, <3>2
  <2>2. CASE ~ search.zero_for_one
    <3>1. f <= l /\ \A j \in Lo..Hi : f < j /\ j <= l => ~ Flag(j)  BY <1>3, <2>2 DEF Passed
    <3>2. ASSUME NEW j \in Lo..Hi, Flag(j), f < j PROVE n <= j
      <4>1. j \in Int /\ ~ (j <= l)  BY <1>1, <3>1, <3>2
      <4> QED  BY <1>4, <1>8, <2>2, <4>1
    <3> QED  BY <2>2, <3>1, <3>2
  <2> QED  BY <2>1, <2>2
<1>10. Following < -M \/ Following >= M <=> ~ InPool(n)
  <2>1. Start(-B) = -M /\ Start(B) = M /\ M \in Nat  BY <1>1, Minus
  <2>2. (-B <= n <=> Start(-B) <= Start(n)) /\ (n < B <=> Start(n) < Start(B))
        /\ Start(n) \in Int
    BY <1>1, <1>6, StartOrder
  <2> HIDE DEF M, n
  <2> QED  BY <1>1, <1>6, <2>1, <2>2 DEF InPool
<1>11. bits = IF InPool(n) THEN From(tick_array_bitmap, n + B) ELSE {}
  <2>1. PoolBit(Following) = n + B  BY <1>1, <1>6, Places
  <2> HIDE DEF n
  <2> QED  BY <1>10, <2>1
<1>12. tick_array_bitmap \in SUBSET (0..(2 * B - 1))  BY DEF IndexInv, TypeOK, B
<1>13. ASSUME NEW j \in Lo..Hi, Flag(j), InPool(j), InPool(n),
              IF search.zero_for_one THEN j <= n ELSE n <= j
       PROVE  j + B \in bits
  <2>1. j + B \in tick_array_bitmap  BY <1>13 DEF Flag
  <2>2. IF search.zero_for_one THEN j + B <= n + B ELSE n + B <= j + B
    <3> HIDE DEF n
    <3> QED  BY <1>1, <1>6, <1>13
  <2> HIDE DEF n, bits
  <2> QED  BY <1>11, <1>13, <2>1, <2>2 DEF From
<1> HIDE DEF M, n, bits
<1>14. CASE bits # {}
  <2> DEFINE b == Leading(bits)
             k == b - B
  <2>1. InPool(n) /\ bits = From(tick_array_bitmap, n + B)  BY <1>11, <1>14
  <2>2. /\ b \in bits
        /\ \A x \in bits : IF search.zero_for_one THEN x <= b ELSE b <= x
    <3>1. 2 * B - 1 \in Nat /\ n + B \in Int  BY <1>1, <1>6
    <3> QED  BY <1>12, <1>14, <2>1, <3>1, LeadingIs
  <2> HIDE DEF b
  <2>3. /\ b \in tick_array_bitmap
        /\ IF search.zero_for_one THEN b <= n + B ELSE n + B <= b
    BY <2>1, <2>2 DEF From
  <2>4. b \in 0..(2 * B - 1)  BY <1>12, <2>3
  <2>5. k \in Lo..Hi  BY <2>3 DEF IndexInv, BitsOnArrays
  <2>6. b \in Int /\ k + B = b /\ InPool(k) /\ k \in Int  BY <1>1, <2>4 DEF InPool
  <2> HIDE DEF k
  <2>7. Flag(k)  BY <2>3, <2>6 DEF Flag
  <2>8. IF search.zero_for_one THEN k <= n ELSE n <= k  BY <1>1, <1>6, <2>3, <2>6
  <2>9. ASSUME NEW j \in Lo..Hi, Flag(j),
               IF search.zero_for_one THEN j <= n ELSE n <= j
        PROVE  IF search.zero_for_one THEN j <= k ELSE k <= j
    <3>1. j \in Int  BY <1>1
    <3>2. CASE InPool(j)
      <4>1. j + B \in bits  BY <1>13, <2>1, <2>9, <3>2
      <4>2. IF search.zero_for_one THEN j + B <= b ELSE b <= j + B  BY <2>2, <4>1
      <4> QED  BY <1>1, <2>6, <3>1, <4>2
    <3>3. CASE ~ InPool(j)
      BY <1>1, <1>6, <2>1, <2>6, <2>9, <3>1, <3>3 DEF InPool
    <3> QED  BY <3>2, <3>3
  <2>10. search' = [search EXCEPT !.phase = "found", !.last = Start(k)]
    <3>1. Found((b - TICK_ARRAY_BITMAP_SIZE) * TickCount)
      BY <1>7, <1>14 DEF LookInPool, bits, b, M
    <3> QED  BY <3>1 DEF Found, Start, k, B
  <2> QED  BY <1>2, <1>3, <1>4, <2>5, <2>7, <2>8, <2>9, <2>10, NextIsNearest DEF n
<1>15. CASE bits = {}
  <2> DEFINE last == PoolMiss(Following)
             m == IF ~ InPool(n) THEN l ELSE IF search.zero_for_one THEN -B ELSE B - 1
  <2>1. search' = [search EXCEPT !.phase = IF search.extension THEN "extension" ELSE "missing",
                                 !.last = last]
    BY <1>7, <1>15 DEF LookInPool, bits, M
  <2>2. last = Start(m) /\ m \in Int
    <3>1. Start(-B) = -M /\ Start(B - 1) = M - TickCount
      <4>1. Start(-B) = -M /\ Start(B) = M  BY <1>1, Minus DEF M
      <4>2. TickCount \in Nat  BY <1>1, Sizes
      <4>3. (B - 1) * TickCount = B * TickCount - TickCount  BY <1>1, <4>2
      <4> QED  BY <4>1, <4>3 DEF Start
    <3>2. last = IF ~ InPool(n) THEN search.last
                 ELSE IF search.zero_for_one THEN -M ELSE M - TickCount
      BY <1>10 DEF PoolMiss, M
    <3> HIDE DEF last
    <3> QED  BY <1>1, <1>4, <1>5, <3>1, <3>2
  <2> HIDE DEF last
  <2>3. \A j \in Lo..Hi : /\ Flag(j) /\ InPool(j) /\ InPool(n)
                          => ~ (IF search.zero_for_one THEN j <= n ELSE n <= j)
    BY <1>13, <1>15
  <2>4. CASE search.extension
    <3>1. search' = [search EXCEPT !.phase = "extension", !.last = last]  BY <2>1, <2>4
    <3>2. last \in Int  BY <1>1, <2>2, StartOrder
    <3>3. /\ search' \in SearchRecord /\ search'.from = search.from
          /\ search'.first = search.first /\ search'.zero_for_one = search.zero_for_one
          /\ search'.last = last /\ search'.phase = "extension"
          /\ search'.extension = search.extension
      BY <1>2, <3>1, <3>2 DEF SearchRecord
    <3>4. ~ InPool(NextNr(search', m))
      <4>1. CASE ~ InPool(n)
        BY <3>3, <4>1 DEF NextNr, n
      <4>2. CASE InPool(n) /\ search.zero_for_one
        BY <1>1, <3>3, <4>2 DEF NextNr, InPool
      <4>3. CASE InPool(n) /\ ~ search.zero_for_one
        BY <1>1, <3>3, <4>3 DEF NextNr, InPool
      <4> QED  BY <4>1, <4>2, <4>3
    <3>5. IF search.zero_for_one THEN m <= l /\ \A k \in Lo..Hi : m <= k /\ k < l => ~ Flag(k)
                                 ELSE l <= m /\ \A k \in Lo..Hi : l < k /\ k <= m => ~ Flag(k)
      <4>1. CASE ~ InPool(n)  BY <1>1, <1>4, <4>1
      <4>2. CASE InPool(n) /\ search.zero_for_one
        <5>1. m = -B /\ n < l  BY <1>8, <4>2
        <5>2. m <= l  BY <1>1, <1>4, <1>6, <4>2, <5>1 DEF InPool
        <5>3. ASSUME NEW k \in Lo..Hi, m <= k, k < l PROVE ~ Flag(k)
          <6>1. k \in Int  BY <1>1
          <6>2. k <= n  BY <1>8, <4>2, <5>3, <6>1
          <6>3. InPool(k)  BY <1>1, <1>6, <4>2, <5>1, <5>3, <6>1, <6>2 DEF InPool
          <6> QED  BY <2>3, <4>2, <6>2, <6>3
        <5> HIDE DEF m
        <5> QED  BY <4>2, <5>2, <5>3
      <4>3. CASE InPool(n) /\ ~ search.zero_for_one
        <5>1. m = B - 1 /\ l < n  BY <1>8, <4>3
        <5>2. l <= m  BY <1>1, <1>4, <1>6, <4>3, <5>1 DEF InPool
        <5>3. ASSUME NEW k \in Lo..Hi, l < k, k <= m PROVE ~ Flag(k)
          <6>1. k \in Int  BY <1>1
          <6>2. n <= k  BY <1>8, <4>3, <5>3, <6>1
          <6>3. InPool(k)  BY <1>1, <1>6, <4>3, <5>1, <5>3, <6>1, <6>2 DEF InPool
          <6> QED  BY <2>3, <4>3, <6>2, <6>3
        <5> HIDE DEF m
        <5> QED  BY <4>3, <5>2, <5>3
      <4> QED  BY <4>1, <4>2, <4>3
    <3> HIDE DEF m
    <3>6. Passed(search', f, m)  BY <1>3, <1>4, <2>2, <3>3, <3>5, PassedOn
    <3>7. SearchOk(search')  BY <2>2, <2>4, <3>3, <3>4, <3>6 DEF SearchOk
    <3> QED  BY <1>2, <3>1, <3>2, <3>7, TurnGoesOn
  <2>5. CASE ~ search.extension
    <3>1. search' = [search EXCEPT !.phase = "missing", !.last = last]  BY <2>1, <2>5
    <3>2. last \in Int  BY <1>1, <2>2, StartOrder
    <3>3. l = f  BY <1>3, <2>5
    <3>4. ASSUME InPool(f), NEW j \in Lo..Hi, Flag(j), InPool(j)
          PROVE  ~ (IF search.zero_for_one THEN j < f ELSE f < j)
      <4>1. SUFFICES ASSUME IF search.zero_for_one THEN j < f ELSE f < j PROVE FALSE
        OBVIOUS
      <4>2. j \in Int  BY <1>1
      <4>3. IF search.zero_for_one THEN j <= n /\ n < f ELSE n <= j /\ f < n
        BY <1>8, <3>3, <4>1, <4>2
      <4>4. InPool(n)  BY <1>1, <1>4, <1>6, <3>4, <4>2, <4>3 DEF InPool
      <4> QED  BY <2>3, <3>4, <4>3, <4>4
    <3> QED  BY <1>2, <1>5, <2>5, <3>1, <3>2, <3>4, TurnEnds
  <2> QED  BY <2>4, <2>5
<1> QED  BY <1>14, <1>15

(* A word of the extension has the bits of its numbers.                    *)
LEMMA WordHas ==
  ASSUME Spaced, NEW j \in Int, NEW k \in Int, WordNr(j) = WordNr(k), ~ InPool(k)
  PROVE  ~ InPool(j) /\ (Flag(j) <=> BitNr(j) \in Word(Start(k)))
<1>1. ~ InPool(j)  BY InPoolIs
<1>2. WordNr(k) \in Int  BY NumberIs
<1>3. (j < 0 <=> WordNr(j) < 0) /\ (k < 0 <=> WordNr(k) < 0)  BY SignIs
<1>4. j < 0 <=> k < 0  BY <1>3
<1> QED  BY <1>1, <1>4, WordIs DEF Flag

LEMMA WordBits ==
  ASSUME IndexInv, NEW k \in Lo..Hi, ~ InPool(k)
  PROVE  /\ Word(Start(k)) \in SUBSET (0..(B - 1))
         /\ \A b \in Word(Start(k)) : WordNr(k) * B + b \in Lo..Hi
<1>1. Spaced /\ k \in Int  BY InvConstants
<1>2. WordNr(k) \in Int  BY <1>1, NumberIs
<1>3. CASE k < 0
  <2> DEFINE o == -WordNr(k) - 2
  <2>1. o \in Offsets  BY <1>1, <1>3, WordExists
  <2>2. Word(Start(k)) = negative_tick_array_bitmap[o]  BY <1>1, <1>3, WordIs
  <2>3. -o - 2 = WordNr(k)  BY <1>2
  <2> HIDE DEF o
  <2>4. \A b \in negative_tick_array_bitmap[o] : (-o - 2) * B + b \in Lo..Hi
    BY <2>1 DEF IndexInv, BitsOnArrays
  <2>5. negative_tick_array_bitmap[o] \in SUBSET (0..(B - 1))
    BY <2>1 DEF IndexInv, TypeOK, B
  <2> QED  BY <2>2, <2>3, <2>4, <2>5
<1>4. CASE ~ (k < 0)
  <2> DEFINE o == WordNr(k) - 1
  <2>1. o \in Offsets  BY <1>1, <1>4, WordExists
  <2>2. Word(Start(k)) = positive_tick_array_bitmap[o]  BY <1>1, <1>4, WordIs
  <2>3. o + 1 = WordNr(k)  BY <1>2
  <2> HIDE DEF o
  <2>4. \A b \in positive_tick_array_bitmap[o] : (o + 1) * B + b \in Lo..Hi
    BY <2>1 DEF IndexInv, BitsOnArrays
  <2>5. positive_tick_array_bitmap[o] \in SUBSET (0..(B - 1))
    BY <2>1 DEF IndexInv, TypeOK, B
  <2> QED  BY <2>2, <2>3, <2>4, <2>5
<1> QED  BY <1>3, <1>4

(* Of two numbers of one word the bits are ordered as they are.            *)
LEMMA BitOrder ==
  ASSUME Spaced, NEW j \in Int, NEW k \in Int, WordNr(j) = WordNr(k)
  PROVE  j <= k <=> BitNr(j) <= BitNr(k)
<1>1. /\ WordNr(k) * B \in Int /\ BitNr(j) \in 0..(B - 1) /\ BitNr(k) \in 0..(B - 1)
      /\ j = WordNr(k) * B + BitNr(j) /\ k = WordNr(k) * B + BitNr(k)
  BY NumberIs
<1>2. B \in Nat  BY Sizes
<1> QED  BY <1>1, <1>2

LEMMA ExtensionTurn ==
  ASSUME IndexInv, LookInExtension
  PROVE  IndexInv' /\ (Index!Answer \/ UNCHANGED Index!indexVars)
<1> DEFINE bits == IF OutOfTicks(Following) THEN {}
                   ELSE From(Word(Following), WordBit(Following))
           miss == ExtensionMiss(Following)
<1>1. /\ Spaced /\ Lo \in Int /\ Hi \in Int /\ Lo <= Hi /\ B \in Nat \ {0}
  BY InvConstants
<1>2. /\ search.phase = "extension" /\ search \in SearchRecord /\ BitmapKept
  BY DEF LookInExtension, IndexInv, BitmapKept
<1>3. /\ search.extension
      /\ \E f \in Lo..Hi, l \in Int : Passed(search, f, l) /\ ~ InPool(NextNr(search, l))
  BY <1>2 DEF IndexInv, SearchOk
<1>4. PICK f \in Lo..Hi, l \in Int : Passed(search, f, l) /\ ~ InPool(NextNr(search, l))
  BY <1>3
<1> DEFINE n == NextNr(search, l)
<1>5. search.last = Start(l) /\ search.from = Start(f) /\ (search.first => ~ Flag(f))
  BY <1>4 DEF Passed
<1>6. f \in Int /\ n \in Int /\ Following = Start(n) /\ ~ InPool(n)
  BY <1>1, <1>4, <1>5, FollowingIs
<1>7. IF search.zero_for_one
      THEN n < l /\ \A j \in Int : j < l => j <= n
      ELSE l < n /\ \A j \in Int : l < j => n <= j
  BY DEF NextNr
<1>8. \A j \in Lo..Hi : /\ Flag(j)
                        /\ IF search.zero_for_one THEN j < f ELSE f < j
                        => IF search.zero_for_one THEN j <= n ELSE n <= j
  <2>1. CASE search.zero_for_one
    <3>1. l <= f /\ \A j \in Lo..Hi : l <= j /\ j < f => ~ Flag(j)  BY <1>4, <2>1 DEF Passed
    <3>2. ASSUME NEW j \in Lo..Hi, Flag(j), j < f PROVE j <= n
      <4>1. j \in Int /\ ~ (l <= j)  BY <1>1, <3>1, <3>2
      <4> QED  BY <1>7, <2>1, <4>1
    <3> QED  BY <2>1, <3>2
  <2>2. CASE ~ search.zero_for_one
    <3>1. f <= l /\ \A j \in Lo..Hi : f < j /\ j <= l => ~ Flag(j)  BY <1>4, <2>2 DEF Passed
    <3>2. ASSUME NEW j \in Lo..Hi, Flag(j), f < j PROVE n <= j
      <4>1. j \in Int /\ ~ (j <= l)  BY <1>1, <3>1, <3>2
      <4> QED  BY <1>7, <2>2, <4>1
    <3> QED  BY <2>2, <3>2
  <2> QED  BY <2>1, <2>2
<1>9. OutOfTicks(Following) <=> n \notin Lo..Hi  BY <1>1, <1>6, OutOfTicksIs
<1>10. /\ MAX_TICK \in Int /\ MIN_TICK \in Int
       /\ Start(Lo) <= MIN_TICK /\ MIN_TICK < Start(Lo + 1)
       /\ Start(Hi) <= MAX_TICK /\ MAX_TICK < Start(Hi + 1)
       /\ Start(Lo) \in Int /\ Start(Lo + 1) \in Int
       /\ Start(Hi) \in Int /\ Start(Hi + 1) \in Int
  BY <1>1, Ends, StartOrder, Sizes DEF MIN_TICK
<1> HIDE DEF n
<1>11. CASE n \notin Lo..Hi
  <2>1. bits = {} /\ miss = Start(n)  BY <1>6, <1>9, <1>11 DEF ExtensionMiss
  <2> HIDE DEF bits, miss
  <2>2. Start(n) \in Int  BY <1>1, <1>6, StartOrder
  <2>3. miss < MIN_TICK \/ miss > MAX_TICK
    <3>1. CASE n < Lo
      <4>1. Start(n) < Start(Lo)  BY <1>1, <1>6, <3>1, StartOrder
      <4> QED  BY <1>10, <2>1, <2>2, <4>1
    <3>2. CASE Hi + 1 <= n
      <4>1. Start(Hi + 1) <= Start(n)  BY <1>1, <1>6, <3>2, StartOrder
      <4> QED  BY <1>10, <2>1, <2>2, <4>1
    <3>3. n < Lo \/ Hi + 1 <= n  BY <1>1, <1>6, <1>11
    <3> QED  BY <3>1, <3>2, <3>3
  <2>4. search' = [search EXCEPT !.phase = "none", !.last = miss]
    BY <1>9, <1>11, <2>1, <2>3 DEF LookInExtension, bits, miss
  <2>5. ASSUME NEW j \in Lo..Hi, Flag(j)
        PROVE  ~ (IF search.zero_for_one THEN j < f ELSE f < j)
    <3>1. SUFFICES ASSUME IF search.zero_for_one THEN j < f ELSE f < j PROVE FALSE
      OBVIOUS
    <3>2. IF search.zero_for_one THEN j <= n ELSE n <= j  BY <1>8, <2>5, <3>1
    <3>3. IF search.zero_for_one THEN n < f ELSE f < n
      <4>1. CASE search.zero_for_one
        <5>1. l <= f /\ n < l  BY <1>4, <1>7, <4>1 DEF Passed
        <5> QED  BY <1>6, <4>1, <5>1
      <4>2. CASE ~ search.zero_for_one
        <5>1. f <= l /\ l < n  BY <1>4, <1>7, <4>2 DEF Passed
        <5> QED  BY <1>6, <4>2, <5>1
      <4> QED  BY <4>1, <4>2
    <3>4. j \in Lo..Hi /\ f \in Lo..Hi  OBVIOUS
    <3> QED  BY <1>1, <1>6, <1>11, <3>2, <3>3, <3>4
  <2> QED  BY <1>2, <1>5, <2>1, <2>2, <2>4, <2>5, TurnEnds
<1>12. CASE n \in Lo..Hi
  <2> DEFINE w == WordNr(n)
             c == BitNr(n)
             word == Word(Start(n))
  <2>1. InExtension(Following) /\ ~ OutOfTicks(Following)
    BY <1>1, <1>6, <1>9, <1>12, InExtensionIs
  <2>2. /\ w \in Int /\ c \in 0..(B - 1) /\ n = w * B + c /\ w * B \in Int
        /\ (w + 1) * B = w * B + B
    BY <1>1, <1>6, NumberIs
  <2>3. word \in SUBSET (0..(B - 1)) /\ \A b \in word : w * B + b \in Lo..Hi
    BY <1>6, <1>12, WordBits
  <2>4. bits = From(word, c)
    <3>1. WordBit(Start(n)) = c  BY <1>1, <1>6, Places
    <3> QED  BY <1>6, <2>1, <3>1
  <2>5. ASSUME NEW j \in Int, WordNr(j) = w
        PROVE  ~ InPool(j) /\ (Flag(j) <=> BitNr(j) \in word) /\ (j <= n <=> BitNr(j) <= c)
               /\ (n <= j <=> c <= BitNr(j))
    BY <1>1, <1>6, <2>5, WordHas, BitOrder
  <2>6. ASSUME NEW j \in Int, WordNr(j) = w, Flag(j),
               IF search.zero_for_one THEN j <= n ELSE n <= j
        PROVE  BitNr(j) \in bits
    BY <2>4, <2>5, <2>6 DEF From
  <2>7. miss = IF search.zero_for_one THEN Start(w * B) ELSE Start((w + 1) * B) - TickCount
    BY <1>1, <1>6, <2>1, Places DEF ExtensionMiss
  <2> HIDE DEF bits, miss, word, w, c
  <2>8. CASE bits # {}
    <3> DEFINE b == Leading(bits)
               k == w * B + b
    <3>1. /\ b \in bits
          /\ \A x \in bits : IF search.zero_for_one THEN x <= b ELSE b <= x
      <4>1. B - 1 \in Nat /\ c \in Int  BY <1>1, <2>2
      <4> QED  BY <2>3, <2>4, <2>8, <4>1, LeadingIs
    <3>2. search' = [search EXCEPT !.phase = "found",
                                   !.last = Following + (b - WordBit(Following)) * TickCount]
      BY <2>1, <2>8 DEF LookInExtension, Found, bits
    <3> HIDE DEF b
    <3>3. b \in word /\ IF search.zero_for_one THEN b <= c ELSE c <= b
      BY <2>4, <3>1 DEF From
    <3>4. b \in 0..(B - 1) /\ k \in Lo..Hi  BY <2>3, <3>3
    <3>5. k \in Int /\ WordNr(k) = w /\ BitNr(k) = b  BY <1>1, <2>2, <3>4, NumberOf
    <3>6. Following + (b - WordBit(Following)) * TickCount = Start(k)
      <4>1. WordBit(Following) = c  BY <1>1, <1>6, Places DEF c
      <4>2. TickCount \in Int  BY <1>1, Sizes
      <4>3. n + (b - c) = k  BY <1>1, <2>2, <3>4
      <4>4. b - c \in Int  BY <1>1, <2>2, <3>4
      <4> HIDE DEF k
      <4>5. n * TickCount + (b - c) * TickCount = (n + (b - c)) * TickCount
        BY <1>6, <4>2, <4>4
      <4> QED  BY <1>6, <4>1, <4>3, <4>5 DEF Start
    <3> HIDE DEF k
    <3>7. Flag(k) /\ IF search.zero_for_one THEN k <= n ELSE n <= k
      BY <2>5, <3>3, <3>5
    <3>8. ASSUME NEW j \in Lo..Hi, Flag(j),
                 IF search.zero_for_one THEN j <= n ELSE n <= j
          PROVE  IF search.zero_for_one THEN j <= k ELSE k <= j
      <4>1. j \in Int /\ WordNr(j) \in Int  BY <1>1, NumberIs
      <4>2. CASE WordNr(j) = w
        <5>1. BitNr(j) \in bits  BY <2>6, <3>8, <4>1, <4>2
        <5>2. IF search.zero_for_one THEN BitNr(j) <= BitNr(k) ELSE BitNr(k) <= BitNr(j)
          BY <3>1, <3>5, <5>1
        <5> QED  BY <1>1, <3>5, <4>1, <4>2, <5>2, BitOrder
      <4>3. CASE WordNr(j) < w
        <5>1. j < w * B  BY <1>1, <2>2, <4>1, <4>3, WordOrder
        <5>2. w * B <= k /\ w * B <= n
          <6>1. w <= WordNr(k) /\ w <= WordNr(n)  BY <2>2, <3>5 DEF w
          <6> QED  BY <1>1, <1>6, <2>2, <3>5, <6>1, WordOrder
        <5> QED  BY <1>6, <2>2, <3>5, <3>8, <4>1, <5>1, <5>2
      <4>4. CASE w < WordNr(j)
        <5>1. (w + 1) * B <= j
          <6>1. w + 1 <= WordNr(j) /\ w + 1 \in Int  BY <2>2, <4>1, <4>4
          <6> QED  BY <1>1, <4>1, <6>1, WordOrder
        <5>2. k < (w + 1) * B /\ n < (w + 1) * B
          <6>1. WordNr(k) < w + 1 /\ WordNr(n) < w + 1 /\ w + 1 \in Int
            BY <2>2, <3>5 DEF w
          <6> QED  BY <1>1, <1>6, <3>5, <6>1, WordOrder
        <5>3. (w + 1) * B \in Int  BY <1>1, <2>2
        <5> QED  BY <1>6, <3>5, <3>8, <4>1, <5>1, <5>2, <5>3
      <4> QED  BY <2>2, <4>1, <4>2, <4>3, <4>4
    <3>9. search' = [search EXCEPT !.phase = "found", !.last = Start(k)]
      BY <3>2, <3>6
    <3> QED  BY <1>2, <1>4, <3>4, <3>7, <3>8, <3>9, NextIsNearest DEF n
  <2>9. CASE bits = {}
    <3> DEFINE m == IF search.zero_for_one THEN w * B ELSE (w + 1) * B - 1
    <3>1. m \in Int /\ miss = Start(m)
      <4>1. TickCount \in Int  BY <1>1, Sizes
      <4>2. (w + 1) * B \in Int  BY <1>1, <2>2
      <4>3. ((w + 1) * B - 1) * TickCount = ((w + 1) * B) * TickCount - TickCount
        BY <4>1, <4>2
      <4> QED  BY <2>2, <2>7, <4>2, <4>3 DEF Start
    <3>2. search' = [search EXCEPT
                       !.phase = IF miss < MIN_TICK \/ miss > MAX_TICK THEN "none" ELSE "pool",
                       !.last  = miss]
      BY <2>1, <2>9 DEF LookInExtension, bits, miss
    <3>3. IF search.zero_for_one THEN m <= n ELSE n <= m  BY <1>1, <2>2
    <3>4. ASSUME NEW k \in Lo..Hi,
                 IF search.zero_for_one THEN m <= k /\ k <= n ELSE n <= k /\ k <= m
          PROVE  ~ Flag(k)
      <4>1. k \in Int /\ WordNr(k) \in Int  BY <1>1, NumberIs
      <4>2. w * B <= k /\ k < (w + 1) * B  BY <1>1, <1>6, <2>2, <3>4, <4>1
      <4>3. w <= WordNr(k)  BY <1>1, <2>2, <4>1, <4>2, WordOrder
      <4>4. WordNr(k) < w + 1
        <5>1. w + 1 \in Int  BY <2>2
        <5> QED  BY <1>1, <4>1, <4>2, <5>1, WordOrder
      <4>5. WordNr(k) = w
        <5>1. w \in Int  BY <2>2
        <5>2. \A x \in Int : w <= x /\ x < w + 1 => x = w  BY <5>1
        <5> QED  BY <4>1, <4>3, <4>4, <5>2
      <4>6. IF search.zero_for_one THEN k <= n ELSE n <= k  BY <3>4
      <4> QED  BY <2>6, <2>9, <4>1, <4>5, <4>6
    <3> HIDE DEF m
    <3>5. miss \in Int  BY <1>1, <3>1, StartOrder
    <3>6. CASE miss < MIN_TICK \/ miss > MAX_TICK
      <4>1. search' = [search EXCEPT !.phase = "none", !.last = miss]  BY <3>2, <3>6
      <4>2. ASSUME NEW j \in Lo..Hi, Flag(j)
            PROVE  ~ (IF search.zero_for_one THEN j < f ELSE f < j)
        <5>1. SUFFICES ASSUME IF search.zero_for_one THEN j < f ELSE f < j PROVE FALSE
          OBVIOUS
        <5>2. IF search.zero_for_one THEN j <= n ELSE n <= j  BY <1>8, <4>2, <5>1
        <5>3. j \in Int  BY <1>1
        <5>4. ~ (IF search.zero_for_one THEN m <= j ELSE j <= m)
          BY <3>4, <4>2, <5>2
        <5>5. CASE miss < MIN_TICK
          <6>1. Start(m) < Start(Lo + 1)  BY <1>10, <3>1, <3>5, <5>5
          <6>2. m < Lo + 1 /\ Lo + 1 \in Int  BY <1>1, <3>1, <6>1, StartOrder
          <6>3. m <= j  BY <1>1, <3>1, <6>2, <5>3
          <6>4. CASE search.zero_for_one  BY <5>4, <6>3, <6>4
          <6>5. CASE ~ search.zero_for_one
            <7>1. f <= l /\ l < n /\ n <= m  BY <1>4, <1>7, <3>3, <6>5 DEF Passed
            <7>2. Lo <= f  BY <1>1
            <7> QED  BY <1>1, <1>6, <3>1, <6>2, <7>1, <7>2
          <6> QED  BY <6>4, <6>5
        <5>6. CASE miss > MAX_TICK
          <6>1. Start(Hi) < Start(m)  BY <1>10, <3>1, <3>5, <5>6
          <6>2. Hi < m  BY <1>1, <3>1, <6>1, StartOrder
          <6> QED  BY <1>1, <1>6, <1>12, <3>1, <3>3, <5>3, <5>4, <6>2
        <5> QED  BY <3>6, <5>5, <5>6
      <4> QED  BY <1>2, <1>5, <3>5, <4>1, <4>2, TurnEnds
    <3>7. CASE ~ (miss < MIN_TICK \/ miss > MAX_TICK)
      <4>1. search' = [search EXCEPT !.phase = "pool", !.last = miss]  BY <3>2, <3>7
      <4>2. m \in Lo..Hi
        <5>1. Start(m) < Start(Hi + 1) /\ Start(Lo) <= Start(m)
          BY <1>10, <3>1, <3>5, <3>7
        <5>2. m < Hi + 1  BY <1>1, <3>1, <5>1, StartOrder
        <5>3. Lo <= m  BY <1>1, <3>1, <5>1, StartOrder
        <5> QED  BY <1>1, <3>1, <5>2, <5>3
      <4>3. /\ search' \in SearchRecord /\ search'.from = search.from
            /\ search'.first = search.first /\ search'.zero_for_one = search.zero_for_one
            /\ search'.last = miss /\ search'.phase = "pool"
            /\ search'.extension = search.extension
        BY <1>2, <3>5, <4>1 DEF SearchRecord
      <4>4. IF search.zero_for_one
            THEN m <= l /\ \A k \in Lo..Hi : m <= k /\ k < l => ~ Flag(k)
            ELSE l <= m /\ \A k \in Lo..Hi : l < k /\ k <= m => ~ Flag(k)
        <5>1. \A k \in Lo..Hi : k \in Int  BY <1>1
        <5>2. CASE search.zero_for_one
          <6>1. n < l /\ m <= n  BY <1>7, <3>3, <5>2
          <6>2. \A k \in Lo..Hi : m <= k /\ k < l => ~ Flag(k)
            BY <1>7, <3>4, <5>1, <5>2
          <6>3. m <= l  BY <1>6, <3>1, <6>1
          <6> QED  BY <5>2, <6>2, <6>3
        <5>3. CASE ~ search.zero_for_one
          <6>1. l < n /\ n <= m  BY <1>7, <3>3, <5>3
          <6>2. \A k \in Lo..Hi : l < k /\ k <= m => ~ Flag(k)
            BY <1>7, <3>4, <5>1, <5>3
          <6>3. l <= m  BY <1>6, <3>1, <6>1
          <6> QED  BY <5>3, <6>2, <6>3
        <5> QED  BY <5>2, <5>3
      <4>5. Passed(search', f, m)  BY <1>4, <3>1, <4>3, <4>4, PassedOn
      <4>6. SearchOk(search')  BY <1>3, <4>2, <4>3, <4>5 DEF SearchOk
      <4> QED  BY <1>2, <3>5, <4>1, <4>6, TurnGoesOn
    <3> QED  BY <3>6, <3>7
  <2> QED  BY <2>8, <2>9
<1> QED  BY <1>11, <1>12

-----------------------------------------------------------------------------
(* Beginning and end of a search *)

LEMMA FirstStep ==
  ASSUME IndexInv, NEW tick \in MIN_TICK..MAX_TICK, NEW zero_for_one \in BOOLEAN,
         NEW extension \in BOOLEAN, FirstArray(tick, zero_for_one, extension)
  PROVE  IndexInv' /\ Index!Ask
<1> DEFINE f == tick \div TickCount
<1>1. Spaced /\ Lo \in Int /\ Hi \in Int  BY InvConstants
<1>2. BitmapKept /\ search.phase = "idle"  BY DEF FirstArray, BitmapKept
<1>3. tick \in Int /\ MIN_TICK <= tick /\ tick <= MAX_TICK
      /\ MIN_TICK \in Int /\ MAX_TICK \in Int
  BY <1>1, Sizes DEF MIN_TICK
<1>4. f \in Int /\ ArrayStart(tick) = Start(f) /\ Start(f) <= tick /\ tick < Start(f + 1)
  BY <1>1, <1>3, StartIs
<1> HIDE DEF f
<1>5. f \in Lo..Hi
  <2>1. /\ Start(Lo) <= MIN_TICK /\ MAX_TICK < Start(Hi + 1)
        /\ Start(Lo) \in Int /\ Start(Hi + 1) \in Int
        /\ Start(f) \in Int /\ Start(f + 1) \in Int
    BY <1>1, <1>4, Ends, StartOrder
  <2>2. f < Hi + 1
    <3>1. Start(f) < Start(Hi + 1)  BY <1>3, <1>4, <2>1
    <3> QED  BY <1>1, <1>4, <3>1, StartOrder
  <2>3. Lo < f + 1
    <3>1. Start(Lo) < Start(f + 1)  BY <1>3, <1>4, <2>1
    <3> QED  BY <1>1, <1>4, <3>1, StartOrder
  <2> QED  BY <1>1, <1>4, <2>2, <2>3
<1>6. Start(f) \in ArrayStarts /\ Start(f) \in Int
  BY <1>1, <1>4, <1>5, ArrayStartsAre, StartOrder
<1>7. (IsFlagged(Start(f)) <=> Flag(f)) /\ (Overflows(Start(f)) <=> ~ InPool(f))
  BY <1>1, <1>5, FlagIs, OverflowsIs
<1>8. search' = [phase |-> IF Overflows(Start(f)) /\ ~extension THEN "missing"
                           ELSE IF IsFlagged(Start(f)) THEN "found" ELSE "pool",
                 from |-> Start(f), first |-> TRUE, zero_for_one |-> zero_for_one,
                 extension |-> extension, last |-> Start(f)]
  BY <1>4 DEF FirstArray
<1>9. /\ search' \in SearchRecord
      /\ search'.phase = IF ~ InPool(f) /\ ~extension THEN "missing"
                         ELSE IF Flag(f) THEN "found" ELSE "pool"
      /\ search'.from = Start(f) /\ search'.last = Start(f) /\ search'.first = TRUE
      /\ search'.extension = extension
  BY <1>6, <1>7, <1>8 DEF SearchRecord
<1>10. SearchOk(search')
  <2>1. SUFFICES ASSUME search'.phase = "pool"
                 PROVE  Passed(search', f, f)
    BY <1>5, <1>9 DEF SearchOk
  <2>2. ~ Flag(f)  BY <1>9, <2>1
  <2>3. f <= f /\ \A k \in Lo..Hi : ~ (f <= k /\ k < f) /\ ~ (f < k /\ k <= f)
    BY <1>1, <1>4
  <2> QED  BY <1>9, <2>2, <2>3 DEF Passed
<1>11. IndexInv'  BY <1>2, <1>9, <1>10, SearchKeeps
<1>12. search'.phase = "pool" \/ Index!Answers(Asked(search'))
  <2> DEFINE s == Asked(search')
  <2>1. CASE search'.phase = "missing"
    <3>1. /\ s.phase = "missing" /\ s.from = Start(f) /\ ~ s.extension /\ ~ InPool(f)
      BY <1>9, <2>1 DEF Asked
    <3> HIDE DEF s
    <3>2. Index!Answers(s)  BY <1>1, <1>5, <3>1, AnswersMissing
    <3> QED  BY <3>2 DEF s
  <2>2. CASE search'.phase = "found"
    <3>1. /\ s.phase = "found" /\ s.from = Start(f) /\ s.answer = Start(f) /\ s.first /\ Flag(f)
      BY <1>9, <2>2 DEF Asked
    <3> HIDE DEF s
    <3>2. Index!Answers(s)  BY <1>1, <1>5, <3>1, AnswersItself
    <3> QED  BY <3>2 DEF s
  <2> QED  BY <1>9, <2>1, <2>2
<1>13. Index!Ask  BY <1>2, <1>6, <1>9, <1>12, AsksIs
<1> QED  BY <1>11, <1>13

LEMMA NextStep ==
  ASSUME IndexInv, NEW start \in ArrayStarts, NEW zero_for_one \in BOOLEAN,
         NEW extension \in BOOLEAN, NextArray(start, zero_for_one, extension)
  PROVE  IndexInv' /\ Index!Ask
<1>1. Spaced /\ Lo \in Int /\ Hi \in Int  BY InvConstants
<1>2. BitmapKept /\ search.phase = "idle"  BY DEF NextArray, BitmapKept
<1>3. PICK f \in Lo..Hi : start = Start(f)  BY <1>1, ArrayStartsAre
<1>4. f \in Int /\ start \in Int
  <2>1. f \in Int  BY <1>1
  <2> QED  BY <1>1, <1>3, <2>1, StartOrder
<1>5. /\ search' \in SearchRecord /\ search'.phase = "pool"
      /\ search'.from = start /\ search'.last = start /\ search'.first = FALSE
  BY <1>4 DEF NextArray, SearchRecord
<1>6. SearchOk(search')
  <2>1. f <= f /\ \A k \in Lo..Hi : ~ (f <= k /\ k < f) /\ ~ (f < k /\ k <= f)
    BY <1>1, <1>4
  <2>2. Passed(search', f, f)  BY <1>3, <1>5, <2>1 DEF Passed
  <2> QED  BY <1>5, <2>2 DEF SearchOk
<1>7. IndexInv'  BY <1>2, <1>5, <1>6, SearchKeeps
<1>8. Index!Ask  BY <1>2, <1>5, AsksIs
<1> QED  BY <1>7, <1>8

LEMMA EndStep ==
  ASSUME IndexInv, EndSearch
  PROVE  IndexInv' /\ Index!Forget
<1>1. BitmapKept /\ search.phase \in {"found", "none", "missing"} /\ search' = IdleSearch
  BY DEF EndSearch, BitmapKept
<1>2. search' \in SearchRecord /\ search'.phase = "idle"
  BY <1>1 DEF IdleSearch, SearchRecord
<1>3. SearchOk(search')  BY <1>2 DEF SearchOk
<1>4. IndexInv'  BY <1>1, <1>2, <1>3, SearchKeeps
<1>5. ArrayStarts' = ArrayStarts /\ Core' = Core /\ Flagged' = Flagged  BY <1>1, KeptIs
<1>6. Asked(search).phase \in Index!Ended \ {"idle"} /\ Asked(search').phase = "idle"
  BY <1>1, <1>2 DEF Asked, Index!Ended
<1>7. Index!Forget  BY <1>5, <1>6 DEF Index!Forget, Asked, Core, Flagged
<1> QED  BY <1>4, <1>7

-----------------------------------------------------------------------------
(* A flip *)

LEMMA FlipBitIs ==
  ASSUME NEW word, NEW bit
  PROVE  \A b : b \in FlipBit(word, bit) <=> IF b = bit THEN bit \notin word ELSE b \in word
BY DEF FlipBit

(* A flip, in numbers.                                                     *)
LEMMA FlipIs ==
  ASSUME Spaced, NEW k \in Lo..Hi, FlipTickArrayBit(Start(k))
  PROVE  /\ InPool(k) =>
              /\ tick_array_bitmap' = FlipBit(tick_array_bitmap, k + B)
              /\ UNCHANGED <<positive_tick_array_bitmap, negative_tick_array_bitmap>>
         /\ ~ InPool(k) /\ k < 0 =>
              /\ negative_tick_array_bitmap' =
                   [negative_tick_array_bitmap EXCEPT
                      ![-WordNr(k) - 2] = FlipBit(@, BitNr(k))]
              /\ UNCHANGED <<tick_array_bitmap, positive_tick_array_bitmap>>
         /\ ~ InPool(k) /\ ~ (k < 0) =>
              /\ positive_tick_array_bitmap' =
                   [positive_tick_array_bitmap EXCEPT
                      ![WordNr(k) - 1] = FlipBit(@, BitNr(k))]
              /\ UNCHANGED <<tick_array_bitmap, negative_tick_array_bitmap>>
<1>1. k \in Int  BY Ends
<1>2. Overflows(Start(k)) <=> ~ InPool(k)  BY OverflowsIs
<1>3. k < 0 <=> Start(k) < 0  BY <1>1, SignIs
<1>4. /\ PoolBit(Start(k)) = k + B /\ WordBit(Start(k)) = BitNr(k)
      /\ WordOffset(Start(k)) = IF k < 0 THEN -WordNr(k) - 2 ELSE WordNr(k) - 1
  BY <1>1, Places
<1>5. CASE InPool(k)  BY <1>2, <1>4, <1>5 DEF FlipTickArrayBit
<1>6. CASE ~ InPool(k) /\ k < 0
  <2>1. WordOffset(Start(k)) = -WordNr(k) - 2  BY <1>4, <1>6
  <2> QED  BY <1>2, <1>3, <1>4, <1>6, <2>1 DEF FlipTickArrayBit
<1>7. CASE ~ InPool(k) /\ ~ (k < 0)
  <2>1. WordOffset(Start(k)) = WordNr(k) - 1  BY <1>4, <1>7
  <2> QED  BY <1>2, <1>3, <1>4, <1>7, <2>1 DEF FlipTickArrayBit
<1> QED  BY <1>5, <1>6, <1>7

(* A flip changes the flag of its array, and no other.                     *)
LEMMA FlipsFlag ==
  ASSUME IndexInv, NEW k \in Lo..Hi, FlipTickArrayBit(Start(k)), NEW j \in Lo..Hi
  PROVE  Flag(j)' <=> IF j = k THEN ~ Flag(k) ELSE Flag(j)
<1>1. Spaced /\ k \in Int /\ j \in Int /\ B \in Nat \ {0}  BY InvConstants
<1>2. /\ WordNr(k) \in Int /\ WordNr(j) \in Int
      /\ WordNr(j) = WordNr(k) /\ BitNr(j) = BitNr(k) => j = k
  <2>1. j = WordNr(j) * B + BitNr(j) /\ k = WordNr(k) * B + BitNr(k)
    BY <1>1, NumberIs
  <2> QED  BY <1>1, <2>1, NumberIs
<1>3. Flag(j)' <=> IF InPool(j) THEN j + B \in tick_array_bitmap'
                   ELSE IF j < 0 THEN BitNr(j) \in negative_tick_array_bitmap'[-WordNr(j) - 2]
                   ELSE BitNr(j) \in positive_tick_array_bitmap'[WordNr(j) - 1]
  BY DEF Flag, InPool, BitNr, WordNr, B
<1>4. CASE InPool(k)
  <2>1. /\ tick_array_bitmap' = FlipBit(tick_array_bitmap, k + B)
        /\ positive_tick_array_bitmap' = positive_tick_array_bitmap
        /\ negative_tick_array_bitmap' = negative_tick_array_bitmap
    BY <1>1, <1>4, FlipIs
  <2>2. j + B = k + B <=> j = k  BY <1>1
  <2>3. j + B \in tick_array_bitmap'
          <=> IF j = k THEN k + B \notin tick_array_bitmap ELSE j + B \in tick_array_bitmap
    BY <2>1, <2>2, FlipBitIs
  <2>4. CASE InPool(j)  BY <1>3, <1>4, <2>3, <2>4 DEF Flag
  <2>5. CASE ~ InPool(j)
    <3>1. j # k  BY <1>4, <2>5
    <3> QED  BY <1>3, <2>1, <2>5, <3>1 DEF Flag
  <2> QED  BY <2>4, <2>5
<1>5. CASE ~ InPool(k) /\ k < 0
  <2> DEFINE o == -WordNr(k) - 2
             i == -WordNr(j) - 2
  <2>1. /\ negative_tick_array_bitmap' =
             [negative_tick_array_bitmap EXCEPT ![o] = FlipBit(@, BitNr(k))]
        /\ positive_tick_array_bitmap' = positive_tick_array_bitmap
        /\ tick_array_bitmap' = tick_array_bitmap
    BY <1>1, <1>5, FlipIs
  <2>2. CASE InPool(j) \/ ~ (j < 0)
    <3>1. j # k  BY <1>5, <2>2
    <3> QED  BY <1>3, <2>1, <2>2, <3>1 DEF Flag
  <2>3. CASE ~ InPool(j) /\ j < 0
    <3>1. o \in Offsets /\ i \in Offsets  BY <1>1, <1>5, <2>3, WordExists
    <3>2. i = o <=> WordNr(j) = WordNr(k)  BY <1>2
    <3>3. DOMAIN negative_tick_array_bitmap = Offsets  BY DEF IndexInv, TypeOK
    <3>4. /\ Flag(j)' <=> BitNr(j) \in negative_tick_array_bitmap'[i]
          /\ Flag(j) <=> BitNr(j) \in negative_tick_array_bitmap[i]
          /\ Flag(k) <=> BitNr(k) \in negative_tick_array_bitmap[o]
      BY <1>3, <1>5, <2>3 DEF Flag
    <3> HIDE DEF o, i
    <3>5. negative_tick_array_bitmap'[i] =
            IF i = o THEN FlipBit(negative_tick_array_bitmap[o], BitNr(k))
                     ELSE negative_tick_array_bitmap[i]
      BY <2>1, <3>1, <3>3
    <3> QED  BY <1>2, <3>2, <3>4, <3>5, FlipBitIs
  <2> QED  BY <2>2, <2>3
<1>6. CASE ~ InPool(k) /\ ~ (k < 0)
  <2> DEFINE o == WordNr(k) - 1
             i == WordNr(j) - 1
  <2>1. /\ positive_tick_array_bitmap' =
             [positive_tick_array_bitmap EXCEPT ![o] = FlipBit(@, BitNr(k))]
        /\ negative_tick_array_bitmap' = negative_tick_array_bitmap
        /\ tick_array_bitmap' = tick_array_bitmap
    BY <1>1, <1>6, FlipIs
  <2>2. CASE InPool(j) \/ j < 0
    <3>1. j # k  BY <1>6, <2>2
    <3> QED  BY <1>3, <2>1, <2>2, <3>1 DEF Flag
  <2>3. CASE ~ InPool(j) /\ ~ (j < 0)
    <3>1. o \in Offsets /\ i \in Offsets  BY <1>1, <1>6, <2>3, WordExists
    <3>2. i = o <=> WordNr(j) = WordNr(k)  BY <1>2
    <3>3. DOMAIN positive_tick_array_bitmap = Offsets  BY DEF IndexInv, TypeOK
    <3>4. /\ Flag(j)' <=> BitNr(j) \in positive_tick_array_bitmap'[i]
          /\ Flag(j) <=> BitNr(j) \in positive_tick_array_bitmap[i]
          /\ Flag(k) <=> BitNr(k) \in positive_tick_array_bitmap[o]
      BY <1>3, <1>6, <2>3 DEF Flag
    <3> HIDE DEF o, i
    <3>5. positive_tick_array_bitmap'[i] =
            IF i = o THEN FlipBit(positive_tick_array_bitmap[o], BitNr(k))
                     ELSE positive_tick_array_bitmap[i]
      BY <2>1, <3>1, <3>3
    <3> QED  BY <1>2, <3>2, <3>4, <3>5, FlipBitIs
  <2> QED  BY <2>2, <2>3
<1> QED  BY <1>4, <1>5, <1>6

(* A flipped word is still one of bits of arrays.                          *)
LEMMA FlipKeeps ==
  ASSUME IndexInv, NEW k \in Lo..Hi, FlipTickArrayBit(Start(k))
  PROVE  IndexInv'
<1>1. Spaced /\ k \in Int /\ B \in Nat \ {0}  BY InvConstants
<1>2. /\ tick_spacing' = tick_spacing /\ search' = search /\ search.phase = "idle"
      /\ Lo' = Lo /\ Hi' = Hi
  BY SpacingKept DEF FlipTickArrayBit
<1>3. /\ WordNr(k) \in Int /\ BitNr(k) \in 0..(B - 1) /\ k = WordNr(k) * B + BitNr(k)
  BY <1>1, NumberIs
<1>4. /\ tick_spacing \in TickSpacings
      /\ tick_array_bitmap \in SUBSET (0..(2 * B - 1))
      /\ positive_tick_array_bitmap \in [Offsets -> SUBSET (0..(B - 1))]
      /\ negative_tick_array_bitmap \in [Offsets -> SUBSET (0..(B - 1))]
  BY DEF IndexInv, TypeOK, B
<1>5. /\ \A b \in tick_array_bitmap : b - B \in Lo..Hi
      /\ \A o \in Offsets : \A b \in positive_tick_array_bitmap[o] : (o + 1) * B + b \in Lo..Hi
      /\ \A o \in Offsets : \A b \in negative_tick_array_bitmap[o] : (-o - 2) * B + b \in Lo..Hi
  BY DEF IndexInv, BitsOnArrays
<1>6. /\ tick_array_bitmap' \in SUBSET (0..(2 * B - 1))
      /\ \A b \in tick_array_bitmap' : b - B \in Lo..Hi
  <2>1. CASE InPool(k)
    <3>1. tick_array_bitmap' = FlipBit(tick_array_bitmap, k + B)  BY <1>1, <2>1, FlipIs
    <3>2. k + B \in 0..(2 * B - 1) /\ (k + B) - B = k  BY <1>1, <2>1 DEF InPool
    <3>3. ASSUME NEW b \in tick_array_bitmap'
          PROVE  b \in 0..(2 * B - 1) /\ b - B \in Lo..Hi
      <4>1. b = k + B \/ b \in tick_array_bitmap  BY <3>1, FlipBitIs
      <4> QED  BY <1>4, <1>5, <3>2, <4>1
    <3> QED  BY <3>3
  <2>2. CASE ~ InPool(k)
    <3>1. tick_array_bitmap' = tick_array_bitmap  BY <1>1, <2>2, FlipIs
    <3> QED  BY <1>4, <1>5, <3>1
  <2> QED  BY <2>1, <2>2
<1>7. /\ positive_tick_array_bitmap' \in [Offsets -> SUBSET (0..(B - 1))]
      /\ \A o \in Offsets : \A b \in positive_tick_array_bitmap'[o] : (o + 1) * B + b \in Lo..Hi
  <2>1. CASE ~ InPool(k) /\ ~ (k < 0)
    <3> DEFINE i == WordNr(k) - 1
    <3>1. positive_tick_array_bitmap' =
            [positive_tick_array_bitmap EXCEPT ![i] = FlipBit(@, BitNr(k))]
      BY <1>1, <2>1, FlipIs
    <3>2. i \in Offsets  BY <1>1, <2>1, WordExists
    <3>3. (i + 1) * B + BitNr(k) = k
      <4>1. i + 1 = WordNr(k)  BY <1>3
      <4> HIDE DEF i
      <4> QED  BY <1>3, <4>1
    <3> HIDE DEF i
    <3>4. \A b \in FlipBit(positive_tick_array_bitmap[i], BitNr(k)) :
            b = BitNr(k) \/ b \in positive_tick_array_bitmap[i]
      BY FlipBitIs
    <3>5. FlipBit(positive_tick_array_bitmap[i], BitNr(k)) \in SUBSET (0..(B - 1))
      BY <1>3, <1>4, <3>2, <3>4
    <3>6. positive_tick_array_bitmap' \in [Offsets -> SUBSET (0..(B - 1))]
      BY <1>4, <3>1, <3>2, <3>5
    <3>7. ASSUME NEW o \in Offsets, NEW b \in positive_tick_array_bitmap'[o]
          PROVE  (o + 1) * B + b \in Lo..Hi
      <4>1. CASE o = i
        <5>1. positive_tick_array_bitmap'[o] = FlipBit(positive_tick_array_bitmap[i], BitNr(k))
          BY <1>4, <3>1, <3>2, <4>1
        <5>2. b = BitNr(k) \/ b \in positive_tick_array_bitmap[i]  BY <3>4, <3>7, <5>1
        <5> QED  BY <1>5, <3>2, <3>3, <4>1, <5>2
      <4>2. CASE o # i
        <5>1. positive_tick_array_bitmap'[o] = positive_tick_array_bitmap[o]
          BY <1>4, <3>1, <4>2
        <5> QED  BY <1>5, <3>7, <5>1
      <4> QED  BY <4>1, <4>2
    <3> QED  BY <3>6, <3>7
  <2>2. CASE InPool(k) \/ k < 0
    <3>1. positive_tick_array_bitmap' = positive_tick_array_bitmap  BY <1>1, <2>2, FlipIs
    <3> QED  BY <1>4, <1>5, <3>1
  <2> QED  BY <2>1, <2>2
<1>8. /\ negative_tick_array_bitmap' \in [Offsets -> SUBSET (0..(B - 1))]
      /\ \A o \in Offsets : \A b \in negative_tick_array_bitmap'[o] : (-o - 2) * B + b \in Lo..Hi
  <2>1. CASE ~ InPool(k) /\ k < 0
    <3> DEFINE i == -WordNr(k) - 2
    <3>1. negative_tick_array_bitmap' =
            [negative_tick_array_bitmap EXCEPT ![i] = FlipBit(@, BitNr(k))]
      BY <1>1, <2>1, FlipIs
    <3>2. i \in Offsets  BY <1>1, <2>1, WordExists
    <3>3. (-i - 2) * B + BitNr(k) = k
      <4>1. -i - 2 = WordNr(k)  BY <1>3
      <4> HIDE DEF i
      <4> QED  BY <1>3, <4>1
    <3> HIDE DEF i
    <3>4. \A b \in FlipBit(negative_tick_array_bitmap[i], BitNr(k)) :
            b = BitNr(k) \/ b \in negative_tick_array_bitmap[i]
      BY FlipBitIs
    <3>5. FlipBit(negative_tick_array_bitmap[i], BitNr(k)) \in SUBSET (0..(B - 1))
      BY <1>3, <1>4, <3>2, <3>4
    <3>6. negative_tick_array_bitmap' \in [Offsets -> SUBSET (0..(B - 1))]
      BY <1>4, <3>1, <3>2, <3>5
    <3>7. ASSUME NEW o \in Offsets, NEW b \in negative_tick_array_bitmap'[o]
          PROVE  (-o - 2) * B + b \in Lo..Hi
      <4>1. CASE o = i
        <5>1. negative_tick_array_bitmap'[o] = FlipBit(negative_tick_array_bitmap[i], BitNr(k))
          BY <1>4, <3>1, <3>2, <4>1
        <5>2. b = BitNr(k) \/ b \in negative_tick_array_bitmap[i]  BY <3>4, <3>7, <5>1
        <5> QED  BY <1>5, <3>2, <3>3, <4>1, <5>2
      <4>2. CASE o # i
        <5>1. negative_tick_array_bitmap'[o] = negative_tick_array_bitmap[o]
          BY <1>4, <3>1, <4>2
        <5> QED  BY <1>5, <3>7, <5>1
      <4> QED  BY <4>1, <4>2
    <3> QED  BY <3>6, <3>7
  <2>2. CASE InPool(k) \/ ~ (k < 0)
    <3>1. negative_tick_array_bitmap' = negative_tick_array_bitmap  BY <1>1, <2>2, FlipIs
    <3> QED  BY <1>4, <1>5, <3>1
  <2> QED  BY <2>1, <2>2
<1>9. TypeOK'  BY <1>2, <1>4, <1>6, <1>7, <1>8 DEF IndexInv, TypeOK, B, Offsets
<1>10. BitsOnArrays'
  BY <1>2, <1>6, <1>7, <1>8 DEF BitsOnArrays, B, Offsets
<1>11. SearchOk(search)'  BY <1>2 DEF SearchOk
<1> QED  BY <1>2, <1>9, <1>10, <1>11 DEF IndexInv, SearchRecord

FlaggedByNumber ==
  /\ Flagged \subseteq ArrayStarts
  /\ \A k \in Lo..Hi : Start(k) \in Flagged <=> Flag(k)

LEMMA FlaggedAreArrays == Spaced => FlaggedByNumber
BY FlaggedAre DEF Flagged, FlaggedByNumber

LEMMA FlipStep ==
  ASSUME IndexInv, NEW start \in ArrayStarts, FlipTickArrayBit(start)
  PROVE  IndexInv' /\ Index!Flip
<1>1. Spaced /\ Lo \in Int /\ Hi \in Int  BY InvConstants
<1>2. PICK k \in Lo..Hi : start = Start(k)  BY <1>1, ArrayStartsAre
<1>3. tick_spacing' = tick_spacing /\ search' = search /\ search.phase = "idle"
  BY DEF FlipTickArrayBit
<1>4. IndexInv'  BY <1>2, FlipKeeps
<1>5. /\ ArrayStarts' = ArrayStarts /\ Core' = Core /\ Lo' = Lo /\ Hi' = Hi
      /\ \A j : Start(j)' = Start(j)
  BY <1>3, SpacingKept
<1>6. /\ Flagged' \subseteq ArrayStarts
      /\ \A j \in Lo..Hi : Start(j) \in Flagged' <=> Flag(j)'
  <2>1. Spaced'  BY <1>1, <1>3 DEF Spaced
  <2>2. FlaggedByNumber'  BY <2>1, FlaggedAreArrays, PTL
  <2> QED  BY <1>5, <2>2 DEF FlaggedByNumber
<1>7. ASSUME NEW a \in ArrayStarts
      PROVE  a \in Flagged' <=> IF a = start THEN start \notin Flagged ELSE a \in Flagged
  <2>1. PICK j \in Lo..Hi : a = Start(j)  BY <1>1, ArrayStartsAre
  <2>2. a = start <=> j = k
    <3>1. j \in Int /\ k \in Int  BY <1>1
    <3> QED  BY <1>1, <1>2, <2>1, <3>1, StartOrder
  <2>3. Flag(j)' <=> IF j = k THEN ~ Flag(k) ELSE Flag(j)  BY <1>2, FlipsFlag
  <2>4. (start \in Flagged <=> Flag(k)) /\ (a \in Flagged <=> Flag(j))
    BY <1>1, <1>2, <2>1, FlaggedAreArrays DEF FlaggedByNumber
  <2> QED  BY <1>6, <2>1, <2>2, <2>3, <2>4
<1>8. Flagged' = IF start \in Flagged THEN Flagged \ {start} ELSE Flagged \cup {start}
  <2>1. Flagged \subseteq ArrayStarts  BY <1>1, FlaggedAreArrays DEF FlaggedByNumber
  <2> QED  BY <1>6, <1>7, <2>1
<1>9. Asked(search').phase = "idle" /\ Asked(search') = Asked(search)
  BY <1>3 DEF Asked
<1>10. Index!Flip
  <2>1. Asked(search).phase = "idle"  BY <1>9, <1>3
  <2> QED  BY <1>3, <1>5, <1>8, <2>1 DEF Index!Flip, Asked, Core, Flagged
<1> QED  BY <1>4, <1>10

-----------------------------------------------------------------------------
(* Theorems *)

LEMMA IndexStep ==
  IndexInv /\ [Next]_vars => IndexInv' /\ [Index!Next]_(Index!indexVars)
<1> SUFFICES ASSUME IndexInv, [Next]_vars
             PROVE  IndexInv' /\ [Index!Next]_(Index!indexVars)
  OBVIOUS
<1>1. ASSUME NEW start \in ArrayStarts, FlipTickArrayBit(start)
      PROVE  IndexInv' /\ Index!Next
  BY <1>1, FlipStep DEF Index!Next
<1>2. ASSUME NEW tick \in MIN_TICK..MAX_TICK, NEW zero_for_one \in BOOLEAN,
             NEW extension \in BOOLEAN, FirstArray(tick, zero_for_one, extension)
      PROVE  IndexInv' /\ Index!Next
  BY <1>2, FirstStep DEF Index!Next
<1>3. ASSUME NEW start \in ArrayStarts, NEW zero_for_one \in BOOLEAN,
             NEW extension \in BOOLEAN, NextArray(start, zero_for_one, extension)
      PROVE  IndexInv' /\ Index!Next
  BY <1>3, NextStep DEF Index!Next
<1>4. CASE LookInPool  BY <1>4, PoolTurn DEF Index!Next
<1>5. CASE LookInExtension  BY <1>5, ExtensionTurn DEF Index!Next
<1>6. CASE EndSearch  BY <1>6, EndStep DEF Index!Next
<1>7. CASE UNCHANGED vars
  <2>1. BitmapKept /\ search' = search  BY <1>7 DEF vars, BitmapKept
  <2>2. search' \in SearchRecord /\ SearchOk(search')  BY <2>1 DEF IndexInv
  <2>3. IndexInv'  BY <2>1, <2>2, SearchKeeps
  <2>4. ArrayStarts' = ArrayStarts /\ Core' = Core /\ Flagged' = Flagged  BY <2>1, KeptIs
  <2>5. UNCHANGED Index!indexVars
    BY <2>1, <2>4 DEF Index!indexVars, Core, Flagged
  <2> QED  BY <2>3, <2>5
<1> QED  BY <1>1, <1>2, <1>3, <1>4, <1>5, <1>6, <1>7 DEF Next

LEMMA IndexBegins == Init => IndexInv /\ Index!Init
<1> SUFFICES ASSUME Init PROVE IndexInv /\ Index!Init  OBVIOUS
<1>1. /\ search = IdleSearch /\ search.phase = "idle" /\ search \in SearchRecord
      /\ search.from \in Int /\ search.last \in Int
  BY DEF Init, IdleSearch, SearchRecord
<1>2. TypeOK  BY <1>1 DEF Init, TypeOK
<1>3. BitsOnArrays  BY DEF Init, BitsOnArrays
<1>4. IndexInv  BY <1>1, <1>2, <1>3 DEF IndexInv, SearchOk
<1>5. Spaced /\ Lo \in Int /\ Hi \in Int  BY <1>4, InvConstants
<1>6. Flagged = {}
  <2>1. ASSUME NEW k \in Lo..Hi PROVE ~ Flag(k)
    <3>1. k \in Int  BY <1>5
    <3>2. CASE InPool(k)  BY <3>2 DEF Init, Flag
    <3>3. CASE ~ InPool(k) /\ k < 0
      <4>1. -WordNr(k) - 2 \in Offsets  BY <1>5, <3>3, WordExists
      <4> QED  BY <3>3, <4>1 DEF Init, Flag
    <3>4. CASE ~ InPool(k) /\ ~ (k < 0)
      <4>1. WordNr(k) - 1 \in Offsets  BY <1>5, <3>4, WordExists
      <4> QED  BY <3>4, <4>1 DEF Init, Flag
    <3> QED  BY <3>2, <3>3, <3>4
  <2> QED  BY <1>5, <2>1, FlaggedAre
<1>7. Core \subseteq ArrayStarts  BY DEF Core
<1>8. Asked(search).phase = "idle"  BY <1>1 DEF Asked
<1>9. Index!Init  BY <1>6, <1>7, <1>8 DEF Index!Init, Asked, Core, Flagged
<1> QED  BY <1>4, <1>9

(* Every word keeps to the bits it has, and no search fails, for every     *)
(* spacing and every size of arrays and words: neither                     *)
(* next_initialized_tick_array_start_index nor the extension's search      *)
(* refuses an index that a search worked out itself (no state's phase is   *)
(* "failed").                                                              *)
THEOREM BitmapTyped == Spec => []TypeOK
<1>1. Init => IndexInv  BY IndexBegins
<1>2. IndexInv /\ [Next]_vars => IndexInv'  BY IndexStep
<1>3. IndexInv => TypeOK  BY DEF IndexInv
<1> QED  BY <1>1, <1>2, <1>3, PTL DEF Spec

(* The pool's word and those of the extension are one index: a flip        *)
(* changes the flag of one array, and a search, over all the hand-overs    *)
(* between get_first_initialized_tick_array, the pool's word and the       *)
(* extension's, answers with the nearest flagged array, with none only if  *)
(* there is none, and gives up only for want of the extension.             *)
THEOREM BitmapImplementsIndex == Spec => ImplementsIndex
<1>1. Init => IndexInv /\ Index!Init  BY IndexBegins
<1>2. IndexInv /\ [Next]_vars => IndexInv' /\ [Index!Next]_(Index!indexVars)  BY IndexStep
<1> QED  BY <1>1, <1>2, PTL DEF Spec, ImplementsIndex, Index!Spec

================================================================================
