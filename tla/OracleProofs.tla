------------------------------ MODULE OracleProofs ------------------------------
(***************************************************************************)
(* The theorems about the price oracle: whatever the size of the ring and  *)
(* the pace of the swaps, the ring holds the latest observations, two      *)
(* neighbours give a reader the price that was observed, wrapping sums or  *)
(* not, and that price is the pool's but for a bounded error.              *)
(***************************************************************************)
EXTENDS Oracle, WellFoundedInduction, TLAPS

N == OBSERVATION_NUM
D == OBSERVATION_UPDATE_DURATION_DEFAULT
Records == [block_timestamp : 0..MaxTime, sqrt_price : SqrtPrices,
            price_sum : Nat, passed_over : BOOLEAN]

(* What the history holds.                                                 *)
LogOK ==
  /\ log \in Seq(Records)
  /\ price_sum \in Nat
  /\ passed_over \in BOOLEAN
  /\ initialized <=> Len(log) > 0
  /\ Len(log) = 0 => observation_index = 0
  /\ Len(log) > 0 => Logged(0).block_timestamp <= now

(* The pool's price since the newest observation, summed, against a price  *)
(* that it may have had all the time.                                      *)
Since == price_sum - Logged(0).price_sum
Elapsed == now - Logged(0).block_timestamp
Off(p) == Since - Price(p) * Elapsed
Within(error, bound) == -bound <= error /\ error <= bound

(* No price is further off than the spread of prices allows, and the       *)
(* pool's own is off only by what happened before an observation was due,  *)
(* unless a due one was passed over.                                       *)
DriftBounded ==
  Len(log) > 0 =>
    /\ \A p \in SqrtPrices : Within(Off(p), Elapsed * Spread)
    /\ ~passed_over => Within(Off(sqrt_price), (D - 1) * Spread)

OracleInv ==
  /\ TypeOK /\ LogOK
  /\ RingKeepsNewest /\ NeighboursReadable
  /\ DriftBounded /\ CumulativeTracksPrice
-----------------------------------------------------------------------------
(* Arithmetic *)

LEMMA PriceBounds ==
  ASSUME NEW p \in SqrtPrices
  PROVE  Price(p) \in 0..(MAX_SQRT_PRICE_X64 * MAX_SQRT_PRICE_X64)
<1> DEFINE M == MAX_SQRT_PRICE_X64
<1>1. p \in Nat /\ M \in Nat /\ p <= M /\ Q64 \in Nat \ {0}  BY OracleAssumption
<1> HIDE DEF M
<1>2. p * p \in Nat /\ p * p <= M * M /\ M * M \in Nat
  <2>1. p * p <= p * M /\ p * M <= M * M /\ p * p \in Nat /\ M * M \in Nat /\ p * M \in Nat
    BY <1>1
  <2> QED  BY <2>1
<1>3. \A n \in Nat : n \div Q64 \in Nat /\ n \div Q64 <= n  BY <1>1
<1>4. Price(p) \in Nat /\ Price(p) <= p * p  BY <1>2, <1>3 DEF Price
<1>5. Price(p) <= M * M  BY <1>2, <1>4
<1> QED  BY <1>2, <1>4, <1>5 DEF M

(* The prices have a spread: the least bound of their differences is one   *)
(* of them.                                                                *)
LEMMA SpreadBounds ==
  /\ Spread \in Nat
  /\ \A p, q \in SqrtPrices : Price(p) - Price(q) <= Spread
<1> DEFINE M == MAX_SQRT_PRICE_X64 * MAX_SQRT_PRICE_X64
           Bounds == {m \in Nat : \A p, q \in SqrtPrices : Price(p) - Price(q) <= m}
           Differences == {Price(p) - Price(q) : p, q \in SqrtPrices}
<1>1. M \in Nat  BY OracleAssumption
<1>2. \A p \in SqrtPrices : Price(p) \in Nat /\ Price(p) <= M
  <2> SUFFICES ASSUME NEW p \in SqrtPrices
               PROVE  Price(p) \in Nat /\ Price(p) <= M
    OBVIOUS
  <2>1. Price(p) \in 0..M  BY PriceBounds
  <2> HIDE DEF M
  <2> QED  BY <1>1, <2>1
<1>3. M \in Bounds
  <2> HIDE DEF M
  <2> QED  BY <1>1, <1>2
<1>4. PICK least \in Bounds : \A m \in Bounds : ~ (m < least)
  <2>1. Bounds \subseteq Nat /\ Bounds # {}  BY <1>3
  <2>2. PICK x \in Bounds : \A y \in Bounds : <<y, x>> \notin OpToRel(<, Nat)
    BY <2>1, WFMin, NatLessThanWellFounded
  <2> QED  BY <2>1, <2>2 DEF OpToRel
<1>5. least \in Differences
  <2>1. SUFFICES ASSUME least \notin Differences PROVE FALSE  OBVIOUS
  <2>2. \A p, q \in SqrtPrices : Price(p) - Price(q) < least
    BY <1>2, <1>4, <2>1
  <2>3. PICK p \in SqrtPrices : TRUE  BY OracleAssumption
  <2>4. least > 0  BY <1>2, <2>2, <2>3
  <2>5. least - 1 \in Bounds  BY <1>2, <1>4, <2>2, <2>4
  <2> QED  BY <1>4, <2>5
<1>6. \A p, q \in SqrtPrices : Price(p) - Price(q) <= least  BY <1>4
<1>7. \E d \in Differences : \A p, q \in SqrtPrices : Price(p) - Price(q) <= d
  BY <1>5, <1>6
<1>8. /\ Spread \in Differences
      /\ \A p, q \in SqrtPrices : Price(p) - Price(q) <= Spread
  BY <1>7 DEF Spread
<1>9. Spread >= 0 /\ Spread \in Int
  <2>1. PICK p \in SqrtPrices : TRUE  BY OracleAssumption
  <2>2. Price(p) - Price(p) <= Spread  BY <1>8
  <2>3. Spread \in Int  BY <1>2, <1>8
  <2> QED  BY <1>2, <2>1, <2>2, <2>3
<1> QED  BY <1>8, <1>9

LEMMA ModBounds ==
  ASSUME NEW n \in Int, NEW d \in Nat \ {0}
  PROVE  n % d \in 0..(d - 1) /\ n = d * (n \div d) + (n % d) /\ n \div d \in Int
OBVIOUS

LEMMA RemainderUnique ==
  ASSUME NEW k \in Int, NEW d \in Nat \ {0}, NEW r \in 0..(d - 1), NEW s \in 0..(d - 1),
         s = d * k + r
  PROVE  s = r
<1>1. CASE k >= 1
  <2>1. d * k >= d  BY <1>1
  <2> QED  BY <2>1
<1>2. CASE k <= -1
  <2>1. d * k <= -d  BY <1>2
  <2> QED  BY <2>1
<1>3. CASE k = 0  BY <1>3
<1> QED  BY <1>1, <1>2, <1>3

(* The sum wraps, and the difference comes out right.                      *)
LEMMA WrapsBack ==
  ASSUME NEW a \in 0..(Word - 1), NEW delta \in 0..(Word - 1)
  PROVE  (((a + delta) % Word) - a) % Word = delta
<1> DEFINE b == (a + delta) % Word
           k == (a + delta) \div Word
           c == (b - a) % Word
           l == (b - a) \div Word
<1>1. Word \in Nat \ {0}  BY OracleAssumption
<1>2. b \in 0..(Word - 1) /\ a + delta = Word * k + b /\ k \in Int
  BY <1>1, ModBounds
<1>3. c \in 0..(Word - 1) /\ b - a = Word * l + c /\ l \in Int
  <2> HIDE DEF b, k
  <2>1. b - a \in Int  BY <1>1, <1>2
  <2> QED  BY <1>1, <2>1, ModBounds
<1> HIDE DEF b, k, c, l
<1>4. Word * (k + l) = Word * k + Word * l /\ Word * k \in Int /\ Word * l \in Int
  BY <1>1, <1>2, <1>3
<1>5. delta = Word * (k + l) + c  BY <1>1, <1>2, <1>3, <1>4
<1>6. k + l \in Int  BY <1>2, <1>3
<1>7. delta = c  BY <1>1, <1>3, <1>5, <1>6, RemainderUnique
<1> QED  BY <1>7 DEF b, c

-----------------------------------------------------------------------------
(* The ring *)

(* Going back around the end of the array.                                 *)
LEMMA Back ==
  ASSUME NEW index \in 0..(N - 1), NEW i \in 0..(N - 1)
  PROVE  (index - i + N) % N = IF i <= index THEN index - i ELSE index - i + N
<1> DEFINE r == IF i <= index THEN index - i ELSE index - i + N
           s == (index - i + N) % N
           k == (index - i + N) \div N
<1>1. N \in Nat \ {0}  BY OracleAssumption DEF N
<1>2. r \in 0..(N - 1)  BY <1>1
<1>3. s \in 0..(N - 1) /\ index - i + N = N * k + s /\ k \in Int
  <2>1. index - i + N \in Int  BY <1>1
  <2> QED  BY <1>1, <2>1, ModBounds
<1>4. CASE i <= index
  <2>1. r = N * (k - 1) + s /\ k - 1 \in Int
    <3> HIDE DEF k, s
    <3>1. N * (k - 1) = N * k - N /\ N * k \in Int  BY <1>1, <1>3
    <3> QED  BY <1>1, <1>3, <1>4, <3>1
  <2> HIDE DEF r, s, k
  <2>2. r = s  BY <1>1, <1>2, <1>3, <2>1, RemainderUnique
  <2> QED  BY <2>2 DEF r, s
<1>5. CASE ~ (i <= index)
  <2>1. r = N * k + s /\ k \in Int
    <3> HIDE DEF k, s
    <3> QED  BY <1>1, <1>3, <1>5
  <2> HIDE DEF r, s, k
  <2>2. r = s  BY <1>1, <1>2, <1>3, <2>1, RemainderUnique
  <2> QED  BY <2>2 DEF r, s
<1> QED  BY <1>4, <1>5
-----------------------------------------------------------------------------
(* Types *)

LEMMA NextIndexType ==
  ASSUME TypeOK
  PROVE  NextIndex \in 0..(N - 1) /\ (N - 1) \in Nat
BY OracleAssumption DEF TypeOK, NextIndex, N

LEMMA WordCoversModulo ==
  ASSUME NEW n \in Int
  PROVE  n % Word \in 0..(Word - 1)
BY OracleAssumption, ModBounds

Observed == [block_timestamp : 0..MaxTime, sqrt_price : SqrtPrices \cup {0},
             cumulative : 0..(Word - 1)]

LEMMA WriteTypes ==
  ASSUME TypeOK, NEW index \in 0..(N - 1), NEW c \in 0..(Word - 1), Write(index, c)
  PROVE  observation_index' \in 0..(N - 1) /\ observations' \in [0..(N - 1) -> Observed]
<1> DEFINE o == [block_timestamp |-> now, sqrt_price |-> sqrt_price, cumulative |-> c]
<1>1. o \in Observed  BY DEF Observed, TypeOK
<1>2. observations \in [0..(N - 1) -> Observed]  BY DEF TypeOK, N, Observed
<1>3. observation_index' = index /\ observations' = [observations EXCEPT ![index] = o]
  BY DEF Write
<1> HIDE DEF o
<1> QED  BY <1>1, <1>2, <1>3

(* The first theorem: the variables keep their types, and a cumulated      *)
(* price its width.                                                        *)
THEOREM OracleTyped == Spec => []TypeOK
<1>1. Init => TypeOK
  BY OracleAssumption DEF Init, TypeOK
<1>2. TypeOK /\ [Next]_vars => TypeOK'
  <2> SUFFICES ASSUME TypeOK, [Next]_vars PROVE TypeOK'  OBVIOUS
  <2>1. ASSUME NEW p \in SqrtPrices, Swap(p) PROVE TypeOK'
    <3>1. sqrt_price' \in SqrtPrices /\ now' = now  BY <2>1 DEF Swap
    <3>2. CASE FirstObservation
      <4>1. 0 \in 0..(Word - 1)  BY OracleAssumption
      <4>2. observation_index \in 0..(N - 1)  BY DEF TypeOK, N
      <4>3. /\ observation_index' \in 0..(N - 1)
            /\ observations' \in [0..(N - 1) -> Observed]
        BY <3>2, <4>1, <4>2, WriteTypes DEF FirstObservation
      <4> QED  BY <3>1, <3>2, <4>3 DEF TypeOK, FirstObservation, Observed, N
    <3>3. CASE Observe
      <4>1. Newest.cumulative \in Int  BY OracleAssumption DEF Newest, TypeOK
      <4>2. DeltaPrice \in Int
        <5>1. Price(sqrt_price) \in Int  BY PriceBounds DEF TypeOK
        <5>2. DeltaTime \in Int  BY DEF DeltaTime, Newest, TypeOK
        <5> QED  BY <5>1, <5>2 DEF DeltaPrice
      <4>3. (Newest.cumulative + DeltaPrice) % Word \in 0..(Word - 1)
        BY <4>1, <4>2, WordCoversModulo
      <4>4. /\ observation_index' \in 0..(N - 1)
            /\ observations' \in [0..(N - 1) -> Observed]
        BY <3>3, <4>3, NextIndexType, WriteTypes DEF Observe
      <4> QED  BY <3>1, <3>3, <4>4 DEF TypeOK, Observe, Observed, N
    <3>4. CASE PassOver  BY <3>1, <3>4 DEF TypeOK, PassOver, oracleVars
    <3> QED  BY <2>1, <3>2, <3>3, <3>4 DEF Swap
  <2>2. CASE PassTime
    BY <2>2, OracleAssumption DEF PassTime, TypeOK, oracleVars
  <2>3. CASE UNCHANGED vars  BY <2>3 DEF vars, oracleVars, TypeOK
  <2> QED  BY <2>1, <2>2, <2>3 DEF Next
<1> QED  BY <1>1, <1>2, PTL DEF Spec
-----------------------------------------------------------------------------
(* A write moves every observation one place back *)

Place(i) == IF i <= observation_index THEN observation_index - i
                                      ELSE observation_index - i + N

LEMMA BeforeIs == TypeOK => \A i \in 0..(N - 1) : Before(i) = observations[Place(i)]
BY Back DEF TypeOK, Before, Place, N

LEMMA NewestIsFirst ==
  ASSUME TypeOK
  PROVE  Before(0) = Newest
<1>1. 0 \in 0..(N - 1) /\ observation_index \in 0..(N - 1)
  BY OracleAssumption DEF TypeOK, N
<1>2. Place(0) = observation_index  BY <1>1 DEF Place
<1> QED  BY <1>1, <1>2, BeforeIs DEF Newest

Recorded(c) == [block_timestamp |-> now, sqrt_price |-> sqrt_price, cumulative |-> c]
LoggedNow == [block_timestamp |-> now, sqrt_price |-> sqrt_price,
              price_sum |-> price_sum, passed_over |-> passed_over]

LEMMA WriteLogs ==
  ASSUME LogOK, log' = Append(log, LoggedNow)
  PROVE  /\ Len(log) \in Nat /\ Len(log') = Len(log) + 1
         /\ Logged(0)' = LoggedNow
         /\ \A i \in 0..(Len(log) - 1) : Logged(i + 1)' = Logged(i)
<1> DEFINE r == LoggedNow
<1>1. log \in Seq(Records) /\ log' = Append(log, r)  BY DEF LogOK
<1> HIDE DEF r
<1>2. /\ Len(log) \in Nat /\ Len(log') = Len(log) + 1
      /\ log'[Len(log) + 1] = r
      /\ \A k \in 1..Len(log) : log'[k] = log[k]
  BY <1>1
<1>3. Logged(0)' = r
  <2>1. Len(log') - 0 = Len(log) + 1  BY <1>2
  <2> QED  BY <1>2, <2>1 DEF Logged
<1>4. ASSUME NEW i \in 0..(Len(log) - 1) PROVE Logged(i + 1)' = Logged(i)
  <2>1. Len(log') - (i + 1) = Len(log) - i /\ Len(log) - i \in 1..Len(log)
    BY <1>2, <1>4
  <2> QED  BY <1>2, <2>1 DEF Logged
<1> QED  BY <1>2, <1>3, <1>4 DEF r

LEMMA WriteShifts ==
  ASSUME TypeOK, TypeOK', NEW c, Write(NextIndex, c)
  PROVE  /\ Before(0)' = Recorded(c)
         /\ \A i \in 0..(N - 2) : Before(i + 1)' = Before(i)
<1> DEFINE next == NextIndex
           o == Recorded(c)
<1>1. /\ N \in Nat \ {0, 1}
      /\ observation_index \in 0..(N - 1)
      /\ next = IF observation_index = N - 1 THEN 0 ELSE observation_index + 1
      /\ next \in 0..(N - 1)
  BY OracleAssumption, NextIndexType DEF TypeOK, NextIndex, N
<1>2. observation_index' = next /\ observations' = [observations EXCEPT ![next] = o]
  BY DEF Write, Recorded
<1>3. DOMAIN observations = 0..(N - 1)  BY DEF TypeOK, N
<1> HIDE DEF next, o
<1>4. observations'[next] = o  BY <1>1, <1>2, <1>3
<1>5. \A i \in 0..(N - 1) : Before(i)' = observations'[Place(i)']
  <2>1. (TypeOK => \A i \in 0..(N - 1) : Before(i) = observations[Place(i)])'
    BY BeforeIs, PTL
  <2> QED  BY <2>1
<1>6. Before(0)' = o
  <2>1. 0 \in 0..(N - 1)  BY <1>1
  <2>2. Before(0)' = observations'[Place(0)']  BY <1>5, <2>1
  <2>3. Place(0)' = next  BY <1>1, <1>2 DEF Place
  <2> QED  BY <1>2, <1>4, <2>2, <2>3
<1>7. ASSUME NEW i \in 0..(N - 2) PROVE Before(i + 1)' = Before(i)
  <2>1. i \in 0..(N - 1) /\ i + 1 \in 0..(N - 1)  BY <1>1, <1>7
  <2> DEFINE k == Place(i)
  <2>2. Before(i) = observations[k]  BY <2>1, BeforeIs
  <2>3. Before(i + 1)' = observations'[Place(i + 1)']  BY <1>5, <2>1
  <2>4. k \in 0..(N - 1) /\ k # next /\ Place(i + 1)' = k
    BY <1>1, <1>2, <1>7 DEF Place
  <2> HIDE DEF k
  <2>5. observations'[k] = observations[k]  BY <1>2, <1>3, <2>4
  <2> QED  BY <1>2, <2>2, <2>3, <2>4, <2>5
<1> QED  BY <1>6, <1>7 DEF o
-----------------------------------------------------------------------------
(* The history *)

LEMMA NewestIsLogged ==
  ASSUME OracleInv, Len(log) > 0
  PROVE  /\ Kept \in 1..N /\ Kept <= Len(log)
         /\ Logged(0) \in Records
         /\ Before(0) = Newest
         /\ Newest.block_timestamp = Logged(0).block_timestamp
         /\ Newest.sqrt_price = Logged(0).sqrt_price
         /\ DeltaTime = Elapsed /\ Elapsed \in Nat /\ Since \in Int
<1>1. TypeOK /\ LogOK /\ RingKeepsNewest  BY DEF OracleInv
<1>2. Kept \in 1..N /\ Kept <= Len(log)
  BY <1>1, OracleAssumption DEF Kept, N, LogOK
<1>3. Logged(0) \in Records  BY <1>1 DEF LogOK, Logged
<1>4. Before(0) = Newest  BY <1>1, NewestIsFirst
<1>5. 0 \in 0..(Kept - 1)  BY <1>2
<1>6. /\ Newest.block_timestamp = Logged(0).block_timestamp
      /\ Newest.sqrt_price = Logged(0).sqrt_price
  BY <1>1, <1>4, <1>5 DEF RingKeepsNewest
<1>7. /\ Logged(0).block_timestamp \in Nat /\ Logged(0).price_sum \in Nat
      /\ Logged(0).block_timestamp <= now /\ now \in Nat /\ price_sum \in Nat
  BY <1>1, <1>3 DEF Records, LogOK, TypeOK
<1>8. DeltaTime = Elapsed /\ Elapsed \in Nat /\ Since \in Int
  BY <1>6, <1>7 DEF DeltaTime, Elapsed, Since
<1> QED  BY <1>2, <1>3, <1>4, <1>6, <1>8

LEMMA LogKeeps ==
  ASSUME OracleInv, [Next]_vars
  PROVE  LogOK'
<1>1. TypeOK /\ LogOK  BY DEF OracleInv
<1>2. /\ log \in Seq(Records) /\ Len(log) \in Nat
      /\ now \in 0..MaxTime /\ sqrt_price \in SqrtPrices
      /\ price_sum \in Nat /\ passed_over \in BOOLEAN
  BY <1>1 DEF TypeOK, LogOK
<1>3. ASSUME NEW index, NEW c, Write(index, c), initialized' = TRUE, UNCHANGED <<now, price_sum>>
      PROVE  LogOK'
  <2>1. log' = Append(log, LoggedNow) /\ passed_over' = FALSE
    BY <1>3 DEF Write, LoggedNow
  <2>2. LoggedNow \in Records  BY <1>2 DEF LoggedNow, Records
  <2>3. log' \in Seq(Records)  BY <1>2, <2>1, <2>2
  <2>4. Len(log') = Len(log) + 1 /\ Logged(0)' = LoggedNow
    BY <1>1, <2>1, WriteLogs
  <2>5. Logged(0)'.block_timestamp <= now'  BY <1>2, <1>3, <2>4 DEF LoggedNow
  <2>6. price_sum' \in Nat /\ passed_over' \in BOOLEAN  BY <1>2, <1>3, <2>1
  <2>7. /\ initialized' <=> Len(log') > 0
        /\ Len(log') = 0 => observation_index' = 0
    BY <1>2, <1>3, <2>4
  <2> QED  BY <2>3, <2>5, <2>6, <2>7 DEF LogOK
<1>4. ASSUME NEW p \in SqrtPrices, Swap(p) PROVE LogOK'
  <2>1. UNCHANGED <<now, price_sum>>  BY <1>4 DEF Swap
  <2>2. CASE FirstObservation  BY <1>3, <2>1, <2>2 DEF FirstObservation
  <2>3. CASE Observe
    <3>1. initialized' = TRUE  BY <1>1, <2>3 DEF Observe, TypeOK
    <3> QED  BY <1>3, <2>1, <2>3, <3>1 DEF Observe
  <2>4. CASE PassOver
    <3>1. UNCHANGED <<log, initialized, observation_index>> /\ passed_over' \in BOOLEAN
      BY <1>2, <2>4 DEF PassOver, oracleVars, Due
    <3> QED  BY <1>1, <2>1, <3>1 DEF LogOK, Logged
  <2> QED  BY <1>4, <2>2, <2>3, <2>4 DEF Swap
<1>5. CASE PassTime
  <2>1. now' = now + 1 /\ UNCHANGED <<log, initialized, observation_index, passed_over>>
    BY <1>5 DEF PassTime, oracleVars
  <2>2. price_sum' \in Nat
    <3>1. Price(sqrt_price) \in Nat  BY <1>2, PriceBounds
    <3> QED  BY <1>2, <1>5, <3>1 DEF PassTime
  <2>3. Len(log) > 0 => Logged(0).block_timestamp \in Int
    <3>1. Len(log) > 0 => Logged(0) \in Records  BY <1>2 DEF Logged
    <3>2. \A r \in Records : r.block_timestamp \in Int
      BY OracleAssumption DEF Records
    <3> QED  BY <3>1, <3>2
  <2>4. Len(log) > 0 => Logged(0).block_timestamp <= now + 1
    BY <1>1, <1>2, <2>3 DEF LogOK
  <2> QED  BY <1>1, <1>2, <2>1, <2>2, <2>4 DEF LogOK, Logged
<1>6. CASE UNCHANGED vars  BY <1>1, <1>6 DEF vars, oracleVars, LogOK, Logged
<1> QED  BY <1>4, <1>5, <1>6 DEF Next

-----------------------------------------------------------------------------
(* The ring holds the latest observations *)

Shown(i) ==
  /\ Before(i).block_timestamp = Logged(i).block_timestamp
  /\ Before(i).sqrt_price = Logged(i).sqrt_price

Readable(i) ==
  LET time == Before(i).block_timestamp - Before(i + 1).block_timestamp
  IN  /\ time >= D
      /\ Between(i) = Price(Before(i).sqrt_price) * time

Faithful(i) == ~Logged(i).passed_over => Tracks(i)

(* What the three properties say of the whole ring they say of one place,  *)
(* and of the next one.                                                    *)
LEMMA ByPlace ==
  /\ RingKeepsNewest <=> \A i \in 0..(Kept - 1) : Shown(i)
  /\ NeighboursReadable <=> \A i \in 0..(Kept - 2) : Readable(i)
  /\ CumulativeTracksPrice <=> \A i \in 0..(Kept - 2) : Faithful(i)
BY DEF RingKeepsNewest, NeighboursReadable, CumulativeTracksPrice, Shown, Readable,
       Faithful, D

(* The first observation is alone in the ring.                             *)
LEMMA FirstKeeps ==
  ASSUME OracleInv, TypeOK', FirstObservation, UNCHANGED <<now, price_sum>>
  PROVE  RingKeepsNewest' /\ NeighboursReadable' /\ CumulativeTracksPrice'
<1>1. TypeOK /\ LogOK  BY DEF OracleInv
<1>2. Len(log) = 0 /\ observation_index = 0
  BY <1>1 DEF LogOK, FirstObservation
<1>3. Write(0, 0)  BY <1>2 DEF FirstObservation
<1>4. Len(log') = 1 /\ Logged(0)' = LoggedNow
  BY <1>1, <1>2, <1>3, WriteLogs DEF Write, LoggedNow
<1>5. Kept' = 1  BY <1>4, OracleAssumption DEF Kept
<1>6. Before(0)' = Recorded(0)
  <2>1. Newest' = Recorded(0)
    <3>1. 0 \in DOMAIN observations  BY <1>1, OracleAssumption DEF TypeOK
    <3> QED  BY <1>3, <3>1 DEF Write, Recorded, Newest
  <2>2. (TypeOK => Before(0) = Newest)'  BY NewestIsFirst, PTL
  <2> QED  BY <2>1, <2>2
<1>7. Shown(0)'  BY <1>4, <1>6 DEF Shown, LoggedNow, Recorded
<1>8. /\ \A i \in 0..(Kept' - 1) : Shown(i)'
      /\ \A i \in 0..(Kept' - 2) : Readable(i)'
      /\ \A i \in 0..(Kept' - 2) : Faithful(i)'
  BY <1>5, <1>7
<1>9. /\ (RingKeepsNewest <=> \A i \in 0..(Kept - 1) : Shown(i))'
      /\ (NeighboursReadable <=> \A i \in 0..(Kept - 2) : Readable(i))'
      /\ (CumulativeTracksPrice <=> \A i \in 0..(Kept - 2) : Faithful(i))'
  BY ByPlace, PTL
<1> QED  BY <1>8, <1>9
(* What a reader makes of the new observation and the one before it: the   *)
(* price that was observed, over the time since.                           *)
LEMMA ObserveReads ==
  ASSUME OracleInv, TypeOK', Observe, UNCHANGED <<now, price_sum>>
  PROVE  /\ Before(0)' = Recorded((Newest.cumulative + DeltaPrice) % Word)
         /\ Before(1)' = Newest
         /\ Between(0)' = Price(sqrt_price) * Elapsed
         /\ Before(0)'.block_timestamp - Before(1)'.block_timestamp = Elapsed
         /\ Elapsed >= D
<1> DEFINE c == (Newest.cumulative + DeltaPrice) % Word
<1>1. TypeOK /\ LogOK /\ Len(log) > 0  BY DEF OracleInv, LogOK, Observe
<1>2. /\ Before(0) = Newest /\ DeltaTime = Elapsed /\ Elapsed \in Nat
      /\ Newest.block_timestamp = Logged(0).block_timestamp
  BY <1>1, NewestIsLogged
<1>3. Write(NextIndex, c)  BY DEF Observe
<1>4. /\ now \in Nat /\ Newest.block_timestamp \in Nat
      /\ Newest.cumulative \in 0..(Word - 1) /\ sqrt_price \in SqrtPrices
  <2>1. Newest \in Observed /\ now \in 0..MaxTime /\ sqrt_price \in SqrtPrices
    BY <1>1 DEF TypeOK, Newest, Observed
  <2>2. \A o \in Observed : o.block_timestamp \in 0..MaxTime /\ o.cumulative \in 0..(Word - 1)
    BY DEF Observed
  <2> QED  BY <2>1, <2>2, OracleAssumption
<1>5. DeltaPrice \in 0..(Word - 1) /\ DeltaPrice = Price(sqrt_price) * Elapsed
  <2>1. Price(sqrt_price) \in Nat  BY <1>4, PriceBounds
  <2>2. Price(sqrt_price) * Elapsed \in Nat  BY <1>2, <2>1
  <2>3. DeltaPrice < Word  BY DEF Observe
  <2> QED  BY <1>2, <2>2, <2>3, OracleAssumption DEF DeltaPrice
<1>6. Before(0)' = Recorded(c) /\ \A i \in 0..(N - 2) : Before(i + 1)' = Before(i)
  <2> HIDE DEF c
  <2> QED  BY <1>1, <1>3, WriteShifts
<1>7. Before(1)' = Newest
  <2>1. 0 \in 0..(N - 2) /\ 0 + 1 = 1  BY OracleAssumption DEF N
  <2>2. Before(0 + 1)' = Before(0)  BY <1>6, <2>1
  <2> QED  BY <1>2, <2>1, <2>2
<1>8. (c - Newest.cumulative) % Word = DeltaPrice  BY <1>4, <1>5, WrapsBack
<1> HIDE DEF c
<1>9. Before(0)'.cumulative = c /\ Before(0)'.block_timestamp = now
  BY <1>6 DEF Recorded
<1>10. Between(0)' = DeltaPrice
  <2>1. Between(0)' = (Before(0)'.cumulative - Before(0 + 1)'.cumulative) % Word
    BY DEF Between
  <2>2. Before(0 + 1)' = Before(1)'  OBVIOUS
  <2> QED  BY <1>7, <1>8, <1>9, <2>1, <2>2
<1>11. now - Newest.block_timestamp = Elapsed  BY <1>2 DEF DeltaTime
<1>12. Elapsed >= D  BY <1>2 DEF Observe, Due, D
<1> QED  BY <1>5, <1>6, <1>7, <1>9, <1>10, <1>11, <1>12 DEF c

LEMMA OnePlaceBack ==
  ASSUME NEW kept \in 1..N, NEW later \in 1..N, NEW logged \in Nat,
         later <= kept + 1, kept <= logged, NEW i \in 0..(later - 1), i # 0
  PROVE  /\ i - 1 \in 0..(N - 2) /\ i - 1 \in 0..(logged - 1)
         /\ i - 1 \in 0..(kept - 1) /\ (i - 1) + 1 = i
         /\ i <= later - 2 => /\ i - 1 \in 0..(kept - 2)
                              /\ i \in 0..(N - 2) /\ i \in 0..(logged - 1)
BY OracleAssumption DEF N

(* Every other observation goes one place back, with its neighbour.        *)
LEMMA ObserveKeeps ==
  ASSUME OracleInv, TypeOK', Observe, UNCHANGED <<now, price_sum>>
  PROVE  RingKeepsNewest' /\ NeighboursReadable' /\ CumulativeTracksPrice'
<1> DEFINE c == (Newest.cumulative + DeltaPrice) % Word
<1>1. TypeOK /\ LogOK /\ Len(log) > 0 /\ DriftBounded
  BY DEF OracleInv, LogOK, Observe
<1>2. Write(NextIndex, c)  BY DEF Observe
<1>3. Before(0)' = Recorded(c) /\ \A i \in 0..(N - 2) : Before(i + 1)' = Before(i)
  <2> HIDE DEF c
  <2> QED  BY <1>1, <1>2, WriteShifts
<1>4. /\ Len(log) \in Nat /\ Len(log') = Len(log) + 1 /\ Logged(0)' = LoggedNow
      /\ \A i \in 0..(Len(log) - 1) : Logged(i + 1)' = Logged(i)
  BY <1>1, <1>2, WriteLogs DEF Write, LoggedNow
<1> HIDE DEF c
<1>5. /\ Kept' \in 1..N /\ Kept \in 1..N /\ Kept' <= Kept + 1 /\ Kept <= Len(log)
      /\ N \in Nat \ {0, 1} /\ Len(log) \in Nat
  BY <1>1, <1>4, OracleAssumption DEF Kept, N
<1>6. /\ \A i \in 0..(Kept - 1) : Shown(i)
      /\ \A i \in 0..(Kept - 2) : Readable(i)
      /\ \A i \in 0..(Kept - 2) : Faithful(i)
  BY ByPlace DEF OracleInv
<1>7. Shown(0)'  BY <1>3, <1>4 DEF Shown, Recorded, LoggedNow
<1>8. Readable(0)'
  <2>1. /\ Between(0)' = Price(Before(0)'.sqrt_price) * Elapsed
        /\ Before(0)'.block_timestamp - Before(1)'.block_timestamp = Elapsed
        /\ Elapsed >= D
    BY <1>1, <1>3, ObserveReads DEF Recorded
  <2>2. Before(0 + 1)' = Before(1)'  OBVIOUS
  <2>3. \A p : Price(p)' = Price(p)  BY DEF Price
  <2> QED  BY <2>1, <2>2, <2>3 DEF Readable, Price, D
<1>9. Faithful(0)'
  <2> SUFFICES ASSUME ~Logged(0)'.passed_over PROVE Tracks(0)'  BY DEF Faithful
  <2>1. ~passed_over  BY <1>4 DEF LoggedNow
  <2>2. Within(Off(sqrt_price), (D - 1) * Spread)
    BY <1>1, <2>1 DEF DriftBounded
  <2>3. Between(0)' = Price(sqrt_price) * Elapsed  BY <1>1, ObserveReads
  <2>4. Logged(0)'.price_sum = price_sum /\ Logged(0 + 1)' = Logged(0)
    <3>1. 0 \in 0..(Len(log) - 1)  BY <1>1, <1>4
    <3> QED  BY <1>4, <3>1 DEF LoggedNow
  <2>5. Price(sqrt_price) * Elapsed \in Int /\ Since \in Int
        /\ (D - 1) * Spread \in Nat
    <3>1. Price(sqrt_price) \in Nat  BY <1>1, PriceBounds DEF TypeOK
    <3>2. Elapsed \in Nat /\ Since \in Int  BY <1>1, NewestIsLogged
    <3>3. D - 1 \in Nat /\ Spread \in Nat  BY SpreadBounds, OracleAssumption DEF D
    <3> QED  BY <3>1, <3>2, <3>3
  <2>6. Between(0)' - (Logged(0)'.price_sum - Logged(0 + 1)'.price_sum)
          = Price(sqrt_price) * Elapsed - Since
    BY <2>3, <2>4 DEF Since
  <2>7. Within(Between(0)' - (Logged(0)'.price_sum - Logged(0 + 1)'.price_sum),
               (D - 1) * Spread)
    BY <2>2, <2>5, <2>6 DEF Within, Off
  <2>8. Tracks(0)' = Within(Between(0)' - (Logged(0)'.price_sum - Logged(0 + 1)'.price_sum),
                            (D - 1) * Spread)
    BY DEF Tracks, Within, D, Spread, Price
  <2> QED  BY <2>7, <2>8
<1>10. ASSUME NEW i \in 0..(Kept' - 1) PROVE Shown(i)'
  <2>1. CASE i = 0  BY <1>7, <2>1
  <2>2. CASE i # 0
    <3>1. /\ i - 1 \in 0..(N - 2) /\ i - 1 \in 0..(Len(log) - 1)
          /\ i - 1 \in 0..(Kept - 1) /\ (i - 1) + 1 = i
      BY <1>5, <2>2, OnePlaceBack
    <3>2. Before(i)' = Before(i - 1) /\ Logged(i)' = Logged(i - 1)
      BY <1>3, <1>4, <3>1
    <3> QED  BY <1>6, <3>1, <3>2 DEF Shown
  <2> QED  BY <2>1, <2>2
<1>11. ASSUME NEW i \in 0..(Kept' - 2) PROVE Readable(i)' /\ Faithful(i)'
  <2>1. CASE i = 0  BY <1>8, <1>9, <2>1
  <2>2. CASE i # 0
    <3>1. /\ i - 1 \in 0..(N - 2) /\ i - 1 \in 0..(Len(log) - 1)
          /\ i - 1 \in 0..(Kept - 2) /\ (i - 1) + 1 = i
          /\ i \in 0..(N - 2) /\ i \in 0..(Len(log) - 1)
      <4>1. Kept' \in Int  BY <1>5
      <4>2. \A later \in Int : \A j \in 0..(later - 2) : j \in 0..(later - 1) /\ j <= later - 2
        OBVIOUS
      <4>3. i \in 0..(Kept' - 1) /\ i <= Kept' - 2  BY <4>1, <4>2
      <4> QED  BY <1>5, <2>2, <4>3, OnePlaceBack
    <3>2. /\ Before(i)' = Before(i - 1) /\ Before(i + 1)' = Before(i - 1 + 1)
          /\ Logged(i)' = Logged(i - 1) /\ Logged(i + 1)' = Logged(i - 1 + 1)
      BY <1>3, <1>4, <3>1
    <3>3. Readable(i - 1) /\ Faithful(i - 1)  BY <1>6, <3>1
    <3>4. Between(i)' = Between(i - 1)  BY <3>2 DEF Between
    <3>5. Readable(i)'  BY <3>2, <3>3, <3>4 DEF Readable, Price, D
    <3>6. Faithful(i)'  BY <3>2, <3>3, <3>4 DEF Faithful, Tracks, Spread, Price
    <3> QED  BY <3>5, <3>6
  <2> QED  BY <2>1, <2>2
<1>12. /\ (RingKeepsNewest <=> \A i \in 0..(Kept - 1) : Shown(i))'
       /\ (NeighboursReadable <=> \A i \in 0..(Kept - 2) : Readable(i))'
       /\ (CumulativeTracksPrice <=> \A i \in 0..(Kept - 2) : Faithful(i))'
  BY ByPlace, PTL
<1> QED  BY <1>10, <1>11, <1>12
-----------------------------------------------------------------------------
(* The error of the newest observation *)

(* A second at the price p brings every other price q at most a spread     *)
(* further off.                                                            *)
LEMMA SecondDrifts ==
  ASSUME NEW since \in Int, NEW elapsed \in Nat, NEW spread \in Nat,
         NEW p \in Nat, NEW q \in Nat, p - q <= spread, q - p <= spread,
         Within(since - q * elapsed, elapsed * spread),
         NEW after, after = since + p, NEW later, later = elapsed + 1
  PROVE  Within(after - q * later, later * spread)
<1>1. /\ q * later = q * elapsed + q /\ q * elapsed \in Nat
      /\ later * spread = elapsed * spread + spread /\ elapsed * spread \in Nat
  OBVIOUS
<1> QED  BY <1>1 DEF Within

(* The bounds are made of constants.                                       *)
LEMMA DriftAfter ==
  ASSUME \A p \in SqrtPrices : Within(Off(p)', Elapsed' * Spread),
         ~passed_over' => Within(Off(sqrt_price)', (D - 1) * Spread)
  PROVE  DriftBounded'
<1>1. Spread' = Spread  BY DEF Spread, Price
<1>2. D' = D  BY DEF D
<1>3. \A e, b : Within(e, b)' = Within(e, b)  BY DEF Within
<1>4. \A p \in SqrtPrices : Within(Off(p), Elapsed * Spread)'
  BY <1>1 DEF Within
<1>5. ~passed_over' => Within(Off(sqrt_price), (D - 1) * Spread)'
  BY <1>1, <1>2 DEF Within
<1> QED  BY <1>4, <1>5 DEF DriftBounded

LEMMA DriftKeeps ==
  ASSUME OracleInv, LogOK', [Next]_vars
  PROVE  DriftBounded'
<1>1. TypeOK /\ LogOK /\ DriftBounded  BY DEF OracleInv
<1>2. /\ now \in Nat /\ sqrt_price \in SqrtPrices /\ price_sum \in Nat
      /\ passed_over \in BOOLEAN /\ log \in Seq(Records) /\ Len(log) \in Nat
  BY <1>1, OracleAssumption DEF TypeOK, LogOK
<1>3. \A p \in SqrtPrices : Price(p) \in Nat  BY PriceBounds
<1>4. /\ Spread \in Nat /\ D - 1 \in Nat /\ (D - 1) * Spread \in Nat /\ D \in Nat
      /\ \A p, q \in SqrtPrices : Price(p) - Price(q) <= Spread
  <2>1. Spread \in Nat /\ D - 1 \in Nat /\ D \in Nat
    BY SpreadBounds, OracleAssumption DEF D
  <2>2. (D - 1) * Spread \in Nat  BY <2>1
  <2> QED  BY <2>1, <2>2, SpreadBounds
<1>5. ASSUME NEW index, NEW c, Write(index, c), sqrt_price' \in SqrtPrices,
             UNCHANGED <<now, price_sum>>
      PROVE  DriftBounded'
  <2>1. Logged(0)' = LoggedNow
    BY <1>1, <1>5, WriteLogs DEF Write, LoggedNow
  <2>2. Elapsed' = 0 /\ Since' = 0
    BY <1>2, <1>5, <2>1 DEF Elapsed, Since, LoggedNow
  <2>3. \A p \in SqrtPrices : Off(p)' = 0
    <3>1. \A p \in SqrtPrices : Off(p)' = 0 - Price(p) * 0  BY <2>2 DEF Off, Price
    <3> QED  BY <1>3, <3>1
  <2>4. Elapsed' * Spread = 0  BY <1>4, <2>2
  <2>5. Within(0, 0) /\ Within(0, (D - 1) * Spread)  BY <1>4 DEF Within
  <2>6. \A p \in SqrtPrices : Within(Off(p)', Elapsed' * Spread)
    BY <2>3, <2>4, <2>5
  <2>7. Within(Off(sqrt_price)', (D - 1) * Spread)
    <3>1. Off(sqrt_price)' = Since' - Price(sqrt_price') * Elapsed'  BY DEF Off, Price
    <3>2. Off(sqrt_price)' = 0  BY <1>3, <1>5, <2>2, <3>1
    <3> QED  BY <2>5, <3>2
  <2> QED  BY <2>6, <2>7, DriftAfter
<1>6. ASSUME NEW p \in SqrtPrices, Swap(p), PassOver PROVE DriftBounded'
  <2> SUFFICES ASSUME Len(log') > 0 PROVE DriftBounded'  BY DEF DriftBounded
  <2>1. UNCHANGED <<now, price_sum, log>> /\ sqrt_price' = p
        /\ passed_over' = (passed_over \/ Due)
    BY <1>6 DEF Swap, PassOver
  <2>2. Len(log) > 0  BY <2>1
  <2>3. Elapsed' = Elapsed /\ Since' = Since /\ \A q \in SqrtPrices : Off(q)' = Off(q)
    BY <2>1 DEF Elapsed, Since, Off, Logged, Price
  <2>4. DeltaTime = Elapsed /\ Elapsed \in Nat /\ Since \in Int  BY <2>2, NewestIsLogged
  <2>5. \A q \in SqrtPrices : Within(Off(q), Elapsed * Spread)
    BY <1>1, <2>2 DEF DriftBounded
  <2>6. ASSUME ~passed_over' PROVE Within(Off(p), (D - 1) * Spread)
    <3>1. ~Due  BY <2>1, <2>6
    <3>2. Elapsed <= D - 1  BY <1>4, <2>4, <3>1 DEF Due, D
    <3>3. Elapsed * Spread <= (D - 1) * Spread /\ Elapsed * Spread \in Nat
      BY <1>4, <2>4, <3>2
    <3>4. Off(p) \in Int
      <4>1. Price(p) * Elapsed \in Int  BY <1>3, <2>4
      <4> QED  BY <2>4, <4>1 DEF Off
    <3> HIDE DEF D
    <3> QED  BY <1>4, <2>5, <3>3, <3>4 DEF Within
  <2>7. Off(sqrt_price)' = Off(p)  BY <2>1, <2>3 DEF Off, Price
  <2>8. ~passed_over' => Within(Off(sqrt_price)', (D - 1) * Spread)  BY <2>6, <2>7
  <2>9. \A q \in SqrtPrices : Within(Off(q)', Elapsed' * Spread)  BY <2>3, <2>5
  <2> QED  BY <2>8, <2>9, DriftAfter
<1>7. CASE PassTime
  <2> SUFFICES ASSUME Len(log') > 0 PROVE DriftBounded'  BY DEF DriftBounded
  <2>1. /\ now' = now + 1 /\ price_sum' = price_sum + Price(sqrt_price)
        /\ UNCHANGED <<sqrt_price, log, passed_over>>
    BY <1>7 DEF PassTime
  <2>2. Len(log) > 0  BY <2>1
  <2>3. Elapsed \in Nat /\ Since \in Int /\ Logged(0) \in Records
    BY <2>2, NewestIsLogged
  <2>4. Logged(0).block_timestamp \in Int /\ Logged(0).price_sum \in Int
    BY <2>3, OracleAssumption DEF Records
  <2>5. Elapsed' = Elapsed + 1 /\ Since' = Since + Price(sqrt_price)
    <3>1. Logged(0)' = Logged(0)  BY <2>1 DEF Logged
    <3>2. Price(sqrt_price) \in Int  BY <1>2, <1>3
    <3>3. Elapsed' = now' - Logged(0)'.block_timestamp  BY DEF Elapsed
    <3>4. Since' = price_sum' - Logged(0)'.price_sum  BY DEF Since
    <3>5. Elapsed' = Elapsed + 1  BY <1>2, <2>1, <2>4, <3>1, <3>3 DEF Elapsed
    <3>6. Since' = Since + Price(sqrt_price)
      <4> DEFINE x == Price(sqrt_price)
      <4>1. x \in Int /\ price_sum' = price_sum + x  BY <2>1, <3>2
      <4> HIDE DEF x
      <4>2. Since' = (price_sum + x) - Logged(0).price_sum  BY <3>1, <3>4, <4>1
      <4>3. Since' = Since + x  BY <1>2, <2>4, <4>1, <4>2 DEF Since
      <4> QED  BY <4>3 DEF x
    <3> QED  BY <3>5, <3>6
  <2>6. ASSUME NEW q \in SqrtPrices PROVE Within(Off(q)', Elapsed' * Spread)
    <3>1. Within(Since - Price(q) * Elapsed, Elapsed * Spread)
      BY <1>1, <2>2 DEF DriftBounded, Off
    <3>2. /\ Price(sqrt_price) - Price(q) <= Spread
          /\ Price(q) - Price(sqrt_price) <= Spread
      BY <1>2, <1>4
    <3>3. Within(Since' - Price(q) * Elapsed', Elapsed' * Spread)
      BY <1>2, <1>3, <1>4, <2>3, <2>5, <3>1, <3>2, SecondDrifts
    <3>4. Off(q)' = Since' - Price(q) * Elapsed'  BY DEF Off, Price
    <3> QED  BY <3>3, <3>4
  <2>7. Off(sqrt_price)' = Off(sqrt_price)
    <3>1. Off(sqrt_price)' = Since' - Price(sqrt_price) * Elapsed'
      BY <2>1 DEF Off, Price
    <3> DEFINE x == Price(sqrt_price)
    <3>2. x \in Nat  BY <1>2, <1>3
    <3>3. Off(sqrt_price)' = (Since + x) - x * (Elapsed + 1)
      BY <2>5, <3>1
    <3> HIDE DEF x
    <3>4. x * (Elapsed + 1) = x * Elapsed + x /\ x * Elapsed \in Int  BY <2>3, <3>2
    <3>5. Off(sqrt_price)' = Since - x * Elapsed  BY <2>3, <3>2, <3>3, <3>4
    <3> QED  BY <3>5 DEF Off, x
  <2>8. ~passed_over => Within(Off(sqrt_price), (D - 1) * Spread)
    BY <1>1, <2>2 DEF DriftBounded
  <2>9. ~passed_over' => Within(Off(sqrt_price)', (D - 1) * Spread)
    BY <2>1, <2>7, <2>8
  <2> QED  BY <2>6, <2>9, DriftAfter
<1>8. CASE UNCHANGED vars
  <2> SUFFICES ASSUME Len(log') > 0 PROVE DriftBounded'  BY DEF DriftBounded
  <2>1. UNCHANGED <<now, sqrt_price, price_sum, passed_over, log>>  BY <1>8 DEF vars
  <2>2. Elapsed' = Elapsed /\ Since' = Since /\ \A q : Off(q)' = Off(q)
    BY <2>1 DEF Elapsed, Since, Off, Logged, Price
  <2>3. Off(sqrt_price)' = Off(sqrt_price)  BY <2>1, <2>2 DEF Off, Price
  <2>4. /\ \A q \in SqrtPrices : Within(Off(q), Elapsed * Spread)
        /\ ~passed_over => Within(Off(sqrt_price), (D - 1) * Spread)
    BY <1>1, <2>1 DEF DriftBounded
  <2>5. \A q \in SqrtPrices : Within(Off(q)', Elapsed' * Spread)  BY <2>2, <2>4
  <2>6. ~passed_over' => Within(Off(sqrt_price)', (D - 1) * Spread)
    BY <2>1, <2>3, <2>4
  <2> QED  BY <2>5, <2>6, DriftAfter
<1>9. ASSUME NEW p \in SqrtPrices, Swap(p) PROVE DriftBounded'
  <2>1. UNCHANGED <<now, price_sum>> /\ sqrt_price' \in SqrtPrices  BY <1>9 DEF Swap
  <2>2. CASE FirstObservation  BY <1>5, <2>1, <2>2 DEF FirstObservation
  <2>3. CASE Observe  BY <1>5, <2>1, <2>3 DEF Observe
  <2>4. CASE PassOver  BY <1>6, <1>9, <2>4
  <2> QED  BY <1>9, <2>2, <2>3, <2>4 DEF Swap
<1> QED  BY <1>7, <1>8, <1>9 DEF Next

-----------------------------------------------------------------------------
(* The theorems *)

LEMMA RingUnchanged ==
  ASSUME OracleInv, UNCHANGED <<oracleVars, log>>
  PROVE  RingKeepsNewest' /\ NeighboursReadable' /\ CumulativeTracksPrice'
<1>1. Kept' = Kept  BY DEF Kept
<1>2. \A i : Before(i)' = Before(i) /\ Before(i + 1)' = Before(i + 1)
             /\ Logged(i)' = Logged(i) /\ Logged(i + 1)' = Logged(i + 1)
  BY DEF Before, Logged, oracleVars
<1>3. \A i : Shown(i)' = Shown(i)  BY <1>2 DEF Shown
<1>4. \A i : Between(i)' = Between(i)  BY <1>2 DEF Between
<1>5. \A i : Readable(i)' = Readable(i)  BY <1>2, <1>4 DEF Readable, Price, D
<1>6. \A i : Faithful(i)' = Faithful(i)
  BY <1>2, <1>4 DEF Faithful, Tracks, Spread, Price
<1>7. /\ (RingKeepsNewest <=> \A i \in 0..(Kept - 1) : Shown(i))'
      /\ (NeighboursReadable <=> \A i \in 0..(Kept - 2) : Readable(i))'
      /\ (CumulativeTracksPrice <=> \A i \in 0..(Kept - 2) : Faithful(i))'
  BY ByPlace, PTL
<1>8. /\ \A i \in 0..(Kept - 1) : Shown(i)
      /\ \A i \in 0..(Kept - 2) : Readable(i)
      /\ \A i \in 0..(Kept - 2) : Faithful(i)
  BY ByPlace DEF OracleInv
<1> QED  BY <1>1, <1>3, <1>5, <1>6, <1>7, <1>8

LEMMA OracleInvariant == Spec => []OracleInv
<1>1. Init => OracleInv
  <2> SUFFICES ASSUME Init PROVE OracleInv  OBVIOUS
  <2>1. TypeOK  BY OracleAssumption DEF Init, TypeOK
  <2>2. log = <<>> /\ Len(log) = 0  BY DEF Init
  <2>3. LogOK
    <3>1. log \in Seq(Records)  BY DEF Init
    <3>2. /\ price_sum \in Nat /\ passed_over \in BOOLEAN
          /\ initialized = FALSE /\ observation_index = 0
      BY DEF Init
    <3> QED  BY <2>2, <3>1, <3>2 DEF LogOK
  <2>4. Kept = 0  BY <2>2, OracleAssumption DEF Kept
  <2>5. RingKeepsNewest /\ NeighboursReadable /\ CumulativeTracksPrice
    BY <2>4, ByPlace
  <2>6. DriftBounded  BY <2>2 DEF DriftBounded
  <2> QED  BY <2>1, <2>3, <2>5, <2>6 DEF OracleInv
<1>2. OracleInv /\ TypeOK' /\ [Next]_vars => OracleInv'
  <2> SUFFICES ASSUME OracleInv, TypeOK', [Next]_vars PROVE OracleInv'  OBVIOUS
  <2>1. LogOK'  BY LogKeeps
  <2>2. DriftBounded'  BY <2>1, DriftKeeps
  <2>3. ASSUME NEW p \in SqrtPrices, Swap(p)
        PROVE  RingKeepsNewest' /\ NeighboursReadable' /\ CumulativeTracksPrice'
    <3>1. UNCHANGED <<now, price_sum>>  BY <2>3 DEF Swap
    <3>2. CASE FirstObservation  BY <3>1, <3>2, FirstKeeps
    <3>3. CASE Observe  BY <3>1, <3>3, ObserveKeeps
    <3>4. CASE PassOver  BY <3>4, RingUnchanged DEF PassOver
    <3> QED  BY <2>3, <3>2, <3>3, <3>4 DEF Swap
  <2>4. PassTime \/ UNCHANGED vars => UNCHANGED <<oracleVars, log>>
    BY DEF PassTime, vars
  <2>5. PassTime \/ UNCHANGED vars
          => RingKeepsNewest' /\ NeighboursReadable' /\ CumulativeTracksPrice'
    BY <2>4, RingUnchanged
  <2>6. RingKeepsNewest' /\ NeighboursReadable' /\ CumulativeTracksPrice'
    BY <2>3, <2>5 DEF Next
  <2> QED  BY <2>1, <2>2, <2>6 DEF OracleInv
<1> QED  BY <1>1, <1>2, OracleTyped, PTL DEF Spec

(* Around the end of the array as elsewhere, the ring holds the latest     *)
(* observations and no other, so that no reader finds an old one for new.  *)
THEOREM RingAlwaysNewest == Spec => []RingKeepsNewest
<1>1. OracleInv => RingKeepsNewest  BY DEF OracleInv
<1> QED  BY <1>1, OracleInvariant, PTL

(* The differences that a reader takes are right for every width of the    *)
(* cumulated price, although it wraps.                                     *)
THEOREM NeighboursAlwaysReadable == Spec => []NeighboursReadable
<1>1. OracleInv => NeighboursReadable  BY DEF OracleInv
<1> QED  BY <1>1, OracleInvariant, PTL

(* For every update duration, what the swaps between two observations can  *)
(* make a reader miss is less than that duration at the spread of prices.  *)
THEOREM CumulativeAlwaysTracks == Spec => []CumulativeTracksPrice
<1>1. OracleInv => CumulativeTracksPrice  BY DEF OracleInv
<1> QED  BY <1>1, OracleInvariant, PTL
================================================================================
