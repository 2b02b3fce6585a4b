--------------------------------- MODULE Oracle ---------------------------------
(***************************************************************************)
(* The price oracle: a ring of observations that swaps write.  A swap      *)
(* observes the price that it finds, not the one that it leaves, and       *)
(* cumulates it over the time since the newest observation; a reader       *)
(* divides the difference of two cumulated prices by the time between.     *)
(*                                                                         *)
(* The pool is its price here.  What a swap may do to it is the subject of *)
(* TickLiquidity.                                                          *)
(***************************************************************************)
EXTENDS Integers, Sequences

CONSTANTS
  OBSERVATION_NUM,
  OBSERVATION_UPDATE_DURATION_DEFAULT,
  MAX_SQRT_PRICE_X64,
  SqrtPrices,   \* the prices of the pool, as square roots
  Q64,          \* the unit of prices
  Word,         \* the number of values of a cumulated price
  MaxTime       \* the bound of the model: where its clock stops

ASSUME OracleAssumption ==
  /\ OBSERVATION_NUM \in Nat \ {0, 1}
  /\ OBSERVATION_UPDATE_DURATION_DEFAULT \in Nat \ {0}
  /\ MAX_SQRT_PRICE_X64 \in Nat
  /\ SqrtPrices \subseteq 1..MAX_SQRT_PRICE_X64 /\ SqrtPrices # {}
  /\ Q64 \in Nat \ {0} /\ Word \in Nat \ {0}
  /\ MaxTime \in Nat

VARIABLES
  now,                \* Clock::unix_timestamp
  sqrt_price,         \* PoolState.sqrt_price_x64
  observation_index,  \* PoolState.observation_index
  initialized,        \* ObservationState.initialized
  observations,       \* ObservationState.observations
  price_sum,          \* history: the pool's price, summed over all seconds
  passed_over,        \* history: a swap was not observed although it was time
  log                 \* history: every observation, with price_sum and passed_over

oracleVars == <<observation_index, initialized, observations>>
vars == <<now, sqrt_price, oracleVars, price_sum, passed_over, log>>

Price(p) == (p * p) \div Q64

-----------------------------------------------------------------------------
(* update_check *)

Newest == observations[observation_index]
DeltaTime == now - Newest.block_timestamp
Due == DeltaTime >= OBSERVATION_UPDATE_DURATION_DEFAULT

NextIndex_TurnsLate ==
  IF observation_index = OBSERVATION_NUM THEN 0 ELSE observation_index + 1
NextIndex_TurnsEarly ==
  IF observation_index = OBSERVATION_NUM - 2 THEN 0 ELSE observation_index + 1
NextIndex ==
  IF observation_index = OBSERVATION_NUM - 1 THEN 0 ELSE observation_index + 1

DeltaPrice_OfNewest == Price(Newest.sqrt_price) * DeltaTime
DeltaPrice == Price(sqrt_price) * DeltaTime

Write(index, cumulative) ==
  /\ observation_index' = index
  /\ observations' = [observations EXCEPT ![index] =
       [block_timestamp |-> now, sqrt_price |-> sqrt_price, cumulative |-> cumulative]]
  /\ log' = Append(log, [block_timestamp |-> now, sqrt_price |-> sqrt_price,
                         price_sum |-> price_sum, passed_over |-> passed_over])
  /\ passed_over' = FALSE

FirstObservation ==
  /\ ~initialized
  /\ initialized' = TRUE
  /\ Write(observation_index, 0)

(* A product that does not fit makes the swap fail; the sum wraps.         *)
Observe ==
  /\ initialized
  /\ Due /\ sqrt_price # Newest.sqrt_price
  /\ DeltaPrice < Word
  /\ Write(NextIndex, (Newest.cumulative + DeltaPrice) % Word)
  /\ UNCHANGED initialized

PassOver ==
  /\ initialized
  /\ ~Due \/ sqrt_price = Newest.sqrt_price
  /\ passed_over' = (passed_over \/ Due)
  /\ UNCHANGED <<oracleVars, log>>

(* The end of swap_internal.                                               *)
Swap(p) ==
  /\ FirstObservation \/ Observe \/ PassOver
  /\ sqrt_price' = p
  /\ UNCHANGED <<now, price_sum>>

PassTime ==
  /\ now < MaxTime
  /\ now' = now + 1
  /\ price_sum' = price_sum + Price(sqrt_price)
  /\ UNCHANGED <<sqrt_price, oracleVars, passed_over, log>>

Init ==
  /\ now = 0
  /\ sqrt_price \in SqrtPrices
  /\ observation_index = 0
  /\ initialized = FALSE
  /\ observations = [i \in 0..(OBSERVATION_NUM - 1) |->
                       [block_timestamp |-> 0, sqrt_price |-> 0, cumulative |-> 0]]
  /\ price_sum = 0
  /\ passed_over = FALSE
  /\ log = <<>>

Next ==
  \/ \E p \in SqrtPrices : Swap(p)
  \/ PassTime

Spec == Init /\ [][Next]_vars

-----------------------------------------------------------------------------
(* Properties *)

TypeOK ==
  /\ now \in 0..MaxTime
  /\ sqrt_price \in SqrtPrices
  /\ observation_index \in 0..(OBSERVATION_NUM - 1)
  /\ initialized \in BOOLEAN
  /\ observations \in [0..(OBSERVATION_NUM - 1) ->
       [block_timestamp : 0..MaxTime, sqrt_price : SqrtPrices \cup {0},
        cumulative : 0..(Word - 1)]]

(* The i-th observation before the newest, as a reader finds it, and its   *)
(* record in the history.                                                  *)
Kept == IF Len(log) < OBSERVATION_NUM THEN Len(log) ELSE OBSERVATION_NUM
Before(i) ==
  observations[(observation_index - i + OBSERVATION_NUM) % OBSERVATION_NUM]
Logged(i) == log[Len(log) - i]

(* Read backwards from the pool's index, around the end of the array, the  *)
(* ring holds the latest observations and no other, oldest last.           *)
RingKeepsNewest ==
  \A i \in 0..(Kept - 1) :
    /\ Before(i).block_timestamp = Logged(i).block_timestamp
    /\ Before(i).sqrt_price = Logged(i).sqrt_price

(* What a reader makes of two neighbours: the cumulated prices, although   *)
(* they wrap, differ by the later price times the time between.            *)
Between(i) == (Before(i).cumulative - Before(i + 1).cumulative) % Word
NeighboursReadable ==
  \A i \in 0..(Kept - 2) :
    LET time == Before(i).block_timestamp - Before(i + 1).block_timestamp
    IN  /\ time >= OBSERVATION_UPDATE_DURATION_DEFAULT
        /\ Between(i) = Price(Before(i).sqrt_price) * time

(* Swaps that come before an observation is due are not observed: that     *)
(* may give the wrong price for less than the update duration.             *)
Spread == CHOOSE d \in {Price(p) - Price(q) : p, q \in SqrtPrices} :
            \A p, q \in SqrtPrices : Price(p) - Price(q) <= d
Tracks(i) ==
  LET error == Between(i) - (Logged(i).price_sum - Logged(i + 1).price_sum)
      bound == (OBSERVATION_UPDATE_DURATION_DEFAULT - 1) * Spread
  IN  -bound <= error /\ error <= bound

(* Between two observations the cumulated price grows by the price that    *)
(* the pool had, but for that error, unless a swap that was due was passed *)
(* over because it found the price of the newest observation.              *)
CumulativeTracksPrice == \A i \in 0..(Kept - 2) : ~Logged(i).passed_over => Tracks(i)
================================================================================
