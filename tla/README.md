# A TLA+ model of the concentrated liquidity program and its client

The program (`programs/clamm`) is an on-chain automated market maker.  A *pool* trades two tokens
at a price that moves over a range divided into *ticks*.  Providers put
liquidity between two ticks of their choice; a swap consumes the liquidity that
is active at the current tick, crosses ticks as the price moves, and pays fees
(and, over time, rewards) to the providers in whose range it traded.  A command
line client (`client`) reads the accounts of a pool over the network, computes
what a transaction should do, and sends it.

The modules here model that state and its handlers, TLC checks them on small
pools, and TLAPS proves the central results for every pool.

## 1. The system

| Part | State | Operations | Source (under `programs/clamm/src/`, `client/src/`) |
| --- | --- | --- | --- |
| Pool | price, current tick, active liquidity, array bitmap, fee growths and totals, rewards, status | create, swap, open/increase/decrease/close position, admin instructions | `states/pool.rs`, `instructions/*` |
| Tick arrays | ticks (gross and net liquidity, growths outside), number of initialized ticks | update, cross, clear, search | `states/tick_array.rs` |
| Array bitmap | one bit per tick array, in the pool and in an extension account | flip, next set bit | `libraries/tick_array_bit_map.rs`, `states/tickarray_bitmap_extension.rs` |
| Protocol position | liquidity and fees of all positions of one range | update | `states/protocol_position.rs` |
| Personal position | liquidity, last growths, fees and rewards owed of one NFT | update, collect | `states/personal_position.rs` |
| Arithmetic | none | swap step, amounts, next price, `mul_div` | `libraries/*_math.rs` |
| Oracle | ring of price observations | update by swaps | `states/oracle.rs` |
| Rewards | three emissions per pool | initialize, set, update, collect, reclaim | `states/pool.rs`, `instructions/*reward*` |
| Vaults | two token accounts, the liquidity, fees and shares booked against them | every instruction that moves tokens; withheld transfer fees | `util/token.rs`, `instructions/*` |
| Pool status | one bit per kind of instruction | set by the admin, by checks of swaps and withdrawals | `instructions/admin/update_pool_status.rs`, `instructions/decrease_liquidity.rs`, `instructions/swap*.rs` |
| Router | none of its own | swaps through a chain of pools | `instructions/swap_router_base_in.rs` |
| Admin | fee config, operation account, pool status, protocol and fund fees | create, update, collect | `instructions/admin/*` |
| Client, liquidity | what it has read so far; transactions on their way | open, increase, decrease (and close) | `main.rs`, `instructions/utils.rs`, `instructions/amm_instructions.rs` |
| Client, swaps | the same | `Swap`, `SwapV2` | the same |

How they interact: a liquidity instruction updates two ticks, the protocol
position, the personal position, the pool's active liquidity, the counts of up
to two tick arrays and up to two bits of the bitmap.  A swap works on a local
copy of the pool's price, tick, liquidity and growth (`SwapState`), walks from
initialized tick to initialized tick, writes every tick it crosses, and stores
the copy at the end.  Nothing ties these pieces together but the handlers: the
pool's liquidity is never recomputed from the positions.

The client asks for accounts in several requests, one after the other, walks the
fetched copies with a second rendering of the program's code, and sends one
transaction with limits.  Whatever it read may be out of date when the
transaction lands; the limits are what protects its user.

What is hard here.  On the chain there is no concurrency inside an instruction
and none sees another's intermediate state: the runtime is serial and an error
undoes everything.  There the difficulty lies in long sequences of legal calls
that must keep redundant state in step: incremental liquidity against the
positions, counts and bits against the ticks, growth differences that wrap,
roundings that add up, ticks exactly on a price, words at their limit, vaults
against everyone's claims on them.  Between client and chain it lies in
interleaving: others trade, deposit and withdraw between two requests and before
the transaction lands, epochs change a mint's transfer fee, transactions are
refused or lost and commands given up.
`PROJECT.json` lists these hazards at their lines.

## 2. Modules

### TickLiquidity: the liquidity book and the walk of a swap

Variables are named after the fields they model: `liquidity_net`,
`liquidity_gross`, `initialized_tick_count`, `tick_array_bitmap` (as the set of
arrays whose bit is set), `protocol_liquidity`, `position`, `liquidity`,
`sqrt_price`, `tick_current`, and `swap`, the local `SwapState`.

* `OpenPosition`, `IncreaseLiquidity`, `DecreaseLiquidity`, `ClosePosition` are
  whole instructions.  `ModifyPosition` is what the first three share:
  `modify_position`, `update_position`, `TickState::update` and `clear`,
  `ProtocolPositionState::update`, and the bookkeeping of flipped ticks that
  follows in `add_liquidity` and `burn_liquidity`.
* A swap is `SwapBegin`, one `SwapStep` for each turn of `swap_internal`'s loop,
  and `SwapEnd`; `SwapAbort` is any error on the way.  No other instruction runs
  in between, which is why `swap.phase = "idle"` guards the others.  Turns are
  separate steps so that properties can speak about the walk.
* A step may reach any price up to its target; how far an amount really carries
  is SwapMath's subject.  One constraint is kept because the book depends on it:
  nothing is used up before the target where there is no liquidity.  SwapMath's
  `StepUsesRemaining` shows that the arithmetic keeps this promise.
* `SqrtPrice` and `TickAt` stand for `tick_math`; `PriceAssumption` states what
  is required of them (monotone, and inverse in the sense of the greatest tick
  whose price does not exceed the given one).

### RangeLedger: what the book promises

An abstract specification without ticks, arrays, net liquidity or a walk:
holders have stakes in ranges, the market moves, and the active liquidity is
the sum of the stakes around the current tick.  `ImplementsLedger` is the
refinement, with the identity on positions, tick and liquidity as its mapping.

### SwapMath: the arithmetic of a step

`ComputeSwapStep` and what it calls, with the rounding direction of each
division and the width of each word; `Q64` is at once the unit of a Q64.64
number and the size of a `u64`, so a `u128` holds `Q64^2` and a `U256`
`Q64^4`.  `Deposit`, `Withdraw` and `SwapStep` put it to work on one price
range.  An operation that would panic because an amount does not fit is not
enabled (`StepFits`, `Amount0Fits`).

### FeeGrowth: who earns the fees

Extends TickLiquidity: every action of the book gets a counterpart that also
updates the growth variables, so the two are composed step by step (`FeeSpec`
implements `Spec`).  One of the two tokens is followed; `fee_direction`, a variable
that the initial state chooses and nothing changes, says in which direction the
swaps that pay their fee in it go, and the other direction crosses ticks without
adding to the growth.  `walk` is the part of `SwapState`
and of the ticks written so far that only reaches the accounts at `FeeSwapEnd`.

### TickArrayBitmap and ArrayIndex: where the bits are

TickLiquidity's `tick_array_bitmap` is a set of arrays and its search takes the
nearest member.  TickArrayBitmap earns that: it has the pool's word with its two
halves around tick zero and the extension's two rows of words, each word as the
set of its bits, the flip, and the search.  A search is begun by
`get_first_initialized_tick_array` (`FirstArray`) or by the swap loop
(`NextArray`), looks by turns into the pool's word (`LookInPool`) and one word of
the extension (`LookInExtension`), and is answered; `missing` is the error for an
absent extension account.  Offsets, bits and boundaries of negative words, which
end with their multiple where positive ones begin with it, are those of the code.
ArrayIndex is the promise, with neither words nor boundaries: a set of flags, and
a search that answers in one step with the nearest flag.

### Rewards: who earns what a pool emits

Extends TickLiquidity in the way FeeGrowth does, with a clock (`now`), the
reward's schedule and totals, its vault, and the growths outside ticks and inside
ranges.  `Updated` is `update_reward_infos`, and `UpdateOk` what it requires and where its
`checked_add` of the growth panics; each handler calls it where the code
does: before ticks change, once before a swap's walk, and in the reward
instructions.  `SetRewardParams` has the two branches of `normal_update` and
`admin_update`: `StartCycle`, which pays for the whole cycle, rounded up, and
`ExtendCycle`, which pays the raise for the time left and the extension, both
rounded down.  The reward's mint may withhold a transfer fee (TransferFees), any of
`RewardMintFees` at each deposit: `InitializeReward` adds the inverse fee to what it
sends, as `initialize_reward` does, and `Deposit`, the transfer at the end of
`set_reward_params`, sends the bare amount, so that less `Arrives`.  `unclaimed` is
`reward_total_emissioned - reward_claimed`; only the difference is ever read.
`collect` in `RewardDecreaseLiquidity` is the pool's CollectReward bit, and
`CollectOwedReward` is `decrease_liquidity` while the DecreaseLiquidity bit is
off.  `shortfall` is a history variable, what the deposits of `set_reward_params`
were too small by: a unit for each amount that was rounded down, and the fees withheld.

### Oracle: the prices that swaps leave behind

`update_check`, called at the end of every swap with the price that the swap
found: the first observation, the next place in the ring (`Observe`), or nothing
(`PassOver`).  The pool is reduced to its price and the index.  `price_sum`,
`passed_over` and `log` are history variables: the exact sum of the pool's price
over the seconds, whether a swap that was due has been passed over, and every
observation with both.

### PoolVault and TransferFees: what a pool holds and owes

PoolVault has both vaults with every claim on them: `reserve`, what stands behind
the liquidity; `unclaimed`, the fees the positions have not collected;
`protocol_fees` and `fund_fees`; and the `status` byte as the set of its bits.
How large an amount is comes from elsewhere (SwapMath's `Solvent` says that
liquidity never asks for more than its reserve), so actions take any amounts that
fit; what they do with them is the code's:

* `DepositV1`, `DepositV2`, `DecreaseLiquidity` and the tail of a swap
  (`SwapInternal`, `Settle`) with `SplitFee`, the shares of protocol and fund of
  each step's fee.  A swap has two steps, since shares are rounded step by step.
* `CollectProtocolFee`, `CollectFundFee`: as much as is asked for and owed.
* `UpdatePoolStatus`, and the bits that the program sets itself:
  `StatusChecked` (`check_unclaimed_fees_and_vault`) and `StatusSettled` (a swap
  that leaves a vault empty).
* `UpdateProtocolFeeRate` and `UpdateFundFeeRate`, whose sum of rates is asserted
  (`lib.rs:55-58` does the same for a new config).  `Donate` is a plain transfer
  to a vault, which no program can prevent.

TransferFees is the fee of a Token-2022 mint and its inverse, with both roundings,
the cap and the case of a whole fee, as `util/token.rs`, the token program and the
client reckon it.

### Router: a chain of pools

`swap_router_base_in` reads all hops from one list: `Skip` drops what the hop before
left over, `Hop` takes the seven accounts it names and hands the rest to
`exact_internal_v2`, which takes them for tick arrays (`LoadDataMut`, `TickArrays`);
`Finish` and the three `Fail...` actions end the instruction.  A trade is reduced to
the accounts that it loads and the amount that it passes on.

### SwapClient: quote, send, land

Extends TickLiquidity for the pool's book and uses SwapMath (`Math!`) for amounts,
so that a swap here trades real quantities.  Other than in TickLiquidity, an
instruction is one step: `ProgramWalk` is the loop of `swap_internal` as a
function of the number of turns, taken far enough (`MaxTurns`; `LoopsEnd` proves that
no walk is cut short), and TickLiquidity's single turns are not used.  A command goes
through `ReadPool` (pool and bitmap in one request), `Swap` or `SwapV2` (the
tick arrays of that bitmap in another, the quote, the instruction) and
`SwapLands` or `SwapV2Lands`, or ends in `Fails`.  A command that finds no quote
panics, which is phase "failed".  `SwapCompute` is the client's own loop over the
arrays it fetched; both loops share `Turn`, one turn of either, and differ in how
the next array is entered (`ProgramEnters`, `ClientEnters`), in when they end
(`ProgramTurn`, `ClientTurn`), and in the limits that they let pass: the client takes
one at the first or last price, which the program refuses (`ClientTakes`,
`ProgramTakes`).  `QuoteIsKept` leaves out what the client does not claim: such
limits, quotes that ended at the first or last tick, output mints with a fee.  Others open, increase,
decrease, close and swap at any time.

### LiquidityClient: limits, send, land

Extends SwapMath, whose price range is the position's.  `ReadForDeposit` and
`ReadForDecrease` take the pool, `ReadMints` the mints and the epoch and so the
limits with slippage and transfer fees, `Send...` the transaction, with
`close_position` behind a withdrawal of everything, and `...Lands` is the program
accepting it.  `NextEpoch` switches a mint to its newer fee, others trade and move
their own liquidity, and `Fails` is a refusal, a loss, or giving up.

## 3. Runs

| Run | Checks | Instance |
| --- | --- | --- |
| `tick_liquidity` | type, active and walk liquidity, ledger, array index, tick and price, search, loop checks, `ImplementsLedger`, `WalkAdvances` | two positions, ticks -2, 0, 2, 4 (spacing 2), arrays of two ticks, liquidity up to 3 |
| `swap_math` | solvency, use of the remaining amount, price bounds, fee, quotes | prices 6..17, `Q64` = 10, liquidity up to 20 |
| `fee_growth` | `FeesCovered`, `InsideGrowthMoves`, `OutsideWithinGlobal` | two positions, ticks -1..1, fees of downward or of upward swaps, a unit of 3, growths of 8 values |
| `tick_array_bitmap` | `ImplementsIndex`, `SearchEnds` | ticks -10..10, spacings 1 to 3, arrays of two ticks, halves of two bits, two words for each sign |
| `rewards` | coverage, funding, growth, clock, remainder, accounting of time | two positions in two neighbouring ranges, three schedules, times 0..3, half a token a second, a reward mint without and with a transfer fee of a half, up to 1 |
| `rewards_remainder` | violation of `RemainderCollectable` | the same, mint without a fee |
| `oracle` | ring, readable neighbours, tracking of the price | three observations, update duration 2, times 0..8, square roots of prices 2, 3, 4 |
| `pool_vault` | `VaultCovers`, `SurplusOnlyGiven`, `DisabledOnlyWhenBare`, `FreezeHolds` | two tokens, vaults up to 2, fees up to 2 a step, mints without and with a transfer fee of two thirds, up to 2 |
| `swap_client` | `QuoteIsKept` | two positions of three ranges, ticks -1..5, arrays of two ticks, requests for 2 or 8 tokens with and without a limit, with and without a transfer fee on the first token; one action of others during a command |
| `swap_client_quote` | violation of `QuoteIsFound` | the same |
| `router` | violation of `PathIsWalked` | routes of one or two pools, two tick arrays each |
| `liquidity_client` | violation of `QuoteIsAccepted` | prices 8..15, liquidity up to 8, mints without and with a transfer fee of a half, up to 4; one change of epoch |

Why the bounds suffice.  Two positions give every relation between two ranges:
equal, nested, overlapping, adjacent (one tick that is the upper end of one
position and the lower end of the other, so that its net liquidity is zero while
its gross liquidity is not), and disjoint.  Four ticks in arrays of two, at a spacing
of two, give arrays with no, one and two initialized ticks, an empty array
between two others, ticks that cannot be initialized, and a lowest array that
begins below `MIN_TICK`, where division rounds the other way.  Between two ticks
there is one price, which separates "on the tick" from "past it".  Liquidity of
up to 3 gives every partial withdrawal that leaves something behind.  In the fee
run `Word` = 8 against growths of at most 3 makes differences wrap.

In `swap_math`, liquidity of up to twice `Q64` covers both regimes: small
liquidity, where a token moves the price by much, and liquidity so large that one
unit of price is worth more than a token, where an exact output must be capped.

The two NFTs are interchangeable, so symmetry over them is sound for the
invariants; the action properties and the refinement quantify over all of them
and do not name one, and none of them is a liveness property.  The same holds for
the two tokens of `pool_vault`.

In the bitmap run a word has two bits, the pool's word four, and the extension
two words for each sign, so that every edge occurs: first and last bit, first and
last word, a full and an empty word between two flags, both sides of zero.  Of
the three spacings 1 reaches beyond the first word of the extension, with 2 the
lowest array begins below `MIN_TICK`, and with 3 the pool's word covers every tick
and the extension is never used.

In the rewards run time stops at 3, which lets a cycle begin, be changed while it
runs, end, and another one follow; a rate of half a token makes both roundings
happen, and liquidity of up to 2 a growth that is rounded.  `MaxVault` and
`MaxShortfall` only stop further changes of the schedule; a mint that at times keeps
half of a transfer, up to one token, makes a deposit of one arrive empty and one of two
by half, and has the inverse fee reach its maximum.  With ranges [-1,0) and
[0,1) growth inside a range wraps below zero as soon as the lower one is opened
after the upper one has earned.

In the vault run every vault goes from empty to full and back, each claim may be
the only one on a vault or share it, and the status bytes are none, the
withdrawal bit, and all.  Two thirds withheld from at most two tokens is where the
inverse fee is rounded, and where the cap binds.

In the swap client's run a walk crosses up to three arrays of two ticks, some of
which hold no tick, and gaps without liquidity; a limit of 12 stops it in the
middle, between two ticks.  One action of others during a command is enough to
break every assumption of the quote; between commands they act without bound.
The five arrays that the client loads (`ARRAYS_AHEAD`) and its ten turns
(`LOOP_LIMIT`) are the code's own constants; with these bounds neither is
exhausted.

In the oracle run a ring of three turns within eight seconds, and a `Word` of 32
makes cumulated prices wrap.

Deadlock is checked everywhere, since some instruction is always possible, but in
the router, where a route ends, and in the oracle: its clock stops, and `checked_mul` refuses every swap once the price
times the time since the newest observation exceeds a word.

Liveness.  Nobody is obliged to call an instruction, so the code justifies no
fairness between instructions.  Inside one it does: a loop that has begun takes
its next turn.  TickArrayBitmap assumes weak fairness of the two turns of a
search and nothing else, and `SearchEnds` says that the hand-over between pool
and extension does not go on for ever.  For the loop of a swap `WalkAdvances`
states termination as a variant, without fairness: every unfinished turn moves
the tick strictly in the swap's direction, of which there are finitely many.
Nothing makes a client finish a command, and a transaction need not land, so the
client modules have safety properties only.

## 4. Proofs

Every property of a passing run is stated by a theorem, but for those that the end
of this section lists.

`TickLiquidityProofs` proves, for every
number of positions, every tick range, spacing, array size, price table and
liquidity bound that meet the assumptions of TickLiquidity:

* `TypeCorrect`, `IndexCorrect`: types; counts and bitmap are those of the ticks;
* `TickFits`: the current tick belongs to the current price, in pool and walk;
* `WalkTerminates`, `WalkIsExact`: the variant of the loop, and that the search
  through arrays and bitmap finds exactly the nearest initialized tick;
* `ActiveLiquidityCorrect`, `WalkLiquidityCorrect`, `LedgerCorrect`,
  `NeverRejected`: the sums, and that the loop's checks cannot fail;
* `BookImplementsLedger`: TickLiquidity implements RangeLedger.

The argument.  None of these is inductive alone.  Active liquidity survives the
crossing of a tick only because the net liquidity of that tick is the difference
of the positions that start and stop there, and because no initialized tick was
passed over on the way; that in turn needs the index to be exact and the tick to
belong to the price.  The invariant is `BookInv`, the conjunction of

1. `WalkInv`: types, exact counts and bitmap, and what a walk knows about the
   array it is in;
2. `FitInv`: tick and price belong together;
3. `LedgerSums`: gross, net and protocol liquidity are sums over the positions;
4. `ActiveSum` and `WalkSum`: the pool's and the walk's liquidity are the sums
   at their ticks.

Sums of liquidity are cardinalities of sets of units (`Units`), so that adding
liquidity to one position is adding elements to a finite set.

`FeeGrowthProofs` and `RewardsProofs` carry this over to the pool with its fees and
to the pool with a reward, for any units, widths, schedules and bounds that meet
`GrowthAssumption` and `RewardAssumption` (both extend `TickLiquidityProofs`):

* `FeesKeepBook`, `RewardsKeepBook`: every step of FeeGrowth and of Rewards is a
  step of TickLiquidity or leaves the book alone, so the theorems above hold too;
* `FeesTyped`, `RewardsTyped`, `NoGrowthLost`: every growth and every amount stays in
  its word, and no tick has more growth outside than the pool has had in all, so no
  `checked_sub` panics;
* `InsideMoves`, `RewardInsideMoves`: growth inside a range moves with the pool's
  exactly while the tick is in it;
* `FeesAlwaysCovered`, `RewardsAlwaysCovered`: what swaps paid, and what counts as
  emitted, covers what all positions together could collect at that moment;
* `RewardsAlwaysFunded`, `RemainderSpare`: the vault pays for those claims and for the
  rest of the cycle, up to what the deposits of `set_reward_params` lose by rounding
  and to the fee of the mint, and what the founder
  takes back was nobody's;
* `ClockNeverBack`: no change of a schedule lets a reward's time run backwards;
* `TimeAccounted`: the active liquidity never changes before the time with the old
  one is accounted for.

The argument for growth.  Both ends of a range with liquidity are initialized
(`RangeEnds`, from the sums of the book), so nobody else clears or resets them
(`EndsNotFlipped`), and a turn of the loop moves the tick over an end exactly when it
crosses it (`StepOver`, from the search finding the nearest tick).  An end is
therefore left alone, or the growth outside it changes sides together with the tick;
`InsideFollows` concludes, and `WrapShift` shows that wrapping after each change or
once at the end is the same.  `GrowthInv` says of pool and walk alike that growth
outside stays within growth in all.  `RewardInv` says of both that a reward is
accounted for up to some time in the past, or only from its open time on, and never
beyond its end (`ScheduleOk`), that nothing has grown before there is a reward
(`Dormant`), and that a walk's reward is accounted for up to now (`Fresh`).

The argument for coverage.  `FeesCovered` and `RewardsCovered` compare rounded
claims, which is not inductive: a swap step could round the claims of many positions
up at once.  The inductive `CoverInv` (of either module) compares unrounded worths:
what a position is owed, times the unit, and its liquidity times the growth inside
its range since it last looked (`Worth`).  It says so of the pool and of the walk,
because an aborted swap falls back to the pool.  A step of a swap moves the worth
of each position in range by its liquidity times the growth of that step
(`StakeEarns`, from the argument for growth), all together by the active liquidity times that
growth (`ShareTotal`, from `ActiveSum` and `WalkSum`), which is at most the fee, or
the emission, times the unit, since the growth was rounded down.  An instruction on one position only
turns worth into owed fees, rounded down; for that it needs what `StakesOnTicks` says,
and that the protocol position shows the growth inside the range that the position
reads.  In `RewardsProofs` the vault enters as the bound of what is unclaimed plus
what is still to be emitted, which `StartCycle` and `ExtendCycle` pay for up to what
`shortfall` counts (`DepositIs`), and `InitializeReward` in full: `InverseFeeArrives`
says that an amount sent with its inverse fee arrives at least whole, for every rate
and maximum, because the doubly rounded amount leaves room for its own fee
(`PreFeeLeavesFee`) and the fee is monotone (`FeeMonotone`).

The sums in these properties are the library's folds, and induction over the set of
positions is needed to reason about them.  The library's induction theorems cannot
be used here; `MinimalSet` replaces them: a nonempty family of subsets of a finite
set has a minimal member, so a smallest counterexample can be taken and refuted.
`TotalExists` and `TotalIsUnique` derive from it that the recursive table of a fold
exists and is the only one, `TotalTable` and `TotalRest` that the fold computes it,
and the lemmas after them that a total is monotone, additive, and moves by the
change of one summand.

`SwapMathProofs` proves for every unit, price range and fee rate below one:

* `SwapMathTyped`, `AlwaysSolvent`: the reserves are never worth less than the
  liquidity, and never below zero, after any deposits, withdrawals and swap steps;
* `StepsUseRemaining`, `StepsStayBetween`, `FeeAlwaysCharged`: a step uses no more than
  remains, and all of it when it stops short; it neither passes its target nor goes
  back; and it pays at least the fee;
* `QuotesAffordable`: liquidity reckoned from an amount costs no more than it.

The argument.  The provers do not reason about nested divisions.  All that is used of
a quotient is what it is good for: `k <= floor(n/d)` exactly if `k*d <= n`, and
`ceil(n/d) <= k` exactly if `n <= k*d` (`Floor`, `CeilIs`, `DivRoundingUpIs`).
`Amount0Is` and `Amount1Is` compose two of these to one inequality between products
each, so that the double rounding disappears.  The four lemmas `InputOf0`, `InputOf1`,
`OutputOf0`, `OutputOf1` say, for either token and side, that the price which an amount
carries to lies between price and target and that the way to it costs no more than
(or yields at least) that amount; `StepIs` collects what is known of a step.
`TypeOK` and `Solvent` together are inductive: a withdrawal or an output never takes
a reserve below zero because the reserve was worth the liquidity.

`OracleProofs` proves for every ring of two or more places, update duration, word
and set of prices up to the maximum:

* `OracleTyped`, `RingAlwaysNewest`: index and sums in range; the ring holds the
  newest observations in order;
* `NeighboursAlwaysReadable`: the difference of two neighbours is price times time,
  although the sums wrap;
* `CumulativeAlwaysTracks`: how far the observed price may be off.

The argument.  A write moves every kept observation one place further back from the
index and overwrites the oldest (`WriteShifts`), so the ring agrees with the history,
of which only the newest entry changes.  `CumulativeTracksPrice` is not inductive
between observations.  `DriftBounded` adds that since the newest observation the
pool's prices, summed, differ from any price held all that time by at most the
elapsed time times the spread of prices, and from the pool's own by at most the
update duration less a second times the spread, unless a swap was passed over.  `Spread` is a maximum over a
possibly large but bounded set of prices; it exists because every set of natural
numbers has a least member.

`PoolVaultProofs` proves about PoolVault, for any set of tokens, any rates, transfer
fee configurations and bounds that meet `VaultAssumption` and
`BasisPointsAssumption`:

* `ClaimsCovered`, `LedgerTyped`: the vaults cover all claims together, and no
  claim goes below zero;
* `SharesWithinFee`: the two shares of a fee never exceed it, so that
  `swap_internal`'s `checked_sub` cannot fail;
* `NothingUnbooked`: the surplus changes by donations only;
* `NeverDisabledOwing`, `FreezeKept`: what the program's own status checks promise,
  and what a status of 255 does.

The argument.  The invariant is `VaultInv`, `VaultTypeOK` and `VaultCovers`
together: coverage needs the types, and the types (a vault never below zero) need
coverage when a withdrawal or a collection is paid.  Two lemmas about arithmetic
carry it.  `ArrivesWhole` says that what is sent with the inverse of the transfer fee added
arrives in full, for every rate, cap and amount; it rests on `PreFeeExact`, that
the doubly rounded inverse (`CeilDiv` both ways) is exact.  `SplitIsWhole` says
that protocol, fund and providers together get exactly the fee.  With these each
instruction moves `Surplus` by nothing, and the properties of steps follow from the
same invariant; `FreezeKept` needs in addition that no deposit, withdrawal or swap
is enabled while all bits are set, and that a collection only takes.

`TickArrayBitmapProofs` proves for every spacing, size of arrays and of words, and
number of words that cover the ticks (`BitmapAssumption`):

* `BitmapTyped`: each word keeps to the bits that it has, and no search fails on an
  index that it worked out itself;
* `BitmapImplementsIndex`: TickArrayBitmap implements ArrayIndex.

The argument.  Array number `k` starts at `k` times the length of an array.  `Places`
turns all that the code says about signs, remainders and boundaries into one
division: the word of array `k` is number `k \div B` and its bit `k % B`, where `B`
is the number of bits, and words -1 and 0 are the halves of the pool's word.
`OverflowsIs`, `InExtensionIs`, `OutOfTicksIs` and `WordExists` do the same for the
checks, and show that every array beyond the pool's word has a word in the
extension.  The invariant `IndexInv` adds two things to the types.  Every bit that
is set belongs to an array (`BitsOnArrays`), without which a search could answer
with an array beyond the ticks.  And a search has passed no flag between the array
it began at and the one it has come to (`Passed`); it looks into the extension only
for an array outside the pool's word, and without an extension it looks into the
pool's word only once (`SearchOk`).  `FlipsFlag` says that a flip changes the flag of its array and no
other; for a turn of a search, either the word has a bit ahead, and then its first is
the nearest flag (`NextIsNearest`), or the search passes the rest of the word, or
leaves the ticks (`PassedOn`, `TurnGoesOn`, `TurnEnds`).  `PoolTurn` and
`ExtensionTurn` put that together: a turn is the answer of the index or a stutter.

`SwapClientProofs` proves about SwapClient, for every pool and book, any spacing,
price table, rates, slippage, transfer fees and requests that meet the assumptions:

* `QuoteKept`: a quote that nobody disturbs is what the program then trades, with the
  arrays that were sent and within the threshold;
* `ClientTyped`: whole swaps with real amounts keep the pool's types, and its tick
  with its price;
* `ClientKeepsBook`, `ClientImplementsLedger`: whole swaps with real amounts leave the
  pool the liquidity of the positions in range, change nothing else of the book, and
  are moves of the market in RangeLedger;
* `LoopsEnd`: both loops have ended after `MaxTurns` turns.  For the client this is
  proved of limits inside the price range.

The argument.  A loop is a function of the number of turns, so `ProgramLoop` and
`ClientLoop` first show that there is such a function, and `EveryNat` takes the place of
induction: there is no smallest number of turns after which something first fails.
Neither loop is reasoned about on its own amounts: `StepToIs` says of a step of
SwapMath whatever the walks need (from the lemmas of `SwapMathProofs`), and
`TurnIs` says that a turn fails, or is such a step from the present array or from the one
that it enters.  What holds of a walk at every turn is `OnWay`: its tick belongs to its
price, the price has neither gone past the limit nor back before the start, it has gained
nothing without moving, and a walk with more turns to come has not left the ticks of
its array (`Placed`).  The client's walk moreover has entered at most one array
(`AtMostOne`), since it compares every array with the one after its first.

The two walks are compared turn by turn (`Beside`).  They are alike in all that a step
looks at and differ in the arrays still to come: the client's are those it
loaded by the bitmap, the program's those the client's whole walk goes on to use.
`TurnBeside` has the three cases: both step in the array they are in; both
enter the next one, which is then the second and last that the client sends; or the
client's walk fails, and there is no quote.  `SameWalk` concludes that both end
alike, `ProgramStartIs` that they begin alike, since the program finds its first array in front of
those that were sent.  What is left is the threshold: the transfer fee and its
inverse are monotone (`FeeMonotone`, `PreFeeMonotone`), so slippage can only
help (`ThresholdIs`).  The invariant is `ClientInv`: types and fit, for
which every swap is one of these walks (`ExactKeeps`); that a command holds a typed pool, or
arrays that were sent (`CommandOk`); and that an undisturbed command knows the pool as
it is (`PoolFresh`) and has sent the quote that the pool would still give it
(`QuoteFresh`).  `LoopsEnd` uses that each turn which does not end a walk, or leave it
to be ended by the next, carries the tick further (`Moves`, `MovesEnd`).

The book follows from TickLiquidity's own lemmas, which are stated for any swap state
that agrees with the book (`OnBook`), not only for the variable `swap`.  `AsSwap` reads
a walk as such a state.  `HereIsNext` and `EnteredIsNext` show that the tick a walk finds,
in its array or in the one that it enters, is the one that the book's loop goes to;
`StepsToIs` that its step goes where that loop may go.  So each turn leaves a walk the
liquidity of its tick, in the place from which the next search finds the nearest tick
(`Balanced`, `BookTurn`), and the pool takes over what the last turn left
(`SwappedBook`).  The invariant is `WholeInv`: `ClientInv`, and TickLiquidity's
`BookInv` with no swap under way between two steps.

What stays with TLC: liveness (`SearchEnds`), and the four violations.
What a table of prices satisfies (`PriceAssumption`) is assumed, not derived from
`tick_math`.

## 5. Findings

Each is a run that ends in a violation of what the code says of itself.

* `collect_remaining_rewards` is documented to return the remainder to the
  founder.  What counts as emitted is rounded up at every update, the deposit once
  per cycle, so the vault can hold less than what counts as emitted and not
  claimed; the `checked_sub` then panics (`rewards_remainder`).  The excess is
  less than one unit per update.  Fees withheld from deposits of `set_reward_params`
  (below) have the same effect; the run has a mint without.
* `swap_router_base_in` is documented to swap across the path provided.  It hands
  each hop all accounts that are left, and `exact_internal_v2` loads them as tick
  arrays of that hop's pool: a path of more than one pool fails (`router`).
* The client's transfer fee functions take account, epoch, amount, and are called
  with account, amount, epoch.  Its limits then contain the wrong fee, and a
  deposit or withdrawal is refused although nothing has changed
  (`liquidity_client`).
* The client's swap loop is to walk until the input is consumed or the limit
  reached.  The start of the array it searches from is a shadowed variable that
  never moves on, so from the third array on it panics with a mismatch
  (`swap_client_quote`).  Walks through one or two arrays agree with the program's,
  as `QuoteIsKept` shows.

Noted while reading, modelled as the code has it, and not claims of a run:

* `MulDiv` (`full_math.rs:11-13`) documents `None` only for results that do not
  fit; the `U256` implementation (169) returns it beyond `u128`, and callers unwrap.
* A swap that finds the newest observation's price writes no observation
  (`oracle.rs:134`); the next one credits its own price with all the time since.
  `CumulativeTracksPrice` shows that passing over a swap is the only way to be off
  by more than the update duration.
* `ProtocolPositionState.token_fees_owed` saturates (`protocol_position.rs:78`)
  where personal positions wrap; nothing reads it.
* `set_reward_params` (`lib.rs:204`) is documented never to lower the rate of a
  running cycle; the admin may at any time and the owner near its end.
* `set_reward_params` (110-118) sends its deposit without the inverse transfer fee
  that `initialize_reward` (119-124) adds, although the same reward mints, which may
  charge one (`token.rs:248`), come to both.  From such a mint the vault gets less
  than the cycle emits; `collect_rewards` pays what the vault holds, and the last to
  collect wait for more.  `RewardsFunded` says that the fees withheld from these
  deposits, and the fractions, are all that is ever missing.
* `SwapV2` in the client ignores the transfer fee of the output mint.
* `swap_compute` also ends at the first or last tick (`utils.rs:400`), with part of
  the amount left over.
* The client closes a position in the transaction that withdraws all of it, which
  fails as long as the withdrawal leaves fees or rewards owed.

## 6. Not modelled, and what is left

* Keys: owners and signers of accounts, the operation account's lists, who may call
  which admin instruction.  Mint checks, `open_time`, and the creation of pools,
  accounts and metadata, which set initial state only.
* The trade fee rate is constant (`trade_fee_rate`); a change between two swaps
  touches no other state.
* `tick_math`'s logarithm and power by bits, `big_num` and `fixed_point_64`: out of
  TLC's reach at their widths.  `PriceAssumption` states what is needed of prices.
* The three rewards of a pool do not meet; one is followed.
* The `u64` overflow of `amount_in + fee_amount` in `swap_internal`; amounts are
  bounded instead.
* In SwapClient positions earn no fees, and in LiquidityClient the position is the
  range of the pool; FeeGrowth, Rewards and TickLiquidity have the rest.
* The client's other commands send one instruction each, or read and print events
  and accounts.
