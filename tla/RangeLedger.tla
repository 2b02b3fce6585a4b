------------------------------ MODULE RangeLedger ------------------------------
(***************************************************************************)
(* What the liquidity book of a pool promises, without tick arrays,       *)
(* bitmaps or net liquidity: each holder has at most one stake in a range  *)
(* of ticks, the market moves from tick to tick, and the liquidity that    *)
(* trades are made against is, after every step, the sum of the stakes     *)
(* whose range holds the current tick.                                     *)
(***************************************************************************)
EXTENDS Integers, FiniteSets

CONSTANTS Holder, NoStake, Tick, MaxLiquidity

VARIABLES stake, tick, active

ledgerVars == <<stake, tick, active>>

Stake == [lower : Tick, upper : Tick, liquidity : 0..MaxLiquidity]

(* The sum of the stakes of s that cover tick t, counted unit by unit.     *)
Covering(s, t) ==
  LET on == {h \in Holder : s[h] # NoStake /\ s[h].lower <= t /\ t < s[h].upper}
  IN  Cardinality({u \in on \X (1..MaxLiquidity) : u[2] <= s[u[1]].liquidity})

Init == /\ stake = [h \in Holder |-> NoStake]
        /\ tick \in Tick
        /\ active = 0

(* One holder takes, changes or gives up its stake; an existing stake      *)
(* keeps its range, and only an empty one can be given up.                 *)
Restake(h) ==
  /\ \E s \in Stake \cup {NoStake} :
       /\ s # NoStake => s.lower < s.upper
       /\ (s # NoStake /\ stake[h] # NoStake) =>
            s.lower = stake[h].lower /\ s.upper = stake[h].upper
       /\ s = NoStake => stake[h] # NoStake /\ stake[h].liquidity = 0
       /\ stake' = [stake EXCEPT ![h] = s]
  /\ tick' = tick
  /\ active' = Covering(stake', tick)

Move ==
  /\ tick' \in Tick
  /\ stake' = stake
  /\ active' = Covering(stake, tick')

Next == Move \/ \E h \in Holder : Restake(h)

Spec == Init /\ [][Next]_ledgerVars
=============================================================================
