SPECIFICATION Spec
CONSTANTS
  Pools = {p1, p2}
  ArraysNeeded <- MCArraysNeeded
  MaxHops = 2
  MaxAmount = 2
INVARIANT PathIsWalked
CHECK_DEADLOCK FALSE
