SPECIFICATION RewardSpec
CONSTANTS
  Nft = {n1, n2}
  NoPosition = NoPosition
  MIN_TICK <- MinTick
  MAX_TICK = 1
  TickSpacing = 1
  TICK_ARRAY_SIZE = 4
  SqrtPrice <- MCSqrtPrice
  TickAt <- MCTickAt
  MaxLiquidity = 2
  Q64 = 2
  Word = 16
  Schedules <- MCSchedules
  MIN_REWARD_PERIOD = 1
  MAX_REWARD_PERIOD = 2
  INCREASE_EMISSIONES_PERIOD = 2
  ONE_IN_BASIS_POINTS = 2
  RewardMintFees <- MCNoFee
  MaxTime = 3
  MaxVault = 2
  MaxShortfall = 1
  Offers <- MCOffers
  Amounts = {0, 1}
  Limits <- MCLimits
SYMMETRY NftSymmetry
INVARIANTS
  RemainderCollectable
