SPECIFICATION ClientSpec
CONSTANTS
  Nft = {n1, n2}
  NoPosition = NoPosition
  MIN_TICK <- MinTick
  MAX_TICK = 5
  TickSpacing = 1
  TICK_ARRAY_SIZE = 2
  SqrtPrice <- MCSqrtPrice
  TickAt <- MCTickAt
  MaxLiquidity = 24
  Q64 = 10
  FEE_RATE_DENOMINATOR_VALUE = 5
  trade_fee_rate = 1
  ARRAYS_AHEAD = 5
  LOOP_LIMIT = 10
  SlippageTenths = 1
  TradeAmounts = {2, 8}
  Limits = {0, 12}
  Deposits = {12}
  Offered <- MCOffered
  MaxOthers = 1
  ONE_IN_BASIS_POINTS = 10
  Mints <- MCMints
SYMMETRY NftSymmetry
INVARIANTS
  QuoteIsFound
