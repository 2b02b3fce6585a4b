SPECIFICATION ClientSpec
CONSTANTS
  Q64 = 10
  FEE_RATE_DENOMINATOR_VALUE = 5
  trade_fee_rate = 1
  PriceLower = 8
  PriceUpper = 15
  MaxLiquidity = 8
  MaxAmount = 9
  ONE_IN_BASIS_POINTS = 2
  NoPosition = NoPosition
  TransferFeeConfigs <- MCTransferFeeConfigs
  SlippageTenths = 1
  MaxEpoch = 1
INVARIANT QuoteIsAccepted
