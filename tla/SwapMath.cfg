SPECIFICATION Spec
CONSTANTS
  Q64 = 10
  FEE_RATE_DENOMINATOR_VALUE = 5
  trade_fee_rate = 1
  PriceLower = 6
  PriceUpper = 17
  MaxLiquidity = 20
  MaxAmount = 9
INVARIANTS
  TypeOK
  Solvent
  StepUsesRemaining
  StepStaysBetween
  FeeCharged
  QuoteAffordable
