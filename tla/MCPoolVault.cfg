SPECIFICATION Spec
CONSTANTS
  Token = {t0, t1}
  FEE_RATE_DENOMINATOR_VALUE = 2
  ONE_IN_BASIS_POINTS = 3
  TransferFeeConfigs <- MCTransferFeeConfigs
  Statuses <- MCStatuses
  MaxVault = 2
  MaxFee = 2
SYMMETRY TokenSymmetry
INVARIANTS
  VaultTypeOK
  VaultCovers
PROPERTIES
  SurplusOnlyGiven
  DisabledOnlyWhenBare
  FreezeHolds
