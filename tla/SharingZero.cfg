SPECIFICATION SharingSpec
CONSTANTS
  SharingOrder = 5
  MaxT = 2
  Players = 3
  MaxShares = 3
INVARIANT HonestSharesVerify
CHECK_DEADLOCK FALSE
