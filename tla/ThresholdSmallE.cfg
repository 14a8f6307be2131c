SPECIFICATION Spec
CONSTANTS
  p = 11
  q = 23
  e = 3
  nil = nil
  Players = {3}
  Threshold = {2}
  Coeff = {17}
  Digest = {7}
  MaxShares = 3
INVARIANT Combines
CHECK_DEADLOCK FALSE
