SPECIFICATION ArithmeticSpec
CONSTANTS
  p = 7
  q = 11
  e = 7
  nil = nil
  Call = {c1, c2}
  players = 3
  si <- Secrets
  Digest = {2, 11}
  Rand = {0, 5}
  K = 4
  Inputs <- Vectors
INVARIANTS
  ShareCorrect
  NoOverflow KyberArithmeticExact
PROPERTY SignReturns
CHECK_DEADLOCK FALSE
