SPECIFICATION Spec
CONSTANTS
  Object = {o1}
  chunkSize = 2
  Lanes = {1, 2, 4}
  ContextLen = {0, 1, 3}
  Radix = 2
  MaxMessage = 6
  MaxClones = 0
  nil = nil
INVARIANT WriteAfterReadPanics
CHECK_DEADLOCK FALSE
