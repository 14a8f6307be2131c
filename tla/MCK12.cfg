SPECIFICATION MCSpec
CONSTANTS
  Object = {o1, o2}
  o1 = o1
  chunkSize = 2
  Lanes = {1, 2, 4}
  ContextLen = {0, 3}
  Radix = 2
  MaxMessage = 22
  MaxClones = 1
  nil = nil
INVARIANTS TreeHashed NoPanicWhileAbsorbing
PROPERTY OthersUnchanged
CHECK_DEADLOCK FALSE
