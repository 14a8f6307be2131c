SPECIFICATION HpkeSpec
CONSTANTS
  Radix = 2
  Nn = 3
  Xor <- MCXor
  BaseNonce <- MCBaseNonce
  Key = Key
  OtherKey = OtherKey
  Plaintext = {p1}
  Aad = {m1, m2}
  Absent = Absent
  SenderKey = {a1, a2}
  Psk = {empty, k1, k2}
  PskId = {empty, i1}
  Empty = empty
  Receivers = {r1, r2}
  Info = {n1, n2}
  MaxCalls = 4
SYMMETRY Perms
INVARIANTS TypeOK NonceNeverReused OpenerInStep SeqCountsMessages KeyAgreement
PROPERTIES FifoChannel StalePskRefused
CHECK_DEADLOCK FALSE
