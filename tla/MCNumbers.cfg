SPECIFICATION NumbersSpec
CONSTANTS
  rate = 2
  outputLen = 2
  Byte = {0, 1}
  Domain = {6, 31}
  MaxMessage = 5
  MaxOutput = 5
  nil = nil
  FinalExp <- Toy_FinalExp
  RatioKummer <- Toy_RatioKummer
  g1ScalarMult <- Toy_g1ScalarMult
  g1Add <- Toy_g1Add
  g1Hash <- Toy_g1Hash
  g1IsMember <- Toy_g1IsMember
  g1Encode <- Toy_g1Encode
  g1SetBytes <- Toy_g1SetBytes
  g2ScalarMult <- Toy_g2ScalarMult
  g2Add <- Toy_g2Add
  g2Hash <- Toy_g2Hash
  g2IsMember <- Toy_g2IsMember
  g2Encode <- Toy_g2Encode
  g2SetBytes <- Toy_g2SetBytes
  g1IsEqual <- Toy_g1IsEqual
  g2IsEqual <- Toy_g2IsEqual
  g1IsIdentity <- Toy_g1IsIdentity
  g2IsIdentity <- Toy_g2IsIdentity
  prodPairFrac <- Toy_prodPairFrac
  Elements <- Toy_Elements
  Encodings1 <- Toy_Encodings1
  Encodings2 <- Toy_Encodings2
  Mapped1 <- Toy_Mapped1
  Mapped2 <- Toy_Mapped2
  HashedTo1 <- Toy_HashedTo1
  HashedTo2 <- Toy_HashedTo2
  Keys1 <- Toy_Keys1
  Keys2 <- Toy_Keys2
  Signatures1 <- Toy_Signatures1
  Signatures2 <- Toy_Signatures2
INVARIANTS
  TypeOK BufferReady SumIsDigest
  ThresholdCombines FieldsAndGroupsExact
  BlsSignaturesOfKey BlsAggregatesVerify
PROPERTY IsStream
CHECK_DEADLOCK FALSE
