SPECIFICATION MCSpec
CONSTANTS
  nil = nil
  Height = 3
  Trees = 2
  Leaf <- TreeLeaf
  Parent <- TreeParent
  Node <- TreeNode
  WotsLgW = 2
  wotsLen1 = 2
  wotsLen2 = 2
  hPrime = 2
  SlhD = 3
  SlhA = 2
  SlhK = 2
  SlhWord = 3
  Nibbles <- SlhNibbles
  Digest <- SlhDigest
  Mode <- Modes
  K = 2
  Matrix <- MlMatrix
  Challenge <- MlChallenge
  Mask <- MlMask
  Secret <- MlSecret
  MaxAttempts = 2
  HintK = 2
  HintN = 5
  HintOmega = 3
  Seeds = {"k1", "k2"}
  Messages = {"m1", "m2"}
  Garbled = "m1"
  Pubs = {"p1"}
  Privs = {"s1"}
  Cells = {0, 1, 2, 3, 4}
  Order = 5
  Scalars = {1, 3}
  MaxInits = 2
  SharingOrder = 5
  MaxT = 2
  Players = 3
  MaxShares = 3
  GroupOrder = 5
  Input = {"x", "y", "o"}
  Info = {"i", "j"}
  HashToElement <- HashedElement
  HashToScalar <- HashedScalar
  Blinds = {0, 2, 3}
  Keys = {1, 2}
  Batches <- OprfBatches
INVARIANTS
  TreeHashExact
  SlhSignatureVerifies SlhNothingReused
  MlSignatureVerifies OneEncoding
  DecapsulationAgrees
  ChosenOnly SharingThreshold OnlyTheFunction
  PolicySharesMeanFormula PolicyMeansWhatIsWritten
  BlindSignaturesOfOwn
  MatrixInverseExact AbeOpensWhatItMay FlpProofDecides
CHECK_DEADLOCK FALSE
