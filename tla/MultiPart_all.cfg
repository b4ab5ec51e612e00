SPECIFICATION Spec
CONSTANTS
  s1 = s1
  s2 = s2
  a = a
  b = b
  k1 = k1
  k2 = k2
  k3 = k3
  Null = Null
  Junk = Junk
  Slots = {s1, s2}
  Kinds = {"hash", "auth", "generichash", "sign"}
  Chunks <- MCChunks
  Keys = {k1, k2, k3}
  KeyLen <- MCKeyLen
  OutLens = {1, 4, 5}
  DIGEST_MIN = 2
  DIGEST_MAX = 4
  BYTES = 3
  KEY_MIN = 2
  KEY_MAX = 4
  KEYBYTES = 2
  SIGNATUREBYTES = 2
  ReuseAfterVerify = FALSE
  MaxFed = 2
SYMMETRY Symmetric
INVARIANT PartsMakeTheWhole
INVARIANT VerifyIsExact
INVARIANT OpensAsSigned
INVARIANT PartsInv
