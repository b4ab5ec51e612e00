SPECIFICATION Spec
CONSTANTS
  s1 = s1
  s2 = s2
  a = a
  b = b
  k1 = k1
  k2 = k2
  k3 = k3
  Null = Null
  Junk = Junk
  Slots = {s1}
  Kinds = {"sign"}
  Chunks <- MCChunks
  Keys = {k1, k2}
  KeyLen <- MCKeyLenTwo
  OutLens = {1, 2, 4, 5}
  DIGEST_MIN = 2
  DIGEST_MAX = 4
  BYTES = 3
  KEY_MIN = 2
  KEY_MAX = 4
  KEYBYTES = 2
  SIGNATUREBYTES = 2
  ReuseAfterVerify = TRUE
  MaxFed = 2
INVARIANT VerifyIsExact
