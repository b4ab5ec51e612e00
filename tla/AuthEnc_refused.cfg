SPECIFICATION Spec
CONSTANTS
  b1 = b1
  b2 = b2
  m0 = m0
  m1 = m1
  n1 = n1
  a0 = a0
  a1 = a1
  k1 = k1
  alice = alice
  bob = bob
  weak = weak
  e1 = e1
  e2 = e2
  Zeros = Zeros
  Null = Null
  EmptyAd = a0
  Bufs = {b1}
  Msgs = {m0, m1}
  MLen <- MCLen
  Nonces = {n1}
  Ads = {a0, a1}
  SymKeys = {k1}
  People = {alice, bob}
  RefusedPks = {weak}
  Ephemerals = {e1, e2}
  MACBYTES = 1
  SEALBYTES = 3
  NoiseLens = {0, 1, 3}
  MaxTags = 1
  MaxLayers = 1
  MaxWire = 0
  Programs <- OnlyBox
INVARIANT SealsInPlace
