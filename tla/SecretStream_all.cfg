SPECIFICATION FairSpec
CONSTANTS
  m0 = m0
  m1 = m1
  big = big
  a0 = a0
  a1 = a1
  h1 = h1
  h2 = h2
  k1 = k1
  k2 = k2
  Null = Null
  EmptyMsg = m0
  EmptyAd = a0
  GarbageLens <- MCGarbage
  Keys = {k1, k2}
  Headers = {h1, h2}
  Messages = {m0, m1, big}
  Ads = {a0, a1}
  MLen <- MCLen
  ABYTES = 1
  MESSAGEBYTES_MAX = 2
  ForeignBytes = {7}
  Programs <- MCPrograms
  MaxLog = 2
  MaxRekeys = 1
  MaxInits = 2
INVARIANT IndInv
INVARIANT InOrderDelivery
INVARIANT NoTruncation
INVARIANT FinalIsLast
PROPERTY BufferAuthentic
PROPERTY AstrayStaysAstray
PROPERTY FinalReaches
PROPERTY ImplementsChannel
