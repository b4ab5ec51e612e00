SPECIFICATION FairSpec
CONSTANTS
  t1 = t1
  t2 = t2
  Threads = {t1, t2}
  SodiumFails = TRUE
INVARIANT InitInv
INVARIANT NoSeedingRace
INVARIANT NoIllegalInstruction
PROPERTY InitIsAtomic
PROPERTY NewIsExactAfterInit
PROPERTY InitReturns
