SPECIFICATION Spec
CONSTANTS
  s1 = s1
  s2 = s2
  s3 = s3
  s4 = s4
  r1 = r1
  r2 = r2
  Slots <- MCSlots
  PageOf <- MCPageOf
  Draws = {r1, r2}
  Programs <- MCPrograms
  Passwords = {"pw1", "pw2"}
  Algs = {"argon2id"}
  Limits = {"low"}
  SubkeyLens = {1, 2}
  BYTES_MIN = 2
  BYTES_MAX = 2
  MaxLocked = 1
  SlotsOf <- MCSlotsOf
  MaxPubs = 2
  MaxSessions = 2
SYMMETRY Symmetric
INVARIANT SessionsAgree
INVARIANT LockedStaysInRam
INVARIANT SameIdentity
INVARIANT LoginIsExact
INVARIANT KeyInv
