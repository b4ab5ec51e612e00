SPECIFICATION Spec
CONSTANTS
  alice = alice
  bob = bob
  Peers = {alice, bob}
  Stride = 2
  Lane <- MCLane
  PerPeer = 2
  BYTE = 2
  NONCEBYTES = 2
  BLOCK = 2
  COUNTERS = 2
  SliceLens = {1, 2}
  Lens = {1, 3}
  MaxMsgs = 3
INVARIANT CountInv
INVARIANT NoReuse
INVARIANT PartsMakeTheWhole
INVARIANT Restores
CHECK_DEADLOCK FALSE
