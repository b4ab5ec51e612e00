SPECIFICATION Spec
CONSTANTS
  c1 = c1
  c2 = c2
  c3 = c3
  Checkouts = {c1, c2, c3}
  Spaces = {c1, c2}
  TempDir = tmp
  Code = {"a", "b"}
  Versions = {1, 2}
  Setups <- MCSetups
INVARIANT LinkFollowsEnv
INVARIANT OwnLibrary
INVARIANT BuildInv
CHECK_DEADLOCK FALSE
