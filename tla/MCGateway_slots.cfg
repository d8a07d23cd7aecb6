SPECIFICATION FairSpec
CONSTANTS
  Commands = {p, q}
  MaxAccount = 2
  i = i
  j = j
  k = k
  other = other
  Identities = {i, j}
  Keys = {k, other}
  Key = k
  None = None
  Hosts <- MCHosts
  MaxImages = 2
  MaxWork = 16
INVARIANTS ReadyAreDistinct CancellationIsClean
PROPERTIES GatewaysKept CommandsEnd ImplementsAccountSlots
CHECK_DEADLOCK FALSE
