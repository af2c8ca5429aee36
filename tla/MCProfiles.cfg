SPECIFICATION MCSpec
CONSTANTS
  a1 = a1
  a2 = a2
  b1 = b1
  b2 = b2
  c1 = c1
  c2 = c2
  d1 = d1
  d2 = d2
  e1 = e1
  e2 = e2
  None = None
  Gateway = Gateway
  Malformed = Malformed
  Domain <- MCDomain
  Thread <- MCThread
  Capacity = 1
  Cooldown = 2
  MaxDelay = 1
  MaxNow = 4
SYMMETRY Symmetric
INVARIANTS AcceptedAsSigned  HonestAccepted SentWhole
PROPERTY RefreshesGated
CHECK_DEADLOCK FALSE
