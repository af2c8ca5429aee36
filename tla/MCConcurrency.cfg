SPECIFICATION MCSpec
CONSTANTS
  Plan = {"ok", "error", "hang"}
  k0 = k0
  k1 = k1
  k2 = k2
  p1 = p1
  p2 = p2
  c1 = c1
  c2 = c2
  nil = nil
  Failed = Failed
  NotActive = NotActive
  PoolLoop <- Places
  PoolCaller <- Two
  MaxCancels = 2
INVARIANT ClosedOnceForGood
PROPERTIES RefinesContract TasksKeepContract CallsReturn RotationsComplete
CHECK_DEADLOCK FALSE
