SPECIFICATION Spec
CONSTANTS
  h1 = h1
  h2 = h2
  h3 = h3
  v1 = v1
  v2 = v2
  new = new
  c1 = c1
  c2 = c2
  c3 = c3
  tm1 = tm1
  nil = nil
  None = nil
  Exp = new
  HalfUp <- Half
  Hosts <- ThreeHosts
  Vers <- TwoOld
  Callers <- OneCaller
  TimerTasks <- Nobody
  Policies <- Rolling
  Nums <- TwoThree
  Offered <- TwoHosts
  InitInfo <- SmoothStarts
  MaxOps = 1
  MaxFails = 1
CHECK_DEADLOCK FALSE
INVARIANTS RollingKeepsRunning RollingCompletes
