SPECIFICATION LiveSpec
CONSTANTS
  h1 = h1
  h2 = h2
  h3 = h3
  v1 = v1
  v2 = v2
  new = new
  c1 = c1
  c2 = c2
  c3 = c3
  tm1 = tm1
  nil = nil
  None = nil
  Exp = new
  HalfUp <- Half
  Hosts <- TwoHosts
  Vers <- OneOld
  Callers <- TwoCallers
  TimerTasks <- OneTimer
  Policies <- AllPolicies
  Nums <- OneTwo
  Offered <- OneHost
  InitInfo <- UnevenOrSpread
  MaxOps = 3
  MaxFails = 1
CHECK_DEADLOCK FALSE
PROPERTIES LeaseEnds CancelReturns
