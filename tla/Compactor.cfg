SPECIFICATION EtcdSpec
CONSTANTS
  p1 = p1
  p2 = p2
  p3 = p3
  u1 = u1
  u2 = u2
  g1 = g1
  g2 = g2
  g3 = g3
  k1 = k1
  v1 = v1
  v2 = v2
  nil = nil
  Procs <- ThreeProcs
  MaxRev = 6
  MaxTime = 4
  Users <- TwoUsers
  Quorum <- OneUser
  Prefix <- StagePrefix
  Requests <- SomeRequests
  MaxClock = 1
  MaxCalls = 3
  Callers <- ThreeCallers
  MaxClients = 3
  MaxFailures = 3
  Clusters <- OneCluster
  MaxVersionCalls = 4
  Values <- TwoValues
  Passing <- OneValue
  NoFile = NoFile
  Half = Half
  Setups <- SomeSetups
  MaxSets = 3
  MaxTroubles = 2
CHECK_DEADLOCK FALSE
INVARIANTS KeepsRound OncePerRound OneClient ExpectedRegular OnlyPassed
PROPERTIES DirectoryPromise LivesItsTime TemplateCatchesUp
