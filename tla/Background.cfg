SPECIFICATION UsedFairSpec
CONSTANTS
  z = z
  k1 = k1
  h1 = h1
  h2 = h2
  h3 = h3
  Pids <- OnePid
  MaxBorn = 2
  Programs <- TwoPrograms
  Parent <- OneParent
  Table <- SmallTable
  Required <- SomeRequired
  Wrap = 1024
  Readings <- OneReading
  ProbeResults = {"success"}
  EventCap = 1
  MetricCap = 1
  Root = z
  Kids <- OneKid
  EchCap = 1
  MaxEvents = 2
  ServiceNames <- OneName
  ZkNodes <- TwoNodes
  Routes <- OneRoute
  NoRoute <- EmptyRoute
  Running <- OneRuns
  Esbs <- TwoEsbs
  Provided <- TwoInterfaces
  MChanCap = 1
  Scale = 2048
  MaxProbes = 4
  Hosts <- ThreeHosts
  HostOf <- SmallHost
  Usages <- OneUsage
  NetCapacity = 10
  Asked <- SomeAsked
  MaxTry = 2
  MaxReports = 3
  ServiceMap <- OneService
  SampleRoutes <- SomeRoutes
  SamplePaths <- SomePaths
  SampleNames <- SomeNames
  SampleKeys <- SomeKeys
  SampleUpdates <- SomeUpdates
  SampleRestarts <- SomeRestarts
  SampleAmounts <- SomeAmounts
  SampleImages <- SomeImages
CHECK_DEADLOCK FALSE
INVARIANTS EveryNodeWatched ProbedInTurn NoHostSkipped SamplesReadBack
PROPERTIES ToldInOrder StopReported CatchesUp
