SPECIFICATION ConfigSpec
CONSTANTS
  Stage = "dev"
  NoSpec = NoSpec
  DeployKeys <- OneKey
  HostIDs = {"h1", "h2"}
  Specs = {s1, s2}
INVARIANT KnowsHostConfigs
CHECK_DEADLOCK FALSE
