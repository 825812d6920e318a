SPECIFICATION FairSpec
CONSTANTS
  Uids = {1, 2}
  Hash <- HashDef
  Count = 2
  PageSize = 1
  Deployments <- DeploymentsDef
  Battles = 1
  Crashes = 1
  Returns = 1
  None = None
INVARIANT
  LatestIsServed
PROPERTIES
  FrozenStays
  RerunCompletes
CHECK_DEADLOCK FALSE
