SPECIFICATION FairSpec
CONSTANTS
  Uids = {p1}
  Modes = {"trusted_registry", "trusted_claims", "protected_playtest"}
  Claims <- ClaimsDef
  Grants <- GrantsDef
  Revisions = 3
  Calls = 2
  CallFaults = 2
  None = None
  Reasons = {1, 2}
  DailyLimit = 1
  PageSize = 1
  DayLength = 2
  Retention = 2
  Horizon = 3
  Files = 2
  Handlers = 2
  ReportFaults = 1
  NoTime = NoTime
  Keys = {k1}
  MaxAges <- MaxAgesDef
  MinLife = 2
  DefaultLife = 3
  Requests = 3
  KeyFaults = 1
  NoAge = NoAge
INVARIANTS
  RevocationHolds
  CentralFaithful
  ExportComplete
  TrustEnds
PROPERTIES
  ReportsArriveAndExpire
  NewKeysArrive
CHECK_DEADLOCK FALSE
