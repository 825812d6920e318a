SPECIFICATION Spec
CONSTANTS
  p1 = p1
  p2 = p2
  p3 = p3
  Uids = {p1, p2, p3}
  Players = {p1}
  Matches = {1, 2}
  Accounts <- AccountsDef
  Limit = 1
  LedgerSize = 1
  Horizon = 2
  Kills = 2
  None = None
INVARIANTS
  AppliedOnce
  AckedIsSaved
  
CHECK_DEADLOCK FALSE
