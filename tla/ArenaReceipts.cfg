SPECIFICATION FairSpec
CONSTANTS
  p1 = p1
  p2 = p2
  p3 = p3
  Uids = {p1, p2}
  Players = {p1}
  Matches = {1}
  Accounts <- NearAccounts
  Limit = 1
  LedgerSize = 1
  Horizon = 0
  Kills = 0
  None = None
PROPERTY
  EveryReceiptAcknowledged
CHECK_DEADLOCK FALSE
