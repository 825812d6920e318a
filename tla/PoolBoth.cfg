\* Both sides at once: two players with both capabilities, one battle row and
\* one trade row, an operator who drains and reopens, with fairness.
SPECIFICATION FairSpec
CONSTANTS
  Uids = {p1, p2}
  p1 = p1
  p2 = p2
  Items = {hen}
  hen = hen
  None = None
  Matches = {1}
  Trades = {1}
  Days = {1, 2}
  BattleUids = {p1, p2}
  TradeUids = {p1, p2}
  BlockUids = {}
  ReportUids = {}
  AckUids = {p1, p2}
  TeamSize = 1
  SessionLimit = 2
  StarterQty = 2
  Operator = TRUE
  MixedUids = {}
PROPERTIES ReadOnlyFreezesAuthority NoDefeatWhileAway PauseEnds 
CHECK_DEADLOCK FALSE
