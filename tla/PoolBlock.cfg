\* One player blocks and unblocks, the other reports and blocks in one message
\* that is recorded long after it was sent: one battle row and one trade row.
SPECIFICATION Spec
CONSTANTS
  Uids = {p1, p2}
  p1 = p1
  p2 = p2
  Items = {hen}
  hen = hen
  None = None
  Matches = {1}
  Trades = {1}
  Days = {1}
  BattleUids = {p1, p2}
  TradeUids = {p1, p2}
  BlockUids = {p2}
  ReportUids = {p1}
  AckUids = {}
  TeamSize = 1
  SessionLimit = 2
  StarterQty = 2
  Operator = FALSE
  MixedUids = {}
PROPERTIES BlockSeparates
CHECK_DEADLOCK FALSE
CONSTRAINT NoReplacement
