\* A report that also blocks waits for D1 while its reporter trades on.
SPECIFICATION Spec
CONSTANTS
  Uids = {p1, p2}
  p1 = p1
  p2 = p2
  Items = {hen}
  hen = hen
  None = None
  Matches = {}
  Trades = {1, 2}
  Days = {1}
  BattleUids = {p1, p2}
  TradeUids = {p1, p2}
  BlockUids = {p1, p2}
  ReportUids = {p1, p2}
  AckUids = {}
  TeamSize = 1
  SessionLimit = 2
  StarterQty = 2
  Operator = FALSE
  MixedUids = {}

PROPERTIES BlockedNeverExchange
CHECK_DEADLOCK FALSE
SYMMETRY Symmetry
