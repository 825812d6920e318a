\* Battles only: three players for two seats, two battle rows, every order of
\* queueing, disconnecting, replacing, resuming, expiring and forfeiting.
SPECIFICATION Spec
CONSTANTS
  Uids = {p1, p2, p3}
  p1 = p1
  p2 = p2
  p3 = p3
  Items = {hen}
  hen = hen
  None = None
  Matches = {1, 2}
  Trades = {}
  Days = {1}
  BattleUids = {p1, p2, p3}
  TradeUids = {}
  BlockUids = {}
  ReportUids = {}
  AckUids = {}
  TeamSize = 1
  SessionLimit = 2
  StarterQty = 2
  Operator = FALSE
  MixedUids = {}
INVARIANTS  AlarmArmed SettledExactlyOnce InventoryMatchesLedger
PROPERTIES KeepsContract
CHECK_DEADLOCK FALSE
SYMMETRY Symmetry
CONSTRAINT OneReplacement
