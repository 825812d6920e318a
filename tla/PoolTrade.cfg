\* Trades only: three players, two trade rows, two kinds of animal.  One of them
\* mixes battle and trade messages on one socket, so that its trades overlap.
SPECIFICATION Spec
CONSTANTS
  Uids = {p1, p2, p3}
  p1 = p1
  p2 = p2
  p3 = p3
  Items = {hen, fox}
  hen = hen
  fox = fox
  None = None
  Matches = {}
  Trades = {1, 2}
  Days = {1}
  BattleUids = {}
  TradeUids = {p1, p2, p3}
  BlockUids = {}
  ReportUids = {}
  AckUids = {}
  TeamSize = 1
  SessionLimit = 3
  StarterQty = 2
  Operator = FALSE
  MixedUids = {p1}
INVARIANTS  InventoryMatchesLedger LastCopyIsKept
PROPERTIES ConfirmationBinds
CHECK_DEADLOCK FALSE
SYMMETRY MixedSymmetry
CONSTRAINT OneReplacement
