\* Two animals a side, every kind of ability, every order of disconnecting,
\* returning, collecting and expiring.
SPECIFICATION Spec
CONSTANTS
  None = None
  p1 = p1
  p2 = p2
  Sides = {p1, p2}
  Fighters = {1, 2}
  MaxHealth <- FullHealth
  MaxEnergy = 2
  SwitchCost = 1
  Abilities <- AllAbilities
  FirstDelay = 1
  Delays = {1}
  SpawnLife = 2
  Grace = 2
  Horizon = 4
INVARIANTS ActiveFighterAlive FallenHasLost SpawnsAccounted GraceFromFirstLoss
PROPERTIES PauseStopsClocks KeepsContract
CHECK_DEADLOCK FALSE
SYMMETRY Symmetry
