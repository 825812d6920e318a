\* Two devices of one player, two plays and two faults of any kind.
SPECIFICATION FairSpec
CONSTANTS
  Devices = {d1, d2}
  Plays = {a, b}
  Choices = 3
  Faults = 2
  None = None
INVARIANTS TypeOK CheckpointIsAncestor NothingForgotten  
PROPERTIES CloudLossIsChosen DownloadReplacesAncestor EventuallyBackedUp
CHECK_DEADLOCK FALSE
