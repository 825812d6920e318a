\* No fault at all: play during an automatic download is overwritten.
SPECIFICATION Spec
CONSTANTS
  Devices = {d1, d2}
  Plays = {a, b}
  Choices = 3
  Faults = 0
  None = None
SYMMETRY Symmetry
PROPERTIES DownloadDropsNothingNew
CHECK_DEADLOCK FALSE
