SPECIFICATION Spec
CONSTANTS
  Workers = {w1, w2}
  NoWorker = none
  Names = {n1}
  NoName = unnamed
  Handlers = {h1, h2}
  Boot = boot
  MaxFaults = 0
  MaxCrashes = 0
SYMMETRY Symmetry
CHECK_DEADLOCK FALSE
INVARIANTS NamesOfRunningDiffer
