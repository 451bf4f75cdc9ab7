SPECIFICATION Spec
CONSTANTS
  Workers = {w1, w2}
  NoWorker = none
  Names = {n1, n2}
  NoName = unnamed
  Handlers = {h1, h2, h3}
  Boot = boot
  MaxFaults = 2
  MaxCrashes = 2
SYMMETRY Symmetry
CHECK_DEADLOCK FALSE
INVARIANTS TypeOK EndedIsDead AuditsTellOneLife EndIsAnnounced UniqueNames StartingIsUnderWay
PROPERTIES EndedStaysEnded
