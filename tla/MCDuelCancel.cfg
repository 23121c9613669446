CONSTANTS
  Players = {p1, p2, p3}
  NoPlayer = NoPlayer
  NoMatch = NoMatch
  Server = Server
  ActiveCount = 2
  WaitingCapacity = 1
  KoTarget = 2
  AttackLines = {1, 2}
  Repeats = FALSE
  MaxReports = 2
  MaxGarbage = 3
SPECIFICATION Spec
SYMMETRY Symmetry
CHECK_DEADLOCK FALSE
PROPERTIES
  CancelsWhatIsPending
