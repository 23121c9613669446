CONSTANTS
  Players = {p1, p2, p3}
  NoPlayer = NoPlayer
  NoMatch = NoMatch
  ActiveCount = 2
  WaitingCapacity = 1
  KoTarget = 1
  MatchTicks = 1
  Timeout = 2
  MaxSessions = 3
  Leavers = {p1, p2, p3}
  Unreliable = {p1, p2, p3}
SPECIFICATION Spec
SYMMETRY Symmetry
INVARIANTS
  AnnouncedPositions
