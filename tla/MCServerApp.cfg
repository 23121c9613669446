CONSTANTS
  Players = {p1, p2, p3, p4}
  NoPlayer = NoPlayer
  NoMatch = NoMatch
  ActiveCount = 2
  WaitingCapacity = 1
  KoTarget = 2
  MatchTicks = 1
  Timeout = 2
  MaxSessions = 5
  Leavers = {p1, p2, p3, p4}
  Unreliable = {p1, p2, p3, p4}
SPECIFICATION Spec
SYMMETRY Symmetry
INVARIANTS
  TypeOK
  MatchIsTheLineUp
  PlacesHaveSessions
PROPERTIES
  MatchEndReachesPlayers
  WinnerStaysOn
  MatchStartReachesPlayers
