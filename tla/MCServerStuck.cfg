CONSTANTS
  Players = {p1, p2, p3, p4}
  NoPlayer = NoPlayer
  NoMatch = NoMatch
  ActiveCount = 2
  WaitingCapacity = 2
  KoTarget = 1
  MatchTicks = 1
  Timeout = 2
  MaxSessions = 4
  Leavers = {p1}
  Unreliable = {}
SPECIFICATION FairSpec
PROPERTIES
  WaitersPlay
