CONSTANTS
  Players = {p1, p2}
  Endpoints = {e1, e2}
  Timeout = 2
  MaxSessions = 3
SPECIFICATION FairSpec
INVARIANTS
  TypeOK
  PlayerIndexExact
  EndpointIndexSound
PROPERTIES
  NoLiveSessionLost
  EndedStaysEnded
  SilenceEnds
