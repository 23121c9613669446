CONSTANTS
  NoSession = NoSession
  MaxMatches = 2
  MaxInbox = 3
SPECIFICATION FairSpec
INVARIANTS
  TypeOK
  GameScreenIsLive
  ConnectedMeansPolled
PROPERTIES
  StartIsNoticed
  EndIsNoticed
