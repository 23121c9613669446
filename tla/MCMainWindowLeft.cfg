CONSTANTS
  NoSession = NoSession
  MaxMatches = 2
  MaxInbox = 3
SPECIFICATION Spec
PROPERTIES
  MatchStaysOnScreen
