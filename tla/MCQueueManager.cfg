CONSTANTS
  NoPlayer = NoPlayer
  Players = {p1, p2, p3, p4, p5, p6}
  ActiveCount = 2
  WaitingCapacity = 3
SPECIFICATION Spec
INVARIANTS
  TypeOK
  NobodyTwice
  NoIdlePlace
PROPERTIES
  PositionNeverWorse
  RoomIsALine
