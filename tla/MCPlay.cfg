CONSTANTS
  Width = 4
  Hidden = 2
  Visible = 3
  BagPieces = {"T", "I"}
  Bags = 2
  Preview = 1
  LockTicks = 2
  GravityTicks = 1
  SoftTicks = 2
  NoPiece = NoPiece
  Me = Me
  Opponent = Opponent
  NoPlayer = NoPlayer
  Holes = {0}
  MaxActions = 2
  MaxGarbage = 1
  MaxSoft = 2
  MaxPieces = 2
SPECIFICATION Spec
CHECK_DEADLOCK FALSE
INVARIANTS
  TypeOK
  ActiveFits
  NoFullRow
  HiddenRowsEmpty
  HoldOncePerPiece
  DeadMeansToppedOut
PROPERTIES
  BlocksConserved
  
