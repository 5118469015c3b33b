CONSTANTS
  Width = 5
  TargetRoom = 24
  BreakRoom = 3
  LineRoom = 7
  MaxPieces = 4
  Slots = 4
  Words <- MCWords
  Anchors <- MCAnchors
SPECIFICATION TextSpec
INVARIANTS
  TypeOK
  LinesSayTheText
  LinesFit
  RoomForLines
  LinksAreKept
