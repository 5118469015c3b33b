CONSTANTS
  Lines = 13
  TextRoom = 5
  Chars = {"a", "b"}
  MaxSize = 12
SPECIFICATION Spec
PROPERTIES
  SpaceMarksTheSelectedRow
