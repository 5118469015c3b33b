CONSTANTS
  NumLists = 3
  MaxNodes = 8
  MaxKey = 2
SPECIFICATION Spec
INVARIANT SlotsArePowersOfTwo
PROPERTY SortsEndStable
