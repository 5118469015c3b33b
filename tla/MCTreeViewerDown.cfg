CONSTANTS
  Nodes <- FourNodes
  Root = 1
  Null = Null
  Trees <- AllTrees
  WindowSize = 3
  FlatLimit = 3
  Bound = 3
  Nothing = Nothing
  Garbage = Garbage
SPECIFICATION Spec
PROPERTIES
  DownStopsAtTheEnd
