CONSTANTS
  Threads = {t1, t2}
  Nodes = {n1, n2, n3}
  Ids <- ThreeIds
  Nil = Nil
  NoThread = NoThread
SPECIFICATION HSpec
SYMMETRY Symmetry
INVARIANTS
  TypeOK
  SizeIsALengthItHad
  NoBadDereference
  ClearFreesTheList
PROPERTIES
  ImplementsWorkStack
