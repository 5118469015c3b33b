CONSTANTS
  Threads = {t1, t2}
  Nodes = {n1, n2}
  Ids <- ThreeIds
  Nil = Nil
  NoThread = NoThread
SPECIFICATION FairSpec
PROPERTIES
  MutexReleased
