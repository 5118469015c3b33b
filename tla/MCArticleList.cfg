CONSTANTS
  Nodes = {n1, n2, n3, n4}
  Hashes = {h1, h2}
  NoHash = NoHash
  Replies <- MixedReplies
  Nil = Nil
  Wild = Wild
  Concurrent = FALSE
SPECIFICATION FairSpec
INVARIANTS
  ListIsDoublyLinked
  NoDuplicateArticles
  CrashOnlyFromGarbage
PROPERTIES
  SortIsAStablePartition
  MarksSurvive
  FetchEnds
  KeyEnds
