CONSTANTS
  Nodes = {n1, n2, n3}
  Hashes = {h1, h2, h3}
  NoHash = NoHash
  Replies <- LongReplies
  Nil = Nil
  Wild = Wild
  Concurrent = TRUE
SPECIFICATION Spec
PROPERTIES
  SortLosesNothing
