CONSTANTS
  Items <- FiveItems
  Root = 1
  Stories <- AllStories
  ArraySize = 3
SPECIFICATION FairSpec
INVARIANTS
  TypeOK
  NeverFetchedAgain
  NothingForgotten
  OverflowOnlyWhenFull
  TreeIsWhatWasAnswered
  RepliesAreReversed
PROPERTIES
  TriesNeverHelp
  DownloadEnds
