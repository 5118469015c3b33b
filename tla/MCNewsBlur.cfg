CONSTANTS
  PageSize = 2
  MaxUnread = 5
  MaxArrivals = 2
  MaxReads = 2
  Keep = 3
SPECIFICATION Spec
INVARIANTS
  ListHasAHead
  ShiftsAreBounded
