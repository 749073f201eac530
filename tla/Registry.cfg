SPECIFICATION FairSpec
CONSTANTS
  None = None
  w1 = w1
  w2 = w2
  Name = {1, 2}
  Worker = {w1, w2}
  FirstId = 4
  Url <- Urls
  Filled <- Fill
  Scenarios <- All
INVARIANTS TypeOK BoundedDuplicates
PROPERTIES ListsConverge
