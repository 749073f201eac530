SPECIFICATION Spec
CONSTANTS
  None = None
  w1 = w1
  w2 = w2
  Name = {1, 2}
  Worker = {w1, w2}
  FirstId = 4
  Url <- Urls
  Filled <- Fill
  Scenarios <- OneProxy
PROPERTIES OriginIsOptional
