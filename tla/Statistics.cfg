SPECIFICATION MCSpec
CONSTANTS
  None = None
  Empty = Empty
  Broken = Broken
  r1 = r1
  r2 = r2
  o1 = o1
  o2 = o2
  Request = {r1, r2}
  ListStats <- Collections
  Operators = {o1, o2}
  Operations = {"logs_clear", "logs_reload", "stats_clear", "stats_reload"}
  Faults = {"mongo", "stream"}
  MaxCrashes = 1
  MaxOps = 2
  Writer = {"cron", "task"}
  STATS_SAVE_MEMORY = TRUE
  MaxFails = 1
INVARIANTS PipelineTypeOK CountedOnce NoneMissed
PROPERTIES FileHeals PagesCatchUp
CHECK_DEADLOCK FALSE
