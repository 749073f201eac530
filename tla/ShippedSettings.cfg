SPECIFICATION FairSpec
CONSTANTS
  tms = tms  flip = flip  bing = bing  wms = wms
  None = None  w1 = w1 
  Source = {tms}
  Urls <- Proxied
  Zoom = {1}
  Rows <- MCRows
  MemZoom = {1}
  Heuristic <- Nearby
  Config <- MCPlain
  ASYNC_WRITEBACK = FALSE
  GEOWATCH_ENABLED = TRUE
  IndirectLog = FALSE
  Faults = {}
  MaxVersion = 0
  Worker = {w1}
PROPERTIES PrefetchWarms
