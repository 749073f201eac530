SPECIFICATION Spec
CONSTANTS
  tms = tms  flip = flip  bing = bing  wms = wms
  None = None  w1 = w1  w2 = w2 
  Source = {tms}
  Urls <- Proxied
  Zoom = {0}
  Rows <- MCRows
  MemZoom = {0}
  Heuristic <- NoHeuristic
  Config <- MCPlain
  ASYNC_WRITEBACK = TRUE
  GEOWATCH_ENABLED = FALSE
  IndirectLog = TRUE
  Faults = {}
  MaxVersion = 1
  Worker = {w1, w2}
PROPERTIES WriteBackOnce
