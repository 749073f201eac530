SPECIFICATION Spec
CONSTANTS
  tms = tms  flip = flip  bing = bing  wms = wms
  None = None  w1 = w1 
  Source = {tms}
  Urls <- QuadkeyUrls
  Zoom = {1}
  Rows <- MCRows
  MemZoom = {1}
  Heuristic <- NoHeuristic
  Config <- MCPlain
  ASYNC_WRITEBACK = FALSE
  GEOWATCH_ENABLED = FALSE
  IndirectLog = TRUE
  Faults = {}
  MaxVersion = 0
  Worker = {w1}
INVARIANTS ServesTheTileAsked
