SPECIFICATION Spec
CONSTANTS
  tms = tms  flip = flip  bing = bing  wms = wms
  None = None  w1 = w1  w2 = w2 
  Source = {tms, flip, bing, wms}
  Urls <- AgreeingUrls
  Zoom = {1}
  Rows <- MCRows
  MemZoom = {1}
  Heuristic <- NoHeuristic
  Config <- MCPlain
  ASYNC_WRITEBACK = FALSE
  GEOWATCH_ENABLED = FALSE
  IndirectLog = TRUE
  Faults = {"evict"}
  MaxVersion = 0
  Worker = {w1, w2}
SYMMETRY Symmetry
INVARIANTS ServesTheTileAsked KeyNamesPlace
