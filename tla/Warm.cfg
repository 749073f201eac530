SPECIFICATION FairSpec
CONSTANTS
  tms = tms  flip = flip  bing = bing  wms = wms
  None = None  w1 = w1 
  Source = {tms}
  Urls <- Proxied
  Zoom = {1}
  Rows <- MCRows
  MemZoom = {1}
  Heuristic <- Nearby
  Config <- MCPlain
  ASYNC_WRITEBACK = TRUE
  GEOWATCH_ENABLED = TRUE
  IndirectLog = TRUE
  Faults = {}
  MaxVersion = 0
  Worker = {w1}
PROPERTIES  WriteBackArrives
