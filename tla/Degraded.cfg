SPECIFICATION ExpirySpec
CONSTANTS
  tms = tms  flip = flip  bing = bing  wms = wms
  None = None  w1 = w1  w2 = w2 
  Source = {tms}
  Urls <- Proxied
  Zoom = {0}
  Rows <- MCRows
  MemZoom = {0}
  Heuristic <- Nearby
  Config <- MCPlain
  ASYNC_WRITEBACK = FALSE
  GEOWATCH_ENABLED = TRUE
  IndirectLog = TRUE
  Faults = {"evict", "memcached", "consumer"}
  MaxVersion = 1
  Worker = {w1, w2}
PROPERTIES KeepsPromise StaleTilesDrain
