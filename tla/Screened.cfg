SPECIFICATION Spec
CONSTANTS
  tms = tms  flip = flip  bing = bing  wms = wms
  None = None  w1 = w1 
  Source = {flip}
  Urls <- AgreeingUrls
  Zoom = {0, 1}
  Rows <- MCRows
  MemZoom = {1}
  Heuristic <- AllHeuristics
  Config <- MCClipped
  ASYNC_WRITEBACK = TRUE
  GEOWATCH_ENABLED = TRUE
  IndirectLog = TRUE
  Faults = {"evict", "memcached", "consumer", "stream", "upstream", "edit"}
  MaxVersion = 0
  Worker = {w1}
INVARIANTS TypeOK OnlyEligibleCached EverCacheableOnly InFlightSound
PROPERTIES NoTileErased ImplementsService
