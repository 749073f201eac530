------------------------------ MODULE TileCache ------------------------------
(***************************************************************************)
(* The tile path of the server: request handlers (_requestTile) that look  *)
(* a tile up in memcached, fetch it from its source on a miss and write it *)
(* back; the prefetch daemon, which takes guessed tiles from the           *)
(* "requests" stream and runs taskRequestTile on each; and the Celery      *)
(* workers that run taskWriteBackTile.  All share one memcached.           *)
(*                                                                         *)
(* An action ends where the code waits for another process (memcached, the *)
(* source, a broker), which is where gevent lets another greenlet run.     *)
(***************************************************************************)
EXTENDS TileAddress

CONSTANTS
  Source,        \* tile sources
  Config,        \* Config[s]: type, extents, minZoom, maxZoom, auth of s
  Urls,          \* what a request's url may name, see Url
  Worker,        \* greenlets that serve requests
  MemZoom,       \* TILEJET['cache']['memory']: zoom levels kept in memcached
  Heuristic,     \* TILEJET['heuristic']: nearby radius, up and down depth
  ASYNC_WRITEBACK,
  GEOWATCH_ENABLED,
  IndirectLog,   \* can taskRequestTile write its line of the indirect log?
  Faults,        \* what may go wrong or be changed during a run
  MaxVersion,    \* bound on how often a source changes a tile
  None

AllFaults == {"upstream", "evict", "memcached", "consumer", "stream", "edit"}

SourceConfig ==
  [type: TileType, extents: {None} \cup SUBSET Tile,
   minZoom: {None} \cup Nat, maxZoom: {None} \cup Nat, auth: BOOLEAN]

ASSUME ConfigAssumption == Config \in [Source -> SourceConfig]

\* A url of tile_tms or proxy_tms: the source, the type of the service over it
\* (NoService: proxied), and whether it gives a quadkey or z/x/y.
Url == [src: Source, service: TileType \cup {NoService}, quadkey: BOOLEAN]

ASSUME UrlsAssumption == Urls \subseteq Url
ASSUME SettingsAssumption ==
  /\ MemZoom \subseteq Zoom
  /\ {ASYNC_WRITEBACK, GEOWATCH_ENABLED, IndirectLog} \subseteq BOOLEAN
  /\ Faults \subseteq AllFaults
  /\ MaxVersion \in Nat

VARIABLES
  cacheable,      \* the sources' cacheable flag, as the source list holds it
  everCacheable,  \* history: sources whose flag has been set at some time
  version,        \* version[k]: the picture the source serves for tile k now
  tiles,          \* memcached "tiles"
  cacheUp,        \* is memcached reachable?
  pc, ask, conn, got, reply,  \* request handlers
  topic,          \* "requests" stream
  batch, job,     \* prefetch daemon: rest of its batch, tile in work
  queue,          \* "writeback" queue
  writing         \* write-backs that have made their double check

handlers == <<pc, ask, conn, got, reply>>
prefetch == <<topic, batch, job>>
writeback == <<queue, writing>>
settings == <<cacheable, everCacheable>>
vars == <<settings, version, tiles, cacheUp, handlers, prefetch, writeback>>

Key == [src: Source, tile: Tile]
Picture == [south: Int, version: Nat]   \* a tile image: what it shows, how new
Message == [key: Key, tile: Picture]
Job == [key: Key, pc: {"fetch", "set"}, tile: Picture \cup {None}]
Ask == [key: Key, u: Int, url: Urls]
PC == {"idle", "lookup", "bypass", "fetch", "writeback", "done"}
Reply == {"none", "tile", "blank", "red", "error"}

ASSUME NoneAssumption == None \notin Nat \cup Picture \cup Ask \cup Key

-----------------------------------------------------------------------------
\* Does the tile meet the source's extents?  bbox_intersects_source takes iyf.
IntersectsSource(s, z, iyf) ==
  Config[s].extents # None => [z |-> z, y |-> iyf] \in Config[s].extents

\* A limit that is None or 0 is not tested: both are false in Python.
ValidZoom(s, z) ==
  /\ Config[s].minZoom \notin {None, 0} => z >= Config[s].minZoom
  /\ Config[s].maxZoom \notin {None, 0} => z <= Config[s].maxZoom

\* Tiles that may enter memcached, by the tests both paths make.
Eligible(k) == /\ k.tile.z \in MemZoom
               /\ ValidZoom(k.src, k.tile.z)
               /\ IntersectsSource(k.src, k.tile.z, flip_y(k.tile.y, k.tile.z))

indirectTiles(t) ==
  (IF Heuristic.nearby = None THEN {} ELSE getNearbyTiles(t, Heuristic.nearby))
  \cup (IF Heuristic.up = None THEN {} ELSE getParentTiles(t, Heuristic.up))
  \cup (IF Heuristic.down = None THEN {}
        ELSE getChildrenTiles(t, Heuristic.down.depth,
                              Heuristic.down.minZoom, Heuristic.down.maxZoom))

\* The picture source s answers with when its url carries row number n.
requestTileFromSource(s, z, n) ==
  LET south == SouthRow(Config[s].type, n, z)
  IN [south |-> south,
      version |-> version[[src |-> s, tile |-> [z |-> z, y |-> south]]]]

\* A source with an auth token raises NameError while its url is built.
Reachable(s) == Config[s].type # TYPE_WMS /\ ~Config[s].auth

\* getTileFromCache finds a tile that has not expired.
Hit(k) == cacheUp /\ tiles[k] # None

\* tilecache.set.  It fails when memcached is down, and on a connection that
\* was opened to an earlier memcached.
SetSucceeds(k, tile) == cacheUp /\ tiles' = [tiles EXCEPT ![k] = tile]
SetFails == (~cacheUp \/ "memcached" \in Faults) /\ tiles' = tiles

-----------------------------------------------------------------------------
Init ==
  /\ cacheable \in [Source -> BOOLEAN]
  /\ everCacheable = {s \in Source : cacheable[s]}
  /\ version = [k \in Key |-> 0]
  /\ tiles = [k \in Key |-> None]
  /\ cacheUp = TRUE
  /\ pc = [w \in Worker |-> "idle"]
  /\ ask = [w \in Worker |-> None]
  /\ conn = [w \in Worker |-> FALSE]
  /\ got = [w \in Worker |-> None]
  /\ reply = [w \in Worker |-> "none"]
  /\ topic = {} /\ batch = {} /\ job = None
  /\ queue = {} /\ writing = {}

Answer(w, r) ==
  /\ pc' = [pc EXCEPT ![w] = "done"]
  /\ reply' = [reply EXCEPT ![w] = r]

-----------------------------------------------------------------------------
(***************************************************************************)
(* Request handlers.                                                       *)
(***************************************************************************)

\* How the server reads the row of a url, whether it stood there or in a quadkey.
YValues(url, z, y) == getYValues(url.service, Config[url.src].type, y, z)

\* What the request is for, once its address has been normalised.
Asked(url, z, y) ==
  [key |-> [src |-> url.src, tile |-> [z |-> z, y |-> YValues(url, z, y).iy]],
   u |-> y, url |-> url]

\* A quadkey has a digit for each zoom level; at level 0 there is none.
Addressable(url, z) == url.quadkey => z # 0

Guesses(k) == {[src |-> k.src, tile |-> t] : t \in indirectTiles(k.tile)}

\* Mutant: takes the cache path for every source.
Screen_AnyFlag(w, s, z, iyf) ==
  IF ~IntersectsSource(s, z, iyf) THEN Answer(w, "blank")
  ELSE IF ~ValidZoom(s, z) THEN Answer(w, "red")
  ELSE /\ pc' = [pc EXCEPT ![w] = IF z \in MemZoom THEN "lookup" ELSE "bypass"]
       /\ UNCHANGED reply

\* Mutant: does not test the extents.
Screen_Everywhere(w, s, z, iyf) ==
  IF ~ValidZoom(s, z) THEN Answer(w, "red")
  ELSE /\ pc' = [pc EXCEPT ![w] = IF cacheable[s] /\ z \in MemZoom
                                  THEN "lookup" ELSE "bypass"]
       /\ UNCHANGED reply

\* The screening that follows: extents first, then zoom, then the choice of path.
Screen(w, s, z, iyf) ==
  IF ~IntersectsSource(s, z, iyf) THEN Answer(w, "blank")
  ELSE IF ~ValidZoom(s, z) THEN Answer(w, "red")
  ELSE /\ pc' = [pc EXCEPT ![w] = IF cacheable[s] /\ z \in MemZoom
                                  THEN "lookup" ELSE "bypass"]
       /\ UNCHANGED reply

\* Normalise the address, stream the guesses, screen the tile.  A stream that
\* could not be provisioned is None, and the guesses are dropped.
RequestTile(w, url, z, y) ==
  LET a == Asked(url, z, y)
      s == url.src
  IN /\ pc[w] = "idle" /\ Addressable(url, z)
     /\ ask' = [ask EXCEPT ![w] = a]
     /\ \/ /\ cacheable[s] /\ GEOWATCH_ENABLED
           /\ topic' = topic \cup Guesses(a.key)
        \/ /\ ~cacheable[s] \/ ~GEOWATCH_ENABLED \/ "stream" \in Faults
           /\ topic' = topic
     /\ Screen(w, s, z, YValues(url, z, y).iyf)
     /\ UNCHANGED <<settings, version, tiles, cacheUp, conn, got, batch, job, writeback>>

\* The stream fails during the request: while the guesses are sent, some of
\* which may have got through, or while the request is logged.
StreamFails(w) ==
  /\ "stream" \in Faults
  /\ \/ \E url \in Urls, z \in Zoom : \E y \in Row(z) :
          LET a == Asked(url, z, y)
          IN /\ pc[w] = "idle" /\ Addressable(url, z)
             /\ cacheable[url.src] /\ GEOWATCH_ENABLED
             /\ ask' = [ask EXCEPT ![w] = a]
             /\ \E sent \in SUBSET Guesses(a.key) : topic' = topic \cup sent
     \/ pc[w] \in {"lookup", "bypass"} /\ UNCHANGED <<ask, topic>>
  /\ Answer(w, "error")
  /\ UNCHANGED <<settings, version, tiles, cacheUp, conn, got, batch, job, writeback>>

\* Mutant: writes a hit back as well.
Lookup_WritesBackHits(w) ==
  /\ pc[w] = "lookup"
  /\ got' = [got EXCEPT ![w] = IF Hit(ask[w].key) THEN tiles[ask[w].key] ELSE None]
  /\ conn' = [conn EXCEPT ![w] = cacheUp]
  /\ pc' = [pc EXCEPT ![w] = IF Hit(ask[w].key) THEN "writeback" ELSE "fetch"]
  /\ UNCHANGED <<settings, version, tiles, cacheUp, ask, reply, prefetch, writeback>>

Lookup(w) ==
  /\ pc[w] = "lookup"
  /\ \/ /\ Hit(ask[w].key)
        /\ got' = [got EXCEPT ![w] = tiles[ask[w].key]]
        /\ Answer(w, "tile")
        /\ UNCHANGED conn
     \/ /\ ~Hit(ask[w].key)
        /\ conn' = [conn EXCEPT ![w] = cacheUp]
        /\ pc' = [pc EXCEPT ![w] = "fetch"]
        /\ UNCHANGED <<got, reply>>
  /\ UNCHANGED <<settings, version, tiles, cacheUp, ask, prefetch, writeback>>

\* On a miss the tile goes on to the write-back; on a bypass it is the answer.
Fetch(w) ==
  LET k == ask[w].key
      yvalues == [iy |-> k.tile.y, iyf |-> flip_y(k.tile.y, k.tile.z)]
  IN /\ pc[w] \in {"fetch", "bypass"}
     /\ Reachable(k.src)
     /\ got' = [got EXCEPT ![w] = requestTileFromSource(k.src, k.tile.z,
                                    UrlRow(Config[k.src].type, yvalues, ask[w].u))]
     /\ IF pc[w] = "fetch"
          THEN pc' = [pc EXCEPT ![w] = "writeback"] /\ UNCHANGED reply
          ELSE Answer(w, "tile")
     /\ UNCHANGED <<settings, version, tiles, cacheUp, ask, conn, prefetch, writeback>>

\* urlopen raises, the status is not 200, or the url could not be built.
FetchFails(w) ==
  /\ pc[w] \in {"fetch", "bypass"}
  /\ Config[ask[w].key.src].type # TYPE_WMS
  /\ Config[ask[w].key.src].auth \/ "upstream" \in Faults
  /\ Answer(w, "error")
  /\ UNCHANGED <<settings, version, tiles, cacheUp, ask, conn, got, prefetch, writeback>>

\* No branch fetches from a WMS source: tile stays None.
FetchesNothing(w) ==
  /\ pc[w] \in {"fetch", "bypass"}
  /\ Config[ask[w].key.src].type = TYPE_WMS
  /\ IF pc[w] = "fetch"
       THEN pc' = [pc EXCEPT ![w] = "writeback"] /\ UNCHANGED reply
       ELSE Answer(w, "red")
  /\ UNCHANGED <<settings, version, tiles, cacheUp, ask, conn, got, prefetch, writeback>>

\* Mutant: does not answer before the tile is stored.
WriteBack_WaitsForCache(w) ==
  /\ pc[w] = "writeback" /\ ~ASYNC_WRITEBACK
  /\ conn[w] /\ SetSucceeds(ask[w].key, got[w])
  /\ Answer(w, IF got[w] = None THEN "red" ELSE "tile")
  /\ UNCHANGED <<settings, version, cacheUp, ask, conn, got, prefetch, writeback>>

\* set on the connection of the lookup; a failure is logged and ignored.
WriteBack(w) ==
  /\ pc[w] = "writeback" /\ ~ASYNC_WRITEBACK
  /\ \/ conn[w] /\ (SetSucceeds(ask[w].key, got[w]) \/ SetFails)
     \/ ~conn[w] /\ tiles' = tiles
  /\ Answer(w, IF got[w] = None THEN "red" ELSE "tile")
  /\ UNCHANGED <<settings, version, cacheUp, ask, conn, got, prefetch, writeback>>

\* apply_async; None has no headers, and that exception too is swallowed.
QueueWriteBack(w) ==
  /\ pc[w] = "writeback" /\ ASYNC_WRITEBACK
  /\ \/ queue' = queue \cup {[key |-> ask[w].key, tile |-> got[w]] :
                               x \in {got[w]} \ {None}}
     \/ "stream" \in Faults /\ queue' = queue
  /\ Answer(w, IF got[w] = None THEN "red" ELSE "tile")
  /\ UNCHANGED <<settings, version, tiles, cacheUp, ask, conn, got, prefetch, writing>>

\* The response has been sent; the greenlet takes the next request.
Finish(w) ==
  /\ pc[w] = "done"
  /\ pc' = [pc EXCEPT ![w] = "idle"]
  /\ ask' = [ask EXCEPT ![w] = None]
  /\ conn' = [conn EXCEPT ![w] = FALSE]
  /\ got' = [got EXCEPT ![w] = None]
  /\ reply' = [reply EXCEPT ![w] = "none"]
  /\ UNCHANGED <<settings, version, tiles, cacheUp, prefetch, writeback>>

-----------------------------------------------------------------------------

Poll(b) ==
  /\ batch = {} /\ job = None
  /\ b # {} /\ b \subseteq topic
  /\ batch' = b
  /\ topic' = topic \ b
  /\ UNCHANGED <<settings, version, tiles, cacheUp, handlers, job, writeback>>

\* An exception leaves the task: the daemon dies and is started again by
\* supervisord; the rest of the batch is delivered again or lost.
Dies ==
  LET rest == batch \cup {j.key : j \in {job} \ {None}}
  IN /\ topic' \in {topic, topic \cup rest}
     /\ batch' = {} /\ job' = None

\* The early returns, a memcached that does not answer, a hit.
TaskSkips(k) ==
  /\ k \in batch /\ job = None
  /\ ~Eligible(k) \/ ~cacheUp \/ Hit(k)
  /\ batch' = batch \ {k}
  /\ UNCHANGED <<settings, version, tiles, cacheUp, handlers, topic, job, writeback>>

\* Mutant: returns neither for the extents nor for the zoom.
TaskMisses_Unscreened(k) ==
  /\ k \in batch /\ job = None
  /\ k.tile.z \in MemZoom /\ cacheUp /\ ~Hit(k)
  /\ batch' = batch \ {k}
  /\ job' = [key |-> k, pc |-> "fetch", tile |-> None]
  /\ UNCHANGED <<settings, version, tiles, cacheUp, topic, handlers, writeback>>

TaskMisses(k) ==
  /\ k \in batch /\ job = None
  /\ Eligible(k) /\ cacheUp /\ ~Hit(k)
  /\ IF IndirectLog
       THEN /\ batch' = batch \ {k}
            /\ job' = [key |-> k, pc |-> "fetch", tile |-> None]
            /\ topic' = topic
       ELSE Dies
  /\ UNCHANGED <<settings, version, tiles, cacheUp, handlers, writeback>>

\* Mutant: asks every source for the row of the message.
TaskFetches_Unflipped ==
  /\ job # None /\ job.pc = "fetch"
  /\ LET k == job.key
     IN /\ Reachable(k.src)
        /\ job' = [key |-> k, pc |-> "set",
                   tile |-> requestTileFromSource(k.src, k.tile.z, k.tile.y)]
  /\ UNCHANGED <<settings, version, tiles, cacheUp, handlers, topic, batch, writeback>>

\* The task fetches from TMS and flipped TMS sources only: for any other it
\* goes on with tile None.
TaskFetches ==
  /\ job # None /\ job.pc = "fetch"
  /\ LET k == job.key
         type == Config[k.src].type
         yvalues == [iy |-> k.tile.y, iyf |-> flip_y(k.tile.y, k.tile.z)]
     IN IF type \in {TYPE_TMS, TYPE_TMS_FLIPPED}
          THEN /\ Reachable(k.src)
               /\ job' = [key |-> k, pc |-> "set", tile |->
                    requestTileFromSource(k.src, k.tile.z, UrlRow(type, yvalues, 0))]
          ELSE job' = [key |-> k, pc |-> "set", tile |-> None]
  /\ UNCHANGED <<settings, version, tiles, cacheUp, handlers, topic, batch, writeback>>

\* Mutant: does not return after the exception.
TaskFetchFails_GoesOn ==
  /\ job # None /\ job.pc = "fetch"
  /\ Config[job.key.src].auth \/ "upstream" \in Faults
  /\ job' = [job EXCEPT !.pc = "set"]
  /\ UNCHANGED <<settings, version, tiles, cacheUp, handlers, topic, batch, writeback>>

\* Every exception of the fetch is logged, and the task returns.
TaskFetchFails ==
  /\ job # None /\ job.pc = "fetch"
  /\ Config[job.key.src].type \in {TYPE_TMS, TYPE_TMS_FLIPPED}
  /\ Config[job.key.src].auth \/ "upstream" \in Faults
  /\ job' = None
  /\ UNCHANGED <<settings, version, tiles, cacheUp, handlers, topic, batch, writeback>>

\* set stands outside the try.
TaskSets ==
  /\ job # None /\ job.pc = "set"
  /\ \/ SetSucceeds(job.key, job.tile) /\ job' = None /\ UNCHANGED <<topic, batch>>
     \/ SetFails /\ Dies
  /\ UNCHANGED <<settings, version, cacheUp, handlers, writeback>>

ConsumerCrashes ==
  /\ "consumer" \in Faults
  /\ batch # {} \/ job # None
  /\ Dies
  /\ UNCHANGED <<settings, version, tiles, cacheUp, handlers, writeback>>

-----------------------------------------------------------------------------
(***************************************************************************)
(* Celery workers: taskWriteBackTile.                                      *)
(***************************************************************************)

\* Mutant: the double check is the wrong way round.
WriteBackChecks_Inverted(m) ==
  /\ m \in queue
  /\ queue' = queue \ {m}
  /\ writing' = IF cacheUp /\ Hit(m.key) THEN writing \cup {m} ELSE writing
  /\ UNCHANGED <<settings, version, tiles, cacheUp, handlers, prefetch>>

\* Look the key up; the task ends here on a hit and without memcached.
WriteBackChecks(m) ==
  /\ m \in queue
  /\ queue' = queue \ {m}
  /\ writing' = IF cacheUp /\ ~Hit(m.key) THEN writing \cup {m} ELSE writing
  /\ UNCHANGED <<settings, version, tiles, cacheUp, handlers, prefetch>>

\* An exception of set ends the task.
WriteBackSets(m) ==
  /\ m \in writing
  /\ writing' = writing \ {m}
  /\ SetSucceeds(m.key, m.tile) \/ SetFails
  /\ UNCHANGED <<settings, version, cacheUp, handlers, prefetch, queue>>

\* x-message-ttl, or the broker restarts: its messages are lost.
WriteBackExpires(m) ==
  /\ "stream" \in Faults
  /\ m \in queue
  /\ queue' = queue \ {m}
  /\ UNCHANGED <<settings, version, tiles, cacheUp, handlers, prefetch, writing>>

-----------------------------------------------------------------------------
(***************************************************************************)
(* Everything else that happens to the shared state.                       *)
(***************************************************************************)

\* An operator edits the source, and its entry of the source list is reloaded.
SourcesEdit(s) ==
  /\ "edit" \in Faults
  /\ cacheable' = [cacheable EXCEPT ![s] = ~cacheable[s]]
  /\ everCacheable' = IF cacheable[s] THEN everCacheable ELSE everCacheable \cup {s}
  /\ UNCHANGED <<version, tiles, cacheUp, handlers, prefetch, writeback>>

UpstreamPublishes(k) ==
  /\ version[k] < MaxVersion
  /\ version' = [version EXCEPT ![k] = version[k] + 1]
  /\ UNCHANGED <<settings, tiles, cacheUp, handlers, prefetch, writeback>>

\* memcached evicts the tile, or its Expires time passes.
Evict(k) ==
  /\ "evict" \in Faults
  /\ tiles[k] # None
  /\ tiles' = [tiles EXCEPT ![k] = None]
  /\ UNCHANGED <<settings, version, cacheUp, handlers, prefetch, writeback>>

\* The flush view clears the tile cache when it can reach it.
Flush ==
  /\ "evict" \in Faults
  /\ cacheUp
  /\ tiles' = [k \in Key |-> None]
  /\ UNCHANGED <<settings, version, cacheUp, handlers, prefetch, writeback>>

\* memcached stops and comes back empty.
CacheGoesDown ==
  /\ "memcached" \in Faults
  /\ cacheUp
  /\ cacheUp' = FALSE
  /\ tiles' = [k \in Key |-> None]
  /\ UNCHANGED <<settings, version, handlers, prefetch, writeback>>

CacheComesUp ==
  /\ ~cacheUp
  /\ cacheUp' = TRUE
  /\ UNCHANGED <<settings, version, tiles, handlers, prefetch, writeback>>

-----------------------------------------------------------------------------
Handler(w) ==
  \/ Lookup(w) \/ Fetch(w) \/ FetchFails(w) \/ FetchesNothing(w)
  \/ WriteBack(w) \/ QueueWriteBack(w) \/ Finish(w)

Consumer ==
  \/ \E k \in Key : TaskSkips(k) \/ TaskMisses(k)
  \/ TaskFetches \/ TaskFetchFails \/ TaskSets

Environment ==
  \/ \E s \in Source : SourcesEdit(s)
  \/ \E k \in Key : UpstreamPublishes(k) \/ Evict(k)
  \/ Flush \/ CacheGoesDown \/ CacheComesUp
  \/ ConsumerCrashes

Next ==
  \/ \E w \in Worker, url \in Urls, z \in Zoom : \E y \in Row(z) : RequestTile(w, url, z, y)
  \/ \E w \in Worker : StreamFails(w) \/ Handler(w)
  \/ \E b \in SUBSET topic : Poll(b)
  \/ Consumer
  \/ \E m \in queue : WriteBackChecks(m) \/ WriteBackExpires(m)
  \/ \E m \in writing : WriteBackSets(m)
  \/ Environment

Spec == Init /\ [][Next]_vars

(***************************************************************************)
(* A greenlet that can run is run; a fetch ends, with a picture or an      *)
(* exception; the daemon and the Celery workers do not stop; supervisord   *)
(* starts memcached again; the stream and the queue deliver in order, so   *)
(* that no message on them waits for ever.                                 *)
(***************************************************************************)
Fairness ==
  /\ \A w \in Worker : WF_vars(Handler(w))
  /\ WF_vars(Consumer)
  /\ \A k \in Key : SF_vars(\E b \in SUBSET topic : k \in b /\ Poll(b))
  /\ \A k \in Key : /\ WF_vars(\E m \in queue : m.key = k /\ WriteBackChecks(m))
                    /\ WF_vars(\E m \in writing : m.key = k /\ WriteBackSets(m))
  /\ WF_vars(CacheComesUp)

FairSpec == Spec /\ Fairness

\* Sources that send an Expires time: every tile expires some time.
ExpirySpec == FairSpec /\ \A k \in Key : WF_vars(Evict(k))

-----------------------------------------------------------------------------
(***************************************************************************)
(* Properties.                                                             *)
(***************************************************************************)

\* Every variable has its type; a tile that is worked on is one the path
\* screened, and what has an empty slot has nothing in it.
TypeOK ==
  /\ cacheable \in [Source -> BOOLEAN]
  /\ everCacheable \subseteq Source
  /\ version \in [Key -> 0 .. MaxVersion]
  /\ tiles \in [Key -> Picture \cup {None}]
  /\ cacheUp \in BOOLEAN
  /\ pc \in [Worker -> PC]
  /\ ask \in [Worker -> Ask \cup {None}]
  /\ conn \in [Worker -> BOOLEAN]
  /\ got \in [Worker -> Picture \cup {None}]
  /\ reply \in [Worker -> Reply]
  /\ topic \subseteq Key /\ batch \subseteq Key
  /\ job \in Job \cup {None}
  /\ queue \subseteq Message /\ writing \subseteq Message
  /\ \A w \in Worker : pc[w] = "idle" <=> ask[w] = None

\* Where a quadkey comes in, from the client or for the source, the server
\* counts rows from the north as quadkeys do.
Agrees(url) ==
  url.quadkey \/ Config[url.src].type = TYPE_BING =>
    CountsFromNorth(Scheme(url.service, Config[url.src].type))

QuadkeysAgree == \A url \in Urls : Agrees(url)

\* The row, counted from the south, that a client means.
RowMeant(a) ==
  SouthRow(ClientScheme(a.url.quadkey, a.url.service, Config[a.url.src].type), a.u, a.key.tile.z)

\* A client is shown the place it asked for, in the numbering it asked in:
\* whichever handler, task or write-back filled the entry, and from whatever
\* numbering, the conversions in _requestTile, taskRequestTile and the source's
\* url cancel out.
ServesTheTileAsked ==
  \A w \in Worker : reply[w] = "tile" => got[w].south = RowMeant(ask[w])

\* A tile in memcached shows the place its key names.  The key does not say
\* through which service or path the tile came.
KeyNamesPlace == \A k \in Key : tiles[k] # None => tiles[k].south = k.tile.y

\* Only tiles inside the source's extents, its zoom limits and the zoom range
\* of the memory cache are ever cached: the request path, the daemon and the
\* write-back, which tests nothing itself, agree on what those are.
OnlyEligibleCached == \A k \in Key : tiles[k] # None => Eligible(k)

\* A source that was never cacheable has no tile in memcached, although the
\* daemon and the write-back do not look at the flag.
EverCacheableOnly == \A k \in Key : tiles[k] # None => k.src \in everCacheable

\* A tile is forgotten by eviction, a flush or a restart of memcached, but no
\* late set replaces it by nothing.  (Sources of the other types are left out:
\* taskRequestTile sets None for them.)
NoTileErased ==
  [][(\E k \in Key : /\ Config[k.src].type \in {TYPE_TMS, TYPE_TMS_FLIPPED}
                     /\ tiles[k] # None /\ tiles'[k] = None)
     => Flush \/ CacheGoesDown \/ \E k \in Key : Evict(k)]_vars

\* Once its source has stopped to change a tile, the old picture goes from
\* memcached for good: late fills end, and reading a tile does not renew it.
StaleTilesDrain ==
  <>[](\A k \in Key : tiles[k] # None => tiles[k].version = version[k])

\* A guessed tile that may be cached gets into the cache.
PrefetchWarms ==
  \A k \in Key : k \in topic /\ Eligible(k)
                 /\ Config[k.src].type \in {TYPE_TMS, TYPE_TMS_FLIPPED}
              ~> tiles[k] # None

\* Where nothing is lost, a tile that was queued for the write-back is in
\* memcached when its task ends, whoever stored it: the double check may only
\* skip a set that has become needless.
WriteBackArrives ==
  [][\A m \in queue \cup writing :
       m \notin queue' \cup writing' => tiles'[m.key] # None]_vars

-----------------------------------------------------------------------------
(***************************************************************************)
(* The inductive invariant: what the properties above rest on between the  *)
(* steps, when a tile is under way to memcached.                           *)
(***************************************************************************)

\* The key of a request names the place that the server reads from its url.
AskSound ==
  \A w \in Worker : ask[w] # None =>
    /\ ask[w].u \in Row(ask[w].key.tile.z) /\ ask[w].key.src = ask[w].url.src
    /\ ask[w].key.tile.y = SouthRow(Scheme(ask[w].url.service, Config[ask[w].key.src].type),
                                    ask[w].u, ask[w].key.tile.z)

CachePath == {"lookup", "fetch", "writeback"}

\* Whatever may still be written to memcached has been screened.
ScreenedInFlight ==
  /\ \A w \in Worker : pc[w] \in CachePath => Eligible(ask[w].key)
  /\ \A m \in queue \cup writing : Eligible(m.key)
  /\ job # None => Eligible(job.key)

\* It also comes from a source that was cacheable when it was asked for.
CacheableInFlight ==
  /\ \A s \in Source : cacheable[s] => s \in everCacheable
  /\ \A w \in Worker : pc[w] \in CachePath => ask[w].key.src \in everCacheable
  /\ \A k \in topic \cup batch : k.src \in everCacheable
  /\ \A m \in queue \cup writing : m.key.src \in everCacheable
  /\ job # None => job.key.src \in everCacheable

\* It shows the place its key names, and so does what a client is answered.
PlacedInFlight ==
  /\ \A w \in Worker :
       /\ pc[w] = "idle" => reply[w] = "none"
       /\ reply[w] = "tile" => got[w] # None
       /\ got[w] # None => pc[w] # "idle" /\ got[w].south = ask[w].key.tile.y
  /\ \A m \in queue \cup writing : m.tile.south = m.key.tile.y
  /\ job # None => (job.tile # None => job.tile.south = job.key.tile.y)

\* A set for a source that both paths fetch from has a picture to store.
PictureInHand ==
  /\ \A w \in Worker : pc[w] = "writeback" /\ Config[ask[w].key.src].type # TYPE_WMS
                      => got[w] # None
  /\ job # None => (job.pc = "set" /\ Config[job.key.src].type \in {TYPE_TMS, TYPE_TMS_FLIPPED}
                    => job.tile # None)

\* It is a picture of that place as the source has served it some time.
Published(k, tile) == Config[k.src].type # TYPE_WMS /\ tile.version <= version[k]

PublishedInFlight ==
  /\ \A k \in Key : tiles[k] # None => Published(k, tiles[k])
  /\ \A w \in Worker : got[w] # None => Published(ask[w].key, got[w])
  /\ \A m \in queue \cup writing : Published(m.key, m.tile)
  /\ job # None => (job.tile # None => Published(job.key, job.tile))

\* A handler has its answer when it is done; until then it works on a request
\* that is within the limits of its source, cached or not.
WorkInFlight ==
  \A w \in Worker :
    /\ pc[w] = "done" <=> reply[w] # "none"
    /\ pc[w] \in CachePath \cup {"bypass"} =>
         LET k == ask[w].key
         IN ValidZoom(k.src, k.tile.z) /\ IntersectsSource(k.src, k.tile.z, flip_y(k.tile.y, k.tile.z))

InFlightSound ==
  /\ AskSound /\ ScreenedInFlight /\ CacheableInFlight /\ PlacedInFlight /\ PictureInHand
  /\ PublishedInFlight /\ WorkInFlight

-----------------------------------------------------------------------------
(***************************************************************************)
(* What the repository's text says, and the code does not keep to.         *)
(***************************************************************************)

\* "Double check that another thread didn't writeback already"
\* (taskWriteBackTile): a write-back overwrites no tile.
WriteBackOnce == [][\A m \in writing : WriteBackSets(m) /\ tiles' # tiles
                                       => tiles[m.key] = None]_vars
=============================================================================
