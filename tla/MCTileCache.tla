----------------------------- MODULE MCTileCache -----------------------------
(***************************************************************************)
(* Instances of TileCache for TLC.                                         *)
(***************************************************************************)
EXTENDS TileCacheService, FiniteSets, TLC

CONSTANTS tms, flip, bing, wms   \* one source of each type, by its name

\* Web Mercator: the number of rows doubles with the zoom level.
MCRows == [z \in Zoom |-> 2 ^ z]

PlainConfig == [type |-> TYPE_TMS, extents |-> None,
                minZoom |-> 0, maxZoom |-> None, auth |-> FALSE]

TypeOf == tms :> TYPE_TMS @@ flip :> TYPE_TMS_FLIPPED @@ bing :> TYPE_BING @@ wms :> TYPE_WMS

MCPlain == [s \in Source |-> [PlainConfig EXCEPT !.type = TypeOf[s]]]

\* Zoom level 1 only, and there only the northern row.
MCClipped == [s \in Source |-> [MCPlain[s] EXCEPT
  !.minZoom = 1, !.maxZoom = 1, !.extents = {[z |-> 0, y |-> 0], [z |-> 1, y |-> 0]}]]

\* z/x/y through the proxy.
Proxied == [src: Source, service: {NoService}, quadkey: {FALSE}]
\* Both forms of url through all services that agree.  A WMS service numbers rows
\* as a TMS service does, and a WMS source is never asked for a row.
AgreeingUrls ==
  {url \in Url : /\ Agrees(url) /\ url.service # TYPE_WMS
                 /\ Config[url.src].type = TYPE_WMS => url.service = NoService}
\* z/x/y through any service, and quadkeys through any.
PlainUrls == [src: Source, service: TileType \cup {NoService}, quadkey: {FALSE}]
QuadkeyUrls == [src: Source, service: TileType \cup {NoService}, quadkey: {TRUE}]

NoHeuristic == [nearby |-> None, up |-> None, down |-> None]
Nearby == [NoHeuristic EXCEPT !.nearby = 1]
NearbyAndUp == [Nearby EXCEPT !.up = 1]
AllHeuristics == [NearbyAndUp EXCEPT !.down = [depth |-> 1, minZoom |-> 0, maxZoom |-> 1]]

Symmetry == Permutations(Worker)
=============================================================================
