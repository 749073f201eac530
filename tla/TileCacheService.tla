--------------------------- MODULE TileCacheService ---------------------------
(***************************************************************************)
(* The tile path implements TileService: what a client sees of it is what  *)
(* a server without cache, daemon and write-back might have answered.      *)
(***************************************************************************)
EXTENDS TileCache

\* The place the client of the request means, in its own numbering.
PlaceAsked(a) ==
  [src |-> a.url.src, tile |-> [z |-> a.key.tile.z, y |-> RowMeant(a)]]

\* What the limits of its source say of a place; a WMS source is never asked.
Limits(k) ==
  IF ~IntersectsSource(k.src, k.tile.z, flip_y(k.tile.y, k.tile.z)) THEN "blank"
  ELSE IF ValidZoom(k.src, k.tile.z) /\ Config[k.src].type # TYPE_WMS THEN "open"
  ELSE "red"

\* A request fails for its own source or for the log stream: memcached, the
\* daemon and the write-back queue may fail without a client noticing.
MayFail(k) == Config[k.src].auth \/ Faults \cap {"upstream", "stream"} # {}

\* The response that greenlet w sends.
Response(w) ==
  IF reply[w] = "tile"
    THEN [kind |-> "tile",
          place |-> [src |-> ask[w].key.src,
                     tile |-> [z |-> ask[w].key.tile.z, y |-> got[w].south]],
          version |-> got[w].version]
  ELSE [kind |-> reply[w], place |-> None, version |-> 0]

Service == INSTANCE TileService WITH
  Client <- Worker,
  Place <- Key,
  Verdict <- [k \in Key |-> Limits(k)],
  Failing <- {k \in Key : MayFail(k)},
  asked <- [w \in Worker |-> IF ask[w] = None THEN None ELSE PlaceAsked(ask[w])],
  answer <- [w \in Worker |-> Response(w)]

-----------------------------------------------------------------------------
\* Every step of handlers, daemon, write-back and memcached is one that the
\* service may take, or none that a client could notice.
ImplementsService == Service!Spec

\* With running workers and daemons, no client waits for ever either.
KeepsPromise == Service!Promise
=============================================================================
