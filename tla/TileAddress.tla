----------------------------- MODULE TileAddress -----------------------------
(***************************************************************************)
(* How TileJet names a tile.  TMS numbers the rows of a zoom level from    *)
(* the south; flipped TMS and Bing quadkeys number them from the north.    *)
(* The server normalises every request to the TMS row, which is what the   *)
(* cache key carries, and converts back when it asks the source.           *)
(*                                                                         *)
(* The column takes no part in any conversion, so a tile is a zoom level   *)
(* and a row.  The extension is copied from the request to the key and to  *)
(* the source's url and is left out.                                       *)
(***************************************************************************)
EXTENDS Integers

CONSTANTS
  Zoom,   \* zoom levels
  Rows    \* Rows[z]: number of rows at level z (2^z in Web Mercator)

ASSUME ZoomAssumption == Zoom \subseteq Nat
ASSUME RowsAssumption == Rows \in [Zoom -> Nat \ {0}]

TYPE_TMS == 1
TYPE_TMS_FLIPPED == 2
TYPE_BING == 3
TYPE_WMS == 4
TileType == {TYPE_TMS, TYPE_TMS_FLIPPED, TYPE_BING, TYPE_WMS}

NoService == 0    \* tileservice=None: the request came through the proxy views

Row(z) == 0 .. Rows[z] - 1
Tile == UNION {{[z |-> z, y |-> y] : y \in Row(z)} : z \in Zoom}

\* Mutant: counts the rows from 1.
flip_y_OffByOne(y, z) == Rows[z] - y
flip_y(y, z) == Rows[z] - 1 - y

CountsFromNorth(type) == type \in {TYPE_TMS_FLIPPED, TYPE_BING}

\* The scheme the server takes a row to be numbered in: the service's, else the
\* source's.
Scheme(service, source) == IF service # NoService THEN service ELSE source

\* The scheme the client numbered it in: a quadkey counts from the north through
\* any service and over any source, and so does quadkey_to_tms.
ClientScheme(quadkey, service, source) == IF quadkey THEN TYPE_BING ELSE Scheme(service, source)

\* Mutant: does not look at the service.
getYValues_SourceOnly(service, source, iy, iz) ==
  IF CountsFromNorth(source)
    THEN [iy |-> flip_y(iy, iz), iyf |-> iy]
    ELSE [iy |-> iy, iyf |-> flip_y(iy, iz)]

getYValues(service, source, iy, iz) ==
  IF CountsFromNorth(Scheme(service, source))
    THEN [iy |-> flip_y(iy, iz), iyf |-> iy]
    ELSE [iy |-> iy, iyf |-> flip_y(iy, iz)]

\* Mutant: asks a flipped source for the TMS row.
UrlRow_Unflipped(source, yvalues, u) ==
  IF source \in {TYPE_TMS, TYPE_TMS_FLIPPED} THEN yvalues.iy ELSE u

(***************************************************************************)
(* The number a direct request puts in the source's url: {y} is the TMS or *)
(* the flipped row, {u} the quadkey.  A quadkey is kept as the row number  *)
(* it encodes: the one in a quadkey request, or the unconverted row of a   *)
(* z/x/y request.                                                          *)
(***************************************************************************)
UrlRow(source, yvalues, u) ==
  IF source = TYPE_TMS THEN yvalues.iy
  ELSE IF source = TYPE_TMS_FLIPPED THEN yvalues.iyf
  ELSE u

\* The row, counted from the south, that number n means in a scheme.
SouthRow(scheme, n, z) == IF CountsFromNorth(scheme) THEN flip_y(n, z) ELSE n

-----------------------------------------------------------------------------
(***************************************************************************)
(* The tiles the heuristics guess will be wanted after tile t.             *)
(***************************************************************************)
getNearbyTiles(t, radius) ==
  {n \in Tile : n.z = t.z /\ n.y \in (t.y - radius) .. (t.y + radius)}

getParentTiles(t, depth) ==
  {p \in Tile : /\ p.z \in (t.z - depth) .. (t.z - 1)
                /\ p.y = t.y \div 2 ^ (t.z - p.z)}

getChildrenTiles(t, depth, minZoom, maxZoom) ==
  {c \in Tile : /\ c.z \in (t.z + 1) .. (t.z + depth)
                /\ c.z \in minZoom .. maxZoom
                /\ t.y = c.y \div 2 ^ (c.z - t.z)}
=============================================================================
