--------------------------- MODULE TileCacheProofs ---------------------------
(***************************************************************************)
(* Theorems about TileCache, for every set of sources with any             *)
(* configuration, every choice of urls, zoom levels, heuristics and        *)
(* settings, any number of handlers and any combination of faults.         *)
(*                                                                         *)
(* Each of the invariants says of memcached what its property says, and of *)
(* the requests, messages, jobs and write-backs that are under way what    *)
(* memcached will be given: an address, an eligible tile, the right place, *)
(* a source that has been cacheable, and a picture rather than nothing.    *)
(***************************************************************************)
EXTENDS TileCache, TLAPS

-----------------------------------------------------------------------------
(***************************************************************************)
(* Tile addresses.                                                         *)
(***************************************************************************)
\* A tile is a zoom level and a row of that level.
LEMMA TileShape ==
  \A t \in Tile : t.z \in Zoom /\ t.y \in Row(t.z) /\ t = [z |-> t.z, y |-> t.y]
BY DEF Tile

LEMMA TileMade == ASSUME NEW z \in Zoom, NEW y \in Row(z) PROVE [z |-> z, y |-> y] \in Tile
BY DEF Tile

LEMMA RowIsInt == ASSUME NEW z \in Zoom PROVE Rows[z] \in Nat \ {0} /\ Row(z) \subseteq Int
BY RowsAssumption DEF Row

\* flip_y maps the rows of a level onto themselves and undoes itself.
LEMMA FlipInvolution ==
  ASSUME NEW z \in Zoom, NEW y \in Row(z)
  PROVE  flip_y(y, z) \in Row(z) /\ flip_y(flip_y(y, z), z) = y
BY RowIsInt DEF flip_y, Row

\* The rows of a numbering are the rows counted from the south, in some order.
LEMMA SouthRowInRange ==
  ASSUME NEW z \in Zoom, NEW n \in Row(z), NEW scheme
  PROVE  SouthRow(scheme, n, z) \in Row(z)
BY FlipInvolution DEF SouthRow

\* getYValues (utils.py) turns any row, taken as one of the service's or else of
\* the source's numbering, into the row counted from the south, and gives the row
\* counted from the north with it.
THEOREM GetYValuesSound ==
  ASSUME NEW z \in Zoom, NEW y \in Row(z), NEW service, NEW source
  PROVE  /\ getYValues(service, source, y, z).iy = SouthRow(Scheme(service, source), y, z)
         /\ getYValues(service, source, y, z).iy \in Row(z)
         /\ getYValues(service, source, y, z).iyf
              = flip_y(getYValues(service, source, y, z).iy, z)
<1>1. CASE CountsFromNorth(Scheme(service, source))
  BY <1>1, FlipInvolution DEF getYValues, SouthRow
<1>2. CASE ~CountsFromNorth(Scheme(service, source))
  BY <1>2, FlipInvolution DEF getYValues, SouthRow
<1> QED BY <1>1, <1>2

-----------------------------------------------------------------------------
(***************************************************************************)
(* Keys and requests.                                                      *)
(***************************************************************************)
LEMMA KeyShape ==
  \A k \in Key : /\ k.src \in Source /\ k.tile \in Tile
                 /\ k.tile.z \in Zoom /\ k.tile.y \in Row(k.tile.z)
BY TileShape DEF Key

LEMMA KeyMade ==
  ASSUME NEW s \in Source, NEW z \in Zoom, NEW y \in Row(z)
  PROVE  [src |-> s, tile |-> [z |-> z, y |-> y]] \in Key
BY TileMade DEF Key

LEMMA UrlShape == \A url \in Urls : url.src \in Source
BY UrlsAssumption DEF Url

\* The heuristics guess tiles of the requested source.
LEMMA GuessesAreKeys ==
  ASSUME NEW k \in Key
  PROVE  Guesses(k) \subseteq Key /\ \A g \in Guesses(k) : g.src = k.src
<1>1. indirectTiles(k.tile) \subseteq Tile
  BY DEF indirectTiles, getNearbyTiles, getParentTiles, getChildrenTiles
<1> QED BY <1>1, KeyShape DEF Guesses, Key

\* A request is for a key, and the key names the place that the server reads from
\* the url.  (For a quadkey that need not be the place the client means.)
LEMMA AskedIsSound ==
  ASSUME NEW url \in Urls, NEW z \in Zoom, NEW y \in Row(z)
  PROVE  LET a == Asked(url, z, y)
         IN /\ a \in Ask /\ a # None
            /\ a.key.src = url.src /\ a.key.tile.z = z /\ a.u = y /\ a.url = url
            /\ a.key.tile.y = SouthRow(Scheme(url.service, Config[url.src].type), y, z)
            /\ YValues(url, z, y).iyf = flip_y(a.key.tile.y, z)
<1> DEFINE a == Asked(url, z, y)
           iy == YValues(url, z, y).iy
<1>1. /\ iy = SouthRow(Scheme(url.service, Config[url.src].type), y, z)
      /\ iy \in Row(z)
      /\ YValues(url, z, y).iyf = flip_y(iy, z)
  BY GetYValuesSound DEF YValues
<1>2. a = [key |-> [src |-> url.src, tile |-> [z |-> z, y |-> iy]], u |-> y, url |-> url]
  BY DEF Asked
<1>3. [src |-> url.src, tile |-> [z |-> z, y |-> iy]] \in Key
  BY <1>1, UrlShape, KeyMade
<1>4. a \in Ask
  BY <1>2, <1>3, RowIsInt DEF Ask
<1> QED BY <1>1, <1>2, <1>4, NoneAssumption

\* A source answers a url that carries one of its rows with a picture.
LEMMA SourceAnswers ==
  ASSUME NEW s \in Source, NEW z \in Zoom, NEW n \in Row(z),
         version \in [Key -> 0 .. MaxVersion]
  PROVE  /\ requestTileFromSource(s, z, n) \in Picture
         /\ requestTileFromSource(s, z, n) # None
         /\ requestTileFromSource(s, z, n).south = SouthRow(Config[s].type, n, z)
<1> DEFINE south == SouthRow(Config[s].type, n, z)
<1>1. south \in Row(z) /\ south \in Int
  BY SouthRowInRange, RowIsInt
<1>2. version[[src |-> s, tile |-> [z |-> z, y |-> south]]] \in Nat
  BY <1>1, KeyMade, SettingsAssumption
<1>3. requestTileFromSource(s, z, n)
        = [south |-> south, version |-> version[[src |-> s, tile |-> [z |-> z, y |-> south]]]]
  BY DEF requestTileFromSource
<1>4. requestTileFromSource(s, z, n) \in Picture
  BY <1>1, <1>2, <1>3 DEF Picture
<1> QED BY <1>3, <1>4, NoneAssumption

\* The number put in the url is a row of the source's level.
LEMMA UrlRowInRange ==
  ASSUME NEW z \in Zoom, NEW y \in Row(z), NEW u \in Row(z), NEW type
  PROVE  UrlRow(type, [iy |-> y, iyf |-> flip_y(y, z)], u) \in Row(z)
BY FlipInvolution DEF UrlRow

-----------------------------------------------------------------------------
(***************************************************************************)
(* Types.  A picture is one of the source's only if the url carries one of *)
(* its rows, so TypeOK needs AskSound to be inductive.                     *)
(***************************************************************************)
TypeInv == TypeOK /\ AskSound

LEMMA InitTypeInv == Init => TypeInv
BY SettingsAssumption DEF Init, TypeInv, TypeOK, AskSound, PC, Reply

\* What a handler that has a request has.
LEMMA AskShape ==
  ASSUME TypeInv, NEW w \in Worker, pc[w] # "idle"
  PROVE  /\ ask[w] \in Ask /\ ask[w] # None
         /\ ask[w].key \in Key /\ ask[w].key.src \in Source
         /\ ask[w].key.tile.z \in Zoom /\ ask[w].key.tile.y \in Row(ask[w].key.tile.z)
         /\ ask[w].u \in Row(ask[w].key.tile.z)
<1>1. ask[w] \in Ask /\ ask[w] # None
  BY DEF TypeInv, TypeOK
<1>2. ask[w].key \in Key
  BY <1>1 DEF Ask
<1> QED BY <1>1, <1>2, KeyShape DEF TypeInv, AskSound

\* A step that starts a request.
LEMMA AskStepTyped ==
  ASSUME TypeInv, NEW w \in Worker, NEW url \in Urls,
         NEW z \in Zoom, NEW y \in Row(z),
         ask' = [ask EXCEPT ![w] = Asked(url, z, y)]
  PROVE  /\ ask' \in [Worker -> Ask \cup {None}] /\ ask'[w] # None
         /\ AskSound'
<1>1. Asked(url, z, y) \in Ask /\ Asked(url, z, y) # None
  BY AskedIsSound
<1>2. ask' \in [Worker -> Ask \cup {None}] /\ ask'[w] = Asked(url, z, y)
  BY <1>1 DEF TypeInv, TypeOK
<1>3. ASSUME NEW v \in Worker, ask'[v] # None
      PROVE  /\ ask'[v].u \in Row(ask'[v].key.tile.z) /\ ask'[v].key.src = ask'[v].url.src
             /\ ask'[v].key.tile.y
                  = SouthRow(Scheme(ask'[v].url.service, Config[ask'[v].key.src].type),
                             ask'[v].u, ask'[v].key.tile.z)
  <2>1. CASE v = w
    BY <2>1, <1>2, AskedIsSound
  <2>2. CASE v # w
    <3>1. ask'[v] = ask[v]
      BY <2>2 DEF TypeInv, TypeOK
    <3> QED BY <3>1, <1>3 DEF TypeInv, AskSound
  <2> QED BY <2>1, <2>2
<1> QED BY <1>1, <1>2, <1>3 DEF AskSound

LEMMA RequestTileTyped ==
  ASSUME TypeInv, NEW w \in Worker, NEW url \in Urls,
         NEW z \in Zoom, NEW y \in Row(z), RequestTile(w, url, z, y)
  PROVE  TypeInv'
<1> DEFINE a == Asked(url, z, y)
<1>1. ask' \in [Worker -> Ask \cup {None}] /\ ask'[w] # None /\ AskSound'
  BY AskStepTyped DEF RequestTile
<1>2. topic' \subseteq Key
  <2>1. a.key \in Key
    BY AskedIsSound DEF Ask
  <2>2. Guesses(a.key) \subseteq Key
    BY <2>1, GuessesAreKeys
  <2> QED BY <2>2 DEF RequestTile, TypeInv, TypeOK
<1>3. /\ pc' \in [Worker -> PC] /\ reply' \in [Worker -> Reply]
      /\ pc'[w] # "idle" /\ \A v \in Worker \ {w} : pc'[v] = pc[v] /\ ask'[v] = ask[v]
  BY DEF RequestTile, Screen, Answer, TypeInv, TypeOK, PC, Reply
<1> QED BY <1>1, <1>2, <1>3 DEF RequestTile, TypeInv, TypeOK, settings, writeback

LEMMA StreamFailsTyped ==
  ASSUME TypeInv, NEW w \in Worker, StreamFails(w)
  PROVE  TypeInv'
<1>1. /\ pc' \in [Worker -> PC] /\ reply' \in [Worker -> Reply]
      /\ pc'[w] = "done" /\ \A v \in Worker \ {w} : pc'[v] = pc[v] /\ ask'[v] = ask[v]
  BY DEF StreamFails, Answer, TypeInv, TypeOK, PC, Reply
<1>2. CASE pc[w] \in {"lookup", "bypass"} /\ UNCHANGED <<ask, topic>>
  <2>1. ask'[w] # None /\ ask' \in [Worker -> Ask \cup {None}] /\ AskSound'
    BY <1>2, AskShape DEF TypeInv, TypeOK, AskSound
  <2> QED BY <1>1, <1>2, <2>1 DEF StreamFails, TypeInv, TypeOK, settings, writeback
<1>3. CASE ~(pc[w] \in {"lookup", "bypass"} /\ UNCHANGED <<ask, topic>>)
  <2>1. PICK url \in Urls, z \in Zoom : \E y \in Row(z) :
          LET a == Asked(url, z, y)
          IN /\ ask' = [ask EXCEPT ![w] = a]
             /\ \E sent \in SUBSET Guesses(a.key) : topic' = topic \cup sent
    BY <1>3 DEF StreamFails
  <2>2. PICK y \in Row(z) :
          LET a == Asked(url, z, y)
          IN /\ ask' = [ask EXCEPT ![w] = a]
             /\ \E sent \in SUBSET Guesses(a.key) : topic' = topic \cup sent
    BY <2>1
  <2>3. ask' \in [Worker -> Ask \cup {None}] /\ ask'[w] # None /\ AskSound'
    BY <2>2, AskStepTyped
  <2>4. Asked(url, z, y).key \in Key
    BY AskedIsSound DEF Ask
  <2>5. topic' \subseteq Key
    BY <2>2, <2>4, GuessesAreKeys DEF TypeInv, TypeOK
  <2> QED BY <1>1, <2>3, <2>5 DEF StreamFails, TypeInv, TypeOK, settings, writeback
<1> QED BY <1>2, <1>3

\* A step that leaves the requests alone leaves AskSound alone.
LEMMA AskSoundKept == ASSUME AskSound, ask' = ask PROVE AskSound'
BY DEF AskSound

LEMMA SetTyped ==
  ASSUME TypeInv, NEW k \in Key, NEW tile \in Picture \cup {None},
         SetSucceeds(k, tile) \/ SetFails
  PROVE  tiles' \in [Key -> Picture \cup {None}]
BY DEF TypeInv, TypeOK, SetSucceeds, SetFails

LEMMA FetchTyped ==
  ASSUME TypeInv, NEW w \in Worker, Fetch(w)
  PROVE  TypeInv'
<1> DEFINE k == ask[w].key
           n == UrlRow(Config[k.src].type,
                       [iy |-> k.tile.y, iyf |-> flip_y(k.tile.y, k.tile.z)], ask[w].u)
<1>1. /\ k \in Key /\ k.src \in Source /\ k.tile.z \in Zoom
      /\ k.tile.y \in Row(k.tile.z) /\ ask[w].u \in Row(k.tile.z)
  BY AskShape DEF Fetch
<1>2. n \in Row(k.tile.z)
  BY <1>1, UrlRowInRange
<1>3. requestTileFromSource(k.src, k.tile.z, n) \in Picture
  BY <1>1, <1>2, SourceAnswers DEF TypeInv, TypeOK
<1>4. got' \in [Worker -> Picture \cup {None}]
  BY <1>3 DEF Fetch, TypeInv, TypeOK
<1> QED BY <1>4, AskSoundKept DEF Fetch, Answer, TypeInv, TypeOK, PC, Reply, settings, prefetch, writeback

LEMMA HandlerTyped ==
  ASSUME TypeInv, NEW w \in Worker, Handler(w)
  PROVE  TypeInv'
<1>1. CASE Lookup(w)
  <2>1. ask[w].key \in Key
    BY <1>1, AskShape DEF Lookup
  <2> QED BY <1>1, <2>1, AskSoundKept
          DEF Lookup, Hit, Answer, TypeInv, TypeOK, PC, Reply, settings, prefetch, writeback
<1>2. CASE Fetch(w)
  BY <1>2, FetchTyped
<1>3. CASE FetchFails(w)
  BY <1>3, AskSoundKept
     DEF FetchFails, Answer, TypeInv, TypeOK, PC, Reply, settings, prefetch, writeback
<1>4. CASE FetchesNothing(w)
  BY <1>4, AskSoundKept
     DEF FetchesNothing, Answer, TypeInv, TypeOK, PC, Reply, settings, prefetch, writeback
<1>5. CASE WriteBack(w)
  <2>1. ask[w].key \in Key /\ got[w] \in Picture \cup {None}
    BY <1>5, AskShape DEF WriteBack, TypeInv, TypeOK
  <2>2. tiles' \in [Key -> Picture \cup {None}]
    BY <1>5, <2>1, SetTyped DEF WriteBack, TypeInv, TypeOK
  <2> QED BY <1>5, <2>2, AskSoundKept
          DEF WriteBack, Answer, TypeInv, TypeOK, PC, Reply, settings, prefetch, writeback
<1>6. CASE QueueWriteBack(w)
  <2>1. ask[w].key \in Key
    BY <1>6, AskShape DEF QueueWriteBack
  <2>2. queue' \subseteq Message
    BY <1>6, <2>1 DEF QueueWriteBack, TypeInv, TypeOK, Message
  <2> QED BY <1>6, <2>2, AskSoundKept
          DEF QueueWriteBack, Answer, TypeInv, TypeOK, PC, Reply, settings, prefetch
<1>7. CASE Finish(w)
  <2>1. AskSound'
    BY <1>7 DEF Finish, TypeInv, TypeOK, AskSound
  <2> QED BY <1>7, <2>1 DEF Finish, TypeInv, TypeOK, PC, Reply, settings, prefetch, writeback
<1> QED BY <1>1, <1>2, <1>3, <1>4, <1>5, <1>6, <1>7 DEF Handler

\* The daemon's job, when it has one, is for a key.
LEMMA JobShape ==
  ASSUME TypeInv, job # None
  PROVE  /\ job \in Job /\ job.key \in Key /\ job.tile \in Picture \cup {None}
         /\ job.key.src \in Source
         /\ job.key.tile.z \in Zoom /\ job.key.tile.y \in Row(job.key.tile.z)
<1>1. job \in Job
  BY DEF TypeInv, TypeOK
<1> QED BY <1>1, KeyShape DEF Job

LEMMA DiesTyped ==
  ASSUME TypeInv, Dies
  PROVE  topic' \subseteq Key /\ batch' \subseteq Key /\ job' \in Job \cup {None}
BY JobShape DEF Dies, TypeInv, TypeOK

\* What the task asks the source for is the place its key names.
LEMMA TaskFetchesPlace ==
  ASSUME TypeInv, TaskFetches
  PROVE  /\ job' \in Job /\ job'.key = job.key
         /\ job'.tile # None => job'.tile.south = job.key.tile.y
<1> DEFINE k == job.key
           type == Config[k.src].type
           n == UrlRow(type, [iy |-> k.tile.y, iyf |-> flip_y(k.tile.y, k.tile.z)], 0)
<1>1. job \in Job /\ k.src \in Source /\ k.tile.z \in Zoom /\ k.tile.y \in Row(k.tile.z)
  BY JobShape DEF TaskFetches
<1>2. CASE type \in {TYPE_TMS, TYPE_TMS_FLIPPED}
  <2>1. n \in Row(k.tile.z) /\ SouthRow(type, n, k.tile.z) = k.tile.y
    BY <1>1, <1>2, FlipInvolution
       DEF UrlRow, SouthRow, CountsFromNorth, TYPE_TMS, TYPE_TMS_FLIPPED, TYPE_BING
  <2>2. /\ requestTileFromSource(k.src, k.tile.z, n) \in Picture
        /\ requestTileFromSource(k.src, k.tile.z, n).south = k.tile.y
    BY <1>1, <2>1, SourceAnswers DEF TypeInv, TypeOK
  <2>3. job' = [key |-> k, pc |-> "set", tile |-> requestTileFromSource(k.src, k.tile.z, n)]
    BY <1>2 DEF TaskFetches
  <2> QED BY <1>1, <2>2, <2>3 DEF Job
<1>3. CASE type \notin {TYPE_TMS, TYPE_TMS_FLIPPED}
  BY <1>1, <1>3 DEF TaskFetches, Job
<1> QED BY <1>2, <1>3

LEMMA ConsumerTyped ==
  ASSUME TypeInv, Consumer
  PROVE  TypeInv'
<1>1. ASSUME NEW k \in Key, TaskSkips(k) PROVE TypeInv'
  BY <1>1, AskSoundKept DEF TaskSkips, TypeInv, TypeOK, settings, handlers, writeback
<1>2. ASSUME NEW k \in Key, TaskMisses(k) PROVE TypeInv'
  <2>1. [key |-> k, pc |-> "fetch", tile |-> None] \in Job
    BY DEF Job
  <2>2. topic' \subseteq Key /\ batch' \subseteq Key /\ job' \in Job \cup {None}
    BY <1>2, <2>1, DiesTyped DEF TaskMisses, TypeInv, TypeOK
  <2> QED BY <1>2, <2>2, AskSoundKept DEF TaskMisses, TypeInv, TypeOK, settings, handlers, writeback
<1>3. CASE TaskFetches
  BY <1>3, TaskFetchesPlace, AskSoundKept
     DEF TaskFetches, TypeInv, TypeOK, settings, handlers, writeback
<1>4. CASE TaskFetchFails
  BY <1>4, AskSoundKept DEF TaskFetchFails, TypeInv, TypeOK, settings, handlers, writeback
<1>5. CASE TaskSets
  <2>1. job.key \in Key /\ job.tile \in Picture \cup {None}
    BY <1>5, JobShape DEF TaskSets
  <2>2. tiles' \in [Key -> Picture \cup {None}]
    BY <1>5, <2>1, SetTyped DEF TaskSets
  <2>3. topic' \subseteq Key /\ batch' \subseteq Key /\ job' \in Job \cup {None}
    BY <1>5, DiesTyped DEF TaskSets, TypeInv, TypeOK
  <2> QED BY <1>5, <2>2, <2>3, AskSoundKept DEF TaskSets, TypeInv, TypeOK, settings, handlers, writeback
<1> QED BY <1>1, <1>2, <1>3, <1>4, <1>5 DEF Consumer

LEMMA WriteBackTaskTyped ==
  ASSUME TypeInv, NEW m \in Message,
         WriteBackChecks(m) \/ WriteBackExpires(m) \/ WriteBackSets(m)
  PROVE  TypeInv'
<1>1. CASE WriteBackChecks(m)
  BY <1>1, AskSoundKept DEF WriteBackChecks, TypeInv, TypeOK, settings, handlers, prefetch
<1>2. CASE WriteBackExpires(m)
  BY <1>2, AskSoundKept DEF WriteBackExpires, TypeInv, TypeOK, settings, handlers, prefetch
<1>3. CASE WriteBackSets(m)
  <2>1. tiles' \in [Key -> Picture \cup {None}]
    BY <1>3, SetTyped DEF WriteBackSets, Message
  <2> QED BY <1>3, <2>1, AskSoundKept DEF WriteBackSets, TypeInv, TypeOK, settings, handlers, prefetch
<1> QED BY <1>1, <1>2, <1>3

LEMMA EnvironmentTyped ==
  ASSUME TypeInv, Environment
  PROVE  TypeInv'
<1>1. ASSUME NEW s \in Source, SourcesEdit(s) PROVE TypeInv'
  BY <1>1, AskSoundKept DEF SourcesEdit, TypeInv, TypeOK, handlers, prefetch, writeback
<1>2. ASSUME NEW k \in Key, UpstreamPublishes(k) PROVE TypeInv'
  <2>1. version' \in [Key -> 0 .. MaxVersion]
    BY <1>2, SettingsAssumption DEF UpstreamPublishes, TypeInv, TypeOK
  <2> QED BY <1>2, <2>1, AskSoundKept
          DEF UpstreamPublishes, TypeInv, TypeOK, settings, handlers, prefetch, writeback
<1>3. ASSUME NEW k \in Key, Evict(k) PROVE TypeInv'
  BY <1>3, AskSoundKept DEF Evict, TypeInv, TypeOK, settings, handlers, prefetch, writeback
<1>4. CASE Flush
  BY <1>4, AskSoundKept DEF Flush, TypeInv, TypeOK, settings, handlers, prefetch, writeback
<1>5. CASE CacheGoesDown
  BY <1>5, AskSoundKept DEF CacheGoesDown, TypeInv, TypeOK, settings, handlers, prefetch, writeback
<1>6. CASE CacheComesUp
  BY <1>6, AskSoundKept DEF CacheComesUp, TypeInv, TypeOK, settings, handlers, prefetch, writeback
<1>7. CASE ConsumerCrashes
  BY <1>7, DiesTyped, AskSoundKept
     DEF ConsumerCrashes, TypeInv, TypeOK, settings, handlers, writeback
<1> QED BY <1>1, <1>2, <1>3, <1>4, <1>5, <1>6, <1>7 DEF Environment

LEMMA StepTyped == TypeInv /\ [Next]_vars => TypeInv'
<1> SUFFICES ASSUME TypeInv, [Next]_vars PROVE TypeInv'
  OBVIOUS
<1>1. ASSUME NEW w \in Worker, NEW url \in Urls,
             NEW z \in Zoom, NEW y \in Row(z), RequestTile(w, url, z, y)
      PROVE  TypeInv'
  BY <1>1, RequestTileTyped
<1>2. ASSUME NEW w \in Worker, StreamFails(w) \/ Handler(w) PROVE TypeInv'
  BY <1>2, StreamFailsTyped, HandlerTyped
<1>3. ASSUME NEW b \in SUBSET topic, Poll(b) PROVE TypeInv'
  BY <1>3, AskSoundKept DEF Poll, TypeInv, TypeOK, settings, handlers, writeback
<1>4. CASE Consumer
  BY <1>4, ConsumerTyped
<1>5. ASSUME NEW m \in queue \cup writing,
             WriteBackChecks(m) \/ WriteBackExpires(m) \/ WriteBackSets(m)
      PROVE  TypeInv'
  BY <1>5, WriteBackTaskTyped DEF TypeInv, TypeOK
<1>6. CASE Environment
  BY <1>6, EnvironmentTyped
<1>7. CASE UNCHANGED vars
  BY <1>7, AskSoundKept
     DEF vars, settings, handlers, prefetch, writeback, TypeInv, TypeOK
<1> QED BY <1>1, <1>2, <1>3, <1>4, <1>5, <1>6, <1>7 DEF Next

LEMMA TypeInvariant == Spec => []TypeInv
BY InitTypeInv, StepTyped, PTL DEF Spec

\* Every variable keeps its type.
THEOREM TypeCorrect == Spec => []TypeOK
<1>1. TypeInv => TypeOK
  BY DEF TypeInv
<1> QED BY <1>1, TypeInvariant, PTL

-----------------------------------------------------------------------------
(***************************************************************************)
(* Which tiles enter memcached.  Neither the write-back task nor the set   *)
(* at the end of taskRequestTile tests anything: what they write must have *)
(* been screened before, so the invariant follows the tile on its way.     *)
(***************************************************************************)
ScreenInv == OnlyEligibleCached /\ ScreenedInFlight

LEMMA InitScreenInv == Init => ScreenInv
BY DEF Init, ScreenInv, OnlyEligibleCached, ScreenedInFlight, CachePath

\* set writes a tile the handler, the job or the message held.
LEMMA SetScreened ==
  ASSUME TypeInv, ScreenInv, NEW k \in Key, NEW tile, Eligible(k),
         SetSucceeds(k, tile) \/ SetFails
  PROVE  OnlyEligibleCached'
BY DEF TypeInv, TypeOK, ScreenInv, OnlyEligibleCached, SetSucceeds, SetFails

LEMMA RequestTileScreened ==
  ASSUME TypeInv, ScreenInv, NEW w \in Worker, NEW url \in Urls,
         NEW z \in Zoom, NEW y \in Row(z), RequestTile(w, url, z, y)
  PROVE  ScreenInv'
<1> DEFINE a == Asked(url, z, y)
           iyf == YValues(url, z, y).iyf
<1>1. ask'[w] = a /\ \A v \in Worker \ {w} : ask'[v] = ask[v] /\ pc'[v] = pc[v]
  BY DEF RequestTile, Screen, Answer, TypeInv, TypeOK
<1>2. a.key.src = url.src /\ a.key.tile.z = z /\ iyf = flip_y(a.key.tile.y, z)
  BY AskedIsSound
<1>3. ASSUME pc'[w] \in CachePath PROVE Eligible(a.key)
  <2>1. IntersectsSource(url.src, z, iyf) /\ ValidZoom(url.src, z) /\ z \in MemZoom
    BY <1>3 DEF RequestTile, Screen, Answer, TypeInv, TypeOK, CachePath
  <2> QED BY <2>1, <1>2 DEF Eligible
<1>4. tiles' = tiles /\ queue' = queue /\ writing' = writing /\ job' = job
  BY DEF RequestTile, writeback
<1> QED BY <1>1, <1>3, <1>4 DEF ScreenInv, OnlyEligibleCached, ScreenedInFlight

LEMMA StreamFailsScreened ==
  ASSUME TypeInv, ScreenInv, NEW w \in Worker, StreamFails(w)
  PROVE  ScreenInv'
<1>1. pc'[w] = "done" /\ \A v \in Worker \ {w} : ask'[v] = ask[v] /\ pc'[v] = pc[v]
  BY DEF StreamFails, Answer, TypeInv, TypeOK
<1>2. tiles' = tiles /\ queue' = queue /\ writing' = writing /\ job' = job
  BY DEF StreamFails, writeback
<1> QED BY <1>1, <1>2 DEF ScreenInv, OnlyEligibleCached, ScreenedInFlight, CachePath

LEMMA HandlerScreened ==
  ASSUME TypeInv, ScreenInv, NEW w \in Worker, Handler(w)
  PROVE  ScreenInv'
<1> USE DEF CachePath, settings, prefetch, writeback
<1>1. CASE Lookup(w)
  BY <1>1 DEF Lookup, Answer, TypeInv, TypeOK, ScreenInv, OnlyEligibleCached, ScreenedInFlight
<1>2. CASE Fetch(w)
  BY <1>2 DEF Fetch, Answer, TypeInv, TypeOK, ScreenInv, OnlyEligibleCached, ScreenedInFlight
<1>3. CASE FetchFails(w)
  BY <1>3 DEF FetchFails, Answer, TypeInv, TypeOK, ScreenInv, OnlyEligibleCached, ScreenedInFlight
<1>4. CASE FetchesNothing(w)
  BY <1>4 DEF FetchesNothing, Answer, TypeInv, TypeOK, ScreenInv, OnlyEligibleCached, ScreenedInFlight
<1>5. CASE WriteBack(w)
  <2>1. ask[w].key \in Key /\ Eligible(ask[w].key)
    BY <1>5, AskShape DEF WriteBack, ScreenInv, ScreenedInFlight
  <2>2. OnlyEligibleCached'
    BY <1>5, <2>1, SetScreened DEF WriteBack, ScreenInv, OnlyEligibleCached
  <2> QED BY <1>5, <2>2 DEF WriteBack, Answer, TypeInv, TypeOK, ScreenInv, ScreenedInFlight
<1>6. CASE QueueWriteBack(w)
  <2>1. Eligible(ask[w].key)
    BY <1>6 DEF QueueWriteBack, ScreenInv, ScreenedInFlight
  <2> QED BY <1>6, <2>1
          DEF QueueWriteBack, Answer, TypeInv, TypeOK, ScreenInv, OnlyEligibleCached, ScreenedInFlight
<1>7. CASE Finish(w)
  BY <1>7 DEF Finish, TypeInv, TypeOK, ScreenInv, OnlyEligibleCached, ScreenedInFlight
<1> QED BY <1>1, <1>2, <1>3, <1>4, <1>5, <1>6, <1>7 DEF Handler

LEMMA ConsumerScreened ==
  ASSUME TypeInv, ScreenInv, Consumer \/ ConsumerCrashes
  PROVE  ScreenInv'
<1> USE DEF settings, handlers, writeback
<1>1. ASSUME NEW k \in Key, TaskSkips(k) PROVE ScreenInv'
  BY <1>1 DEF TaskSkips, ScreenInv, OnlyEligibleCached, ScreenedInFlight
<1>2. ASSUME NEW k \in Key, TaskMisses(k) PROVE ScreenInv'
  BY <1>2 DEF TaskMisses, Dies, ScreenInv, OnlyEligibleCached, ScreenedInFlight
<1>3. CASE TaskFetches
  BY <1>3, TaskFetchesPlace DEF TaskFetches, ScreenInv, OnlyEligibleCached, ScreenedInFlight
<1>4. CASE TaskFetchFails
  BY <1>4 DEF TaskFetchFails, ScreenInv, OnlyEligibleCached, ScreenedInFlight
<1>5. CASE TaskSets
  <2>1. job.key \in Key /\ Eligible(job.key)
    BY <1>5, JobShape DEF TaskSets, ScreenInv, ScreenedInFlight
  <2>2. OnlyEligibleCached'
    BY <1>5, <2>1, SetScreened DEF TaskSets
  <2> QED BY <1>5, <2>2 DEF TaskSets, Dies, ScreenInv, ScreenedInFlight
<1>6. CASE ConsumerCrashes
  BY <1>6 DEF ConsumerCrashes, Dies, ScreenInv, OnlyEligibleCached, ScreenedInFlight
<1> QED BY <1>1, <1>2, <1>3, <1>4, <1>5, <1>6 DEF Consumer

LEMMA WriteBackTaskScreened ==
  ASSUME TypeInv, ScreenInv, NEW m \in queue \cup writing,
         \/ m \in queue /\ (WriteBackChecks(m) \/ WriteBackExpires(m))
         \/ WriteBackSets(m)
  PROVE  ScreenInv'
<1> USE DEF settings, handlers, prefetch
<1>1. CASE m \in queue /\ (WriteBackChecks(m) \/ WriteBackExpires(m))
  BY <1>1 DEF WriteBackChecks, WriteBackExpires, ScreenInv, OnlyEligibleCached, ScreenedInFlight
<1>2. CASE WriteBackSets(m)
  <2>1. m.key \in Key /\ Eligible(m.key)
    BY DEF ScreenInv, ScreenedInFlight, TypeInv, TypeOK, Message
  <2>2. OnlyEligibleCached'
    BY <1>2, <2>1, SetScreened DEF WriteBackSets
  <2> QED BY <1>2, <2>2 DEF WriteBackSets, ScreenInv, ScreenedInFlight
<1> QED BY <1>1, <1>2

LEMMA EnvironmentScreened ==
  ASSUME TypeInv, ScreenInv, Environment
  PROVE  ScreenInv'
<1> USE DEF settings, handlers, prefetch, writeback, ScreenInv, OnlyEligibleCached, ScreenedInFlight
<1>1. ASSUME NEW s \in Source, SourcesEdit(s) PROVE ScreenInv'
  BY <1>1 DEF SourcesEdit
<1>2. ASSUME NEW k \in Key, UpstreamPublishes(k) PROVE ScreenInv'
  BY <1>2 DEF UpstreamPublishes
<1>3. ASSUME NEW k \in Key, Evict(k) PROVE ScreenInv'
  BY <1>3 DEF Evict, TypeInv, TypeOK
<1>4. CASE Flush \/ CacheGoesDown
  BY <1>4 DEF Flush, CacheGoesDown
<1>5. CASE CacheComesUp
  BY <1>5 DEF CacheComesUp
<1>6. CASE ConsumerCrashes
  BY <1>6, ConsumerScreened
<1> QED BY <1>1, <1>2, <1>3, <1>4, <1>5, <1>6 DEF Environment

LEMMA StepScreened == TypeInv /\ ScreenInv /\ [Next]_vars => ScreenInv'
<1> SUFFICES ASSUME TypeInv, ScreenInv, [Next]_vars PROVE ScreenInv'
  OBVIOUS
<1>1. ASSUME NEW w \in Worker, NEW url \in Urls,
             NEW z \in Zoom, NEW y \in Row(z), RequestTile(w, url, z, y)
      PROVE  ScreenInv'
  BY <1>1, RequestTileScreened
<1>2. ASSUME NEW w \in Worker, StreamFails(w) \/ Handler(w) PROVE ScreenInv'
  BY <1>2, StreamFailsScreened, HandlerScreened
<1>3. ASSUME NEW b \in SUBSET topic, Poll(b) PROVE ScreenInv'
  BY <1>3 DEF Poll, settings, handlers, writeback, ScreenInv, OnlyEligibleCached, ScreenedInFlight
<1>4. CASE Consumer
  BY <1>4, ConsumerScreened
<1>5. ASSUME NEW m \in queue, WriteBackChecks(m) \/ WriteBackExpires(m) PROVE ScreenInv'
  BY <1>5, WriteBackTaskScreened
<1>6. ASSUME NEW m \in writing, WriteBackSets(m) PROVE ScreenInv'
  BY <1>6, WriteBackTaskScreened
<1>7. CASE Environment
  BY <1>7, EnvironmentScreened
<1>8. CASE UNCHANGED vars
  BY <1>8 DEF vars, settings, handlers, prefetch, writeback,
              ScreenInv, OnlyEligibleCached, ScreenedInFlight
<1> QED BY <1>1, <1>2, <1>3, <1>4, <1>5, <1>6, <1>7, <1>8 DEF Next

\* Only tiles inside the source's extents and zoom limits and the memory
\* cache's zoom range are in memcached, whichever path cached them.
THEOREM EligibleTilesOnly == Spec => []OnlyEligibleCached
<1>1. ScreenInv => OnlyEligibleCached
  BY DEF ScreenInv
<1> QED BY <1>1, InitScreenInv, StepScreened, TypeInvariant, PTL DEF Spec

-----------------------------------------------------------------------------
(***************************************************************************)
(* The client is shown the place it asked for.  Every tile on its way is   *)
(* compared with the place its key names (PlacedInFlight); AskSound, which *)
(* is shown with the types above, says that the key names the place the    *)
(* server reads from the url.  Both hold whatever is fetched, cached,      *)
(* evicted, lost or edited, provided that wherever a quadkey comes in, in  *)
(* the url or for the source, the server counts rows from the north: else  *)
(* it reads the quadkey of the url, or writes the one of the source, as    *)
(* the mirrored row's.                                                     *)
(***************************************************************************)
PlaceInv == KeyNamesPlace /\ PlacedInFlight

LEMMA InitPlaceInv == Init => PlaceInv
BY DEF Init, PlaceInv, KeyNamesPlace, PlacedInFlight

\* The row a direct request asks the source for is the one its key names.
LEMMA DirectFetchPlace ==
  ASSUME QuadkeysAgree,
         NEW url \in Urls, NEW s, s = url.src, NEW z \in Zoom, NEW u \in Row(z),
         NEW y \in Row(z), y = SouthRow(Scheme(url.service, Config[s].type), u, z),
         Config[s].type # TYPE_WMS
  PROVE  SouthRow(Config[s].type,
                  UrlRow(Config[s].type, [iy |-> y, iyf |-> flip_y(y, z)], u), z) = y
<1>1. Config[s].type \in TileType
  BY UrlShape, ConfigAssumption DEF SourceConfig
<1>2. CASE Config[s].type = TYPE_TMS
  BY <1>2 DEF UrlRow, SouthRow, CountsFromNorth, TYPE_TMS, TYPE_TMS_FLIPPED, TYPE_BING
<1>3. CASE Config[s].type = TYPE_TMS_FLIPPED
  BY <1>3, FlipInvolution
     DEF UrlRow, SouthRow, CountsFromNorth, TYPE_TMS, TYPE_TMS_FLIPPED, TYPE_BING
<1>4. CASE Config[s].type = TYPE_BING
  <2>1. CountsFromNorth(Scheme(url.service, Config[s].type))
    BY <1>4 DEF QuadkeysAgree, Agrees
  <2>2. UrlRow(Config[s].type, [iy |-> y, iyf |-> flip_y(y, z)], u) = u
    BY <1>4 DEF UrlRow, TYPE_TMS, TYPE_TMS_FLIPPED, TYPE_BING
  <2> QED BY <1>4, <2>1, <2>2 DEF SouthRow, CountsFromNorth
<1> QED BY <1>1, <1>2, <1>3, <1>4 DEF TileType

\* The row that the server reads from a url is the one that its client means.
LEMMA RowMeantIsRead ==
  ASSUME QuadkeysAgree, NEW a \in Ask
  PROVE  RowMeant(a) = SouthRow(Scheme(a.url.service, Config[a.url.src].type), a.u, a.key.tile.z)
<1>1. CASE a.url.quadkey
  <2>1. CountsFromNorth(Scheme(a.url.service, Config[a.url.src].type))
    BY <1>1 DEF QuadkeysAgree, Agrees, Ask
  <2> QED BY <1>1, <2>1 DEF RowMeant, ClientScheme, SouthRow, CountsFromNorth
<1>2. CASE ~a.url.quadkey
  BY <1>2 DEF RowMeant, ClientScheme
<1> QED BY <1>1, <1>2

LEMMA SetPlaced ==
  ASSUME TypeInv, PlaceInv, NEW k \in Key, NEW tile \in Picture \cup {None},
         tile # None => tile.south = k.tile.y,
         SetSucceeds(k, tile) \/ SetFails
  PROVE  KeyNamesPlace'
BY DEF TypeInv, TypeOK, PlaceInv, KeyNamesPlace, SetSucceeds, SetFails

\* A handler that starts a request, or is stopped by the stream, has no tile.
LEMMA StartPlaced ==
  ASSUME TypeInv, PlaceInv, NEW w \in Worker, 
         \/ StreamFails(w)
         \/ \E url \in Urls, z \in Zoom : \E y \in Row(z) :
              RequestTile(w, url, z, y)
  PROVE  PlaceInv'
<1>1. /\ tiles' = tiles /\ queue' = queue /\ writing' = writing /\ job' = job /\ got' = got
      /\ pc'[w] # "idle" /\ reply'[w] # "tile"
      /\ \A v \in Worker \ {w} : ask'[v] = ask[v] /\ pc'[v] = pc[v] /\ reply'[v] = reply[v]
  BY DEF StreamFails, RequestTile, Screen, Answer, TypeInv, TypeOK, PlaceInv, PlacedInFlight, writeback
<1>2. got[w] # None => ask'[w] = ask[w]
  BY DEF StreamFails, RequestTile, PlaceInv, PlacedInFlight
<1> QED BY <1>1, <1>2 DEF PlaceInv, KeyNamesPlace, PlacedInFlight

LEMMA HandlerPlaced ==
  ASSUME QuadkeysAgree, TypeInv, PlaceInv, NEW w \in Worker, Handler(w)
  PROVE  PlaceInv'
<1> USE DEF settings, prefetch, writeback
<1>1. CASE Lookup(w)
  <2>1. ask[w].key \in Key
    BY <1>1, AskShape DEF Lookup
  <2> QED BY <1>1, <2>1
          DEF Lookup, Hit, Answer, TypeInv, TypeOK, PlaceInv, KeyNamesPlace, PlacedInFlight
<1>2. CASE Fetch(w)
  <2> DEFINE k == ask[w].key
             n == UrlRow(Config[k.src].type,
                         [iy |-> k.tile.y, iyf |-> flip_y(k.tile.y, k.tile.z)], ask[w].u)
  <2>1. /\ ask[w] \in Ask /\ ask[w] # None /\ k.src \in Source /\ k.tile.z \in Zoom
        /\ k.tile.y \in Row(k.tile.z) /\ ask[w].u \in Row(k.tile.z)
    BY <1>2, AskShape DEF Fetch
  <2>2. ask[w].url \in Urls /\ Config[k.src].type # TYPE_WMS
    BY <1>2, <2>1 DEF Ask, Fetch, Reachable
  <2>3. n \in Row(k.tile.z) /\ SouthRow(Config[k.src].type, n, k.tile.z) = k.tile.y
    BY <2>1, <2>2, UrlRowInRange, DirectFetchPlace DEF TypeInv, AskSound
  <2>4. requestTileFromSource(k.src, k.tile.z, n) # None
        /\ requestTileFromSource(k.src, k.tile.z, n).south = k.tile.y
    BY <2>1, <2>3, SourceAnswers DEF TypeInv, TypeOK
  <2>5. /\ got'[w] = requestTileFromSource(k.src, k.tile.z, n)
        /\ \A v \in Worker \ {w} : got'[v] = got[v]
    BY <1>2 DEF Fetch, TypeInv, TypeOK
  <2>6. /\ pc[w] # "idle" /\ pc'[w] # "idle"
        /\ \A v \in Worker \ {w} : pc'[v] = pc[v] /\ reply'[v] = reply[v]
    BY <1>2 DEF Fetch, Answer, TypeInv, TypeOK
  <2>7. ask' = ask /\ tiles' = tiles /\ queue' = queue /\ writing' = writing /\ job' = job
    BY <1>2 DEF Fetch
  <2> HIDE DEF k, n
  <2> QED BY <2>4, <2>5, <2>6, <2>7 DEF k, PlaceInv, KeyNamesPlace, PlacedInFlight
<1>3. CASE FetchFails(w)
  BY <1>3 DEF FetchFails, Answer, TypeInv, TypeOK, PlaceInv, KeyNamesPlace, PlacedInFlight
<1>4. CASE FetchesNothing(w)
  BY <1>4 DEF FetchesNothing, Answer, TypeInv, TypeOK, PlaceInv, KeyNamesPlace, PlacedInFlight
<1>5. CASE WriteBack(w)
  <2>1. /\ ask[w].key \in Key /\ got[w] \in Picture \cup {None}
        /\ got[w] # None => got[w].south = ask[w].key.tile.y
    BY <1>5, AskShape DEF WriteBack, TypeInv, TypeOK, PlaceInv, PlacedInFlight
  <2>2. KeyNamesPlace'
    BY <1>5, <2>1, SetPlaced DEF WriteBack, PlaceInv, KeyNamesPlace
  <2> QED BY <1>5, <2>2 DEF WriteBack, Answer, TypeInv, TypeOK, PlaceInv, PlacedInFlight
<1>6. CASE QueueWriteBack(w)
  <2>1. got[w] # None => got[w].south = ask[w].key.tile.y
    BY DEF PlaceInv, PlacedInFlight
  <2> QED BY <1>6, <2>1
          DEF QueueWriteBack, Answer, TypeInv, TypeOK, PlaceInv, KeyNamesPlace, PlacedInFlight
<1>7. CASE Finish(w)
  BY <1>7 DEF Finish, TypeInv, TypeOK, PlaceInv, KeyNamesPlace, PlacedInFlight
<1> QED BY <1>1, <1>2, <1>3, <1>4, <1>5, <1>6, <1>7 DEF Handler

LEMMA ConsumerPlaced ==
  ASSUME TypeInv, PlaceInv, Consumer \/ ConsumerCrashes
  PROVE  PlaceInv'
<1> USE DEF settings, handlers, writeback
<1>1. ASSUME NEW k \in Key, TaskSkips(k) PROVE PlaceInv'
  BY <1>1 DEF TaskSkips, PlaceInv, KeyNamesPlace, PlacedInFlight
<1>2. ASSUME NEW k \in Key, TaskMisses(k) PROVE PlaceInv'
  BY <1>2 DEF TaskMisses, Dies, PlaceInv, KeyNamesPlace, PlacedInFlight
<1>3. CASE TaskFetches
  BY <1>3, TaskFetchesPlace DEF TaskFetches, PlaceInv, KeyNamesPlace, PlacedInFlight
<1>4. CASE TaskFetchFails
  BY <1>4 DEF TaskFetchFails, PlaceInv, KeyNamesPlace, PlacedInFlight
<1>5. CASE TaskSets
  <2>1. /\ job.key \in Key /\ job.tile \in Picture \cup {None}
        /\ job.tile # None => job.tile.south = job.key.tile.y
    BY <1>5, JobShape DEF TaskSets, PlaceInv, PlacedInFlight
  <2>2. KeyNamesPlace'
    BY <1>5, <2>1, SetPlaced DEF TaskSets
  <2> QED BY <1>5, <2>2 DEF TaskSets, Dies, PlaceInv, PlacedInFlight
<1>6. CASE ConsumerCrashes
  BY <1>6 DEF ConsumerCrashes, Dies, PlaceInv, KeyNamesPlace, PlacedInFlight
<1> QED BY <1>1, <1>2, <1>3, <1>4, <1>5, <1>6 DEF Consumer

LEMMA WriteBackTaskPlaced ==
  ASSUME TypeInv, PlaceInv, NEW m \in queue \cup writing,
         \/ m \in queue /\ (WriteBackChecks(m) \/ WriteBackExpires(m))
         \/ WriteBackSets(m)
  PROVE  PlaceInv'
<1> USE DEF settings, handlers, prefetch
<1>1. CASE m \in queue /\ (WriteBackChecks(m) \/ WriteBackExpires(m))
  BY <1>1 DEF WriteBackChecks, WriteBackExpires, PlaceInv, KeyNamesPlace, PlacedInFlight
<1>2. CASE WriteBackSets(m)
  <2>1. /\ m.key \in Key /\ m.tile \in Picture \cup {None}
        /\ m.tile # None => m.tile.south = m.key.tile.y
    BY DEF PlaceInv, PlacedInFlight, TypeInv, TypeOK, Message
  <2>2. KeyNamesPlace'
    BY <1>2, <2>1, SetPlaced DEF WriteBackSets
  <2> QED BY <1>2, <2>2 DEF WriteBackSets, PlaceInv, PlacedInFlight
<1> QED BY <1>1, <1>2

LEMMA EnvironmentPlaced ==
  ASSUME TypeInv, PlaceInv, Environment
  PROVE  PlaceInv'
<1> USE DEF settings, handlers, prefetch, writeback, PlaceInv, KeyNamesPlace, PlacedInFlight
<1>1. ASSUME NEW s \in Source, SourcesEdit(s) PROVE PlaceInv'
  BY <1>1 DEF SourcesEdit
<1>2. ASSUME NEW k \in Key, UpstreamPublishes(k) PROVE PlaceInv'
  BY <1>2 DEF UpstreamPublishes
<1>3. ASSUME NEW k \in Key, Evict(k) PROVE PlaceInv'
  BY <1>3 DEF Evict, TypeInv, TypeOK
<1>4. CASE Flush \/ CacheGoesDown
  BY <1>4 DEF Flush, CacheGoesDown
<1>5. CASE CacheComesUp
  BY <1>5 DEF CacheComesUp
<1>6. CASE ConsumerCrashes
  BY <1>6, ConsumerPlaced
<1> QED BY <1>1, <1>2, <1>3, <1>4, <1>5, <1>6 DEF Environment

LEMMA StepPlaced == QuadkeysAgree /\ TypeInv /\ PlaceInv /\ [Next]_vars => PlaceInv'
<1> SUFFICES ASSUME QuadkeysAgree, TypeInv, PlaceInv, [Next]_vars PROVE PlaceInv'
  OBVIOUS
<1>1. ASSUME NEW w \in Worker, NEW url \in Urls,
             NEW z \in Zoom, NEW y \in Row(z), RequestTile(w, url, z, y)
      PROVE  PlaceInv'
  BY <1>1, StartPlaced
<1>2. ASSUME NEW w \in Worker, StreamFails(w) \/ Handler(w) PROVE PlaceInv'
  BY <1>2, StartPlaced, HandlerPlaced
<1>3. ASSUME NEW b \in SUBSET topic, Poll(b) PROVE PlaceInv'
  BY <1>3 DEF Poll, settings, handlers, writeback, PlaceInv, KeyNamesPlace, PlacedInFlight
<1>4. CASE Consumer
  BY <1>4, ConsumerPlaced
<1>5. ASSUME NEW m \in queue, WriteBackChecks(m) \/ WriteBackExpires(m) PROVE PlaceInv'
  BY <1>5, WriteBackTaskPlaced
<1>6. ASSUME NEW m \in writing, WriteBackSets(m) PROVE PlaceInv'
  BY <1>6, WriteBackTaskPlaced
<1>7. CASE Environment
  BY <1>7, EnvironmentPlaced
<1>8. CASE UNCHANGED vars
  BY <1>8 DEF vars, settings, handlers, prefetch, writeback,
              PlaceInv, KeyNamesPlace, PlacedInFlight
<1> QED BY <1>1, <1>2, <1>3, <1>4, <1>5, <1>6, <1>7, <1>8 DEF Next

LEMMA PlaceInvariant == ASSUME QuadkeysAgree PROVE Spec => []PlaceInv
BY InitPlaceInv, StepPlaced, TypeInvariant, PTL DEF Spec

\* Whatever fills memcached, a tile in it shows the place its key names.
THEOREM CachedTilesInPlace == ASSUME QuadkeysAgree PROVE Spec => []KeyNamesPlace
<1>1. PlaceInv => KeyNamesPlace
  BY DEF PlaceInv
<1> QED BY <1>1, PlaceInvariant, PTL

\* A client is shown the place it asked for, in the numbering it asked in: a
\* quadkey's, the service's or the source's.
THEOREM AnswersInPlace == ASSUME QuadkeysAgree PROVE Spec => []ServesTheTileAsked
<1>1. TypeInv /\ PlaceInv => ServesTheTileAsked
  <2> SUFFICES ASSUME TypeInv, PlaceInv, NEW w \in Worker, reply[w] = "tile"
               PROVE  got[w].south = RowMeant(ask[w])
    BY DEF ServesTheTileAsked
  <2>1. got[w] # None /\ pc[w] # "idle" /\ got[w].south = ask[w].key.tile.y
    BY DEF PlaceInv, PlacedInFlight
  <2>2. ask[w] # None /\ ask[w] \in Ask
    BY <2>1, AskShape
  <2> QED BY <2>1, <2>2, RowMeantIsRead DEF TypeInv, AskSound
<1> QED BY <1>1, TypeInvariant, PlaceInvariant, PTL

-----------------------------------------------------------------------------
(***************************************************************************)
(* Tiles come only from sources that have been cacheable at some time,     *)
(* although the daemon and the write-back do not look at the flag: whoever *)
(* gives them work has looked.                                             *)
(***************************************************************************)
FlagInv == EverCacheableOnly /\ CacheableInFlight

LEMMA InitFlagInv == Init => FlagInv
BY DEF Init, FlagInv, EverCacheableOnly, CacheableInFlight, CachePath

\* set writes a tile of a source that the handler, the job or the message has.
LEMMA SetFlagged ==
  ASSUME TypeInv, FlagInv, NEW k \in Key, NEW tile, k.src \in everCacheable,
         everCacheable' = everCacheable, SetSucceeds(k, tile) \/ SetFails
  PROVE  EverCacheableOnly'
BY DEF TypeInv, TypeOK, FlagInv, EverCacheableOnly, SetSucceeds, SetFails

\* Guesses are streamed for a cacheable source, and are tiles of that source.
LEMMA RequestTileFlagged ==
  ASSUME TypeInv, FlagInv, NEW w \in Worker, NEW url \in Urls,
         NEW z \in Zoom, NEW y \in Row(z), RequestTile(w, url, z, y)
  PROVE  FlagInv'
<1> DEFINE a == Asked(url, z, y)
<1>1. ask'[w] = a /\ \A v \in Worker \ {w} : ask'[v] = ask[v] /\ pc'[v] = pc[v]
  BY DEF RequestTile, Screen, Answer, TypeInv, TypeOK
<1>2. a.key \in Key /\ a.key.src = url.src
  BY AskedIsSound, NoneAssumption DEF Ask
<1>3. ASSUME pc'[w] \in CachePath PROVE url.src \in everCacheable
  BY <1>3, UrlShape DEF RequestTile, Screen, Answer, TypeInv, TypeOK, CachePath, FlagInv, CacheableInFlight
<1>4. \A k \in topic' : k.src \in everCacheable
  <2>1. \A g \in Guesses(a.key) : g.src = url.src
    BY <1>2, GuessesAreKeys
  <2>2. topic' = topic \/ (cacheable[url.src] /\ topic' = topic \cup Guesses(a.key))
    BY DEF RequestTile
  <2> QED BY <2>1, <2>2, UrlShape DEF FlagInv, CacheableInFlight
<1>5. /\ tiles' = tiles /\ queue' = queue /\ writing' = writing /\ job' = job /\ batch' = batch
      /\ cacheable' = cacheable /\ everCacheable' = everCacheable
  BY DEF RequestTile, writeback, settings
<1> QED BY <1>1, <1>2, <1>3, <1>4, <1>5 DEF FlagInv, EverCacheableOnly, CacheableInFlight

LEMMA StreamFailsFlagged ==
  ASSUME TypeInv, FlagInv, NEW w \in Worker, StreamFails(w)
  PROVE  FlagInv'
<1>1. pc'[w] = "done" /\ \A v \in Worker \ {w} : ask'[v] = ask[v] /\ pc'[v] = pc[v]
  BY DEF StreamFails, Answer, TypeInv, TypeOK
<1>2. \A k \in topic' : k.src \in everCacheable
  <2>1. CASE UNCHANGED <<ask, topic>>
    BY <2>1 DEF FlagInv, CacheableInFlight
  <2>2. ASSUME NEW url \in Urls, NEW z \in Zoom, NEW y \in Row(z),
               cacheable[url.src], NEW sent \in SUBSET Guesses(Asked(url, z, y).key),
               topic' = topic \cup sent
        PROVE  \A k \in topic' : k.src \in everCacheable
    <3>1. Asked(url, z, y).key \in Key /\ Asked(url, z, y).key.src = url.src
      BY AskedIsSound, NoneAssumption DEF Ask
    <3>2. \A g \in sent : g.src = url.src
      BY <3>1, GuessesAreKeys
    <3> QED BY <2>2, <3>2, UrlShape DEF FlagInv, CacheableInFlight
  <2> QED BY <2>1, <2>2 DEF StreamFails
<1>3. /\ tiles' = tiles /\ queue' = queue /\ writing' = writing /\ job' = job /\ batch' = batch
      /\ cacheable' = cacheable /\ everCacheable' = everCacheable
  BY DEF StreamFails, writeback, settings
<1> QED BY <1>1, <1>2, <1>3 DEF FlagInv, EverCacheableOnly, CacheableInFlight, CachePath

LEMMA HandlerFlagged ==
  ASSUME TypeInv, FlagInv, NEW w \in Worker, Handler(w)
  PROVE  FlagInv'
<1> USE DEF CachePath, settings, prefetch, writeback
<1>1. CASE Lookup(w)
  BY <1>1 DEF Lookup, Answer, TypeInv, TypeOK, FlagInv, EverCacheableOnly, CacheableInFlight
<1>2. CASE Fetch(w)
  BY <1>2 DEF Fetch, Answer, TypeInv, TypeOK, FlagInv, EverCacheableOnly, CacheableInFlight
<1>3. CASE FetchFails(w)
  BY <1>3 DEF FetchFails, Answer, TypeInv, TypeOK, FlagInv, EverCacheableOnly, CacheableInFlight
<1>4. CASE FetchesNothing(w)
  BY <1>4 DEF FetchesNothing, Answer, TypeInv, TypeOK, FlagInv, EverCacheableOnly, CacheableInFlight
<1>5. CASE WriteBack(w)
  <2>1. ask[w].key \in Key /\ ask[w].key.src \in everCacheable
    BY <1>5, AskShape DEF WriteBack, FlagInv, CacheableInFlight
  <2>2. EverCacheableOnly'
    BY <1>5, <2>1, SetFlagged DEF WriteBack, FlagInv, EverCacheableOnly
  <2> QED BY <1>5, <2>2 DEF WriteBack, Answer, TypeInv, TypeOK, FlagInv, CacheableInFlight
<1>6. CASE QueueWriteBack(w)
  <2>1. ask[w].key.src \in everCacheable
    BY <1>6 DEF QueueWriteBack, FlagInv, CacheableInFlight
  <2> QED BY <1>6, <2>1
          DEF QueueWriteBack, Answer, TypeInv, TypeOK, FlagInv, EverCacheableOnly, CacheableInFlight
<1>7. CASE Finish(w)
  BY <1>7 DEF Finish, TypeInv, TypeOK, FlagInv, EverCacheableOnly, CacheableInFlight
<1> QED BY <1>1, <1>2, <1>3, <1>4, <1>5, <1>6, <1>7 DEF Handler

\* A daemon that dies gives back to the stream what it has not done.
LEMMA DiesFlagged ==
  ASSUME TypeInv, FlagInv, Dies
  PROVE  batch' = {} /\ job' = None /\ \A k \in topic' : k.src \in everCacheable
BY DEF Dies, FlagInv, CacheableInFlight

LEMMA ConsumerFlagged ==
  ASSUME TypeInv, FlagInv, Consumer \/ ConsumerCrashes
  PROVE  FlagInv'
<1> USE DEF settings, handlers, writeback
<1>1. ASSUME NEW k \in Key, TaskSkips(k) PROVE FlagInv'
  BY <1>1 DEF TaskSkips, FlagInv, EverCacheableOnly, CacheableInFlight
<1>2. ASSUME NEW k \in Key, TaskMisses(k) PROVE FlagInv'
  BY <1>2, DiesFlagged DEF TaskMisses, FlagInv, EverCacheableOnly, CacheableInFlight
<1>3. CASE TaskFetches
  BY <1>3, TaskFetchesPlace DEF TaskFetches, FlagInv, EverCacheableOnly, CacheableInFlight
<1>4. CASE TaskFetchFails
  BY <1>4 DEF TaskFetchFails, FlagInv, EverCacheableOnly, CacheableInFlight
<1>5. CASE TaskSets
  <2>1. job.key \in Key /\ job.key.src \in everCacheable
    BY <1>5, JobShape DEF TaskSets, FlagInv, CacheableInFlight
  <2>2. EverCacheableOnly'
    BY <1>5, <2>1, SetFlagged DEF TaskSets
  <2> QED BY <1>5, <2>2, DiesFlagged DEF TaskSets, FlagInv, CacheableInFlight
<1>6. CASE ConsumerCrashes
  BY <1>6, DiesFlagged DEF ConsumerCrashes, FlagInv, EverCacheableOnly, CacheableInFlight
<1> QED BY <1>1, <1>2, <1>3, <1>4, <1>5, <1>6 DEF Consumer

LEMMA WriteBackTaskFlagged ==
  ASSUME TypeInv, FlagInv, NEW m \in queue \cup writing,
         \/ m \in queue /\ (WriteBackChecks(m) \/ WriteBackExpires(m))
         \/ WriteBackSets(m)
  PROVE  FlagInv'
<1> USE DEF settings, handlers, prefetch
<1>1. CASE m \in queue /\ (WriteBackChecks(m) \/ WriteBackExpires(m))
  BY <1>1 DEF WriteBackChecks, WriteBackExpires, FlagInv, EverCacheableOnly, CacheableInFlight
<1>2. CASE WriteBackSets(m)
  <2>1. m.key \in Key /\ m.key.src \in everCacheable
    BY DEF FlagInv, CacheableInFlight, TypeInv, TypeOK, Message
  <2>2. EverCacheableOnly'
    BY <1>2, <2>1, SetFlagged DEF WriteBackSets
  <2> QED BY <1>2, <2>2 DEF WriteBackSets, FlagInv, CacheableInFlight
<1> QED BY <1>1, <1>2

\* SourcesEdit may clear the flag of a source whose tiles are under way; the
\* history does not forget it.
LEMMA EnvironmentFlagged ==
  ASSUME TypeInv, FlagInv, Environment
  PROVE  FlagInv'
<1> USE DEF settings, handlers, prefetch, writeback, FlagInv, EverCacheableOnly, CacheableInFlight
<1>1. ASSUME NEW s \in Source, SourcesEdit(s) PROVE FlagInv'
  <2>1. everCacheable \subseteq everCacheable'
    BY <1>1 DEF SourcesEdit
  <2>2. \A r \in Source : cacheable'[r] => r \in everCacheable'
    BY <1>1 DEF SourcesEdit, TypeInv, TypeOK
  <2> QED BY <1>1, <2>1, <2>2 DEF SourcesEdit
<1>2. ASSUME NEW k \in Key, UpstreamPublishes(k) PROVE FlagInv'
  BY <1>2 DEF UpstreamPublishes
<1>3. ASSUME NEW k \in Key, Evict(k) PROVE FlagInv'
  BY <1>3 DEF Evict, TypeInv, TypeOK
<1>4. CASE Flush \/ CacheGoesDown
  BY <1>4 DEF Flush, CacheGoesDown
<1>5. CASE CacheComesUp
  BY <1>5 DEF CacheComesUp
<1>6. CASE ConsumerCrashes
  BY <1>6, ConsumerFlagged
<1> QED BY <1>1, <1>2, <1>3, <1>4, <1>5, <1>6 DEF Environment

LEMMA StepFlagged == TypeInv /\ FlagInv /\ [Next]_vars => FlagInv'
<1> SUFFICES ASSUME TypeInv, FlagInv, [Next]_vars PROVE FlagInv'
  OBVIOUS
<1>1. ASSUME NEW w \in Worker, NEW url \in Urls,
             NEW z \in Zoom, NEW y \in Row(z), RequestTile(w, url, z, y)
      PROVE  FlagInv'
  BY <1>1, RequestTileFlagged
<1>2. ASSUME NEW w \in Worker, StreamFails(w) \/ Handler(w) PROVE FlagInv'
  BY <1>2, StreamFailsFlagged, HandlerFlagged
<1>3. ASSUME NEW b \in SUBSET topic, Poll(b) PROVE FlagInv'
  BY <1>3 DEF Poll, settings, handlers, writeback, FlagInv, EverCacheableOnly, CacheableInFlight
<1>4. CASE Consumer
  BY <1>4, ConsumerFlagged
<1>5. ASSUME NEW m \in queue, WriteBackChecks(m) \/ WriteBackExpires(m) PROVE FlagInv'
  BY <1>5, WriteBackTaskFlagged
<1>6. ASSUME NEW m \in writing, WriteBackSets(m) PROVE FlagInv'
  BY <1>6, WriteBackTaskFlagged
<1>7. CASE Environment
  BY <1>7, EnvironmentFlagged
<1>8. CASE UNCHANGED vars
  BY <1>8 DEF vars, settings, handlers, prefetch, writeback,
              FlagInv, EverCacheableOnly, CacheableInFlight
<1> QED BY <1>1, <1>2, <1>3, <1>4, <1>5, <1>6, <1>7, <1>8 DEF Next

\* A source that was never cacheable has no tile in memcached: the guesses on
\* the stream and the messages on the queue come from sources that once were.
THEOREM EverCacheableTilesOnly == Spec => []EverCacheableOnly
<1>1. FlagInv => EverCacheableOnly
  BY DEF FlagInv
<1> QED BY <1>1, InitFlagInv, StepFlagged, TypeInvariant, PTL DEF Spec

-----------------------------------------------------------------------------
(***************************************************************************)
(* No late set replaces a tile by nothing: a handler, the daemon and a     *)
(* write-back task come to set only with a picture in hand, or for a       *)
(* source they do not fetch from.                                          *)
(***************************************************************************)
Fetched == {TYPE_TMS, TYPE_TMS_FLIPPED}

LEMMA InitPicture == Init => PictureInHand
BY DEF Init, PictureInHand

\* A fetch of a handler yields a picture.
LEMMA FetchYields ==
  ASSUME TypeInv, NEW w \in Worker, Fetch(w)
  PROVE  got'[w] # None /\ got' = [got EXCEPT ![w] = got'[w]]
<1> DEFINE k == ask[w].key
           n == UrlRow(Config[k.src].type, [iy |-> k.tile.y, iyf |-> flip_y(k.tile.y, k.tile.z)],
                       ask[w].u)
<1>1. pc[w] # "idle"
  BY DEF Fetch
<1>2. /\ k.src \in Source /\ k.tile.z \in Zoom /\ k.tile.y \in Row(k.tile.z)
      /\ ask[w].u \in Row(k.tile.z)
  BY <1>1, AskShape
<1>3. n \in Row(k.tile.z)
  BY <1>2, UrlRowInRange
<1>4. requestTileFromSource(k.src, k.tile.z, n) # None
  BY <1>2, <1>3, SourceAnswers DEF TypeInv, TypeOK
<1>5. got' = [got EXCEPT ![w] = requestTileFromSource(k.src, k.tile.z, n)]
  BY DEF Fetch
<1> QED BY <1>4, <1>5 DEF TypeInv, TypeOK

\* So does one of the daemon, for a source it fetches from.
LEMMA TaskYields ==
  ASSUME TypeInv, TaskFetches, Config[job.key.src].type \in Fetched
  PROVE  job' # None => job'.key = job.key /\ job'.tile # None
<1> DEFINE k == job.key
           n == UrlRow(Config[k.src].type, [iy |-> k.tile.y, iyf |-> flip_y(k.tile.y, k.tile.z)], 0)
<1>1. k \in Key /\ k.src \in Source /\ k.tile.z \in Zoom /\ k.tile.y \in Row(k.tile.z)
  BY JobShape, KeyShape DEF TaskFetches
<1>2. n \in Row(k.tile.z)
  BY <1>1, FlipInvolution DEF UrlRow, Fetched
<1>3. requestTileFromSource(k.src, k.tile.z, n) # None
  BY <1>1, <1>2, SourceAnswers DEF TypeInv, TypeOK
<1>4. job' = [key |-> k, pc |-> "set", tile |-> requestTileFromSource(k.src, k.tile.z, n)]
  BY DEF TaskFetches, Fetched
<1> QED BY <1>3, <1>4

-----------------------------------------------------------------------------
LEMMA HandlerPictured ==
  ASSUME TypeInv, PictureInHand, NEW w \in Worker, Handler(w)
  PROVE  PictureInHand'
<1> USE DEF prefetch, writeback, settings
<1>1. CASE Lookup(w)
  BY <1>1 DEF Lookup, Answer, TypeInv, TypeOK, PictureInHand
<1>2. CASE Fetch(w)
  <2>1. got'[w] # None /\ \A v \in Worker \ {w} : got'[v] = got[v] /\ pc'[v] = pc[v]
    BY <1>2, FetchYields DEF Fetch, Answer, TypeInv, TypeOK
  <2> QED BY <1>2, <2>1 DEF Fetch, PictureInHand
<1>3. CASE FetchFails(w)
  BY <1>3 DEF FetchFails, Answer, TypeInv, TypeOK, PictureInHand
<1>4. CASE FetchesNothing(w)
  BY <1>4 DEF FetchesNothing, Answer, TypeInv, TypeOK, PictureInHand
<1>5. CASE WriteBack(w) \/ QueueWriteBack(w)
  BY <1>5 DEF WriteBack, QueueWriteBack, Answer, TypeInv, TypeOK, PictureInHand
<1>6. CASE Finish(w)
  BY <1>6 DEF Finish, TypeInv, TypeOK, PictureInHand
<1> QED BY <1>1, <1>2, <1>3, <1>4, <1>5, <1>6 DEF Handler

LEMMA ConsumerPictured ==
  ASSUME TypeInv, PictureInHand, Consumer \/ ConsumerCrashes
  PROVE  PictureInHand'
<1> USE DEF settings, handlers, writeback
<1>1. ASSUME NEW k \in Key, TaskSkips(k) PROVE PictureInHand'
  BY <1>1 DEF TaskSkips, PictureInHand
<1>2. ASSUME NEW k \in Key, TaskMisses(k) PROVE PictureInHand'
  BY <1>2 DEF TaskMisses, Dies, PictureInHand
<1>3. CASE TaskFetches
  <2>1. job' # None => job'.key = job.key
    BY <1>3, TaskFetchesPlace
  <2>2. Config[job.key.src].type \in Fetched => (job' # None => job'.tile # None)
    BY <1>3, TaskYields
  <2> QED BY <1>3, <2>1, <2>2 DEF TaskFetches, PictureInHand, Fetched
<1>4. CASE TaskFetchFails
  BY <1>4 DEF TaskFetchFails, PictureInHand
<1>5. CASE TaskSets \/ ConsumerCrashes
  BY <1>5 DEF TaskSets, ConsumerCrashes, Dies, PictureInHand
<1> QED BY <1>1, <1>2, <1>3, <1>4, <1>5 DEF Consumer

LEMMA StepPictured == TypeInv /\ PictureInHand /\ [Next]_vars => PictureInHand'
<1> SUFFICES ASSUME TypeInv, PictureInHand, [Next]_vars PROVE PictureInHand'
  OBVIOUS
<1> USE DEF settings, handlers, prefetch, writeback
<1>1. ASSUME NEW w \in Worker, NEW url \in Urls,
             NEW z \in Zoom, NEW y \in Row(z), RequestTile(w, url, z, y)
      PROVE  PictureInHand'
  BY <1>1 DEF RequestTile, Screen, Answer, TypeInv, TypeOK, PictureInHand
<1>2. ASSUME NEW w \in Worker, StreamFails(w) PROVE PictureInHand'
  BY <1>2 DEF StreamFails, Answer, TypeInv, TypeOK, PictureInHand
<1>3. ASSUME NEW w \in Worker, Handler(w) PROVE PictureInHand'
  BY <1>3, HandlerPictured
<1>4. CASE Consumer \/ ConsumerCrashes
  BY <1>4, ConsumerPictured
<1>5. CASE UNCHANGED <<handlers, job>>
  BY <1>5 DEF PictureInHand
<1>6. ASSUME NEW b \in SUBSET topic, Poll(b) PROVE PictureInHand'
  BY <1>5, <1>6 DEF Poll
<1>7. ASSUME NEW m, WriteBackChecks(m) \/ WriteBackExpires(m) \/ WriteBackSets(m)
      PROVE  PictureInHand'
  BY <1>5, <1>7 DEF WriteBackChecks, WriteBackExpires, WriteBackSets
<1>8. CASE Environment
  BY <1>4, <1>5, <1>8
     DEF Environment, SourcesEdit, UpstreamPublishes, Evict, Flush, CacheGoesDown, CacheComesUp
<1>9. CASE UNCHANGED vars
  BY <1>5, <1>9 DEF vars
<1> QED BY <1>1, <1>2, <1>3, <1>4, <1>6, <1>7, <1>8, <1>9 DEF Next

-----------------------------------------------------------------------------
\* A tile of a source that both paths fetch from is in memcached before a step
\* and not after it.
Erased == \E k \in Key : /\ Config[k.src].type \in {TYPE_TMS, TYPE_TMS_FLIPPED}
                         /\ tiles[k] # None /\ tiles'[k] = None

\* A set of a picture erases nothing.
LEMMA SetErasesNothing ==
  ASSUME TypeInv, NEW k \in Key, NEW tile,
         Config[k.src].type \in Fetched => tile # None,
         SetSucceeds(k, tile) \/ SetFails
  PROVE  ~Erased
BY DEF TypeInv, TypeOK, SetSucceeds, SetFails, Erased, Fetched

LEMMA HandlerErasesNothing ==
  ASSUME TypeInv, PictureInHand, NEW w \in Worker, Handler(w)
  PROVE  ~Erased
<1>1. CASE WriteBack(w)
  <2>1. ask[w].key \in Key
    BY <1>1, AskShape DEF WriteBack
  <2>2. Config[ask[w].key.src].type \in Fetched => got[w] # None
    BY <1>1 DEF WriteBack, PictureInHand, Fetched, TYPE_TMS, TYPE_TMS_FLIPPED, TYPE_WMS
  <2>3. CASE SetSucceeds(ask[w].key, got[w]) \/ SetFails
    BY <2>1, <2>2, <2>3, SetErasesNothing
  <2>4. CASE tiles' = tiles
    BY <2>4 DEF Erased
  <2> QED BY <1>1, <2>3, <2>4 DEF WriteBack
<1>2. CASE ~WriteBack(w)
  BY <1>2 DEF Handler, Lookup, Fetch, FetchFails, FetchesNothing, QueueWriteBack, Finish, Erased
<1> QED BY <1>1, <1>2

LEMMA ConsumerErasesNothing ==
  ASSUME TypeInv, PictureInHand, Consumer \/ ConsumerCrashes
  PROVE  ~Erased
<1>1. CASE TaskSets
  <2>1. job.key \in Key
    BY <1>1, JobShape DEF TaskSets
  <2>2. Config[job.key.src].type \in Fetched => job.tile # None
    BY <1>1 DEF TaskSets, PictureInHand, Fetched
  <2> QED BY <1>1, <2>1, <2>2, SetErasesNothing DEF TaskSets
<1>2. CASE ~TaskSets
  BY <1>2 DEF Consumer, ConsumerCrashes, TaskSkips, TaskMisses, TaskFetches, TaskFetchFails, Erased
<1> QED BY <1>1, <1>2

\* Messages carry pictures: None could not be queued.
LEMMA WriteBackErasesNothing ==
  ASSUME TypeInv, NEW m \in writing, WriteBackSets(m)
  PROVE  ~Erased
<1>1. m.key \in Key /\ m.tile # None
  BY NoneAssumption DEF TypeInv, TypeOK, Message
<1> QED BY <1>1, SetErasesNothing DEF WriteBackSets

LEMMA StepErases ==
  TypeInv /\ PictureInHand /\ [Next]_vars
  => [Erased => Flush \/ CacheGoesDown \/ \E k \in Key : Evict(k)]_vars
<1> SUFFICES ASSUME TypeInv, PictureInHand, Next, Erased
             PROVE  Flush \/ CacheGoesDown \/ \E k \in Key : Evict(k)
  OBVIOUS
<1>1. tiles' # tiles
  BY DEF Erased
<1>2. ~(\E w \in Worker : Handler(w)) /\ ~Consumer /\ ~ConsumerCrashes
  BY HandlerErasesNothing, ConsumerErasesNothing
<1>3. ~(\E m \in writing : WriteBackSets(m))
  BY WriteBackErasesNothing
<1>4. Environment
  BY <1>1, <1>2, <1>3
     DEF Next, RequestTile, StreamFails, Poll, WriteBackChecks, WriteBackExpires
<1> QED BY <1>1, <1>2, <1>4 DEF Environment, SourcesEdit, UpstreamPublishes, CacheComesUp

\* Whatever the interleaving of lookups, fetches and sets, and whatever fails:
\* a tile of a TMS or flipped source leaves memcached by eviction, by a flush
\* or with memcached itself, and never because a set stored None over it.
THEOREM TilesNotErased == Spec => NoTileErased
<1>1. Spec => [][Erased => Flush \/ CacheGoesDown \/ \E k \in Key : Evict(k)]_vars
  BY InitPicture, StepPictured, StepErases, TypeInvariant, PTL DEF Spec
<1> QED BY <1>1 DEF NoTileErased, Erased

-----------------------------------------------------------------------------
(***************************************************************************)
(* Write-backs arrive, where memcached and the queue do not fail.          *)
(***************************************************************************)
Reliable == {"memcached", "stream"} \cap Faults = {}

LEMMA CacheStaysUp == ASSUME Reliable PROVE cacheUp /\ [Next]_vars => cacheUp'
<1> SUFFICES ASSUME cacheUp, [Next]_vars PROVE cacheUp'
  OBVIOUS
<1>1. cacheUp' = cacheUp \/ CacheGoesDown \/ CacheComesUp
  BY DEF Next, RequestTile, StreamFails, Handler, Lookup, Fetch, FetchFails, FetchesNothing, WriteBack,
     QueueWriteBack, Finish, Poll, Consumer, TaskSkips, TaskMisses, TaskFetches, TaskFetchFails,
     TaskSets, WriteBackChecks, WriteBackExpires, WriteBackSets, Environment, SourcesEdit,
     UpstreamPublishes, Evict, Flush, ConsumerCrashes, vars
<1>2. ~CacheGoesDown
  BY DEF Reliable, CacheGoesDown
<1> QED BY <1>1, <1>2 DEF CacheComesUp

\* A task that leaves the queue without a set has found the tile.
LEMMA ChecksArrive ==
  ASSUME TypeInv, cacheUp, NEW m \in queue, WriteBackChecks(m), m \notin writing'
  PROVE  tiles'[m.key] # None
BY DEF WriteBackChecks, Hit

\* A set stores a picture.
LEMMA SetsArrive ==
  ASSUME Reliable, TypeInv, cacheUp, NEW m \in writing, WriteBackSets(m)
  PROVE  tiles'[m.key] # None
<1>1. m.key \in Key /\ m.tile # None
  BY NoneAssumption DEF TypeInv, TypeOK, Message
<1>2. tiles' = [tiles EXCEPT ![m.key] = m.tile]
  BY DEF WriteBackSets, SetSucceeds, SetFails, Reliable
<1> QED BY <1>1, <1>2 DEF TypeInv, TypeOK

\* Nobody else takes a message from the write-back tasks.
LEMMA StepArrives ==
  ASSUME Reliable
  PROVE  TypeInv /\ cacheUp /\ [Next]_vars =>
           [\A m \in queue \cup writing :
              m \notin queue' \cup writing' => tiles'[m.key] # None]_vars
<1> SUFFICES ASSUME TypeInv, cacheUp, Next, NEW m \in queue \cup writing,
                    m \notin queue' \cup writing'
             PROVE  tiles'[m.key] # None
  OBVIOUS
<1>1. ASSUME NEW n \in queue, WriteBackChecks(n) PROVE tiles'[m.key] # None
  <2>1. m = n
    BY <1>1 DEF WriteBackChecks
  <2> QED BY <1>1, <2>1, ChecksArrive
<1>2. ASSUME NEW n \in writing, WriteBackSets(n) PROVE tiles'[m.key] # None
  <2>1. m = n
    BY <1>2 DEF WriteBackSets
  <2> QED BY <1>2, <2>1, SetsArrive
<1>3. ASSUME NEW n \in queue, WriteBackExpires(n) PROVE tiles'[m.key] # None
  BY <1>3 DEF WriteBackExpires, Reliable
<1>4. CASE queue \subseteq queue' /\ writing' = writing
  BY <1>4
<1>5. \/ queue \subseteq queue' /\ writing' = writing
      \/ \E n \in queue : WriteBackChecks(n) \/ WriteBackExpires(n)
      \/ \E n \in writing : WriteBackSets(n)
  BY DEF Next, RequestTile, StreamFails, Handler, Lookup, Fetch, FetchFails, FetchesNothing, WriteBack,
     QueueWriteBack, Finish, Poll, Consumer, TaskSkips, TaskMisses, TaskFetches, TaskFetchFails,
     TaskSets, Environment, SourcesEdit, UpstreamPublishes, Evict, Flush, CacheGoesDown,
     CacheComesUp, ConsumerCrashes, writeback
<1> QED BY <1>1, <1>2, <1>3, <1>4, <1>5

\* Where memcached and the queue do not fail, a queued tile is in memcached when
\* its task ends, whatever evictions, crashes of the daemon and other writers do
\* meanwhile: the double check of taskWriteBackTile skips no set that is needed.
THEOREM WriteBacksArrive == ASSUME Reliable PROVE Spec => WriteBackArrives
<1>1. Init => cacheUp
  BY DEF Init
<1> QED BY <1>1, CacheStaysUp, StepArrives, TypeInvariant, PTL DEF Spec, WriteBackArrives
=============================================================================
