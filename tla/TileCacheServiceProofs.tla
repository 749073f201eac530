------------------------ MODULE TileCacheServiceProofs ------------------------
(***************************************************************************)
(* The tile path implements TileService, for every configuration and set   *)
(* of urls in which the server counts rows from the north wherever a       *)
(* quadkey comes in (QuadkeysAgree).  Every step of a handler is a step of *)
(* the service or none; a step of anybody else is none, or a change of a   *)
(* picture at its source.                                                  *)
(*                                                                         *)
(* A handler answers with what it finds in memcached, so the service's     *)
(* promise is owed for every picture on its way there: it shows the place  *)
(* of its key (PlaceInv) as the source has served it some time             *)
(* (PublishedInFlight); and handlers do not come to "writeback" without a  *)
(* picture where there is one to be had (PictureInHand).                   *)
(***************************************************************************)
EXTENDS TileCacheService, TileCacheProofs

\* The place a client means is the key its request was given.
LEMMA PlaceAskedIsKey ==
  ASSUME QuadkeysAgree, TypeInv, NEW w \in Worker, pc[w] # "idle"
  PROVE  PlaceAsked(ask[w]) = ask[w].key /\ ask[w].key \in Key
<1> DEFINE k == ask[w].key
<1>1. ask[w] \in Ask /\ ask[w] # None /\ k \in Key
  BY AskShape
<1>2. k = [src |-> k.src, tile |-> k.tile] /\ k.tile = [z |-> k.tile.z, y |-> k.tile.y]
  BY <1>1, TileShape DEF Key
<1>3. k.src = ask[w].url.src /\ k.tile.y = RowMeant(ask[w])
  BY <1>1, RowMeantIsRead DEF TypeInv, AskSound
<1> QED BY <1>1, <1>2, <1>3 DEF PlaceAsked

\* The picture a source answers with is the newest it has of the place.
LEMMA SourcePublishes ==
  ASSUME NEW k \in Key, NEW n, SouthRow(Config[k.src].type, n, k.tile.z) = k.tile.y
  PROVE  requestTileFromSource(k.src, k.tile.z, n).version = version[k]
<1>1. k = [src |-> k.src, tile |-> [z |-> k.tile.z, y |-> k.tile.y]]
  BY TileShape DEF Key
<1> QED BY <1>1 DEF requestTileFromSource

-----------------------------------------------------------------------------
(***************************************************************************)
(* What is on its way has been published.                                  *)
(***************************************************************************)
LEMMA InitPublished == Init => PublishedInFlight
BY DEF Init, PublishedInFlight

\* A picture set for a key is one of the key's.
LEMMA SetPublished ==
  ASSUME TypeInv, PublishedInFlight, version' = version, NEW k \in Key, NEW tile,
         tile # None => Published(k, tile),
         SetSucceeds(k, tile) \/ SetFails
  PROVE  (\A h \in Key : tiles[h] # None => Published(h, tiles[h]))'
BY DEF TypeInv, TypeOK, PublishedInFlight, Published, SetSucceeds, SetFails

\* What a handler has fetched is the newest picture of its place.
LEMMA FetchPublishes ==
  ASSUME QuadkeysAgree, TypeInv, NEW w \in Worker, Fetch(w)
  PROVE  /\ got'[w] \in Picture /\ got'[w].south = ask[w].key.tile.y
         /\ Published(ask[w].key, got'[w])
<1> DEFINE k == ask[w].key
           n == UrlRow(Config[k.src].type,
                       [iy |-> k.tile.y, iyf |-> flip_y(k.tile.y, k.tile.z)], ask[w].u)
<1>1. /\ ask[w] \in Ask /\ ask[w] # None /\ k \in Key /\ k.src \in Source /\ k.tile.z \in Zoom
      /\ k.tile.y \in Row(k.tile.z) /\ ask[w].u \in Row(k.tile.z)
  BY AskShape DEF Fetch
<1>2. ask[w].url \in Urls /\ Config[k.src].type # TYPE_WMS
  BY <1>1 DEF Ask, Fetch, Reachable
<1>3. n \in Row(k.tile.z)
  BY <1>1, UrlRowInRange
<1>4. SouthRow(Config[k.src].type, n, k.tile.z) = k.tile.y
  BY <1>1, <1>2, DirectFetchPlace DEF TypeInv, AskSound
<1>5. got'[w] = requestTileFromSource(k.src, k.tile.z, n)
  BY <1>1 DEF Fetch, TypeInv, TypeOK
<1> HIDE DEF n
<1>6. got'[w] \in Picture /\ got'[w].south = k.tile.y
  BY <1>1, <1>3, <1>4, <1>5, SourceAnswers DEF TypeInv, TypeOK
<1>7. got'[w].version = version[k]
  BY <1>1, <1>4, <1>5, SourcePublishes
<1>8. version[k] <= version[k]
  BY <1>1, SettingsAssumption DEF TypeInv, TypeOK
<1> QED BY <1>2, <1>6, <1>7, <1>8 DEF Published

LEMMA HandlerPublishes ==
  ASSUME QuadkeysAgree, TypeInv, PlaceInv, PublishedInFlight, NEW w \in Worker, Handler(w)
  PROVE  PublishedInFlight'
<1> USE DEF settings, prefetch, writeback
<1>1. CASE Lookup(w)
  <2>1. ask[w].key \in Key
    BY <1>1, AskShape DEF Lookup
  <2> QED BY <1>1, <2>1
          DEF Lookup, Hit, Answer, TypeInv, TypeOK, PublishedInFlight, Published
<1>2. CASE Fetch(w)
  <2>1. got'[w] # None => Published(ask[w].key, got'[w])
    BY <1>2, FetchPublishes
  <2>2. /\ \A v \in Worker \ {w} : got'[v] = got[v]
        /\ ask' = ask /\ tiles' = tiles /\ queue' = queue /\ writing' = writing /\ job' = job
        /\ version' = version
    BY <1>2 DEF Fetch, TypeInv, TypeOK
  <2> QED BY <2>1, <2>2 DEF PublishedInFlight, Published
<1>3. CASE FetchFails(w) \/ FetchesNothing(w)
  BY <1>3 DEF FetchFails, FetchesNothing, Answer, PublishedInFlight, Published
<1>4. CASE WriteBack(w)
  <2>1. ask[w].key \in Key /\ (got[w] # None => Published(ask[w].key, got[w]))
    BY <1>4, AskShape DEF WriteBack, PublishedInFlight
  <2>2. (\A k \in Key : tiles[k] # None => Published(k, tiles[k]))'
    BY <1>4, <2>1, SetPublished DEF WriteBack, PublishedInFlight, Published
  <2> QED BY <1>4, <2>2 DEF WriteBack, PublishedInFlight, Published
<1>5. CASE QueueWriteBack(w)
  BY <1>5 DEF QueueWriteBack, PublishedInFlight, Published
<1>6. CASE Finish(w)
  BY <1>6 DEF Finish, TypeInv, TypeOK, PublishedInFlight, Published
<1> QED BY <1>1, <1>2, <1>3, <1>4, <1>5, <1>6 DEF Handler

\* What the daemon has fetched is of its job's key.
LEMMA TaskFetchesPublished ==
  ASSUME TypeInv, TaskFetches, job'.tile # None
  PROVE  Published(job.key, job.tile)'
<1> DEFINE k == job.key
           type == Config[k.src].type
           n == UrlRow(type, [iy |-> k.tile.y, iyf |-> flip_y(k.tile.y, k.tile.z)], 0)
<1>1. k \in Key /\ k.src \in Source /\ k.tile.z \in Zoom /\ k.tile.y \in Row(k.tile.z)
  BY JobShape DEF TaskFetches
<1>2. type \in {TYPE_TMS, TYPE_TMS_FLIPPED}
  BY DEF TaskFetches
<1>3. SouthRow(type, n, k.tile.z) = k.tile.y
  BY <1>1, <1>2, FlipInvolution
     DEF UrlRow, SouthRow, CountsFromNorth, TYPE_TMS, TYPE_TMS_FLIPPED, TYPE_BING
<1>4. job' = [key |-> k, pc |-> "set", tile |-> requestTileFromSource(k.src, k.tile.z, n)]
  BY <1>2 DEF TaskFetches
<1>5. job'.key = k /\ job'.tile.version = version[k]
  BY <1>1, <1>3, <1>4, SourcePublishes
<1>6. version[k] <= version[k] /\ version' = version
  BY <1>1, SettingsAssumption DEF TypeInv, TypeOK, TaskFetches
<1> QED BY <1>2, <1>5, <1>6 DEF Published, TYPE_TMS, TYPE_TMS_FLIPPED, TYPE_WMS

LEMMA ConsumerPublishes ==
  ASSUME TypeInv, PublishedInFlight, Consumer \/ ConsumerCrashes
  PROVE  PublishedInFlight'
<1> USE DEF settings, handlers, writeback
<1>1. ASSUME NEW k \in Key, TaskSkips(k) \/ TaskMisses(k) PROVE PublishedInFlight'
  BY <1>1 DEF TaskSkips, TaskMisses, Dies, PublishedInFlight, Published
<1>2. CASE TaskFetches
  BY <1>2, TaskFetchesPublished DEF TaskFetches, PublishedInFlight, Published
<1>3. CASE TaskFetchFails \/ ConsumerCrashes
  BY <1>3 DEF TaskFetchFails, ConsumerCrashes, Dies, PublishedInFlight, Published
<1>4. CASE TaskSets
  <2>1. job.key \in Key /\ (job.tile # None => Published(job.key, job.tile))
    BY <1>4, JobShape DEF TaskSets, PublishedInFlight
  <2>2. (\A k \in Key : tiles[k] # None => Published(k, tiles[k]))'
    BY <1>4, <2>1, SetPublished DEF TaskSets
  <2> QED BY <1>4, <2>2 DEF TaskSets, Dies, PublishedInFlight, Published
<1> QED BY <1>1, <1>2, <1>3, <1>4 DEF Consumer

LEMMA WriteBackTaskPublishes ==
  ASSUME TypeInv, PublishedInFlight, NEW m \in queue \cup writing,
         \/ m \in queue /\ (WriteBackChecks(m) \/ WriteBackExpires(m))
         \/ WriteBackSets(m)
  PROVE  PublishedInFlight'
<1> USE DEF settings, handlers, prefetch
<1>1. CASE m \in queue /\ (WriteBackChecks(m) \/ WriteBackExpires(m))
  BY <1>1 DEF WriteBackChecks, WriteBackExpires, PublishedInFlight, Published
<1>2. CASE WriteBackSets(m)
  <2>1. m.key \in Key /\ Published(m.key, m.tile)
    BY DEF PublishedInFlight, TypeInv, TypeOK, Message
  <2>2. (\A k \in Key : tiles[k] # None => Published(k, tiles[k]))'
    BY <1>2, <2>1, SetPublished DEF WriteBackSets
  <2> QED BY <1>2, <2>2 DEF WriteBackSets, PublishedInFlight, Published
<1> QED BY <1>1, <1>2

\* A source that changes a picture has published the older ones.
LEMMA EnvironmentPublishes ==
  ASSUME TypeInv, PlaceInv, PublishedInFlight, Environment
  PROVE  PublishedInFlight'
<1>1. ASSUME NEW k \in Key, UpstreamPublishes(k) PROVE PublishedInFlight'
  <2>1. \A h \in Key : version[h] \in Int /\ version[h] <= version'[h] /\ version'[h] \in Int
    BY <1>1, SettingsAssumption DEF UpstreamPublishes, TypeInv, TypeOK
  <2>2. ASSUME NEW h \in Key, NEW tile \in Picture, Published(h, tile)
        PROVE  Published(h, tile)'
    BY <2>1, <2>2 DEF Published, Picture
  <2>3. ASSUME NEW w \in Worker, got[w] # None PROVE got[w] \in Picture /\ ask[w].key \in Key
    BY <2>3, AskShape DEF TypeInv, TypeOK, PlaceInv, PlacedInFlight
  <2>4. ASSUME NEW m \in queue \cup writing PROVE m.tile \in Picture /\ m.key \in Key
    BY <2>4 DEF TypeInv, TypeOK, Message
  <2>5. job # None /\ job.tile # None => job.tile \in Picture /\ job.key \in Key
    BY JobShape
  <2>6. \A h \in Key : tiles[h] # None => tiles[h] \in Picture
    BY DEF TypeInv, TypeOK
  <2>7. UNCHANGED <<tiles, handlers, prefetch, writeback>>
    BY <1>1 DEF UpstreamPublishes
  <2> QED BY <2>2, <2>3, <2>4, <2>5, <2>6, <2>7
          DEF PublishedInFlight, handlers, prefetch, writeback
<1> USE DEF settings, handlers, prefetch, writeback, PublishedInFlight, Published
<1>2. ASSUME NEW s \in Source, SourcesEdit(s) PROVE PublishedInFlight'
  BY <1>2 DEF SourcesEdit
<1>3. ASSUME NEW k \in Key, Evict(k) PROVE PublishedInFlight'
  BY <1>3 DEF Evict, TypeInv, TypeOK
<1>4. CASE Flush \/ CacheGoesDown
  BY <1>4 DEF Flush, CacheGoesDown
<1>5. CASE CacheComesUp
  BY <1>5 DEF CacheComesUp
<1>6. CASE ConsumerCrashes
  BY <1>6, ConsumerPublishes
<1> QED BY <1>1, <1>2, <1>3, <1>4, <1>5, <1>6 DEF Environment

\* A request starts without a picture.
LEMMA StartPublishes ==
  ASSUME TypeInv, PlaceInv, PublishedInFlight, NEW w \in Worker,
         \/ StreamFails(w)
         \/ \E url \in Urls, z \in Zoom : \E y \in Row(z) :
              RequestTile(w, url, z, y)
  PROVE  PublishedInFlight'
<1>1. /\ UNCHANGED <<tiles, queue, writing, job, got, version>>
      /\ \A v \in Worker \ {w} : ask'[v] = ask[v]
  BY DEF StreamFails, RequestTile, TypeInv, TypeOK, writeback
<1>2. got[w] # None => ask'[w] = ask[w]
  BY DEF StreamFails, RequestTile, PlaceInv, PlacedInFlight
<1> QED BY <1>1, <1>2 DEF PublishedInFlight, Published

LEMMA StepPublishes ==
  QuadkeysAgree /\ TypeInv /\ PlaceInv /\ PublishedInFlight /\ [Next]_vars => PublishedInFlight'
<1> SUFFICES ASSUME QuadkeysAgree, TypeInv, PlaceInv, PublishedInFlight, [Next]_vars
             PROVE  PublishedInFlight'
  OBVIOUS
<1>1. ASSUME NEW w \in Worker, NEW url \in Urls,
             NEW z \in Zoom, NEW y \in Row(z), RequestTile(w, url, z, y)
      PROVE  PublishedInFlight'
  BY <1>1, StartPublishes
<1>2. ASSUME NEW w \in Worker, StreamFails(w) \/ Handler(w) PROVE PublishedInFlight'
  BY <1>2, StartPublishes, HandlerPublishes
<1>3. ASSUME NEW b \in SUBSET topic, Poll(b) PROVE PublishedInFlight'
  BY <1>3 DEF Poll, settings, handlers, writeback, PublishedInFlight, Published
<1>4. CASE Consumer
  BY <1>4, ConsumerPublishes
<1>5. ASSUME NEW m \in queue, WriteBackChecks(m) \/ WriteBackExpires(m) PROVE PublishedInFlight'
  BY <1>5, WriteBackTaskPublishes
<1>6. ASSUME NEW m \in writing, WriteBackSets(m) PROVE PublishedInFlight'
  BY <1>6, WriteBackTaskPublishes
<1>7. CASE Environment
  BY <1>7, EnvironmentPublishes
<1>8. CASE UNCHANGED vars
  BY <1>8 DEF vars, settings, handlers, prefetch, writeback, PublishedInFlight, Published
<1> QED BY <1>1, <1>2, <1>3, <1>4, <1>5, <1>6, <1>7, <1>8 DEF Next

-----------------------------------------------------------------------------
(***************************************************************************)
(* What a handler works on.                                                *)
(***************************************************************************)
LEMMA InitWork == Init => WorkInFlight
BY DEF Init, WorkInFlight, CachePath

LEMMA RequestTileWorks ==
  ASSUME TypeInv, WorkInFlight, NEW w \in Worker, NEW url \in Urls,
         NEW z \in Zoom, NEW y \in Row(z), RequestTile(w, url, z, y)
  PROVE  WorkInFlight'
<1> DEFINE a == Asked(url, z, y)
           iyf == YValues(url, z, y).iyf
<1>1. ask'[w] = a /\ \A v \in Worker \ {w} : ask'[v] = ask[v] /\ pc'[v] = pc[v] /\ reply'[v] = reply[v]
  BY DEF RequestTile, Screen, Answer, TypeInv, TypeOK
<1>2. a.key.src = url.src /\ a.key.tile.z = z /\ iyf = flip_y(a.key.tile.y, z)
  BY AskedIsSound
<1>3. pc'[w] \in CachePath \cup {"bypass"} => ValidZoom(url.src, z) /\ IntersectsSource(url.src, z, iyf)
  BY DEF RequestTile, Screen, Answer, TypeInv, TypeOK, CachePath
<1>4. pc'[w] = "done" <=> reply'[w] # "none"
  BY DEF RequestTile, Screen, Answer, TypeInv, TypeOK, WorkInFlight
<1> QED BY <1>1, <1>2, <1>3, <1>4 DEF WorkInFlight

LEMMA StepWorks == TypeInv /\ WorkInFlight /\ [Next]_vars => WorkInFlight'
<1> SUFFICES ASSUME TypeInv, WorkInFlight, [Next]_vars PROVE WorkInFlight'
  OBVIOUS
<1>1. ASSUME NEW w \in Worker, NEW url \in Urls,
             NEW z \in Zoom, NEW y \in Row(z), RequestTile(w, url, z, y)
      PROVE  WorkInFlight'
  BY <1>1, RequestTileWorks
<1>2. ASSUME NEW w \in Worker, StreamFails(w) PROVE WorkInFlight'
  BY <1>2 DEF StreamFails, Answer, TypeInv, TypeOK, WorkInFlight, CachePath
<1>3. ASSUME NEW w \in Worker, Handler(w) PROVE WorkInFlight'
  BY <1>3 DEF Handler, Lookup, Fetch, FetchFails, FetchesNothing, WriteBack, QueueWriteBack, Finish,
              Answer, TypeInv, TypeOK, WorkInFlight, CachePath
<1>4. CASE UNCHANGED handlers
  BY <1>4 DEF handlers, WorkInFlight
<1>5. ASSUME NEW b \in SUBSET topic, Poll(b) PROVE WorkInFlight'
  BY <1>4, <1>5 DEF Poll
<1>6. CASE Consumer
  BY <1>4, <1>6 DEF Consumer, TaskSkips, TaskMisses, TaskFetches, TaskFetchFails, TaskSets
<1>7. ASSUME NEW m, WriteBackChecks(m) \/ WriteBackExpires(m) \/ WriteBackSets(m)
      PROVE  WorkInFlight'
  BY <1>4, <1>7 DEF WriteBackChecks, WriteBackExpires, WriteBackSets
<1>8. CASE Environment
  BY <1>4, <1>8 DEF Environment, SourcesEdit, UpstreamPublishes, Evict, Flush, CacheGoesDown,
                    CacheComesUp, ConsumerCrashes
<1>9. CASE UNCHANGED vars
  BY <1>4, <1>9 DEF vars
<1> QED BY <1>1, <1>2, <1>3, <1>5, <1>6, <1>7, <1>8, <1>9 DEF Next

-----------------------------------------------------------------------------
\* These invariants hold throughout.
LEMMA PictureInvariant == Spec => []PictureInHand
BY InitPicture, StepPictured, TypeInvariant, PTL DEF Spec

LEMMA PublishedInvariant == ASSUME QuadkeysAgree PROVE Spec => []PublishedInFlight
BY InitPublished, StepPublishes, TypeInvariant, PlaceInvariant, PTL DEF Spec

LEMMA WorkInvariant == Spec => []WorkInFlight
BY InitWork, StepWorks, TypeInvariant, PTL DEF Spec

\* Everything that is under way between the steps is sound: what is written to
\* memcached later needs no test any more (_requestTile, taskRequestTile and
\* taskWriteBackTile make none there).
THEOREM UnderWayIsSound == ASSUME QuadkeysAgree PROVE Spec => []InFlightSound
<1>1. TypeInv => AskSound
  BY DEF TypeInv
<1>2. ScreenInv => ScreenedInFlight
  BY DEF ScreenInv
<1>3. FlagInv => CacheableInFlight
  BY DEF FlagInv
<1>4. PlaceInv => PlacedInFlight
  BY DEF PlaceInv
<1>5. AskSound /\ ScreenedInFlight /\ CacheableInFlight /\ PlacedInFlight /\ PictureInHand
      /\ PublishedInFlight /\ WorkInFlight => InFlightSound
  BY DEF InFlightSound
<1>6. Spec => []ScreenInv
  BY InitScreenInv, StepScreened, TypeInvariant, PTL DEF Spec
<1>7. Spec => []FlagInv
  BY InitFlagInv, StepFlagged, TypeInvariant, PTL DEF Spec
<1> QED BY <1>1, <1>2, <1>3, <1>4, <1>5, <1>6, <1>7, TypeInvariant, PlaceInvariant,
           PictureInvariant, PublishedInvariant, WorkInvariant, PTL

-----------------------------------------------------------------------------
(***************************************************************************)
(* The refinement.  ServiceInv is what the steps of a handler need.        *)
(***************************************************************************)
ServiceInv == TypeInv /\ PlaceInv /\ PictureInHand /\ PublishedInFlight /\ WorkInFlight

\* The values of the service's variables.
askedBar == [w \in Worker |-> IF ask[w] = None THEN None ELSE PlaceAsked(ask[w])]
answerBar == [w \in Worker |-> Response(w)]

\* The answers the service allows for a place: a published picture of it, what
\* its limits say, an error if there is a reason.
LEMMA TileIsAnswer ==
  ASSUME TypeInv, NEW k \in Key, NEW tile \in Picture, Published(k, tile),
         ValidZoom(k.src, k.tile.z),
         IntersectsSource(k.src, k.tile.z, flip_y(k.tile.y, k.tile.z))
  PROVE  [kind |-> "tile", place |-> k, version |-> tile.version] \in Service!Answers(k)
<1>1. Limits(k) = "open"
  BY DEF Limits, Published
<1>2. tile.version \in 0 .. version[k]
  BY SettingsAssumption DEF Published, Picture, TypeInv, TypeOK
<1> QED BY <1>1, <1>2 DEF Service!Answers

LEMMA VerdictIsAnswer ==
  ASSUME NEW k \in Key, Limits(k) # "open"
  PROVE  [kind |-> Limits(k), place |-> None, version |-> 0] \in Service!Answers(k)
BY DEF Service!Answers, Service!Plain

LEMMA ErrorIsAnswer ==
  ASSUME NEW k \in Key, MayFail(k)
  PROVE  [kind |-> "error", place |-> None, version |-> 0] \in Service!Answers(k)
BY DEF Service!Answers, Service!Plain

\* A step of one handler changes what one client sees.
LEMMA OneClient ==
  ASSUME NEW w \in Worker,
         \A v \in Worker \ {w} : ask'[v] = ask[v] /\ reply'[v] = reply[v] /\ got'[v] = got[v]
  PROVE  /\ askedBar' = [askedBar EXCEPT ![w] = IF ask'[w] = None THEN None ELSE PlaceAsked(ask'[w])]
         /\ answerBar' = [answerBar EXCEPT ![w] = Response(w)']
BY DEF askedBar, answerBar, Response, PlaceAsked

\* A handler that comes to its answer.
LEMMA AnswerIsReply ==
  ASSUME QuadkeysAgree, ServiceInv, NEW w \in Worker, pc[w] \in CachePath \cup {"bypass"},
         ask' = ask, version' = version,
         \A v \in Worker \ {w} : reply'[v] = reply[v] /\ got'[v] = got[v],
         Response(w)' \in Service!Answers(ask[w].key)
  PROVE  Service!Reply(w)
<1>1. /\ askedBar[w] = ask[w].key /\ askedBar[w] # None
      /\ ask[w] # None
  <2>1. pc[w] # "idle"
    BY DEF CachePath
  <2>2. ask[w] # None /\ PlaceAsked(ask[w]) = ask[w].key /\ ask[w].key \in Key
    BY <2>1, AskShape, PlaceAskedIsKey DEF ServiceInv
  <2> QED BY <2>2, NoneAssumption DEF askedBar
<1>2. answerBar[w] = Service!Plain("none")
  BY DEF answerBar, Response, Service!Plain, ServiceInv, WorkInFlight, CachePath
<1>3. answerBar' = [answerBar EXCEPT ![w] = Response(w)'] /\ askedBar' = askedBar
  BY OneClient DEF askedBar
<1> QED BY <1>1, <1>2, <1>3 DEF Service!Reply, askedBar, answerBar

\* A handler that does not answer, and everybody else, is not noticed.
LEMMA Unnoticed ==
  ASSUME version' = version, ask' = ask, reply' = reply,
         \A v \in Worker : got'[v] = got[v] \/ reply[v] # "tile"
  PROVE  UNCHANGED Service!vars
<1>1. askedBar' = askedBar
  BY DEF askedBar
<1>2. answerBar' = answerBar
  BY DEF answerBar, Response
<1> QED BY <1>1, <1>2 DEF Service!vars, askedBar, answerBar

\* The answer a handler gives with a picture in hand, and without one.
LEMMA PictureAnswered ==
  ASSUME ServiceInv, NEW w \in Worker, pc[w] \in CachePath \cup {"bypass"}, ask' = ask,
         reply'[w] = "tile", got'[w] \in Picture,
         got'[w].south = ask[w].key.tile.y, Published(ask[w].key, got'[w])
  PROVE  Response(w)' \in Service!Answers(ask[w].key)
<1> DEFINE k == ask[w].key
<1>1. k \in Key /\ k = [src |-> k.src, tile |-> [z |-> k.tile.z, y |-> k.tile.y]]
  BY AskShape, TileShape DEF ServiceInv, CachePath, Key
<1>2. ValidZoom(k.src, k.tile.z) /\ IntersectsSource(k.src, k.tile.z, flip_y(k.tile.y, k.tile.z))
  BY DEF ServiceInv, WorkInFlight
<1>3. Response(w)' = [kind |-> "tile", place |-> k, version |-> got'[w].version]
  BY <1>1 DEF Response
<1> QED BY <1>1, <1>2, <1>3, TileIsAnswer DEF ServiceInv

LEMMA NothingAnswered ==
  ASSUME ServiceInv, NEW w \in Worker, pc[w] \in CachePath \cup {"bypass"},
         reply'[w] = "red", Config[ask[w].key.src].type = TYPE_WMS
  PROVE  Response(w)' \in Service!Answers(ask[w].key)
<1> DEFINE k == ask[w].key
<1>1. k \in Key
  BY AskShape DEF ServiceInv, CachePath
<1>2. Limits(k) = "red"
  BY DEF Limits, ServiceInv, WorkInFlight
<1>3. Response(w)' = [kind |-> "red", place |-> None, version |-> 0]
  BY DEF Response
<1> QED BY <1>1, <1>2, <1>3, VerdictIsAnswer

LEMMA ErrorAnswered ==
  ASSUME ServiceInv, NEW w \in Worker, NEW k \in Key, reply'[w] = "error", MayFail(k)
  PROVE  Response(w)' \in Service!Answers(k)
<1>1. Response(w)' = [kind |-> "error", place |-> None, version |-> 0]
  BY DEF Response
<1> QED BY <1>1, ErrorIsAnswer

\* What a handler has at the end of the cache path: a picture, or a source that
\* is never asked.
LEMMA WriteBackAnswers ==
  ASSUME ServiceInv, NEW w \in Worker, pc[w] = "writeback", ask' = ask, got' = got,
         reply'[w] = IF got[w] = None THEN "red" ELSE "tile"
  PROVE  Response(w)' \in Service!Answers(ask[w].key)
<1>1. CASE got[w] = None
  <2>1. Config[ask[w].key.src].type = TYPE_WMS
    BY <1>1 DEF ServiceInv, PictureInHand
  <2> QED BY <1>1, <2>1, NothingAnswered DEF CachePath
<1>2. CASE got[w] # None
  <2>1. got[w] \in Picture /\ got[w].south = ask[w].key.tile.y /\ Published(ask[w].key, got[w])
    BY <1>2 DEF ServiceInv, TypeInv, TypeOK, PlaceInv, PlacedInFlight, PublishedInFlight
  <2> QED BY <1>2, <2>1, PictureAnswered DEF CachePath
<1> QED BY <1>1, <1>2

-----------------------------------------------------------------------------
(***************************************************************************)
(* The steps.                                                              *)
(***************************************************************************)
LEMMA HandlerRefines ==
  ASSUME QuadkeysAgree, ServiceInv, NEW w \in Worker, Handler(w)
  PROVE  [Service!Next]_(Service!vars)
<1> DEFINE k == ask[w].key
<1>1. ASSUME Service!Reply(w) PROVE Service!Next
  BY <1>1 DEF Service!Next
<1>2. CASE Lookup(w)
  <2>1. CASE Hit(k)
    <3>1. k \in Key
      BY <1>2, AskShape DEF Lookup, ServiceInv
    <3>2. tiles[k] \in Picture /\ tiles[k].south = k.tile.y /\ Published(k, tiles[k])
      BY <2>1, <3>1 DEF Hit, ServiceInv, TypeInv, TypeOK, PlaceInv, KeyNamesPlace, PublishedInFlight
    <3>3. /\ ask' = ask /\ version' = version
          /\ reply'[w] = "tile" /\ got'[w] = tiles[k] /\ pc[w] \in CachePath \cup {"bypass"}
          /\ \A v \in Worker \ {w} : reply'[v] = reply[v] /\ got'[v] = got[v]
      BY <1>2, <2>1 DEF Lookup, Answer, CachePath, ServiceInv, TypeInv, TypeOK
    <3>4. Published(k, got'[w]) /\ got'[w] \in Picture /\ got'[w].south = k.tile.y
      BY <3>2, <3>3
    <3>5. Response(w)' \in Service!Answers(k)
      BY <3>3, <3>4, PictureAnswered
    <3> QED BY <1>1, <3>3, <3>5, AnswerIsReply
  <2>2. CASE ~Hit(k)
    BY <1>2, <2>2, Unnoticed DEF Lookup
  <2> QED BY <2>1, <2>2
<1>3. CASE Fetch(w)
  <2>1. CASE pc[w] = "fetch"
    <3>1. /\ ask' = ask /\ version' = version /\ reply' = reply
          /\ reply[w] # "tile" /\ \A v \in Worker \ {w} : got'[v] = got[v]
      BY <1>3, <2>1 DEF Fetch, ServiceInv, WorkInFlight, TypeInv, TypeOK
    <3> QED BY <3>1, Unnoticed
  <2>2. CASE pc[w] = "bypass"
    <3>1. /\ ask' = ask /\ version' = version /\ reply'[w] = "tile"
          /\ \A v \in Worker \ {w} : reply'[v] = reply[v] /\ got'[v] = got[v]
      BY <1>3, <2>2 DEF Fetch, Answer, ServiceInv, TypeInv, TypeOK
    <3>2. Response(w)' \in Service!Answers(k)
      BY <1>3, <2>2, <3>1, FetchPublishes, PictureAnswered DEF ServiceInv
    <3> QED BY <1>1, <2>2, <3>1, <3>2, AnswerIsReply
  <2> QED BY <1>3, <2>1, <2>2 DEF Fetch
<1>4. CASE FetchFails(w)
  <2>1. k \in Key /\ MayFail(k)
    BY <1>4, AskShape DEF FetchFails, MayFail, ServiceInv
  <2>2. /\ ask' = ask /\ version' = version /\ reply'[w] = "error" /\ got' = got
        /\ pc[w] \in CachePath \cup {"bypass"} /\ \A v \in Worker \ {w} : reply'[v] = reply[v]
    BY <1>4 DEF FetchFails, Answer, CachePath, ServiceInv, TypeInv, TypeOK
  <2> QED BY <1>1, <2>1, <2>2, ErrorAnswered, AnswerIsReply
<1>5. CASE FetchesNothing(w)
  <2>1. CASE pc[w] = "fetch"
    BY <1>5, <2>1, Unnoticed DEF FetchesNothing
  <2>2. CASE pc[w] = "bypass"
    <3>1. /\ ask' = ask /\ version' = version /\ reply'[w] = "red" /\ got' = got
          /\ Config[k.src].type = TYPE_WMS /\ \A v \in Worker \ {w} : reply'[v] = reply[v]
      BY <1>5, <2>2 DEF FetchesNothing, Answer, ServiceInv, TypeInv, TypeOK
    <3> QED BY <1>1, <2>2, <3>1, NothingAnswered, AnswerIsReply
  <2> QED BY <1>5, <2>1, <2>2 DEF FetchesNothing
<1>6. CASE WriteBack(w) \/ QueueWriteBack(w)
  <2>1. /\ ask' = ask /\ version' = version /\ got' = got /\ pc[w] = "writeback"
        /\ reply'[w] = IF got[w] = None THEN "red" ELSE "tile"
        /\ \A v \in Worker \ {w} : reply'[v] = reply[v]
    BY <1>6 DEF WriteBack, QueueWriteBack, Answer, ServiceInv, TypeInv, TypeOK
  <2> QED BY <1>1, <2>1, WriteBackAnswers, AnswerIsReply DEF CachePath
<1>7. CASE Finish(w)
  <2>1. askedBar[w] # None /\ answerBar[w] # Service!Plain("none")
    <3>1. pc[w] # "idle" /\ reply[w] # "none"
      BY <1>7 DEF Finish, ServiceInv, WorkInFlight
    <3>2. ask[w] # None /\ PlaceAsked(ask[w]) \in Key
      BY <3>1, AskShape, PlaceAskedIsKey DEF ServiceInv
    <3> QED BY <3>1, <3>2, NoneAssumption DEF askedBar, answerBar, Response, Service!Plain
  <2>2. ask'[w] = None /\ reply'[w] = "none" /\ version' = version
        /\ \A v \in Worker \ {w} : ask'[v] = ask[v] /\ reply'[v] = reply[v] /\ got'[v] = got[v]
    BY <1>7 DEF Finish, ServiceInv, TypeInv, TypeOK
  <2>3. askedBar' = [askedBar EXCEPT ![w] = None]
    BY <2>2, OneClient
  <2>4. Response(w)' = Service!Plain("none")
    BY <2>2 DEF Response, Service!Plain
  <2>5. answerBar' = [answerBar EXCEPT ![w] = Service!Plain("none")]
    BY <2>2, <2>4, OneClient
  <2>6. Service!Done(w)
    BY <2>1, <2>2, <2>3, <2>5 DEF Service!Done, askedBar, answerBar
  <2> QED BY <2>6 DEF Service!Next
<1> QED BY <1>2, <1>3, <1>4, <1>5, <1>6, <1>7 DEF Handler

\* A handler that takes a request, which it may answer at once.
LEMMA RequestIsAsk ==
  ASSUME ServiceInv, NEW w \in Worker, NEW k \in Key,
         pc[w] = "idle", ask'[w] # None, PlaceAsked(ask[w])' = k, version' = version,
         \A v \in Worker \ {w} : ask'[v] = ask[v] /\ reply'[v] = reply[v] /\ got'[v] = got[v],
         reply'[w] = "none" \/ Response(w)' \in Service!Answers(k)
  PROVE  Service!Ask(w, k)
<1>1. askedBar[w] = None
  BY DEF askedBar, ServiceInv, TypeInv, TypeOK
<1>2. askedBar' = [askedBar EXCEPT ![w] = k]
  BY OneClient
<1>3. Response(w)' \in Service!Answers(k) \cup {Service!Plain("none")}
  BY DEF Response, Service!Plain
<1>4. answerBar' = [answerBar EXCEPT ![w] = Response(w)']
  BY OneClient
<1> QED BY <1>1, <1>2, <1>3, <1>4 DEF Service!Ask, askedBar, answerBar

LEMMA AskedMeansKey ==
  ASSUME QuadkeysAgree, NEW url \in Urls, NEW z \in Zoom, NEW y \in Row(z)
  PROVE  /\ Asked(url, z, y).key \in Key
         /\ PlaceAsked(Asked(url, z, y)) = Asked(url, z, y).key
<1> DEFINE a == Asked(url, z, y)
<1>1. a.key = [src |-> a.url.src, tile |-> [z |-> a.key.tile.z, y |-> a.key.tile.y]]
  BY DEF Asked
<1>2. a.key \in Key /\ a.key.tile.y = RowMeant(a)
  BY AskedIsSound, RowMeantIsRead DEF Ask
<1> QED BY <1>1, <1>2 DEF PlaceAsked

LEMMA RequestTileRefines ==
  ASSUME QuadkeysAgree, ServiceInv, NEW w \in Worker, NEW url \in Urls,
         NEW z \in Zoom, NEW y \in Row(z), RequestTile(w, url, z, y)
  PROVE  [Service!Next]_(Service!vars)
<1> DEFINE a == Asked(url, z, y)
           k == a.key
           iyf == YValues(url, z, y).iyf
<1>1. k \in Key /\ PlaceAsked(a) = k
  BY AskedMeansKey
<1>2. a # None /\ k.src = url.src /\ k.tile.z = z /\ iyf = flip_y(k.tile.y, z)
  BY AskedIsSound
<1>3. /\ pc[w] = "idle" /\ ask'[w] = a /\ version' = version
      /\ \A v \in Worker \ {w} : ask'[v] = ask[v] /\ reply'[v] = reply[v] /\ got'[v] = got[v]
  BY DEF RequestTile, Screen, Answer, ServiceInv, TypeInv, TypeOK
<1>4. \/ reply'[w] = "none"
      \/ reply'[w] = "blank" /\ ~IntersectsSource(url.src, z, iyf)
      \/ reply'[w] = "red" /\ IntersectsSource(url.src, z, iyf) /\ ~ValidZoom(url.src, z)
  BY DEF RequestTile, Screen, Answer, ServiceInv, TypeInv, TypeOK, WorkInFlight
<1>5. reply'[w] # "none" => Limits(k) # "open" /\ reply'[w] = Limits(k)
  BY <1>2, <1>4 DEF Limits
<1>6. reply'[w] = "none" \/ Response(w)' \in Service!Answers(k)
  <2>1. reply'[w] # "tile"
    BY <1>4
  <2> QED BY <1>1, <1>5, <2>1, VerdictIsAnswer DEF Response
<1>7. PlaceAsked(ask[w])' = k
  BY <1>1, <1>3 DEF PlaceAsked
<1>8. Service!Ask(w, k)
  BY <1>1, <1>2, <1>3, <1>6, <1>7, RequestIsAsk
<1> QED BY <1>1, <1>8 DEF Service!Next

LEMMA StreamFailsRefines ==
  ASSUME QuadkeysAgree, ServiceInv, NEW w \in Worker, StreamFails(w)
  PROVE  [Service!Next]_(Service!vars)
<1>1. /\ reply'[w] = "error" /\ version' = version /\ got' = got
      /\ \A v \in Worker \ {w} : ask'[v] = ask[v] /\ reply'[v] = reply[v]
  BY DEF StreamFails, Answer, ServiceInv, TypeInv, TypeOK
<1>2. \A k \in Key : MayFail(k) /\ Response(w)' \in Service!Answers(k)
  <2>1. \A k \in Key : MayFail(k)
    BY DEF StreamFails, MayFail
  <2> QED BY <1>1, <2>1, ErrorAnswered
<1>3. CASE pc[w] \in {"lookup", "bypass"} /\ UNCHANGED ask
  <2>1. ask[w].key \in Key
    BY <1>3, AskShape DEF ServiceInv
  <2>2. Service!Reply(w)
    BY <1>1, <1>2, <1>3, <2>1, AnswerIsReply DEF CachePath
  <2> QED BY <2>2 DEF Service!Next
<1>4. ASSUME NEW url \in Urls, NEW z \in Zoom, NEW y \in Row(z),
             pc[w] = "idle", ask' = [ask EXCEPT ![w] = Asked(url, z, y)]
      PROVE  Service!Next
  <2> DEFINE k == Asked(url, z, y).key
  <2>1. ask'[w] = Asked(url, z, y) /\ ask'[w] # None
    BY <1>4, AskedIsSound DEF ServiceInv, TypeInv, TypeOK
  <2>2. k \in Key /\ PlaceAsked(ask[w])' = k
    BY <2>1, AskedMeansKey DEF PlaceAsked
  <2>3. Service!Ask(w, k)
    BY <1>1, <1>2, <1>4, <2>1, <2>2, RequestIsAsk
  <2> QED BY <2>2, <2>3 DEF Service!Next
<1> QED BY <1>3, <1>4 DEF StreamFails

\* Nobody else is noticed, but for the source that changes a picture.
LEMMA OthersUnnoticed ==
  ASSUME \/ \E b \in SUBSET topic : Poll(b)
         \/ Consumer
         \/ \E m \in queue : WriteBackChecks(m) \/ WriteBackExpires(m)
         \/ \E m \in writing : WriteBackSets(m)
         \/ Environment /\ ~\E k \in Key : UpstreamPublishes(k)
         \/ UNCHANGED vars
  PROVE  UNCHANGED Service!vars
<1>1. UNCHANGED <<version, handlers>>
  <2>1. ASSUME NEW b \in SUBSET topic, Poll(b) PROVE UNCHANGED <<version, handlers>>
    BY <2>1 DEF Poll
  <2>2. CASE Consumer
    BY <2>2 DEF Consumer, TaskSkips, TaskMisses, TaskFetches, TaskFetchFails, TaskSets
  <2>3. ASSUME NEW m, WriteBackChecks(m) \/ WriteBackExpires(m) \/ WriteBackSets(m)
        PROVE  UNCHANGED <<version, handlers>>
    BY <2>3 DEF WriteBackChecks, WriteBackExpires, WriteBackSets
  <2>4. CASE Environment /\ ~\E k \in Key : UpstreamPublishes(k)
    BY <2>4 DEF Environment, SourcesEdit, Evict, Flush, CacheGoesDown, CacheComesUp, ConsumerCrashes
  <2>5. CASE UNCHANGED vars
    BY <2>5 DEF vars
  <2> QED BY <2>1, <2>2, <2>3, <2>4, <2>5
<1>2. version' = version /\ ask' = ask /\ reply' = reply /\ got' = got
  BY <1>1 DEF handlers
<1> QED BY <1>2, Unnoticed

LEMMA PublishRefines ==
  ASSUME NEW k \in Key, UpstreamPublishes(k)
  PROVE  Service!Next
<1>1. ask' = ask /\ reply' = reply /\ got' = got
  BY DEF UpstreamPublishes, handlers
<1>2. askedBar' = askedBar /\ answerBar' = answerBar
  BY <1>1 DEF askedBar, answerBar, Response
<1>3. Service!Publish(k)
  BY <1>2 DEF UpstreamPublishes, Service!Publish, askedBar, answerBar
<1> QED BY <1>3 DEF Service!Next

LEMMA InitRefines == Init => Service!Init
BY DEF Init, Service!Init, Service!Plain, Response

LEMMA StepRefines == QuadkeysAgree /\ ServiceInv /\ [Next]_vars => [Service!Next]_(Service!vars)
<1> SUFFICES ASSUME QuadkeysAgree, ServiceInv, [Next]_vars PROVE [Service!Next]_(Service!vars)
  OBVIOUS
<1>1. ASSUME NEW w \in Worker, NEW url \in Urls,
             NEW z \in Zoom, NEW y \in Row(z), RequestTile(w, url, z, y)
      PROVE  [Service!Next]_(Service!vars)
  BY <1>1, RequestTileRefines
<1>2. ASSUME NEW w \in Worker, StreamFails(w) \/ Handler(w) PROVE [Service!Next]_(Service!vars)
  BY <1>2, StreamFailsRefines, HandlerRefines
<1>3. CASE \/ \E b \in SUBSET topic : Poll(b)
           \/ Consumer
           \/ \E m \in queue : WriteBackChecks(m) \/ WriteBackExpires(m)
           \/ \E m \in writing : WriteBackSets(m)
           \/ UNCHANGED vars
  BY <1>3, OthersUnnoticed
<1>4. CASE Environment
  BY <1>4, OthersUnnoticed, PublishRefines
<1> QED BY <1>1, <1>2, <1>3, <1>4 DEF Next

\* The tile path implements the tile service: no interleaving of handlers,
\* daemon, write-back tasks, evictions, crashes and edits shows a client an
\* answer that a server without any cache could not have given (_requestTile,
\* taskRequestTile, taskWriteBackTile).
THEOREM ImplementsTileService == ASSUME QuadkeysAgree PROVE Spec => ImplementsService
<1>1. Spec => []ServiceInv
  BY TypeInvariant, PlaceInvariant, PictureInvariant, PublishedInvariant, WorkInvariant, PTL
     DEF ServiceInv
<1> QED BY <1>1, InitRefines, StepRefines, PTL DEF Spec, ImplementsService, Service!Spec
=============================================================================
