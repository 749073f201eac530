# TLA+ models of tilejet-server

tilejet-server is a Django application that proxies map tiles: it looks a tile
up in memcached, fetches it from its source when it is not there, stores it, and
guesses which tiles will be asked for next. It runs as gunicorn workers with
gevent greenlets, three stream consumers started by supervisord, and Celery
workers; they share memcached, a SQLite database, MongoDB and files. This
directory models the parts of it where several of these processes meet, and the
plugins its pages run in the browser, checks them with TLC, and proves the safety
properties with TLAPS.

Source paths below are relative to `src/tilejetserver/` unless they start with
`src/`.

## 1. The system

| part | code | state it keeps | operations |
| --- | --- | --- | --- |
| tile addresses | `utils.py` `getYValues`, `cache/views.py` `_requestTile`, tilejetutil | none | conversion between row numberings, tiles of the heuristics |
| request path | `cache/views.py` `_requestTile` (948-1144), `source/utils.py` `requestTileFromSource` | one greenlet's locals; tile memcached | screen, look up, fetch, write back, answer |
| prefetch daemon | `src/geowatch-consumer-requests.py`, `broker.py`, `cache/tasks.py` `taskRequestTile` | "requests" stream, the batch in work | poll, look up, fetch, set |
| asynchronous write-back | `cache/tasks.py` `taskWriteBackTile`, Celery | "writeback" queue | double check, set |
| tile memcached | `settings.py` `CACHES['tiles']`, view `flush` | tiles by source name and address | expiry, eviction, flush, restart |
| registry | `source/models.py`, `cache/models.py`, `source/utils.py`, `cache/forms.py`, views `origins_*`, `sources_*`, `services_*`, `tile_tms`, `proxy_tms`, `proxy/views.py` | rows in the database, lists in the default memcached | read-through, reload, forms, automatic creation of sources |
| log and statistics | `logs.py`, `broker.py`, `taskIncStats`, views `logs_*`, `stats_*` | log files, "logs" and "stats" streams, MongoDB | append, insert, increment, clear, reload |
| statistics file | `utils.py` `commit_to_file`, `taskUpdateStats`, `src/cron-update-stats.py`, `stats_json` | a JSON file, a key of the default memcached | aggregate, rewrite, read |
| stream provisioning | `geowatch.py` | none | connect with retries |
| plugins of the pages | `static/bootstrap/3.3.5/js/*.js`, loaded by `templates/base.html:38` | classes, positions and handlers of elements in the page | open, close, slide, follow the scroll position, with transitions and timers |
| pages, exports, admin, deployment | templates, `urls.py`, `admin.py`, `supervisord.conf`, rest of `static/` | none of their own | formatting, routing, configuration |

How they interact: `tile_tms` and `proxy_tms` find a source in a cached list and
call `_requestTile`. That sends guesses to the "requests" stream and a log line
to the "logs" stream, and either answers from memcached or fetches and stores,
directly or through the "writeback" queue. The daemon takes guesses off the
stream and fills the same memcached. The logs consumer turns lines into MongoDB
documents and messages on the "stats" stream, from which the stats consumer
increments counters; a script and a Celery task write the counters to a file,
which a page reads. The plugins run in the browser, apart from all this and from
each other; they share only the way they wait for transitions.

What is hard here, and what makes each part correct:

* *Row numberings.* TMS counts rows from the south, flipped TMS and quadkeys
  from the north; a service may number differently from its source, and a url from
  both. Two code paths convert. Correct: a client sees the place it asked for, and a cache entry
  shows what its key says, whoever wrote it.
* *Two guardians of one cache.* Handlers and the daemon both screen tiles, the
  write-back does not. Correct: nothing gets in that a screen would refuse.
* *Partial failure.* memcached, streams, Celery and sources fail apart from each
  other. Correct: a client is answered whenever the source can answer.
* *Late writers.* Fills take as long as a fetch. Correct: no late fill erases a
  tile, and old pictures drain.
* *Cached lists over a database.* Query and cache write are two steps and writers
  race. Correct: the lists come to agree with the rows; duplicates are bounded.
* *Counting.* At-most-once inserts, at-least-once streams, rebuilds beside
  increments. Correct: a request is counted once in each collection, or a crash,
  an unacknowledged write or an operator has dropped or repeated it.
* *One file, two writers.* Remove, open and write are separate steps. Correct:
  whatever a reader meets meanwhile, file and page come to agree with the counters.
* *Clicks during transitions.* A plugin's end of a transition runs a third of a
  second after the click, on elements that other clicks have changed. Correct: when
  everything is at rest, the page shows what was asked for last.

Every such hazard is listed with its line in `PROJECT.json`.

## 2. Modules

| module | content |
| --- | --- |
| `TileAddress` | pure definitions: numberings of rows, `getYValues`, the row in a source's url, heuristics |
| `TileCache` | request path, daemon, write-back, memcached, as one state machine |
| `TileService` | what the server promises a client, as a state machine without a cache |
| `TileCacheService` | the refinement mapping from `TileCache` to `TileService` |
| `MCTileCache` | instances for TLC |
| `TileCacheProofs` | lemmas about rows, keys and requests; `GetYValuesSound`, `TypeCorrect`, `EligibleTilesOnly`, `CachedTilesInPlace`, `AnswersInPlace`, `EverCacheableTilesOnly`, `TilesNotErased`, `WriteBacksArrive` |
| `TileCacheServiceProofs` | `UnderWayIsSound`, `ImplementsTileService` |
| `Registry` | rows, lists, readers and writers, as one state machine |
| `MCRegistry` | instances for TLC |
| `RegistryProofs` | `RegistryTyped`, `RegistryBounded` |
| `StatsPipeline` | log file, streams, logs and statistics daemons, documents, counters, operators |
| `StatsFile` | the two writers of the statistics file and its reader |
| `Statistics`, `MCStatistics` | the two composed; instances for TLC |
| `StatisticsProofs` | `PipelineTyped`, `StatisticsTyped`, `StatisticsMissNone`, `StatisticsCountOnce`, `PipelineCounts` |
| `Handlers` | handlers of an event run in turn, as a recursive function of how many have run |
| `Transition` | `emulateTransitionEnd` and `bsTransitionEnd` for the plugins |
| `Collapse`, `Tab`, `Dropdown`, `Modal`, `Alert`, `Button`, `Affix`, `ScrollSpy`, `Carousel`, `Tooltip`, `TipPlacement` | one plugin each; tooltip and popover are one, in two modules: when a tip comes and goes, and where it is placed |
| `Widgets`, `MCWidgets` | all plugins, each alone on its page; a page for TLC |
| `WidgetsProofs` | `MenusBackdrop`, `ButtonsPressed`, `ButtonsSay`, `SpyMarks`, `TipsInWindow`, `TipsPoint`, `AffixInPlace` |
| `TransitionProofs` | lemmas about handlers in turn; `CarouselOneTimer`, `CarouselStill`, `CarouselHears`, `AlertsClosedOnce`, `TabsOnePane`, `ModalListens`, `ModalClosesClean`, `ModalOpensWhole` |
| `CollapseProofs` | `CollapseSettled`, `CollapseTriggers`, `CollapseExclusive` |
| `TooltipProofs` | `TipDestroyedGone`, `TipFollows` |

Definitions whose names end in `_` and a word (`Screen_AnyFlag`) are mutants:
the form a plausible mistake would give the definition that follows them. No
specification uses them; each is put in place of its original to see that a
property notices.

### TileAddress and TileCache

An address is a zoom level and a row; columns are counted alike everywhere and
are left out. `Rows[z]` is the number of rows, 2^z in the code, but any positive
number in the proofs. Rows in keys count from the south, as `_requestTile` and
`taskRequestTile` both arrange. A picture is what it shows (`south`) and how new
it is (`version`); the encoding, the size and the headers of an image are left
out. A quadkey names a column and a row counted from the north, so that a Bing
address is modelled as such a row (`CountsFromNorth`).

A url names a source, a service or none, and is a z/x/y or a quadkey url (`Url`).
Two numberings belong to it. `ClientScheme` is the one its client counts in: that of
the service, or else of the source, for z/x/y; from the north for a quadkey, which is
also what `quadkey_to_tms` makes of it. `Scheme` is the one the server takes the row
to be in, for either form of url: `getYValues` looks at the types of service and
source only. `YValues` and `Asked` follow the server; `RowMeant` and `PlaceAsked`,
which the properties use, follow the client. The two part for a quadkey url through a
TMS service, or over a TMS source without a service, and the server is wrong there
(run `QuadkeyUrl`); `QuadkeysAgree` is the condition that they do not.

An action ends where the code waits for another process, because there gevent
may run another greenlet. For one request these are:

| action | code |
| --- | --- |
| `RequestTile` | normalise the address, send the guesses, test extents, zoom and flag (948-1062) |
| `StreamFails` | a stream or the log raises while guesses or the log line are sent |
| `Lookup` | `getTileFromCache`; hit: answer; miss: keep the connection (1061-1085) |
| `Fetch`, `FetchFails`, `FetchesNothing` | `requestTileFromSource`, its exceptions, and the source types no branch fetches (1087-1092, 1113-1123) |
| `WriteBack`, `QueueWriteBack` | the two write-backs and what they swallow (1094-1111) |
| `Finish` | the response is sent |

The daemon is one thread: `Poll` takes a batch, and for each message comes
`TaskSkips` or `TaskMisses`, then `TaskFetches` or `TaskFetchFails`, then
`TaskSets`. An exception anywhere else ends the process (`Dies`): supervisord
starts it again, and the rest of the batch is lost or delivered again. The
write-back is `WriteBackChecks` and `WriteBackSets`; messages may expire
(`WriteBackExpires`). `Faults` says which troubles a run includes: memcached
restarts, evictions, failing sources, failing streams, daemon crashes, and an
operator who switches a source's `cacheable` flag.

Streams and queues are sets: neither order nor multiplicity of guesses matters,
because a second delivery meets a hit or fetches again. Their losses are
modelled; the lifetime of queued write-backs in `settings.py` (60) is so short
that loss is common.

### TileService and TileCacheService

`TileService` is what one would tell a client of this server without mentioning
memcached: a request is answered once, with a picture of the place asked for as its
source has served it at some time, or blank or red where the source's limits say
so, or with an error, where there is a reason for one. `TileCacheService` maps
`TileCache` to it: the place of a request is computed from the client's own row and
numbering (`RowMeant`), not from the key the code makes of it; the answer is the response on its way. So
lookups, fills, the daemon, write-backs, evictions and a failing memcached must all
be steps a client cannot notice. `MayFail` leaves two reasons for an error, the
source and the log stream; that a memcached or a queue which fails is none is part
of what is checked. `KeepsPromise` adds that no client waits for ever.

### Registry

`db` holds the rows of origins, sources and services. `lists` holds the five
lists of the default memcached; an empty list and a missing one are the same to
the code (`if tilesources:`), and so they are here. Every request is a small
program over lists: `todo` names those it still has to read or reload, `Get`
asks memcached, `Query` reads the rows and makes them into entries, `Set` caches
them, and `Uses` is what the handler does with the list: `FindsService`,
`FindsSource`, `MatchesSource`, `MatchesOrigin`. A creating `proxy_tms` goes on
to `Count`, `Save`, and a `Query` and `Reset` for each list it reloads. Forms
are `New`, `Edit` and `Delete`; an edit reads its row in one step and saves it
in a later one, and `save()` inserts a row that has gone. All fields of a form are
the operator's but the pattern, which `save` makes of the url: name, origin and url of
a source, name, url and both flags of an origin. `scenario.forms` says which of them an
instance's operators fill in. Rows of one name are
matched in any order, which is all the database promises; the order of the names
matters for the loop variable that `proxy_tms` uses after its loop.

A url is opaque; `Filled` is what `proxy_tms` makes of an origin's url when it puts a
slug in, and urls without a place for one stay as they are. `made` is history: the
sources that `proxy_tms` made one per slug and that no form has saved since. Only their
number has a bound, for an operator may give any source any url. A source's own `auto`
is stored and shown, and no code reads it, so it is left out.

An origin's `auto` stands for its flag together with a pattern that is not
empty. Forms always give a pattern, so that the two lists of sources have the
same rows; only the admin site could make others. Origins are deleted there only,
which is left out.

### StatsPipeline, StatsFile and Statistics

| action | code |
| --- | --- |
| `WriteLine`, `SendLine` | `logTileRequest`: the file, then the stream, which may fail |
| `TakeLines`, `Insert`, `SendStats`, `LinesDone` | `TileJetBrokerLogs._post`: a batch of lines, one unacknowledged insert, one message for each document; the batch ends when `_post` returns |
| `TakeStats`, `Increment`, `StatsDone` | `TileJetBrokerStats._post`: a batch of messages, and for each of them one unacknowledged update for each collection |
| `LogsDaemonDies`, `StatsDaemonDies` | a crash at any point; supervisord restarts the daemon, and any part of its batch is delivered again, what it had sent or counted of it included, or lost |
| `ClearLogs`, `ReloadLogs`, `BeginStats`, `StepStats` | `logs_clear`, `logs_reload`, `stats_clear`, `stats_reload`, which ends with a `taskUpdateStats` on the queue |
| `Start`, `Gather`, `Check`, `Remove`, `Open`, `Write`, `Close`, `Cache` | `update_stats` of the cron script and `taskUpdateStats`: a query for each collection, then `commit_to_file` and `commit_to_cache` |
| `View`, `Read` | `stats_json`: memcached, then the file |

A batch is any set of what is in the stream: the order of the messages of different
requests makes no difference, and the consumers' limits (40 and 100 in the shipped settings)
are above what an instance has. A message is in work from its first collection to its
last (`InWork`, `GoesOn`). Each operator has a place (`op`) and a collection (`step`) of
its own, so that two reloads, or a clear and a reload, may overlap at every step. What a
library call of theirs does to MongoDB, it does to one collection at a time in one step;
the code of the call is not in the repository.

A document is the request it was made for, and a counter counts the requests it
counted, so that "twice" can be said; MongoDB holds the sums (`Totals`). `again` and
`lost` are history: they collect the requests that a redelivery or a reload may
count twice, or that something has dropped. What is left when these are taken away
is exact: `CountedOnce` and `NoneMissed`. A reload that takes a request in while its line or its increment is still under way, or
after another operator has taken it in, does count twice; it is one of the named reasons
in `again`, and the properties show that there is no other apart from redelivery.

A file is what its name leads to; a writer holds it open by a descriptor, which
another writer's `os.remove` may have unlinked, so that what it goes on to write is
seen by nobody. Two writers that both found no file share one, and the longer text
may stick out of it (`Broken`). `json.loads` raises on such a file.

### The plugins

`base.html` loads Bootstrap on every page; its sources are in the repository and
are what the modules translate. Every module has one variable, a record of the
classes, positions, timers and handlers that its handlers read. `Transition` is how
they wait: `Waits` binds a handler to the end of an element's transition, and
`TransitionEnd` runs all that are bound to it by then, because the end event of a
transition, and the timer that stands in for it, call every handler on the element
and not only the one they belong to; `InTurn` of `Handlers` is jQuery's loop over
them. A page may veto what an event announces; each
step chooses which vetoes it meets.

The steps are the user's (click, key, mouse, scroll), the page's (calls of the
plugin, changes of the layout), timers, and the ends of transitions. Order is free
but for what durations force: in `Modal` no transition overtakes one of a backdrop
that began before it (`Due`).

Some of the plugins are not right under every order of steps. Where that is so the
property names the condition, as history in the record, and says what happens
beyond it:

* `ClosesClean`, `OpensWhole`: not for a modal that is opened again while it closes
  (`calm`): the end of the closing takes the body's class, or a backdrop stays.
* `OnePane`: not if a tab is clicked while a fading pane goes (`hurried`).
* `Exclusive`: not if an open panel of the markup is closing for the first time
  when a second one is clicked, or if a page vetoes the hiding (`calm`).
* `FollowsItsTriggers`: not for a tip turned once more while it fades in and out
  at once (`hurried`); `DestroyedIsGone` not for one whose delay was running when
  the fade of its destruction ended (`revived`).
* `InPlace`: two checks are needed after a jump. `MarksWhatIsSeen`: two scroll
  events, and a change that leaves the document's height alone is never noticed.
* `StillUnderMouse`: not after a call that starts the carousel, as a click on the
  current indicator does.
* `PointsAtElement`: a tip on the left whose width changed is not put back. The tip
  does not touch its element: the style sheet gives it a margin on its side
  (`tooltip.less:19-22`, `popovers.less:27-30`), which `applyPlacement` adds to the
  offset, and the property says that it stands just this far away.
* `ClosesClean` says nothing of the class `in` and of the document's `focusin` handler,
  which a modal leaves behind that is closed while it opens. `Modal` has both steps.

## 3. What is checked

| run | checks | instance |
| --- | --- | --- |
| `DirectPlaces` | `ServesTheTileAsked`, `KeyNamesPlace` | 4 sources, one of each type, z/x/y and quadkey urls, every service with which quadkeys agree (`AgreeingUrls`), two rows, 2 handlers, evictions |
| `Screened` | `TypeOK`, `OnlyEligibleCached`, `EverCacheableOnly`, `InFlightSound`, `NoTileErased`, `ImplementsService` | 1 flipped source clipped to one tile, z/x/y and quadkey urls, services of the types that agree, zoom 0 and 1, all heuristics, asynchronous write-back, all faults |
| `Degraded` | `KeepsPromise`, `StaleTilesDrain` | 1 TMS source that changes once, 2 handlers, daemon, memcached restarts, expiry, crashes |
| `Warm` | `PrefetchWarms`, `WriteBackArrives` | 2 tiles that are each other's neighbours, daemon and write-back, no faults |
| `Registry` | `TypeOK`, `BoundedDuplicates`, `ListsConverge` | 5 instances, one for each initial state: `Creates`, 2 creating greenlets, one of which also deletes, with 3 writes, one more than greenlets; `Mixed`, the same beside an operator whose form has the url that a request creates; `OneUrl`, an origin whose url has no place for a slug, so that every slug wants the same url; `Operators`, 2 operators, one also a reader, 2 writes, so that reloads overtake each other; `Users`, the reading requests beside forms of services and origins, an origin of each kind |
| `Statistics` | `PipelineTypeOK`, `CountedOnce`, `NoneMissed`, `FileHeals`, `PagesCatchUp` | 2 collections; scenario "crashes": 2 requests, 1 crash, all faults, no operators; scenario "operators": one request counted and one new, 2 operators, who may overlap, 1 crash, all faults; scenario "pages": one request counted and one about to be, both writers, one failing write, one operator, no crash |
| `Widgets` | the 20 properties of the plugins | 3 panels, panes and menus, 3 backdrops, 2 alerts, 2 labels, 3 items in the carousel, 4 layouts for the scrollspy, with and without transitions and every option |

Why these bounds are enough to be of interest: two rows are the fewest on which a
flip is visible, and zoom 0 and 1 are the fewest between which heuristics climb
and limits cut. Two handlers, the daemon and the write-back tasks already give
every pair of writers of one key; a second key adds nothing but guesses, which
`Screened` and `Warm` have. One change of the source is enough for a late writer
to hold the old picture. In the registry, duplicates need two writes in a race
and one more to exceed the bound. In `Statistics` two requests make a batch whose
parts fare differently in a crash, two operators and a crash let reloads meet each
other and a redelivery, and two collections are the fewest between which a
reload and the daemon can pass each other; the pipeline does not look at the file,
so that each scenario holds the other half still. In `Widgets` a third panel, pane
or item is the first that can be left between two others. `MaxEnding` (3) and
`MaxWaiting` (4) bound the transitions waited for at a time, one more than the
longest chain a click starts; `MaxLeak` (3) the padding and click handlers that pile
up in a modal opened again while it closes; `MaxPending`, `MaxTo` and `MaxSlid` (2)
the timers of a button and the calls and events a carousel has yet to hear.

The runs of `TileCache`, `Registry` and `Widgets` are a few thousand to a million
states each, and seconds to two and a half minutes; `Statistics` takes about two.

Five runs show where the code does not keep to the repository's own words:

| run | property | behaviour |
| --- | --- | --- |
| `QuadkeySource` | `ServesTheTileAsked` | the quadkey is computed before the row is converted (`cache/views.py:979`), so that a TMS service over a Bing source serves, and caches, the mirrored tile |
| `QuadkeyUrl` | `ServesTheTileAsked` | `quadkey_to_tms` counts from the north whatever it is called for (`cache/views.py:971`), so that a quadkey url over a TMS source, or through a TMS service, is served, and caches, the mirrored tile |
| `DoubleWriteBack` | `WriteBackOnce` | the double check of `taskWriteBackTile` is not atomic |
| `ShippedSettings` | `PrefetchWarms` | with the shipped log format `taskRequestTile` raises at every miss and the daemon dies; `IndirectLog` is that switch |
| `OriginlessSource` | `OriginIsOptional` | an automatically created source without an origin makes every later listing raise |

No run is given to what `Registry` makes plain by itself: the request that creates a
source is served from another, the last one its search had seen (`Reset`,
`cache/views.py:1195`).

The first two are the reason of the hypothesis `QuadkeysAgree` of the place theorems
and of the urls left out in `DirectPlaces` and `Screened`: with it the conversions are
right.

### Fairness

`FairSpec` lets a greenlet that can run, run; the daemon and the Celery workers
go on, because supervisord restarts them; a memcached that went down comes up
again, for the same reason. Two assumptions are not the code's doing and are
stated here: a fetch ends, with a picture or an exception (`urlopen` is called
without a timeout), and the stream delivers in order, so that no message is
passed over for ever (strong fairness of `Poll` for each key); likewise the
"writeback" queue is a FIFO, hence fairness of the write-back for each key.
`WriteBackArrives` needs none of it: it is an action property, of what a task
leaves behind when it ends. `ExpirySpec` adds
that every tile expires, as those of sources with an `Expires` header do;
`StaleTilesDrain` needs it. In `Registry`, entries of the default cache time out
after Django's default, and a greenlet that can run is run. `FileFairness` lets the
cron script go round (it loops for ever, and supervisord restarts it), Celery run
the tasks it has, and a request of a page be served. `FileHeals` and
`PagesCatchUp` are asked of behaviours whose counters come to rest: the bounds on
requests and operations see to that. The plugins have no liveness properties: each
says what holds when nothing is under way.

## 4. What is proved

Every theorem is for all values of the constants that satisfy the named
assumptions: any sets of sources, greenlets, services, requests, collections and
elements of a page, any number of zoom levels and rows, any settings and faults.
TLC evaluates the assumptions in every run.

Each proof follows one scheme: the initial states satisfy an invariant, every
action preserves it (one step per action, one below it per conjunct the action
can disturb), and it implies the property. What is said below is what the
invariant has that the property has not, because without it the proof stops.

### Tiles

* `GetYValuesSound`: the pair of rows `getYValues` returns are the row from the
  south and the row from the north, of a row in the numbering of the service or else
  of the source.
* `TypeCorrect` (`TypeOK`). The key of a request names the place the server reads in
  its url, which is not always the one its client means. The invariant is `TypeInv`, `TypeOK` with `AskSound`:
  the row in a request's key lies in the range of rows only because it is the
  conversion of a row that does.
* `EligibleTilesOnly` (`OnlyEligibleCached`). Not inductive alone: a handler in
  "writeback", a queued message, a write-back past its double check and the
  daemon's job all store without a test. `ScreenInv` adds `ScreenedInFlight`,
  which says that each of these has been screened; the daemon's tests and the
  handler's are different code, and the proof is where they are shown to be the
  same condition.
* `CachedTilesInPlace` (`KeyNamesPlace`) and `AnswersInPlace`
  (`ServesTheTileAsked`), both assuming `QuadkeysAgree`. `PlaceInv` adds
  `PlacedInFlight`: whatever is under way to memcached or to a client shows the
  place of its key. Each fetch is one use of the involution of `flip_y`.
* `EverCacheableTilesOnly` (`EverCacheableOnly`). `FlagInv` adds
  `CacheableInFlight`: guesses on the stream, jobs and messages come from sources
  that were cacheable when they were made, although an operator may have cleared
  the flag since and nobody looks again.
* `UnderWayIsSound` (`InFlightSound`): the strengthenings above together, as the
  run `Screened` checks them, with `PublishedInFlight`: no picture under way, or in
  memcached, is newer than what its source has served; and `WorkInFlight`: a
  handler has an answer when it is done and not before, and what it works on lies
  within its source's limits.
* `TilesNotErased` (`NoTileErased`, an action property). Its invariant is
  `PictureInHand`: whoever is about to set a tile of a TMS or flipped source has a
  picture, because a fetch that failed has left the path. The step lemma then
  shows that no set erases; only `Evict`, `Flush` and `CacheGoesDown` are left.
* `WriteBacksArrive` (`WriteBackArrives`, an action property), where neither
  memcached nor a stream fails (`Reliable`): a message leaves the write-back
  tasks only with its tile in memcached. With such failures it is false: a message may expire, or its set be lost.
* `ImplementsTileService` (`ImplementsService`), assuming `QuadkeysAgree`: the
  initial states are the service's, and every step is a step of the service or
  none. A handler answers with what it finds in memcached or fetches, so the
  promise is owed for every picture already on its way: the invariant joins
  `PlaceInv` (it shows the place), `PublishedInFlight` (the source has served it)
  and `PictureInHand` (an empty answer has a reason). An error needs a failing
  source or log stream; a failing memcached or queue is shown to be none.

`QuadkeysAgree` says that wherever a quadkey comes in, in the url or for a Bing
source, the server counts rows from the north. The runs `QuadkeyUrl` and
`QuadkeySource` show that the place theorems fail without either half.

### Registry

* `RegistryTyped` (`TypeOK`). What a greenlet does next depends on locals it read
  several steps ago, so `RegistryInv` ties them to where it is: the lists still to
  be read or reloaded are those of its kind of request (`TodoOK`), the rows in hand
  are entries of the list about to be set (`RowsOK`), what the loop variable
  holds is a source (`LastOK`), the row to save is one of its table (`RowOK`).
* `RegistryBounded` (`BoundedDuplicates`): of the sources that `proxy_tms` makes one
  per slug no more than there are greenlets ever have one url, whatever rows there
  were and whatever operators make, edit and delete beside them. Not inductive: a
  greenlet that has counted none saves whatever the others have saved since.
  `DuplicatesInv` bounds for each url the sources made (`Created`) together with the
  greenlets about to save one more (`Creating`); a greenlet joins these only when it
  has counted no source of the url at all, whoever made it. A source that a form saves
  is no longer among those made, and the one source of an origin without slugs, which
  is saved without counting, never is.

`RegistryAssumption`: finitely many greenlets and rows, rows and forms of the types the
model declares, `Filled` a function from urls and names to urls, `None` apart from all
else. It says nothing of the rows at the start but that their ids are below `FirstId`.

### Statistics

* `PipelineTyped`, `StatisticsTyped` (`PipelineTypeOK`), of the pipeline alone and
  composed with the file.
* `StatisticsMissNone` (`NoneMissed`), which is inductive with the types.
* `StatisticsCountOnce` (`CountedOnce`). That a counter is at most 1 says nothing
  of an increment still to come. `CountInv` adds, of a request that nothing has
  delivered again: it is under way in one place of the pipeline only and with one
  message (`OnePlace`, though a line that was sent on and a message that was counted
  stay in their batches until `_post` returns), what it is still under way to (`Waits`,
  `Sent`, `Pending`) is 0 (`Fresh`), and nothing is written of a request before it is
  made (`Unfiled`).
* `PipelineCounts`: both of these for the pipeline alone.

They are about `Spec`, whose counters start at 0, with any number of operators: the
scenario "crashes" of the run starts there. The scenarios "operators" and "pages" start
in the middle and are only model-checked.

### Plugins

* `MenusBackdrop` (`BackdropServes`), inductive as it stands.
* `ButtonsPressed` (`PressedIsChecked`) and `ButtonsSay` (`SaysItsState`): the
  text to go back to is read before the first timer runs, and the disabled flag
  follows the last state set.
* `SpyMarks` (`MarksWhatIsSeen`): after one event the plugin knows the height,
  after two the mark is that of the layout it knows.
* `TipsInWindow` (`InWindow`) and `TipsPoint` (`PointsAtElement`): a state is what
  one placing computes, for any element, tip, margin, padding and scroll position. Lengths
  are integers and halves are rounded down, where the code has fractions: the
  model is exact for even lengths.
* `AffixInPlace` (`InPlace`): `Once` is what one check brings about from
  anywhere, `Twice` what a second one makes of that.

The other plugins wait for the end of transitions, and one step of theirs runs
whatever handlers wait by then, each on what the one before has left. `InTurn`
makes the outcome a function of how many have run, and a property each handler
keeps is kept by all because there is no least number at which it is lost
(`LeastNumber`, `RunsExist`, `Stays`). What remains is to say which handlers wait:

* `CarouselOneTimer` (`OneTimer`), `CarouselStill` (`StillUnderMouse`),
  `CarouselHears` (`ToIsHeard`). `SlidesOK` says instead of the second that a
  carousel under the mouse has no timer id left, so that the end of a slide has
  none to start anew; and that while calls of `to` wait, a slide is under way or its
  event is still to be heard.
* `AlertsClosedOnce` (`ClosedOnce`). `AlertsOK(late)`: each handler of a box
  removes that box, and a dismissed box that is shown has one, but for the boxes of
  `late`, whose handlers are being run.
* `TabsOnePane` (`OnePane`). `TabsOK`: one pane shows and nothing is waited for, or
  the item of one is active while the pane of one other fades and has one handler,
  which will show the first; or a tab was clicked meanwhile (`hurried`).
* `ModalListens` (`ListensWhileShown`). `DialogListens` adds that the handlers are
  bound once, not twice, which holds because `hide` unbinds at once, whatever waits.
* `ModalClosesClean` (`ClosesClean`), `ModalOpensWhole` (`OpensWhole`). `DialogOK`
  says that a calm modal is `Closed`, `Opening` or `Closing`, and what is waited for
  in each: nothing but calls of focus, the backdrop's entry, the hiding after at most that entry, or the
  backdrop's removal. The order of entry and hiding is `Due`.
* `CollapseSettled` (`Settled`), `CollapseTriggers` (`TriggersAgree`). `PanelsOK`:
  whoever animates a panel waits for it, and nobody else is animated (`Orderly`); a
  panel on its own has one transition at most, and its trigger says where that leads
  (`AloneOK`).
* `CollapseExclusive` (`Exclusive`). `AccordionOK`: one panel at most is or will be
  open, where a panel under way is what it will be (`WillBeOpen`); and an open panel
  without an object is the only one under way or open, because the first click on it
  may go past its transition.
* `TipDestroyedGone` (`DestroyedIsGone`). `Gone` adds that no delayed show is to
  come.
* `TipFollows` (`FollowsItsTriggers`). `Follows` says of a tip that triggers alone
  drive that it is there or coming (`TipUp`), or gone or going (`TipDown`), with the
  timer that will turn it if the triggers want it so, and which handlers wait in
  each: one show, or hides with at most one show after them, or a show and a hide
  that turned it once.

Six of these properties name in a history variable the steps beyond which the code
does not keep them, as section 2 lists them, and the theorems prove no more than that:
`ClosesClean`, `OpensWhole` and `Exclusive` (`calm`), `OnePane` and
`FollowsItsTriggers` (`hurried`), `DestroyedIsGone` (`revived`).

The run `Widgets` checks all 20 properties on its instance.

Of the constants, `AffixAssumption` says that the element fits into the window and
between its two offsets, and that at the upper offset it stands where the style sheet
pins it; `PlacementAssumption` that lengths and margins are integers; `CarouselAssumption` that
there is an item. The others keep values apart that the code keeps apart by their
types: `ButtonAssumption`, `PanelAssumption` and `TipAssumption` that `None` is no
text, object, state or timer, and panels are numbers; `DialogAssumption` that a
backdrop is neither the dialog nor the element nor `None`.

### Only model-checked

* Liveness, which is out of the prover's reach with fairness and ENABLED:
  `KeepsPromise`, `StaleTilesDrain`, `PrefetchWarms`, `ListsConverge`, `FileHeals`,
  `PagesCatchUp`. Every other property of a passing run is a theorem.
* `NoneMissed` and `CountedOnce` from the counters the scenarios "operators" and "pages"
  start with.
* The five disagreements of section 3, which are counterexamples.

## 5. What is not modelled

* What external packages do inside: tilejetutil, tilejetcache, tilejetstats,
  geowatch, Celery, umemcache. They are modelled from how this code uses them.
* Image bytes: a response that is no image, or a file that fails to encode.
* Pages, exports, routing, login, the admin site.
* `requestIndirectTiles` and `logTileRequest_old`, which nothing calls.
* The remainder of `proxy` after it has read the list of sources: the next line
  raises.
* What clearLogs, reloadLogs, clearStats and reloadStats do beyond their effect on
  documents and counters: they are in a library. How `taskUpdateStats` nests
  counters by attribute.
* Of the plugins: text and templates, remote content of a modal, delegated tooltips
  (option `selector`), `noConflict`. The page they run in is any page, not the
  templates of this server, which use the collapsing navigation bar
  (`base.html:55`), tabs, dropdowns and popovers.
* The build scripts and the documentation site of the vendored Bootstrap
  (`Gruntfile.js`, `grunt/`, `_docs/`, `_gh_pages/`): the server never runs them.

## 6. Plan

Done: `TileAddress` and `TileCache` with their runs, `Registry`, the abstract
`TileService` and the refinement, the statistics, the plugins of the pages; and as
theorems every safety property the runs check, the refinement included. Left, in
this order:

1. `Registry` composed with `TileCache` through source names: tiles that outlive
   their source; and the daemon's dependence on the list of sources.
2. The nesting of counters in `taskUpdateStats`, `url_to_pattern` and
   `string_to_list` as functions checked against reference definitions.
