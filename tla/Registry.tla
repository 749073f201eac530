------------------------------- MODULE Registry -------------------------------
(***************************************************************************)
(* How a name in a url finds its tile source.  Origins, sources and        *)
(* services are rows of the database; requests read them through lists in  *)
(* the default memcached, which getTileOrigins, getTileSources and         *)
(* getTileServices fill and the reload functions replace.  The operator's  *)
(* forms change the rows, and so does proxy_tms, which creates the source  *)
(* of a request when an origin allows it.                                  *)
(*                                                                         *)
(* An action ends where a greenlet waits for the database or for           *)
(* memcached.  What _requestTile does next is TileCache.                   *)
(***************************************************************************)
EXTENDS Naturals, Sequences, FiniteSets

CONSTANTS
  Name,        \* names, numbered in the order the database sorts them
  Worker,      \* greenlets
  Scenarios,   \* what the database holds at the start, and who asks for what
  FirstId,     \* ids below it are left to the rows at the start
  Url,         \* urls, with and without "{slug}"
  Filled,      \* what each of them is with a name put for "{slug}"
  None

Table == {"origins", "sources", "services"}

\* New rows are numbered by the writes, whose number each scenario bounds.
Id == 0 .. FirstId + CHOOSE n \in {sc.writes : sc \in Scenarios} :
                       \A sc \in Scenarios : sc.writes <= n

\* The rows with these ids.  An origin is automatic when auto is set and it has
\* a pattern.  The auto of a source is stored and shown, and nothing reads it.
Origins(ids) == [id: ids, name: Name, multiple: BOOLEAN, auto: BOOLEAN, url: Url]
Sources(ids) == [id: ids, name: Name, origin: Id \cup {None}, url: Url]
Services(ids) == [id: ids, name: Name, source: Id \cup {None}]

Origin == Origins(Id)
Source == Sources(Id)
Service == Services(Id)

\* The lists in memcached; those with "_proxy" are read for the proxy.  A list
\* holds names where the rows hold references.
ListName == {"tileorigins", "tileorigins_proxy", "tilesources", "tilesources_proxy",
             "tileservices"}
SourceEntry == [id: Id, name: Name, origin: Name]
ServiceEntry == [id: Id, name: Name, source: Name]

\* Requests; a table's name stands for its forms.
Op == Table \cup {"delete", "tile_tms", "proxy_tms", "proxy", "page"}

Req == [op: Op \cup {"form"}, name: Name \cup {None}, origin: Name \cup {None}]

\* In a scenario sc, greenlet w gets the requests of sc.ops[w], and sc.forms
\* holds what the operators fill into the forms, all of whose fields are theirs.
ASSUME RegistryAssumption ==
  /\ Name \subseteq Nat /\ FirstId \in Nat /\ IsFiniteSet(Worker)
  /\ Filled \in [Url -> [Name -> Url]]
  /\ None \notin Name \cup Id \cup Req
  /\ \E sc \in Scenarios : \A other \in Scenarios : other.writes <= sc.writes
  /\ \A sc \in Scenarios :
       /\ sc.ops \in [Worker -> SUBSET Op] /\ sc.writes \in Nat
       /\ sc.db \in [Table -> SUBSET (Origin \cup Source \cup Service)]
       /\ sc.db.origins \subseteq Origin /\ sc.db.sources \subseteq Source
       /\ sc.db.services \subseteq Service
       /\ \A t \in Table : \A r \in sc.db[t] : r.id < FirstId
       /\ IsFiniteSet(sc.db.sources)
       /\ sc.forms.origins \subseteq Origins({None})
       /\ sc.forms.sources \subseteq Sources({None})
       /\ sc.forms.services \subseteq Services({None})

VARIABLES
  scenario,
  db,       \* the rows of each table
  writes,   \* how many rows have been saved or deleted
  made,     \* the sources that proxy_tms made one per slug, and no form has saved since
  lists,    \* memcached "default"; {} is also a list that is not there
  pc, req,  \* greenlets: where they are, and what for
  todo,     \* the lists a request still has to read, or to reload
  rows,     \* the entries it made of a query, to be cached
  last,     \* the loop variable: the service found, or the last source seen
  row,      \* the row to be saved, and its table
  reply

vars == <<scenario, db, writes, made, lists, pc, req, todo, rows, last, row, reply>>

NoReply == [kind |-> "none", source |-> None]

Reloads == [origins |-> <<"tileorigins", "tileorigins_proxy">>,
            sources |-> <<"tilesources", "tilesources_proxy">>,
            services |-> <<>>]

-----------------------------------------------------------------------------
\* What a reference reads as.
NameOf(t, id) ==
  IF \E r \in db[t] : r.id = id THEN (CHOOSE r \in db[t] : r.id = id).name ELSE None

\* The list as the get and reload functions make it from the rows.
Listing(l) ==
  CASE l = "tileorigins" -> db.origins
    [] l = "tileorigins_proxy" -> {o \in db.origins : o.auto}
    [] l \in {"tilesources", "tilesources_proxy"} ->
         {[id |-> s.id, name |-> s.name, origin |-> NameOf("origins", s.origin)] :
            s \in db.sources}
    [] l = "tileservices" ->
         {[id |-> t.id, name |-> t.name, source |-> NameOf("sources", t.source)] :
            t \in db.services}

\* ts_d.origin.name and ts_d.source.name raise on a row that refers to none.
Unlistable(l) ==
  \/ l \in {"tilesources", "tilesources_proxy"} /\ \E e \in Listing(l) : e.origin = None
  \/ l = "tileservices" /\ \E e \in Listing(l) : e.source = None

Init ==
  /\ scenario \in Scenarios
  /\ db = scenario.db
  /\ writes = 0
  /\ made = {}
  /\ lists = [l \in ListName |-> {}]
  /\ pc = [w \in Worker |-> "idle"]
  /\ req = [w \in Worker |-> None]
  /\ todo = [w \in Worker |-> <<>>]
  /\ rows = [w \in Worker |-> {}]
  /\ last = [w \in Worker |-> None]
  /\ row = [w \in Worker |-> None]
  /\ reply = [w \in Worker |-> NoReply]

Goes(w, to, todoNow, rowsNow, lastNow, rowNow) ==
  /\ pc' = [pc EXCEPT ![w] = to]
  /\ todo' = [todo EXCEPT ![w] = todoNow]
  /\ rows' = [rows EXCEPT ![w] = rowsNow]
  /\ last' = [last EXCEPT ![w] = lastNow]
  /\ row' = [row EXCEPT ![w] = rowNow]

\* The request is over; its locals go.
Ends(w, kind, source) ==
  /\ Goes(w, "done", <<>>, {}, None, None)
  /\ reply' = [reply EXCEPT ![w] = [kind |-> kind, source |-> source]]

Starts(w, request, to, todoNow, rowNow) ==
  /\ pc[w] = "idle"
  /\ req' = [req EXCEPT ![w] = request]
  /\ Goes(w, to, todoNow, {}, None, rowNow)
  /\ UNCHANGED <<db, writes, made, lists, reply>>

-----------------------------------------------------------------------------
(***************************************************************************)
(* Requests that read the lists.                                           *)
(***************************************************************************)
Asks(op, n, o) == [op |-> op, name |-> n, origin |-> o]

tile_tms(w, slug) ==
  Starts(w, Asks("tile_tms", slug, None), "get", <<"tileservices", "tilesources">>, None)

proxy_tms(w, origin, slug) ==
  Starts(w, Asks("proxy_tms", slug, origin), "get",
         <<"tilesources_proxy", "tileorigins_proxy">>, None)

\* proxy, and the pages that show the lists.
proxy(w) == Starts(w, Asks("proxy", None, None), "get", <<"tilesources_proxy">>, None)
Pages(w) == \E l \in {<<"tileorigins">>, <<"tilesources">>, <<"tileorigins", "tilesources">>} :
              Starts(w, Asks("page", None, None), "get", l, None)

Named(list, n) == {e \in list : e.name = n}

\* The service is looked up first, then its source by the name the list gave it.
\* A loop over None raises.
FindsService(w, list) ==
  \/ \E e \in Named(list, req[w].name) :
       Goes(w, "get", Tail(todo[w]), {}, e, None) /\ UNCHANGED reply
  \/ /\ Named(list, req[w].name) = {}
     /\ Ends(w, IF list = {} THEN "error" ELSE "missing", None)

FindsSource(w, list) ==
  \/ \E e \in Named(list, last[w].source) : Ends(w, "tile", e)
  \/ /\ Named(list, last[w].source) = {}
     /\ Ends(w, IF list = {} THEN "error" ELSE "missing", None)

\* proxy_tms: a source of that name; its origin must be the one asked for.  If
\* there is none, the loop leaves its variable at the last entry.
MatchesSource(w, list) ==
  \/ \E e \in Named(list, req[w].name) :
       IF e.origin = req[w].origin THEN Ends(w, "tile", e) ELSE Ends(w, "error", None)
  \/ list = {} /\ Ends(w, "error", None)
  \/ /\ Named(list, req[w].name) = {}
     /\ \E e \in list : /\ \A f \in list : f.name <= e.name
                        /\ Goes(w, "get", Tail(todo[w]), {}, e, None)
     /\ UNCHANGED reply

\* The source to be created for a matching origin: one for each slug, or the
\* one source of the origin, which is given no origin.
NewSource(o, slug) ==
  IF o.multiple
    THEN [id |-> None, name |-> slug, origin |-> o.id, url |-> Filled[o.url][slug]]
    ELSE [id |-> None, name |-> o.name, origin |-> None, url |-> o.url]

MatchesOrigin(w, list) ==
  \/ \E o \in Named(list, req[w].origin) :
       /\ Goes(w, IF o.multiple THEN "count" ELSE "save", <<>>, {}, last[w],
               [table |-> "sources", new |-> NewSource(o, req[w].name)])
       /\ UNCHANGED reply
  \/ Named(list, req[w].origin) = {} /\ Ends(w, "error", None)

ReadsOn(w) ==
  IF Len(todo[w]) = 1 THEN Ends(w, "page", None)
  ELSE Goes(w, "get", Tail(todo[w]), {}, None, None) /\ UNCHANGED reply

\* What the request does with the list it has read.
Uses(w, list) ==
  LET l == Head(todo[w])
  IN \/ l = "tileservices" /\ FindsService(w, list)
     \/ req[w].op = "tile_tms" /\ l = "tilesources" /\ FindsSource(w, list)
     \/ req[w].op = "proxy_tms" /\ l = "tilesources_proxy" /\ MatchesSource(w, list)
     \/ l = "tileorigins_proxy" /\ MatchesOrigin(w, list)
     \* An entry is a dict: tilesource.pattern raises, and so does a loop over None.
     \/ req[w].op = "proxy" /\ Ends(w, "error", None)
     \/ req[w].op = "page" /\ ReadsOn(w)

\* Mutant: a hit is cached again.
Get_Renews(w) ==
  /\ pc[w] = "get"
  /\ LET list == lists[Head(todo[w])]
     IN Goes(w, IF list = {} THEN "query" ELSE "set", todo[w], list, last[w], None)
  /\ UNCHANGED <<db, writes, made, lists, req, reply>>

\* getTile...: a list that is there and not empty is used.
Get(w) ==
  /\ pc[w] = "get"
  /\ LET list == lists[Head(todo[w])]
     IN IF list # {} THEN Uses(w, list)
        ELSE Goes(w, "query", todo[w], {}, last[w], None) /\ UNCHANGED reply
  /\ UNCHANGED <<db, writes, made, lists, req>>

\* Mutant: a row without a reference is passed over.
Query_Lenient(w) ==
  /\ pc[w] \in {"query", "requery"}
  /\ Goes(w, IF pc[w] = "query" THEN "set" ELSE "reset", todo[w],
          Listing(Head(todo[w])), last[w], None)
  /\ UNCHANGED <<db, writes, made, lists, req, reply>>

\* The rows are read and made into entries, on a miss and for a reload.
Query(w) ==
  /\ pc[w] \in {"query", "requery"}
  /\ LET l == Head(todo[w])
     IN IF Unlistable(l) THEN Ends(w, "error", None)
        ELSE /\ Goes(w, IF pc[w] = "query" THEN "set" ELSE "reset", todo[w],
                     Listing(l), last[w], None)
             /\ UNCHANGED reply
  /\ UNCHANGED <<db, writes, made, lists, req>>

Set(w) ==
  /\ pc[w] = "set"
  /\ lists' = [lists EXCEPT ![Head(todo[w])] = rows[w]]
  /\ Uses(w, rows[w])
  /\ UNCHANGED <<db, writes, made, req>>

-----------------------------------------------------------------------------
(***************************************************************************)
(* Requests that write.                                                    *)
(***************************************************************************)
\* Mutant: the source is created without looking for its url.
Count_Unchecked(w) ==
  /\ pc[w] = "count"
  /\ Goes(w, "save", <<>>, {}, last[w], row[w])
  /\ UNCHANGED <<db, writes, made, lists, req, reply>>

\* proxy_tms gives up when a source has the url already.
Count(w) ==
  /\ pc[w] = "count"
  /\ IF \E s \in db.sources : s.url = row[w].new.url
       THEN Ends(w, "error", None)
       ELSE Goes(w, "save", <<>>, {}, last[w], row[w]) /\ UNCHANGED reply
  /\ UNCHANGED <<db, writes, made, lists, req>>

\* What an operator sends for a new row, or for one that was found.  Only the
\* pattern is not the operator's; a reference is picked from the rows there are.
Form(t, id) ==
  {[form EXCEPT !.id = id] :
     form \in {f \in scenario.forms[t] :
                 /\ t = "sources" => f.origin \in {o.id : o \in db.origins} \cup {None}
                 /\ t = "services" => f.source \in {s.id : s \in db.sources} \cup {None}}}

Submits(w, t, id) ==
  \E new \in Form(t, id) :
    Starts(w, Asks("form", None, None), "save", <<>>, [table |-> t, new |-> new])

\* origins_new, sources_new, services_new.
New(w, t) == Submits(w, t, None)

\* objects.get(name=...) raises unless there is just one row of the name.
Found(t, r) == r \in db[t] /\ Named(db[t], r.name) = {r}

\* origins_edit, sources_edit, services_edit: the row is read, then saved.
Edit(w, t) == \E r \in db[t] : Found(t, r) /\ Submits(w, t, r.id)

\* save() inserts the row when it has no id, and also when its row has gone.
\* The lists are reloaded next; services_new and services_edit reload none.
Save(w) ==
  LET t == row[w].table
      new == IF row[w].new.id # None THEN row[w].new
             ELSE [row[w].new EXCEPT !.id = FirstId + writes]
  IN /\ pc[w] = "save"
     /\ writes < scenario.writes
     /\ writes' = writes + 1
     /\ db' = [db EXCEPT ![t] = {r \in @ : r.id # new.id} \cup {new}]
     /\ made' = IF t # "sources" THEN made
                ELSE IF req[w].op = "proxy_tms" /\ new.origin # None THEN made \cup {new.id}
                ELSE made \ {new.id}
     /\ IF Reloads[t] = <<>> THEN Ends(w, "page", None)
        ELSE Goes(w, "requery", Reloads[t], {}, last[w], None) /\ UNCHANGED reply
     /\ UNCHANGED <<lists, req>>

\* The database is locked or down; a form of services without extensions raises
\* before it saves (name is not set there).
SaveFails(w) ==
  /\ pc[w] = "save"
  /\ Ends(w, "error", None)
  /\ UNCHANGED <<db, writes, made, lists, req>>

\* reloadTile...: set the list, and go on to the next.  When all are reloaded
\* proxy_tms serves its loop variable, not the source it created.
Reset(w) ==
  /\ pc[w] = "reset"
  /\ lists' = [lists EXCEPT ![Head(todo[w])] = rows[w]]
  /\ IF Len(todo[w]) > 1
       THEN Goes(w, "requery", Tail(todo[w]), {}, last[w], None) /\ UNCHANGED reply
       ELSE IF req[w].op = "proxy_tms" THEN Ends(w, "tile", last[w])
       ELSE Ends(w, "page", None)
  /\ UNCHANGED <<db, writes, made, req>>

\* sources_delete takes the services of the source with it; neither it nor
\* services_delete reloads a list.
Delete(w, t) ==
  /\ pc[w] = "idle" /\ writes < scenario.writes
  /\ \E r \in db[t] :
       /\ Found(t, r)
       /\ db' = [db EXCEPT ![t] = @ \ {r},
                  !.services = {v \in @ : v # r /\ (t = "sources" => v.source # r.id)}]
  /\ writes' = writes + 1
  /\ req' = [req EXCEPT ![w] = Asks("form", None, None)]
  /\ Ends(w, "page", None)
  /\ UNCHANGED <<lists, made>>

-----------------------------------------------------------------------------
Finish(w) ==
  /\ pc[w] = "done"
  /\ pc' = [pc EXCEPT ![w] = "idle"]
  /\ req' = [req EXCEPT ![w] = None]
  /\ reply' = [reply EXCEPT ![w] = NoReply]
  /\ UNCHANGED <<db, writes, made, lists, todo, rows, last, row>>

\* A list's timeout, an eviction, a restart of memcached.
Expire(l) ==
  /\ lists[l] # {}
  /\ lists' = [lists EXCEPT ![l] = {}]
  /\ UNCHANGED <<db, writes, made, pc, req, todo, rows, last, row, reply>>

Step(w) == Get(w) \/ Query(w) \/ Set(w) \/ Count(w) \/ Save(w) \/ SaveFails(w)
           \/ Reset(w) \/ Finish(w)

Request(w) ==
  \/ "tile_tms" \in scenario.ops[w] /\ \E n \in Name : tile_tms(w, n)
  \/ "proxy_tms" \in scenario.ops[w] /\ \E n, o \in Name : proxy_tms(w, o, n)
  \/ "proxy" \in scenario.ops[w] /\ proxy(w)
  \/ "page" \in scenario.ops[w] /\ Pages(w)
  \/ \E t \in Table \cap scenario.ops[w] : New(w, t) \/ Edit(w, t)
  \/ "delete" \in scenario.ops[w] /\ \E t \in {"sources", "services"} : Delete(w, t)

Next ==
  /\ UNCHANGED scenario
  /\ (\E w \in Worker : Request(w) \/ Step(w)) \/ (\E l \in ListName : Expire(l))

Spec == Init /\ [][Next]_vars

\* A greenlet that can run is run, and what memcached holds times out.
Fairness ==
  /\ \A w \in Worker : WF_vars(UNCHANGED scenario /\ Step(w))
  /\ \A l \in ListName : WF_vars(UNCHANGED scenario /\ Expire(l))

FairSpec == Spec /\ Fairness
-----------------------------------------------------------------------------
(***************************************************************************)
(* Properties.                                                             *)
(***************************************************************************)
Entry(l) == CASE l \in {"tileorigins", "tileorigins_proxy"} -> Origin
              [] l \in {"tilesources", "tilesources_proxy"} -> SourceEntry
              [] l = "tileservices" -> ServiceEntry

\* Every variable has its type.  In particular no list holds a source without
\* an origin, which the readers of the list would not survive.
TypeOK ==
  /\ db \in [Table -> SUBSET (Origin \cup Source \cup Service)]
  /\ db.origins \subseteq Origin /\ db.sources \subseteq Source /\ db.services \subseteq Service
  /\ writes \in 0 .. scenario.writes /\ made \subseteq Id
  /\ \A l \in ListName : lists[l] \subseteq Entry(l)
  /\ \A w \in Worker :
       /\ pc[w] \in {"idle", "get", "query", "set", "count", "save", "requery", "reset", "done"}
       /\ pc[w] = "idle" <=> req[w] = None
       /\ pc[w] \in {"get", "query", "set", "requery", "reset"} =>
            Len(todo[w]) \in 1 .. 2 /\ Head(todo[w]) \in ListName
       /\ pc[w] \in {"set", "reset"} => rows[w] \subseteq Entry(Head(todo[w]))
       /\ pc[w] \in {"count", "save"} => row[w].table \in Table
       /\ last[w] \in SourceEntry \cup ServiceEntry \cup {None}
       /\ reply[w].kind \in {"none", "tile", "missing", "page", "error"}
       /\ reply[w].source \in SourceEntry \cup {None}

\* The check that a url has no source yet and the creation of the source are
\* two queries, and no constraint of the database backs the check.  Requests
\* that race may make a source each, but no more than that: whatever is in the
\* lists, however often they expire, and whatever sources operators make, edit
\* and delete meanwhile.
BoundedDuplicates ==
  \A s \in db.sources : s.id \in made =>
    Cardinality({t \in db.sources : t.id \in made /\ t.url = s.url}) <= Cardinality(Worker)

\* When the operator and the proxy have stopped to write, the lists come to
\* agree with the rows for good.  Reloads that overtake each other, and
\* deletions that reload nothing, leave wrong lists only until they time out.
ListsConverge ==
  <>[](\A l \in ListName : lists[l] # {} => lists[l] = Listing(l))

\* "The Tile Origin, if there is one." (TileSource): a source without an origin
\* keeps nobody from reading the lists.
OriginIsOptional ==
  [][\A w \in Worker : Query(w) /\ pc'[w] = "done" =>
       \A s \in db.sources : s.origin # None]_vars
=============================================================================
