----------------------------- MODULE RegistryProofs -----------------------------
(***************************************************************************)
(* The registry's types, and how many sources requests that race may       *)
(* create for one url.                                                     *)
(*                                                                         *)
(* TypeOK is not inductive: that a reader survives the list it has read,   *)
(* and that what proxy_tms serves is a source, rests on which lists a      *)
(* request still has to read (TodoOK), whose entries it holds (RowsOK,     *)
(* LastOK) and which row it is about to save (RowOK).                      *)
(*                                                                         *)
(* Nor is BoundedDuplicates: a request that has counted no source goes on  *)
(* to save one whatever has been saved since.  What does not grow past the *)
(* number of greenlets is the sources that proxy_tms made for a url        *)
(* together with the greenlets about to make one more (DuplicatesInv),     *)
(* because a greenlet becomes such a one only when it counts no source of  *)
(* the url at all, whoever made it.                                        *)
(***************************************************************************)
EXTENDS Registry, FiniteSetTheorems, TLAPS

PC == {"idle", "get", "query", "set", "count", "save", "requery", "reset", "done"}
Reading == {"get", "query", "set"}
Reloading == {"requery", "reset"}

\* The lists a request has before it, from its first to its last.
ToRead(op) ==
  CASE op = "tile_tms" -> {<<"tileservices", "tilesources">>, <<"tilesources">>}
    [] op = "proxy_tms" -> {<<"tilesources_proxy", "tileorigins_proxy">>, <<"tileorigins_proxy">>}
    [] op = "proxy" -> {<<"tilesources_proxy">>}
    [] op = "page" -> {<<"tileorigins">>, <<"tilesources">>, <<"tileorigins", "tilesources">>}
    [] OTHER -> {}

ToReload == {<<"tileorigins", "tileorigins_proxy">>, <<"tileorigins_proxy">>,
             <<"tilesources", "tilesources_proxy">>, <<"tilesources_proxy">>}

\* Rows to be saved; a new one has no id yet.
NewOrigin == Origins(Id \cup {None})
NewSourceRow == Sources(Id \cup {None})
NewService == Services(Id \cup {None})
ToSave == [table: {"origins"}, new: NewOrigin] \cup [table: {"sources"}, new: NewSourceRow]
          \cup [table: {"services"}, new: NewService]

AnyEntry == Origin \cup SourceEntry \cup ServiceEntry
Answers == [kind: {"none", "tile", "missing", "page", "error"}, source: SourceEntry \cup {None}]

DbOK ==
  /\ scenario \in Scenarios /\ writes \in 0 .. scenario.writes /\ made \subseteq Id
  /\ db \in [Table -> SUBSET (Origin \cup Source \cup Service)]
  /\ db.origins \subseteq Origin /\ db.sources \subseteq Source /\ db.services \subseteq Service

ListsOK == lists \in [ListName -> SUBSET AnyEntry] /\ \A l \in ListName : lists[l] \subseteq Entry(l)

LocalsOK ==
  /\ pc \in [Worker -> PC] /\ req \in [Worker -> Req \cup {None}]
  /\ todo \in [Worker -> Seq(ListName)] /\ rows \in [Worker -> SUBSET AnyEntry]
  /\ last \in [Worker -> SourceEntry \cup ServiceEntry \cup {None}]
  /\ row \in [Worker -> ToSave \cup {None}] /\ reply \in [Worker -> Answers]

\* What greenlet w is doing.
TodoOK(w) ==
  /\ pc[w] \in Reading => todo[w] \in ToRead(req[w].op)
  /\ pc[w] \in Reloading => todo[w] \in ToReload
RowsOK(w) == pc[w] \in {"set", "reset"} => rows[w] \subseteq Entry(Head(todo[w]))
LastOK(w) == req[w] # None /\ req[w].op = "proxy_tms" => last[w] \in SourceEntry \cup {None}
RowOK(w) == pc[w] \in {"count", "save"} => row[w] \in ToSave

GreenletOK(w) ==
  /\ pc[w] = "idle" <=> req[w] = None
  /\ req[w] # None /\ req[w].op = "proxy_tms" => req[w].name \in Name
  /\ TodoOK(w) /\ RowsOK(w) /\ LastOK(w) /\ RowOK(w)

GreenletsOK == LocalsOK /\ \A w \in Worker : GreenletOK(w)

RegistryInv == DbOK /\ ListsOK /\ GreenletsOK
-----------------------------------------------------------------------------
(***************************************************************************)
(* How many sources there are for one url, and how many greenlets are      *)
(* about to add one.                                                       *)
(***************************************************************************)
Created(u) == {t \in db.sources : t.id \in made /\ t.url = u}
Creating(u) == {w \in Worker : /\ pc[w] = "save" /\ req[w].op = "proxy_tms"
                               /\ row[w].table = "sources"
                               /\ row[w].new.origin # None /\ row[w].new.url = u}

Bounded(u) == Cardinality(Created(u)) + Cardinality(Creating(u)) <= Cardinality(Worker)

DuplicatesInv == IsFiniteSet(db.sources) /\ \A u \in Url : Bounded(u)

-----------------------------------------------------------------------------
(***************************************************************************)
(* Ids, lists of lists, and the lists themselves.                          *)
(***************************************************************************)
LEMMA IdFacts ==
  ASSUME NEW sc \in Scenarios, NEW n \in 0 .. sc.writes - 1
  PROVE  FirstId + n \in Id /\ FirstId + n \in Nat
<1> DEFINE max == CHOOSE m \in {s.writes : s \in Scenarios} : \A s \in Scenarios : s.writes <= m
<1>1. \E m \in {s.writes : s \in Scenarios} : \A s \in Scenarios : s.writes <= m
  BY RegistryAssumption
<1>2. max \in {s.writes : s \in Scenarios} /\ \A s \in Scenarios : s.writes <= max
  BY <1>1
<1>3. max \in Nat /\ sc.writes <= max /\ sc.writes \in Nat
  BY <1>2, RegistryAssumption
<1>4. Id = 0 .. FirstId + max
  BY DEF Id
<1> HIDE DEF max
<1> QED BY <1>3, <1>4, RegistryAssumption

LEMMA OneList ==
  ASSUME NEW l \in ListName
  PROVE  <<l>> \in Seq(ListName) /\ Len(<<l>>) = 1 /\ Head(<<l>>) = l
OBVIOUS

LEMMA TwoLists ==
  ASSUME NEW l \in ListName, NEW m \in ListName
  PROVE  <<l, m>> \in Seq(ListName) /\ Len(<<l, m>>) = 2 /\ Head(<<l, m>>) = l /\ Tail(<<l, m>>) = <<m>>
OBVIOUS

LEMMA ToReadShape ==
  ASSUME NEW op, NEW t \in ToRead(op)
  PROVE  /\ t \in Seq(ListName) /\ Len(t) \in 1 .. 2 /\ Head(t) \in ListName
         /\ Len(t) # 1 => Tail(t) \in ToRead(op) /\ Tail(t) \in Seq(ListName)
         /\ Head(t) = "tileservices" => op = "tile_tms" /\ Len(t) = 2
         /\ Head(t) = "tilesources_proxy" /\ op = "proxy_tms" => Len(t) = 2
         /\ Head(t) = "tileorigins_proxy" => op = "proxy_tms"
<1>0. {"tileorigins", "tileorigins_proxy", "tilesources", "tilesources_proxy", "tileservices"} = ListName
  BY DEF ListName
<1>1. ASSUME NEW l \in ListName, t = <<l>> PROVE Len(t) = 1 /\ Head(t) = l /\ t \in Seq(ListName)
  BY <1>1, OneList
<1>2. ASSUME NEW l \in ListName, NEW m \in ListName, t = <<l, m>>
      PROVE  Len(t) = 2 /\ Head(t) = l /\ Tail(t) = <<m>> /\ t \in Seq(ListName) /\ Tail(t) \in Seq(ListName)
  BY <1>2, OneList, TwoLists
<1>3. CASE op = "tile_tms"
  <2>1. CASE t = <<"tileservices", "tilesources">>
    BY <1>0, <1>2, <1>3, <2>1 DEF ToRead
  <2>2. CASE t = <<"tilesources">>
    BY <1>0, <1>1, <1>3, <2>2
  <2> QED BY <1>3, <2>1, <2>2 DEF ToRead
<1>4. CASE op = "proxy_tms"
  <2>1. CASE t = <<"tilesources_proxy", "tileorigins_proxy">>
    BY <1>0, <1>2, <1>4, <2>1 DEF ToRead
  <2>2. CASE t = <<"tileorigins_proxy">>
    BY <1>0, <1>1, <1>4, <2>2
  <2> QED BY <1>4, <2>1, <2>2 DEF ToRead
<1>5. CASE op = "proxy"
  <2>1. t = <<"tilesources_proxy">>
    BY <1>5 DEF ToRead
  <2> QED BY <1>0, <1>1, <1>5, <2>1
<1>6. CASE op = "page"
  <2>1. CASE t = <<"tileorigins", "tilesources">>
    BY <1>0, <1>2, <1>6, <2>1 DEF ToRead
  <2>2. CASE t \in {<<"tileorigins">>, <<"tilesources">>}
    BY <1>0, <1>1, <1>6, <2>2
  <2> QED BY <1>6, <2>1, <2>2 DEF ToRead
<1> QED BY <1>3, <1>4, <1>5, <1>6 DEF ToRead

LEMMA ToReloadShape ==
  ASSUME NEW t \in ToReload
  PROVE  /\ t \in Seq(ListName) /\ Len(t) \in 1 .. 2 /\ Head(t) \in ListName
         /\ Len(t) > 1 => Tail(t) \in ToReload /\ Tail(t) \in Seq(ListName)
<1>1. {"tileorigins", "tileorigins_proxy", "tilesources", "tilesources_proxy"} \subseteq ListName
  BY DEF ListName
<1>2. CASE t \in {<<"tileorigins_proxy">>, <<"tilesources_proxy">>}
  BY <1>1, <1>2, OneList
<1>3. CASE t = <<"tileorigins", "tileorigins_proxy">>
  BY <1>1, <1>3, OneList, TwoLists DEF ToReload
<1>4. CASE t = <<"tilesources", "tilesources_proxy">>
  BY <1>1, <1>4, OneList, TwoLists DEF ToReload
<1> QED BY <1>2, <1>3, <1>4 DEF ToReload

LEMMA ReloadsShape ==
  ASSUME NEW t \in Table, Reloads[t] # <<>>
  PROVE  Reloads[t] \in ToReload /\ Reloads[t] \in Seq(ListName)
<1>1. Reloads[t] \in ToReload
  BY DEF Table, Reloads, ToReload
<1> QED BY <1>1, ToReloadShape

LEMMA EntryIsAny == \A l \in ListName : Entry(l) \subseteq AnyEntry
BY DEF ListName, Entry, AnyEntry

LEMMA NameOfTyped ==
  ASSUME DbOK, NEW t \in {"origins", "sources"}, NEW id
  PROVE  NameOf(t, id) \in Name \cup {None}
BY DEF DbOK, NameOf, Origin, Origins, Source, Sources

LEMMA ListingTyped ==
  ASSUME DbOK, NEW l \in ListName, ~Unlistable(l)
  PROVE  Listing(l) \subseteq Entry(l)
<1>1. CASE l \in {"tileorigins", "tileorigins_proxy"}
  BY <1>1 DEF Listing, Entry, DbOK
<1>2. CASE l \in {"tilesources", "tilesources_proxy"}
  <2>1. Listing(l) = {[id |-> s.id, name |-> s.name, origin |-> NameOf("origins", s.origin)] : s \in db.sources}
    BY <1>2 DEF Listing
  <2> DEFINE e(s) == [id |-> s.id, name |-> s.name, origin |-> NameOf("origins", s.origin)]
  <2>0. \A s \in db.sources : e(s) \in Listing(l) /\ e(s).origin = NameOf("origins", s.origin)
    BY <2>1
  <2>2. ASSUME NEW s \in db.sources
        PROVE  [id |-> s.id, name |-> s.name, origin |-> NameOf("origins", s.origin)] \in SourceEntry
    <3>1. NameOf("origins", s.origin) \in Name \cup {None}
      BY NameOfTyped
    <3>2. NameOf("origins", s.origin) # None
      BY <1>2, <2>0 DEF Unlistable
    <3>3. s.id \in Id /\ s.name \in Name
      BY DEF DbOK, Source, Sources
    <3> QED BY <3>1, <3>2, <3>3 DEF SourceEntry
  <2> QED BY <1>2, <2>1, <2>2 DEF Entry
<1>3. CASE l = "tileservices"
  <2>1. Listing(l) = {[id |-> v.id, name |-> v.name, source |-> NameOf("sources", v.source)] : v \in db.services}
    BY <1>3 DEF Listing
  <2> DEFINE e(v) == [id |-> v.id, name |-> v.name, source |-> NameOf("sources", v.source)]
  <2>0. \A v \in db.services : e(v) \in Listing(l) /\ e(v).source = NameOf("sources", v.source)
    BY <2>1
  <2>2. ASSUME NEW v \in db.services
        PROVE  [id |-> v.id, name |-> v.name, source |-> NameOf("sources", v.source)] \in ServiceEntry
    <3>1. NameOf("sources", v.source) \in Name \cup {None}
      BY NameOfTyped
    <3>2. NameOf("sources", v.source) # None
      BY <1>3, <2>0 DEF Unlistable
    <3>3. v.id \in Id /\ v.name \in Name
      BY DEF DbOK, Service, Services
    <3> QED BY <3>1, <3>2, <3>3 DEF ServiceEntry
  <2> QED BY <1>3, <2>1, <2>2 DEF Entry
<1> QED BY <1>1, <1>2, <1>3 DEF ListName

-----------------------------------------------------------------------------
(***************************************************************************)
(* A step of one greenlet.                                                 *)
(***************************************************************************)
LEMMA RestKept ==
  ASSUME NEW v \in Worker, GreenletOK(v),
         UNCHANGED <<pc[v], req[v], todo[v], rows[v], last[v], row[v]>>
  PROVE  GreenletOK(v)'
BY DEF GreenletOK, TodoOK, RowsOK, LastOK, RowOK, Entry

\* Where it goes with the locals it takes along.
LEMMA GoesTo ==
  ASSUME GreenletsOK, NEW w \in Worker, NEW to \in PC, NEW t \in Seq(ListName),
         NEW r \in SUBSET AnyEntry, NEW l \in SourceEntry \cup ServiceEntry \cup {None},
         NEW n \in ToSave \cup {None}, Goes(w, to, t, r, l, n),
         req' \in [Worker -> Req \cup {None}], \A v \in Worker \ {w} : req'[v] = req[v],
         reply' \in [Worker -> Answers]
  PROVE  /\ pc'[w] = to /\ todo'[w] = t /\ rows'[w] = r /\ last'[w] = l /\ row'[w] = n
         /\ GreenletOK(w)' => GreenletsOK'
<1>1. /\ pc' = [pc EXCEPT ![w] = to] /\ todo' = [todo EXCEPT ![w] = t]
      /\ rows' = [rows EXCEPT ![w] = r] /\ last' = [last EXCEPT ![w] = l]
      /\ row' = [row EXCEPT ![w] = n]
  BY DEF Goes
<1>2. LocalsOK'
  BY <1>1 DEF GreenletsOK, LocalsOK
<1>3. pc'[w] = to /\ todo'[w] = t /\ rows'[w] = r /\ last'[w] = l /\ row'[w] = n
  BY <1>1 DEF GreenletsOK, LocalsOK
<1>4. ASSUME NEW v \in Worker \ {w} PROVE GreenletOK(v)'
  BY <1>1, RestKept DEF GreenletsOK, LocalsOK
<1> QED BY <1>2, <1>3, <1>4 DEF GreenletsOK

LEMMA EndsWell ==
  ASSUME GreenletsOK, NEW w \in Worker,
         NEW kind \in {"tile", "missing", "page", "error"}, NEW source \in SourceEntry \cup {None},
         Ends(w, kind, source),
         req' \in [Worker -> Req \cup {None}], \A v \in Worker \ {w} : req'[v] = req[v],
         req'[w] # None, req'[w].op = "proxy_tms" => req'[w].name \in Name
  PROVE  GreenletsOK'
<1>1. Goes(w, "done", <<>>, {}, None, None)
      /\ reply' = [reply EXCEPT ![w] = [kind |-> kind, source |-> source]]
  BY DEF Ends
<1>2. reply' \in [Worker -> Answers]
  BY <1>1 DEF GreenletsOK, LocalsOK, Answers
<1>3. /\ "done" \in PC /\ <<>> \in Seq(ListName) /\ {} \in SUBSET AnyEntry
      /\ None \in ToSave \cup {None} /\ None \in SourceEntry \cup ServiceEntry \cup {None}
  BY DEF PC
<1>4. /\ pc'[w] = "done" /\ todo'[w] = <<>> /\ rows'[w] = {} /\ last'[w] = None /\ row'[w] = None
      /\ GreenletOK(w)' => GreenletsOK'
  BY <1>1, <1>2, <1>3, GoesTo, Zenon
<1> QED BY <1>4 DEF GreenletOK, TodoOK, RowsOK, LastOK, RowOK, Reading, Reloading

\* What a greenlet that works on a request has.
LEMMA RequestShape ==
  ASSUME GreenletsOK, NEW w \in Worker, pc[w] # "idle"
  PROVE  /\ req[w] \in Req /\ req[w] # None /\ req \in [Worker -> Req \cup {None}]
         /\ req[w].op = "proxy_tms" => req[w].name \in Name /\ last[w] \in SourceEntry \cup {None}
         /\ last[w] \in SourceEntry \cup ServiceEntry \cup {None}
         /\ row[w] \in ToSave \cup {None}
         /\ reply \in [Worker -> Answers]
BY DEF GreenletsOK, LocalsOK, GreenletOK, LastOK

LEMMA EndsRequest ==
  ASSUME GreenletsOK, NEW w \in Worker, pc[w] # "idle", req' = req,
         NEW kind \in {"tile", "missing", "page", "error"}, NEW source \in SourceEntry \cup {None},
         Ends(w, kind, source)
  PROVE  GreenletsOK'
BY RequestShape, EndsWell

\* It goes on with its request.
LEMMA GoesOn ==
  ASSUME GreenletsOK, NEW w \in Worker, pc[w] # "idle", req' = req, reply' = reply,
         NEW to \in PC \ {"idle"}, NEW t \in Seq(ListName), NEW r \in SUBSET AnyEntry,
         NEW l \in SourceEntry \cup ServiceEntry \cup {None}, NEW n \in ToSave \cup {None},
         Goes(w, to, t, r, l, n),
         to \in Reading => t \in ToRead(req[w].op),
         to \in Reloading => t \in ToReload,
         to \in {"set", "reset"} => r \subseteq Entry(Head(t)),
         req[w].op = "proxy_tms" => l \in SourceEntry \cup {None},
         to \in {"count", "save"} => n \in ToSave
  PROVE  GreenletsOK'
<1>1. /\ req[w] # None /\ req' \in [Worker -> Req \cup {None}] /\ reply' \in [Worker -> Answers]
      /\ req[w].op = "proxy_tms" => req[w].name \in Name
  BY RequestShape
<1>2. /\ pc'[w] = to /\ todo'[w] = t /\ rows'[w] = r /\ last'[w] = l /\ row'[w] = n
      /\ GreenletOK(w)' => GreenletsOK'
  BY <1>1, GoesTo, Zenon
<1>3. TodoOK(w)' /\ LastOK(w)' /\ RowOK(w)'
  BY <1>2 DEF TodoOK, LastOK, RowOK
<1>4. RowsOK(w)'
  BY <1>2 DEF RowsOK, Entry
<1> QED BY <1>1, <1>2, <1>3, <1>4 DEF GreenletOK

LEMMA StartsWell ==
  ASSUME GreenletsOK, NEW w \in Worker, NEW request \in Req, NEW to \in {"get", "save"},
         NEW t \in Seq(ListName), NEW n \in ToSave \cup {None}, Starts(w, request, to, t, n),
         request.op = "proxy_tms" => request.name \in Name,
         to = "get" => t \in ToRead(request.op),
         to = "save" => n \in ToSave
  PROVE  GreenletsOK'
<1>1. /\ req' \in [Worker -> Req \cup {None}] /\ req'[w] = request /\ request # None
      /\ \A v \in Worker \ {w} : req'[v] = req[v]
  BY RegistryAssumption DEF Starts, GreenletsOK, LocalsOK
<1>2. /\ Goes(w, to, t, {}, None, n) /\ reply' \in [Worker -> Answers] /\ to \in PC
      /\ {} \in SUBSET AnyEntry /\ None \in SourceEntry \cup ServiceEntry \cup {None}
  BY DEF Starts, GreenletsOK, LocalsOK, PC
<1>3. /\ pc'[w] = to /\ todo'[w] = t /\ rows'[w] = {} /\ last'[w] = None /\ row'[w] = n
      /\ GreenletOK(w)' => GreenletsOK'
  BY <1>1, <1>2, GoesTo, Zenon
<1> QED BY <1>1, <1>3 DEF GreenletOK, TodoOK, LastOK, RowOK, RowsOK, Reading, Reloading

-----------------------------------------------------------------------------
(***************************************************************************)
(* Requests that read the lists.                                           *)
(***************************************************************************)
LEMMA NewSourceTyped ==
  ASSUME NEW o \in Origin, NEW slug \in Name
  PROVE  [table |-> "sources", new |-> NewSource(o, slug)] \in ToSave
<1>1. NewSource(o, slug) \in NewSourceRow
  BY RegistryAssumption DEF NewSource, NewSourceRow, Origin, Origins, Sources
<1> QED BY <1>1 DEF ToSave

LEMMA UsesWell ==
  ASSUME GreenletsOK, NEW w \in Worker, pc[w] \in {"get", "set"}, req' = req,
         NEW list, list \subseteq Entry(Head(todo[w])), Uses(w, list)
  PROVE  GreenletsOK'
<1> DEFINE l == Head(todo[w])
<1>1. /\ pc[w] # "idle" /\ l \in ListName
      /\ Len(todo[w]) # 1 => Tail(todo[w]) \in ToRead(req[w].op) /\ Tail(todo[w]) \in Seq(ListName)
      /\ l = "tileservices" => req[w].op = "tile_tms" /\ Len(todo[w]) = 2
      /\ l = "tilesources_proxy" /\ req[w].op = "proxy_tms" => Len(todo[w]) = 2
      /\ l = "tileorigins_proxy" => req[w].op = "proxy_tms"
  <2>1. todo[w] \in ToRead(req[w].op)
    BY DEF GreenletsOK, GreenletOK, TodoOK, Reading
  <2> QED BY <2>1, ToReadShape
<1>2. /\ req[w].op = "proxy_tms" => req[w].name \in Name /\ last[w] \in SourceEntry \cup {None}
      /\ last[w] \in SourceEntry \cup ServiceEntry \cup {None}
  BY <1>1, RequestShape
<1>3. "get" \in PC \ {"idle"} /\ {} \in SUBSET AnyEntry /\ None \in ToSave \cup {None}
      /\ "get" \notin Reloading /\ "get" \notin {"set", "reset"} /\ "get" \notin {"count", "save"}
      /\ None \in SourceEntry \cup ServiceEntry \cup {None}
  BY DEF PC, Reloading
<1>4. ASSUME NEW kind \in {"tile", "missing", "page", "error"},
             NEW source \in SourceEntry \cup {None}, Ends(w, kind, source)
      PROVE  GreenletsOK'
  BY <1>1, <1>4, EndsRequest
<1>5. ASSUME NEW e \in SourceEntry \cup ServiceEntry \cup {None}, Len(todo[w]) # 1,
             req[w].op = "proxy_tms" => e \in SourceEntry \cup {None},
             Goes(w, "get", Tail(todo[w]), {}, e, None), reply' = reply
      PROVE  GreenletsOK'
  BY <1>1, <1>3, <1>5, GoesOn, Zenon
<1>6. CASE l = "tileservices" /\ FindsService(w, list)
  <2>1. list \subseteq ServiceEntry
    BY <1>6 DEF Entry
  <2>2. Len(todo[w]) # 1 /\ req[w].op # "proxy_tms"
    <3>1. req[w].op = "tile_tms" /\ Len(todo[w]) = 2
      BY <1>1, <1>6
    <3> QED BY <3>1
  <2>3. CASE Ends(w, IF list = {} THEN "error" ELSE "missing", None)
    BY <1>4, <2>3
  <2> QED BY <1>5, <1>6, <2>1, <2>2, <2>3 DEF FindsService, Named
<1>7. CASE l = "tilesources" /\ FindsSource(w, list)
  <2>1. list \subseteq SourceEntry
    BY <1>7 DEF Entry
  <2>2. CASE Ends(w, IF list = {} THEN "error" ELSE "missing", None)
    BY <1>4, <2>2
  <2> QED BY <1>4, <1>7, <2>1, <2>2 DEF FindsSource, Named
<1>8. CASE req[w].op = "proxy_tms" /\ l = "tilesources_proxy" /\ MatchesSource(w, list)
  <2>1. list \subseteq SourceEntry
    BY <1>8 DEF Entry
  <2>2. Len(todo[w]) # 1
    BY <1>1, <1>8
  <2> QED BY <1>4, <1>5, <1>8, <2>1, <2>2 DEF MatchesSource, Named
<1>9. CASE l = "tileorigins_proxy" /\ MatchesOrigin(w, list)
  <2>1. list \subseteq Origin /\ req[w].op = "proxy_tms"
    BY <1>1, <1>9 DEF Entry
  <2>2. CASE Ends(w, "error", None)
    BY <1>4, <2>2
  <2>3. ASSUME NEW o \in list,
               Goes(w, IF o.multiple THEN "count" ELSE "save", <<>>, {}, last[w],
                    [table |-> "sources", new |-> NewSource(o, req[w].name)]), reply' = reply
        PROVE  GreenletsOK'
    <3> DEFINE to == IF o.multiple THEN "count" ELSE "save"
               n == [table |-> "sources", new |-> NewSource(o, req[w].name)]
    <3>1. n \in ToSave
      BY <1>2, <2>1, NewSourceTyped
    <3>2. /\ to \in PC \ {"idle"} /\ to \notin Reading /\ to \notin Reloading /\ to \notin {"set", "reset"}
          /\ <<>> \in Seq(ListName)
      BY DEF PC, Reading, Reloading
    <3>3. n \in ToSave \cup {None} /\ Goes(w, to, <<>>, {}, last[w], n)
      BY <2>3, <3>1
    <3> HIDE DEF to, n
    <3> QED BY <1>1, <1>2, <1>3, <2>1, <2>3, <3>1, <3>2, <3>3, GoesOn, Zenon
  <2> QED BY <1>9, <2>2, <2>3 DEF MatchesOrigin, Named
<1>10. CASE req[w].op = "proxy" /\ Ends(w, "error", None)
  BY <1>4, <1>10
<1>11. CASE req[w].op = "page" /\ ReadsOn(w)
  <2>1. CASE Len(todo[w]) = 1
    BY <1>4, <1>11, <2>1 DEF ReadsOn
  <2>2. CASE Len(todo[w]) # 1
    BY <1>3, <1>5, <1>11, <2>2 DEF ReadsOn
  <2> QED BY <2>1, <2>2
<1> QED BY <1>6, <1>7, <1>8, <1>9, <1>10, <1>11 DEF Uses

\* What Get, Query and Set work on.
LEMMA ListAtHand ==
  ASSUME GreenletsOK, NEW w \in Worker, pc[w] \in Reading \cup Reloading
  PROVE  /\ pc[w] # "idle" /\ Head(todo[w]) \in ListName /\ todo[w] \in Seq(ListName)
         /\ Len(todo[w]) \in 1 .. 2
         /\ pc[w] \in Reading => todo[w] \in ToRead(req[w].op)
         /\ pc[w] \in Reloading => todo[w] \in ToReload
<1>1. /\ pc[w] \in Reading => todo[w] \in ToRead(req[w].op)
      /\ pc[w] \in Reloading => todo[w] \in ToReload
  BY DEF GreenletsOK, GreenletOK, TodoOK
<1> QED BY <1>1, ToReadShape, ToReloadShape DEF Reading, Reloading

LEMMA GetTyped ==
  ASSUME RegistryInv, NEW w \in Worker, Get(w)
  PROVE  GreenletsOK'
<1> DEFINE l == Head(todo[w])
<1>1. pc[w] = "get" /\ pc[w] # "idle" /\ l \in ListName /\ todo[w] \in ToRead(req[w].op) /\ todo[w] \in Seq(ListName)
  BY ListAtHand DEF Get, Reading, RegistryInv
<1>2. CASE lists[l] # {}
  BY <1>1, <1>2, UsesWell DEF Get, RegistryInv, ListsOK
<1>3. CASE lists[l] = {}
  <2>1. /\ Goes(w, "query", todo[w], {}, last[w], None) /\ req' = req /\ reply' = reply
        /\ {} \in SUBSET AnyEntry /\ None \in ToSave \cup {None}
    BY <1>3 DEF Get
  <2>2. /\ "query" \in PC \ {"idle"} /\ "query" \notin Reloading
        /\ "query" \notin {"set", "reset"} /\ "query" \notin {"count", "save"}
    BY DEF PC, Reloading
  <2>3. /\ last[w] \in SourceEntry \cup ServiceEntry \cup {None} /\ GreenletsOK
        /\ req[w].op = "proxy_tms" => last[w] \in SourceEntry \cup {None}
    BY <1>1, RequestShape DEF RegistryInv
  <2> QED BY <1>1, <2>1, <2>2, <2>3, GoesOn, Zenon
<1> QED BY <1>2, <1>3

LEMMA QueryTyped ==
  ASSUME RegistryInv, NEW w \in Worker, Query(w)
  PROVE  GreenletsOK'
<1> DEFINE l == Head(todo[w])
           to == IF pc[w] = "query" THEN "set" ELSE "reset"
<1>1. /\ pc[w] \in {"query", "requery"} /\ pc[w] # "idle" /\ l \in ListName /\ todo[w] \in Seq(ListName)
      /\ pc[w] = "query" => todo[w] \in ToRead(req[w].op)
      /\ pc[w] = "requery" => todo[w] \in ToReload
  BY ListAtHand DEF Query, Reading, Reloading, RegistryInv
<1>2. CASE Unlistable(l)
  BY <1>1, <1>2, EndsRequest DEF Query, RegistryInv
<1>3. CASE ~Unlistable(l)
  <2>1. /\ Goes(w, to, todo[w], Listing(l), last[w], None) /\ req' = req /\ reply' = reply
        /\ None \in ToSave \cup {None}
    BY <1>3 DEF Query
  <2>2. Listing(l) \subseteq Entry(l) /\ Listing(l) \in SUBSET AnyEntry
    BY <1>1, <1>3, ListingTyped, EntryIsAny DEF RegistryInv
  <2>3. /\ to \in PC \ {"idle"} /\ to \notin {"count", "save"}
        /\ to \in Reading => todo[w] \in ToRead(req[w].op)
        /\ to \in Reloading => todo[w] \in ToReload
    BY <1>1 DEF PC, Reloading, Reading
  <2>4. /\ last[w] \in SourceEntry \cup ServiceEntry \cup {None} /\ GreenletsOK
        /\ req[w].op = "proxy_tms" => last[w] \in SourceEntry \cup {None}
    BY <1>1, RequestShape DEF RegistryInv
  <2> HIDE DEF to
  <2> QED BY <1>1, <2>1, <2>2, <2>3, <2>4, GoesOn, Zenon
<1> QED BY <1>2, <1>3

LEMMA SetOKTyped ==
  ASSUME RegistryInv, NEW w \in Worker, Set(w)
  PROVE  GreenletsOK'
<1>1. pc[w] = "set" /\ rows[w] \subseteq Entry(Head(todo[w]))
  BY DEF Set, RegistryInv, GreenletsOK, GreenletOK, RowsOK
<1> QED BY <1>1, UsesWell DEF Set, RegistryInv

-----------------------------------------------------------------------------
(***************************************************************************)
(* Requests that write.                                                    *)
(***************************************************************************)
LEMMA CountTyped ==
  ASSUME RegistryInv, NEW w \in Worker, Count(w)
  PROVE  GreenletsOK'
<1>1. pc[w] = "count" /\ pc[w] # "idle" /\ GreenletsOK /\ row[w] \in ToSave
  BY DEF Count, RegistryInv, GreenletsOK, GreenletOK, RowOK
<1>2. CASE Ends(w, "error", None)
  BY <1>1, <1>2, EndsRequest DEF Count
<1>3. CASE Goes(w, "save", <<>>, {}, last[w], row[w]) /\ reply' = reply
  <2>1. /\ "save" \in PC \ {"idle"} /\ "save" \notin Reading /\ "save" \notin Reloading
        /\ "save" \notin {"set", "reset"} /\ <<>> \in Seq(ListName) /\ {} \in SUBSET AnyEntry
        /\ row[w] \in ToSave \cup {None}
    BY <1>1 DEF PC, Reading, Reloading
  <2>2. /\ last[w] \in SourceEntry \cup ServiceEntry \cup {None} /\ req' = req
        /\ req[w].op = "proxy_tms" => last[w] \in SourceEntry \cup {None}
    BY <1>1, RequestShape DEF Count
  <2> QED BY <1>1, <1>3, <2>1, <2>2, GoesOn, Zenon
<1> QED BY <1>2, <1>3 DEF Count

LEMMA SaveGoesOn ==
  ASSUME RegistryInv, NEW w \in Worker, Save(w)
  PROVE  GreenletsOK'
<1> DEFINE t == row[w].table
<1>1. pc[w] = "save" /\ pc[w] # "idle" /\ GreenletsOK /\ t \in Table
  BY DEF Save, RegistryInv, GreenletsOK, GreenletOK, RowOK, ToSave, Table
<1>2. CASE Reloads[t] = <<>>
  BY <1>1, <1>2, EndsRequest DEF Save
<1>3. CASE Reloads[t] # <<>>
  <2>1. /\ Goes(w, "requery", Reloads[t], {}, last[w], None) /\ req' = req /\ reply' = reply
        /\ {} \in SUBSET AnyEntry /\ None \in ToSave \cup {None}
    BY <1>3 DEF Save
  <2>2. /\ "requery" \in PC \ {"idle"} /\ "requery" \notin Reading
        /\ "requery" \notin {"set", "reset"} /\ "requery" \notin {"count", "save"}
    BY DEF PC, Reading
  <2>3. Reloads[t] \in ToReload /\ Reloads[t] \in Seq(ListName)
    BY <1>1, <1>3, ReloadsShape
  <2>4. /\ last[w] \in SourceEntry \cup ServiceEntry \cup {None}
        /\ req[w].op = "proxy_tms" => last[w] \in SourceEntry \cup {None}
    BY <1>1, RequestShape
  <2> QED BY <1>1, <2>1, <2>2, <2>3, <2>4, GoesOn, Zenon
<1> QED BY <1>2, <1>3

LEMMA ResetTyped ==
  ASSUME RegistryInv, NEW w \in Worker, Reset(w)
  PROVE  GreenletsOK'
<1>1. /\ pc[w] = "reset" /\ pc[w] # "idle" /\ GreenletsOK /\ todo[w] \in ToReload /\ req' = req
  BY ListAtHand DEF Reset, Reloading, RegistryInv
<1>2. /\ last[w] \in SourceEntry \cup ServiceEntry \cup {None}
      /\ req[w].op = "proxy_tms" => last[w] \in SourceEntry \cup {None}
  BY <1>1, RequestShape
<1>3. CASE Len(todo[w]) > 1
  <2>1. /\ Goes(w, "requery", Tail(todo[w]), {}, last[w], None) /\ reply' = reply
        /\ {} \in SUBSET AnyEntry /\ None \in ToSave \cup {None}
    BY <1>3 DEF Reset
  <2>2. /\ "requery" \in PC \ {"idle"} /\ "requery" \notin Reading
        /\ "requery" \notin {"set", "reset"} /\ "requery" \notin {"count", "save"}
    BY DEF PC, Reading
  <2>3. Tail(todo[w]) \in ToReload /\ Tail(todo[w]) \in Seq(ListName)
    BY <1>1, <1>3, ToReloadShape
  <2> QED BY <1>1, <1>2, <2>1, <2>2, <2>3, GoesOn, Zenon
<1>4. CASE ~(Len(todo[w]) > 1)
  BY <1>1, <1>2, <1>4, EndsRequest DEF Reset
<1> QED BY <1>3, <1>4

LEMMA FinishTyped ==
  ASSUME GreenletsOK, NEW w \in Worker, Finish(w)
  PROVE  GreenletsOK'
<1>1. LocalsOK'
  BY DEF Finish, GreenletsOK, LocalsOK, PC, Answers, NoReply
<1>2. /\ pc'[w] = "idle" /\ req'[w] = None
      /\ \A v \in Worker \ {w} : pc'[v] = pc[v] /\ req'[v] = req[v]
      /\ UNCHANGED <<todo, rows, last, row>>
  BY DEF Finish, GreenletsOK, LocalsOK
<1>3. ASSUME NEW v \in Worker \ {w} PROVE GreenletOK(v)'
  BY <1>2, RestKept DEF GreenletsOK
<1>4. GreenletOK(w)'
  BY <1>2 DEF GreenletOK, TodoOK, RowsOK, LastOK, RowOK, Reading, Reloading
<1> QED BY <1>1, <1>3, <1>4 DEF GreenletsOK

LEMMA StepLocals ==
  ASSUME RegistryInv, NEW w \in Worker, Step(w)
  PROVE  GreenletsOK'
<1>1. CASE SaveFails(w)
  BY <1>1, EndsRequest DEF SaveFails, RegistryInv
<1> QED BY <1>1, GetTyped, QueryTyped, SetOKTyped, CountTyped, SaveGoesOn, ResetTyped, FinishTyped
        DEF Step, RegistryInv

LEMMA FormTyped ==
  ASSUME DbOK, NEW t \in Table, NEW id \in Id \cup {None}, NEW new \in Form(t, id)
  PROVE  [table |-> t, new |-> new] \in ToSave
<1>1. PICK form \in scenario.forms[t] :
        /\ new = [form EXCEPT !.id = id]
        /\ t = "sources" => form.origin \in {o.id : o \in db.origins} \cup {None}
        /\ t = "services" => form.source \in {r.id : r \in db.sources} \cup {None}
  BY DEF Form
<1>2. /\ scenario.forms.origins \subseteq Origins({None})
      /\ scenario.forms.sources \subseteq Sources({None})
      /\ scenario.forms.services \subseteq Services({None})
  BY RegistryAssumption DEF DbOK
<1>3. CASE t = "origins"
  <2>1. new \in NewOrigin
    BY <1>1, <1>2, <1>3 DEF NewOrigin, Origins
  <2> QED BY <1>3, <2>1 DEF ToSave
<1>4. CASE t = "sources"
  <2>1. new \in NewSourceRow
    BY <1>1, <1>2, <1>4 DEF NewSourceRow, Sources
  <2> QED BY <1>4, <2>1 DEF ToSave
<1>5. CASE t = "services"
  <2>1. new \in NewService
    BY <1>1, <1>2, <1>5 DEF NewService, Services
  <2> QED BY <1>5, <2>1 DEF ToSave
<1> QED BY <1>3, <1>4, <1>5 DEF Table

LEMMA RequestTyped ==
  ASSUME NEW op \in Op \cup {"form"}, NEW n \in Name \cup {None}, NEW o \in Name \cup {None}
  PROVE  Asks(op, n, o) \in Req /\ Asks(op, n, o).op = op /\ Asks(op, n, o).name = n
BY DEF Asks, Req

LEMMA SubmitsTyped ==
  ASSUME RegistryInv, NEW w \in Worker, NEW t \in Table, NEW id \in Id \cup {None},
         Submits(w, t, id)
  PROVE  GreenletsOK'
<1> DEFINE request == Asks("form", None, None)
<1>1. PICK new \in Form(t, id) : Starts(w, request, "save", <<>>, [table |-> t, new |-> new])
  BY DEF Submits
<1>2. [table |-> t, new |-> new] \in ToSave
  BY FormTyped DEF RegistryInv
<1>3. request \in Req /\ request.op # "proxy_tms" /\ <<>> \in Seq(ListName)
  BY RequestTyped DEF Asks
<1> HIDE DEF request
<1> QED BY <1>1, <1>2, <1>3, StartsWell DEF RegistryInv

LEMMA ReadsTyped ==
  ASSUME GreenletsOK, NEW w \in Worker, NEW op \in Op, NEW n \in Name \cup {None},
         NEW o \in Name \cup {None}, NEW t \in ToRead(op), op = "proxy_tms" => n \in Name,
         Starts(w, Asks(op, n, o), "get", t, None)
  PROVE  GreenletsOK'
<1>1. t \in Seq(ListName) /\ None \in ToSave \cup {None}
  BY ToReadShape
<1>2. Asks(op, n, o) \in Req /\ Asks(op, n, o).op = op /\ Asks(op, n, o).name = n
  BY RequestTyped
<1> QED BY <1>1, <1>2, StartsWell

LEMMA DeleteLocals ==
  ASSUME GreenletsOK, NEW w \in Worker, NEW t, Delete(w, t)
  PROVE  GreenletsOK'
<1>0. Asks("form", None, None) \in Req /\ Asks("form", None, None).op = "form"
  BY DEF Asks, Req
<1>1. /\ req' = [req EXCEPT ![w] = Asks("form", None, None)] /\ Ends(w, "page", None)
      /\ Asks("form", None, None) \in Req /\ Asks("form", None, None).op = "form"
  BY <1>0 DEF Delete
<1>2. /\ req' \in [Worker -> Req \cup {None}] /\ \A v \in Worker \ {w} : req'[v] = req[v]
      /\ req'[w] # None /\ req'[w].op # "proxy_tms"
  BY <1>1, RegistryAssumption DEF GreenletsOK, LocalsOK
<1> QED BY <1>1, <1>2, EndsWell

LEMMA RequestLocals ==
  ASSUME RegistryInv, NEW w \in Worker, Request(w)
  PROVE  GreenletsOK'
<1>1. ASSUME NEW n \in Name, tile_tms(w, n) PROVE GreenletsOK'
  <2>1. <<"tileservices", "tilesources">> \in ToRead("tile_tms") /\ "tile_tms" \in Op
    BY DEF ToRead, Op
  <2> QED BY <1>1, <2>1, ReadsTyped DEF tile_tms, RegistryInv
<1>2. ASSUME NEW n \in Name, NEW o \in Name, proxy_tms(w, o, n) PROVE GreenletsOK'
  <2>1. <<"tilesources_proxy", "tileorigins_proxy">> \in ToRead("proxy_tms") /\ "proxy_tms" \in Op
    BY DEF ToRead, Op
  <2> QED BY <1>2, <2>1, ReadsTyped DEF proxy_tms, RegistryInv
<1>3. CASE proxy(w)
  <2>1. <<"tilesources_proxy">> \in ToRead("proxy") /\ "proxy" \in Op
    BY DEF ToRead, Op
  <2> QED BY <1>3, <2>1, ReadsTyped DEF proxy, RegistryInv
<1>4. CASE Pages(w)
  <2>1. \A l \in {<<"tileorigins">>, <<"tilesources">>, <<"tileorigins", "tilesources">>} :
          l \in ToRead("page") /\ "page" \in Op
    BY DEF ToRead, Op
  <2> QED BY <1>4, <2>1, ReadsTyped DEF Pages, RegistryInv
<1>5. ASSUME NEW t \in Table, New(w, t) \/ Edit(w, t) PROVE GreenletsOK'
  <2>1. \A r \in db[t] : r.id \in Id
    BY DEF RegistryInv, DbOK, Table, Origin, Origins, Source, Sources, Service, Services
  <2> QED BY <1>5, <2>1, SubmitsTyped DEF New, Edit
<1>6. ASSUME NEW t, Delete(w, t) PROVE GreenletsOK'
  BY <1>6, DeleteLocals DEF RegistryInv
<1> QED BY <1>1, <1>2, <1>3, <1>4, <1>5, <1>6 DEF Request

-----------------------------------------------------------------------------
(***************************************************************************)
(* The rows and the lists.                                                 *)
(***************************************************************************)
LEMMA SaveTyped ==
  ASSUME RegistryInv, NEW w \in Worker, Save(w), scenario' = scenario
  PROVE  DbOK'
<1> DEFINE t == row[w].table
           new == IF row[w].new.id # None THEN row[w].new
                  ELSE [row[w].new EXCEPT !.id = FirstId + writes]
           kept == {r \in db[t] : r.id # new.id} \cup {new}
<1>1. row[w] \in ToSave
  BY DEF Save, RegistryInv, GreenletsOK, GreenletOK, RowOK
<1>2. scenario \in Scenarios /\ writes \in 0 .. scenario.writes - 1 /\ scenario.writes \in Nat
  BY RegistryAssumption DEF Save, RegistryInv, DbOK
<1>3. FirstId + writes \in Id
  BY <1>2, IdFacts
<1>4. /\ t \in Table
      /\ t = "origins" => new \in Origin
      /\ t = "sources" => new \in Source
      /\ t = "services" => new \in Service
  BY <1>1, <1>3 DEF ToSave, NewOrigin, NewSourceRow, NewService, Origin, Origins, Source, Sources,
     Service, Services, Table
<1>5. db' = [db EXCEPT ![t] = kept] /\ writes' = writes + 1
  BY DEF Save
<1>6. writes' \in 0 .. scenario'.writes /\ made' \subseteq Id
  <2>1. made' \subseteq made \cup (IF t = "sources" THEN {new.id} ELSE {})
    BY DEF Save
  <2>2. t = "sources" => new.id \in Id
    BY <1>4 DEF Source, Sources
  <2>3. made \subseteq Id
    BY DEF RegistryInv, DbOK
  <2> HIDE DEF new, kept
  <2>4. made' \subseteq Id
    BY <2>1, <2>2, <2>3
  <2> QED BY <1>2, <1>5, <2>4
<1> HIDE DEF new
<1>7. CASE t = "origins"
  BY <1>4, <1>5, <1>6, <1>7 DEF RegistryInv, DbOK, Table
<1>8. CASE t = "sources"
  BY <1>4, <1>5, <1>6, <1>8 DEF RegistryInv, DbOK, Table
<1>9. CASE t = "services"
  BY <1>4, <1>5, <1>6, <1>9 DEF RegistryInv, DbOK, Table
<1> QED BY <1>4, <1>7, <1>8, <1>9 DEF Table

LEMMA DeleteTyped ==
  ASSUME RegistryInv, NEW w \in Worker, NEW t \in {"sources", "services"}, Delete(w, t),
         scenario' = scenario
  PROVE  /\ DbOK'
         /\ db'.origins = db.origins /\ db'.sources \subseteq db.sources /\ made' = made
<1>1. PICK r \in db[t] :
        db' = [db EXCEPT ![t] = @ \ {r},
                         !.services = {v \in @ : v # r /\ (t = "sources" => v.source # r.id)}]
  BY DEF Delete
<1>2. /\ db' \in [Table -> SUBSET (Origin \cup Source \cup Service)]
      /\ db'.origins = db.origins /\ db'.sources \subseteq db.sources
      /\ db'.services \subseteq db.services
  <2>1. CASE t = "sources"
    <3>1. db' = [db EXCEPT !["sources"] = @ \ {r},
                           !["services"] = {v \in @ : v # r /\ v.source # r.id}]
      BY <1>1, <2>1
    <3> QED BY <3>1 DEF RegistryInv, DbOK, Table
  <2>2. CASE t = "services"
    <3>1. db' = [db EXCEPT !["services"] = @ \ {r}, !["services"] = {v \in @ : v # r}]
      BY <1>1, <2>2
    <3> QED BY <3>1 DEF RegistryInv, DbOK, Table
  <2> QED BY <2>1, <2>2
<1>3. writes' \in 0 .. scenario'.writes /\ made' = made
  <2>1. scenario.writes \in Nat /\ writes \in 0 .. scenario.writes
    BY RegistryAssumption DEF RegistryInv, DbOK
  <2>2. writes < scenario.writes /\ writes' = writes + 1
    BY DEF Delete
  <2>3. made' = made
    BY DEF Delete
  <2> QED BY <2>1, <2>2, <2>3
<1> QED BY <1>2, <1>3 DEF RegistryInv, DbOK

\* Only Save and Delete change the rows.
LEMMA OthersKeepDb ==
  ASSUME NEW w \in Worker, Request(w) \/ Step(w)
  PROVE  \/ db' = db /\ writes' = writes /\ made' = made
         \/ Save(w) \/ \E t \in {"sources", "services"} : Delete(w, t)
BY DEF Request, Step, tile_tms, proxy_tms, proxy, Pages, New, Edit, Submits, Starts, Get, Query, Set,
   Count, SaveFails, Reset, Finish

\* Set and Reset put the entries they have at hand into their list.
LEMMA StepLists ==
  ASSUME RegistryInv, NEW w \in Worker, Request(w) \/ Step(w)
  PROVE  ListsOK'
<1>1. CASE Set(w) \/ Reset(w)
  <2>1. /\ Head(todo[w]) \in ListName /\ rows[w] \subseteq Entry(Head(todo[w]))
        /\ lists' = [lists EXCEPT ![Head(todo[w])] = rows[w]]
    BY <1>1, ListAtHand DEF Set, Reset, RegistryInv, GreenletsOK, GreenletOK, RowsOK, Reading, Reloading
  <2>2. rows[w] \subseteq AnyEntry
    BY <2>1, EntryIsAny
  <2>3. \A l \in ListName : lists'[l] \subseteq Entry(l)
    BY <2>1 DEF RegistryInv, ListsOK
  <2>4. lists' \in [ListName -> SUBSET AnyEntry]
    BY <2>1, <2>2 DEF RegistryInv, ListsOK
  <2> QED BY <2>3, <2>4 DEF ListsOK, Entry
<1>2. CASE lists' = lists
  BY <1>2 DEF RegistryInv, ListsOK, Entry
<1>3. lists' = lists \/ Set(w) \/ Reset(w)
  BY DEF Request, Step, tile_tms, proxy_tms, proxy, Pages, New, Edit, Submits, Starts, Get, Query,
     Count, Save, SaveFails, Finish, Delete
<1> QED BY <1>1, <1>2, <1>3

LEMMA StepTypes == RegistryInv /\ [Next]_vars => RegistryInv'
<1> SUFFICES ASSUME RegistryInv, [Next]_vars PROVE RegistryInv'
  OBVIOUS
<1>1. ASSUME scenario' = scenario, NEW w \in Worker, Request(w) \/ Step(w) PROVE RegistryInv'
  <2>1. DbOK'
    <3>1. CASE db' = db /\ writes' = writes /\ made' = made
      BY <1>1, <3>1 DEF RegistryInv, DbOK
    <3> QED BY <1>1, <3>1, OthersKeepDb, SaveTyped, DeleteTyped
  <2>2. GreenletsOK'
    BY <1>1, RequestLocals, StepLocals
  <2> QED BY <1>1, <2>1, <2>2, StepLists DEF RegistryInv
<1>2. ASSUME scenario' = scenario, NEW l \in ListName, Expire(l) PROVE RegistryInv'
  <2>1. ListsOK'
    BY <1>2 DEF Expire, RegistryInv, ListsOK, Entry
  <2>2. DbOK'
    BY <1>2 DEF Expire, RegistryInv, DbOK
  <2>3. UNCHANGED <<pc, req, todo, rows, last, row, reply>>
    BY <1>2 DEF Expire
  <2>4. GreenletsOK'
    BY <2>3, RestKept DEF RegistryInv, GreenletsOK, LocalsOK
  <2> QED BY <2>1, <2>2, <2>4 DEF RegistryInv
<1>3. CASE UNCHANGED vars
  <2>1. ListsOK' /\ DbOK' /\ LocalsOK'
    BY <1>3 DEF vars, RegistryInv, ListsOK, Entry, DbOK, GreenletsOK, LocalsOK
  <2>2. GreenletsOK'
    BY <1>3, <2>1, RestKept DEF vars, RegistryInv, GreenletsOK
  <2> QED BY <2>1, <2>2 DEF RegistryInv
<1> QED BY <1>1, <1>2, <1>3 DEF Next

LEMMA InitTypes == Init => RegistryInv
<1> SUFFICES ASSUME Init PROVE RegistryInv
  OBVIOUS
<1>1. DbOK
  BY RegistryAssumption DEF Init, DbOK
<1>2. ListsOK
  BY DEF Init, ListsOK
<1>3. LocalsOK
  BY DEF Init, LocalsOK, PC, Answers, NoReply
<1>4. \A w \in Worker : GreenletOK(w)
  BY DEF Init, GreenletOK, TodoOK, RowsOK, LastOK, RowOK, Reading, Reloading
<1> QED BY <1>1, <1>2, <1>3, <1>4 DEF RegistryInv, GreenletsOK

LEMMA InvIsTyped == RegistryInv => TypeOK
<1> SUFFICES ASSUME RegistryInv PROVE TypeOK
  OBVIOUS
<1>1. ASSUME NEW w \in Worker, pc[w] \in Reading \cup Reloading
      PROVE  Len(todo[w]) \in 1 .. 2 /\ Head(todo[w]) \in ListName
  BY <1>1, ListAtHand DEF RegistryInv
<1>2. ASSUME NEW w \in Worker
      PROVE  /\ pc[w] \in PC /\ (pc[w] = "idle" <=> req[w] = None)
             /\ pc[w] \in {"set", "reset"} => rows[w] \subseteq Entry(Head(todo[w]))
             /\ pc[w] \in {"count", "save"} => row[w].table \in Table
             /\ last[w] \in SourceEntry \cup ServiceEntry \cup {None}
             /\ reply[w] \in Answers
  BY DEF RegistryInv, GreenletsOK, LocalsOK, GreenletOK, RowsOK, RowOK, ToSave, Table
<1>3. DbOK /\ \A l \in ListName : lists[l] \subseteq Entry(l)
  BY DEF RegistryInv, ListsOK
<1> QED BY <1>1, <1>2, <1>3 DEF TypeOK, DbOK, PC, Reading, Reloading, Answers

\* Every variable has its type: no list holds an entry that its readers would
\* not survive, and proxy_tms serves a source, its loop variable though it be
\* (getTileSources, reloadTileSources, proxy_tms and the forms of cache/views.py).
THEOREM RegistryTyped == Spec => []TypeOK
<1>1. Spec => []RegistryInv
  BY InitTypes, StepTypes, PTL DEF Spec
<1> QED BY <1>1, InvIsTyped, PTL

-----------------------------------------------------------------------------
(***************************************************************************)
(* Duplicates.  A greenlet comes to be Creating a url when no source has   *)
(* it, and stops to be when it has saved its source.                       *)
(***************************************************************************)
LEMMA SetsAreFinite ==
  ASSUME IsFiniteSet(db.sources), NEW u
  PROVE  /\ IsFiniteSet(Created(u)) /\ Cardinality(Created(u)) \in Nat
         /\ IsFiniteSet(Creating(u)) /\ Cardinality(Creating(u)) \in Nat
         /\ Cardinality(Worker) \in Nat
<1>1. Created(u) \in SUBSET db.sources /\ Creating(u) \in SUBSET Worker /\ IsFiniteSet(Worker)
  BY RegistryAssumption DEF Created, Creating
<1>2. IsFiniteSet(Created(u)) /\ IsFiniteSet(Creating(u))
  BY <1>1, FS_Subset
<1> QED BY <1>1, <1>2, FS_CardinalityType

\* Nothing is added.
LEMMA StaysBounded ==
  ASSUME IsFiniteSet(db.sources), NEW u, Bounded(u),
         Created(u)' \subseteq Created(u), Creating(u)' \subseteq Creating(u)
  PROVE  Bounded(u)'
<1>1. Cardinality(Created(u)') <= Cardinality(Created(u)) /\ IsFiniteSet(Created(u)')
  BY SetsAreFinite, FS_Subset
<1>2. Cardinality(Creating(u)') <= Cardinality(Creating(u)) /\ IsFiniteSet(Creating(u)')
  BY SetsAreFinite, FS_Subset
<1>3. Cardinality(Created(u)') \in Nat /\ Cardinality(Creating(u)') \in Nat
  BY <1>1, <1>2, FS_CardinalityType
<1> QED BY <1>1, <1>2, <1>3, SetsAreFinite DEF Bounded

\* There is no source yet.
LEMMA FirstCreators ==
  ASSUME NEW u, Created(u)' = {}
  PROVE  Bounded(u)'
<1>1. Creating(u)' \in SUBSET Worker
  BY DEF Creating
<1>2. Cardinality(Creating(u)') <= Cardinality(Worker) /\ IsFiniteSet(Creating(u)')
  BY <1>1, RegistryAssumption, FS_Subset
<1>3. Cardinality(Creating(u)') \in Nat /\ Cardinality(Worker) \in Nat /\ Cardinality(Created(u)') = 0
  BY <1>2, RegistryAssumption, FS_CardinalityType, FS_EmptySet
<1> QED BY <1>2, <1>3 DEF Bounded

\* A creator becomes a source.
LEMMA CreatorSaves ==
  ASSUME IsFiniteSet(db.sources), NEW u, Bounded(u), NEW w \in Creating(u), NEW new,
         Created(u)' \subseteq Created(u) \cup {new}, Creating(u)' \subseteq Creating(u) \ {w}
  PROVE  Bounded(u)'
<1>1. /\ IsFiniteSet(Created(u) \cup {new})
      /\ Cardinality(Created(u) \cup {new}) <= Cardinality(Created(u)) + 1
  <2>1. IsFiniteSet(Created(u)) /\ Cardinality(Created(u)) \in Nat
    BY SetsAreFinite
  <2>2. IsFiniteSet(Created(u) \cup {new})
        /\ Cardinality(Created(u) \cup {new})
           = IF new \in Created(u) THEN Cardinality(Created(u)) ELSE Cardinality(Created(u)) + 1
    BY <2>1, FS_AddElement, Zenon
  <2> QED BY <2>1, <2>2
<1>2. /\ IsFiniteSet(Creating(u) \ {w})
      /\ Cardinality(Creating(u) \ {w}) = Cardinality(Creating(u)) - 1
  BY SetsAreFinite, FS_RemoveElement
<1>3. Cardinality(Created(u)') <= Cardinality(Created(u) \cup {new}) /\ IsFiniteSet(Created(u)')
  BY <1>1, FS_Subset
<1>4. Cardinality(Creating(u)') <= Cardinality(Creating(u) \ {w}) /\ IsFiniteSet(Creating(u)')
  BY <1>2, FS_Subset
<1>5. /\ Cardinality(Created(u)') \in Nat /\ Cardinality(Creating(u)') \in Nat
      /\ Cardinality(Created(u) \cup {new}) \in Nat /\ Cardinality(Creating(u) \ {w}) \in Nat
  BY <1>1, <1>2, <1>3, <1>4, FS_CardinalityType
<1> QED BY <1>1, <1>2, <1>3, <1>4, <1>5, SetsAreFinite DEF Bounded

\* A reader makes a source with an origin ready to be counted, never to be saved.
LEMMA UsesRows ==
  ASSUME GreenletsOK, NEW w \in Worker, pc[w] \in {"get", "set"},
         NEW list, Uses(w, list), pc'[w] = "save"
  PROVE  row'[w].new.origin = None
<1>1. todo[w] \in ToRead(req[w].op) /\ pc[w] # "idle" /\ w \in DOMAIN pc /\ w \in DOMAIN row
  BY DEF GreenletsOK, LocalsOK, GreenletOK, TodoOK, Reading
<1>2. \A kind, source : ~Ends(w, kind, source)
  BY <1>1 DEF Ends, Goes
<1>3. \A t, r, l, n : ~Goes(w, "get", t, r, l, n)
  BY <1>1 DEF Goes
<1>4. MatchesOrigin(w, list)
  BY <1>2, <1>3 DEF Uses, FindsService, FindsSource, MatchesSource, ReadsOn
<1>5. PICK o \in list : Goes(w, IF o.multiple THEN "count" ELSE "save", <<>>, {}, last[w],
                            [table |-> "sources", new |-> NewSource(o, req[w].name)])
  BY <1>2, <1>4 DEF MatchesOrigin, Named
<1>6. /\ pc'[w] = IF o.multiple THEN "count" ELSE "save"
      /\ row'[w] = [table |-> "sources", new |-> NewSource(o, req[w].name)]
  BY <1>1, <1>5 DEF Goes
<1>7. ~o.multiple => NewSource(o, req[w].name).origin = None
  BY DEF NewSource
<1> QED BY <1>6, <1>7

\* A step of greenlet w: it alone moves, and comes to save a source with an
\* origin only when it has counted none, or for a form.
LEMMA ComesToSave ==
  ASSUME RegistryInv, NEW w \in Worker, Request(w) \/ Step(w)
  PROVE  /\ \A v \in Worker \ {w} : pc'[v] = pc[v] /\ req'[v] = req[v] /\ row'[v] = row[v]
         /\ pc'[w] = "save" =>
              Count(w) \/ row'[w].new.origin = None \/ req'[w].op = "form"
<1>1. /\ pc \in [Worker -> PC] /\ row \in [Worker -> ToSave \cup {None}] /\ GreenletsOK
      /\ req \in [Worker -> Req \cup {None}]
  BY DEF RegistryInv, GreenletsOK, LocalsOK
<1>2. ASSUME NEW to, NEW t, NEW r, NEW l, NEW n, Goes(w, to, t, r, l, n)
      PROVE  /\ \A v \in Worker \ {w} : pc'[v] = pc[v] /\ row'[v] = row[v]
             /\ pc'[w] = to /\ row'[w] = n
  BY <1>1, <1>2 DEF Goes
<1>0. \A v \in Worker \ {w} : req'[v] = req[v]
  <2>1. req' = req \/ \E r : req' = [req EXCEPT ![w] = r]
    BY DEF Request, Step, tile_tms, proxy_tms, proxy, Pages, New, Edit, Submits, Starts, Delete, Get,
           Query, Set, Count, Save, SaveFails, Reset, Finish
  <2> QED BY <1>1, <2>1
<1>3. CASE Get(w) \/ Set(w)
  <2> DEFINE list == IF pc[w] = "set" THEN rows[w] ELSE lists[Head(todo[w])]
  <2>1. CASE Uses(w, list)
    <3>1. \A v \in Worker \ {w} : pc'[v] = pc[v] /\ row'[v] = row[v]
      BY <1>2, <2>1 DEF Uses, FindsService, FindsSource, MatchesSource, MatchesOrigin, ReadsOn, Ends
    <3>2. pc[w] \in {"get", "set"}
      BY <1>3 DEF Get, Set
    <3> HIDE DEF list
    <3> QED BY <1>0, <1>1, <2>1, <3>1, <3>2, UsesRows
  <2>2. CASE ~Uses(w, list)
    <3>1. Goes(w, "query", todo[w], {}, last[w], None)
      BY <1>3, <2>2 DEF Get, Set
    <3> QED BY <1>0, <1>2, <3>1
  <2> QED BY <2>1, <2>2
<1>4. CASE Query(w)
  BY <1>0, <1>2, <1>4 DEF Query, Ends
<1>5. CASE Count(w)
  BY <1>0, <1>2, <1>5 DEF Count, Ends
<1>6. CASE Save(w)
  BY <1>0, <1>2, <1>6 DEF Save, Ends
<1>7. CASE SaveFails(w)
  BY <1>0, <1>2, <1>7 DEF SaveFails, Ends
<1>8. CASE Reset(w)
  BY <1>0, <1>2, <1>8 DEF Reset, Ends
<1>9. CASE Finish(w)
  BY <1>0, <1>1, <1>9 DEF Finish
<1>10. CASE (\E n \in Name : tile_tms(w, n)) \/ (\E n, o \in Name : proxy_tms(w, o, n))
            \/ proxy(w) \/ Pages(w)
  <2>1. PICK t : Goes(w, "get", t, {}, None, None)
    BY <1>10 DEF tile_tms, proxy_tms, proxy, Pages, Starts
  <2> QED BY <1>0, <1>2, <2>1
<1>11. ASSUME NEW t, New(w, t) \/ Edit(w, t) PROVE
         /\ \A v \in Worker \ {w} : pc'[v] = pc[v] /\ row'[v] = row[v]
         /\ req'[w].op = "form"
  <2>1. PICK id : Submits(w, t, id)
    BY <1>11 DEF New, Edit
  <2>2. PICK n : Goes(w, "save", <<>>, {}, None, n)
    BY <2>1 DEF Submits, Starts
  <2>3. req' = [req EXCEPT ![w] = Asks("form", None, None)]
    BY <2>1 DEF Submits, Starts
  <2> QED BY <1>1, <1>2, <2>2, <2>3 DEF Asks
<1>12. CASE \E t : Delete(w, t)
  <2>1. Ends(w, "page", None)
    BY <1>12, Zenon DEF Delete
  <2> QED BY <1>0, <1>2, <2>1 DEF Ends
<1> QED BY <1>0, <1>3, <1>4, <1>5, <1>6, <1>7, <1>8, <1>9, <1>10, <1>11, <1>12 DEF Request, Step

\* The rows of sources after a step, and which of them proxy_tms made.
LEMMA SourcesAfter ==
  ASSUME RegistryInv, NEW w \in Worker, Request(w) \/ Step(w), scenario' = scenario
  PROVE  \/ db'.sources \subseteq db.sources /\ made' = made
         \/ /\ pc[w] = "save" /\ row[w].table = "sources" /\ pc'[w] # "save"
            /\ \E new : /\ db'.sources = {r \in db.sources : r.id # new.id} \cup {new}
                        /\ new.url = row[w].new.url
                        /\ made' = IF req[w].op = "proxy_tms" /\ row[w].new.origin # None
                                     THEN made \cup {new.id} ELSE made \ {new.id}
<1>1. CASE db' = db /\ made' = made
  BY <1>1
<1>2. CASE \E t \in {"sources", "services"} : Delete(w, t)
  BY <1>2, DeleteTyped
<1>3. CASE Save(w)
  <2> DEFINE t == row[w].table
             new == IF row[w].new.id # None THEN row[w].new
                    ELSE [row[w].new EXCEPT !.id = FirstId + writes]
  <2>1. row[w] \in ToSave /\ pc \in [Worker -> PC] /\ pc[w] = "save"
        /\ db \in [Table -> SUBSET (Origin \cup Source \cup Service)]
    BY <1>3 DEF Save, RegistryInv, DbOK, GreenletsOK, LocalsOK, GreenletOK, RowOK
  <2>2. db' = [db EXCEPT ![t] = {r \in @ : r.id # new.id} \cup {new}]
    BY <1>3 DEF Save
  <2>3. t = "sources" => new.url = row[w].new.url /\ new.origin = row[w].new.origin
    BY <2>1 DEF ToSave, NewSourceRow, Sources
  <2>4. pc'[w] # "save"
    BY <1>3, <2>1 DEF Save, Ends, Goes
  <2>5. made' = IF t # "sources" THEN made
                ELSE IF req[w].op = "proxy_tms" /\ new.origin # None THEN made \cup {new.id}
                ELSE made \ {new.id}
    BY <1>3 DEF Save
  <2> HIDE DEF new
  <2>6. CASE t = "sources"
    <3>1. db'.sources = {r \in db.sources : r.id # new.id} \cup {new}
      BY <2>1, <2>2, <2>6 DEF Table
    <3> QED BY <2>1, <2>3, <2>4, <2>5, <2>6, <3>1
  <2>7. CASE t # "sources"
    BY <2>1, <2>2, <2>5, <2>7 DEF Table
  <2> QED BY <2>6, <2>7
<1> QED BY <1>1, <1>2, <1>3, OthersKeepDb

LEMMA StepFinite ==
  ASSUME RegistryInv, IsFiniteSet(db.sources), NEW w \in Worker, Request(w) \/ Step(w),
         scenario' = scenario
  PROVE  IsFiniteSet(db'.sources)
<1>1. CASE db'.sources \subseteq db.sources
  BY <1>1, FS_Subset
<1>2. ASSUME NEW new, db'.sources \subseteq db.sources \cup {new} PROVE IsFiniteSet(db'.sources)
  <2>1. IsFiniteSet(db.sources \cup {new})
    BY FS_AddElement
  <2> QED BY <1>2, <2>1, FS_Subset
<1> QED BY <1>1, <1>2, SourcesAfter

LEMMA StepBounded ==
  ASSUME RegistryInv, IsFiniteSet(db.sources), NEW u \in Url, Bounded(u),
         NEW w \in Worker, Request(w) \/ Step(w), scenario' = scenario
  PROVE  Bounded(u)'
<1>1. Creating(u)' \subseteq Creating(u) \cup {w}
  BY ComesToSave DEF Creating
<1>2. CASE w \in Creating(u)' /\ w \notin Creating(u)
  <2>1. Count(w) /\ pc'[w] = "save"
    BY <1>2, ComesToSave DEF Creating
  <2>2. row'[w] = row[w] /\ db' = db /\ ~\E s \in db.sources : s.url = row[w].new.url
    BY <2>1 DEF Count, Ends, Goes, RegistryInv, GreenletsOK, LocalsOK
  <2>3. row[w].new.url = u
    BY <1>2, <2>2 DEF Creating
  <2>4. Created(u)' = {}
    BY <2>2, <2>3 DEF Created
  <2> QED BY <2>4, FirstCreators
<1>3. CASE Creating(u)' \subseteq Creating(u)
  <2>1. CASE db'.sources \subseteq db.sources /\ made' = made
    BY <1>3, <2>1, StaysBounded DEF Created
  <2>2. CASE ~(db'.sources \subseteq db.sources /\ made' = made)
    <3>1. pc[w] = "save" /\ row[w].table = "sources" /\ pc'[w] # "save"
      BY <2>2, SourcesAfter
    <3>2. PICK new : /\ db'.sources = {r \in db.sources : r.id # new.id} \cup {new}
                     /\ new.url = row[w].new.url
                     /\ made' = IF req[w].op = "proxy_tms" /\ row[w].new.origin # None
                                  THEN made \cup {new.id} ELSE made \ {new.id}
      BY <2>2, SourcesAfter
    <3>3. Creating(u)' \subseteq Creating(u) \ {w}
      BY <1>3, <3>1 DEF Creating
    <3>4. CASE w \in Creating(u)
      <4>1. Created(u)' \subseteq Created(u) \cup {new}
        BY <3>2 DEF Created
      <4> QED BY <3>3, <3>4, <4>1, CreatorSaves
    <3>5. CASE w \notin Creating(u)
      <4>1. Created(u)' \subseteq Created(u)
        BY <3>1, <3>2, <3>5 DEF Created, Creating
      <4> QED BY <1>3, <4>1, StaysBounded
    <3> QED BY <3>4, <3>5
  <2> QED BY <2>1, <2>2
<1> QED BY <1>1, <1>2, <1>3

LEMMA StepDuplicates == RegistryInv /\ DuplicatesInv /\ [Next]_vars => DuplicatesInv'
<1> SUFFICES ASSUME RegistryInv, DuplicatesInv, [Next]_vars PROVE DuplicatesInv'
  OBVIOUS
<1>1. ASSUME scenario' = scenario, NEW w \in Worker, Request(w) \/ Step(w) PROVE DuplicatesInv'
  BY <1>1, StepFinite, StepBounded DEF DuplicatesInv
<1>2. CASE UNCHANGED <<db, made, pc, req, row>>
  <2>1. ASSUME NEW u \in Url PROVE Bounded(u)'
    BY <1>2, StaysBounded DEF DuplicatesInv, Created, Creating
  <2> QED BY <1>2, <2>1 DEF DuplicatesInv
<1> QED BY <1>1, <1>2 DEF Next, Expire, vars

LEMMA InitDuplicates == Init => DuplicatesInv
<1> SUFFICES ASSUME Init PROVE DuplicatesInv
  OBVIOUS
<1>1. scenario \in Scenarios /\ db = scenario.db /\ made = {} /\ \A w \in Worker : pc[w] = "idle"
  BY DEF Init
<1>2. IsFiniteSet(db.sources)
  BY <1>1, RegistryAssumption
<1>3. ASSUME NEW u \in Url PROVE Bounded(u)
  <2>1. Created(u) = {} /\ Creating(u) = {}
    BY <1>1 DEF Created, Creating
  <2>2. Cardinality(Worker) \in Nat
    BY <1>2, SetsAreFinite
  <2> QED BY <2>1, <2>2, FS_EmptySet DEF Bounded
<1> QED BY <1>2, <1>3 DEF DuplicatesInv

LEMMA InvBoundsDuplicates == RegistryInv /\ DuplicatesInv => BoundedDuplicates
<1> SUFFICES ASSUME RegistryInv, DuplicatesInv, NEW s \in db.sources, s.id \in made
             PROVE  Cardinality({t \in db.sources : t.id \in made /\ t.url = s.url})
                    <= Cardinality(Worker)
  BY DEF BoundedDuplicates
<1>1. s.url \in Url /\ IsFiniteSet(db.sources)
  BY DEF RegistryInv, DbOK, Source, Sources, DuplicatesInv
<1>2. Bounded(s.url)
  BY <1>1 DEF DuplicatesInv
<1>3. Cardinality(Created(s.url)) <= Cardinality(Worker)
  BY <1>1, <1>2, SetsAreFinite DEF Bounded
<1> QED BY <1>3 DEF Created

\* Requests that race may make a source each for one url, but no more than
\* that, whatever operators make, edit and delete beside them: neither the check
\* of proxy_tms, which another request or a form can make stale, nor the database
\* keeps it to one (proxy_tms, cache/views.py).
THEOREM RegistryBounded == Spec => []BoundedDuplicates
<1>1. Init => RegistryInv /\ DuplicatesInv
  BY InitTypes, InitDuplicates
<1>2. RegistryInv /\ DuplicatesInv /\ [Next]_vars => RegistryInv' /\ DuplicatesInv'
  BY StepTypes, StepDuplicates
<1> QED BY <1>1, <1>2, InvBoundsDuplicates, PTL DEF Spec
=============================================================================
