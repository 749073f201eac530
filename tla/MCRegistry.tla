------------------------------ MODULE MCRegistry ------------------------------
(***************************************************************************)
(* Instances of Registry for TLC.                                          *)
(***************************************************************************)
EXTENDS Registry, TLC

CONSTANTS w1, w2   \* greenlets

\* "a/s" stands for a url with "{slug}"; "b" is one without.
Urls == {"a/s", "a/1", "a/2", "b"}
Fill == [u \in Urls |-> [n \in {1, 2} |-> IF u # "a/s" THEN u ELSE IF n = 1 THEN "a/1" ELSE "a/2"]]

Origin1 == [id |-> 0, name |-> 1, multiple |-> TRUE, auto |-> TRUE, url |-> "a/s"]
Origin2 == [id |-> 1, name |-> 2, multiple |-> FALSE, auto |-> TRUE, url |-> "b"]
Source2 == [id |-> 0, name |-> 2, origin |-> 0, url |-> "a/2"]
Service1 == [id |-> 0, name |-> 1, source |-> 0]

\* An origin with one source per slug, another with one source; a source, a service.
InUse == [origins |-> {Origin1, Origin2}, sources |-> {Source2}, services |-> {Service1}]
Small == [origins |-> {Origin1}, sources |-> {Source2}, services |-> {Service1}]
\* An origin with a source per slug whose url has no place for the slug.
Plain == [origins |-> {[Origin1 EXCEPT !.url = "b"]}, sources |-> {Source2}, services |-> {}]

NoForms == [origins |-> {}, sources |-> {}, services |-> {}]
SourceForm(n, o, u) == [id |-> None, name |-> n, origin |-> o, url |-> u]

\* Creations that race beside an operator, who may make the same source by hand.
Creates == [db |-> Small, writes |-> 3,
            ops |-> w1 :> {"proxy_tms"} @@ w2 :> {"proxy_tms", "delete"}, forms |-> NoForms]
Mixed == [db |-> Small, writes |-> 2,
          ops |-> w1 :> {"proxy_tms"} @@ w2 :> {"proxy_tms", "sources"},
          forms |-> [NoForms EXCEPT !.sources = {SourceForm(1, 0, "a/1")}]]
OneUrl == [db |-> Plain, writes |-> 2,
           ops |-> w1 :> {"proxy_tms"} @@ w2 :> {"proxy_tms"}, forms |-> NoForms]
\* Two operators, one of whom also reads.
Operators == [db |-> Small, writes |-> 2,
              ops |-> w1 :> {"sources", "delete"} @@ w2 :> {"sources", "page"},
              forms |-> [NoForms EXCEPT !.sources = {SourceForm(n, o, "a/1") :
                                                       n \in {1, 2}, o \in {0, None}}]]
\* An operator and the users.
Users == [db |-> InUse, writes |-> 1,
          ops |-> w1 :> {"services", "origins"} @@ w2 :> {"tile_tms", "proxy"},
          forms |-> [NoForms EXCEPT
                       !.origins = [id: {None}, name: {1, 2}, multiple: {FALSE}, auto: BOOLEAN,
                                    url: {"b"}],
                       !.services = [id: {None}, name: {1, 2}, source: {0, None}]]]
\* One request at a time.
Proxy(start) == [db |-> start, writes |-> 1, ops |-> w1 :> {"proxy_tms"} @@ w2 :> {},
                 forms |-> NoForms]

All == {Creates, Mixed, OneUrl, Operators, Users}
OneProxy == {Proxy(InUse)}
=============================================================================
