------------------------------ MODULE MCServer ------------------------------
(***************************************************************************)
(* The server around its stores: the configuration, the migration, the way *)
(* of a request to its handler, and the CRUD handlers. No two of the       *)
(* modules share a variable: a behaviour is one of one part, with the      *)
(* others at rest in a first state of theirs.                              *)
(***************************************************************************)
EXTENDS Migration, Configuration, Access, Queries

CONSTANTS m1, m2, c1, c2

VARIABLE part

----------------------------------------------------------------------------
(* Migration: every way in which three tables may refer to one another, on *)
(* empty databases; two tables with one name; and three tables to alter.   *)

Declared(n, d, cols, refers) ==
  [name |-> n, database |-> d, columns |-> cols, references |-> refers]

Schema(driver, destructive, auto, tables, media) ==
  [driver |-> driver, destructive |-> destructive, auto |-> auto,
   tables |-> tables, media |-> media]

BothOn == [d \in {"main", "other"} |-> TRUE]
MainOff == [d \in {"main", "other"} |-> d = "other"]

ReferenceLists ==
  {<<>>, <<"a">>, <<"b">>, <<"c">>, <<"a", "a">>, <<"a", "b">>, <<"b", "c">>, <<"a", "c">>}

ReferenceGraphs ==
  {Schema("postgres", FALSE, BothOn,
            <<Declared("a", "main", <<"id">>, f), Declared("b", "main", <<"id">>, g),
              Declared("c", "main", <<"id">>, h)>>, <<>>) :
     f \in ReferenceLists, g \in ReferenceLists, h \in ReferenceLists}

SharedName ==
  {Schema("sqlite", FALSE, BothOn,
            <<Declared("a", "main", <<"id">>, <<>>), Declared("a", "other", <<"id">>, <<>>)>>, <<>>)}

Alterations ==
  {Schema(driver, destructive, auto,
            <<Declared("a", "main", <<"id", "plain">>, <<"b">>),
              Declared("b", "main", <<"id", "strict", "plain">>, <<>>),
              Declared("c", "other", cols, <<>>)>>, <<<<"other", "c">>>>) :
     driver \in {"sqlite", "mysql"}, destructive \in BOOLEAN,
     <<auto, cols>> \in {<<BothOn, <<"id">>>>, <<MainOff, <<"id", "file_path">>>>}}

SharedIndexName ==
  {Schema("sqlite", destructive, BothOn,
            <<Declared("a_b", "main", <<"id", "c">>, <<>>), Declared("a", "main", <<"id", "b_c">>, <<>>)>>,
            <<>>) : destructive \in BOOLEAN}
MCClashes == {<<<<"a_b", "c">>, <<"a", "b_c">>>>, <<<<"a", "b_c">>, <<"a_b", "c">>>>}

MCConfigurations == ReferenceGraphs \cup SharedName \cup Alterations \cup SharedIndexName
MCExisting == {{}, {"id", "old", "file_path"}, {"id", "unique"}}

\* An earlier configuration had "old" indexed or not.
MigrationStart ==
  /\ conf \in MCConfigurations
  /\ schema \in [{Place(conf.tables[i]) : i \in DOMAIN conf.tables} -> MCExisting]
  /\ conf \in ReferenceGraphs => \A t \in DOMAIN schema : schema[t] = {}
  /\ \A t \in DOMAIN schema : schema[t] = {"id", "unique"} => conf.destructive /\ t[2] = "a"
  /\ indexes \in {{}, {<<t, "old">> : t \in {t \in DOMAIN schema : "old" \in schema[t]}}}
  /\ indexes # {} => conf.destructive
  /\ MigrationInit

----------------------------------------------------------------------------
(* Configuration: the endpoints, providers, stores, tables and so on that  *)
(* the validators tell apart, one kind at a time; small role hierarchies;  *)
(* and three files that include one another.                               *)

Col(n, pk) == [name |-> n, primary_key |-> pk, json |-> FALSE, schemas |-> {}]
CorsOf(o, credentials) == [allowed_origins |-> o, allow_credentials |-> credentials]
JwtConfig == [secret |-> "s", revocation |-> "database", db_table |-> "t", cleanup_interval_secs |-> 60]
OAuthConfig == [authorization_url |-> "u", complete |-> TRUE]
RegisterConfig == [table |-> "users", database |-> "main", default_role |-> "user"]
SectionConfig ==
  [table |-> "a", database |-> "main", storage |-> "disk", page_size |-> 20,
   max_page_size |-> 100, safe_fragments |-> TRUE, upstream |-> "up", status |-> 200]
EndpointConfig ==
  [path |-> <<"x">>, methods |-> {"GET"}, action |-> "crud", section |-> SectionConfig,
   auth |-> "none", cors |-> Nobody]
TableConfigs ==
  <<[name |-> "a", database |-> "main", columns |-> <<Col("id", TRUE), Col("n", FALSE)>>,
     foreign_keys |-> <<[column |-> "n", references_table |-> "b"]>>],
    [name |-> "b", database |-> "main", columns |-> <<Col("id", TRUE)>>, foreign_keys |-> <<>>]>>
Good ==
  [server |-> [host |-> "h", tls |-> Nobody, shutdown_timeout |-> 30],
   databases |-> [d \in {"main", "other"} |-> [url |-> "u", min_connections |-> 1, max_connections |-> 10]],
   stores |-> [s \in {"disk"} |-> [backend |-> "native", sections |-> [n \in {"root"} |-> TRUE]]],
   tables |-> TableConfigs, endpoints |-> <<EndpointConfig>>,
   auth |-> [jwt |-> JwtConfig, api_key |-> [keys |-> {"k"}], basic |-> "b",
             oauth2 |-> OAuthConfig, register |-> RegisterConfig],
   cors |-> CorsOf({"*"}, FALSE), hierarchy |-> <<>>]

SectionsOf(action) ==
  IF action \in {"static_files", "spa_host"}
  THEN {Nobody} \cup {[SectionConfig EXCEPT !.storage = s] : s \in {"", "disk", "tape", "default"}}
  ELSE {Nobody}
       \cup {[SectionConfig EXCEPT !.table = t, !.database = d, !.storage = s] :
               t \in {"", "a", "zz"}, d \in {"", "main", "other", "none"},
               s \in {"", "disk", "tape", "default"}}
       \cup {[SectionConfig EXCEPT !.page_size = n] : n \in {0, 101}}
       \cup {[SectionConfig EXCEPT !.max_page_size = n] : n \in {19, 101}}
       \cup {[SectionConfig EXCEPT !.status = n] : n \in {99, 600}}
       \cup {[SectionConfig EXCEPT !.safe_fragments = FALSE], [SectionConfig EXCEPT !.upstream = ""]}

EndpointContents ==
  UNION {{[Good EXCEPT !.endpoints = <<[EndpointConfig EXCEPT !.action = action, !.section = s]>>,
                       !.stores = stores] : s \in SectionsOf(action), stores \in {Good.stores, <<>>}} :
         action \in {"crud", "proxy", "static_files", "spa_host", "media", "file_store", "custom_response"}}

AuthContents ==
  {[Good EXCEPT !.endpoints = <<[EndpointConfig EXCEPT !.auth = p]>>,
                !.auth.jwt = j, !.auth.api_key = k, !.auth.basic = b, !.auth.oauth2 = o] :
     p \in {"none", "jwt", "api_key", "basic", "oauth2", "saml"},
     j \in {Nobody, JwtConfig, [JwtConfig EXCEPT !.secret = ""], [JwtConfig EXCEPT !.db_table = ""],
            [JwtConfig EXCEPT !.cleanup_interval_secs = 0, !.revocation = "in_memory"]},
     k \in {Nobody, [keys |-> {}], [keys |-> {"k"}]},
     b \in {Nobody, "b"},
     o \in {Nobody, OAuthConfig, [OAuthConfig EXCEPT !.complete = FALSE],
            [OAuthConfig EXCEPT !.authorization_url = ""]}}

StoreContents ==
  {[Good EXCEPT !.stores.disk = [backend |-> b, sections |-> [n \in sections |-> whole]]] :
     b \in {"native", "memory", "s3", "azure", "gcs"},
     sections \in SUBSET {"root", "s3", "azure", "gcs"}, whole \in BOOLEAN}

TableContents ==
  {[Good EXCEPT !.tables[1].foreign_keys[1].references_table = r, !.tables[2].database = d,
                !.tables[2].name = n, !.tables[2].columns = cols, !.databases = databases] :
     r \in {"a", "b", "c"}, d \in {"main", "other"}, n \in {"a", "b"},
     cols \in {<<>>, <<Col("id", FALSE)>>, <<Col("id", TRUE)>>, <<Col("id", TRUE), Col("id", FALSE)>>,
               <<[Col("id", TRUE) EXCEPT !.schemas = {"validation"}]>>,
               <<[Col("id", TRUE) EXCEPT !.schemas = {"validation", "validation_schema"}, !.json = TRUE]>>},
     databases \in {Good.databases, [Good.databases EXCEPT !["other"].max_connections = 0],
                    [x \in {"main"} |-> Good.databases["main"]]}}

OtherContents ==
  {[Good EXCEPT !.server.host = h, !.server.tls = t, !.server.shutdown_timeout = n, !.cors = co,
                !.auth.register = r] :
     h \in {"", "h"}, t \in {Nobody, [cert |-> "c", key |-> ""]}, n \in {0, 1},
     co \in {CorsOf({"*"}, TRUE), CorsOf({"o"}, TRUE)},
     r \in {Nobody, RegisterConfig, [RegisterConfig EXCEPT !.table = ""]}}

Hierarchies ==
  UNION {[roles -> {<<>>, <<"p">>, <<"q">>, <<"s">>, <<"p", "q">>, <<"q", "s">>, <<"s", "p">>, <<"x">>}] :
         roles \in {{"p", "q", "s"}, {"p", "q"}}}

OneFile == [f \in {"main"} |-> [readable |-> TRUE, yields |-> "mapping", includes |-> <<>>]]

Directive(where, files) == [in |-> where, files |-> files]

IncludeLists ==
  {<<>>} \cup {<<Directive("sequence", fs)>> :
                 fs \in {<<>>, <<"a">>, <<"b">>, <<"c">>, <<"a", "b">>, <<"b", "c">>}}
         \cup {<<Directive("mapping", fs)>> : fs \in {<<"a", "b">>, <<"b", "c">>, <<"c">>}}
         \cup {<<Directive("sequence", <<"b">>), Directive("mapping", <<"c">>)>>}

FileSets ==
  {[f \in {"a", "b", "c"} |-> [readable |-> f # bad,
                               yields |-> IF f = odd THEN "sequence" ELSE "mapping",
                               includes |-> lists[f]]] :
     lists \in [{"a", "b", "c"} -> IncludeLists], bad \in {"none", "c"}, odd \in {"none", "c"}}

AtRest == [root |-> "main", files |-> OneFile, content |-> Good]

MCInputs ==
  {[AtRest EXCEPT !.content = c] :
     c \in EndpointContents \cup AuthContents \cup StoreContents \cup TableContents \cup OtherContents}
  \cup {[AtRest EXCEPT !.content.hierarchy = h] : h \in Hierarchies}
  \cup {[root |-> "a", files |-> fs, content |-> Good] : fs \in FileSets}

----------------------------------------------------------------------------
(* Access: any three endpoints of eight, with plain, parameter and         *)
(* catch-all paths, a plain one beside one that takes all other paths, and *)
(* two endpoints under every small hierarchy.                              *)

Methods == {"GET", "HEAD", "DELETE", "OPTIONS"}
Placed(path, action, methods, auth, roles) ==
  [path |-> path, action |-> action, methods |-> methods, auth |-> auth,
   roles |-> [m \in Methods |-> roles]]

Placements ==
  <<Placed(<<"a">>, "crud", {"GET", "DELETE"}, "basic", {"q"}),
    Placed(<<"a", Param>>, "crud", {"GET"}, "none", {}),
    Placed(<<"a", Param>>, "crud", {"DELETE"}, "jwt", {"s"}),
    Placed(<<"a", Param, "b">>, "crud", {"GET"}, "api_key", {}),
    Placed(<<"f">>, "static_files", {"GET"}, "oauth2", {"q", "s"}),
    Placed(<<"f", "g", Param>>, "media", {"GET"}, "jwt", {}),
    Placed(<<"w", Rest>>, "spa_host", {"GET", "HEAD"}, "jwt", {"p"}),
    Placed(<<Rest>>, "spa_host", {"GET"}, "jwt", {})>>

ChainOfRoles == [r \in {"p", "q", "t"} |-> IF r = "p" THEN <<"q", "t">> ELSE IF r = "q" THEN <<"s">> ELSE <<>>]

MixedSites ==
  {[endpoints |-> <<Placements[i], Placements[j], Placements[k]>>, hierarchy |-> ChainOfRoles, internal |-> {}] :
     <<i, j, k>> \in {n \in (1 .. 8) \X (1 .. 8) \X (1 .. 8) : n[1] < n[2] /\ n[2] < n[3]}}
  \cup {[endpoints |-> <<Placements[1], Placements[8]>>, hierarchy |-> ChainOfRoles, internal |-> {}]}

RoleSites ==
  {[endpoints |-> <<Placements[1], Placements[3]>>, hierarchy |-> h, internal |-> {<<"_main-serve", "login">>}] :
     h \in [{"p", "q", "t"} -> {<<>>, <<"q">>, <<"s">>, <<"t", "q">>}]}

MCSites == MixedSites \cup RoleSites

Silent == [k \in {"jwt", "cookie", "api_key", "basic", "oauth2"} |-> "absent"]
Uris ==
  {<<"a">>, <<"a", "b">>, <<"a", "">>, <<"a", "c", "b">>, <<"f">>, <<"f", "">>, <<"f", "g", "h">>,
   <<"w">>, <<"w", "x", "y">>, <<"">>, <<"z">>, <<"_main-serve", "health">>, <<"_main-serve", "login">>,
   <<"_main-serve", "healthy">>, <<"_main-serve", "healthy", "x">>, <<"_main-serve", "heal">>}

Asking(uris, methods, says, large) ==
  {[uri |-> u, method |-> m, says |-> s, large |-> l] :
     u \in uris, m \in methods, s \in says, l \in large}

MixedAsked ==
  Asking(Uris, {"GET", "DELETE"}, {[Silent EXCEPT !["jwt"] = "p", !["basic"] = "q", !["api_key"] = "no_role"]}, {FALSE})
  \cup Asking(Uris, {"GET", "HEAD"}, {[Silent EXCEPT !["jwt"] = "invalid", !["oauth2"] = "s", !["cookie"] = "p"]}, {FALSE})
  \cup Asking(Uris, {"GET"}, {Silent}, {FALSE})

RoleAsked ==
  Asking({<<"a">>, <<"a", "c">>, <<"_main-serve", "login">>}, {"DELETE"},
         {[Silent EXCEPT ![k] = r] : k \in {"jwt", "cookie", "basic"},
                                     r \in {"p", "q", "s", "t", "no_role", "invalid"}}, {FALSE})
  \cup Asking({<<"a">>, <<"a", "c">>}, {"DELETE"}, {Silent, [Silent EXCEPT !["jwt"] = "p"]}, {TRUE})

MCAsked == MixedAsked \cup RoleAsked
MCBeginnings == {<<"healthy", "health">>}

AccessStart ==
  /\ \/ site \in MixedSites /\ ask \in MixedAsked
     \/ site \in RoleSites /\ ask \in RoleAsked
  /\ AccessInit

----------------------------------------------------------------------------
(* Queries: one caller lists, or gets at single rows, while the other      *)
(* creates or deletes a row. Filters come in either order; joins find      *)
(* several partners, one or none.                                          *)

Term(col, from, v) == [col |-> col, from |-> from, value |-> v]
Own == <<Term("owner", "user", Null)>>
OwnOrOpen == <<Term("owner", "user", Null), Term("state", "literal", 1)>>
OpenOrOwn == <<Term("state", "literal", 1), Term("owner", "default", 2)>>

Offer ==
  [driver |-> "sqlite", pk |-> "int", where |-> <<>>, updateWhere |-> <<>>, deleteWhere |-> <<>>,
   insertOwner |-> TRUE, writable |-> {"*"}, filterable |-> {"owner", "state"},
   sorting |-> TRUE, sortable |-> {"id", "state"}, sortField |-> "id",
   pagination |-> TRUE, pageSize |-> 2, maxPageSize |-> 2,
   descending |-> FALSE, serial |-> TRUE, json |-> {}, join |-> "none", joined |-> <<>>, schema |-> {1, 2, Me}]

Drivers == {"sqlite", "mysql", "postgres"}

\* Two for a row in the state 1, and one that is no row's.
Partners == [x |-> 1, y |-> 1, z |-> 9]

ListOffers ==
  {[Offer EXCEPT !.driver = d, !.where = w, !.json = {"state"}] : d \in Drivers, w \in {<<>>, OwnOrOpen, OpenOrOwn}}
  \cup {[Offer EXCEPT !.driver = d, !.join = j, !.joined = Partners, !.sortField = "state",
                      !.descending = TRUE] : d \in {"sqlite", "postgres"}, j \in {"inner", "left", "right"}}
  \cup {[Offer EXCEPT !.where = OpenOrOwn, !.join = "left", !.joined = Partners, !.sortField = Null,
                      !.pagination = p, !.sorting = s] : p \in BOOLEAN, s \in BOOLEAN}

RowOffers ==
  {[Offer EXCEPT !.driver = d, !.where = w, !.updateWhere = w, !.deleteWhere = w,
                 !.writable = {"state"}] : d \in Drivers, w \in {<<>>, Own, OwnOrOpen, OpenOrOwn}}
  \cup {[Offer EXCEPT !.driver = d, !.pk = "text", !.updateWhere = w, !.deleteWhere = w, !.insertOwner = FALSE] :
           d \in Drivers, w \in {<<>>, Own}}
  \cup {[Offer EXCEPT !.driver = d, !.serial = b] : d \in Drivers, b \in BOOLEAN}

MCOffers == ListOffers \cup RowOffers

FilterOn(col, op, vs) == [col |-> col, op |-> op, values |-> vs]
ByOwner == FilterOn("owner", "eq", <<2>>)
FilterLists ==
  {<<>>, <<FilterOn("state", "eq", <<1>>)>>, <<FilterOn("state", "not_in", <<1, Null>>)>>, <<FilterOn("id", "eq", <<1>>)>>}
  \cup UNION {{<<f, ByOwner>>, <<ByOwner, f>>} :
                f \in {FilterOn("state", "in", <<1, 2>>), FilterOn("state", "contains", <<1>>),
                       FilterOn("state", "exists", <<>>), FilterOn("state", "ne", <<1>>)}}

ListOf == [verb |-> "list", by |-> 2, filters |-> <<>>, page |-> Null, size |-> Null,
           sort |-> Null, order |-> Null]
Listing ==
  {[ListOf EXCEPT !.by = b, !.filters = fs] : b \in {1, Null}, fs \in FilterLists}
  \cup {[ListOf EXCEPT !.page = p, !.size = n] : p \in {0, 2, 17, 33}, n \in {0, 1, 9}}
  \cup {[ListOf EXCEPT !.sort = col, !.order = o] : col \in {"id", "state", "owner"}, o \in {"asc", "desc"}}

Creating(b, body) == [verb |-> "create", by |-> b, body |-> body]
Deleting(b, k) == [verb |-> "delete", by |-> b, pk |-> k]
Bodies ==
  {Null, [state |-> 1], [owner |-> 1, state |-> 2], [id |-> 2, state |-> 1],
   [id |-> 4, owner |-> 2, state |-> Me], [state |-> 3], [owner |-> Me]}

OneRow ==
  {[verb |-> "get_one", by |-> b, pk |-> k] : b \in {1, Null}, k \in {1, 2, Junk}}
  \cup {Deleting(b, k) : b \in {1, Null}, k \in {1, 2, Junk}}
  \cup {[verb |-> "update", by |-> b, pk |-> k, body |-> body] :
           b \in {1, Null}, k \in {1, Junk}, body \in Bodies}
  \cup {Creating(b, body) : b \in {1, Null}, body \in Bodies}

MCQueried ==
  [s \in MCOffers |-> [c \in {c1, c2} |->
     IF c = c2 THEN {Creating(2, [state |-> 1]), Deleting(1, 1)}
     ELSE IF s \in ListOffers THEN Listing ELSE OneRow]]

RowOf(k, o, s) == [id |-> k, owner |-> o, state |-> s]
MCRows ==
  {<<RowOf(1, 2, 1), RowOf(2, 1, 2), RowOf(3, 2, Null)>>, <<RowOf(1, 1, 2), RowOf(2, 2, 1)>>}

----------------------------------------------------------------------------
(* The parts together. *)

MigrationAtRest ==
  /\ conf = Schema("sqlite", FALSE, BothOn, <<Declared("a", "main", <<"id">>, <<>>)>>, <<>>)
  /\ schema = [t \in {<<"main", "a">>} |-> {}] /\ first = schema
  /\ indexes = {} /\ data = {}
  /\ migrators = [m \in Migrators |-> NotStarted] /\ starts = 0

ConfigurationAtRest ==
  /\ input = AtRest /\ todo = <<>> /\ visited = {} /\ loading = "files"
  /\ problems = {} /\ roleMark = <<>> /\ frames = <<>>

AccessAtRest ==
  /\ site = [endpoints |-> <<Placements[1]>>, hierarchy |-> <<>>, internal |-> {}]
  /\ hashOrder = <<1>> /\ provided = {} /\ reloads = 0
  /\ ask = CHOOSE a \in RoleAsked : TRUE
  /\ stage = "auth" /\ checked = Unset /\ served = Unset /\ authConfig = {}

QueriesAtRest == setting = Offer /\ table = <<RowOf(1, 1, 2), RowOf(2, 2, 1)>> /\ QueryInit

MCInit ==
  \/ /\ part = "migration" /\ ConfigurationAtRest /\ AccessAtRest /\ QueriesAtRest
     /\ MigrationStart
  \/ /\ part = "configuration" /\ MigrationAtRest /\ AccessAtRest /\ QueriesAtRest
     /\ ConfInit
  \/ /\ part = "access" /\ MigrationAtRest /\ ConfigurationAtRest /\ QueriesAtRest
     /\ AccessStart
  \/ /\ part = "queries" /\ MigrationAtRest /\ ConfigurationAtRest /\ AccessAtRest
     /\ QueryInit

MCNext ==
  \/ /\ part = "migration" /\ MigrationNext
     /\ UNCHANGED <<part, confVars, accessVars, queryVars>>
  \/ /\ part = "configuration" /\ ConfNext
     /\ UNCHANGED <<part, migrationVars, accessVars, queryVars>>
  \/ /\ part = "access" /\ AccessNext
     /\ UNCHANGED <<part, migrationVars, confVars, queryVars>>
  \/ /\ part = "queries" /\ QueryNext
     /\ UNCHANGED <<part, migrationVars, confVars, accessVars>>

MCSpec == MCInit /\ [][MCNext]_<<part, migrationVars, confVars, accessVars, queryVars>>
=============================================================================
