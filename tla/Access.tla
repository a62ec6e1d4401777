------------------------------- MODULE Access -------------------------------
(***************************************************************************)
(* A request on its way to its handler: the routes and endpoint_configs    *)
(* made by build_router (src/server/router.rs), the look-up of an endpoint *)
(* by path and method (src/server/state.rs, src/server/prefix_match.rs),   *)
(* the authentication middleware (src/middleware/auth) and the body limit. *)
(*                                                                         *)
(* The middleware looks the endpoint up by the path of the URI, the        *)
(* handler does so again by the pattern of the route that matched. Both go *)
(* by the endpoints of the start-up; the providers are those of the        *)
(* configuration in force, which a reload may replace in between.          *)
(*                                                                         *)
(* A path is the sequence of its segments, with an empty one after a       *)
(* trailing slash. A segment of a pattern may be Param, or at its end Rest.*)
(***************************************************************************)
EXTENDS Naturals, FiniteSets, Sequences, SequencesExt

CONSTANTS
  Sites,      \* [endpoints, hierarchy, internal] at the start-up
  Asked,      \* the requests: [uri, method, says, large]
  Provisions, \* the configured providers a reload may leave
  Unset,      \* no endpoint
  Beginnings,     \* pairs of a segment and a shorter one with which it begins
  MaxReloads

VARIABLES
  site,       \* what the router was built from
  hashOrder,  \* the order in which the hash map yields the endpoints
  provided,   \* the providers of the configuration in force
  reloads,
  ask,        \* the request
  stage,      \* how far it is, or how it ended
  checked,    \* the endpoint the middleware looked up
  authConfig, \* the middleware's clone of config.auth
  served      \* the endpoint the handler looked up

accessVars == <<site, hashOrder, provided, reloads, ask, stage, checked, authConfig, served>>

\* Endpoints are listed, roles are finitely many, and to have none is not one.
ASSUME SitesAssumption ==
  \A s \in Sites :
    /\ Len(s.endpoints) \in Nat /\ DOMAIN s.endpoints = 1 .. Len(s.endpoints)
    /\ Unset \notin DOMAIN s.endpoints
    /\ IsFiniteSet(DOMAIN s.hierarchy) /\ "no_role" \notin DOMAIN s.hierarchy
    /\ \A i \in DOMAIN s.endpoints, a \in Asked : "no_role" \notin s.endpoints[i].roles[a.method]

----------------------------------------------------------------------------
(* build_router. *)

Param == "{id}"
Rest == "{*rest}"

Trimmed(path) ==
  IF path # <<>> /\ path[Len(path)] = "" THEN SubSeq(path, 1, Len(path) - 1) ELSE path

HasRest(path) == path # <<>> /\ path[Len(path)] = Rest

\* Static files take all that is below their path.
RoutePath(e) ==
  IF e.action = "static_files" /\ ~HasRest(e.path) THEN Append(Trimmed(e.path), Rest)
  ELSE e.path

\* The path of a catch-all without it, with and without a slash.
BarePaths(e) ==
  LET bare == SubSeq(RoutePath(e), 1, Len(RoutePath(e)) - 1)
  IN IF ~HasRest(RoutePath(e)) THEN {}
     ELSE IF bare = <<>> THEN {<<"">>} ELSE {bare, Append(bare, "")}

AnyMethod == "any"

\* The keys of an endpoint: its pattern with each method, and for static files
\* the bare paths without.
ConfigKeys(e) ==
  {<<RoutePath(e), m>> : m \in e.methods} \cup
  (IF e.action = "static_files" THEN {<<p, AnyMethod>> : p \in BarePaths(e)} ELSE {})

Endpoints == DOMAIN site.endpoints

\* endpoint_configs[key]: a later endpoint replaces an earlier one.
ConfigOf(key) ==
  LET with == {i \in Endpoints : key \in ConfigKeys(site.endpoints[i])}
  IN IF with = {} THEN Unset ELSE Max(with)

\* The routes of an endpoint; bare ones answer OPTIONS in any case.
RoutesOf(e) ==
  {<<RoutePath(e), m>> : m \in e.methods} \cup
  (IF e.action \in {"static_files", "spa_host"}
   THEN BarePaths(e) \X (e.methods \cup {"OPTIONS"}) ELSE {})

\* axum refuses a catch-all before the end of a path, and two routes for one
\* pattern and method.
ASSUME RoutesAssumption ==
  /\ \A s \in Sites :
       /\ \A i \in DOMAIN s.endpoints :
            LET e == s.endpoints[i]
            IN /\ e.path \in Seq(STRING) /\ AnyMethod \notin e.methods
               /\ \A k \in 1 .. Len(e.path) - 1 : e.path[k] # Rest
       /\ \A i, j \in DOMAIN s.endpoints :
            RoutesOf(s.endpoints[i]) \cap RoutesOf(s.endpoints[j]) # {} => i = j
  /\ \A a \in Asked : a.uri \in Seq(STRING) /\ a.method # AnyMethod

\* Which of the routes without an endpoint there are.
InternalRoutes ==
  {<<"_main-serve", "health">>, <<"_main-serve", "reload">>} \cup site.internal

----------------------------------------------------------------------------
(* axum. *)

SegmentMatches(s, p) == s = p \/ (s = Param /\ p # "")

RouteMatches(pattern, path) ==
  IF HasRest(pattern)
  THEN LET n == Len(pattern) - 1
       IN /\ Len(path) > n
          /\ Len(path) > n + 1 \/ path[n + 1] # ""
          /\ \A i \in 1 .. n : SegmentMatches(pattern[i], path[i])
  ELSE Len(pattern) = Len(path) /\ \A i \in DOMAIN path : SegmentMatches(pattern[i], path[i])

\* At the first segment where they differ a literal goes before a parameter
\* and a parameter before a catch-all.
GoesBefore(p, q) ==
  LET Rank(s) == IF s = Rest THEN 3 ELSE IF s = Param THEN 2 ELSE 1
      differ == {i \in DOMAIN p \cap DOMAIN q : p[i] # q[i]}
  IN differ # {} /\ Rank(p[Min(differ)]) < Rank(q[Min(differ)])

Patterns == {r[1] : r \in UNION {RoutesOf(site.endpoints[i]) : i \in Endpoints}}

\* The pattern of the route for a path, Unset if there is none.
MatchedPath(path) ==
  LET matching == {p \in Patterns : RouteMatches(p, path)}
      best == {p \in matching : \A q \in matching \ {p} : GoesBefore(p, q)}
  IN IF matching = {} THEN Unset ELSE CHOOSE p \in best : TRUE

\* The endpoint whose handler a route calls; a GET route answers HEAD too.
RoutedTo(pattern, method) ==
  LET Of(m) == {i \in Endpoints : <<pattern, m>> \in RoutesOf(site.endpoints[i])}
  IN IF Of(method) = {} /\ method = "HEAD" THEN Of("GET") ELSE Of(method)

----------------------------------------------------------------------------
(* get_endpoint_config_for_method. *)

\* A mutant of MethodCheck: the check of get_endpoint_config.
NoMethodCheck(i, method) == TRUE

MethodCheck(i, method) == method \in site.endpoints[i].methods

\* find_prefix_match: the path itself, then one segment less and so on; the
\* path "/" is not reached from others.
PrefixMatches(path, method) ==
  {n \in 1 .. Len(path) :
     LET i == ConfigOf(<<SubSeq(path, 1, n), AnyMethod>>)
     IN i # Unset /\ MethodCheck(i, method)}

IsPattern(path) == \E i \in DOMAIN path : path[i] \in {Param, Rest}

\* What comes before the first brace, without the slash.
PatternBase(path) == SubSeq(path, 1, Min({i \in DOMAIN path : path[i] \in {Param, Rest}}) - 1)

WildcardMatches(path, method) ==
  {i \in Endpoints :
     /\ \E m \in site.endpoints[i].methods : ConfigOf(<<RoutePath(site.endpoints[i]), m>>) = i
     /\ IsPattern(RoutePath(site.endpoints[i]))
     /\ IsPrefix(PatternBase(RoutePath(site.endpoints[i])), path)
     /\ MethodCheck(i, method)}

FirstOf(matches) == CHOOSE i \in matches : \A j \in matches : hashOrder[i] <= hashOrder[j]

GetEndpointConfigForMethod(path, method) ==
  LET exact == ConfigOf(<<path, method>>)
      prefixes == PrefixMatches(path, method)
      wildcards == WildcardMatches(path, method)
  IN IF exact # Unset THEN exact
     ELSE IF prefixes # {} THEN ConfigOf(<<SubSeq(path, 1, Max(prefixes)), AnyMethod>>)
     ELSE IF wildcards # {} THEN FirstOf(wildcards)
     ELSE Unset

----------------------------------------------------------------------------
(* authenticate and check_roles. What a request presents to a provider is a  *)
(* role, "no_role", "invalid" or "absent".                                   *)

ExtractCookie(says, config) == IF "cookie" \in config THEN says["cookie"] ELSE "absent"

ValidateToken(says, config) ==
  IF says["jwt"] # "absent" THEN says["jwt"] ELSE ExtractCookie(says, config)

Authenticate(type, config, says) ==
  IF type = "jwt" THEN ValidateToken(says, config) ELSE says[type]

ParentRoles(rs) ==
  UNION {IF r \in DOMAIN site.hierarchy THEN ToSet(site.hierarchy[r]) ELSE {} : r \in rs}

\* A mutant of Inherited: the parents of the parents are forgotten.
InheritedOnce(r) == ParentRoles({r})

\* compute_role_inheritance: what a role inherits, to the last ancestor.
Inherited(r) ==
  LET Level[n \in 0 .. Cardinality(DOMAIN site.hierarchy)] ==
        IF n = 0 THEN ParentRoles({r}) ELSE Level[n - 1] \cup ParentRoles(Level[n - 1])
  IN Level[Cardinality(DOMAIN site.hierarchy)]

CloneForMethod(e, method) == e.roles[method]

CheckRoles(role, required) ==
  \/ required = {}
  \/ role # "no_role" /\ (role \in required \/ Inherited(role) \cap required # {})

----------------------------------------------------------------------------
(* The request. *)

AccessInit ==
  /\ site \in Sites
  /\ hashOrder \in {f \in [Endpoints -> Endpoints] : \A i, j \in Endpoints : f[i] = f[j] => i = j}
  /\ provided = {"jwt", "api_key", "basic", "oauth2", "cookie"}
  /\ reloads = 0
  /\ ask \in Asked
  /\ stage = "auth"
  /\ checked = Unset /\ served = Unset
  /\ authConfig = {}

SkipRoutes == {<<"_main-serve", "health">>, <<"_main-serve", "reload">>,
               <<"_main-serve", "oauth2", "authorize">>, <<"_main-serve", "oauth2", "callback">>}

\* path.starts_with of one of them: the last segment need not end there.
Skips(path) ==
  \E s \in SkipRoutes :
    /\ Len(s) <= Len(path) /\ Front(s) = SubSeq(path, 1, Len(s) - 1)
    /\ path[Len(s)] = Last(s) \/ <<path[Len(s)], Last(s)>> \in Beginnings

Endpoint(i) == site.endpoints[i]

\* auth_middleware up to the look-up.
AuthLookup ==
  /\ stage = "auth"
  /\ IF Skips(ask.uri)
     THEN stage' = "body" /\ UNCHANGED checked
     ELSE /\ checked' = GetEndpointConfigForMethod(ask.uri, ask.method)
          /\ stage' = IF checked' = Unset THEN "body"
                      ELSE IF Endpoint(checked').auth = "none" THEN "body" ELSE "config"
  /\ UNCHANGED <<site, hashOrder, provided, reloads, ask, authConfig, served>>

\* state.config.read().await.auth.clone().
CloneAuthConfig ==
  /\ stage = "config"
  /\ authConfig' = provided
  /\ stage' = "authenticate"
  /\ UNCHANGED <<site, hashOrder, provided, reloads, ask, checked, served>>

CheckCredentials ==
  /\ stage = "authenticate"
  /\ LET e == Endpoint(checked)
         role == Authenticate(e.auth, authConfig, ask.says)
     IN stage' = CASE e.auth \notin authConfig -> "configuration_error"
                   [] e.auth \in authConfig /\ role \in {"absent", "invalid"} -> "unauthorized"
                   [] OTHER -> IF CheckRoles(role, CloneForMethod(e, ask.method))
                               THEN "body" ELSE "forbidden"
  /\ UNCHANGED <<site, hashOrder, provided, reloads, ask, checked, authConfig, served>>

\* body_limit_middleware.
BodyLimit ==
  /\ stage = "body"
  /\ stage' = IF ask.large THEN "too_large" ELSE "handler"
  /\ UNCHANGED <<site, hashOrder, provided, reloads, ask, checked, authConfig, served>>

\* The route, and the look-up of its handler.
Dispatch ==
  /\ stage = "handler"
  /\ LET pattern == MatchedPath(ask.uri)
     IN IF ask.uri \in InternalRoutes THEN stage' = "internal" /\ UNCHANGED served
        ELSE IF pattern = Unset THEN stage' = "not_found" /\ UNCHANGED served
        ELSE IF RoutedTo(pattern, ask.method) = {}
             THEN stage' = "not_allowed" /\ UNCHANGED served
        ELSE /\ served' = GetEndpointConfigForMethod(pattern, ask.method)
             /\ stage' = IF served' = Unset THEN "not_found" ELSE "served"
  /\ UNCHANGED <<site, hashOrder, provided, reloads, ask, checked, authConfig>>

\* A reload replaces the providers, and neither routes nor endpoint_configs
\* nor role_inheritance.
ReplaceProviders ==
  /\ reloads < MaxReloads
  /\ reloads' = reloads + 1
  /\ provided' \in Provisions
  /\ UNCHANGED <<site, hashOrder, ask, stage, checked, authConfig, served>>

AccessNext ==
  \/ AuthLookup \/ CloneAuthConfig \/ CheckCredentials \/ BodyLimit \/ Dispatch
  \/ ReplaceProviders

AccessSpec == AccessInit /\ [][AccessNext]_accessVars

----------------------------------------------------------------------------
(* Properties. *)

\* No two patterns with a parameter or a catch-all such that one's base is at
\* or below the other's.
Apart ==
  \A i, j \in Endpoints :
    LET p == RoutePath(Endpoint(i))
        q == RoutePath(Endpoint(j))
    IN p # q /\ IsPattern(p) /\ IsPattern(q) => ~IsPrefix(PatternBase(p), PatternBase(q))

\* The endpoint a handler serves is the one whose provider and roles the
\* middleware went by, and one whose route it is if the route's endpoint lists
\* the method; in whatever order the hash map yields the endpoints, though the
\* two look-ups use different paths. It takes patterns that are apart: where one's
\* base is below another's, the order of the hash map decides which is checked.
\* A path that begins as one of SkipRoutes does (/_main-serve/health, but also
\* /_main-serve/healthy at a catch-all with a provider) is not checked at all. A
\* method that is not listed (HEAD at a GET route, OPTIONS at a bare path) may be
\* looked up in the endpoint of a pattern around the route.
ServedAsChecked ==
  LET routed == RoutedTo(MatchedPath(ask.uri), ask.method)
  IN stage = "served" /\ Apart /\ ~Skips(ask.uri) =>
       /\ checked = served
       /\ (\E i \in routed : ask.method \in Endpoint(i).methods) => served \in routed

\* One role leads to another: it is that role, or that role is in whatever
\* has the parents of the one and with a role its parents.
Reaches(r, q) ==
  LET all == UNION {ToSet(site.hierarchy[s]) : s \in DOMAIN site.hierarchy}
  IN r = q \/ \A S \in SUBSET all : ParentRoles({r}) \cup ParentRoles(S) \subseteq S => q \in S

\* A request gets past the middleware of an endpoint with a provider exactly
\* when it presents what that provider accepts, with a role from which one of
\* the required roles is reached by any number of parents; whatever reload
\* comes in between, and never by a provider that the configuration it was
\* checked against does not have.
AdmittedByRole ==
  LET e == Endpoint(checked)
      role == Authenticate(e.auth, {"cookie"}, ask.says)
      entitled == \/ e.roles[ask.method] = {}
                  \/ \E q \in e.roles[ask.method] : Reaches(role, q)
  IN checked # Unset /\ Endpoint(checked).auth # "none" =>
     /\ stage \in {"body", "too_large", "handler", "served", "internal", "not_found", "not_allowed"} =>
          /\ e.auth \in authConfig
          /\ role \notin {"absent", "invalid"}
          /\ entitled
     /\ stage = "forbidden" => ~entitled
=============================================================================
