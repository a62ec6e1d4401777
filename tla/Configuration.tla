--------------------------- MODULE Configuration ----------------------------
(***************************************************************************)
(* Loading and validation of the configuration: $include directives        *)
(* (src/config/loader.rs), the validators (src/config/validation) and what *)
(* the server later looks up in a configuration they accept.               *)
(*                                                                         *)
(* An input is a set of files, each with its $include directives in the    *)
(* order of the tree, and the content they make up. A directive is         *)
(* [in, files]: where it stands and the files its pattern matches, sorted. *)
(* load_yaml_with_includes recurses; todo is what its frames still have to *)
(* do. The search for cycles in the role hierarchy recurses as well, and   *)
(* its frames are <<role, parents not yet looked at>>.                     *)
(***************************************************************************)
EXTENDS Naturals, FiniteSets, Sequences, SequencesExt

CONSTANTS
  Inputs, \* [files, root, content] considered
  Nobody  \* no provider, no section

VARIABLES
  input,    \* what is on disk
  todo,     \* the files to load and the shapes to check, first to last
  visited,  \* the set visited
  loading,  \* "files", "hierarchy" or how it ended
  problems, \* errors of the validators
  roleMark, \* state of the search: role |-> 0, 1 or 2
  frames    \* the calls of dfs_detect_cycle, innermost first

confVars == <<input, todo, visited, loading, problems, roleMark, frames>>

ASSUME RolesAssumption ==
  \A i \in Inputs :
    /\ DOMAIN i.content.hierarchy \subseteq STRING
    /\ \A r \in DOMAIN i.content.hierarchy : i.content.hierarchy[r] \in Seq(STRING)

\* The root is on disk, and so is what a pattern matches.
ASSUME FilesAssumption ==
  \A i \in Inputs :
    /\ i.root \in DOMAIN i.files
    /\ \A f \in DOMAIN i.files :
         i.files[f].includes \in Seq([in : {"mapping", "sequence"}, files : Seq(DOMAIN i.files)])

----------------------------------------------------------------------------
(* $include. *)

Todo(what, f) == [what |-> what, file |-> f]

\* The work of one directive: its files one after the other, in a mapping with
\* a look at what each of several yields. A pattern without a match is an error.
DirectiveWork(d) ==
  IF d.files = <<>> THEN <<Todo("no_match", Nobody)>>
  ELSE IF d.in = "mapping" /\ Len(d.files) > 1
       THEN FlattenSeq([i \in DOMAIN d.files |->
              <<Todo("load", d.files[i]), Todo("shape", d.files[i])>>])
       ELSE [i \in DOMAIN d.files |-> Todo("load", d.files[i])]

FileWork(f) ==
  LET ds == input.files[f].includes
  IN FlattenSeq([i \in DOMAIN ds |-> DirectiveWork(ds[i])])

ConfInit ==
  /\ input \in Inputs
  /\ todo = <<Todo("load", input.root)>>
  /\ visited = {}
  /\ loading = "files"
  /\ problems = {}
  /\ roleMark = [r \in DOMAIN input.content.hierarchy |-> 0]
  /\ frames = <<>>

\* A mutant of AlreadyIncluded: only the file that is being read counts.
IncludesItself(f) == f = input.root /\ f \in visited

AlreadyIncluded(f) == f \in visited

LoadFile ==
  /\ loading = "files" /\ todo # <<>>
  /\ Head(todo).what = "load"
  /\ LET f == Head(todo).file
     IN \/ /\ AlreadyIncluded(f)
           /\ loading' = "circular"
           /\ UNCHANGED <<todo, visited>>
        \/ /\ ~AlreadyIncluded(f)
           /\ visited' = visited \cup {f}
           /\ IF input.files[f].readable
              THEN todo' = FileWork(f) \o Tail(todo) /\ UNCHANGED loading
              ELSE loading' = "unreadable" /\ UNCHANGED todo
  /\ UNCHANGED <<input, problems, roleMark, frames>>

CheckShape ==
  /\ loading = "files" /\ todo # <<>>
  /\ \/ /\ Head(todo).what = "shape"
        /\ input.files[Head(todo).file].yields = "mapping"
        /\ todo' = Tail(todo)
        /\ UNCHANGED loading
     \/ /\ \/ Head(todo).what = "no_match"
           \/ Head(todo).what = "shape" /\ input.files[Head(todo).file].yields # "mapping"
        /\ loading' = Head(todo).what
        /\ UNCHANGED todo
  /\ UNCHANGED <<input, visited, problems, roleMark, frames>>

----------------------------------------------------------------------------
(* The validators. A value is a name, and "" an empty string; a section that *)
(* is not there is Nobody.                                                   *)

MaxPageSize == 100

ServerProblems(c) ==
  {<<"server", f>> : f \in {p \in {"host", "tls", "shutdown_timeout"} :
     CASE p = "host" -> c.server.host = ""
       [] p = "tls" -> c.server.tls # Nobody /\ "" \in {c.server.tls.cert, c.server.tls.key}
       [] p = "shutdown_timeout" -> c.server.shutdown_timeout < 1}}

DatabaseProblems(c) ==
  {<<"database", d>> : d \in {e \in DOMAIN c.databases :
     LET db == c.databases[e]
     IN db.url = "" \/ db.max_connections = 0 \/ db.min_connections > db.max_connections}}

\* The sections of a store are those that are set; each with all its fields or
\* not.
StoreProblems(c) ==
  LET Bad(s) ==
        \/ Cardinality(DOMAIN s.sections) > 1
        \/ CASE s.backend = "memory" -> "root" \in DOMAIN s.sections /\ s.sections["root"]
             [] s.backend = "native" -> "root" \notin DOMAIN s.sections \/ ~s.sections["root"]
             [] OTHER -> s.backend \notin DOMAIN s.sections \/ ~s.sections[s.backend]
  IN {<<"store", n>> : n \in {m \in DOMAIN c.stores : Bad(c.stores[m])}}

TableProblems(c) ==
  LET T(i) == c.tables[i]
      Names(i) == {T(i).columns[k].name : k \in DOMAIN T(i).columns}
  IN {<<"table", i>> : i \in {j \in DOMAIN c.tables :
       \/ \E k \in 1 .. j - 1 : T(k).name = T(j).name /\ T(k).database = T(j).database
       \/ T(j).database \notin DOMAIN c.databases
       \/ "" \in Names(j)
       \/ Cardinality(Names(j)) < Len(T(j).columns)
       \/ \E k \in DOMAIN T(j).columns :
            Cardinality(T(j).columns[k].schemas) > (IF T(j).columns[k].json THEN 1 ELSE 0)
       \/ \A k \in DOMAIN T(j).columns : ~T(j).columns[k].primary_key
       \/ \E fk \in ToSet(T(j).foreign_keys) :
            \/ fk.column \notin Names(j)
            \/ \A k \in DOMAIN c.tables :
                 T(k).name = fk.references_table => T(k).database # T(j).database}}

\* A mutant of TableDefined: any table will do.
AnyTableDefined(c, name) == c.tables # <<>>

TableDefined(c, name) == \E i \in DOMAIN c.tables : c.tables[i].name = name

TableReference(c, s) ==
  /\ s.table # "" /\ TableDefined(c, s.table)
  /\ s.database # "" /\ s.database \in DOMAIN c.databases

StorageReference(c, s) == s.storage # "" /\ s.storage \in DOMAIN c.stores

CrudOk(c, s) ==
  /\ TableReference(c, s)
  /\ s.page_size >= 1 /\ s.page_size <= s.max_page_size /\ s.max_page_size <= MaxPageSize
  /\ s.safe_fragments

ProxyOk(s) == s.upstream # ""

StaticFilesOk(c, s) == StorageReference(c, s)

SpaHostOk(c, s) == StorageReference(c, s)

MediaOk(c, s) == StorageReference(c, s) /\ TableReference(c, s)

FileStoreOk(c, s) == StorageReference(c, s) /\ TableReference(c, s)

CustomResponseOk(s) == s.status >= 100 /\ s.status <= 599

SectionOk(c, e) ==
  /\ e.section # Nobody
  /\ CASE e.action = "crud" -> CrudOk(c, e.section)
       [] e.action = "proxy" -> ProxyOk(e.section)
       [] e.action = "static_files" -> StaticFilesOk(c, e.section)
       [] e.action = "spa_host" -> SpaHostOk(c, e.section)
       [] e.action = "media" -> MediaOk(c, e.section)
       [] e.action = "file_store" -> FileStoreOk(c, e.section)
       [] e.action = "custom_response" -> CustomResponseOk(e.section)

EndpointProblems(c) ==
  {<<"endpoint", i>> : i \in {j \in DOMAIN c.endpoints :
     LET e == c.endpoints[j]
     IN e.path = <<>> \/ e.methods = {} \/ ~SectionOk(c, e)}}

\* The providers that are set, each a record of its fields.
AuthProblems(c) ==
  LET a == c.auth
      Set(p) == a[p] # Nobody
      codeFlow == Set("oauth2") /\ a.oauth2.authorization_url # ""
  IN {<<"auth", f>> : f \in {p \in {"endpoint", "jwt", "revocation", "api_key", "oauth2", "register"} :
       CASE p = "endpoint" -> \E i \in DOMAIN c.endpoints :
              LET n == c.endpoints[i].auth
              IN n # "none" /\ (n \notin {"jwt", "api_key", "basic", "oauth2"} \/ ~Set(n))
         [] p = "jwt" -> Set("jwt") /\ a.jwt.secret = ""
         [] p = "revocation" ->
              /\ Set("jwt") /\ a.jwt.revocation = "database"
              /\ a.jwt.db_table = "" \/ a.jwt.cleanup_interval_secs = 0
         [] p = "api_key" -> Set("api_key") /\ a.api_key.keys = {}
         [] p = "oauth2" -> codeFlow /\ (~Set("jwt") \/ ~a.oauth2.complete)
         [] p = "register" ->
              /\ Set("register")
              /\ "" \in {a.register.table, a.register.database, a.register.default_role}}}

CorsProblems(c) ==
  LET Bad(cors) == "*" \in cors.allowed_origins /\ cors.allow_credentials
      Of(j) == IF j = 0 THEN c.cors ELSE c.endpoints[j].cors
  IN {<<"cors", i>> : i \in {j \in 0 .. Len(c.endpoints) : Of(j) # Nobody /\ Bad(Of(j))}}

SelfParents(c) ==
  {<<"self", r>> : r \in {q \in DOMAIN c.hierarchy : q \in ToSet(c.hierarchy[q])}}

----------------------------------------------------------------------------
(* The search for cycles. *)

\* The tree is deserialized and the validators before the search run.
Validate ==
  /\ loading = "files" /\ todo = <<>>
  /\ LET c == input.content
     IN problems' = ServerProblems(c) \cup DatabaseProblems(c) \cup StoreProblems(c)
          \cup TableProblems(c) \cup EndpointProblems(c) \cup AuthProblems(c)
          \cup SelfParents(c)
  /\ loading' = "hierarchy"
  /\ UNCHANGED <<input, todo, visited, roleMark, frames>>

Hierarchy == input.content.hierarchy

MarkOf(r) == IF r \in DOMAIN roleMark THEN roleMark[r] ELSE 0

ParentsOf(r) == IF r \in DOMAIN Hierarchy THEN Hierarchy[r] ELSE <<>>

Mark(r, n) == [q \in DOMAIN roleMark \cup {r} |-> IF q = r THEN n ELSE roleMark[q]]

\* The next role that is still unvisited, in the order of a hash map.
StartSearch ==
  /\ loading = "hierarchy" /\ frames = <<>>
  /\ \E r \in DOMAIN Hierarchy :
       /\ roleMark[r] = 0
       /\ roleMark' = Mark(r, 1)
       /\ frames' = <<<<r, ParentsOf(r)>>>>
  /\ UNCHANGED <<input, todo, visited, loading, problems>>

\* A mutant of FoundCycle: a role that was done with counts as a cycle.
FoundAgain(mark) == mark # 0

FoundCycle(mark) == mark = 1

\* One turn of the loop over the parents, or the end of the call. A cycle ends
\* all the calls at once and leaves their roles marked as being visited.
SearchStep ==
  /\ frames # <<>>
  /\ LET r == frames[1][1]
         parents == frames[1][2]
     IN \/ /\ parents = <<>>
           /\ roleMark' = Mark(r, 2)
           /\ frames' = Tail(frames)
           /\ UNCHANGED problems
        \/ /\ parents # <<>> /\ FoundCycle(MarkOf(Head(parents)))
           /\ problems' = problems \cup {<<"cycle", frames[1][1]>>}
           /\ frames' = <<>>
           /\ UNCHANGED roleMark
        \/ /\ parents # <<>> /\ ~FoundCycle(MarkOf(Head(parents)))
           /\ LET p == Head(parents)
                  rest == <<<<r, Tail(parents)>>>> \o Tail(frames)
              IN IF MarkOf(p) = 0
                 THEN /\ roleMark' = Mark(p, 1)
                      /\ frames' = <<<<p, ParentsOf(p)>>>> \o rest
                 ELSE frames' = rest /\ UNCHANGED roleMark
           /\ UNCHANGED problems
  /\ UNCHANGED <<input, todo, visited, loading>>

\* validate_cors comes last; any problem refuses the configuration.
ValidateDone ==
  /\ loading = "hierarchy" /\ frames = <<>>
  /\ \A r \in DOMAIN Hierarchy : roleMark[r] # 0
  /\ problems' = problems \cup CorsProblems(input.content)
  /\ loading' = IF problems' = {} THEN "accepted" ELSE "refused"
  /\ UNCHANGED <<input, todo, visited, roleMark, frames>>

ConfNext ==
  LoadFile \/ CheckShape \/ Validate \/ StartSearch \/ SearchStep \/ ValidateDone

ConfSpec == ConfInit /\ [][ConfNext]_confVars

----------------------------------------------------------------------------
(* What the server looks up in an accepted configuration. *)

\* create_store.
StoreBuilt(s) ==
  CASE s.backend = "memory" -> TRUE
    [] s.backend = "native" -> "root" \in DOMAIN s.sections
    [] OTHER -> s.backend \in DOMAIN s.sections

\* build_stores_from_config.
StoresBuilt(c) == \A n \in DOMAIN c.stores : StoreBuilt(c.stores[n])

\* get_store.
GetStore(c, name) ==
  IF DOMAIN c.stores = {} THEN name = "default" ELSE name \in DOMAIN c.stores

\* get_db_context: the pool by its name, the table by its name and database.
GetDbContext(c, db, table) ==
  /\ db \in DOMAIN c.databases
  /\ \E i \in DOMAIN c.tables : c.tables[i].name = table /\ c.tables[i].database = db

----------------------------------------------------------------------------
(* Properties. *)

\* The places of files in the directives of the files that are reached.
Inclusions(reached) ==
  UNION {UNION {{<<f, d, k>> : k \in DOMAIN input.files[f].includes[d].files} :
                  d \in DOMAIN input.files[f].includes} : f \in reached}

Included(i) == input.files[i[1]].includes[i[2]].files[i[3]]

\* The files that are in whatever has the root and with a file all it includes.
ReachedFiles ==
  {f \in DOMAIN input.files :
     \A S \in SUBSET DOMAIN input.files :
       input.root \in S /\ (\A i \in Inclusions(S) : Included(i) \in S) => f \in S}

\* The files load exactly when every file that is reached can be read and is
\* included in one place only, every pattern matches and several files in a
\* mapping are mappings; and then all of them were read. (Two inclusions of one
\* file need not be circular to be refused as circular.)
IncludesRefused ==
  LET reached == ReachedFiles
      places == Inclusions(reached)
      tree == /\ \A f \in reached : input.files[f].readable
              /\ \A i \in places : Included(i) # input.root
              /\ \A i, j \in places : Included(i) = Included(j) => i = j
              /\ \A f \in reached : \A d \in DOMAIN input.files[f].includes :
                   LET dir == input.files[f].includes[d]
                   IN /\ dir.files # <<>>
                      /\ dir.in = "mapping" /\ Len(dir.files) > 1 =>
                           \A k \in DOMAIN dir.files : input.files[dir.files[k]].yields = "mapping"
  IN /\ loading \in {"hierarchy", "accepted", "refused"} => tree /\ visited = reached
     /\ loading \in {"circular", "unreadable", "no_match", "shape"} => ~tree

\* What has the parents of each of its roles.
WithParents(S) == \A r \in S : ToSet(ParentsOf(r)) \subseteq S

\* A role inherits from what is in whatever has its parents, and with a role
\* that one's parents.
Inherits(r, q) ==
  LET all == UNION {ToSet(Hierarchy[s]) : s \in DOMAIN Hierarchy}
  IN \A S \in SUBSET all : ToSet(ParentsOf(r)) \subseteq S /\ WithParents(S) => q \in S

\* The search reports a cycle exactly when a role inherits from itself, in
\* whatever order the hash map yields the roles.
CyclesFound ==
  loading \in {"accepted", "refused"} =>
    ((\E p \in problems : p[1] = "cycle") <=> \E r \in DOMAIN Hierarchy : Inherits(r, r))

\* An accepted configuration has what its endpoints look up when they serve:
\* the stores can be built, each endpoint's store is one of them, its database
\* has a pool, its provider is configured, and its table is found, unless a
\* table of that name is declared in another database only. Every foreign key
\* has its table and the code flow has a key to sign with.
AcceptedResolves ==
  LET c == input.content
  IN loading = "accepted" =>
     /\ StoresBuilt(c)
     /\ \A i \in DOMAIN c.endpoints :
          LET e == c.endpoints[i]
          IN /\ e.action \in {"static_files", "spa_host", "media", "file_store"} =>
                  GetStore(c, e.section.storage)
             /\ e.action \in {"crud", "media", "file_store"} =>
                  \/ GetDbContext(c, e.section.database, e.section.table)
                  \/ \E d \in DOMAIN c.databases \ {e.section.database} :
                       GetDbContext(c, d, e.section.table)
             /\ e.auth # "none" => c.auth[e.auth] # Nobody
     /\ \A i \in DOMAIN c.tables : \A fk \in ToSet(c.tables[i].foreign_keys) :
          GetDbContext(c, c.tables[i].database, fk.references_table)
     /\ c.auth.oauth2 # Nobody /\ c.auth.oauth2.authorization_url # "" =>
          c.auth.jwt # Nobody /\ c.auth.jwt.secret # ""
=============================================================================
