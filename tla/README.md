# main-serve in TLA+

main-serve is a configuration-driven web server in Rust (axum, tokio, sqlx).
One YAML file declares databases, tables, stores, authentication and endpoints;
the process serves CRUD, media, file, static, proxy and authentication routes
from it and can replace the file's content while it runs. This directory holds
TLA+ models of the parts whose correctness depends on the order in which
things happen, TLC configurations that check them on small instances, and
TLAPS proofs for all instances.

Line numbers are those of the mapped commit; `PROJECT.json` maps every
definition to the lines it stands for.

## 1. The system

### Components, their state and their operations

| Component | State | Operations | Model |
|---|---|---|---|
| Hot reload (`server/reload.rs`) | `AppState`: `config`, `db_pools`, `store_configs`, `schema_registry` behind tokio `RwLock`s, `stores` a plain `Arc` | `handle_reload` | `HotReload` |
| Database pools (`db/pool.rs`) | a map of sqlx pools | create, run a statement on a connection, close | `HotReload`, `Lifecycle`; ids of inserted rows in `Queries` |
| CRUD handlers (`handlers/crud.rs`) | none of their own | list, get, create, update, delete | `Queries` (statements), `HotReload` (locks) |
| Query builders (`db/query`) | none | conditions, parameters, pages, clauses | `Queries` |
| Schema registry (`config/schema_registry.rs`) | compiled JSON schemas | build, validate | `HotReload` (when, from what) |
| Rate limiter (`middleware/rate_limit.rs`) | a mutexed map: client key to count and window start | `check_rate_limit` | `RateLimiter` |
| JWT revocation (`server/state.rs`, `handlers/auth.rs`, `validators/jwt.rs`) | a map in memory or a table | revoke, is_revoked, cleanup | `TokenRevocation` |
| OAuth2 code flow (`middleware/auth/handler.rs`, `validators/oauth2.rs`) | `oauth2_pending`: state to verifier and time | authorize, callback | `OAuth2Flow` |
| Media library (`handlers/media`) | table rows and files in a store, references | upload, delete, trash, restore, purge, empty, move, rename, attach, detach | `MediaFiles` |
| File store (`handlers/file_store`) | table rows, files, an association table | create, get, list, update, delete, trash, restore, purge, empty, attach, detach | `FileStore` |
| Storage backends (`storage`) | files, blobs, objects, directory markers; the cached GCS token | the `Storage` trait, `get_token` | `Storage`, `StoreContract`, `GcsToken` |
| Authentication and roles (`middleware/auth`) | `role_inheritance`, the providers in force | authenticate, check_roles | `Access` |
| Router (`server/router.rs`, `prefix_match.rs`) and body limit | `endpoint_configs`, built at start-up | match, look up, refuse a large body | `Access` |
| Server lifecycle (`main.rs`) | accept loop, shutdown signal, clean-up task | start, serve, drain, abort, close | `Lifecycle` |
| Auto-migration (`db/migration.rs`) | database schema | order tables, diff columns, add indexes and the media column | `Migration` |
| Configuration (`config`) | none at run time | include, validate, detect cycles of roles | `Configuration` |
| Registration and login (`handlers/auth.rs`) | the users table | register, login | its locks in `HotReload` |
| TLS, static files, SPA, custom responses, proxy, CORS, logging, errors | none shared | per-request I/O | not modelled |

### How they interact

All handlers are tokio tasks that share a clone of `AppState`. They communicate
through its locks and maps only: `handle_reload` takes three write locks and
swaps; every other handler takes read guards, most of them dropped at once, a
few (the schema registry in create and update, the configuration in
`handle_oauth2_authorize`) held across awaits. A handler's future is dropped
when its client goes away, at whatever await it has come to. The revocation
store is given a pool once, at start-up, and keeps it through reloads. The
media and file store handlers change two things without a transaction: a row in
the database and a file in a store, through a backend whose own operations may
be several requests to a service. A migration runs at the start and again, on
new pools, in every reload; several may overlap, and what the database has is
all that one goes by. The endpoints a request is matched with are those of the
start, while the providers it is authenticated by are those in force.

### What is hard

* interleavings at every `await`: a lock released and taken again, a path or a
  limit read before and used after;
* FIFO locks, where a waiting writer blocks later readers, against a drain that
  waits for connections held by those readers;
* cancellation and failure between two halves of a change;
* time: clock readings taken before a mutex, windows, TTLs, leeway, truncation;
* state that a reload does not replace although it depends on the configuration;
* the same question answered twice by different code: the endpoint looked up by
  the middleware and by the handler, a path tested by `exists`, `metadata` and
  `list`, the rows of a page and their total, placeholders and their parameters;
* the order in which a hash map yields its entries;
* what an interrupted run leaves behind for the next.

`PROJECT.json` lists these hazards line by line with the property that covers
each, or why none does yet.

### What correct means, per component

* **Reload**: readers never see half a swap; new requests find open pools; old
  pools are drained, once, and only closed when nothing runs on them; the
  registry ends up that of the configuration; nobody waits for ever.
* **Rate limiter**: no window lets more than `max_requests` through, whatever
  the order of timestamps and whatever is pruned.
* **Revocation**: after the answer to a revocation the token opens nothing.
* **OAuth2**: a state is used once, with its own flow's code; expiry never
  takes an entry in time; the limit of pending flows holds under reloads.
* **Media, file store**: no file is lost but by a delete of its item; row and
  file agree again after the next completed delete or restore; entries that
  always had an owner are touched by owners and admins only.
* **Storage**: whatever request of a call fails, no content is lost, mixed or
  invented, and success means that the effect is there (it does not on Azure,
  nor for `remove_dir_all` of S3 and GCS, see sections 2 and 3); no token is sent
  that runs out on the way.
* **Migration**: tables come after those they refer to; a run that reports
  success leaves everything declared in place; declared columns keep their
  data; a later run repairs what an interrupted one left.
* **Lifecycle**: nothing is served before all is ready; the pools close when
  nobody uses them; requests in flight get their time; the process ends.
* **Configuration**: cycles are found, and what is accepted can be resolved.
* **Access**: the endpoint that is served is the one that was checked, and the
  middleware lets exactly the entitled through.
* **CRUD**: a list is the page asked for, in the order asked for, of the rows with
  their joins, and its total the number of rows; a request for one row touches
  that row, and others only where an OR of the clause admits them; a create
  answers with its own row.

## 2. Modules

Every component has a module with its state and actions (`X`), a module that
instantiates it for TLC (`MCX`) and, where it is proved about, a proof module
(`XProofs`). `MediaFilesProofs` has the proofs about both stores of files,
`MigrationProofs` those about the migration and the lemmas on numbers and lists,
and `ServerProofs`, which extends it, those about `Lifecycle` and the other
modules of `MCServer`. Definitions whose name says what is wrong with them
(`ExpiryAsMeant`, `DropConfigForgotten`, `AwaitPointsInSwap` ...) are the
faulty variants that the mutation runs put in place of the real ones; no
specification uses them.

### HotReload

A configuration is the number of a content of the file; a map of pools is named
by who created it. Each reload runs through the program counter of
`handle_reload`: load the file (`LoadConfig`, `RejectReload`), read
`store_configs`, create pools, migrate, create stores, queue for the three
write locks in their order, the three assignments, the three drops, lock and
rebuild the registry, close and drain the old pools; every step that can fail
has its failing action, and `CancelReload` drops the future at each await
(`AwaitPoints`), with the pool it would have installed (`DroppedPool`). Two
steps of the code with no await in between are still two actions, so that the
atomicity of the swap is a result about the locks.

Requests run the patterns of locks and statements of `handle_list`,
`handle_get_one`/`handle_delete`, `handle_create`/`handle_update` (which hold
the registry's read guard across their statements) and `handle_register`. A
statement takes a connection, runs and returns it; `close` refuses new
connections and `DrainOldPools` waits for those that are out.

External: tokio's fair `RwLock` (`queue`, `CanRead`, `CanWrite`) and sqlx's
pool, from how the code uses them.

### RateLimiter

`Arrive` is the call of `Instant::now()` outside the mutex, `Check` the
critical section: prune, find or create the entry, reset it when its window is
over, count, compare. `MaxLag` bounds how long a task waits for the mutex (in
ticks), `MaxTime` and `MaxCount` bound the run. `admitted` is history.

### TokenRevocation

The store is none, in memory or a database; the database may lack the table and
its pool is closed by a reload (`CloseBootPool`). `Decode` and `Revoke` are the
two halves of `handle_revoke` around the await, `DecodeToken` and `CheckToken`
those of `validate_token`; `Cleanup` is the periodic task. `Expiry` is what the
code computes: `exp` itself, taken as a duration from now. Time is
`Epoch + clock`, so that an absolute time and an uptime differ.

### OAuth2Flow

A flow is one call of `handle_oauth2_authorize`; while it waits for the mutex
of the pending map it holds the read guard of the configuration
(`HoldsGuard`), so a reload waits. A callback names any state and any code;
the identity provider redeems a code for its own verifier only. `callback`
reads the configuration three times, and reloads come in between.

### MediaFiles

`rows` is the table, `files` the store, as a function from locations
(`root/path`, `root/{prefix}/{subject}/path`) to the item whose content lies
there. Handlers are small programs over them: read the path, ask whether the
file exists, rename or unlink it, update or delete the row. Any of them may
end after any step (`Stop`: a failed call or a client that has gone; a file
operation that the runtime finishes after the client has gone is the same as
that step taken before the stop). `movedOnto`, `removed`, `trashedBy`, `torn`
and the field `solo` are history the properties speak about.

Assumed: primary keys are text (with integer keys `handle_media_trash_empty`
deletes nothing, since it asks for a string, trash.rs:187), paths are flat.

### FileStore

Rows, files and references of the file store, and its handlers as programs over
them like those of `MediaFiles`, with the differences of this code: the delete
moves to a fixed `.trash` while the others look under `trash.prefix`, a failed
rename is logged and passed over, emptying and permanent delete do not look at
the flag again, the owner is asked for in a statement of its own, and the body
may set any column but the key: an update may give the row to anybody or to
nobody. An owner that is NULL or no string is `Nothing`; the check lets everybody
pass there, and at a row that is not there, and `OwnersOnly` excepts both. (In a
table whose owner column is not text every owner is of this kind.) `mix` chooses which kinds of requests a
behaviour has, so that the run stays small. `claims` (the ids that ever had a path), `purged`, `owners` and
`accesses` are history. `MCMediaFiles` runs it beside `MediaFiles`; the two share
no state.

### Storage, StoreContract, GcsToken

`Storage` has the five backends over one set of keys (`objects`) and
directories. A call is the requests it makes: a write is one step in memory,
an open that truncates and a write in the file system, one request to an object
store; a rename on an object store is a copy and a delete; the removal of a
directory is a listing and a delete per key; a call of the memory backend takes
its locks one after the other. At every one the call may fail or
be dropped (`Fail`). Content is the sequence of the calls whose data it is.

`StoreContract` is the abstract specification: what a caller of the trait may
rely on without knowing the backend. It is strict: a directory whose removal
succeeds has nothing left. `KeepsContract` is the refinement: the
memory, native, S3 and GCS backends implement it under the mapping `Contract`.
The mapping makes one exception. S3 passes over the deletes that fail within
`remove_dir_all` (s3.rs:474), and GCS deletes what it lists, which is not what
lies in the directory (gcs.rs:836): both may report success with content left.
Such a call ends at `tried`, which is mapped to a call without success; the
contract then holds it to removing nothing but what lies in the directory.
Azure's copy sends no source and copies nothing, so Azure is not held to the
contract at all: its behaviours are mapped to an idle one.

`ListingsAgree` compares the methods that look. On every backend what exists has
the metadata of a file. A directory lists the files that exist in it and no
others on memory, native, S3 and Azure, and its directories on memory, native
and S3. GCS asks with the directory's name for a prefix, without a slash, so it
lists the directory itself and whatever else begins with its name (`GcsMatches`;
`Cut` says which names go on where another ends). Of its list the property claims
what `remove_dir` and `is_dir` rely on: an empty one means an empty directory.
Overlapping calls
on one path are admitted where the backend has an answer to them (the locks of
the memory backend, `O_APPEND`); otherwise callers keep apart what they do on a
path, as no object store call is atomic (gcs.rs:577). Renames and copies are of
files, to another path.

Paths are sequences of names; `Files` and `Dirs` are any sets of them in which
every directory above a path is one of `Dirs` (`PathsAssumption`).

`GcsToken` is the cache of the access token: two looks under the lock, the
request outside it, the answer stored whatever others stored meanwhile.

### Migration

`Sorted` and `Circular` are what Kahn's algorithm in
`sort_tables_topologically` computes, with its map from names to positions. A
migration sorts, and for each table reads what is there (`Introspect`,
`LookUpIndexes`) and executes the statements it has derived, one step each; a statement may find the schema
other than it was read and be refused (`Accepts`), and any may fail or be the
last (`CutShort`; the fields `alone` and `faultless` are history). Then comes `ensure_media_columns`. Several overlap.
The database is found with columns and indexes of its own. `Bound` are the columns
that a key, UNIQUE, a foreign key or a view needs and no database drops; SQLite
drops no indexed column either. An index is a table and a column;
`Clashes` are those whose names, `idx_` with the table and the column, are the same
(`Namesakes`), so that IF NOT EXISTS passes over the second.

### Lifecycle

`async_main` from the load of the configuration to the exit, each step with its
failure; `serve` with a task per connection, their requests and the connection
of a pool each may hold; the signal, the wait of `conn_timeout`, the abort of
the rest, which takes effect only when the runtime gets to the task, the abort
of the clean-up task and the closing of the pools.

### Configuration

`load_yaml_with_includes` as a stack of work with its set `visited`, the
validators as the set of problems they find, and `dfs_detect_cycle` with its
colours and frames over every order of the hash map. `GetStore`,
`GetDbContext` and `StoresBuilt` are the look-ups of the running server. What
the search and the inclusion are compared with is a least closed set: a role
inherits from another when that one is in every set that has the role's parents
and with each role its parents (`Inherits`), and a file is reached when it is in
every set with the root and all that its files include (`ReachedFiles`).

### Access

The routes and `endpoint_configs` of `build_router`; the middleware that looks up
the endpoint by the path of the URI, clones `config.auth`, authenticates and
checks roles; the body limit; the handler that looks the endpoint up again by
the pattern of the matched route. `hashOrder` is the order of the hash map, and
a reload may replace the providers at any point. axum's matching is external.
The routes without a check are found by the beginning of the text (`Skips`): a path
is a list of segments, and `Beginnings` says which segment begins with which other.
`Inherited` is the set `compute_role_inheritance` makes of a role, level by level;
`Reaches` is its reference, again a least closed set.

### Queries

`BuildSelectList`, `BuildSelectOne`, `BuildUpdate` and `BuildDelete` make
statements as the code does: conditions that name their operands by placeholder
and a list of parameters, per driver. What a placeholder stands for is found when
the statement is run, so that a wrong number or a parameter too many shows as
the wrong rows. A list is a select and a count, a create on MySQL an insert and
a select, with other callers in between. A list may join another table: a line is
the key of a row with that of a partner, a row with several partners has as
many lines, and outer joins add lines without one (`Lines`). The database puts the
lines into any order that ORDER BY allows (`InOrder`) and answers LIMIT and OFFSET of
them (`Pages`). `IsMeant`, `ClauseAdmits` and
`FilterAdmits` are the reference meaning of clauses and filters; `ListIsExact`
compares the lines, their order and which page of them is answered. `HandsOut`
says of which columns the database makes the keys; of the others the last id is 0.
`Keys` are the keys that rows may have. `Sublists` has the one operator that `Migration` and
`Queries` share, the members of a list that lie in a set, in their order (`Only`).

### MCServer, MCProcess

`MCServer` extends `Migration`, `Configuration`, `Access` and `Queries`, and `MCProcess`
extends the instance of `TokenRevocation` and `Lifecycle`, whose clean-up task serves
it. The modules of each share no variable; the
variable `part` says which of them moves, and the others rest in one state of theirs.

## 3. Runs

| Run | Bounds | What it shows | States |
|---|---|---|---|
| `hot_reload` | 2 reloads, a registration (four statements), 3 contents of which one does not load and one lacks the table | `SwapIsAtomic`, `CurrentPoolsOpen`, `OneCloserPerMap`, `RegistryFollowsConfig`, `ClosedPoolsDrained`, types | 283 k |
| `hot_reload_live` | 2 reloads, a create holding the registry | every reload and request ends: `ReloadsFinish`, `RequestsFinish` | 38 k |
| `hot_reload_stores` | 1 reload | violation: the new stores are lost | |
| `hot_reload_refused` | 1 reload | violation: a refused reload has changed the configuration | |
| `rate_limiter` | 2 keys, 2 tasks, one request per window of 2 ticks, 6 ticks | `WindowIsBounded`, `WindowsAreApart` | 77 k |
| `rate_limiter_override` | 1 key, 2 endpoints | violation: one counter for all policies | |
| `process` | 2 requests, revocations one after another, every store; or the process with 2 connections, a wait of 2 and 5 ticks after the signal, and every combination of databases, revocation store, TLS, keep-alive and mode | `RevokedIsRejected`; `QuietBeforeClose`, `ReadyBeforeServing`, `InFlightGetTheirTime`, and after a signal the process ends: `ShutdownEnds` | 301 k |
| `token_revocation_reload` | 1 request, every store | violation: a reload opens the blacklist | |
| `oauth2_flow` | 2 flows, 2 callbacks, 3 contents with two `state_ttl`, 3 ticks | `OneLoginPerFlow`, `FirstInTimePasses`, `LimitInForce` | 83 k |
| `media_files` | media: 2 items, 3 paths, 2 users, 2 at a time, 4 requests in all; file store: 2 rows, 2 paths, 2 users and an admin, 2 at a time, 3 in all; owners that change or are missing where there is no trash | `KeptUnlessDeleted`, `TrashHeals`, `CataloguedFilesKept`, `OwnersOnly`, `RestoreIsWhole` | 780 k |
| `storage` | 2 calls, a directory `d` with a file `d` and a directory, beside it a file `dx`; 2 callers of a token that lives 4 ticks, margin and timeout 1, 7 ticks | `KeepsContract` (the refinement), `ListingsAgree`, `TokenOutlivesRequest` | 223 k |
| `server` | see below | `SortIsCanonical`, `SuccessIsWhole`, `DeclaredDataKept`, `RestartHeals`; `IncludesRefused`, `CyclesFound`, `AcceptedResolves`; `ServedAsChecked`, `AdmittedByRole`; `ListIsExact`, `TouchesTheAsked`, `CreatedIsOwn` | 738 k |

The inputs of `server`, part by part:

* migration: 2 migrators, 3 starts in all; 512 graphs of references of three
  tables on empty databases, two tables of one name, two tables with one name of
  an index, and three tables to alter, with SQLite and MySQL, destructive or not, a
  database that is not migrated, tables absent or with undeclared columns, one
  of them with or without an index and another UNIQUE;
* configuration: the contents that a validator tells apart, one kind at a time
  (endpoints and their sections, providers, stores, tables, the rest), every
  hierarchy of two or three roles with up to two parents of a choice of eight
  lists each, and three files with up to two directives each;
* access: any three of eight endpoints with plain, parameter and catch-all paths
  under one hierarchy, one that takes all paths beside a plain one, and two
  endpoints under 64 hierarchies, with the
  credentials and URIs that tell them apart (among them `/_main-serve/healthy`,
  which begins like a route that is skipped), and one reload;
* queries: 2 callers, 2 calls, 3 new keys; lists with filters in either order,
  pages and sorts against an insert or a delete; inner, left and right joins with
  two partners for one row and none for another, sorted both ways, with and
  without pages; get, update, delete and create
  with clauses of none, one and two comparisons, on three drivers, with keys that
  are handed out and keys that are not. 64 stands
  for 2^64, where the offset wraps (pages 0, 2, 17 and 33, sizes 0 to 2).

Why these bounds: each hazard needs two actors (two reloads of one lock order,
two callbacks of one state, two handlers of one item, two migrations of one
table) and a third party that changes what they read (the file, the clock, the
configuration). With two reloads every pair of their steps interleaves,
including one that swaps between another's swap and drain; three contents give
a successful reload, a refused one and one that changes what a request looks
for. Two windows fit into the ticks of `rate_limiter`, so that a border is
crossed and a pruned entry comes back. Four requests of `media_files` are two
uploads and two overlapping handlers, or one upload, a handler cut short and
two that repair. Three starts of a migration are one cut short, one that
overlaps it or repairs it, and one more that finds the result. Three tables,
roles or files are the least that have a cycle through a third and a diamond
from a shared one. Where a proof exists (section 4), the bound is not what the
result rests on.

Symmetry is used for keys, tasks, flows, callbacks, users, items, paths and requests,
in runs that check no liveness. `CHECK_DEADLOCK FALSE` is given where a bound on time or on
the number of requests ends the run (`rate_limiter`, `token_revocation_reload`,
`oauth2_flow`, `media_files`, `storage`) and where the parts end by themselves
(`server`, `process`); `hot_reload` checks for deadlock.

Fairness. `Fairness`, in `hot_reload_live`: weak fairness of every step of a reload or request
that has begun. It is what tokio guarantees to a task that is ready, the
database to a statement and the lock to the head of its queue. Nothing is
assumed of operators or clients: a reload or request need never begin, and may
be cancelled. `LifeFairness`, in `process`: time passes, the main
task goes on when it can, and the runtime drops the tasks that were aborted.
Nothing is assumed of clients, handlers, statements or the clean-up task: the
process has to end without them.

### Disagreements with the documentation

The four violation runs, quoted in `PROJECT.json`:

* reload.rs:218 assigns the rebuilt stores to the handler's own clone of
  `AppState`; the comment at :206 says they are swapped with the rest.
* reload.rs:227 may refuse a reload after the swap; CONFIGURATION.md:1305
  promises an unchanged configuration.
* rate_limit.rs:88 keeps one entry per client for all endpoints; SPEC.md:202
  promises a policy per endpoint.
* state.rs:121 answers "not revoked" for every database error, and a reload
  closes the pool the store keeps; SPEC.md:430 promises rejection.

Others met while modelling. The behaviours of the models include those marked
(m); no property claims their absence:

* `get_db_context` (state.rs:395) reads the pool and the table under separate
  guards and may pair an old pool with a new table, against the comment at
  reload.rs:207 (m).
* Until the registry is rebuilt (reload.rs:225) a create is validated with the
  schemas of the previous configuration; SPEC.md:1287 says the swap has no such
  window (m).
* `close_pools` (reload.rs:246) waits for connections, not for requests: one
  between two statements gets an error; SPEC.md:1288 says in-flight requests
  complete (m).
* Of two overlapping reloads the one that read the older content may swap last
  and stay (reload.rs:94; CONFIGURATION.md:1307) (m).
* The rate limit is a fixed, not a sliding window (rate_limit.rs:94 against
  :3), and `Retry-After` is truncated to whole seconds (:103; SPEC.md:1224).
* A revocation's expiry is `exp` taken as a duration (auth.rs:110), so no entry
  is ever removed (state.rs:44 says they are) (m).
* `handle_revoke` answers "Token revoked" when there is no store or the insert
  failed (state.rs:161, auth.rs:109) (m).
* `handle_oauth2_callback` reads the configuration three times
  (handler.rs:294, :309, :331) (m).
* The rate limiter is the outer layer and runs before authentication
  (router.rs:155 says after).
* A media restore or permanent delete looks in the caller's trash directory
  (trash.rs:135, :238): for an item another user deleted it finds no file and
  reports success (m). A move cut short after the rename leaves a row that
  points nowhere, and no request repairs it (move_rename.rs:74) (m). A move, or
  a delete into the trash, replaces what is at its target, so a file in the
  trash may be overwritten by a later item of the same path, although
  SPEC.md:997 says deleted files are moved, not removed (m). `on_delete:
  detach` and `cascade` are never looked at (delete.rs:34; SPEC.md:989) (m).
* Shutdown. The wait for connections is 5 seconds whatever `shutdown_timeout`
  says, which goes into a log line only (main.rs:492; SPEC.md:151,
  CONFIGURATION.md:167) (m). Idle keep-alive connections are not told to close
  and use up the wait (m). Tasks that have ended stay in the `JoinSet` until the
  shutdown. A failure of `set_revocation_store`, of the bind or of TLS exits
  without closing the pools (m).
* File store. A delete moves to `.trash`, and restore, permanent delete and
  emptying look under `trash.prefix` (delete.rs:53, trash.rs:124) (m). A failed
  rename is passed over (m). A permanent delete takes rows that are not in the
  trash (m), emptying those that were restored meanwhile (m). The ownership
  check passes for a row that is not there yet and for everybody at a row whose
  owner is NULL or no string (mod.rs:323) (m), an update may set the owner to
  anything (update.rs:55) (m), and with
  `admin_override: false` a get is not checked at all (m). The statement of a
  detach has three placeholders and gets two parameters (m). `total` of a list
  is the length of the page after trashed rows were dropped from it. Two
  attaches may compute the same order (content_refs.rs:60) (m).
* Storage. Azure's copy, and with it the rename, is a PUT without a source whose
  unknown statuses count as success, after which the source is deleted (m); its
  append takes a failed HEAD for an empty file (m); its `remove_dir` deletes files
  without asking for emptiness (m) and `remove_dir_all` goes on while there are
  subdirectories (m). S3's `remove_dir` refuses a directory with a marker (m), and
  a listing is one page of 1000 keys; its `remove_dir_all` passes over deletes that
  fail and reports success (s3.rs:474) (m). GCS lists a directory as its own entry
  and, besides, what begins with its name (gcs.rs:675) (m), so that `remove_dir_all`
  deletes an entry `d/d` of `d` or nothing (gcs.rs:836) (m); it has `is_dir` true whenever the service answers, and reads by
  a name that is not encoded. A rename onto itself deletes on object stores. A
  native write empties the file first (m). The memory backend renames a directory
  without its children (m); its `rename`, `exists`, `metadata` and `list` take the
  locks in the order data, dirs and its `remove_dir`, `remove_dir_all` and
  `create_dir` in the order dirs, data, so that two of them can wait for each other
  for ever (memory.rs:266, :314) (m, for the calls that write). The GCS token is fetched by all who find it expired,
  and its expiry is reckoned from the answer and not from the issue (m).
* Migration. A table that refers to itself, and one name in two databases, are
  refused as "Circular dependency" (m). A destructive migration drops an
  undeclared `file_path` at every start and `ensure_media_columns` adds it again,
  empty (m); on MySQL that statement quotes the name as a string, and every
  start fails while the column is missing (m). A destructive migration that would
  drop a column which a key, UNIQUE or, on SQLite, an index holds is refused, and
  with it every start (migration.rs:353) (m). Indexes are named by table and column
  without a separator of their own: on SQLite and Postgres `a_b.c` and `a.b_c` share
  one, and the second table is left without it (migration.rs:157) (m). A NOT NULL column without default
  is skipped and its index then fails the start (m). Of two overlapping
  migrations the second ADD COLUMN fails (m). `create_revocation_tables` takes
  the dialect of the first pool and the fixed name `token_blacklist`, and the
  query for media columns on MySQL is not limited to the database.
* Configuration. Two inclusions of one file are refused as circular (m). Table
  and database of an endpoint are validated apart, so that a table of another
  database passes and is not found later (m). The table and database of
  `auth.register` are not resolved at all. The store `default`, built when none is
  configured, cannot be named by an endpoint (m).
* Access. Where one pattern's base lies below another's, the order of a hash map
  decides which endpoint's roles are checked, and it may be another than the one
  that serves (prefix_match.rs:52) (m). HEAD on an endpoint with GET only is
  routed and then not found (m). Where that endpoint's path lies within a
  pattern that lists HEAD, HEAD is checked and served as the pattern's endpoint,
  and likewise OPTIONS at a bare path; so `ServedAsChecked` asks for the route's
  own endpoint where that lists the method. Nothing is checked where the text of a
  path begins like a route that `auth_middleware` skips (auth/mod.rs:42): so an
  endpoint that takes all paths serves `/_main-serve/healthy` unchecked (m). A reload leaves the endpoints, routes and roles
  of the start in force (state.rs:331) (m).
* CRUD. On Postgres the numbers of an interpolated clause begin at `$1` also
  behind a key (m); the clauses of update and delete are not put in parentheses,
  so that an OR escapes the key (m). `where_clause` is not applied to updates and
  deletes (SPEC.md:725, CONFIGURATION.md:947 say it is) (m). `insert_owner` overrides
  the body (CONFIGURATION.md:952 says the body takes precedence) (m).
  `filtering.enabled` is never looked at (m). A create with a text key on MySQL
  answers with a row whose key compares equal to 0 (m), and one with an integer key
  that is not serial, a plain INTEGER there (migration.rs:529), with none (m). The count ignores joins
  (m), so that the total of a joined list is that of its rows, not of its lines, and its failure becomes a total of 0 (m). Pages by a column that is not
  unique are not stable (m). The offset wraps (m), and `page_size=0` lists nothing
  (m) and reports a page size of 1.
* Media. An upload that is cut short leaves a file without a row (upload.rs:93)
  (m), and an attach may come after the delete of its item (m).

### Mutants

Every property of a passing run has a plausible bug that it catches: an await
inside the swap, a guard that is not released, an off-by-one at the limit,
pruning after one window, the expiry that was meant, a state that is not
removed, a guard that is not held, an upload without its UUID, a restore that
only clears the flag; a copy whose HEAD is not looked at, a marker that is
listed, a token checked without its margin; foreign keys counted once, indexes
looked up in any table, a key that is dropped with the undeclared columns;
tasks detached instead of aborted, a socket bound too early, a wait that never
or at once times out; a second colour mistaken for a cycle, a table looked up
by its name alone, a method that is not compared, parents followed one step
only; pages counted from nought, a delete by key only, the newest id
taken for one's own.

## 4. Proofs

TLAPS proves, for every value of the constants that satisfies the named
assumptions:

| Theorem | Statement | Assumptions |
|---|---|---|
| `HotReloadProofs!TypeCorrect` | `[]TypeOK` | `ConstantsAssumption` |
| `HotReloadProofs!SwapAtomicity` | `[]SwapIsAtomic` | |
| `HotReloadProofs!PoolSafety` | `[](CurrentPoolsOpen /\ ClosedPoolsDrained)` | |
| `HotReloadProofs!DrainSafety` | `[]ClosedPoolsDrained` | |
| `HotReloadProofs!PoolsClosedOnce` | `[]OneCloserPerMap` | |
| `HotReloadProofs!RegistryAgreement` | `[]RegistryFollowsConfig` | |
| `RateLimiterProofs!FixedWindow` | `[]WindowIsBounded` | `LimitAssumption` |
| `RateLimiterProofs!WindowsApart` | `[]WindowsAreApart` | |
| `TokenRevocationProofs!RevocationHolds` | `[]RevokedIsRejected` | `TokensAssumption` |
| `OAuth2FlowProofs!StateIsUsedOnce` | `[]OneLoginPerFlow` | `SettingsAssumption` |
| `OAuth2FlowProofs!CleanupIsSafe` | `[]FirstInTimePasses` | |
| `OAuth2FlowProofs!LimitHolds` | `LimitInForce`, an action property | |
| `StorageProofs!ContractKept` | `KeepsContract`: `Storage` implements `StoreContract` | `PathsAssumption`, `AbsentAssumption`, `BackendsAssumption` |
| `StorageProofs!ListingSafety` | `[]ListingsAgree` | the same |
| `StorageProofs!TokenSafety` | `[]TokenOutlivesRequest` | `TimesAssumption` |
| `MediaFilesProofs!KeptSafety` | `[]KeptUnlessDeleted` | `ItemsAreFresh` |
| `MediaFilesProofs!HealSafety` | `TrashHeals`, an action property | the same |
| `MediaFilesProofs!OwnerSafety` | `[]OwnersOnly` | none |
| `MediaFilesProofs!CatalogueSafety` | `[]CataloguedFilesKept` | none |
| `MediaFilesProofs!RestoreSafety` | `[]RestoreIsWhole` | none |
| `ServerProofs!CloseSafety` | `[]QuietBeforeClose` | `LifeAssumption` |
| `ServerProofs!ServingSafety` | `[]ReadyBeforeServing` | |
| `ServerProofs!InFlightSafety` | `[]InFlightGetTheirTime` | |
| `MigrationProofs!MigrationSafety` | `[]DeclaredDataKept` | `MigrationAssumption` |
| `MigrationProofs!SuccessSafety` | `[]SuccessIsWhole` | the same |
| `MigrationProofs!SortSafety` | `[]SortIsCanonical` | the same |
| `MigrationProofs!RestartSafety` | `[]RestartHeals` | the same |
| `ServerProofs!AcceptanceSafety` | `[]AcceptedResolves` | none |
| `ServerProofs!CycleSafety` | `[]CyclesFound` | `RolesAssumption` |
| `ServerProofs!IncludesSafety` | `[]IncludesRefused` | `FilesAssumption` |
| `ServerProofs!AdmissionSafety` | `[]AdmittedByRole` | `SitesAssumption` |
| `ServerProofs!ServedSafety` | `[]ServedAsChecked` | `SitesAssumption`, `RoutesAssumption` |
| `ServerProofs!CreationSafety` | `[]CreatedIsOwn` | `VerbsAssumption` |
| `ServerProofs!TouchSafety` | `[]TouchesTheAsked` | `VerbsAssumption`, `ListsAssumption`, `KeysAssumption` |
| `ServerProofs!ListSafety` | `[]ListIsExact` | the same |

The assumptions. `ConstantsAssumption`: the first content loaded, since the server
runs on it, and the sets of actors are disjoint. `LimitAssumption`: windows and
limits are numbers, windows positive (the window properties themselves also ask
that all endpoints share a policy and that a task's wait is no longer than a
window). `TokensAssumption`: the `exp` of a token lies beyond the uptime bound, as
Unix times do. `SettingsAssumption`: each content has settings of the right type.
`PathsAssumption`: a path is a list of names, no file is a directory, and what is
above a path is a directory (`CutAssumption`, of the names that go on where others
end, is used by no proof). `AbsentAssumption`: no content is no content.
`BackendsAssumption`: the backends are the five. `TimesAssumption`: a margin is no
shorter than the timeout and a token lives longer than two margins (the code has
60 s, 30 s and an hour). `ItemsAreFresh`: the UUID in the name of an upload is
nobody else's. `LifeAssumption`: the clock's bound lies beyond the wait.
`MigrationAssumption`: tables and media tables are lists, a table of the file has a
column (tables.rs:29) and names each once (tables.rs:38), its foreign keys refer to
tables of the same database (tables.rs:101), a media endpoint names a table of the
file, and a table of the database has finitely many columns. Postgres drops even the last column and
then takes the table for absent (migration.rs:131), which the model has no state for;
so what a destructive migration finds there is assumed to have a column that the
file declares. SQLite and MySQL refuse to drop the last column. `RolesAssumption`: roles are strings and parents lists of them.
`FilesAssumption`: the root and what a pattern matches are on disk (both are
canonicalized, loader.rs:281), and a directive is in a mapping or a sequence.
`SitesAssumption`: endpoints are a list, there are finitely many roles, and
"no_role", which stands for a missing claim, is the name of none. `RoutesAssumption`:
paths are lists of segments with a catch-all at their end only, and no two endpoints
have a route in common; axum panics at the start where this does not hold.
`VerbsAssumption`: a caller asks for one of the verbs. `ListsAssumption`: clauses,
filters and the values of a filter are lists; `in` and `not_in` have at least one
value, as a split at commas yields (select.rs:236), and `contains` has one; a join is
none, inner, left or right (the code's `JoinType`).
`KeysAssumption`: a row carries its key, a list has fewer lines than an offset can
skip, and a body names a key, nothing or the user. `TouchesTheAsked` is itself
about the clauses that do not interpolate on Postgres (`Counted`).

The arguments, by inductive invariant:

* **HotReload.** `SwapIsAtomic` is not inductive: it needs that the holder of
  each write lock is exactly the reload whose program counter is between its
  acquisition and its drop (`LockOwnership`), and how far the assignments have
  come (`SwapProgress`). Open pools need ownership (`PoolOwnership`): a pool
  before its swap is known to nobody else, and one that was replaced belongs to
  one reload, which makes the two drains disjoint and the installed pools never
  the ones a reload closes. The registry needs `RegistryProgress`: it differs
  from the configuration only while some reload still owes a rebuild, or one
  failed or was dropped there. One lemma per conjunct and one step per action.
* **RateLimiter.** The window of a tracked key is its latest and has counted all
  it let through; a pruned key's windows ended a window ago, because pruning
  waits two windows and a late timestamp lags by at most one.
* **TokenRevocation.** What the store holds, or is about to be given, outlives
  the process (so clean-up removes nothing), and while the store answers it has
  every token whose revocation was answered.
* **OAuth2Flow.** What a callback has taken is in the map no more; an entry was
  inserted by the one authorize of its flow; an authorize that waits for the
  mutex holds the guard, so the limit it read is the one in force.
* **Storage implements StoreContract.** A call knows what the contract lets it
  rely on only because nobody else is on its paths. `StoreInv` says so: what a
  call was asked (`Asked`), what it has read is still so when it goes on
  (`Informed`: a copy that was found good is of what its source has, the source
  dropped by a rename is at its target), which steps its backend has (`Known`),
  and that calls under way are on unrelated paths, except for appends to a native
  file (`ApartFrom`). Of the memory backend's locks nothing is needed: what a call
  knows is about its own paths. Every action of each backend is shown to keep this and to be
  a step of the contract or to leave the contract's state alone; the lemma `Frame`
  carries what the other calls know over a step. Azure's behaviours map to an idle
  contract, so all their steps are stutters.
* **Listings.** What a key can be is known from the backend (`PlaceInv`: content
  lies at the paths of files and at the backend's own markers, and object stores
  have no directories), and then each `exists` is compared with each `list`.
* **GcsToken.** The cache reckons with an end no later than the token's although
  it takes the age of the answer for that of the token, since the timeout is no
  longer than the margin (`CacheIsCautious`).
* **MediaFiles.** A file lies under a path that its item has had, or was carried
  along by an item that shares a path (`AtHome`), and a handler works on a path its
  item has had (`Points`); so a rename or unlink by a path read long ago meets the
  file of its own item, or one that the property excepts.
  For `TrashHeals` (`HealInv`): the file of an item that was not torn, removed or
  moved to a shared path is under its row's path, at the root or in the trash of
  one who moved it there (`Here`), unless a move is between its rename and its row
  (`Moving`); the path a handler has is the row's (`Fit`), nobody works on an item
  that is being uploaded (`Uploading`), and a handler that is alone overlaps no
  other (`SoloOf`). So a handler that does not find the file where it looks has it
  at the target already (`FoundElsewhere`).
* **FileStore.** A row's path is claimed by its id and its owner is one of its
  owners (`RowOK`); a request that is past the check of ownership may do what it
  is about to (`MayAccess`), one that unlinks has put its id among the purged
  (`Points`), and a restore alone, past its rename, has cleared the trash
  (`Cleared`). A file never has another's content, so a rename onto a place loses
  nothing.
* **Lifecycle.** Which of the pools, the clean-up task and the tasks of
  connections there are follows from how far `main` has come (`PoolsInStep`,
  `CleanupInStep`, `TasksInStep`).
* **Migration.** A statement that drops, in the list of what a migrator has still
  to execute, is of a column that the configuration lets go (`LawfulSeq`); the
  list was made from a schema that another migrator may have changed since, but
  what may be dropped depends on the configuration only. For what success means
  (`WholeInv`), every migrator has `Progress`: the tables behind it are whole; of the
  table it is at, what is declared is there or its statement is among those left;
  and so for the media tables. An accepted statement achieves what it is for
  (`Achieves`) and, of whatever migration it is, takes nothing away that the file
  declares (`TakesNothing`), so that progress, once made, stays (`ProgressStays`).
  A table that was absent at first is created with all its columns, by whichever
  migrator comes first (`TablesStay`); the last table of the order is the last of
  the file, as the order has every table (`AcceptedOrder`).
  For the order itself, the invariant of the loop (`Loop`) is that the degree of a
  table is the number of its foreign keys that wait for a table not yet listed
  (`Waiting`), so that the queue has those that may come next and each that was
  listed was the first of these (`Listed`). A table that depended on itself would
  depend on one listed before it (`ListedDependsNot`); and if some are left when the
  queue is empty, each of them refers to another of them, and the one that depends
  on the fewest depends on itself (`AllReferring`).
  For restarts (`HealInv`), a migrator alone is `Ready`: each statement it still has
  to execute `Fits` the database (what is to be added is missing, what is to be
  dropped is there), since it was made from what the migrator read, no statement
  occurs twice (`Once`) and none disturbs another. And whoever ran before, the
  database has what was there at first but for what it was allowed to drop (`Kept`).
  So what is refused to a migrator alone was missing from the start and is never
  added, or would have been the last column of its table (`RefusedIsHopeless`); a
  foreign key is no reason, as the tables it refers to come before in the order and
  are whole (`ReferencesAreThere`). `Hopeless` is about the configuration and the
  database as it was found only, so that nothing a migration does makes a case of it
  (an index on a column that is not declared is one that was found, as migrations
  make none such). Where an index is passed over because its name is taken,
  `SuccessIsWhole` excepts it and the statement counts as achieved.
* **Configuration.** An accepted configuration had no problem, and each look-up is
  the negation of a problem. For the search of cycles (`SearchInv`): as long as
  none was reported, the roles of colour 1 are those on the stack, each once, each
  call is for a parent of the one around it, the parents a call has looked at are of
  colour 2 but for the one it waits for, and roles of colour 2 have parents of
  colour 2 and do not inherit from themselves. So a parent of colour 1 closes a
  chain of the stack, and a search that ends without one has coloured everything
  2. For the files (`LoadInv`): what is read and what is left on the stack
  account for every place where a read file includes another (`Account`). A place
  either waits on the stack, there once, or its file has been asked for; no two
  of the latter have the same file, and nothing but the root was asked for
  without one. So a file that is found visited has two places or is the root
  (`FirstItem`), and when nothing is left what was read is closed under inclusion,
  hence all that is reached, each file by one place (`NothingLeft`). What a file
  adds to the stack is `FlattenSeq` of its directives' work, whose recursion is
  solved by `Recursion` (`FlattenLaid`).
* **Access.** The levels of `Inherited` lie within every closed set, and after as
  many levels as there are roles nothing is added any more, since each level
  before added a role (by cardinality); so `Inherited` is the least closed set and
  `check_roles` decides what `Reaches` says. What was presented and the endpoint do
  not change after the check, and the providers are the clone's.
  `ServedAsChecked` follows from what the two look-ups found (`LookedUp`), and that
  they find the same is a matter of the routes. The endpoint of a pattern with a
  brace has a base above every path that the pattern matches (`MatchAround`); of
  two bases above one path one is above the other (`HeadsOfOne`), so patterns that
  are apart are one (`OneAround`), a pattern and its bare paths have no path in
  common (`BareAlone`), and one pattern with a brace matches at most
  (`PatternsMatchOnce`). A route that is the path itself goes before it
  (`LiteralGoesFirst`). So axum's best match exists, and around the path and around
  the pattern lies the same endpoint that lists the method, which is what a
  look-up yields in any order of the map, by a prefix or by the pattern
  (`FoundAround`, `AroundIsFound`).
* **Queries.** Between the insert and the select, and afterwards, a creation has
  the key and the owner of its own row, whatever others have inserted; so what it
  answers with has that key (`CreationInv`). For what a statement touches and
  lists (`AnswerInv`): rows carry their keys, and what was found or changed, once
  answered, is right about the table that the statement met, since only the
  statement's own step puts it there. A creation's key is the last id only where the
  database hands out the keys. That the statement is right about a table
  is a matter of the builders, clause by clause and filter by filter
  (`ClauseApplied`, `FilterApplied`, `FiltersApplied`): what was built so far keeps
  its meaning whatever parameters are appended, because its placeholders name
  only parameters that are there, and the next condition names the ones it
  appends. The filters come by induction over the list of them, the conditions of
  a clause by an account of where each comparison's value has gone
  (`Interpolates`). Without the parentheses a term of the clause alone may hold
  (`TermHolds`), so what an UPDATE or DELETE touches has the asked row and admitted
  rows only (`WhereBounds`). The lines of a list that hold are those that are meant
  (`ListFinds`), a page by LIMIT and OFFSET is the part asked for of any one order of
  them, also where the offset is cut off, as there are fewer lines than that
  (`PagesExact`), and the count finds the rows that are meant (`CountAdmits`).

The library's induction theorems cannot be instantiated here. `MigrationProofs` takes
induction from `WFMin` of `WellFoundedInduction`, which has a set for a parameter:
a set of numbers has a least member (`LeastNumber`), hence induction over a set of
numbers (`UpToN`), and that a function that a recursion defines satisfies its
equations (`Recursion`).

Every safety invariant and action property that the runs check is stated by a
theorem. Only model-checked is liveness: `ReloadsFinish`, `RequestsFinish` and
`ShutdownEnds` need fairness and `ENABLED`, which are beyond the prover.

## 5. Not modelled

* TLS: reads files and builds a configuration; in `Lifecycle` a step that may
  fail. Static files, the SPA host, custom responses and the proxy: stateless
  responses from files or an upstream; which requests reach them is in `Access`.
  CORS, logging and errors: per-request transformations without state.
* Drivers, the text of SQL, HTTP and JSON, JSON schema evaluation, the
  conversion of rows to JSON and back, password hashing, image resizing.
* In `Queries`: more than one joined table, and columns whose names both tables
  have, which the unqualified WHERE makes a refused statement (`StatementFails`);
  LIKE, comparisons by order, JSON paths and the text that `contains` splices into
  the statement, computed fields, the syntax of names. In `Configuration`: environment variables, glob patterns, the
  syntax of YAML. In `Storage`: ranges and streams, listings of more than a page.
* In the other components: the extraction of the rate limiter's client key, the
  mapping of roles in OAuth2, the order of media references, media sharing and
  metadata updates, the making of tokens at login. Registration looks for an
  email and then inserts (auth.rs:229): of two at once, only a constraint that
  the table may not have stops one.

## 6. Plan

The modules and the proofs that were planned are there. What would be modelled next
is in section 5: the race of two registrations with one email, ranges and streams of
the stores, the order of media references, and the making of tokens at login.
