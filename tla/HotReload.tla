------------------------------ MODULE HotReload ------------------------------
(***************************************************************************)
(* Hot reload of a running main-serve process: POST /_main-serve/reload    *)
(* (server/reload.rs, handle_reload) racing with other reloads and with    *)
(* the requests that read the same AppState (server/state.rs): CRUD        *)
(* (handlers/crud.rs) and registration (handlers/auth.rs).                 *)
(*                                                                         *)
(* A configuration is a number: the n-th content of the YAML file.  A pool *)
(* map is identified by who created it: start-up (Boot) or a reload.  The  *)
(* four RwLocks of AppState are tokio locks: FIFO, so a queued writer      *)
(* blocks the readers that come after it.  A guard that is dropped before  *)
(* the next await is acquired, used and released in one step; the guards   *)
(* that live across an await are in writer and registryReaders.            *)
(*                                                                         *)
(* Any handler future may be dropped at an await point (the client goes    *)
(* away), which drops its guards: CancelReload and CancelRequest.          *)
(***************************************************************************)
EXTENDS Naturals, Sequences, FiniteSets

CONSTANTS
  Reloads,      \* concurrent invocations of handle_reload
  Requests,     \* concurrent invocations of the other handlers
  Boot,         \* the pool map created by start-up
  NoWriter,     \* an RwLock that nobody holds for writing
  NumConfigs,   \* how many contents the config file takes on (bound)
  Invalid,      \* the contents load_config refuses
  Serving,      \* the contents that declare the requests' database and table
  StoresOf,     \* StoresOf[c]: the stores section of content c
  Kind          \* Kind[q]: the handler request q runs

Configs == 1 .. NumConfigs
\* "get" is handle_get_one and handle_delete, "create" is handle_create and
\* handle_update.
Kinds == {"list", "get", "create", "register"}
Pools == Reloads \cup {Boot}
Actors == Reloads \cup Requests

\* The first content is the one the server booted with, so it loaded and has
\* passed migrations; nobody is both a reload and a request.
ASSUME ConstantsAssumption ==
  /\ NumConfigs \in Nat \ {0}
  /\ Invalid \subseteq Configs \ {1}
  /\ Serving \subseteq Configs
  /\ Kind \in [Requests -> Kinds]
  /\ DOMAIN StoresOf = Configs
  /\ Boot \notin Reloads
  /\ Reloads \cap Requests = {}
  /\ NoWriter \notin Reloads

VARIABLES
  disk,            \* the content now in the config file
  config,          \* AppState.config
  pools,           \* AppState.db_pools, as the id of the map's creator
  storeConfigs,    \* AppState.store_configs: the content it was taken from
  stores,          \* AppState.stores: name -> configuration it was built from
  registry,        \* AppState.schema_registry: the content it was built from
  writer,          \* writer[l]: the reload that holds lock l for writing
  registryReaders, \* requests that hold schema_registry for reading
  queue,           \* queue[l]: the tasks waiting for lock l, in order
  poolState,       \* poolState[p] of the sqlx pools of map p
  rpc,             \* rpc[r]: the await point or step reload r is at
  newCfg,          \* new_config
  oldStoreCfgs,    \* old_store_configs
  newStores,       \* new_stores
  oldPool,         \* old_pools
  outcome,         \* the response of reload r
  qpc, qpool, left, result

locks == <<writer, registryReaders, queue>>
shared == <<config, pools, storeConfigs, stores, registry>>
rlocals == <<newCfg, oldStoreCfgs, newStores, oldPool>>
qvars == <<qpc, qpool, left, result>>
vars == <<disk, shared, locks, poolState, rpc, rlocals, outcome, qvars>>

LockNames == {"config", "pools", "store_configs", "registry"}

\* The configuration the pools of map p were connected with.
PoolConfig(p) == IF p = Boot THEN 1 ELSE newCfg[p]

-----------------------------------------------------------------------------
(* tokio::sync::RwLock *)

Waiting(l, a) == queue[l] # << >> /\ Head(queue[l]) = a
CanRead(l, a) == Waiting(l, a) /\ writer[l] = NoWriter
CanWrite(l, a) == CanRead(l, a) /\ (l = "registry" => registryReaders = {})

\* The first poll of lock().await joins the queue; a later one that finds
\* the task at its head, and the lock compatible, gets the guard.
Queued(l, a) == \E i \in 1 .. Len(queue[l]) : queue[l][i] = a
Enqueue(l, a) ==
  /\ ~Queued(l, a)
  /\ queue' = [queue EXCEPT ![l] = Append(@, a)]
Leave(l) == [queue EXCEPT ![l] = Tail(@)]
\* Dropping a future that waits for locks takes it out of their queues, where
\* it occurs at most once.
Without(s, a) ==
  IF \E i \in 1 .. Len(s) : s[i] = a
    THEN LET at == CHOOSE i \in 1 .. Len(s) : s[i] = a
         IN  [i \in 1 .. Len(s) - 1 |-> s[IF i < at THEN i ELSE i + 1]]
    ELSE s
Withdraw(a) == [l \in LockNames |-> Without(queue[l], a)]
\* Dropping a write guard.
Unlock(l) == [writer EXCEPT ![l] = NoWriter]

-----------------------------------------------------------------------------
(* Storage backends: compute_store_changes and the rebuilt map *)

\* store_config_eq compares backend, root and the bucket or container ("id")
\* and not the region, credentials or endpoint ("rest").
StoreConfigEq(a, b) == a.id = b.id

ChangedOrRemoved(old, new) ==
  {n \in DOMAIN old : n \notin DOMAIN new \/ ~StoreConfigEq(old[n], new[n])}
    \cup (DOMAIN new \ DOMAIN old)

\* Changed and removed stores leave the copied map, then every store of the
\* new section that is not unchanged is created from its configuration.
RebuiltStores(cur, old, new) ==
  LET changed == ChangedOrRemoved(old, new)
  IN  IF changed = {} THEN cur
      ELSE [n \in (DOMAIN cur \ changed) \cup (DOMAIN new \cap changed) |->
              IF n \in changed THEN new[n] ELSE cur[n]]

-----------------------------------------------------------------------------
(* Start-up (main.rs) and the operator who edits the file *)

Init ==
  /\ disk = 1 /\ config = 1 /\ pools = Boot /\ storeConfigs = 1
  /\ stores = StoresOf[1] /\ registry = 1
  /\ writer = [l \in LockNames |-> NoWriter]
  /\ registryReaders = {}
  /\ queue = [l \in LockNames |-> << >>]
  /\ poolState = [p \in Pools |-> IF p = Boot THEN "open" ELSE "none"]
  /\ rpc = [r \in Reloads |-> "idle"]
  /\ newCfg = [r \in Reloads |-> 1]
  /\ oldStoreCfgs = [r \in Reloads |-> 1]
  /\ newStores = [r \in Reloads |-> StoresOf[1]]
  /\ oldPool = [r \in Reloads |-> Boot]
  /\ outcome = [r \in Reloads |-> "none"]
  /\ qpc = [q \in Requests |-> "idle"]
  /\ qpool = [q \in Requests |-> Boot]
  /\ left = [q \in Requests |-> 0]
  /\ result = [q \in Requests |-> "none"]

EditConfig ==
  /\ disk < NumConfigs
  /\ disk' = disk + 1
  /\ UNCHANGED <<shared, locks, poolState, rpc, rlocals, outcome, qvars>>

-----------------------------------------------------------------------------
(* handle_reload *)

Goto(r, step) == rpc' = [rpc EXCEPT ![r] = step]
Finish(r, o) == Goto(r, "done") /\ outcome' = [outcome EXCEPT ![r] = o]

\* The token check and load_config; no await between them.
RejectReload(r) ==
  /\ rpc[r] = "idle"
  /\ \/ Finish(r, "unauthorized")
     \/ disk \in Invalid /\ Finish(r, "error")
  /\ UNCHANGED <<disk, shared, locks, poolState, rlocals, qvars>>

LoadConfig(r) ==
  /\ rpc[r] = "idle"
  /\ disk \notin Invalid
  /\ newCfg' = [newCfg EXCEPT ![r] = disk]
  /\ Goto(r, "read_store_configs")
  /\ UNCHANGED <<disk, shared, locks, poolState, oldStoreCfgs, newStores,
                 oldPool, outcome, qvars>>

\* The lock handle_reload asks for at each of its lock().await points.
ReloadLock ==
  [read_store_configs |-> "store_configs", lock_config |-> "config",
   lock_pools |-> "pools", lock_store_configs |-> "store_configs",
   lock_registry |-> "registry", rebuild |-> "config"]

AwaitLock(r) ==
  /\ rpc[r] \in DOMAIN ReloadLock
  /\ Enqueue(ReloadLock[rpc[r]], r)
  /\ UNCHANGED <<disk, shared, writer, registryReaders, poolState, rpc,
                 rlocals, outcome, qvars>>

ReadStoreConfigs(r) ==
  /\ rpc[r] = "read_store_configs"
  /\ CanRead("store_configs", r)
  /\ queue' = Leave("store_configs")
  /\ oldStoreCfgs' = [oldStoreCfgs EXCEPT ![r] = storeConfigs]
  /\ Goto(r, "create_pools")
  /\ UNCHANGED <<disk, shared, writer, registryReaders, poolState, newCfg,
                 newStores, oldPool, outcome, qvars>>

CreatePools(r) ==
  /\ rpc[r] = "create_pools"
  /\ poolState' = [poolState EXCEPT ![r] = "open"]
  /\ Goto(r, "migrate")
  /\ UNCHANGED <<disk, shared, locks, rlocals, outcome, qvars>>

\* Pools already connected are dropped with the map that held them.
CreatePoolsFails(r) ==
  /\ rpc[r] = "create_pools"
  /\ Finish(r, "error")
  /\ UNCHANGED <<disk, shared, locks, poolState, rlocals, qvars>>

\* run_migrations and ensure_media_columns against the new pools.
Migrate(r) ==
  /\ rpc[r] = "migrate"
  /\ Goto(r, "create_stores")
  /\ UNCHANGED <<disk, shared, locks, poolState, rlocals, outcome, qvars>>

MigrateFails(r) ==
  /\ rpc[r] = "migrate"
  /\ poolState' = [poolState EXCEPT ![r] = "closed"]
  /\ Finish(r, "error")
  /\ UNCHANGED <<disk, shared, locks, rlocals, qvars>>

\* The handler's clone of AppState still has the stores of start-up.
CreateStores(r) ==
  /\ rpc[r] = "create_stores"
  /\ newStores' = [newStores EXCEPT ![r] =
       RebuiltStores(stores, StoresOf[oldStoreCfgs[r]], StoresOf[newCfg[r]])]
  /\ Goto(r, "lock_config")
  /\ UNCHANGED <<disk, shared, locks, poolState, newCfg, oldStoreCfgs,
                 oldPool, outcome, qvars>>

\* The early return drops new_pools, the only handle of the new pools.
CreateStoresFails(r) ==
  /\ rpc[r] = "create_stores"
  /\ ChangedOrRemoved(StoresOf[oldStoreCfgs[r]], StoresOf[newCfg[r]])
       \cap DOMAIN StoresOf[newCfg[r]] # {}
  /\ poolState' = [poolState EXCEPT ![r] = "closed"]
  /\ Finish(r, "error")
  /\ UNCHANGED <<disk, shared, locks, rlocals, qvars>>

\* The three write guards are taken in this order and all held.
AcquireWrite(r, at, l, next) ==
  /\ rpc[r] = at
  /\ CanWrite(l, r)
  /\ queue' = Leave(l)
  /\ writer' = [writer EXCEPT ![l] = r]
  /\ Goto(r, next)
  /\ UNCHANGED <<disk, shared, registryReaders, poolState, rlocals, outcome,
                 qvars>>

LockConfig(r) == AcquireWrite(r, "lock_config", "config", "lock_pools")

LockPools(r) == AcquireWrite(r, "lock_pools", "pools", "lock_store_configs")

LockStoreConfigs(r) ==
  AcquireWrite(r, "lock_store_configs", "store_configs", "swap_pools")

\* std::mem::replace: the map that was installed until now.
ReplacedPoolsOfBoot == Boot
ReplacedPools == pools

SwapPools(r) ==
  /\ rpc[r] = "swap_pools"
  /\ oldPool' = [oldPool EXCEPT ![r] = ReplacedPools]
  /\ pools' = r
  /\ Goto(r, "swap_config")
  /\ UNCHANGED <<disk, config, storeConfigs, stores, registry, locks,
                 poolState, newCfg, oldStoreCfgs, newStores, outcome, qvars>>

SwapConfig(r) ==
  /\ rpc[r] = "swap_config"
  /\ config' = newCfg[r]
  /\ Goto(r, "swap_store_configs")
  /\ UNCHANGED <<disk, pools, storeConfigs, stores, registry, locks, poolState,
                 rlocals, outcome, qvars>>

SwapStoreConfigs(r) ==
  /\ rpc[r] = "swap_store_configs"
  /\ storeConfigs' = newCfg[r]
  /\ Goto(r, "drop_store_configs")
  /\ UNCHANGED <<disk, config, pools, stores, registry, locks, poolState,
                 rlocals, outcome, qvars>>

Release(r, at, l, next) ==
  /\ rpc[r] = at
  /\ writer' = Unlock(l)
  /\ Goto(r, next)
  /\ UNCHANGED <<disk, shared, registryReaders, queue, poolState, rlocals,
                 outcome, qvars>>

DropStoreConfigs(r) ==
  Release(r, "drop_store_configs", "store_configs", "drop_pools")

DropPools(r) == Release(r, "drop_pools", "pools", "drop_config")

\* The guard of config kept to the end of the handler.
DropConfigForgotten(r) ==
  /\ rpc[r] = "drop_config"
  /\ Goto(r, "lock_registry")
  /\ UNCHANGED <<disk, shared, locks, poolState, rlocals, outcome, qvars>>

\* drop(config), then state.stores = new_stores, which assigns the field of
\* the handler's own clone of AppState: the shared stores do not change.
DropConfig(r) == Release(r, "drop_config", "config", "lock_registry")

LockRegistry(r) == AcquireWrite(r, "lock_registry", "registry", "rebuild")

\* The content whose schemas the registry is rebuilt from.
RebuildSourceOwn(r) == newCfg[r]
RebuildSource(r) == config

\* SchemaRegistry::new under registry.write and config.read, both dropped at
\* the end of the block.
RebuildRegistry(r) ==
  /\ rpc[r] = "rebuild"
  /\ CanRead("config", r)
  /\ queue' = Leave("config")
  /\ registry' = RebuildSource(r)
  /\ writer' = Unlock("registry")
  /\ Goto(r, "close")
  /\ UNCHANGED <<disk, config, pools, storeConfigs, stores, registryReaders,
                 poolState, rlocals, outcome, qvars>>

\* A schema that does not compile, or whose file is missing: the early return
\* drops both guards and old_pools.
RebuildRegistryFails(r) ==
  /\ rpc[r] = "rebuild"
  /\ CanRead("config", r)
  /\ queue' = Leave("config")
  /\ writer' = Unlock("registry")
  /\ Finish(r, "registry_error")
  /\ UNCHANGED <<disk, shared, registryReaders, poolState, rlocals, qvars>>

\* close_pools(&old_pools): sqlx refuses new acquires from here on ...
CloseOldPools(r) ==
  /\ rpc[r] = "close"
  /\ poolState' = [poolState EXCEPT ![oldPool[r]] = "closing"]
  /\ Goto(r, "drain")
  /\ UNCHANGED <<disk, shared, locks, rlocals, outcome, qvars>>

\* The requests that hold a connection of map p.
Busy(p) == {q \in Requests : qpc[q] = "query" /\ qpool[q] = p}

\* ... and waits for the connections that are out.
NotDrained(p) == TRUE
Drained(p) == Busy(p) = {}
DrainOldPools(r) ==
  /\ rpc[r] = "drain"
  /\ Drained(oldPool[r])
  /\ poolState' = [poolState EXCEPT ![oldPool[r]] = "closed"]
  /\ Finish(r, "ok")
  /\ UNCHANGED <<disk, shared, locks, rlocals, qvars>>

BeforeSwap == {"read_store_configs", "create_pools", "migrate",
               "create_stores", "lock_config", "lock_pools",
               "lock_store_configs"}
AfterSwap == {"lock_registry", "rebuild", "drain"}
\* Where the handler future can be dropped: its await points.
AwaitPointsInSwap == BeforeSwap \cup {"swap_config"} \cup AfterSwap
AwaitPoints == BeforeSwap \cup AfterSwap

\* Dropping the future drops its guards, its place in a queue and, before the
\* swap, the only handle of the new pools.
DroppedPoolEvenIfInstalled(r) == [poolState EXCEPT ![r] = "closed"]
DroppedPool(r) ==
  IF rpc[r] \in BeforeSwap /\ poolState[r] = "open"
    THEN [poolState EXCEPT ![r] = "closed"] ELSE poolState

CancelReload(r) ==
  /\ rpc[r] \in AwaitPoints
  /\ queue' = Withdraw(r)
  /\ writer' = [l \in LockNames |->
                  IF writer[l] = r THEN NoWriter ELSE writer[l]]
  /\ poolState' = DroppedPool(r)
  /\ Finish(r, IF rpc[r] \in BeforeSwap \cup {"drain"}
                 THEN "cancelled" ELSE "cancelled_in_rebuild")
  /\ UNCHANGED <<disk, shared, registryReaders, rlocals, qvars>>

-----------------------------------------------------------------------------
(* The requests: get_db_context, registration_pool and the statements *)

QGoto(q, step) == qpc' = [qpc EXCEPT ![q] = step]

\* How many SQL statements the handler runs, each with a connection of its
\* own: a page and its count; INSERT and, without RETURNING, SELECT of the
\* row; columns, uniqueness check, INSERT and SELECT of the new user.
Statements == [list |-> {2}, get |-> {1}, create |-> {1, 2}, register |-> {4}]

\* The response; the guard of the registry, if held, is dropped.
Respond(q, res) ==
  /\ QGoto(q, "done")
  /\ result' = [result EXCEPT ![q] = res]
  /\ registryReaders' = registryReaders \ {q}

Arrive(q) ==
  /\ qpc[q] = "idle"
  /\ \E n \in Statements[Kind[q]] : left' = [left EXCEPT ![q] = n]
  /\ QGoto(q, IF Kind[q] = "register" THEN "config" ELSE "pools")
  /\ UNCHANGED <<disk, shared, locks, poolState, rpc, rlocals, outcome, qpool,
                 result>>

\* A request waiting for lock l is at step l.
AwaitReadLock(q) ==
  /\ qpc[q] \in LockNames
  /\ Enqueue(qpc[q], q)
  /\ UNCHANGED <<disk, shared, writer, registryReaders, poolState, rpc,
                 rlocals, outcome, qvars>>

\* AppState::db_pool
DbPool(q) ==
  /\ qpc[q] = "pools"
  /\ CanRead("pools", q)
  /\ queue' = Leave("pools")
  /\ IF PoolConfig(pools) \notin Serving
       THEN Respond(q, "error") /\ UNCHANGED qpool
       ELSE /\ qpool' = [qpool EXCEPT ![q] = pools]
            /\ QGoto(q, IF Kind[q] = "register" THEN "exec" ELSE "config")
            /\ UNCHANGED <<result, registryReaders>>
  /\ UNCHANGED <<disk, shared, writer, poolState, rpc, rlocals, outcome, left>>

\* The second half of get_db_context (the table), the first half of
\* registration_pool (auth.register) and, when the user exists, jwt_config.
ReadConfig(q) ==
  /\ qpc[q] = "config"
  /\ CanRead("config", q)
  /\ queue' = Leave("config")
  /\ IF config \notin Serving \/ left[q] = 0
       THEN Respond(q, IF config \in Serving THEN "ok" ELSE "error")
       ELSE /\ QGoto(q, [list |-> "exec", get |-> "exec",
                         create |-> "registry", register |-> "pools"][Kind[q]])
            /\ UNCHANGED <<result, registryReaders>>
  /\ UNCHANGED <<disk, shared, writer, poolState, rpc, rlocals, outcome, qpool,
                 left>>

\* handle_crud keeps the read guard until the handler returns.
ReadRegistry(q) ==
  /\ qpc[q] = "registry"
  /\ CanRead("registry", q)
  /\ queue' = Leave("registry")
  /\ registryReaders' = registryReaders \cup {q}
  /\ QGoto(q, "exec")
  /\ UNCHANGED <<disk, shared, writer, poolState, rpc, rlocals, outcome, qpool,
                 left, result>>

\* handle_list answers 200 with total 0 when its count fails.
Failure(q, res) ==
  IF Kind[q] = "list" /\ left[q] = 1 THEN "total_zero" ELSE res

\* Validation, query building or the database refuses the request.
FailRequest(q) ==
  /\ qpc[q] \in {"exec", "query"}
  /\ Respond(q, Failure(q, "error"))
  /\ UNCHANGED <<disk, shared, writer, queue, poolState, rpc, rlocals, outcome,
                 qpool, left>>

AcquireConnection(q) ==
  /\ qpc[q] = "exec"
  /\ poolState[qpool[q]] = "open"
  /\ QGoto(q, "query")
  /\ UNCHANGED <<disk, shared, locks, poolState, rpc, rlocals, outcome, qpool,
                 left, result>>

\* sqlx answers PoolClosed.
PoolClosed(q) ==
  /\ qpc[q] = "exec"
  /\ poolState[qpool[q]] # "open"
  /\ Respond(q, Failure(q, "pool_closed"))
  /\ UNCHANGED <<disk, shared, writer, queue, poolState, rpc, rlocals, outcome,
                 qpool, left>>

AnotherStatementOffByOne(q) == left[q] >= 0
AnotherStatement(q) == left[q] > 1

\* The statement ran and its connection is back in the pool.  A registration
\* reads the config once more, for the key its token is signed with.
RunStatement(q) ==
  /\ qpc[q] = "query"
  /\ left' = [left EXCEPT ![q] = @ - 1]
  /\ IF AnotherStatement(q)
       THEN QGoto(q, "exec") /\ UNCHANGED <<result, registryReaders>>
       ELSE IF Kind[q] = "register"
       THEN QGoto(q, "config") /\ UNCHANGED <<result, registryReaders>>
       ELSE Respond(q, "ok")
  /\ UNCHANGED <<disk, shared, writer, queue, poolState, rpc, rlocals, outcome,
                 qpool>>

CancelRequest(q) ==
  /\ qpc[q] \notin {"idle", "done"}
  /\ Respond(q, "cancelled")
  /\ queue' = Withdraw(q)
  /\ UNCHANGED <<disk, shared, writer, poolState, rpc, rlocals, outcome, qpool,
                 left>>

-----------------------------------------------------------------------------

ReloadStep(r) ==
  \/ RejectReload(r) \/ LoadConfig(r) \/ AwaitLock(r) \/ ReadStoreConfigs(r)
  \/ CreatePools(r) \/ CreatePoolsFails(r) \/ Migrate(r) \/ MigrateFails(r)
  \/ CreateStores(r) \/ CreateStoresFails(r)
  \/ LockConfig(r) \/ LockPools(r) \/ LockStoreConfigs(r)
  \/ SwapPools(r) \/ SwapConfig(r) \/ SwapStoreConfigs(r)
  \/ DropStoreConfigs(r) \/ DropPools(r) \/ DropConfig(r)
  \/ LockRegistry(r) \/ RebuildRegistry(r) \/ RebuildRegistryFails(r)
  \/ CloseOldPools(r) \/ DrainOldPools(r)

RequestStep(q) ==
  \/ Arrive(q) \/ AwaitReadLock(q) \/ DbPool(q) \/ ReadConfig(q) \/ ReadRegistry(q)
  \/ FailRequest(q) \/ AcquireConnection(q) \/ PoolClosed(q)
  \/ RunStatement(q)

Quiescent == \A r \in Reloads : rpc[r] \in {"idle", "done"}

\* Every handler has answered: nothing is left to do.
Terminated ==
  /\ \A r \in Reloads : rpc[r] = "done"
  /\ \A q \in Requests : qpc[q] = "done"
  /\ UNCHANGED vars

Next ==
  \/ EditConfig
  \/ \E r \in Reloads : ReloadStep(r) \/ CancelReload(r)
  \/ \E q \in Requests : RequestStep(q) \/ CancelRequest(q)
  \/ Terminated

Spec == Init /\ [][Next]_vars

\* The tokio runtime keeps polling a task that can make progress, and the
\* databases and the disk answer; no client is obliged to send a request,
\* and a disconnect is never obliged to happen.
Fairness ==
  /\ \A r \in Reloads : WF_vars(rpc[r] # "idle" /\ ReloadStep(r))
  /\ \A q \in Requests : WF_vars(qpc[q] # "idle" /\ RequestStep(q))

FairSpec == Spec /\ Fairness

-----------------------------------------------------------------------------
(* Properties *)

Outcomes == {"none", "unauthorized", "error", "registry_error", "ok",
             "cancelled", "cancelled_in_rebuild"}
Results == {"none", "error", "pool_closed", "total_zero", "ok", "cancelled"}
\* Between std::mem::replace and the end of the three assignments.
InSwap == {"swap_config", "swap_store_configs"}
DropPcs == {"drop_store_configs", "drop_pools", "drop_config"}
ReloadPcs == {"idle", "done", "swap_pools", "close"} \cup BeforeSwap
               \cup InSwap \cup DropPcs \cup AfterSwap
RequestPcs == {"idle", "pools", "config", "registry", "exec", "query", "done"}

Queues == [LockNames -> Seq(Actors)]

\* Every field of AppState and every handler local has its type.
TypeOK ==
  /\ disk \in Configs /\ config \in Configs /\ pools \in Pools
  /\ storeConfigs \in Configs /\ registry \in Configs
  /\ writer \in [LockNames -> Reloads \cup {NoWriter}]
  /\ registryReaders \subseteq Requests
  /\ queue \in Queues
  /\ poolState \in [Pools -> {"none", "open", "closing", "closed"}]
  /\ rpc \in [Reloads -> ReloadPcs]
  /\ newCfg \in [Reloads -> Configs]
  /\ oldStoreCfgs \in [Reloads -> Configs]
  /\ oldPool \in [Reloads -> Pools]
  /\ outcome \in [Reloads -> Outcomes]
  /\ qpc \in [Requests -> RequestPcs]
  /\ qpool \in [Requests -> Pools]
  /\ left \in [Requests -> Nat]
  /\ result \in [Requests -> Results]

\* handle_reload holds all three write locks across the swap: whoever could
\* read config, db_pools and store_configs together sees one configuration.
SwapIsAtomic ==
  (\A l \in {"config", "pools", "store_configs"} : writer[l] = NoWriter)
    => PoolConfig(pools) = config /\ storeConfigs = config

\* Whatever reloads overlap, fail or are cancelled, the pools a new request
\* gets from db_pools are open: close_pools only meets pools that were
\* replaced or never installed.
CurrentPoolsOpen == poolState[pools] = "open"

\* close_pools lets the statements that are running finish: a pool reported
\* closed has no connection out.
ClosedPoolsDrained == \A p \in Pools : poolState[p] = "closed" => Busy(p) = {}

\* Overlapping reloads never drain the same pools twice: each replaced map
\* has one owner.
OneCloserPerMap ==
  \A r1, r2 \in Reloads :
    (r1 # r2 /\ {rpc[r1], rpc[r2]} \subseteq {"close", "drain"})
      => oldPool[r1] # oldPool[r2]

\* The registry is rebuilt from the shared config under config.read, so once
\* every reload is over it validates against the tables that are served,
\* whichever of several overlapping reloads rebuilt it last.  Only a reload
\* that stopped between the swap and the rebuild can leave it behind.
RegistryFollowsConfig ==
  (/\ Quiescent
   /\ \A r \in Reloads : outcome[r] \notin {"registry_error",
                                            "cancelled_in_rebuild"})
    => registry = config

\* A reload that got past its first step answers: no lock order, queue or
\* drain keeps it waiting for ever.
ReloadsFinish ==
  \A r \in Reloads : rpc[r] # "idle" ~> rpc[r] = "done"

\* So does a request, however many reloads it races with.
RequestsFinish ==
  \A q \in Requests : qpc[q] # "idle" ~> qpc[q] = "done"

-----------------------------------------------------------------------------
(* The inductive invariant behind the safety properties *)

\* A handler that has not answered has a statement left to run, or its
\* token to sign.
StatementsLeft ==
  \A q \in Requests : qpc[q] \notin {"idle", "config", "done"} => left[q] > 0

HoldsConfig == {"lock_pools", "lock_store_configs", "swap_pools"}
                 \cup InSwap \cup DropPcs
HoldsPools == {"lock_store_configs", "swap_pools", "drop_store_configs",
               "drop_pools"} \cup InSwap
HoldsStoreConfigs == {"swap_pools", "drop_store_configs"} \cup InSwap

\* A write guard is held exactly between the steps that take and drop it.
LockOwnership ==
  \A r \in Reloads :
    /\ writer["config"] = r <=> rpc[r] \in HoldsConfig
    /\ writer["pools"] = r <=> rpc[r] \in HoldsPools
    /\ writer["store_configs"] = r <=> rpc[r] \in HoldsStoreConfigs

\* How far the three assignments have come.
SwapProgress ==
  /\ \A r \in Reloads :
       /\ rpc[r] = "swap_config" => pools = r /\ storeConfigs = config
       /\ rpc[r] = "swap_store_configs" => pools = r /\ config = newCfg[r]
  /\ (\A r \in Reloads : rpc[r] \notin InSwap)
       => PoolConfig(pools) = config /\ storeConfigs = config

NotInstalled == {"idle", "swap_pools"} \cup BeforeSwap
Installed == InSwap \cup DropPcs \cup AfterSwap \cup {"close"}

\* The pools of a reload before its swap are known to nobody else, and those
\* it replaced are no longer in db_pools and belong to it alone.
PoolOwnership ==
  /\ \A r \in Reloads : rpc[r] \in NotInstalled =>
       /\ pools # r
       /\ \A r2 \in Reloads : oldPool[r2] # r
       /\ \A q \in Requests : qpool[q] # r
  /\ \A r \in Reloads : rpc[r] = "swap_pools" \/ rpc[r] \in BeforeSwap \
       {"read_store_configs", "create_pools"} => poolState[r] = "open"
  /\ \A r \in Reloads : rpc[r] \in Installed => oldPool[r] # pools
  /\ \A r1, r2 \in Reloads :
       (r1 # r2 /\ rpc[r1] \in Installed /\ rpc[r2] \in Installed)
         => oldPool[r1] # oldPool[r2]

\* Reloads that have changed config and not yet rebuilt the registry.
RebuildPending == {"swap_store_configs", "lock_registry", "rebuild"} \cup DropPcs

\* Where the registry lags behind, a reload still has to rebuild it or has
\* given up doing so.
RegistryProgress ==
  /\ \A r \in Reloads : outcome[r] # "none" => rpc[r] = "done"
  /\ \/ registry = config
     \/ \E r \in Reloads : \/ rpc[r] \in RebuildPending
                           \/ outcome[r] \in {"registry_error",
                                              "cancelled_in_rebuild"}

IndInv ==
  /\ TypeOK /\ StatementsLeft /\ LockOwnership /\ SwapProgress /\ PoolOwnership
  /\ CurrentPoolsOpen /\ ClosedPoolsDrained /\ RegistryProgress

-----------------------------------------------------------------------------
(* What the documentation says and the code does not do *)

\* reload.rs:206: "Atomically swap config, pools, stores, and store_configs
\* together": after a successful reload the stores are those of the config.
StoresAreSwapped ==
  (Quiescent /\ \E r \in Reloads : outcome[r] = "ok")
    => stores = StoresOf[storeConfigs]

\* CONFIGURATION.md:1305: a reload that is refused leaves "the running
\* configuration unchanged".
RefusedReloadChangesNothing ==
  (/\ Quiescent
   /\ \A r \in Reloads : outcome[r] \in {"none", "error", "registry_error"})
    => config = 1
=============================================================================
