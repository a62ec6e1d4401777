----------------------------- MODULE Lifecycle ------------------------------
(***************************************************************************)
(* The process (src/main.rs): start-up step by step, the accept loop, the  *)
(* connections and the statements of their requests, the clean-up task of  *)
(* the revocation store, and the shutdown on SIGTERM or SIGINT.            *)
(*                                                                         *)
(* serve keeps one task per connection in a JoinSet, waits conn_timeout    *)
(* for them after the signal and drops the set, which aborts the rest; an  *)
(* aborted task ends when the runtime next gets to it. Then the pools are  *)
(* closed, which waits until their connections are handed back.            *)
(***************************************************************************)
EXTENDS Naturals, FiniteSets, Sequences

CONSTANTS
  Connections,  \* the connections clients may open
  ConnTimeout,  \* conn_timeout, the five seconds written in serve
  MaxClock      \* bound: how long is watched after the signal

VARIABLES
  settings,   \* what of the configuration the start-up depends on
  step,       \* the step of async_main, or "exited"
  exitCode,
  dbPools,    \* "none", "open", "closing" or "closed"
  cleanup,    \* the clean-up task: "none", "waiting", "cleaning", "aborted", "stopped"
  connection, \* c |-> the task of the connection
  waited,     \* seconds since the signal
  cut         \* the requests of before the signal that were aborted, and how long after it

lifeVars == <<settings, step, exitCode, dbPools, cleanup, connection, waited, cut>>

LifeAssumption ==
  /\ ConnTimeout \in Nat /\ MaxClock \in Nat
  /\ ConnTimeout < MaxClock

ASSUME LifeAssumption

----------------------------------------------------------------------------
(* Start-up. *)

Settings ==
  [mode: {"serve", "validate", "dry_run"}, databases: BOOLEAN,
   revocation: {"none", "in_memory", "database"}, interval: BOOLEAN,
   tls: BOOLEAN, keepAlive: BOOLEAN]

Unused == [at |-> "free", held |-> FALSE, early |-> FALSE]

LifeInit ==
  /\ settings \in Settings
  /\ step = "load_config" /\ exitCode = "none"
  /\ dbPools = "none" /\ cleanup = "none"
  /\ connection = [c \in Connections |-> Unused]
  /\ waited = 0 /\ cut = {}

\* The steps of main and async_main in their order; those on the databases
\* are taken if there are any.
Steps == <<"load_config", "runtime", "mode", "app_state", "create_pools",
           "revocation_tables", "run_migrations", "ensure_media_columns",
           "set_pools", "set_revocation_store", "spawn_cleanup", "build_router",
           "bind", "tls", "serve">>

OfDatabases == {"create_pools", "revocation_tables", "run_migrations",
                "ensure_media_columns", "set_pools", "set_revocation_store",
                "spawn_cleanup"}

Taken(s) ==
  /\ s \in OfDatabases => settings.databases
  /\ s = "revocation_tables" => settings.revocation = "database"
  /\ s \in {"set_revocation_store", "spawn_cleanup"} => settings.revocation # "none"
  /\ s = "spawn_cleanup" => settings.interval
  /\ s = "tls" => settings.tls

\* A mutant of StepAfter: the listener is bound before the database is ready.
StepAfterBindingEarly(s) ==
  CASE s = "app_state" /\ settings.databases -> "bind"
    [] s = "bind" /\ settings.databases /\ ~settings.tls -> "serve"
    [] OTHER -> LET at == CHOOSE i \in DOMAIN Steps : Steps[i] = s
                    later == {i \in DOMAIN Steps : i > at /\ Taken(Steps[i])}
                IN Steps[CHOOSE i \in later : \A j \in later : i <= j]

StepAfter(s) ==
  LET at == CHOOSE i \in DOMAIN Steps : Steps[i] = s
      later == {i \in DOMAIN Steps : i > at /\ Taken(Steps[i])}
  IN Steps[CHOOSE i \in later : \A j \in later : i <= j]

Fallible == {"load_config", "runtime", "app_state", "create_pools",
             "revocation_tables", "run_migrations", "ensure_media_columns",
             "set_revocation_store", "bind", "tls"}

\* The failures after which close_pools is called; the others leave the pools
\* to process::exit.
ClosesPools == {"revocation_tables", "run_migrations", "ensure_media_columns"}

Exit(code) == step' = "exited" /\ exitCode' = code

\* A step of the start-up that succeeds.
BootStep ==
  /\ step \notin {"mode", "serve", "drain", "stop_cleanup", "close_pools", "exited"}
  /\ step' = StepAfter(step)
  /\ dbPools' = IF step = "create_pools" THEN "open" ELSE dbPools
  /\ cleanup' = IF step = "spawn_cleanup" THEN "waiting" ELSE cleanup
  /\ UNCHANGED <<settings, exitCode, connection, waited, cut>>

\* --validate and --dry-run end here.
CheckMode ==
  /\ step = "mode"
  /\ \/ settings.mode = "serve" /\ step' = StepAfter(step) /\ UNCHANGED exitCode
     \/ settings.mode # "serve" /\ Exit("success")
     \/ settings.mode = "validate" /\ Exit("failure")
  /\ UNCHANGED <<settings, dbPools, cleanup, connection, waited, cut>>

BootFails ==
  /\ step \in Fallible
  /\ Exit("failure")
  /\ dbPools' = IF step \in ClosesPools THEN "closed" ELSE dbPools
  /\ UNCHANGED <<settings, cleanup, connection, waited, cut>>

----------------------------------------------------------------------------
(* Connections and their requests, before and after the signal. *)

Live == {"handshake", "idle", "busy"}

Listening == step = "serve"

Goes(c, at) == connection' = [connection EXCEPT ![c].at = at]

OnlyConnections == UNCHANGED <<settings, step, exitCode, dbPools, cleanup, waited, cut>>

\* listener.accept: the connection gets its task, and stays in the JoinSet
\* after its end, for nothing takes ended tasks out before the signal.
Accept(c) ==
  /\ Listening
  /\ connection[c].at = "free"
  /\ Goes(c, IF settings.tls THEN "handshake" ELSE "idle")
  /\ OnlyConnections

Handshake(c) ==
  /\ connection[c].at = "handshake"
  /\ \/ Goes(c, "idle")
     \/ Goes(c, "ended")
  /\ OnlyConnections

\* A request comes in on a connection that is open, be it after the signal.
Request(c) ==
  /\ connection[c].at = "idle"
  /\ connection' = [connection EXCEPT ![c].at = "busy", ![c].early = Listening]
  /\ OnlyConnections

\* A statement of the handler: a connection of the pool, until its end.
Acquire(c) ==
  /\ connection[c].at = "busy" /\ ~connection[c].held
  /\ dbPools = "open"
  /\ connection' = [connection EXCEPT ![c].held = TRUE]
  /\ OnlyConnections

Release(c) ==
  /\ connection[c].at = "busy" /\ connection[c].held
  /\ connection' = [connection EXCEPT ![c].held = FALSE]
  /\ OnlyConnections

\* The response; keep_alive keeps the connection open for the next request.
Respond(c) ==
  /\ connection[c].at = "busy" /\ ~connection[c].held
  /\ connection' = [connection EXCEPT
       ![c] = [at |-> IF settings.keepAlive THEN "idle" ELSE "ended",
               held |-> FALSE, early |-> FALSE]]
  /\ OnlyConnections

\* The client hangs up, or header_read_timeout passes on an idle connection:
\* the task ends, and with it what its handler held.
Close(c) ==
  /\ connection[c].at \in Live
  /\ connection' = [connection EXCEPT ![c] = [Unused EXCEPT !.at = "ended"]]
  /\ OnlyConnections

----------------------------------------------------------------------------
(* The clean-up task. *)

OnlyCleanup == UNCHANGED <<settings, step, exitCode, dbPools, connection, waited, cut>>

CleanupTick ==
  /\ cleanup = "waiting"
  /\ cleanup' = "cleaning"
  /\ OnlyCleanup

CleanupDone ==
  /\ cleanup = "cleaning"
  /\ cleanup' = "waiting"
  /\ OnlyCleanup

----------------------------------------------------------------------------
(* Shutdown. *)

\* The tasks in the JoinSet: all that were accepted and not joined.
Tasks == {c \in Connections : connection[c].at \notin {"free", "joined"}}

\* shutdown_signal: the accept loop ends.
Signal ==
  /\ Listening
  /\ step' = "drain"
  /\ UNCHANGED <<settings, exitCode, dbPools, cleanup, connection, waited, cut>>

\* join_next returns a task that has ended.
Join(c) ==
  /\ step = "drain"
  /\ connection[c].at = "ended"
  /\ Goes(c, "joined")
  /\ OnlyConnections

\* Mutants of TimedOut: there is no time-out, and nobody is waited for.
NeverTimedOut == FALSE
AtOnce == TRUE

TimedOut == waited >= ConnTimeout

\* The wait ends: every task was joined, or conn_timeout has passed.
DrainEnds ==
  /\ step = "drain"
  /\ Tasks = {} \/ TimedOut
  /\ step' = "stop_cleanup"
  /\ UNCHANGED <<settings, exitCode, dbPools, cleanup, connection, waited, cut>>

\* A mutant of Aborted: the tasks are detached and go on.
Detached(c) == connection[c]

\* What is left in the JoinSet is aborted.
Aborted(c) ==
  IF connection[c].at \in Live THEN [connection[c] EXCEPT !.at = "aborted"]
  ELSE connection[c]

\* The end of serve: the clean-up task is told to stop, and both JoinSets are
\* dropped.
StopCleanup ==
  /\ step = "stop_cleanup"
  /\ step' = "close_pools"
  /\ cleanup' = IF cleanup \in {"waiting", "cleaning"} THEN "aborted" ELSE cleanup
  /\ connection' = [c \in Connections |-> Aborted(c)]
  /\ cut' = cut \cup {<<c, waited>> : c \in {d \in Connections :
                        connection[d].at = "busy" /\ connection[d].early}}
  /\ dbPools' = IF dbPools = "open" THEN "closing" ELSE dbPools
  /\ UNCHANGED <<settings, exitCode, waited>>

\* The runtime gets to an aborted task and drops it.
DropTask(c) ==
  /\ connection[c].at = "aborted"
  /\ connection' = [connection EXCEPT ![c] = [Unused EXCEPT !.at = "ended"]]
  /\ OnlyConnections

DropCleanup ==
  /\ cleanup = "aborted"
  /\ cleanup' = "stopped"
  /\ OnlyCleanup

InUse ==
  \/ \E c \in Connections : connection[c].held
  \/ cleanup \in {"cleaning", "aborted"} /\ settings.revocation = "database"

\* close_pools returns when the pools have all their connections back.
ClosePools ==
  /\ step = "close_pools"
  /\ dbPools \in {"closing", "none"}
  /\ dbPools = "closing" => ~InUse
  /\ dbPools' = IF dbPools = "closing" THEN "closed" ELSE dbPools
  /\ Exit("success")
  /\ UNCHANGED <<settings, cleanup, connection, waited, cut>>

Second ==
  /\ step \in {"drain", "stop_cleanup", "close_pools"}
  /\ waited < MaxClock
  /\ waited' = waited + 1
  /\ UNCHANGED <<settings, step, exitCode, dbPools, cleanup, connection, cut>>

ServeConnection(c) ==
  \/ Accept(c) \/ Handshake(c) \/ Request(c) \/ Acquire(c) \/ Release(c)
  \/ Respond(c) \/ Close(c)

LifeNext ==
  \/ BootStep \/ CheckMode \/ BootFails
  \/ step # "exited" /\ \E c \in Connections : ServeConnection(c)
  \/ step # "exited" /\ \E c \in Connections : Join(c) \/ DropTask(c)
  \/ step # "exited" /\ (CleanupTick \/ CleanupDone \/ DropCleanup)
  \/ Signal \/ DrainEnds \/ StopCleanup \/ ClosePools \/ Second

\* Time passes, main goes on and the runtime gets to what it aborted. Nothing
\* is asked of clients, handlers, statements or the clean-up task.
LifeFairness ==
  /\ WF_lifeVars(Second)
  /\ WF_lifeVars(DrainEnds) /\ WF_lifeVars(StopCleanup) /\ WF_lifeVars(ClosePools)
  /\ WF_lifeVars(DropCleanup)
  /\ \A c \in Connections : WF_lifeVars(Join(c)) /\ WF_lifeVars(DropTask(c))

LifeSpec == LifeInit /\ [][LifeNext]_lifeVars /\ LifeFairness

----------------------------------------------------------------------------
(* Properties. *)

\* No request meets a pool that the shutdown is closing: when it begins, no
\* connection's task goes on but to be dropped, and the clean-up task is told
\* to stop; at the end nobody holds a connection of a pool.
QuietBeforeClose ==
  /\ dbPools \in {"closing", "closed"} =>
       /\ \A c \in Connections : connection[c].at \notin Live
       /\ cleanup \notin {"waiting", "cleaning"}
  /\ dbPools = "closed" => \A c \in Connections : ~connection[c].held

\* A connection is served only when the databases are migrated, their pools
\* installed and the revocation store with its clean-up task in place.
ReadyBeforeServing ==
  (\E c \in Connections : connection[c].at # "free") =>
    /\ settings.databases => dbPools # "none"
    /\ Taken("spawn_cleanup") => cleanup # "none"

\* After the signal the process ends, whatever its clients, handlers and
\* statements do.
ShutdownEnds == step = "drain" ~> step = "exited"

\* A request in flight at the signal is aborted only when conn_timeout has
\* passed since. (server.shutdown_timeout, which the documentation says it
\* gets, goes into a log line only.)
InFlightGetTheirTime == \A r \in cut : r[2] >= ConnTimeout
=============================================================================
