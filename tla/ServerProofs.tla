---------------------------- MODULE ServerProofs ----------------------------
(***************************************************************************)
(* Proofs about the server around its stores: the process, the             *)
(* configuration, the way of a request to its handler and the CRUD         *)
(* handlers.                                                               *)
(***************************************************************************)
EXTENDS MigrationProofs, Lifecycle, Configuration, Access, Queries

----------------------------------------------------------------------------
(* The order of the start-up. *)

UpToPools == {"load_config", "runtime", "mode", "app_state", "create_pools"}
UpToCleanup ==
  UpToPools \cup {"revocation_tables", "run_migrations", "ensure_media_columns",
                  "set_pools", "set_revocation_store", "spawn_cleanup"}
UpToServing == UpToCleanup \cup {"build_router", "bind", "tls"}
Serving == {"serve", "drain", "stop_cleanup", "close_pools"}

\* The step after one of the start-up: the nearest that is taken.
LEMMA StepAfterIsNext ==
  ASSUME settings \in Settings, NEW i \in 1 .. 14
  PROVE  \E j \in 1 .. 15 :
           /\ i < j /\ StepAfter(Steps[i]) = Steps[j] /\ Taken(Steps[j])
           /\ \A k \in 1 .. 15 : i < k /\ k < j => ~Taken(Steps[k])
<1> DEFINE at == CHOOSE k \in DOMAIN Steps : Steps[k] = Steps[i]
           later == {k \in DOMAIN Steps : k > at /\ Taken(Steps[k])}
           next == CHOOSE k \in later : \A j \in later : k <= j
<1>1. DOMAIN Steps = 1 .. 15
  BY DEF Steps
<1>2. \A k, l \in 1 .. 15 : Steps[k] = Steps[l] => k = l
  BY DEF Steps
<1>3. at = i
  BY <1>1, <1>2
<1>4. 15 \in later
  BY <1>1, <1>3 DEF Steps, Taken, OfDatabases
<1>5. later \in SUBSET Nat /\ later \subseteq 1 .. 15
  BY <1>1
<1> HIDE DEF later
<1>6. \E k \in later : \A j \in later : k <= j
  BY <1>4, <1>5, LeastNumber
<1>7. next \in later /\ \A j \in later : next <= j
  BY <1>6
<1>8. StepAfter(Steps[i]) = Steps[next]
  BY DEF StepAfter, later
<1> HIDE DEF next, at
<1>9. next \in 1 .. 15
  BY <1>5, <1>7
<1>10. i < next /\ Taken(Steps[next])
  BY <1>1, <1>3, <1>5, <1>7 DEF later
<1>11. ASSUME NEW k \in 1 .. 15, i < k, k < next PROVE ~Taken(Steps[k])
  BY <1>1, <1>3, <1>5, <1>7, <1>11 DEF later
<1>12. QED
  BY <1>8, <1>9, <1>10, <1>11

\* What the steps on the databases are skipped for, and what is never skipped.
LEMMA StepAfterStays ==
  ASSUME settings \in Settings, NEW s \in UpToServing
  PROVE  /\ StepAfter(s) \in UpToServing \cup {"serve"}
         /\ Taken(StepAfter(s))
         /\ s \notin UpToPools => StepAfter(s) \notin UpToPools
         /\ s \notin UpToCleanup => StepAfter(s) \notin UpToCleanup
         /\ settings.databases /\ s \in UpToPools \ {"create_pools"} =>
              StepAfter(s) \in UpToPools
         /\ s = "create_pools" => StepAfter(s) \notin UpToPools
         /\ Taken("spawn_cleanup") /\ s \in UpToCleanup \ {"spawn_cleanup"} =>
              StepAfter(s) \in UpToCleanup
         /\ s = "spawn_cleanup" => StepAfter(s) \notin UpToCleanup
<1>1. PICK i \in 1 .. 14 : Steps[i] = s
  <2> DEFINE Here(i) == i \in 1 .. 14 /\ Steps[i] = s
  <2>1. \/ Here(1) \/ Here(2) \/ Here(3) \/ Here(4) \/ Here(5) \/ Here(6) \/ Here(7)
        \/ Here(8) \/ Here(9) \/ Here(10) \/ Here(11) \/ Here(12) \/ Here(13) \/ Here(14)
    BY DEF Steps, UpToServing, UpToCleanup, UpToPools
  <2>2. QED
    BY <2>1
<1>2. PICK j \in 1 .. 15 :
        /\ i < j /\ StepAfter(Steps[i]) = Steps[j] /\ Taken(Steps[j])
        /\ \A k \in 1 .. 15 : i < k /\ k < j => ~Taken(Steps[k])
  BY StepAfterIsNext
<1>3. \A k \in 1 .. 15 :
        /\ Steps[k] \in UpToPools <=> k <= 5
        /\ Steps[k] \in UpToCleanup <=> k <= 11
        /\ Steps[k] \in UpToServing \cup {"serve"}
        /\ Steps[k] = "create_pools" <=> k = 5
        /\ Steps[k] = "spawn_cleanup" <=> k = 11
  BY DEF Steps, UpToServing, UpToCleanup, UpToPools
<1>4. settings.databases => Taken(Steps[5])
  BY DEF Steps, Taken
<1>5. QED
  BY <1>1, <1>2, <1>3, <1>4

----------------------------------------------------------------------------
(* The life of the process. *)

TaskStates == {"free", "handshake", "idle", "busy", "ended", "joined", "aborted"}

LifeTypeOK ==
  /\ settings \in Settings
  /\ step \in UpToServing \cup Serving \cup {"exited"}
  /\ dbPools \in {"none", "open", "closing", "closed"}
  /\ cleanup \in {"none", "waiting", "cleaning", "aborted", "stopped"}
  /\ connection \in [Connections -> [at : TaskStates, held : BOOLEAN, early : BOOLEAN]]
  /\ waited \in Nat

\* The pools are what the step of main says they are.
PoolsInStep ==
  /\ step \in UpToServing => Taken(step)
  /\ step \in UpToPools => dbPools = "none"
  /\ step \in (UpToServing \cup Serving) \ (UpToPools \cup {"close_pools"}) =>
       dbPools = IF settings.databases THEN "open" ELSE "none"
  /\ step = "close_pools" => dbPools = IF settings.databases THEN "closing" ELSE "none"

\* The clean-up task is spawned before the router is built, if at all.
CleanupInStep ==
  /\ step \in UpToCleanup => cleanup = "none"
  /\ step \in (UpToServing \cup Serving) \ UpToCleanup =>
       (Taken("spawn_cleanup") => cleanup # "none")

\* Nobody is served before main listens, and main goes on from the accept
\* loop only when nobody is left or the time is over.
TasksInStep ==
  /\ step \in UpToServing => \A c \in Connections : connection[c] = Unused
  /\ step = "stop_cleanup" => Tasks = {} \/ TimedOut
  /\ step = "close_pools" =>
       /\ \A c \in Connections : connection[c].at \notin Live
       /\ cleanup \notin {"waiting", "cleaning"}

LifeInv ==
  /\ LifeTypeOK /\ PoolsInStep /\ CleanupInStep /\ TasksInStep
  /\ step = "exited" => QuietBeforeClose /\ ReadyBeforeServing
  /\ InFlightGetTheirTime

\* A process that has just been started has nothing yet.
LEMMA LifeInitInv == LifeInit => LifeInv
  BY DEF LifeInit, LifeInv, LifeTypeOK, PoolsInStep, CleanupInStep, TasksInStep,
         InFlightGetTheirTime, UpToServing, UpToCleanup, UpToPools, Serving, Taken,
         OfDatabases, Unused, TaskStates

\* While the process runs, the invariant says what the properties ask for.
LEMMA LifeInvHolds ==
  LifeInv => QuietBeforeClose /\ ReadyBeforeServing /\ InFlightGetTheirTime
<1> SUFFICES ASSUME LifeInv, step # "exited" PROVE QuietBeforeClose /\ ReadyBeforeServing
  BY DEF LifeInv
<1> USE DEF LifeInv, LifeTypeOK
<1>1. QuietBeforeClose
  BY DEF PoolsInStep, TasksInStep, QuietBeforeClose, UpToServing, UpToCleanup, UpToPools,
         Serving
<1>2. CASE step \in UpToServing
  BY <1>1, <1>2 DEF TasksInStep, ReadyBeforeServing, Unused
<1>3. CASE step \in Serving
  BY <1>1, <1>3 DEF PoolsInStep, CleanupInStep, ReadyBeforeServing, UpToServing,
         UpToCleanup, UpToPools, Serving
<1>4. QED
  BY <1>1, <1>2, <1>3

\* What a step of a connection's task does to it: nothing comes of nothing but
\* while main listens.
Moves(c) ==
  /\ connection' \in [Connections -> [at : TaskStates, held : BOOLEAN, early : BOOLEAN]]
  /\ \A d \in Connections \ {c} : connection'[d] = connection[d]
  /\ step \notin UpToServing
  /\ connection'[c].at \notin {"free", "joined"} =>
       step = "serve" \/ connection[c].at \notin {"free", "joined"}
  /\ connection'[c].at \in Live => step = "serve" \/ connection[c].at \in Live

\* Every step of a connection's task is one of those.
LEMMA TaskMoves ==
  ASSUME LifeTypeOK, TasksInStep, NEW c \in Connections,
         ServeConnection(c) \/ Join(c) \/ DropTask(c)
  PROVE  OnlyConnections /\ Moves(c)
<1>1. connection[c] \in [at : TaskStates, held : BOOLEAN, early : BOOLEAN]
  BY DEF LifeTypeOK
<1>2. step \in UpToServing => connection[c].at = "free" /\ step # "serve"
  BY DEF TasksInStep, Unused, UpToServing, UpToCleanup, UpToPools
<1>3. ASSUME NEW r \in [at : TaskStates, held : BOOLEAN, early : BOOLEAN],
             connection' = [connection EXCEPT ![c] = r], OnlyConnections,
             connection[c].at # "free" \/ step = "serve",
             r.at \notin {"free", "joined"} =>
               step = "serve" \/ connection[c].at \notin {"free", "joined"},
             r.at \in Live => step = "serve" \/ connection[c].at \in Live
      PROVE  OnlyConnections /\ Moves(c)
  BY <1>2, <1>3 DEF Moves, LifeTypeOK
<1> USE <1>1 DEF Goes, TaskStates, Live, Unused, Listening
<1>4. CASE Accept(c)
  BY <1>3, <1>4 DEF Accept
<1>5. CASE Handshake(c)
  BY <1>3, <1>5 DEF Handshake
<1>6. CASE Request(c)
  BY <1>3, <1>6 DEF Request
<1>7. CASE Acquire(c)
  BY <1>3, <1>7 DEF Acquire
<1>8. CASE Release(c)
  BY <1>3, <1>8 DEF Release
<1>9. CASE Respond(c)
  BY <1>3, <1>9 DEF Respond
<1>10. CASE Close(c)
  BY <1>3, <1>10 DEF Close
<1>11. CASE Join(c)
  BY <1>3, <1>11 DEF Join
<1>12. CASE DropTask(c)
  BY <1>3, <1>12 DEF DropTask
<1>13. QED
  BY <1>4, <1>5, <1>6, <1>7, <1>8, <1>9, <1>10, <1>11, <1>12 DEF ServeConnection

\* Every step of main, of a connection's task, of the clean-up task and of the
\* clock keeps the invariant.
LEMMA LifeStepInv == LifeInv /\ [LifeNext]_lifeVars => LifeInv'
<1> SUFFICES ASSUME LifeInv, [LifeNext]_lifeVars PROVE LifeInv'
  OBVIOUS
<1>q. QuietBeforeClose /\ ReadyBeforeServing /\ InFlightGetTheirTime
  BY LifeInvHolds
<1>t. ConnTimeout \in Nat /\ MaxClock \in Nat
  BY LifeAssumption DEF LifeAssumption
<1> USE DEF LifeInv
<1>1. CASE BootStep
  <2>1. step \in UpToServing /\ settings \in Settings
    BY <1>1 DEF BootStep, LifeTypeOK, Serving
  <2>2. step' = StepAfter(step) /\ settings' = settings /\ connection' = connection
        /\ waited' = waited /\ cut' = cut
    BY <1>1 DEF BootStep
  <2>3. /\ step' \in UpToServing \cup {"serve"}
        /\ Taken(step')
        /\ step \notin UpToPools => step' \notin UpToPools
        /\ step \notin UpToCleanup => step' \notin UpToCleanup
        /\ settings.databases /\ step \in UpToPools \ {"create_pools"} =>
             step' \in UpToPools
        /\ step = "create_pools" => step' \notin UpToPools
        /\ Taken("spawn_cleanup") /\ step \in UpToCleanup \ {"spawn_cleanup"} =>
             step' \in UpToCleanup
        /\ step = "spawn_cleanup" => step' \notin UpToCleanup
    BY <2>1, <2>2, StepAfterStays
  <2>4. Taken("spawn_cleanup")' = Taken("spawn_cleanup") /\ Taken(step)
        /\ Taken(step)' = Taken(step')
    BY <2>1, <2>2 DEF Taken, PoolsInStep
  <2>5. LifeTypeOK'
    BY <1>1, <2>3 DEF LifeTypeOK, BootStep, Serving
  <2>6. PoolsInStep'
    BY <1>1, <2>1, <2>2, <2>3, <2>4 DEF PoolsInStep, BootStep, Serving, LifeTypeOK, Taken,
       UpToServing, UpToCleanup, UpToPools, OfDatabases
  <2>7. CleanupInStep'
    BY <1>1, <2>1, <2>2, <2>3, <2>4 DEF CleanupInStep, BootStep, Serving, UpToServing,
       UpToCleanup, UpToPools
  <2>8. TasksInStep' /\ step' # "exited" /\ InFlightGetTheirTime'
    BY <2>1, <2>2, <2>3 DEF TasksInStep, InFlightGetTheirTime, UpToServing, UpToCleanup,
       UpToPools
  <2>9. QED
    BY <2>5, <2>6, <2>7, <2>8
<1> USE DEF LifeTypeOK, PoolsInStep, CleanupInStep, TasksInStep, InFlightGetTheirTime
<1>e. ASSUME step' = "exited", LifeTypeOK', InFlightGetTheirTime', QuietBeforeClose',
             ReadyBeforeServing'
      PROVE  LifeInv'
  BY <1>e DEF UpToServing, UpToCleanup, UpToPools, Serving
<1>2. CASE CheckMode
  <2>1. CASE settings.mode = "serve" /\ step' = StepAfter(step)
    <3>1. step \in UpToServing /\ step \in UpToPools /\ step # "create_pools"
      BY <1>2 DEF CheckMode, UpToServing, UpToCleanup, UpToPools
    <3>2. UNCHANGED <<settings, dbPools, cleanup, connection, waited, cut>>
      BY <1>2 DEF CheckMode
    <3>3. /\ step' \in UpToServing \cup {"serve"} /\ Taken(step')
          /\ settings.databases => step' \in UpToPools
          /\ Taken("spawn_cleanup") => step' \in UpToCleanup
      BY <2>1, <3>1, StepAfterStays DEF UpToCleanup, UpToPools
    <3>4. Taken("spawn_cleanup")' = Taken("spawn_cleanup") /\ Taken(step)' = Taken(step')
      BY <3>2 DEF Taken
    <3>5. LifeTypeOK' /\ InFlightGetTheirTime' /\ step' # "exited"
      BY <3>2, <3>3 DEF Serving, UpToServing, UpToCleanup, UpToPools
    <3>6. PoolsInStep' /\ CleanupInStep' /\ TasksInStep'
      BY <3>1, <3>2, <3>3, <3>4 DEF Serving, UpToServing, UpToCleanup, UpToPools
    <3>7. QED
      BY <3>5, <3>6
  <2>2. CASE step' = "exited"
    <3>1. UNCHANGED <<settings, dbPools, cleanup, connection, waited, cut>>
      BY <1>2 DEF CheckMode
    <3>2. QuietBeforeClose' /\ ReadyBeforeServing'
      BY <1>q, <3>1 DEF QuietBeforeClose, ReadyBeforeServing, Taken
    <3>3. QED
      BY <1>e, <2>2, <3>1, <3>2
  <2>3. QED
    BY <1>2, <2>1, <2>2 DEF CheckMode, Exit
<1>3. CASE BootFails
  <2>1. step' = "exited" /\ UNCHANGED <<settings, cleanup, connection, waited, cut>>
    BY <1>3 DEF BootFails, Exit
  <2>2. step \in UpToServing
    BY <1>3 DEF BootFails, Fallible, UpToServing, UpToCleanup, UpToPools
  <2>3. dbPools' = dbPools \/ (dbPools' = "closed" /\ step \in UpToCleanup)
    BY <1>3 DEF BootFails, ClosesPools, UpToCleanup
  <2>4. \A c \in Connections : connection[c] = Unused
    BY <2>2
  <2>5. QuietBeforeClose' /\ ReadyBeforeServing'
    BY <1>q, <2>1, <2>3, <2>4 DEF QuietBeforeClose, ReadyBeforeServing, Taken, Unused, Live
  <2>6. QED
    BY <1>e, <2>1, <2>3, <2>5
<1>4. ASSUME NEW c \in Connections, OnlyConnections, step # "exited", Moves(c)
      PROVE  LifeInv'
  <2>1. Taken("spawn_cleanup")' = Taken("spawn_cleanup") /\ Taken(step)' = Taken(step)
    BY <1>4 DEF OnlyConnections, Taken
  <2>2. LifeTypeOK' /\ PoolsInStep' /\ CleanupInStep' /\ InFlightGetTheirTime'
    BY <1>4, <2>1 DEF OnlyConnections, Moves
  <2>3. TasksInStep'
    BY <1>4 DEF OnlyConnections, Moves, Tasks, TimedOut
  <2>4. QED
    BY <1>4, <2>2, <2>3 DEF OnlyConnections
<1>5. ASSUME NEW c \in Connections, step # "exited",
             ServeConnection(c) \/ Join(c) \/ DropTask(c)
      PROVE  LifeInv'
  BY <1>4, <1>5, TaskMoves
<1>7. CASE step # "exited" /\ (CleanupTick \/ CleanupDone \/ DropCleanup)
  <2>1. UNCHANGED <<settings, step, dbPools, connection, waited, cut>>
    BY <1>7 DEF CleanupTick, CleanupDone, DropCleanup, OnlyCleanup
  <2>2. /\ cleanup # "none" /\ cleanup' \in {"waiting", "cleaning", "stopped"}
        /\ cleanup' # "stopped" => cleanup \in {"waiting", "cleaning"}
    BY <1>7 DEF CleanupTick, CleanupDone, DropCleanup
  <2>3. Taken("spawn_cleanup")' = Taken("spawn_cleanup") /\ Taken(step)' = Taken(step)
    BY <2>1 DEF Taken
  <2>4. LifeTypeOK' /\ PoolsInStep' /\ CleanupInStep' /\ InFlightGetTheirTime'
    BY <2>1, <2>2, <2>3
  <2>5. TasksInStep'
    BY <2>1, <2>2 DEF Tasks, TimedOut
  <2>6. QED
    BY <1>7, <2>1, <2>4, <2>5
<1>8. CASE Signal \/ DrainEnds
  <2>1. UNCHANGED <<settings, dbPools, cleanup, connection, waited, cut>>
    BY <1>8 DEF Signal, DrainEnds
  <2>2. \/ step = "serve" /\ step' = "drain"
        \/ step = "drain" /\ step' = "stop_cleanup" /\ (Tasks = {} \/ TimedOut)
    BY <1>8 DEF Signal, DrainEnds, Listening
  <2>3. QED
    BY <2>1, <2>2 DEF Taken, Tasks, TimedOut, Serving, UpToServing, UpToCleanup, UpToPools
<1>9. CASE StopCleanup
  <2>1. step = "stop_cleanup" /\ step' = "close_pools" /\ UNCHANGED <<settings, waited>>
    BY <1>9 DEF StopCleanup
  <2>2. LifeTypeOK'
    BY <1>9, <2>1 DEF StopCleanup, Aborted, TaskStates, Serving
  <2>3. PoolsInStep' /\ CleanupInStep'
    BY <1>9, <2>1 DEF StopCleanup, Serving, UpToServing, UpToCleanup, UpToPools, Taken
  <2>4. TasksInStep'
    BY <1>9, <2>1 DEF StopCleanup, Aborted, Live, UpToServing, UpToCleanup, UpToPools
  <2>5. InFlightGetTheirTime'
    <3>1. ASSUME NEW d \in Connections, connection[d].at = "busy" PROVE waited >= ConnTimeout
      BY <2>1, <3>1 DEF Tasks, TimedOut
    <3>2. \A r \in cut' : r \in cut \/ r[2] >= ConnTimeout
      BY <1>9, <3>1 DEF StopCleanup
    <3>3. QED
      BY <3>2
  <2>6. QED
    BY <2>1, <2>2, <2>3, <2>4, <2>5
<1>10. CASE ClosePools
  <2>1. step = "close_pools" /\ step' = "exited"
        /\ UNCHANGED <<settings, cleanup, connection, waited, cut>>
    BY <1>10 DEF ClosePools, Exit
  <2>2. \/ dbPools = "none" /\ dbPools' = "none"
        \/ dbPools = "closing" /\ dbPools' = "closed" /\ ~InUse
    BY <1>10 DEF ClosePools
  <2>3. QuietBeforeClose'
    BY <2>1, <2>2 DEF QuietBeforeClose, InUse
  <2>4. ReadyBeforeServing'
    BY <1>q, <2>1, <2>2 DEF ReadyBeforeServing, Taken
  <2>5. QED
    BY <1>e, <2>1, <2>2, <2>3, <2>4
<1>11. CASE Second
  <2>1. UNCHANGED <<settings, step, dbPools, cleanup, connection, cut>>
        /\ waited' = waited + 1 /\ step # "exited"
    BY <1>11 DEF Second
  <2>2. TimedOut => TimedOut'
    BY <1>t, <2>1 DEF TimedOut
  <2>3. QED
    BY <2>1, <2>2 DEF Tasks, Taken
<1>12. CASE UNCHANGED lifeVars
  BY <1>12 DEF lifeVars, Tasks, TimedOut, Taken, QuietBeforeClose, ReadyBeforeServing
<1>13. QED
  BY <1>1, <1>2, <1>3, <1>5, <1>7, <1>8, <1>9, <1>10, <1>11, <1>12 DEF LifeNext

\* The pools are closed under nobody: when the shutdown, or a start-up that
\* fails, closes them, no task of a connection goes on and the clean-up task
\* has been told to stop; in the end nobody holds a connection of a pool
\* (main, async_main, serve and close_pools).
THEOREM CloseSafety == LifeSpec => []QuietBeforeClose
  BY LifeInitInv, LifeStepInv, LifeInvHolds, PTL DEF LifeSpec

\* Nobody is served before the pools and the clean-up task that the
\* configuration asks for are in place (async_main's order of steps).
THEOREM ServingSafety == LifeSpec => []ReadyBeforeServing
  BY LifeInitInv, LifeStepInv, LifeInvHolds, PTL DEF LifeSpec

\* A request that was in flight at the signal is aborted only when
\* conn_timeout has passed since, for every ConnTimeout (serve).
THEOREM InFlightSafety == LifeSpec => []InFlightGetTheirTime
  BY LifeInitInv, LifeStepInv, LifeInvHolds, PTL DEF LifeSpec

----------------------------------------------------------------------------
(* The validators. *)

\* What the validators before the search for cycles object to.
Objections(c) ==
  ServerProblems(c) \cup DatabaseProblems(c) \cup StoreProblems(c) \cup TableProblems(c)
  \cup EndpointProblems(c) \cup AuthProblems(c) \cup SelfParents(c)

\* No objection is lost on the way to the decision.
ConfInv ==
  /\ loading = "hierarchy" => Objections(input.content) \subseteq problems
  /\ loading = "accepted" => Objections(input.content) = {}
  /\ loading # "hierarchy" => frames = <<>>

\* The search for cycles only adds to the problems.
LEMMA ConfStepInv == ConfInv /\ [ConfNext]_confVars => ConfInv'
<1> SUFFICES ASSUME ConfInv, [ConfNext]_confVars PROVE ConfInv'
  OBVIOUS
<1>1. input' = input => Objections(input.content)' = Objections(input.content)
  BY DEF Objections, ServerProblems, DatabaseProblems, StoreProblems, TableProblems,
         EndpointProblems, AuthProblems, SelfParents
<1> USE DEF ConfInv
<1>2. CASE LoadFile \/ CheckShape
  <2>1. loading = "files" /\ loading' \notin {"hierarchy", "accepted"} /\ frames' = frames
    BY <1>2 DEF LoadFile, CheckShape
  <2>2. QED
    BY <2>1
<1>3. CASE Validate
  BY <1>1, <1>3 DEF Validate, Objections
<1>4. CASE StartSearch
  BY <1>1, <1>4 DEF StartSearch
<1>5. CASE SearchStep
  <2>1. input' = input /\ loading' = loading /\ problems \subseteq problems'
        /\ loading = "hierarchy"
    BY <1>5 DEF SearchStep
  <2>2. QED
    BY <1>1, <2>1
<1>6. CASE ValidateDone
  BY <1>1, <1>6 DEF ValidateDone
<1>7. CASE UNCHANGED confVars
  BY <1>1, <1>7 DEF confVars
<1>8. QED
  BY <1>2, <1>3, <1>4, <1>5, <1>6, <1>7 DEF ConfNext

\* What is left when nobody objects: the server finds all that it looks up.
LEMMA NoObjections ==
  ASSUME NEW c, Objections(c) = {}
  PROVE  /\ StoresBuilt(c)
         /\ \A i \in DOMAIN c.endpoints :
              LET e == c.endpoints[i]
              IN /\ e.action \in {"static_files", "spa_host", "media", "file_store"} =>
                      GetStore(c, e.section.storage)
                 /\ e.action \in {"crud", "media", "file_store"} =>
                      \/ GetDbContext(c, e.section.database, e.section.table)
                      \/ \E d \in DOMAIN c.databases \ {e.section.database} :
                           GetDbContext(c, d, e.section.table)
                 /\ e.auth # "none" => c.auth[e.auth] # Nobody
         /\ \A i \in DOMAIN c.tables : \A fk \in ToSet(c.tables[i].foreign_keys) :
              GetDbContext(c, c.tables[i].database, fk.references_table)
         /\ c.auth.oauth2 # Nobody /\ c.auth.oauth2.authorization_url # "" =>
              c.auth.jwt # Nobody /\ c.auth.jwt.secret # ""
<1>1. /\ StoreProblems(c) = {} /\ TableProblems(c) = {}
      /\ EndpointProblems(c) = {} /\ AuthProblems(c) = {}
  BY DEF Objections
<1>2. StoresBuilt(c)
  <2> SUFFICES ASSUME NEW n \in DOMAIN c.stores PROVE StoreBuilt(c.stores[n])
    BY DEF StoresBuilt
  <2>1. <<"store", n>> \notin StoreProblems(c)
    BY <1>1
  <2>2. QED
    BY <2>1 DEF StoreProblems, StoreBuilt
<1>3. \A i \in DOMAIN c.tables :
        /\ c.tables[i].database \in DOMAIN c.databases
        /\ \A fk \in ToSet(c.tables[i].foreign_keys) : \E k \in DOMAIN c.tables :
             c.tables[k].name = fk.references_table
             /\ c.tables[k].database = c.tables[i].database
  <2> SUFFICES ASSUME NEW i \in DOMAIN c.tables
               PROVE  /\ c.tables[i].database \in DOMAIN c.databases
                      /\ \A fk \in ToSet(c.tables[i].foreign_keys) : \E k \in DOMAIN c.tables :
                           c.tables[k].name = fk.references_table
                           /\ c.tables[k].database = c.tables[i].database
    OBVIOUS
  <2>1. <<"table", i>> \notin TableProblems(c)
    BY <1>1
  <2>2. QED
    BY <2>1 DEF TableProblems
<1>4. ASSUME NEW i \in DOMAIN c.endpoints PROVE SectionOk(c, c.endpoints[i])
  <2>1. <<"endpoint", i>> \notin EndpointProblems(c)
    BY <1>1
  <2>2. QED
    BY <2>1 DEF EndpointProblems
<1>5. \A p \in {"endpoint", "jwt", "oauth2"} : <<"auth", p>> \notin AuthProblems(c)
  BY <1>1
<1>6. \A i \in DOMAIN c.endpoints :
        c.endpoints[i].auth # "none" => c.auth[c.endpoints[i].auth] # Nobody
  BY <1>5 DEF AuthProblems
<1>7. c.auth.oauth2 # Nobody /\ c.auth.oauth2.authorization_url # "" =>
        c.auth.jwt # Nobody /\ c.auth.jwt.secret # ""
  BY <1>5 DEF AuthProblems
<1>8. QED
  BY <1>2, <1>3, <1>4, <1>6, <1>7 DEF SectionOk, CrudOk, StaticFilesOk, SpaHostOk, MediaOk,
     FileStoreOk, StorageReference, TableReference, TableDefined, GetStore, GetDbContext

\* What a configuration that was accepted makes the server look up is there,
\* whatever files it was read from and in whatever order the roles were
\* searched (load_config, validate and the look-ups of AppState).
THEOREM AcceptanceSafety == ConfSpec => []AcceptedResolves
<1>1. ConfInit => ConfInv
  BY DEF ConfInit, ConfInv
<1>2. ConfInv => AcceptedResolves
  BY NoObjections DEF ConfInv, AcceptedResolves
<1>3. QED
  BY <1>1, <1>2, ConfStepInv, PTL DEF ConfSpec
----------------------------------------------------------------------------
(* The rows of a CRUD endpoint. *)

CreationOf(r) ==
  /\ {"step", "ask", "status", "key", "owner", "answer"} \subseteq DOMAIN r
  /\ r.status = "created"

\* Between the INSERT and the SELECT, and afterwards, a creation has kept the
\* key and the owner of its own row, whatever others have inserted.
CreationInv ==
  /\ setting \in Offers
  /\ calls \in [Callers -> {calls[c] : c \in Callers}]
  /\ \A c \in Callers :
       /\ calls[c].step = "created" \/ Answered(c, "created") =>
            /\ CreationOf(calls[c])
            /\ HandsOut => calls[c].answer \subseteq {calls[c].key}
            /\ setting.insertOwner => calls[c].owner = calls[c].ask.by
       /\ calls[c].step \in Verbs \cup {"count"} =>
            "status" \in DOMAIN calls[c] /\ "step" \in DOMAIN calls[c]

\* Nobody has asked for anything yet.
LEMMA CreationInitInv == QueryInit => CreationInv
  BY DEF QueryInit, CreationInv, Idle, Answered, Verbs

\* Every statement keeps it.
LEMMA CreationStepInv == CreationInv /\ [QueryNext]_queryVars => CreationInv'
<1> SUFFICES ASSUME CreationInv, [QueryNext]_queryVars PROVE CreationInv'
  OBVIOUS
<1> DEFINE Fine(r) ==
       /\ r.step = "created" \/ (r.step = "done" /\ r.status = "created") =>
            /\ CreationOf(r)
            /\ HandsOut => r.answer \subseteq {r.key}
            /\ setting.insertOwner => r.owner = r.ask.by
       /\ r.step \in Verbs \cup {"count"} =>
            "status" \in DOMAIN r /\ "step" \in DOMAIN r
<1>1. setting \in Offers /\ DOMAIN calls = Callers /\ \A c \in Callers : Fine(calls[c])
  BY DEF CreationInv, Answered
<1>2. ASSUME setting' = setting, NEW c \in Callers, NEW r, Fine(r),
             calls' = [calls EXCEPT ![c] = r]
      PROVE  CreationInv'
  <2>1. DOMAIN calls' = Callers /\ \A d \in Callers : calls'[d] = IF d = c THEN r ELSE calls[d]
    BY <1>1, <1>2 DEF CreationInv
  <2>2. \A d \in Callers : Fine(calls'[d])
    BY <1>1, <1>2, <2>1
  <2>3. calls' \in [Callers -> {calls'[d] : d \in Callers}]
    BY <1>2, <2>1
  <2>4. QED
    BY <1>1, <1>2, <2>2, <2>3 DEF CreationInv, Answered, CreationOf, HandsOut
<1>3. ASSUME setting' = setting, NEW c \in Callers, NEW status, status # "created",
             calls[c].step \in Verbs \cup {"count", "created"}, Done(c, status)
      PROVE  CreationInv'
  <2> DEFINE r == [calls[c] EXCEPT !.step = "done", !.status = status]
  <2>1. calls' = [calls EXCEPT ![c] = r]
    BY <1>3 DEF Done
  <2>2. "status" \in DOMAIN calls[c] /\ "step" \in DOMAIN calls[c]
    BY <1>1, <1>3 DEF CreationOf
  <2>3. r.step = "done" /\ r.status = status
    BY <2>2
  <2> HIDE DEF r
  <2>4. Fine(r)
    BY <1>3, <2>3 DEF Verbs
  <2> HIDE DEF Fine
  <2>5. QED
    BY <1>2, <1>3, <2>1, <2>4
<1>4. ASSUME setting' = setting, NEW c \in Callers, NEW status, NEW touched,
             status \in {"ok", "not_found"}, DoneWith(c, status, touched)
      PROVE  CreationInv'
  <2> DEFINE r == [step |-> "done", ask |-> calls[c].ask, status |-> status,
                   was |-> table, touched |-> touched]
  <2>1. calls' = [calls EXCEPT ![c] = r]
    BY <1>4 DEF DoneWith
  <2>2. Fine(r)
    BY <1>4 DEF Verbs
  <2> HIDE DEF r, Fine
  <2>3. QED
    BY <1>2, <1>4, <2>1, <2>2
<1>5. ASSUME NEW c \in Callers, NEW q \in Queried[setting][c], Call(c, q) PROVE CreationInv'
  <2> DEFINE r == IF BadRequest(q) THEN [step |-> "done", ask |-> q, status |-> "bad_request"]
                  ELSE [step |-> q.verb, ask |-> q, status |-> "none"]
  <2>1. calls' = [calls EXCEPT ![c] = r] /\ setting' = setting
    BY <1>5 DEF Call
  <2>2. q.verb \in Verbs
    BY <1>1, VerbsAssumption
  <2>3. Fine(r)
    BY <2>2 DEF Verbs
  <2> HIDE DEF r, Fine
  <2>4. QED
    BY <1>2, <2>1, <2>3
<1>6. ASSUME NEW c \in Callers, ListPage(c) \/ ListCount(c) PROVE CreationInv'
  <2>1. setting' = setting /\ calls[c].step \in Verbs \cup {"count"}
    BY <1>6 DEF ListPage, ListCount, At, Verbs
  <2>2. CASE Done(c, "error")
    BY <1>3, <2>1, <2>2
  <2>3. ASSUME NEW page,
               calls' = [calls EXCEPT ![c] = [step |-> "count", ask |-> calls[c].ask,
                 status |-> "none", page |-> page, listed |-> table]]
        PROVE  CreationInv'
    <3> DEFINE r == [step |-> "count", ask |-> calls[c].ask, status |-> "none",
                     page |-> page, listed |-> table]
    <3>1. Fine(r)
      BY DEF Verbs
    <3> HIDE DEF Fine
    <3>2. QED
      BY <1>2, <2>1, <2>3, <3>1
  <2>4. ASSUME NEW n, NEW status \in {"listed", "uncounted"},
               calls' = [calls EXCEPT ![c] = [step |-> "done", ask |-> calls[c].ask,
                 status |-> status, page |-> @.page, listed |-> @.listed,
                 counted |-> table, total |-> n]]
        PROVE  CreationInv'
    <3> DEFINE r == [step |-> "done", ask |-> calls[c].ask, status |-> status,
                     page |-> calls[c].page, listed |-> calls[c].listed,
                     counted |-> table, total |-> n]
    <3>1. Fine(r)
      BY DEF Verbs
    <3>2. calls' = [calls EXCEPT ![c] = r]
      BY <2>4
    <3> HIDE DEF Fine, r
    <3>3. QED
      BY <1>2, <2>1, <3>1, <3>2
  <2>5. CASE ListPage(c)
    BY <2>2, <2>3, <2>5 DEF ListPage
  <2>6. CASE ListCount(c)
    BY <2>4, <2>6 DEF ListCount
  <2>7. QED
    BY <1>6, <2>5, <2>6
<1>7. ASSUME NEW c \in Callers, GetOne(c) \/ Update(c) \/ Delete(c) PROVE CreationInv'
  <2>1. setting' = setting /\ calls[c].step \in Verbs
    BY <1>7 DEF GetOne, Update, Delete, At, Verbs
  <2>2. \/ Done(c, "error")
        \/ \E touched : DoneWith(c, "ok", touched) \/ DoneWith(c, "not_found", touched)
    BY <1>7 DEF GetOne, Update, Delete
  <2>3. QED
    BY <1>3, <1>4, <2>1, <2>2
<1>8. ASSUME NEW c \in Callers, Create(c) PROVE CreationInv'
  <2> DEFINE q == calls[c].ask
             values == Inserted(q)
  <2>1. setting' = setting /\ calls[c].step \in Verbs
    BY <1>8 DEF Create, At, Verbs
  <2>2. CASE Done(c, "error")
    BY <1>3, <2>1, <2>2
  <2>3. ASSUME NEW k,
               table' = [n \in DOMAIN table \cup {k} |->
                            IF n # k THEN table[n]
                            ELSE [col \in Columns |->
                                    IF col = "id" THEN k
                                    ELSE IF col \in DOMAIN values THEN values[col] ELSE Null]],
               calls' = [calls EXCEPT ![c] =
                  [step |-> IF setting.driver = "mysql" THEN "created" ELSE "done",
                   ask |-> q, status |-> "created", key |-> k, owner |-> table'[k].owner,
                   answer |-> {k}]]
        PROVE  CreationInv'
    <3> DEFINE r == [step |-> IF setting.driver = "mysql" THEN "created" ELSE "done",
                   ask |-> q, status |-> "created", key |-> k, owner |-> table'[k].owner,
                   answer |-> {k}]
    <3>1. table'[k].owner = IF "owner" \in DOMAIN values THEN values["owner"] ELSE Null
      <4> HIDE DEF values
      <4>1. QED
        BY <2>3 DEF Columns
    <3>2. setting.insertOwner => table'[k].owner = q.by
      BY <3>1 DEF Inserted
    <3>3. Fine(r)
      BY <3>2 DEF Verbs, CreationOf
    <3> HIDE DEF Fine, r
    <3>4. QED
      BY <1>2, <2>1, <2>3, <3>3 DEF r
  <2>4. QED
    BY <1>8, <2>2, <2>3 DEF Create
<1>9. ASSUME NEW c \in Callers, FetchCreated(c) PROVE CreationInv'
  <2>1. setting' = setting /\ calls[c].step = "created" /\ CreationOf(calls[c])
    BY <1>1, <1>9 DEF FetchCreated, At
  <2>2. PICK answer :
          /\ calls' = [calls EXCEPT ![c].step = "done", ![c].answer = answer]
          /\ HandsOut => answer \subseteq {calls[c].key}
    BY <1>9 DEF FetchCreated, LastInsertId, HandsOut
  <2> DEFINE r == [calls[c] EXCEPT !.step = "done", !.answer = answer]
             old == calls[c]
  <2>a. CreationOf(old) /\ (setting.insertOwner => old.owner = old.ask.by)
    BY <1>1, <2>1
  <2>b. /\ r.step = "done" /\ r.answer = answer /\ r.ask = old.ask /\ r.key = old.key
        /\ r.owner = old.owner /\ CreationOf(r)
    <3> HIDE DEF old
    <3>1. QED
      BY <2>a DEF CreationOf, old
  <2>3. Fine(r)
    <3> HIDE DEF old, r
    <3>1. QED
      BY <2>a, <2>b, <2>2 DEF Verbs, old
  <2>4. calls' = [calls EXCEPT ![c] = r]
    BY <2>2
  <2> HIDE DEF Fine, r
  <2>5. QED
    BY <1>2, <2>1, <2>3, <2>4
<1>10. ASSUME NEW c \in Callers, StatementFails(c) PROVE CreationInv'
  BY <1>3, <1>10 DEF StatementFails, Verbs
<1>11. CASE UNCHANGED queryVars
  BY <1>11 DEF queryVars, CreationInv, Answered, CreationOf, HandsOut
<1>12. QED
  BY <1>5, <1>6, <1>7, <1>8, <1>9, <1>10, <1>11 DEF QueryNext

\* However creations, updates and deletions of other callers come in between
\* an INSERT and the SELECT that follows it, the answer to a creation is the
\* row it has inserted, where the database hands out the keys, and with
\* insert_owner one that belongs to the user who asked (handle_create,
\* build_insert).
THEOREM CreationSafety == QuerySpec => []CreatedIsOwn
<1>1. CreationInv => CreatedIsOwn
  BY DEF CreationInv, CreatedIsOwn
<1>2. QED
  BY <1>1, CreationInitInv, CreationStepInv, PTL DEF QuerySpec
----------------------------------------------------------------------------
(* What the conditions of a statement mean. *)

\* What a term of a clause compares with.
Meaning(t, by) == IF t.from = "literal" THEN t.value ELSE Resolve(t, by)

\* The parameters begin with these.
Begins(params, p) ==
  Len(p) \in Nat /\ Len(params) \in Nat /\ Len(p) <= Len(params)
  /\ \A i \in 1 .. Len(p) : params[i] = p[i]

\* The placeholders of a condition are among the first n.
Within(c, n) ==
  /\ \A i \in DOMAIN c.at : c.at[i] \in 1 .. n
  /\ \A k \in DOMAIN c.terms : \A i \in DOMAIN c.terms[k].at : c.terms[k].at[i] \in 1 .. n

\* Parameters that come after do not matter to a condition.
LEMMA HoldsStays ==
  ASSUME NEW row, NEW c, NEW p, NEW params, Begins(params, p), Within(c, Len(p))
  PROVE  Holds(row, c, params) <=> Holds(row, c, p)
<1>1. Operands(c, params) = Operands(c, p)
  BY DEF Operands, Begins, Within
<1>2. \A i \in DOMAIN c.terms : Operands(c.terms[i], params) = Operands(c.terms[i], p)
  BY DEF Operands, Begins, Within
<1>3. QED
  BY <1>1, <1>2 DEF Holds

\* The terms of a clause that are not literals, and their parameters.
Asking(clause) == {t \in Range(clause) : t.from # "literal"}

\* The parameters and the terms that the clause yields.
Interpolates(b, T, clause, by) ==
  LET wc == InterpolateWhereClause(b, clause, by)
  IN /\ wc.params \in Seq({Text(Resolve(t, by)) : t \in T})
     /\ Len(wc.params) = Len(Interpolated(clause)) /\ Len(wc.params) \in Nat
     /\ DOMAIN wc.terms = DOMAIN clause
     /\ \A i \in DOMAIN clause :
          /\ clause[i].from = "literal" =>
               wc.terms[i] = Literal("eq", clause[i].col, clause[i].value)
          /\ clause[i].from # "literal" =>
               \E n \in 1 .. Len(wc.params) :
                 /\ wc.terms[i] = Condition("eq", clause[i].col,
                                    <<Placeholders(b, 1, Len(wc.params))[n]>>)
                 /\ wc.params[n] = Text(Resolve(clause[i], by))

\* interpolate_where_clause gives every term its own parameter.
LEMMA InterpolatedParams ==
  ASSUME NEW b, NEW T, NEW clause \in Seq(T), NEW by
  PROVE  Interpolates(b, T, clause, by)
<1> DEFINE wc == InterpolateWhereClause(b, clause, by)
           keys == Interpolated(clause)
           W == PlacesOf(clause, Asking(clause))
           Nth(i) == Cardinality({j \in 1 .. i : clause[j].from # "literal"})
           at == Placeholders(b, 1, Len(keys))
<1>1. keys = Only(clause, Asking(clause))
  BY DEF Interpolated, Asking
<1>2. /\ keys \in Seq(T)
      /\ \A i \in W : CountUpTo(W, i) \in 1 .. Len(keys) /\ keys[CountUpTo(W, i)] = clause[i]
  BY <1>1, OnlyPlaces
<1>3. \A i \in DOMAIN clause : i \in W <=> clause[i].from # "literal"
  BY DEF PlacesOf, Asking, Range
<1>4. ASSUME NEW i \in DOMAIN clause PROVE Nth(i) = CountUpTo(W, i)
  <2>1. \A j \in 1 .. i : j \in W <=> clause[j].from # "literal"
    BY <1>3
  <2>2. {j \in 1 .. i : j \in W} = {j \in 1 .. i : clause[j].from # "literal"}
    BY <2>1
  <2> HIDE DEF W
  <2>3. QED
    BY <2>2 DEF CountUpTo
<1>5. /\ wc.params = [i \in DOMAIN keys |-> Text(Resolve(keys[i], by))]
      /\ DOMAIN wc.terms = DOMAIN clause
      /\ \A i \in DOMAIN clause :
           wc.terms[i] = IF clause[i].from = "literal"
                         THEN Literal("eq", clause[i].col, clause[i].value)
                         ELSE Condition("eq", clause[i].col, <<at[Nth(i)]>>)
  BY DEF InterpolateWhereClause
<1> HIDE DEF wc, W, keys, Nth
<1>6. wc.params \in Seq({Text(Resolve(t, by)) : t \in T}) /\ Len(wc.params) = Len(keys)
  BY <1>2, <1>5
<1>7. ASSUME NEW i \in DOMAIN clause, clause[i].from # "literal"
      PROVE  \E n \in 1 .. Len(wc.params) :
                        /\ wc.terms[i] = Condition("eq", clause[i].col,
                                           <<Placeholders(b, 1, Len(wc.params))[n]>>)
                        /\ wc.params[n] = Text(Resolve(clause[i], by))
  <2>1. i \in W /\ Nth(i) = CountUpTo(W, i)
    BY <1>3, <1>4, <1>7
  <2>2. Nth(i) \in 1 .. Len(keys) /\ keys[Nth(i)] = clause[i]
    BY <1>2, <2>1
  <2>3. wc.params[Nth(i)] = Text(Resolve(clause[i], by))
    BY <1>2, <1>5, <2>2
  <2>4. wc.terms[i] = Condition("eq", clause[i].col, <<at[Nth(i)]>>)
    BY <1>5, <1>7
  <2>5. QED
    BY <1>6, <2>2, <2>3, <2>4
<1>8. \A i \in DOMAIN clause : clause[i].from = "literal" =>
        wc.terms[i] = Literal("eq", clause[i].col, clause[i].value)
  BY <1>5
<1>9. Len(wc.params) \in Nat
  BY <1>2, <1>6
<1>10. QED
  BY <1>5, <1>6, <1>7, <1>8, <1>9 DEF Interpolates, wc, keys

\* Where the elements of a concatenation are.
LEMMA ConcatPlaces ==
  ASSUME NEW S, NEW s \in Seq(S), NEW R, NEW t \in Seq(R)
  PROVE  /\ s \o t \in Seq(S \cup R) /\ Len(s \o t) = Len(s) + Len(t)
         /\ \A n \in 1 .. Len(s) : (s \o t)[n] = s[n]
         /\ \A n \in 1 .. Len(t) : (s \o t)[Len(s) + n] = t[n]
<1>1. s \in Seq(S \cup R) /\ t \in Seq(S \cup R) /\ Len(s) \in Nat /\ Len(t) \in Nat
  OBVIOUS
<1>2. QED
  BY <1>1

\* The parameters of a statement and those of a clause after them.
Followed(b, wc) == b.params \o wc.params

\* The clause's placeholders are the numbers of its own parameters.
Numbered(b, clause) ==
  setting.driver = "postgres" => b.params = <<>> \/ Interpolated(clause) = <<>>

\* A term of the clause compares its column with what it means.
TermMeans(b, clause, by, i) ==
  LET wc == InterpolateWhereClause(b, clause, by)
      c == wc.terms[i]
  IN /\ c.op = "eq" /\ c.col = clause[i].col /\ c.terms = <<>>
     /\ Operands(c, Followed(b, wc)) = <<Meaning(clause[i], by)>>
     /\ \A j \in DOMAIN c.at : c.at[j] \in 1 .. Len(Followed(b, wc))

\* Every term does, on every driver, if the clause is numbered so.
LEMMA TermsMean ==
  ASSUME NEW b, NEW P, b.params \in Seq(P), NEW T, NEW clause \in Seq(T), NEW by,
         Numbered(b, clause),
         NEW i \in DOMAIN clause
  PROVE  TermMeans(b, clause, by, i)
<1> DEFINE wc == InterpolateWhereClause(b, clause, by)
           c == wc.terms[i]
           V == {Text(Resolve(t, by)) : t \in T}
<1>1. /\ wc.params \in Seq(V) /\ Len(wc.params) = Len(Interpolated(clause))
      /\ Len(wc.params) \in Nat
      /\ clause[i].from = "literal" => c = Literal("eq", clause[i].col, clause[i].value)
      /\ clause[i].from # "literal" =>
           \E n \in 1 .. Len(wc.params) :
             /\ c = Condition("eq", clause[i].col, <<Placeholders(b, 1, Len(wc.params))[n]>>)
             /\ wc.params[n] = Text(Resolve(clause[i], by))
  <2>0. Interpolates(b, T, clause, by)
    BY InterpolatedParams
  <2>1. /\ wc.params \in Seq(V) /\ Len(wc.params) = Len(Interpolated(clause))
        /\ Len(wc.params) \in Nat
    BY <2>0 DEF Interpolates
  <2>2. \A j \in DOMAIN clause :
          /\ clause[j].from = "literal" =>
               wc.terms[j] = Literal("eq", clause[j].col, clause[j].value)
          /\ clause[j].from # "literal" =>
               \E n \in 1 .. Len(wc.params) :
                 /\ wc.terms[j] = Condition("eq", clause[j].col,
                                             <<Placeholders(b, 1, Len(wc.params))[n]>>)
                 /\ wc.params[n] = Text(Resolve(clause[j], by))
    BY <2>0 DEF Interpolates
  <2> HIDE DEF wc
  <2>3. QED
    BY <2>1, <2>2
<1> HIDE DEF wc
<1>2. CASE clause[i].from = "literal"
  <2>1. c = Literal("eq", clause[i].col, clause[i].value)
    BY <1>1, <1>2
  <2>2. QED
    BY <1>2, <2>1 DEF Literal, Operands, Meaning, wc, TermMeans
<1>3. CASE clause[i].from # "literal"
  <2>1. PICK n \in 1 .. Len(wc.params) :
             /\ c = Condition("eq", clause[i].col, <<Placeholders(b, 1, Len(wc.params))[n]>>)
             /\ wc.params[n] = Text(Resolve(clause[i], by))
    BY <1>1, <1>3
  <2>2. Len(b.params) \in Nat
    OBVIOUS
  <2>3. setting.driver = "postgres" => Len(b.params) = 0
    BY <1>1, <2>1 DEF Numbered
  <2>4. Placeholders(b, 1, Len(wc.params))[n] = Len(b.params) + n
    BY <1>1, <2>1, <2>2, <2>3 DEF Placeholders
  <2>5. /\ Len(Followed(b, wc)) = Len(b.params) + Len(wc.params)
        /\ Followed(b, wc)[Len(b.params) + n] = wc.params[n]
    <3> HIDE DEF V
    <3> DEFINE p == b.params
               w == wc.params
    <3>1. p \in Seq(P) /\ w \in Seq(V) /\ n \in 1 .. Len(w)
      BY <1>1, <2>1
    <3> HIDE DEF p, w
    <3>2. Len(p \o w) = Len(p) + Len(w) /\ (p \o w)[Len(p) + n] = w[n]
      BY <3>1, ConcatPlaces
    <3>3. QED
      BY <3>2 DEF Followed, p, w
  <2>6. c = Condition("eq", clause[i].col, <<Len(b.params) + n>>)
    BY <2>1, <2>4
  <2>7. /\ c.op = "eq" /\ c.col = clause[i].col /\ c.terms = <<>>
        /\ c.at = <<Len(b.params) + n>>
    BY <2>6 DEF Condition
  <2> HIDE DEF c
  <2>8. Operands(c, Followed(b, wc)) = <<Followed(b, wc)[Len(b.params) + n].value>>
    BY <2>7 DEF Operands
  <2>9. Followed(b, wc)[Len(b.params) + n].value = Meaning(clause[i], by)
    <3>1. Text(Resolve(clause[i], by)).value = Resolve(clause[i], by)
      BY DEF Text
    <3>2. QED
      BY <1>3, <2>1, <2>5, <3>1 DEF Meaning
  <2>10. \A j \in DOMAIN c.at : c.at[j] \in 1 .. Len(Followed(b, wc))
    <3>1. DOMAIN c.at = {1} /\ c.at[1] = Len(b.params) + n
      BY <2>7
    <3>2. Len(b.params) + n \in 1 .. Len(Followed(b, wc))
      BY <1>1, <2>1, <2>2, <2>5
    <3>3. QED
      BY <3>1, <3>2
  <2>11. QED
    BY <2>7, <2>8, <2>9, <2>10 DEF c, wc, TermMeans
<1>4. QED
  BY <1>2, <1>3

\* A statement under construction.
Builder(b) ==
  /\ b = [conditions |-> b.conditions, params |-> b.params, param_idx |-> b.param_idx]
  /\ b.conditions \in Seq(Range(b.conditions))
  /\ b.params \in Seq(Range(b.params))
  /\ b.param_idx = Len(b.params) + 1
  /\ \A c \in Range(b.conditions) : Within(c, Len(b.params))

\* The rows it finds so far.
Admits(b, row) == \A c \in Range(b.conditions) : Holds(row, c, b.params)

\* The statement with one more condition and its parameters.
Extended(b, c, more) ==
  [conditions |-> Append(b.conditions, c), params |-> b.params \o more,
   param_idx |-> b.param_idx + Len(more)]

\* One more condition with its parameters.
LEMMA OneMore ==
  ASSUME NEW b, Builder(b), NEW c, NEW M, NEW more \in Seq(M),
         Within(c, Len(b.params) + Len(more))
  PROVE  /\ Builder(Extended(b, c, more))
         /\ \A row : Admits(Extended(b, c, more), row) <=>
                       Admits(b, row) /\ Holds(row, c, b.params \o more)
<1> DEFINE e == Extended(b, c, more)
           C == Range(b.conditions)
           P == Range(b.params)
<1>1. b.conditions \in Seq(C) /\ b.params \in Seq(P) /\ Len(b.params) \in Nat /\ Len(more) \in Nat
  BY DEF Builder
<1>2. e.conditions = Append(b.conditions, c) /\ e.params = b.params \o more
      /\ e.param_idx = b.param_idx + Len(more)
      /\ e = [conditions |-> e.conditions, params |-> e.params, param_idx |-> e.param_idx]
  BY DEF Extended
<1> HIDE DEF e, C, P
<1>3. e.conditions \in Seq(C \cup {c}) /\ Range(e.conditions) = C \cup {c}
  <2>1. b.conditions \in Seq(C \cup {c}) /\ c \in C \cup {c}
    BY <1>1
  <2>2. e.conditions \in Seq(C \cup {c})
    BY <1>2, <2>1
  <2>3. DOMAIN e.conditions = 1 .. Len(b.conditions) + 1 /\ Len(b.conditions) \in Nat
        /\ DOMAIN b.conditions = 1 .. Len(b.conditions)
    BY <1>1, <1>2
  <2>4. /\ \A i \in 1 .. Len(b.conditions) : e.conditions[i] = b.conditions[i]
        /\ e.conditions[Len(b.conditions) + 1] = c
    BY <1>1, <1>2
  <2>5. \A x : x \in Range(e.conditions) <=> x \in C \cup {c}
    BY <2>3, <2>4 DEF C, Range
  <2>6. QED
    BY <2>2, <2>5
<1>4. e.params \in Seq(Range(e.params)) /\ Len(e.params) = Len(b.params) + Len(more)
      /\ Begins(e.params, b.params)
  <2>1. e.params \in Seq(P \cup M) /\ Len(e.params) = Len(b.params) + Len(more)
    BY <1>1, <1>2
  <2>2. \A i \in 1 .. Len(b.params) : e.params[i] = b.params[i]
    BY <1>1, <1>2
  <2>3. e.params \in Seq(Range(e.params))
    BY <2>1 DEF Range
  <2>4. QED
    BY <1>1, <2>1, <2>2, <2>3 DEF Begins
<1>5. \A d \in C : Within(d, Len(b.params))
  BY DEF Builder, C
<1>6. \A d \in C \cup {c} : Within(d, Len(e.params))
  BY <1>1, <1>4, <1>5 DEF Within
<1>7. Builder(e)
  <2>1. e.param_idx = Len(e.params) + 1
    BY <1>1, <1>2, <1>4 DEF Builder
  <2>2. QED
    BY <1>2, <1>3, <1>4, <1>6, <2>1 DEF Builder
<1>8. ASSUME NEW row PROVE Admits(e, row) <=> Admits(b, row) /\ Holds(row, c, b.params \o more)
  <2>1. \A d \in C : Holds(row, d, e.params) <=> Holds(row, d, b.params)
    BY <1>4, <1>5, HoldsStays
  <2>2. QED
    BY <1>2, <1>3, <2>1 DEF Admits, C
<1>9. QED
  BY <1>7, <1>8 DEF e

\* It holds of the rows that the clause admits.
LEMMA GroupedMeans ==
  ASSUME NEW b, Builder(b), NEW T, NEW clause \in Seq(T), NEW by, Numbered(b, clause),
         clause # <<>>
  PROVE  LET wc == InterpolateWhereClause(b, clause, by)
         IN /\ Within(Grouped(wc.terms), Len(Followed(b, wc)))
            /\ \A row : Holds(row, Grouped(wc.terms), Followed(b, wc)) <=> ClauseAdmits(clause, by, row)
<1> DEFINE wc == InterpolateWhereClause(b, clause, by)
           c == Grouped(wc.terms)
           params == Followed(b, wc)
<1>1. b.params \in Seq(Range(b.params))
  BY DEF Builder
<1>2. \A i \in DOMAIN clause : TermMeans(b, clause, by, i)
  BY <1>1, TermsMean
<1>3. DOMAIN wc.terms = DOMAIN clause
  <2>1. Interpolates(b, T, clause, by)
    BY InterpolatedParams
  <2>2. QED
    BY <2>1 DEF Interpolates
<1>4. \A i \in DOMAIN clause :
        /\ wc.terms[i].col = clause[i].col
        /\ Operands(wc.terms[i], params) = <<Meaning(clause[i], by)>>
        /\ \A j \in DOMAIN wc.terms[i].at : wc.terms[i].at[j] \in 1 .. Len(params)
  BY <1>2 DEF TermMeans
<1> HIDE DEF wc, params
<1>5. c.op = "any" /\ c.at = <<>> /\ c.terms = wc.terms
  BY DEF Grouped
<1> HIDE DEF c
<1>6. Within(c, Len(params))
  BY <1>3, <1>4, <1>5 DEF Within
<1>7. ASSUME NEW row PROVE Holds(row, c, params) <=> ClauseAdmits(clause, by, row)
  <2>1. Holds(row, c, params) <=>
          \E i \in DOMAIN wc.terms : Equal(row[wc.terms[i].col], Operands(wc.terms[i], params)[1])
    BY <1>5 DEF Holds
  <2>2. \A i \in DOMAIN clause : Operands(wc.terms[i], params)[1] = Meaning(clause[i], by)
    BY <1>4
  <2>3. Holds(row, c, params) <=>
          \E i \in DOMAIN clause : Equal(row[clause[i].col], Meaning(clause[i], by))
    BY <1>3, <1>4, <2>1, <2>2
  <2>4. ClauseAdmits(clause, by, row) <=>
          \E i \in DOMAIN clause : Equal(row[clause[i].col], Meaning(clause[i], by))
    BY DEF ClauseAdmits, Meaning, Range
  <2>5. QED
    BY <2>3, <2>4
<1>8. QED
  BY <1>6, <1>7 DEF c, wc, params

\* The rows it finds are those it found before and the clause admits.
LEMMA ClauseApplied ==
  ASSUME NEW b, Builder(b), NEW T, NEW clause \in Seq(T), NEW by, Numbered(b, clause)
  PROVE  /\ Builder(ApplyWhereClause(b, clause, by))
         /\ \A row : Admits(ApplyWhereClause(b, clause, by), row) <=>
                       Admits(b, row) /\ ClauseAdmits(clause, by, row)
<1>1. CASE clause = <<>>
  BY <1>1 DEF ApplyWhereClause, ClauseAdmits
<1>2. CASE clause # <<>>
  <2> DEFINE wc == InterpolateWhereClause(b, clause, by)
             V == {Text(Resolve(t, by)) : t \in T}
  <2>1. Interpolates(b, T, clause, by)
    BY InterpolatedParams
  <2>2. wc.params \in Seq(V)
    BY <2>1 DEF Interpolates
  <2>3. ApplyWhereClause(b, clause, by) = Extended(b, Grouped(wc.terms), wc.params)
    BY <1>2 DEF ApplyWhereClause, Extended
  <2>4. /\ Within(Grouped(wc.terms), Len(Followed(b, wc)))
        /\ \A row : Holds(row, Grouped(wc.terms), Followed(b, wc)) <=> ClauseAdmits(clause, by, row)
    BY <1>2, GroupedMeans
  <2>5. Len(Followed(b, wc)) = Len(b.params) + Len(wc.params)
    <3>1. b.params \in Seq(Range(b.params))
      BY DEF Builder
    <3>2. QED
      BY <2>2, <3>1, ConcatPlaces DEF Followed
  <2> HIDE DEF wc, V
  <2>6. Within(Grouped(wc.terms), Len(b.params) + Len(wc.params))
    BY <2>4, <2>5
  <2>7. /\ Builder(Extended(b, Grouped(wc.terms), wc.params))
        /\ \A row : Admits(Extended(b, Grouped(wc.terms), wc.params), row) <=>
                      Admits(b, row) /\ Holds(row, Grouped(wc.terms), b.params \o wc.params)
    BY <2>2, <2>6, OneMore
  <2>8. QED
    BY <2>3, <2>4, <2>7 DEF Followed
<1>3. QED
  BY <1>1, <1>2

\* The key in the path.
KeyAdmits(pk, row) == ~IsSentinel(pk) /\ Equal(row["id"], pk)

\* Each of several new placeholders is written with the number of its parameter.
NumbersAre(b, at, n) ==
  DOMAIN at = 1 .. n /\ \A i \in 1 .. n : at[i] = Len(b.params) + i

\* The numbers follow those of the parameters before.
LEMMA PlaceholdersAre ==
  ASSUME NEW b, Builder(b), NEW n \in Nat
  PROVE  NumbersAre(b, Placeholders(b, b.param_idx, n), n)
<1>1. Len(b.params) \in Nat /\ b.param_idx = Len(b.params) + 1
  BY DEF Builder
<1>2. QED
  BY <1>1 DEF Placeholders, NumbersAre

\* The rows it finds are those it found before that have the key in the path.
LEMMA KeyApplied ==
  ASSUME NEW b, Builder(b), NEW pk
  PROVE  /\ Builder(ApplyPkCondition(b, pk))
         /\ \A row : Admits(ApplyPkCondition(b, pk), row) <=> Admits(b, row) /\ KeyAdmits(pk, row)
<1>0. /\ b.params \in Seq(Range(b.params)) /\ Len(b.params) \in Nat
      /\ b = [conditions |-> b.conditions, params |-> b.params, param_idx |-> b.param_idx]
      /\ b.param_idx \in Nat
  BY DEF Builder
<1>1. CASE IsSentinel(pk)
  <2> DEFINE none == <<>>
  <2>1. ApplyPkCondition(b, pk) = Extended(b, Nowhere, none)
    <3>1. b.params \o none = b.params /\ b.param_idx + Len(none) = b.param_idx
      BY <1>0
    <3>2. ApplyPkCondition(b, pk) = [b EXCEPT !.conditions = Append(@, Nowhere)]
      BY <1>1 DEF ApplyPkCondition
    <3> HIDE DEF none
    <3>3. QED
      BY <1>0, <3>1, <3>2 DEF Extended
  <2>2. Nowhere.op = "false" /\ Nowhere.at = <<>> /\ Nowhere.terms = <<>>
    BY DEF Nowhere, Literal
  <2>3. Within(Nowhere, Len(b.params) + Len(none)) /\ none \in Seq({})
    BY <2>2 DEF Within
  <2>4. \A row, p : ~Holds(row, Nowhere, p)
    BY <2>2 DEF Holds
  <2> HIDE DEF none
  <2>5. /\ Builder(Extended(b, Nowhere, none))
        /\ \A row : Admits(Extended(b, Nowhere, none), row) <=>
                      Admits(b, row) /\ Holds(row, Nowhere, b.params \o none)
    BY <2>3, OneMore
  <2>6. QED
    BY <1>1, <2>1, <2>4, <2>5 DEF KeyAdmits
<1>2. CASE ~IsSentinel(pk)
  <2> DEFINE p == [type |-> setting.pk, value |-> pk]
             more == <<p>>
             c == Condition("eq", "id", Placeholders(b, b.param_idx, 1))
  <2>1. ApplyPkCondition(b, pk) = Extended(b, c, more)
    <3>1. Append(b.params, p) = b.params \o more /\ Len(more) = 1
      BY <1>0
    <3>2. QED
      BY <1>2, <3>1 DEF ApplyPkCondition, Extended
  <2>2. /\ DOMAIN Placeholders(b, b.param_idx, 1) = 1 .. 1
        /\ Placeholders(b, b.param_idx, 1)[1] = Len(b.params) + 1
    <3>1. NumbersAre(b, Placeholders(b, b.param_idx, 1), 1)
      BY PlaceholdersAre
    <3>2. QED
      BY <3>1 DEF NumbersAre
  <2>3. /\ c.op = "eq" /\ c.col = "id" /\ c.terms = <<>>
        /\ c.at = Placeholders(b, b.param_idx, 1)
    BY DEF Condition
  <2>a. p.value = pk
    OBVIOUS
  <2> HIDE DEF c, p
  <2>4. Within(c, Len(b.params) + Len(more)) /\ more \in Seq({p})
    BY <1>0, <2>2, <2>3 DEF Within
  <2>5. (b.params \o more)[Len(b.params) + 1] = p
    BY <1>0
  <2> HIDE DEF more
  <2>6. Operands(c, b.params \o more) = [i \in 1 .. 1 |-> p.value]
    <3>1. c.at # <<>>
      <4>1. DOMAIN c.at = 1 .. 1
        BY <2>2, <2>3
      <4>2. 1 \in DOMAIN c.at
        BY <4>1
      <4>3. QED
        BY <4>2
    <3>2. Operands(c, b.params \o more) = [i \in DOMAIN c.at |-> (b.params \o more)[c.at[i]].value]
      BY <3>1 DEF Operands
    <3>3. DOMAIN c.at = 1 .. 1 /\ c.at[1] = Len(b.params) + 1
      BY <2>2, <2>3
    <3>4. \A i \in 1 .. 1 : (b.params \o more)[c.at[i]].value = p.value
      <4>1. \A i \in 1 .. 1 : i = 1
        OBVIOUS
      <4>2. (b.params \o more)[c.at[1]].value = p.value
        BY <2>5, <3>3
      <4>3. QED
        BY <4>1, <4>2
    <3>5. QED
      BY <3>2, <3>3, <3>4
  <2>7. Range(Operands(c, b.params \o more)) = {pk}
    BY <2>6, <2>a DEF Range
  <2>8. \A row : Holds(row, c, b.params \o more) <=> Equal(row["id"], pk)
    BY <2>3, <2>7 DEF Holds
  <2>9. /\ Builder(Extended(b, c, more))
        /\ \A row : Admits(Extended(b, c, more), row) <=>
                      Admits(b, row) /\ Holds(row, c, b.params \o more)
    BY <2>4, OneMore
  <2>10. QED
    BY <1>2, <2>1, <2>8, <2>9 DEF KeyAdmits
<1>3. QED
  BY <1>1, <1>2

\* The operators of a filter.
FilterOps == {"exists", "eq", "ne", "in", "not_in", "contains"}

\* A filter as the query string may have it.
IsFilter(f) ==
  /\ f.op \in FilterOps
  /\ f.values \in Seq(Range(f.values))
  /\ f.op # "exists" => f.values # <<>>
  /\ f.op = "contains" => Len(f.values) = 1

\* The parameters of a filter.
FilterParams(f) == [i \in DOMAIN f.values |-> CoerceFilter(f.col, f.values[i])]

\* The parameters of a filter are its values.
LEMMA FilterParamsAre ==
  ASSUME NEW f, IsFilter(f)
  PROVE  /\ FilterParams(f) \in Seq(Range(FilterParams(f))) /\ Len(FilterParams(f)) = Len(f.values)
         /\ Len(f.values) \in Nat /\ DOMAIN f.values = 1 .. Len(f.values)
         /\ \A i \in 1 .. Len(f.values) : FilterParams(f)[i].value = f.values[i]
<1> DEFINE v == f.values
           p == FilterParams(f)
<1>1. v \in Seq(Range(v))
  BY DEF IsFilter
<1>2. Len(v) \in Nat /\ DOMAIN v = 1 .. Len(v)
  BY <1>1
<1>3. p = [i \in 1 .. Len(v) |-> CoerceFilter(f.col, v[i])]
  BY <1>2 DEF FilterParams
<1> HIDE DEF v, p
<1>4. \A i \in 1 .. Len(v) : p[i].value = v[i]
  BY <1>3 DEF CoerceFilter
<1>5. p \in Seq(Range(p)) /\ Len(p) = Len(v)
  <2>1. p \in [1 .. Len(v) -> Range(p)]
    BY <1>3 DEF Range
  <2> DEFINE R == Range(p)
  <2> HIDE DEF R
  <2>2. QED
    BY <1>2, <2>1 DEF R
<1>6. QED
  BY <1>2, <1>4, <1>5 DEF v, p

\* A condition with placeholders for all of the values.
LEMMA ValuesHold ==
  ASSUME NEW b, Builder(b), NEW f, IsFilter(f), f.op \notin {"exists"},
         NEW op \in {"eq", "ne", "in", "not_in"}
  PROVE  LET c == Condition(op, f.col, Placeholders(b, b.param_idx, Len(f.values)))
             params == b.params \o FilterParams(f)
         IN /\ Within(c, Len(b.params) + Len(FilterParams(f)))
            /\ Range(Operands(c, params)) = Range(f.values)
            /\ c.op = op /\ c.col = f.col
<1> DEFINE n == Len(f.values)
           at == Placeholders(b, b.param_idx, n)
           c == Condition(op, f.col, at)
           m == FilterParams(f)
           params == b.params \o m
<1>1. /\ m \in Seq(Range(m)) /\ Len(m) = n /\ n \in Nat /\ DOMAIN f.values = 1 .. n
      /\ \A i \in 1 .. n : m[i].value = f.values[i]
  BY FilterParamsAre
<1>2. n # 0 /\ b.params \in Seq(Range(b.params)) /\ Len(b.params) \in Nat
  <2>1. f.values \in Seq(Range(f.values)) /\ f.values # <<>>
    BY DEF IsFilter
  <2>2. QED
    BY <2>1 DEF Builder
<1>3. NumbersAre(b, at, n)
  BY <1>1, PlaceholdersAre
<1>4. c.op = op /\ c.col = f.col /\ c.at = at /\ c.terms = <<>>
  BY DEF Condition
<1>5. DOMAIN at = 1 .. n /\ \A i \in 1 .. n : at[i] = Len(b.params) + i
  BY <1>3 DEF NumbersAre
<1>6. \A i \in 1 .. n : params[Len(b.params) + i] = m[i]
  BY <1>1, <1>2, ConcatPlaces
<1> HIDE DEF n, at, c, m, params
<1>7. Within(c, Len(b.params) + Len(m))
  <2>1. \A i \in DOMAIN c.at : c.at[i] \in 1 .. Len(b.params) + n
    BY <1>1, <1>2, <1>4, <1>5
  <2>2. DOMAIN c.terms = {}
    BY <1>4
  <2>3. QED
    BY <1>1, <2>1, <2>2 DEF Within
<1>8. Operands(c, params) = [i \in 1 .. n |-> f.values[i]]
  <2>1. 1 \in DOMAIN at
    BY <1>1, <1>2, <1>5
  <2>2. c.at # <<>>
    BY <1>4, <2>1
  <2>3. Operands(c, params) = [i \in DOMAIN c.at |-> params[c.at[i]].value]
    BY <2>2 DEF Operands
  <2>4. \A i \in 1 .. n : params[c.at[i]].value = f.values[i]
    BY <1>1, <1>4, <1>5, <1>6
  <2>5. QED
    BY <1>4, <1>5, <2>3, <2>4
<1>9. Range(Operands(c, params)) = Range(f.values)
  BY <1>1, <1>8 DEF Range
<1>10. QED
  BY <1>4, <1>7, <1>9 DEF n, at, c, m, params

\* The rows it finds are those it found before and the filter admits.
LEMMA FilterApplied ==
  ASSUME NEW b, Builder(b), NEW f, IsFilter(f)
  PROVE  /\ Builder(ApplyFilterExpression(b, f))
         /\ \A row : Admits(ApplyFilterExpression(b, f), row) <=>
                       Admits(b, row) /\ FilterAdmits(f, row)
<1>0. /\ b.params \in Seq(Range(b.params)) /\ Len(b.params) \in Nat
      /\ b = [conditions |-> b.conditions, params |-> b.params, param_idx |-> b.param_idx]
      /\ b.param_idx \in Nat
  BY DEF Builder
<1>1. CASE f.op = "exists"
  <2> DEFINE none == <<>>
             c == Literal("exists", f.col, Null)
  <2>1. ApplyFilterExpression(b, f) = Extended(b, c, none)
    <3>1. b.params \o none = b.params /\ b.param_idx + Len(none) = b.param_idx
      BY <1>0
    <3>2. ApplyFilterExpression(b, f) = [b EXCEPT !.conditions = Append(@, c)]
      BY <1>1 DEF ApplyFilterExpression
    <3> HIDE DEF none, c
    <3>3. QED
      BY <1>0, <3>1, <3>2 DEF Extended
  <2>2. c.op = "exists" /\ c.at = <<>> /\ c.terms = <<>> /\ c.col = f.col
    BY DEF Literal
  <2> HIDE DEF c
  <2>3. Within(c, Len(b.params) + Len(none)) /\ none \in Seq({})
    BY <2>2 DEF Within
  <2>4. \A row, p : Holds(row, c, p) <=> FilterAdmits(f, row)
    BY <1>1, <2>2 DEF Holds, FilterAdmits
  <2> HIDE DEF none
  <2>5. /\ Builder(Extended(b, c, none))
        /\ \A row : Admits(Extended(b, c, none), row) <=>
                      Admits(b, row) /\ Holds(row, c, b.params \o none)
    BY <2>3, OneMore
  <2>6. QED
    BY <2>1, <2>4, <2>5
<1>2. CASE f.op # "exists"
  <2> DEFINE m == FilterParams(f)
             c == BuildFilterCondition(b, f)
  <2>1. m \in Seq(Range(m)) /\ Len(m) = Len(f.values)
    BY FilterParamsAre
  <2>2. ApplyFilterExpression(b, f) = Extended(b, c, m)
    BY <1>2, <2>1 DEF ApplyFilterExpression, Extended, FilterParams
  <2>3. Within(c, Len(b.params) + Len(m)) /\ \A row : Holds(row, c, b.params \o m) <=> FilterAdmits(f, row)
    <3>1. CASE Inlined(f)
      <4>1. c = Literal("eq", f.col, f.values[1])
        BY <3>1 DEF BuildFilterCondition
      <4>2. c.op = "eq" /\ c.col = f.col /\ c.at = <<>> /\ c.terms = <<>> /\ c.value = f.values[1]
        BY <4>1 DEF Literal
      <4> HIDE DEF c, m
      <4>3. Within(c, Len(b.params) + Len(m))
        BY <4>2 DEF Within
      <4>4. f.op = "contains" /\ Len(f.values) = 1 /\ f.values \in Seq(Range(f.values))
        BY <3>1 DEF Inlined, IsFilter
      <4>5. Range(f.values) = {f.values[1]}
        <5>1. DOMAIN f.values = {1}
          BY <4>4
        <5>2. QED
          BY <5>1 DEF Range
      <4>6. Range(Operands(c, b.params \o m)) = {f.values[1]}
        <5>1. Operands(c, b.params \o m) = <<f.values[1]>>
          BY <4>2 DEF Operands
        <5>2. QED
          BY <5>1 DEF Range
      <4>7. ASSUME NEW row PROVE Holds(row, c, b.params \o m) <=> FilterAdmits(f, row)
        <5>1. Holds(row, c, b.params \o m) <=> Equal(row[f.col], f.values[1])
          BY <4>2, <4>6 DEF Holds
        <5>2. FilterAdmits(f, row) <=> row[f.col] # Null /\ row[f.col] = f.values[1]
          BY <4>4, <4>5 DEF FilterAdmits
        <5>3. QED
          BY <5>1, <5>2 DEF Equal
      <4>8. QED
        BY <4>3, <4>7
    <3>2. CASE ~Inlined(f)
      <4> DEFINE op == IF f.op = "contains" THEN "eq" ELSE f.op
      <4>1. c = Condition(op, f.col, Placeholders(b, b.param_idx, Len(f.values)))
        BY <3>2 DEF BuildFilterCondition
      <4>2. op \in {"eq", "ne", "in", "not_in"} /\ (f.op # "contains" => op = f.op)
            /\ (f.op = "contains" => op = "eq") /\ f.op \in FilterOps \ {"exists"}
        BY <1>2 DEF IsFilter, FilterOps
      <4> HIDE DEF op
      <4>3. /\ Within(c, Len(b.params) + Len(m))
            /\ Range(Operands(c, b.params \o m)) = Range(f.values)
            /\ c.op = op /\ c.col = f.col
        BY <1>2, <4>1, <4>2, ValuesHold
      <4> HIDE DEF c, m
      <4>a. Range(f.values) # {}
        <5>1. f.values \in Seq(Range(f.values)) /\ f.values # <<>>
          BY <1>2 DEF IsFilter
        <5>2. 1 \in DOMAIN f.values
          BY <5>1
        <5>3. QED
          BY <5>2 DEF Range
      <4>4. ASSUME NEW row PROVE Holds(row, c, b.params \o m) <=> FilterAdmits(f, row)
        <5> DEFINE v == row[f.col]
                   W == Range(f.values)
        <5>1. CASE f.op \in {"eq", "in", "contains"}
          <6>1. Holds(row, c, b.params \o m) <=> \E w \in W : Equal(v, w)
            BY <4>2, <4>3, <5>1 DEF Holds
          <6>2. FilterAdmits(f, row) <=> v # Null /\ v \in W
            BY <5>1 DEF FilterAdmits
          <6>3. QED
            BY <6>1, <6>2 DEF Equal
        <5>2. CASE f.op \in {"ne", "not_in"}
          <6>1. Holds(row, c, b.params \o m) <=> \A w \in W : v # Null /\ w # Null /\ v # w
            BY <4>2, <4>3, <5>2 DEF Holds
          <6>2. FilterAdmits(f, row) <=> v # Null /\ Null \notin W /\ v \notin W
            BY <5>2 DEF FilterAdmits
          <6>3. QED
            BY <4>a, <6>1, <6>2
        <5>3. QED
          BY <4>2, <5>1, <5>2 DEF FilterOps
      <4>5. QED
        BY <4>3, <4>4
    <3>3. QED
      BY <3>1, <3>2
  <2> HIDE DEF c, m
  <2>4. /\ Builder(Extended(b, c, m))
        /\ \A row : Admits(Extended(b, c, m), row) <=>
                      Admits(b, row) /\ Holds(row, c, b.params \o m)
    BY <2>1, <2>3, OneMore
  <2>5. QED
    BY <2>2, <2>3, <2>4
<1>3. QED
  BY <1>1, <1>2

\* A statement with one list of conditions finds the rows that all of them hold of.
LEMMA SelectedByAll ==
  ASSUME NEW rows, NEW conds, NEW params
  PROVE  Selected(rows, <<conds>>, params) =
           {k \in DOMAIN rows : \A c \in Range(conds) : Holds(rows[k], c, params)}
<1> DEFINE one == <<conds>>
<1>1. DOMAIN one = {1} /\ one[1] = conds
  OBVIOUS
<1> HIDE DEF one
<1>2. Selected(rows, one, params) =
           {k \in DOMAIN rows : \A c \in Range(conds) : Holds(rows[k], c, params)}
  BY <1>1 DEF Selected
<1>3. QED
  BY <1>2 DEF one

\* The clause behind the key's condition, if it is one comparison or none.
LEMMA WhereFinds ==
  ASSUME NEW b, Builder(b), NEW T, NEW clause \in Seq(T), NEW by, Numbered(b, clause),
         Len(clause) <= 1, NEW rows
  PROVE  Selected(rows, BuildWhere(b, clause, by).ored, BuildWhere(b, clause, by).params) =
           {k \in DOMAIN rows : Admits(b, rows[k]) /\ ClauseAdmits(clause, by, rows[k])}
<1> DEFINE w == BuildWhere(b, clause, by)
<1>1. CASE clause = <<>>
  <2>1. w.ored = <<b.conditions>> /\ w.params = b.params
    BY <1>1 DEF BuildWhere
  <2>2. \A row : ClauseAdmits(clause, by, row)
    BY <1>1 DEF ClauseAdmits
  <2> HIDE DEF w
  <2>3. Selected(rows, w.ored, w.params) = {k \in DOMAIN rows : Admits(b, rows[k])}
    BY <2>1, SelectedByAll DEF Admits
  <2>4. QED
    BY <2>2, <2>3 DEF w
<1>2. CASE clause # <<>>
  <2> DEFINE wc == InterpolateWhereClause(b, clause, by)
             V == {Text(Resolve(t, by)) : t \in T}
             c == wc.terms[1]
             e == Extended(b, c, wc.params)
  <2>1. Len(clause) = 1 /\ DOMAIN clause = {1}
    <3>1. Len(clause) \in Nat /\ DOMAIN clause = 1 .. Len(clause)
      OBVIOUS
    <3>2. Len(clause) # 0
      BY <1>2, EmptySeq
    <3>3. Len(clause) = 1
      BY <3>1, <3>2
    <3>4. QED
      BY <3>1, <3>3
  <2>2. Interpolates(b, T, clause, by)
    BY InterpolatedParams
  <2>3. wc.params \in Seq(V)
    BY <2>2 DEF Interpolates
  <2>4. b.params \in Seq(Range(b.params)) /\ Len(b.params) \in Nat
    BY DEF Builder
  <2>5. TermMeans(b, clause, by, 1)
    BY <2>1, <2>4, TermsMean
  <2>6. /\ c.op = "eq" /\ c.col = clause[1].col /\ c.terms = <<>>
        /\ Operands(c, Followed(b, wc)) = <<Meaning(clause[1], by)>>
        /\ \A j \in DOMAIN c.at : c.at[j] \in 1 .. Len(Followed(b, wc))
    BY <2>5 DEF TermMeans
  <2>7. /\ w.ored = <<Append(b.conditions, c)>> \o [i \in 1 .. Len(clause) - 1 |-> <<wc.terms[i + 1]>>]
        /\ w.params = b.params \o wc.params
    BY <1>2 DEF BuildWhere
  <2>8. w.ored = <<e.conditions>> /\ w.params = e.params
    <3>1. [i \in 1 .. Len(clause) - 1 |-> <<wc.terms[i + 1]>>] = <<>>
      BY <2>1
    <3>2. e.conditions = Append(b.conditions, c) /\ e.params = b.params \o wc.params
      BY DEF Extended
    <3> HIDE DEF e
    <3>3. <<e.conditions>> \o <<>> = <<e.conditions>>
      OBVIOUS
    <3>4. QED
      BY <2>7, <3>1, <3>2, <3>3
  <2> HIDE DEF w, wc, V, c
  <2>9. Len(Followed(b, wc)) = Len(b.params) + Len(wc.params)
    BY <2>3, <2>4, ConcatPlaces DEF Followed
  <2>10. Within(c, Len(b.params) + Len(wc.params))
    <3>1. DOMAIN c.terms = {}
      BY <2>6
    <3>2. QED
      BY <2>6, <2>9, <3>1 DEF Within
  <2>11. \A row : Admits(e, row) <=> Admits(b, row) /\ Holds(row, c, b.params \o wc.params)
    BY <2>3, <2>10, OneMore
  <2>12. \A row : Holds(row, c, Followed(b, wc)) <=> ClauseAdmits(clause, by, row)
    <3>1. Range(Operands(c, Followed(b, wc))) = {Meaning(clause[1], by)}
      <4>1. Range(<<Meaning(clause[1], by)>>) = {Meaning(clause[1], by)}
        BY DEF Range
      <4>2. QED
        BY <2>6, <4>1
    <3>2. \A row : Holds(row, c, Followed(b, wc)) <=> Equal(row[clause[1].col], Meaning(clause[1], by))
      BY <2>6, <3>1 DEF Holds
    <3>3. Range(clause) = {clause[1]}
      BY <2>1 DEF Range
    <3>4. \A row : ClauseAdmits(clause, by, row) <=> Equal(row[clause[1].col], Meaning(clause[1], by))
      BY <1>2, <3>3 DEF ClauseAdmits, Meaning
    <3>5. QED
      BY <3>2, <3>4
  <2> HIDE DEF e
  <2>13. Selected(rows, w.ored, w.params) = {k \in DOMAIN rows : Admits(e, rows[k])}
    BY <2>8, SelectedByAll DEF Admits
  <2>14. QED
    BY <2>11, <2>12, <2>13 DEF w, Followed
<1>3. QED
  BY <1>1, <1>2

\* What a term of the clause holds of, once the clause's parameters are there.
LEMMA TermHolds ==
  ASSUME NEW b, Builder(b), NEW T, NEW clause \in Seq(T), NEW by, Numbered(b, clause),
         NEW i \in DOMAIN clause, NEW row
  PROVE  LET wc == InterpolateWhereClause(b, clause, by)
         IN Holds(row, wc.terms[i], Followed(b, wc)) <=>
              Equal(row[clause[i].col], Meaning(clause[i], by))
<1> DEFINE wc == InterpolateWhereClause(b, clause, by)
           c == wc.terms[i]
<1>1. b.params \in Seq(Range(b.params))
  BY DEF Builder
<1>2. TermMeans(b, clause, by, i)
  BY <1>1, TermsMean
<1>3. c.op = "eq" /\ c.col = clause[i].col /\ Operands(c, Followed(b, wc)) = <<Meaning(clause[i], by)>>
  BY <1>2 DEF TermMeans
<1>4. Range(<<Meaning(clause[i], by)>>) = {Meaning(clause[i], by)}
  BY DEF Range
<1> HIDE DEF c, wc
<1>5. Range(Operands(c, Followed(b, wc))) = {Meaning(clause[i], by)}
  BY <1>3, <1>4
<1>6. QED
  BY <1>3, <1>5 DEF Holds, c, wc

\* The clause behind the key's condition, however many comparisons it has: the
\* first alone goes with the key.
LEMMA WhereBounds ==
  ASSUME NEW b, Builder(b), NEW T, NEW clause \in Seq(T), NEW by, Numbered(b, clause), NEW rows,
         NEW k \in DOMAIN rows
  PROVE  LET found == Selected(rows, BuildWhere(b, clause, by).ored, BuildWhere(b, clause, by).params)
         IN /\ Admits(b, rows[k]) /\ ClauseAdmits(clause, by, rows[k]) => k \in found
            /\ k \in found => ClauseAdmits(clause, by, rows[k])
<1> DEFINE w == BuildWhere(b, clause, by)
           row == rows[k]
<1>1. CASE clause = <<>>
  <2>1. Len(clause) <= 1
    BY <1>1
  <2>2. QED
    BY <2>1, WhereFinds
<1>2. CASE clause # <<>>
  <2> DEFINE wc == InterpolateWhereClause(b, clause, by)
             n == Len(clause)
             params == Followed(b, wc)
             Term(i) == wc.terms[i]
             front == Append(b.conditions, Term(1))
             rest == [i \in 1 .. n - 1 |-> <<Term(i + 1)>>]
             Meets(i) == Equal(row[clause[i].col], Meaning(clause[i], by))
  <2>1. n \in Nat /\ n >= 1 /\ DOMAIN clause = 1 .. n
    BY <1>2
  <2>2. \A i \in 1 .. n : Holds(row, Term(i), params) <=> Meets(i)
    BY <2>1, TermHolds
  <2>3. ClauseAdmits(clause, by, row) <=> \E i \in 1 .. n : Meets(i)
    BY <1>2, <2>1 DEF ClauseAdmits, Meaning, Range
  <2>4. w.ored = <<front>> \o rest /\ w.params = params
    BY <1>2 DEF BuildWhere, Followed
  <2>5. b.conditions \in Seq(Range(b.conditions)) /\ DOMAIN b.conditions = 1 .. Len(b.conditions)
        /\ Len(b.conditions) \in Nat
    BY DEF Builder
  <2>6. (\A c \in Range(front) : Holds(row, c, params)) <=> Admits(b, row) /\ Meets(1)
    <3> DEFINE e == Extended(b, Term(1), wc.params)
    <3>1. e.conditions = front /\ e.params = params
      BY DEF Extended, Followed
    <3>2. wc.params \in Seq({Text(Resolve(t, by)) : t \in T})
      <4>1. Interpolates(b, T, clause, by)
        BY InterpolatedParams
      <4>2. QED
        BY <4>1 DEF Interpolates
    <3>3. Within(Term(1), Len(b.params) + Len(wc.params))
      <4>1. TermMeans(b, clause, by, 1)
        <5>1. b.params \in Seq(Range(b.params)) /\ 1 \in DOMAIN clause
          BY <2>1 DEF Builder
        <5>2. QED
          BY <5>1, TermsMean
      <4>2. Term(1).terms = <<>> /\ \A j \in DOMAIN Term(1).at : Term(1).at[j] \in 1 .. Len(params)
        BY <4>1 DEF TermMeans
      <4>3. Len(params) = Len(b.params) + Len(wc.params)
        <5>1. b.params \in Seq(Range(b.params))
          BY DEF Builder
        <5> HIDE DEF wc
        <5>2. QED
          BY <3>2, <5>1, ConcatPlaces DEF Followed
      <4>4. DOMAIN Term(1).terms = {}
        BY <4>2
      <4> HIDE DEF Term, params, wc
      <4>5. QED
        BY <4>2, <4>3, <4>4 DEF Within
    <3> HIDE DEF wc
    <3>4. Admits(Extended(b, Term(1), wc.params), row) <=>
            Admits(b, row) /\ Holds(row, Term(1), b.params \o wc.params)
      <4> HIDE DEF Term
      <4>1. QED
        BY <3>2, <3>3, OneMore
    <3>5. Holds(row, Term(1), b.params \o wc.params) <=> Meets(1)
      BY <2>1, <2>2 DEF Followed
    <3>6. Admits(e, row) <=> \A c \in Range(front) : Holds(row, c, params)
      <4> HIDE DEF e, front, params
      <4>1. QED
        BY <3>1 DEF Admits
    <3>7. QED
      BY <3>4, <3>5, <3>6 DEF e
  <2>7. /\ DOMAIN w.ored = 1 .. n /\ w.ored[1] = front
        /\ \A i \in 2 .. n : w.ored[i] = <<Term(i)>>
    <3> DEFINE R == {<<Term(i)>> : i \in 1 .. n}
               one == <<front>>
    <3>1. rest \in Seq(R) /\ Len(rest) = n - 1
      <4> HIDE DEF Term, n
      <4>1. \A i \in 1 .. n - 1 : i + 1 \in 1 .. n
        BY <2>1
      <4>2. rest \in [1 .. n - 1 -> R] /\ n - 1 \in Nat
        BY <2>1, <4>1
      <4> HIDE DEF R, rest
      <4>3. QED
        BY <4>2
    <3>2. one \in Seq({front}) /\ Len(one) = 1 /\ one[1] = front
      OBVIOUS
    <3>3. \A i \in 1 .. n - 1 : rest[i] = <<Term(i + 1)>>
      OBVIOUS
    <3>4. w.ored = one \o rest
      BY <2>4
    <3> DEFINE F == {front}
    <3>a. one \in Seq(F) /\ rest \in Seq(R)
      BY <3>1, <3>2
    <3> HIDE DEF w, one, rest, R, F, front, Term, n
    <3>5. /\ one \o rest \in Seq(F \cup R) /\ Len(one \o rest) = Len(one) + Len(rest)
          /\ \A i \in 1 .. Len(one) : (one \o rest)[i] = one[i]
          /\ \A i \in 1 .. Len(rest) : (one \o rest)[Len(one) + i] = rest[i]
      BY <3>a, ConcatPlaces
    <3>6. ASSUME NEW i \in 2 .. n PROVE w.ored[i] = <<Term(i)>>
      <4>1. i - 1 \in 1 .. n - 1 /\ 1 + (i - 1) = i /\ (i - 1) + 1 = i
        BY <2>1
      <4>2. (one \o rest)[1 + (i - 1)] = rest[i - 1]
        BY <3>1, <3>2, <3>5, <4>1
      <4>3. rest[i - 1] = <<Term((i - 1) + 1)>>
        BY <3>3, <4>1
      <4>4. QED
        BY <3>4, <4>1, <4>2, <4>3
    <3>7. DOMAIN w.ored = 1 .. n
      BY <2>1, <3>1, <3>2, <3>4, <3>5
    <3>8. w.ored[1] = front
      BY <3>2, <3>4, <3>5
    <3>9. QED
      BY <3>6, <3>7, <3>8
  <2>8. \A i \in 2 .. n : (\A c \in Range(w.ored[i]) : Holds(row, c, params)) <=> Meets(i)
    <3>1. ASSUME NEW i \in 2 .. n
          PROVE  (\A c \in Range(w.ored[i]) : Holds(row, c, params)) <=> Meets(i)
      <4>1. w.ored[i] = <<Term(i)>> /\ i \in 1 .. n
        BY <2>1, <2>7
      <4> HIDE DEF w, Term, params, Meets
      <4>2. Range(<<Term(i)>>) = {Term(i)}
        BY DEF Range
      <4>3. QED
        BY <2>2, <4>1, <4>2
    <3>2. QED
      BY <3>1
  <2>9. k \in Selected(rows, w.ored, w.params) <=>
          \E i \in 1 .. n : \A c \in Range(w.ored[i]) : Holds(row, c, params)
    <3> HIDE DEF w, params
    <3>1. QED
      BY <2>4, <2>7 DEF Selected
  <2> HIDE DEF w, params, Term, front, rest, Meets, n, row
  <2>10. \A i \in 1 .. n : i = 1 \/ i \in 2 .. n
    BY <2>1
  <2>11. k \in Selected(rows, w.ored, w.params) <=>
           (Admits(b, row) /\ Meets(1)) \/ \E i \in 2 .. n : Meets(i)
    BY <2>1, <2>6, <2>7, <2>8, <2>9, <2>10
  <2>12. (\E i \in 1 .. n : Meets(i)) <=> Meets(1) \/ \E i \in 2 .. n : Meets(i)
    BY <2>1, <2>10
  <2>13. QED
    BY <2>3, <2>11, <2>12 DEF row, w
<1>3. QED
  BY <1>1, <1>2

\* A statement that has no condition yet.
LEMMA Bare ==
  ASSUME NEW P, NEW params \in Seq(P), NEW b,
         b = [conditions |-> <<>>, params |-> params, param_idx |-> Len(params) + 1]
  PROVE  Builder(b) /\ \A row : Admits(b, row)
<1>1. b.conditions = <<>> /\ b.params = params /\ b.param_idx = Len(params) + 1
  OBVIOUS
<1>2. Range(b.conditions) = {}
  BY <1>1 DEF Range
<1>3. params \in Seq(Range(params))
  BY DEF Range
<1>4. QED
  BY <1>1, <1>2, <1>3 DEF Builder, Admits

\* A SELECT and a DELETE start with nothing.
LEMMA NewIsBare == Builder(NewBuilder) /\ \A row : Admits(NewBuilder, row)
<1> DEFINE none == <<>>
<1>1. none \in Seq({}) /\ Len(none) + 1 = 1
  OBVIOUS
<1>2. NewBuilder = [conditions |-> <<>>, params |-> none, param_idx |-> Len(none) + 1]
  BY <1>1 DEF NewBuilder
<1> HIDE DEF none
<1>3. QED
  BY <1>1, <1>2, Bare

\* The SET of an UPDATE has parameters and no condition.
LEMMA SetIsBare ==
  ASSUME NEW q
  PROVE  Builder(SetParams(q)) /\ \A row : Admits(SetParams(q), row)
<1> DEFINE columns == Only(<<"id", "owner", "state">>, DOMAIN Written(q))
           ParamOf(col) == [type |-> ColumnType(col), value |-> Written(q)[col]]
           params == [i \in DOMAIN columns |-> ParamOf(columns[i])]
<1>1. columns \in Seq(Columns)
  <2>1. <<"id", "owner", "state">> \in Seq(Columns)
    BY DEF Columns
  <2>2. QED
    BY <2>1, OnlyPlaces
<1>2. SetParams(q) = [NewBuilder EXCEPT !.params = params, !.param_idx = Len(columns) + 1]
  BY DEF SetParams
<1> HIDE DEF columns, ParamOf
<1>3. params \in Seq({ParamOf(col) : col \in Columns}) /\ Len(params) = Len(columns)
  BY <1>1
<1> HIDE DEF params
<1>4. SetParams(q) = [conditions |-> <<>>, params |-> params, param_idx |-> Len(params) + 1]
  BY <1>2, <1>3 DEF NewBuilder
<1>5. QED
  BY <1>3, <1>4, Bare

\* A table whose rows carry their keys.
KeyedTable(rows) == DOMAIN rows \subseteq Keys /\ \A k \in DOMAIN rows : rows[k].id = k

\* The condition for the key in the path finds the row with that key.
LEMMA KeyMeans ==
  ASSUME NEW rows, KeyedTable(rows), NEW k \in DOMAIN rows, NEW pk
  PROVE  KeyAdmits(pk, rows[k]) <=> k = pk
<1>1. k \in Keys /\ rows[k].id = k
  BY DEF KeyedTable
<1>2. Null \notin Keys /\ Junk \notin Keys
  BY KeysAssumption
<1>3. QED
  BY <1>1, <1>2 DEF KeyAdmits, IsSentinel, Equal

\* The rows that a request for one row is about.
Wanted(rows, clause, q) == {k \in DOMAIN rows : k = q.pk /\ ClauseAdmits(clause, q.by, rows[k])}

\* No other rows than the clause admits, and that one at least.
Confined(touched, rows, clause, q) ==
  Wanted(rows, clause, q) \subseteq touched
  /\ touched \subseteq {k \in DOMAIN rows : ClauseAdmits(clause, q.by, rows[k])}

\* The row that is asked for is confined to itself.
LEMMA WantedConfined ==
  ASSUME NEW rows, NEW clause, NEW q
  PROVE  Confined(Wanted(rows, clause, q), rows, clause, q)
  BY DEF Confined, Wanted

\* The clauses of an endpoint are lists.
LEMMA ClausesAreLists ==
  ASSUME setting \in Offers
  PROVE  /\ setting.where \in Seq(Range(setting.where))
         /\ setting.updateWhere \in Seq(Range(setting.updateWhere))
         /\ setting.deleteWhere \in Seq(Range(setting.deleteWhere))
  BY ListsAssumption

\* build_select_one.
LEMMA GetFinds ==
  ASSUME setting \in Offers, NEW rows, KeyedTable(rows), NEW q,
         Counted(setting.where)
  PROVE  Selected(rows, <<BuildSelectOne(q).conditions>>, BuildSelectOne(q).params) =
           Wanted(rows, setting.where, q)
<1> DEFINE a == ApplyPkCondition(NewBuilder, q.pk)
           b == BuildSelectOne(q)
<1>1. Builder(a) /\ \A row : Admits(a, row) <=> KeyAdmits(q.pk, row)
  BY NewIsBare, KeyApplied
<1>2. setting.where \in Seq(Range(setting.where))
  BY ClausesAreLists
<1>3. Numbered(a, setting.where)
  BY DEF Numbered, Counted
<1>4. b = ApplyWhereClause(a, setting.where, q.by)
  BY DEF BuildSelectOne
<1> HIDE DEF a, b
<1>5. \A row : Admits(b, row) <=> Admits(a, row) /\ ClauseAdmits(setting.where, q.by, row)
  BY <1>1, <1>2, <1>3, <1>4, ClauseApplied
<1>6. Selected(rows, <<b.conditions>>, b.params) = {k \in DOMAIN rows : Admits(b, rows[k])}
  BY SelectedByAll DEF Admits
<1>7. \A k \in DOMAIN rows : KeyAdmits(q.pk, rows[k]) <=> k = q.pk
  BY KeyMeans
<1>8. QED
  BY <1>1, <1>5, <1>6, <1>7 DEF Wanted, b

\* build_update and build_delete: what follows the parameters of SET.
LEMMA ChangeFinds ==
  ASSUME NEW rows, KeyedTable(rows), NEW q, NEW T, NEW clause \in Seq(T), Counted(clause),
         NEW b, Builder(b), \A row : Admits(b, row)
  PROVE  LET w == BuildWhere(ApplyPkCondition(b, q.pk), clause, q.by)
             found == Selected(rows, w.ored, w.params)
         IN /\ Confined(found, rows, clause, q)
            /\ Len(clause) <= 1 => found = Wanted(rows, clause, q)
<1> DEFINE a == ApplyPkCondition(b, q.pk)
           w == BuildWhere(a, clause, q.by)
           found == Selected(rows, w.ored, w.params)
<1>1. Builder(a) /\ \A row : Admits(a, row) <=> KeyAdmits(q.pk, row)
  BY KeyApplied
<1>2. Numbered(a, clause)
  BY DEF Numbered, Counted
<1> HIDE DEF a
<1>3. Len(clause) <= 1 =>
        found = {k \in DOMAIN rows : Admits(a, rows[k]) /\ ClauseAdmits(clause, q.by, rows[k])}
  BY <1>1, <1>2, WhereFinds
<1>4. \A k \in DOMAIN rows : KeyAdmits(q.pk, rows[k]) <=> k = q.pk
  BY KeyMeans
<1>5. \A k \in DOMAIN rows :
        /\ Admits(a, rows[k]) /\ ClauseAdmits(clause, q.by, rows[k]) => k \in found
        /\ k \in found => ClauseAdmits(clause, q.by, rows[k])
  BY <1>1, <1>2, WhereBounds
<1>6. found \subseteq DOMAIN rows
  BY DEF Selected
<1> HIDE DEF found, w
<1>7. Confined(found, rows, clause, q)
  BY <1>1, <1>4, <1>5, <1>6 DEF Confined, Wanted
<1>8. Len(clause) <= 1 => found = Wanted(rows, clause, q)
  BY <1>1, <1>3, <1>4 DEF Wanted
<1>9. QED
  BY <1>7, <1>8 DEF found, w, a

\* What a statement for one row is to touch.
Touched(touched, rows, clause, q) ==
  Counted(clause) =>
    /\ Confined(touched, rows, clause, q)
    /\ q.verb = "get_one" \/ Len(clause) <= 1 => touched = Wanted(rows, clause, q)

\* build_update.
LEMMA UpdateFinds ==
  ASSUME setting \in Offers, NEW rows, KeyedTable(rows), NEW q, q.verb # "get_one"
  PROVE  Touched(Selected(rows, BuildUpdate(q).ored, BuildUpdate(q).params), rows, setting.updateWhere, q)
  BY ClausesAreLists, SetIsBare, ChangeFinds DEF BuildUpdate, Touched

\* build_delete.
LEMMA DeleteFinds ==
  ASSUME setting \in Offers, NEW rows, KeyedTable(rows), NEW q, q.verb # "get_one"
  PROVE  Touched(Selected(rows, BuildDelete(q).ored, BuildDelete(q).params), rows, setting.deleteWhere, q)
  BY ClausesAreLists, NewIsBare, ChangeFinds DEF BuildDelete, Touched

\* The statement after n of the filters.
FiltersUpto(b, filters, g) ==
  /\ g[0] = b /\ ApplyFilters(b, filters) = g[Len(filters)]
  /\ \A n \in 1 .. Len(filters) : g[n] = ApplyFilterExpression(g[n - 1], filters[n])

\* apply_filters goes through such statements.
LEMMA FiltersRecursion ==
  ASSUME NEW b, NEW F, NEW filters \in Seq(F)
  PROVE  \E g : FiltersUpto(b, filters, g)
<1> DEFINE N == Len(filters)
           With(n, x) == ApplyFilterExpression(x, filters[n])
           Upto(f) == [n \in 0 .. N |-> IF n = 0 THEN b ELSE With(n, f[n - 1])]
           Follows(f, m) ==
             f = [n \in 0 .. m |-> f[n]] /\ f[0] = b /\ \A n \in 1 .. m : f[n] = With(n, f[n - 1])
           S == {m \in 0 .. N : \E f : Follows(f, m)}
<1>0. N \in Nat
  OBVIOUS
<1>1. (\E f : f = Upto(f)) => \E g : g = Upto(g) /\ ApplyFilters(b, filters) = g[N]
  BY DEF ApplyFilters
<1> HIDE DEF N, With
<1>2. 0 \in S
  <2> DEFINE f == [n \in 0 .. 0 |-> b]
  <2>1. f[0] = b /\ f = [n \in 0 .. 0 |-> f[n]]
    OBVIOUS
  <2> HIDE DEF f
  <2>2. Follows(f, 0)
    BY <2>1
  <2>3. QED
    BY <1>0, <2>2
<1>3. ASSUME NEW m \in 1 .. N, m - 1 \in S PROVE m \in S
  <2>1. PICK f : Follows(f, m - 1)
    BY <1>3
  <2> DEFINE g == [n \in 0 .. m |-> IF n < m THEN f[n] ELSE With(m, f[m - 1])]
  <2>2. \A n \in 0 .. m - 1 : g[n] = f[n]
    BY <1>0
  <2>3. g[m] = With(m, f[m - 1]) /\ g = [n \in 0 .. m |-> g[n]]
    BY <1>0
  <2> HIDE DEF g
  <2>a. f[0] = b /\ \A n \in 1 .. m - 1 : f[n] = With(n, f[n - 1])
    BY <2>1
  <2>b. g[0] = b
    <3>1. 0 \in 0 .. m - 1
      BY <1>0
    <3>2. QED
      BY <2>2, <2>a, <3>1
  <2>c. ASSUME NEW n \in 1 .. m PROVE g[n] = With(n, g[n - 1])
    <3>1. n - 1 \in 0 .. m - 1 /\ (n = m \/ n \in 1 .. m - 1)
      BY <1>0
    <3>2. g[n - 1] = f[n - 1]
      BY <2>2, <3>1
    <3>3. CASE n = m
      BY <2>3, <3>2, <3>3
    <3>4. CASE n \in 1 .. m - 1
      <4>1. n \in 0 .. m - 1
        BY <1>0, <3>4
      <4>2. g[n] = f[n] /\ f[n] = With(n, f[n - 1])
        BY <2>2, <2>a, <3>4, <4>1
      <4>3. QED
        BY <3>2, <4>2
    <3>5. QED
      BY <3>1, <3>3, <3>4
  <2>4. g[0] = b /\ \A n \in 1 .. m : g[n] = With(n, g[n - 1])
    BY <2>b, <2>c
  <2>5. Follows(g, m)
    BY <2>3, <2>4
  <2>6. m \in 0 .. N
    BY <1>0
  <2>7. QED
    BY <2>5, <2>6
<1>4. N \in S
  <2>1. N \in 0 .. N
    BY <1>0
  <2> HIDE DEF S
  <2>2. QED
    BY <1>0, <1>2, <1>3, <2>1, UpToN
<1>5. PICK f : Follows(f, N)
  BY <1>4
<1>6. f = Upto(f)
  <2>0. f[0] = b /\ \A n \in 1 .. N : f[n] = With(n, f[n - 1])
    BY <1>5
  <2> HIDE DEF Follows
  <2>1. \A n \in 0 .. N : f[n] = IF n = 0 THEN b ELSE With(n, f[n - 1])
    BY <1>0, <2>0
  <2>2. f = [n \in 0 .. N |-> f[n]]
    BY <1>5 DEF Follows
  <2>3. QED
    BY <2>1, <2>2
<1>7. PICK g : g = Upto(g) /\ ApplyFilters(b, filters) = g[N]
  BY <1>1, <1>6
<1>8. g[0] = b /\ \A n \in 1 .. N : g[n] = With(n, g[n - 1])
  BY <1>0, <1>7
<1>9. FiltersUpto(b, filters, g)
  BY <1>7, <1>8 DEF FiltersUpto, N, With
<1>10. QED
  BY <1>9

\* All of the filters, in whatever order they come.
LEMMA FiltersApplied ==
  ASSUME NEW b, Builder(b), NEW F, NEW filters \in Seq(F), \A f \in Range(filters) : IsFilter(f)
  PROVE  /\ Builder(ApplyFilters(b, filters))
         /\ \A row : Admits(ApplyFilters(b, filters), row) <=>
                       Admits(b, row) /\ \A f \in Range(filters) : FilterAdmits(f, row)
<1> DEFINE N == Len(filters)
<1>1. PICK g : FiltersUpto(b, filters, g)
  BY FiltersRecursion
<1>2. /\ N \in Nat /\ \A n \in 1 .. N : IsFilter(filters[n])
      /\ \A row : (\A f \in Range(filters) : FilterAdmits(f, row)) <=>
                    \A i \in 1 .. N : FilterAdmits(filters[i], row)
  BY DEF Range
<1>3. /\ g[0] = b /\ ApplyFilters(b, filters) = g[N]
      /\ \A n \in 1 .. N : g[n] = ApplyFilterExpression(g[n - 1], filters[n])
  BY <1>1 DEF FiltersUpto
<1> HIDE DEF N
<1> DEFINE Means(n) ==
             /\ Builder(g[n])
             /\ \A row : Admits(g[n], row) <=>
                           Admits(b, row) /\ \A i \in 1 .. n : FilterAdmits(filters[i], row)
           S == {n \in 0 .. N : Means(n)}
<1>4. 0 \in S
  BY <1>2, <1>3
<1>5. ASSUME NEW n \in 1 .. N, n - 1 \in S PROVE n \in S
  <2>1. Means(n - 1)
    BY <1>5
  <2>2. g[n] = ApplyFilterExpression(g[n - 1], filters[n]) /\ IsFilter(filters[n])
    BY <1>2, <1>3
  <2>3. /\ Builder(g[n])
        /\ \A row : Admits(g[n], row) <=> Admits(g[n - 1], row) /\ FilterAdmits(filters[n], row)
    BY <2>1, <2>2, FilterApplied
  <2>4. ASSUME NEW row
        PROVE  Admits(g[n], row) <=>
                 Admits(b, row) /\ \A i \in 1 .. n : FilterAdmits(filters[i], row)
    <3>1. (\A i \in 1 .. n : FilterAdmits(filters[i], row)) <=>
            (\A i \in 1 .. n - 1 : FilterAdmits(filters[i], row)) /\ FilterAdmits(filters[n], row)
      <4>1. \A i : i \in 1 .. n <=> i \in 1 .. n - 1 \/ i = n
        BY <1>2
      <4>2. QED
        BY <4>1
    <3>2. QED
      BY <2>1, <2>3, <3>1
  <2>5. n \in 0 .. N
    BY <1>2
  <2>6. QED
    BY <2>3, <2>4, <2>5
<1>6. N \in S
  <2>1. N \in 0 .. N
    BY <1>2
  <2> HIDE DEF S
  <2>2. QED
    BY <1>2, <1>4, <1>5, <2>1, UpToN
<1>7. Means(N)
  BY <1>6
<1>8. QED
  BY <1>2, <1>3, <1>7

\* What a list asks for.
LEMMA ListsAsked ==
  ASSUME setting \in Offers, NEW c \in Callers, NEW q \in Queried[setting][c], q.verb = "list"
  PROVE  /\ q.filters \in Seq(Range(q.filters)) /\ \A f \in Range(q.filters) : IsFilter(f)
         /\ q.page \in Nat \cup {Null} /\ q.size \in Nat \cup {Null}
         /\ setting.pageSize \in Nat /\ setting.maxPageSize \in Nat
  BY ListsAssumption DEF IsFilter, FilterOps

\* The conditions of a list and of the statement that counts.
LEMMA CountAdmits ==
  ASSUME setting \in Offers, NEW c \in Callers, NEW q \in Queried[setting][c], q.verb = "list"
  PROVE  Builder(BuildCount(q)) /\ \A row : Admits(BuildCount(q), row) <=> IsMeant(row, q)
<1> DEFINE a == ApplyWhereClause(NewBuilder, setting.where, q.by)
           b == BuildCount(q)
<1>1. setting.where \in Seq(Range(setting.where))
  BY ClausesAreLists
<1>2. Numbered(NewBuilder, setting.where)
  BY DEF Numbered, NewBuilder
<1>3. Builder(a) /\ \A row : Admits(a, row) <=> ClauseAdmits(setting.where, q.by, row)
  BY <1>1, <1>2, NewIsBare, ClauseApplied
<1>4. q.filters \in Seq(Range(q.filters)) /\ \A f \in Range(q.filters) : IsFilter(f)
  BY ListsAsked
<1>5. b = ApplyFilters(a, q.filters)
  BY DEF BuildCount
<1> HIDE DEF a, b
<1>6. /\ Builder(b)
      /\ \A row : Admits(b, row) <=> Admits(a, row) /\ \A f \in Range(q.filters) : FilterAdmits(f, row)
  BY <1>3, <1>4, <1>5, FiltersApplied
<1>7. QED
  BY <1>3, <1>6 DEF IsMeant, b

\* build_select_list_count.
LEMMA CountFinds ==
  ASSUME setting \in Offers, NEW c \in Callers, NEW q \in Queried[setting][c], q.verb = "list",
         NEW rows
  PROVE  Selected(rows, <<BuildCount(q).conditions>>, BuildCount(q).params) = Meant(rows, q)
<1> DEFINE b == BuildCount(q)
<1>1. \A row : Admits(b, row) <=> IsMeant(row, q)
  BY CountAdmits
<1> HIDE DEF b
<1>2. Selected(rows, <<b.conditions>>, b.params) = {k \in DOMAIN rows : Admits(b, rows[k])}
  BY SelectedByAll DEF Admits
<1>3. QED
  BY <1>1, <1>2 DEF Meant, b

\* What the statement of a list is.
ListStated(q, b) ==
  /\ b.order = OrderBy(q)
  /\ \A row : (\A c \in Range(b.conditions) : Holds(row, c, b.params)) <=> IsMeant(row, q)
  /\ ~setting.pagination => b.limit = <<>>
  /\ setting.pagination =>
       /\ b.limit # <<>>
       /\ b.params[b.limit[1]].value = PageSize(q) /\ b.params[b.limit[2]].value = Offset(q)

\* build_select_list: LIMIT and OFFSET get their parameters, and the
\* conditions keep theirs.
LEMMA ListFinds ==
  ASSUME setting \in Offers, NEW c \in Callers, NEW q \in Queried[setting][c], q.verb = "list"
  PROVE  ListStated(q, BuildSelectList(q))
<1> DEFINE b == BuildCount(q)
           l == BuildSelectList(q)
           two == <<Number(PageSize(q)), Number(Offset(q))>>
           at == Placeholders(b, b.param_idx, 2)
<1>1. Builder(b) /\ \A row : Admits(b, row) <=> IsMeant(row, q)
  BY CountAdmits
<1>2. /\ l.conditions = b.conditions /\ l.order = OrderBy(q)
      /\ setting.pagination => l.limit = at /\ l.params = b.params \o two
      /\ ~setting.pagination => l.limit = <<>> /\ l.params = b.params
  BY DEF BuildSelectList
<1>3. /\ two \in Seq(Range(two)) /\ Len(two) = 2
      /\ two[1].value = PageSize(q) /\ two[2].value = Offset(q)
  <2> DEFINE x == PageSize(q)
             y == Offset(q)
  <2> HIDE DEF x, y
  <2>1. Number(x).value = x /\ Number(y).value = y
    BY DEF Number
  <2>2. <<Number(x), Number(y)>> \in Seq(Range(<<Number(x), Number(y)>>))
    BY DEF Range
  <2>3. QED
    BY <2>1, <2>2 DEF x, y
<1>4. NumbersAre(b, at, 2)
  BY <1>1, PlaceholdersAre
<1>5. b.params \in Seq(Range(b.params)) /\ Len(b.params) \in Nat
      /\ \A d \in Range(b.conditions) : Within(d, Len(b.params))
  BY <1>1 DEF Builder
<1> HIDE DEF b, l, two, at
<1>6. /\ Begins(b.params \o two, b.params)
      /\ (b.params \o two)[Len(b.params) + 1] = two[1]
      /\ (b.params \o two)[Len(b.params) + 2] = two[2]
  <2>1. /\ Len(b.params \o two) = Len(b.params) + Len(two)
        /\ \A n \in 1 .. Len(b.params) : (b.params \o two)[n] = b.params[n]
        /\ \A n \in 1 .. Len(two) : (b.params \o two)[Len(b.params) + n] = two[n]
    <3> DEFINE p == b.params
               P == Range(p)
               T == Range(two)
    <3>1. p \in Seq(P) /\ two \in Seq(T)
      BY <1>3, <1>5
    <3> HIDE DEF p, P, T
    <3>2. /\ Len(p \o two) = Len(p) + Len(two)
          /\ \A n \in 1 .. Len(p) : (p \o two)[n] = p[n]
          /\ \A n \in 1 .. Len(two) : (p \o two)[Len(p) + n] = two[n]
      BY <3>1, ConcatPlaces
    <3>3. QED
      BY <3>2 DEF p
  <2>2. 1 \in 1 .. Len(two) /\ 2 \in 1 .. Len(two)
    BY <1>3
  <2>3. QED
    BY <1>3, <1>5, <2>1, <2>2 DEF Begins
<1>7. Begins(b.params, b.params)
  BY <1>5 DEF Begins
<1>8. Begins(l.params, b.params)
  BY <1>2, <1>6, <1>7
<1>9. \A row : (\A d \in Range(l.conditions) : Holds(row, d, l.params)) <=> IsMeant(row, q)
  <2>1. \A row : \A d \in Range(b.conditions) : Holds(row, d, l.params) <=> Holds(row, d, b.params)
    BY <1>5, <1>8, HoldsStays
  <2>2. QED
    BY <1>1, <1>2, <2>1 DEF Admits
<1>10. setting.pagination =>
         /\ l.limit # <<>>
         /\ l.params[l.limit[1]].value = PageSize(q) /\ l.params[l.limit[2]].value = Offset(q)
  <2>1. DOMAIN at = 1 .. 2 /\ at[1] = Len(b.params) + 1 /\ at[2] = Len(b.params) + 2
    BY <1>4 DEF NumbersAre
  <2>2. 1 \in DOMAIN at
    BY <2>1
  <2>3. at # <<>>
    BY <2>2
  <2>4. QED
    BY <1>2, <1>3, <1>6, <2>1, <2>3
<1>11. QED
  BY <1>2, <1>9, <1>10 DEF ListStated, l

\* Where a page starts: after the rows that are skipped, or behind all of them.
LEMMA OffsetSkips ==
  ASSUME NEW W \in Nat, NEW n \in Nat, n < W \div 2, NEW skipped \in Nat, NEW o,
         o = Least(skipped % W, W \div 2 - 1)
  PROVE  o \in Nat /\ (skipped < W => o = skipped \/ (n <= o /\ n <= skipped))
<1>1. W \div 2 \in Nat /\ W # 0
  OBVIOUS
<1>2. W \div 2 - 1 \in Nat /\ n <= W \div 2 - 1
  BY <1>1
<1>3. PICK m : m = skipped % W
  OBVIOUS
<1>4. m \in Nat
  BY <1>1, <1>3
<1>5. skipped < W => m = skipped
  BY <1>1, <1>3
<1>6. PICK l : l = W \div 2 - 1
  OBVIOUS
<1>7. o = IF m <= l THEN m ELSE l
  BY <1>3, <1>6 DEF Least
<1>8. QED
  BY <1>2, <1>4, <1>5, <1>6, <1>7

\* What SubSeq yields.
Portion(page, s, m, n, S) ==
  /\ page \in Seq(S)
  /\ m <= n => Len(page) = n - m + 1
  /\ m > n => Len(page) = 0
  /\ \A i \in 1 .. n - m + 1 : page[i] = s[m + i - 1]

\* SubSeq does so.
LEMMA SubSeqIs ==
  ASSUME NEW S, NEW s, NEW m \in Int, NEW n \in Int, \A i \in m .. n : s[i] \in S
  PROVE  Portion(SubSeq(s, m, n), s, m, n, S)
  BY DEF Portion

\* A part that starts behind the end is empty.
LEMMA PartBehind ==
  ASSUME NEW S, NEW s \in Seq(S), NEW o \in Nat, Len(s) <= o, NEW size \in Nat
  PROVE  Part(s, size, o) = <<>>
<1> DEFINE n == Len(s)
           p == Part(s, size, o)
<1>1. n \in Nat /\ n <= o + size /\ n < o + 1
  OBVIOUS
<1>2. Least(n, o + size) = n
  BY <1>1 DEF Least
<1>3. p = SubSeq(s, o + 1, n)
  BY <1>2 DEF Part
<1> HIDE DEF n, p
<1>4. \A i \in o + 1 .. n : s[i] \in S
  BY <1>1
<1>5. Portion(p, s, o + 1, n, S)
  BY <1>1, <1>3, <1>4, SubSeqIs
<1>6. p \in Seq(S) /\ Len(p) = 0
  BY <1>1, <1>5 DEF Portion
<1>7. QED
  BY <1>6, EmptySeq DEF p

\* Each line is one of finitely many.
LEMMA FewLines ==
  ASSUME setting \in Offers, NEW rows, KeyedTable(rows), NEW all, all \subseteq Lines(rows)
  PROVE  IsFiniteSet(all) /\ Cardinality(all) \in Nat /\ Cardinality(all) < Wraps \div 2 /\ Wraps \in Nat
<1> DEFINE most == (Keys \cup {Null}) \X (DOMAIN setting.joined \cup {Null})
<1>1. IsFiniteSet(most) /\ Cardinality(most) < Wraps \div 2 /\ Wraps \in Nat
  BY KeysAssumption
<1>2. Lines(rows) \subseteq most
  <2>1. DOMAIN rows \subseteq Keys
    BY DEF KeyedTable
  <2>2. setting.join \in {"none", "inner", "left", "right"}
    BY ListsAssumption
  <2>3. CASE setting.join = "none"
    BY <2>1, <2>3 DEF Lines
  <2>4. CASE setting.join = "inner"
    BY <2>1, <2>4 DEF Lines
  <2>5. CASE setting.join = "left"
    BY <2>1, <2>5 DEF Lines
  <2>6. CASE setting.join = "right"
    BY <2>1, <2>6 DEF Lines
  <2>7. QED
    BY <2>2, <2>3, <2>4, <2>5, <2>6
<1> HIDE DEF most
<1>3. all \subseteq most
  BY <1>2
<1>4. IsFiniteSet(all) /\ Cardinality(all) <= Cardinality(most)
  BY <1>1, <1>3, FS_Subset
<1>5. Cardinality(all) \in Nat /\ Cardinality(most) \in Nat
  BY <1>1, <1>4, FS_CardinalityType
<1>6. Wraps \div 2 \in Nat
  BY <1>1
<1> HIDE DEF most
<1>7. QED
  BY <1>1, <1>4, <1>5, <1>6

\* The page of the lines that are meant.
PageExact(rows, page, q) ==
  LET all == {l \in Lines(rows) : IsMeant(RowAt(rows, l[1]), q)}
      skipped == (PageOf(q) - 1) * PageSize(q)
  IN (setting.pagination => skipped < Wraps) =>
       \E lines \in SetToSeqs(all) :
         /\ InOrder(rows, lines, OrderBy(q))
         /\ page = IF setting.pagination THEN Part(lines, PageSize(q), skipped) ELSE lines

\* apply_joins, apply_sorting, apply_pagination, and LIMIT and OFFSET.
LEMMA PagesExact ==
  ASSUME setting \in Offers, NEW c \in Callers, NEW q \in Queried[setting][c], q.verb = "list",
         NEW rows, KeyedTable(rows), NEW page \in Pages(rows, BuildSelectList(q))
  PROVE  PageExact(rows, page, q)
<1> DEFINE b == BuildSelectList(q)
           all == {l \in Lines(rows) : IsMeant(RowAt(rows, l[1]), q)}
           found == {l \in Lines(rows) :
                       \A d \in Range(b.conditions) : Holds(RowAt(rows, l[1]), d, b.params)}
           n == Cardinality(all)
           size == PageSize(q)
           skipped == (PageOf(q) - 1) * size
           o == Offset(q)
<1>1. ListStated(q, b)
  BY ListFinds
<1>2. \E lines \in SetToSeqs(found) :
        /\ InOrder(rows, lines, b.order)
        /\ page = IF b.limit = <<>> THEN lines
                  ELSE Part(lines, b.params[b.limit[1]].value, b.params[b.limit[2]].value)
  BY DEF Pages
<1> HIDE DEF b
<1>3. found = all
  BY <1>1 DEF ListStated
<1>4. PICK lines \in SetToSeqs(all) :
        /\ InOrder(rows, lines, OrderBy(q))
        /\ page = IF setting.pagination THEN Part(lines, size, o) ELSE lines
  <2> HIDE DEF found, all, size, o
  <2>1. QED
    BY <1>1, <1>2, <1>3 DEF ListStated, size, o
<1>5. size \in Nat /\ skipped \in Nat
  <2>1. /\ q.page \in Nat \cup {Null} /\ q.size \in Nat \cup {Null}
        /\ setting.pageSize \in Nat /\ setting.maxPageSize \in Nat
    BY ListsAsked
  <2>2. size \in Nat
    BY <2>1 DEF PageSize, Least
  <2>3. PageOf(q) \in Nat /\ PageOf(q) # 0
    BY <2>1 DEF PageOf, AtLeastOne
  <2>4. PICK p \in Nat : p = PageOf(q) - 1
    BY <2>3
  <2> HIDE DEF size
  <2>5. p * size \in Nat
    BY <2>2
  <2>6. QED
    BY <2>2, <2>4, <2>5
<1>6. IsFiniteSet(all) /\ n \in Nat /\ n < Wraps \div 2 /\ Wraps \in Nat
  <2>1. all \subseteq Lines(rows)
    OBVIOUS
  <2> HIDE DEF all
  <2>2. QED
    BY <2>1, FewLines
<1>7. o = Least(skipped % Wraps, Wraps \div 2 - 1)
  BY DEF Offset
<1> HIDE DEF all, found, n, size, skipped, o
<1>8. o \in Nat /\ (skipped < Wraps => o = skipped \/ (n <= o /\ n <= skipped))
  <2>1. n \in Nat /\ n < Wraps \div 2 /\ Wraps \in Nat /\ skipped \in Nat
    BY <1>5, <1>6
  <2>2. PICK W \in Nat : W = Wraps
    BY <2>1
  <2>3. n \in Nat /\ n < W \div 2 /\ o = Least(skipped % W, W \div 2 - 1)
    BY <1>7, <2>1, <2>2
  <2>4. skipped \in Nat
    BY <2>1
  <2>5. o \in Nat /\ (skipped < W => o = skipped \/ (n <= o /\ n <= skipped))
    BY ONLY <2>2, <2>3, <2>4, OffsetSkips
  <2>6. QED
    BY <2>2, <2>5
<1>9. lines \in Seq(all) /\ Len(lines) = n
  <2>1. lines \in [1 .. n -> all]
    BY <1>4 DEF SetToSeqs, n
  <2>2. QED
    BY <1>6, <2>1
<1>10. skipped < Wraps => Part(lines, size, o) = Part(lines, size, skipped)
  <2>1. n <= o /\ n <= skipped => Part(lines, size, o) = <<>> /\ Part(lines, size, skipped) = <<>>
    BY <1>5, <1>8, <1>9, PartBehind
  <2>2. QED
    BY <1>8, <2>1
<1>11. (setting.pagination => skipped < Wraps) =>
         /\ InOrder(rows, lines, OrderBy(q))
         /\ page = IF setting.pagination THEN Part(lines, size, skipped) ELSE lines
  BY <1>4, <1>10
<1>12. QED
  BY <1>11 DEF PageExact, all, size, skipped

\* What a request for one row has got or changed.
TouchExact(r) ==
  LET q == r.ask
      clause == CASE q.verb = "get_one" -> setting.where
                  [] q.verb = "update" -> setting.updateWhere
                  [] q.verb = "delete" -> setting.deleteWhere
      admitted == {k \in DOMAIN r.was : ClauseAdmits(clause, q.by, r.was[k])}
      asked == {k \in admitted : k = q.pk}
  IN Counted(clause) =>
       /\ asked \subseteq r.touched /\ r.touched \subseteq admitted
       /\ q.verb = "get_one" \/ Len(clause) <= 1 => r.touched = asked

\* A request keeps what it asks for until it is answered, and the answer stays
\* right about the tables that its statements have found.
Answers(c, r) ==
  /\ r.step \in Verbs \cup {"count"} =>
       r.ask \in Queried[setting][c] /\ {"step", "status"} \subseteq DOMAIN r
  /\ r.step \in Verbs =>
       r.ask.verb = r.step /\ (r.step \in {"create", "update"} => r.ask.body # Null)
  /\ r.step = "count" => r.ask.verb = "list" /\ PageExact(r.listed, r.page, r.ask)
  /\ r.step = "created" =>
       {"step", "status", "answer"} \subseteq DOMAIN r /\ r.status = "created"
  /\ r.step = "done" /\ r.status \in {"ok", "not_found"} => TouchExact(r)
  /\ r.step = "done" /\ r.status = "listed" =>
       r.total = Cardinality(Meant(r.counted, r.ask)) /\ PageExact(r.listed, r.page, r.ask)

\* Besides, the rows carry their keys.
AnswerInv ==
  /\ setting \in Offers
  /\ KeyedTable(table)
  /\ DOMAIN calls = Callers /\ \A c \in Callers : \A r : r = calls[c] => Answers(c, r)

\* Nobody has asked for anything yet.
LEMMA AnswerInitInv == QueryInit => AnswerInv
<1> SUFFICES ASSUME QueryInit PROVE AnswerInv
  OBVIOUS
<1>1. setting \in Offers /\ table \in Rows /\ calls = [c \in Callers |-> Idle]
  BY DEF QueryInit
<1>2. KeyedTable(table)
  BY <1>1, KeysAssumption DEF KeyedTable
<1>3. Idle.step = "idle"
  BY DEF Idle
<1>4. \A c \in Callers : Answers(c, Idle)
  BY <1>3 DEF Answers, Verbs
<1>5. QED
  BY <1>1, <1>2, <1>4 DEF AnswerInv

\* What was right stays so.
LEMMA AnswersStay ==
  ASSUME setting' = setting
  PROVE  \A c, r : Answers(c, r)' = Answers(c, r)
<1>1. \A clause : Counted(clause)' = Counted(clause)
  BY DEF Counted
<1>2. \A r : TouchExact(r)' = TouchExact(r)
  BY <1>1 DEF TouchExact
<1>3. \A row, q : IsMeant(row, q)' = IsMeant(row, q)
  BY DEF IsMeant
<1>a. \A rows, q : Meant(rows, q)' = Meant(rows, q)
  BY <1>3 DEF Meant
<1>4. \A q : PageSize(q)' = PageSize(q) /\ OrderBy(q)' = OrderBy(q)
  BY DEF PageSize, OrderBy, SortField, Descending
<1>b. \A rows : Lines(rows)' = Lines(rows)
  BY DEF Lines
<1>c. \A v, w : Lower(v, w)' = Lower(v, w)
  BY DEF Lower
<1>d. \A rows, lines, order : InOrder(rows, lines, order)' = InOrder(rows, lines, order)
  BY <1>c DEF InOrder, SortsBefore
<1>5. ASSUME NEW rows, NEW page, NEW q PROVE PageExact(rows, page, q)' = PageExact(rows, page, q)
  <2>1. /\ Lines(rows)' = Lines(rows) /\ PageSize(q)' = PageSize(q) /\ OrderBy(q)' = OrderBy(q)
        /\ \A row : IsMeant(row, q)' = IsMeant(row, q)
        /\ \A lines, order : InOrder(rows, lines, order)' = InOrder(rows, lines, order)
    BY <1>3, <1>4, <1>b, <1>d
  <2>2. QED
    BY <2>1 DEF PageExact
<1>6. QED
  BY <1>2, <1>a, <1>5 DEF Answers

\* One request goes on.
LEMMA OneAnswers ==
  ASSUME AnswerInv, setting' = setting, KeyedTable(table)', NEW c \in Callers, NEW r, Answers(c, r),
         calls' = [calls EXCEPT ![c] = r]
  PROVE  AnswerInv'
<1>1. /\ setting \in Offers /\ DOMAIN calls = Callers
      /\ \A d \in Callers : \A s : s = calls[d] => Answers(d, s)
  BY DEF AnswerInv
<1>2. DOMAIN calls' = Callers /\ \A d \in Callers : calls'[d] = IF d = c THEN r ELSE calls[d]
  BY <1>1
<1>3. \A d \in Callers : \A s : s = calls'[d] => Answers(d, s)
  BY <1>1, <1>2
<1>4. \A d \in Callers : \A s : s = calls'[d] => Answers(d, s)'
  BY <1>3, AnswersStay
<1>5. QED
  BY <1>1, <1>2, <1>4 DEF AnswerInv

\* A statement that failed or was refused is answered so.
LEMMA DoneAnswers ==
  ASSUME AnswerInv, setting' = setting, KeyedTable(table)', NEW c \in Callers,
         calls[c].step \in Verbs \cup {"created"}, Done(c, "error")
  PROVE  AnswerInv'
<1> DEFINE r == [calls[c] EXCEPT !.step = "done", !.status = "error"]
<1>1. calls' = [calls EXCEPT ![c] = r]
  BY DEF Done
<1>2. Answers(c, calls[c])
  BY DEF AnswerInv
<1>3. "status" \in DOMAIN calls[c] /\ "step" \in DOMAIN calls[c]
  BY <1>2 DEF Answers
<1>4. r.step = "done" /\ r.status = "error"
  BY <1>3
<1> HIDE DEF r
<1>5. Answers(c, r)
  BY <1>4 DEF Answers, Verbs
<1>6. QED
  BY <1>1, <1>5, OneAnswers

\* What a row is changed, got or deleted by.
LEMMA TouchAnswers ==
  ASSUME AnswerInv, setting' = setting, KeyedTable(table)', NEW c \in Callers,
         NEW status \in {"ok", "not_found"}, NEW touched, DoneWith(c, status, touched),
         NEW clause, NEW verb, calls[c].ask.verb = verb,
         \/ verb = "get_one" /\ clause = setting.where
         \/ verb = "update" /\ clause = setting.updateWhere
         \/ verb = "delete" /\ clause = setting.deleteWhere,
         Touched(touched, table, clause, calls[c].ask)
  PROVE  AnswerInv'
<1> DEFINE q == calls[c].ask
           r == [step |-> "done", ask |-> q, status |-> status, was |-> table, touched |-> touched]
<1>1. calls' = [calls EXCEPT ![c] = r]
  BY DEF DoneWith
<1>2. r.step = "done" /\ r.ask = q /\ r.status = status /\ r.was = table /\ r.touched = touched
  OBVIOUS
<1> HIDE DEF r, q
<1>3. q.verb = verb /\ Touched(touched, table, clause, q)
  BY DEF q
<1>4. clause = CASE q.verb = "get_one" -> setting.where
                 [] q.verb = "update" -> setting.updateWhere
                 [] q.verb = "delete" -> setting.deleteWhere
  BY <1>3
<1>5. TouchExact(r)
  <2> DEFINE admitted == {k \in DOMAIN table : ClauseAdmits(clause, q.by, table[k])}
             asked == {k \in admitted : k = q.pk}
  <2>1. asked = Wanted(table, clause, q)
    BY DEF Wanted
  <2>2. Counted(clause) =>
          /\ asked \subseteq touched /\ touched \subseteq admitted
          /\ q.verb = "get_one" \/ Len(clause) <= 1 => touched = asked
    BY <1>3, <2>1 DEF Touched, Confined
  <2>3. QED
    BY <1>2, <1>4, <2>2 DEF TouchExact
<1>6. Answers(c, r)
  BY <1>2, <1>5 DEF Answers, Verbs
<1>7. QED
  BY <1>1, <1>6, OneAnswers

\* handle_get_one.
LEMMA GetAnswers ==
  ASSUME AnswerInv, NEW c \in Callers, GetOne(c)
  PROVE  AnswerInv'
<1> DEFINE q == calls[c].ask
           b == BuildSelectOne(q)
           found == Selected(table, <<b.conditions>>, b.params)
<1>1. /\ setting' = setting /\ table' = table /\ calls[c].step = "get_one"
      /\ \/ Done(c, "error")
         \/ found = {} /\ DoneWith(c, "not_found", {})
         \/ \E k \in found : DoneWith(c, "ok", {k})
  BY DEF GetOne, At
<1>2. /\ setting \in Offers /\ KeyedTable(table) /\ Answers(c, calls[c])
  BY DEF AnswerInv
<1>3. KeyedTable(table)'
  BY <1>1, <1>2 DEF KeyedTable
<1>4. q.verb = "get_one" /\ calls[c].step \in Verbs
  BY <1>1, <1>2 DEF Answers, Verbs
<1>5. Counted(setting.where) => found = Wanted(table, setting.where, q)
  BY <1>2, GetFinds
<1> HIDE DEF found
<1>6. CASE Done(c, "error")
  BY <1>1, <1>3, <1>4, <1>6, DoneAnswers
<1>7. CASE found = {} /\ DoneWith(c, "not_found", {})
  <2>1. Touched({}, table, setting.where, q)
    BY <1>5, <1>7, WantedConfined DEF Touched
  <2>2. QED
    BY <1>1, <1>3, <1>4, <1>7, <2>1, TouchAnswers
<1>8. ASSUME NEW k \in found, DoneWith(c, "ok", {k}) PROVE AnswerInv'
  <2>1. Counted(setting.where) => {k} = Wanted(table, setting.where, q)
    BY <1>5, <1>8 DEF Wanted
  <2>a. Touched({k}, table, setting.where, q)
    BY <2>1, WantedConfined DEF Touched
  <2>2. QED
    BY <1>1, <1>3, <1>4, <1>8, <2>a, TouchAnswers
<1>9. QED
  BY <1>1, <1>6, <1>7, <1>8

\* The key in a body is one of the keys, nothing or the text for the user.
LEMMA BodyKeys ==
  ASSUME setting \in Offers, NEW c \in Callers, NEW q \in Queried[setting][c],
         q.verb \in {"create", "update"}, q.body # Null, "id" \in DOMAIN q.body
  PROVE  InterpolateValue(q.body["id"], q.by) \in Keys \cup {Null, Me}
<1>1. q.by \in Keys \cup {Null} /\ q.body["id"] \in Keys \cup {Null, Me}
  BY KeysAssumption
<1>2. QED
  BY <1>1 DEF InterpolateValue

\* handle_update: a row that gets another key carries it.
LEMMA UpdateAnswers ==
  ASSUME AnswerInv, NEW c \in Callers, Update(c)
  PROVE  AnswerInv'
<1> DEFINE q == calls[c].ask
           b == BuildUpdate(q)
           values == Written(q)
           touched == Selected(table, b.ored, b.params)
           rekeyed == "id" \in DOMAIN values /\ touched # {}
           Key(k) == IF rekeyed /\ k \in touched THEN values["id"] ELSE k
           Row(k) == IF k \notin touched THEN table[k]
                     ELSE [col \in Columns |-> IF col \in DOMAIN values THEN values[col] ELSE table[k][col]]
<1>1. /\ setting' = setting /\ calls[c].step = "update"
      /\ \/ Done(c, "error") /\ table' = table
         \/ /\ DoneWith(c, IF touched = {} THEN "not_found" ELSE "ok", touched)
            /\ rekeyed => values["id"] \notin {Null, Me}
            /\ table' = [n \in {Key(k) : k \in DOMAIN table} |->
                            Row(CHOOSE k \in DOMAIN table : Key(k) = n)]
  BY DEF Update, At
<1>a. setting' = setting
  BY <1>1
<1>2. /\ setting \in Offers /\ KeyedTable(table) /\ Answers(c, calls[c])
  BY DEF AnswerInv
<1>4. /\ q.verb = "update" /\ calls[c].step \in Verbs /\ q \in Queried[setting][c] /\ q.body # Null
  BY <1>1, <1>2 DEF Answers, Verbs
<1>5. Touched(touched, table, setting.updateWhere, q)
  BY <1>2, <1>4, UpdateFinds
<1>6. CASE Done(c, "error") /\ table' = table
  <2>1. KeyedTable(table)'
    BY <1>2, <1>6 DEF KeyedTable
  <2>2. QED
    BY <1>a, <1>4, <1>6, <2>1, DoneAnswers
<1>7. CASE /\ DoneWith(c, IF touched = {} THEN "not_found" ELSE "ok", touched)
           /\ rekeyed => values["id"] \notin {Null, Me}
           /\ table' = [n \in {Key(k) : k \in DOMAIN table} |->
                            Row(CHOOSE k \in DOMAIN table : Key(k) = n)]
  <2>1. rekeyed => values["id"] \in Keys
    <3>1. "id" \in DOMAIN values =>
            "id" \in DOMAIN q.body /\ values["id"] = InterpolateValue(q.body["id"], q.by)
      BY DEF Written
    <3>2. QED
      BY <1>2, <1>4, <1>7, <3>1, BodyKeys
  <2> HIDE DEF values, touched
  <2>2. \A k \in DOMAIN table : Key(k) \in Keys /\ Row(k).id = Key(k)
    <3>1. ASSUME NEW k \in DOMAIN table PROVE Key(k) \in Keys /\ Row(k).id = Key(k)
      <4>1. k \in Keys /\ table[k].id = k
        BY <1>2 DEF KeyedTable
      <4>2. CASE k \notin touched
        BY <4>1, <4>2
      <4>3. CASE k \in touched
        <5>1. Row(k).id = IF "id" \in DOMAIN values THEN values["id"] ELSE table[k]["id"]
          BY <4>3 DEF Columns
        <5>2. QED
          BY <2>1, <4>1, <4>3, <5>1
      <4>4. QED
        BY <4>2, <4>3
    <3>2. QED
      BY <3>1
  <2> DEFINE Old(n) == CHOOSE k \in DOMAIN table : Key(k) = n
  <2>3. \A n \in {Key(k) : k \in DOMAIN table} : Old(n) \in DOMAIN table /\ Key(Old(n)) = n
    OBVIOUS
  <2>4. /\ DOMAIN table' = {Key(k) : k \in DOMAIN table}
        /\ \A n \in DOMAIN table' : table'[n] = Row(Old(n))
    BY <1>7
  <2> HIDE DEF Key, Row, Old
  <2>5. DOMAIN table' \subseteq Keys /\ \A n \in DOMAIN table' : table'[n].id = n
    BY <2>2, <2>3, <2>4
  <2>6. KeyedTable(table)'
    BY <2>5 DEF KeyedTable
  <2>7. PICK status \in {"ok", "not_found"} : DoneWith(c, status, touched)
    BY <1>7
  <2>8. QED
    BY <1>a, <1>4, <1>5, <2>6, <2>7, TouchAnswers
<1>8. QED
  BY <1>1, <1>6, <1>7

\* handle_delete.
LEMMA DeleteAnswers ==
  ASSUME AnswerInv, NEW c \in Callers, Delete(c)
  PROVE  AnswerInv'
<1> DEFINE q == calls[c].ask
           b == BuildDelete(q)
           touched == Selected(table, b.ored, b.params)
<1>1. /\ setting' = setting /\ calls[c].step = "delete"
      /\ \/ Done(c, "error") /\ table' = table
         \/ /\ DoneWith(c, IF touched = {} THEN "not_found" ELSE "ok", touched)
            /\ table' = [k \in DOMAIN table \ touched |-> table[k]]
  BY DEF Delete, At
<1>2. setting \in Offers /\ KeyedTable(table) /\ Answers(c, calls[c])
  BY DEF AnswerInv
<1>3. q.verb = "delete" /\ calls[c].step \in Verbs
  BY <1>1, <1>2 DEF Answers, Verbs
<1>4. Touched(touched, table, setting.deleteWhere, q)
  BY <1>2, <1>3, DeleteFinds
<1> HIDE DEF touched
<1>5. KeyedTable(table)'
  BY <1>1, <1>2 DEF KeyedTable
<1>6. CASE Done(c, "error")
  BY <1>1, <1>3, <1>5, <1>6, DoneAnswers
<1>7. CASE DoneWith(c, IF touched = {} THEN "not_found" ELSE "ok", touched)
  <2>1. PICK status \in {"ok", "not_found"} : DoneWith(c, status, touched)
    BY <1>7
  <2>2. QED
    BY <1>1, <1>3, <1>4, <1>5, <2>1, TouchAnswers
<1>8. QED
  BY <1>1, <1>6, <1>7

\* The request is taken in.
LEMMA CallAnswers ==
  ASSUME AnswerInv, NEW c \in Callers, NEW q \in Queried[setting][c], Call(c, q)
  PROVE  AnswerInv'
<1> DEFINE bad == [step |-> "done", ask |-> q, status |-> "bad_request"]
           good == [step |-> q.verb, ask |-> q, status |-> "none"]
<1>1. /\ setting' = setting /\ table' = table
      /\ \/ calls' = [calls EXCEPT ![c] = bad]
         \/ calls' = [calls EXCEPT ![c] = good] /\ ~BadRequest(q)
  BY DEF Call
<1>2. setting \in Offers /\ KeyedTable(table)
  BY DEF AnswerInv
<1>3. KeyedTable(table)'
  BY <1>1, <1>2 DEF KeyedTable
<1>4. q.verb \in Verbs
  BY <1>2, VerbsAssumption
<1>5. Answers(c, bad)
  BY DEF Answers, Verbs
<1>6. ~BadRequest(q) => Answers(c, good)
  <2>1. ~BadRequest(q) => (q.verb \in {"create", "update"} => q.body # Null)
    BY <1>4 DEF BadRequest, Verbs
  <2>2. good.step = q.verb /\ good.ask = q /\ {"step", "status"} \subseteq DOMAIN good
    OBVIOUS
  <2> HIDE DEF good
  <2>3. QED
    BY <1>4, <2>1, <2>2 DEF Answers, Verbs
<1> HIDE DEF good, bad
<1>7. QED
  BY <1>1, <1>3, <1>5, <1>6, OneAnswers

\* handle_list, both statements.
LEMMA ListAnswers ==
  ASSUME AnswerInv, NEW c \in Callers, ListPage(c) \/ ListCount(c)
  PROVE  AnswerInv'
<1> DEFINE q == calls[c].ask
           b == BuildCount(q)
           found(rows) == Selected(rows, <<b.conditions>>, b.params)
<1>1. setting' = setting /\ table' = table /\ calls[c].step \in {"list", "count"}
  BY DEF ListPage, ListCount, At
<1>2. setting \in Offers /\ KeyedTable(table) /\ Answers(c, calls[c])
  BY DEF AnswerInv
<1>3. KeyedTable(table)'
  BY <1>1, <1>2 DEF KeyedTable
<1>4. q.verb = "list" /\ q \in Queried[setting][c]
  BY <1>1, <1>2 DEF Answers, Verbs
<1>5. found(table) = Meant(table, q)
  BY <1>2, <1>4, CountFinds
<1>6. CASE ListPage(c)
  <2>1. CASE Done(c, "error")
    BY <1>1, <1>3, <1>6, <2>1, DoneAnswers DEF ListPage, At, Verbs
  <2>2. CASE ~Done(c, "error")
    <3>1. PICK page \in Pages(table, BuildSelectList(q)) :
            calls' = [calls EXCEPT ![c] =
              [step |-> "count", ask |-> q, status |-> "none", page |-> page, listed |-> table]]
      BY <1>6, <2>2 DEF ListPage
    <3> DEFINE r == [step |-> "count", ask |-> q, status |-> "none", page |-> page, listed |-> table]
    <3>2. PageExact(table, page, q)
      <4> HIDE DEF found, q
      <4>1. QED
        BY <1>2, <1>4, <3>1, PagesExact
    <3>3. /\ r.step = "count" /\ r.ask = q /\ {"step", "status"} \subseteq DOMAIN r
          /\ r.page = page /\ r.listed = table
      OBVIOUS
    <3> HIDE DEF r, q
    <3>4. Answers(c, r)
      BY <1>4, <3>2, <3>3 DEF Answers, Verbs
    <3>5. calls' = [calls EXCEPT ![c] = r]
      BY <3>1 DEF r
    <3>6. QED
      BY <1>1, <1>3, <3>4, <3>5, OneAnswers
  <2>3. QED
    BY <2>1, <2>2
<1>7. CASE ListCount(c)
  <2> DEFINE Total(n, status) ==
               [step |-> "done", ask |-> q, status |-> status, page |-> calls[c].page,
                listed |-> calls[c].listed, counted |-> table, total |-> n]
  <2>1. \/ calls' = [calls EXCEPT ![c] = Total(Cardinality(found(table)), "listed")]
        \/ calls' = [calls EXCEPT ![c] = Total(0, "uncounted")]
    BY <1>7 DEF ListCount
  <2>2. calls[c].step = "count"
    BY <1>7 DEF ListCount, At
  <2>3. PageExact(calls[c].listed, calls[c].page, q)
    BY <1>2, <2>2 DEF Answers
  <2>4. ASSUME NEW n, NEW status, status # "ok" /\ status # "not_found",
               status = "listed" => n = Cardinality(Meant(table, q)),
               calls' = [calls EXCEPT ![c] = Total(n, status)]
        PROVE  AnswerInv'
    <3> DEFINE r == Total(n, status)
    <3>1. /\ r.step = "done" /\ r.ask = q /\ r.status = status /\ r.page = calls[c].page
          /\ r.listed = calls[c].listed /\ r.counted = table /\ r.total = n
      OBVIOUS
    <3>2. calls' = [calls EXCEPT ![c] = r]
      BY <2>4
    <3> HIDE DEF r, q
    <3>3. Answers(c, r)
      BY <2>3, <2>4, <3>1 DEF Answers, Verbs
    <3>4. QED
      BY <1>1, <1>3, <3>2, <3>3, OneAnswers
  <2> HIDE DEF Total, found, q
  <2>5. QED
    BY <1>5, <2>1, <2>4
<1>8. QED
  BY <1>6, <1>7

\* handle_create, the INSERT and the SELECT.
LEMMA CreateAnswers ==
  ASSUME AnswerInv, NEW c \in Callers, Create(c)
  PROVE  AnswerInv'
<1> DEFINE q == calls[c].ask
           values == Inserted(q)
           Row(k) == [col \in Columns |-> IF col = "id" THEN k
                                          ELSE IF col \in DOMAIN values THEN values[col] ELSE Null]
           New(k) == [step |-> IF setting.driver = "mysql" THEN "created" ELSE "done",
                      ask |-> q, status |-> "created", key |-> k, owner |-> table'[k].owner,
                      answer |-> {k}]
<1>1. /\ setting' = setting /\ calls[c].step = "create"
      /\ \/ Done(c, "error") /\ table' = table
         \/ \E k \in KeysFor(values) :
              /\ table' = [n \in DOMAIN table \cup {k} |-> IF n # k THEN table[n] ELSE Row(k)]
              /\ calls' = [calls EXCEPT ![c] = New(k)]
  BY DEF Create, At
<1>2. setting \in Offers /\ KeyedTable(table) /\ Answers(c, calls[c])
  BY DEF AnswerInv
<1>3. /\ q.verb = "create" /\ calls[c].step \in Verbs /\ q \in Queried[setting][c] /\ q.body # Null
  BY <1>1, <1>2 DEF Answers, Verbs
<1>4. CASE Done(c, "error") /\ table' = table
  <2>1. KeyedTable(table)' /\ setting' = setting
    BY <1>1, <1>2, <1>4 DEF KeyedTable
  <2>2. QED
    BY <1>3, <1>4, <2>1, DoneAnswers
<1>5. ASSUME NEW k \in KeysFor(values),
             table' = [n \in DOMAIN table \cup {k} |-> IF n # k THEN table[n] ELSE Row(k)],
             calls' = [calls EXCEPT ![c] = New(k)]
      PROVE  AnswerInv'
  <2>1. k \in Keys
    <3>1. CASE "id" \in DOMAIN values
      <4>1. "id" \in DOMAIN q.body /\ values["id"] = InterpolateValue(q.body["id"], q.by)
        BY <3>1 DEF Inserted
      <4>2. values["id"] \in Keys \cup {Null, Me}
        BY <1>2, <1>3, <4>1, BodyKeys
      <4> HIDE DEF values
      <4>3. QED
        BY <1>5, <3>1, <4>2 DEF KeysFor
    <3>2. CASE "id" \notin DOMAIN values
      <4> HIDE DEF values
      <4>1. QED
        BY <1>5, <3>2, KeysAssumption DEF KeysFor
    <3>3. QED
      BY <3>1, <3>2
  <2>2. Row(k).id = k
    BY DEF Columns
  <2> HIDE DEF Row, values
  <2>3. KeyedTable(table)'
    BY <1>2, <1>5, <2>1, <2>2 DEF KeyedTable
  <2>4. /\ New(k).step \in {"created", "done"} /\ New(k).status = "created"
        /\ {"step", "status", "answer"} \subseteq DOMAIN New(k)
    OBVIOUS
  <2> HIDE DEF New
  <2>5. Answers(c, New(k))
    BY <2>4 DEF Answers, Verbs
  <2>6. setting' = setting
    BY <1>1
  <2>7. QED
    BY <1>5, <2>3, <2>5, <2>6, OneAnswers
<1>6. QED
  BY <1>1, <1>4, <1>5

\* handle_create on MySQL, the SELECT.
LEMMA FetchAnswers ==
  ASSUME AnswerInv, NEW c \in Callers, FetchCreated(c)
  PROVE  AnswerInv'
<1>1. setting' = setting /\ table' = table /\ calls[c].step = "created"
  BY DEF FetchCreated, At
<1>2. KeyedTable(table) /\ Answers(c, calls[c])
  BY DEF AnswerInv
<1>3. KeyedTable(table)'
  BY <1>1, <1>2 DEF KeyedTable
<1>4. {"step", "status", "answer"} \subseteq DOMAIN calls[c] /\ calls[c].status = "created"
  BY <1>1, <1>2 DEF Answers
<1>5. PICK answer : calls' = [calls EXCEPT ![c].step = "done", ![c].answer = answer]
  BY DEF FetchCreated
<1> DEFINE r == [calls[c] EXCEPT !.step = "done", !.answer = answer]
<1>6. r.step = "done" /\ r.status = "created"
  BY <1>4
<1>7. calls' = [calls EXCEPT ![c] = r]
  BY <1>5
<1> HIDE DEF r
<1>8. Answers(c, r)
  BY <1>6 DEF Answers, Verbs
<1>9. QED
  BY <1>1, <1>3, <1>7, <1>8, OneAnswers

\* Every statement keeps it.
LEMMA AnswerStepInv == AnswerInv /\ [QueryNext]_queryVars => AnswerInv'
<1> SUFFICES ASSUME AnswerInv, [QueryNext]_queryVars PROVE AnswerInv'
  OBVIOUS
<1>1. ASSUME NEW c \in Callers, StatementFails(c) PROVE AnswerInv'
  <2>1. /\ setting' = setting /\ table' = table /\ Done(c, "error")
        /\ calls[c].step \in Verbs \cup {"created"}
    BY <1>1 DEF StatementFails, Verbs
  <2>2. KeyedTable(table)'
    BY <2>1 DEF AnswerInv, KeyedTable
  <2>3. QED
    BY <2>1, <2>2, DoneAnswers
<1>2. CASE UNCHANGED queryVars
  <2>1. setting' = setting /\ table' = table /\ calls' = calls
    BY <1>2 DEF queryVars
  <2>2. \A c, r : Answers(c, r)' = Answers(c, r)
    BY <2>1, AnswersStay
  <2>3. QED
    BY <2>1, <2>2 DEF AnswerInv, KeyedTable
<1>3. QED
  BY <1>1, <1>2, CallAnswers, ListAnswers, GetAnswers, CreateAnswers, FetchAnswers, UpdateAnswers,
     DeleteAnswers DEF QueryNext

\* A request for one row gets, changes or deletes the row with the key in its
\* path and no other, whatever tables, clauses and users there are and however
\* the statements of other requests come in between: the numbers of the
\* placeholders and the parameters go together (build_select_one,
\* build_update, build_delete, interpolate_where_clause). Two cases are not
\* covered: where the clause of an UPDATE or a DELETE has an OR, only that
\* nothing is touched that the clause does not admit and the row of the key is
\* among it; and on Postgres nothing is said of a clause with ${...}, whose
\* numbers start again at $1.
THEOREM TouchSafety == QuerySpec => []TouchesTheAsked
<1>1. AnswerInv => TouchesTheAsked
  <2> SUFFICES ASSUME AnswerInv PROVE TouchesTheAsked
    OBVIOUS
  <2>1. \A c \in Callers : Answers(c, calls[c])
    BY DEF AnswerInv
  <2>2. \A c \in Callers : Answered(c, "ok") \/ Answered(c, "not_found") => TouchExact(calls[c])
    BY <2>1 DEF Answers, Answered
  <2>3. QED
    BY <2>2 DEF TouchesTheAsked, TouchExact
<1>2. QED
  BY <1>1, AnswerInitInv, AnswerStepInv, PTL DEF QuerySpec

\* A list is the page asked for of the lines, joined as often as a row has
\* partners and in an order asked for, whose rows the clause and all of the
\* filters admit, whatever they are and in whatever order they are applied, and
\* its total is the number of such rows of the endpoint's own table a moment
\* later (handle_list, SelectBuilder, apply_joins, apply_filters,
\* apply_sorting, apply_pagination). Not covered is an offset of 2^64 and more,
\* which wraps.
THEOREM ListSafety == QuerySpec => []ListIsExact
<1>1. AnswerInv => ListIsExact
  <2> SUFFICES ASSUME AnswerInv PROVE ListIsExact
    OBVIOUS
  <2>1. \A c \in Callers : Answers(c, calls[c])
    BY DEF AnswerInv
  <2>2. \A c \in Callers : Answered(c, "listed") =>
          LET r == calls[c]
          IN r.total = Cardinality(Meant(r.counted, r.ask)) /\ PageExact(r.listed, r.page, r.ask)
    BY <2>1 DEF Answers, Answered
  <2>3. QED
    BY <2>2 DEF ListIsExact, PageExact
<1>2. QED
  BY <1>1, AnswerInitInv, AnswerStepInv, PTL DEF QuerySpec

----------------------------------------------------------------------------
(* The search for cycles. *)

Parents(r) == ToSet(ParentsOf(r))
Marked(n, mark) == {r \in DOMAIN mark : mark[r] = n}
InRange(mark) == \A q \in DOMAIN mark : mark[q] \in 0 .. 2
SearchCalls == STRING \X Seq(STRING)
Reported == \E p \in problems : p[1] = "cycle"
Cyclic == \E r \in DOMAIN Hierarchy : Inherits(r, r)

\* The calls from the outermost to the innermost: the role of each, and the
\* parents that it has still to look at.
Called(fs) == [i \in DOMAIN fs |-> fs[(Len(fs) + 1) - i][1]]
Ahead(fs) == [i \in DOMAIN fs |-> ToSet(fs[(Len(fs) + 1) - i][2])]

\* Each call was made for a parent of the role of the call around it.
Chained(n, role) == \A i \in 1 .. n - 1 : role[i + 1] \in Parents(role[i])

\* No role is searched twice at a time.
Apiece(n, role) == \A i, j \in 1 .. n : role[i] = role[j] => i = j

\* The parents that are left are parents, and the others are done with, but
\* for the one that a call is waiting for.
Searched(n, role, left, done) ==
  \A i \in 1 .. n :
    /\ left[i] \subseteq Parents(role[i])
    /\ \A q \in Parents(role[i]) :
         q \in left[i] \/ q \in done \/ (i < n /\ q = role[i + 1])

\* A role that is done with has no cycle above it.
Settled(done) == \A r \in done : Parents(r) \subseteq done /\ ~Inherits(r, r)

\* While no cycle was reported.
Searching(n, role, left, open, done) ==
  /\ open = {role[i] : i \in 1 .. n}
  /\ Chained(n, role) /\ Apiece(n, role) /\ Searched(n, role, left, done)
  /\ Settled(done)

SearchInv ==
  /\ frames \in Seq(SearchCalls)
  /\ DOMAIN Hierarchy \subseteq DOMAIN roleMark
  /\ InRange(roleMark)
  /\ frames # <<>> => loading = "hierarchy"
  /\ loading \notin {"hierarchy", "accepted", "refused"} => ~Reported
  /\ loading \in {"accepted", "refused"} => \A r \in DOMAIN Hierarchy : roleMark[r] # 0
  /\ Reported => Cyclic
  /\ ~Reported => Searching(Len(frames), Called(frames), Ahead(frames),
                            Marked(1, roleMark), Marked(2, roleMark))

CycleInv == input \in Inputs /\ SearchInv

\* A role whose parents are done with, and that is not itself, has no cycle
\* above it.
LEMMA SettledRole ==
  ASSUME NEW done, Settled(done), NEW r, r \notin done, Parents(r) \subseteq done
  PROVE  ~Inherits(r, r)
<1> DEFINE all == UNION {ToSet(Hierarchy[s]) : s \in DOMAIN Hierarchy}
           S == all \cap done
<1>1. \A q : Parents(q) \subseteq all
  <2> SUFFICES ASSUME NEW q, q \notin DOMAIN Hierarchy PROVE Parents(q) = {}
    BY DEF Parents, ParentsOf
  <2>1. QED
    BY DEF Parents, ParentsOf, ToSet
<1>2. WithParents(S)
  BY <1>1 DEF WithParents, Settled, Parents
<1>3. Parents(r) \subseteq S
  BY <1>1
<1>4. QED
  BY <1>2, <1>3 DEF Inherits, Parents

\* Only roles of the hierarchy have parents.
LEMMA HasParents ==
  ASSUME NEW q, Parents(q) # {}
  PROVE  q \in DOMAIN Hierarchy
BY DEF Parents, ParentsOf, ToSet

\* A parent of the innermost role that is being searched closes a cycle.
LEMMA CycleFound ==
  ASSUME NEW n \in Nat, NEW role, Chained(n, role), NEW k \in 1 .. n,
         role[k] \in Parents(role[n])
  PROVE  Cyclic
<1>1. Parents(role[k]) # {}
  <2>1. CASE k = n
    BY <2>1
  <2>2. CASE k # n
    BY <2>2 DEF Chained
  <2>3. QED
    BY <2>1, <2>2
<1>2. ASSUME NEW S, Parents(role[k]) \subseteq S, WithParents(S) PROVE role[k] \in S
  <2> DEFINE T == {i \in 0 .. n : i > k => role[i] \in S}
  <2>1. ASSUME NEW i \in 1 .. n, i - 1 \in T PROVE i \in T
    <3> SUFFICES ASSUME i > k PROVE role[i] \in S
      OBVIOUS
    <3>1. PICK j \in 1 .. n - 1 : j + 1 = i /\ j = i - 1
      OBVIOUS
    <3>2. role[i] \in Parents(role[j])
      BY <3>1 DEF Chained
    <3>3. CASE j = k
      BY <1>2, <3>2, <3>3
    <3>4. CASE j # k
      <4>1. role[j] \in S
        BY <2>1, <3>1, <3>4
      <4>2. QED
        BY <1>2, <3>2, <4>1 DEF WithParents, Parents
    <3>5. QED
      BY <3>3, <3>4
  <2>2. 0 \in T
    OBVIOUS
  <2>3. n \in T
    <3>1. n \in 0 .. n
      OBVIOUS
    <3> HIDE DEF T
    <3>2. QED
      BY <2>1, <2>2, <3>1, UpToN
  <2>4. CASE k = n
    BY <1>2, <2>4
  <2>5. CASE k # n
    <3>1. role[n] \in S
      BY <2>3, <2>5
    <3>2. QED
      BY <1>2, <3>1 DEF WithParents, Parents
  <2>6. QED
    BY <2>4, <2>5
<1>3. Inherits(role[k], role[k])
  BY <1>2 DEF Inherits, Parents
<1>4. QED
  BY <1>1, <1>3, HasParents DEF Cyclic

\* A call begins: for a first role, or for the next parent of the innermost's.
LEMMA PushKeeps ==
  ASSUME NEW n \in Nat, NEW role, NEW left, NEW open, NEW done,
         Searching(n, role, left, open, done),
         NEW p, p \notin open, NEW role2, NEW left2,
         \A i \in 1 .. n : role2[i] = role[i], role2[n + 1] = p,
         \A i \in 1 .. n - 1 : left2[i] = left[i], left2[n + 1] = Parents(p),
         n > 0 => /\ p \in Parents(role[n])
                  /\ left[n] \subseteq left2[n] \cup {p} /\ left2[n] \subseteq left[n]
  PROVE  Searching(n + 1, role2, left2, open \cup {p}, done)
<1>1. \A i \in 1 .. n + 1 : i = n + 1 \/ i \in 1 .. n
  OBVIOUS
<1>2. open \cup {p} = {role2[i] : i \in 1 .. n + 1}
  <2>1. open = {role[i] : i \in 1 .. n}
    BY DEF Searching
  <2>2. n + 1 \in 1 .. n + 1 /\ \A i \in 1 .. n : i \in 1 .. n + 1
    OBVIOUS
  <2>3. QED
    BY <1>1, <2>1, <2>2
<1>3. Chained(n + 1, role2)
  <2>0. (n + 1) - 1 = n
    OBVIOUS
  <2> SUFFICES ASSUME NEW i \in 1 .. n PROVE role2[i + 1] \in Parents(role2[i])
    BY <2>0 DEF Chained
  <2>1. CASE i = n
    BY <2>1
  <2>2. CASE i # n
    BY <2>2 DEF Searching, Chained
  <2>3. QED
    BY <2>1, <2>2
<1>4. Apiece(n + 1, role2)
  <2>1. \A i \in 1 .. n : role[i] # p
    BY DEF Searching
  <2>2. QED
    BY <1>1, <2>1 DEF Searching, Apiece
<1>5. Searched(n + 1, role2, left2, done)
  <2> SUFFICES ASSUME NEW i \in 1 .. n + 1
               PROVE  /\ left2[i] \subseteq Parents(role2[i])
                      /\ \A q \in Parents(role2[i]) :
                           q \in left2[i] \/ q \in done \/ (i < n + 1 /\ q = role2[i + 1])
    BY DEF Searched
  <2>1. CASE i = n + 1
    BY <2>1
  <2>2. CASE i = n
    <3>1. /\ i \in 1 .. n /\ n > 0 /\ ~(i < n) /\ i < n + 1
      BY <2>2
    <3>2. left[n] \subseteq Parents(role[n]) /\ \A q \in Parents(role[n]) : q \in left[n] \/ q \in done
      BY <2>2, <3>1 DEF Searching, Searched
    <3>3. QED
      BY <2>2, <3>1, <3>2
  <2>3. CASE i \in 1 .. n - 1
    <3>1. i \in 1 .. n /\ i + 1 \in 1 .. n /\ i < n /\ i < n + 1
      BY <2>3
    <3>2. QED
      BY <2>3, <3>1 DEF Searching, Searched
  <2>4. QED
    BY <2>1, <2>2, <2>3
<1>6. QED
  BY <1>2, <1>3, <1>4, <1>5 DEF Searching

\* A call goes on to its next parent, the last one being done with.
LEMMA NextKeeps ==
  ASSUME NEW n \in Nat, n > 0, NEW role, NEW left, NEW open, NEW done,
         Searching(n, role, left, open, done),
         NEW p \in done, NEW role2, NEW left2,
         \A i \in 1 .. n : role2[i] = role[i],
         \A i \in 1 .. n - 1 : left2[i] = left[i],
         left[n] \subseteq left2[n] \cup {p}, left2[n] \subseteq left[n]
  PROVE  Searching(n, role2, left2, open, done)
<1>1. open = {role2[i] : i \in 1 .. n}
  BY DEF Searching
<1>2. Chained(n, role2)
  BY DEF Searching, Chained
<1>3. Apiece(n, role2)
  BY DEF Searching, Apiece
<1>4. Searched(n, role2, left2, done)
  <2> SUFFICES ASSUME NEW i \in 1 .. n
               PROVE  /\ left2[i] \subseteq Parents(role2[i])
                      /\ \A q \in Parents(role2[i]) :
                           q \in left2[i] \/ q \in done \/ (i < n /\ q = role2[i + 1])
    BY DEF Searched
  <2>1. CASE i = n
    BY <2>1 DEF Searching, Searched
  <2>2. CASE i # n
    <3>1. i \in 1 .. n - 1 /\ i + 1 \in 1 .. n
      BY <2>2
    <3>2. QED
      BY <3>1 DEF Searching, Searched
  <2>3. QED
    BY <2>1, <2>2
<1>5. QED
  BY <1>1, <1>2, <1>3, <1>4 DEF Searching

\* A call is over: its role is done with.
LEMMA PopKeeps ==
  ASSUME NEW n \in Nat, n > 0, NEW role, NEW left, NEW open, NEW done,
         Searching(n, role, left, open, done),
         open \cap done = {}, left[n] = {}, NEW role2, NEW left2,
         \A i \in 1 .. n - 1 : role2[i] = role[i] /\ left2[i] = left[i]
  PROVE  Searching(n - 1, role2, left2, open \ {role[n]}, done \cup {role[n]})
<1>1. PICK r : r = role[n]
  OBVIOUS
<1>2. n \in 1 .. n /\ ~(n < n) /\ \A i \in 1 .. n : i = n \/ i \in 1 .. n - 1
  OBVIOUS
<1>3. \A q \in Parents(r) : q \in done
  BY <1>1, <1>2 DEF Searching, Searched
<1>4. r \in open /\ r \notin done
  BY <1>1, <1>2 DEF Searching
<1>5. Settled(done \cup {r})
  <2>1. ~Inherits(r, r)
    BY <1>3, <1>4, SettledRole DEF Searching
  <2>2. QED
    BY <1>3, <2>1 DEF Searching, Settled
<1>6. \A i \in 1 .. n - 1 : role[i] # r
  BY <1>1, <1>2 DEF Searching, Apiece
<1>7. open \ {r} = {role2[i] : i \in 1 .. n - 1}
  <2>1. open = {role[i] : i \in 1 .. n}
    BY DEF Searching
  <2>2. \A i \in 1 .. n - 1 : i \in 1 .. n
    OBVIOUS
  <2>3. QED
    BY <1>1, <1>2, <1>6, <2>1, <2>2
<1>8. Chained(n - 1, role2)
  BY DEF Searching, Chained
<1>9. Apiece(n - 1, role2)
  BY DEF Searching, Apiece
<1>10. Searched(n - 1, role2, left2, done \cup {r})
  <2> SUFFICES ASSUME NEW i \in 1 .. n - 1
               PROVE  /\ left2[i] \subseteq Parents(role2[i])
                      /\ \A q \in Parents(role2[i]) :
                           \/ q \in left2[i] \/ q \in done \cup {r}
                           \/ i < n - 1 /\ q = role2[i + 1]
    BY DEF Searched
  <2>1. i \in 1 .. n /\ role2[i] = role[i] /\ left2[i] = left[i]
    OBVIOUS
  <2>2. /\ left[i] \subseteq Parents(role[i])
        /\ \A q \in Parents(role[i]) : q \in left[i] \/ q \in done \/ q = role[i + 1]
    BY <2>1 DEF Searching, Searched
  <2>3. i = n - 1 => role[i + 1] = r
    BY <1>1
  <2>4. i # n - 1 => i < n - 1 /\ role2[i + 1] = role[i + 1]
    OBVIOUS
  <2>5. QED
    BY <2>1, <2>2, <2>3, <2>4
<1>11. QED
  <2>1. Searching(n - 1, role2, left2, open \ {r}, done \cup {r})
    BY <1>5, <1>7, <1>8, <1>9, <1>10 DEF Searching
  <2>2. QED
    BY <1>1, <2>1

\* The invariant of the search holds before validation begins.
LEMMA CycleInitInv == ConfInit => CycleInv
<1> SUFFICES ASSUME ConfInit PROVE CycleInv
  OBVIOUS
<1>1. /\ input \in Inputs /\ frames = <<>> /\ loading = "files" /\ problems = {}
      /\ DOMAIN roleMark = DOMAIN Hierarchy /\ \A r \in DOMAIN roleMark : roleMark[r] = 0
  BY DEF ConfInit, Hierarchy
<1>2. ~Reported
  BY <1>1 DEF Reported
<1>3. Marked(1, roleMark) = {} /\ Marked(2, roleMark) = {}
  BY <1>1 DEF Marked
<1>4. Len(frames) = 0 /\ frames \in Seq(SearchCalls)
  BY <1>1
<1>5. Searching(0, Called(frames), Ahead(frames), {}, {})
  BY DEF Searching, Chained, Apiece, Searched, Settled
<1>6. InRange(roleMark)
  BY <1>1 DEF InRange
<1>7. QED
  BY <1>1, <1>2, <1>3, <1>4, <1>5, <1>6 DEF CycleInv, SearchInv

\* A sequence with an element put before it.
LEMMA FirstThen ==
  ASSUME NEW F, NEW x \in F, NEW t \in Seq(F)
  PROVE  /\ <<x>> \o t \in Seq(F) /\ Len(<<x>> \o t) = Len(t) + 1
         /\ (<<x>> \o t)[1] = x /\ \A i \in 1 .. Len(t) : (<<x>> \o t)[i + 1] = t[i]
OBVIOUS

\* A sequence without its first element.
LEMMA WithoutFirst ==
  ASSUME NEW F, NEW s \in Seq(F), s # <<>>
  PROVE  /\ s[1] \in F /\ Len(s) \in Nat /\ Len(s) >= 1
         /\ Tail(s) \in Seq(F) /\ Len(Tail(s)) = Len(s) - 1
         /\ \A i \in 1 .. Len(s) - 1 : Tail(s)[i] = s[i + 1]
OBVIOUS

\* The roles and the parents ahead, by the number of calls.
CallsAre(fs, n) ==
  \A i \in 1 .. n : /\ Called(fs)[i] = fs[(n + 1) - i][1]
                    /\ Ahead(fs)[i] = ToSet(fs[(n + 1) - i][2])

\* Called and Ahead of a stack are what CallsAre says of them.
LEMMA CallsOf ==
  ASSUME NEW fs \in Seq(SearchCalls)
  PROVE  CallsAre(fs, Len(fs))
<1>1. DOMAIN fs = 1 .. Len(fs)
  OBVIOUS
<1>2. QED
  BY <1>1 DEF Called, Ahead, CallsAre

\* The call whose first parent was looked at.
LEMMA TurnedCall ==
  ASSUME NEW f \in SearchCalls, f[2] # <<>>
  PROVE  <<f[1], Tail(f[2])>> \in SearchCalls
<1>1. f[1] \in STRING /\ f[2] \in Seq(STRING)
  BY DEF SearchCalls
<1>2. Tail(f[2]) \in Seq(STRING)
  <2>1. PICK ps \in Seq(STRING) : ps = f[2]
    BY <1>1
  <2>2. QED
    BY <2>1, WithoutFirst
<1>3. QED
  BY <1>1, <1>2 DEF SearchCalls

\* What the stack is after a turn of a call's loop, after a call and after its
\* end.
LEMMA NextFrames ==
  ASSUME NEW fs \in Seq(SearchCalls), fs # <<>>, fs[1][2] # <<>>,
         NEW gs, gs = <<<<fs[1][1], Tail(fs[1][2])>>>> \o Tail(fs)
  PROVE  /\ gs \in Seq(SearchCalls) /\ Len(gs) = Len(fs)
         /\ \A i \in 1 .. Len(fs) : Called(gs)[i] = Called(fs)[i]
         /\ \A i \in 1 .. Len(fs) - 1 : Ahead(gs)[i] = Ahead(fs)[i]
         /\ Ahead(gs)[Len(fs)] = ToSet(Tail(fs[1][2]))
<1>1. PICK n \in Nat : n = Len(fs) /\ n >= 1
  OBVIOUS
<1>2. PICK y \in SearchCalls : y = <<fs[1][1], Tail(fs[1][2])>>
  BY TurnedCall, WithoutFirst
<1>3. PICK t : t = Tail(fs)
  OBVIOUS
<1>4. t \in Seq(SearchCalls) /\ Len(t) = n - 1 /\ \A i \in 1 .. n - 1 : t[i] = fs[i + 1]
  BY <1>1, <1>3, WithoutFirst
<1>5. gs = <<y>> \o t
  BY <1>2, <1>3
<1>6. gs \in Seq(SearchCalls) /\ Len(gs) = (n - 1) + 1 /\ gs[1] = y
      /\ \A i \in 1 .. n - 1 : gs[i + 1] = t[i]
  <2>1. t \in Seq(SearchCalls)
    BY <1>4
  <2>2. /\ <<y>> \o t \in Seq(SearchCalls) /\ Len(<<y>> \o t) = Len(t) + 1
        /\ (<<y>> \o t)[1] = y /\ \A i \in 1 .. Len(t) : (<<y>> \o t)[i + 1] = t[i]
    BY <2>1, FirstThen
  <2>3. QED
    BY <1>4, <1>5, <2>2
<1>7. Len(gs) = n
  BY <1>6
<1>8. \A i \in 2 .. n : gs[i] = fs[i]
  <2> SUFFICES ASSUME NEW i \in 2 .. n PROVE gs[i] = fs[i]
    OBVIOUS
  <2>1. i - 1 \in 1 .. n - 1 /\ (i - 1) + 1 = i
    OBVIOUS
  <2>2. QED
    BY <1>4, <1>6, <2>1
<1>9. y[1] = fs[1][1] /\ y[2] = Tail(fs[1][2])
  BY <1>2
<1>10. \A i \in 1 .. n : /\ Called(gs)[i] = gs[(n + 1) - i][1]
                         /\ Ahead(gs)[i] = ToSet(gs[(n + 1) - i][2])
  <2>1. CallsAre(gs, Len(gs))
    BY <1>6, <1>7, CallsOf
  <2>2. QED
    BY <1>6, <1>7, <2>1 DEF CallsAre
<1>11. \A i \in 1 .. n : /\ Called(fs)[i] = fs[(n + 1) - i][1]
                         /\ Ahead(fs)[i] = ToSet(fs[(n + 1) - i][2])
  <2>1. CallsAre(fs, Len(fs))
    BY <1>1, CallsOf
  <2>2. QED
    BY <1>1, <2>1 DEF CallsAre
<1>12. Called(gs)[n] = fs[1][1] /\ Ahead(gs)[n] = ToSet(Tail(fs[1][2])) /\ Called(fs)[n] = fs[1][1]
  <2>1. n \in 1 .. n /\ (n + 1) - n = 1
    BY <1>1
  <2>2. QED
    BY <1>6, <1>9, <1>10, <1>11, <2>1
<1>13. ASSUME NEW i \in 1 .. n - 1
       PROVE  Called(gs)[i] = Called(fs)[i] /\ Ahead(gs)[i] = Ahead(fs)[i]
  <2>1. i \in 1 .. n /\ (n + 1) - i \in 2 .. n
    OBVIOUS
  <2>2. gs[(n + 1) - i] = fs[(n + 1) - i]
    BY <1>8, <2>1
  <2>3. QED
    BY <1>10, <1>11, <2>1, <2>2
<1>14. \A i \in 1 .. n : i = n \/ i \in 1 .. n - 1
  OBVIOUS
<1>15. \A i \in 1 .. n : Called(gs)[i] = Called(fs)[i]
  BY <1>12, <1>13, <1>14
<1>16. QED
  BY <1>1, <1>6, <1>7, <1>12, <1>13, <1>15

\* A call put on the stack is the innermost one; those around it stay.
LEMMA PushedFrames ==
  ASSUME NEW fs \in Seq(SearchCalls), NEW x \in SearchCalls, NEW gs, gs = <<x>> \o fs
  PROVE  /\ gs \in Seq(SearchCalls) /\ Len(gs) = Len(fs) + 1
         /\ \A i \in 1 .. Len(fs) : Called(gs)[i] = Called(fs)[i] /\ Ahead(gs)[i] = Ahead(fs)[i]
         /\ Called(gs)[Len(fs) + 1] = x[1] /\ Ahead(gs)[Len(fs) + 1] = ToSet(x[2])
<1>1. PICK n \in Nat : n = Len(fs)
  OBVIOUS
<1>2. /\ gs \in Seq(SearchCalls) /\ Len(gs) = n + 1 /\ gs[1] = x
      /\ \A i \in 1 .. n : gs[i + 1] = fs[i]
  BY <1>1, FirstThen
<1>3. \A i \in 1 .. n + 1 : /\ Called(gs)[i] = gs[((n + 1) + 1) - i][1]
                            /\ Ahead(gs)[i] = ToSet(gs[((n + 1) + 1) - i][2])
  <2>1. CallsAre(gs, Len(gs))
    BY <1>2, CallsOf
  <2>2. QED
    BY <1>2, <2>1 DEF CallsAre
<1>4. \A i \in 1 .. n : /\ Called(fs)[i] = fs[(n + 1) - i][1]
                        /\ Ahead(fs)[i] = ToSet(fs[(n + 1) - i][2])
  <2>1. CallsAre(fs, Len(fs))
    BY <1>1, CallsOf
  <2>2. QED
    BY <1>1, <2>1 DEF CallsAre
<1>5. Called(gs)[n + 1] = x[1] /\ Ahead(gs)[n + 1] = ToSet(x[2])
  <2>1. n + 1 \in 1 .. n + 1 /\ ((n + 1) + 1) - (n + 1) = 1
    OBVIOUS
  <2>2. QED
    BY <1>2, <1>3, <2>1
<1>6. ASSUME NEW i \in 1 .. n
      PROVE  Called(gs)[i] = Called(fs)[i] /\ Ahead(gs)[i] = Ahead(fs)[i]
  <2>1. /\ i \in 1 .. n + 1 /\ (n + 1) - i \in 1 .. n
        /\ ((n + 1) + 1) - i = ((n + 1) - i) + 1
    OBVIOUS
  <2>2. gs[((n + 1) + 1) - i] = fs[(n + 1) - i]
    BY <1>2, <2>1
  <2>3. QED
    BY <1>3, <1>4, <2>1, <2>2
<1>7. QED
  BY <1>1, <1>2, <1>5, <1>6

\* A call taken from the stack leaves those around it as they were.
LEMMA PoppedFrames ==
  ASSUME NEW fs \in Seq(SearchCalls), fs # <<>>, NEW gs, gs = Tail(fs)
  PROVE  /\ gs \in Seq(SearchCalls) /\ Len(gs) = Len(fs) - 1
         /\ \A i \in 1 .. Len(fs) - 1 : Called(gs)[i] = Called(fs)[i] /\ Ahead(gs)[i] = Ahead(fs)[i]
<1>1. PICK n \in Nat : n = Len(fs) /\ n >= 1
  OBVIOUS
<1>2. gs \in Seq(SearchCalls) /\ Len(gs) = n - 1 /\ \A i \in 1 .. n - 1 : gs[i] = fs[i + 1]
  BY <1>1, WithoutFirst
<1>3. \A i \in 1 .. n - 1 : /\ Called(gs)[i] = gs[((n - 1) + 1) - i][1]
                            /\ Ahead(gs)[i] = ToSet(gs[((n - 1) + 1) - i][2])
  <2>1. CallsAre(gs, Len(gs))
    BY <1>2, CallsOf
  <2>2. QED
    BY <1>2, <2>1 DEF CallsAre
<1>4. \A i \in 1 .. n : /\ Called(fs)[i] = fs[(n + 1) - i][1]
                        /\ Ahead(fs)[i] = ToSet(fs[(n + 1) - i][2])
  <2>1. CallsAre(fs, Len(fs))
    BY <1>1, CallsOf
  <2>2. QED
    BY <1>1, <2>1 DEF CallsAre
<1>5. ASSUME NEW i \in 1 .. n - 1
      PROVE  Called(gs)[i] = Called(fs)[i] /\ Ahead(gs)[i] = Ahead(fs)[i]
  <2>1. /\ ((n - 1) + 1) - i \in 1 .. n - 1 /\ i \in 1 .. n
        /\ (((n - 1) + 1) - i) + 1 = (n + 1) - i
    OBVIOUS
  <2>2. gs[((n - 1) + 1) - i] = fs[(n + 1) - i]
    BY <1>2, <2>1
  <2>3. QED
    BY <1>3, <1>4, <2>1, <2>2
<1>6. QED
  BY <1>1, <1>2, <1>5

\* The innermost call is the first frame.
LEMMA InnermostCall ==
  ASSUME NEW fs \in Seq(SearchCalls), fs # <<>>
  PROVE  Called(fs)[Len(fs)] = fs[1][1] /\ Ahead(fs)[Len(fs)] = ToSet(fs[1][2])
<1>1. CallsAre(fs, Len(fs))
  BY CallsOf
<1>2. PICK n \in Nat : n = Len(fs) /\ n >= 1
  BY WithoutFirst
<1>3. n \in 1 .. n /\ (n + 1) - n = 1
  BY <1>2
<1>4. QED
  BY <1>1, <1>2, <1>3 DEF CallsAre

\* The elements of a sequence are its first and those of the rest.
LEMMA HeadAndTail ==
  ASSUME NEW F, NEW s \in Seq(F), s # <<>>
  PROVE  /\ Head(s) \in F /\ Head(s) \in ToSet(s)
         /\ ToSet(s) \subseteq ToSet(Tail(s)) \cup {Head(s)}
         /\ ToSet(Tail(s)) \subseteq ToSet(s)
<1>1. PICK t \in Seq(F) : /\ t = Tail(s) /\ Len(t) = Len(s) - 1
                          /\ \A i \in 1 .. Len(s) - 1 : t[i] = s[i + 1]
  BY WithoutFirst
<1>2. Head(s) = s[1] /\ s[1] \in F /\ 1 \in DOMAIN s
  OBVIOUS
<1>3. ASSUME NEW i \in DOMAIN s PROVE s[i] = s[1] \/ s[i] \in ToSet(t)
  <2>1. CASE i = 1
    BY <2>1
  <2>2. CASE i # 1
    <3>1. i - 1 \in 1 .. Len(s) - 1 /\ (i - 1) + 1 = i /\ i - 1 \in DOMAIN t
      BY <1>1, <2>2
    <3>2. t[i - 1] = s[i]
      BY <1>1, <3>1
    <3>3. QED
      BY <3>1, <3>2 DEF ToSet
  <2>3. QED
    BY <2>1, <2>2
<1>4. ASSUME NEW i \in DOMAIN t PROVE t[i] \in ToSet(s)
  <2>1. i \in 1 .. Len(s) - 1 /\ i + 1 \in DOMAIN s
    BY <1>1
  <2>2. QED
    BY <1>1, <2>1 DEF ToSet
<1>5. ToSet(s) = {s[i] : i \in DOMAIN s} /\ ToSet(t) = {t[i] : i \in DOMAIN t}
  BY DEF ToSet
<1>6. QED
  BY <1>1, <1>2, <1>3, <1>4, <1>5

\* What a mark changes.
LEMMA MarkedOne ==
  ASSUME NEW r, NEW mark, mark = Mark(r, 1), InRange(roleMark)
  PROVE  /\ Marked(1, mark) = Marked(1, roleMark) \cup {r}
         /\ Marked(2, mark) = Marked(2, roleMark) \ {r}
         /\ DOMAIN mark = DOMAIN roleMark \cup {r} /\ InRange(mark)
BY DEF Marked, Mark, InRange

\* What is marked once a role is done.
LEMMA MarkedTwo ==
  ASSUME NEW r, NEW mark, mark = Mark(r, 2), InRange(roleMark)
  PROVE  /\ Marked(2, mark) = Marked(2, roleMark) \cup {r}
         /\ Marked(1, mark) = Marked(1, roleMark) \ {r}
         /\ DOMAIN mark = DOMAIN roleMark \cup {r} /\ InRange(mark)
BY DEF Marked, Mark, InRange

\* What the mark of a role says of it.
LEMMA MarkOfRole ==
  ASSUME NEW p, InRange(roleMark)
  PROVE  /\ MarkOf(p) = 0 => p \notin Marked(1, roleMark) /\ p \notin Marked(2, roleMark)
         /\ MarkOf(p) # 0 /\ ~FoundCycle(MarkOf(p)) => p \in Marked(2, roleMark)
         /\ p \in DOMAIN roleMark /\ roleMark[p] # 0 /\ p \notin Marked(1, roleMark) =>
              p \in Marked(2, roleMark)
BY DEF MarkOf, Marked, InRange, FoundCycle

\* The parents of a role are a list.
LEMMA ParentsAreSeq ==
  ASSUME input \in Inputs, NEW r
  PROVE  ParentsOf(r) \in Seq(STRING)
<1>1. CASE r \in DOMAIN Hierarchy
  BY <1>1, RolesAssumption DEF ParentsOf, Hierarchy
<1>2. CASE r \notin DOMAIN Hierarchy
  BY <1>2 DEF ParentsOf
<1>3. QED
  BY <1>1, <1>2

\* No other problem is taken for a cycle.
LEMMA NotReported ==
  ASSUME NEW c, NEW p \in ServerProblems(c) \cup DatabaseProblems(c) \cup StoreProblems(c)
          \cup TableProblems(c) \cup EndpointProblems(c) \cup AuthProblems(c)
          \cup SelfParents(c) \cup CorsProblems(c)
  PROVE  p[1] # "cycle"
<1>1. CASE p \in ServerProblems(c)
  <2>1. \E i : p = <<"server", i>>
    BY <1>1, Zenon DEF ServerProblems
  <2>2. QED
    BY <2>1
<1>2. CASE p \in DatabaseProblems(c)
  <2>1. \E i : p = <<"database", i>>
    BY <1>2, Zenon DEF DatabaseProblems
  <2>2. QED
    BY <2>1
<1>3. CASE p \in StoreProblems(c)
  <2>1. \E i : p = <<"store", i>>
    BY <1>3, Zenon DEF StoreProblems
  <2>2. QED
    BY <2>1
<1>4. CASE p \in TableProblems(c)
  <2>1. \E i : p = <<"table", i>>
    BY <1>4, Zenon DEF TableProblems
  <2>2. QED
    BY <2>1
<1>5. CASE p \in EndpointProblems(c)
  <2>1. \E i : p = <<"endpoint", i>>
    BY <1>5, Zenon DEF EndpointProblems
  <2>2. QED
    BY <2>1
<1>6. CASE p \in AuthProblems(c)
  <2>1. \E i : p = <<"auth", i>>
    BY <1>6, Zenon DEF AuthProblems
  <2>2. QED
    BY <2>1
<1>7. CASE p \in SelfParents(c)
  <2>1. \E i : p = <<"self", i>>
    BY <1>7, Zenon DEF SelfParents
  <2>2. QED
    BY <2>1
<1>8. CASE p \in CorsProblems(c)
  <2>1. \E i : p = <<"cors", i>>
    BY <1>8, Zenon DEF CorsProblems
  <2>2. QED
    BY <2>1
<1>9. QED
  BY <1>1, <1>2, <1>3, <1>4, <1>5, <1>6, <1>7, <1>8

\* The search knows no more of the state than its arguments and the hierarchy.
LEMMA SameHierarchy ==
  ASSUME input' = input
  PROVE  /\ DOMAIN Hierarchy' = DOMAIN Hierarchy
         /\ Cyclic' = Cyclic
         /\ Searching(Len(frames'), Called(frames'), Ahead(frames'),
                      Marked(1, roleMark'), Marked(2, roleMark')) =>
              Searching(Len(frames), Called(frames), Ahead(frames),
                        Marked(1, roleMark), Marked(2, roleMark))'
<1>1. Hierarchy' = Hierarchy
  BY DEF Hierarchy
<1>2. Cyclic' = Cyclic
  BY <1>1 DEF Cyclic, Inherits, WithParents, ParentsOf
<1>3. Searching(Len(frames'), Called(frames'), Ahead(frames'),
                Marked(1, roleMark'), Marked(2, roleMark')) =>
        Searching(Len(frames), Called(frames), Ahead(frames),
                  Marked(1, roleMark), Marked(2, roleMark))'
  <2>1. Chained(Len(frames'), Called(frames')) => Chained(Len(frames), Called(frames))'
    BY <1>1 DEF Chained, Parents, ParentsOf
  <2>2. Apiece(Len(frames'), Called(frames')) => Apiece(Len(frames), Called(frames))'
    BY DEF Apiece
  <2>3. Searched(Len(frames'), Called(frames'), Ahead(frames'), Marked(2, roleMark')) =>
          Searched(Len(frames), Called(frames), Ahead(frames), Marked(2, roleMark))'
    BY <1>1 DEF Searched, Parents, ParentsOf
  <2>4. Settled(Marked(2, roleMark')) => Settled(Marked(2, roleMark))'
    <3>1. \A r : Parents(r)' = Parents(r)
      BY <1>1 DEF Parents, ParentsOf
    <3>2. \A r, q : Inherits(r, q)' = Inherits(r, q)
      BY <1>1 DEF Inherits, WithParents, ParentsOf
    <3>3. QED
      BY <3>1, <3>2 DEF Settled
  <2>5. QED
    BY <2>1, <2>2, <2>3, <2>4 DEF Searching
<1>4. QED
  BY <1>1, <1>2, <1>3

\* What is to be shown of the next state, with the hierarchy as it was.
NextSearch ==
  /\ frames' \in Seq(SearchCalls)
  /\ DOMAIN Hierarchy \subseteq DOMAIN roleMark'
  /\ InRange(roleMark')
  /\ frames' # <<>> => loading' = "hierarchy"
  /\ loading' \notin {"hierarchy", "accepted", "refused"} => ~Reported'
  /\ loading' \in {"accepted", "refused"} => \A r \in DOMAIN Hierarchy : roleMark'[r] # 0
  /\ Reported' => Cyclic
  /\ ~Reported' => Searching(Len(frames'), Called(frames'), Ahead(frames'),
                             Marked(1, roleMark'), Marked(2, roleMark'))

\* Going on to the next search keeps the invariant.
LEMMA NextSearchInv ==
  ASSUME CycleInv, input' = input, NextSearch
  PROVE  CycleInv'
<1>1. Hierarchy' = Hierarchy
  BY DEF Hierarchy
<1>2. QED
  BY <1>1, SameHierarchy DEF NextSearch, CycleInv, SearchInv

\* StartSearch keeps the invariant.
LEMMA StartSearchKeeps == CycleInv /\ StartSearch => CycleInv'
<1> SUFFICES ASSUME CycleInv, StartSearch PROVE CycleInv'
  OBVIOUS
<1>1. PICK r \in DOMAIN Hierarchy :
        roleMark[r] = 0 /\ roleMark' = Mark(r, 1) /\ frames' = <<<<r, ParentsOf(r)>>>>
  BY DEF StartSearch
<1>2. /\ input' = input /\ loading' = loading /\ problems' = problems
      /\ loading = "hierarchy" /\ frames = <<>>
  BY DEF StartSearch
<1>3. /\ frames \in Seq(SearchCalls) /\ input \in Inputs
      /\ DOMAIN Hierarchy \subseteq DOMAIN roleMark
      /\ InRange(roleMark)
  BY DEF CycleInv, SearchInv
<1>4. PICK x : x = <<r, ParentsOf(r)>>
  OBVIOUS
<1>5. x \in SearchCalls /\ x[1] = r /\ x[2] = ParentsOf(r)
  <2>1. r \in STRING
    BY <1>3, RolesAssumption DEF Hierarchy
  <2>2. ParentsOf(r) \in Seq(STRING)
    BY <1>3, ParentsAreSeq
  <2>3. QED
    BY <1>4, <2>1, <2>2 DEF SearchCalls
<1>6. frames' = <<x>> \o frames
  BY <1>1, <1>2, <1>4, <1>5
<1>7. /\ frames' \in Seq(SearchCalls) /\ Len(frames') = 0 + 1
      /\ Called(frames')[0 + 1] = r /\ Ahead(frames')[0 + 1] = Parents(r)
  <2>1. Len(frames) = 0
    BY <1>2
  <2>2. QED
    <3>1. PICK gs : gs = frames'
      OBVIOUS
    <3>2. PICK fs \in Seq(SearchCalls) : fs = frames
      BY <1>3
    <3>a. gs = <<x>> \o fs
      BY <1>6, <3>1, <3>2
    <3>3. /\ gs \in Seq(SearchCalls) /\ Len(gs) = Len(fs) + 1
          /\ Called(gs)[Len(fs) + 1] = x[1] /\ Ahead(gs)[Len(fs) + 1] = ToSet(x[2])
      BY <1>5, <3>a, PushedFrames
    <3>4. QED
      BY <1>5, <2>1, <3>1, <3>2, <3>3 DEF Parents
<1>8. /\ Marked(1, roleMark') = Marked(1, roleMark) \cup {r}
      /\ Marked(2, roleMark') = Marked(2, roleMark) \ {r}
      /\ DOMAIN roleMark' = DOMAIN roleMark \cup {r}
      /\ InRange(roleMark')
  <2>1. PICK mark : mark = roleMark'
    OBVIOUS
  <2>2. QED
    BY <1>1, <1>3, <2>1, MarkedOne
<1>9. r \notin Marked(1, roleMark) /\ r \notin Marked(2, roleMark)
  BY <1>1 DEF Marked
<1>10. ASSUME ~Reported PROVE Searching(Len(frames'), Called(frames'), Ahead(frames'),
                                        Marked(1, roleMark'), Marked(2, roleMark'))
  <2>1. Len(frames) = 0
    BY <1>2
  <2>2. Searching(0, Called(frames), Ahead(frames), Marked(1, roleMark), Marked(2, roleMark))
    BY <1>10, <2>1 DEF CycleInv, SearchInv
  <2>3. Marked(2, roleMark') = Marked(2, roleMark)
    BY <1>8, <1>9
  <2>4. Searching(0 + 1, Called(frames'), Ahead(frames'),
                  Marked(1, roleMark) \cup {r}, Marked(2, roleMark))
    BY <1>7, <1>9, <2>2, PushKeeps
  <2>5. QED
    BY <1>7, <1>8, <2>3, <2>4
<1>11. Reported' = Reported
  BY <1>2 DEF Reported
<1>12. NextSearch
  BY <1>2, <1>3, <1>7, <1>8, <1>10, <1>11 DEF NextSearch, CycleInv, SearchInv
<1>13. QED
  BY <1>2, <1>12, NextSearchInv

\* SearchStep keeps the invariant.
LEMMA SearchStepKeeps == CycleInv /\ SearchStep => CycleInv'
<1> SUFFICES ASSUME CycleInv, SearchStep PROVE CycleInv'
  OBVIOUS
<1>1. /\ input' = input /\ loading' = loading /\ frames # <<>> /\ loading = "hierarchy"
  BY DEF SearchStep, CycleInv, SearchInv
<1>2. /\ frames \in Seq(SearchCalls) /\ input \in Inputs
      /\ DOMAIN Hierarchy \subseteq DOMAIN roleMark
      /\ InRange(roleMark)
  BY DEF CycleInv, SearchInv
<1>3. PICK n \in Nat : n = Len(frames) /\ n >= 1
  BY <1>1, <1>2, WithoutFirst
<1>4. PICK r \in STRING, ps \in Seq(STRING) : r = frames[1][1] /\ ps = frames[1][2]
  <2>1. frames[1] \in SearchCalls
    BY <1>1, <1>2, WithoutFirst
  <2>2. QED
    BY <2>1 DEF SearchCalls
<1>5. Called(frames)[n] = r /\ Ahead(frames)[n] = ToSet(ps)
  BY <1>1, <1>2, <1>3, <1>4, InnermostCall
<1>6. ASSUME ~Reported
      PROVE  Searching(n, Called(frames), Ahead(frames), Marked(1, roleMark), Marked(2, roleMark))
  BY <1>3, <1>6 DEF CycleInv, SearchInv
<1>7. Marked(1, roleMark) \cap Marked(2, roleMark) = {}
  BY DEF Marked
<1>8. CASE ps = <<>> /\ roleMark' = Mark(r, 2) /\ frames' = Tail(frames) /\ problems' = problems
  <2>1. /\ frames' \in Seq(SearchCalls) /\ Len(frames') = n - 1
        /\ \A i \in 1 .. n - 1 : /\ Called(frames')[i] = Called(frames)[i]
                                 /\ Ahead(frames')[i] = Ahead(frames)[i]
    BY <1>1, <1>2, <1>3, <1>8, PoppedFrames
  <2>2. /\ Marked(2, roleMark') = Marked(2, roleMark) \cup {r}
        /\ Marked(1, roleMark') = Marked(1, roleMark) \ {r}
        /\ DOMAIN roleMark' = DOMAIN roleMark \cup {r}
        /\ InRange(roleMark')
    <3>1. PICK mark : mark = roleMark'
      OBVIOUS
    <3>2. QED
      BY <1>2, <1>8, <3>1, MarkedTwo
  <2>3. ToSet(ps) = {}
    BY <1>8 DEF ToSet
  <2>4. ASSUME ~Reported
        PROVE  Searching(Len(frames'), Called(frames'), Ahead(frames'),
                         Marked(1, roleMark'), Marked(2, roleMark'))
    <3>1. Searching(n, Called(frames), Ahead(frames), Marked(1, roleMark), Marked(2, roleMark))
      BY <1>6, <2>4
    <3>2. Searching(n - 1, Called(frames'), Ahead(frames'),
                    Marked(1, roleMark) \ {Called(frames)[n]}, Marked(2, roleMark) \cup {Called(frames)[n]})
      <4>1. PICK role, left, role2, left2, open, done :
              /\ role = Called(frames) /\ left = Ahead(frames)
              /\ role2 = Called(frames') /\ left2 = Ahead(frames')
              /\ open = Marked(1, roleMark) /\ done = Marked(2, roleMark)
        OBVIOUS
      <4>2. /\ Searching(n, role, left, open, done) /\ open \cap done = {} /\ left[n] = {}
            /\ \A i \in 1 .. n - 1 : role2[i] = role[i] /\ left2[i] = left[i]
        BY <1>5, <1>7, <2>1, <2>3, <3>1, <4>1
      <4>3. n > 0
        BY <1>3
      <4>4. Searching(n - 1, role2, left2, open \ {role[n]}, done \cup {role[n]})
        BY <4>2, <4>3, PopKeeps
      <4>5. QED
        BY <4>1, <4>4
    <3>3. QED
      BY <1>5, <2>1, <2>2, <3>2
  <2>5. Reported' = Reported
    BY <1>8 DEF Reported
  <2>6. NextSearch
    BY <1>1, <1>2, <2>1, <2>2, <2>4, <2>5 DEF NextSearch, CycleInv, SearchInv
  <2>7. QED
    BY <1>1, <2>6, NextSearchInv
<1>9. CASE /\ ps # <<>> /\ FoundCycle(MarkOf(Head(ps)))
           /\ problems' = problems \cup {<<"cycle", frames[1][1]>>}
           /\ frames' = <<>> /\ roleMark' = roleMark
  <2>1. Reported'
    <3>1. PICK x : x = <<"cycle", frames[1][1]>>
      OBVIOUS
    <3>2. x \in problems' /\ x[1] = "cycle"
      BY <1>9, <3>1
    <3>3. QED
      BY <3>2 DEF Reported
  <2>2. ASSUME ~Reported PROVE Cyclic
    <3>1. Searching(n, Called(frames), Ahead(frames), Marked(1, roleMark), Marked(2, roleMark))
      BY <1>6, <2>2
    <3>2. Head(ps) \in Marked(1, roleMark)
      BY <1>9 DEF FoundCycle, MarkOf, Marked
    <3>3. PICK k \in 1 .. n : Head(ps) = Called(frames)[k]
      BY <3>1, <3>2 DEF Searching
    <3>4. Head(ps) \in ToSet(ps)
      BY <1>9, HeadAndTail
    <3>5. n \in 1 .. n
      BY <1>3
    <3>6. Head(ps) \in Parents(Called(frames)[n])
      BY <1>5, <3>1, <3>4, <3>5 DEF Searching, Searched
    <3>7. QED
      BY <3>1, <3>3, <3>6, CycleFound DEF Searching
  <2>3. Cyclic
    BY <2>2 DEF CycleInv, SearchInv
  <2>4. frames' \in Seq(SearchCalls)
    BY <1>9
  <2>5. NextSearch
    BY <1>1, <1>2, <1>9, <2>1, <2>3, <2>4 DEF NextSearch
  <2>6. QED
    BY <1>1, <2>5, NextSearchInv
<1>10. CASE ps # <<>> /\ ~FoundCycle(MarkOf(Head(ps)))
  <2>1. PICK p \in STRING : p = Head(ps) /\ p \in ToSet(ps)
    BY <1>10, HeadAndTail
  <2>2. ToSet(ps) \subseteq ToSet(Tail(ps)) \cup {p} /\ ToSet(Tail(ps)) \subseteq ToSet(ps)
    BY <1>10, <2>1, HeadAndTail
  <2>3. PICK hs : hs = <<<<r, Tail(ps)>>>> \o Tail(frames)
    OBVIOUS
  <2>4. /\ hs \in Seq(SearchCalls) /\ Len(hs) = n
        /\ \A i \in 1 .. n : Called(hs)[i] = Called(frames)[i]
        /\ \A i \in 1 .. n - 1 : Ahead(hs)[i] = Ahead(frames)[i]
        /\ Ahead(hs)[n] = ToSet(Tail(ps))
    BY <1>1, <1>2, <1>3, <1>4, <1>10, <2>3, NextFrames
  <2>5. CASE MarkOf(p) = 0
    <3>1. roleMark' = Mark(p, 1) /\ frames' = <<<<p, ParentsOf(p)>>>> \o hs /\ problems' = problems
      BY <1>4, <1>10, <2>1, <2>3, <2>5 DEF SearchStep
    <3>2. PICK x \in SearchCalls : x = <<p, ParentsOf(p)>> /\ x[1] = p /\ x[2] = ParentsOf(p)
      <4>1. ParentsOf(p) \in Seq(STRING)
        BY <1>2, ParentsAreSeq
      <4>2. PICK x : x = <<p, ParentsOf(p)>>
        OBVIOUS
      <4>3. x \in SearchCalls /\ x[1] = p /\ x[2] = ParentsOf(p)
        BY <4>1, <4>2 DEF SearchCalls
      <4>4. QED
        BY <4>2, <4>3
    <3>3. frames' = <<x>> \o hs
      BY <3>1, <3>2
    <3>4. /\ frames' \in Seq(SearchCalls) /\ Len(frames') = n + 1
          /\ \A i \in 1 .. n : /\ Called(frames')[i] = Called(hs)[i]
                               /\ Ahead(frames')[i] = Ahead(hs)[i]
          /\ Called(frames')[n + 1] = p /\ Ahead(frames')[n + 1] = Parents(p)
      <4>1. PICK gs : gs = frames'
        OBVIOUS
      <4>2. hs \in Seq(SearchCalls) /\ Len(hs) = n
        BY <2>4
      <4>3. /\ gs \in Seq(SearchCalls) /\ Len(gs) = Len(hs) + 1
            /\ \A i \in 1 .. Len(hs) : /\ Called(gs)[i] = Called(hs)[i]
                                      /\ Ahead(gs)[i] = Ahead(hs)[i]
            /\ Called(gs)[Len(hs) + 1] = x[1] /\ Ahead(gs)[Len(hs) + 1] = ToSet(x[2])
        BY <3>3, <4>1, <4>2, PushedFrames
      <4>4. QED
        BY <3>2, <4>1, <4>2, <4>3 DEF Parents
    <3>5. /\ Marked(1, roleMark') = Marked(1, roleMark) \cup {p}
          /\ Marked(2, roleMark') = Marked(2, roleMark) \ {p}
          /\ DOMAIN roleMark' = DOMAIN roleMark \cup {p}
          /\ InRange(roleMark')
      <4>1. PICK mark : mark = roleMark'
        OBVIOUS
      <4>2. QED
        BY <1>2, <3>1, <4>1, MarkedOne
    <3>6. p \notin Marked(1, roleMark) /\ p \notin Marked(2, roleMark)
      BY <1>2, <2>5, MarkOfRole
    <3>7. ASSUME ~Reported
          PROVE  Searching(Len(frames'), Called(frames'), Ahead(frames'),
                           Marked(1, roleMark'), Marked(2, roleMark'))
      <4>1. Searching(n, Called(frames), Ahead(frames), Marked(1, roleMark), Marked(2, roleMark))
        BY <1>6, <3>7
      <4>2. n \in 1 .. n /\ \A i \in 1 .. n - 1 : i \in 1 .. n
        BY <1>3
      <4>3. p \in Parents(Called(frames)[n])
        BY <1>5, <2>1, <4>1, <4>2 DEF Searching, Searched
      <4>4. \A i \in 1 .. n : Called(frames')[i] = Called(frames)[i]
        BY <2>4, <3>4
      <4>5. \A i \in 1 .. n - 1 : Ahead(frames')[i] = Ahead(frames)[i]
        BY <2>4, <3>4, <4>2
      <4>6. /\ Ahead(frames)[n] \subseteq Ahead(frames')[n] \cup {p}
            /\ Ahead(frames')[n] \subseteq Ahead(frames)[n]
        BY <1>5, <2>2, <2>4, <3>4, <4>2
      <4>7. Searching(n + 1, Called(frames'), Ahead(frames'),
                      Marked(1, roleMark) \cup {p}, Marked(2, roleMark))
        <5>1. PICK role, left, role2, left2, open, done :
                /\ role = Called(frames) /\ left = Ahead(frames)
                /\ role2 = Called(frames') /\ left2 = Ahead(frames')
                /\ open = Marked(1, roleMark) /\ done = Marked(2, roleMark)
          OBVIOUS
        <5>2. /\ Searching(n, role, left, open, done) /\ p \notin open
              /\ \A i \in 1 .. n : role2[i] = role[i]
              /\ \A i \in 1 .. n - 1 : left2[i] = left[i]
              /\ role2[n + 1] = p /\ left2[n + 1] = Parents(p) /\ p \in Parents(role[n])
              /\ left[n] \subseteq left2[n] \cup {p} /\ left2[n] \subseteq left[n]
          BY <3>4, <3>6, <4>1, <4>3, <4>4, <4>5, <4>6, <5>1
        <5>3. Searching(n + 1, role2, left2, open \cup {p}, done)
          BY <5>2, PushKeeps
        <5>4. QED
          BY <5>1, <5>3
      <4>8. Marked(2, roleMark') = Marked(2, roleMark)
        BY <3>5, <3>6
      <4>9. QED
        BY <3>4, <3>5, <4>7, <4>8
    <3>8. Reported' = Reported
      BY <3>1 DEF Reported
    <3>9. NextSearch
      BY <1>1, <1>2, <3>4, <3>5, <3>7, <3>8 DEF NextSearch, CycleInv, SearchInv
    <3>10. QED
      BY <1>1, <3>9, NextSearchInv
  <2>6. CASE MarkOf(p) # 0
    <3>1. roleMark' = roleMark /\ frames' = hs /\ problems' = problems
      BY <1>4, <1>10, <2>1, <2>3, <2>6 DEF SearchStep
    <3>2. p \in Marked(2, roleMark)
      BY <1>2, <1>10, <2>1, <2>6, MarkOfRole
    <3>3. ASSUME ~Reported
          PROVE  Searching(n, Called(hs), Ahead(hs), Marked(1, roleMark), Marked(2, roleMark))
      <4>1. Searching(n, Called(frames), Ahead(frames), Marked(1, roleMark), Marked(2, roleMark))
        BY <1>6, <3>3
      <4>2. /\ Ahead(frames)[n] \subseteq Ahead(hs)[n] \cup {p}
            /\ Ahead(hs)[n] \subseteq Ahead(frames)[n] /\ n > 0
        <5>1. n > 0 /\ Ahead(hs)[n] = ToSet(Tail(ps))
          BY <1>3, <2>4
        <5>2. QED
          BY <1>5, <2>2, <5>1
      <4>3. QED
        BY <2>4, <3>2, <4>1, <4>2, NextKeeps
    <3>4. Reported' = Reported
      BY <3>1 DEF Reported
    <3>5. NextSearch
      BY <1>1, <1>2, <2>4, <3>1, <3>3, <3>4 DEF NextSearch, CycleInv, SearchInv
    <3>6. QED
      BY <1>1, <3>5, NextSearchInv
  <2>7. QED
    BY <2>5, <2>6
<1>11. QED
  <2>1. CASE ps = <<>>
    BY <1>4, <1>8, <2>1 DEF SearchStep
  <2>2. CASE ps # <<>> /\ FoundCycle(MarkOf(Head(ps)))
    BY <1>4, <1>9, <2>2 DEF SearchStep
  <2>3. QED
    BY <1>10, <2>1, <2>2

\* Every step of the loading of a configuration keeps the invariant.
LEMMA CycleStepInv == CycleInv /\ [ConfNext]_confVars => CycleInv'
<1> SUFFICES ASSUME CycleInv, [ConfNext]_confVars PROVE CycleInv'
  OBVIOUS
<1>1. ASSUME input' = input, frames' = frames, roleMark' = roleMark, problems' = problems,
             \/ loading' = loading
             \/ loading = "files" /\ loading' \notin {"hierarchy", "accepted", "refused"}
      PROVE  CycleInv'
  <2>1. Reported' = Reported
    BY <1>1 DEF Reported
  <2>2. NextSearch
    BY <1>1, <2>1 DEF NextSearch, CycleInv, SearchInv
  <2>3. QED
    BY <1>1, <2>2, NextSearchInv
<1>2. CASE LoadFile
  BY <1>1, <1>2 DEF LoadFile
<1>3. CASE CheckShape
  BY <1>1, <1>3 DEF CheckShape
<1>4. CASE Validate
  <2>1. /\ input' = input /\ frames' = frames /\ roleMark' = roleMark /\ loading = "files"
        /\ loading' = "hierarchy"
    BY <1>4 DEF Validate
  <2>2. ~Reported /\ ~Reported'
    <3>1. ~Reported
      BY <2>1 DEF CycleInv, SearchInv
    <3>2. \A p \in problems' : p[1] # "cycle"
      BY <1>4, NotReported DEF Validate
    <3>3. QED
      BY <3>1, <3>2 DEF Reported
  <2>3. NextSearch
    BY <2>1, <2>2 DEF NextSearch, CycleInv, SearchInv
  <2>4. QED
    BY <2>1, <2>3, NextSearchInv
<1>5. CASE StartSearch
  BY <1>5, StartSearchKeeps
<1>6. CASE SearchStep
  BY <1>6, SearchStepKeeps
<1>7. CASE ValidateDone
  <2>1. /\ input' = input /\ frames' = frames /\ roleMark' = roleMark /\ frames = <<>>
        /\ loading' \in {"accepted", "refused"} /\ loading = "hierarchy"
        /\ \A r \in DOMAIN Hierarchy : roleMark[r] # 0
        /\ problems' = problems \cup CorsProblems(input.content)
    BY <1>7 DEF ValidateDone
  <2>2. Reported' = Reported
    <3>1. \A p \in CorsProblems(input.content) : p[1] # "cycle"
      BY NotReported
    <3>2. QED
      BY <2>1, <3>1 DEF Reported
  <2>3. NextSearch
    BY <2>1, <2>2 DEF NextSearch, CycleInv, SearchInv
  <2>4. QED
    BY <2>1, <2>3, NextSearchInv
<1>8. CASE UNCHANGED confVars
  BY <1>1, <1>8 DEF confVars
<1>9. QED
  BY <1>2, <1>3, <1>4, <1>5, <1>6, <1>7, <1>8 DEF ConfNext

\* The depth-first search of the role hierarchy finds a cycle exactly when
\* there is one, for every hierarchy and in whatever order the hash map yields
\* the roles, though a cycle leaves roles marked as being visited
\* (dfs_detect_cycle).
THEOREM CycleSafety == ConfSpec => []CyclesFound
<1>1. CycleInv => CyclesFound
  <2> SUFFICES ASSUME CycleInv, loading \in {"accepted", "refused"}
               PROVE  Reported <=> Cyclic
    BY DEF CyclesFound, Reported, Cyclic
  <2>1. Reported => Cyclic
    BY DEF CycleInv, SearchInv
  <2>2. ASSUME ~Reported PROVE ~Cyclic
    <3>1. frames = <<>>
      BY DEF CycleInv, SearchInv
    <3>2. Searching(0, Called(frames), Ahead(frames), Marked(1, roleMark), Marked(2, roleMark))
      <4>1. Len(frames) = 0
        BY <3>1
      <4>2. QED
        BY <2>2, <4>1 DEF CycleInv, SearchInv
    <3>3. Marked(1, roleMark) = {}
      BY <3>2 DEF Searching
    <3>4. \A r \in DOMAIN Hierarchy : r \in Marked(2, roleMark)
      BY <3>3, MarkOfRole DEF CycleInv, SearchInv
    <3>5. QED
      BY <3>2, <3>4 DEF Searching, Settled, Cyclic
  <2>3. QED
    BY <2>1, <2>2
<1>2. QED
  BY <1>1, CycleInitInv, CycleStepInv, PTL DEF ConfSpec

----------------------------------------------------------------------------
(* The files of the configuration: what is read and what is left.           *)

\* Where the elements of the sequence q come from, each from a place of one of
\* the sequences s, and each place gives one.
Laid(s, q, m) ==
  /\ DOMAIN m = 1 .. Len(q)
  /\ \A n \in 1 .. Len(q) :
       \E i \in 1 .. Len(s) : \E k \in 1 .. Len(s[i]) : m[n] = <<i, k>> /\ q[n] = s[i][k]
  /\ \A n, l \in 1 .. Len(q) : m[n] = m[l] => n = l
  /\ \A i \in 1 .. Len(s) : \A k \in 1 .. Len(s[i]) : \E n \in 1 .. Len(q) : m[n] = <<i, k>>

\* The values of FlattenSeq's recursion.
LEMMA FlattenRecursion ==
  ASSUME NEW T, NEW s \in Seq(Seq(T)), Len(s) # 0
  PROVE  \E g \in [1 .. Len(s) -> Seq(T)] :
           /\ g[1] = s[1] /\ \A n \in 2 .. Len(s) : g[n] = g[n - 1] \o s[n]
           /\ FlattenSeq(s) = g[Len(s)]
<1> DEFINE N == Len(s)
           D == Seq(T)
           With(i, x) == IF i = 1 THEN s[i] ELSE x \o s[i]
           Upto(f) == [i \in 1 .. N |-> IF i = 1 THEN s[i] ELSE f[i - 1] \o s[i]]
           next == [p \in (1 .. N) \X D |-> With(p[1], p[2])]
<1>0. N \in Nat \ {0} /\ <<>> \in D /\ \A i \in 1 .. N : s[i] \in D
  BY ElementsOfSeq
<1>1. \A i \in 1 .. N, x \in D : With(i, x) \in D
  <2> SUFFICES ASSUME NEW i \in 1 .. N, NEW x \in D PROVE With(i, x) \in D
    OBVIOUS
  <2>1. s[i] \in Seq(T) /\ x \in Seq(T)
    BY <1>0
  <2>2. x \o s[i] \in Seq(T)
    BY <2>1
  <2>3. QED
    BY <2>1, <2>2
<1>2. (\E f : f = Upto(f)) => \E g : (g = Upto(g)) /\ (FlattenSeq(s) = g[N])
  BY <1>0 DEF FlattenSeq
<1>a. \A x : \A i \in 1 .. N : With(i, x) = IF i = 1 THEN s[i] ELSE x \o s[i]
  OBVIOUS
<1> HIDE DEF N, D, With
<1>3. next \in Nexts(N, D)
  BY <1>1 DEF Nexts
<1>b. \A i \in 1 .. N, x \in D : next[<<i, x>>] = With(i, x)
  OBVIOUS
<1> HIDE DEF next
<1>4. PICK f \in [0 .. N -> D] :
        f[0] = <<>> /\ \A n \in 1 .. N : f[n] = next[<<n, f[n - 1]>>]
  <2>1. Recursive(N, D, <<>>, next)
    BY <1>0, <1>3, Recursion
  <2>2. QED
    BY <2>1 DEF Recursive
<1>5. \E h : h = Upto(h)
  <2> DEFINE h == [i \in 1 .. N |-> f[i]]
  <2>a. \A n \in 1 .. N : f[n - 1] \in D
    BY <1>0, <1>4
  <2>1. \A n \in 1 .. N : f[n] = With(n, f[n - 1])
    BY <1>4, <1>b, <2>a
  <2>2. \A n \in 1 .. N : n # 1 => n - 1 \in 1 .. N
    BY <1>0
  <2>3. \A n \in 1 .. N : n # 1 => h[n - 1] = f[n - 1]
    BY <2>2
  <2>4. \A n \in 1 .. N : h[n] = IF n = 1 THEN s[n] ELSE h[n - 1] \o s[n]
    BY <1>a, <2>1, <2>3
  <2>5. h = Upto(h)
    BY <2>4
  <2>6. QED
    BY <2>5
<1>6. PICK g : (g = Upto(g)) /\ (FlattenSeq(s) = g[N])
  BY <1>2, <1>5
<1>7. \A n \in 1 .. N : g[n] = IF n = 1 THEN s[n] ELSE g[n - 1] \o s[n]
  BY <1>6
<1>8. \A n \in 1 .. N : g[n] \in D
  <2> DEFINE S == {n \in 0 .. N : n # 0 => g[n] \in D}
  <2>1. 0 \in S
    BY <1>0
  <2>2. ASSUME NEW n \in 1 .. N, n - 1 \in S PROVE n \in S
    <3>1. CASE n = 1
      BY <1>0, <1>7, <3>1
    <3>2. CASE n # 1
      <4>1. n - 1 # 0 /\ g[n - 1] \in D
        BY <1>0, <2>2, <3>2
      <4>2. With(n, g[n - 1]) \in D
        BY <1>1, <4>1
      <4>3. g[n] = With(n, g[n - 1])
        <5>1. With(n, g[n - 1]) = g[n - 1] \o s[n]
          BY <1>a, <3>2
        <5>2. g[n] = g[n - 1] \o s[n]
          BY <1>7, <3>2
        <5>3. QED
          BY <5>1, <5>2
      <4>4. QED
        BY <1>0, <4>2, <4>3
    <3>3. QED
      BY <3>1, <3>2
  <2>3. \A n \in 0 .. N : n \in S
    <3> HIDE DEF S
    <3>1. QED
      BY <1>0, <2>1, <2>2, UpToN
  <2>4. QED
    BY <1>0, <2>3
<1>9. g \in [1 .. N -> D]
  BY <1>6, <1>8
<1>10. g[1] = s[1] /\ \A n \in 2 .. N : g[n] = g[n - 1] \o s[n]
  <2>1. 1 \in 1 .. N /\ \A n \in 2 .. N : n \in 1 .. N /\ n # 1
    BY <1>0
  <2>2. g[1] = s[1]
    BY <1>7, <2>1
  <2>3. ASSUME NEW n \in 2 .. N PROVE g[n] = g[n - 1] \o s[n]
    <3>1. n \in 1 .. N /\ n # 1
      BY <2>1
    <3>2. QED
      BY <1>7, <3>1
  <2>4. QED
    BY <2>2, <2>3
<1>11. FlattenSeq(s) = g[N]
  BY <1>6
<1> HIDE DEF Upto
<1>12. /\ g \in [1 .. Len(s) -> Seq(T)]
       /\ g[1] = s[1] /\ \A n \in 2 .. Len(s) : g[n] = g[n - 1] \o s[n]
       /\ FlattenSeq(s) = g[Len(s)]
  BY <1>9, <1>10, <1>11 DEF N, D
<1>13. QED
  BY <1>12

\* What a sequence of sequences is flattened to, piece by piece.
LEMMA FlattenLaid ==
  ASSUME NEW T, NEW s \in Seq(Seq(T))
  PROVE  FlattenSeq(s) \in Seq(T) /\ \E m : Laid(s, FlattenSeq(s), m)
<1>1. CASE Len(s) = 0
  <2>1. s = <<>> /\ FlattenSeq(s) = <<>>
    BY <1>1 DEF FlattenSeq
  <2>2. \E m : Laid(<<>>, <<>>, m)
    <3> DEFINE m == [n \in 1 .. 0 |-> n]
    <3>1. DOMAIN m = 1 .. 0 /\ Len(<<>>) = 0 /\ \A n \in 1 .. 0 : FALSE
      OBVIOUS
    <3> HIDE DEF m
    <3>2. Laid(<<>>, <<>>, m)
      BY <3>1 DEF Laid
    <3>3. QED
      BY <3>2
  <2>3. FlattenSeq(s) \in Seq(T)
    <3>1. <<>> \in Seq(T)
      OBVIOUS
    <3>2. QED
      BY <2>1, <3>1
  <2>4. QED
    BY <2>1, <2>2, <2>3
<1>2. CASE Len(s) # 0
  <2> DEFINE N == Len(s)
  <2>1. PICK g \in [1 .. N -> Seq(T)] :
          /\ g[1] = s[1] /\ \A n \in 2 .. N : g[n] = g[n - 1] \o s[n]
          /\ FlattenSeq(s) = g[N]
    BY <1>2, FlattenRecursion
  <2>2. N \in Nat \ {0} /\ \A i \in 1 .. N : s[i] \in Seq(T)
    BY <1>2, ElementsOfSeq
  <2> HIDE DEF N
  <2> DEFINE Upto(n, m) ==
               /\ DOMAIN m = 1 .. Len(g[n])
               /\ \A x \in 1 .. Len(g[n]) :
                    \E i \in 1 .. n : \E k \in 1 .. Len(s[i]) : m[x] = <<i, k>> /\ g[n][x] = s[i][k]
               /\ \A x, y \in 1 .. Len(g[n]) : m[x] = m[y] => x = y
               /\ \A i \in 1 .. n : \A k \in 1 .. Len(s[i]) : \E x \in 1 .. Len(g[n]) : m[x] = <<i, k>>
             S == {n \in 0 .. N : n # 0 => \E m : Upto(n, m)}
  <2>3. 0 \in S
    BY <2>2
  <2>4. ASSUME NEW n \in 1 .. N, n - 1 \in S PROVE n \in S
    <3>1. n \in 0 .. N /\ s[n] \in Seq(T) /\ g[n] \in Seq(T)
      BY <2>2
    <3>2. CASE n = 1
      <4> DEFINE m == [x \in 1 .. Len(s[1]) |-> <<1, x>>]
      <4>1. g[n] = s[1] /\ \A i \in 1 .. 1 : i = 1
        BY <2>1, <3>2
      <4>2. DOMAIN m = 1 .. Len(s[1]) /\ \A x \in 1 .. Len(s[1]) : m[x] = <<1, x>>
        OBVIOUS
      <4> HIDE DEF m
      <4>3. Upto(1, m)
        BY <3>2, <4>1, <4>2
      <4> HIDE DEF Upto
      <4>4. QED
        BY <3>1, <3>2, <4>3
    <3>3. CASE n # 1
      <4>1. n - 1 \in 1 .. N /\ n \in 2 .. N
        BY <2>2, <3>3
      <4>2. PICK m : Upto(n - 1, m)
        <5>1. n - 1 # 0
          BY <2>2, <4>1
        <5> HIDE DEF Upto
        <5>2. QED
          BY <2>4, <5>1
      <4>3. PICK a \in Seq(T) : a = g[n - 1]
        BY <4>1
      <4>4. PICK b \in Seq(T) : b = s[n]
        BY <3>1
      <4>5. PICK L \in Nat : L = Len(a)
        OBVIOUS
      <4>6. PICK M \in Nat : M = Len(b)
        OBVIOUS
      <4>7. /\ g[n] = a \o b /\ Len(g[n]) = L + M
            /\ \A x \in 1 .. L : g[n][x] = a[x]
            /\ \A x \in L + 1 .. L + M : g[n][x] = b[x - L]
        <5>1. g[n] = a \o b
          BY <2>1, <4>1, <4>3, <4>4
        <5>2. QED
          BY <4>5, <4>6, <5>1
      <4>8. /\ DOMAIN m = 1 .. L
            /\ \A x \in 1 .. L :
                 \E i \in 1 .. n - 1 : \E k \in 1 .. Len(s[i]) : m[x] = <<i, k>> /\ a[x] = s[i][k]
            /\ \A x, y \in 1 .. L : m[x] = m[y] => x = y
            /\ \A i \in 1 .. n - 1 : \A k \in 1 .. Len(s[i]) : \E x \in 1 .. L : m[x] = <<i, k>>
        BY <4>2, <4>3, <4>5
      <4> DEFINE w == [x \in 1 .. L + M |-> IF x <= L THEN m[x] ELSE <<n, x - L>>]
      <4>9. /\ DOMAIN w = 1 .. L + M
            /\ \A x \in 1 .. L : w[x] = m[x]
            /\ \A x \in L + 1 .. L + M : w[x] = <<n, x - L>>
        OBVIOUS
      <4> HIDE DEF w, Upto
      <4>a. /\ \A x \in 1 .. L + M :
                 x \in 1 .. L \/ (x \in L + 1 .. L + M /\ x - L \in 1 .. M)
            /\ \A x \in 1 .. L : x \in 1 .. L + M
            /\ \A k \in 1 .. M : k + L \in L + 1 .. L + M /\ (k + L) - L = k /\ k + L \in 1 .. L + M
        OBVIOUS
      <4>b. /\ \A i \in 1 .. n - 1 : i \in 1 .. n /\ i # n
            /\ \A i \in 1 .. n : i \in 1 .. n - 1 \/ i = n
            /\ n \in 1 .. n
        BY <2>2
      <4>10. ASSUME NEW x \in 1 .. L + M
             PROVE  \E i \in 1 .. n : \E k \in 1 .. Len(s[i]) : w[x] = <<i, k>> /\ g[n][x] = s[i][k]
        <5>1. CASE x \in 1 .. L
          <6>1. PICK i \in 1 .. n - 1 : \E k \in 1 .. Len(s[i]) : m[x] = <<i, k>> /\ a[x] = s[i][k]
            BY <4>8, <5>1
          <6>2. i \in 1 .. n /\ w[x] = m[x] /\ g[n][x] = a[x]
            BY <4>7, <4>9, <4>b, <5>1
          <6>3. QED
            BY <6>1, <6>2
        <5>2. CASE x \in L + 1 .. L + M /\ x - L \in 1 .. M
          <6>1. x - L \in 1 .. Len(s[n]) /\ w[x] = <<n, x - L>> /\ g[n][x] = s[n][x - L]
            BY <4>4, <4>6, <4>7, <4>9, <5>2
          <6>2. QED
            BY <4>b, <6>1
        <5>3. QED
          BY <4>a, <5>1, <5>2
      <4>11. ASSUME NEW x \in 1 .. L + M, NEW y \in 1 .. L + M, w[x] = w[y] PROVE x = y
        <5>1. ASSUME NEW z \in 1 .. L
              PROVE  w[z] = m[z] /\ \E i \in 1 .. n - 1 : \E k : w[z] = <<i, k>>
          <6>1. w[z] = m[z]
            BY <4>9
          <6>2. \E i \in 1 .. n - 1 : \E k \in 1 .. Len(s[i]) : m[z] = <<i, k>>
            BY <4>8
          <6>3. QED
            BY <6>1, <6>2
        <5>a. ASSUME NEW z \in 1 .. L, NEW k, w[z] = <<n, k>> PROVE FALSE
          <6>1. PICK i \in 1 .. n - 1 : \E l : w[z] = <<i, l>>
            BY <5>1
          <6>2. i # n
            BY <4>b
          <6>3. QED
            BY <5>a, <6>1, <6>2
        <5>2. CASE x \in 1 .. L /\ y \in 1 .. L
          BY <4>8, <4>11, <5>1, <5>2
        <5>3. CASE x \notin 1 .. L /\ y \notin 1 .. L
          <6>1. w[x] = <<n, x - L>> /\ w[y] = <<n, y - L>>
            BY <4>9, <4>a, <5>3
          <6>2. x - L = y - L
            <7> DEFINE p == x - L
                       q == y - L
            <7>1. <<n, p>> = <<n, q>>
              BY <4>11, <6>1
            <7> HIDE DEF p, q
            <7>2. p = q
              BY <7>1
            <7>3. QED
              BY <7>2 DEF p, q
          <6>3. x \in Int /\ y \in Int
            OBVIOUS
          <6>4. QED
            BY <6>2, <6>3
        <5>4. CASE x \in 1 .. L /\ y \notin 1 .. L
          <6>1. w[y] = <<n, y - L>>
            BY <4>9, <4>a, <5>4
          <6>2. QED
            BY <4>11, <5>4, <5>a, <6>1
        <5>5. CASE x \notin 1 .. L /\ y \in 1 .. L
          <6>1. w[x] = <<n, x - L>>
            BY <4>9, <4>a, <5>5
          <6>2. QED
            BY <4>11, <5>5, <5>a, <6>1
        <5>6. QED
          BY <5>2, <5>3, <5>4, <5>5
      <4>12. ASSUME NEW i \in 1 .. n, NEW k \in 1 .. Len(s[i])
             PROVE  \E x \in 1 .. L + M : w[x] = <<i, k>>
        <5>1. CASE i \in 1 .. n - 1
          <6>1. PICK x \in 1 .. L : m[x] = <<i, k>>
            BY <4>8, <5>1
          <6>2. x \in 1 .. L + M /\ w[x] = m[x]
            BY <4>9, <4>a
          <6>3. QED
            BY <6>1, <6>2
        <5>2. CASE i = n
          <6>1. k \in 1 .. M
            BY <4>4, <4>6, <5>2
          <6>2. k + L \in L + 1 .. L + M /\ (k + L) - L = k /\ k + L \in 1 .. L + M
            BY <4>a, <6>1
          <6>3. w[k + L] = <<n, k>>
            BY <4>9, <6>2
          <6>4. QED
            BY <5>2, <6>2, <6>3
        <5>3. QED
          BY <4>b, <5>1, <5>2
      <4>13. Upto(n, w)
        BY <4>7, <4>9, <4>10, <4>11, <4>12 DEF Upto
      <4>14. QED
        BY <3>1, <4>13
    <3>4. QED
      BY <3>2, <3>3
  <2>5. \A n \in 0 .. N : n \in S
    <3> HIDE DEF S
    <3>1. QED
      BY <2>2, <2>3, <2>4, UpToN
  <2>6. PICK m : Upto(N, m)
    <3>1. N \in 0 .. N /\ N # 0
      BY <2>2
    <3> HIDE DEF Upto
    <3>2. QED
      BY <2>5, <3>1
  <2>7. Laid(s, FlattenSeq(s), m)
    <3>1. FlattenSeq(s) = g[N] /\ Len(s) = N
      BY <2>1 DEF N
    <3>2. PICK q : q = g[N]
      OBVIOUS
    <3>3. Laid(s, q, m)
      BY <2>6, <3>1, <3>2 DEF Laid
    <3>4. QED
      BY <3>1, <3>2, <3>3
  <2>8. g[N] \in Seq(T)
    BY <2>2
  <2>9. QED
    BY <2>1, <2>7, <2>8
<1>3. QED
  BY <1>1, <1>2

\* The items of the work that is left, and the directives, with files of F.
WorkItems(F) == [what : {"load", "shape", "no_match"}, file : F \cup {Nobody}]

ListedFiles(F) == [in : {"mapping", "sequence"}, files : Seq(F)]

\* A directive that merges mappings.
Merges(d) == d.in = "mapping" /\ Len(d.files) > 1

\* An item of the list q of work is of this kind and, as w says, for this place.
Awaits(q, w, what, i) == \E n \in 1 .. Len(q) : q[n].what = what /\ w[n] = i

\* The list q is the work of directive d, w the places of the files.
WorkOf(d, q, w) ==
  /\ DOMAIN w = 1 .. Len(q)
  /\ \A n \in 1 .. Len(q) :
       /\ q[n].what \in {"load", "shape"} => w[n] \in DOMAIN d.files /\ q[n].file = d.files[w[n]]
       /\ q[n].what = "shape" => Merges(d)
       /\ q[n].what = "no_match" => d.files = <<>> /\ w[n] = 0
  /\ \A n, l \in 1 .. Len(q) : q[n].what = "load" /\ q[l].what = "load" /\ w[n] = w[l] => n = l
  /\ \A k \in DOMAIN d.files : /\ Awaits(q, w, "load", k)
                               /\ Merges(d) => Awaits(q, w, "shape", k)
  /\ d.files = <<>> => \E n \in 1 .. Len(q) : q[n].what = "no_match"

\* Todo.
LEMMA TodoIs ==
  ASSUME NEW F, NEW what \in {"load", "shape", "no_match"}, NEW f \in F \cup {Nobody}
  PROVE  Todo(what, f) \in WorkItems(F) /\ Todo(what, f).what = what /\ Todo(what, f).file = f
BY DEF Todo, WorkItems

\* DirectiveWork.
LEMMA DirectiveIs ==
  ASSUME NEW F, NEW d \in ListedFiles(F)
  PROVE  DirectiveWork(d) \in Seq(WorkItems(F)) /\ \E w : WorkOf(d, DirectiveWork(d), w)
<1> DEFINE I == WorkItems(F)
           q == DirectiveWork(d)
<1>1. PICK fs \in Seq(F) : fs = d.files
  BY DEF ListedFiles
<1>2. /\ DOMAIN fs = 1 .. Len(fs) /\ Len(fs) \in Nat
      /\ \A k \in 1 .. Len(fs) : fs[k] \in F \cup {Nobody}
  OBVIOUS
<1>3. \A what \in {"load", "shape", "no_match"} : \A f \in F \cup {Nobody} :
        Todo(what, f) \in I /\ Todo(what, f).what = what /\ Todo(what, f).file = f
  BY TodoIs
<1> HIDE DEF I
<1>4. CASE fs = <<>>
  <2>1. q = <<Todo("no_match", Nobody)>>
    BY <1>1, <1>4 DEF DirectiveWork
  <2>2. Todo("no_match", Nobody) \in I /\ Todo("no_match", Nobody).what = "no_match"
    BY <1>3
  <2> DEFINE w == [n \in 1 .. 1 |-> 0]
  <2>3. /\ q \in Seq(I) /\ Len(q) = 1 /\ q[1].what = "no_match" /\ \A n \in 1 .. Len(q) : n = 1
        /\ DOMAIN w = 1 .. 1 /\ w[1] = 0
    BY <2>1, <2>2
  <2> HIDE DEF q, w
  <2>4. d.files = <<>> /\ DOMAIN d.files = {} /\ ~Merges(d)
    BY <1>1, <1>4 DEF Merges
  <2>5. WorkOf(d, q, w)
    BY <2>3, <2>4 DEF WorkOf
  <2>6. QED
    BY <2>3, <2>5 DEF q, I
<1>5. CASE fs # <<>> /\ ~Merges(d)
  <2>1. q = [i \in 1 .. Len(fs) |-> Todo("load", fs[i])]
    BY <1>1, <1>2, <1>5 DEF DirectiveWork, Merges
  <2> DEFINE w == [n \in 1 .. Len(fs) |-> n]
  <2>2. \A i \in 1 .. Len(fs) : /\ Todo("load", fs[i]) \in I /\ Todo("load", fs[i]).what = "load"
                                /\ Todo("load", fs[i]).file = fs[i]
    BY <1>2, <1>3
  <2>3. /\ q \in Seq(I) /\ Len(q) = Len(fs) /\ DOMAIN w = 1 .. Len(fs)
        /\ \A n \in 1 .. Len(fs) : q[n] = Todo("load", fs[n]) /\ w[n] = n
    <3>1. q \in [1 .. Len(fs) -> I] /\ \A n \in 1 .. Len(fs) : q[n] = Todo("load", fs[n])
      BY <2>1, <2>2
    <3> HIDE DEF q
    <3>2. q \in Seq(I) /\ Len(q) = Len(fs)
      BY <1>2, <3>1
    <3>3. QED
      BY <3>1, <3>2
  <2> HIDE DEF q, w
  <2>4. \A n \in 1 .. Len(q) : q[n].what = "load" /\ q[n].file = fs[n] /\ w[n] = n
    BY <2>2, <2>3
  <2>5. d.files = fs /\ d.files # <<>>
    BY <1>1, <1>5
  <2>6. WorkOf(d, q, w)
    BY <1>2, <1>5, <2>3, <2>4, <2>5 DEF WorkOf, Awaits
  <2>7. QED
    BY <2>3, <2>6 DEF q, I
<1>6. CASE Merges(d)
  <2> DEFINE s == [i \in 1 .. Len(fs) |-> <<Todo("load", fs[i]), Todo("shape", fs[i])>>]
  <2>1. fs # <<>> /\ d.files = fs
    BY <1>1, <1>6 DEF Merges
  <2>2. q = FlattenSeq(s)
    BY <1>1, <1>2, <1>6, <2>1 DEF DirectiveWork, Merges
  <2>3. \A i \in 1 .. Len(fs) :
          /\ Todo("load", fs[i]) \in I /\ Todo("load", fs[i]).what = "load"
          /\ Todo("load", fs[i]).file = fs[i]
          /\ Todo("shape", fs[i]) \in I /\ Todo("shape", fs[i]).what = "shape"
          /\ Todo("shape", fs[i]).file = fs[i]
    BY <1>2, <1>3
  <2>4. /\ s \in Seq(Seq(I)) /\ Len(s) = Len(fs)
        /\ \A i \in 1 .. Len(fs) :
             /\ Len(s[i]) = 2 /\ s[i][1].what = "load" /\ s[i][2].what = "shape"
             /\ s[i][1].file = fs[i] /\ s[i][2].file = fs[i]
    <3>1. ASSUME NEW i \in 1 .. Len(fs)
          PROVE  /\ s[i] \in Seq(I) /\ Len(s[i]) = 2
                 /\ s[i][1].what = "load" /\ s[i][2].what = "shape"
                 /\ s[i][1].file = fs[i] /\ s[i][2].file = fs[i]
      <4>1. s[i] = <<Todo("load", fs[i]), Todo("shape", fs[i])>>
        OBVIOUS
      <4>2. \A a, b \in I : <<a, b>> \in Seq(I) /\ Len(<<a, b>>) = 2
        OBVIOUS
      <4> HIDE DEF s
      <4>3. s[i] \in Seq(I) /\ Len(s[i]) = 2
        BY <2>3, <4>1, <4>2
      <4>4. s[i][1] = Todo("load", fs[i]) /\ s[i][2] = Todo("shape", fs[i])
        BY <4>1
      <4>5. QED
        BY <2>3, <4>3, <4>4
    <3>2. DOMAIN s = 1 .. Len(fs)
      OBVIOUS
    <3> DEFINE Q == Seq(I)
    <3>3. s \in [1 .. Len(fs) -> Q]
      BY <3>1
    <3> HIDE DEF s, Q
    <3>4. s \in Seq(Q) /\ Len(s) = Len(fs)
      BY <1>2, <3>3
    <3>5. QED
      BY <3>1, <3>4 DEF Q
  <2> HIDE DEF s
  <2>5. q \in Seq(I) /\ \E m : Laid(s, q, m)
    BY <2>2, <2>4, FlattenLaid
  <2> HIDE DEF q
  <2>6. PICK m : Laid(s, q, m)
    BY <2>5
  <2> DEFINE w == [n \in 1 .. Len(q) |-> m[n][1]]
  <2>7. ASSUME NEW n \in 1 .. Len(q)
        PROVE  /\ w[n] \in 1 .. Len(fs) /\ q[n].file = fs[w[n]]
               /\ \/ q[n].what = "load" /\ m[n] = <<w[n], 1>>
                  \/ q[n].what = "shape" /\ m[n] = <<w[n], 2>>
    <3>1. PICK i \in 1 .. Len(s) : \E k \in 1 .. Len(s[i]) : m[n] = <<i, k>> /\ q[n] = s[i][k]
      BY <2>6 DEF Laid
    <3>2. PICK k \in 1 .. Len(s[i]) : m[n] = <<i, k>> /\ q[n] = s[i][k]
      BY <3>1
    <3>a. i \in 1 .. Len(fs)
      BY <2>4
    <3>b. k \in 1 .. 2
      BY <2>4, <3>a
    <3>3. i \in 1 .. Len(fs) /\ (k = 1 \/ k = 2)
      BY <3>a, <3>b
    <3>4. w[n] = i
      BY <3>2
    <3> HIDE DEF w
    <3>5. CASE k = 1
      BY <2>4, <3>2, <3>3, <3>4, <3>5
    <3>6. CASE k = 2
      BY <2>4, <3>2, <3>3, <3>4, <3>6
    <3>7. QED
      BY <3>3, <3>5, <3>6
  <2>8. ASSUME NEW i \in 1 .. Len(fs), NEW k \in 1 .. 2
        PROVE  \E n \in 1 .. Len(q) : m[n] = <<i, k>> /\ w[n] = i
    <3>1. i \in 1 .. Len(s) /\ k \in 1 .. Len(s[i])
      BY <2>4
    <3>2. PICK n \in 1 .. Len(q) : m[n] = <<i, k>>
      BY <2>6, <3>1 DEF Laid
    <3>3. w[n] = i
      BY <3>2
    <3>4. QED
      BY <3>2, <3>3
  <2>9. DOMAIN w = 1 .. Len(q)
    OBVIOUS
  <2> HIDE DEF w
  <2>10. ASSUME NEW n \in 1 .. Len(q), NEW l \in 1 .. Len(q),
                q[n].what = "load", q[l].what = "load", w[n] = w[l]
         PROVE  n = l
    <3>1. m[n] = <<w[n], 1>> /\ m[l] = <<w[l], 1>>
      <4>1. "load" # "shape"
        OBVIOUS
      <4>2. QED
        BY <2>7, <2>10, <4>1
    <3>2. m[n] = m[l]
      BY <2>10, <3>1
    <3>3. QED
      BY <2>6, <3>2 DEF Laid
  <2>11. ASSUME NEW k \in 1 .. Len(fs)
         PROVE  Awaits(q, w, "load", k) /\ Awaits(q, w, "shape", k)
    <3>a. 1 \in 1 .. 2 /\ 2 \in 1 .. 2
      OBVIOUS
    <3>1. PICK n \in 1 .. Len(q) : m[n] = <<k, 1>> /\ w[n] = k
      BY <2>8, <3>a
    <3>2. PICK l \in 1 .. Len(q) : m[l] = <<k, 2>> /\ w[l] = k
      BY <2>8, <3>a
    <3>3. q[n].what = "load" /\ q[l].what = "shape"
      BY <2>7, <3>1, <3>2
    <3>4. QED
      BY <3>1, <3>2, <3>3 DEF Awaits
  <2>12. WorkOf(d, q, w)
    BY <1>2, <1>6, <2>1, <2>7, <2>9, <2>10, <2>11 DEF WorkOf
  <2>13. QED
    BY <2>5, <2>12 DEF q, I
<1>7. QED
  BY <1>4, <1>5, <1>6

\* Inclusions, Included, ReachedFiles and the condition of IncludesRefused, of
\* the input in.
InclusionsOf(in, S) ==
  UNION {UNION {{<<f, d, k>> : k \in DOMAIN in.files[f].includes[d].files} :
                  d \in DOMAIN in.files[f].includes} : f \in S}

DirectiveAt(in, i) == in.files[i[1]].includes[i[2]]

FileAt(in, i) == in.files[i[1]].includes[i[2]].files[i[3]]

\* The item t of the work is for place i of a file of V.
ItemOf(in, V, t, i) ==
  /\ i[1] \in V /\ i[2] \in DOMAIN in.files[i[1]].includes
  /\ t.what \in {"load", "shape"} => i \in InclusionsOf(in, V) /\ t.file = FileAt(in, i)
  /\ t.what = "shape" => Merges(DirectiveAt(in, i))
  /\ t.what = "no_match" => DirectiveAt(in, i).files = <<>>

\* The list q is what is left of the work of the files of V, and w says for
\* which places.
WorkLeft(in, V, q, w) ==
  /\ DOMAIN w = 1 .. Len(q)
  /\ \A n \in 1 .. Len(q) : ItemOf(in, V, q[n], w[n])
  /\ \A n, l \in 1 .. Len(q) : q[n].what = "load" /\ q[l].what = "load" /\ w[n] = w[l] => n = l
  /\ \A i \in InclusionsOf(in, V) :
       Merges(DirectiveAt(in, i)) =>
         Awaits(q, w, "shape", i) \/ in.files[FileAt(in, i)].yields = "mapping"
  /\ \A f \in V : \A d \in DOMAIN in.files[f].includes :
       in.files[f].includes[d].files = <<>> => \E n \in 1 .. Len(q) : q[n].what = "no_match"

\* The members of InclusionsOf.
LEMMA PlaceIs ==
  ASSUME NEW in, NEW S
  PROVE  /\ \A i \in InclusionsOf(in, S) :
              \E f \in S : \E d \in DOMAIN in.files[f].includes :
                \E k \in DOMAIN in.files[f].includes[d].files : i = <<f, d, k>>
         /\ \A f \in S : \A d \in DOMAIN in.files[f].includes :
              \A k \in DOMAIN in.files[f].includes[d].files : <<f, d, k>> \in InclusionsOf(in, S)
BY DEF InclusionsOf

\* FileWork: each place of the file to load, and in a mapping of several to look
\* at; an item for each pattern without a match.
LEMMA FileIs ==
  ASSUME NEW F, NEW f, input.files[f].includes \in Seq(ListedFiles(F))
  PROVE  /\ FileWork(f) \in Seq(WorkItems(F))
         /\ \E w : /\ WorkLeft(input, {f}, FileWork(f), w)
                   /\ \A i \in InclusionsOf(input, {f}) : Awaits(FileWork(f), w, "load", i)
<1>0. PICK in : in = input
  OBVIOUS
<1> DEFINE I == WorkItems(F)
           ds == in.files[f].includes
           q == FileWork(f)
           s == [i \in DOMAIN ds |-> DirectiveWork(ds[i])]
<1>1. /\ ds \in Seq(ListedFiles(F)) /\ Len(ds) \in Nat /\ DOMAIN ds = 1 .. Len(ds)
      /\ \A d \in 1 .. Len(ds) : ds[d] \in ListedFiles(F)
  <2>1. ds \in Seq(ListedFiles(F))
    BY <1>0
  <2> HIDE DEF ds
  <2>2. QED
    BY <2>1
<1>2. q = FlattenSeq(s)
  BY <1>0 DEF FileWork
<1> HIDE DEF ds
<1>3. \A d \in 1 .. Len(ds) : s[d] = DirectiveWork(ds[d]) /\ s[d] \in Seq(I)
  BY <1>1, DirectiveIs
<1>4. s \in Seq(Seq(I)) /\ Len(s) = Len(ds)
  <2> DEFINE Q == Seq(I)
  <2>1. s \in [1 .. Len(ds) -> Q]
    BY <1>1, <1>3
  <2> HIDE DEF s, Q
  <2>2. s \in Seq(Q) /\ Len(s) = Len(ds)
    BY <1>1, <2>1
  <2>3. QED
    BY <2>2 DEF Q
<1> HIDE DEF s, I
<1>5. q \in Seq(I) /\ \E m : Laid(s, q, m)
  BY <1>2, <1>4, FlattenLaid
<1> HIDE DEF q
<1>6. PICK m : Laid(s, q, m)
  BY <1>5
<1> DEFINE X(d) == CHOOSE x : WorkOf(ds[d], s[d], x)
<1>7. \A d \in 1 .. Len(ds) : WorkOf(ds[d], s[d], X(d))
  <2> SUFFICES ASSUME NEW d \in 1 .. Len(ds) PROVE WorkOf(ds[d], s[d], X(d))
    OBVIOUS
  <2>1. \E x : WorkOf(ds[d], s[d], x)
    BY <1>1, <1>3, DirectiveIs
  <2>2. QED
    BY <2>1
<1> HIDE DEF X
<1> DEFINE w == [n \in 1 .. Len(q) |-> <<f, m[n][1], X(m[n][1])[m[n][2]]>>]
<1>8. ASSUME NEW n \in 1 .. Len(q)
      PROVE  \E d \in 1 .. Len(ds), k \in Nat :
               /\ k \in 1 .. Len(s[d])
               /\ m[n] = <<d, k>> /\ q[n] = s[d][k] /\ w[n] = <<f, d, X(d)[k]>>
  <2>1. PICK d \in 1 .. Len(s) : \E k \in 1 .. Len(s[d]) : m[n] = <<d, k>> /\ q[n] = s[d][k]
    BY <1>6 DEF Laid
  <2>2. PICK k \in 1 .. Len(s[d]) : m[n] = <<d, k>> /\ q[n] = s[d][k]
    BY <2>1
  <2>3. w[n] = <<f, d, X(d)[k]>>
    BY <2>2
  <2>4. QED
    BY <1>4, <2>2, <2>3
<1>9. ASSUME NEW d \in 1 .. Len(ds), NEW k \in 1 .. Len(s[d])
      PROVE  \E n \in 1 .. Len(q) : q[n] = s[d][k] /\ w[n] = <<f, d, X(d)[k]>>
  <2>1. PICK n \in 1 .. Len(q) : m[n] = <<d, k>>
    BY <1>4, <1>6 DEF Laid
  <2>2. PICK e \in 1 .. Len(ds), l \in Nat :
          l \in 1 .. Len(s[e]) /\ m[n] = <<e, l>> /\ q[n] = s[e][l] /\ w[n] = <<f, e, X(e)[l]>>
    BY <1>8
  <2>3. e = d /\ l = k
    BY <2>1, <2>2
  <2>4. QED
    BY <2>2, <2>3
<1>10. DOMAIN w = 1 .. Len(q)
  OBVIOUS
<1> HIDE DEF w
<1>11. ASSUME NEW n \in 1 .. Len(q) PROVE ItemOf(in, {f}, q[n], w[n])
  <2>1. PICK d \in 1 .. Len(ds), k \in Nat :
          k \in 1 .. Len(s[d]) /\ m[n] = <<d, k>> /\ q[n] = s[d][k] /\ w[n] = <<f, d, X(d)[k]>>
    BY <1>8
  <2>2. /\ q[n].what \in {"load", "shape"} =>
             X(d)[k] \in DOMAIN ds[d].files /\ q[n].file = ds[d].files[X(d)[k]]
        /\ q[n].what = "shape" => Merges(ds[d])
        /\ q[n].what = "no_match" => ds[d].files = <<>>
    <3>1. WorkOf(ds[d], s[d], X(d)) /\ k \in 1 .. Len(s[d])
      BY <1>7, <2>1
    <3>2. PICK t : t = s[d][k]
      OBVIOUS
    <3>3. /\ t.what \in {"load", "shape"} =>
               X(d)[k] \in DOMAIN ds[d].files /\ t.file = ds[d].files[X(d)[k]]
          /\ t.what = "shape" => Merges(ds[d])
          /\ t.what = "no_match" => ds[d].files = <<>>
      BY <3>1, <3>2 DEF WorkOf
    <3>4. q[n] = t
      BY <2>1, <3>2
    <3>5. QED
      BY <3>3, <3>4
  <2>3. w[n][1] = f /\ w[n][2] = d /\ w[n][3] = X(d)[k] /\ d \in DOMAIN ds
    BY <1>1, <2>1
  <2>4. DirectiveAt(in, w[n]) = ds[d] /\ FileAt(in, w[n]) = ds[d].files[X(d)[k]]
    BY <2>3 DEF DirectiveAt, FileAt, ds
  <2>5. q[n].what \in {"load", "shape"} => w[n] \in InclusionsOf(in, {f})
    <3>1. f \in {f} /\ d \in DOMAIN in.files[f].includes
      BY <2>3 DEF ds
    <3>2. q[n].what \in {"load", "shape"} => X(d)[k] \in DOMAIN in.files[f].includes[d].files
      BY <2>2 DEF ds
    <3>3. QED
      BY <2>1, <3>1, <3>2, PlaceIs
  <2>6. w[n][1] \in {f} /\ w[n][2] \in DOMAIN in.files[w[n][1]].includes
    BY <2>3 DEF ds
  <2>7. QED
    BY <2>2, <2>4, <2>5, <2>6 DEF ItemOf
<1>12. ASSUME NEW n \in 1 .. Len(q), NEW l \in 1 .. Len(q),
              q[n].what = "load", q[l].what = "load", w[n] = w[l]
       PROVE  n = l
  <2>1. PICK d \in 1 .. Len(ds), k \in Nat :
          k \in 1 .. Len(s[d]) /\ m[n] = <<d, k>> /\ q[n] = s[d][k] /\ w[n] = <<f, d, X(d)[k]>>
    BY <1>8
  <2>2. PICK e \in 1 .. Len(ds), j \in Nat :
          j \in 1 .. Len(s[e]) /\ m[l] = <<e, j>> /\ q[l] = s[e][j] /\ w[l] = <<f, e, X(e)[j]>>
    BY <1>8
  <2>3. d = e /\ X(d)[k] = X(e)[j]
    <3>1. <<f, d, X(d)[k]>> = <<f, e, X(e)[j]>>
      BY <1>12, <2>1, <2>2
    <3>2. \A a, b, x, y : <<f, a, x>> = <<f, b, y>> => a = b /\ x = y
      OBVIOUS
    <3>3. QED
      BY <3>1, <3>2
  <2>4. k = j
    <3>1. WorkOf(ds[d], s[d], X(d)) /\ k \in 1 .. Len(s[d]) /\ j \in 1 .. Len(s[d])
      BY <1>7, <2>1, <2>2, <2>3
    <3>2. s[d][k].what = "load" /\ s[d][j].what = "load"
      BY <1>12, <2>1, <2>2, <2>3
    <3>3. QED
      BY <2>3, <3>1, <3>2 DEF WorkOf
  <2>5. m[n] = m[l]
    BY <2>1, <2>2, <2>3, <2>4
  <2>6. QED
    BY <1>6, <2>5 DEF Laid
<1>13. ASSUME NEW i \in InclusionsOf(in, {f})
       PROVE  Awaits(q, w, "load", i) /\ (Merges(DirectiveAt(in, i)) => Awaits(q, w, "shape", i))
  <2>1. PICK d \in 1 .. Len(ds) : \E k \in DOMAIN ds[d].files : i = <<f, d, k>>
    BY <1>1, PlaceIs DEF ds
  <2>2. PICK k \in DOMAIN ds[d].files : i = <<f, d, k>>
    BY <2>1
  <2>3. DirectiveAt(in, i) = ds[d]
    BY <2>2 DEF DirectiveAt, ds
  <2>4. ASSUME NEW what, Awaits(s[d], X(d), what, k) PROVE Awaits(q, w, what, i)
    <3>1. PICK l \in 1 .. Len(s[d]) : s[d][l].what = what /\ X(d)[l] = k
      BY <2>4 DEF Awaits
    <3>2. PICK n \in 1 .. Len(q) : q[n] = s[d][l] /\ w[n] = <<f, d, X(d)[l]>>
      BY <1>9
    <3>3. q[n].what = what /\ w[n] = i
      BY <2>2, <3>1, <3>2
    <3>4. QED
      BY <3>3 DEF Awaits
  <2>5. Awaits(s[d], X(d), "load", k) /\ (Merges(ds[d]) => Awaits(s[d], X(d), "shape", k))
    BY <1>7, <2>2 DEF WorkOf
  <2>6. QED
    BY <2>3, <2>4, <2>5
<1>14. ASSUME NEW d \in DOMAIN ds, ds[d].files = <<>>
       PROVE  \E n \in 1 .. Len(q) : q[n].what = "no_match"
  <2>1. PICK k \in 1 .. Len(s[d]) : s[d][k].what = "no_match"
    BY <1>1, <1>7, <1>14 DEF WorkOf
  <2>2. PICK n \in 1 .. Len(q) : q[n] = s[d][k] /\ w[n] = <<f, d, X(d)[k]>>
    BY <1>1, <1>9
  <2>3. QED
    BY <2>1, <2>2
<1>15. WorkLeft(in, {f}, q, w)
  <2>1. \A g \in {f} : \A d \in DOMAIN in.files[g].includes :
          in.files[g].includes[d].files = <<>> => \E n \in 1 .. Len(q) : q[n].what = "no_match"
    BY <1>14 DEF ds
  <2>2. QED
    BY <1>10, <1>11, <1>12, <1>13, <2>1 DEF WorkLeft
<1>16. QED
  BY <1>0, <1>5, <1>13, <1>15 DEF q, I

\* The files of V are read and of W are asked for, and q is what is left, as w
\* says: what is included and no longer waits was asked for, once, and nothing
\* else but the root.
Account(in, V, W, q, w) ==
  /\ q \in Seq(WorkItems(DOMAIN in.files))
  /\ WorkLeft(in, V, q, w)
  /\ \A i \in InclusionsOf(in, V) :
       Awaits(q, w, "load", i) \/ FileAt(in, i) \in W \ {in.root}
  /\ \A i, j \in InclusionsOf(in, V) :
       /\ ~Awaits(q, w, "load", i) /\ ~Awaits(q, w, "load", j)
       /\ FileAt(in, i) = FileAt(in, j)
       => i = j
  /\ \A v \in W \ {in.root} :
       \E i \in InclusionsOf(in, V) : ~Awaits(q, w, "load", i) /\ FileAt(in, i) = v

\* A list without its first item, with the places.
LEMMA RestOf ==
  ASSUME NEW T, NEW q \in Seq(T), NEW w, DOMAIN w = 1 .. Len(q), q # <<>>
  PROVE  /\ Tail(q) \in Seq(T) /\ Head(q) = q[1] /\ 1 \in 1 .. Len(q)
         /\ \E x :
              /\ DOMAIN x = 1 .. Len(Tail(q))
              /\ \A n \in 1 .. Len(Tail(q)) :
                   n + 1 \in 1 .. Len(q) /\ n + 1 # 1 /\ Tail(q)[n] = q[n + 1] /\ x[n] = w[n + 1]
              /\ \A n \in 1 .. Len(q) :
                   n # 1 => n - 1 \in 1 .. Len(Tail(q)) /\ Tail(q)[n - 1] = q[n] /\ x[n - 1] = w[n]
<1> DEFINE x == [n \in 1 .. Len(Tail(q)) |-> w[n + 1]]
<1>1. PICK L \in Nat \ {0} : L = Len(q)
  <2>1. Len(q) \in Nat
    OBVIOUS
  <2>2. Len(q) # 0
    OBVIOUS
  <2> HIDE DEF x
  <2>3. QED
    BY <2>1, <2>2
<1>2. PICK r \in Seq(T) : r = Tail(q)
  BY HeadTailProperties
<1>3. Len(r) = L - 1 /\ (\A n \in 1 .. L - 1 : r[n] = q[n + 1]) /\ Head(q) = q[1]
  BY <1>1, <1>2
<1>4. DOMAIN x = 1 .. L - 1 /\ \A n \in 1 .. L - 1 : x[n] = w[n + 1]
  BY <1>2, <1>3
<1> HIDE DEF x
<1>5. \A n \in 1 .. L - 1 : n + 1 \in 1 .. L /\ n + 1 # 1
  OBVIOUS
<1>6. \A n \in 1 .. L : n # 1 => n - 1 \in 1 .. L - 1 /\ (n - 1) + 1 = n
  OBVIOUS
<1>7. \A n \in 1 .. L : n # 1 => r[n - 1] = q[n] /\ x[n - 1] = w[n]
  <2> SUFFICES ASSUME NEW n \in 1 .. L, n # 1 PROVE r[n - 1] = q[n] /\ x[n - 1] = w[n]
    OBVIOUS
  <2>1. PICK k \in 1 .. L - 1 : k = n - 1 /\ k + 1 = n
    BY <1>6
  <2>2. r[k] = q[k + 1] /\ x[k] = w[k + 1]
    BY <1>3, <1>4
  <2>3. QED
    BY <2>1, <2>2
<1>8. 1 \in 1 .. L
  OBVIOUS
<1>9. QED
  BY <1>1, <1>2, <1>3, <1>4, <1>5, <1>6, <1>7, <1>8

\* The list r, with the places x, is p and then q.
Concatenated(p, a, q, b, r, x) ==
  /\ DOMAIN x = 1 .. Len(r)
  /\ \A n \in 1 .. Len(p) : n \in 1 .. Len(r) /\ r[n] = p[n] /\ x[n] = a[n]
  /\ \A n \in 1 .. Len(q) : \E l \in 1 .. Len(r) : r[l] = q[n] /\ x[l] = b[n]
  /\ \A l \in 1 .. Len(r) :
       \/ l \in 1 .. Len(p) /\ r[l] = p[l] /\ x[l] = a[l]
       \/ \E n \in 1 .. Len(q) : l = Len(p) + n /\ r[l] = q[n] /\ x[l] = b[n]

LEMMA BothOf ==
  ASSUME NEW T, NEW p \in Seq(T), NEW q \in Seq(T), NEW a, NEW b,
         DOMAIN a = 1 .. Len(p), DOMAIN b = 1 .. Len(q)
  PROVE  p \o q \in Seq(T) /\ \E x : Concatenated(p, a, q, b, p \o q, x)
<1> DEFINE x == [n \in 1 .. Len(p \o q) |-> IF n <= Len(p) THEN a[n] ELSE b[n - Len(p)]]
<1>0. Len(p) \in Nat /\ Len(q) \in Nat /\ p \o q \in Seq(T)
  OBVIOUS
<1>1. PICK L \in Nat : L = Len(p)
  BY <1>0
<1>2. PICK M \in Nat : M = Len(q)
  BY <1>0
<1>3. PICK r \in Seq(T) : r = p \o q
  BY <1>0
<1>4. Len(r) = L + M /\ (\A n \in 1 .. L : r[n] = p[n])
  BY <1>1, <1>2, <1>3
<1>5. \A n \in L + 1 .. L + M : r[n] = q[n - L]
  BY <1>1, <1>2, <1>3
<1>6. DOMAIN x = 1 .. L + M /\ \A n \in 1 .. L + M : x[n] = IF n <= L THEN a[n] ELSE b[n - L]
  BY <1>1, <1>3, <1>4
<1> HIDE DEF x
<1>7. \A n \in 1 .. L : n \in 1 .. L + M /\ n <= L
  OBVIOUS
<1>8. \A n \in 1 .. M : L + n \in 1 .. L + M /\ L + n \in L + 1 .. L + M /\ ~(L + n <= L) /\ (L + n) - L = n
  OBVIOUS
<1>9. \A l \in 1 .. L + M : l \in 1 .. L \/ \E n \in 1 .. M : l = L + n
  <2> SUFFICES ASSUME NEW l \in 1 .. L + M, l \notin 1 .. L PROVE \E n \in 1 .. M : l = L + n
    OBVIOUS
  <2>1. l - L \in 1 .. M /\ l = L + (l - L)
    OBVIOUS
  <2>2. QED
    BY <2>1
<1>10. \A n \in 1 .. L : x[n] = a[n]
  BY <1>6, <1>7
<1>11. \A n \in 1 .. M : r[L + n] = q[n] /\ x[L + n] = b[n]
  <2> SUFFICES ASSUME NEW n \in 1 .. M PROVE r[L + n] = q[n] /\ x[L + n] = b[n]
    OBVIOUS
  <2>1. PICK l \in L + 1 .. L + M : l = L + n /\ l - L = n /\ l \in 1 .. L + M /\ ~(l <= L)
    BY <1>8
  <2>2. r[l] = q[l - L] /\ x[l] = b[l - L]
    BY <1>5, <1>6, <2>1
  <2>3. QED
    BY <2>1, <2>2
<1>12. \A n \in 1 .. M : \E l \in 1 .. L + M : r[l] = q[n] /\ x[l] = b[n]
  BY <1>8, <1>11
<1>13. \A l \in 1 .. L + M :
         \/ l \in 1 .. L /\ r[l] = p[l] /\ x[l] = a[l]
         \/ \E n \in 1 .. M : l = L + n /\ r[l] = q[n] /\ x[l] = b[n]
  <2> SUFFICES ASSUME NEW l \in 1 .. L + M
               PROVE  \/ l \in 1 .. L /\ r[l] = p[l] /\ x[l] = a[l]
                      \/ \E n \in 1 .. M : l = L + n /\ r[l] = q[n] /\ x[l] = b[n]
    OBVIOUS
  <2>1. CASE l \in 1 .. L
    BY <1>4, <1>10, <2>1
  <2>2. ASSUME NEW n \in 1 .. M, l = L + n
        PROVE  \E k \in 1 .. M : l = L + k /\ r[l] = q[k] /\ x[l] = b[k]
    BY <1>11, <2>2
  <2>3. QED
    BY <1>9, <2>1, <2>2
<1>14. /\ \A n \in 1 .. L : n \in 1 .. L + M /\ r[n] = p[n] /\ x[n] = a[n]
  BY <1>4, <1>7, <1>10
<1>15. Concatenated(p, a, q, b, r, x)
  BY <1>1, <1>2, <1>4, <1>6, <1>12, <1>13, <1>14 DEF Concatenated
<1>16. QED
  BY <1>0, <1>3, <1>15

\* The list r, with the places x, is what is left without the first item of q.
Remains(in, V, q, w, r, x) ==
  /\ WorkLeft(in, V, r, x)
  /\ \A what, i : Awaits(r, x, what, i) => Awaits(q, w, what, i)
  /\ \A what, i : Awaits(q, w, what, i) =>
       Awaits(r, x, what, i) \/ (what = q[1].what /\ i = w[1])
  /\ q[1].what = "load" => Awaits(q, w, "load", w[1]) /\ ~Awaits(r, x, "load", w[1])

\* A file is taken off the list, or a shape that is as it should be.
LEMMA RestLeft ==
  ASSUME NEW F, NEW in, NEW V, NEW q \in Seq(WorkItems(F)), NEW w, WorkLeft(in, V, q, w), q # <<>>,
         q[1].what # "no_match",
         q[1].what = "shape" => in.files[q[1].file].yields = "mapping"
  PROVE  /\ Tail(q) \in Seq(WorkItems(F)) /\ Head(q) = q[1] /\ ItemOf(in, V, q[1], w[1])
         /\ \E x : Remains(in, V, q, w, Tail(q), x)
<1> DEFINE I == WorkItems(F)
           P == InclusionsOf(in, V)
<1>0. q \in Seq(I) /\ DOMAIN w = 1 .. Len(q)
  BY DEF WorkLeft
<1> HIDE DEF I
<1>1. Tail(q) \in Seq(I) /\ 1 \in 1 .. Len(q) /\ Head(q) = q[1]
  BY <1>0, RestOf
<1>2. PICK r \in Seq(I) : r = Tail(q)
  BY <1>1
<1>3. PICK x :
        /\ DOMAIN x = 1 .. Len(r)
        /\ \A n \in 1 .. Len(r) :
             n + 1 \in 1 .. Len(q) /\ n + 1 # 1 /\ r[n] = q[n + 1] /\ x[n] = w[n + 1]
        /\ \A n \in 1 .. Len(q) :
             n # 1 => n - 1 \in 1 .. Len(r) /\ r[n - 1] = q[n] /\ x[n - 1] = w[n]
  BY <1>0, <1>2, RestOf
<1>4. ItemOf(in, V, q[1], w[1])
  BY <1>1 DEF WorkLeft
<1>5. ASSUME NEW what, NEW i, Awaits(r, x, what, i) PROVE Awaits(q, w, what, i)
  <2>1. PICK n \in 1 .. Len(r) : r[n].what = what /\ x[n] = i
    BY <1>5 DEF Awaits
  <2>2. PICK k \in 1 .. Len(q) : r[n] = q[k] /\ x[n] = w[k]
    BY <1>3
  <2>3. q[k].what = what /\ w[k] = i
    BY <2>1, <2>2
  <2>4. QED
    BY <2>3 DEF Awaits
<1>6. ASSUME NEW what, NEW i, Awaits(q, w, what, i), ~(what = q[1].what /\ i = w[1])
      PROVE  Awaits(r, x, what, i)
  <2>1. PICK n \in 1 .. Len(q) : q[n].what = what /\ w[n] = i
    BY <1>6 DEF Awaits
  <2>2. n # 1
    BY <1>6, <2>1
  <2>3. n - 1 \in 1 .. Len(r) /\ r[n - 1] = q[n] /\ x[n - 1] = w[n]
    BY <1>3, <2>2
  <2>4. QED
    BY <2>1, <2>3 DEF Awaits
<1>7. ASSUME q[1].what = "load"
      PROVE  Awaits(q, w, "load", w[1]) /\ ~Awaits(r, x, "load", w[1])
  <2>1. Awaits(q, w, "load", w[1])
    BY <1>1, <1>7 DEF Awaits
  <2>2. SUFFICES ASSUME NEW n \in 1 .. Len(r), r[n].what = "load", x[n] = w[1] PROVE FALSE
    BY <2>1 DEF Awaits
  <2>3. PICK k \in 1 .. Len(q) : k # 1 /\ r[n] = q[k] /\ x[n] = w[k]
    BY <1>3
  <2>4. \A k1, l1 \in 1 .. Len(q) :
          q[k1].what = "load" /\ q[l1].what = "load" /\ w[k1] = w[l1] => k1 = l1
    BY DEF WorkLeft
  <2>5. QED
    BY <1>1, <1>7, <2>2, <2>3, <2>4
<1>8. WorkLeft(in, V, r, x)
  <2>1. \A n \in 1 .. Len(r) : ItemOf(in, V, r[n], x[n])
    <3> SUFFICES ASSUME NEW n \in 1 .. Len(r) PROVE ItemOf(in, V, r[n], x[n])
      OBVIOUS
    <3>1. PICK k \in 1 .. Len(q) : k # 1 /\ r[n] = q[k] /\ x[n] = w[k]
      BY <1>3
    <3>2. ItemOf(in, V, q[k], w[k])
      BY DEF WorkLeft
    <3>3. QED
      BY <3>1, <3>2
  <2>2. \A n, l \in 1 .. Len(r) : r[n].what = "load" /\ r[l].what = "load" /\ x[n] = x[l] => n = l
    <3> SUFFICES ASSUME NEW n \in 1 .. Len(r), NEW l \in 1 .. Len(r),
                        r[n].what = "load", r[l].what = "load", x[n] = x[l]
                 PROVE  n = l
      OBVIOUS
    <3>1. /\ n + 1 \in 1 .. Len(q) /\ l + 1 \in 1 .. Len(q)
          /\ r[n] = q[n + 1] /\ r[l] = q[l + 1] /\ x[n] = w[n + 1] /\ x[l] = w[l + 1]
      BY <1>3
    <3>2. \A k1, l1 \in 1 .. Len(q) :
            q[k1].what = "load" /\ q[l1].what = "load" /\ w[k1] = w[l1] => k1 = l1
      BY DEF WorkLeft
    <3>3. n + 1 = l + 1
      BY <3>1, <3>2
    <3>4. n \in Int /\ l \in Int
      OBVIOUS
    <3>5. QED
      BY <3>3, <3>4
  <2>3. \A i \in P : Merges(DirectiveAt(in, i)) =>
                       Awaits(r, x, "shape", i) \/ in.files[FileAt(in, i)].yields = "mapping"
    <3>1. w[1] \in P /\ q[1].what = "shape" => in.files[FileAt(in, w[1])].yields = "mapping"
      BY <1>4 DEF ItemOf
    <3>2. \A i \in P : Merges(DirectiveAt(in, i)) =>
                         Awaits(q, w, "shape", i) \/ in.files[FileAt(in, i)].yields = "mapping"
      BY DEF WorkLeft
    <3>3. QED
      BY <1>6, <3>1, <3>2
  <2>4. \A f \in V : \A d \in DOMAIN in.files[f].includes :
          in.files[f].includes[d].files = <<>> => \E n \in 1 .. Len(r) : r[n].what = "no_match"
    <3> SUFFICES ASSUME NEW f \in V, NEW d \in DOMAIN in.files[f].includes,
                        in.files[f].includes[d].files = <<>>
                 PROVE  \E n \in 1 .. Len(r) : r[n].what = "no_match"
      OBVIOUS
    <3>1. PICK n \in 1 .. Len(q) : q[n].what = "no_match"
      BY DEF WorkLeft
    <3>2. n # 1
      BY <3>1
    <3>3. n - 1 \in 1 .. Len(r) /\ r[n - 1] = q[n]
      BY <1>3, <3>2
    <3>4. QED
      BY <3>1, <3>3
  <2>5. QED
    BY <1>3, <2>1, <2>2, <2>3, <2>4 DEF WorkLeft
<1>9. Remains(in, V, q, w, r, x)
  BY <1>5, <1>6, <1>7, <1>8 DEF Remains
<1>10. QED
  BY <1>1, <1>2, <1>4, <1>9 DEF I

\* The next file is taken off the list.
LEMMA AskedFor ==
  ASSUME NEW in, NEW V, NEW q, NEW w, Account(in, V, V, q, w), in.root \in V,
         q # <<>>, q[1].what = "load", q[1].file \notin V
  PROVE  \E x : Account(in, V, V \cup {q[1].file}, Tail(q), x)
<1> DEFINE P == InclusionsOf(in, V)
<1>0. PICK F : F = DOMAIN in.files
  OBVIOUS
<1>1. q \in Seq(WorkItems(F)) /\ WorkLeft(in, V, q, w)
  BY <1>0 DEF Account
<1>2. q[1].what # "no_match" /\ q[1].what # "shape"
  OBVIOUS
<1>3. Tail(q) \in Seq(WorkItems(F)) /\ ItemOf(in, V, q[1], w[1])
  BY <1>1, <1>2, RestLeft, Zenon
<1>4. PICK i0 \in P : i0 = w[1] /\ q[1].file = FileAt(in, i0)
  BY <1>3 DEF ItemOf
<1>b. PICK r \in Seq(WorkItems(F)) : r = Tail(q)
  BY <1>3
<1>c. PICK x : Remains(in, V, q, w, r, x)
  BY <1>1, <1>2, <1>b, RestLeft
<1>5. ASSUME NEW i, Awaits(r, x, "load", i) PROVE Awaits(q, w, "load", i)
  BY <1>5, <1>c DEF Remains
<1>6. ASSUME NEW i, Awaits(q, w, "load", i), i # i0 PROVE Awaits(r, x, "load", i)
  BY <1>4, <1>6, <1>c DEF Remains
<1>7. Awaits(q, w, "load", i0) /\ ~Awaits(r, x, "load", i0)
  BY <1>4, <1>c DEF Remains
<1> DEFINE W == V \cup {q[1].file}
<1>9. ASSUME NEW i \in P PROVE Awaits(r, x, "load", i) \/ FileAt(in, i) \in W \ {in.root}
  <2>1. CASE i = i0
    <3>1. FileAt(in, i) = q[1].file
      BY <1>4, <2>1
    <3>2. q[1].file # in.root
      OBVIOUS
    <3>3. QED
      BY <3>1, <3>2
  <2>2. CASE i # i0
    <3>1. Awaits(q, w, "load", i) \/ FileAt(in, i) \in V \ {in.root}
      BY DEF Account
    <3>2. QED
      BY <1>6, <2>2, <3>1
  <2>3. QED
    BY <2>1, <2>2
<1>a. ASSUME NEW i \in P, i # i0, ~Awaits(r, x, "load", i)
      PROVE  ~Awaits(q, w, "load", i) /\ FileAt(in, i) \in V \ {in.root}
  <2>1. ~Awaits(q, w, "load", i)
    BY <1>6, <1>a
  <2>2. QED
    BY <2>1 DEF Account
<1>10. ASSUME NEW i \in P, NEW j \in P, ~Awaits(r, x, "load", i), ~Awaits(r, x, "load", j),
              FileAt(in, i) = FileAt(in, j)
       PROVE  i = j
  <2>1. CASE i # i0 /\ j # i0
    <3>1. ~Awaits(q, w, "load", i) /\ ~Awaits(q, w, "load", j)
      BY <1>10, <1>a, <2>1
    <3>2. QED
      BY <1>10, <3>1 DEF Account
  <2>2. CASE i = i0 /\ j # i0
    <3>1. FileAt(in, j) \in V
      BY <1>10, <1>a, <2>2
    <3>2. QED
      BY <1>4, <1>10, <2>2, <3>1
  <2>3. CASE i # i0 /\ j = i0
    <3>1. FileAt(in, i) \in V
      BY <1>10, <1>a, <2>3
    <3>2. QED
      BY <1>4, <1>10, <2>3, <3>1
  <2>4. QED
    BY <2>1, <2>2, <2>3
<1>11. ASSUME NEW v \in W \ {in.root}
       PROVE  \E i \in P : ~Awaits(r, x, "load", i) /\ FileAt(in, i) = v
  <2>1. CASE v = q[1].file
    BY <1>4, <1>7, <2>1
  <2>2. CASE v # q[1].file
    <3>1. v \in V \ {in.root}
      BY <2>2
    <3>2. PICK i \in P : ~Awaits(q, w, "load", i) /\ FileAt(in, i) = v
      BY <3>1 DEF Account
    <3>3. ~Awaits(r, x, "load", i)
      BY <1>5, <3>2
    <3>4. QED
      BY <3>2, <3>3
  <2>3. QED
    BY <2>1, <2>2
<1>12. Account(in, V, W, r, x)
  BY <1>0, <1>b, <1>c, <1>9, <1>10, <1>11 DEF Account, Remains
<1>13. QED
  BY <1>b, <1>12

\* A shape that was looked at is taken off the list.
LEMMA ShapeSeen ==
  ASSUME NEW in, NEW V, NEW W, NEW q, NEW w, Account(in, V, W, q, w), q # <<>>,
         q[1].what = "shape", in.files[q[1].file].yields = "mapping"
  PROVE  \E x : Account(in, V, W, Tail(q), x)
<1>0. PICK F : F = DOMAIN in.files
  OBVIOUS
<1>1. q \in Seq(WorkItems(F)) /\ WorkLeft(in, V, q, w)
  BY <1>0 DEF Account
<1>2. q[1].what # "no_match" /\ q[1].what # "load"
  OBVIOUS
<1>3. Tail(q) \in Seq(WorkItems(F))
  BY <1>1, <1>2, RestLeft
<1>4. PICK r \in Seq(WorkItems(F)) : r = Tail(q)
  BY <1>3
<1>5. PICK x : Remains(in, V, q, w, r, x)
  BY <1>1, <1>2, <1>4, RestLeft
<1>6. \A i : Awaits(r, x, "load", i) <=> Awaits(q, w, "load", i)
  BY <1>2, <1>5 DEF Remains
<1>7. Account(in, V, W, r, x)
  BY <1>0, <1>5, <1>6 DEF Account, Remains
<1>8. QED
  BY <1>4, <1>7

\* The work of a file that was read comes before what is left.
LEMMA WorkAdded ==
  ASSUME NEW in, NEW V, NEW W, NEW q, NEW w, Account(in, V, W, q, w),
         NEW f, f \notin V, NEW p \in Seq(WorkItems(DOMAIN in.files)), NEW a,
         WorkLeft(in, {f}, p, a),
         \A i \in InclusionsOf(in, {f}) : Awaits(p, a, "load", i)
  PROVE  \E x : Account(in, V \cup {f}, W, p \o q, x)
<1> DEFINE U == V \cup {f}
           P == InclusionsOf(in, V)
           O == InclusionsOf(in, {f})
           Q == InclusionsOf(in, U)
<1>0. PICK I : I = WorkItems(DOMAIN in.files)
  OBVIOUS
<1>1. /\ p \in Seq(I) /\ q \in Seq(I) /\ WorkLeft(in, V, q, w)
      /\ DOMAIN a = 1 .. Len(p) /\ DOMAIN w = 1 .. Len(q)
  BY <1>0 DEF Account, WorkLeft
<1>2. p \o q \in Seq(I)
  BY <1>1
<1>3. PICK r \in Seq(I) : r = p \o q
  BY <1>2
<1>4. PICK x :
        /\ DOMAIN x = 1 .. Len(r)
        /\ \A n \in 1 .. Len(p) : n \in 1 .. Len(r) /\ r[n] = p[n] /\ x[n] = a[n]
        /\ \A n \in 1 .. Len(q) : \E l \in 1 .. Len(r) : r[l] = q[n] /\ x[l] = w[n]
        /\ \A l \in 1 .. Len(r) :
             \/ l \in 1 .. Len(p) /\ r[l] = p[l] /\ x[l] = a[l]
             \/ \E n \in 1 .. Len(q) : l = Len(p) + n /\ r[l] = q[n] /\ x[l] = w[n]
  <2>1. \E x : Concatenated(p, a, q, w, r, x)
    BY <1>1, <1>3, BothOf
  <2>2. QED
    BY <2>1 DEF Concatenated
<1>5. Q = P \cup O /\ (\A i \in P : i[1] \in V) /\ \A i \in O : i[1] = f
  <2>1. \A i \in Q : i \in P \/ i \in O
    <3> SUFFICES ASSUME NEW i \in Q PROVE i \in P \/ i \in O
      OBVIOUS
    <3>1. PICK g \in U : \E d \in DOMAIN in.files[g].includes :
                           \E k \in DOMAIN in.files[g].includes[d].files : i = <<g, d, k>>
      BY PlaceIs
    <3>2. CASE g \in V
      BY <3>1, <3>2, PlaceIs
    <3>3. CASE g = f
      <4>1. g \in {f}
        BY <3>3
      <4>2. QED
        BY <3>1, <4>1, PlaceIs
    <3>4. QED
      BY <3>2, <3>3
  <2>2. \A S : \A i \in InclusionsOf(in, S) : i[1] \in S
    <3> SUFFICES ASSUME NEW S, NEW i \in InclusionsOf(in, S) PROVE i[1] \in S
      OBVIOUS
    <3>1. PICK g \in S : \E d, k : i = <<g, d, k>>
      BY PlaceIs
    <3>2. QED
      BY <3>1
  <2>3. P \subseteq Q /\ O \subseteq Q
    BY DEF InclusionsOf
  <2>4. QED
    BY <2>1, <2>2, <2>3
<1>6. ASSUME NEW what, NEW i
      PROVE  Awaits(r, x, what, i) <=> Awaits(p, a, what, i) \/ Awaits(q, w, what, i)
  <2>1. ASSUME NEW l \in 1 .. Len(r), r[l].what = what, x[l] = i
        PROVE  Awaits(p, a, what, i) \/ Awaits(q, w, what, i)
    <3>1. CASE l \in 1 .. Len(p) /\ r[l] = p[l] /\ x[l] = a[l]
      BY <2>1, <3>1 DEF Awaits
    <3>2. CASE \E n \in 1 .. Len(q) : r[l] = q[n] /\ x[l] = w[n]
      BY <2>1, <3>2 DEF Awaits
    <3>3. QED
      BY <1>4, <3>1, <3>2
  <2>2. ASSUME NEW n \in 1 .. Len(p), p[n].what = what, a[n] = i PROVE Awaits(r, x, what, i)
    BY <1>4, <2>2 DEF Awaits
  <2>3. ASSUME NEW n \in 1 .. Len(q), q[n].what = what, w[n] = i PROVE Awaits(r, x, what, i)
    <3>1. PICK l \in 1 .. Len(r) : r[l] = q[n] /\ x[l] = w[n]
      BY <1>4
    <3>2. QED
      BY <2>3, <3>1 DEF Awaits
  <2>4. QED
    BY <2>1, <2>2, <2>3 DEF Awaits
<1>7. \A n \in 1 .. Len(p) : ItemOf(in, {f}, p[n], a[n])
  BY DEF WorkLeft
<1>8. \A n \in 1 .. Len(q) : ItemOf(in, V, q[n], w[n])
  BY <1>1 DEF WorkLeft
<1>9. \A S, t, i : ItemOf(in, S, t, i) /\ S \subseteq U => ItemOf(in, U, t, i)
  <2>1. \A S : S \subseteq U => InclusionsOf(in, S) \subseteq Q
    BY DEF InclusionsOf
  <2>2. QED
    BY <2>1 DEF ItemOf
<1>10. \A n \in 1 .. Len(r) : ItemOf(in, U, r[n], x[n])
  <2> SUFFICES ASSUME NEW l \in 1 .. Len(r) PROVE ItemOf(in, U, r[l], x[l])
    OBVIOUS
  <2>1. V \subseteq U /\ {f} \subseteq U
    OBVIOUS
  <2>2. CASE l \in 1 .. Len(p) /\ r[l] = p[l] /\ x[l] = a[l]
    BY <1>7, <1>9, <2>1, <2>2
  <2>3. ASSUME NEW n \in 1 .. Len(q), r[l] = q[n], x[l] = w[n] PROVE ItemOf(in, U, r[l], x[l])
    BY <1>8, <1>9, <2>1, <2>3
  <2>4. QED
    BY <1>4, <2>2, <2>3
<1>11. /\ \A i : Awaits(p, a, "load", i) => i[1] = f
       /\ \A i : Awaits(q, w, "load", i) => i[1] \in V
  BY <1>7, <1>8 DEF Awaits, ItemOf
<1>12. \A n, l \in 1 .. Len(r) : r[n].what = "load" /\ r[l].what = "load" /\ x[n] = x[l] => n = l
  <2> SUFFICES ASSUME NEW n \in 1 .. Len(r), NEW l \in 1 .. Len(r),
                      r[n].what = "load", r[l].what = "load", x[n] = x[l]
               PROVE  n = l
    OBVIOUS
  <2> DEFINE Left(k) == k \in 1 .. Len(p) /\ r[k] = p[k] /\ x[k] = a[k]
             Right(k) == \E j \in 1 .. Len(q) : k = Len(p) + j /\ r[k] = q[j] /\ x[k] = w[j]
  <2>1. (Left(n) \/ Right(n)) /\ (Left(l) \/ Right(l))
    BY <1>4
  <2>2. \A k \in {n, l} : Left(k) => x[k][1] = f
    BY <1>11 DEF Awaits
  <2>3. \A k \in {n, l} : Right(k) => x[k][1] \in V
    <3> SUFFICES ASSUME NEW k \in {n, l}, Right(k) PROVE x[k][1] \in V
      OBVIOUS
    <3>1. PICK j \in 1 .. Len(q) : r[k] = q[j] /\ x[k] = w[j]
      OBVIOUS
    <3>2. q[j].what = "load"
      BY <3>1
    <3>3. QED
      BY <1>11, <3>1, <3>2 DEF Awaits
  <2>4. CASE Left(n) /\ Left(l)
    BY <2>4 DEF WorkLeft
  <2>5. CASE Right(n) /\ Right(l)
    <3>1. PICK j \in 1 .. Len(q) : n = Len(p) + j /\ r[n] = q[j] /\ x[n] = w[j]
      BY <2>5
    <3>2. PICK k \in 1 .. Len(q) : l = Len(p) + k /\ r[l] = q[k] /\ x[l] = w[k]
      BY <2>5
    <3>3. j = k
      BY <1>1, <3>1, <3>2 DEF WorkLeft
    <3>4. QED
      BY <3>1, <3>2, <3>3
  <2>6. x[n][1] = x[l][1]
    OBVIOUS
  <2> HIDE DEF Left, Right
  <2>7. QED
    BY <2>1, <2>2, <2>3, <2>4, <2>5, <2>6
<1>13. \A i \in Q : Merges(DirectiveAt(in, i)) =>
                      Awaits(r, x, "shape", i) \/ in.files[FileAt(in, i)].yields = "mapping"
  BY <1>1, <1>5, <1>6 DEF WorkLeft
<1>14. \A g \in U : \A d \in DOMAIN in.files[g].includes :
         in.files[g].includes[d].files = <<>> => \E n \in 1 .. Len(r) : r[n].what = "no_match"
  <2> SUFFICES ASSUME NEW g \in U, NEW d \in DOMAIN in.files[g].includes,
                      in.files[g].includes[d].files = <<>>
               PROVE  \E n \in 1 .. Len(r) : r[n].what = "no_match"
    OBVIOUS
  <2>1. CASE g \in V
    <3>1. PICK n \in 1 .. Len(q) : q[n].what = "no_match"
      BY <1>1, <2>1 DEF WorkLeft
    <3>2. PICK l \in 1 .. Len(r) : r[l] = q[n]
      BY <1>4
    <3>3. r[l].what = "no_match"
      BY <3>1, <3>2
    <3>4. QED
      BY <3>3
  <2>2. CASE g \in {f}
    <3>a. \A e \in {f} : \A c \in DOMAIN in.files[e].includes :
            in.files[e].includes[c].files = <<>> => \E n \in 1 .. Len(p) : p[n].what = "no_match"
      BY DEF WorkLeft
    <3>1. PICK n \in 1 .. Len(p) : p[n].what = "no_match"
      BY <2>2, <3>a
    <3>2. n \in 1 .. Len(r) /\ r[n] = p[n]
      BY <1>4
    <3>3. r[n].what = "no_match"
      BY <3>1, <3>2
    <3>4. QED
      BY <3>2, <3>3
  <2>3. QED
    BY <2>1, <2>2
<1>15. WorkLeft(in, U, r, x)
  BY <1>4, <1>10, <1>12, <1>13, <1>14 DEF WorkLeft
<1>16. \A i \in O : Awaits(r, x, "load", i)
  BY <1>6
<1>17. \A i \in P : Awaits(r, x, "load", i) <=> Awaits(q, w, "load", i)
  BY <1>5, <1>6, <1>11
<1>18. \A i \in Q : ~Awaits(r, x, "load", i) => i \in P /\ ~Awaits(q, w, "load", i)
  BY <1>5, <1>16, <1>17
<1>19. \A i \in Q : Awaits(r, x, "load", i) \/ FileAt(in, i) \in W \ {in.root}
  BY <1>18 DEF Account
<1>20. \A i, j \in Q : /\ ~Awaits(r, x, "load", i) /\ ~Awaits(r, x, "load", j)
                       /\ FileAt(in, i) = FileAt(in, j)
                       => i = j
  BY <1>18 DEF Account
<1>21. \A v \in W \ {in.root} : \E i \in Q : ~Awaits(r, x, "load", i) /\ FileAt(in, i) = v
  <2> SUFFICES ASSUME NEW v \in W \ {in.root}
               PROVE  \E i \in Q : ~Awaits(r, x, "load", i) /\ FileAt(in, i) = v
    OBVIOUS
  <2>1. PICK i \in P : ~Awaits(q, w, "load", i) /\ FileAt(in, i) = v
    BY DEF Account
  <2>2. i \in Q /\ ~Awaits(r, x, "load", i)
    BY <1>5, <1>17, <2>1
  <2>3. QED
    BY <2>1, <2>2
<1> HIDE DEF U
<1>22. Account(in, U, W, r, x)
  BY <1>0, <1>15, <1>19, <1>20, <1>21 DEF Account
<1>23. QED
  BY <1>3, <1>22 DEF U

\* Nothing is read and the root is asked for.
LEMMA RootAsked ==
  ASSUME NEW in
  PROVE  \E x : Account(in, {}, {in.root}, <<>>, x)
<1> DEFINE x == [n \in 1 .. 0 |-> n]
<1>1. InclusionsOf(in, {}) = {}
  BY DEF InclusionsOf
<1>2. <<>> \in Seq(WorkItems(DOMAIN in.files)) /\ Len(<<>>) = 0 /\ DOMAIN x = 1 .. 0
      /\ 1 .. 0 = {} /\ {in.root} \ {in.root} = {}
  OBVIOUS
<1> HIDE DEF x
<1>3. WorkLeft(in, {}, <<>>, x)
  BY <1>1, <1>2 DEF WorkLeft
<1>4. Account(in, {}, {in.root}, <<>>, x)
  BY <1>1, <1>2, <1>3 DEF Account
<1>5. QED
  BY <1>4

ReachedOf(in) ==
  {f \in DOMAIN in.files :
     \A S \in SUBSET DOMAIN in.files :
       in.root \in S /\ (\A i \in InclusionsOf(in, S) : FileAt(in, i) \in S) => f \in S}

\* All patterns match, and several files in a mapping are mappings.
SoundDirective(in, d) ==
  d.files # <<>> /\ (Merges(d) => \A k \in DOMAIN d.files : in.files[d.files[k]].yields = "mapping")

IsTree(in) ==
  /\ \A f \in ReachedOf(in) : in.files[f].readable
  /\ \A i \in InclusionsOf(in, ReachedOf(in)) : FileAt(in, i) # in.root
  /\ \A i, j \in InclusionsOf(in, ReachedOf(in)) : FileAt(in, i) = FileAt(in, j) => i = j
  /\ \A f \in ReachedOf(in) : \A d \in DOMAIN in.files[f].includes :
       SoundDirective(in, in.files[f].includes[d])

FilesOk(in) ==
  /\ in.root \in DOMAIN in.files
  /\ \A f \in DOMAIN in.files : in.files[f].includes \in Seq(ListedFiles(DOMAIN in.files))

\* What is reached has the root and is closed under inclusion.
LEMMA ReachedIs ==
  ASSUME NEW in, FilesOk(in)
  PROVE  /\ in.root \in ReachedOf(in) /\ ReachedOf(in) \subseteq DOMAIN in.files
         /\ \A i \in InclusionsOf(in, ReachedOf(in)) : FileAt(in, i) \in ReachedOf(in)
<1> DEFINE R == ReachedOf(in)
           Closed(S) == in.root \in S /\ \A i \in InclusionsOf(in, S) : FileAt(in, i) \in S
<1>1. /\ R \subseteq DOMAIN in.files
      /\ \A f \in DOMAIN in.files :
           f \in R <=> \A S \in SUBSET DOMAIN in.files : Closed(S) => f \in S
  BY DEF ReachedOf
<1>2. in.root \in R
  BY <1>1 DEF FilesOk
<1> HIDE DEF R
<1>3. ASSUME NEW i \in InclusionsOf(in, R) PROVE FileAt(in, i) \in R
  <2>1. PICK f \in R : \E d \in DOMAIN in.files[f].includes :
                         \E k \in DOMAIN in.files[f].includes[d].files : i = <<f, d, k>>
    BY PlaceIs
  <2>2. PICK d \in DOMAIN in.files[f].includes :
               \E k \in DOMAIN in.files[f].includes[d].files : i = <<f, d, k>>
    BY <2>1
  <2>3. PICK k \in DOMAIN in.files[f].includes[d].files : i = <<f, d, k>>
    BY <2>2
  <2>4. FileAt(in, i) = in.files[f].includes[d].files[k]
    BY <2>3 DEF FileAt
  <2>5. FileAt(in, i) \in DOMAIN in.files
    <3>1. PICK ds \in Seq(ListedFiles(DOMAIN in.files)) : ds = in.files[f].includes
      BY <1>1 DEF FilesOk
    <3>2. ds[d] \in ListedFiles(DOMAIN in.files)
      BY <2>2, <3>1
    <3>3. PICK fs \in Seq(DOMAIN in.files) : fs = ds[d].files
      BY <3>2 DEF ListedFiles
    <3>4. fs[k] \in DOMAIN in.files
      BY <2>3, <3>1, <3>3
    <3>5. QED
      BY <2>4, <3>1, <3>3, <3>4
  <2>6. ASSUME NEW S \in SUBSET DOMAIN in.files, Closed(S) PROVE FileAt(in, i) \in S
    <3>1. f \in S
      BY <1>1, <2>6
    <3>2. i \in InclusionsOf(in, S)
      BY <2>2, <2>3, <3>1, PlaceIs
    <3>3. QED
      BY <2>6, <3>2
  <2>7. QED
    BY <1>1, <2>5, <2>6
<1>4. QED
  BY <1>1, <1>2, <1>3 DEF R

\* What is read and left so far.
ReadSoFar(in, V, q, w) ==
  /\ Account(in, V, V, q, w)
  /\ in.root \in V /\ V \subseteq ReachedOf(in)
  /\ \A f \in V : in.files[f].readable

\* What the first item says of the tree.
LEMMA FirstItem ==
  ASSUME NEW in, FilesOk(in), NEW V, NEW q, NEW w, ReadSoFar(in, V, q, w), q # <<>>
  PROVE  /\ q[1].what = "load" => q[1].file \in ReachedOf(in)
         /\ q[1].what = "load" /\ q[1].file \in V => ~IsTree(in)
         /\ q[1].what = "load" /\ ~in.files[q[1].file].readable => ~IsTree(in)
         /\ q[1].what = "shape" /\ in.files[q[1].file].yields # "mapping" => ~IsTree(in)
         /\ q[1].what = "no_match" => ~IsTree(in)
         /\ Head(q) = q[1]
<1> DEFINE R == ReachedOf(in)
           P == InclusionsOf(in, V)
           t == q[1]
           i0 == w[1]
<1>0. PICK I : I = WorkItems(DOMAIN in.files)
  OBVIOUS
<1>1. q \in Seq(I) /\ WorkLeft(in, V, q, w) /\ V \subseteq R /\ in.root \in V
  BY <1>0 DEF ReadSoFar, Account
<1>2. 1 \in 1 .. Len(q) /\ Head(q) = q[1]
  BY <1>1 DEF WorkLeft
<1>3. ItemOf(in, V, t, i0)
  BY <1>1, <1>2 DEF WorkLeft
<1>4. P \subseteq InclusionsOf(in, R)
  BY <1>1 DEF InclusionsOf
<1> HIDE DEF R
<1>5. \A i \in P : FileAt(in, i) \in R
  BY <1>4, ReachedIs DEF R
<1>6. ASSUME t.what = "load" PROVE i0 \in P /\ t.file = FileAt(in, i0) /\ t.file \in R
  BY <1>3, <1>5, <1>6 DEF ItemOf
<1>7. ASSUME t.what = "load", t.file \in V, IsTree(in) PROVE FALSE
  <2>1. CASE t.file = in.root
    BY <1>4, <1>6, <1>7, <2>1 DEF IsTree, R
  <2>2. CASE t.file # in.root
    <3>1. PICK i \in P : ~Awaits(q, w, "load", i) /\ FileAt(in, i) = t.file
      BY <1>7, <2>2 DEF ReadSoFar, Account
    <3>2. Awaits(q, w, "load", i0)
      BY <1>2, <1>7 DEF Awaits
    <3>3. i = i0
      BY <1>4, <1>6, <1>7, <3>1 DEF IsTree, R
    <3>4. QED
      BY <3>1, <3>2, <3>3
  <2>3. QED
    BY <2>1, <2>2
<1>8. ASSUME t.what = "load", ~in.files[t.file].readable PROVE ~IsTree(in)
  BY <1>6, <1>8 DEF IsTree, R
<1>9. PICK f \in R : f = i0[1] /\ i0[2] \in DOMAIN in.files[f].includes
  BY <1>1, <1>3 DEF ItemOf
<1>10. IsTree(in) => SoundDirective(in, DirectiveAt(in, i0))
  BY <1>9 DEF IsTree, R, DirectiveAt
<1>11. ASSUME t.what = "shape", in.files[t.file].yields # "mapping" PROVE ~IsTree(in)
  <2>1. i0 \in P /\ t.file = FileAt(in, i0) /\ Merges(DirectiveAt(in, i0))
    BY <1>3, <1>11 DEF ItemOf
  <2>2. PICK k \in DOMAIN DirectiveAt(in, i0).files : FileAt(in, i0) = DirectiveAt(in, i0).files[k]
    <3>1. PICK g \in V : \E d \in DOMAIN in.files[g].includes :
                           \E k \in DOMAIN in.files[g].includes[d].files : i0 = <<g, d, k>>
      BY <2>1, PlaceIs
    <3>2. PICK d, k : k \in DOMAIN in.files[g].includes[d].files /\ i0 = <<g, d, k>>
      BY <3>1
    <3>3. i0[1] = g /\ i0[2] = d /\ i0[3] = k
      BY <3>2
    <3> HIDE DEF i0
    <3>4. QED
      BY <3>2, <3>3 DEF DirectiveAt, FileAt
  <2>3. QED
    BY <1>10, <1>11, <2>1, <2>2 DEF SoundDirective
<1>12. ASSUME t.what = "no_match" PROVE ~IsTree(in)
  BY <1>3, <1>10, <1>12 DEF ItemOf, SoundDirective
<1>13. QED
  BY <1>2, <1>6, <1>7, <1>8, <1>11, <1>12 DEF R

\* Nothing is left: all is read and it is a tree.
LEMMA NothingLeft ==
  ASSUME NEW in, FilesOk(in), NEW V, NEW w, ReadSoFar(in, V, <<>>, w)
  PROVE  IsTree(in) /\ V = ReachedOf(in)
<1> DEFINE R == ReachedOf(in)
           P == InclusionsOf(in, V)
<1>0. /\ \A what, i : ~Awaits(<<>>, w, what, i)
      /\ ~(\E n \in 1 .. Len(<<>>) : <<>>[n].what = "no_match")
  <2>1. \A n \in 1 .. Len(<<>>) : FALSE
    OBVIOUS
  <2>2. QED
    BY <2>1 DEF Awaits
<1>1. \A i \in P : FileAt(in, i) \in V \ {in.root}
  BY <1>0 DEF ReadSoFar, Account
<1>2. V = R
  <2>1. V \subseteq R /\ in.root \in V /\ R \subseteq DOMAIN in.files
    BY ReachedIs DEF ReadSoFar
  <2>2. \A f \in R : f \in V
    BY <1>1, <2>1 DEF ReachedOf
  <2>3. QED
    BY <2>1, <2>2
<1>3. \A f \in V : in.files[f].readable
  BY DEF ReadSoFar
<1>4. \A i, j \in P : FileAt(in, i) = FileAt(in, j) => i = j
  BY <1>0 DEF ReadSoFar, Account
<1>5. ASSUME NEW f \in V, NEW d \in DOMAIN in.files[f].includes
      PROVE  SoundDirective(in, in.files[f].includes[d])
  <2> DEFINE dir == in.files[f].includes[d]
  <2>1. dir.files # <<>>
    <3>1. \A g \in V : \A e \in DOMAIN in.files[g].includes : in.files[g].includes[e].files # <<>>
      BY <1>0 DEF ReadSoFar, Account, WorkLeft
    <3>2. QED
      BY <3>1
  <2>2. ASSUME Merges(dir), NEW k \in DOMAIN dir.files
        PROVE  in.files[dir.files[k]].yields = "mapping"
    <3>1. PICK i \in P : i = <<f, d, k>>
      BY PlaceIs
    <3>2. DirectiveAt(in, i) = dir /\ FileAt(in, i) = dir.files[k]
      BY <3>1 DEF DirectiveAt, FileAt
    <3>3. Merges(DirectiveAt(in, i)) => in.files[FileAt(in, i)].yields = "mapping"
      BY <1>0 DEF ReadSoFar, Account, WorkLeft
    <3>4. QED
      BY <2>2, <3>2, <3>3
  <2> HIDE DEF dir
  <2>3. SoundDirective(in, dir)
    BY <2>1, <2>2 DEF SoundDirective
  <2>4. QED
    BY <2>3 DEF dir
<1>6. IsTree(in)
  BY <1>1, <1>2, <1>3, <1>4, <1>5 DEF IsTree
<1>7. QED
  BY <1>2, <1>6

\* A file that is read.
LEMMA FileRead ==
  ASSUME FilesOk(input), NEW f, NEW V, NEW q, f \in ReachedOf(input), f \notin V, input.files[f].readable,
         \/ V = {} /\ f = input.root /\ q = <<>>
         \/ /\ input.root \in V /\ V \subseteq ReachedOf(input)
            /\ \A g \in V : input.files[g].readable
            /\ \E w : Account(input, V, V \cup {f}, q, w)
  PROVE  \E x : ReadSoFar(input, V \cup {f}, FileWork(f) \o q, x)
<1>0. PICK F : F = DOMAIN input.files
  OBVIOUS
<1>1. PICK p : p = FileWork(f)
  OBVIOUS
<1>2. input.files[f].includes \in Seq(ListedFiles(F))
  BY <1>0, ReachedIs DEF FilesOk
<1>3. /\ p \in Seq(WorkItems(F))
      /\ \E w : /\ WorkLeft(input, {f}, p, w)
                /\ \A i \in InclusionsOf(input, {f}) : Awaits(p, w, "load", i)
  BY <1>1, <1>2, FileIs
<1>4. PICK a : /\ WorkLeft(input, {f}, p, a)
               /\ \A i \in InclusionsOf(input, {f}) : Awaits(p, a, "load", i)
  BY <1>3
<1>5. PICK w : Account(input, V, V \cup {f}, q, w)
  <2>1. CASE V = {} /\ f = input.root /\ q = <<>>
    <3>1. V \cup {f} = {input.root}
      BY <2>1
    <3>2. QED
      BY <2>1, <3>1, RootAsked
  <2>2. CASE \E w : Account(input, V, V \cup {f}, q, w)
    BY <2>2
  <2>3. QED
    BY <2>1, <2>2
<1>6. \E x : Account(input, V \cup {f}, V \cup {f}, p \o q, x)
  BY <1>0, <1>3, <1>4, <1>5, WorkAdded
<1>7. /\ input.root \in V \cup {f} /\ V \cup {f} \subseteq ReachedOf(input)
      /\ \A g \in V \cup {f} : input.files[g].readable
  OBVIOUS
<1>8. QED
  BY <1>1, <1>6, <1>7 DEF ReadSoFar

\* While the files load, what is read and left accounts for every place of a
\* file; what ends the loading says whether the files are a tree.
LoadInv ==
  /\ input \in Inputs
  /\ loading = "files" =>
       \/ visited = {} /\ todo = <<Todo("load", input.root)>>
       \/ \E w : ReadSoFar(input, visited, todo, w)
  /\ loading \in {"hierarchy", "accepted", "refused"} =>
       IsTree(input) /\ visited = ReachedOf(input)
  /\ loading \in {"circular", "unreadable", "no_match", "shape"} => ~IsTree(input)

\* FilesAssumption, of one input.
LEMMA InputsOk == \A in \in Inputs : FilesOk(in)
BY FilesAssumption DEF FilesOk, ListedFiles

LEMMA LoadInit == ConfInit => LoadInv
BY DEF ConfInit, LoadInv

\* LoadFile: an included file that waits is reached; if it was read already, some
\* other place includes it too, or it is the root.
LEMMA LoadFileKeeps == ASSUME LoadInv, LoadFile PROVE LoadInv'
<1>0. PICK f : f = Head(todo).file
  OBVIOUS
<1>1. /\ loading = "files" /\ todo # <<>> /\ Head(todo).what = "load" /\ input' = input
      /\ \/ f \in visited /\ loading' = "circular"
         \/ /\ f \notin visited /\ visited' = visited \cup {f}
            /\ \/ input.files[f].readable /\ todo' = FileWork(f) \o Tail(todo) /\ loading' = loading
               \/ ~input.files[f].readable /\ loading' = "unreadable"
  BY <1>0 DEF LoadFile, AlreadyIncluded
<1>2. FilesOk(input) /\ input \in Inputs
  BY InputsOk DEF LoadInv
<1> DEFINE Beginning == visited = {} /\ todo = <<Todo("load", input.root)>>
<1>3. ASSUME Beginning PROVE f = input.root /\ Tail(todo) = <<>> /\ f \in ReachedOf(input)
  <2>1. Todo("load", input.root).file = input.root
    BY DEF Todo
  <2>2. PICK t : t = Todo("load", input.root)
    OBVIOUS
  <2>3. todo = <<t>>
    BY <1>3, <2>2
  <2>4. Head(todo) = t /\ Tail(todo) = <<>>
    BY <2>3
  <2>5. QED
    BY <1>0, <1>2, <2>1, <2>2, <2>4, ReachedIs
<1>4. ASSUME NEW w, ReadSoFar(input, visited, todo, w)
      PROVE  /\ f \in ReachedOf(input) /\ f = todo[1].file /\ todo[1].what = "load"
             /\ f \in visited => ~IsTree(input)
             /\ ~input.files[f].readable => ~IsTree(input)
  BY <1>0, <1>1, <1>2, <1>4, FirstItem
<1>5. Beginning \/ \E w : ReadSoFar(input, visited, todo, w)
  BY <1>1 DEF LoadInv
<1>6. f \in ReachedOf(input)
  BY <1>3, <1>4, <1>5
<1>7. CASE f \in visited /\ loading' = "circular"
  <2>1. ~IsTree(input)
    BY <1>4, <1>5, <1>7
  <2>2. QED
    BY <1>1, <1>2, <1>7, <2>1 DEF LoadInv
<1>8. CASE ~input.files[f].readable /\ loading' = "unreadable"
  <2>1. ~IsTree(input)
    BY <1>6, <1>8 DEF IsTree
  <2>2. QED
    BY <1>1, <1>2, <1>8, <2>1 DEF LoadInv
<1>9. CASE /\ f \notin visited /\ visited' = visited \cup {f} /\ input.files[f].readable
           /\ todo' = FileWork(f) \o Tail(todo) /\ loading' = loading
  <2>1. PICK V, q : V = visited /\ q = Tail(todo)
    OBVIOUS
  <2>2. \/ V = {} /\ f = input.root /\ q = <<>>
        \/ /\ input.root \in V /\ V \subseteq ReachedOf(input)
           /\ \A g \in V : input.files[g].readable
           /\ \E w : Account(input, V, V \cup {f}, q, w)
    <3>1. ASSUME NEW w, ReadSoFar(input, visited, todo, w)
          PROVE  /\ input.root \in V /\ V \subseteq ReachedOf(input)
                 /\ \A g \in V : input.files[g].readable
                 /\ \E x : Account(input, V, V \cup {f}, q, x)
      <4>1. /\ Account(input, visited, visited, todo, w)
            /\ input.root \in visited /\ visited \subseteq ReachedOf(input)
            /\ \A g \in visited : input.files[g].readable
        BY <3>1 DEF ReadSoFar
      <4>2. \E x : Account(input, visited, visited \cup {todo[1].file}, Tail(todo), x)
        BY <1>1, <1>4, <1>9, <3>1, <4>1, AskedFor
      <4>3. QED
        BY <1>4, <2>1, <3>1, <4>1, <4>2
    <3>2. QED
      BY <1>3, <1>5, <2>1, <3>1
  <2>3. \E x : ReadSoFar(input, V \cup {f}, FileWork(f) \o q, x)
    BY <1>2, <1>6, <1>9, <2>1, <2>2, FileRead
  <2>4. \E x : ReadSoFar(input', visited', todo', x)
    BY <1>1, <1>9, <2>1, <2>3
  <2>5. loading' = "files" /\ input' \in Inputs
    BY <1>1, <1>2, <1>9
  <2>6. QED
    BY <2>4, <2>5 DEF LoadInv
<1>10. QED
  BY <1>1, <1>7, <1>8, <1>9

\* CheckShape.
LEMMA CheckShapeKeeps == ASSUME LoadInv, CheckShape PROVE LoadInv'
<1>1. /\ loading = "files" /\ todo # <<>> /\ input' = input /\ visited' = visited
      /\ \/ /\ Head(todo).what = "shape" /\ input.files[Head(todo).file].yields = "mapping"
            /\ todo' = Tail(todo) /\ loading' = loading
         \/ Head(todo).what = "no_match" /\ loading' = "no_match"
         \/ /\ Head(todo).what = "shape" /\ input.files[Head(todo).file].yields # "mapping"
            /\ loading' = "shape"
  BY DEF CheckShape
<1>2. FilesOk(input) /\ input \in Inputs
  BY InputsOk DEF LoadInv
<1>3. PICK w : ReadSoFar(input, visited, todo, w)
  <2>1. ASSUME todo = <<Todo("load", input.root)>> PROVE FALSE
    <3>1. PICK t : t = Todo("load", input.root)
      OBVIOUS
    <3>2. Head(todo) = t
      BY <2>1, <3>1
    <3>3. t.what = "load"
      BY <3>1 DEF Todo
    <3>4. QED
      BY <1>1, <3>2, <3>3
  <2>2. QED
    BY <1>1, <2>1 DEF LoadInv
<1>4. Head(todo) = todo[1]
  BY <1>1, <1>2, <1>3, FirstItem
<1>5. CASE /\ Head(todo).what = "shape" /\ input.files[Head(todo).file].yields = "mapping"
           /\ todo' = Tail(todo) /\ loading' = loading
  <2>1. /\ Account(input, visited, visited, todo, w)
        /\ input.root \in visited /\ visited \subseteq ReachedOf(input)
        /\ \A g \in visited : input.files[g].readable
    BY <1>3 DEF ReadSoFar
  <2>2. PICK x : Account(input, visited, visited, Tail(todo), x)
    BY <1>1, <1>4, <1>5, <2>1, ShapeSeen
  <2>3. ReadSoFar(input, visited, Tail(todo), x)
    BY <2>1, <2>2 DEF ReadSoFar
  <2>4. ReadSoFar(input', visited', todo', x)
    BY <1>1, <1>5, <2>3
  <2>5. loading' = "files" /\ input' \in Inputs
    BY <1>1, <1>2, <1>5
  <2>6. QED
    BY <2>4, <2>5 DEF LoadInv
<1>6. CASE Head(todo).what = "no_match" /\ loading' = "no_match"
  <2>1. ~IsTree(input)
    BY <1>1, <1>2, <1>3, <1>4, <1>6, FirstItem
  <2>2. QED
    BY <1>1, <1>2, <1>6, <2>1 DEF LoadInv
<1>7. CASE /\ Head(todo).what = "shape" /\ input.files[Head(todo).file].yields # "mapping"
           /\ loading' = "shape"
  <2>1. ~IsTree(input)
    BY <1>1, <1>2, <1>3, <1>4, <1>7, FirstItem
  <2>2. QED
    BY <1>1, <1>2, <1>7, <2>1 DEF LoadInv
<1>8. QED
  BY <1>1, <1>5, <1>6, <1>7

\* Validate: nothing is left.
LEMMA ValidateKeeps == ASSUME LoadInv, Validate PROVE LoadInv'
<1>1. /\ loading = "files" /\ todo = <<>> /\ loading' = "hierarchy"
      /\ input' = input /\ visited' = visited
  BY DEF Validate
<1>2. FilesOk(input) /\ input \in Inputs
  BY InputsOk DEF LoadInv
<1>3. PICK w : ReadSoFar(input, visited, todo, w)
  <2>1. \A t : <<t>> # <<>>
    OBVIOUS
  <2>2. QED
    BY <1>1, <2>1 DEF LoadInv
<1>4. IsTree(input) /\ visited = ReachedOf(input)
  BY <1>1, <1>2, <1>3, NothingLeft
<1>5. QED
  BY <1>1, <1>2, <1>4 DEF LoadInv

\* The other steps leave the files alone.
LEMMA LoadStep == LoadInv /\ [ConfNext]_confVars => LoadInv'
<1> SUFFICES ASSUME LoadInv, [ConfNext]_confVars PROVE LoadInv'
  OBVIOUS
<1>1. CASE LoadFile
  BY <1>1, LoadFileKeeps
<1>2. CASE CheckShape
  BY <1>2, CheckShapeKeeps
<1>3. CASE Validate
  BY <1>3, ValidateKeeps
<1>4. ASSUME UNCHANGED <<input, todo, visited, loading>> PROVE LoadInv'
  BY <1>4 DEF LoadInv
<1>5. CASE StartSearch
  BY <1>4, <1>5 DEF StartSearch
<1>6. CASE SearchStep
  BY <1>4, <1>6 DEF SearchStep
<1>7. CASE ValidateDone
  <2>1. /\ loading = "hierarchy" /\ loading' \in {"accepted", "refused"}
        /\ input' = input /\ visited' = visited
    BY <1>7 DEF ValidateDone
  <2>2. QED
    BY <2>1 DEF LoadInv
<1>8. CASE UNCHANGED confVars
  BY <1>4, <1>8 DEF confVars
<1>9. QED
  BY <1>1, <1>2, <1>3, <1>5, <1>6, <1>7, <1>8 DEF ConfNext

\* The invariant in the words of the property.
LEMMA LoadSays == LoadInv => IncludesRefused
<1> SUFFICES ASSUME LoadInv PROVE IncludesRefused
  OBVIOUS
<1>0. PICK in : in = input
  OBVIOUS
<1>1. /\ \A S : Inclusions(S) = InclusionsOf(in, S)
      /\ \A i : Included(i) = FileAt(in, i)
  BY <1>0 DEF Inclusions, InclusionsOf, Included, FileAt
<1>2. ReachedFiles = ReachedOf(in)
  BY <1>0, <1>1 DEF ReachedFiles, ReachedOf
<1> DEFINE reached == ReachedFiles
           places == Inclusions(reached)
           tree == /\ \A f \in reached : input.files[f].readable
                   /\ \A i \in places : Included(i) # input.root
                   /\ \A i, j \in places : Included(i) = Included(j) => i = j
                   /\ \A f \in reached : \A d \in DOMAIN input.files[f].includes :
                        LET dir == input.files[f].includes[d]
                        IN /\ dir.files # <<>>
                           /\ dir.in = "mapping" /\ Len(dir.files) > 1 =>
                                \A k \in DOMAIN dir.files : input.files[dir.files[k]].yields = "mapping"
<1>3. tree <=> IsTree(in)
  BY <1>0, <1>1, <1>2 DEF IsTree, SoundDirective, Merges
<1>4. /\ loading \in {"hierarchy", "accepted", "refused"} => tree /\ visited = reached
      /\ loading \in {"circular", "unreadable", "no_match", "shape"} => ~tree
  <2> HIDE DEF tree
  <2>1. QED
    BY <1>0, <1>2, <1>3 DEF LoadInv
<1>5. QED
  BY <1>4 DEF IncludesRefused

\* The files load exactly when they are a tree, and then all of them were read
\* (IncludesRefused): whatever files include one another, in whatever order
\* load_yaml_with_includes meets the directives.
THEOREM IncludesSafety == ConfSpec => []IncludesRefused
<1>1. ConfSpec => []LoadInv
  BY LoadInit, LoadStep, PTL DEF ConfSpec
<1>2. QED
  BY <1>1, LoadSays, PTL

----------------------------------------------------------------------------
(* The routes, and what a look-up finds. *)

Braced == {Param, Rest}

\* What follows a slash at the end of a path.
Ending == ""

Segments == STRING \cup {Param, Rest, Ending}

LEMMA PathsHaveSegments ==
  ASSUME NEW p \in Seq(STRING)
  PROVE  p \in Seq(Segments)
  BY DEF Segments

LEMMA ThreeSegments == Param # Rest /\ Ending # Param /\ Ending # Rest
  BY DEF Param, Rest, Ending

\* A bounded set of numbers has a least one.
LEMMA SmallestNumber ==
  ASSUME NEW S \in SUBSET Nat, S # {}
  PROVE  Min(S) \in S /\ \A m \in S : Min(S) <= m
  BY LeastNumber DEF Min

\* One path is at or above another, segment for segment.
Heads(b, u) == Len(b) <= Len(u) /\ \A k \in 1 .. Len(b) : b[k] = u[k]

LEMMA PrefixHeads ==
  ASSUME NEW b \in Seq(Segments), NEW u \in Seq(Segments)
  PROVE  IsPrefix(b, u) <=> Heads(b, u)
<1>1. PICK n \in Nat, m \in Nat : n = Len(b) /\ m = Len(u)
  OBVIOUS
<1>2. SubSeq(b, 1, n) = b
  BY <1>1
<1>3. ASSUME n <= m
      PROVE  /\ SubSeq(u, 1, n) \in Seq(Segments) /\ Len(SubSeq(u, 1, n)) = n
             /\ \A k \in 1 .. n : SubSeq(u, 1, n)[k] = u[k]
  <2>1. \A i \in 1 .. n : u[i] \in Segments
    BY <1>1, <1>3
  <2>2. Portion(SubSeq(u, 1, n), u, 1, n, Segments)
    BY <2>1, SubSeqIs
  <2>3. QED
    BY <2>2 DEF Portion
<1>4. CASE n <= m
  <2>1. IsPrefix(b, u) <=> b = SubSeq(u, 1, n)
    BY <1>1, <1>2, <1>4 DEF IsPrefix
  <2>2. b = SubSeq(u, 1, n) <=> \A k \in 1 .. n : b[k] = u[k]
    BY <1>1, <1>3, <1>4
  <2>3. QED
    BY <1>1, <1>4, <2>1, <2>2 DEF Heads
<1>5. CASE ~(n <= m)
  BY <1>1, <1>5 DEF IsPrefix, Heads
<1>6. QED
  BY <1>4, <1>5

\* Of two paths above a third one is above the other.
LEMMA HeadsOfOne ==
  ASSUME NEW b \in Seq(Segments), NEW c \in Seq(Segments), NEW u \in Seq(Segments),
         Heads(b, u), Heads(c, u)
  PROVE  IsPrefix(b, c) \/ IsPrefix(c, b)
<1>1. Len(b) \in Nat /\ Len(c) \in Nat
  OBVIOUS
<1>2. CASE Len(b) <= Len(c)
  <2>1. Heads(b, c)
    BY <1>1, <1>2 DEF Heads
  <2>2. QED
    BY <2>1, PrefixHeads
<1>3. CASE Len(c) <= Len(b)
  <2>1. Heads(c, b)
    BY <1>1, <1>3 DEF Heads
  <2>2. QED
    BY <2>1, PrefixHeads
<1>4. QED
  BY <1>1, <1>2, <1>3

\* What comes before the first brace of a pattern.
BaseIs(b, p) ==
  /\ b \in Seq(Segments) /\ Len(b) < Len(p) /\ p[Len(b) + 1] \in Braced
  /\ Heads(b, p) /\ \A k \in 1 .. Len(b) : b[k] \notin Braced

LEMMA PatternHasBase ==
  ASSUME NEW p \in Seq(Segments), IsPattern(p)
  PROVE  BaseIs(PatternBase(p), p)
<1>1. PICK N \in Nat : N = Len(p) /\ DOMAIN p = 1 .. N
  OBVIOUS
<1> DEFINE S == {i \in DOMAIN p : p[i] \in {Param, Rest}}
<1>2. S \in SUBSET Nat /\ S # {} /\ S \subseteq 1 .. N
  BY <1>1 DEF IsPattern
<1>3. PICK n : n = Min(S)
  OBVIOUS
<1>4. n \in S /\ \A i \in S : n <= i
  <2> HIDE DEF S
  <2>1. QED
    BY <1>2, <1>3, SmallestNumber
<1>5. n \in 1 .. N /\ p[n] \in Braced /\ \A k \in 1 .. n - 1 : p[k] \notin Braced
  <2>1. n \in 1 .. N /\ p[n] \in Braced
    BY <1>2, <1>4 DEF Braced
  <2>2. ASSUME NEW k \in 1 .. n - 1, p[k] \in Braced PROVE FALSE
    <3>1. k \in DOMAIN p
      BY <1>1, <2>1
    <3>2. k \in S
      BY <2>2, <3>1 DEF Braced
    <3>3. n <= k
      BY <1>4, <3>2
    <3>4. QED
      BY <2>1, <3>3
  <2>3. QED
    BY <2>1, <2>2
<1>6. PICK b : b = PatternBase(p)
  OBVIOUS
<1>7. b = SubSeq(p, 1, n - 1)
  BY <1>3, <1>6 DEF PatternBase
<1>8. \A k \in 1 .. n - 1 : p[k] \in Segments
  BY <1>1, <1>5
<1>9. Portion(b, p, 1, n - 1, Segments)
  BY <1>5, <1>7, <1>8, SubSeqIs
<1>10. b \in Seq(Segments) /\ Len(b) = n - 1 /\ \A k \in 1 .. n - 1 : b[k] = p[k]
  BY <1>5, <1>9 DEF Portion
<1>11. QED
  BY <1>1, <1>5, <1>6, <1>10 DEF BaseIs, Heads

\* A segment that is not a parameter matches itself.
LEMMA SegmentIs ==
  ASSUME NEW s, NEW q, SegmentMatches(s, q), s # Param
  PROVE  s = q
  BY DEF SegmentMatches

LEMMA SegmentItself ==
  ASSUME NEW s
  PROVE  SegmentMatches(s, s)
  BY DEF SegmentMatches

\* What a route matches.
RouteFits(p, u) ==
  /\ HasRest(p) =>
       /\ Len(u) > Len(p) - 1
       /\ Len(u) > Len(p) - 1 + 1 \/ u[Len(p) - 1 + 1] # Ending
       /\ \A i \in 1 .. Len(p) - 1 : SegmentMatches(p[i], u[i])
  /\ ~HasRest(p) => Len(p) = Len(u) /\ \A i \in DOMAIN u : SegmentMatches(p[i], u[i])

LEMMA RouteFit ==
  ASSUME NEW p, NEW u
  PROVE  RouteMatches(p, u) <=> RouteFits(p, u)
  BY DEF RouteMatches, RouteFits, Ending

\* The segments of a path that is a pattern's base match only themselves.
LEMMA LiteralsMatch ==
  ASSUME NEW p \in Seq(Segments), NEW u \in Seq(Segments), RouteMatches(p, u),
         NEW b \in Seq(Segments), Heads(b, p), \A k \in 1 .. Len(b) : b[k] \notin Braced
  PROVE  Heads(b, u)
<1>1. PICK N \in Nat, M \in Nat, B \in Nat : N = Len(p) /\ M = Len(u) /\ B = Len(b)
  OBVIOUS
<1>2. B <= N /\ \A k \in 1 .. B : b[k] = p[k] /\ p[k] # Param /\ p[k] # Rest
  BY <1>1 DEF Heads, Braced
<1>3. CASE HasRest(p)
  <2>1. N > 0 /\ p[N] = Rest
    BY <1>1, <1>3 DEF HasRest
  <2>2. B <= N - 1
    BY <1>2, <2>1
  <2>3. M > N - 1 /\ \A i \in 1 .. N - 1 : SegmentMatches(p[i], u[i])
    BY <1>1, <1>3, RouteFit DEF RouteFits
  <2>4. \A k \in 1 .. B : b[k] = u[k]
    <3>1. \A k \in 1 .. B : k \in 1 .. N - 1
      BY <2>2
    <3>2. QED
      BY <1>2, <2>3, <3>1, SegmentIs
  <2>5. QED
    BY <1>1, <2>2, <2>3, <2>4 DEF Heads
<1>4. CASE ~HasRest(p)
  <2>1. M = N /\ \A i \in 1 .. M : SegmentMatches(p[i], u[i])
    BY <1>1, <1>4, RouteFit DEF RouteFits
  <2>2. \A k \in 1 .. B : b[k] = u[k]
    <3>1. \A k \in 1 .. B : k \in 1 .. M
      BY <1>2, <2>1
    <3>2. QED
      BY <1>2, <2>1, <3>1, SegmentIs
  <2>3. QED
    BY <1>1, <1>2, <2>1, <2>2 DEF Heads
<1>5. QED
  BY <1>3, <1>4

\* A route without braces matches its own path, and no other.
LEMMA LiteralMatches ==
  ASSUME NEW p \in Seq(Segments), NEW u \in Seq(Segments), RouteMatches(p, u), ~IsPattern(p)
  PROVE  p = u
<1>1. PICK N \in Nat : N = Len(p) /\ DOMAIN p = 1 .. N
  OBVIOUS
<1>2. \A k \in 1 .. N : p[k] # Param /\ p[k] # Rest
  BY <1>1 DEF IsPattern
<1>3. ~HasRest(p)
  BY <1>1, <1>2 DEF HasRest
<1>4. Len(u) = N /\ \A i \in 1 .. N : SegmentMatches(p[i], u[i])
  BY <1>1, <1>3, RouteFit DEF RouteFits
<1>5. \A i \in 1 .. N : p[i] = u[i]
  BY <1>2, <1>4, SegmentIs
<1>6. QED
  BY <1>1, <1>4, <1>5

LEMMA MatchesItself ==
  ASSUME NEW u \in Seq(Segments)
  PROVE  RouteMatches(u, u)
<1>1. PICK N \in Nat : N = Len(u) /\ DOMAIN u = 1 .. N
  OBVIOUS
<1>2. CASE HasRest(u)
  <2>1. N > 0 /\ u[N] = Rest /\ N - 1 + 1 = N
    BY <1>1, <1>2 DEF HasRest
  <2>2. u[N] # Ending
    BY <2>1, ThreeSegments
  <2>3. PICK n \in Nat : n = Len(u) - 1
    BY <1>1, <2>1
  <2>4. Len(u) > n /\ u[n + 1] # Ending
    BY <1>1, <2>1, <2>2, <2>3
  <2>5. \A i \in 1 .. n : SegmentMatches(u[i], u[i])
    BY SegmentItself
  <2>6. QED
    BY <1>2, <2>3, <2>4, <2>5, RouteFit DEF RouteFits
<1>3. CASE ~HasRest(u)
  BY <1>1, <1>3, SegmentItself, RouteFit DEF RouteFits
<1>4. QED
  BY <1>2, <1>3

\* The path of a route without its catch-all, with and without a slash.
BareIs(q, p) ==
  /\ q \in Seq(Segments) /\ p # <<>> /\ p[Len(p)] = Rest
  /\ \A k \in 1 .. Len(p) - 1 : q[k] = p[k]
  /\ Len(q) = Len(p) - 1 \/ (Len(q) = Len(p) /\ q[Len(p)] = Ending)

\* A path of segments, with a catch-all at most at its end.
Path(p) == p \in Seq(Segments) /\ \A k \in 1 .. Len(p) - 1 : p[k] # Rest

\* What the router does to the path of static files leaves a path.
LEMMA RoutePathIs ==
  ASSUME NEW e, Path(e.path)
  PROVE  Path(RoutePath(e)) /\ (e.action = "static_files" => HasRest(RoutePath(e)))
<1>1. CASE e.action = "static_files" /\ ~HasRest(e.path)
  <2>1. PICK p \in Seq(Segments), N \in Nat : p = e.path /\ N = Len(p)
    BY DEF Path
  <2>2. \A k \in 1 .. N : p[k] # Rest
    BY <1>1, <2>1 DEF Path, HasRest
  <2>3. PICK t : t = Trimmed(p)
    OBVIOUS
  <2>4. t = IF p # <<>> /\ p[Len(p)] = Ending THEN SubSeq(p, 1, Len(p) - 1) ELSE p
    BY <2>3 DEF Trimmed, Ending
  <2>5. PICK M \in Nat : t \in Seq(Segments) /\ Len(t) = M /\ M <= N /\ \A k \in 1 .. M : t[k] = p[k]
    <3>1. CASE p # <<>> /\ p[Len(p)] = Ending
      <4>1. t = SubSeq(p, 1, N - 1) /\ N >= 1
        BY <2>1, <2>4, <3>1
      <4>2. \A k \in 1 .. N - 1 : p[k] \in Segments
        BY <2>1
      <4>3. Portion(t, p, 1, N - 1, Segments)
        BY <4>1, <4>2, SubSeqIs
      <4>4. QED
        BY <4>1, <4>3 DEF Portion
    <3>2. CASE ~(p # <<>> /\ p[Len(p)] = Ending)
      BY <2>1, <2>4, <3>2
    <3>3. QED
      BY <3>1, <3>2
  <2>6. RoutePath(e) = Append(t, Rest)
    BY <1>1, <2>1, <2>3 DEF RoutePath
  <2>7. Rest \in Segments
    BY DEF Segments
  <2>8. PICK r \in Seq(Segments) : r = RoutePath(e) /\ Len(r) = M + 1 /\ r[M + 1] = Rest /\ \A k \in 1 .. M : r[k] = t[k]
    BY <2>5, <2>6, <2>7
  <2>9. Path(r)
    BY <2>2, <2>5, <2>8 DEF Path
  <2>10. HasRest(r)
    BY <2>5, <2>8 DEF HasRest
  <2>11. QED
    BY <2>8, <2>9, <2>10
<1>2. CASE ~(e.action = "static_files" /\ ~HasRest(e.path))
  BY <1>2 DEF RoutePath
<1>3. QED
  BY <1>1, <1>2

\* The bare paths of a catch-all are that.
LEMMA BarePathsOf ==
  ASSUME NEW e, NEW p, p = RoutePath(e), NEW b, b = SubSeq(p, 1, Len(p) - 1), NEW q \in BarePaths(e)
  PROVE  HasRest(p) /\ (q = b \/ q = Append(b, Ending) \/ (b = <<>> /\ q = <<Ending>>))
  BY DEF BarePaths, Ending

LEMMA BarePathsAre ==
  ASSUME NEW e, Path(RoutePath(e)), NEW q \in BarePaths(e)
  PROVE  BareIs(q, RoutePath(e))
<1>1. PICK p \in Seq(Segments), N \in Nat : p = RoutePath(e) /\ N = Len(p)
  BY DEF Path
<1>2. PICK b : b = SubSeq(p, 1, N - 1)
  OBVIOUS
<1>3. HasRest(p) /\ (q = b \/ q = Append(b, Ending) \/ (b = <<>> /\ q = <<Ending>>))
  BY <1>1, <1>2, BarePathsOf
<1>4. N >= 1 /\ p[N] = Rest /\ p # <<>>
  BY <1>1, <1>3 DEF HasRest
<1>5. \A k \in 1 .. N - 1 : p[k] \in Segments
  BY <1>1
<1>6. Portion(b, p, 1, N - 1, Segments)
  BY <1>2, <1>4, <1>5, SubSeqIs
<1>7. b \in Seq(Segments) /\ Len(b) = N - 1 /\ \A k \in 1 .. N - 1 : b[k] = p[k]
  BY <1>4, <1>6 DEF Portion
<1>8. Ending \in Segments
  BY DEF Segments
<1>9. CASE q = b
  BY <1>1, <1>4, <1>7, <1>9 DEF BareIs
<1>10. CASE q = Append(b, Ending)
  <2>1. q \in Seq(Segments) /\ Len(q) = N /\ q[N] = Ending /\ \A k \in 1 .. N - 1 : q[k] = p[k]
    BY <1>4, <1>7, <1>8, <1>10
  <2>2. QED
    BY <1>1, <1>4, <2>1 DEF BareIs
<1>11. CASE b = <<>> /\ q = <<Ending>>
  <2>1. q \in Seq(Segments) /\ Len(q) = 1 /\ q[1] = Ending
    BY <1>8, <1>11
  <2>2. N = 1
    BY <1>4, <1>7, <1>11
  <2>3. QED
    BY <1>1, <1>4, <2>1, <2>2 DEF BareIs
<1>12. QED
  BY <1>3, <1>9, <1>10, <1>11

\* A bare path lies below the base of its pattern.
LEMMA BareBelowBase ==
  ASSUME NEW p \in Seq(Segments), NEW q, BareIs(q, p), NEW b, BaseIs(b, p)
  PROVE  Heads(b, q)
<1>1. PICK N \in Nat, M \in Nat, B \in Nat : N = Len(p) /\ M = Len(q) /\ B = Len(b)
  BY DEF BareIs, BaseIs
<1>2. B <= N - 1 /\ M >= N - 1 /\ (\A k \in 1 .. B : b[k] = p[k]) /\ \A k \in 1 .. N - 1 : q[k] = p[k]
  BY <1>1 DEF BareIs, BaseIs, Heads
<1>3. B <= M /\ \A k \in 1 .. B : k \in 1 .. N - 1
  BY <1>2
<1>4. QED
  BY <1>1, <1>2, <1>3 DEF Heads

\* A bare path has no catch-all, so it matches paths of its length.
LEMMA BareMatches ==
  ASSUME NEW p, Path(p), NEW q, BareIs(q, p), NEW u \in Seq(Segments), RouteMatches(q, u)
  PROVE  Len(q) = Len(u) /\ \A i \in 1 .. Len(u) : SegmentMatches(q[i], u[i])
<1>1. PICK N \in Nat, M \in Nat : N = Len(p) /\ M = Len(q) /\ p \in Seq(Segments)
  BY DEF BareIs, Path
<1>2. \A k \in 1 .. N - 1 : q[k] # Rest
  BY <1>1 DEF BareIs, Path
<1>3. ~HasRest(q)
  <2>1. q # <<>> => M >= 1
    BY <1>1 DEF BareIs
  <2>2. CASE M = N - 1
    BY <1>1, <1>2, <2>1, <2>2 DEF HasRest
  <2>3. CASE M = N /\ q[N] = Ending
    <3>1. QED
      BY <1>1, <2>3, ThreeSegments DEF HasRest
  <2>4. QED
    BY <1>1, <2>2, <2>3 DEF BareIs
<1>4. DOMAIN u = 1 .. Len(u)
  OBVIOUS
<1>5. QED
  BY <1>3, <1>4, RouteFit DEF RouteFits

\* No path matches a pattern and one of its bare paths, nor both of these.
LEMMA BareAlone ==
  ASSUME NEW p, Path(p), NEW q, BareIs(q, p), NEW u \in Seq(Segments), RouteMatches(q, u)
  PROVE  /\ ~RouteMatches(p, u)
         /\ \A r : BareIs(r, p) /\ RouteMatches(r, u) => r = q
<1>1. PICK N \in Nat, M \in Nat : N = Len(p) /\ M = Len(u) /\ p \in Seq(Segments)
  BY DEF BareIs, Path
<1>2. Len(q) = M /\ \A i \in 1 .. M : SegmentMatches(q[i], u[i])
  BY <1>1, BareMatches
<1>3. N >= 1 /\ HasRest(p)
  BY <1>1 DEF BareIs, HasRest
<1>4. ASSUME RouteMatches(p, u) PROVE FALSE
  <2>1. PICK n \in Nat : n = N - 1
    BY <1>3
  <2>2. M > n /\ (M > n + 1 \/ u[n + 1] # Ending)
    BY <1>1, <1>3, <1>4, <2>1, RouteFit DEF RouteFits
  <2>3. M = N /\ q[N] = Ending
    BY <1>1, <1>2, <2>1, <2>2 DEF BareIs
  <2>4. u[N] = Ending
    <3>1. Ending # Param
      BY ThreeSegments
    <3>2. N \in 1 .. M
      BY <1>3, <2>3
    <3>3. QED
      BY <1>2, <2>3, <3>1, <3>2, SegmentIs
  <2>5. QED
    BY <2>1, <2>2, <2>3, <2>4
<1>5. ASSUME NEW r, BareIs(r, p), RouteMatches(r, u) PROVE r = q
  <2>1. Len(r) = M
    BY <1>1, <1>5, BareMatches
  <2>2. r \in Seq(Segments) /\ q \in Seq(Segments)
    BY <1>5 DEF BareIs
  <2>3. \A k \in 1 .. M : r[k] = q[k]
    BY <1>1, <1>2, <1>5, <2>1 DEF BareIs
  <2>4. QED
    BY <1>2, <2>1, <2>2, <2>3
<1>6. QED
  BY <1>4, <1>5

PathOf(i) == RoutePath(Endpoint(i))

Lists(i, m) == m \in Endpoint(i).methods

\* An endpoint's pattern starts with a part of the path.
Around(i, u) == IsPattern(PathOf(i)) /\ Heads(PatternBase(PathOf(i)), u)

\* The paths of the endpoints are paths.
LEMMA EndpointPaths ==
  ASSUME site \in Sites, NEW i \in Endpoints
  PROVE  /\ Path(PathOf(i)) /\ PathOf(i) \in Seq(Segments) /\ ~Lists(i, AnyMethod)
         /\ Endpoint(i).action = "static_files" => HasRest(PathOf(i))
<1>1. PICK e : e = Endpoint(i)
  OBVIOUS
<1>2. /\ e.path \in Seq(STRING) /\ AnyMethod \notin e.methods
      /\ \A k \in 1 .. Len(e.path) - 1 : e.path[k] # Rest
  BY <1>1, RoutesAssumption DEF Endpoint, Endpoints
<1>3. Path(e.path)
  BY <1>2, PathsHaveSegments DEF Path
<1>4. QED
  BY <1>1, <1>2, <1>3, RoutePathIs DEF PathOf, Lists, Path

LEMMA KeysAre ==
  ASSUME NEW e, NEW p, NEW m, <<p, m>> \in ConfigKeys(e)
  PROVE  \/ p = RoutePath(e) /\ m \in e.methods
         \/ m = AnyMethod /\ e.action = "static_files" /\ p \in BarePaths(e)
  BY DEF ConfigKeys

LEMMA ListedKeys ==
  ASSUME NEW e, NEW m \in e.methods
  PROVE  <<RoutePath(e), m>> \in ConfigKeys(e) /\ <<RoutePath(e), m>> \in RoutesOf(e)
  BY DEF ConfigKeys, RoutesOf

LEMMA RoutesAre ==
  ASSUME NEW e, NEW p, NEW m, <<p, m>> \in RoutesOf(e)
  PROVE  \/ p = RoutePath(e) /\ m \in e.methods
         \/ p \in BarePaths(e)
  BY DEF RoutesOf

\* A route is one endpoint's.
LEMMA OneOwner ==
  ASSUME site \in Sites, NEW i \in Endpoints, NEW j \in Endpoints,
         NEW r, r \in RoutesOf(Endpoint(i)), r \in RoutesOf(Endpoint(j))
  PROVE  i = j
  BY RoutesAssumption DEF Endpoint, Endpoints

LEMMA OneLists ==
  ASSUME site \in Sites, NEW i \in Endpoints, NEW j \in Endpoints, NEW m,
         PathOf(i) = PathOf(j), Lists(i, m), Lists(j, m)
  PROVE  i = j
  BY OneOwner, ListedKeys DEF PathOf, Lists

\* What the map of configurations has for a key is an endpoint with that key.
LEMMA ConfigFinds ==
  ASSUME site \in Sites, NEW key
  PROVE  \/ ConfigOf(key) = Unset /\ \A i \in Endpoints : key \notin ConfigKeys(Endpoint(i))
         \/ ConfigOf(key) # Unset /\ ConfigOf(key) \in Endpoints /\ key \in ConfigKeys(Endpoint(ConfigOf(key)))
<1>1. PICK N \in Nat : Endpoints = 1 .. N
  BY SitesAssumption DEF Endpoints
<1>2. Unset \notin Endpoints
  BY SitesAssumption DEF Endpoints
<1> DEFINE with == {i \in Endpoints : key \in ConfigKeys(site.endpoints[i])}
<1>3. ConfigOf(key) = IF with = {} THEN Unset ELSE Max(with)
  BY DEF ConfigOf
<1>4. with \in SUBSET (1 .. N)
  BY <1>1
<1>5. with # {} => Max(with) \in with
  <2> HIDE DEF with
  <2>1. QED
    BY <1>4, GreatestNumber
<1>6. \A i : i \in with <=> i \in Endpoints /\ key \in ConfigKeys(Endpoint(i))
  BY DEF Endpoint
<1> HIDE DEF with
<1>7. QED
  BY <1>2, <1>3, <1>5, <1>6

\* For a path and a method that is an endpoint with the one and the other,
LEMMA ExactFinds ==
  ASSUME site \in Sites, NEW p, NEW m, m # AnyMethod, ConfigOf(<<p, m>>) # Unset
  PROVE  /\ ConfigOf(<<p, m>>) \in Endpoints /\ p = PathOf(ConfigOf(<<p, m>>))
         /\ Lists(ConfigOf(<<p, m>>), m)
<1>1. PICK c : c = ConfigOf(<<p, m>>)
  OBVIOUS
<1>2. c \in Endpoints /\ <<p, m>> \in ConfigKeys(Endpoint(c))
  BY <1>1, ConfigFinds
<1>3. QED
  BY <1>1, <1>2, KeysAre DEF PathOf, Lists

\* the only one.
LEMMA ExactIs ==
  ASSUME site \in Sites, NEW i \in Endpoints, NEW m, Lists(i, m)
  PROVE  ConfigOf(<<PathOf(i), m>>) = i
<1>1. PICK c : c = ConfigOf(<<PathOf(i), m>>)
  OBVIOUS
<1>2. m # AnyMethod
  BY EndpointPaths
<1>3. <<PathOf(i), m>> \in ConfigKeys(Endpoint(i))
  BY ListedKeys DEF PathOf, Lists
<1>4. c # Unset
  BY <1>1, <1>3, ConfigFinds
<1>5. c \in Endpoints /\ PathOf(i) = PathOf(c) /\ Lists(c, m)
  BY <1>1, <1>2, <1>4, ExactFinds
<1>6. QED
  BY <1>1, <1>5, OneLists

\* Patterns that are apart are not around one path, unless they are the same.
LEMMA OneAround ==
  ASSUME site \in Sites, Apart, NEW u \in Seq(Segments), NEW i \in Endpoints, NEW j \in Endpoints,
         Around(i, u), Around(j, u)
  PROVE  PathOf(i) = PathOf(j)
<1>1. PICK p \in Seq(Segments), q \in Seq(Segments) : p = PathOf(i) /\ q = PathOf(j)
  BY EndpointPaths
<1>2. IsPattern(p) /\ IsPattern(q) /\ Heads(PatternBase(p), u) /\ Heads(PatternBase(q), u)
  BY <1>1 DEF Around
<1>3. PatternBase(p) \in Seq(Segments) /\ PatternBase(q) \in Seq(Segments)
  BY <1>2, PatternHasBase DEF BaseIs
<1>4. IsPrefix(PatternBase(p), PatternBase(q)) \/ IsPrefix(PatternBase(q), PatternBase(p))
  BY <1>2, <1>3, HeadsOfOne
<1>5. /\ p # q /\ IsPattern(p) /\ IsPattern(q) => ~IsPrefix(PatternBase(p), PatternBase(q))
      /\ q # p /\ IsPattern(q) /\ IsPattern(p) => ~IsPrefix(PatternBase(q), PatternBase(p))
  BY <1>1 DEF Apart, PathOf
<1>6. QED
  BY <1>1, <1>2, <1>4, <1>5

LEMMA OneListsAround ==
  ASSUME site \in Sites, Apart, NEW u \in Seq(Segments), NEW m, NEW i \in Endpoints, NEW j \in Endpoints,
         Around(i, u), Around(j, u), Lists(i, m), Lists(j, m)
  PROVE  i = j
  BY OneAround, OneLists

\* A catch-all is a pattern.
LEMMA RestIsPattern ==
  ASSUME NEW p \in Seq(Segments), HasRest(p)
  PROVE  IsPattern(p)
<1>1. PICK N \in Nat : N = Len(p) /\ DOMAIN p = 1 .. N /\ N > 0
  BY DEF HasRest
<1>2. N \in DOMAIN p /\ p[N] = Rest
  BY <1>1 DEF HasRest
<1>3. QED
  BY <1>2 DEF IsPattern

\* The pattern of a bare path is around all that is below that path.
LEMMA BareAround ==
  ASSUME site \in Sites, NEW i \in Endpoints, NEW q \in BarePaths(Endpoint(i)), NEW u, Heads(q, u)
  PROVE  Around(i, u) /\ BareIs(q, PathOf(i)) /\ HasRest(PathOf(i))
<1>1. PICK p \in Seq(Segments) : p = PathOf(i) /\ Path(p)
  BY EndpointPaths
<1>2. BareIs(q, p) /\ q \in Seq(Segments)
  BY <1>1, BarePathsAre DEF PathOf, BareIs
<1>3. HasRest(p)
  BY <1>1, BarePathsOf DEF PathOf
<1>4. IsPattern(p)
  BY <1>3, RestIsPattern
<1>5. BaseIs(PatternBase(p), p)
  BY <1>4, PatternHasBase
<1>6. PICK b \in Seq(Segments) : b = PatternBase(p) /\ Heads(b, q)
  BY <1>2, <1>5, BareBelowBase DEF BaseIs
<1>7. Len(b) \in Nat /\ Len(q) \in Nat
  BY <1>2
<1>8. Heads(b, u)
  <2>1. Len(b) <= Len(q) /\ Len(q) <= Len(u) /\ (\A k \in 1 .. Len(b) : b[k] = q[k]) /\ \A k \in 1 .. Len(q) : q[k] = u[k]
    BY <1>6 DEF Heads
  <2>2. \A k \in 1 .. Len(b) : k \in 1 .. Len(q)
    BY <1>7, <2>1
  <2>3. Len(b) <= Len(u)
    BY <1>7, <2>1
  <2>4. QED
    BY <2>1, <2>2, <2>3 DEF Heads
<1>9. QED
  BY <1>1, <1>2, <1>3, <1>4, <1>6, <1>8 DEF Around

\* What a prefix of the path finds lists the method, and is around the path.
LEMMA PrefixFinds ==
  ASSUME site \in Sites, NEW u \in Seq(Segments), NEW m, NEW n \in PrefixMatches(u, m),
         NEW i, i = ConfigOf(<<SubSeq(u, 1, n), AnyMethod>>)
  PROVE  i \in Endpoints /\ i # Unset /\ Lists(i, m) /\ Around(i, u)
<1>1. n \in 1 .. Len(u) /\ i # Unset /\ MethodCheck(i, m)
  BY DEF PrefixMatches
<1>2. PICK q : q = SubSeq(u, 1, n)
  OBVIOUS
<1>3. i \in Endpoints /\ <<q, AnyMethod>> \in ConfigKeys(Endpoint(i))
  BY <1>1, <1>2, ConfigFinds
<1>4. q \in BarePaths(Endpoint(i))
  BY <1>3, KeysAre, EndpointPaths DEF Lists
<1>5. \A k \in 1 .. n : u[k] \in Segments
  BY <1>1
<1>6. Portion(q, u, 1, n, Segments)
  BY <1>1, <1>2, <1>5, SubSeqIs
<1>7. Len(q) = n /\ \A k \in 1 .. n : q[k] = u[k]
  BY <1>1, <1>6 DEF Portion
<1>8. Heads(q, u)
  <2>1. n \in Nat /\ n <= Len(u)
    BY <1>1
  <2>2. QED
    BY <1>7, <2>1 DEF Heads
<1>9. Around(i, u)
  BY <1>3, <1>4, <1>8, BareAround
<1>10. QED
  BY <1>1, <1>3, <1>9 DEF MethodCheck, Lists, Endpoint

\* So does a pattern, and all these are found.
LEMMA WildcardsFind ==
  ASSUME site \in Sites, NEW u \in Seq(Segments), NEW m, NEW i
  PROVE  i \in WildcardMatches(u, m) <=> i \in Endpoints /\ Lists(i, m) /\ Around(i, u)
<1>1. ASSUME i \in Endpoints, IsPattern(PathOf(i))
      PROVE  IsPrefix(PatternBase(PathOf(i)), u) <=> Heads(PatternBase(PathOf(i)), u)
  <2>1. PatternBase(PathOf(i)) \in Seq(Segments)
    BY <1>1, EndpointPaths, PatternHasBase DEF BaseIs
  <2>2. QED
    BY <2>1, PrefixHeads
<1>2. i \in Endpoints /\ Lists(i, m) => ConfigOf(<<PathOf(i), m>>) = i
  BY ExactIs
<1>3. i \in WildcardMatches(u, m) <=>
        /\ i \in Endpoints /\ \E o \in Endpoint(i).methods : ConfigOf(<<PathOf(i), o>>) = i
        /\ IsPattern(PathOf(i)) /\ IsPrefix(PatternBase(PathOf(i)), u) /\ Lists(i, m)
  BY DEF WildcardMatches, PathOf, Endpoint, MethodCheck, Lists
<1>4. QED
  BY <1>1, <1>2, <1>3 DEF Around, Lists

\* The first of some endpoints is one of them.
LEMMA FirstIsOne ==
  ASSUME site \in Sites, hashOrder \in [Endpoints -> Endpoints], NEW W \in SUBSET Endpoints, W # {}
  PROVE  FirstOf(W) \in W
<1>1. PICK N \in Nat : Endpoints = 1 .. N
  BY SitesAssumption DEF Endpoints
<1> DEFINE S == {hashOrder[i] : i \in W}
<1>2. \A i \in W : hashOrder[i] \in Nat
  BY <1>1
<1>3. S \in SUBSET Nat /\ S # {}
  BY <1>2
<1>4. PICK n \in S : \A m \in S : n <= m
  <2> HIDE DEF S
  <2>1. QED
    BY <1>3, LeastNumber
<1>5. PICK i \in W : \A j \in W : hashOrder[i] <= hashOrder[j]
  BY <1>4
<1>6. QED
  BY <1>5 DEF FirstOf

\* A look-up finds an endpoint or none.
LEMMA LookUpFinds ==
  ASSUME site \in Sites, hashOrder \in [Endpoints -> Endpoints], NEW path, NEW method
  PROVE  GetEndpointConfigForMethod(path, method) \in Endpoints \cup {Unset}
<1>1. \A key : ConfigOf(key) \in Endpoints \cup {Unset}
  BY ConfigFinds
<1>2. WildcardMatches(path, method) \in SUBSET Endpoints
  BY DEF WildcardMatches
<1>3. QED
  BY <1>1, <1>2, FirstIsOne DEF GetEndpointConfigForMethod

\* Where no endpoint has the path itself, what is found lists the method and is
\* around the path;
LEMMA FoundAround ==
  ASSUME site \in Sites, hashOrder \in [Endpoints -> Endpoints], NEW u \in Seq(Segments), NEW m,
         ConfigOf(<<u, m>>) = Unset, NEW i, i = GetEndpointConfigForMethod(u, m), i # Unset
  PROVE  i \in Endpoints /\ Lists(i, m) /\ Around(i, u)
<1>1. PICK P, W : P = PrefixMatches(u, m) /\ W = WildcardMatches(u, m)
  OBVIOUS
<1>2. i = IF P # {} THEN ConfigOf(<<SubSeq(u, 1, Max(P)), AnyMethod>>)
          ELSE IF W # {} THEN FirstOf(W) ELSE Unset
  BY <1>1 DEF GetEndpointConfigForMethod
<1>3. CASE P # {}
  <2>1. PICK N \in Nat : N = Len(u)
    OBVIOUS
  <2>2. P \in SUBSET (1 .. N)
    BY <1>1, <2>1 DEF PrefixMatches
  <2>3. Max(P) \in P
    BY <1>3, <2>2, GreatestNumber
  <2>4. QED
    BY <1>1, <1>2, <1>3, <2>3, PrefixFinds
<1>4. CASE P = {}
  <2>1. W # {} /\ i = FirstOf(W)
    BY <1>2, <1>4
  <2>2. W \in SUBSET Endpoints
    BY <1>1 DEF WildcardMatches
  <2>3. i \in W
    BY <2>1, <2>2, FirstIsOne
  <2>4. QED
    BY <1>1, <2>3, WildcardsFind
<1>5. QED
  BY <1>3, <1>4

\* and whatever lists the method and is around the path is found.
LEMMA AroundIsFound ==
  ASSUME site \in Sites, hashOrder \in [Endpoints -> Endpoints], Apart, NEW u \in Seq(Segments), NEW m,
         NEW i \in Endpoints, Lists(i, m), Around(i, u), ConfigOf(<<u, m>>) \in {Unset, i}
  PROVE  GetEndpointConfigForMethod(u, m) = i
<1>1. CASE ConfigOf(<<u, m>>) # Unset
  BY <1>1 DEF GetEndpointConfigForMethod
<1>2. CASE ConfigOf(<<u, m>>) = Unset
  <2>1. PICK g : g = GetEndpointConfigForMethod(u, m)
    OBVIOUS
  <2>2. g # Unset
    <3>1. PICK P, W : P = PrefixMatches(u, m) /\ W = WildcardMatches(u, m)
      OBVIOUS
    <3>2. g = IF P # {} THEN ConfigOf(<<SubSeq(u, 1, Max(P)), AnyMethod>>)
              ELSE IF W # {} THEN FirstOf(W) ELSE Unset
      BY <1>2, <2>1, <3>1 DEF GetEndpointConfigForMethod
    <3>3. W # {} /\ W \in SUBSET Endpoints
      BY <3>1, WildcardsFind DEF WildcardMatches
    <3>4. Unset \notin Endpoints
      BY SitesAssumption DEF Endpoints
    <3>5. P = {} => g \in Endpoints
      BY <3>2, <3>3, FirstIsOne
    <3>6. ASSUME P # {} PROVE g # Unset
      <4>1. PICK N \in Nat : N = Len(u)
        OBVIOUS
      <4>2. P \in SUBSET (1 .. N)
        BY <3>1, <4>1 DEF PrefixMatches
      <4>3. Max(P) \in P
        BY <3>6, <4>2, GreatestNumber
      <4>4. QED
        BY <3>1, <3>2, <3>6, <4>3, PrefixFinds
    <3>7. QED
      BY <3>4, <3>5, <3>6
  <2>3. g \in Endpoints /\ Lists(g, m) /\ Around(g, u)
    BY <1>2, <2>1, <2>2, FoundAround
  <2>4. QED
    BY <2>1, <2>3, OneListsAround
<1>3. QED
  BY <1>1, <1>2

\* Where a pattern comes from.
ComesFrom(p, i) == p = PathOf(i) \/ p \in BarePaths(Endpoint(i))

LEMMA PatternsComeFrom ==
  ASSUME site \in Sites, NEW p \in Patterns
  PROVE  p \in Seq(Segments) /\ \E i \in Endpoints : ComesFrom(p, i)
<1>1. PICK r \in UNION {RoutesOf(site.endpoints[i]) : i \in Endpoints} : p = r[1]
  BY DEF Patterns
<1>2. PICK i \in Endpoints : r \in RoutesOf(Endpoint(i))
  BY <1>1 DEF Endpoint
<1>3. PICK q, m : r = <<q, m>>
  BY <1>2 DEF RoutesOf
<1>4. p = q
  BY <1>1, <1>3
<1>5. ComesFrom(p, i)
  BY <1>2, <1>3, <1>4, RoutesAre DEF ComesFrom, PathOf
<1>6. p \in Seq(Segments)
  BY <1>5, EndpointPaths, BarePathsAre DEF ComesFrom, PathOf, BareIs
<1>7. QED
  BY <1>5, <1>6

LEMMA RoutesArePatterns ==
  ASSUME NEW i \in Endpoints, NEW p, NEW m, <<p, m>> \in RoutesOf(Endpoint(i))
  PROVE  p \in Patterns
<1>1. <<p, m>>[1] = p
  OBVIOUS
<1>2. <<p, m>> \in UNION {RoutesOf(site.endpoints[j]) : j \in Endpoints}
  BY DEF Endpoint
<1>3. QED
  BY <1>1, <1>2 DEF Patterns

\* The endpoint of a pattern that matches a path is around both.
LEMMA MatchAround ==
  ASSUME site \in Sites, NEW p \in Seq(Segments), NEW u \in Seq(Segments), NEW i \in Endpoints,
         ComesFrom(p, i), IsPattern(p)
  PROVE  Around(i, p) /\ (RouteMatches(p, u) => Around(i, u))
<1>1. PICK r \in Seq(Segments) : r = PathOf(i) /\ Path(r)
  BY EndpointPaths
<1>2. Len(p) \in Nat /\ Heads(p, p)
  BY DEF Heads
<1>3. IsPattern(r)
  BY <1>1, <1>2, BareAround DEF ComesFrom, Around
<1>4. BaseIs(PatternBase(r), r)
  BY <1>3, PatternHasBase
<1>5. Around(i, p)
  <2>1. CASE p = r
    BY <1>1, <1>3, <1>4, <2>1 DEF Around, BaseIs
  <2>2. CASE p \in BarePaths(Endpoint(i))
    BY <1>2, <2>2, BareAround
  <2>3. QED
    BY <1>1, <2>1, <2>2 DEF ComesFrom
<1>6. PICK b \in Seq(Segments) : b = PatternBase(r) /\ Heads(b, p) /\ \A k \in 1 .. Len(b) : b[k] \notin Braced
  BY <1>1, <1>4, <1>5 DEF Around, BaseIs
<1>7. RouteMatches(p, u) => Heads(b, u)
  BY <1>6, LiteralsMatch
<1>8. QED
  BY <1>1, <1>3, <1>5, <1>6, <1>7 DEF Around

\* Of the patterns with a brace one matches a path at most.
LEMMA PatternsMatchOnce ==
  ASSUME site \in Sites, Apart, NEW u \in Seq(Segments), NEW p \in Patterns, NEW q \in Patterns,
         IsPattern(p), IsPattern(q), RouteMatches(p, u), RouteMatches(q, u)
  PROVE  p = q
<1>1. PICK i \in Endpoints : ComesFrom(p, i) /\ p \in Seq(Segments)
  BY PatternsComeFrom
<1>2. PICK j \in Endpoints : ComesFrom(q, j) /\ q \in Seq(Segments)
  BY PatternsComeFrom
<1>3. Around(i, u) /\ Around(j, u)
  BY <1>1, <1>2, MatchAround
<1>4. PICK r \in Seq(Segments) : r = PathOf(i) /\ r = PathOf(j) /\ Path(r)
  BY <1>3, OneAround, EndpointPaths
<1>5. p = r \/ BareIs(p, r)
  BY <1>1, <1>4, BarePathsAre DEF ComesFrom, PathOf
<1>6. q = r \/ BareIs(q, r)
  BY <1>2, <1>4, BarePathsAre DEF ComesFrom, PathOf
<1>7. CASE BareIs(p, r)
  BY <1>4, <1>6, <1>7, BareAlone
<1>8. CASE BareIs(q, r)
  BY <1>4, <1>5, <1>8, BareAlone
<1>9. QED
  BY <1>5, <1>6, <1>7, <1>8

\* A path that has a route of its own goes before every other that matches it.
LEMMA LiteralGoesFirst ==
  ASSUME NEW u \in Seq(Segments), NEW q \in Seq(Segments), ~IsPattern(u), RouteMatches(q, u), q # u
  PROVE  GoesBefore(u, q) /\ ~GoesBefore(q, u)
<1>1. PICK N \in Nat, M \in Nat : /\ N = Len(q) /\ M = Len(u) /\ DOMAIN q = 1 .. N /\ DOMAIN u = 1 .. M
                                 /\ N <= M
  <2>1. CASE HasRest(q)
    BY <2>1, RouteFit DEF RouteFits
  <2>2. CASE ~HasRest(q)
    BY <2>2, RouteFit DEF RouteFits
  <2>3. QED
    BY <2>1, <2>2
<1> DEFINE differ == {k \in DOMAIN u \cap DOMAIN q : u[k] # q[k]}
<1>2. ASSUME NEW k \in differ PROVE u[k] \notin Braced /\ q[k] \in Braced
  <2>1. k \in 1 .. N /\ k \in 1 .. M /\ u[k] # q[k]
    BY <1>1
  <2>2. u[k] \notin Braced
    BY <1>1, <2>1 DEF IsPattern, Braced
  <2>3. CASE HasRest(q)
    <3>1. q[N] = Rest
      BY <1>1, <2>3 DEF HasRest
    <3>2. \A i \in 1 .. N - 1 : SegmentMatches(q[i], u[i])
      BY <1>1, <2>3, RouteFit DEF RouteFits
    <3>3. k = N \/ k \in 1 .. N - 1
      BY <2>1
    <3>4. QED
      BY <2>1, <2>2, <3>1, <3>2, <3>3, SegmentIs DEF Braced
  <2>4. CASE ~HasRest(q)
    <3>1. \A i \in 1 .. M : SegmentMatches(q[i], u[i])
      BY <1>1, <2>4, RouteFit DEF RouteFits
    <3>2. QED
      BY <2>1, <2>2, <3>1, SegmentIs DEF Braced
  <2>5. QED
    BY <2>2, <2>3, <2>4
<1>3. differ # {}
  <2>1. IsPattern(q)
    BY LiteralMatches
  <2>2. PICK k \in 1 .. N : q[k] \in Braced
    BY <1>1, <2>1 DEF IsPattern, Braced
  <2>3. k \in 1 .. M
    BY <1>1
  <2>4. u[k] \notin Braced
    BY <1>1, <2>3 DEF IsPattern, Braced
  <2>5. QED
    BY <1>1, <2>2, <2>3, <2>4
<1>4. PICK n : n = Min(differ)
  OBVIOUS
<1>5. n \in differ
  <2>1. differ \in SUBSET Nat
    BY <1>1
  <2> HIDE DEF differ
  <2>2. QED
    BY <1>3, <1>4, <2>1, SmallestNumber
<1>6. u[n] # Rest /\ u[n] # Param /\ (q[n] = Rest \/ q[n] = Param)
  BY <1>2, <1>5 DEF Braced
<1>7. {k \in DOMAIN q \cap DOMAIN u : q[k] # u[k]} = differ
  OBVIOUS
<1> DEFINE Grade(s) == IF s = Rest THEN 3 ELSE IF s = Param THEN 2 ELSE 1
<1>8. /\ GoesBefore(u, q) <=> differ # {} /\ Grade(u[Min(differ)]) < Grade(q[Min(differ)])
      /\ GoesBefore(q, u) <=> differ # {} /\ Grade(q[Min(differ)]) < Grade(u[Min(differ)])
  BY <1>7 DEF GoesBefore
<1>9. Grade(u[n]) = 1 /\ Grade(q[n]) \in {2, 3}
  BY <1>6
<1> HIDE DEF differ, Grade
<1>10. QED
  BY <1>3, <1>4, <1>8, <1>9

\* The pattern that axum finds for a path matches it; it is the path itself, or
\* has a brace and the path is no pattern.
LEMMA MatchedIs ==
  ASSUME site \in Sites, Apart, NEW u \in Seq(Segments), NEW p, p = MatchedPath(u), p # Unset
  PROVE  /\ p \in Patterns /\ RouteMatches(p, u)
         /\ p = u \/ (IsPattern(p) /\ u \notin Patterns)
<1> DEFINE matching == {q \in Patterns : RouteMatches(q, u)}
           best == {q \in matching : \A r \in matching \ {q} : GoesBefore(q, r)}
<1>1. matching # {} /\ p = CHOOSE q \in best : TRUE
  BY DEF MatchedPath
<1>2. best # {} => p \in best
  <2> HIDE DEF best
  <2>1. QED
    BY <1>1
<1>3. \A q \in matching : q \in Patterns /\ q \in Seq(Segments) /\ RouteMatches(q, u)
  BY PatternsComeFrom
<1>4. CASE u \in Patterns /\ ~IsPattern(u)
  <2>1. u \in matching
    BY <1>4, MatchesItself
  <2>2. \A q \in matching \ {u} : GoesBefore(u, q) /\ ~GoesBefore(q, u)
    BY <1>3, <1>4, LiteralGoesFirst
  <2>3. u \in best /\ \A q \in best : q = u
    BY <2>1, <2>2
  <2>4. QED
    BY <1>2, <1>3, <2>1, <2>3
<1>5. CASE ~(u \in Patterns /\ ~IsPattern(u))
  <2>1. \A q \in matching : IsPattern(q)
    BY <1>3, <1>5, LiteralMatches
  <2>2. \A q \in matching, r \in matching : q = r
    BY <1>3, <2>1, PatternsMatchOnce
  <2>3. best = matching
    BY <2>2
  <2>4. p \in matching
    BY <1>1, <1>2, <2>3
  <2>5. u \in Patterns => u \in matching
    BY MatchesItself
  <2>6. QED
    BY <1>3, <2>1, <2>2, <2>4, <2>5
<1>6. QED
  BY <1>4, <1>5

\* The handler's look-up, by the pattern, finds what the middleware's did, by
\* the path;
LEMMA SameFound ==
  ASSUME site \in Sites, hashOrder \in [Endpoints -> Endpoints], Apart, NEW u \in Seq(Segments),
         NEW m, m # AnyMethod, NEW p, p = MatchedPath(u), p # Unset,
         NEW g, g = GetEndpointConfigForMethod(p, m), g # Unset
  PROVE  GetEndpointConfigForMethod(u, m) = g
<1>1. p \in Patterns /\ RouteMatches(p, u) /\ (p = u \/ (IsPattern(p) /\ u \notin Patterns))
  BY MatchedIs
<1>2. CASE p = u
  BY <1>2
<1>3. CASE IsPattern(p) /\ u \notin Patterns
  <2>1. PICK i \in Endpoints : ComesFrom(p, i) /\ p \in Seq(Segments)
    BY <1>1, PatternsComeFrom
  <2>2. Around(i, p) /\ Around(i, u)
    BY <1>1, <1>3, <2>1, MatchAround
  <2>3. ConfigOf(<<u, m>>) = Unset
    <3>1. SUFFICES ASSUME ConfigOf(<<u, m>>) # Unset PROVE FALSE
      OBVIOUS
    <3>2. PICK c \in Endpoints : u = PathOf(c) /\ Lists(c, m)
      BY <3>1, ExactFinds
    <3>3. QED
      BY <1>3, <3>2, ListedKeys, RoutesArePatterns DEF PathOf, Lists
  <2>4. g \in Endpoints /\ Lists(g, m) /\ Around(g, p)
    <3>1. CASE ConfigOf(<<p, m>>) = Unset
      BY <2>1, <3>1, FoundAround
    <3>2. CASE ConfigOf(<<p, m>>) # Unset
      <4>1. g = ConfigOf(<<p, m>>)
        BY <3>2 DEF GetEndpointConfigForMethod
      <4>2. g \in Endpoints /\ p = PathOf(g) /\ Lists(g, m)
        BY <3>2, <4>1, ExactFinds
      <4>3. QED
        BY <1>3, <2>1, <4>2, MatchAround DEF ComesFrom
    <3>3. QED
      BY <3>1, <3>2
  <2>5. PathOf(g) = PathOf(i)
    BY <2>1, <2>2, <2>4, OneAround
  <2>6. Around(g, u)
    BY <2>2, <2>5 DEF Around
  <2>7. QED
    BY <2>3, <2>4, <2>6, AroundIsFound
<1>4. QED
  BY <1>1, <1>2, <1>3

\* and it is the endpoint of the route, where one that lists the method is.
LEMMA RoutedIsFound ==
  ASSUME site \in Sites, hashOrder \in [Endpoints -> Endpoints], Apart, NEW u \in Seq(Segments),
         NEW m, m # AnyMethod, NEW p, p = MatchedPath(u), p # Unset,
         NEW i \in RoutedTo(p, m), Lists(i, m)
  PROVE  GetEndpointConfigForMethod(p, m) = i
<1>1. i \in Endpoints /\ (<<p, m>> \in RoutesOf(Endpoint(i)) \/ <<p, "GET">> \in RoutesOf(Endpoint(i)))
  BY DEF RoutedTo, Endpoint
<1>2. ComesFrom(p, i)
  BY <1>1, RoutesAre DEF ComesFrom, PathOf
<1>3. CASE p = PathOf(i)
  <2>1. ConfigOf(<<p, m>>) = i
    BY <1>1, <1>3, ExactIs
  <2>2. i # Unset
    BY <1>1, SitesAssumption DEF Endpoints
  <2>3. QED
    BY <2>1, <2>2 DEF GetEndpointConfigForMethod
<1>4. CASE p # PathOf(i)
  <2>1. p \in BarePaths(Endpoint(i)) /\ p \in Seq(Segments)
    BY <1>1, <1>2, <1>4, EndpointPaths, BarePathsAre DEF ComesFrom, PathOf, BareIs
  <2>2. Around(i, p)
    <3>1. Heads(p, p)
      BY <2>1 DEF Heads
    <3>2. QED
      BY <1>1, <2>1, <3>1, BareAround
  <2>3. <<p, m>> \in RoutesOf(Endpoint(i))
    <3>1. <<p, m>> \in RoutesOf(Endpoint(i)) \/ <<p, "GET">> \in RoutesOf(Endpoint(i))
      BY <1>1
    <3>2. \A o : <<p, o>> \in RoutesOf(Endpoint(i)) => Endpoint(i).action \in {"static_files", "spa_host"}
      BY <1>4 DEF RoutesOf, PathOf
    <3>3. <<p, m>> \in BarePaths(Endpoint(i)) \X (Endpoint(i).methods \cup {"OPTIONS"})
      BY <2>1 DEF Lists
    <3>4. QED
      BY <3>1, <3>2, <3>3 DEF RoutesOf
  <2>4. ConfigOf(<<p, m>>) \in {Unset, i}
    <3>1. SUFFICES ASSUME ConfigOf(<<p, m>>) # Unset PROVE ConfigOf(<<p, m>>) = i
      OBVIOUS
    <3>2. PICK c \in Endpoints : c = ConfigOf(<<p, m>>) /\ p = PathOf(c) /\ Lists(c, m)
      BY <3>1, ExactFinds
    <3>3. <<p, m>> \in RoutesOf(Endpoint(c))
      BY <3>2, ListedKeys DEF PathOf, Lists
    <3>4. QED
      BY <1>1, <2>3, <3>2, <3>3, OneOwner
  <2>5. QED
    BY <1>1, <2>1, <2>2, <2>4, AroundIsFound
<1>5. QED
  BY <1>3, <1>4

----------------------------------------------------------------------------
(* Roles: what the levels of the inheritance come to. *)

\* The parents of some roles by a hierarchy.
Up(h, rs) == UNION {IF r \in DOMAIN h THEN ToSet(h[r]) ELSE {} : r \in rs}

\* Each level has the one before and the parents of its roles.
Levels(h, base, N, level) ==
  level[0] = base /\ \A n \in 1 .. N : level[n] = level[n - 1] \cup Up(h, level[n - 1])

\* The levels lie within every set that has the roles and all their parents.
LEMMA LevelsAreWithin ==
  ASSUME NEW h, NEW base, NEW N \in Nat, NEW level, Levels(h, base, N, level),
         NEW S, base \subseteq S, Up(h, S) \subseteq S
  PROVE  level[N] \subseteq S
<1>1. level[0] \in SUBSET S
  BY DEF Levels
<1>2. ASSUME NEW n \in 1 .. N, level[n - 1] \in SUBSET S PROVE level[n] \in SUBSET S
  <2>1. Up(h, level[n - 1]) \subseteq Up(h, S)
    BY <1>2 DEF Up
  <2>2. QED
    BY <1>2, <2>1 DEF Levels
<1>3. \A n \in 0 .. N : level[n] \in SUBSET S
  BY <1>1, <1>2, Stays
<1>4. QED
  BY <1>3

\* Only roles of the hierarchy have parents.
LEMMA UpOfKnown ==
  ASSUME NEW h, NEW rs
  PROVE  Up(h, rs) = Up(h, rs \cap DOMAIN h)
BY DEF Up

\* After as many levels as there are roles with parents, there is nothing new.
LEMMA LevelsEnd ==
  ASSUME NEW h, IsFiniteSet(DOMAIN h), NEW base, NEW level,
         Levels(h, base, Cardinality(DOMAIN h), level)
  PROVE  Up(h, level[Cardinality(DOMAIN h)]) \subseteq level[Cardinality(DOMAIN h)]
<1> DEFINE N == Cardinality(DOMAIN h)
           Known(n) == level[n] \cap DOMAIN h
           Closed(n) == Up(h, level[n]) \subseteq level[n]
           T == {n \in 0 .. N : Closed(n) \/ Cardinality(Known(n)) > n}
<1>1. N \in Nat
  BY FS_CardinalityType
<1>2. \A n : IsFiniteSet(Known(n)) /\ Cardinality(Known(n)) \in Nat /\ Cardinality(Known(n)) <= N
  <2> SUFFICES ASSUME NEW n
               PROVE  /\ IsFiniteSet(Known(n)) /\ Cardinality(Known(n)) \in Nat
                      /\ Cardinality(Known(n)) <= N
    OBVIOUS
  <2>1. IsFiniteSet(Known(n)) /\ Cardinality(Known(n)) <= N
    BY FS_Subset
  <2>2. QED
    BY <2>1, FS_CardinalityType
<1>3. 0 \in T
  <2>1. CASE Known(0) = {}
    <3>1. Up(h, level[0]) = Up(h, Known(0))
      BY UpOfKnown
    <3>2. Up(h, {}) = {}
      BY DEF Up
    <3>3. QED
      BY <1>1, <2>1, <3>1, <3>2
  <2>2. CASE Known(0) # {}
    <3>1. Cardinality(Known(0)) # 0
      BY <1>2, <2>2, FS_EmptySet
    <3>2. Cardinality(Known(0)) > 0
      <4>1. PICK c \in Nat : c = Cardinality(Known(0))
        BY <1>2
      <4>2. QED
        BY <3>1, <4>1
    <3>3. QED
      BY <1>1, <3>2
  <2>3. QED
    BY <2>1, <2>2
<1>4. ASSUME NEW n \in 1 .. N, n - 1 \in T PROVE n \in T
  <2>0. level[n] = level[n - 1] \cup Up(h, level[n - 1]) /\ n \in 0 .. N
    BY <1>1 DEF Levels
  <2>1. CASE Closed(n - 1)
    <3>1. level[n] = level[n - 1]
      BY <2>0, <2>1
    <3>2. QED
      BY <2>0, <2>1, <3>1
  <2>2. CASE Known(n) = Known(n - 1)
    <3>1. Up(h, level[n]) = Up(h, Known(n)) /\ Up(h, level[n - 1]) = Up(h, Known(n - 1))
      BY UpOfKnown
    <3>2. QED
      BY <2>0, <2>2, <3>1
  <2>3. CASE ~Closed(n - 1) /\ Known(n) # Known(n - 1)
    <3>1. Cardinality(Known(n - 1)) > n - 1
      BY <1>4, <2>3
    <3>2. Known(n - 1) \subseteq Known(n)
      BY <2>0
    <3>3. Cardinality(Known(n - 1)) < Cardinality(Known(n))
      <4>1. /\ IsFiniteSet(Known(n)) /\ Cardinality(Known(n)) \in Nat
            /\ Cardinality(Known(n - 1)) \in Nat
        BY <1>2
      <4> HIDE DEF Known
      <4>2. /\ Cardinality(Known(n - 1)) <= Cardinality(Known(n))
            /\ Cardinality(Known(n)) # Cardinality(Known(n - 1))
        BY <2>3, <3>2, <4>1, FS_Subset
      <4>3. QED
        BY <4>1, <4>2
    <3>4. Cardinality(Known(n)) > n
      <4>1. PICK c \in Nat, d \in Nat : c = Cardinality(Known(n)) /\ d = Cardinality(Known(n - 1))
        BY <1>2
      <4> HIDE DEF Known, Closed, T
      <4>2. QED
        BY <3>1, <3>3, <4>1
    <3>5. QED
      BY <2>0, <3>4
  <2>4. QED
    BY <2>1, <2>2, <2>3
<1>5. N \in T
  <2>1. N \in 0 .. N
    BY <1>1
  <2> HIDE DEF T, N
  <2>2. QED
    BY <1>1, <1>3, <1>4, <2>1, UpToN
<1>6. ~(Cardinality(Known(N)) > N)
  <2>1. Cardinality(Known(N)) \in Nat /\ Cardinality(Known(N)) <= N
    BY <1>2
  <2> HIDE DEF Known, N
  <2>2. QED
    BY <1>1, <2>1
<1>7. QED
  BY <1>5, <1>6

\* compute_role_inheritance yields the least set that has the parents of the
\* role and with a role its parents.
LEMMA InheritedIsLeast ==
  ASSUME IsFiniteSet(DOMAIN site.hierarchy), NEW r
  PROVE  /\ ParentRoles({r}) \subseteq Inherited(r) /\ ParentRoles(Inherited(r)) \subseteq Inherited(r)
         /\ Inherited(r) \subseteq UNION {ToSet(site.hierarchy[s]) : s \in DOMAIN site.hierarchy}
         /\ \A S : ParentRoles({r}) \cup ParentRoles(S) \subseteq S => Inherited(r) \subseteq S
<1> DEFINE h == site.hierarchy
           N == Cardinality(DOMAIN h)
           base == Up(h, {r})
           all == UNION {ToSet(h[s]) : s \in DOMAIN h}
           D == SUBSET all
           With(x) == x \cup Up(h, x)
           Upto(f) == [n \in 0 .. N |-> IF n = 0 THEN base ELSE With(f[n - 1])]
           next == [p \in (1 .. N) \X D |-> With(p[2])]
<1>0. N \in Nat
  BY FS_CardinalityType
<1>1. \A x : Up(h, x) \subseteq all
  BY DEF Up
<1>2. (\E f : f = Upto(f)) => \E g : g = Upto(g) /\ Inherited(r) = g[N]
  BY DEF Inherited, ParentRoles, Up
<1>3. \A x : ParentRoles(x) = Up(h, x)
  BY DEF ParentRoles, Up
<1>4. base \in D /\ \A x \in D : With(x) \in D
  BY <1>1
<1> HIDE DEF h, N, base, D, With
<1>5. next \in Nexts(N, D)
  BY <1>4 DEF Nexts
<1>6. \A i \in 1 .. N, x \in D : next[<<i, x>>] = With(x)
  OBVIOUS
<1> HIDE DEF next
<1>7. PICK f \in [0 .. N -> D] :
        f[0] = base /\ \A n \in 1 .. N : f[n] = next[<<n, f[n - 1]>>]
  <2>1. Recursive(N, D, base, next)
    BY <1>0, <1>4, <1>5, Recursion
  <2>2. QED
    BY <2>1 DEF Recursive
<1>8. f = Upto(f)
  <2>1. \A n \in 1 .. N : f[n - 1] \in D /\ n # 0
    BY <1>0
  <2>2. \A n \in 1 .. N : f[n] = With(f[n - 1])
    BY <1>6, <1>7, <2>1
  <2>3. \A n \in 0 .. N : f[n] = IF n = 0 THEN base ELSE With(f[n - 1])
    BY <1>0, <1>7, <2>2
  <2>4. QED
    BY <2>3
<1>9. PICK g : g = Upto(g) /\ Inherited(r) = g[N]
  BY <1>2, <1>8
<1>10. g[0] = base /\ \A n \in 1 .. N : g[n] = With(g[n - 1])
  BY <1>0, <1>9
<1>11. Levels(h, base, N, g)
  BY <1>10 DEF Levels, With
<1>12. ASSUME NEW S, ParentRoles({r}) \subseteq S, ParentRoles(S) \subseteq S PROVE Inherited(r) \subseteq S
  <2>1. base \subseteq S /\ Up(h, S) \subseteq S
    BY <1>3, <1>12 DEF base
  <2>2. QED
    BY <1>0, <1>9, <1>11, <2>1, LevelsAreWithin
<1>13. Up(h, g[N]) \subseteq g[N]
  <2>1. IsFiniteSet(DOMAIN h) /\ N = Cardinality(DOMAIN h)
    BY DEF h, N
  <2>2. QED
    BY <1>11, <2>1, LevelsEnd
<1>14. base \subseteq g[N]
  <2> DEFINE T == {n \in 0 .. N : base \subseteq g[n]}
  <2>1. 0 \in T /\ \A n \in 1 .. N : n - 1 \in T => n \in T
    BY <1>0, <1>10 DEF With
  <2>2. N \in 0 .. N
    BY <1>0
  <2>3. N \in T
    <3> HIDE DEF T
    <3>1. QED
      BY <1>0, <2>1, <2>2, UpToN
  <2>4. QED
    BY <2>3
<1>15. \A n \in 0 .. N : g[n] \in D
  BY <1>0, <1>4, <1>10, Stays
<1>16. Inherited(r) \subseteq all
  <2>1. N \in 0 .. N
    BY <1>0
  <2>2. QED
    BY <1>9, <1>15, <2>1 DEF D
<1>17. QED
  <2>1. ParentRoles({r}) \subseteq Inherited(r) /\ ParentRoles(Inherited(r)) \subseteq Inherited(r)
    BY <1>3, <1>9, <1>13, <1>14 DEF base
  <2>2. Inherited(r) \subseteq UNION {ToSet(site.hierarchy[s]) : s \in DOMAIN site.hierarchy}
    BY <1>16 DEF h
  <2>3. QED
    BY <1>12, <2>1, <2>2

\* So the inherited roles are those that are reached.
LEMMA ReachedAreInherited ==
  ASSUME IsFiniteSet(DOMAIN site.hierarchy), NEW r, NEW q
  PROVE  Reaches(r, q) <=> r = q \/ q \in Inherited(r)
<1>1. PICK I : I = Inherited(r)
  OBVIOUS
<1>2. PICK all : all = UNION {ToSet(site.hierarchy[s]) : s \in DOMAIN site.hierarchy}
  OBVIOUS
<1>3. /\ ParentRoles({r}) \subseteq I /\ ParentRoles(I) \subseteq I /\ I \subseteq all
      /\ \A S : ParentRoles({r}) \cup ParentRoles(S) \subseteq S => I \subseteq S
  BY <1>1, <1>2, InheritedIsLeast
<1>4. Reaches(r, q) <=>
        r = q \/ \A S \in SUBSET all : ParentRoles({r}) \cup ParentRoles(S) \subseteq S => q \in S
  BY <1>2 DEF Reaches
<1>5. QED
  BY <1>1, <1>3, <1>4

----------------------------------------------------------------------------
(* The way past the middleware. *)

\* What a request presents to the provider of the endpoint it was checked for.
Presented == Authenticate(Endpoint(checked).auth, {"cookie"}, ask.says)

Entitled ==
  \/ Endpoint(checked).roles[ask.method] = {}
  \/ \E q \in Endpoint(checked).roles[ask.method] : Reaches(Presented, q)

Admitted ==
  Endpoint(checked).auth \in authConfig /\ Presented \notin {"absent", "invalid"} /\ Entitled

Guarded == checked # Unset /\ Endpoint(checked).auth # "none"

PastAuth == {"body", "too_large", "handler", "served", "internal", "not_found", "not_allowed"}

AccessInv ==
  /\ site \in Sites /\ ask \in Asked
  /\ hashOrder \in [Endpoints -> Endpoints]
  /\ checked \in Endpoints \cup {Unset}
  /\ stage = "auth" => checked = Unset
  /\ Guarded /\ stage \in PastAuth => Admitted
  /\ Guarded /\ stage = "forbidden" => ~Entitled

\* The invariant of a request holds before it is received.
LEMMA AccessInitInv == AccessInit => AccessInv
BY DEF AccessInit, AccessInv, Guarded, PastAuth

\* What was presented is what was checked.
LEMMA PresentedIsChecked ==
  ASSUME NEW type, NEW config, NEW says,
         Authenticate(type, config, says) \notin {"absent", "invalid"}
  PROVE  Authenticate(type, {"cookie"}, says) = Authenticate(type, config, says)
BY DEF Authenticate, ValidateToken, ExtractCookie

\* The check of roles lets pass who is entitled.
LEMMA CheckIsEntitled ==
  ASSUME AccessInv, checked # Unset
  PROVE  CheckRoles(Presented, CloneForMethod(Endpoint(checked), ask.method)) <=> Entitled
<1>1. PICK role : role = Presented
  OBVIOUS
<1>2. PICK required : required = Endpoint(checked).roles[ask.method]
  OBVIOUS
<1>3. "no_role" \notin required /\ IsFiniteSet(DOMAIN site.hierarchy)
      /\ "no_role" \notin DOMAIN site.hierarchy
  BY <1>2, SitesAssumption DEF AccessInv, Endpoint, Endpoints
<1>4. \A q : Reaches(role, q) <=> role = q \/ q \in Inherited(role)
  BY <1>3, ReachedAreInherited
<1>5. role = "no_role" => Inherited(role) = {}
  <2> SUFFICES ASSUME role = "no_role" PROVE Inherited(role) = {}
    OBVIOUS
  <2>1. ParentRoles({role}) = {} /\ ParentRoles({}) = {}
    BY <1>3 DEF ParentRoles
  <2>2. Inherited(role) \subseteq {}
    BY <1>3, <2>1, InheritedIsLeast
  <2>3. QED
    BY <2>2
<1>6. Entitled <=> required = {} \/ \E q \in required : Reaches(role, q)
  BY <1>1, <1>2 DEF Entitled
<1>7. CheckRoles(Presented, CloneForMethod(Endpoint(checked), ask.method)) <=>
        \/ required = {}
        \/ role # "no_role" /\ (role \in required \/ Inherited(role) \cap required # {})
  BY <1>1, <1>2 DEF CheckRoles, CloneForMethod
<1>8. QED
  BY <1>3, <1>4, <1>5, <1>6, <1>7

\* The parts of the invariant look at no more than this.
LEMMA SameRequest ==
  ASSUME site' = site, ask' = ask, checked' = checked, authConfig' = authConfig
  PROVE  Guarded' = Guarded /\ Entitled' = Entitled /\ Admitted' = Admitted
<1>1. Guarded' = Guarded
  BY DEF Guarded, Endpoint
<1>2. Presented' = Presented
  BY DEF Presented, Endpoint, Authenticate, ValidateToken, ExtractCookie
<1>3. \A q : Reaches(Presented, q)' = Reaches(Presented, q)
  BY <1>2 DEF Reaches, ParentRoles
<1>4. Entitled' = Entitled
  BY <1>3 DEF Entitled, Endpoint
<1>5. QED
  BY <1>1, <1>2, <1>4 DEF Admitted, Endpoint

\* Every step of a request keeps the invariant.
LEMMA AccessStepInv == AccessInv /\ [AccessNext]_accessVars => AccessInv'
<1> SUFFICES ASSUME AccessInv, [AccessNext]_accessVars PROVE AccessInv'
  OBVIOUS
<1>1. CASE AuthLookup
  <2>1. /\ site' = site /\ hashOrder' = hashOrder /\ ask' = ask /\ Endpoints' = Endpoints
        /\ stage = "auth" /\ checked = Unset
    BY <1>1 DEF AuthLookup, AccessInv, Endpoints
  <2>2. CASE checked' = checked /\ stage' = "body"
    <3>1. ~Guarded'
      BY <2>1, <2>2 DEF Guarded
    <3>2. QED
      BY <2>1, <2>2, <3>1 DEF AccessInv
  <2>3. CASE /\ checked' = GetEndpointConfigForMethod(ask.uri, ask.method)
             /\ stage' = IF checked' = Unset THEN "body"
                         ELSE IF Endpoint(checked').auth = "none" THEN "body" ELSE "config"
    <3>1. checked' \in Endpoints \cup {Unset}
      BY <2>3, LookUpFinds DEF AccessInv
    <3>2. stage' \in {"body", "config"} /\ (stage' = "body" => ~Guarded')
      BY <2>1, <2>3 DEF Guarded, Endpoint
    <3>3. QED
      BY <2>1, <3>1, <3>2 DEF AccessInv, PastAuth
  <2>4. QED
    BY <1>1, <2>2, <2>3 DEF AuthLookup
<1>2. CASE CloneAuthConfig
  BY <1>2 DEF CloneAuthConfig, AccessInv, PastAuth, Endpoints
<1>3. CASE CheckCredentials
  <2>1. /\ site' = site /\ hashOrder' = hashOrder /\ ask' = ask /\ checked' = checked
        /\ authConfig' = authConfig /\ Endpoints' = Endpoints
    BY <1>3 DEF CheckCredentials, Endpoints
  <2>2. PICK e, role : /\ e = Endpoint(checked) /\ role = Authenticate(e.auth, authConfig, ask.says)
    OBVIOUS
  <2>3. stage' = CASE e.auth \notin authConfig -> "configuration_error"
                   [] e.auth \in authConfig /\ role \in {"absent", "invalid"} -> "unauthorized"
                   [] OTHER -> IF CheckRoles(role, CloneForMethod(e, ask.method))
                               THEN "body" ELSE "forbidden"
    BY <1>3, <2>2 DEF CheckCredentials
  <2>4. \/ stage' \in {"configuration_error", "unauthorized"}
        \/ /\ e.auth \in authConfig /\ role \notin {"absent", "invalid"}
           /\ stage' = IF CheckRoles(role, CloneForMethod(e, ask.method)) THEN "body" ELSE "forbidden"
    BY <2>3
  <2>5. CASE stage' \in {"configuration_error", "unauthorized"}
    BY <2>1, <2>5 DEF AccessInv, PastAuth
  <2>6. CASE /\ e.auth \in authConfig /\ role \notin {"absent", "invalid"}
             /\ stage' = IF CheckRoles(role, CloneForMethod(e, ask.method)) THEN "body" ELSE "forbidden"
    <3>1. Presented = role
      BY <2>2, <2>6, PresentedIsChecked DEF Presented
    <3>2. ASSUME Guarded PROVE CheckRoles(role, CloneForMethod(e, ask.method)) <=> Entitled
      BY <2>2, <3>1, <3>2, CheckIsEntitled DEF Guarded
    <3>3. Guarded /\ stage' = "body" => Admitted
      BY <2>2, <2>6, <3>1, <3>2 DEF Admitted
    <3>4. Guarded /\ stage' = "forbidden" => ~Entitled
      BY <2>6, <3>2
    <3>5. stage' \in {"body", "forbidden"}
      BY <2>6
    <3>6. QED
      BY <2>1, <3>3, <3>4, <3>5, SameRequest DEF AccessInv, PastAuth
  <2>7. QED
    BY <2>4, <2>5, <2>6
<1>4. CASE BodyLimit \/ Dispatch
  <2>1. /\ site' = site /\ hashOrder' = hashOrder /\ ask' = ask /\ checked' = checked
        /\ authConfig' = authConfig /\ Endpoints' = Endpoints
        /\ stage \in PastAuth /\ stage' \in PastAuth
    BY <1>4 DEF BodyLimit, Dispatch, PastAuth, Endpoints
  <2>2. stage' \notin {"auth", "forbidden"}
    BY <2>1 DEF PastAuth
  <2>3. QED
    BY <2>1, <2>2, SameRequest DEF AccessInv
<1>5. CASE ReplaceProviders \/ UNCHANGED accessVars
  <2>1. /\ site' = site /\ hashOrder' = hashOrder /\ ask' = ask /\ checked' = checked
        /\ authConfig' = authConfig /\ Endpoints' = Endpoints /\ stage' = stage
    BY <1>5 DEF ReplaceProviders, accessVars, Endpoints
  <2>2. QED
    BY <2>1, SameRequest DEF AccessInv
<1>6. QED
  BY <1>1, <1>2, <1>3, <1>4, <1>5 DEF AccessNext

\* For every hierarchy of roles and every set of endpoints, a request gets past
\* the middleware of a guarded endpoint exactly when what it presents entitles
\* it, by a provider of the configuration it was checked against, however a
\* reload comes in between (auth_middleware, check_roles,
\* compute_role_inheritance).
THEOREM AdmissionSafety == AccessSpec => []AdmittedByRole
<1>1. AccessInv => AdmittedByRole
  BY DEF AccessInv, AdmittedByRole, Guarded, Admitted, Entitled, Presented, PastAuth
<1>2. QED
  BY <1>1, AccessInitInv, AccessStepInv, PTL DEF AccessSpec

\* The look-ups look at no more than this.
LEMMA SameLookUps ==
  ASSUME site' = site, hashOrder' = hashOrder
  PROVE  /\ \A u, m : GetEndpointConfigForMethod(u, m)' = GetEndpointConfigForMethod(u, m)
         /\ \A u : MatchedPath(u)' = MatchedPath(u)
<1>1. Endpoints' = Endpoints
  BY DEF Endpoints
<1>2. \A key : ConfigOf(key)' = ConfigOf(key)
  BY <1>1 DEF ConfigOf
<1>3. \A i, m : MethodCheck(i, m)' <=> MethodCheck(i, m)
  BY DEF MethodCheck
<1>4. \A u, m : PrefixMatches(u, m)' = PrefixMatches(u, m)
  BY <1>2, <1>3 DEF PrefixMatches
<1>5. \A u, m : WildcardMatches(u, m)' = WildcardMatches(u, m)
  BY <1>1, <1>2, <1>3 DEF WildcardMatches
<1>6. \A W : FirstOf(W)' = FirstOf(W)
  BY DEF FirstOf
<1>7. \A u, m : GetEndpointConfigForMethod(u, m)' = GetEndpointConfigForMethod(u, m)
  BY <1>2, <1>4, <1>5, <1>6 DEF GetEndpointConfigForMethod
<1>8. Patterns' = Patterns
  BY <1>1 DEF Patterns
<1>9. \A u : MatchedPath(u)' = MatchedPath(u)
  BY <1>8 DEF MatchedPath
<1>10. QED
  BY <1>7, <1>9

\* What the middleware and the handler looked up.
LookedUp ==
  /\ stage # "auth" /\ ~Skips(ask.uri) =>
       checked = GetEndpointConfigForMethod(ask.uri, ask.method)
  /\ stage = "served" =>
       /\ MatchedPath(ask.uri) # Unset /\ served # Unset
       /\ served = GetEndpointConfigForMethod(MatchedPath(ask.uri), ask.method)

LEMMA LookedUpInit == AccessInit => LookedUp
BY DEF AccessInit, LookedUp

LEMMA SameLookedUp ==
  ASSUME site' = site, hashOrder' = hashOrder, ask' = ask
  PROVE  /\ GetEndpointConfigForMethod(ask.uri, ask.method)' = GetEndpointConfigForMethod(ask.uri, ask.method)
         /\ MatchedPath(ask.uri)' = MatchedPath(ask.uri)
         /\ GetEndpointConfigForMethod(MatchedPath(ask.uri), ask.method)' =
              GetEndpointConfigForMethod(MatchedPath(ask.uri), ask.method)
<1>1. PICK u, m : u = ask.uri /\ m = ask.method
  OBVIOUS
<1>2. PICK p : p = MatchedPath(u)
  OBVIOUS
<1>3. /\ GetEndpointConfigForMethod(u, m)' = GetEndpointConfigForMethod(u, m)
      /\ GetEndpointConfigForMethod(p, m)' = GetEndpointConfigForMethod(p, m)
      /\ MatchedPath(u)' = MatchedPath(u)
  BY SameLookUps
<1>4. u = ask'.uri /\ m = ask'.method
  BY <1>1
<1>5. QED
  BY <1>1, <1>2, <1>3, <1>4

LEMMA LookedUpStep == LookedUp /\ [AccessNext]_accessVars => LookedUp'
<1> SUFFICES ASSUME LookedUp, [AccessNext]_accessVars PROVE LookedUp'
  OBVIOUS
<1>0. site' = site /\ hashOrder' = hashOrder /\ ask' = ask
  BY DEF AccessNext, accessVars, AuthLookup, CloneAuthConfig, CheckCredentials, BodyLimit, Dispatch,
         ReplaceProviders
<1> DEFINE G == GetEndpointConfigForMethod(ask.uri, ask.method)
           P == MatchedPath(ask.uri)
           H == GetEndpointConfigForMethod(MatchedPath(ask.uri), ask.method)
           NotSkipped == ~Skips(ask.uri)
<1>1. G' = G /\ P' = P /\ H' = H
  BY <1>0, SameLookedUp
<1>2. NotSkipped' <=> NotSkipped
  BY <1>0 DEF Skips, SkipRoutes
<1>3. LookedUp => (stage # "auth" /\ NotSkipped => checked = G) /\ (stage = "served" => P # Unset /\ served # Unset /\ served = H)
  BY DEF LookedUp
<1>4. (stage' # "auth" /\ NotSkipped' => checked' = G') /\ (stage' = "served" => P' # Unset /\ served' # Unset /\ served' = H')
      => LookedUp'
  BY DEF LookedUp
<1>5. CASE AuthLookup
  <2>1. NotSkipped => checked' = G
    BY <1>5 DEF AuthLookup
  <2>2. stage' # "served"
    BY <1>5 DEF AuthLookup
  <2> HIDE DEF G, P, H, NotSkipped
  <2>3. QED
    BY <1>1, <1>2, <1>4, <2>1, <2>2
<1>6. CASE CloneAuthConfig \/ CheckCredentials \/ BodyLimit
  <2>1. stage # "auth" /\ stage' # "served" /\ checked' = checked
    BY <1>6 DEF CloneAuthConfig, CheckCredentials, BodyLimit
  <2> HIDE DEF G, P, H, NotSkipped
  <2>2. QED
    BY <1>1, <1>2, <1>3, <1>4, <2>1
<1>7. CASE Dispatch
  <2>1. stage # "auth" /\ checked' = checked
    BY <1>7 DEF Dispatch
  <2>2. stage' = "served" => P # Unset /\ served' = H /\ served' # Unset
    BY <1>7 DEF Dispatch
  <2> HIDE DEF G, P, H, NotSkipped
  <2>3. QED
    BY <1>1, <1>2, <1>3, <1>4, <2>1, <2>2
<1>8. CASE ReplaceProviders \/ UNCHANGED accessVars
  <2>1. stage' = stage /\ checked' = checked /\ served' = served
    BY <1>8 DEF ReplaceProviders, accessVars
  <2> HIDE DEF G, P, H, NotSkipped
  <2>2. QED
    BY <1>1, <1>2, <1>3, <1>4, <2>1
<1>9. QED
  BY <1>5, <1>6, <1>7, <1>8 DEF AccessNext

\* For all sites whose patterns are apart, the endpoint that serves a request is
\* the one the middleware checked it against, and the one whose route axum took
\* if that lists the method, in whatever order the hash map yields the endpoints
\* (find_prefix_match, get_endpoint_config_for_method, auth_middleware).
THEOREM ServedSafety == AccessSpec => []ServedAsChecked
<1>1. AccessInv /\ LookedUp => ServedAsChecked
  <2> SUFFICES ASSUME AccessInv, LookedUp, stage = "served", Apart, ~Skips(ask.uri)
               PROVE  /\ checked = served
                      /\ (\E i \in RoutedTo(MatchedPath(ask.uri), ask.method) : ask.method \in Endpoint(i).methods)
                           => served \in RoutedTo(MatchedPath(ask.uri), ask.method)
    BY DEF ServedAsChecked
  <2>1. PICK u, m : u = ask.uri /\ m = ask.method /\ m # AnyMethod /\ u \in Seq(Segments)
    BY RoutesAssumption, PathsHaveSegments DEF AccessInv
  <2>2. PICK p : p = MatchedPath(u) /\ p # Unset
    BY <2>1 DEF LookedUp
  <2>3. served = GetEndpointConfigForMethod(p, m) /\ served # Unset /\ checked = GetEndpointConfigForMethod(u, m)
    BY <2>1, <2>2 DEF LookedUp
  <2>4. checked = served
    BY <2>1, <2>2, <2>3, SameFound DEF AccessInv
  <2>5. ASSUME NEW i \in RoutedTo(p, m), m \in Endpoint(i).methods PROVE served \in RoutedTo(p, m)
    BY <2>1, <2>2, <2>3, <2>5, RoutedIsFound DEF AccessInv, Lists
  <2>6. QED
    BY <2>1, <2>2, <2>4, <2>5
<1>2. AccessInit /\ [][AccessNext]_accessVars => [](AccessInv /\ LookedUp)
  BY AccessInitInv, AccessStepInv, LookedUpInit, LookedUpStep, PTL
<1>3. QED
  BY <1>1, <1>2, PTL DEF AccessSpec

=============================================================================
