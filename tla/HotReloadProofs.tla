--------------------------- MODULE HotReloadProofs ---------------------------
(***************************************************************************)
(* The safety of hot reload for any number of reloads, requests and        *)
(* configurations: IndInv of HotReload is inductive and implies the        *)
(* invariants the runs check.                                              *)
(***************************************************************************)
EXTENDS HotReload, TLAPS

USE DEF Configs, Kinds, Pools, Actors, LockNames

\* Taking a task out of a queue leaves a queue of tasks.
LEMMA WithoutType ==
  ASSUME NEW S, NEW s \in Seq(S), NEW a
  PROVE  Without(s, a) \in Seq(S)
<1>1. CASE \E i \in 1 .. Len(s) : s[i] = a
  <2> DEFINE at == CHOOSE i \in 1 .. Len(s) : s[i] = a
             t == [i \in 1 .. Len(s) - 1 |-> s[IF i < at THEN i ELSE i + 1]]
  <2>1. at \in 1 .. Len(s)
    BY <1>1
  <2>2. Len(s) \in Nat /\ s \in [1 .. Len(s) -> S]
    OBVIOUS
  <2>3. Len(s) - 1 \in Nat
    BY <2>1, <2>2
  <2>4. t \in [1 .. Len(s) - 1 -> S]
    <3> HIDE DEF at
    <3> QED BY <2>1, <2>2
  <2>5. t \in Seq(S)
    <3> HIDE DEF t
    <3> QED BY <2>3, <2>4
  <2> QED BY <1>1, <2>5 DEF Without
<1>2. CASE ~\E i \in 1 .. Len(s) : s[i] = a
  BY <1>2 DEF Without
<1> QED BY <1>1, <1>2

\* Joining the queue of a lock keeps the queues typed.
LEMMA EnqueueType ==
  ASSUME queue \in Queues, NEW l \in LockNames, NEW a \in Actors, Enqueue(l, a)
  PROVE  queue' \in Queues
<1>1. Append(queue[l], a) \in Seq(Actors)
  BY DEF Queues
<1> HIDE DEF Actors
<1> QED BY <1>1 DEF Queues, Enqueue

\* So does leaving the queue of a lock, ...
LEMMA LeaveType ==
  ASSUME queue \in Queues, NEW l \in LockNames, NEW a, CanRead(l, a)
  PROVE  Leave(l) \in Queues
<1>1. Tail(queue[l]) \in Seq(Actors)
  BY DEF Queues, CanRead, Waiting
<1> HIDE DEF Actors
<1> QED BY <1>1 DEF Queues, Leave

\* ... and withdrawing from all of them.
LEMMA WithdrawType ==
  ASSUME queue \in Queues, NEW a
  PROVE  Withdraw(a) \in Queues
  BY WithoutType DEF Queues, Withdraw

\* Init establishes the type invariant.
LEMMA InitType == Init => TypeOK /\ StatementsLeft
<1> SUFFICES ASSUME Init PROVE TypeOK /\ StatementsLeft
  OBVIOUS
<1> USE ConstantsAssumption
<1>1. queue \in Queues
  BY DEF Init, Queues
<1>2. poolState \in [Pools -> {"none", "open", "closing", "closed"}]
  BY DEF Init
<1>3. 1 \in Configs
  OBVIOUS
<1> QED BY <1>1, <1>2, <1>3
        DEF Init, TypeOK, ReloadPcs, RequestPcs, Outcomes, Results,
            StatementsLeft

\* Every step preserves it.
LEMMA NextType ==
  TypeOK /\ StatementsLeft /\ [Next]_vars => TypeOK' /\ StatementsLeft'
<1> SUFFICES ASSUME TypeOK, StatementsLeft, [Next]_vars
             PROVE  TypeOK' /\ StatementsLeft'
  OBVIOUS
<1> USE ConstantsAssumption
<1>1. queue \in Queues
  BY DEF TypeOK
<1>3. CASE EditConfig
  BY <1>3 DEF TypeOK, StatementsLeft, EditConfig, shared, locks, rlocals, qvars
<1>4. ASSUME NEW r \in Reloads, ReloadStep(r) \/ CancelReload(r)
      PROVE  TypeOK' /\ StatementsLeft'
  <2> USE DEF shared, rlocals, qvars, Goto, Finish, ReloadPcs, Outcomes,
              BeforeSwap, InSwap, DropPcs, AfterSwap
  <2>1. CASE RejectReload(r)
    BY <2>1 DEF TypeOK, StatementsLeft, RejectReload, locks
  <2>2. CASE LoadConfig(r)
    BY <2>2 DEF TypeOK, StatementsLeft, LoadConfig, locks
  <2>3. CASE AwaitLock(r)
    <3>1. ReloadLock[rpc[r]] \in LockNames
      BY <2>3 DEF AwaitLock, ReloadLock
    <3>2. queue' \in Queues
      BY <1>1, <2>3, <3>1, EnqueueType DEF AwaitLock
    <3> QED BY <2>3, <3>2 DEF TypeOK, StatementsLeft, AwaitLock
  <2>4. CASE ReadStoreConfigs(r)
    <3>1. queue' \in Queues
      BY <1>1, <2>4, LeaveType DEF ReadStoreConfigs
    <3> QED BY <2>4, <3>1 DEF TypeOK, StatementsLeft, ReadStoreConfigs
  <2>5. CASE CreatePools(r)
    BY <2>5 DEF TypeOK, StatementsLeft, CreatePools, locks
  <2>6. CASE CreatePoolsFails(r)
    BY <2>6 DEF TypeOK, StatementsLeft, CreatePoolsFails, locks
  <2>7. CASE Migrate(r)
    BY <2>7 DEF TypeOK, StatementsLeft, Migrate, locks
  <2>8. CASE MigrateFails(r)
    BY <2>8 DEF TypeOK, StatementsLeft, MigrateFails, locks
  <2>9. CASE CreateStores(r)
    BY <2>9 DEF TypeOK, StatementsLeft, CreateStores, locks
  <2>10. CASE CreateStoresFails(r)
    BY <2>10 DEF TypeOK, StatementsLeft, CreateStoresFails, locks
  <2>11. ASSUME NEW at, NEW l \in LockNames, NEW next \in ReloadPcs,
                AcquireWrite(r, at, l, next)
         PROVE  TypeOK' /\ StatementsLeft'
    <3>1. queue' \in Queues
      BY <1>1, <2>11, LeaveType DEF AcquireWrite, CanWrite
    <3> QED BY <2>11, <3>1 DEF TypeOK, StatementsLeft, AcquireWrite
  <2>12. CASE LockConfig(r) \/ LockPools(r) \/ LockStoreConfigs(r)
                \/ LockRegistry(r)
    BY <2>11, <2>12 DEF LockConfig, LockPools, LockStoreConfigs, LockRegistry
  <2>13. CASE SwapPools(r)
    BY <2>13 DEF TypeOK, StatementsLeft, SwapPools, locks, ReplacedPools
  <2>14. CASE SwapConfig(r)
    BY <2>14 DEF TypeOK, StatementsLeft, SwapConfig, locks
  <2>15. CASE SwapStoreConfigs(r)
    BY <2>15 DEF TypeOK, StatementsLeft, SwapStoreConfigs, locks
  <2>16. CASE DropStoreConfigs(r) \/ DropPools(r) \/ DropConfig(r)
    <3>1. ASSUME NEW at, NEW l \in LockNames, NEW next \in ReloadPcs,
                 Release(r, at, l, next)
          PROVE  TypeOK' /\ StatementsLeft'
      BY <3>1 DEF TypeOK, StatementsLeft, Release, Unlock
    <3> QED BY <2>16, <3>1 DEF DropStoreConfigs, DropPools, DropConfig
  <2>17. CASE RebuildRegistry(r)
    <3>1. queue' \in Queues
      BY <1>1, <2>17, LeaveType DEF RebuildRegistry
    <3> QED BY <2>17, <3>1 DEF TypeOK, StatementsLeft, RebuildRegistry, RebuildSource, Unlock
  <2>18. CASE RebuildRegistryFails(r)
    <3>1. queue' \in Queues
      BY <1>1, <2>18, LeaveType DEF RebuildRegistryFails
    <3> QED BY <2>18, <3>1 DEF TypeOK, StatementsLeft, RebuildRegistryFails, Unlock
  <2>19. CASE CloseOldPools(r)
    BY <2>19 DEF TypeOK, StatementsLeft, CloseOldPools, locks
  <2>20. CASE DrainOldPools(r)
    BY <2>20 DEF TypeOK, StatementsLeft, DrainOldPools, locks
  <2>21. CASE CancelReload(r)
    <3>1. queue' \in Queues
      BY <1>1, <2>21, WithdrawType DEF CancelReload
    <3> QED BY <2>21, <3>1 DEF TypeOK, StatementsLeft, CancelReload, DroppedPool
  <2> QED BY <1>4, <2>1, <2>2, <2>3, <2>4, <2>5, <2>6, <2>7, <2>8, <2>9,
             <2>10, <2>12, <2>13, <2>14, <2>15, <2>16, <2>17, <2>18, <2>19,
             <2>20, <2>21 DEF ReloadStep
<1>5. ASSUME NEW q \in Requests, RequestStep(q) \/ CancelRequest(q)
      PROVE  TypeOK' /\ StatementsLeft'
  <2> USE DEF shared, rlocals, QGoto, Respond, RequestPcs, Results
  <2>1. CASE Arrive(q)
    <3>0. Statements[Kind[q]] \subseteq Nat \ {0}
      BY DEF Statements
    <3>1. PICK n \in Nat \ {0} : left' = [left EXCEPT ![q] = n]
      BY <2>1, <3>0 DEF Arrive
    <3>2. TypeOK'
      BY <2>1, <3>1 DEF TypeOK, Arrive, locks
    <3>3. StatementsLeft'
      BY <2>1, <3>1 DEF TypeOK, StatementsLeft, Arrive
    <3> QED BY <3>2, <3>3
  <2>2. CASE AwaitReadLock(q)
    <3>1. queue' \in Queues
      BY <1>1, <2>2, EnqueueType DEF AwaitReadLock
    <3> QED BY <2>2, <3>1 DEF TypeOK, StatementsLeft, AwaitReadLock, qvars
  <2>3. CASE DbPool(q)
    <3>1. queue' \in Queues
      BY <1>1, <2>3, LeaveType DEF DbPool
    <3>2. CASE PoolConfig(pools) \notin Serving
      BY <2>3, <3>1, <3>2 DEF TypeOK, StatementsLeft, DbPool
    <3>3. CASE PoolConfig(pools) \in Serving
      <4>0. /\ qpc' \in [Requests -> RequestPcs]
            /\ qpool' \in [Requests -> Pools]
        <5>1. PICK next \in {"exec", "config"} :
                 qpc' = [qpc EXCEPT ![q] = next]
          BY <2>3, <3>3 DEF DbPool
        <5>2. qpool' = [qpool EXCEPT ![q] = pools]
          BY <2>3, <3>3 DEF DbPool
        <5> QED BY <5>1, <5>2 DEF TypeOK
      <4>1. TypeOK'
        <5> HIDE DEF QGoto, RequestPcs, Pools
        <5> QED BY <2>3, <3>1, <3>3, <4>0 DEF TypeOK, DbPool
      <4>2. StatementsLeft'
        BY <2>3, <3>3 DEF TypeOK, StatementsLeft, DbPool
      <4> QED BY <4>1, <4>2
    <3> QED BY <3>2, <3>3
  <2>4. CASE ReadConfig(q)
    <3>1. queue' \in Queues
      BY <1>1, <2>4, LeaveType DEF ReadConfig
    <3>2. [list |-> "exec", get |-> "exec",
           create |-> "registry", register |-> "pools"][Kind[q]]
             \in {"exec", "registry", "pools"}
      OBVIOUS
    <3>3. CASE config \notin Serving \/ left[q] = 0
      <4>1. PICK res \in {"ok", "error"} : Respond(q, res)
        BY <2>4, <3>3 DEF ReadConfig
      <4>2. TypeOK'
        <5> HIDE DEF Configs
        <5> QED BY <2>4, <3>1, <4>1 DEF TypeOK, ReadConfig
      <4>3. StatementsLeft'
        BY <2>4, <4>1 DEF TypeOK, StatementsLeft, ReadConfig
      <4> QED BY <4>2, <4>3
    <3>4. CASE config \in Serving /\ left[q] # 0
      <4>0. qpc' \in [Requests -> RequestPcs]
        <5>1. PICK next \in {"exec", "registry", "pools"} :
                 qpc' = [qpc EXCEPT ![q] = next]
          BY <2>4, <3>2, <3>4 DEF ReadConfig
        <5> QED BY <5>1 DEF TypeOK
      <4>1. TypeOK'
        <5> HIDE DEF QGoto, RequestPcs, Configs
        <5> QED BY <2>4, <3>1, <3>4, <4>0 DEF TypeOK, ReadConfig
      <4>2. StatementsLeft'
        <5>1. left[q] > 0 /\ left' = left
          BY <2>4, <3>4 DEF TypeOK, ReadConfig
        <5>2. qpc' = [qpc EXCEPT ![q] = qpc'[q]]
          BY <2>4, <3>4 DEF TypeOK, ReadConfig
        <5> QED BY <5>1, <5>2 DEF TypeOK, StatementsLeft
      <4> QED BY <4>1, <4>2
    <3> QED BY <3>3, <3>4
  <2>5. CASE ReadRegistry(q)
    <3>1. queue' \in Queues
      BY <1>1, <2>5, LeaveType DEF ReadRegistry
    <3> QED BY <2>5, <3>1 DEF TypeOK, StatementsLeft, ReadRegistry
  <2>6. CASE FailRequest(q)
    BY <2>6 DEF TypeOK, StatementsLeft, FailRequest, Failure
  <2>7. CASE AcquireConnection(q)
    BY <2>7 DEF TypeOK, StatementsLeft, AcquireConnection, locks
  <2>8. CASE PoolClosed(q)
    BY <2>8 DEF TypeOK, StatementsLeft, PoolClosed, Failure
  <2>9. CASE RunStatement(q)
    <3>0. qpc[q] = "query" /\ left[q] \in Nat
      BY <2>9 DEF TypeOK, RunStatement
    <3>1. left[q] \in Nat \ {0}
      BY <3>0 DEF StatementsLeft
    <3>2. left' \in [Requests -> Nat]
      BY <2>9, <3>1 DEF TypeOK, RunStatement
    <3>3. CASE AnotherStatement(q)
      <4>1. TypeOK'
        BY <2>9, <3>2, <3>3 DEF TypeOK, RunStatement
      <4>2. left'[q] > 0
        BY <2>9, <3>1, <3>3 DEF TypeOK, RunStatement, AnotherStatement
      <4>3. StatementsLeft'
        BY <2>9, <4>2 DEF TypeOK, StatementsLeft, RunStatement
      <4> QED BY <4>1, <4>3
    <3>4. CASE ~AnotherStatement(q) /\ Kind[q] = "register"
      <4>1. TypeOK'
        BY <2>9, <3>2, <3>4 DEF TypeOK, RunStatement
      <4>2. StatementsLeft'
        BY <2>9, <3>4 DEF TypeOK, StatementsLeft, RunStatement
      <4> QED BY <4>1, <4>2
    <3>5. CASE ~AnotherStatement(q) /\ Kind[q] # "register"
      <4>1. TypeOK'
        BY <2>9, <3>2, <3>5 DEF TypeOK, RunStatement
      <4>2. StatementsLeft'
        BY <2>9, <3>5 DEF TypeOK, StatementsLeft, RunStatement
      <4> QED BY <4>1, <4>2
    <3> QED BY <3>3, <3>4, <3>5
  <2>10. CASE CancelRequest(q)
    <3>1. queue' \in Queues
      BY <1>1, <2>10, WithdrawType DEF CancelRequest
    <3> QED BY <2>10, <3>1 DEF TypeOK, StatementsLeft, CancelRequest
  <2> QED BY <1>5, <2>1, <2>2, <2>3, <2>4, <2>5, <2>6, <2>7, <2>8, <2>9,
             <2>10 DEF RequestStep
<1>6. CASE UNCHANGED vars
  BY <1>6 DEF TypeOK, StatementsLeft, vars, shared, locks, rlocals, qvars
<1> QED BY <1>3, <1>4, <1>5, <1>6 DEF Next, Terminated

\* Every field of AppState and every local of the handlers keeps its type.
THEOREM TypeCorrect == Spec => []TypeOK
<1>1. Init => TypeOK /\ StatementsLeft
  BY InitType
<1>2. (TypeOK /\ StatementsLeft) /\ [Next]_vars => (TypeOK /\ StatementsLeft)'
  BY NextType
<1> QED BY <1>1, <1>2, PTL DEF Spec

\* What the requests and the editor of the file leave alone.
LEMMA RequestFrame ==
  ASSUME \/ EditConfig \/ UNCHANGED vars
         \/ \E q \in Requests : RequestStep(q) \/ CancelRequest(q)
  PROVE  UNCHANGED <<config, pools, storeConfigs, registry, writer, poolState,
                     rpc, newCfg, oldPool, outcome>>
<1>1. CASE EditConfig
  BY <1>1 DEF EditConfig, shared, locks, rlocals
<1>2. CASE UNCHANGED vars
  BY <1>2 DEF vars, shared, locks, rlocals
<1>3. ASSUME NEW q \in Requests, RequestStep(q) \/ CancelRequest(q)
      PROVE  UNCHANGED <<config, pools, storeConfigs, registry, writer,
                         poolState, rpc, newCfg, oldPool, outcome>>
  BY <1>3 DEF RequestStep, Arrive, AwaitReadLock, DbPool, ReadConfig,
              ReadRegistry, FailRequest, AcquireConnection, PoolClosed,
              RunStatement, CancelRequest, shared, locks, rlocals
<1> QED BY <1>1, <1>2, <1>3

\* Write guards stay with the steps that hold them.
LEMMA NextLocks ==
  TypeOK /\ LockOwnership /\ [Next]_vars
    => LockOwnership'
<1> SUFFICES ASSUME TypeOK, LockOwnership, [Next]_vars
             PROVE  LockOwnership'
  OBVIOUS
<1> USE ConstantsAssumption
<1>1. CASE \/ EditConfig \/ UNCHANGED vars
           \/ \E q \in Requests : RequestStep(q) \/ CancelRequest(q)
  BY <1>1, RequestFrame DEF LockOwnership
<1>2. ASSUME NEW r \in Reloads, ReloadStep(r) \/ CancelReload(r)
      PROVE  LockOwnership'
  <2> USE DEF TypeOK, shared, locks, rlocals, Goto, Finish, BeforeSwap,
              InSwap, DropPcs, AfterSwap, LockOwnership, HoldsConfig,
              HoldsPools, HoldsStoreConfigs
  <2>1. CASE RejectReload(r)
    <3>1. rpc' = [rpc EXCEPT ![r] = "done"]
      BY <2>1 DEF RejectReload
    <3> QED BY <2>1, <3>1 DEF RejectReload
  <2>2. CASE LoadConfig(r)
    BY <2>2 DEF LoadConfig
  <2>3. CASE AwaitLock(r)
    BY <2>3 DEF AwaitLock
  <2>4. CASE ReadStoreConfigs(r)
    BY <2>4 DEF ReadStoreConfigs
  <2>5. CASE CreatePools(r)
    BY <2>5 DEF CreatePools
  <2>6. CASE CreatePoolsFails(r)
    BY <2>6 DEF CreatePoolsFails
  <2>7. CASE Migrate(r)
    BY <2>7 DEF Migrate
  <2>8. CASE MigrateFails(r)
    BY <2>8 DEF MigrateFails
  <2>9. CASE CreateStores(r)
    BY <2>9 DEF CreateStores
  <2>10. CASE CreateStoresFails(r)
    BY <2>10 DEF CreateStoresFails
  <2>11. CASE LockConfig(r)
    BY <2>11 DEF LockConfig, AcquireWrite, CanWrite, CanRead
  <2>12. CASE LockPools(r)
    BY <2>12 DEF LockPools, AcquireWrite, CanWrite, CanRead
  <2>13. CASE LockStoreConfigs(r)
    BY <2>13 DEF LockStoreConfigs, AcquireWrite, CanWrite, CanRead
  <2>14. CASE SwapPools(r)
    BY <2>14 DEF SwapPools, ReplacedPools
  <2>15. CASE SwapConfig(r)
    BY <2>15 DEF SwapConfig
  <2>16. CASE SwapStoreConfigs(r)
    BY <2>16 DEF SwapStoreConfigs
  <2>17. CASE DropStoreConfigs(r)
    BY <2>17 DEF DropStoreConfigs, Release, Unlock
  <2>18. CASE DropPools(r)
    BY <2>18 DEF DropPools, Release, Unlock
  <2>19. CASE DropConfig(r)
    BY <2>19 DEF DropConfig, Release, Unlock
  <2>20. CASE LockRegistry(r)
    BY <2>20 DEF LockRegistry, AcquireWrite, CanWrite, CanRead
  <2>21. CASE RebuildRegistry(r)
    BY <2>21 DEF RebuildRegistry, RebuildSource, Unlock, CanRead
  <2>22. CASE RebuildRegistryFails(r)
    BY <2>22 DEF RebuildRegistryFails, Unlock, CanRead
  <2>23. CASE CloseOldPools(r)
    BY <2>23 DEF CloseOldPools
  <2>24. CASE DrainOldPools(r)
    BY <2>24 DEF DrainOldPools, Drained
  <2>25. CASE CancelReload(r)
    BY <2>25 DEF CancelReload, DroppedPool, AwaitPoints
  <2> QED BY <1>2, <2>1, <2>2, <2>3, <2>4, <2>5, <2>6, <2>7, <2>8, <2>9,
             <2>10, <2>11, <2>12, <2>13, <2>14, <2>15, <2>16, <2>17, <2>18,
             <2>19, <2>20, <2>21, <2>22, <2>23, <2>24, <2>25
            DEF ReloadStep
<1> QED BY <1>1, <1>2 DEF Next, Terminated

\* The three assignments of the swap are seen only by who holds the locks.
LEMMA NextSwap ==
  TypeOK /\ LockOwnership /\ PoolOwnership /\ SwapProgress /\ [Next]_vars
    => SwapProgress'
<1> SUFFICES ASSUME TypeOK, LockOwnership, PoolOwnership, SwapProgress, [Next]_vars
             PROVE  SwapProgress'
  OBVIOUS
<1> USE ConstantsAssumption
<1>1. CASE \/ EditConfig \/ UNCHANGED vars
           \/ \E q \in Requests : RequestStep(q) \/ CancelRequest(q)
  BY <1>1, RequestFrame DEF SwapProgress, PoolConfig
<1>2. ASSUME NEW r \in Reloads, ReloadStep(r) \/ CancelReload(r)
      PROVE  SwapProgress'
  <2> USE DEF TypeOK, shared, locks, rlocals, Goto, Finish, BeforeSwap,
              InSwap, DropPcs, AfterSwap, LockOwnership, HoldsConfig,
              SwapProgress, PoolConfig, PoolOwnership, NotInstalled
  <2>1. CASE RejectReload(r)
    <3>1. rpc' = [rpc EXCEPT ![r] = "done"]
      BY <2>1 DEF RejectReload
    <3> QED BY <2>1, <3>1 DEF RejectReload
  <2>2. CASE LoadConfig(r)
    BY <2>2 DEF LoadConfig
  <2>3. CASE AwaitLock(r)
    BY <2>3 DEF AwaitLock
  <2>4. CASE ReadStoreConfigs(r)
    BY <2>4 DEF ReadStoreConfigs
  <2>5. CASE CreatePools(r)
    BY <2>5 DEF CreatePools
  <2>6. CASE CreatePoolsFails(r)
    BY <2>6 DEF CreatePoolsFails
  <2>7. CASE Migrate(r)
    BY <2>7 DEF Migrate
  <2>8. CASE MigrateFails(r)
    BY <2>8 DEF MigrateFails
  <2>9. CASE CreateStores(r)
    BY <2>9 DEF CreateStores
  <2>10. CASE CreateStoresFails(r)
    BY <2>10 DEF CreateStoresFails
  <2>11. CASE LockConfig(r)
    BY <2>11 DEF LockConfig, AcquireWrite, CanWrite, CanRead
  <2>12. CASE LockPools(r)
    BY <2>12 DEF LockPools, AcquireWrite, CanWrite, CanRead
  <2>13. CASE LockStoreConfigs(r)
    BY <2>13 DEF LockStoreConfigs, AcquireWrite, CanWrite, CanRead
  <2>14. CASE SwapPools(r)
    BY <2>14 DEF SwapPools, ReplacedPools
  <2>15. CASE SwapConfig(r)
    BY <2>15 DEF SwapConfig
  <2>16. CASE SwapStoreConfigs(r)
    BY <2>16 DEF SwapStoreConfigs
  <2>17. CASE DropStoreConfigs(r)
    BY <2>17 DEF DropStoreConfigs, Release, Unlock
  <2>18. CASE DropPools(r)
    BY <2>18 DEF DropPools, Release, Unlock
  <2>19. CASE DropConfig(r)
    BY <2>19 DEF DropConfig, Release, Unlock
  <2>20. CASE LockRegistry(r)
    BY <2>20 DEF LockRegistry, AcquireWrite, CanWrite, CanRead
  <2>21. CASE RebuildRegistry(r)
    BY <2>21 DEF RebuildRegistry, RebuildSource, Unlock, CanRead
  <2>22. CASE RebuildRegistryFails(r)
    BY <2>22 DEF RebuildRegistryFails, Unlock, CanRead
  <2>23. CASE CloseOldPools(r)
    BY <2>23 DEF CloseOldPools
  <2>24. CASE DrainOldPools(r)
    BY <2>24 DEF DrainOldPools, Drained
  <2>25. CASE CancelReload(r)
    BY <2>25 DEF CancelReload, DroppedPool, AwaitPoints
  <2> QED BY <1>2, <2>1, <2>2, <2>3, <2>4, <2>5, <2>6, <2>7, <2>8, <2>9,
             <2>10, <2>11, <2>12, <2>13, <2>14, <2>15, <2>16, <2>17, <2>18,
             <2>19, <2>20, <2>21, <2>22, <2>23, <2>24, <2>25
            DEF ReloadStep
<1> QED BY <1>1, <1>2 DEF Next, Terminated

\* New pools stay private until the swap, and replaced ones belong to the
\* reload that replaced them.
LEMMA NextPools ==
  TypeOK /\ LockOwnership /\ PoolOwnership /\ CurrentPoolsOpen /\ [Next]_vars
    => PoolOwnership'
<1> SUFFICES ASSUME TypeOK, LockOwnership, PoolOwnership, CurrentPoolsOpen, [Next]_vars
             PROVE  PoolOwnership'
  OBVIOUS
<1> USE ConstantsAssumption
<1>1. CASE \/ EditConfig \/ UNCHANGED vars
           \/ \E q \in Requests : RequestStep(q) \/ CancelRequest(q)
  <2>1. UNCHANGED <<pools, poolState, rpc, oldPool>>
    BY <1>1, RequestFrame
  <2>2. \A q \in Requests : qpool'[q] \in {qpool[q], pools}
    <3>1. CASE \E q \in Requests : RequestStep(q) \/ CancelRequest(q)
      BY <3>1 DEF TypeOK, RequestStep, Arrive, AwaitReadLock, DbPool,
                  ReadConfig, ReadRegistry, FailRequest, AcquireConnection,
                  PoolClosed, RunStatement, CancelRequest, qvars
    <3>2. CASE EditConfig \/ UNCHANGED vars
      BY <3>2 DEF EditConfig, vars, qvars
    <3> QED BY <1>1, <3>1, <3>2
  <2> QED BY <2>1, <2>2 DEF PoolOwnership
<1>2. ASSUME NEW r \in Reloads, ReloadStep(r) \/ CancelReload(r)
      PROVE  PoolOwnership'
  <2> USE DEF TypeOK, shared, locks, rlocals, Goto, Finish, qvars, BeforeSwap,
              InSwap, DropPcs, AfterSwap, PoolOwnership, CurrentPoolsOpen,
              NotInstalled, Installed
  <2>1. CASE RejectReload(r)
    <3>1. rpc' = [rpc EXCEPT ![r] = "done"]
      BY <2>1 DEF RejectReload
    <3> QED BY <2>1, <3>1 DEF RejectReload
  <2>2. CASE LoadConfig(r)
    BY <2>2 DEF LoadConfig
  <2>3. CASE AwaitLock(r)
    BY <2>3 DEF AwaitLock
  <2>4. CASE ReadStoreConfigs(r)
    BY <2>4 DEF ReadStoreConfigs
  <2>5. CASE CreatePools(r)
    BY <2>5 DEF CreatePools
  <2>6. CASE CreatePoolsFails(r)
    BY <2>6 DEF CreatePoolsFails
  <2>7. CASE Migrate(r)
    BY <2>7 DEF Migrate
  <2>8. CASE MigrateFails(r)
    <3>1. /\ rpc' = [rpc EXCEPT ![r] = "done"]
          /\ poolState' = [poolState EXCEPT ![r] = "closed"]
          /\ UNCHANGED <<pools, oldPool, qpool>>
      BY <2>8 DEF MigrateFails
    <3>2. \A r2 \in Reloads : \/ rpc'[r2] = "done"
                              \/ /\ rpc'[r2] = rpc[r2]
                                 /\ poolState'[r2] = poolState[r2]
      BY <3>1 DEF Pools
    <3> QED BY <3>1, <3>2
  <2>9. CASE CreateStores(r)
    BY <2>9 DEF CreateStores
  <2>10. CASE CreateStoresFails(r)
    <3>1. /\ rpc' = [rpc EXCEPT ![r] = "done"]
          /\ poolState' = [poolState EXCEPT ![r] = "closed"]
          /\ UNCHANGED <<pools, oldPool, qpool>>
      BY <2>10 DEF CreateStoresFails
    <3>2. \A r2 \in Reloads : \/ rpc'[r2] = "done"
                              \/ /\ rpc'[r2] = rpc[r2]
                                 /\ poolState'[r2] = poolState[r2]
      BY <3>1 DEF Pools
    <3> QED BY <3>1, <3>2
  <2>11. CASE LockConfig(r)
    BY <2>11 DEF LockConfig, AcquireWrite, CanWrite, CanRead
  <2>12. CASE LockPools(r)
    BY <2>12 DEF LockPools, AcquireWrite, CanWrite, CanRead
  <2>13. CASE LockStoreConfigs(r)
    BY <2>13 DEF LockStoreConfigs, AcquireWrite, CanWrite, CanRead
  <2>14. CASE SwapPools(r)
    BY <2>14 DEF SwapPools, ReplacedPools
  <2>15. CASE SwapConfig(r)
    BY <2>15 DEF SwapConfig
  <2>16. CASE SwapStoreConfigs(r)
    BY <2>16 DEF SwapStoreConfigs
  <2>17. CASE DropStoreConfigs(r)
    BY <2>17 DEF DropStoreConfigs, Release, Unlock
  <2>18. CASE DropPools(r)
    BY <2>18 DEF DropPools, Release, Unlock
  <2>19. CASE DropConfig(r)
    BY <2>19 DEF DropConfig, Release, Unlock
  <2>20. CASE LockRegistry(r)
    BY <2>20 DEF LockRegistry, AcquireWrite, CanWrite, CanRead
  <2>21. CASE RebuildRegistry(r)
    BY <2>21 DEF RebuildRegistry, RebuildSource, Unlock, CanRead
  <2>22. CASE RebuildRegistryFails(r)
    BY <2>22 DEF RebuildRegistryFails, Unlock, CanRead
  <2>23. CASE CloseOldPools(r)
    <3>1. \A r2 \in Reloads : rpc[r2] \in NotInstalled => oldPool[r] # r2
      OBVIOUS
    <3>2. \A r2 \in Reloads :
             /\ rpc'[r2] \in NotInstalled => rpc[r2] = rpc'[r2]
             /\ rpc'[r2] \in Installed => rpc[r2] \in Installed
      BY <2>23 DEF CloseOldPools
    <3>3. \A r2 \in Reloads : oldPool[r] # r2 => poolState'[r2] = poolState[r2]
      BY <2>23 DEF CloseOldPools
    <3>4. UNCHANGED <<pools, oldPool, qpool>>
      BY <2>23 DEF CloseOldPools
    <3>5. \A r2 \in Reloads :
             rpc'[r2] = "swap_pools" \/ rpc'[r2] \in BeforeSwap \
               {"read_store_configs", "create_pools"}
             => poolState'[r2] = "open"
      <4> SUFFICES ASSUME NEW r2 \in Reloads,
                          rpc'[r2] = "swap_pools" \/ rpc'[r2] \in BeforeSwap \
                            {"read_store_configs", "create_pools"}
                   PROVE  poolState'[r2] = "open"
        OBVIOUS
      <4>1. rpc'[r2] \in NotInstalled /\ rpc[r2] = rpc'[r2]
        BY <3>2
      <4>2. poolState[r2] = "open"
        BY <4>1
      <4> QED BY <3>1, <3>3, <4>1, <4>2
    <3>6. \A r1, r2 \in Reloads :
             (r1 # r2 /\ rpc'[r1] \in Installed /\ rpc'[r2] \in Installed)
               => oldPool'[r1] # oldPool'[r2]
      BY <3>2, <3>4
    <3>7. \A r2 \in Reloads :
             /\ rpc'[r2] \in Installed => oldPool'[r2] # pools'
             /\ rpc'[r2] \in NotInstalled =>
                  /\ pools' # r2
                  /\ \A r3 \in Reloads : oldPool'[r3] # r2
                  /\ \A q \in Requests : qpool'[q] # r2
      BY <3>2, <3>4
    <3> HIDE DEF BeforeSwap, NotInstalled, Installed
    <3> QED BY <3>5, <3>6, <3>7
  <2>24. CASE DrainOldPools(r)
    BY <2>24 DEF DrainOldPools, Drained
  <2>25. CASE CancelReload(r)
    BY <2>25 DEF CancelReload, DroppedPool, AwaitPoints
  <2> QED BY <1>2, <2>1, <2>2, <2>3, <2>4, <2>5, <2>6, <2>7, <2>8, <2>9,
             <2>10, <2>11, <2>12, <2>13, <2>14, <2>15, <2>16, <2>17, <2>18,
             <2>19, <2>20, <2>21, <2>22, <2>23, <2>24, <2>25
            DEF ReloadStep
<1> QED BY <1>1, <1>2 DEF Next, Terminated

\* Only pools that are not in db_pools are closed.
LEMMA NextOpen ==
  TypeOK /\ PoolOwnership /\ CurrentPoolsOpen /\ [Next]_vars
    => CurrentPoolsOpen'
<1> SUFFICES ASSUME TypeOK, PoolOwnership, CurrentPoolsOpen, [Next]_vars
             PROVE  CurrentPoolsOpen'
  OBVIOUS
<1> USE ConstantsAssumption
<1>1. CASE \/ EditConfig \/ UNCHANGED vars
           \/ \E q \in Requests : RequestStep(q) \/ CancelRequest(q)
  BY <1>1, RequestFrame DEF CurrentPoolsOpen
<1>2. ASSUME NEW r \in Reloads, ReloadStep(r) \/ CancelReload(r)
      PROVE  CurrentPoolsOpen'
  <2> USE DEF TypeOK, shared, locks, rlocals, Goto, Finish, BeforeSwap,
              InSwap, DropPcs, AfterSwap, PoolOwnership, CurrentPoolsOpen,
              NotInstalled, Installed
  <2>1. CASE RejectReload(r)
    <3>1. rpc' = [rpc EXCEPT ![r] = "done"]
      BY <2>1 DEF RejectReload
    <3> QED BY <2>1, <3>1 DEF RejectReload
  <2>2. CASE LoadConfig(r)
    BY <2>2 DEF LoadConfig
  <2>3. CASE AwaitLock(r)
    BY <2>3 DEF AwaitLock
  <2>4. CASE ReadStoreConfigs(r)
    BY <2>4 DEF ReadStoreConfigs
  <2>5. CASE CreatePools(r)
    BY <2>5 DEF CreatePools
  <2>6. CASE CreatePoolsFails(r)
    BY <2>6 DEF CreatePoolsFails
  <2>7. CASE Migrate(r)
    BY <2>7 DEF Migrate
  <2>8. CASE MigrateFails(r)
    BY <2>8 DEF MigrateFails
  <2>9. CASE CreateStores(r)
    BY <2>9 DEF CreateStores
  <2>10. CASE CreateStoresFails(r)
    BY <2>10 DEF CreateStoresFails
  <2>11. CASE LockConfig(r)
    BY <2>11 DEF LockConfig, AcquireWrite, CanWrite, CanRead
  <2>12. CASE LockPools(r)
    BY <2>12 DEF LockPools, AcquireWrite, CanWrite, CanRead
  <2>13. CASE LockStoreConfigs(r)
    BY <2>13 DEF LockStoreConfigs, AcquireWrite, CanWrite, CanRead
  <2>14. CASE SwapPools(r)
    BY <2>14 DEF SwapPools, ReplacedPools
  <2>15. CASE SwapConfig(r)
    BY <2>15 DEF SwapConfig
  <2>16. CASE SwapStoreConfigs(r)
    BY <2>16 DEF SwapStoreConfigs
  <2>17. CASE DropStoreConfigs(r)
    BY <2>17 DEF DropStoreConfigs, Release, Unlock
  <2>18. CASE DropPools(r)
    BY <2>18 DEF DropPools, Release, Unlock
  <2>19. CASE DropConfig(r)
    BY <2>19 DEF DropConfig, Release, Unlock
  <2>20. CASE LockRegistry(r)
    BY <2>20 DEF LockRegistry, AcquireWrite, CanWrite, CanRead
  <2>21. CASE RebuildRegistry(r)
    BY <2>21 DEF RebuildRegistry, RebuildSource, Unlock, CanRead
  <2>22. CASE RebuildRegistryFails(r)
    BY <2>22 DEF RebuildRegistryFails, Unlock, CanRead
  <2>23. CASE CloseOldPools(r)
    BY <2>23 DEF CloseOldPools
  <2>24. CASE DrainOldPools(r)
    BY <2>24 DEF DrainOldPools, Drained
  <2>25. CASE CancelReload(r)
    BY <2>25 DEF CancelReload, DroppedPool, AwaitPoints
  <2> QED BY <1>2, <2>1, <2>2, <2>3, <2>4, <2>5, <2>6, <2>7, <2>8, <2>9,
             <2>10, <2>11, <2>12, <2>13, <2>14, <2>15, <2>16, <2>17, <2>18,
             <2>19, <2>20, <2>21, <2>22, <2>23, <2>24, <2>25
            DEF ReloadStep
<1> QED BY <1>1, <1>2 DEF Next, Terminated

\* A pool is closed when no connection of it is out, and none is handed out
\* afterwards.
LEMMA NextDrained ==
  TypeOK /\ PoolOwnership /\ ClosedPoolsDrained /\ [Next]_vars
    => ClosedPoolsDrained'
<1> SUFFICES ASSUME TypeOK, PoolOwnership, ClosedPoolsDrained, [Next]_vars
             PROVE  ClosedPoolsDrained'
  OBVIOUS
<1> USE ConstantsAssumption
<1>1. CASE \/ EditConfig \/ UNCHANGED vars
           \/ \E q \in Requests : RequestStep(q) \/ CancelRequest(q)
  <2>1. UNCHANGED poolState
    BY <1>1, RequestFrame
  <2>2. \A q \in Requests :
           qpc'[q] = "query" => /\ qpool'[q] = qpool[q]
                                /\ \/ qpc[q] = "query"
                                   \/ poolState[qpool[q]] = "open"
    <3>1. CASE \E q \in Requests : RequestStep(q) \/ CancelRequest(q)
      BY <3>1 DEF TypeOK, RequestStep, Arrive, AwaitReadLock, DbPool,
                  ReadConfig, ReadRegistry, FailRequest, AcquireConnection,
                  PoolClosed, RunStatement, CancelRequest, QGoto, Respond,
                  qvars
    <3>2. CASE EditConfig \/ UNCHANGED vars
      BY <3>2 DEF EditConfig, vars, qvars
    <3> QED BY <1>1, <3>1, <3>2
  <2> QED BY <2>1, <2>2 DEF ClosedPoolsDrained, Busy
<1>2. ASSUME NEW r \in Reloads, ReloadStep(r) \/ CancelReload(r)
      PROVE  ClosedPoolsDrained'
  <2> USE DEF TypeOK, shared, locks, rlocals, Goto, Finish, qvars, BeforeSwap,
              InSwap, DropPcs, AfterSwap, PoolOwnership, ClosedPoolsDrained,
              Busy, NotInstalled
  <2>1. CASE RejectReload(r)
    <3>1. rpc' = [rpc EXCEPT ![r] = "done"]
      BY <2>1 DEF RejectReload
    <3> QED BY <2>1, <3>1 DEF RejectReload
  <2>2. CASE LoadConfig(r)
    BY <2>2 DEF LoadConfig
  <2>3. CASE AwaitLock(r)
    BY <2>3 DEF AwaitLock
  <2>4. CASE ReadStoreConfigs(r)
    BY <2>4 DEF ReadStoreConfigs
  <2>5. CASE CreatePools(r)
    BY <2>5 DEF CreatePools
  <2>6. CASE CreatePoolsFails(r)
    BY <2>6 DEF CreatePoolsFails
  <2>7. CASE Migrate(r)
    BY <2>7 DEF Migrate
  <2>8. CASE MigrateFails(r)
    BY <2>8 DEF MigrateFails
  <2>9. CASE CreateStores(r)
    BY <2>9 DEF CreateStores
  <2>10. CASE CreateStoresFails(r)
    BY <2>10 DEF CreateStoresFails
  <2>11. CASE LockConfig(r)
    BY <2>11 DEF LockConfig, AcquireWrite, CanWrite, CanRead
  <2>12. CASE LockPools(r)
    BY <2>12 DEF LockPools, AcquireWrite, CanWrite, CanRead
  <2>13. CASE LockStoreConfigs(r)
    BY <2>13 DEF LockStoreConfigs, AcquireWrite, CanWrite, CanRead
  <2>14. CASE SwapPools(r)
    BY <2>14 DEF SwapPools, ReplacedPools
  <2>15. CASE SwapConfig(r)
    BY <2>15 DEF SwapConfig
  <2>16. CASE SwapStoreConfigs(r)
    BY <2>16 DEF SwapStoreConfigs
  <2>17. CASE DropStoreConfigs(r)
    BY <2>17 DEF DropStoreConfigs, Release, Unlock
  <2>18. CASE DropPools(r)
    BY <2>18 DEF DropPools, Release, Unlock
  <2>19. CASE DropConfig(r)
    BY <2>19 DEF DropConfig, Release, Unlock
  <2>20. CASE LockRegistry(r)
    BY <2>20 DEF LockRegistry, AcquireWrite, CanWrite, CanRead
  <2>21. CASE RebuildRegistry(r)
    BY <2>21 DEF RebuildRegistry, RebuildSource, Unlock, CanRead
  <2>22. CASE RebuildRegistryFails(r)
    BY <2>22 DEF RebuildRegistryFails, Unlock, CanRead
  <2>23. CASE CloseOldPools(r)
    BY <2>23 DEF CloseOldPools
  <2>24. CASE DrainOldPools(r)
    BY <2>24 DEF DrainOldPools, Drained
  <2>25. CASE CancelReload(r)
    BY <2>25 DEF CancelReload, DroppedPool, AwaitPoints
  <2> QED BY <1>2, <2>1, <2>2, <2>3, <2>4, <2>5, <2>6, <2>7, <2>8, <2>9,
             <2>10, <2>11, <2>12, <2>13, <2>14, <2>15, <2>16, <2>17, <2>18,
             <2>19, <2>20, <2>21, <2>22, <2>23, <2>24, <2>25
            DEF ReloadStep
<1> QED BY <1>1, <1>2 DEF Next, Terminated

\* A registry that lags behind the config has a reload to blame.
LEMMA NextRegistry ==
  TypeOK /\ RegistryProgress /\ [Next]_vars
    => RegistryProgress'
<1> SUFFICES ASSUME TypeOK, RegistryProgress, [Next]_vars
             PROVE  RegistryProgress'
  OBVIOUS
<1> USE ConstantsAssumption
<1>1. CASE \/ EditConfig \/ UNCHANGED vars
           \/ \E q \in Requests : RequestStep(q) \/ CancelRequest(q)
  BY <1>1, RequestFrame DEF RegistryProgress
<1>2. ASSUME NEW r \in Reloads, ReloadStep(r) \/ CancelReload(r)
      PROVE  RegistryProgress'
  <2> USE DEF TypeOK, shared, locks, rlocals, Goto, Finish, BeforeSwap,
              InSwap, DropPcs, AfterSwap, RegistryProgress, RebuildPending
  <2>1. CASE RejectReload(r)
    <3>1. rpc' = [rpc EXCEPT ![r] = "done"]
      BY <2>1 DEF RejectReload
    <3> QED BY <2>1, <3>1 DEF RejectReload
  <2>2. CASE LoadConfig(r)
    BY <2>2 DEF LoadConfig
  <2>3. CASE AwaitLock(r)
    BY <2>3 DEF AwaitLock
  <2>4. CASE ReadStoreConfigs(r)
    BY <2>4 DEF ReadStoreConfigs
  <2>5. CASE CreatePools(r)
    BY <2>5 DEF CreatePools
  <2>6. CASE CreatePoolsFails(r)
    BY <2>6 DEF CreatePoolsFails
  <2>7. CASE Migrate(r)
    BY <2>7 DEF Migrate
  <2>8. CASE MigrateFails(r)
    BY <2>8 DEF MigrateFails
  <2>9. CASE CreateStores(r)
    BY <2>9 DEF CreateStores
  <2>10. CASE CreateStoresFails(r)
    BY <2>10 DEF CreateStoresFails
  <2>11. CASE LockConfig(r)
    BY <2>11 DEF LockConfig, AcquireWrite, CanWrite, CanRead
  <2>12. CASE LockPools(r)
    BY <2>12 DEF LockPools, AcquireWrite, CanWrite, CanRead
  <2>13. CASE LockStoreConfigs(r)
    BY <2>13 DEF LockStoreConfigs, AcquireWrite, CanWrite, CanRead
  <2>14. CASE SwapPools(r)
    BY <2>14 DEF SwapPools, ReplacedPools
  <2>15. CASE SwapConfig(r)
    BY <2>15 DEF SwapConfig
  <2>16. CASE SwapStoreConfigs(r)
    BY <2>16 DEF SwapStoreConfigs
  <2>17. CASE DropStoreConfigs(r)
    BY <2>17 DEF DropStoreConfigs, Release, Unlock
  <2>18. CASE DropPools(r)
    BY <2>18 DEF DropPools, Release, Unlock
  <2>19. CASE DropConfig(r)
    BY <2>19 DEF DropConfig, Release, Unlock
  <2>20. CASE LockRegistry(r)
    BY <2>20 DEF LockRegistry, AcquireWrite, CanWrite, CanRead
  <2>21. CASE RebuildRegistry(r)
    BY <2>21 DEF RebuildRegistry, RebuildSource, Unlock, CanRead
  <2>22. CASE RebuildRegistryFails(r)
    BY <2>22 DEF RebuildRegistryFails, Unlock, CanRead
  <2>23. CASE CloseOldPools(r)
    BY <2>23 DEF CloseOldPools
  <2>24. CASE DrainOldPools(r)
    BY <2>24 DEF DrainOldPools, Drained
  <2>25. CASE CancelReload(r)
    BY <2>25 DEF CancelReload, DroppedPool, AwaitPoints
  <2> QED BY <1>2, <2>1, <2>2, <2>3, <2>4, <2>5, <2>6, <2>7, <2>8, <2>9,
             <2>10, <2>11, <2>12, <2>13, <2>14, <2>15, <2>16, <2>17, <2>18,
             <2>19, <2>20, <2>21, <2>22, <2>23, <2>24, <2>25
            DEF ReloadStep
<1> QED BY <1>1, <1>2 DEF Next, Terminated

\* Init establishes the inductive invariant.
LEMMA InitInv == Init => IndInv
<1> SUFFICES ASSUME Init PROVE IndInv
  OBVIOUS
<1> USE ConstantsAssumption
<1>1. TypeOK /\ StatementsLeft
  BY InitType
<1>2. LockOwnership /\ SwapProgress
  BY DEF Init, LockOwnership, SwapProgress, HoldsConfig, HoldsPools,
         HoldsStoreConfigs, InSwap, DropPcs, PoolConfig
<1>3. PoolOwnership
  BY DEF Init, PoolOwnership, NotInstalled, Installed, BeforeSwap, InSwap,
         DropPcs, AfterSwap
<1>4. CurrentPoolsOpen /\ ClosedPoolsDrained
  BY DEF Init, CurrentPoolsOpen, ClosedPoolsDrained, Busy
<1>5. RegistryProgress
  BY DEF Init, RegistryProgress
<1> QED BY <1>1, <1>2, <1>3, <1>4, <1>5 DEF IndInv

\* Every step preserves it.
LEMMA NextInv == IndInv /\ [Next]_vars => IndInv'
  BY NextType, NextLocks, NextSwap, NextPools, NextOpen, NextDrained,
     NextRegistry DEF IndInv

\* The inductive invariant holds in every reachable state.
THEOREM Invariance == Spec => []IndInv
  BY InitInv, NextInv, PTL DEF Spec

\* reload.rs:207, as far as the locks go: a task that reads config, db_pools
\* and store_configs under their locks together sees one configuration,
\* however many reloads run, fail or are cancelled.
THEOREM SwapAtomicity == Spec => []SwapIsAtomic
<1>1. IndInv => SwapIsAtomic
  BY ConstantsAssumption
  DEF IndInv, LockOwnership, SwapProgress, SwapIsAtomic, HoldsConfig, InSwap
<1> QED BY <1>1, Invariance, PTL

\* The pools in db_pools are open: a request that takes one while reloads
\* come and go can use it.
THEOREM PoolSafety == Spec => []CurrentPoolsOpen
<1>1. IndInv => CurrentPoolsOpen
  BY DEF IndInv
<1> QED BY <1>1, Invariance, PTL

\* A pool reported closed has no connection out: a reload never pulls a pool
\* from under a statement (close_pools in reload.rs).
THEOREM DrainSafety == Spec => []ClosedPoolsDrained
<1>1. IndInv => ClosedPoolsDrained
  BY DEF IndInv
<1> QED BY <1>1, Invariance, PTL

\* Two reloads never drain the same pools.
THEOREM PoolsClosedOnce == Spec => []OneCloserPerMap
<1>1. IndInv => OneCloserPerMap
  BY DEF IndInv, PoolOwnership, OneCloserPerMap, Installed, AfterSwap
<1> QED BY <1>1, Invariance, PTL

\* When all reloads are over and none stopped between swap and rebuild, the
\* schema registry is that of the config being served.
THEOREM RegistryAgreement == Spec => []RegistryFollowsConfig
<1>1. IndInv => RegistryFollowsConfig
  BY DEF IndInv, RegistryProgress, RegistryFollowsConfig, Quiescent,
         RebuildPending, DropPcs
<1> QED BY <1>1, Invariance, PTL
=============================================================================
