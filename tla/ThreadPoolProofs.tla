------------------------- MODULE ThreadPoolProofs --------------------------
(***************************************************************************)
(* What ThreadPool guarantees for every number of workers, clients and     *)
(* tasks.  BaseInv holds whatever the waits do; Steady, and with it the    *)
(* statements about clean tasks, until a wait returns on its own.          *)
(***************************************************************************)
EXTENDS ThreadPool, FiniteSetTheorems, TLAPS

USE ThreadAssumption, NameAssumption DEF MaxThreads, Worker, PoolMonitor, Lock

-----------------------------------------------------------------------------
(* Frames: the variables a thread of each kind leaves alone, and what a    *)
(* notification may do to the sleepers.                                    *)

LEMMA WorkerFrame ==
  ASSUME NEW w \in Worker, Work(w) \/ Spurious(w)
  PROVE  UNCHANGED <<owner, ctor, spawned, pfn, param, clientVars, histVars>>
BY DEF Work, Spurious, Register, SleepOnPool, LeavePool, ClearRunning,
   SleepOnSlot, TakeTask, LoadFunction, CallTask, CallNull, FinishTask,
   NotifyPool, poolVars, slotVars, callVars, clientVars, histVars

LEMMA ClientFrame ==
  ASSUME NEW c \in Client, Proceed(c) \/ Call(c)
  PROVE  UNCHANGED <<poolVars, wpc, callVars, spurious>>
BY DEF Proceed, Call, Execute, LockPool, SkipRunning, TryAgain, FoundThread,
   StoreFunction, StoreParameter, StoreRunning, NotifyWorker, UnlockPool,
   WaitIdle, PollWorker, PollAgain, FoundIdle, WaitReturns,
   poolVars, slotVars, callVars, clientVars, histVars

LEMMA ConstructFrame ==
  ASSUME Construct
  PROVE  UNCHANGED <<owner, running_threads, slotVars, callVars, clientVars,
                     spurious, histVars>>
BY DEF Construct, Allocate, StartThread, StartThreadFails, AllStarted,
   ReleaseWorkers, poolVars, slotVars, callVars, clientVars, histVars

LEMMA SignalWakes ==
  ASSUME NEW m \in {PoolMonitor} \cup Worker, CondSignal(m),
         waiting \in [{PoolMonitor} \cup Worker -> SUBSET Worker]
  PROVE  /\ waiting' \in [{PoolMonitor} \cup Worker -> SUBSET Worker]
         /\ waiting'[m] \subseteq waiting[m]
         /\ \A n \in {PoolMonitor} \cup Worker :
              n # m => waiting'[n] = waiting[n]
<1>1. CASE waiting[m] = {}
  BY <1>1 DEF CondSignal
<1>2. CASE waiting[m] # {}
  <2>1. PICK t \in waiting[m] : waiting' = [waiting EXCEPT ![m] = @ \ {t}]
    BY <1>2 DEF CondSignal
  <2>. QED
    BY <2>1
<1>. QED
  BY <1>1, <1>2

(* Counting a worker: the counter stays the number of the counted. *)
LEMMA Counting ==
  ASSUME BaseInv, NEW w \in Worker, Register(w)
  PROVE  /\ running_threads < N
         /\ running_threads' \in 0..N
         /\ running_threads' = Cardinality(Counted')
<1>1. IsFiniteSet(Worker) /\ Cardinality(Worker) = N
  BY FS_Interval
<1>2. IsFiniteSet(Counted) /\ w \notin Counted
  BY <1>1, FS_Subset DEF Register, WorkerStep, Counted
<1>3. Counted' = Counted \cup {w}
  BY DEF Register, WorkerStep, Counted, BaseInv, TypeOK, WorkerState
<1>4. Cardinality(Counted') = Cardinality(Counted) + 1
  BY <1>2, <1>3, FS_AddElement
<1>5. Cardinality(Counted') <= N
  BY <1>1, FS_Subset DEF Counted
<1>6. running_threads = Cardinality(Counted) /\ running_threads \in 0..N
  BY DEF BaseInv, CtorInv, TypeOK
<1>. QED
  BY <1>4, <1>5, <1>6 DEF Register

-----------------------------------------------------------------------------
(* A step keeps the types: the counter by Counting, indices by the loops'  *)
(* bounds, a job by JobInv, a called function by the guard of the call.    *)
LEMMA TypeStep ==
  BaseInv /\ [Next]_vars => TypeOK'
<1> SUFFICES ASSUME BaseInv, [Next]_vars PROVE TypeOK'
  OBVIOUS
<1> USE DEF poolVars, slotVars, clientVars, histVars, callVars
<1>1. ASSUME Allocate PROVE TypeOK'
  BY <1>1 DEF Allocate, CtorStep, TypeOK, CtorState, WorkerState,
     ClientState, Pointer, BaseInv
<1>2. ASSUME StartThread
      PROVE  TypeOK'
  <2>1. spawned + 1 \in Worker
    BY <1>2 DEF StartThread, CtorStep, BaseInv, CtorInv, TypeOK
  <2>. QED
    BY <1>2, <2>1 DEF StartThread, CtorStep, BaseInv, TypeOK, CtorState,
       WorkerState
<1>3. ASSUME StartThreadFails PROVE TypeOK'
  BY <1>3 DEF StartThreadFails, CtorStep, TypeOK, CtorState, WorkerState,
     ClientState, Pointer, BaseInv
<1>4. ASSUME AllStarted PROVE TypeOK'
  BY <1>4 DEF AllStarted, CtorStep, TypeOK, CtorState, WorkerState,
     ClientState, Pointer, BaseInv
<1>5. ASSUME ReleaseWorkers PROVE TypeOK'
  BY <1>5 DEF ReleaseWorkers, CtorStep, MonitorNotifyAll, CondBroadcast,
     TypeOK, CtorState, WorkerState, ClientState, Pointer, BaseInv
<1>6. ASSUME NEW w \in Worker, Register(w)
      PROVE  TypeOK'
  <2>1. running_threads' \in 0..N
    BY <1>6, Counting
  <2>. QED
    BY <1>6, <2>1 DEF Register, WorkerStep, BaseInv, TypeOK, CtorState,
       WorkerState
<1>7. ASSUME NEW w \in Worker, SleepOnPool(w)
      PROVE  TypeOK'
  BY <1>7 DEF SleepOnPool, WorkerStep, MonitorSleep, TypeOK, CtorState,
     WorkerState, ClientState, Pointer, BaseInv
<1>8. ASSUME NEW w \in Worker, LeavePool(w)
      PROVE  TypeOK'
  BY <1>8 DEF LeavePool, WorkerStep, MonitorAwake, TypeOK, CtorState,
     WorkerState, ClientState, Pointer, BaseInv
<1>9. ASSUME NEW w \in Worker, ClearRunning(w)
      PROVE  TypeOK'
  BY <1>9 DEF ClearRunning, WorkerStep, TypeOK, CtorState, WorkerState,
     ClientState, Pointer, BaseInv
<1>10. ASSUME NEW w \in Worker, SleepOnSlot(w)
      PROVE  TypeOK'
  BY <1>10 DEF SleepOnSlot, WorkerStep, MonitorSleep, TypeOK, CtorState,
     WorkerState, ClientState, Pointer, BaseInv
<1>11. ASSUME NEW w \in Worker, TakeTask(w)
      PROVE  TypeOK'
  BY <1>11 DEF TakeTask, WorkerStep, MonitorAwake, TypeOK, CtorState,
     WorkerState, ClientState, Pointer, BaseInv
<1>12. ASSUME NEW w \in Worker, LoadFunction(w)
      PROVE  TypeOK'
  BY <1>12 DEF LoadFunction, WorkerStep, TypeOK, CtorState, WorkerState,
     ClientState, Pointer, BaseInv
<1>13. ASSUME NEW w \in Worker, CallTask(w)
      PROVE  TypeOK'
  <2>1. cur[w] \in Task /\ param[w] \in Pointer
    BY <1>13 DEF CallTask, BaseInv, TypeOK, Pointer
  <2>2. calls' \in [Task \X Pointer -> Nat]
    BY <1>13, <2>1 DEF CallTask, BaseInv, TypeOK
  <2>. QED
    BY <1>13, <2>2 DEF CallTask, WorkerStep, BaseInv, TypeOK, WorkerState
<1>14. ASSUME NEW w \in Worker, CallNull(w)
      PROVE  TypeOK'
  BY <1>14 DEF CallNull, WorkerStep, TypeOK, CtorState, WorkerState,
     ClientState, Pointer, BaseInv
<1>15. ASSUME NEW w \in Worker, FinishTask(w)
      PROVE  TypeOK'
  <2>1. cur[w] \in Task
    BY <1>15 DEF FinishTask, WorkerStep, BaseInv, RunInv, TypeOK, Pointer
  <2>. QED
    BY <1>15, <2>1 DEF FinishTask, WorkerStep, BaseInv, TypeOK, WorkerState
<1>16. ASSUME NEW w \in Worker, NotifyPool(w)
      PROVE  TypeOK'
  <2>1. waiting' \in [{PoolMonitor} \cup Worker -> SUBSET Worker]
    BY <1>16, SignalWakes DEF NotifyPool, MonitorNotify, BaseInv, TypeOK
  <2>. QED
    BY <1>16, <2>1 DEF NotifyPool, WorkerStep, BaseInv, TypeOK, WorkerState
<1>17. ASSUME NEW w \in Worker, Spurious(w)
      PROVE  TypeOK'
  BY <1>17 DEF Spurious, SpuriousWake, TypeOK, CtorState, WorkerState,
     ClientState, Pointer, BaseInv
<1>18. ASSUME NEW c \in Client, LockPool(c)
      PROVE  TypeOK'
  BY <1>18 DEF LockPool, ClientStep, MutexLock, TypeOK, CtorState,
     WorkerState, ClientState, Pointer, BaseInv
<1>19. ASSUME NEW c \in Client, SkipRunning(c)
      PROVE  TypeOK'
  BY <1>19 DEF SkipRunning, BaseInv, TypeOK
<1>20. ASSUME NEW c \in Client, TryAgain(c)
      PROVE  TypeOK'
  BY <1>20 DEF TryAgain, ClientStep, MutexUnlock, TypeOK, CtorState,
     WorkerState, ClientState, Pointer, BaseInv
<1>21. ASSUME NEW c \in Client, FoundThread(c)
      PROVE  TypeOK'
  <2>1. job[c] \in Task /\ idx[c] \in Worker
    BY <1>21 DEF FoundThread, ClientStep, BaseInv, JobInv, TypeOK
  <2>2. home' \in [Task -> 0..N] /\ clean' \in SUBSET Task
    BY <1>21, <2>1 DEF FoundThread, BaseInv, TypeOK
  <2>. QED
    BY <1>21, <2>2 DEF FoundThread, ClientStep, BaseInv, TypeOK, ClientState
<1>22. ASSUME NEW c \in Client, StoreFunction(c)
      PROVE  TypeOK'
  BY <1>22 DEF StoreFunction, ClientStep, TypeOK, CtorState, WorkerState,
     ClientState, Pointer, BaseInv
<1>23. ASSUME NEW c \in Client, StoreParameter(c)
      PROVE  TypeOK'
  BY <1>23 DEF StoreParameter, ClientStep, TypeOK, CtorState, WorkerState,
     ClientState, Pointer, BaseInv
<1>24. ASSUME NEW c \in Client, StoreRunning(c)
      PROVE  TypeOK'
  BY <1>24 DEF StoreRunning, ClientStep, TypeOK, CtorState, WorkerState,
     ClientState, Pointer, BaseInv
<1>25. ASSUME NEW c \in Client, NotifyWorker(c)
      PROVE  TypeOK'
  <2>1. idx[c] \in Worker
    BY <1>25 DEF NotifyWorker, ClientStep, Claiming, BaseInv, JobInv
  <2>2. waiting' \in [{PoolMonitor} \cup Worker -> SUBSET Worker]
    BY <1>25, <2>1, SignalWakes DEF NotifyWorker, MonitorNotify, BaseInv,
       TypeOK
  <2>. QED
    BY <1>25, <2>2 DEF NotifyWorker, ClientStep, BaseInv, TypeOK, ClientState
<1>26. ASSUME NEW c \in Client, UnlockPool(c)
      PROVE  TypeOK'
  BY <1>26 DEF UnlockPool, ClientStep, MutexUnlock, TypeOK, CtorState,
     WorkerState, ClientState, Pointer, BaseInv
<1>27. ASSUME NEW c \in Client, WaitIdle(c)
      PROVE  TypeOK'
  BY <1>27 DEF WaitIdle, ClientStep, TypeOK, CtorState, WorkerState,
     ClientState, Pointer, BaseInv
<1>28. ASSUME NEW c \in Client, PollWorker(c)
      PROVE  TypeOK'
  BY <1>28 DEF PollWorker, BaseInv, TypeOK
<1>29. ASSUME NEW c \in Client, PollAgain(c)
      PROVE  TypeOK'
  BY <1>29 DEF PollAgain, ClientStep, TypeOK, CtorState, WorkerState,
     ClientState, Pointer, BaseInv
<1>30. ASSUME NEW c \in Client, FoundIdle(c)
      PROVE  TypeOK'
  BY <1>30 DEF FoundIdle, ClientStep, TypeOK, CtorState, WorkerState,
     ClientState, Pointer, BaseInv
<1>31. ASSUME NEW c \in Client, WaitReturns(c)
      PROVE  TypeOK'
  BY <1>31 DEF WaitReturns, ClientStep, TypeOK, CtorState, WorkerState,
     ClientState, Pointer, BaseInv
<1>32. ASSUME NEW c \in Client, NEW k \in Task, Execute(c, k)
      PROVE  TypeOK'
  BY <1>32 DEF Execute, ClientStep, TypeOK, CtorState, WorkerState,
     ClientState, Pointer, BaseInv
<1>33. CASE UNCHANGED vars
  BY <1>33 DEF vars, TypeOK, CtorState, WorkerState, ClientState, Pointer,
     BaseInv
<1>34. QED
  BY <1>1, <1>2, <1>3, <1>4, <1>5, <1>6, <1>7, <1>8, <1>9, <1>10, <1>11,
     <1>12, <1>13, <1>14, <1>15, <1>16, <1>17, <1>18, <1>19, <1>20, <1>21,
     <1>22, <1>23, <1>24, <1>25, <1>26, <1>27, <1>28, <1>29, <1>30, <1>31,
     <1>32, <1>33 DEF Next, Construct, Work, Proceed, Call

(* The owner of _lock changes hands only in the clients' own steps. *)
LEMMA LockStep ==
  BaseInv /\ [Next]_vars => LockInv'
<1> SUFFICES ASSUME BaseInv, [Next]_vars PROVE LockInv'
  OBVIOUS
<1> USE DEF poolVars, slotVars, clientVars, histVars, callVars
<1>1. ASSUME Construct PROVE LockInv'
  BY <1>1, ConstructFrame DEF LockInv, Claiming, BaseInv, TypeOK
<1>2. ASSUME NEW w \in Worker, Work(w) \/ Spurious(w) PROVE LockInv'
  BY <1>2, WorkerFrame DEF LockInv, Claiming, BaseInv, TypeOK
<1>3. ASSUME NEW c \in Client, Proceed(c) \/ Call(c) PROVE LockInv'
  <2>1. CASE LockPool(c)
    BY <2>1 DEF LockPool, ClientStep, MutexLock, LockInv, Claiming, BaseInv,
       TypeOK
  <2>2. CASE SkipRunning(c)
    BY <2>2 DEF SkipRunning, ClientStep, LockInv, Claiming, BaseInv, TypeOK
  <2>3. CASE TryAgain(c)
    BY <2>3 DEF TryAgain, ClientStep, MutexUnlock, LockInv, Claiming,
       BaseInv, TypeOK
  <2>4. CASE FoundThread(c)
    BY <2>4 DEF FoundThread, ClientStep, LockInv, Claiming, BaseInv, TypeOK
  <2>5. CASE StoreFunction(c)
    BY <2>5 DEF StoreFunction, ClientStep, LockInv, Claiming, BaseInv,
       TypeOK
  <2>6. CASE StoreParameter(c)
    BY <2>6 DEF StoreParameter, ClientStep, LockInv, Claiming, BaseInv,
       TypeOK
  <2>7. CASE StoreRunning(c)
    BY <2>7 DEF StoreRunning, ClientStep, LockInv, Claiming, BaseInv, TypeOK
  <2>8. CASE NotifyWorker(c)
    BY <2>8 DEF NotifyWorker, ClientStep, MonitorNotify, CondSignal,
       LockInv, Claiming, BaseInv, TypeOK
  <2>9. CASE UnlockPool(c)
    BY <2>9 DEF UnlockPool, ClientStep, MutexUnlock, LockInv, Claiming,
       BaseInv, TypeOK
  <2>10. CASE WaitIdle(c)
    BY <2>10 DEF WaitIdle, ClientStep, LockInv, Claiming, BaseInv, TypeOK
  <2>11. CASE PollWorker(c)
    BY <2>11 DEF PollWorker, ClientStep, LockInv, Claiming, BaseInv, TypeOK
  <2>12. CASE PollAgain(c)
    BY <2>12 DEF PollAgain, ClientStep, LockInv, Claiming, BaseInv, TypeOK
  <2>13. CASE FoundIdle(c)
    BY <2>13 DEF FoundIdle, ClientStep, LockInv, Claiming, BaseInv, TypeOK
  <2>14. CASE WaitReturns(c)
    BY <2>14 DEF WaitReturns, ClientStep, LockInv, Claiming, BaseInv, TypeOK
  <2>15. ASSUME NEW k \in Task, Execute(c, k) PROVE LockInv'
    BY <2>15 DEF Execute, ClientStep, LockInv, Claiming, BaseInv, TypeOK
  <2>. QED
    BY <1>3, <2>1, <2>2, <2>3, <2>4, <2>5, <2>6, <2>7, <2>8, <2>9, <2>10,
       <2>11, <2>12, <2>13, <2>14, <2>15 DEF Proceed, Call
<1>4. CASE UNCHANGED vars
  BY <1>4 DEF vars, LockInv, Claiming, BaseInv, TypeOK
<1>. QED
  BY <1>1, <1>2, <1>3, <1>4 DEF Next

(* Counting adds exactly the worker that counts itself; once all N are     *)
(* counted, none is left to do so.                                         *)
LEMMA CountStep ==
  BaseInv /\ [Next]_vars => CtorInv'
<1> SUFFICES ASSUME BaseInv, [Next]_vars PROVE CtorInv'
  OBVIOUS
<1> USE DEF poolVars, slotVars, clientVars, histVars, callVars
<1>1. ASSUME Construct PROVE CtorInv'
  <2>1. CASE Allocate
    BY <2>1 DEF Allocate, CtorStep, CtorInv, BaseInv, TypeOK, Counted,
       WorkerState, CtorState
  <2>2. CASE StartThread
    <3>1. spawned + 1 \in Worker /\ wpc[spawned + 1] = "unborn"
      BY <2>2 DEF StartThread, CtorStep, CtorInv, BaseInv, TypeOK
    <3>2. Counted' = Counted
      BY <2>2, <3>1 DEF StartThread, Counted, BaseInv, TypeOK
    <3>. QED
      BY <2>2, <3>1, <3>2 DEF StartThread, CtorStep, CtorInv, BaseInv, TypeOK
  <2>3. CASE StartThreadFails
    BY <2>3 DEF StartThreadFails, CtorStep, CtorInv, BaseInv, TypeOK,
       Counted, WorkerState, CtorState
  <2>4. CASE AllStarted
    BY <2>4 DEF AllStarted, CtorStep, CtorInv, BaseInv, TypeOK, Counted,
       WorkerState, CtorState
  <2>5. CASE ReleaseWorkers
    BY <2>5 DEF ReleaseWorkers, CtorStep, MonitorNotifyAll, CondBroadcast,
       CtorInv, BaseInv, TypeOK, Counted, WorkerState, CtorState
  <2>. QED
    BY <1>1, <2>1, <2>2, <2>3, <2>4, <2>5 DEF Construct
<1>2. ASSUME NEW w \in Worker, Work(w) \/ Spurious(w) PROVE CtorInv'
  <2>1. CASE Register(w)
    <3>1. running_threads < N /\ running_threads' = Cardinality(Counted')
      BY <2>1, Counting
    <3>2. wpc[w] = "register" /\ UNCHANGED <<ctor, spawned>>
      BY <2>1 DEF Register, WorkerStep
    <3>3. \A v \in Worker : v > spawned => wpc'[v] = "unborn"
      BY <2>1, <3>2 DEF Register, WorkerStep, CtorInv, BaseInv, TypeOK
    <3>. QED
      BY <3>1, <3>2, <3>3 DEF CtorInv, BaseInv
  <2>2. CASE SleepOnPool(w)
    BY <2>2 DEF SleepOnPool, WorkerStep, MonitorSleep, CtorInv, BaseInv,
       TypeOK, Counted, WorkerState, CtorState
  <2>3. CASE LeavePool(w)
    BY <2>3 DEF LeavePool, WorkerStep, MonitorAwake, CtorInv, BaseInv,
       TypeOK, Counted, WorkerState, CtorState
  <2>4. CASE ClearRunning(w)
    BY <2>4 DEF ClearRunning, WorkerStep, CtorInv, BaseInv, TypeOK, Counted,
       WorkerState, CtorState
  <2>5. CASE SleepOnSlot(w)
    BY <2>5 DEF SleepOnSlot, WorkerStep, MonitorSleep, CtorInv, BaseInv,
       TypeOK, Counted, WorkerState, CtorState
  <2>6. CASE TakeTask(w)
    BY <2>6 DEF TakeTask, WorkerStep, MonitorAwake, CtorInv, BaseInv,
       TypeOK, Counted, WorkerState, CtorState
  <2>7. CASE LoadFunction(w)
    BY <2>7 DEF LoadFunction, WorkerStep, CtorInv, BaseInv, TypeOK, Counted,
       WorkerState, CtorState
  <2>8. CASE CallTask(w)
    BY <2>8 DEF CallTask, WorkerStep, CtorInv, BaseInv, TypeOK, Counted,
       WorkerState, CtorState
  <2>9. CASE CallNull(w)
    BY <2>9 DEF CallNull, WorkerStep, CtorInv, BaseInv, TypeOK, Counted,
       WorkerState, CtorState
  <2>10. CASE FinishTask(w)
    BY <2>10 DEF FinishTask, WorkerStep, CtorInv, BaseInv, TypeOK, Counted,
       WorkerState, CtorState
  <2>11. CASE NotifyPool(w)
    BY <2>11 DEF NotifyPool, WorkerStep, MonitorNotify, CondSignal, CtorInv,
       BaseInv, TypeOK, Counted, WorkerState, CtorState
  <2>12. CASE Spurious(w)
    BY <2>12 DEF Spurious, SpuriousWake, CtorInv, BaseInv, TypeOK, Counted,
       WorkerState, CtorState
  <2>. QED
    BY <1>2, <2>1, <2>2, <2>3, <2>4, <2>5, <2>6, <2>7, <2>8, <2>9, <2>10,
       <2>11, <2>12 DEF Work
<1>3. ASSUME NEW c \in Client, Proceed(c) \/ Call(c) PROVE CtorInv'
  BY <1>3, ClientFrame DEF CtorInv, BaseInv, Counted
<1>4. CASE UNCHANGED vars
  BY <1>4 DEF vars, CtorInv, BaseInv, Counted
<1>. QED
  BY <1>1, <1>2, <1>3, <1>4 DEF Next

(* Notifications only remove sleepers. *)
LEMMA WaitStep ==
  BaseInv /\ [Next]_vars => WaitInv'
<1> SUFFICES ASSUME BaseInv, [Next]_vars PROVE WaitInv'
  OBVIOUS
<1> USE DEF poolVars, slotVars, clientVars, histVars, callVars
<1>1. ASSUME Construct PROVE WaitInv'
  <2>1. CASE Allocate
    BY <2>1 DEF Allocate, CtorStep, WaitInv, BaseInv, TypeOK
  <2>2. CASE StartThread
    BY <2>2 DEF StartThread, CtorStep, WaitInv, BaseInv, TypeOK, CtorInv,
       CtorState
  <2>3. CASE StartThreadFails
    BY <2>3 DEF StartThreadFails, CtorStep, WaitInv, BaseInv, TypeOK
  <2>4. CASE AllStarted
    BY <2>4 DEF AllStarted, CtorStep, WaitInv, BaseInv, TypeOK
  <2>5. CASE ReleaseWorkers
    BY <2>5 DEF ReleaseWorkers, CtorStep, MonitorNotifyAll, CondBroadcast,
       WaitInv, BaseInv, TypeOK
  <2>. QED
    BY <1>1, <2>1, <2>2, <2>3, <2>4, <2>5 DEF Construct
<1>2. ASSUME NEW w \in Worker, Work(w) \/ Spurious(w) PROVE WaitInv'
  <2>1. CASE Register(w)
    BY <2>1 DEF Register, WorkerStep, WaitInv, BaseInv, TypeOK
  <2>2. CASE SleepOnPool(w)
    BY <2>2 DEF SleepOnPool, WorkerStep, MonitorSleep, WaitInv, BaseInv,
       TypeOK
  <2>3. CASE LeavePool(w)
    BY <2>3 DEF LeavePool, WorkerStep, MonitorAwake, WaitInv, BaseInv,
       TypeOK
  <2>4. CASE ClearRunning(w)
    BY <2>4 DEF ClearRunning, WorkerStep, WaitInv, BaseInv, TypeOK
  <2>5. CASE SleepOnSlot(w)
    BY <2>5 DEF SleepOnSlot, WorkerStep, MonitorSleep, WaitInv, BaseInv,
       TypeOK
  <2>6. CASE TakeTask(w)
    BY <2>6 DEF TakeTask, WorkerStep, MonitorAwake, WaitInv, BaseInv, TypeOK
  <2>7. CASE LoadFunction(w)
    BY <2>7 DEF LoadFunction, WorkerStep, WaitInv, BaseInv, TypeOK
  <2>8. CASE CallTask(w)
    BY <2>8 DEF CallTask, WorkerStep, WaitInv, BaseInv, TypeOK
  <2>9. CASE CallNull(w)
    BY <2>9 DEF CallNull, WorkerStep, WaitInv, BaseInv, TypeOK
  <2>10. CASE FinishTask(w)
    BY <2>10 DEF FinishTask, WorkerStep, WaitInv, BaseInv, TypeOK
  <2>11. CASE NotifyPool(w)
    <3>1. /\ waiting'[PoolMonitor] \subseteq waiting[PoolMonitor]
          /\ \A v \in Worker : waiting'[v] = waiting[v]
      BY <2>11, SignalWakes DEF NotifyPool, MonitorNotify, BaseInv, TypeOK
    <3>2. wpc[w] = "notify" /\ \A v \in Worker \ {w} : wpc'[v] = wpc[v]
      BY <2>11 DEF NotifyPool, WorkerStep, BaseInv, TypeOK
    <3>3. \A v \in Worker : v \in waiting[PoolMonitor] \cup waiting[v] => v # w
      BY <3>2 DEF WaitInv, BaseInv
    <3>. QED
      BY <3>1, <3>2, <3>3 DEF WaitInv, BaseInv
  <2>12. CASE Spurious(w)
    <3>1. CASE SpuriousWake(w, PoolMonitor)
      BY <2>12, <3>1 DEF Spurious, SpuriousWake, WaitInv, BaseInv, TypeOK
    <3>2. CASE SpuriousWake(w, w)
      BY <2>12, <3>2 DEF Spurious, SpuriousWake, WaitInv, BaseInv, TypeOK
    <3>. QED
      BY <2>12, <3>1, <3>2 DEF Spurious
  <2>. QED
    BY <1>2, <2>1, <2>2, <2>3, <2>4, <2>5, <2>6, <2>7, <2>8, <2>9, <2>10,
       <2>11, <2>12 DEF Work
<1>3. ASSUME NEW c \in Client, Proceed(c) \/ Call(c) PROVE WaitInv'
  <2>1. CASE LockPool(c)
    BY <2>1 DEF LockPool, ClientStep, MutexLock, WaitInv, BaseInv, TypeOK
  <2>2. CASE SkipRunning(c)
    BY <2>2 DEF SkipRunning, ClientStep, WaitInv, BaseInv, TypeOK
  <2>3. CASE TryAgain(c)
    BY <2>3 DEF TryAgain, ClientStep, MutexUnlock, WaitInv, BaseInv, TypeOK
  <2>4. CASE FoundThread(c)
    BY <2>4 DEF FoundThread, ClientStep, WaitInv, BaseInv, TypeOK
  <2>5. CASE StoreFunction(c)
    BY <2>5 DEF StoreFunction, ClientStep, WaitInv, BaseInv, TypeOK
  <2>6. CASE StoreParameter(c)
    BY <2>6 DEF StoreParameter, ClientStep, WaitInv, BaseInv, TypeOK
  <2>7. CASE StoreRunning(c)
    BY <2>7 DEF StoreRunning, ClientStep, WaitInv, BaseInv, TypeOK
  <2>8. CASE NotifyWorker(c)
    <3>1. idx[c] \in Worker
      BY <2>8 DEF NotifyWorker, ClientStep, Claiming, BaseInv, JobInv
    <3>2. \A m \in {PoolMonitor} \cup Worker : waiting'[m] \subseteq waiting[m]
      BY <2>8, <3>1, SignalWakes DEF NotifyWorker, MonitorNotify, BaseInv,
         TypeOK
    <3>. QED
      BY <2>8, <3>2 DEF NotifyWorker, WaitInv, BaseInv, TypeOK
  <2>9. CASE UnlockPool(c)
    BY <2>9 DEF UnlockPool, ClientStep, MutexUnlock, WaitInv, BaseInv,
       TypeOK
  <2>10. CASE WaitIdle(c)
    BY <2>10 DEF WaitIdle, ClientStep, WaitInv, BaseInv, TypeOK
  <2>11. CASE PollWorker(c)
    BY <2>11 DEF PollWorker, ClientStep, WaitInv, BaseInv, TypeOK
  <2>12. CASE PollAgain(c)
    BY <2>12 DEF PollAgain, ClientStep, WaitInv, BaseInv, TypeOK
  <2>13. CASE FoundIdle(c)
    BY <2>13 DEF FoundIdle, ClientStep, WaitInv, BaseInv, TypeOK
  <2>14. CASE WaitReturns(c)
    BY <2>14 DEF WaitReturns, ClientStep, WaitInv, BaseInv, TypeOK
  <2>15. ASSUME NEW k \in Task, Execute(c, k) PROVE WaitInv'
    BY <2>15 DEF Execute, ClientStep, WaitInv, BaseInv, TypeOK
  <2>. QED
    BY <1>3, <2>1, <2>2, <2>3, <2>4, <2>5, <2>6, <2>7, <2>8, <2>9, <2>10,
       <2>11, <2>12, <2>13, <2>14, <2>15 DEF Proceed, Call
<1>4. CASE UNCHANGED vars
  BY <1>4 DEF vars, WaitInv, BaseInv, TypeOK
<1>. QED
  BY <1>1, <1>2, <1>3, <1>4 DEF Next

(* A task has one submitter, so one client at most has it in hand. *)
LEMMA JobStep ==
  BaseInv /\ [Next]_vars => JobInv'
<1> SUFFICES ASSUME BaseInv, [Next]_vars PROVE JobInv'
  OBVIOUS
<1> USE DEF poolVars, slotVars, clientVars, histVars, callVars
<1>1. ASSUME Construct PROVE JobInv'
  BY <1>1, ConstructFrame DEF JobInv, Claiming, BaseInv, TypeOK
<1>2. ASSUME NEW w \in Worker, Work(w) \/ Spurious(w) PROVE JobInv'
  BY <1>2, WorkerFrame DEF JobInv, Claiming, BaseInv, TypeOK
<1>3. ASSUME NEW c \in Client, Proceed(c) \/ Call(c) PROVE JobInv'
  <2>1. CASE LockPool(c)
    BY <2>1 DEF LockPool, ClientStep, MutexLock, JobInv, Claiming, BaseInv,
       TypeOK, Pointer
  <2>2. CASE SkipRunning(c)
    BY <2>2 DEF SkipRunning, ClientStep, JobInv, Claiming, BaseInv, TypeOK,
       Pointer
  <2>3. CASE TryAgain(c)
    BY <2>3 DEF TryAgain, ClientStep, MutexUnlock, JobInv, Claiming,
       BaseInv, TypeOK, Pointer
  <2>4. CASE FoundThread(c)
    BY <2>4 DEF FoundThread, ClientStep, JobInv, Claiming, BaseInv, TypeOK,
       Pointer
  <2>5. CASE StoreFunction(c)
    BY <2>5 DEF StoreFunction, ClientStep, JobInv, Claiming, BaseInv,
       TypeOK, Pointer
  <2>6. CASE StoreParameter(c)
    BY <2>6 DEF StoreParameter, ClientStep, JobInv, Claiming, BaseInv,
       TypeOK, Pointer
  <2>7. CASE StoreRunning(c)
    BY <2>7 DEF StoreRunning, ClientStep, JobInv, Claiming, BaseInv, TypeOK,
       Pointer
  <2>8. CASE NotifyWorker(c)
    BY <2>8 DEF NotifyWorker, ClientStep, MonitorNotify, CondSignal, JobInv,
       Claiming, BaseInv, TypeOK, Pointer
  <2>9. CASE UnlockPool(c)
    BY <2>9 DEF UnlockPool, ClientStep, MutexUnlock, JobInv, Claiming,
       BaseInv, TypeOK, Pointer
  <2>10. CASE WaitIdle(c)
    BY <2>10 DEF WaitIdle, ClientStep, JobInv, Claiming, BaseInv, TypeOK,
       Pointer
  <2>11. CASE PollWorker(c)
    BY <2>11 DEF PollWorker, ClientStep, JobInv, Claiming, BaseInv, TypeOK,
       Pointer
  <2>12. CASE PollAgain(c)
    BY <2>12 DEF PollAgain, ClientStep, JobInv, Claiming, BaseInv, TypeOK,
       Pointer
  <2>13. CASE FoundIdle(c)
    BY <2>13 DEF FoundIdle, ClientStep, JobInv, Claiming, BaseInv, TypeOK,
       Pointer
  <2>14. CASE WaitReturns(c)
    BY <2>14 DEF WaitReturns, ClientStep, JobInv, Claiming, BaseInv, TypeOK,
       Pointer
  <2>15. ASSUME NEW k \in Task, Execute(c, k) PROVE JobInv'
    BY <2>15 DEF Execute, ClientStep, JobInv, Claiming, BaseInv, TypeOK,
       Pointer
  <2>. QED
    BY <1>3, <2>1, <2>2, <2>3, <2>4, <2>5, <2>6, <2>7, <2>8, <2>9, <2>10,
       <2>11, <2>12, <2>13, <2>14, <2>15 DEF Proceed, Call
<1>4. CASE UNCHANGED vars
  BY <1>4 DEF vars, JobInv, Claiming, BaseInv, TypeOK
<1>. QED
  BY <1>1, <1>2, <1>3, <1>4 DEF Next

(* Only CallTask enters a function, and it checks the pointer. *)
LEMMA RunStep ==
  BaseInv /\ [Next]_vars => RunInv'
<1> SUFFICES ASSUME BaseInv, [Next]_vars PROVE RunInv'
  OBVIOUS
<1> USE DEF poolVars, slotVars, clientVars, histVars, callVars
<1>1. ASSUME Construct PROVE RunInv'
  <2>1. CASE Allocate
    BY <2>1 DEF Allocate, CtorStep, RunInv, BaseInv, TypeOK, WorkerState,
       CtorInv
  <2>2. CASE StartThread
    BY <2>2 DEF StartThread, CtorStep, RunInv, BaseInv, TypeOK, WorkerState,
       CtorInv
  <2>3. CASE StartThreadFails
    BY <2>3 DEF StartThreadFails, CtorStep, RunInv, BaseInv, TypeOK,
       WorkerState, CtorInv
  <2>4. CASE AllStarted
    BY <2>4 DEF AllStarted, CtorStep, RunInv, BaseInv, TypeOK, WorkerState,
       CtorInv
  <2>5. CASE ReleaseWorkers
    BY <2>5 DEF ReleaseWorkers, CtorStep, MonitorNotifyAll, CondBroadcast,
       RunInv, BaseInv, TypeOK, WorkerState, CtorInv
  <2>. QED
    BY <1>1, <2>1, <2>2, <2>3, <2>4, <2>5 DEF Construct
<1>2. ASSUME NEW w \in Worker, Work(w) \/ Spurious(w) PROVE RunInv'
  <2>1. CASE Register(w)
    BY <2>1 DEF Register, WorkerStep, RunInv, BaseInv, TypeOK, WorkerState
  <2>2. CASE SleepOnPool(w)
    BY <2>2 DEF SleepOnPool, WorkerStep, MonitorSleep, RunInv, BaseInv,
       TypeOK, WorkerState
  <2>3. CASE LeavePool(w)
    BY <2>3 DEF LeavePool, WorkerStep, MonitorAwake, RunInv, BaseInv,
       TypeOK, WorkerState
  <2>4. CASE ClearRunning(w)
    BY <2>4 DEF ClearRunning, WorkerStep, RunInv, BaseInv, TypeOK,
       WorkerState
  <2>5. CASE SleepOnSlot(w)
    BY <2>5 DEF SleepOnSlot, WorkerStep, MonitorSleep, RunInv, BaseInv,
       TypeOK, WorkerState
  <2>6. CASE TakeTask(w)
    BY <2>6 DEF TakeTask, WorkerStep, MonitorAwake, RunInv, BaseInv, TypeOK,
       WorkerState
  <2>7. CASE LoadFunction(w)
    BY <2>7 DEF LoadFunction, WorkerStep, RunInv, BaseInv, TypeOK,
       WorkerState
  <2>8. CASE CallTask(w)
    BY <2>8 DEF CallTask, WorkerStep, RunInv, BaseInv, TypeOK, WorkerState
  <2>9. CASE CallNull(w)
    BY <2>9 DEF CallNull, WorkerStep, RunInv, BaseInv, TypeOK, WorkerState
  <2>10. CASE FinishTask(w)
    BY <2>10 DEF FinishTask, WorkerStep, RunInv, BaseInv, TypeOK,
       WorkerState
  <2>11. CASE NotifyPool(w)
    BY <2>11 DEF NotifyPool, WorkerStep, MonitorNotify, CondSignal, RunInv,
       BaseInv, TypeOK, WorkerState
  <2>12. CASE Spurious(w)
    BY <2>12 DEF Spurious, SpuriousWake, RunInv, BaseInv, TypeOK,
       WorkerState
  <2>. QED
    BY <1>2, <2>1, <2>2, <2>3, <2>4, <2>5, <2>6, <2>7, <2>8, <2>9, <2>10,
       <2>11, <2>12 DEF Work
<1>3. ASSUME NEW c \in Client, Proceed(c) \/ Call(c) PROVE RunInv'
  BY <1>3, ClientFrame DEF RunInv, BaseInv, TypeOK, WorkerState
<1>4. CASE UNCHANGED vars
  BY <1>4 DEF vars, RunInv, BaseInv, TypeOK, WorkerState
<1>. QED
  BY <1>1, <1>2, <1>3, <1>4 DEF Next

(* _lock admits one client: two that claim are one. *)
LEMMA OneClaim ==
  ASSUME BaseInv, NEW c \in Client, NEW d \in Client, Claiming(c), Claiming(d)
  PROVE  c = d
BY DEF BaseInv, LockInv

LEMMA BaseInit == Init => BaseInv
<1> SUFFICES ASSUME Init PROVE BaseInv
  OBVIOUS
<1>1. TypeOK
  BY DEF Init, TypeOK, CtorState, WorkerState, ClientState, Pointer,
     NameAssumption
<1>2. CtorInv
  <2>1. Counted = {}
    BY DEF Init, Counted
  <2>. QED
    BY <2>1, FS_EmptySet DEF Init, CtorInv
<1>3. LockInv /\ WaitInv /\ JobInv /\ RunInv
  BY DEF Init, LockInv, WaitInv, JobInv, RunInv, Claiming, NameAssumption
<1>. QED
  BY <1>1, <1>2, <1>3 DEF BaseInv

THEOREM BaseCorrect == Spec => []BaseInv
<1>1. BaseInv /\ [Next]_vars => BaseInv'
  BY TypeStep, LockStep, CountStep, WaitStep, JobStep, RunStep DEF BaseInv
<1>. QED
  BY BaseInit, <1>1, PTL DEF Spec

(* Types, whatever the waits do. *)
THEOREM TypeCorrect == Spec => []TypeOK
<1>1. BaseInv => TypeOK
  BY DEF BaseInv
<1>. QED
  BY BaseCorrect, <1>1, PTL

(* _lock keeps the clients of thread_pool_execute apart, whatever the waits *)
(* do.                                                                     *)
THEOREM ClientsExclude == Spec => []OneClientClaims
<1>1. BaseInv => OneClientClaims
  BY OneClaim DEF OneClientClaims
<1>. QED
  BY BaseCorrect, <1>1, PTL

-----------------------------------------------------------------------------
(* From here on no wait has returned on its own. *)

LEMMA NoSpurious ==
  ASSUME BaseInv, spurious' = 0, NEW w \in Worker
  PROVE  ~Spurious(w)
BY DEF BaseInv, TypeOK, Spurious

(* What was not disturbed after a step was not disturbed before it. *)
LEMMA Before ==
  BaseInv /\ [Next]_vars /\ Undisturbed' => spurious' = 0 /\ Undisturbed
<1> SUFFICES ASSUME BaseInv, [Next]_vars, Undisturbed'
             PROVE  spurious' = 0 /\ Undisturbed
  OBVIOUS
<1>1. spurious' = 0
  BY DEF Undisturbed
<1>2. CASE Construct
  BY <1>1, <1>2, ConstructFrame DEF Undisturbed
<1>3. ASSUME NEW w \in Worker, Work(w) PROVE Undisturbed
  BY <1>1, <1>3 DEF Undisturbed, Work, Register, SleepOnPool, LeavePool,
     ClearRunning, SleepOnSlot, TakeTask, LoadFunction, CallTask, CallNull,
     FinishTask, NotifyPool
<1>4. ASSUME NEW c \in Client, Proceed(c) \/ Call(c) PROVE Undisturbed
  BY <1>1, <1>4, ClientFrame DEF Undisturbed
<1>5. CASE UNCHANGED vars
  BY <1>1, <1>5 DEF Undisturbed, vars
<1>. QED
  BY <1>1, <1>2, <1>3, <1>4, <1>5, NoSpurious DEF Next

(* A worker leaves the pool's monitor only after ReleaseWorkers. *)
LEMMA BarrierStep ==
  Steady /\ spurious' = 0 /\ [Next]_vars => BarrierInv'
<1> SUFFICES ASSUME Steady /\ spurious' = 0, [Next]_vars PROVE BarrierInv'
  OBVIOUS
<1> USE DEF poolVars, slotVars, clientVars, histVars, callVars
<1>1. ASSUME Construct PROVE BarrierInv'
  <2>1. CASE Allocate
    BY <2>1 DEF Allocate, CtorStep, Steady, BaseInv, TypeOK, BarrierInv,
       CtorInv, CtorState, WorkerState
  <2>2. CASE StartThread
    BY <2>2 DEF StartThread, CtorStep, Steady, BaseInv, TypeOK, BarrierInv,
       CtorInv, CtorState, WorkerState
  <2>3. CASE StartThreadFails
    BY <2>3 DEF StartThreadFails, CtorStep, Steady, BaseInv, TypeOK,
       BarrierInv, CtorInv, CtorState, WorkerState
  <2>4. CASE AllStarted
    BY <2>4 DEF AllStarted, CtorStep, Steady, BaseInv, TypeOK, BarrierInv,
       CtorInv, CtorState, WorkerState
  <2>5. CASE ReleaseWorkers
    BY <2>5 DEF ReleaseWorkers, CtorStep, MonitorNotifyAll, CondBroadcast,
       Steady, BaseInv, TypeOK, BarrierInv, CtorInv, CtorState, WorkerState
  <2>. QED
    BY <1>1, <2>1, <2>2, <2>3, <2>4, <2>5 DEF Construct
<1>2. ASSUME NEW w \in Worker, Work(w) \/ Spurious(w) PROVE BarrierInv'
  <2>1. CASE Register(w)
    <3>1. running_threads # N
      BY <2>1, Counting DEF Steady, BaseInv, TypeOK
    <3>. QED
      BY <2>1, <3>1 DEF Register, WorkerStep, Steady, BaseInv, TypeOK,
         BarrierInv
  <2>2. CASE SleepOnPool(w)
    BY <2>2 DEF SleepOnPool, WorkerStep, MonitorSleep, Steady, BaseInv,
       TypeOK, BarrierInv, CtorInv, CtorState, WorkerState
  <2>3. CASE LeavePool(w)
    BY <2>3 DEF LeavePool, WorkerStep, MonitorAwake, Steady, BaseInv, TypeOK,
       BarrierInv, CtorInv, CtorState, WorkerState
  <2>4. CASE ClearRunning(w)
    BY <2>4 DEF ClearRunning, WorkerStep, Steady, BaseInv, TypeOK, BarrierInv,
       CtorInv, CtorState, WorkerState
  <2>5. CASE SleepOnSlot(w)
    BY <2>5 DEF SleepOnSlot, WorkerStep, MonitorSleep, Steady, BaseInv,
       TypeOK, BarrierInv, CtorInv, CtorState, WorkerState
  <2>6. CASE TakeTask(w)
    BY <2>6 DEF TakeTask, WorkerStep, MonitorAwake, Steady, BaseInv, TypeOK,
       BarrierInv, CtorInv, CtorState, WorkerState
  <2>7. CASE LoadFunction(w)
    BY <2>7 DEF LoadFunction, WorkerStep, Steady, BaseInv, TypeOK, BarrierInv,
       CtorInv, CtorState, WorkerState
  <2>8. CASE CallTask(w)
    BY <2>8 DEF CallTask, WorkerStep, Steady, BaseInv, TypeOK, BarrierInv,
       CtorInv, CtorState, WorkerState
  <2>9. CASE CallNull(w)
    BY <2>9 DEF CallNull, WorkerStep, Steady, BaseInv, TypeOK, BarrierInv,
       CtorInv, CtorState, WorkerState
  <2>10. CASE FinishTask(w)
    BY <2>10 DEF FinishTask, WorkerStep, Steady, BaseInv, TypeOK, BarrierInv,
       CtorInv, CtorState, WorkerState
  <2>11. CASE NotifyPool(w)
    BY <2>11 DEF NotifyPool, WorkerStep, MonitorNotify, CondSignal, Steady,
       BaseInv, TypeOK, BarrierInv, CtorInv, CtorState, WorkerState
  <2>12. CASE Spurious(w)
    BY <2>12, NoSpurious DEF Spurious, SpuriousWake, Steady, BaseInv, TypeOK
  <2>. QED
    BY <1>2, <2>1, <2>2, <2>3, <2>4, <2>5, <2>6, <2>7, <2>8, <2>9, <2>10,
       <2>11, <2>12 DEF Work
<1>3. ASSUME NEW c \in Client, Proceed(c) \/ Call(c) PROVE BarrierInv'
  <2>1. CASE LockPool(c)
    BY <2>1 DEF LockPool, ClientStep, MutexLock, Steady, BaseInv, TypeOK,
       BarrierInv, CtorInv, CtorState, WorkerState
  <2>2. CASE SkipRunning(c)
    BY <2>2 DEF SkipRunning, ClientStep, Steady, BaseInv, TypeOK, BarrierInv,
       CtorInv, CtorState, WorkerState
  <2>3. CASE TryAgain(c)
    BY <2>3 DEF TryAgain, ClientStep, MutexUnlock, Steady, BaseInv, TypeOK,
       BarrierInv, CtorInv, CtorState, WorkerState
  <2>4. CASE FoundThread(c)
    BY <2>4 DEF FoundThread, ClientStep, Steady, BaseInv, TypeOK, BarrierInv,
       CtorInv, CtorState, WorkerState
  <2>5. CASE StoreFunction(c)
    BY <2>5 DEF StoreFunction, ClientStep, Steady, BaseInv, TypeOK,
       BarrierInv, CtorInv, CtorState, WorkerState
  <2>6. CASE StoreParameter(c)
    BY <2>6 DEF StoreParameter, ClientStep, Steady, BaseInv, TypeOK,
       BarrierInv, CtorInv, CtorState, WorkerState
  <2>7. CASE StoreRunning(c)
    BY <2>7 DEF StoreRunning, ClientStep, Steady, BaseInv, TypeOK, BarrierInv,
       CtorInv, CtorState, WorkerState
  <2>8. CASE NotifyWorker(c)
    <3>1. idx[c] \in Worker /\ idx[c] # PoolMonitor
      BY <2>8 DEF NotifyWorker, ClientStep, Claiming, Steady, BaseInv, JobInv
    <3>2. CondSignal(idx[c])
      BY <2>8 DEF NotifyWorker, MonitorNotify
    <3>3. waiting'[PoolMonitor] = waiting[PoolMonitor]
      BY <3>1, <3>2, SignalWakes DEF Steady, BaseInv, TypeOK
    <3>. QED
      BY <2>8, <3>3 DEF NotifyWorker, BarrierInv, Steady
  <2>9. CASE UnlockPool(c)
    BY <2>9 DEF UnlockPool, ClientStep, MutexUnlock, Steady, BaseInv, TypeOK,
       BarrierInv, CtorInv, CtorState, WorkerState
  <2>10. CASE WaitIdle(c)
    BY <2>10 DEF WaitIdle, ClientStep, Steady, BaseInv, TypeOK, BarrierInv,
       CtorInv, CtorState, WorkerState
  <2>11. CASE PollWorker(c)
    BY <2>11 DEF PollWorker, ClientStep, Steady, BaseInv, TypeOK, BarrierInv,
       CtorInv, CtorState, WorkerState
  <2>12. CASE PollAgain(c)
    BY <2>12 DEF PollAgain, ClientStep, Steady, BaseInv, TypeOK, BarrierInv,
       CtorInv, CtorState, WorkerState
  <2>13. CASE FoundIdle(c)
    BY <2>13 DEF FoundIdle, ClientStep, Steady, BaseInv, TypeOK, BarrierInv,
       CtorInv, CtorState, WorkerState
  <2>14. CASE WaitReturns(c)
    BY <2>14 DEF WaitReturns, ClientStep, Steady, BaseInv, TypeOK, BarrierInv,
       CtorInv, CtorState, WorkerState
  <2>15. ASSUME NEW k \in Task, Execute(c, k) PROVE BarrierInv'
    BY <2>15 DEF Execute, ClientStep, Steady, BaseInv, TypeOK, BarrierInv,
       CtorInv, CtorState, WorkerState
  <2>. QED
    BY <1>3, <2>1, <2>2, <2>3, <2>4, <2>5, <2>6, <2>7, <2>8, <2>9, <2>10,
       <2>11, <2>12, <2>13, <2>14, <2>15 DEF Proceed, Call
<1>4. CASE UNCHANGED vars
  BY <1>4 DEF vars, Steady, BaseInv, TypeOK, BarrierInv, CtorInv, CtorState,
     WorkerState
<1>. QED
  BY <1>1, <1>2, <1>3, <1>4 DEF Next

(* Only the client that claims a worker writes its slot, and a worker loads *)
(* from its own.                                                           *)
LEMMA SlotStep ==
  Steady /\ spurious' = 0 /\ [Next]_vars => SlotInv'
<1> SUFFICES ASSUME Steady /\ spurious' = 0, [Next]_vars PROVE SlotInv'
  OBVIOUS
<1> USE DEF poolVars, slotVars, clientVars, histVars, callVars
<1>1. ASSUME Construct PROVE SlotInv'
  BY <1>1, ConstructFrame DEF Steady, BaseInv, TypeOK, SlotInv, JobInv,
     Pointer, Claiming
<1>2. ASSUME NEW w \in Worker, Work(w) \/ Spurious(w) PROVE SlotInv'
  <2>1. CASE Register(w)
    BY <2>1 DEF Register, WorkerStep, Steady, BaseInv, TypeOK, SlotInv,
       JobInv, Pointer, Claiming
  <2>2. CASE SleepOnPool(w)
    BY <2>2 DEF SleepOnPool, WorkerStep, MonitorSleep, Steady, BaseInv,
       TypeOK, SlotInv, JobInv, Pointer, Claiming
  <2>3. CASE LeavePool(w)
    BY <2>3 DEF LeavePool, WorkerStep, MonitorAwake, Steady, BaseInv, TypeOK,
       SlotInv, JobInv, Pointer, Claiming
  <2>4. CASE ClearRunning(w)
    BY <2>4 DEF ClearRunning, WorkerStep, Steady, BaseInv, TypeOK, SlotInv,
       JobInv, Pointer, Claiming
  <2>5. CASE SleepOnSlot(w)
    BY <2>5 DEF SleepOnSlot, WorkerStep, MonitorSleep, Steady, BaseInv,
       TypeOK, SlotInv, JobInv, Pointer, Claiming
  <2>6. CASE TakeTask(w)
    BY <2>6 DEF TakeTask, WorkerStep, MonitorAwake, Steady, BaseInv, TypeOK,
       SlotInv, JobInv, Pointer, Claiming
  <2>7. CASE LoadFunction(w)
    BY <2>7 DEF LoadFunction, WorkerStep, Steady, BaseInv, TypeOK, SlotInv,
       JobInv, Pointer, Claiming
  <2>8. CASE CallTask(w)
    BY <2>8 DEF CallTask, WorkerStep, Steady, BaseInv, TypeOK, SlotInv,
       JobInv, Pointer, Claiming
  <2>9. CASE CallNull(w)
    BY <2>9 DEF CallNull, WorkerStep, Steady, BaseInv, TypeOK, SlotInv,
       JobInv, Pointer, Claiming
  <2>10. CASE FinishTask(w)
    BY <2>10 DEF FinishTask, WorkerStep, Steady, BaseInv, TypeOK, SlotInv,
       JobInv, Pointer, Claiming
  <2>11. CASE NotifyPool(w)
    BY <2>11 DEF NotifyPool, WorkerStep, MonitorNotify, CondSignal, Steady,
       BaseInv, TypeOK, SlotInv, JobInv, Pointer, Claiming
  <2>12. CASE Spurious(w)
    BY <2>12, NoSpurious DEF Spurious, SpuriousWake, Steady, BaseInv, TypeOK
  <2>. QED
    BY <1>2, <2>1, <2>2, <2>3, <2>4, <2>5, <2>6, <2>7, <2>8, <2>9, <2>10,
       <2>11, <2>12 DEF Work
<1>3. ASSUME NEW c \in Client, Proceed(c) \/ Call(c) PROVE SlotInv'
  <2>1. CASE LockPool(c)
    BY <2>1 DEF LockPool, ClientStep, MutexLock, Steady, BaseInv, TypeOK,
       SlotInv, JobInv, Pointer, Claiming
  <2>2. CASE SkipRunning(c)
    BY <2>2 DEF SkipRunning, ClientStep, Steady, BaseInv, TypeOK, SlotInv,
       JobInv, Pointer, Claiming
  <2>3. CASE TryAgain(c)
    BY <2>3 DEF TryAgain, ClientStep, MutexUnlock, Steady, BaseInv, TypeOK,
       SlotInv, JobInv, Pointer, Claiming
  <2>4. CASE FoundThread(c)
    BY <2>4 DEF FoundThread, ClientStep, Steady, BaseInv, TypeOK, SlotInv,
       JobInv, Pointer, Claiming
  <2>5. CASE StoreFunction(c)
    BY <2>5 DEF StoreFunction, ClientStep, Steady, BaseInv, TypeOK, SlotInv,
       JobInv, Pointer, Claiming
  <2>6. CASE StoreParameter(c)
    BY <2>6 DEF StoreParameter, ClientStep, Steady, BaseInv, TypeOK, SlotInv,
       JobInv, Pointer, Claiming
  <2>7. CASE StoreRunning(c)
    BY <2>7 DEF StoreRunning, ClientStep, Steady, BaseInv, TypeOK, SlotInv,
       JobInv, Pointer, Claiming
  <2>8. CASE NotifyWorker(c)
    BY <2>8 DEF NotifyWorker, ClientStep, MonitorNotify, CondSignal, Steady,
       BaseInv, TypeOK, SlotInv, JobInv, Pointer, Claiming
  <2>9. CASE UnlockPool(c)
    BY <2>9 DEF UnlockPool, ClientStep, MutexUnlock, Steady, BaseInv, TypeOK,
       SlotInv, JobInv, Pointer, Claiming
  <2>10. CASE WaitIdle(c)
    BY <2>10 DEF WaitIdle, ClientStep, Steady, BaseInv, TypeOK, SlotInv,
       JobInv, Pointer, Claiming
  <2>11. CASE PollWorker(c)
    BY <2>11 DEF PollWorker, ClientStep, Steady, BaseInv, TypeOK, SlotInv,
       JobInv, Pointer, Claiming
  <2>12. CASE PollAgain(c)
    BY <2>12 DEF PollAgain, ClientStep, Steady, BaseInv, TypeOK, SlotInv,
       JobInv, Pointer, Claiming
  <2>13. CASE FoundIdle(c)
    BY <2>13 DEF FoundIdle, ClientStep, Steady, BaseInv, TypeOK, SlotInv,
       JobInv, Pointer, Claiming
  <2>14. CASE WaitReturns(c)
    BY <2>14 DEF WaitReturns, ClientStep, Steady, BaseInv, TypeOK, SlotInv,
       JobInv, Pointer, Claiming
  <2>15. ASSUME NEW k \in Task, Execute(c, k) PROVE SlotInv'
    BY <2>15 DEF Execute, ClientStep, Steady, BaseInv, TypeOK, SlotInv,
       JobInv, Pointer, Claiming
  <2>. QED
    BY <1>3, <2>1, <2>2, <2>3, <2>4, <2>5, <2>6, <2>7, <2>8, <2>9, <2>10,
       <2>11, <2>12, <2>13, <2>14, <2>15 DEF Proceed, Call
<1>4. CASE UNCHANGED vars
  BY <1>4 DEF vars, Steady, BaseInv, TypeOK, SlotInv, JobInv, Pointer,
     Claiming
<1>. QED
  BY <1>1, <1>2, <1>3, <1>4 DEF Next

(* While a client claims a worker it holds _lock, so no other stores. *)
LEMMA StoreStep ==
  Steady /\ spurious' = 0 /\ [Next]_vars => StoreInv'
<1> SUFFICES ASSUME Steady /\ spurious' = 0, [Next]_vars PROVE StoreInv'
  OBVIOUS
<1> USE DEF poolVars, slotVars, clientVars, histVars, callVars
<1>1. ASSUME Construct PROVE StoreInv'
  BY <1>1, ConstructFrame DEF Steady, BaseInv, TypeOK, StoreInv, JobInv,
     LockInv, Claiming
<1>2. ASSUME NEW w \in Worker, Work(w) \/ Spurious(w) PROVE StoreInv'
  BY <1>2, WorkerFrame DEF Steady, BaseInv, TypeOK, StoreInv, JobInv, LockInv,
     Claiming
<1>3. ASSUME NEW c \in Client, Proceed(c) \/ Call(c) PROVE StoreInv'
  <2>1. CASE LockPool(c)
    BY <2>1 DEF LockPool, ClientStep, MutexLock, Steady, BaseInv, TypeOK,
       StoreInv, JobInv, LockInv, Claiming
  <2>2. CASE SkipRunning(c)
    BY <2>2 DEF SkipRunning, ClientStep, Steady, BaseInv, TypeOK, StoreInv,
       JobInv, LockInv, Claiming
  <2>3. CASE TryAgain(c)
    BY <2>3 DEF TryAgain, ClientStep, MutexUnlock, Steady, BaseInv, TypeOK,
       StoreInv, JobInv, LockInv, Claiming
  <2>4. CASE FoundThread(c)
    BY <2>4 DEF FoundThread, ClientStep, Steady, BaseInv, TypeOK, StoreInv,
       JobInv, LockInv, Claiming
  <2>5. CASE StoreFunction(c)
    BY <2>5 DEF StoreFunction, ClientStep, Steady, BaseInv, TypeOK, StoreInv,
       JobInv, LockInv, Claiming
  <2>6. CASE StoreParameter(c)
    BY <2>6 DEF StoreParameter, ClientStep, Steady, BaseInv, TypeOK, StoreInv,
       JobInv, LockInv, Claiming
  <2>7. CASE StoreRunning(c)
    BY <2>7 DEF StoreRunning, ClientStep, Steady, BaseInv, TypeOK, StoreInv,
       JobInv, LockInv, Claiming
  <2>8. CASE NotifyWorker(c)
    BY <2>8 DEF NotifyWorker, ClientStep, MonitorNotify, CondSignal, Steady,
       BaseInv, TypeOK, StoreInv, JobInv, LockInv, Claiming
  <2>9. CASE UnlockPool(c)
    BY <2>9 DEF UnlockPool, ClientStep, MutexUnlock, Steady, BaseInv, TypeOK,
       StoreInv, JobInv, LockInv, Claiming
  <2>10. CASE WaitIdle(c)
    BY <2>10 DEF WaitIdle, ClientStep, Steady, BaseInv, TypeOK, StoreInv,
       JobInv, LockInv, Claiming
  <2>11. CASE PollWorker(c)
    BY <2>11 DEF PollWorker, ClientStep, Steady, BaseInv, TypeOK, StoreInv,
       JobInv, LockInv, Claiming
  <2>12. CASE PollAgain(c)
    BY <2>12 DEF PollAgain, ClientStep, Steady, BaseInv, TypeOK, StoreInv,
       JobInv, LockInv, Claiming
  <2>13. CASE FoundIdle(c)
    BY <2>13 DEF FoundIdle, ClientStep, Steady, BaseInv, TypeOK, StoreInv,
       JobInv, LockInv, Claiming
  <2>14. CASE WaitReturns(c)
    BY <2>14 DEF WaitReturns, ClientStep, Steady, BaseInv, TypeOK, StoreInv,
       JobInv, LockInv, Claiming
  <2>15. ASSUME NEW k \in Task, Execute(c, k) PROVE StoreInv'
    BY <2>15 DEF Execute, ClientStep, Steady, BaseInv, TypeOK, StoreInv,
       JobInv, LockInv, Claiming
  <2>. QED
    BY <1>3, <2>1, <2>2, <2>3, <2>4, <2>5, <2>6, <2>7, <2>8, <2>9, <2>10,
       <2>11, <2>12, <2>13, <2>14, <2>15 DEF Proceed, Call
<1>4. CASE UNCHANGED vars
  BY <1>4 DEF vars, Steady, BaseInv, TypeOK, StoreInv, JobInv, LockInv,
     Claiming
<1>. QED
  BY <1>1, <1>2, <1>3, <1>4 DEF Next

(* A worker wakes after the notification, and that after the stores. *)
LEMMA ExecStep ==
  Steady /\ spurious' = 0 /\ [Next]_vars => ExecInv'
<1> SUFFICES ASSUME Steady /\ spurious' = 0, [Next]_vars PROVE ExecInv'
  OBVIOUS
<1> USE DEF poolVars, slotVars, clientVars, histVars, callVars
<1>1. ASSUME Construct PROVE ExecInv'
  <2>1. CASE Allocate
    BY <2>1 DEF Allocate, CtorStep, Steady, BaseInv, TypeOK, ExecInv,
       Notified, WaitInv, CtorInv, CtorState
  <2>2. CASE StartThread
    BY <2>2 DEF StartThread, CtorStep, Steady, BaseInv, TypeOK, ExecInv,
       Notified, WaitInv, CtorInv, CtorState
  <2>3. CASE StartThreadFails
    BY <2>3 DEF StartThreadFails, CtorStep, Steady, BaseInv, TypeOK, ExecInv,
       Notified, WaitInv, CtorInv, CtorState
  <2>4. CASE AllStarted
    BY <2>4 DEF AllStarted, CtorStep, Steady, BaseInv, TypeOK, ExecInv,
       Notified, WaitInv, CtorInv, CtorState
  <2>5. CASE ReleaseWorkers
    BY <2>5 DEF ReleaseWorkers, CtorStep, MonitorNotifyAll, CondBroadcast,
       Steady, BaseInv, TypeOK, ExecInv, Notified, WaitInv, CtorInv, CtorState
  <2>. QED
    BY <1>1, <2>1, <2>2, <2>3, <2>4, <2>5 DEF Construct
<1>2. ASSUME NEW w \in Worker, Work(w) \/ Spurious(w) PROVE ExecInv'
  <2>1. CASE Register(w)
    BY <2>1 DEF Register, WorkerStep, Steady, BaseInv, TypeOK, ExecInv,
       Notified, WaitInv, CtorInv, CtorState
  <2>2. CASE SleepOnPool(w)
    BY <2>2 DEF SleepOnPool, WorkerStep, MonitorSleep, Steady, BaseInv,
       TypeOK, ExecInv, Notified, WaitInv, CtorInv, CtorState
  <2>3. CASE LeavePool(w)
    BY <2>3 DEF LeavePool, WorkerStep, MonitorAwake, Steady, BaseInv, TypeOK,
       ExecInv, Notified, WaitInv, CtorInv, CtorState
  <2>4. CASE ClearRunning(w)
    BY <2>4 DEF ClearRunning, WorkerStep, Steady, BaseInv, TypeOK, ExecInv,
       Notified, WaitInv, CtorInv, CtorState
  <2>5. CASE SleepOnSlot(w)
    BY <2>5 DEF SleepOnSlot, WorkerStep, MonitorSleep, Steady, BaseInv,
       TypeOK, ExecInv, Notified, WaitInv, CtorInv, CtorState
  <2>6. CASE TakeTask(w)
    BY <2>6 DEF TakeTask, WorkerStep, MonitorAwake, Steady, BaseInv, TypeOK,
       ExecInv, Notified, WaitInv, CtorInv, CtorState
  <2>7. CASE LoadFunction(w)
    BY <2>7 DEF LoadFunction, WorkerStep, Steady, BaseInv, TypeOK, ExecInv,
       Notified, WaitInv, CtorInv, CtorState
  <2>8. CASE CallTask(w)
    BY <2>8 DEF CallTask, WorkerStep, Steady, BaseInv, TypeOK, ExecInv,
       Notified, WaitInv, CtorInv, CtorState
  <2>9. CASE CallNull(w)
    BY <2>9 DEF CallNull, WorkerStep, Steady, BaseInv, TypeOK, ExecInv,
       Notified, WaitInv, CtorInv, CtorState
  <2>10. CASE FinishTask(w)
    BY <2>10 DEF FinishTask, WorkerStep, Steady, BaseInv, TypeOK, ExecInv,
       Notified, WaitInv, CtorInv, CtorState
  <2>11. CASE NotifyPool(w)
    BY <2>11 DEF NotifyPool, WorkerStep, MonitorNotify, CondSignal, Steady,
       BaseInv, TypeOK, ExecInv, Notified, WaitInv, CtorInv, CtorState
  <2>12. CASE Spurious(w)
    BY <2>12, NoSpurious DEF Spurious, SpuriousWake, Steady, BaseInv, TypeOK
  <2>. QED
    BY <1>2, <2>1, <2>2, <2>3, <2>4, <2>5, <2>6, <2>7, <2>8, <2>9, <2>10,
       <2>11, <2>12 DEF Work
<1>3. ASSUME NEW c \in Client, Proceed(c) \/ Call(c) PROVE ExecInv'
  <2>1. CASE LockPool(c)
    BY <2>1 DEF LockPool, ClientStep, MutexLock, Steady, BaseInv, TypeOK,
       ExecInv, Notified, WaitInv, CtorInv, CtorState, StoreInv, JobInv,
       Claiming, Pointer
  <2>2. CASE SkipRunning(c)
    BY <2>2 DEF SkipRunning, ClientStep, Steady, BaseInv, TypeOK, ExecInv,
       Notified, WaitInv, CtorInv, CtorState, StoreInv, JobInv, Claiming,
       Pointer
  <2>3. CASE TryAgain(c)
    BY <2>3 DEF TryAgain, ClientStep, MutexUnlock, Steady, BaseInv, TypeOK,
       ExecInv, Notified, WaitInv, CtorInv, CtorState, StoreInv, JobInv,
       Claiming, Pointer
  <2>4. CASE FoundThread(c)
    BY <2>4 DEF FoundThread, ClientStep, Steady, BaseInv, TypeOK, ExecInv,
       Notified, WaitInv, CtorInv, CtorState, StoreInv, JobInv, Claiming,
       Pointer
  <2>5. CASE StoreFunction(c)
    BY <2>5 DEF StoreFunction, ClientStep, Steady, BaseInv, TypeOK, ExecInv,
       Notified, WaitInv, CtorInv, CtorState, StoreInv, JobInv, Claiming,
       Pointer
  <2>6. CASE StoreParameter(c)
    BY <2>6 DEF StoreParameter, ClientStep, Steady, BaseInv, TypeOK, ExecInv,
       Notified, WaitInv, CtorInv, CtorState, StoreInv, JobInv, Claiming,
       Pointer
  <2>7. CASE StoreRunning(c)
    BY <2>7 DEF StoreRunning, ClientStep, Steady, BaseInv, TypeOK, ExecInv,
       Notified, WaitInv, CtorInv, CtorState, StoreInv, JobInv, Claiming,
       Pointer
  <2>8. CASE NotifyWorker(c)
    BY <2>8 DEF NotifyWorker, ClientStep, MonitorNotify, CondSignal, Steady,
       BaseInv, TypeOK, ExecInv, Notified, WaitInv, CtorInv, CtorState,
       StoreInv, JobInv, Claiming, Pointer
  <2>9. CASE UnlockPool(c)
    BY <2>9 DEF UnlockPool, ClientStep, MutexUnlock, Steady, BaseInv, TypeOK,
       ExecInv, Notified, WaitInv, CtorInv, CtorState, StoreInv, JobInv,
       Claiming, Pointer
  <2>10. CASE WaitIdle(c)
    BY <2>10 DEF WaitIdle, ClientStep, Steady, BaseInv, TypeOK, ExecInv,
       Notified, WaitInv, CtorInv, CtorState, StoreInv, JobInv, Claiming,
       Pointer
  <2>11. CASE PollWorker(c)
    BY <2>11 DEF PollWorker, ClientStep, Steady, BaseInv, TypeOK, ExecInv,
       Notified, WaitInv, CtorInv, CtorState, StoreInv, JobInv, Claiming,
       Pointer
  <2>12. CASE PollAgain(c)
    BY <2>12 DEF PollAgain, ClientStep, Steady, BaseInv, TypeOK, ExecInv,
       Notified, WaitInv, CtorInv, CtorState, StoreInv, JobInv, Claiming,
       Pointer
  <2>13. CASE FoundIdle(c)
    BY <2>13 DEF FoundIdle, ClientStep, Steady, BaseInv, TypeOK, ExecInv,
       Notified, WaitInv, CtorInv, CtorState, StoreInv, JobInv, Claiming,
       Pointer
  <2>14. CASE WaitReturns(c)
    BY <2>14 DEF WaitReturns, ClientStep, Steady, BaseInv, TypeOK, ExecInv,
       Notified, WaitInv, CtorInv, CtorState, StoreInv, JobInv, Claiming,
       Pointer
  <2>15. ASSUME NEW k \in Task, Execute(c, k) PROVE ExecInv'
    BY <2>15 DEF Execute, ClientStep, Steady, BaseInv, TypeOK, ExecInv,
       Notified, WaitInv, CtorInv, CtorState, StoreInv, JobInv, Claiming,
       Pointer
  <2>. QED
    BY <1>3, <2>1, <2>2, <2>3, <2>4, <2>5, <2>6, <2>7, <2>8, <2>9, <2>10,
       <2>11, <2>12, <2>13, <2>14, <2>15 DEF Proceed, Call
<1>4. CASE UNCHANGED vars
  BY <1>4 DEF vars, Steady, BaseInv, TypeOK, ExecInv, Notified, WaitInv,
     CtorInv, CtorState
<1>. QED
  BY <1>1, <1>2, <1>3, <1>4 DEF Next

(* So the pointer it calls is not null. *)
LEMMA NullStep ==
  Steady /\ spurious' = 0 /\ [Next]_vars => NoneCrashed'
<1> SUFFICES ASSUME Steady /\ spurious' = 0, [Next]_vars PROVE NoneCrashed'
  OBVIOUS
<1> USE DEF poolVars, slotVars, clientVars, histVars, callVars
<1>1. ASSUME Construct PROVE NoneCrashed'
  <2>1. CASE Allocate
    BY <2>1 DEF Allocate, CtorStep, Steady, BaseInv, TypeOK, NoneCrashed,
       ExecInv, Notified
  <2>2. CASE StartThread
    BY <2>2 DEF StartThread, CtorStep, Steady, BaseInv, TypeOK, NoneCrashed,
       ExecInv, Notified
  <2>3. CASE StartThreadFails
    BY <2>3 DEF StartThreadFails, CtorStep, Steady, BaseInv, TypeOK,
       NoneCrashed, ExecInv, Notified
  <2>4. CASE AllStarted
    BY <2>4 DEF AllStarted, CtorStep, Steady, BaseInv, TypeOK, NoneCrashed,
       ExecInv, Notified
  <2>5. CASE ReleaseWorkers
    BY <2>5 DEF ReleaseWorkers, CtorStep, MonitorNotifyAll, CondBroadcast,
       Steady, BaseInv, TypeOK, NoneCrashed, ExecInv, Notified
  <2>. QED
    BY <1>1, <2>1, <2>2, <2>3, <2>4, <2>5 DEF Construct
<1>2. ASSUME NEW w \in Worker, Work(w) \/ Spurious(w) PROVE NoneCrashed'
  <2>1. CASE Register(w)
    BY <2>1 DEF Register, WorkerStep, Steady, BaseInv, TypeOK, NoneCrashed,
       ExecInv, Notified
  <2>2. CASE SleepOnPool(w)
    BY <2>2 DEF SleepOnPool, WorkerStep, MonitorSleep, Steady, BaseInv,
       TypeOK, NoneCrashed, ExecInv, Notified
  <2>3. CASE LeavePool(w)
    BY <2>3 DEF LeavePool, WorkerStep, MonitorAwake, Steady, BaseInv, TypeOK,
       NoneCrashed, ExecInv, Notified
  <2>4. CASE ClearRunning(w)
    BY <2>4 DEF ClearRunning, WorkerStep, Steady, BaseInv, TypeOK, NoneCrashed,
       ExecInv, Notified
  <2>5. CASE SleepOnSlot(w)
    BY <2>5 DEF SleepOnSlot, WorkerStep, MonitorSleep, Steady, BaseInv,
       TypeOK, NoneCrashed, ExecInv, Notified
  <2>6. CASE TakeTask(w)
    BY <2>6 DEF TakeTask, WorkerStep, MonitorAwake, Steady, BaseInv, TypeOK,
       NoneCrashed, ExecInv, Notified
  <2>7. CASE LoadFunction(w)
    BY <2>7 DEF LoadFunction, WorkerStep, Steady, BaseInv, TypeOK, NoneCrashed,
       ExecInv, Notified
  <2>8. CASE CallTask(w)
    BY <2>8 DEF CallTask, WorkerStep, Steady, BaseInv, TypeOK, NoneCrashed,
       ExecInv, Notified
  <2>9. CASE CallNull(w)
    BY <2>9 DEF CallNull, WorkerStep, Steady, BaseInv, TypeOK, NoneCrashed,
       ExecInv, Notified
  <2>10. CASE FinishTask(w)
    BY <2>10 DEF FinishTask, WorkerStep, Steady, BaseInv, TypeOK, NoneCrashed,
       ExecInv, Notified
  <2>11. CASE NotifyPool(w)
    BY <2>11 DEF NotifyPool, WorkerStep, MonitorNotify, CondSignal, Steady,
       BaseInv, TypeOK, NoneCrashed, ExecInv, Notified
  <2>12. CASE Spurious(w)
    BY <2>12, NoSpurious DEF Spurious, SpuriousWake, Steady, BaseInv, TypeOK
  <2>. QED
    BY <1>2, <2>1, <2>2, <2>3, <2>4, <2>5, <2>6, <2>7, <2>8, <2>9, <2>10,
       <2>11, <2>12 DEF Work
<1>3. ASSUME NEW c \in Client, Proceed(c) \/ Call(c) PROVE NoneCrashed'
  BY <1>3, ClientFrame DEF Steady, BaseInv, TypeOK, NoneCrashed, ExecInv,
     Notified
<1>4. CASE UNCHANGED vars
  BY <1>4 DEF vars, Steady, BaseInv, TypeOK, NoneCrashed, ExecInv, Notified
<1>. QED
  BY <1>1, <1>2, <1>3, <1>4 DEF Next

-----------------------------------------------------------------------------
(* Clean tasks.  A step that touches neither the task's worker nor the      *)
(* claims leaves its stage as it is.                                       *)
LEMMA CleanFrame ==
  ASSUME NEW k \in Task, CleanAt(k),
         home'[k] = home[k], submitter'[k] = submitter[k],
         k \in finished' <=> k \in finished,
         calls'[<<k, k>>] = calls[<<k, k>>],
         running'[home[k]] = running[home[k]],
         pfn'[home[k]] = pfn[home[k]], param'[home[k]] = param[home[k]],
         cur'[home[k]] = cur[home[k]], wpc'[home[k]] = wpc[home[k]],
         waiting'[home[k]] = waiting[home[k]],
         UNCHANGED <<cpc, idx, job>>
  PROVE  CleanAt(k)'
<1>1. Done(k) => Done(k)'
  BY DEF Done, Notified, Claiming
<1>2. InFlight(k) => InFlight(k)'
  BY DEF InFlight, Claiming
<1>3. Delivered(k) => Delivered(k)'
  BY DEF Delivered, Notified, Claiming
<1>. QED
  BY <1>1, <1>2, <1>3 DEF CleanAt

(* A clean task has a worker. *)
LEMMA CleanHome ==
  ASSUME Steady, NEW k \in clean
  PROVE  k \in Task /\ home[k] \in Worker
BY DEF Steady, BaseInv, TypeOK, SlotInv

(* A worker whose task is in flight sleeps. *)
LEMMA InFlightSleeps ==
  ASSUME Steady, NEW k \in clean, InFlight(k)
  PROVE  wpc[home[k]] = "parked" /\ waiting[home[k]] = {home[k]}
BY CleanHome DEF InFlight, Steady, BaseInv, WaitInv

(* The steps of other workers. *)
LEMMA CleanOther ==
  ASSUME Steady, NEW k \in clean, NEW w \in Worker, Work(w), w # home[k],
         CleanAt(k)
  PROVE  CleanAt(k)'
<1> USE DEF poolVars, slotVars, clientVars, histVars, callVars
<1>1. k \in Task /\ home[k] \in Worker
  BY CleanHome
<1>2. UNCHANGED <<home, submitter, cpc, idx, job, pfn, param>>
  BY WorkerFrame
<1>3. cur[w] # k /\ param[w] # k
  BY <1>1 DEF Steady, SlotInv
<1>6. k \in finished' <=> k \in finished
  BY <1>3 DEF Work, Register, SleepOnPool, LeavePool, ClearRunning,
     SleepOnSlot, TakeTask, LoadFunction, CallTask, CallNull, FinishTask,
     NotifyPool
<1>7. calls'[<<k, k>>] = calls[<<k, k>>]
  <2>1. CASE CallTask(w)
    BY <1>1, <1>3, <2>1 DEF CallTask, Steady, BaseInv, TypeOK, Pointer
  <2>2. CASE ~CallTask(w)
    BY <2>2 DEF Work, Register, SleepOnPool, LeavePool, ClearRunning,
       SleepOnSlot, TakeTask, LoadFunction, CallNull, FinishTask, NotifyPool
  <2>. QED
    BY <2>1, <2>2
<1>4. /\ running'[home[k]] = running[home[k]]
      /\ cur'[home[k]] = cur[home[k]]
      /\ wpc'[home[k]] = wpc[home[k]]
  BY <1>1, <1>3 DEF Work, Register, SleepOnPool, LeavePool, ClearRunning,
     SleepOnSlot, TakeTask, LoadFunction, CallTask, CallNull, FinishTask,
     NotifyPool, WorkerStep, Steady, BaseInv, TypeOK
<1>5. waiting'[home[k]] = waiting[home[k]]
  <2>1. CASE NotifyPool(w)
    BY <1>1, <2>1, SignalWakes DEF NotifyPool, MonitorNotify, Steady, BaseInv,
       TypeOK
  <2>2. CASE ~NotifyPool(w)
    BY <1>1, <2>2 DEF Work, Register, SleepOnPool, LeavePool, ClearRunning,
       SleepOnSlot, TakeTask, LoadFunction, CallTask, CallNull, FinishTask,
       MonitorSleep, Steady, BaseInv, TypeOK
  <2>. QED
    BY <2>1, <2>2
<1>. QED
  BY <1>1, <1>2, <1>4, <1>5, <1>6, <1>7, CleanFrame

(* The steps of the task's worker: asleep while the task is in flight, on  *)
(* to the call once it is delivered, away from the task when it is done.   *)
LEMMA CleanWorker ==
  ASSUME Steady, NEW k \in clean, Work(home[k]), CleanAt(k)
  PROVE  CleanAt(k)'
<1> USE DEF poolVars, slotVars, clientVars, histVars, callVars
<1> DEFINE h == home[k]
<1>1. k \in Task /\ h \in Worker
  BY CleanHome
<1>2. UNCHANGED <<home, submitter, cpc, idx, job, pfn, param>>
  BY <1>1, WorkerFrame
<1>3. ~InFlight(k)
  <2> SUFFICES ASSUME InFlight(k) PROVE FALSE
    OBVIOUS
  <2>1. wpc[h] = "parked" /\ h \in waiting[h]
    BY <1>1, InFlightSleeps
  <2>. QED
    BY <1>1, <2>1 DEF Work, Register, SleepOnPool, LeavePool, ClearRunning,
       SleepOnSlot, TakeTask, LoadFunction, CallTask, CallNull, FinishTask,
       NotifyPool, WorkerStep, MonitorAwake
<1>4. CASE Delivered(k) /\ k \notin finished
  <2>1. TakeTask(h) \/ LoadFunction(h) \/ CallTask(h) \/ FinishTask(h)
    BY <1>1, <1>4 DEF Delivered, Notified, Work, Register, SleepOnPool,
       LeavePool, ClearRunning, SleepOnSlot, CallNull, NotifyPool, WorkerStep,
       NameAssumption
  <2>2. CASE TakeTask(h)
    BY <1>1, <1>2, <1>4, <2>2 DEF TakeTask, WorkerStep, Delivered, Notified,
       CleanAt, Claiming, Steady, BaseInv, TypeOK
  <2>3. CASE LoadFunction(h)
    BY <1>1, <1>2, <1>4, <2>3 DEF LoadFunction, WorkerStep, Delivered,
       Notified, CleanAt, Claiming, Steady, BaseInv, TypeOK
  <2>4. CASE CallTask(h)
    <3>1. wpc[h] = "loadparam" /\ cur[h] = k /\ param[h] = k
          /\ calls[<<k, k>>] = 0 /\ running[h] /\ pfn[h] = k
      BY <1>4, <2>4 DEF CallTask, WorkerStep, Delivered, Notified
    <3>2. calls'[<<k, k>>] = 1
      BY <1>1, <2>4, <3>1 DEF CallTask, Steady, BaseInv, TypeOK, Pointer
    <3>3. /\ wpc'[h] = "run" /\ UNCHANGED <<cur, running, finished>>
      BY <1>1, <2>4 DEF CallTask, WorkerStep, Steady, BaseInv, TypeOK
    <3>4. Delivered(k)'
      BY <1>2, <1>4, <3>1, <3>2, <3>3 DEF Delivered, Claiming
    <3>. QED
      BY <1>4, <3>3, <3>4 DEF CleanAt
  <2>5. CASE FinishTask(h)
    <3>1. wpc[h] = "run" /\ cur[h] = k /\ calls[<<k, k>>] = 1
      BY <1>4, <2>5 DEF FinishTask, WorkerStep, Delivered, Notified
    <3>2. wpc'[h] = "notify" /\ k \in finished' /\ UNCHANGED calls
      BY <1>1, <2>5, <3>1 DEF FinishTask, WorkerStep, Steady, BaseInv, TypeOK
    <3>3. \A c \in Client : Claiming(c) => job[c] # k
      BY <1>4 DEF Delivered, Steady, BaseInv, JobInv
    <3>4. Done(k)'
      BY <1>2, <3>1, <3>2, <3>3 DEF Done, Notified, Claiming
    <3>. QED
      BY <3>2, <3>4 DEF CleanAt
  <2>. QED
    BY <2>1, <2>2, <2>3, <2>4, <2>5
<1>5. CASE Done(k) /\ k \in finished
  <2>1. k \in finished'
    BY <1>5 DEF Work, Register, SleepOnPool, LeavePool, ClearRunning,
       SleepOnSlot, TakeTask, LoadFunction, CallTask, CallNull, FinishTask,
       NotifyPool
  <2>2. \A c \in Client : Claiming(c)' => job'[c] # k
    BY <1>2, <1>5 DEF Done, Claiming
  <2>3. calls'[<<k, k>>] = 1
    <3>1. CASE CallTask(h)
      <4>1. cur[h] # k
        BY <1>5, <3>1 DEF CallTask, WorkerStep, Done
      <4>. QED
        BY <1>1, <1>5, <3>1, <4>1 DEF CallTask, Done, Steady, BaseInv, TypeOK,
           Pointer
    <3>2. CASE ~CallTask(h)
      BY <1>5, <3>2 DEF Done, Work, Register, SleepOnPool, LeavePool,
         ClearRunning, SleepOnSlot, TakeTask, LoadFunction, CallNull,
         FinishTask, NotifyPool
    <3>. QED
      BY <3>1, <3>2
  <2>4. /\ pfn[h] = k \/ param[h] = k =>
             ~Notified(h)' /\ wpc'[h] \notin {"load", "loadparam", "run"}
        /\ wpc'[h] \in {"loadparam", "run"} => cur'[h] # k
    BY <1>1, <1>5 DEF Done, Notified, Work, Register, SleepOnPool, LeavePool,
       ClearRunning, SleepOnSlot, TakeTask, LoadFunction, CallTask, CallNull,
       FinishTask, NotifyPool, WorkerStep, MonitorSleep, MonitorAwake, Steady,
       BaseInv, TypeOK
  <2>5. Done(k)'
    BY <1>2, <2>2, <2>3, <2>4 DEF Done, Notified
  <2>. QED
    BY <2>1, <2>5 DEF CleanAt
<1>. QED
  BY <1>3, <1>4, <1>5 DEF CleanAt

(* The steps of a client that is not filling a slot. *)
LEMMA CleanQuiet ==
  ASSUME NEW k \in Task, NEW c \in Client, CleanAt(k),
         UNCHANGED <<waiting, wpc, running, pfn, param, cur, calls, finished,
                     home>>,
         submitter'[k] = submitter[k],
         \A d \in Client :
           /\ Claiming(d)' <=> Claiming(d)
           /\ Claiming(d) => /\ cpc'[d] = cpc[d]
                             /\ job'[d] = job[d]
                             /\ idx'[d] = idx[d],
         submitter[k] \in Client
  PROVE  CleanAt(k)'
<1>1. Done(k) => Done(k)'
  BY DEF Done, Notified
<1>2. InFlight(k) => InFlight(k)'
  BY DEF InFlight
<1>3. Delivered(k) => Delivered(k)'
  BY DEF Delivered, Notified
<1>. QED
  BY <1>1, <1>2, <1>3 DEF CleanAt

(* A task with a worker has a submitter. *)
LEMMA CleanSubmitter ==
  ASSUME Steady, NEW k \in clean
  PROVE  submitter[k] \in Client
BY CleanHome DEF Steady, BaseInv, TypeOK, JobInv

Quiet(c) == \/ LockPool(c) \/ SkipRunning(c) \/ TryAgain(c) \/ UnlockPool(c)
            \/ PollWorker(c) \/ PollAgain(c) \/ FoundIdle(c) \/ WaitReturns(c)
            \/ WaitIdle(c) \/ \E k \in Task : Execute(c, k)

LEMMA CleanQuietStep ==
  ASSUME Steady, NEW k \in clean, NEW c \in Client, Quiet(c), CleanAt(k)
  PROVE  CleanAt(k)'
<1> USE DEF poolVars, slotVars, clientVars, histVars, callVars
<1>1. k \in Task /\ submitter[k] \in Client
  BY CleanHome, CleanSubmitter
<1>2. UNCHANGED <<waiting, wpc, running, pfn, param, cur, calls, finished,
                  home>>
  BY DEF Quiet, LockPool, SkipRunning, TryAgain, UnlockPool, PollWorker,
     PollAgain, FoundIdle, WaitReturns, WaitIdle, Execute
<1>3. submitter'[k] = submitter[k]
  BY <1>1 DEF Quiet, LockPool, SkipRunning, TryAgain, UnlockPool, PollWorker,
     PollAgain, FoundIdle, WaitReturns, WaitIdle, Execute, Steady, BaseInv,
     TypeOK, NameAssumption
<1>4. ~Claiming(c) /\ ~Claiming(c)'
  BY DEF Quiet, LockPool, SkipRunning, TryAgain, UnlockPool, PollWorker,
     PollAgain, FoundIdle, WaitReturns, WaitIdle, Execute, ClientStep,
     Claiming, Steady, BaseInv, TypeOK
<1>5. \A d \in Client \ {c} :
        cpc'[d] = cpc[d] /\ job'[d] = job[d] /\ idx'[d] = idx[d]
  BY DEF Quiet, LockPool, SkipRunning, TryAgain, UnlockPool, PollWorker,
     PollAgain, FoundIdle, WaitReturns, WaitIdle, Execute, ClientStep,
     Steady, BaseInv, TypeOK
<1>6. \A d \in Client :
        /\ Claiming(d)' <=> Claiming(d)
        /\ Claiming(d) => /\ cpc'[d] = cpc[d]
                          /\ job'[d] = job[d]
                          /\ idx'[d] = idx[d]
  BY <1>4, <1>5 DEF Claiming
<1>. QED
  BY <1>1, <1>2, <1>3, <1>6, CleanQuiet

(* A client that finds a worker: its task starts in flight when the worker *)
(* sleeps, and the worker was not one with a task delivered.               *)
LEMMA CleanFound ==
  ASSUME Steady, NEW c \in Client, FoundThread(c), CleanInv
  PROVE  CleanInv'
<1> USE DEF poolVars, slotVars, clientVars, histVars, callVars
<1>1. /\ cpc[c] = "scan" /\ cpc' = [cpc EXCEPT ![c] = "setfn"]
      /\ idx[c] \in Worker /\ ~running[idx[c]]
      /\ job[c] \in Task /\ submitter[job[c]] = c /\ home[job[c]] = 0
      /\ home' = [home EXCEPT ![job[c]] = idx[c]]
      /\ UNCHANGED <<waiting, wpc, running, pfn, param, cur, calls, finished,
                     job, idx, submitter>>
  BY DEF FoundThread, ClientStep, Steady, BaseInv, TypeOK, JobInv
<1>2. \A d \in Client : Claiming(d)' <=> Claiming(d) \/ d = c
  BY <1>1 DEF Claiming, Steady, BaseInv, TypeOK
<1>3. ~Claiming(c)
  BY <1>1 DEF Claiming
<1>4. ASSUME NEW k \in clean PROVE CleanAt(k)'
  <2>1. k \in Task /\ home[k] \in Worker /\ k # job[c] /\ home'[k] = home[k]
    BY <1>1, CleanHome DEF Steady, BaseInv, TypeOK
  <2>2. Done(k) => Done(k)'
    BY <1>1, <1>2, <2>1 DEF Done, Notified
  <2>3. InFlight(k) => InFlight(k)'
    <3> SUFFICES ASSUME InFlight(k) PROVE InFlight(k)'
      OBVIOUS
    <3>1. submitter[k] # c /\ submitter[k] \in Client
      BY <1>3, CleanSubmitter DEF InFlight
    <3>2. cpc'[submitter[k]] = cpc[submitter[k]]
      BY <1>1, <3>1 DEF Steady, BaseInv, TypeOK
    <3>. QED
      BY <1>1, <1>2, <2>1, <3>1, <3>2 DEF InFlight
  <2>4. Delivered(k) => Delivered(k)'
    BY <1>1, <1>2, <2>1 DEF Delivered, Notified
  <2>. QED
    BY <1>1, <2>2, <2>3, <2>4 DEF CleanAt, CleanInv
<1>5. ASSUME NEW k \in clean', k \notin clean PROVE CleanAt(k)'
  <2>1. k = job[c] /\ idx[c] \in waiting[idx[c]]
    BY <1>5 DEF FoundThread
  <2>2. home'[k] = idx[c]
    BY <1>1, <2>1 DEF Steady, BaseInv, TypeOK
  <2>3. k \notin finished /\ calls[<<k, k>>] = 0
    BY <1>1, <2>1 DEF Steady, SlotInv, Pointer
  <2>4. cpc'[c] = "setfn" /\ Claiming(c)'
    BY <1>1 DEF Claiming, Steady, BaseInv, TypeOK
  <2>5. InFlight(k)'
    BY <1>1, <2>1, <2>2, <2>3, <2>4 DEF InFlight
  <2>. QED
    BY <1>1, <2>3, <2>5 DEF CleanAt
<1>. QED
  BY <1>4, <1>5 DEF CleanInv

(* The stores go to the worker of the task in flight, if there is one. *)
LEMMA CleanStore ==
  ASSUME Steady, NEW k \in clean, NEW c \in Client,
         StoreFunction(c) \/ StoreParameter(c) \/ StoreRunning(c), CleanAt(k)
  PROVE  CleanAt(k)'
<1> USE DEF poolVars, slotVars, clientVars, histVars, callVars
<1>1. k \in Task /\ home[k] \in Worker /\ submitter[k] \in Client
  BY CleanHome, CleanSubmitter
<1>2. Claiming(c) /\ idx[c] \in Worker /\ job[c] \in Task
      /\ home[job[c]] = idx[c]
  BY DEF StoreFunction, StoreParameter, StoreRunning, ClientStep, Claiming,
     Steady, BaseInv, JobInv
<1>3. /\ UNCHANGED <<waiting, wpc, cur, calls, finished, home, submitter, job,
                     idx>>
      /\ \A d \in Client : Claiming(d)' <=> Claiming(d)
  BY <1>2 DEF StoreFunction, StoreParameter, StoreRunning, ClientStep,
     Claiming, Steady, BaseInv, TypeOK
<1>4. Done(k) => Done(k)'
  <2> SUFFICES ASSUME Done(k) PROVE Done(k)'
    OBVIOUS
  <2>1. job[c] # k
    BY <1>2 DEF Done
  <2>2. /\ pfn'[home[k]] = k => pfn[home[k]] = k
        /\ param'[home[k]] = k => param[home[k]] = k
    BY <1>1, <1>2, <2>1 DEF StoreFunction, StoreParameter, StoreRunning,
     Steady,   BaseInv, TypeOK
  <2>. QED
    BY <1>3, <2>2 DEF Done, Notified
<1>5. InFlight(k) => InFlight(k)'
  <2> SUFFICES ASSUME InFlight(k) PROVE InFlight(k)'
    OBVIOUS
  <2>1. submitter[k] = c /\ home[k] = idx[c]
    BY <1>1, <1>2, OneClaim DEF InFlight, Steady
  <2>2. cpc'[c] = "signal" => running'[home[k]]
    BY <1>1, <1>2, <2>1 DEF StoreFunction, StoreParameter, StoreRunning,
       ClientStep, Steady, BaseInv, TypeOK
  <2>. QED
    BY <1>3, <2>1, <2>2 DEF InFlight
<1>6. Delivered(k) => Delivered(k)'
  <2> SUFFICES ASSUME Delivered(k) PROVE Delivered(k)'
    OBVIOUS
  <2>1. idx[c] # home[k]
    BY <1>2 DEF Delivered
  <2>2. /\ pfn'[home[k]] = pfn[home[k]] /\ param'[home[k]] = param[home[k]]
        /\ running'[home[k]] = running[home[k]]
    BY <1>1, <1>2, <2>1 DEF StoreFunction, StoreParameter, StoreRunning,
     Steady,   BaseInv, TypeOK
  <2>. QED
    BY <1>3, <2>2 DEF Delivered, Notified
<1>. QED
  BY <1>3, <1>4, <1>5, <1>6 DEF CleanAt

(* The notification wakes the worker of the task in flight, whose slot is  *)
(* full by then.                                                           *)
LEMMA CleanNotify ==
  ASSUME Steady, NEW k \in clean, NEW c \in Client, NotifyWorker(c), CleanAt(k)
  PROVE  CleanAt(k)'
<1> USE DEF poolVars, slotVars, clientVars, histVars, callVars
<1>1. k \in Task /\ home[k] \in Worker /\ submitter[k] \in Client
  BY CleanHome, CleanSubmitter
<1>2. /\ cpc[c] = "signal" /\ cpc' = [cpc EXCEPT ![c] = "unlock"]
      /\ Claiming(c) /\ idx[c] \in Worker /\ job[c] \in Task
      /\ home[job[c]] = idx[c]
      /\ pfn[idx[c]] = job[c] /\ param[idx[c]] = job[c]
  BY DEF NotifyWorker, ClientStep, Claiming, Steady, BaseInv, JobInv, StoreInv
<1>3. /\ UNCHANGED <<wpc, running, pfn, param, cur, calls, finished, home,
                     submitter, job, idx>>
      /\ CondSignal(idx[c])
  BY DEF NotifyWorker, MonitorNotify
<1>4. \A w \in Worker : w # idx[c] => waiting'[w] = waiting[w]
  BY <1>2, <1>3, SignalWakes DEF Steady, BaseInv, TypeOK
<1>5. \A d \in Client : Claiming(d)' => Claiming(d) /\ d # c
  BY <1>2 DEF Claiming, Steady, BaseInv, TypeOK
<1>6. Done(k) => Done(k)'
  <2> SUFFICES ASSUME Done(k) PROVE Done(k)'
    OBVIOUS
  <2>1. job[c] # k
    BY <1>2 DEF Done
  <2>2. CASE idx[c] = home[k]
    BY <1>2, <1>3, <1>5, <2>1, <2>2 DEF Done
  <2>3. CASE idx[c] # home[k]
    BY <1>1, <1>3, <1>4, <1>5, <2>3 DEF Done, Notified
  <2>. QED
    BY <2>2, <2>3
<1>7. InFlight(k) => Delivered(k)'
  <2> SUFFICES ASSUME InFlight(k) PROVE Delivered(k)'
    OBVIOUS
  <2>1. submitter[k] = c /\ job[c] = k /\ home[k] = idx[c]
    BY <1>1, <1>2, OneClaim DEF InFlight, Steady
  <2>2. wpc[home[k]] = "parked" /\ waiting[home[k]] = {home[k]}
    BY InFlightSleeps
  <2>3. waiting'[home[k]] = {}
    BY <1>1, <1>2, <1>3, <2>1, <2>2 DEF CondSignal, Steady, BaseInv, TypeOK
  <2>4. \A d \in Client : ~Claiming(d)'
    BY <1>2, <1>5, OneClaim DEF Steady
  <2>. QED
    BY <1>2, <1>3, <2>1, <2>2, <2>3, <2>4 DEF InFlight, Delivered, Notified
<1>8. Delivered(k) => Delivered(k)'
  <2> SUFFICES ASSUME Delivered(k) PROVE Delivered(k)'
    OBVIOUS
  <2>1. waiting'[home[k]] = waiting[home[k]]
    BY <1>1, <1>2, <1>4 DEF Delivered
  <2>. QED
    BY <1>3, <1>5, <2>1 DEF Delivered, Notified
<1>. QED
  BY <1>3, <1>6, <1>7, <1>8 DEF CleanAt

(* The constructor is done before any task is clean: only the workers it    *)
(* still has to start could differ.                                        *)
LEMMA CleanConstruct ==
  ASSUME Steady, NEW k \in clean, Construct, CleanAt(k)
  PROVE  CleanAt(k)'
<1> USE DEF poolVars, slotVars, clientVars, histVars, callVars
<1>1. k \in Task /\ home[k] \in Worker
  BY CleanHome
<1>2. UNCHANGED <<home, submitter, finished, calls, running, pfn, param, cur,
                  cpc, idx, job>>
  BY ConstructFrame
<1>3. waiting'[home[k]] = waiting[home[k]]
  BY <1>1 DEF Construct, Allocate, StartThread, StartThreadFails, AllStarted,
     ReleaseWorkers, MonitorNotifyAll, CondBroadcast, Steady, BaseInv, TypeOK
<1>4. CASE wpc'[home[k]] = wpc[home[k]]
  BY <1>1, <1>2, <1>3, <1>4, CleanFrame
<1>5. CASE wpc'[home[k]] # wpc[home[k]]
  <2>1. wpc[home[k]] = "unborn" /\ wpc'[home[k]] = "register"
    BY <1>1, <1>5 DEF Construct, Allocate, StartThread, StartThreadFails,
       AllStarted, ReleaseWorkers, CtorStep, Steady, BaseInv, TypeOK, CtorInv
  <2>2. ~Delivered(k) /\ ~InFlight(k)
    BY <2>1, InFlightSleeps DEF Delivered, Notified
  <2>3. Done(k) => Done(k)'
    BY <1>2, <2>1 DEF Done, Notified, Claiming
  <2>. QED
    BY <1>2, <2>2, <2>3 DEF CleanAt
<1>. QED
  BY <1>4, <1>5

LEMMA CleanStep ==
  Steady /\ spurious' = 0 /\ [Next]_vars => CleanInv'
<1> SUFFICES ASSUME Steady, spurious' = 0, [Next]_vars PROVE CleanInv'
  OBVIOUS
<1> USE DEF poolVars, slotVars, clientVars, histVars, callVars
<1>1. \A k \in clean : k \in Task /\ home[k] \in Worker /\ CleanAt(k)
  BY CleanHome DEF Steady, CleanInv
<1>2. ASSUME Construct PROVE CleanInv'
  BY <1>1, <1>2, ConstructFrame, CleanConstruct DEF CleanInv
<1>3. ASSUME NEW w \in Worker, Work(w) \/ Spurious(w) PROVE CleanInv'
  <2>1. Work(w)
    BY <1>3, NoSpurious DEF Steady
  <2>2. clean' = clean
    BY <1>3, WorkerFrame
  <2>3. ASSUME NEW k \in clean PROVE CleanAt(k)'
    BY <1>1, <2>1, <2>3, CleanOther, CleanWorker
  <2>. QED
    BY <2>2, <2>3 DEF CleanInv
<1>4. ASSUME NEW c \in Client, Proceed(c) \/ Call(c) PROVE CleanInv'
  <2>1. CASE FoundThread(c)
    BY <2>1, CleanFound DEF Steady
  <2>2. CASE NotifyWorker(c)
    BY <1>1, <2>2, CleanNotify DEF CleanInv, NotifyWorker
  <2>3. CASE StoreFunction(c) \/ StoreParameter(c) \/ StoreRunning(c)
    BY <1>1, <2>3, CleanStore
       DEF CleanInv, StoreFunction, StoreParameter, StoreRunning
  <2>4. CASE Quiet(c)
    <3>1. clean' = clean
      BY <2>4 DEF Quiet, LockPool, SkipRunning, TryAgain, UnlockPool,
         PollWorker, PollAgain, FoundIdle, WaitReturns, WaitIdle, Execute
    <3>. QED
      BY <1>1, <2>4, <3>1, CleanQuietStep DEF CleanInv
  <2>. QED
    BY <1>4, <2>1, <2>2, <2>3, <2>4 DEF Proceed, Call, Quiet
<1>5. CASE UNCHANGED vars
  BY <1>1, <1>5, CleanFrame DEF vars, CleanInv
<1>. QED
  BY <1>2, <1>3, <1>4, <1>5 DEF Next

(* A clean task of the polling client that is not finished is delivered,   *)
(* not in flight, so its worker's flag is set when the sweep reads it.     *)
LEMMA PollStep ==
  Steady /\ spurious' = 0 /\ [Next]_vars => PollInv'
<1> SUFFICES ASSUME Steady /\ spurious' = 0, [Next]_vars PROVE PollInv'
  OBVIOUS
<1> USE DEF poolVars, slotVars, clientVars, histVars, callVars
<1>1. ASSUME Construct PROVE PollInv'
  BY <1>1, ConstructFrame DEF Steady, BaseInv, TypeOK, PollInv, Claiming,
     JobInv, SlotInv
<1>2. ASSUME NEW w \in Worker, Work(w) \/ Spurious(w) PROVE PollInv'
  <2>1. CASE Register(w)
    BY <2>1 DEF Register, WorkerStep, Steady, BaseInv, TypeOK, PollInv,
       Claiming, JobInv, SlotInv
  <2>2. CASE SleepOnPool(w)
    BY <2>2 DEF SleepOnPool, WorkerStep, MonitorSleep, Steady, BaseInv,
       TypeOK, PollInv, Claiming, JobInv, SlotInv
  <2>3. CASE LeavePool(w)
    BY <2>3 DEF LeavePool, WorkerStep, MonitorAwake, Steady, BaseInv, TypeOK,
       PollInv, Claiming, JobInv, SlotInv
  <2>4. CASE ClearRunning(w)
    BY <2>4 DEF ClearRunning, WorkerStep, Steady, BaseInv, TypeOK, PollInv,
       Claiming, JobInv, SlotInv
  <2>5. CASE SleepOnSlot(w)
    BY <2>5 DEF SleepOnSlot, WorkerStep, MonitorSleep, Steady, BaseInv,
       TypeOK, PollInv, Claiming, JobInv, SlotInv
  <2>6. CASE TakeTask(w)
    BY <2>6 DEF TakeTask, WorkerStep, MonitorAwake, Steady, BaseInv, TypeOK,
       PollInv, Claiming, JobInv, SlotInv
  <2>7. CASE LoadFunction(w)
    BY <2>7 DEF LoadFunction, WorkerStep, Steady, BaseInv, TypeOK, PollInv,
       Claiming, JobInv, SlotInv
  <2>8. CASE CallTask(w)
    BY <2>8 DEF CallTask, WorkerStep, Steady, BaseInv, TypeOK, PollInv,
       Claiming, JobInv, SlotInv
  <2>9. CASE CallNull(w)
    BY <2>9 DEF CallNull, WorkerStep, Steady, BaseInv, TypeOK, PollInv,
       Claiming, JobInv, SlotInv
  <2>10. CASE FinishTask(w)
    BY <2>10 DEF FinishTask, WorkerStep, Steady, BaseInv, TypeOK, PollInv,
       Claiming, JobInv, SlotInv
  <2>11. CASE NotifyPool(w)
    BY <2>11 DEF NotifyPool, WorkerStep, MonitorNotify, CondSignal, Steady,
       BaseInv, TypeOK, PollInv, Claiming, JobInv, SlotInv
  <2>12. CASE Spurious(w)
    BY <2>12, NoSpurious DEF Spurious, SpuriousWake, Steady, BaseInv, TypeOK
  <2>. QED
    BY <1>2, <2>1, <2>2, <2>3, <2>4, <2>5, <2>6, <2>7, <2>8, <2>9, <2>10,
       <2>11, <2>12 DEF Work
<1>3. ASSUME NEW c \in Client, Proceed(c) \/ Call(c) PROVE PollInv'
  <2>1. CASE LockPool(c)
    BY <2>1 DEF LockPool, ClientStep, MutexLock, Steady, BaseInv, TypeOK,
       PollInv, Claiming, JobInv, SlotInv
  <2>2. CASE SkipRunning(c)
    BY <2>2 DEF SkipRunning, ClientStep, Steady, BaseInv, TypeOK, PollInv,
       Claiming, JobInv, SlotInv
  <2>3. CASE TryAgain(c)
    BY <2>3 DEF TryAgain, ClientStep, MutexUnlock, Steady, BaseInv, TypeOK,
       PollInv, Claiming, JobInv, SlotInv
  <2>4. CASE FoundThread(c)
    BY <2>4 DEF FoundThread, ClientStep, Steady, BaseInv, TypeOK, PollInv,
       Claiming, JobInv, SlotInv
  <2>5. CASE StoreFunction(c)
    BY <2>5 DEF StoreFunction, ClientStep, Steady, BaseInv, TypeOK, PollInv,
       Claiming, JobInv, SlotInv
  <2>6. CASE StoreParameter(c)
    BY <2>6 DEF StoreParameter, ClientStep, Steady, BaseInv, TypeOK, PollInv,
       Claiming, JobInv, SlotInv
  <2>7. CASE StoreRunning(c)
    BY <2>7 DEF StoreRunning, ClientStep, Steady, BaseInv, TypeOK, PollInv,
       Claiming, JobInv, SlotInv
  <2>8. CASE NotifyWorker(c)
    BY <2>8 DEF NotifyWorker, ClientStep, MonitorNotify, CondSignal, Steady,
       BaseInv, TypeOK, PollInv, Claiming, JobInv, SlotInv
  <2>9. CASE UnlockPool(c)
    BY <2>9 DEF UnlockPool, ClientStep, MutexUnlock, Steady, BaseInv, TypeOK,
       PollInv, Claiming, JobInv, SlotInv
  <2>10. CASE WaitIdle(c)
    BY <2>10 DEF WaitIdle, ClientStep, Steady, BaseInv, TypeOK, PollInv,
       Claiming, JobInv, SlotInv
  <2>11. CASE PollWorker(c)
    <3>1. /\ UNCHANGED <<cpc, clean, finished, submitter, home>>
          /\ cpc[c] = "poll" /\ idx[c] \in Worker
          /\ busy' = [busy EXCEPT ![c] = busy[c] \/ running[idx[c]]]
          /\ idx' = [idx EXCEPT ![c] = idx[c] + 1]
      BY <2>11 DEF PollWorker, Steady, BaseInv, TypeOK
    <3>2. ASSUME NEW d \in Client, NEW k \in clean, submitter[k] = d,
                 cpc[d] = "poll", ~busy'[d], home[k] < idx'[d]
          PROVE  k \in finished
      <4>1. home[k] \in Worker /\ idx[d] \in 1..N + 1 /\ busy[c] \in BOOLEAN
            /\ running[idx[c]] \in BOOLEAN
        BY <3>1, <3>2, CleanHome DEF Steady, BaseInv, TypeOK
      <4>2. CASE home[k] < idx[d]
        <5>1. ~busy[d]
          BY <3>1, <3>2, <4>1 DEF Steady, BaseInv, TypeOK
        <5>. QED
          BY <3>2, <4>2, <5>1 DEF Steady, PollInv
      <4>3. CASE ~(home[k] < idx[d])
        <5>1. d = c /\ home[k] = idx[c]
          BY <3>1, <3>2, <4>1, <4>3 DEF Steady, BaseInv, TypeOK
        <5>2. ~running[home[k]]
          BY <3>1, <3>2, <4>1, <5>1 DEF Steady, BaseInv, TypeOK
        <5>3. ~InFlight(k) /\ ~Delivered(k)
          BY <3>1, <3>2, <5>1, <5>2 DEF InFlight, Delivered, Claiming
        <5>. QED
          BY <3>2, <5>3 DEF Steady, CleanInv, CleanAt
      <4>. QED
        BY <4>2, <4>3
    <3>. QED
      BY <3>1, <3>2 DEF Steady, PollInv
  <2>12. CASE PollAgain(c)
    BY <2>12 DEF PollAgain, ClientStep, Steady, BaseInv, TypeOK, PollInv,
       Claiming, JobInv, SlotInv
  <2>13. CASE FoundIdle(c)
    <3>1. /\ UNCHANGED <<clean, finished, submitter, home, idx, busy>>
          /\ cpc[c] = "poll" /\ cpc' = [cpc EXCEPT ![c] = "waited"]
          /\ idx[c] > N /\ ~busy[c]
      BY <2>13 DEF FoundIdle, ClientStep
    <3>2. \A k \in clean : home[k] \in Worker
      BY CleanHome
    <3>3. \A k \in clean : submitter[k] = c => k \in finished
      BY <3>1, <3>2 DEF Steady, PollInv, BaseInv, TypeOK
    <3>. QED
      BY <3>1, <3>3 DEF Steady, PollInv, BaseInv, TypeOK
  <2>14. CASE WaitReturns(c)
    BY <2>14 DEF WaitReturns, ClientStep, Steady, BaseInv, TypeOK, PollInv,
       Claiming, JobInv, SlotInv
  <2>15. ASSUME NEW k \in Task, Execute(c, k) PROVE PollInv'
    BY <2>15 DEF Execute, ClientStep, Steady, BaseInv, TypeOK, PollInv,
       Claiming, JobInv, SlotInv
  <2>. QED
    BY <1>3, <2>1, <2>2, <2>3, <2>4, <2>5, <2>6, <2>7, <2>8, <2>9, <2>10,
       <2>11, <2>12, <2>13, <2>14, <2>15 DEF Proceed, Call
<1>4. CASE UNCHANGED vars
  BY <1>4 DEF vars, Steady, BaseInv, TypeOK, PollInv, Claiming, JobInv,
     SlotInv
<1>. QED
  BY <1>1, <1>2, <1>3, <1>4 DEF Next

(* A worker calls a clean task only when both halves of its slot are its. *)
LEMMA OwnStep ==
  Steady /\ spurious' = 0 /\ [Next]_vars => OwnInv'
<1> SUFFICES ASSUME Steady /\ spurious' = 0, [Next]_vars PROVE OwnInv'
  OBVIOUS
<1> USE DEF poolVars, slotVars, clientVars, histVars, callVars
<1>1. ASSUME Construct PROVE OwnInv'
  BY <1>1, ConstructFrame DEF Steady, BaseInv, TypeOK, OwnInv, SlotInv,
     Pointer
<1>2. ASSUME NEW w \in Worker, Work(w) \/ Spurious(w) PROVE OwnInv'
  <2>1. CASE Register(w)
    BY <2>1 DEF Register, WorkerStep, Steady, BaseInv, TypeOK, OwnInv,
       SlotInv, Pointer
  <2>2. CASE SleepOnPool(w)
    BY <2>2 DEF SleepOnPool, WorkerStep, MonitorSleep, Steady, BaseInv,
       TypeOK, OwnInv, SlotInv, Pointer
  <2>3. CASE LeavePool(w)
    BY <2>3 DEF LeavePool, WorkerStep, MonitorAwake, Steady, BaseInv, TypeOK,
       OwnInv, SlotInv, Pointer
  <2>4. CASE ClearRunning(w)
    BY <2>4 DEF ClearRunning, WorkerStep, Steady, BaseInv, TypeOK, OwnInv,
       SlotInv, Pointer
  <2>5. CASE SleepOnSlot(w)
    BY <2>5 DEF SleepOnSlot, WorkerStep, MonitorSleep, Steady, BaseInv,
       TypeOK, OwnInv, SlotInv, Pointer
  <2>6. CASE TakeTask(w)
    BY <2>6 DEF TakeTask, WorkerStep, MonitorAwake, Steady, BaseInv, TypeOK,
       OwnInv, SlotInv, Pointer
  <2>7. CASE LoadFunction(w)
    BY <2>7 DEF LoadFunction, WorkerStep, Steady, BaseInv, TypeOK, OwnInv,
       SlotInv, Pointer
  <2>8. CASE CallTask(w)
    <3>1. cur[w] \in Task /\ param[w] \in Pointer /\ wpc[w] = "loadparam"
      BY <2>8 DEF CallTask, WorkerStep, Steady, BaseInv, TypeOK, Pointer
    <3>2. ASSUME NEW k \in clean, cur[w] = k \/ param[w] = k
          PROVE  cur[w] = k /\ param[w] = k
      <4>1. home[k] = w
        BY <3>1, <3>2, CleanHome DEF Steady, SlotInv
      <4>2. CleanAt(k) /\ ~InFlight(k)
        BY <3>1, <3>2, <4>1, InFlightSleeps DEF Steady, CleanInv
      <4>. QED
        BY <3>1, <3>2, <4>1, <4>2 DEF CleanAt, Done, Delivered, Notified
    <3>. QED
      BY <2>8, <3>1, <3>2 DEF CallTask, Steady, BaseInv, TypeOK, OwnInv
  <2>9. CASE CallNull(w)
    BY <2>9 DEF CallNull, WorkerStep, Steady, BaseInv, TypeOK, OwnInv,
       SlotInv, Pointer
  <2>10. CASE FinishTask(w)
    BY <2>10 DEF FinishTask, WorkerStep, Steady, BaseInv, TypeOK, OwnInv,
       SlotInv, Pointer
  <2>11. CASE NotifyPool(w)
    BY <2>11 DEF NotifyPool, WorkerStep, MonitorNotify, CondSignal, Steady,
       BaseInv, TypeOK, OwnInv, SlotInv, Pointer
  <2>12. CASE Spurious(w)
    BY <2>12, NoSpurious DEF Spurious, SpuriousWake, Steady, BaseInv, TypeOK
  <2>. QED
    BY <1>2, <2>1, <2>2, <2>3, <2>4, <2>5, <2>6, <2>7, <2>8, <2>9, <2>10,
       <2>11, <2>12 DEF Work
<1>3. ASSUME NEW c \in Client, Proceed(c) \/ Call(c) PROVE OwnInv'
  <2>1. CASE LockPool(c)
    BY <2>1 DEF LockPool, ClientStep, MutexLock, Steady, BaseInv, TypeOK,
       OwnInv, SlotInv, Pointer
  <2>2. CASE SkipRunning(c)
    BY <2>2 DEF SkipRunning, ClientStep, Steady, BaseInv, TypeOK, OwnInv,
       SlotInv, Pointer
  <2>3. CASE TryAgain(c)
    BY <2>3 DEF TryAgain, ClientStep, MutexUnlock, Steady, BaseInv, TypeOK,
       OwnInv, SlotInv, Pointer
  <2>4. CASE FoundThread(c)
    BY <2>4 DEF FoundThread, ClientStep, Steady, BaseInv, TypeOK, OwnInv,
       SlotInv, Pointer, JobInv
  <2>5. CASE StoreFunction(c)
    BY <2>5 DEF StoreFunction, ClientStep, Steady, BaseInv, TypeOK, OwnInv,
       SlotInv, Pointer
  <2>6. CASE StoreParameter(c)
    BY <2>6 DEF StoreParameter, ClientStep, Steady, BaseInv, TypeOK, OwnInv,
       SlotInv, Pointer
  <2>7. CASE StoreRunning(c)
    BY <2>7 DEF StoreRunning, ClientStep, Steady, BaseInv, TypeOK, OwnInv,
       SlotInv, Pointer
  <2>8. CASE NotifyWorker(c)
    BY <2>8 DEF NotifyWorker, ClientStep, MonitorNotify, CondSignal, Steady,
       BaseInv, TypeOK, OwnInv, SlotInv, Pointer
  <2>9. CASE UnlockPool(c)
    BY <2>9 DEF UnlockPool, ClientStep, MutexUnlock, Steady, BaseInv, TypeOK,
       OwnInv, SlotInv, Pointer
  <2>10. CASE WaitIdle(c)
    BY <2>10 DEF WaitIdle, ClientStep, Steady, BaseInv, TypeOK, OwnInv,
       SlotInv, Pointer
  <2>11. CASE PollWorker(c)
    BY <2>11 DEF PollWorker, ClientStep, Steady, BaseInv, TypeOK, OwnInv,
       SlotInv, Pointer
  <2>12. CASE PollAgain(c)
    BY <2>12 DEF PollAgain, ClientStep, Steady, BaseInv, TypeOK, OwnInv,
       SlotInv, Pointer
  <2>13. CASE FoundIdle(c)
    BY <2>13 DEF FoundIdle, ClientStep, Steady, BaseInv, TypeOK, OwnInv,
       SlotInv, Pointer
  <2>14. CASE WaitReturns(c)
    BY <2>14 DEF WaitReturns, ClientStep, Steady, BaseInv, TypeOK, OwnInv,
       SlotInv, Pointer
  <2>15. ASSUME NEW k \in Task, Execute(c, k) PROVE OwnInv'
    BY <2>15 DEF Execute, ClientStep, Steady, BaseInv, TypeOK, OwnInv,
       SlotInv, Pointer
  <2>. QED
    BY <1>3, <2>1, <2>2, <2>3, <2>4, <2>5, <2>6, <2>7, <2>8, <2>9, <2>10,
       <2>11, <2>12, <2>13, <2>14, <2>15 DEF Proceed, Call
<1>4. CASE UNCHANGED vars
  BY <1>4 DEF vars, Steady, BaseInv, TypeOK, OwnInv, SlotInv, Pointer
<1>. QED
  BY <1>1, <1>2, <1>3, <1>4 DEF Next

-----------------------------------------------------------------------------
LEMMA SteadyInit == Init => Steady
<1> SUFFICES ASSUME Init PROVE Steady
  OBVIOUS
<1>1. BaseInv
  BY BaseInit
<1>2. BarrierInv /\ StoreInv /\ NoneCrashed /\ ExecInv
  BY DEF Init, BarrierInv, StoreInv, NoneCrashed, ExecInv, Notified
<1>3. SlotInv
  BY DEF Init, SlotInv, Pointer, NameAssumption
<1>4. CleanInv /\ OwnInv /\ PollInv
  BY DEF Init, CleanInv, OwnInv, PollInv
<1>. QED
  BY <1>1, <1>2, <1>3, <1>4 DEF Steady

(* The inductive invariant: BaseInv, and Steady until a wait of a worker   *)
(* returns on its own.                                                     *)
THEOREM Invariance == Spec => []IInv
<1>1. Init => IInv
  BY SteadyInit, BaseInit DEF IInv
<1>2. IInv => BaseInv
  BY DEF IInv, Steady
<1>3. BaseInv /\ [Next]_vars => BaseInv'
  BY TypeStep, LockStep, CountStep, WaitStep, JobStep, RunStep DEF BaseInv
<1>4. IInv /\ [Next]_vars => IInv'
  <2> SUFFICES ASSUME IInv, [Next]_vars PROVE IInv'
    OBVIOUS
  <2>1. BaseInv'
    BY <1>2, <1>3
  <2>2. ASSUME Undisturbed' PROVE Steady'
    <3>1. spurious' = 0 /\ Steady
      BY <1>2, <2>2, Before DEF IInv
    <3>. QED
      BY <2>1, <3>1, BarrierStep, SlotStep, StoreStep, ExecStep, NullStep,
         CleanStep, OwnStep, PollStep DEF Steady
  <2>. QED
    BY <2>1, <2>2 DEF IInv
<1>. QED
  BY <1>1, <1>4, PTL DEF Spec

(* No worker calls an empty slot before a wait returned on its own. *)
THEOREM NeverCallsNull == Spec => []NoNullCall
<1>1. IInv => NoNullCall
  BY DEF IInv, Steady, NoNullCall
<1>. QED
  BY Invariance, <1>1, PTL

(* The constructor's barrier holds. *)
THEOREM BarrierHolds == Spec => []ConstructBarrier
<1>1. IInv => ConstructBarrier
  BY DEF IInv, Steady, BaseInv, BarrierInv, CtorInv, ConstructBarrier
<1>. QED
  BY Invariance, <1>1, PTL

(* A task handed to a sleeping worker runs once at most, with its own      *)
(* parameter.                                                              *)
THEOREM CleanRunsOnce == Spec => []CleanTaskRunsOnce
<1>1. ASSUME Steady, NEW k \in clean PROVE calls[<<k, k>>] <= 1
  BY <1>1 DEF Steady, CleanInv, CleanAt, Done, InFlight, Delivered
<1>2. Steady => CleanTaskRunsOnce
  BY <1>1 DEF Steady, OwnInv, CleanTaskRunsOnce
<1>3. IInv => CleanTaskRunsOnce
  BY <1>2 DEF IInv, CleanTaskRunsOnce
<1>. QED
  BY Invariance, <1>3, PTL

(* thread_pool_wait_idle covers the caller's tasks that went to sleeping   *)
(* workers.                                                                *)
THEOREM WaitIdleCovers == Spec => []WaitIdleCoversClean
<1>1. IInv => WaitIdleCoversClean
  BY DEF IInv, Steady, PollInv, WaitIdleCoversClean
<1>. QED
  BY Invariance, <1>1, PTL

=============================================================================
