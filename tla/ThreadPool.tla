----------------------------- MODULE ThreadPool -----------------------------
(***************************************************************************)
(* src/performance/parallel/thread_pool.c: one thread constructs a pool of *)
(* N workers, clients hand jobs to idle workers with thread_pool_execute   *)
(* and block in thread_pool_wait_idle.                                     *)
(*                                                                         *)
(* Every step is one access to memory that another thread may touch.  Only *)
(* _lock protects anything: it serializes the clients.  The workers read   *)
(* and write their slot without it.                                        *)
(***************************************************************************)
EXTENDS Integers, FiniteSets
LOCAL INSTANCE TLC

CONSTANTS
  N,            \* thread_quantity
  Client,       \* threads that use the pool once it is constructed
  Task,         \* jobs to submit; a job is its function and its parameter
  Nobody, Null, \* the owner of a free mutex; a null pointer
  MaxSpurious   \* bound: how many waits return without a notification

MaxThreads == 64
Worker == 1..N
PoolMonitor == 0      \* the pool's own _montior; worker w's is w

ASSUME ThreadAssumption == N \in 1..MaxThreads
ASSUME NameAssumption ==
  /\ Null \notin Task
  /\ Nobody \notin Client
  /\ MaxSpurious \in Nat

(* Clients, and tasks, are interchangeable. *)
Symmetry == Permutations(Client) \cup Permutations(Task)

VARIABLES
  owner,            \* of _lock
  waiting,          \* the threads asleep on each monitor
  ctor, spawned,    \* thread_pool_construct: where it is, threads started
  running_threads,
  wpc, running,     \* worker: where it is; its running flag
  pfn, param,       \* the job in its slot
  cur,              \* the function it has loaded, then calls
  cpc, job, idx,    \* client: where it is, the job it submits, loop index
  busy,             \* is_running of thread_pool_wait_idle
  spurious,         \* spurious wake-ups so far
  submitter, home,  \* history: who submitted a task, to which worker
  clean,            \* history: tasks whose worker slept in its own monitor
                    \* when thread_pool_execute found it
  calls, finished   \* history: calls made, and tasks that returned

poolVars == <<ctor, spawned, running_threads>>
slotVars == <<running, pfn, param>>
clientVars == <<cpc, job, idx, busy>>
histVars == <<submitter, home, clean>>
callVars == <<cur, calls, finished>>
vars == <<owner, waiting, poolVars, wpc, slotVars, callVars, clientVars,
          spurious, histVars>>

INSTANCE Sync

Lock == "_lock"

-----------------------------------------------------------------------------
(* thread_pool_construct *)

CtorStep(from, to) == ctor = from /\ ctor' = to

(* Allocating the pool fails, or spawning starts.  The memory is cleared   *)
(* before it is looked at, so without any the call does not even return 0; *)
(* "failed" stands for that end too: no thread of this pool is started.    *)
Allocate ==
  /\ \E to \in {"spawn", "failed"} : CtorStep("alloc", to)
  /\ UNCHANGED <<owner, waiting, spawned, running_threads, wpc, slotVars,
                 callVars, clientVars, spurious, histVars>>

(* Mutant: one thread too many, i <= thread_quantity. *)
StartThread_TooMany ==
  /\ CtorStep("spawn", IF spawned = N THEN "await" ELSE "spawn")
  /\ spawned' = spawned + 1
  /\ wpc' = [w \in Worker |-> IF w = spawned + 1 THEN "register" ELSE wpc[w]]
  /\ UNCHANGED <<owner, waiting, running_threads, slotVars, callVars,
                 clientVars, spurious, histVars>>

StartThread ==
  /\ CtorStep("spawn", IF spawned + 1 = N THEN "await" ELSE "spawn")
  /\ spawned' = spawned + 1
  /\ wpc' = [wpc EXCEPT ![spawned + 1] = "register"]
  /\ UNCHANGED <<owner, waiting, running_threads, slotVars, callVars,
                 clientVars, spurious, histVars>>

(* pthread_create fails: the call gives up, the started threads stay. *)
StartThreadFails ==
  /\ CtorStep("spawn", "failed")
  /\ UNCHANGED <<owner, waiting, spawned, running_threads, wpc, slotVars,
                 callVars, clientVars, spurious, histVars>>

(* Mutant: do not wait for the workers. *)
AllStarted_NoAwait ==
  /\ CtorStep("await", "release")
  /\ UNCHANGED <<owner, waiting, spawned, running_threads, wpc, slotVars,
                 callVars, clientVars, spurious, histVars>>

AllStarted ==
  /\ CtorStep("await", "release")
  /\ running_threads = N
  /\ UNCHANGED <<owner, waiting, spawned, running_threads, wpc, slotVars,
                 callVars, clientVars, spurious, histVars>>

ReleaseWorkers ==
  /\ CtorStep("release", "done")
  /\ MonitorNotifyAll(PoolMonitor)
  /\ UNCHANGED <<owner, spawned, running_threads, wpc, slotVars, callVars,
                 clientVars, spurious, histVars>>

Construct == \/ Allocate \/ StartThread \/ StartThreadFails
             \/ AllStarted \/ ReleaseWorkers

-----------------------------------------------------------------------------
(* thread_pool_work *)

WorkerStep(w, from, to) == wpc[w] = from /\ wpc' = [wpc EXCEPT ![w] = to]

(* Mutant: the worker forgets to count itself. *)
Register_NotCounted(w) ==
  /\ WorkerStep(w, "register", "waitpool")
  /\ owner[Lock] = Nobody
  /\ UNCHANGED <<owner, waiting, poolVars, slotVars, callVars, clientVars,
                 spurious, histVars>>

(* lock, running_threads++, unlock *)
Register(w) ==
  /\ WorkerStep(w, "register", "waitpool")
  /\ owner[Lock] = Nobody
  /\ running_threads' = running_threads + 1
  /\ UNCHANGED <<owner, waiting, ctor, spawned, slotVars, callVars,
                 clientVars, spurious, histVars>>

SleepOnPool(w) ==
  /\ WorkerStep(w, "waitpool", "pooled")
  /\ MonitorSleep(w, PoolMonitor)
  /\ UNCHANGED <<owner, poolVars, slotVars, callVars, clientVars, spurious,
                 histVars>>

LeavePool(w) ==
  /\ WorkerStep(w, "pooled", "clear")
  /\ MonitorAwake(w, PoolMonitor)
  /\ UNCHANGED <<owner, waiting, poolVars, slotVars, callVars, clientVars,
                 spurious, histVars>>

(* wait_for_next_task: running = false *)
ClearRunning(w) ==
  /\ WorkerStep(w, "clear", "wait")
  /\ running' = [running EXCEPT ![w] = FALSE]
  /\ UNCHANGED <<owner, waiting, poolVars, pfn, param, callVars, clientVars,
                 spurious, histVars>>

SleepOnSlot(w) ==
  /\ WorkerStep(w, "wait", "parked")
  /\ MonitorSleep(w, w)
  /\ UNCHANGED <<owner, poolVars, slotVars, callVars, clientVars, spurious,
                 histVars>>

(* The wait returns; running = true *)
TakeTask(w) ==
  /\ WorkerStep(w, "parked", "load")
  /\ MonitorAwake(w, w)
  /\ running' = [running EXCEPT ![w] = TRUE]
  /\ UNCHANGED <<owner, waiting, poolVars, pfn, param, callVars, clientVars,
                 spurious, histVars>>

(* The function and the parameter are two reads of the slot. *)
LoadFunction(w) ==
  /\ WorkerStep(w, "load", "loadparam")
  /\ cur' = [cur EXCEPT ![w] = pfn[w]]
  /\ UNCHANGED <<owner, waiting, poolVars, slotVars, calls, finished,
                 clientVars, spurious, histVars>>

CallTask(w) ==
  /\ cur[w] # Null
  /\ WorkerStep(w, "loadparam", "run")
  /\ calls' = [calls EXCEPT ![<<cur[w], param[w]>>] = @ + 1]
  /\ UNCHANGED <<owner, waiting, poolVars, slotVars, cur, finished,
                 clientVars, spurious, histVars>>

(* Calling a null pointer is undefined: the thread is gone. *)
CallNull(w) ==
  /\ cur[w] = Null
  /\ WorkerStep(w, "loadparam", "crashed")
  /\ UNCHANGED <<owner, waiting, poolVars, slotVars, callVars, clientVars,
                 spurious, histVars>>

(* The function returns; running = false *)
FinishTask(w) ==
  /\ WorkerStep(w, "run", "notify")
  /\ finished' = finished \cup {cur[w]}
  /\ running' = [running EXCEPT ![w] = FALSE]
  /\ UNCHANGED <<owner, waiting, poolVars, pfn, param, cur, calls, clientVars,
                 spurious, histVars>>

NotifyPool(w) ==
  /\ WorkerStep(w, "notify", "clear")
  /\ MonitorNotify(PoolMonitor)
  /\ UNCHANGED <<owner, poolVars, slotVars, callVars, clientVars, spurious,
                 histVars>>

Work(w) ==
  \/ Register(w) \/ SleepOnPool(w) \/ LeavePool(w) \/ ClearRunning(w)
  \/ SleepOnSlot(w) \/ TakeTask(w) \/ LoadFunction(w)
  \/ CallTask(w) \/ CallNull(w) \/ FinishTask(w) \/ NotifyPool(w)

(* A wait may return on its own. *)
Spurious(w) ==
  /\ spurious < MaxSpurious
  /\ spurious' = spurious + 1
  /\ SpuriousWake(w, PoolMonitor) \/ SpuriousWake(w, w)
  /\ UNCHANGED <<owner, poolVars, wpc, slotVars, callVars, clientVars,
                 histVars>>

-----------------------------------------------------------------------------
(* thread_pool_execute *)

ClientStep(c, from, to) == cpc[c] = from /\ cpc' = [cpc EXCEPT ![c] = to]

Execute(c, k) ==
  /\ ctor = "done"
  /\ submitter[k] = Nobody
  /\ ClientStep(c, "idle", "lock")
  /\ job' = [job EXCEPT ![c] = k]
  /\ submitter' = [submitter EXCEPT ![k] = c]
  /\ UNCHANGED <<owner, waiting, poolVars, wpc, slotVars, callVars, idx,
                 busy, spurious, home, clean>>

(* Mutant: go on although the mutex is taken. *)
LockPool_Ignored(c) ==
  /\ ClientStep(c, "lock", "scan")
  /\ idx' = [idx EXCEPT ![c] = 1]
  /\ UNCHANGED <<owner, waiting, poolVars, wpc, slotVars, callVars, job, busy,
                 spurious, histVars>>

LockPool(c) ==
  /\ ClientStep(c, "lock", "scan")
  /\ MutexLock(c, Lock)
  /\ idx' = [idx EXCEPT ![c] = 1]
  /\ UNCHANGED <<waiting, poolVars, wpc, slotVars, callVars, job, busy,
                 spurious, histVars>>

SkipRunning(c) ==
  /\ cpc[c] = "scan"
  /\ idx[c] <= N
  /\ running[idx[c]]
  /\ idx' = [idx EXCEPT ![c] = @ + 1]
  /\ UNCHANGED <<owner, waiting, poolVars, wpc, slotVars, callVars, cpc, job,
                 busy, spurious, histVars>>

(* No idle thread: unlock and try again. *)
TryAgain(c) ==
  /\ idx[c] > N
  /\ ClientStep(c, "scan", "lock")
  /\ MutexUnlock(c, Lock)
  /\ UNCHANGED <<waiting, poolVars, wpc, slotVars, callVars, job, idx, busy,
                 spurious, histVars>>

(* Mutant: unlock as soon as a worker is found. *)
FoundThread_Unlocks(c) ==
  /\ idx[c] <= N
  /\ ~running[idx[c]]
  /\ ClientStep(c, "scan", "setfn")
  /\ MutexUnlock(c, Lock)
  /\ home' = [home EXCEPT ![job[c]] = idx[c]]
  /\ clean' = IF idx[c] \in waiting[idx[c]] THEN clean \cup {job[c]} ELSE clean
  /\ UNCHANGED <<waiting, poolVars, wpc, slotVars, callVars, job, idx, busy,
                 spurious, submitter>>

(* Mutant: notify the worker before its slot is filled. *)
FoundThread_NotifiesEarly(c) ==
  /\ idx[c] <= N
  /\ ~running[idx[c]]
  /\ ClientStep(c, "scan", "setfn")
  /\ MonitorNotify(idx[c])
  /\ home' = [home EXCEPT ![job[c]] = idx[c]]
  /\ clean' = IF idx[c] \in waiting[idx[c]] THEN clean \cup {job[c]} ELSE clean
  /\ UNCHANGED <<owner, poolVars, wpc, slotVars, callVars, job, idx, busy,
                 spurious, submitter>>

FoundThread(c) ==
  /\ idx[c] <= N
  /\ ~running[idx[c]]
  /\ ClientStep(c, "scan", "setfn")
  /\ home' = [home EXCEPT ![job[c]] = idx[c]]
  /\ clean' = IF idx[c] \in waiting[idx[c]] THEN clean \cup {job[c]} ELSE clean
  /\ UNCHANGED <<owner, waiting, poolVars, wpc, slotVars, callVars, job, idx,
                 busy, spurious, submitter>>

StoreFunction(c) ==
  /\ ClientStep(c, "setfn", "setparam")
  /\ pfn' = [pfn EXCEPT ![idx[c]] = job[c]]
  /\ UNCHANGED <<owner, waiting, poolVars, wpc, running, param, callVars,
                 job, idx, busy, spurious, histVars>>

StoreParameter(c) ==
  /\ ClientStep(c, "setparam", "setrun")
  /\ param' = [param EXCEPT ![idx[c]] = job[c]]
  /\ UNCHANGED <<owner, waiting, poolVars, wpc, running, pfn, callVars, job,
                 idx, busy, spurious, histVars>>

(* Mutant: leave the flag to the worker. *)
StoreRunning_Omitted(c) ==
  /\ ClientStep(c, "setrun", "signal")
  /\ UNCHANGED <<owner, waiting, poolVars, wpc, slotVars, callVars, job,
                 idx, busy, spurious, histVars>>

StoreRunning(c) ==
  /\ ClientStep(c, "setrun", "signal")
  /\ running' = [running EXCEPT ![idx[c]] = TRUE]
  /\ UNCHANGED <<owner, waiting, poolVars, wpc, pfn, param, callVars, job,
                 idx, busy, spurious, histVars>>

(* Mutant: notify the pool's monitor instead of the worker's. *)
NotifyWorker_WrongMonitor(c) ==
  /\ ClientStep(c, "signal", "unlock")
  /\ MonitorNotify(PoolMonitor)
  /\ UNCHANGED <<owner, poolVars, wpc, slotVars, callVars, job, idx, busy,
                 spurious, histVars>>

NotifyWorker(c) ==
  /\ ClientStep(c, "signal", "unlock")
  /\ MonitorNotify(idx[c])
  /\ UNCHANGED <<owner, poolVars, wpc, slotVars, callVars, job, idx, busy,
                 spurious, histVars>>

UnlockPool(c) ==
  /\ ClientStep(c, "unlock", "idle")
  /\ MutexUnlock(c, Lock)
  /\ UNCHANGED <<waiting, poolVars, wpc, slotVars, callVars, job, idx, busy,
                 spurious, histVars>>

-----------------------------------------------------------------------------
(* thread_pool_wait_idle *)

WaitIdle(c) ==
  /\ ctor = "done"
  /\ ClientStep(c, "idle", "poll")
  /\ idx' = [idx EXCEPT ![c] = 1]
  /\ busy' = [busy EXCEPT ![c] = FALSE]
  /\ UNCHANGED <<owner, waiting, poolVars, wpc, slotVars, callVars, job,
                 spurious, histVars>>

(* Mutant: = for |=, only the last worker counts. *)
PollWorker_LastOnly(c) ==
  /\ cpc[c] = "poll"
  /\ idx[c] <= N
  /\ busy' = [busy EXCEPT ![c] = running[idx[c]]]
  /\ idx' = [idx EXCEPT ![c] = @ + 1]
  /\ UNCHANGED <<owner, waiting, poolVars, wpc, slotVars, callVars, cpc, job,
                 spurious, histVars>>

PollWorker(c) ==
  /\ cpc[c] = "poll"
  /\ idx[c] <= N
  /\ busy' = [busy EXCEPT ![c] = @ \/ running[idx[c]]]
  /\ idx' = [idx EXCEPT ![c] = @ + 1]
  /\ UNCHANGED <<owner, waiting, poolVars, wpc, slotVars, callVars, cpc, job,
                 spurious, histVars>>

PollAgain(c) ==
  /\ cpc[c] = "poll"
  /\ idx[c] > N
  /\ busy[c]
  /\ idx' = [idx EXCEPT ![c] = 1]
  /\ busy' = [busy EXCEPT ![c] = FALSE]
  /\ UNCHANGED <<owner, waiting, poolVars, wpc, slotVars, callVars, cpc, job,
                 spurious, histVars>>

FoundIdle(c) ==
  /\ idx[c] > N
  /\ ~busy[c]
  /\ ClientStep(c, "poll", "waited")
  /\ UNCHANGED <<owner, waiting, poolVars, wpc, slotVars, callVars, job, idx,
                 busy, spurious, histVars>>

(* The caller of thread_pool_wait_idle goes on. *)
WaitReturns(c) ==
  /\ ClientStep(c, "waited", "idle")
  /\ UNCHANGED <<owner, waiting, poolVars, wpc, slotVars, callVars, job, idx,
                 busy, spurious, histVars>>

(* The steps of a call in progress, and the calls a client may make. *)
Proceed(c) ==
  \/ LockPool(c) \/ SkipRunning(c) \/ TryAgain(c) \/ FoundThread(c)
  \/ StoreFunction(c) \/ StoreParameter(c) \/ StoreRunning(c)
  \/ NotifyWorker(c) \/ UnlockPool(c)
  \/ PollWorker(c) \/ PollAgain(c) \/ FoundIdle(c) \/ WaitReturns(c)

Call(c) == WaitIdle(c) \/ \E k \in Task : Execute(c, k)

-----------------------------------------------------------------------------
Init ==
  /\ owner = [m \in {Lock} |-> Nobody]
  /\ waiting = [m \in {PoolMonitor} \cup Worker |-> {}]
  /\ ctor = "alloc" /\ spawned = 0 /\ running_threads = 0
  /\ wpc = [w \in Worker |-> "unborn"]
  /\ running = [w \in Worker |-> FALSE]
  /\ pfn = [w \in Worker |-> Null] /\ param = [w \in Worker |-> Null]
  /\ cur = [w \in Worker |-> Null]
  /\ cpc = [c \in Client |-> "idle"]
  /\ job = [c \in Client |-> Null]
  /\ idx = [c \in Client |-> 1]
  /\ busy = [c \in Client |-> FALSE]
  /\ spurious = 0
  /\ submitter = [k \in Task |-> Nobody]
  /\ home = [k \in Task |-> 0]
  /\ clean = {}
  /\ calls = [x \in Task \X (Task \cup {Null}) |-> 0]
  /\ finished = {}

Next ==
  \/ Construct
  \/ \E w \in Worker : Work(w) \/ Spurious(w)
  \/ \E c \in Client : Proceed(c) \/ Call(c)

Spec == Init /\ [][Next]_vars

(* Threads that can take a step take it: the scheduler runs every thread,  *)
(* and the functions the pool calls return.  _lock is not handed out in    *)
(* order, so a client waiting for it again and again needs SF.  Nobody is  *)
(* made to call the pool.                                                  *)
FairSpec ==
  /\ Spec
  /\ WF_vars(Construct)
  /\ \A w \in Worker : WF_vars(Work(w))
  /\ \A c \in Client : SF_vars(Proceed(c))

-----------------------------------------------------------------------------
(* What may be relied on. *)

CtorState == {"alloc", "spawn", "await", "release", "done", "failed"}
WorkerState == {"unborn", "register", "waitpool", "pooled", "clear", "wait",
                "parked", "load", "loadparam", "run", "notify", "crashed"}
ClientState == {"idle", "lock", "scan", "setfn", "setparam", "setrun",
                "signal", "unlock", "poll", "waited"}
Pointer == Task \cup {Null}

TypeOK ==
  /\ owner \in [{Lock} -> Client \cup {Nobody}]
  /\ waiting \in [{PoolMonitor} \cup Worker -> SUBSET Worker]
  /\ ctor \in CtorState /\ spawned \in 0..N /\ running_threads \in 0..N
  /\ wpc \in [Worker -> WorkerState]
  /\ running \in [Worker -> BOOLEAN]
  /\ pfn \in [Worker -> Pointer] /\ param \in [Worker -> Pointer]
  /\ cur \in [Worker -> Pointer]
  /\ cpc \in [Client -> ClientState]
  /\ job \in [Client -> Pointer]
  /\ idx \in [Client -> 1..N + 1]
  /\ busy \in [Client -> BOOLEAN]
  /\ spurious \in 0..MaxSpurious
  /\ submitter \in [Task -> Client \cup {Nobody}]
  /\ home \in [Task -> 0..N]
  /\ clean \in SUBSET Task /\ finished \in SUBSET Task
  /\ calls \in [Task \X Pointer -> Nat]

(* The workers wait without a predicate, so most of what follows may be    *)
(* relied on only while every wait has ended by a notification.            *)
Undisturbed == spurious = 0

NoneCrashed == \A w \in Worker : wpc[w] # "crashed"

(* No worker calls a slot that no client has filled: a worker's wait ends   *)
(* only after the stores of the function and the parameter that precede    *)
(* the notification in thread_pool_execute.                                *)
NoNullCall == Undisturbed => NoneCrashed

(* _lock keeps the clients apart: from the moment one has found a worker   *)
(* until it has notified it, no other holds a worker.                      *)
Claiming(c) == cpc[c] \in {"setfn", "setparam", "setrun", "signal"}
OneClientClaims ==
  \A c, d \in Client : Claiming(c) /\ Claiming(d) => c = d

(* The constructor's barrier: no worker gets to its own slot before all of *)
(* them are counted, and the pool is not handed out before that either.    *)
ConstructBarrier ==
  \/ ~Undisturbed
  \/ running_threads = N
  \/ /\ ctor \notin {"release", "done"}
     /\ \A w \in Worker : wpc[w] \in {"unborn", "register", "waitpool", "pooled"}

(* A task handed to a sleeping worker runs at most once, with the          *)
(* parameter it was submitted with, and lends that parameter to no other   *)
(* task's function.                                                        *)
CleanTaskRunsOnce == Undisturbed =>
  \A k \in clean :
    /\ calls[<<k, k>>] <= 1
    /\ \A f \in Task, p \in Pointer : ~(f = k <=> p = k) => calls[<<f, p>>] = 0

(* When thread_pool_wait_idle returns, the caller's tasks that went to     *)
(* sleeping workers have finished.                                         *)
WaitIdleCoversClean == Undisturbed =>
  \A c \in Client, k \in clean :
    cpc[c] = "waited" /\ submitter[k] = c => k \in finished

(* A task handed to a sleeping worker finishes: its notification is not    *)
(* lost, nor is its slot given away.                                       *)
CleanTaskFinishes == \A k \in Task : k \in clean ~> k \in finished

(* Once all threads are started the constructor returns a pool. *)
ConstructReturns == ctor = "await" ~> ctor = "done"

-----------------------------------------------------------------------------
(* Why they hold: an inductive invariant.  BaseInv does not mind a wait    *)
(* that returns on its own; the rest needs every one so far to have ended  *)
(* by a notification.                                                      *)

(* Workers are started in order and counted once; the constructor goes on  *)
(* when all are.                                                           *)
Counted == {w \in Worker : wpc[w] \notin {"unborn", "register"}}

CtorInv ==
  /\ running_threads = Cardinality(Counted)
  /\ ctor \in {"alloc", "spawn"} => spawned < N
  /\ \A w \in Worker : w > spawned => wpc[w] = "unborn"
  /\ ctor \in {"release", "done"} => running_threads = N

(* _lock is held by the client between its lock and its unlock. *)
LockInv ==
  \A c \in Client :
    owner[Lock] = c <=> Claiming(c) \/ cpc[c] \in {"scan", "unlock"}

(* Threads sleep where their program counter says. *)
WaitInv ==
  \A w \in Worker :
    /\ w \in waiting[PoolMonitor] => wpc[w] = "pooled"
    /\ \A v \in waiting[w] : v = w /\ wpc[v] = "parked"

(* A job in hand is one the client submitted; it gets its worker once. *)
JobInv ==
  /\ \A c \in Client :
       /\ Claiming(c) \/ cpc[c] \in {"lock", "scan"} =>
            job[c] \in Task /\ submitter[job[c]] = c
       /\ cpc[c] \in {"lock", "scan"} => home[job[c]] = 0
       /\ Claiming(c) => idx[c] \in Worker /\ home[job[c]] = idx[c]
  /\ \A k \in Task : submitter[k] = Nobody => home[k] = 0

(* A worker runs a function, not a null pointer. *)
RunInv == \A w \in Worker : wpc[w] = "run" => cur[w] # Null

BaseInv == /\ TypeOK /\ CtorInv /\ LockInv /\ WaitInv /\ JobInv /\ RunInv

(* No worker is let out of the pool's monitor before all are counted. *)
BarrierInv ==
  \A w \in Worker :
    \/ running_threads = N
    \/ wpc[w] \in {"unborn", "register", "waitpool"}
    \/ wpc[w] = "pooled" /\ w \in waiting[PoolMonitor]

(* A task shows up only in the slot of the worker it was given to. *)
SlotInv ==
  /\ \A w \in Worker, k \in Task :
       k \in {pfn[w], param[w], cur[w]} => home[k] = w
  /\ \A k \in Task : home[k] = 0 =>
       /\ k \notin clean \cup finished
       /\ \A f \in Task, p \in Pointer : k \in {f, p} => calls[<<f, p>>] = 0

(* What the claiming client has stored stays stored until it notifies. *)
StoreInv ==
  \A c \in Client :
    /\ cpc[c] \in {"setparam", "setrun", "signal"} => pfn[idx[c]] = job[c]
    /\ cpc[c] \in {"setrun", "signal"} => param[idx[c]] = job[c]

Notified(w) == wpc[w] = "parked" /\ w \notin waiting[w]

(* A worker that was notified finds a function. *)
ExecInv ==
  \A w \in Worker :
    /\ Notified(w) \/ wpc[w] = "load" => pfn[w] # Null
    /\ wpc[w] = "loadparam" => cur[w] # Null

(* A clean task is in flight, or delivered, or done, in that order. *)
InFlight(k) ==
  /\ Claiming(submitter[k])
  /\ job[submitter[k]] = k
  /\ home[k] \in waiting[home[k]]
  /\ cpc[submitter[k]] = "signal" => running[home[k]]
  /\ calls[<<k, k>>] = 0

Delivered(k) ==
  /\ running[home[k]] /\ pfn[home[k]] = k /\ param[home[k]] = k
  /\ \A c \in Client : Claiming(c) => idx[c] # home[k]
  /\ \/ /\ Notified(home[k]) \/ wpc[home[k]] = "load"
        /\ calls[<<k, k>>] = 0
     \/ /\ wpc[home[k]] = "loadparam" /\ cur[home[k]] = k
        /\ calls[<<k, k>>] = 0
     \/ /\ wpc[home[k]] = "run" /\ cur[home[k]] = k
        /\ calls[<<k, k>>] = 1

Done(k) ==
  /\ pfn[home[k]] = k \/ param[home[k]] = k =>
       /\ ~Notified(home[k])
       /\ wpc[home[k]] \notin {"load", "loadparam", "run"}
  /\ wpc[home[k]] \in {"loadparam", "run"} => cur[home[k]] # k
  /\ \A c \in Client : Claiming(c) => job[c] # k
  /\ calls[<<k, k>>] = 1

CleanAt(k) ==
  /\ k \in finished => Done(k)
  /\ k \notin finished => InFlight(k) \/ Delivered(k)

CleanInv == \A k \in clean : CleanAt(k)

(* A clean task's function and parameter are called with no other's. *)
OwnInv ==
  \A k \in clean, f \in Task, p \in Pointer :
    ~(f = k <=> p = k) => calls[<<f, p>>] = 0

(* The sweep of thread_pool_wait_idle passes no running worker unnoticed. *)
PollInv ==
  \A c \in Client, k \in clean :
    submitter[k] = c =>
      /\ cpc[c] = "poll" /\ ~busy[c] /\ home[k] < idx[c] => k \in finished
      /\ cpc[c] = "waited" => k \in finished

Steady == /\ BaseInv /\ BarrierInv /\ SlotInv /\ StoreInv /\ ExecInv
          /\ NoneCrashed /\ CleanInv /\ OwnInv /\ PollInv

IInv == IF Undisturbed THEN Steady ELSE BaseInv

-----------------------------------------------------------------------------
(* What the documentation says and the program does not do. *)

(* thread_pool.h on thread_pool_wait_idle: "Block until a thread pool      *)
(* finishes it's active jobs".  Every task the caller has handed over is   *)
(* finished when the call returns.                                         *)
WaitIdleCoversAll ==
  \A c \in Client, k \in Task :
    cpc[c] = "waited" /\ submitter[k] = c => k \in finished

(* thread_pool_wait_idle comes back: the pool's threads all get idle when  *)
(* the tasks have returned and nobody submits more.                        *)
WaitIdleReturns == \A c \in Client : cpc[c] = "poll" ~> cpc[c] = "waited"

=============================================================================
