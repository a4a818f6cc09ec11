------------------------------ MODULE Schedule ------------------------------
(***************************************************************************)
(* src/performance/parallel/schedule.c: a document names threads and, for  *)
(* each, the tasks it runs one after another; a task may wait for a task   *)
(* of another thread.  schedule_load reads it, schedule_start runs one     *)
(* thread for each list, schedule_wait_idle polls until all have left.     *)
(*                                                                         *)
(* A task is a thread and an index.  Its `done' flag is stored without     *)
(* _lock; every other access below is made with _lock held, but for the    *)
(* poll.  The `running', `ready' and `repeat' fields are never read.       *)
(***************************************************************************)
EXTENDS Integers, FiniteSets, Sequences

CONSTANTS
  Thread,       \* the names a document may give its threads
  Main,         \* the thread that loads, starts and waits
  Schedules,    \* the documents: thread name -> list of [name, wait]
  Registered,   \* the names parallel_register_task has seen
  Nobody,       \* the owner of a free mutex
  NoWait,       \* a task without a "wait" property
  MaxStarts,    \* bound: calls of schedule_start
  MaxSpurious   \* bound: how many waits return without a notification

ASSUME ScheduleAssumption ==
  \A d \in Schedules :
    /\ DOMAIN d \subseteq Thread
    /\ IsFiniteSet(DOMAIN d)
    /\ DOMAIN d # {}
    /\ \A t \in DOMAIN d : DOMAIN d[t] = 1..Len(d[t]) /\ Len(d[t]) \in Nat
ASSUME NameAssumption == Main \notin Thread /\ Nobody \notin Thread \cup {Main}
ASSUME BoundAssumption == MaxStarts \in Nat /\ MaxSpurious \in Nat

VARIABLES
  doc,              \* the document; never changes
  owner,            \* of _lock
  waiting,          \* the threads asleep on each condition variable
  mpc, spawned,     \* main thread: where it is, threads it has started
  dependency,       \* tasks another task waits for, as the loader marks them
  running_threads, go, done,
  pc, pos,          \* schedule thread: where it is, index of its task
  begun, ended,     \* history: of the tasks since the last schedule_start
  starts, spurious  \* calls and spurious wake-ups so far

mainVars == <<mpc, spawned, starts>>
workVars == <<pc, pos>>
taskVars == <<done, begun, ended>>
vars == <<doc, owner, waiting, mainVars, dependency, running_threads, go,
          taskVars, workVars, spurious>>

INSTANCE Sync

Lock == "_lock"

-----------------------------------------------------------------------------
(* The document. *)

Threads == DOMAIN doc
Tasks == UNION {{t} \X (DOMAIN doc[t]) : t \in Threads}
NameOf(x) == doc[x[1]][x[2]].name
WaitOf(x) == doc[x[1]][x[2]].wait
Dependent(x) == WaitOf(x) # NoWait

(* The tasks that bear the name x waits for, in the thread it names. *)
Named(x) ==
  {y \in Tasks : Dependent(x) /\ y[1] = WaitOf(x)[1] /\ NameOf(y) = WaitOf(x)[2]}

(* The one it waits on: the first.  None, if no task has the name. *)
Target(x) == {y \in Named(x) : \A z \in Named(x) : y[2] <= z[2]}

(* The condition variables: one for each task, two for the schedule. *)
Ready == <<Main, 1>>
Go == <<Main, 2>>

-----------------------------------------------------------------------------
(* schedule_load, schedule_load_as_json_value *)

MainStep(from, to) == mpc = from /\ mpc' = to

Understood == \A x \in Tasks : NameOf(x) \in Registered
KnownWaits == \A x \in Tasks : Dependent(x) => WaitOf(x)[1] \in Threads

(* A task that is not registered, or no memory: the load is refused. *)
Refuse ==
  /\ MainStep("unloaded", "refused")
  /\ UNCHANGED <<doc, owner, waiting, spawned, starts, dependency,
                 running_threads, go, taskVars, workVars, spurious>>

Load ==
  /\ MainStep("unloaded", "loaded")
  /\ Understood /\ KnownWaits
  /\ dependency' = UNION {Named(x) : x \in Tasks}
  /\ UNCHANGED <<doc, owner, waiting, spawned, starts, running_threads, go,
                 taskVars, workVars, spurious>>

(* dict_get leaves p_dependency_thread null when the document has no such  *)
(* thread; its task_quantity is read all the same.                         *)
LoadUnknownThread ==
  /\ MainStep("unloaded", "crashed")
  /\ Understood /\ ~KnownWaits
  /\ UNCHANGED <<doc, owner, waiting, spawned, starts, dependency,
                 running_threads, go, taskVars, workVars, spurious>>

-----------------------------------------------------------------------------
(* schedule_start *)

(* A first call after the load, or another one after schedule_wait_idle. *)
Start ==
  /\ starts < MaxStarts
  /\ mpc \in {"loaded", "idle"}
  /\ mpc' = "spawn"
  /\ starts' = starts + 1
  /\ spawned' = {}
  /\ begun' = {} /\ ended' = {}
  /\ UNCHANGED <<doc, owner, waiting, dependency, running_threads, go, done,
                 workVars, spurious>>

(* parallel_thread_start, once for each thread, in the order of the dict. *)
Spawn(t) ==
  /\ mpc = "spawn"
  /\ t \in Threads \ spawned
  /\ spawned' = spawned \cup {t}
  /\ pc' = [pc EXCEPT ![t] = "arrive"]
  /\ pos' = [pos EXCEPT ![t] = 1]
  /\ UNCHANGED <<doc, owner, waiting, mpc, starts, dependency,
                 running_threads, go, taskVars, spurious>>

(* The started threads are left where they are. *)
SpawnFails ==
  /\ spawned # Threads
  /\ MainStep("spawn", "failed")
  /\ UNCHANGED <<doc, owner, waiting, spawned, starts, dependency,
                 running_threads, go, taskVars, workVars, spurious>>

LockStart ==
  /\ spawned = Threads
  /\ MainStep("spawn", "count")
  /\ MutexLock(Main, Lock)
  /\ UNCHANGED <<doc, waiting, spawned, starts, dependency, running_threads,
                 go, taskVars, workVars, spurious>>

AwaitThreads ==
  /\ running_threads # Cardinality(Threads)
  /\ MainStep("count", "asleep")
  /\ CondSleep(Main, Ready, Lock)
  /\ UNCHANGED <<doc, spawned, starts, dependency, running_threads, go,
                 taskVars, workVars, spurious>>

CountAgain ==
  /\ MainStep("asleep", "count")
  /\ CondWake(Main, Ready, Lock)
  /\ UNCHANGED <<doc, waiting, spawned, starts, dependency, running_threads,
                 go, taskVars, workVars, spurious>>

(* Mutant: let the threads go without counting them. *)
LetGo_Uncounted ==
  /\ MainStep("count", "started")
  /\ go' = TRUE
  /\ CondBroadcast(Go)
  /\ MutexUnlock(Main, Lock)
  /\ UNCHANGED <<doc, spawned, starts, dependency, running_threads, taskVars,
                 workVars, spurious>>

(* go = true, broadcast, unlock, return 1 *)
LetGo ==
  /\ running_threads = Cardinality(Threads)
  /\ MainStep("count", "started")
  /\ go' = TRUE
  /\ CondBroadcast(Go)
  /\ MutexUnlock(Main, Lock)
  /\ UNCHANGED <<doc, spawned, starts, dependency, running_threads, taskVars,
                 workVars, spurious>>

-----------------------------------------------------------------------------
(* schedule_wait_idle: the poll that ends it. *)

WaitIdle ==
  /\ running_threads = 0
  /\ MainStep("started", "idle")
  /\ UNCHANGED <<doc, owner, waiting, spawned, starts, dependency,
                 running_threads, go, taskVars, workVars, spurious>>

-----------------------------------------------------------------------------
(* parallel_schedule_work *)

WorkStep(t, from, to) == pc[t] = from /\ pc' = [pc EXCEPT ![t] = to]
Current(t) == <<t, pos[t]>>

(* lock, running_threads++, signal _ready *)
Arrive(t) ==
  /\ WorkStep(t, "arrive", "ready")
  /\ MutexLock(t, Lock)
  /\ running_threads' = running_threads + 1
  /\ CondSignal(Ready)
  /\ UNCHANGED <<doc, mainVars, dependency, go, taskVars, pos, spurious>>

AwaitGo(t) ==
  /\ ~go
  /\ WorkStep(t, "ready", "parked")
  /\ CondSleep(t, Go, Lock)
  /\ UNCHANGED <<doc, mainVars, dependency, running_threads, go, taskVars,
                 pos, spurious>>

WakeToGo(t) ==
  /\ WorkStep(t, "parked", "ready")
  /\ CondWake(t, Go, Lock)
  /\ UNCHANGED <<doc, waiting, mainVars, dependency, running_threads, go,
                 taskVars, pos, spurious>>

GoOn(t) ==
  /\ go
  /\ WorkStep(t, "ready", "next")
  /\ MutexUnlock(t, Lock)
  /\ UNCHANGED <<doc, waiting, mainVars, dependency, running_threads, go,
                 taskVars, pos, spurious>>

(* wait_logic: lock before the monitor of the task waited for. *)
LockMonitor(t) ==
  /\ Current(t) \in Tasks
  /\ Target(Current(t)) # {}
  /\ WorkStep(t, "next", "check")
  /\ MutexLock(t, Lock)
  /\ UNCHANGED <<doc, waiting, mainVars, dependency, running_threads, go,
                 taskVars, pos, spurious>>

(* Mutant: go on with the lock in hand. *)
FoundDone_NoUnlock(t) ==
  /\ WorkStep(t, "check", "call")
  /\ Target(Current(t)) \subseteq done
  /\ UNCHANGED <<doc, owner, waiting, mainVars, dependency, running_threads,
                 go, taskVars, pos, spurious>>

FoundDone(t) ==
  /\ WorkStep(t, "check", "call")
  /\ Target(Current(t)) \subseteq done
  /\ MutexUnlock(t, Lock)
  /\ UNCHANGED <<doc, waiting, mainVars, dependency, running_threads, go,
                 taskVars, pos, spurious>>

FoundNotDone(t) ==
  /\ WorkStep(t, "check", "sleep")
  /\ ~(Target(Current(t)) \subseteq done)
  /\ UNCHANGED <<doc, owner, waiting, mainVars, dependency, running_threads,
                 go, taskVars, pos, spurious>>

SleepOnTask(t) ==
  /\ WorkStep(t, "sleep", "asleep")
  /\ \E y \in Target(Current(t)) : CondSleep(t, y, Lock)
  /\ UNCHANGED <<doc, mainVars, dependency, running_threads, go, taskVars,
                 pos, spurious>>

(* Mutant: if for while. *)
WakeOnTask_Once(t) ==
  /\ WorkStep(t, "asleep", "call")
  /\ \A y \in Target(Current(t)) : t \notin waiting[y]
  /\ owner[Lock] = Nobody
  /\ UNCHANGED <<doc, owner, waiting, mainVars, dependency, running_threads,
                 go, taskVars, pos, spurious>>

WakeOnTask(t) ==
  /\ WorkStep(t, "asleep", "check")
  /\ \E y \in Target(Current(t)) : CondWake(t, y, Lock)
  /\ UNCHANGED <<doc, waiting, mainVars, dependency, running_threads, go,
                 taskVars, pos, spurious>>

(* The task is called: at once if it waits for nothing that exists. *)
CallTask(t) ==
  /\ \/ WorkStep(t, "call", "run")
     \/ /\ Current(t) \in Tasks
        /\ Target(Current(t)) = {}
        /\ WorkStep(t, "next", "run")
  /\ begun' = begun \cup {Current(t)}
  /\ UNCHANGED <<doc, owner, waiting, mainVars, dependency, running_threads,
                 go, done, ended, pos, spurious>>

(* Mutant: goto done once more. *)
FinishTask_Again(t) ==
  /\ \/ WorkStep(t, "run", "publish") /\ ended' = ended \cup {Current(t)}
     \/ WorkStep(t, "run", "call") /\ UNCHANGED ended
  /\ done' = done \cup {Current(t)}
  /\ begun' = IF pc'[t] = "call" THEN begun \ {Current(t)} ELSE begun
  /\ UNCHANGED <<doc, owner, waiting, mainVars, dependency, running_threads,
                 go, pos, spurious>>

(* The function returns; done = true, without _lock. *)
FinishTask(t) ==
  /\ WorkStep(t, "run", "publish")
  /\ done' = done \cup {Current(t)}
  /\ ended' = ended \cup {Current(t)}
  /\ UNCHANGED <<doc, owner, waiting, mainVars, dependency, running_threads,
                 go, begun, pos, spurious>>

(* Mutant: broadcast without the lock. *)
Publish_Unlocked(t) ==
  /\ WorkStep(t, "publish", "next")
  /\ pos' = [pos EXCEPT ![t] = @ + 1]
  /\ IF Current(t) \in dependency
     THEN CondBroadcast(Current(t)) ELSE UNCHANGED waiting
  /\ UNCHANGED <<doc, owner, mainVars, dependency, running_threads, go,
                 taskVars, spurious>>

(* lock, broadcast if the task is a dependency, unlock *)
Publish(t) ==
  /\ WorkStep(t, "publish", "next")
  /\ owner[Lock] = Nobody
  /\ pos' = [pos EXCEPT ![t] = @ + 1]
  /\ IF Current(t) \in dependency
     THEN CondBroadcast(Current(t)) ELSE UNCHANGED waiting
  /\ UNCHANGED <<doc, owner, mainVars, dependency, running_threads, go,
                 taskVars, spurious>>

(* Mutant: leave before the last task. *)
Leave_Early(t) ==
  /\ pos[t] >= Len(doc[t])
  /\ owner[Lock] = Nobody
  /\ WorkStep(t, "next", "gone")
  /\ running_threads' = running_threads - 1
  /\ UNCHANGED <<doc, owner, waiting, mainVars, dependency, go, taskVars, pos,
                 spurious>>

(* Mutant: a thread that has left leaves again. *)
Leave_Twice(t) ==
  /\ pos[t] > Len(doc[t])
  /\ owner[Lock] = Nobody
  /\ pc[t] \in {"next", "gone"}
  /\ pc' = [pc EXCEPT ![t] = "gone"]
  /\ running_threads' = running_threads - 1
  /\ UNCHANGED <<doc, owner, waiting, mainVars, dependency, go, taskVars, pos,
                 spurious>>

(* lock, running_threads--, unlock *)
Leave(t) ==
  /\ pos[t] > Len(doc[t])
  /\ owner[Lock] = Nobody
  /\ WorkStep(t, "next", "gone")
  /\ running_threads' = running_threads - 1
  /\ UNCHANGED <<doc, owner, waiting, mainVars, dependency, go, taskVars, pos,
                 spurious>>

Work(t) ==
  \/ Arrive(t) \/ AwaitGo(t) \/ WakeToGo(t) \/ GoOn(t)
  \/ LockMonitor(t) \/ FoundDone(t) \/ FoundNotDone(t)
  \/ SleepOnTask(t) \/ WakeOnTask(t)
  \/ CallTask(t) \/ FinishTask(t) \/ Publish(t) \/ Leave(t)

(* A wait may return on its own. *)
Spurious(t) ==
  /\ spurious < MaxSpurious
  /\ spurious' = spurious + 1
  /\ \E c \in {Ready, Go} \cup Tasks : SpuriousWake(t, c)
  /\ UNCHANGED <<doc, owner, mainVars, dependency, running_threads, go,
                 taskVars, workVars>>

-----------------------------------------------------------------------------
Init ==
  /\ doc \in Schedules
  /\ owner = [m \in {Lock} |-> Nobody]
  /\ waiting = [c \in {Ready, Go} \cup Tasks |-> {}]
  /\ mpc = "unloaded" /\ spawned = {} /\ starts = 0
  /\ dependency = {}
  /\ running_threads = 0 /\ go = FALSE /\ done = {}
  /\ pc = [t \in Threads |-> "unborn"]
  /\ pos = [t \in Threads |-> 1]
  /\ begun = {} /\ ended = {}
  /\ spurious = 0

(* The calls the program makes, and the steps of schedule_start. *)
Call == Refuse \/ Load \/ LoadUnknownThread \/ Start

Starting ==
  \/ SpawnFails \/ LockStart \/ AwaitThreads \/ CountAgain \/ LetGo
  \/ \E t \in Threads : Spawn(t)

Next ==
  \/ Call \/ Starting \/ WaitIdle
  \/ \E t \in Threads : Work(t)
  \/ \E t \in Threads \cup {Main} : Spurious(t)

Spec == Init /\ [][Next]_vars

(* Threads that can take a step take it: the scheduler runs every thread,  *)
(* and the tasks return.  No thread takes _lock for ever, so a thread that  *)
(* waits for it needs no more.  The program is made to call nothing but    *)
(* the wait for the schedule it started.                                   *)
FairSpec ==
  /\ Spec
  /\ WF_vars(Starting) /\ WF_vars(WaitIdle)
  /\ \A t \in Thread : WF_vars(t \in Threads /\ Work(t))

-----------------------------------------------------------------------------
(* What may be relied on. *)

MainState == {"unloaded", "refused", "crashed", "loaded", "spawn", "failed",
              "count", "asleep", "started", "idle"}
WorkState == {"unborn", "arrive", "ready", "parked", "next", "check", "sleep",
              "asleep", "call", "run", "publish", "gone"}

TypeOK ==
  /\ doc \in Schedules
  /\ owner \in [{Lock} -> Threads \cup {Main, Nobody}]
  /\ waiting \in [{Ready, Go} \cup Tasks -> SUBSET (Threads \cup {Main})]
  /\ mpc \in MainState /\ spawned \in SUBSET Threads
  /\ starts \in 0..MaxStarts /\ spurious \in 0..MaxSpurious
  /\ dependency \in SUBSET Tasks
  /\ running_threads \in 0..Cardinality(Threads)
  /\ go \in BOOLEAN
  /\ done \in SUBSET Tasks /\ begun \in SUBSET Tasks
  /\ ended \in SUBSET Tasks
  /\ pc \in [Threads -> WorkState]
  /\ pos \in [Threads -> Nat \ {0}]

(* The start barrier: a task runs, and schedule_start returns, only when   *)
(* every thread of the schedule has been counted.  After a start that      *)
(* failed half-way no task runs at all.                                    *)
StartBarrier ==
  begun # {} \/ mpc \in {"started", "idle"} =>
    /\ mpc \in {"started", "idle"}
    /\ \A t \in Threads : pc[t] \notin {"unborn", "arrive"}

(* The tasks that must end before x begins: the one before it in its own   *)
(* list, and the one it waits for.                                         *)
Before(x) == Target(x) \cup {y \in Tasks : y[1] = x[1] /\ y[2] = x[2] - 1}

(* The order the document asks for: a task is called only after the task   *)
(* it waits for, in whatever thread, has returned.                         *)
InOrder == \A x \in begun : Before(x) \subseteq ended

(* schedule_wait_idle, which looks at nothing but the number of threads,   *)
(* returns only when all tasks of the schedule have returned.              *)
IdleMeansEnded == mpc = "idle" => ended = Tasks

Abs == INSTANCE AbstractSchedule
         WITH tasks <- Tasks, before <- [x \in Tasks |-> Before(x)],
              told <- (mpc = "idle")

(* A schedule that is started once keeps the promise of AbstractSchedule:  *)
(* each task once, in order, and an honest wait.                           *)
Implements == Abs!Spec

(* A schedule whose waits form no cycle ends, and schedule_wait_idle       *)
(* returns, unless a thread cannot be started.                             *)
ScheduleEnds == mpc = "spawn" ~> mpc \in {"idle", "failed"}

-----------------------------------------------------------------------------
(* Why they hold: an inductive invariant of a schedule started once. *)

(* What the main thread has done so far. *)
MainInv ==
  /\ mpc \in {"unloaded", "refused", "crashed", "loaded"} =>
       starts = 0 /\ spawned = {}
  /\ mpc \in {"spawn", "failed", "count", "asleep", "started", "idle"} =>
       starts = 1
  /\ mpc \in {"count", "asleep", "started", "idle"} => spawned = Threads
  /\ \A t \in Threads : t \in spawned <=> pc[t] # "unborn"

(* _lock is held between a lock and an unlock, by one thread. *)
LockInv ==
  /\ owner[Lock] = Main <=> mpc = "count"
  /\ \A t \in Threads : owner[Lock] = t <=> pc[t] \in {"ready", "check", "sleep"}

(* running_threads counts the threads between their arrival and their      *)
(* departure.                                                              *)
Inside == {t \in Threads : pc[t] \notin {"unborn", "arrive", "gone"}}
CountInv == running_threads = Cardinality(Inside)

(* No thread is past the barrier, or gone, before go is set. *)
GoInv ==
  /\ go <=> mpc \in {"started", "idle"}
  /\ go => \A t \in Threads : pc[t] \notin {"unborn", "arrive"}
  /\ ~go => \A t \in Threads : pc[t] \in {"unborn", "arrive", "ready", "parked"}
  /\ mpc = "idle" => \A t \in Threads : pc[t] = "gone"

(* How far a thread has come in its list. *)
PosInv ==
  \A t \in Threads :
    /\ pos[t] \in 1..Len(doc[t]) + 1
    /\ pc[t] \in {"unborn", "arrive", "ready", "parked"} => pos[t] = 1
    /\ pc[t] \in {"check", "sleep", "asleep", "call", "run", "publish"} =>
         pos[t] <= Len(doc[t])
    /\ pc[t] = "gone" => pos[t] = Len(doc[t]) + 1

(* The history agrees with it. *)
HistoryInv ==
  /\ done = ended
  /\ \A x \in Tasks :
       /\ x \in ended <=> \/ x[2] < pos[x[1]]
                          \/ x[2] = pos[x[1]] /\ pc[x[1]] = "publish"
       /\ x \in begun <=> \/ x[2] < pos[x[1]]
                          \/ x[2] = pos[x[1]] /\ pc[x[1]] \in {"run", "publish"}

(* A thread about to call a task has seen the one it waits for done. *)
CalledInv ==
  \A t \in Threads : pc[t] = "call" => Target(Current(t)) \subseteq ended

IInv == /\ TypeOK /\ MainInv /\ LockInv /\ CountInv /\ GoInv
        /\ PosInv /\ HistoryInv /\ CalledInv /\ InOrder

=============================================================================
