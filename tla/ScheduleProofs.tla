--------------------------- MODULE ScheduleProofs ---------------------------
(***************************************************************************)
(* What Schedule guarantees for every document, when the schedule is       *)
(* started once: the barrier, the order of the tasks, and the wait for all *)
(* of them, whatever wakes the waits.  IInv is the inductive invariant;    *)
(* that the schedule implements AbstractSchedule follows from it.          *)
(***************************************************************************)
EXTENDS Schedule, FiniteSetTheorems, TLAPS

USE DEF Lock

-----------------------------------------------------------------------------
(* The document and what is computed from it never change. *)

LEMMA Static ==
  ASSUME doc' = doc
  PROVE  /\ Threads' = Threads /\ Tasks' = Tasks
         /\ \A x : Target(x)' = Target(x)
         /\ \A x : Before(x)' = Before(x)
BY DEF Threads, Tasks, Target, Named, Dependent, WaitOf, NameOf, Before

LEMMA DocStays == [Next]_vars => doc' = doc
BY DEF Next, Call, Starting, WaitIdle, Work, Refuse, Load, LoadUnknownThread,
   Start, SpawnFails, LockStart, AwaitThreads, CountAgain, LetGo, Spawn,
   Arrive, AwaitGo, WakeToGo, GoOn, LockMonitor, FoundDone, FoundNotDone,
   SleepOnTask, WakeOnTask, CallTask, FinishTask, Publish, Leave, Spurious,
   vars

LEMMA DocFacts ==
  ASSUME doc \in Schedules
  PROVE  /\ Main \notin Threads /\ Nobody \notin Threads /\ Main # Nobody
         /\ IsFiniteSet(Threads) /\ Threads # {}
         /\ \A t \in Threads : Len(doc[t]) \in Nat
BY ScheduleAssumption, NameAssumption DEF Threads

(* A task is a thread and an index into its list. *)
LEMMA TaskForm ==
  ASSUME doc \in Schedules
  PROVE  /\ \A x \in Tasks : /\ x = <<x[1], x[2]>>
                             /\ x[1] \in Threads
                             /\ x[2] \in 1..Len(doc[x[1]])
         /\ \A t \in Threads : \A i \in 1..Len(doc[t]) : <<t, i>> \in Tasks
BY ScheduleAssumption DEF Tasks, Threads

(* The tasks waited for are tasks, none of them a condition of its own. *)
LEMMA TargetTasks == \A x : Target(x) \subseteq Tasks
BY DEF Target, Named

-----------------------------------------------------------------------------

(* Counting: when the number of threads inside is that of all threads, all *)
(* are inside; when it is zero, none is.                                   *)
LEMMA AllInside ==
  ASSUME doc \in Schedules, Cardinality(Inside) = Cardinality(Threads)
  PROVE  Inside = Threads
<1>1. Inside \subseteq Threads /\ IsFiniteSet(Threads)
  BY DocFacts DEF Inside
<1>. QED
  BY <1>1, FS_Subset

LEMMA NoneInside ==
  ASSUME doc \in Schedules, Cardinality(Inside) = 0
  PROVE  Inside = {}
<1>1. IsFiniteSet(Inside)
  BY DocFacts, FS_Subset DEF Inside
<1>. QED
  BY <1>1, FS_EmptySet

(* A notification of one condition wakes none of another. *)
LEMMA SignalWakes ==
  ASSUME NEW S, NEW T, NEW c \in S, CondSignal(c),
         waiting \in [S -> SUBSET T]
  PROVE  waiting' \in [S -> SUBSET T]
<1>1. CASE waiting[c] = {}
  BY <1>1 DEF CondSignal
<1>2. CASE waiting[c] # {}
  <2>1. PICK t \in waiting[c] : waiting' = [waiting EXCEPT ![c] = @ \ {t}]
    BY <1>2 DEF CondSignal
  <2>. QED
    BY <2>1
<1>. QED
  BY <1>1, <1>2

(* A thread that arrives, or leaves, is counted once. *)
LEMMA ArriveCounts ==
  ASSUME IInv, NEW t \in Threads, Arrive(t)
  PROVE  /\ running_threads' = Cardinality(Inside')
         /\ running_threads' \in 0..Cardinality(Threads)
<1>1. /\ IsFiniteSet(Threads) /\ IsFiniteSet(Inside) /\ t \notin Inside
      /\ doc' = doc /\ running_threads = Cardinality(Inside)
      /\ running_threads \in Nat
  BY DocFacts, FS_Subset, FS_CardinalityType
     DEF Inside, Arrive, WorkStep, IInv, TypeOK, CountInv
<1>2. Inside' = Inside \cup {t} /\ Inside' \subseteq Threads
  BY <1>1, Static DEF Inside, Arrive, WorkStep, IInv, TypeOK
<1>3. Cardinality(Inside') = Cardinality(Inside) + 1
  BY <1>1, <1>2, FS_AddElement
<1>4. Cardinality(Inside') <= Cardinality(Threads)
      /\ Cardinality(Threads) \in Nat
  BY <1>1, <1>2, FS_Subset, FS_CardinalityType
<1>. QED
  BY <1>1, <1>3, <1>4 DEF Arrive

LEMMA LeaveCounts ==
  ASSUME IInv, NEW t \in Threads, Leave(t)
  PROVE  /\ running_threads' = Cardinality(Inside')
         /\ running_threads' \in 0..Cardinality(Threads)
<1>1. /\ IsFiniteSet(Threads) /\ IsFiniteSet(Inside) /\ t \in Inside
      /\ doc' = doc /\ running_threads = Cardinality(Inside)
      /\ running_threads \in 0..Cardinality(Threads)
  BY DocFacts, FS_Subset
     DEF Inside, Leave, WorkStep, IInv, TypeOK, CountInv
<1>2. Inside' = Inside \ {t}
  BY <1>1, Static DEF Inside, Leave, WorkStep, IInv, TypeOK
<1>3. Cardinality(Inside') = Cardinality(Inside) - 1
  BY <1>1, <1>2, FS_RemoveElement
<1>4. Cardinality(Inside') \in Nat /\ Cardinality(Threads) \in Nat
  BY <1>1, <1>2, FS_Subset, FS_CardinalityType
<1>. QED
  BY <1>1, <1>3, <1>4 DEF Leave

(* When a task is called, the tasks before it have ended. *)
LEMMA CallOrder ==
  ASSUME IInv, NEW t \in Threads, CallTask(t)
  PROVE  /\ Current(t) \in Tasks
         /\ Before(Current(t)) \subseteq ended
         /\ Current(t) \notin begun
<1>1. doc \in Schedules /\ pos[t] \in 1..Len(doc[t]) + 1
  BY DEF IInv, TypeOK, PosInv
<1>2. Current(t) \in Tasks
  BY <1>1, TaskForm DEF CallTask, WorkStep, Current, IInv, PosInv
<1>3. Target(Current(t)) \subseteq ended
  BY DEF CallTask, WorkStep, IInv, CalledInv
<1>4. ASSUME NEW y \in Tasks, y[1] = t, y[2] = pos[t] - 1
      PROVE  y \in ended
  BY <1>1, <1>4, TaskForm DEF IInv, HistoryInv
<1>5. Current(t) \notin begun
  BY <1>1, <1>2 DEF CallTask, WorkStep, Current, IInv, HistoryInv
<1>. QED
  BY <1>2, <1>3, <1>4, <1>5 DEF Before, Current

-----------------------------------------------------------------------------
(* The main thread's progress. *)
LEMMA MainInvStep ==
  MaxStarts = 1 /\ IInv /\ [Next]_vars => MainInv'
<1> SUFFICES ASSUME MaxStarts = 1 /\ IInv, [Next]_vars PROVE MainInv'
  OBVIOUS
<1> USE DEF mainVars, workVars, taskVars
<1>0. doc' = doc /\ doc \in Schedules
  BY DocStays DEF IInv, TypeOK
<1>a. Threads' = Threads /\ Tasks' = Tasks
  BY <1>0, Static
<1>1. ASSUME Call \/ WaitIdle \/ SpawnFails \/ LockStart \/ AwaitThreads \/ CountAgain \/ LetGo
      PROVE  MainInv'
  <2>1. CASE Refuse
    BY <2>1, <1>0, <1>a DEF Refuse, MainStep, IInv, TypeOK, MainInv
  <2>2. CASE Load
    BY <2>2, <1>0, <1>a DEF Load, MainStep, IInv, TypeOK, MainInv
  <2>3. CASE LoadUnknownThread
    BY <2>3, <1>0, <1>a DEF LoadUnknownThread, MainStep, IInv, TypeOK, MainInv
  <2>4. CASE Start
    BY <2>4, <1>0, <1>a DEF Start, IInv, TypeOK, MainInv
  <2>5. CASE SpawnFails
    BY <2>5, <1>0, <1>a DEF SpawnFails, MainStep, IInv, TypeOK, MainInv
  <2>6. CASE LockStart
    BY <2>6, <1>0, <1>a DEF LockStart, MainStep, MutexLock, IInv, TypeOK,
       MainInv
  <2>7. CASE AwaitThreads
    BY <2>7, <1>0, <1>a DEF AwaitThreads, MainStep, CondSleep, MutexUnlock,
       IInv, TypeOK, MainInv
  <2>8. CASE CountAgain
    BY <2>8, <1>0, <1>a DEF CountAgain, MainStep, CondWake, MutexLock, IInv,
       TypeOK, MainInv
  <2>9. CASE LetGo
    BY <2>9, <1>0, <1>a DEF LetGo, MainStep, CondBroadcast, MutexUnlock, IInv,
       TypeOK, MainInv
  <2>10. CASE WaitIdle
    BY <2>10, <1>0, <1>a DEF WaitIdle, MainStep, IInv, TypeOK, MainInv
  <2>. QED
    BY <1>1, <2>1, <2>2, <2>3, <2>4, <2>5, <2>6, <2>7, <2>8, <2>9, <2>10 DEF
       Call
<1>2. ASSUME NEW t \in Threads, Spawn(t) PROVE MainInv'
  BY <1>2, <1>0, <1>a, DocFacts DEF Spawn, IInv, TypeOK, MainInv
<1>3. ASSUME NEW t \in Threads, Work(t) PROVE MainInv'
  <2>1. CASE Arrive(t)
    BY <2>1, <1>0, <1>a DEF Arrive, WorkStep, MutexLock, CondSignal, IInv,
       TypeOK, MainInv, WorkState
  <2>2. CASE AwaitGo(t)
    BY <2>2, <1>0, <1>a DEF AwaitGo, WorkStep, CondSleep, MutexUnlock, IInv,
       TypeOK, MainInv, WorkState
  <2>3. CASE WakeToGo(t)
    BY <2>3, <1>0, <1>a DEF WakeToGo, WorkStep, CondWake, MutexLock, IInv,
       TypeOK, MainInv, WorkState
  <2>4. CASE GoOn(t)
    BY <2>4, <1>0, <1>a DEF GoOn, WorkStep, MutexUnlock, IInv, TypeOK,
       MainInv, WorkState
  <2>5. CASE LockMonitor(t)
    BY <2>5, <1>0, <1>a DEF LockMonitor, WorkStep, MutexLock, IInv, TypeOK,
       MainInv, WorkState
  <2>6. CASE FoundDone(t)
    BY <2>6, <1>0, <1>a DEF FoundDone, WorkStep, MutexUnlock, IInv, TypeOK,
       MainInv, WorkState
  <2>7. CASE FoundNotDone(t)
    BY <2>7, <1>0, <1>a DEF FoundNotDone, WorkStep, IInv, TypeOK, MainInv,
       WorkState
  <2>8. CASE SleepOnTask(t)
    BY <2>8, <1>0, <1>a DEF SleepOnTask, WorkStep, CondSleep, MutexUnlock,
       IInv, TypeOK, MainInv, WorkState
  <2>9. CASE WakeOnTask(t)
    BY <2>9, <1>0, <1>a DEF WakeOnTask, WorkStep, CondWake, MutexLock, IInv,
       TypeOK, MainInv, WorkState
  <2>10. CASE CallTask(t)
    BY <2>10, <1>0, <1>a DEF CallTask, WorkStep, IInv, TypeOK, MainInv,
       WorkState
  <2>11. CASE FinishTask(t)
    BY <2>11, <1>0, <1>a DEF FinishTask, WorkStep, IInv, TypeOK, MainInv,
       WorkState
  <2>12. CASE Publish(t)
    BY <2>12, <1>0, <1>a DEF Publish, WorkStep, CondBroadcast, IInv, TypeOK,
       MainInv, WorkState
  <2>13. CASE Leave(t)
    BY <2>13, <1>0, <1>a DEF Leave, WorkStep, IInv, TypeOK, MainInv, WorkState
  <2>. QED
    BY <1>3, <2>1, <2>2, <2>3, <2>4, <2>5, <2>6, <2>7, <2>8, <2>9, <2>10,
       <2>11, <2>12, <2>13 DEF Work
<1>4. ASSUME NEW t \in Threads \cup {Main}, Spurious(t) PROVE MainInv'
  BY <1>4, <1>0, <1>a DEF Spurious, SpuriousWake, IInv, TypeOK, MainInv
<1>5. CASE UNCHANGED vars
  BY <1>5, <1>0, <1>a DEF vars, IInv, MainInv
<1>. QED
  BY <1>1, <1>2, <1>3, <1>4, <1>5 DEF Next, Starting, Call

(* The lock has one holder. *)
LEMMA LockStep ==
  MaxStarts = 1 /\ IInv /\ [Next]_vars => LockInv'
<1> SUFFICES ASSUME MaxStarts = 1 /\ IInv, [Next]_vars PROVE LockInv'
  OBVIOUS
<1> USE DEF mainVars, workVars, taskVars
<1>0. doc' = doc /\ doc \in Schedules
  BY DocStays DEF IInv, TypeOK
<1>a. Threads' = Threads /\ Tasks' = Tasks
  BY <1>0, Static
<1>1. ASSUME Call \/ WaitIdle \/ SpawnFails \/ LockStart \/ AwaitThreads \/ CountAgain \/ LetGo
      PROVE  LockInv'
  <2>1. CASE Refuse
    BY <2>1, <1>0, <1>a, DocFacts DEF Refuse, MainStep, IInv, TypeOK, LockInv
  <2>2. CASE Load
    BY <2>2, <1>0, <1>a, DocFacts DEF Load, MainStep, IInv, TypeOK, LockInv
  <2>3. CASE LoadUnknownThread
    BY <2>3, <1>0, <1>a, DocFacts DEF LoadUnknownThread, MainStep, IInv,
       TypeOK, LockInv
  <2>4. CASE Start
    BY <2>4, <1>0, <1>a, DocFacts DEF Start, IInv, TypeOK, LockInv
  <2>5. CASE SpawnFails
    BY <2>5, <1>0, <1>a, DocFacts DEF SpawnFails, MainStep, IInv, TypeOK,
       LockInv
  <2>6. CASE LockStart
    BY <2>6, <1>0, <1>a, DocFacts DEF LockStart, MainStep, MutexLock, IInv,
       TypeOK, LockInv
  <2>7. CASE AwaitThreads
    BY <2>7, <1>0, <1>a, DocFacts DEF AwaitThreads, MainStep, CondSleep,
       MutexUnlock, IInv, TypeOK, LockInv
  <2>8. CASE CountAgain
    BY <2>8, <1>0, <1>a, DocFacts DEF CountAgain, MainStep, CondWake,
       MutexLock, IInv, TypeOK, LockInv
  <2>9. CASE LetGo
    BY <2>9, <1>0, <1>a, DocFacts DEF LetGo, MainStep, CondBroadcast,
       MutexUnlock, IInv, TypeOK, LockInv
  <2>10. CASE WaitIdle
    BY <2>10, <1>0, <1>a, DocFacts DEF WaitIdle, MainStep, IInv, TypeOK,
       LockInv
  <2>. QED
    BY <1>1, <2>1, <2>2, <2>3, <2>4, <2>5, <2>6, <2>7, <2>8, <2>9, <2>10 DEF
       Call
<1>2. ASSUME NEW t \in Threads, Spawn(t) PROVE LockInv'
  BY <1>2, <1>0, <1>a, DocFacts DEF Spawn, IInv, TypeOK, LockInv, MainInv
<1>3. ASSUME NEW t \in Threads, Work(t) PROVE LockInv'
  <2>1. CASE Arrive(t)
    BY <2>1, <1>0, <1>a, DocFacts DEF Arrive, WorkStep, MutexLock, CondSignal,
       IInv, TypeOK, LockInv
  <2>2. CASE AwaitGo(t)
    BY <2>2, <1>0, <1>a, DocFacts DEF AwaitGo, WorkStep, CondSleep,
       MutexUnlock, IInv, TypeOK, LockInv
  <2>3. CASE WakeToGo(t)
    BY <2>3, <1>0, <1>a, DocFacts DEF WakeToGo, WorkStep, CondWake, MutexLock,
       IInv, TypeOK, LockInv
  <2>4. CASE GoOn(t)
    BY <2>4, <1>0, <1>a, DocFacts DEF GoOn, WorkStep, MutexUnlock, IInv,
       TypeOK, LockInv
  <2>5. CASE LockMonitor(t)
    BY <2>5, <1>0, <1>a, DocFacts DEF LockMonitor, WorkStep, MutexLock, IInv,
       TypeOK, LockInv
  <2>6. CASE FoundDone(t)
    BY <2>6, <1>0, <1>a, DocFacts DEF FoundDone, WorkStep, MutexUnlock, IInv,
       TypeOK, LockInv
  <2>7. CASE FoundNotDone(t)
    BY <2>7, <1>0, <1>a, DocFacts DEF FoundNotDone, WorkStep, IInv, TypeOK,
       LockInv
  <2>8. CASE SleepOnTask(t)
    BY <2>8, <1>0, <1>a, DocFacts DEF SleepOnTask, WorkStep, CondSleep,
       MutexUnlock, IInv, TypeOK, LockInv
  <2>9. CASE WakeOnTask(t)
    BY <2>9, <1>0, <1>a, DocFacts DEF WakeOnTask, WorkStep, CondWake,
       MutexLock, IInv, TypeOK, LockInv
  <2>10. CASE CallTask(t)
    BY <2>10, <1>0, <1>a, DocFacts DEF CallTask, WorkStep, IInv, TypeOK,
       LockInv
  <2>11. CASE FinishTask(t)
    BY <2>11, <1>0, <1>a, DocFacts DEF FinishTask, WorkStep, IInv, TypeOK,
       LockInv
  <2>12. CASE Publish(t)
    BY <2>12, <1>0, <1>a, DocFacts DEF Publish, WorkStep, CondBroadcast, IInv,
       TypeOK, LockInv
  <2>13. CASE Leave(t)
    BY <2>13, <1>0, <1>a, DocFacts DEF Leave, WorkStep, IInv, TypeOK, LockInv
  <2>. QED
    BY <1>3, <2>1, <2>2, <2>3, <2>4, <2>5, <2>6, <2>7, <2>8, <2>9, <2>10,
       <2>11, <2>12, <2>13 DEF Work
<1>4. ASSUME NEW t \in Threads \cup {Main}, Spurious(t) PROVE LockInv'
  BY <1>4, <1>0, <1>a DEF Spurious, SpuriousWake, IInv, TypeOK, LockInv
<1>5. CASE UNCHANGED vars
  BY <1>5, <1>0, <1>a DEF vars, IInv, TypeOK, LockInv
<1>. QED
  BY <1>1, <1>2, <1>3, <1>4, <1>5 DEF Next, Starting, Call

(* The barrier: LetGo finds all threads inside, the wait for the schedule   *)
(* none.                                                                   *)
LEMMA GoStep ==
  MaxStarts = 1 /\ IInv /\ [Next]_vars => GoInv'
<1> SUFFICES ASSUME MaxStarts = 1 /\ IInv, [Next]_vars PROVE GoInv'
  OBVIOUS
<1> USE DEF mainVars, workVars, taskVars
<1>0. doc' = doc /\ doc \in Schedules
  BY DocStays DEF IInv, TypeOK
<1>a. Threads' = Threads /\ Tasks' = Tasks
  BY <1>0, Static
<1>1. ASSUME Call \/ WaitIdle \/ SpawnFails \/ LockStart \/ AwaitThreads \/ CountAgain \/ LetGo
      PROVE  GoInv'
  <2>1. CASE Refuse
    BY <2>1, <1>0, <1>a, DocFacts DEF Refuse, MainStep, IInv, TypeOK, GoInv,
       MainInv
  <2>2. CASE Load
    BY <2>2, <1>0, <1>a, DocFacts DEF Load, MainStep, IInv, TypeOK, GoInv,
       MainInv
  <2>3. CASE LoadUnknownThread
    BY <2>3, <1>0, <1>a, DocFacts DEF LoadUnknownThread, MainStep, IInv,
       TypeOK, GoInv, MainInv
  <2>4. CASE Start
    BY <2>4, <1>0, <1>a, DocFacts DEF Start, IInv, TypeOK, GoInv, MainInv
  <2>5. CASE SpawnFails
    BY <2>5, <1>0, <1>a, DocFacts DEF SpawnFails, MainStep, IInv, TypeOK,
       GoInv, MainInv
  <2>6. CASE LockStart
    BY <2>6, <1>0, <1>a, DocFacts DEF LockStart, MainStep, MutexLock, IInv,
       TypeOK, GoInv, MainInv
  <2>7. CASE AwaitThreads
    BY <2>7, <1>0, <1>a, DocFacts DEF AwaitThreads, MainStep, CondSleep,
       MutexUnlock, IInv, TypeOK, GoInv, MainInv
  <2>8. CASE CountAgain
    BY <2>8, <1>0, <1>a, DocFacts DEF CountAgain, MainStep, CondWake,
       MutexLock, IInv, TypeOK, GoInv, MainInv
  <2>9. CASE LetGo
    BY <2>9, <1>0, <1>a, DocFacts, AllInside DEF LetGo, MainStep,
       CondBroadcast, MutexUnlock, IInv, TypeOK, GoInv, Inside, CountInv,
       MainInv
  <2>10. CASE WaitIdle
    BY <2>10, <1>0, <1>a, DocFacts, NoneInside DEF WaitIdle, MainStep, IInv,
       TypeOK, GoInv, Inside, CountInv, MainInv
  <2>. QED
    BY <1>1, <2>1, <2>2, <2>3, <2>4, <2>5, <2>6, <2>7, <2>8, <2>9, <2>10 DEF
       Call
<1>2. ASSUME NEW t \in Threads, Spawn(t) PROVE GoInv'
  BY <1>2, <1>0, <1>a DEF Spawn, IInv, TypeOK, GoInv, MainInv
<1>3. ASSUME NEW t \in Threads, Work(t) PROVE GoInv'
  <2>1. CASE Arrive(t)
    BY <2>1, <1>0, <1>a DEF Arrive, WorkStep, MutexLock, CondSignal, IInv,
       TypeOK, GoInv
  <2>2. CASE AwaitGo(t)
    BY <2>2, <1>0, <1>a DEF AwaitGo, WorkStep, CondSleep, MutexUnlock, IInv,
       TypeOK, GoInv
  <2>3. CASE WakeToGo(t)
    BY <2>3, <1>0, <1>a DEF WakeToGo, WorkStep, CondWake, MutexLock, IInv,
       TypeOK, GoInv
  <2>4. CASE GoOn(t)
    BY <2>4, <1>0, <1>a DEF GoOn, WorkStep, MutexUnlock, IInv, TypeOK, GoInv
  <2>5. CASE LockMonitor(t)
    BY <2>5, <1>0, <1>a DEF LockMonitor, WorkStep, MutexLock, IInv, TypeOK,
       GoInv
  <2>6. CASE FoundDone(t)
    BY <2>6, <1>0, <1>a DEF FoundDone, WorkStep, MutexUnlock, IInv, TypeOK,
       GoInv
  <2>7. CASE FoundNotDone(t)
    BY <2>7, <1>0, <1>a DEF FoundNotDone, WorkStep, IInv, TypeOK, GoInv
  <2>8. CASE SleepOnTask(t)
    BY <2>8, <1>0, <1>a DEF SleepOnTask, WorkStep, CondSleep, MutexUnlock,
       IInv, TypeOK, GoInv
  <2>9. CASE WakeOnTask(t)
    BY <2>9, <1>0, <1>a DEF WakeOnTask, WorkStep, CondWake, MutexLock, IInv,
       TypeOK, GoInv
  <2>10. CASE CallTask(t)
    BY <2>10, <1>0, <1>a DEF CallTask, WorkStep, IInv, TypeOK, GoInv
  <2>11. CASE FinishTask(t)
    BY <2>11, <1>0, <1>a DEF FinishTask, WorkStep, IInv, TypeOK, GoInv
  <2>12. CASE Publish(t)
    BY <2>12, <1>0, <1>a DEF Publish, WorkStep, CondBroadcast, IInv, TypeOK,
       GoInv
  <2>13. CASE Leave(t)
    BY <2>13, <1>0, <1>a DEF Leave, WorkStep, IInv, TypeOK, GoInv
  <2>. QED
    BY <1>3, <2>1, <2>2, <2>3, <2>4, <2>5, <2>6, <2>7, <2>8, <2>9, <2>10,
       <2>11, <2>12, <2>13 DEF Work
<1>4. ASSUME NEW t \in Threads \cup {Main}, Spurious(t) PROVE GoInv'
  BY <1>4, <1>0, <1>a DEF Spurious, SpuriousWake, IInv, TypeOK, GoInv
<1>5. CASE UNCHANGED vars
  BY <1>5, <1>0, <1>a DEF vars, IInv, TypeOK, GoInv
<1>. QED
  BY <1>1, <1>2, <1>3, <1>4, <1>5 DEF Next, Starting, Call

(* Positions. *)
LEMMA PosStep ==
  MaxStarts = 1 /\ IInv /\ [Next]_vars => PosInv'
<1> SUFFICES ASSUME MaxStarts = 1 /\ IInv, [Next]_vars PROVE PosInv'
  OBVIOUS
<1> USE DEF mainVars, workVars, taskVars
<1>0. doc' = doc /\ doc \in Schedules
  BY DocStays DEF IInv, TypeOK
<1>a. Threads' = Threads /\ Tasks' = Tasks
  BY <1>0, Static
<1>1. ASSUME Call \/ WaitIdle \/ SpawnFails \/ LockStart \/ AwaitThreads \/ CountAgain \/ LetGo
      PROVE  PosInv'
  <2>1. CASE Refuse
    BY <2>1, <1>0, <1>a DEF Refuse, MainStep, IInv, TypeOK, PosInv
  <2>2. CASE Load
    BY <2>2, <1>0, <1>a DEF Load, MainStep, IInv, TypeOK, PosInv
  <2>3. CASE LoadUnknownThread
    BY <2>3, <1>0, <1>a DEF LoadUnknownThread, MainStep, IInv, TypeOK, PosInv
  <2>4. CASE Start
    BY <2>4, <1>0, <1>a DEF Start, IInv, TypeOK, PosInv
  <2>5. CASE SpawnFails
    BY <2>5, <1>0, <1>a DEF SpawnFails, MainStep, IInv, TypeOK, PosInv
  <2>6. CASE LockStart
    BY <2>6, <1>0, <1>a DEF LockStart, MainStep, MutexLock, IInv, TypeOK,
       PosInv
  <2>7. CASE AwaitThreads
    BY <2>7, <1>0, <1>a DEF AwaitThreads, MainStep, CondSleep, MutexUnlock,
       IInv, TypeOK, PosInv
  <2>8. CASE CountAgain
    BY <2>8, <1>0, <1>a DEF CountAgain, MainStep, CondWake, MutexLock, IInv,
       TypeOK, PosInv
  <2>9. CASE LetGo
    BY <2>9, <1>0, <1>a DEF LetGo, MainStep, CondBroadcast, MutexUnlock, IInv,
       TypeOK, PosInv
  <2>10. CASE WaitIdle
    BY <2>10, <1>0, <1>a DEF WaitIdle, MainStep, IInv, TypeOK, PosInv
  <2>. QED
    BY <1>1, <2>1, <2>2, <2>3, <2>4, <2>5, <2>6, <2>7, <2>8, <2>9, <2>10 DEF
       Call
<1>2. ASSUME NEW t \in Threads, Spawn(t) PROVE PosInv'
  BY <1>2, <1>0, <1>a, DocFacts DEF Spawn, IInv, TypeOK, PosInv
<1>3. ASSUME NEW t \in Threads, Work(t) PROVE PosInv'
  <2>1. CASE Arrive(t)
    BY <2>1, <1>0, <1>a, DocFacts, TaskForm DEF Arrive, WorkStep, MutexLock,
       CondSignal, IInv, TypeOK, PosInv, Current
  <2>2. CASE AwaitGo(t)
    BY <2>2, <1>0, <1>a, DocFacts, TaskForm DEF AwaitGo, WorkStep, CondSleep,
       MutexUnlock, IInv, TypeOK, PosInv, Current
  <2>3. CASE WakeToGo(t)
    BY <2>3, <1>0, <1>a, DocFacts, TaskForm DEF WakeToGo, WorkStep, CondWake,
       MutexLock, IInv, TypeOK, PosInv, Current
  <2>4. CASE GoOn(t)
    BY <2>4, <1>0, <1>a, DocFacts, TaskForm DEF GoOn, WorkStep, MutexUnlock,
       IInv, TypeOK, PosInv, Current
  <2>5. CASE LockMonitor(t)
    BY <2>5, <1>0, <1>a, DocFacts, TaskForm DEF LockMonitor, WorkStep,
       MutexLock, IInv, TypeOK, PosInv, Current
  <2>6. CASE FoundDone(t)
    BY <2>6, <1>0, <1>a, DocFacts, TaskForm DEF FoundDone, WorkStep,
       MutexUnlock, IInv, TypeOK, PosInv, Current
  <2>7. CASE FoundNotDone(t)
    BY <2>7, <1>0, <1>a, DocFacts, TaskForm DEF FoundNotDone, WorkStep, IInv,
       TypeOK, PosInv, Current
  <2>8. CASE SleepOnTask(t)
    BY <2>8, <1>0, <1>a, DocFacts, TaskForm DEF SleepOnTask, WorkStep,
       CondSleep, MutexUnlock, IInv, TypeOK, PosInv, Current
  <2>9. CASE WakeOnTask(t)
    BY <2>9, <1>0, <1>a, DocFacts, TaskForm DEF WakeOnTask, WorkStep,
       CondWake, MutexLock, IInv, TypeOK, PosInv, Current
  <2>10. CASE CallTask(t)
    BY <2>10, <1>0, <1>a, DocFacts, TaskForm DEF CallTask, WorkStep, IInv,
       TypeOK, PosInv, Current
  <2>11. CASE FinishTask(t)
    BY <2>11, <1>0, <1>a, DocFacts, TaskForm DEF FinishTask, WorkStep, IInv,
       TypeOK, PosInv, Current
  <2>12. CASE Publish(t)
    BY <2>12, <1>0, <1>a, DocFacts, TaskForm DEF Publish, WorkStep,
       CondBroadcast, IInv, TypeOK, PosInv, Current
  <2>13. CASE Leave(t)
    BY <2>13, <1>0, <1>a, DocFacts, TaskForm DEF Leave, WorkStep, IInv,
       TypeOK, PosInv, Current
  <2>. QED
    BY <1>3, <2>1, <2>2, <2>3, <2>4, <2>5, <2>6, <2>7, <2>8, <2>9, <2>10,
       <2>11, <2>12, <2>13 DEF Work
<1>4. ASSUME NEW t \in Threads \cup {Main}, Spurious(t) PROVE PosInv'
  BY <1>4, <1>0, <1>a DEF Spurious, SpuriousWake, IInv, TypeOK, PosInv
<1>5. CASE UNCHANGED vars
  BY <1>5, <1>0, <1>a DEF vars, IInv, TypeOK, PosInv
<1>. QED
  BY <1>1, <1>2, <1>3, <1>4, <1>5 DEF Next, Starting, Call

(* The count of the threads inside. *)
LEMMA CountStep ==
  MaxStarts = 1 /\ IInv /\ [Next]_vars => CountInv'
<1> SUFFICES ASSUME MaxStarts = 1 /\ IInv, [Next]_vars PROVE CountInv'
  OBVIOUS
<1> USE DEF mainVars, workVars, taskVars
<1>0. doc' = doc /\ doc \in Schedules
  BY DocStays DEF IInv, TypeOK
<1>a. Threads' = Threads /\ Tasks' = Tasks
  BY <1>0, Static
<1>1. ASSUME Call \/ WaitIdle \/ SpawnFails \/ LockStart \/ AwaitThreads \/ CountAgain \/ LetGo
      PROVE  CountInv'
  <2>1. CASE Refuse
    BY <2>1, <1>0, <1>a DEF Refuse, MainStep, IInv, TypeOK, CountInv, Inside
  <2>2. CASE Load
    BY <2>2, <1>0, <1>a DEF Load, MainStep, IInv, TypeOK, CountInv, Inside
  <2>3. CASE LoadUnknownThread
    BY <2>3, <1>0, <1>a DEF LoadUnknownThread, MainStep, IInv, TypeOK,
       CountInv, Inside
  <2>4. CASE Start
    BY <2>4, <1>0, <1>a DEF Start, IInv, TypeOK, CountInv, Inside
  <2>5. CASE SpawnFails
    BY <2>5, <1>0, <1>a DEF SpawnFails, MainStep, IInv, TypeOK, CountInv,
       Inside
  <2>6. CASE LockStart
    BY <2>6, <1>0, <1>a DEF LockStart, MainStep, MutexLock, IInv, TypeOK,
       CountInv, Inside
  <2>7. CASE AwaitThreads
    BY <2>7, <1>0, <1>a DEF AwaitThreads, MainStep, CondSleep, MutexUnlock,
       IInv, TypeOK, CountInv, Inside
  <2>8. CASE CountAgain
    BY <2>8, <1>0, <1>a DEF CountAgain, MainStep, CondWake, MutexLock, IInv,
       TypeOK, CountInv, Inside
  <2>9. CASE LetGo
    BY <2>9, <1>0, <1>a DEF LetGo, MainStep, CondBroadcast, MutexUnlock, IInv,
       TypeOK, CountInv, Inside
  <2>10. CASE WaitIdle
    BY <2>10, <1>0, <1>a DEF WaitIdle, MainStep, IInv, TypeOK, CountInv,
       Inside
  <2>. QED
    BY <1>1, <2>1, <2>2, <2>3, <2>4, <2>5, <2>6, <2>7, <2>8, <2>9, <2>10 DEF
       Call
<1>2. ASSUME NEW t \in Threads, Spawn(t) PROVE CountInv'
  BY <1>2, <1>0, <1>a DEF Spawn, IInv, TypeOK, CountInv, Inside, MainInv
<1>3. ASSUME NEW t \in Threads, Work(t) PROVE CountInv'
  <2>1. CASE Arrive(t)
    BY <2>1, <1>0, <1>a, ArriveCounts DEF Arrive, WorkStep, MutexLock,
       CondSignal, IInv, CountInv
  <2>2. CASE AwaitGo(t)
    BY <2>2, <1>0, <1>a DEF AwaitGo, WorkStep, CondSleep, MutexUnlock, IInv,
       TypeOK, CountInv, Inside
  <2>3. CASE WakeToGo(t)
    BY <2>3, <1>0, <1>a DEF WakeToGo, WorkStep, CondWake, MutexLock, IInv,
       TypeOK, CountInv, Inside
  <2>4. CASE GoOn(t)
    BY <2>4, <1>0, <1>a DEF GoOn, WorkStep, MutexUnlock, IInv, TypeOK,
       CountInv, Inside
  <2>5. CASE LockMonitor(t)
    BY <2>5, <1>0, <1>a DEF LockMonitor, WorkStep, MutexLock, IInv, TypeOK,
       CountInv, Inside
  <2>6. CASE FoundDone(t)
    BY <2>6, <1>0, <1>a DEF FoundDone, WorkStep, MutexUnlock, IInv, TypeOK,
       CountInv, Inside
  <2>7. CASE FoundNotDone(t)
    BY <2>7, <1>0, <1>a DEF FoundNotDone, WorkStep, IInv, TypeOK, CountInv,
       Inside
  <2>8. CASE SleepOnTask(t)
    BY <2>8, <1>0, <1>a DEF SleepOnTask, WorkStep, CondSleep, MutexUnlock,
       IInv, TypeOK, CountInv, Inside
  <2>9. CASE WakeOnTask(t)
    BY <2>9, <1>0, <1>a DEF WakeOnTask, WorkStep, CondWake, MutexLock, IInv,
       TypeOK, CountInv, Inside
  <2>10. CASE CallTask(t)
    BY <2>10, <1>0, <1>a DEF CallTask, WorkStep, IInv, TypeOK, CountInv,
       Inside
  <2>11. CASE FinishTask(t)
    BY <2>11, <1>0, <1>a DEF FinishTask, WorkStep, IInv, TypeOK, CountInv,
       Inside
  <2>12. CASE Publish(t)
    BY <2>12, <1>0, <1>a DEF Publish, WorkStep, CondBroadcast, IInv, TypeOK,
       CountInv, Inside
  <2>13. CASE Leave(t)
    BY <2>13, <1>0, <1>a, LeaveCounts DEF Leave, WorkStep, IInv, CountInv
  <2>. QED
    BY <1>3, <2>1, <2>2, <2>3, <2>4, <2>5, <2>6, <2>7, <2>8, <2>9, <2>10,
       <2>11, <2>12, <2>13 DEF Work
<1>4. ASSUME NEW t \in Threads \cup {Main}, Spurious(t) PROVE CountInv'
  BY <1>4, <1>0, <1>a DEF Spurious, SpuriousWake, IInv, TypeOK, CountInv,
     Inside
<1>5. CASE UNCHANGED vars
  BY <1>5, <1>0, <1>a DEF vars, IInv, TypeOK, CountInv, Inside
<1>. QED
  BY <1>1, <1>2, <1>3, <1>4, <1>5 DEF Next, Starting, Call

(* The history. *)
LEMMA HistoryStep ==
  MaxStarts = 1 /\ IInv /\ [Next]_vars => HistoryInv'
<1> SUFFICES ASSUME MaxStarts = 1 /\ IInv, [Next]_vars PROVE HistoryInv'
  OBVIOUS
<1> USE DEF mainVars, workVars, taskVars
<1>0. doc' = doc /\ doc \in Schedules
  BY DocStays DEF IInv, TypeOK
<1>a. Threads' = Threads /\ Tasks' = Tasks
  BY <1>0, Static
<1>1. ASSUME Call \/ WaitIdle \/ SpawnFails \/ LockStart \/ AwaitThreads \/ CountAgain \/ LetGo
      PROVE  HistoryInv'
  <2>1. CASE Refuse
    BY <2>1, <1>0, <1>a DEF Refuse, MainStep, IInv, TypeOK, HistoryInv
  <2>2. CASE Load
    BY <2>2, <1>0, <1>a DEF Load, MainStep, IInv, TypeOK, HistoryInv
  <2>3. CASE LoadUnknownThread
    BY <2>3, <1>0, <1>a DEF LoadUnknownThread, MainStep, IInv, TypeOK,
       HistoryInv
  <2>4. CASE Start
    BY <2>4, <1>0, <1>a, TaskForm DEF Start, IInv, TypeOK, HistoryInv,
       MainInv, PosInv
  <2>5. CASE SpawnFails
    BY <2>5, <1>0, <1>a DEF SpawnFails, MainStep, IInv, TypeOK, HistoryInv
  <2>6. CASE LockStart
    BY <2>6, <1>0, <1>a DEF LockStart, MainStep, MutexLock, IInv, TypeOK,
       HistoryInv
  <2>7. CASE AwaitThreads
    BY <2>7, <1>0, <1>a DEF AwaitThreads, MainStep, CondSleep, MutexUnlock,
       IInv, TypeOK, HistoryInv
  <2>8. CASE CountAgain
    BY <2>8, <1>0, <1>a DEF CountAgain, MainStep, CondWake, MutexLock, IInv,
       TypeOK, HistoryInv
  <2>9. CASE LetGo
    BY <2>9, <1>0, <1>a DEF LetGo, MainStep, CondBroadcast, MutexUnlock, IInv,
       TypeOK, HistoryInv
  <2>10. CASE WaitIdle
    BY <2>10, <1>0, <1>a DEF WaitIdle, MainStep, IInv, TypeOK, HistoryInv
  <2>. QED
    BY <1>1, <2>1, <2>2, <2>3, <2>4, <2>5, <2>6, <2>7, <2>8, <2>9, <2>10 DEF
       Call
<1>2. ASSUME NEW t \in Threads, Spawn(t) PROVE HistoryInv'
  BY <1>2, <1>0, <1>a, TaskForm DEF Spawn, IInv, TypeOK, HistoryInv, MainInv,
     PosInv
<1>3. ASSUME NEW t \in Threads, Work(t) PROVE HistoryInv'
  <2>1. CASE Arrive(t)
    BY <2>1, <1>0, <1>a, TaskForm DEF Arrive, WorkStep, MutexLock, CondSignal,
       IInv, TypeOK, HistoryInv, PosInv, Current
  <2>2. CASE AwaitGo(t)
    BY <2>2, <1>0, <1>a, TaskForm DEF AwaitGo, WorkStep, CondSleep,
       MutexUnlock, IInv, TypeOK, HistoryInv, PosInv, Current
  <2>3. CASE WakeToGo(t)
    BY <2>3, <1>0, <1>a, TaskForm DEF WakeToGo, WorkStep, CondWake, MutexLock,
       IInv, TypeOK, HistoryInv, PosInv, Current
  <2>4. CASE GoOn(t)
    BY <2>4, <1>0, <1>a, TaskForm DEF GoOn, WorkStep, MutexUnlock, IInv,
       TypeOK, HistoryInv, PosInv, Current
  <2>5. CASE LockMonitor(t)
    BY <2>5, <1>0, <1>a, TaskForm DEF LockMonitor, WorkStep, MutexLock, IInv,
       TypeOK, HistoryInv, PosInv, Current
  <2>6. CASE FoundDone(t)
    BY <2>6, <1>0, <1>a, TaskForm DEF FoundDone, WorkStep, MutexUnlock, IInv,
       TypeOK, HistoryInv, PosInv, Current
  <2>7. CASE FoundNotDone(t)
    BY <2>7, <1>0, <1>a, TaskForm DEF FoundNotDone, WorkStep, IInv, TypeOK,
       HistoryInv, PosInv, Current
  <2>8. CASE SleepOnTask(t)
    BY <2>8, <1>0, <1>a, TaskForm DEF SleepOnTask, WorkStep, CondSleep,
       MutexUnlock, IInv, TypeOK, HistoryInv, PosInv, Current
  <2>9. CASE WakeOnTask(t)
    BY <2>9, <1>0, <1>a, TaskForm DEF WakeOnTask, WorkStep, CondWake,
       MutexLock, IInv, TypeOK, HistoryInv, PosInv, Current
  <2>10. CASE CallTask(t)
    BY <2>10, <1>0, <1>a, TaskForm DEF CallTask, WorkStep, IInv, TypeOK,
       HistoryInv, PosInv, Current
  <2>11. CASE FinishTask(t)
    BY <2>11, <1>0, <1>a, TaskForm DEF FinishTask, WorkStep, IInv, TypeOK,
       HistoryInv, PosInv, Current
  <2>12. CASE Publish(t)
    BY <2>12, <1>0, <1>a, TaskForm DEF Publish, WorkStep, CondBroadcast, IInv,
       TypeOK, HistoryInv, PosInv, Current
  <2>13. CASE Leave(t)
    BY <2>13, <1>0, <1>a, TaskForm DEF Leave, WorkStep, IInv, TypeOK,
       HistoryInv, PosInv, Current
  <2>. QED
    BY <1>3, <2>1, <2>2, <2>3, <2>4, <2>5, <2>6, <2>7, <2>8, <2>9, <2>10,
       <2>11, <2>12, <2>13 DEF Work
<1>4. ASSUME NEW t \in Threads \cup {Main}, Spurious(t) PROVE HistoryInv'
  BY <1>4, <1>0, <1>a DEF Spurious, SpuriousWake, IInv, TypeOK, HistoryInv
<1>5. CASE UNCHANGED vars
  BY <1>5, <1>0, <1>a DEF vars, IInv, TypeOK, HistoryInv
<1>. QED
  BY <1>1, <1>2, <1>3, <1>4, <1>5 DEF Next, Starting, Call

(* A checked wait. *)
LEMMA CalledStep ==
  MaxStarts = 1 /\ IInv /\ [Next]_vars => CalledInv'
<1> SUFFICES ASSUME MaxStarts = 1 /\ IInv, [Next]_vars PROVE CalledInv'
  OBVIOUS
<1> USE DEF mainVars, workVars, taskVars
<1>0. doc' = doc /\ doc \in Schedules
  BY DocStays DEF IInv, TypeOK
<1>a. Threads' = Threads /\ Tasks' = Tasks
  BY <1>0, Static
<1>1. ASSUME Call \/ WaitIdle \/ SpawnFails \/ LockStart \/ AwaitThreads \/ CountAgain \/ LetGo
      PROVE  CalledInv'
  <2>1. CASE Refuse
    BY <2>1, <1>0, <1>a, Static DEF Refuse, MainStep, IInv, TypeOK, CalledInv,
       Current
  <2>2. CASE Load
    BY <2>2, <1>0, <1>a, Static DEF Load, MainStep, IInv, TypeOK, CalledInv,
       Current
  <2>3. CASE LoadUnknownThread
    BY <2>3, <1>0, <1>a, Static DEF LoadUnknownThread, MainStep, IInv, TypeOK,
       CalledInv, Current
  <2>4. CASE Start
    BY <2>4, <1>0, <1>a, Static DEF Start, IInv, TypeOK, CalledInv, MainInv
  <2>5. CASE SpawnFails
    BY <2>5, <1>0, <1>a, Static DEF SpawnFails, MainStep, IInv, TypeOK,
       CalledInv, Current
  <2>6. CASE LockStart
    BY <2>6, <1>0, <1>a, Static DEF LockStart, MainStep, MutexLock, IInv,
       TypeOK, CalledInv, Current
  <2>7. CASE AwaitThreads
    BY <2>7, <1>0, <1>a, Static DEF AwaitThreads, MainStep, CondSleep,
       MutexUnlock, IInv, TypeOK, CalledInv, Current
  <2>8. CASE CountAgain
    BY <2>8, <1>0, <1>a, Static DEF CountAgain, MainStep, CondWake, MutexLock,
       IInv, TypeOK, CalledInv, Current
  <2>9. CASE LetGo
    BY <2>9, <1>0, <1>a, Static DEF LetGo, MainStep, CondBroadcast,
       MutexUnlock, IInv, TypeOK, CalledInv, Current
  <2>10. CASE WaitIdle
    BY <2>10, <1>0, <1>a, Static DEF WaitIdle, MainStep, IInv, TypeOK,
       CalledInv, Current
  <2>. QED
    BY <1>1, <2>1, <2>2, <2>3, <2>4, <2>5, <2>6, <2>7, <2>8, <2>9, <2>10 DEF
       Call
<1>2. ASSUME NEW t \in Threads, Spawn(t) PROVE CalledInv'
  BY <1>2, <1>0, <1>a, Static DEF Spawn, IInv, TypeOK, CalledInv, Current
<1>3. ASSUME NEW t \in Threads, Work(t) PROVE CalledInv'
  <2>1. CASE Arrive(t)
    BY <2>1, <1>0, <1>a, Static DEF Arrive, WorkStep, MutexLock, CondSignal,
       IInv, TypeOK, CalledInv, Current
  <2>2. CASE AwaitGo(t)
    BY <2>2, <1>0, <1>a, Static DEF AwaitGo, WorkStep, CondSleep, MutexUnlock,
       IInv, TypeOK, CalledInv, Current
  <2>3. CASE WakeToGo(t)
    BY <2>3, <1>0, <1>a, Static DEF WakeToGo, WorkStep, CondWake, MutexLock,
       IInv, TypeOK, CalledInv, Current
  <2>4. CASE GoOn(t)
    BY <2>4, <1>0, <1>a, Static DEF GoOn, WorkStep, MutexUnlock, IInv, TypeOK,
       CalledInv, Current
  <2>5. CASE LockMonitor(t)
    BY <2>5, <1>0, <1>a, Static DEF LockMonitor, WorkStep, MutexLock, IInv,
       TypeOK, CalledInv, Current
  <2>6. CASE FoundDone(t)
    BY <2>6, <1>0, <1>a, Static DEF FoundDone, WorkStep, MutexUnlock, IInv,
       TypeOK, CalledInv, Current, HistoryInv
  <2>7. CASE FoundNotDone(t)
    BY <2>7, <1>0, <1>a, Static DEF FoundNotDone, WorkStep, IInv, TypeOK,
       CalledInv, Current
  <2>8. CASE SleepOnTask(t)
    BY <2>8, <1>0, <1>a, Static DEF SleepOnTask, WorkStep, CondSleep,
       MutexUnlock, IInv, TypeOK, CalledInv, Current
  <2>9. CASE WakeOnTask(t)
    BY <2>9, <1>0, <1>a, Static DEF WakeOnTask, WorkStep, CondWake, MutexLock,
       IInv, TypeOK, CalledInv, Current
  <2>10. CASE CallTask(t)
    BY <2>10, <1>0, <1>a, Static DEF CallTask, WorkStep, IInv, TypeOK,
       CalledInv, Current
  <2>11. CASE FinishTask(t)
    BY <2>11, <1>0, <1>a, Static DEF FinishTask, WorkStep, IInv, TypeOK,
       CalledInv, Current
  <2>12. CASE Publish(t)
    BY <2>12, <1>0, <1>a, Static DEF Publish, WorkStep, CondBroadcast, IInv,
       TypeOK, CalledInv, Current
  <2>13. CASE Leave(t)
    BY <2>13, <1>0, <1>a, Static DEF Leave, WorkStep, IInv, TypeOK, CalledInv,
       Current
  <2>. QED
    BY <1>3, <2>1, <2>2, <2>3, <2>4, <2>5, <2>6, <2>7, <2>8, <2>9, <2>10,
       <2>11, <2>12, <2>13 DEF Work
<1>4. ASSUME NEW t \in Threads \cup {Main}, Spurious(t) PROVE CalledInv'
  BY <1>4, <1>0, <1>a, Static DEF Spurious, SpuriousWake, IInv, TypeOK,
     CalledInv, Current
<1>5. CASE UNCHANGED vars
  BY <1>5, <1>0, <1>a, Static DEF vars, IInv, TypeOK, CalledInv, Current
<1>. QED
  BY <1>1, <1>2, <1>3, <1>4, <1>5 DEF Next, Starting, Call

(* The order: a called task has its target's end from CalledInv, that of    *)
(* the task before it from its position.                                   *)
LEMMA OrderStep ==
  MaxStarts = 1 /\ IInv /\ [Next]_vars => InOrder'
<1> SUFFICES ASSUME MaxStarts = 1 /\ IInv, [Next]_vars PROVE InOrder'
  OBVIOUS
<1> USE DEF mainVars, workVars, taskVars
<1>0. doc' = doc /\ doc \in Schedules
  BY DocStays DEF IInv, TypeOK
<1>a. Threads' = Threads /\ Tasks' = Tasks
  BY <1>0, Static
<1>1. ASSUME Call \/ WaitIdle \/ SpawnFails \/ LockStart \/ AwaitThreads \/ CountAgain \/ LetGo
      PROVE  InOrder'
  <2>1. CASE Refuse
    BY <2>1, <1>0, <1>a, Static DEF Refuse, MainStep, IInv, TypeOK, InOrder
  <2>2. CASE Load
    BY <2>2, <1>0, <1>a, Static DEF Load, MainStep, IInv, TypeOK, InOrder
  <2>3. CASE LoadUnknownThread
    BY <2>3, <1>0, <1>a, Static DEF LoadUnknownThread, MainStep, IInv, TypeOK,
       InOrder
  <2>4. CASE Start
    BY <2>4, <1>0, <1>a, Static DEF Start, IInv, TypeOK, InOrder
  <2>5. CASE SpawnFails
    BY <2>5, <1>0, <1>a, Static DEF SpawnFails, MainStep, IInv, TypeOK,
       InOrder
  <2>6. CASE LockStart
    BY <2>6, <1>0, <1>a, Static DEF LockStart, MainStep, MutexLock, IInv,
       TypeOK, InOrder
  <2>7. CASE AwaitThreads
    BY <2>7, <1>0, <1>a, Static DEF AwaitThreads, MainStep, CondSleep,
       MutexUnlock, IInv, TypeOK, InOrder
  <2>8. CASE CountAgain
    BY <2>8, <1>0, <1>a, Static DEF CountAgain, MainStep, CondWake, MutexLock,
       IInv, TypeOK, InOrder
  <2>9. CASE LetGo
    BY <2>9, <1>0, <1>a, Static DEF LetGo, MainStep, CondBroadcast,
       MutexUnlock, IInv, TypeOK, InOrder
  <2>10. CASE WaitIdle
    BY <2>10, <1>0, <1>a, Static DEF WaitIdle, MainStep, IInv, TypeOK, InOrder
  <2>. QED
    BY <1>1, <2>1, <2>2, <2>3, <2>4, <2>5, <2>6, <2>7, <2>8, <2>9, <2>10 DEF
       Call
<1>2. ASSUME NEW t \in Threads, Spawn(t) PROVE InOrder'
  BY <1>2, <1>0, <1>a, Static DEF Spawn, IInv, TypeOK, InOrder
<1>3. ASSUME NEW t \in Threads, Work(t) PROVE InOrder'
  <2>1. CASE Arrive(t)
    BY <2>1, <1>0, <1>a, Static DEF Arrive, WorkStep, MutexLock, CondSignal,
       IInv, TypeOK, InOrder
  <2>2. CASE AwaitGo(t)
    BY <2>2, <1>0, <1>a, Static DEF AwaitGo, WorkStep, CondSleep, MutexUnlock,
       IInv, TypeOK, InOrder
  <2>3. CASE WakeToGo(t)
    BY <2>3, <1>0, <1>a, Static DEF WakeToGo, WorkStep, CondWake, MutexLock,
       IInv, TypeOK, InOrder
  <2>4. CASE GoOn(t)
    BY <2>4, <1>0, <1>a, Static DEF GoOn, WorkStep, MutexUnlock, IInv, TypeOK,
       InOrder
  <2>5. CASE LockMonitor(t)
    BY <2>5, <1>0, <1>a, Static DEF LockMonitor, WorkStep, MutexLock, IInv,
       TypeOK, InOrder
  <2>6. CASE FoundDone(t)
    BY <2>6, <1>0, <1>a, Static DEF FoundDone, WorkStep, MutexUnlock, IInv,
       TypeOK, InOrder
  <2>7. CASE FoundNotDone(t)
    BY <2>7, <1>0, <1>a, Static DEF FoundNotDone, WorkStep, IInv, TypeOK,
       InOrder
  <2>8. CASE SleepOnTask(t)
    BY <2>8, <1>0, <1>a, Static DEF SleepOnTask, WorkStep, CondSleep,
       MutexUnlock, IInv, TypeOK, InOrder
  <2>9. CASE WakeOnTask(t)
    BY <2>9, <1>0, <1>a, Static DEF WakeOnTask, WorkStep, CondWake, MutexLock,
       IInv, TypeOK, InOrder
  <2>10. CASE CallTask(t)
    BY <2>10, <1>0, <1>a, Static, CallOrder DEF CallTask, IInv, InOrder
  <2>11. CASE FinishTask(t)
    BY <2>11, <1>0, <1>a, Static DEF FinishTask, WorkStep, IInv, TypeOK,
       InOrder
  <2>12. CASE Publish(t)
    BY <2>12, <1>0, <1>a, Static DEF Publish, WorkStep, CondBroadcast, IInv,
       TypeOK, InOrder
  <2>13. CASE Leave(t)
    BY <2>13, <1>0, <1>a, Static DEF Leave, WorkStep, IInv, TypeOK, InOrder
  <2>. QED
    BY <1>3, <2>1, <2>2, <2>3, <2>4, <2>5, <2>6, <2>7, <2>8, <2>9, <2>10,
       <2>11, <2>12, <2>13 DEF Work
<1>4. ASSUME NEW t \in Threads \cup {Main}, Spurious(t) PROVE InOrder'
  BY <1>4, <1>0, <1>a, Static DEF Spurious, SpuriousWake, IInv, TypeOK,
     InOrder
<1>5. CASE UNCHANGED vars
  BY <1>5, <1>0, <1>a, Static DEF vars, IInv, TypeOK, InOrder
<1>. QED
  BY <1>1, <1>2, <1>3, <1>4, <1>5 DEF Next, Starting, Call

(* Types. *)
LEMMA TypeStep ==
  MaxStarts = 1 /\ IInv /\ [Next]_vars => TypeOK'
<1> SUFFICES ASSUME MaxStarts = 1 /\ IInv, [Next]_vars PROVE TypeOK'
  OBVIOUS
<1> USE DEF mainVars, workVars, taskVars
<1>0. doc' = doc /\ doc \in Schedules
  BY DocStays DEF IInv, TypeOK
<1>a. Threads' = Threads /\ Tasks' = Tasks
  BY <1>0, Static
<1>1. ASSUME Call \/ WaitIdle \/ SpawnFails \/ LockStart \/ AwaitThreads \/ CountAgain \/ LetGo
      PROVE  TypeOK'
  <2>1. CASE Refuse
    BY <2>1, <1>0, <1>a DEF Refuse, MainStep, IInv, TypeOK, MainState
  <2>2. CASE Load
    BY <2>2, <1>0, <1>a DEF Load, MainStep, IInv, TypeOK, MainState, Named
  <2>3. CASE LoadUnknownThread
    BY <2>3, <1>0, <1>a DEF LoadUnknownThread, MainStep, IInv, TypeOK,
       MainState
  <2>4. CASE Start
    BY <2>4, <1>0, <1>a DEF Start, IInv, TypeOK, MainState
  <2>5. CASE SpawnFails
    BY <2>5, <1>0, <1>a DEF SpawnFails, MainStep, IInv, TypeOK, MainState
  <2>6. CASE LockStart
    BY <2>6, <1>0, <1>a DEF LockStart, MainStep, MutexLock, IInv, TypeOK,
       MainState
  <2>7. CASE AwaitThreads
    BY <2>7, <1>0, <1>a DEF AwaitThreads, MainStep, CondSleep, MutexUnlock,
       IInv, TypeOK, MainState
  <2>8. CASE CountAgain
    BY <2>8, <1>0, <1>a DEF CountAgain, MainStep, CondWake, MutexLock, IInv,
       TypeOK, MainState
  <2>9. CASE LetGo
    BY <2>9, <1>0, <1>a DEF LetGo, MainStep, CondBroadcast, MutexUnlock, IInv,
       TypeOK, MainState
  <2>10. CASE WaitIdle
    BY <2>10, <1>0, <1>a DEF WaitIdle, MainStep, IInv, TypeOK, MainState
  <2>. QED
    BY <1>1, <2>1, <2>2, <2>3, <2>4, <2>5, <2>6, <2>7, <2>8, <2>9, <2>10 DEF
       Call
<1>2. ASSUME NEW t \in Threads, Spawn(t) PROVE TypeOK'
  BY <1>2, <1>0, <1>a DEF Spawn, IInv, TypeOK, WorkState
<1>3. ASSUME NEW t \in Threads, Work(t) PROVE TypeOK'
  <2>1. CASE Arrive(t)
    <3>1. waiting' \in [{Ready, Go} \cup Tasks -> SUBSET (Threads \cup {Main})]
      BY <2>1, SignalWakes DEF Arrive, IInv, TypeOK
    <3>. QED
      BY <2>1, <1>0, <1>a, <3>1, ArriveCounts
         DEF Arrive, WorkStep, MutexLock, IInv, TypeOK, WorkState, Ready, Go
  <2>2. CASE AwaitGo(t)
    BY <2>2, <1>0, <1>a DEF AwaitGo, WorkStep, CondSleep, MutexUnlock, IInv,
       TypeOK, WorkState
  <2>3. CASE WakeToGo(t)
    BY <2>3, <1>0, <1>a DEF WakeToGo, WorkStep, CondWake, MutexLock, IInv,
       TypeOK, WorkState
  <2>4. CASE GoOn(t)
    BY <2>4, <1>0, <1>a DEF GoOn, WorkStep, MutexUnlock, IInv, TypeOK,
       WorkState
  <2>5. CASE LockMonitor(t)
    BY <2>5, <1>0, <1>a DEF LockMonitor, WorkStep, MutexLock, IInv, TypeOK,
       WorkState
  <2>6. CASE FoundDone(t)
    BY <2>6, <1>0, <1>a DEF FoundDone, WorkStep, MutexUnlock, IInv, TypeOK,
       WorkState
  <2>7. CASE FoundNotDone(t)
    BY <2>7, <1>0, <1>a DEF FoundNotDone, WorkStep, IInv, TypeOK, WorkState
  <2>8. CASE SleepOnTask(t)
    BY <2>8, <1>0, <1>a, TargetTasks DEF SleepOnTask, WorkStep, CondSleep,
       MutexUnlock, IInv, TypeOK, WorkState
  <2>9. CASE WakeOnTask(t)
    BY <2>9, <1>0, <1>a DEF WakeOnTask, WorkStep, CondWake, MutexLock, IInv,
       TypeOK, WorkState
  <2>10. CASE CallTask(t)
    <3>1. Current(t) \in Tasks
      BY <2>10, <1>0, TaskForm DEF CallTask, WorkStep, Current, IInv, PosInv, TypeOK
    <3>. QED
      BY <2>10, <1>0, <1>a, <3>1 DEF CallTask, WorkStep, IInv, TypeOK, WorkState
  <2>11. CASE FinishTask(t)
    <3>1. Current(t) \in Tasks
      BY <2>11, <1>0, TaskForm DEF FinishTask, WorkStep, Current, IInv, PosInv, TypeOK
    <3>. QED
      BY <2>11, <1>0, <1>a, <3>1 DEF FinishTask, WorkStep, IInv, TypeOK, WorkState
  <2>12. CASE Publish(t)
    <3>1. waiting' \in [{Ready, Go} \cup Tasks -> SUBSET (Threads \cup {Main})]
      BY <2>12 DEF Publish, CondBroadcast, IInv, TypeOK
    <3>. QED
      BY <2>12, <1>0, <1>a, <3>1 DEF Publish, WorkStep, IInv, TypeOK, WorkState,
         Ready, Go
  <2>13. CASE Leave(t)
    BY <2>13, <1>0, <1>a, LeaveCounts DEF Leave, WorkStep, IInv, TypeOK,
       WorkState
  <2>. QED
    BY <1>3, <2>1, <2>2, <2>3, <2>4, <2>5, <2>6, <2>7, <2>8, <2>9, <2>10,
       <2>11, <2>12, <2>13 DEF Work
<1>4. ASSUME NEW t \in Threads \cup {Main}, Spurious(t) PROVE TypeOK'
  BY <1>4, <1>0, <1>a, BoundAssumption DEF Spurious, SpuriousWake, IInv,
     TypeOK
<1>5. CASE UNCHANGED vars
  BY <1>5, <1>0, <1>a DEF vars, IInv, TypeOK
<1>. QED
  BY <1>1, <1>2, <1>3, <1>4, <1>5 DEF Next, Starting, Call

-----------------------------------------------------------------------------
LEMMA IInit == Init => IInv
<1> SUFFICES ASSUME Init PROVE IInv
  OBVIOUS
<1>1. TypeOK
  <2>1. Cardinality(Threads) \in Nat /\ doc \in Schedules
    BY DocFacts, FS_CardinalityType DEF Init
  <2>2. running_threads \in 0..Cardinality(Threads)
    BY <2>1 DEF Init
  <2>3. /\ owner \in [{Lock} -> Threads \cup {Main, Nobody}]
        /\ waiting \in [{Ready, Go} \cup Tasks -> SUBSET (Threads \cup {Main})]
    BY DEF Init
  <2>4. pc \in [Threads -> WorkState] /\ pos \in [Threads -> Nat \ {0}]
    BY DEF Init, WorkState
  <2>5. starts \in 0..MaxStarts /\ spurious \in 0..MaxSpurious
    BY BoundAssumption DEF Init
  <2>. QED
    BY <2>1, <2>2, <2>3, <2>4, <2>5 DEF Init, TypeOK, MainState
<1>2. Inside = {}
  BY DEF Init, Inside
<1>3. CountInv
  BY <1>2, FS_EmptySet DEF Init, CountInv
<1>4. MainInv /\ LockInv /\ GoInv /\ CalledInv /\ InOrder
  BY DocFacts DEF Init, MainInv, LockInv, GoInv, CalledInv, InOrder
<1>5. PosInv
  BY DocFacts DEF Init, PosInv
<1>6. HistoryInv
  BY TaskForm DEF Init, HistoryInv
<1>. QED
  BY <1>1, <1>3, <1>4, <1>5, <1>6 DEF IInv

(* The inductive invariant. *)
THEOREM Invariance == ASSUME MaxStarts = 1 PROVE Spec => []IInv
<1>1. IInv /\ [Next]_vars => IInv'
  BY TypeStep, MainInvStep, LockStep, CountStep, GoStep, PosStep, HistoryStep,
     CalledStep, OrderStep DEF IInv
<1>. QED
  BY IInit, <1>1, PTL DEF Spec

(* Type correctness; the number of running threads never exceeds that of   *)
(* the document's threads.                                                 *)
THEOREM TypeCorrect == ASSUME MaxStarts = 1 PROVE Spec => []TypeOK
<1>1. IInv => TypeOK
  BY DEF IInv
<1>. QED
  BY Invariance, <1>1, PTL

(* No task runs, and schedule_start does not return, before every thread   *)
(* has arrived.                                                            *)
THEOREM BarrierHolds == ASSUME MaxStarts = 1 PROVE Spec => []StartBarrier
<1>1. ASSUME IInv, begun # {} PROVE go
  <2>1. PICK x \in begun : TRUE
    BY <1>1
  <2>2. /\ x \in Tasks /\ x[1] \in Threads /\ x[2] \in 1..Len(doc[x[1]])
        /\ pos[x[1]] \in Nat
    BY <1>1, TaskForm DEF IInv, TypeOK
  <2>3. pc[x[1]] \in {"unborn", "arrive", "ready", "parked"} =>
          pos[x[1]] = 1
    BY <1>1, <2>2 DEF IInv, PosInv
  <2>4. pc[x[1]] \notin {"unborn", "arrive", "ready", "parked"}
    BY <1>1, <2>2, <2>3 DEF IInv, HistoryInv
  <2>. QED
    BY <1>1, <2>2, <2>4 DEF IInv, GoInv
<1>2. IInv => StartBarrier
  BY <1>1 DEF IInv, GoInv, StartBarrier
<1>. QED
  BY Invariance, <1>2, PTL

(* A task is called only after the tasks that come before it returned,     *)
(* however the waits are woken.                                            *)
THEOREM OrderHolds == ASSUME MaxStarts = 1 PROVE Spec => []InOrder
<1>1. IInv => InOrder
  BY DEF IInv
<1>. QED
  BY Invariance, <1>1, PTL

LEMMA IdleEnds == IInv => IdleMeansEnded
<1> SUFFICES ASSUME IInv, mpc = "idle", NEW x \in Tasks PROVE x \in ended
  BY DEF IdleMeansEnded, IInv, TypeOK
<1>1. x[1] \in Threads /\ x[2] \in 1..Len(doc[x[1]])
  BY TaskForm DEF IInv, TypeOK
<1>2. pc[x[1]] = "gone" /\ pos[x[1]] = Len(doc[x[1]]) + 1
  BY <1>1 DEF IInv, GoInv, PosInv
<1>. QED
  BY <1>1, <1>2, DocFacts DEF IInv, TypeOK, HistoryInv

(* schedule_wait_idle returns only when all tasks have. *)
THEOREM IdleIsEnded == ASSUME MaxStarts = 1 PROVE Spec => []IdleMeansEnded
BY Invariance, IdleEnds, PTL

-----------------------------------------------------------------------------
(* The schedule started once implements AbstractSchedule. *)

LEMMA AbsStutter ==
  ASSUME doc' = doc, begun' = begun, ended' = ended,
         (mpc = "idle") <=> (mpc' = "idle")
  PROVE  UNCHANGED Abs!vars
BY Static DEF Abs!vars

LEMMA AbsStep ==
  MaxStarts = 1 /\ IInv /\ IdleMeansEnded' /\ [Next]_vars
  => [Abs!Next]_Abs!vars
<1> SUFFICES ASSUME MaxStarts = 1, IInv, IdleMeansEnded', [Next]_vars
             PROVE  [Abs!Next]_Abs!vars
  OBVIOUS
<1> USE DEF mainVars, workVars, taskVars
<1>0. /\ doc' = doc /\ Tasks' = Tasks
      /\ [x \in Tasks |-> Before(x)]' = [x \in Tasks |-> Before(x)]
  BY DocStays, Static
<1>1. CASE WaitIdle
  <2>1. ended = Tasks /\ mpc' = "idle"
    BY <1>0, <1>1 DEF WaitIdle, MainStep, IdleMeansEnded
  <2>2. Abs!Tell
    BY <1>0, <1>1, <2>1 DEF WaitIdle, MainStep, Abs!Tell
  <2>. QED
    BY <2>2 DEF Abs!Next
<1>2. ASSUME NEW t \in Threads, CallTask(t) PROVE [Abs!Next]_Abs!vars
  <2>1. Abs!Begin(Current(t))
    BY <1>0, <1>2, CallOrder DEF CallTask, Abs!Begin
  <2>. QED
    BY <1>2, <2>1, CallOrder DEF Abs!Next
<1>3. ASSUME NEW t \in Threads, FinishTask(t) PROVE [Abs!Next]_Abs!vars
  <2>1. Current(t) \in Tasks /\ Current(t) \in begun \ ended
    BY <1>3, TaskForm DEF FinishTask, WorkStep, Current, IInv, TypeOK, PosInv,
       HistoryInv
  <2>2. Abs!End(Current(t))
    BY <1>0, <1>3, <2>1 DEF FinishTask, Abs!End
  <2>. QED
    BY <2>1, <2>2 DEF Abs!Next
<1>4. CASE Start
  <2>1. begun = {} /\ ended = {}
    BY <1>4, TaskForm DEF Start, IInv, TypeOK, MainInv, HistoryInv, PosInv
  <2>. QED
    BY <1>0, <1>4, <2>1, AbsStutter DEF Start, IInv, TypeOK, MainInv
<1>5. CASE Refuse \/ Load \/ LoadUnknownThread \/ SpawnFails \/ LockStart
           \/ AwaitThreads \/ CountAgain \/ LetGo
  BY <1>0, <1>5, AbsStutter DEF Refuse, Load, LoadUnknownThread, SpawnFails,
     LockStart, AwaitThreads, CountAgain, LetGo, MainStep
<1>6. ASSUME NEW t \in Threads, Spawn(t) PROVE [Abs!Next]_Abs!vars
  BY <1>0, <1>6, AbsStutter DEF Spawn
<1>7. ASSUME NEW t \in Threads,
             \/ Arrive(t) \/ AwaitGo(t) \/ WakeToGo(t) \/ GoOn(t)
             \/ LockMonitor(t) \/ FoundDone(t) \/ FoundNotDone(t)
             \/ SleepOnTask(t) \/ WakeOnTask(t) \/ Publish(t) \/ Leave(t)
      PROVE  [Abs!Next]_Abs!vars
  BY <1>0, <1>7, AbsStutter DEF Arrive, AwaitGo, WakeToGo, GoOn, LockMonitor,
     FoundDone, FoundNotDone, SleepOnTask, WakeOnTask, Publish, Leave
<1>8. ASSUME NEW t \in Threads \cup {Main}, Spurious(t)
      PROVE  [Abs!Next]_Abs!vars
  BY <1>0, <1>8, AbsStutter DEF Spurious
<1>9. CASE UNCHANGED vars
  BY <1>0, <1>9, AbsStutter DEF vars
<1>. QED
  BY <1>1, <1>2, <1>3, <1>4, <1>5, <1>6, <1>7, <1>8, <1>9
     DEF Next, Call, Starting, Work

(* Every behaviour of a schedule started once is one AbstractSchedule      *)
(* allows.                                                                 *)
THEOREM Refinement == ASSUME MaxStarts = 1 PROVE Spec => Implements
<1>1. Init => Abs!Init
  BY DEF Init, Abs!Init
<1>2. IInv /\ IdleMeansEnded' /\ [Next]_vars => [Abs!Next]_Abs!vars
  BY AbsStep
<1>. QED
  BY <1>1, <1>2, Invariance, IdleIsEnded, PTL DEF Spec, Implements, Abs!Spec

=============================================================================
