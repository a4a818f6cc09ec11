-------------------------------- MODULE Sync --------------------------------
(***************************************************************************)
(* The synchronization primitives of src/core/sync/sync.c that the modules *)
(* of the SDK block on, as operators over two variables: who owns each     *)
(* mutex and which threads sleep on each condition variable.  A component  *)
(* declares the two variables and takes the operators with INSTANCE.       *)
(*                                                                         *)
(* The wrappers forward to pthreads and add nothing but argument checks, so *)
(* their meaning here is the meaning POSIX gives the call they forward to. *)
(* A notification wakes only a thread that already sleeps: none is stored. *)
(***************************************************************************)

CONSTANTS
  Nobody      \* the owner of a free mutex

VARIABLES
  owner,      \* owner[m]: the thread that holds mutex m, or Nobody
  waiting     \* waiting[c]: the threads asleep on condition variable c

-----------------------------------------------------------------------------
(* Mutexes.  Locking is enabled only when the mutex is free: a thread that *)
(* finds it taken, its own thread included, blocks.                        *)

MutexLock(t, m) ==
  /\ owner[m] = Nobody
  /\ owner' = [owner EXCEPT ![m] = t]

MutexUnlock(t, m) ==
  /\ owner[m] = t
  /\ owner' = [owner EXCEPT ![m] = Nobody]

-----------------------------------------------------------------------------
(* Condition variables. *)

(* Release the mutex and fall asleep, in one step. *)
CondSleep(t, c, m) ==
  /\ MutexUnlock(t, m)
  /\ waiting' = [waiting EXCEPT ![c] = @ \cup {t}]

(* Return from the wait: no longer asleep, and the mutex is ours again. *)
CondWake(t, c, m) ==
  /\ t \notin waiting[c]
  /\ MutexLock(t, m)

(* Wake one sleeper if there is one. *)
CondSignal(c) ==
  IF waiting[c] = {}
  THEN UNCHANGED waiting
  ELSE \E t \in waiting[c] : waiting' = [waiting EXCEPT ![c] = @ \ {t}]

CondBroadcast(c) == waiting' = [waiting EXCEPT ![c] = {}]

(* POSIX lets a wait return although nobody signalled. *)
SpuriousWake(t, c) ==
  /\ t \in waiting[c]
  /\ waiting' = [waiting EXCEPT ![c] = @ \ {t}]

-----------------------------------------------------------------------------
(* Monitors: a condition variable with a mutex of its own that only the    *)
(* waiters take, for no longer than it takes to fall asleep or to return,  *)
(* and no predicate.  Notifying does not take the mutex.                   *)

MonitorSleep(t, c) == waiting' = [waiting EXCEPT ![c] = @ \cup {t}]

MonitorAwake(t, c) == t \notin waiting[c]

MonitorNotify(c) == CondSignal(c)

MonitorNotifyAll(c) == CondBroadcast(c)

=============================================================================
