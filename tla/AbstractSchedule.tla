-------------------------- MODULE AbstractSchedule --------------------------
(***************************************************************************)
(* What a schedule promises to the program that starts it and waits for it *)
(* (src/performance/parallel/schedule.h): every task runs once, no task    *)
(* begins before the tasks it comes after have ended, and whoever waits    *)
(* for the schedule is told only when all of them have ended.              *)
(***************************************************************************)

VARIABLES
  tasks,          \* the tasks of the schedule
  before,         \* before[x]: the tasks that end before x begins
  begun, ended,   \* the tasks that have begun, and those that have ended
  told            \* schedule_wait_idle has returned

vars == <<tasks, before, begun, ended, told>>

Init ==
  /\ begun = {} /\ ended = {}
  /\ told = FALSE

Begin(x) ==
  /\ x \notin begun
  /\ before[x] \subseteq ended
  /\ begun' = begun \cup {x}
  /\ UNCHANGED <<tasks, before, ended, told>>

End(x) ==
  /\ x \in begun \ ended
  /\ ended' = ended \cup {x}
  /\ UNCHANGED <<tasks, before, begun, told>>

Tell ==
  /\ ended = tasks
  /\ told' = TRUE
  /\ UNCHANGED <<tasks, before, begun, ended>>

Next == Tell \/ \E x \in tasks : Begin(x) \/ End(x)

Spec == Init /\ [][Next]_vars

=============================================================================
