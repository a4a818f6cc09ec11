----------------------------- MODULE MCSchedule -----------------------------
(* Schedule on documents shaped like those of resources/performance.       *)
EXTENDS Schedule

E(n) == [name |-> n, wait |-> NoWait]
W(n, t, m) == [name |-> n, wait |-> <<t, m>>]

(* schedule_1.json: three threads that wait for one another.  Two tasks of *)
(* a thread share a name.                                                  *)
Jokes ==
  [Alice   |-> << E("joke"), W("laugh", "Charlie", "joke"), W("laugh", "Bob", "joke") >>,
   Bob     |-> << W("laugh", "Alice", "joke"), W("laugh", "Charlie", "joke"), W("joke", "Alice", "laugh") >>,
   Charlie |-> << W("laugh", "Alice", "joke"), W("joke", "Bob", "laugh"), W("laugh", "Bob", "joke") >>]

(* schedule_2.json: one task that three threads wait for, and one that      *)
(* waits for a task Charlie does not have.                                 *)
Crowd ==
  [Alice   |-> << E("joke"), W("laugh", "Charlie", "joke"), W("laugh", "Bob", "joke") >>,
   Bob     |-> << W("laugh", "Alice", "joke") >>,
   Charlie |-> << W("laugh", "Alice", "joke") >>,
   Dan     |-> << W("laugh", "Alice", "joke") >>]

(* A thread without tasks, a wait for the own thread's past, and a name    *)
(* that occurs twice where it is waited for.                               *)
Corner ==
  [Alice |-> << E("joke"), W("joke", "Alice", "joke") >>,
   Bob   |-> << W("laugh", "Alice", "joke") >>,
   Charlie |-> << >>]

Unregistered == [Alice |-> << E("sneeze") >>]
Stranger == [Alice |-> << W("laugh", "Frank", "joke") >>]

People == {"Alice", "Bob", "Charlie", "Dan"}
Words == {"joke", "laugh"}

SoundDocs == {Jokes, Crowd, Corner, Unregistered, Stranger}

=============================================================================
