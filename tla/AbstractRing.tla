---------------------------- MODULE AbstractRing ----------------------------
(***************************************************************************)
(* "Specialized FIFO; Overflows replace the least recently added element"  *)
(* (documentation/md/data/circular_buffer.md): a bounded sequence that any *)
(* number of threads use one operation at a time, and what the operation a *)
(* thread completed last has given it.                                     *)
(***************************************************************************)
EXTENDS Naturals, Sequences

CONSTANTS Thread, Value, Length, Nothing

VARIABLES items, answer

vars == <<items, answer>>

Answer(t, x) == answer' = [answer EXCEPT ![t] = x]

Init == items \in Seq(Value) /\ Len(items) <= Length

(* A push into a full ring drops the oldest element. *)
Push(t, v) ==
  /\ items' = IF Len(items) = Length THEN Append(Tail(items), v)
              ELSE Append(items, v)
  /\ Answer(t, <<>>)

Pop(t) ==
  /\ items # <<>>
  /\ items' = Tail(items)
  /\ Answer(t, <<Head(items)>>)

Peek(t) ==
  /\ items # <<>>
  /\ Answer(t, <<Head(items)>>)
  /\ UNCHANGED items

Fails(t) ==
  /\ items = <<>>
  /\ Answer(t, <<Nothing>>)
  /\ UNCHANGED items

(* Size, and all elements in their order. *)
Size(t) == Answer(t, <<Len(items)>>) /\ UNCHANGED items
Visit(t) == Answer(t, items) /\ UNCHANGED items

(* Replace each element by its image. *)
Map(t, f) ==
  /\ items' = [i \in 1..Len(items) |-> f[items[i]]]
  /\ Answer(t, <<>>)

(* The ring is given up, its elements oldest first, for an empty one. *)
Renew(t) == items' = <<>> /\ Answer(t, items)

Next == \E t \in Thread :
  \/ Pop(t) \/ Peek(t) \/ Fails(t) \/ Size(t) \/ Visit(t) \/ Renew(t)
  \/ \E v \in Value : Push(t, v)
  \/ \E f \in [Value -> Value] : Map(t, f)

Spec == Init /\ [][Next]_vars

=============================================================================
