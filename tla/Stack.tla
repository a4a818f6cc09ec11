-------------------------------- MODULE Stack --------------------------------
(***************************************************************************)
(* src/data/stack/stack.c.  push, pop and peek look at the offset before   *)
(* they take the mutex, so each is two steps: the look, and what is done   *)
(* with the mutex.                                                         *)
(***************************************************************************)
EXTENDS Container

VARIABLES
  stack,      \* size, offset and _p_data
  pc,         \* pc[t]: what thread t, past its look, goes on to do
  answer

vars == <<stack, pc, answer>>

Idle == <<"idle">>

Construct(n) == [size |-> n, offset |-> 0, data |-> [s \in Slot |-> Null]]

Full == stack.size = stack.offset
Bare == stack.offset < 1

(* Beyond the array nothing is known, and the model stops there. *)
StaysInBounds == stack.offset \in 0..stack.size

-----------------------------------------------------------------------------
(* The look, without the mutex. *)

StartPush(t, e) ==
  /\ pc[t] = Idle
  /\ ~Full
  /\ pc' = [pc EXCEPT ![t] = <<"push", e>>]
  /\ UNCHANGED <<stack, answer>>

Overflow(t) ==
  /\ pc[t] = Idle
  /\ Full
  /\ answer' = Nothing
  /\ UNCHANGED <<stack, pc>>

Start(t, op) ==
  /\ pc[t] = Idle
  /\ ~Bare
  /\ pc' = [pc EXCEPT ![t] = <<op>>]
  /\ UNCHANGED <<stack, answer>>

Underflow(t) ==
  /\ pc[t] = Idle
  /\ Bare
  /\ answer' = Nothing
  /\ UNCHANGED <<stack, pc>>

-----------------------------------------------------------------------------
(* What is done with the mutex. *)

Return(t, x) == pc' = [pc EXCEPT ![t] = Idle] /\ answer' = x

(* Mutant: advance first. *)
Store_After(t) ==
  /\ pc[t][1] = "push"
  /\ stack' = [stack EXCEPT
       !.data = [s \in Slot |-> IF s = stack.offset + 1 THEN pc[t][2] ELSE @[s]],
       !.offset = @ + 1]
  /\ Return(t, <<>>)

Store(t) ==
  /\ pc[t][1] = "push"
  /\ stack' = [stack EXCEPT
       !.data = [s \in Slot |-> IF s = stack.offset THEN pc[t][2] ELSE @[s]],
       !.offset = @ + 1]
  /\ Return(t, <<>>)

(* The offset is a size_t: what is below 0 here is a huge index there. *)
Pop(t) ==
  /\ pc[t][1] = "pop"
  /\ stack' = [stack EXCEPT
       !.data = [s \in Slot |-> IF s = stack.offset - 1 THEN Null ELSE @[s]],
       !.offset = @ - 1]
  /\ Return(t, IF Bare THEN Nothing ELSE <<stack.data[stack.offset - 1]>>)

Peek(t) ==
  /\ pc[t][1] = "peek"
  /\ Return(t, IF Bare THEN Nothing ELSE <<stack.data[stack.offset - 1]>>)
  /\ UNCHANGED stack

-----------------------------------------------------------------------------
(* stack_is_empty, stack_fori and stack_pack take the mutex first. *)

Contents(s) == [i \in 1..s.offset |-> s.data[i - 1]]

Hash(s) == Hashed(Contents(s))

(* stack_hash does not take the mutex at all. *)
SeeAll(t) ==
  /\ pc[t] = Idle
  /\ answer' \in {<<"all", Contents(stack)>>, <<"hash", Hash(stack)>>}
  /\ UNCHANGED <<stack, pc>>

(* stack_destroy, when no thread is inside, and stack_construct for one of *)
(* the same size.  The elements are not released.                          *)
Renew ==
  /\ \A t \in Thread : pc[t] = Idle
  /\ stack' = Construct(stack.size)
  /\ answer' = <<"released", <<>>>>
  /\ UNCHANGED pc

IsEmpty(t) ==
  /\ pc[t] = Idle
  /\ answer' = <<stack.offset = 0>>
  /\ UNCHANGED <<stack, pc>>

Pack(s) == [size |-> s.size, body |-> Contents(s)]

(* stack_unpack pushes what it reads, first to last. *)
Unpack(p) ==
  Through(LAMBDA s, e : [s EXCEPT !.data[s.offset] = e, !.offset = @ + 1],
          Construct(p.size), p.body)

Init ==
  /\ stack \in {Construct(n) : n \in 1..Size}
  /\ pc = [t \in Thread |-> Idle]
  /\ answer = <<>>

Next == StaysInBounds /\ (Renew \/ \E t \in Thread :
  \/ \E e \in Element : StartPush(t, e)
  \/ \E op \in {"pop", "peek"} : Start(t, op)
  \/ Overflow(t) \/ Underflow(t)
  \/ Store(t) \/ Pop(t) \/ Peek(t) \/ SeeAll(t) \/ IsEmpty(t))

Spec == Init /\ [][Next]_vars

-----------------------------------------------------------------------------
(* What may be relied on when one thread uses the stack. *)

TypeOK ==
  /\ stack \in [size : 1..Size, offset : -Size..2 * Size, data : [Slot -> Element \cup {Null}]]
  /\ pc \in [Thread -> {Idle, <<"pop">>, <<"peek">>} \cup {<<"push", e>> : e \in Element}]

Abs == INSTANCE AbstractSequence WITH items <- Contents(stack), capacity <- stack.size

(* A packed stack unpacks to one with its size and its elements in place. *)
RoundTrip == Unpack(Pack(stack)) = stack

=============================================================================
