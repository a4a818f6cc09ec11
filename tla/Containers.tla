------------------------------ MODULE Containers ------------------------------
(***************************************************************************)
(* One container of src/data other than a tree, of any of the kinds in     *)
(* Kind, in the hands of its callers.  obj is the structure, aux what its  *)
(* module keeps besides (threads inside an operation, a mutex left locked, *)
(* released elements).                                                     *)
(***************************************************************************)
EXTENDS Container

CONSTANT Kind

VARIABLES kind, obj, aux, answer

vars == <<kind, obj, aux, answer>>

Table    == INSTANCE HashTable WITH table <- obj
Priority == INSTANCE PriorityQueue WITH queue <- obj, pc <- aux
Fifo     == INSTANCE Queue WITH queue <- obj
Deque    == INSTANCE DoubleQueue WITH queue <- obj, locked <- aux
Lifo     == INSTANCE Stack WITH stack <- obj, pc <- aux
Lru      == INSTANCE Cache WITH cache <- obj, freed <- aux
Chained  == INSTANCE Dict WITH dict <- obj, freed <- aux
Vector   == INSTANCE Array WITH array <- obj
Unique   == INSTANCE Set WITH set <- obj

-----------------------------------------------------------------------------

Init ==
  /\ kind \in Kind
  /\ \/ kind = "hash_table"     /\ Table!Init /\ aux = Null
     \/ kind = "priority_queue" /\ Priority!Init
     \/ kind = "queue"          /\ Fifo!Init /\ aux = Null
     \/ kind = "double_queue"   /\ Deque!Init
     \/ kind = "stack"          /\ Lifo!Init
     \/ kind = "cache"          /\ Lru!Init
     \/ kind = "dict"           /\ Chained!Init
     \/ kind = "array"          /\ Vector!Init /\ aux = Null
     \/ kind = "set"            /\ Unique!Init /\ aux = Null

Next ==
  /\ UNCHANGED kind
  /\ \/ kind = "hash_table"     /\ Table!Next /\ UNCHANGED aux
     \/ kind = "priority_queue" /\ Priority!Next
     \/ kind = "queue"          /\ Fifo!Next /\ UNCHANGED aux
     \/ kind = "double_queue"   /\ Deque!Next
     \/ kind = "stack"          /\ Lifo!Next
     \/ kind = "cache"          /\ Lru!Next
     \/ kind = "dict"           /\ Chained!Next
     \/ kind = "array"          /\ Vector!Next /\ UNCHANGED aux
     \/ kind = "set"            /\ Unique!Next /\ UNCHANGED aux

Spec == Init /\ [][Next]_vars

(* A thread that called an operation of the priority queue goes on when it *)
(* can have the mutex.                                                     *)
FairSpec ==
  /\ Spec
  /\ \A t \in Thread : WF_vars(kind = "priority_queue" /\ UNCHANGED kind
       /\ (Priority!Dequeue(t) \/ Priority!Leaks(t) \/ Priority!Empty(t)
           \/ \E e \in Element : Priority!Enqueue(t, e)))

-----------------------------------------------------------------------------
(* What may be relied on, kind by kind; the modules say what each means.   *)

TypeOK ==
  /\ kind = "hash_table" => Table!TypeOK
  /\ kind = "priority_queue" => Priority!TypeOK
  /\ kind = "queue" => Fifo!TypeOK
  /\ kind = "double_queue" => Deque!TypeOK
  /\ kind = "stack" => Lifo!TypeOK
  /\ kind = "cache" => Lru!TypeOK
  /\ kind = "dict" => Chained!TypeOK
  /\ kind = "array" => Vector!TypeOK
  /\ kind = "set" => Unique!TypeOK

(* Hash table and dictionary: every element stored is found by its key,    *)
(* the counts are right, and nothing released is still stored.             *)
KeysFound ==
  /\ kind = "hash_table" => Table!TableInv /\ Table!Findable
  /\ kind = "dict" => Chained!DictInv

(* Priority queue: no entry ranks above the one over it.                   *)
HeapOrder == kind = "priority_queue" => Priority!HeapOrder

(* Queue and double queue: the links lead from each end to the other and   *)
(* meet only nodes that were not released.                                 *)
Linked ==
  /\ kind = "queue" => Fifo!Linked
  /\ kind = "double_queue" => Deque!LinkedBothWays

(* Cache: one live element a key, none that was released, within the size. *)
Sound == kind = "cache" => Lru!Sound

(* Array: an addition always has a place to go, after growing too.         *)
HasRoom == kind = "array" => Vector!HasRoom

(* Set: when its function returns 0 for equal elements, no two of them are *)
(* equal, and union, difference and intersection with any small set are    *)
(* those of sets.  default_equality returns 1 for equal pointers: of a set *)
(* that is given no function nothing of this may be relied on.             *)
SetLaws == kind = "set" => Unique!Laws

(* A packed container unpacks to what was packed: the same elements under  *)
(* the same keys, in the same order of use for the cache, in the opposite  *)
(* order for the double queue, with more room for the array.               *)
RoundTrip ==
  /\ kind = "hash_table" => Table!RoundTrip
  /\ kind = "double_queue" => Deque!RoundTripReverses
  /\ kind = "queue" => Fifo!RoundTrip
  /\ kind = "stack" => Lifo!RoundTrip
  /\ kind = "cache" => Lru!RoundTrip
  /\ kind = "dict" => Chained!RoundTrip
  /\ kind = "array" => Vector!RoundTrip

(* The callers of a hash table and of a dictionary see elements by key.    *)
MapImplements ==
  [][/\ kind = "hash_table" => Table!Abs!TableNext
     /\ kind = "dict" => Chained!Abs!DictNext]_<<obj, aux, answer>>

(* The callers see the order of a queue, of a double ended queue and, when *)
(* one thread uses it, of a stack.                                         *)
SequenceImplements ==
  [][/\ kind = "queue" => Fifo!Abs!FifoNext
     /\ kind = "double_queue" => Deque!Abs!DequeNext
     /\ kind = "stack" => Lifo!Abs!LifoNext]_<<obj, answer>>

(* What comes out of a priority queue ranks highest.                       *)
PriorityImplements ==
  [][kind = "priority_queue" => Priority!Abs!Next]_<<obj, answer>>

(* A cache drops the element used least recently.                          *)
LruImplements ==
  [][kind = "cache" => Lru!Abs!LruNext]_<<obj, answer>>

(* The callers of an array see a sequence with signed indices, and get the *)
(* element of the very index they ask for.  When the memory for growing is *)
(* refused the elements are lost, and Differs of Array names two answers   *)
(* that are not what array.h says.                                         *)
ArrayImplements ==
  [][kind = "array" /\ obj'.elements # Vector!Unset =>
       Vector!Abs!ArrayNext \/ Vector!Differs]_<<obj, answer>>

-----------------------------------------------------------------------------
(* What the comments of the source promise and the code does not keep.     *)

(* The mutex of a stack is "locked when reading/writing values": threads   *)
(* that push and pop together stay inside the array.                       *)
StaysInBounds == kind = "stack" => Lifo!StaysInBounds

(* A call that locks the priority queue returns 1 or 0.                    *)
CallReturns == \A t \in Thread :
  kind = "priority_queue" /\ aux[t] # "idle" ~> kind = "priority_queue" /\ aux[t] = "idle"

=============================================================================
