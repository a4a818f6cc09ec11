-------------------------------- MODULE Dict --------------------------------
(***************************************************************************)
(* src/data/dict/dict.c: an array of chains.  Of a key's hash only the     *)
(* chain it selects matters.                                               *)
(***************************************************************************)
EXTENDS Container

VARIABLES
  dict,       \* max, count and data, with each chain a sequence
  freed,      \* history: what pfn_allocator released and is not added again
  answer

vars == <<dict, freed, answer>>

Construct(n) == [max |-> n, count |-> 0, data |-> [s \in 0..n - 1 |-> <<>>]]

Home(d, k) == HashOf[k] % d.max

Chain(d, k) == d.data[Home(d, k)]

(* The place, if any, at which the walk along the chain of k ends early. *)
Match(d, k) ==
  {i \in DOMAIN Chain(d, k) : KeyOf[Chain(d, k)[i]] = k
                              /\ \A j \in 1..i - 1 : KeyOf[Chain(d, k)[j]] # k}

(* The chain of k becomes c, and the count changes by n. *)
Relink(d, k, c, n) ==
  [max |-> d.max, count |-> d.count + n, data |-> [d.data EXCEPT ![Home(d, k)] = c]]

-----------------------------------------------------------------------------
(* Operations. *)

Get(k) ==
  /\ \E i \in Match(dict, k) : answer' = <<Chain(dict, k)[i]>>
  /\ UNCHANGED <<dict, freed>>

GetFails(k) ==
  /\ Match(dict, k) = {}
  /\ answer' = Nothing
  /\ UNCHANGED <<dict, freed>>

(* A new key goes in front of its chain. *)
Push(d, e) == Relink(d, KeyOf[e], <<e>> \o Chain(d, KeyOf[e]), 1)

Add(e) ==
  /\ Match(dict, KeyOf[e]) = {}
  /\ dict' = Push(dict, e)
  /\ freed' = freed \ {e}
  /\ answer' = <<>>

NoMemory(e) ==
  /\ Match(dict, KeyOf[e]) = {}
  /\ answer' = Nothing
  /\ UNCHANGED <<dict, freed>>

(* Mutant: release what is stored, after storing. *)
Exchange_Late(d, f, i, e) ==
  /\ dict' = Relink(d, KeyOf[e], [Chain(d, KeyOf[e]) EXCEPT ![i] = e], 0)
  /\ freed' = IF Chain(d, KeyOf[e])[i] = e THEN f ELSE f \cup {e}

(* The old element is released, unless it is stored again. *)
Exchange(d, f, i, e) ==
  /\ dict' = Relink(d, KeyOf[e], [Chain(d, KeyOf[e]) EXCEPT ![i] = e], 0)
  /\ freed' = (f \cup {Chain(d, KeyOf[e])[i]}) \ {e}

Replace(e) ==
  /\ \E i \in Match(dict, KeyOf[e]) : Exchange(dict, freed, i, e)
  /\ answer' = <<>>

(* Mutant: cut the chain off at the item removed. *)
Cut_Rest(d, k, i) == Relink(d, k, SubSeq(Chain(d, k), 1, i - 1), -1)

Cut(d, k, i) ==
  LET row == Chain(d, k)
  IN  Relink(d, k, SubSeq(row, 1, i - 1) \o SubSeq(row, i + 1, Len(row)), -1)

Pop(k) ==
  /\ \E i \in Match(dict, k) :
       /\ answer' = <<Chain(dict, k)[i]>>
       /\ dict' = Cut(dict, k, i)
  /\ UNCHANGED freed

PopFails(k) ==
  /\ Match(dict, k) = {}
  /\ answer' = Nothing
  /\ UNCHANGED <<dict, freed>>

Count == answer' = <<dict.count>> /\ UNCHANGED <<dict, freed>>

(* The chains one after another. *)
Contents(d) == Flat([n \in 1..d.max |-> d.data[n - 1]])

Hash(d) == Hashed(Contents(d))

SeeAll ==
  /\ answer' \in {<<"all", Contents(dict)>>, <<"hash", Hash(dict)>>}
  /\ UNCHANGED <<dict, freed>>

(* dict_destroy, and dict_construct for another of its size.               *)
Renew ==
  /\ dict' = Construct(dict.max)
  /\ freed' = freed \cup Range(Contents(dict))
  /\ answer' = <<"released", Contents(dict)>>

SmallerOf(m, n) == IF m < n THEN m ELSE n

(* dict_values looks at the limit after it has stored an element. *)
Values(limit) ==
  /\ answer' = <<"first", SubSeq(Contents(dict), 1,
       SmallerOf(dict.count, IF limit = 0 THEN 1 ELSE limit))>>
  /\ UNCHANGED <<dict, freed>>

Pack(d) == [max |-> d.max, count |-> d.count, body |-> Contents(d)]

(* dict_unpack adds what it reads; the keys are all different. *)
Unpack(p) == Through(Push, Construct(p.max), SubSeq(p.body, 1, p.count))

Init ==
  /\ dict \in {Construct(n) : n \in 1..Size}
  /\ freed = {}
  /\ answer = <<>>

Next ==
  \/ \E k \in Key : Get(k) \/ GetFails(k) \/ Pop(k) \/ PopFails(k)
  \/ \E e \in Element : Add(e) \/ NoMemory(e) \/ Replace(e)
  \/ \E limit \in 0..Cardinality(Key) : Values(limit)
  \/ Count \/ SeeAll \/ Renew

Spec == Init /\ [][Next]_vars

-----------------------------------------------------------------------------
(* What may be relied on. *)

TypeOK ==
  /\ \E n \in 1..Size : dict \in [max : {n}, count : Nat, data : [0..n - 1 -> Seq(Element)]]
  /\ freed \subseteq Element

(* Every element is in the chain of its key, no key is there twice, the    *)
(* count is right, and nothing released is left in a chain.                *)
DictInv ==
  /\ TypeOK
  /\ \A s \in 0..dict.max - 1 :
       /\ \A i \in DOMAIN dict.data[s] : Home(dict, KeyOf[dict.data[s][i]]) = s
       /\ IsInjective([i \in DOMAIN dict.data[s] |-> KeyOf[dict.data[s][i]]])
  /\ dict.count = Len(Contents(dict))
  /\ Range(Contents(dict)) \cap freed = {}

Value(d) ==
  [k \in Key |-> IF Match(d, k) = {} THEN Null
                 ELSE Chain(d, k)[CHOOSE i \in Match(d, k) : TRUE]]

(* The chains of an unpacked dictionary run the other way; for every key   *)
(* it holds the same element.                                              *)
RoundTrip ==
  LET copy == Unpack(Pack(dict))
  IN  copy.count = dict.count /\ Value(copy) = Value(dict)

Abs == INSTANCE AbstractMap WITH
  stored <- [k \in Key |-> IF Value(dict)[k] = Null THEN <<>> ELSE <<Value(dict)[k]>>]

=============================================================================
