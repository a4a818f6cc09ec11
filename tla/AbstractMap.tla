----------------------------- MODULE AbstractMap -----------------------------
(***************************************************************************)
(* Elements by their key.  A dictionary of src/data promises its callers   *)
(* DictNext: one element a key, the one added last.  A hash table promises *)
(* TableNext: an insertion of a key it holds may be ignored or may hide    *)
(* the element it holds until the new one is removed; which, depends on    *)
(* slots the caller does not see.                                          *)
(***************************************************************************)
EXTENDS Naturals, Sequences, FiniteSets, Functions

CONSTANTS Element, Key, KeyOf, Nothing

VARIABLES
  stored,     \* stored[k]: the elements with key k, the visible one first
  freed,      \* what was released and has not been added again
  answer

vars == <<stored, freed, answer>>

None == [k \in Key |-> <<>>]
Held == UNION {Range(stored[k]) : k \in Key}

Init == stored = None /\ freed = {} /\ answer = <<>>

Search(k) ==
  /\ answer' = IF stored[k] = <<>> THEN Nothing ELSE <<Head(stored[k])>>
  /\ UNCHANGED <<stored, freed>>

Remove(k) ==
  /\ stored[k] # <<>>
  /\ answer' = <<Head(stored[k])>>
  /\ stored' = [stored EXCEPT ![k] = Tail(@)]
  /\ UNCHANGED freed

(* Only an element whose key is not held can be turned away. *)
Refuse(e) ==
  /\ answer' = Nothing
  /\ stored[KeyOf[e]] = <<>>
  /\ UNCHANGED <<stored, freed>>

Insert(e) ==
  /\ answer' = <<>>
  /\ stored' = [stored EXCEPT ![KeyOf[e]] = <<e>> \o @]
  /\ UNCHANGED freed

InsertIgnored(e) ==
  /\ answer' = <<>>
  /\ stored[KeyOf[e]] # <<>>
  /\ UNCHANGED <<stored, freed>>

(* The element replaced is released, unless it is the one added. *)
Add(e) ==
  /\ answer' = <<>>
  /\ stored' = [stored EXCEPT ![KeyOf[e]] = <<e>>]
  /\ freed' = (freed \cup Range(stored[KeyOf[e]])) \ {e}

(* A table counts what it ever held as well. *)
CountTable == answer' \in [{1} -> Nat] /\ UNCHANGED <<stored, freed>>
CountDict  == answer' = <<Cardinality(Held)>> /\ UNCHANGED <<stored, freed>>

(* Whether s has every element, in no particular order. *)
Lists(s) ==
  \A k \in Key :
    LET with == {i \in DOMAIN s : KeyOf[s[i]] = k}
        kept == stored[k]
    IN  Cardinality(with) = Len(kept) /\ {s[i] : i \in with} = Range(kept)

Shows(what) == answer' # Nothing /\ Len(answer') = 2 /\ answer'[1] = what

SeeAll == Shows("all") /\ Lists(answer'[2]) /\ UNCHANGED <<stored, freed>>

(* As many as asked for, no element twice. *)
SeeFirst ==
  /\ Shows("first") /\ IsInjective(answer'[2]) /\ Range(answer'[2]) \subseteq Held
  /\ UNCHANGED <<stored, freed>>

(* What is held an odd number of times. *)
Hash ==
  /\ Shows("hash")
  /\ answer'[2] = {e \in Element :
       Cardinality({i \in DOMAIN stored[KeyOf[e]] : stored[KeyOf[e]][i] = e}) % 2 = 1}
  /\ UNCHANGED <<stored, freed>>

(* Everything is given up, and an empty one takes its place. *)
Renew == Shows("released") /\ Lists(answer'[2]) /\ stored' = None
RenewTable == Renew /\ UNCHANGED freed
RenewDict  == Renew /\ freed' = freed \cup Held

TableNext ==
  \/ CountTable \/ SeeAll \/ Hash \/ RenewTable
  \/ \E e \in Element : Insert(e) \/ InsertIgnored(e) \/ Refuse(e)
  \/ \E k \in Key : Search(k) \/ Remove(k)

DictNext ==
  \/ CountDict \/ SeeAll \/ SeeFirst \/ Hash \/ RenewDict
  \/ \E e \in Element : Add(e) \/ Refuse(e)
  \/ \E k \in Key : Search(k) \/ Remove(k)

=============================================================================
