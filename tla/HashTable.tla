------------------------------ MODULE HashTable ------------------------------
(***************************************************************************)
(* src/data/hash_table/hash_table.c: open addressing with three ways to    *)
(* probe.  Removing leaves a tombstone, so that a search goes on past it;  *)
(* an insertion reuses the first tombstone it meets.                       *)
(***************************************************************************)
EXTENDS Container

VARIABLES
  table,      \* the structure: _type, pp_data, logical and physical
  answer      \* what the last operation gave its caller

vars == <<table, answer>>

Resolution == {"LINEAR_PROBE", "QUADRATIC_PROBE", "DOUBLE_HASH"}

Construct(type) ==
  [type |-> type, slot |-> [s \in Slot |-> Null], logical |-> 0, physical |-> 0]

-----------------------------------------------------------------------------
(* Probing. *)

Home(k) == HashOf[k] % Size

(* The stride of double hashing comes from the same hash. *)
Stride(k) == 1 + (HashOf[k] % (IF Size > 1 THEN Size - 1 ELSE 1))

Probe(type, k, i) ==
  CASE type = "LINEAR_PROBE"    -> (Home(k) + i) % Size
    [] type = "QUADRATIC_PROBE" -> (Home(k) + i * i) % Size
    [] OTHER                    -> (Home(k) + i * Stride(k)) % Size

(* The content of the slot of k's i-th probe. *)
At(t, k, i) == t.slot[Probe(t.type, k, i)]

Matches(t, k, i) == At(t, k, i) \in Element /\ KeyOf[At(t, k, i)] = k

Free(t, k, i) == At(t, k, i) \in {Null, Tombstone}

(* Mutant: a tombstone ends the search. *)
Found_StopsAtTombstone(t, k) ==
  {i \in Slot : Matches(t, k, i) /\ \A j \in 0..i - 1 : ~Free(t, k, j) /\ ~Matches(t, k, j)}

(* The probe, if any, at which a search for k succeeds: it ends at the     *)
(* first match or unused slot and passes over tombstones.                  *)
Found(t, k) ==
  {i \in Slot : Matches(t, k, i)
                /\ \A j \in 0..i - 1 : At(t, k, j) # Null /\ ~Matches(t, k, j)}

(* The probe at which an insertion of k ends: a match, or a slot to use. *)
Landing(t, k) ==
  {i \in Slot : (Free(t, k, i) \/ Matches(t, k, i))
                /\ \A j \in 0..i - 1 : ~Free(t, k, j) /\ ~Matches(t, k, j)}

-----------------------------------------------------------------------------
(* Operations. *)

Put(t, s, x, l, p) ==
  [type |-> t.type, slot |-> [t.slot EXCEPT ![s] = x],
   logical |-> t.logical + l, physical |-> t.physical + p]

Search(k) ==
  /\ answer' = IF Found(table, k) = {} THEN Nothing
               ELSE <<At(table, k, CHOOSE i \in Found(table, k) : TRUE)>>
  /\ UNCHANGED table

Use(t, s, e) == Put(t, s, e, 1, IF t.slot[s] = Null THEN 1 ELSE 0)

(* An insertion that meets the key first changes nothing and succeeds. *)
Insert(e) ==
  /\ \E i \in Landing(table, KeyOf[e]) :
       table' = IF Matches(table, KeyOf[e], i) THEN table
                ELSE Use(table, Probe(table.type, KeyOf[e], i), e)
  /\ answer' = <<>>

(* Every probe is taken by another key. *)
InsertFails(e) ==
  /\ Landing(table, KeyOf[e]) = {}
  /\ answer' = Nothing
  /\ UNCHANGED table

(* Mutant: leave the slot as if it had never been used. *)
Vacate_Null(t, s) == Put(t, s, Null, -1, -1)

Vacate(t, s) == Put(t, s, Tombstone, -1, 0)

RemoveKey(k) ==
  /\ \E i \in Found(table, k) :
       /\ answer' = <<At(table, k, i)>>
       /\ table' = Vacate(table, Probe(table.type, k, i))

RemoveFails(k) ==
  /\ Found(table, k) = {}
  /\ answer' = Nothing
  /\ UNCHANGED table

Count ==
  /\ answer' \in {<<table.logical>>, <<table.physical>>}
  /\ UNCHANGED table

(* The elements in the order of the slots. *)
Contents(t) == SelectSeq([n \in 1..Size |-> t.slot[n - 1]], LAMBDA x : x \in Element)

Hash(t) == Hashed(Contents(t))

(* hash_table_foreach and hash_table_hash. *)
SeeAll ==
  /\ answer' \in {<<"all", Contents(table)>>, <<"hash", Hash(table)>>}
  /\ UNCHANGED table

(* hash_table_destroy, and hash_table_construct for another of its type.   *)
Renew ==
  /\ table' = Construct(table.type)
  /\ answer' = <<"released", Contents(table)>>

-----------------------------------------------------------------------------
(* The packed form: the four numbers, then each used slot with its index,  *)
(* in the order of the slots; unpacking reads as many as physical says.    *)

Used(t) == {s \in Slot : t.slot[s] # Null}

Body(t) ==
  Flat([n \in 1..Size |-> IF t.slot[n - 1] = Null THEN <<>> ELSE << <<n - 1, t.slot[n - 1]>> >>])

Pack(t) ==
  [type |-> t.type, physical |-> t.physical, logical |-> t.logical, body |-> Body(t)]

(* Mutant: read as many entries as there are elements. *)
Unpack_Logical(p) ==
  [type |-> p.type,
   slot |-> Through(LAMBDA d, x : [d EXCEPT ![x[1]] = x[2]],
                    Construct(p.type).slot, SubSeq(p.body, 1, p.logical)),
   logical |-> p.logical, physical |-> p.physical]

(* Exactly physical entries are read. *)
Unpack(p) ==
  [type |-> p.type,
   slot |-> Through(LAMBDA d, x : [d EXCEPT ![x[1]] = x[2]],
                    Construct(p.type).slot, SubSeq(p.body, 1, p.physical)),
   logical |-> p.logical, physical |-> p.physical]

Init == table \in {Construct(type) : type \in Resolution} /\ answer = <<>>

Next ==
  \/ \E k \in Key : Search(k) \/ RemoveKey(k) \/ RemoveFails(k)
  \/ \E e \in Element : Insert(e) \/ InsertFails(e)
  \/ Count \/ SeeAll \/ Renew

Spec == Init /\ [][Next]_vars

-----------------------------------------------------------------------------
(* What may be relied on. *)

Table ==
  [type : Resolution, slot : [Slot -> Element \cup {Null, Tombstone}],
   logical : Nat, physical : Nat]

TypeOK == table \in Table

(* A stored element can be found: a search for its key meets it, or a      *)
(* newer one with its key, before an unused slot, whatever was removed     *)
(* from the slots between.                                                 *)
Reachable ==
  \A s \in Slot : table.slot[s] \in Element =>
    \E i \in Slot :
      /\ Probe(table.type, KeyOf[table.slot[s]], i) = s
      /\ \A j \in 0..i - 1 : At(table, KeyOf[table.slot[s]], j) # Null

(* logical counts the elements, physical the slots ever used. *)
Counted ==
  /\ table.logical = Cardinality({s \in Slot : table.slot[s] \in Element})
  /\ table.physical = Cardinality(Used(table))

(* A search for the key of a stored element succeeds.                      *)
Findable ==
  \A s \in Slot : table.slot[s] \in Element => Found(table, KeyOf[table.slot[s]]) # {}

(* What every operation keeps.                                             *)
TableInv == TypeOK /\ Reachable /\ Counted

(* A packed table unpacks to the same table, tombstones included: without  *)
(* them a search in the copy would end early.                              *)
RoundTrip == Unpack(Pack(table)) = table

(* The elements with key k in the order its probes meet their slots: the  *)
(* last one inserted first.                                                *)
Met(k) ==
  [i \in 1..Size |->
     IF /\ Matches(table, k, i - 1)
        /\ \A j \in 0..i - 2 : Probe(table.type, k, j) # Probe(table.type, k, i - 1)
     THEN At(table, k, i - 1) ELSE Null]
Stored == [k \in Key |-> SelectSeq(Met(k), LAMBDA x : x # Null)]

(* A table releases nothing. *)
Abs == INSTANCE AbstractMap WITH stored <- Stored, freed <- {}

=============================================================================
