--------------------------- MODULE HashTableProofs ---------------------------
(***************************************************************************)
(* For every size, hash function and set of elements, with each of the     *)
(* three ways to probe, whatever is inserted and removed in whatever       *)
(* order: the indices stay in the array, the counts are right and every    *)
(* stored element's key is found.                                          *)
(***************************************************************************)
EXTENDS HashTable, Iteration, FiniteSetTheorems, TLAPS

LEMMA SizeIs == Size \in Nat /\ Size >= 1
BY SizeAssumption

USE SizeIs DEF Slot

-----------------------------------------------------------------------------
(* The probes stay in the array, negative hashes included: the remainder   *)
(* by a positive number is that of the mathematician.                      *)

LEMMA Remainder ==
  ASSUME NEW n \in Nat, n >= 1, NEW a \in Int
  PROVE  a % n \in 0..n - 1
OBVIOUS

LEMMA HomeInSlot == ASSUME NEW k \in Key PROVE Home(k) \in Slot
<1>1. HashOf[k] \in Int
  BY ElementAssumption
<1>. QED
  BY <1>1, Remainder DEF Home

LEMMA StrideIsInt == ASSUME NEW k \in Key PROVE Stride(k) \in Int
<1>1. HashOf[k] \in Int
  BY ElementAssumption
<1>2. PICK n \in Nat : n >= 1 /\ n = IF Size > 1 THEN Size - 1 ELSE 1
  OBVIOUS
<1>3. HashOf[k] % n \in 0..n - 1
  BY <1>1, <1>2, Remainder
<1>4. Stride(k) = 1 + (HashOf[k] % n)
  BY <1>2 DEF Stride
<1>. QED
  BY <1>3, <1>4

LEMMA ProbeInSlot ==
  ASSUME NEW type, NEW k \in Key, NEW i \in Slot
  PROVE  Probe(type, k, i) \in Slot
<1>1. PICK h \in Int : h = Home(k)
  BY HomeInSlot
<1>2. PICK d \in Int : d = Stride(k)
  BY StrideIsInt
<1>3. PICK q \in Int : q = i * i
  OBVIOUS
<1>4. PICK m \in Int : m = i * d
  OBVIOUS
<1>5. /\ (h + i) % Size \in Slot
      /\ (h + q) % Size \in Slot
      /\ (h + m) % Size \in Slot
  BY Remainder
<1>. QED
  BY <1>1, <1>2, <1>3, <1>4, <1>5 DEF Probe

-----------------------------------------------------------------------------
(* Tables. *)

(* Reachable, of any table. *)
Reaches(t, k, s) ==
  \E i \in Slot : /\ Probe(t.type, k, i) = s
                  /\ \A j \in 0..i - 1 : At(t, k, j) # Null

Whole(t) ==
  \A s \in Slot : t.slot[s] \in Element => Reaches(t, KeyOf[t.slot[s]], s)

Holding(t) == {s \in Slot : t.slot[s] \in Element}

Content == Element \cup {Null, Tombstone}

LEMMA ReachableIsWhole == Reachable <=> Whole(table)
BY DEF Reachable, Whole, Reaches

LEMMA KeyIs == ASSUME NEW e \in Element PROVE KeyOf[e] \in Key
BY ElementAssumption

LEMMA MarksDiffer ==
  /\ Null \notin Element
  /\ Tombstone \notin Element
  /\ Tombstone # Null
BY ElementAssumption

(* What a search or an insertion looks at. *)
LEMMA AtIs ==
  ASSUME NEW t \in Table, NEW k \in Key, NEW i \in Slot
  PROVE  At(t, k, i) \in Content
<1>1. Probe(t.type, k, i) \in Slot
  BY ProbeInSlot
<1>2. t.slot \in [Slot -> Content]
  BY DEF Table, Content
<1>. QED
  BY <1>1, <1>2 DEF At

LEMMA PutIs ==
  ASSUME NEW t \in Table, NEW s \in Slot, NEW x \in Content, NEW l, NEW p
  PROVE  /\ Put(t, s, x, l, p).type = t.type
         /\ Put(t, s, x, l, p).slot \in [Slot -> Content]
         /\ Put(t, s, x, l, p).slot[s] = x
         /\ \A r \in Slot : r # s => Put(t, s, x, l, p).slot[r] = t.slot[r]
<1>1. t.slot \in [Slot -> Content]
  BY DEF Table, Content
<1>. QED
  BY <1>1 DEF Put

(* A slot may be given an element where its search ends, and a tombstone   *)
(* anywhere: no search that went on before ends now.                       *)
LEMMA PutKeepsWhole ==
  ASSUME NEW t \in Table, Whole(t), NEW s \in Slot, NEW x \in Element \cup {Tombstone},
         NEW l, NEW p,
         x \in Element => Reaches(t, KeyOf[x], s)
  PROVE  Whole(Put(t, s, x, l, p))
<1>. DEFINE u == Put(t, s, x, l, p)
<1>1. /\ u.type = t.type
      /\ u.slot[s] = x
      /\ \A r \in Slot : r # s => u.slot[r] = t.slot[r]
  BY PutIs DEF Content
<1>. HIDE DEF u
<1>2. x # Null
  BY MarksDiffer
<1>3. ASSUME NEW k \in Key, NEW j \in Slot, At(t, k, j) # Null
      PROVE  At(u, k, j) # Null
  <2>1. PICK r \in Slot : r = Probe(t.type, k, j)
    BY ProbeInSlot
  <2>. QED
    BY <1>1, <1>2, <1>3, <2>1 DEF At
<1>4. ASSUME NEW k \in Key, NEW r \in Slot, Reaches(t, k, r)
      PROVE  Reaches(u, k, r)
  <2>1. PICK i \in Slot : /\ Probe(t.type, k, i) = r
                          /\ \A j \in 0..i - 1 : At(t, k, j) # Null
    BY <1>4 DEF Reaches
  <2>2. \A j \in 0..i - 1 : j \in Slot
    OBVIOUS
  <2>3. \A j \in 0..i - 1 : At(u, k, j) # Null
    BY <2>1, <2>2, <1>3
  <2>. QED
    BY <1>1, <2>1, <2>3 DEF Reaches
<1>5. ASSUME NEW r \in Slot, u.slot[r] \in Element
      PROVE  Reaches(u, KeyOf[u.slot[r]], r)
  <2>1. CASE r = s
    BY <1>1, <1>4, <1>5, <2>1, KeyIs
  <2>2. CASE r # s
    <3>1. u.slot[r] = t.slot[r]
      BY <1>1, <2>2
    <3>2. Reaches(t, KeyOf[t.slot[r]], r)
      BY <3>1, <1>5 DEF Whole
    <3>. QED
      BY <1>4, <1>5, <3>1, <3>2, KeyIs
  <2>. QED
    BY <2>1, <2>2
<1>6. Whole(u)
  BY <1>5 DEF Whole
<1>. QED
  BY <1>6 DEF u

-----------------------------------------------------------------------------
(* Counting. *)

LEMMA SlotsAreFinite == ASSUME NEW S \in SUBSET Slot PROVE IsFiniteSet(S)
<1>1. IsFiniteSet(Slot)
  BY FS_Interval
<1>. QED
  BY <1>1, FS_Subset

LEMMA CountIsNat == ASSUME NEW S \in SUBSET Slot PROVE Cardinality(S) \in Nat
BY SlotsAreFinite, FS_CardinalityType

LEMMA CountAdded ==
  ASSUME NEW S \in SUBSET Slot, NEW s \in Slot, s \notin S
  PROVE  Cardinality(S \cup {s}) = Cardinality(S) + 1
BY SlotsAreFinite, FS_AddElement

LEMMA CountRemoved ==
  ASSUME NEW S \in SUBSET Slot, NEW s \in S
  PROVE  /\ Cardinality(S \ {s}) = Cardinality(S) - 1
         /\ Cardinality(S) - 1 \in Nat
<1>1. IsFiniteSet(S)
  BY SlotsAreFinite
<1>2. Cardinality(S \ {s}) = Cardinality(S) - 1
  BY <1>1, FS_RemoveElement
<1>3. Cardinality(S \ {s}) \in Nat
  BY CountIsNat
<1>. QED
  BY <1>2, <1>3

(* The counts of a table. *)
RightCounts(t) ==
  /\ t.logical = Cardinality(Holding(t))
  /\ t.physical = Cardinality(Used(t))

LEMMA CountedIsRight == Counted <=> RightCounts(table)
BY DEF Counted, RightCounts, Holding

(* All that TableInv says, of any table. *)
Good(t) == t \in Table /\ Whole(t) /\ RightCounts(t)

LEMMA TableInvIsGood == TableInv <=> Good(table)
BY ReachableIsWhole, CountedIsRight DEF TableInv, TypeOK, Good

LEMMA UseKeepsGood ==
  ASSUME NEW t, Good(t), NEW s \in Slot, NEW e \in Element,
         t.slot[s] \in {Null, Tombstone}, Reaches(t, KeyOf[e], s)
  PROVE  Good(Use(t, s, e))
<1>1. t \in Table /\ Whole(t) /\ RightCounts(t)
  BY DEF Good
<1>2. PICK d \in {0, 1} : d = IF t.slot[s] = Null THEN 1 ELSE 0
  OBVIOUS
<1>. DEFINE u == Put(t, s, e, 1, d)
<1>3. Use(t, s, e) = u
  BY <1>2 DEF Use
<1>4. /\ u.type = t.type
      /\ u.slot \in [Slot -> Content]
      /\ u.slot[s] = e
      /\ \A r \in Slot : r # s => u.slot[r] = t.slot[r]
  BY <1>1, PutIs DEF Content
<1>5. u = [type |-> u.type, slot |-> u.slot, logical |-> t.logical + 1, physical |-> t.physical + d]
  BY DEF Put
<1>6. Whole(u)
  BY <1>1, PutKeepsWhole
<1>. HIDE DEF u
<1>7. /\ Holding(u) = Holding(t) \cup {s}
      /\ s \notin Holding(t)
  BY <1>4, MarksDiffer DEF Holding
<1>8. /\ Used(u) = Used(t) \cup {s}
      /\ s \in Used(t) <=> t.slot[s] # Null
  BY <1>4, MarksDiffer DEF Used
<1>9. Cardinality(Holding(u)) = Cardinality(Holding(t)) + 1
  <2>1. Holding(t) \in SUBSET Slot
    BY DEF Holding
  <2>. QED
    BY <2>1, <1>7, CountAdded
<1>10. Cardinality(Used(u)) = Cardinality(Used(t)) + d
  <2>1. Used(t) \in SUBSET Slot
    BY DEF Used
  <2>2. Cardinality(Used(t)) \in Nat
    BY <2>1, CountIsNat
  <2>3. CASE t.slot[s] = Null
    BY <2>1, <2>3, <1>2, <1>8, CountAdded
  <2>4. CASE t.slot[s] # Null
    <3>1. Used(u) = Used(t)
      BY <1>8, <2>4
    <3>. QED
      BY <3>1, <2>2, <2>4, <1>2
  <2>. QED
    BY <2>3, <2>4
<1>11. t.logical \in Nat /\ t.physical \in Nat /\ t.type \in Resolution
  BY <1>1 DEF Table
<1>12. u.logical = t.logical + 1 /\ u.physical = t.physical + d
  BY <1>5
<1>13. u \in Table
  BY <1>4, <1>5, <1>11 DEF Table, Content
<1>14. RightCounts(u)
  BY <1>1, <1>9, <1>10, <1>12 DEF RightCounts
<1>. QED
  BY <1>3, <1>6, <1>13, <1>14 DEF Good

LEMMA VacateKeepsGood ==
  ASSUME NEW t, Good(t), NEW s \in Slot, t.slot[s] \in Element
  PROVE  Good(Vacate(t, s))
<1>1. t \in Table /\ Whole(t) /\ RightCounts(t)
  BY DEF Good
<1>0. PICK m \in Int : m = -1
  OBVIOUS
<1>. DEFINE u == Put(t, s, Tombstone, m, 0)
<1>2. Vacate(t, s) = u
  BY <1>0 DEF Vacate
<1>3. /\ u.type = t.type
      /\ u.slot \in [Slot -> Content]
      /\ u.slot[s] = Tombstone
      /\ \A r \in Slot : r # s => u.slot[r] = t.slot[r]
  <2>1. Tombstone \in Content
    BY DEF Content
  <2>. QED
    BY <1>1, <2>1, PutIs
<1>4. u = [type |-> u.type, slot |-> u.slot, logical |-> t.logical + m, physical |-> t.physical + 0]
  BY DEF Put
<1>5. Whole(u)
  BY <1>1, PutKeepsWhole, MarksDiffer
<1>. HIDE DEF u
<1>6. /\ Holding(u) = Holding(t) \ {s}
      /\ s \in Holding(t)
      /\ Holding(t) \in SUBSET Slot
  BY <1>3, MarksDiffer DEF Holding
<1>7. Used(u) = Used(t)
  BY <1>3, MarksDiffer DEF Used
<1>8. /\ Cardinality(Holding(u)) = Cardinality(Holding(t)) - 1
      /\ Cardinality(Holding(t)) - 1 \in Nat
  BY <1>6, CountRemoved
<1>9. t.logical \in Nat /\ t.physical \in Nat /\ t.type \in Resolution
  BY <1>1 DEF Table
<1>10. t.logical = Cardinality(Holding(t)) /\ t.physical = Cardinality(Used(t))
  BY <1>1 DEF RightCounts
<1>11. u.logical = t.logical - 1 /\ u.physical = t.physical
  BY <1>0, <1>4, <1>9
<1>12. u.logical \in Nat /\ u.physical \in Nat
  BY <1>8, <1>9, <1>10, <1>11
<1>13. u = [type |-> u.type, slot |-> u.slot, logical |-> u.logical, physical |-> u.physical]
  BY <1>4
<1>14. u \in Table
  BY <1>3, <1>9, <1>12, <1>13 DEF Table, Content
<1>15. RightCounts(u)
  BY <1>7, <1>8, <1>10, <1>11 DEF RightCounts
<1>. QED
  BY <1>2, <1>5, <1>14, <1>15 DEF Good

-----------------------------------------------------------------------------
(* The invariant. *)

LEMMA ConstructIsGood ==
  ASSUME NEW type \in Resolution PROVE Good(Construct(type))
<1>. DEFINE t == Construct(type)
<1>1. \A s \in Slot : t.slot[s] = Null
  BY DEF Construct
<1>2. t \in Table
  BY DEF Construct, Table
<1>3. t.logical = 0 /\ t.physical = 0
  BY DEF Construct
<1>. HIDE DEF t
<1>4. Holding(t) = {} /\ Used(t) = {}
  BY <1>1, MarksDiffer DEF Holding, Used
<1>5. RightCounts(t)
  BY <1>3, <1>4, FS_EmptySet DEF RightCounts
<1>6. Whole(t)
  BY <1>1, MarksDiffer DEF Whole
<1>7. Good(t)
  BY <1>2, <1>5, <1>6 DEF Good
<1>. QED
  BY <1>7 DEF t

LEMMA InitTableInv == Init => TableInv
BY ConstructIsGood, TableInvIsGood DEF Init

LEMMA InsertKeepsGood ==
  ASSUME NEW e \in Element, Good(table), Insert(e) PROVE Good(table')
<1>1. PICK i \in Landing(table, KeyOf[e]) :
        table' = IF Matches(table, KeyOf[e], i) THEN table
                 ELSE Use(table, Probe(table.type, KeyOf[e], i), e)
  BY DEF Insert
<1>2. /\ i \in Slot
      /\ Free(table, KeyOf[e], i) \/ Matches(table, KeyOf[e], i)
      /\ \A j \in 0..i - 1 : ~Free(table, KeyOf[e], j)
  BY DEF Landing
<1>3. CASE Matches(table, KeyOf[e], i)
  BY <1>1, <1>3
<1>4. CASE ~Matches(table, KeyOf[e], i)
  <2>1. PICK s \in Slot : s = Probe(table.type, KeyOf[e], i)
    BY <1>2, ProbeInSlot, KeyIs
  <2>2. table.slot[s] \in {Null, Tombstone}
    BY <1>2, <1>4, <2>1 DEF Free, At
  <2>3. \A j \in 0..i - 1 : At(table, KeyOf[e], j) # Null
    BY <1>2 DEF Free
  <2>4. Reaches(table, KeyOf[e], s)
    BY <1>2, <2>1, <2>3 DEF Reaches
  <2>. QED
    BY <1>1, <1>4, <2>1, <2>2, <2>4, UseKeepsGood
<1>. QED
  BY <1>3, <1>4

LEMMA RemoveKeepsGood ==
  ASSUME NEW k \in Key, Good(table), RemoveKey(k) PROVE Good(table')
<1>1. PICK i \in Found(table, k) : table' = Vacate(table, Probe(table.type, k, i))
  BY DEF RemoveKey
<1>2. i \in Slot /\ Matches(table, k, i)
  BY DEF Found
<1>3. PICK s \in Slot : s = Probe(table.type, k, i)
  BY <1>2, ProbeInSlot
<1>4. table.slot[s] \in Element
  BY <1>2, <1>3 DEF Matches, At
<1>. QED
  BY <1>1, <1>3, <1>4, VacateKeepsGood

LEMMA NextTableInv == TableInv /\ [Next]_vars => TableInv'
<1>. SUFFICES ASSUME Good(table), [Next]_vars PROVE Good(table')
  <2>1. (TableInv <=> Good(table))'
    BY TableInvIsGood, PTL
  <2>. QED
    BY <2>1, TableInvIsGood
<1>1. ASSUME NEW k \in Key, Search(k) PROVE Good(table')
  BY <1>1 DEF Search
<1>2. ASSUME NEW k \in Key, RemoveKey(k) PROVE Good(table')
  BY <1>2, RemoveKeepsGood
<1>3. ASSUME NEW k \in Key, RemoveFails(k) PROVE Good(table')
  BY <1>3 DEF RemoveFails
<1>4. ASSUME NEW e \in Element, Insert(e) PROVE Good(table')
  BY <1>4, InsertKeepsGood
<1>5. ASSUME NEW e \in Element, InsertFails(e) PROVE Good(table')
  BY <1>5 DEF InsertFails
<1>6. CASE Count
  BY <1>6 DEF Count
<1>7. CASE SeeAll
  BY <1>7 DEF SeeAll
<1>8. CASE Renew
  <2>1. table.type \in Resolution
    BY DEF Good, Table
  <2>. QED
    BY <1>8, <2>1, ConstructIsGood DEF Renew
<1>9. CASE UNCHANGED vars
  BY <1>9 DEF vars
<1>. QED
  BY <1>1, <1>2, <1>3, <1>4, <1>5, <1>6, <1>7, <1>8, <1>9 DEF Next

(* The indices stay in the array, each slot holds an element, nothing or a *)
(* tombstone, every element is on a probe sequence of its key that no      *)
(* unused slot interrupts, and the two counts of the structure are right   *)
(* (hash_table_insert and hash_table_remove, hash_table.c:394, 499).       *)
THEOREM TableInvariant == Spec => []TableInv
BY InitTableInv, NextTableInv, PTL DEF Spec

(* The structure keeps its type: the part of TableInv the runs check for   *)
(* every kind of container.                                                *)
THEOREM TableTypes == Spec => []TypeOK
<1>1. TableInv => TypeOK
  BY DEF TableInv
<1>. QED
  BY <1>1, TableInvariant, PTL

-----------------------------------------------------------------------------
(* A search ends at the first probe that holds the key. *)

LEMMA WholeIsFound ==
  ASSUME NEW s \in Slot, Good(table), table.slot[s] \in Element
  PROVE  Found(table, KeyOf[table.slot[s]]) # {}
<1>1. PICK k \in Key : k = KeyOf[table.slot[s]]
  BY KeyIs
<1>2. PICK i \in Slot : /\ Probe(table.type, k, i) = s
                        /\ \A j \in 0..i - 1 : At(table, k, j) # Null
  BY <1>1 DEF Good, Whole, Reaches
<1>3. Matches(table, k, i)
  BY <1>1, <1>2 DEF Matches, At
<1>. DEFINE M == {j \in Slot : Matches(table, k, j)}
<1>4. PICK n \in M : \A m \in M : n <= m
  <2>1. M \in SUBSET Nat /\ M # {}
    BY <1>3
  <2>. QED
    BY <2>1, LeastElement
<1>5. n \in Slot /\ Matches(table, k, n)
  OBVIOUS
<1>6. n <= i
  BY <1>3, <1>4, <1>5
<1>7. \A j \in 0..n - 1 : j \in Slot /\ ~(n <= j) /\ j \in 0..i - 1
  BY <1>5, <1>6
<1>8. \A j \in 0..n - 1 : At(table, k, j) # Null /\ ~Matches(table, k, j)
  BY <1>2, <1>4, <1>7
<1>9. n \in Found(table, k)
  BY <1>5, <1>8 DEF Found
<1>. QED
  BY <1>1, <1>9

LEMMA InvFinds == TableInv => Findable
BY TableInvIsGood, WholeIsFound DEF Findable

(* Whatever was inserted and removed before, hash_table_search succeeds    *)
(* for the key of every stored element (hash_table.c:181).                 *)
THEOREM StoredIsFound == Spec => []Findable
BY InvFinds, TableInvariant, PTL

-----------------------------------------------------------------------------
(* Packing and unpacking.  What each of the two loops has made after k     *)
(* turns is known; G[k] is the set of it.                                  *)

RowTurn(all, row) == all \o row
Rows(a, s) == Through(LAMBDA all, row : all \o row, a, s)
WriteTurn(d, x) == [d EXCEPT ![x[1]] = x[2]]
Writes(a, s) == Through(LAMBDA d, x : [d EXCEPT ![x[1]] = x[2]], a, s)

LEMMA RowsAll ==
  ASSUME NEW a, NEW n \in Nat, NEW s, Len(s) = n, NEW S, NEW G \in [0..n -> SUBSET S], a \in G[0],
         \A k \in 1..n : \A t \in G[k - 1] : RowTurn(t, s[k]) \in G[k]
  PROVE  Rows(a, s) \in G[n]
<1> DEFINE F == [k \in 1..n |-> [t \in S |-> RowTurn(t, s[k])]]
           Turn(h) == [i \in 0..n |-> IF i = 0 THEN a ELSE RowTurn(h[i - 1], s[i])]
           after == CHOOSE h : h = Turn(h)
<1>0. SUFFICES after[n] \in G[n]
  BY DEF Rows, RowTurn, Through
<1>1. \A k \in 1..n : \A t \in S : F[k][t] = RowTurn(t, s[k])
  OBVIOUS
<1>2. \A k \in 1..n : G[k - 1] \subseteq S /\ k - 1 \in 0..n
  OBVIOUS
<1> HIDE DEF F
<1>3. PICK f : Passes(f, n, S, a, F, G)
  <2>1. Leads(n, S, G, F)
    BY <1>1, <1>2 DEF Leads
  <2> QED
    BY <2>1, Guided
<1>4. \A k \in 1..n : f[k] = RowTurn(f[k - 1], s[k])
  BY <1>1, <1>2, <1>3 DEF Passes
<1>5. \A i \in 0..n : i # 0 => i \in 1..n
  OBVIOUS
<1>6. f = Turn(f)
  BY <1>3, <1>4, <1>5 DEF Passes
<1>7. after = Turn(after)
  BY <1>6
<1> HIDE DEF after
<1>9. \A i \in 0..n : after[i] = IF i = 0 THEN a ELSE RowTurn(after[i - 1], s[i])
  BY <1>7
<1> DEFINE I == {i \in 0..n : after[i] = f[i]}
<1>10. 0 \in I
  BY <1>3, <1>9 DEF Passes
<1>11. ASSUME NEW k \in 1..n, k - 1 \in I PROVE k \in I
  BY <1>4, <1>9, <1>11
<1> HIDE DEF I
<1>12. \A i \in 0..n : i \in I
  BY <1>10, <1>11, InductionUpTo
<1> QED
  BY <1>3, <1>12 DEF I, Passes

LEMMA WritesAll ==
  ASSUME NEW a, NEW n \in Nat, NEW s, Len(s) = n, NEW S, NEW G \in [0..n -> SUBSET S], a \in G[0],
         \A k \in 1..n : \A t \in G[k - 1] : WriteTurn(t, s[k]) \in G[k]
  PROVE  Writes(a, s) \in G[n]
<1> DEFINE F == [k \in 1..n |-> [t \in S |-> WriteTurn(t, s[k])]]
           Turn(h) == [i \in 0..n |-> IF i = 0 THEN a ELSE WriteTurn(h[i - 1], s[i])]
           after == CHOOSE h : h = Turn(h)
<1>0. SUFFICES after[n] \in G[n]
  BY DEF Writes, WriteTurn, Through
<1>1. \A k \in 1..n : \A t \in S : F[k][t] = WriteTurn(t, s[k])
  OBVIOUS
<1>2. \A k \in 1..n : G[k - 1] \subseteq S /\ k - 1 \in 0..n
  OBVIOUS
<1> HIDE DEF F
<1>3. PICK f : Passes(f, n, S, a, F, G)
  <2>1. Leads(n, S, G, F)
    BY <1>1, <1>2 DEF Leads
  <2> QED
    BY <2>1, Guided
<1>4. \A k \in 1..n : f[k] = WriteTurn(f[k - 1], s[k])
  BY <1>1, <1>2, <1>3 DEF Passes
<1>5. \A i \in 0..n : i # 0 => i \in 1..n
  OBVIOUS
<1>6. f = Turn(f)
  BY <1>3, <1>4, <1>5 DEF Passes
<1>7. after = Turn(after)
  BY <1>6
<1> HIDE DEF after
<1>9. \A i \in 0..n : after[i] = IF i = 0 THEN a ELSE WriteTurn(after[i - 1], s[i])
  BY <1>7
<1> DEFINE I == {i \in 0..n : after[i] = f[i]}
<1>10. 0 \in I
  BY <1>3, <1>9 DEF Passes
<1>11. ASSUME NEW k \in 1..n, k - 1 \in I PROVE k \in I
  BY <1>4, <1>9, <1>11
<1> HIDE DEF I
<1>12. \A i \in 0..n : i \in I
  BY <1>10, <1>11, InductionUpTo
<1> QED
  BY <1>3, <1>12 DEF I, Passes

(* g holds what the first k slots of a hold, with their indices.           *)
Listed(a, g, k) ==
  /\ \A j \in 1..Len(g) : g[j][1] \in 0..k - 1 /\ g[j][2] = a[g[j][1]]
  /\ \A s \in 0..k - 1 : a[s] # Null => \E j \in 1..Len(g) : g[j][1] = s
  /\ Len(g) = Cardinality({s \in 0..k - 1 : a[s] # Null})

LEMMA ListsOne ==
  ASSUME NEW a \in [Slot -> Content], NEW k \in 1..Size, NEW g \in Seq(Slot \X Content),
         Listed(a, g, k - 1)
  PROVE  LET r == IF a[k - 1] = Null THEN <<>> ELSE << <<k - 1, a[k - 1]>> >>
         IN  g \o r \in Seq(Slot \X Content) /\ Listed(a, g \o r, k)
<1> DEFINE p == k - 1
           x == <<p, a[p]>>
           U(i) == {s \in 0..i - 1 : a[s] # Null}
<1>1. p \in Slot /\ p \in 0..k - 1 /\ k - 1 - 1 = p - 1 /\ p \notin 0..p - 1
      /\ \A s : s \in 0..k - 1 <=> s \in 0..p - 1 \/ s = p
  OBVIOUS
<1>2. Listed(a, g, p)
  OBVIOUS
<1>3. CASE a[p] = Null
  <2>1. g \o <<>> = g
    OBVIOUS
  <2>2. U(k) = U(p)
    BY <1>1, <1>3
  <2>3. Listed(a, g, k)
    BY <1>1, <1>2, <1>3, <2>2 DEF Listed
  <2> QED
    BY <1>3, <2>1, <2>3
<1>4. CASE a[p] # Null
  <2> DEFINE b == g \o <<x>>
  <2>1. x \in Slot \X Content /\ x[1] = p /\ x[2] = a[p]
    BY <1>1
  <2> HIDE DEF x
  <2>2. /\ b \in Seq(Slot \X Content) /\ Len(b) = Len(g) + 1 /\ Len(g) \in Nat /\ b[Len(g) + 1] = x
        /\ \A j \in 1..Len(g) : b[j] = g[j]
    BY <2>1
  <2> HIDE DEF b
  <2>3. \A j : j \in 1..Len(b) <=> j \in 1..Len(g) \/ j = Len(g) + 1
    BY <2>2
  <2>4. \A j \in 1..Len(b) : b[j][1] \in 0..k - 1 /\ b[j][2] = a[b[j][1]]
    <3> SUFFICES ASSUME NEW j \in 1..Len(b) PROVE b[j][1] \in 0..k - 1 /\ b[j][2] = a[b[j][1]]
      OBVIOUS
    <3>1. CASE j \in 1..Len(g)
      <4>1. b[j] = g[j] /\ g[j][1] \in 0..p - 1 /\ g[j][2] = a[g[j][1]]
        BY <1>2, <2>2, <3>1 DEF Listed
      <4> QED
        BY <1>1, <4>1
    <3>2. CASE j = Len(g) + 1
      <4>1. b[j] = x
        BY <2>2, <3>2
      <4> QED
        BY <1>1, <2>1, <4>1
    <3> QED
      BY <2>3, <3>1, <3>2
  <2>5. ASSUME NEW s \in 0..k - 1, a[s] # Null PROVE \E j \in 1..Len(b) : b[j][1] = s
    <3>1. CASE s = p
      BY <2>1, <2>2, <2>3, <3>1
    <3>2. CASE s # p
      <4>1. s \in 0..p - 1
        BY <1>1, <3>2
      <4>2. PICK j \in 1..Len(g) : g[j][1] = s
        BY <1>2, <2>5, <4>1 DEF Listed
      <4>3. j \in 1..Len(b) /\ b[j] = g[j]
        BY <2>2, <2>3
      <4> QED
        BY <4>2, <4>3
    <3> QED
      BY <3>1, <3>2
  <2>6. Cardinality(U(k)) = Cardinality(U(p)) + 1
    <3>1. U(k) = U(p) \cup {p} /\ p \notin U(p) /\ U(p) \in SUBSET Slot
      BY <1>1, <1>4
    <3> HIDE DEF U
    <3> QED
      BY <1>1, <3>1, CountAdded
  <2>7. Len(b) = Cardinality(U(k))
    BY <1>2, <2>2, <2>6 DEF Listed
  <2>8. Listed(a, b, k)
    BY <2>4, <2>5, <2>7 DEF Listed
  <2> QED
    BY <1>4, <2>2, <2>8 DEF b, x
<1> QED
  BY <1>3, <1>4

LEMMA BodyIs ==
  ASSUME NEW t \in Table
  PROVE  Body(t) \in Seq(Slot \X Content) /\ Listed(t.slot, Body(t), Size)
<1> DEFINE a == t.slot
           s == [n \in 1..Size |-> IF a[n - 1] = Null THEN <<>> ELSE << <<n - 1, a[n - 1]>> >>]
           S == Seq(Slot \X Content)
           G == [k \in 0..Size |-> {g \in S : Listed(a, g, k)}]
<1>1. a \in [Slot -> Content]
  BY DEF Table, Content
<1>2. Body(t) = Rows(<<>>, s)
  BY DEF Body, Flat, Rows
<1> HIDE DEF a
<1>3. /\ Len(s) = Size
      /\ \A k \in 1..Size : s[k] = IF a[k - 1] = Null THEN <<>> ELSE << <<k - 1, a[k - 1]>> >>
  OBVIOUS
<1> HIDE DEF s
<1>4. G \in [0..Size -> SUBSET S]
  OBVIOUS
<1>5. <<>> \in G[0]
  <2>1. {x \in 0..0 - 1 : a[x] # Null} = {}
    OBVIOUS
  <2>2. Listed(a, <<>>, 0)
    BY <2>1, FS_EmptySet DEF Listed
  <2> QED
    BY <2>2
<1>6. ASSUME NEW k \in 1..Size, NEW g \in G[k - 1] PROVE RowTurn(g, s[k]) \in G[k]
  <2>1. g \in S /\ Listed(a, g, k - 1)
    OBVIOUS
  <2> DEFINE r == g \o s[k]
  <2>2. r \in S /\ Listed(a, r, k)
    BY <1>1, <1>3, <2>1, ListsOne
  <2> HIDE DEF r, S
  <2>3. r \in G[k]
    BY <2>2
  <2> QED
    BY <2>3 DEF r, RowTurn
<1>7. \A g \in G[Size] : g \in S /\ Listed(a, g, Size)
  OBVIOUS
<1> HIDE DEF G, S
<1>8. Rows(<<>>, s) \in G[Size]
  BY <1>3, <1>4, <1>5, <1>6, RowsAll
<1> QED
  BY <1>2, <1>7, <1>8 DEF a, S

(* The slots after k entries have been written. *)
LEMMA WrittenBack ==
  ASSUME NEW a \in [Slot -> Content], NEW g \in Seq(Slot \X Content), Listed(a, g, Size)
  PROVE  Writes([s \in Slot |-> Null], g) = a
<1> DEFINE n == Len(g)
           Part(k) == [s \in Slot |-> IF \E j \in 1..k : g[j][1] = s THEN a[s] ELSE Null]
           S == [Slot -> Content]
           G == [k \in 0..n |-> {Part(k)}]
<1>1. n \in Nat /\ \A j \in 1..n : g[j][1] \in Slot /\ g[j][2] = a[g[j][1]]
  BY DEF Listed
<1>2. G \in [0..n -> SUBSET S]
  BY DEF Content
<1>3. Part(0) = [s \in Slot |-> Null]
  OBVIOUS
<1>4. Part(n) = a
  <2>1. \A s \in Slot : a[s] # Null => \E j \in 1..n : g[j][1] = s
    BY DEF Listed
  <2>2. \A s \in Slot : Part(n)[s] = a[s]
    BY <2>1
  <2> QED
    BY <2>2
<1>5. ASSUME NEW k \in 1..n PROVE WriteTurn(Part(k - 1), g[k]) = Part(k)
  <2> DEFINE b == [Part(k - 1) EXCEPT ![g[k][1]] = g[k][2]]
  <2>1. g[k][1] \in Slot /\ g[k][2] = a[g[k][1]]
    BY <1>1
  <2>2. \A j : j \in 1..k <=> j \in 1..k - 1 \/ j = k
    BY <1>1
  <2>3. ASSUME NEW s \in Slot PROVE b[s] = Part(k)[s]
    <3>1. (\E j \in 1..k : g[j][1] = s) <=> (\E j \in 1..k - 1 : g[j][1] = s) \/ g[k][1] = s
      BY <2>2
    <3>2. b[s] = IF s = g[k][1] THEN a[s] ELSE Part(k - 1)[s]
      BY <2>1
    <3> QED
      BY <3>1, <3>2
  <2>4. b = [s \in Slot |-> b[s]] /\ Part(k) = [s \in Slot |-> Part(k)[s]]
    OBVIOUS
  <2> HIDE DEF b, Part
  <2>5. b = Part(k)
    BY <2>3, <2>4
  <2> QED
    BY <2>5 DEF b, WriteTurn
<1> HIDE DEF Part, S
<1>6. Part(0) \in G[0] /\ G[n] = {Part(n)}
  BY <1>1
<1>0. Len(g) = n
  OBVIOUS
<1> HIDE DEF n
<1>7. ASSUME NEW k \in 1..n, NEW d \in G[k - 1] PROVE WriteTurn(d, g[k]) \in G[k]
  <2>1. k - 1 \in 0..n /\ k \in 0..n
    BY <1>1
  <2>2. d = Part(k - 1)
    BY <2>1
  <2> QED
    BY <1>5, <2>1, <2>2
<1> HIDE DEF G
<1>8. Writes(Part(0), g) \in G[n]
  BY <1>0, <1>1, <1>2, <1>6, <1>7, WritesAll
<1> QED
  BY <1>3, <1>4, <1>6, <1>8

LEMMA TablePacks == TableInv => RoundTrip
<1> SUFFICES ASSUME TableInv PROVE Unpack(Pack(table)) = table
  BY DEF RoundTrip
<1> DEFINE b == Body(table)
           a == table.slot
<1>1. table \in Table /\ table.physical = Cardinality({s \in Slot : a[s] # Null})
  BY DEF TableInv, TypeOK, Counted, Used
<1>2. a \in [Slot -> Content] /\ b \in Seq(Slot \X Content) /\ Listed(a, b, Size)
  BY <1>1, BodyIs DEF Table, Content
<1>3. Len(b) = table.physical
  BY <1>1, <1>2 DEF Listed
<1> HIDE DEF b
<1>4. SubSeq(b, 1, table.physical) = b
  BY <1>2, <1>3
<1>5. Unpack(Pack(table)).slot = Writes([s \in Slot |-> Null], SubSeq(b, 1, table.physical))
  BY DEF Unpack, Pack, Construct, Writes, b
<1>6. Unpack(Pack(table)).slot = a
  BY <1>2, <1>4, <1>5, WrittenBack
<1> HIDE DEF a
<1> DEFINE c == Unpack(Pack(table)).slot
<1>7. Unpack(Pack(table)) = [type |-> table.type, slot |-> c,
                             logical |-> table.logical, physical |-> table.physical]
  BY DEF Unpack, Pack
<1> HIDE DEF c
<1>8. table = [type |-> table.type, slot |-> a, logical |-> table.logical, physical |-> table.physical]
  BY <1>1 DEF Table, a
<1> QED
  BY <1>6, <1>7, <1>8 DEF c

(* What hash_table_pack writes, hash_table_unpack reads back as the same   *)
(* table, tombstones included (hash_table.c:711, 775).                     *)
THEOREM PackedIsSame == Spec => []RoundTrip
BY TablePacks, TableInvariant, PTL

=============================================================================
