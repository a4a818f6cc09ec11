------------------------ MODULE PriorityQueueProofs ------------------------
(***************************************************************************)
(* For every size, every set of elements and every order of them: however  *)
(* the queue was filled, the element at its root ranks highest, and the    *)
(* loops that sink and raise an element have run long enough when they     *)
(* end.  A loop is followed through its turns with what is true of the     *)
(* array and the place it has come to.                                     *)
(***************************************************************************)
EXTENDS PriorityQueue, Iteration, FiniteSetTheorems

LEMMA SizeIs == Size \in Nat /\ Size >= 1
BY SizeAssumption

LEMMA RankIs == Null \notin Element /\ \A e \in Element : Rank[e] \in Int
BY ElementAssumption

USE SizeIs DEF Slot

(* The arrays, and those with elements at the first n places.              *)
Data == [Slot -> Element \cup {Null}]

Filled(d, n) == d \in Data /\ \A i \in Slot : d[i] = Null <=> i >= n

Below(d, c) == Rank[d[Parent(c)]] >= Rank[d[c]]

(* In order below place m.                                                 *)
Heap(d, n, m) == \A c \in 1..n - 1 : Parent(c) >= m => Below(d, c)

-----------------------------------------------------------------------------
(* How many times an element is among the first n places. *)

Times(d, n, e) == Cardinality({i \in 0..n - 1 : d[i] = e})

LEMMA TimesIs ==
  ASSUME NEW d, NEW n \in Nat, NEW e
  PROVE  /\ Times(d, n, e) \in Nat
         /\ Times(d, n, e) > 0 <=> \E i \in 0..n - 1 : d[i] = e
<1>. DEFINE S == {i \in 0..n - 1 : d[i] = e}
<1>1. IsFiniteSet(0..n - 1) /\ S \in SUBSET (0..n - 1)
  BY FS_Interval
<1>2. IsFiniteSet(S)
  BY <1>1, FS_Subset
<1>3. Cardinality(S) \in Nat /\ (Cardinality(S) = 0 <=> S = {})
  BY <1>2, FS_CardinalityType, FS_EmptySet
<1>4. S # {} <=> \E i \in 0..n - 1 : d[i] = e
  OBVIOUS
<1>. HIDE DEF S
<1>5. Times(d, n, e) = Cardinality(S)
  BY DEF Times, S
<1>. QED
  BY <1>2, <1>3, <1>4, <1>5 DEF S

LEMMA TimesSame ==
  ASSUME NEW d, NEW f, NEW n \in Nat, \A i \in 0..n - 1 : f[i] = d[i], NEW e
  PROVE  Times(f, n, e) = Times(d, n, e)
<1>1. {i \in 0..n - 1 : f[i] = e} = {i \in 0..n - 1 : d[i] = e}
  OBVIOUS
<1>. QED
  BY <1>1 DEF Times

LEMMA TimesMore ==
  ASSUME NEW d, NEW n \in Nat, NEW e
  PROVE  Times(d, n + 1, e) = Times(d, n, e) + (IF d[n] = e THEN 1 ELSE 0)
<1>. DEFINE S == {i \in 0..n - 1 : d[i] = e}
            T == {i \in 0..n : d[i] = e}
<1>1. IsFiniteSet(S) /\ Cardinality(S) \in Nat
  <2>1. IsFiniteSet(0..n - 1) /\ S \in SUBSET (0..n - 1)
    BY FS_Interval
  <2>. QED
    BY <2>1, FS_Subset, FS_CardinalityType
<1>2. n \notin S /\ T = IF d[n] = e THEN S \cup {n} ELSE S
  OBVIOUS
<1>3. Times(d, n, e) = Cardinality(S) /\ Times(d, n + 1, e) = Cardinality(T)
  <2>1. (n + 1) - 1 = n
    OBVIOUS
  <2>. QED
    BY <2>1 DEF Times
<1>. HIDE DEF S, T
<1>4. Cardinality(S \cup {n}) = Cardinality(S) + 1
  BY <1>1, <1>2, FS_AddElement
<1>. QED
  BY <1>1, <1>2, <1>3, <1>4

-----------------------------------------------------------------------------
(* Places. *)

LEMMA ParentIs ==
  ASSUME NEW c \in Nat, c >= 1
  PROVE  Parent(c) \in Nat /\ Parent(c) < c /\ (c = Left(Parent(c)) \/ c = Right(Parent(c)))
BY DEF Parent, Left, Right

LEMMA ChildIs ==
  ASSUME NEW p \in Nat
  PROVE  /\ Left(p) \in Nat /\ Left(p) > p /\ Parent(Left(p)) = p
         /\ Right(p) \in Nat /\ Right(p) > p /\ Parent(Right(p)) = p
BY DEF Parent, Left, Right

LEMMA FilledIs ==
  ASSUME NEW n \in 0..Size, NEW d, Filled(d, n), NEW i \in 0..n - 1
  PROVE  i \in Slot /\ d[i] \in Element /\ Rank[d[i]] \in Int
<1>1. i \in Slot /\ d[i] # Null
  BY DEF Filled
<1>2. d[i] \in Element
  BY <1>1 DEF Filled, Data
<1>. QED
  BY <1>1, <1>2, RankIs

LEMMA SwapIs ==
  ASSUME NEW n \in 0..Size, NEW d, Filled(d, n), NEW i \in 0..n - 1, NEW j \in 0..n - 1
  PROVE  /\ Filled(Swap(d, i, j), n)
         /\ Swap(d, i, j) \in Data
         /\ \A k \in 0..n - 1 : Swap(d, i, j)[k] = IF k = i THEN d[j] ELSE IF k = j THEN d[i] ELSE d[k]
<1>1. i \in Slot /\ j \in Slot /\ d[i] \in Element /\ d[j] \in Element
  BY FilledIs
<1>2. d \in Data
  BY DEF Filled
<1>3. \A k \in Slot : Swap(d, i, j)[k] = IF k = i THEN d[j] ELSE IF k = j THEN d[i] ELSE d[k]
  BY <1>1, <1>2 DEF Swap, Data
<1>4. Swap(d, i, j) \in Data
  BY <1>1, <1>2 DEF Swap, Data
<1>5. Filled(Swap(d, i, j), n)
  BY <1>1, <1>3, <1>4, RankIs DEF Filled
<1>. QED
  BY <1>3, <1>4, <1>5

(* An exchange of two entries leaves each in the array as often.           *)
LEMMA SwapTimes ==
  ASSUME NEW n \in 0..Size, NEW d, Filled(d, n), NEW i \in 0..n - 1, NEW j \in 0..n - 1, NEW e
  PROVE  Times(Swap(d, i, j), n, e) = Times(d, n, e)
<1>. DEFINE f == Swap(d, i, j)
            Other(k) == IF k = i THEN j ELSE IF k = j THEN i ELSE k
            S == {k \in 0..n - 1 : d[k] = e}
            T == {k \in 0..n - 1 : f[k] = e}
            g == [k \in S |-> Other(k)]
<1>1. \A k \in 0..n - 1 : f[k] = d[Other(k)] /\ Other(k) \in 0..n - 1 /\ Other(Other(k)) = k
  BY SwapIs
<1>. HIDE DEF f
<1>2. \A k, m \in 0..n - 1 : Other(k) = Other(m) => k = m
  BY <1>1
<1>. HIDE DEF Other
<1>3. g \in [S -> T]
  BY <1>1
<1>4. \A k, m \in S : g[k] = g[m] => k = m
  BY <1>2
<1>5. \A m \in T : \E k \in S : g[k] = m
  <2>. TAKE m \in T
  <2>1. Other(m) \in S /\ g[Other(m)] = m
    BY <1>1
  <2>. QED
    BY <2>1
<1>. HIDE DEF g, S, T
<1>6. ExistsBijection(S, T)
  BY <1>3, <1>4, <1>5 DEF ExistsBijection, Bijection, Injection, Surjection, IsInjective
<1>7. IsFiniteSet(S)
  <2>1. IsFiniteSet(0..n - 1) /\ S \in SUBSET (0..n - 1)
    BY FS_Interval DEF S
  <2>. QED
    BY <2>1, FS_Subset
<1>8. Cardinality(T) = Cardinality(S)
  BY <1>6, <1>7, FS_Bijection
<1>. QED
  BY <1>8 DEF Times, S, T, f

LEMMA LargestIs ==
  ASSUME NEW n \in 0..Size, NEW d, Filled(d, n), NEW p \in 0..n - 1
  PROVE  /\ Largest(d, n, p) \in 0..n - 1
         /\ Largest(d, n, p) # p => Parent(Largest(d, n, p)) = p /\ Largest(d, n, p) > p
         /\ Rank[d[Largest(d, n, p)]] >= Rank[d[p]]
         /\ \A c \in 1..n - 1 : Parent(c) = p => Rank[d[Largest(d, n, p)]] >= Rank[d[c]]
<1>. DEFINE l == IF Left(p) < n /\ Rank[d[Left(p)]] > Rank[d[p]] THEN Left(p) ELSE p
            r == Largest(d, n, p)
<1>1. p \in Nat /\ \A i \in 0..n - 1 : Rank[d[i]] \in Int
  BY FilledIs
<1>2. /\ Left(p) \in Nat /\ Left(p) > p /\ Parent(Left(p)) = p
      /\ Right(p) \in Nat /\ Right(p) > p /\ Parent(Right(p)) = p
  BY <1>1, ChildIs
<1>3. l \in 0..n - 1 /\ Rank[d[l]] >= Rank[d[p]] /\ (Left(p) < n => Rank[d[l]] >= Rank[d[Left(p)]])
      /\ (l # p => l = Left(p))
  <2>1. CASE Left(p) < n /\ Rank[d[Left(p)]] > Rank[d[p]]
    <3>1. Left(p) \in 0..n - 1
      BY <1>1, <1>2, <2>1
    <3>. QED
      BY <1>1, <2>1, <3>1
  <2>2. CASE ~(Left(p) < n /\ Rank[d[Left(p)]] > Rank[d[p]])
    <3>1. Left(p) < n => Left(p) \in 0..n - 1
      BY <1>1, <1>2
    <3>. QED
      BY <1>1, <2>2, <3>1
  <2>. QED
    BY <2>1, <2>2
<1>4. r = IF Right(p) < n /\ Rank[d[Right(p)]] > Rank[d[l]] THEN Right(p) ELSE l
  BY DEF Largest
<1>. HIDE DEF l, r
<1>5. Right(p) < n => Right(p) \in 0..n - 1
  BY <1>1, <1>2
<1>6. /\ r \in 0..n - 1 /\ Rank[d[r]] >= Rank[d[l]] /\ (Right(p) < n => Rank[d[r]] >= Rank[d[Right(p)]])
      /\ (r # p => r = Left(p) \/ r = Right(p))
  BY <1>1, <1>3, <1>4, <1>5
<1>7. Left(p) < n => Left(p) \in 0..n - 1
  BY <1>1, <1>2
<1>8. ASSUME NEW c \in 1..n - 1, Parent(c) = p PROVE Rank[d[r]] >= Rank[d[c]]
  <2>1. c = Left(p) \/ c = Right(p)
    BY <1>8, ParentIs
  <2>. QED
    BY <1>1, <1>3, <1>5, <1>6, <1>7, <2>1
<1>9. Rank[d[r]] >= Rank[d[p]]
  BY <1>1, <1>3, <1>6
<1>. QED
  BY <1>2, <1>6, <1>8, <1>9 DEF r

-----------------------------------------------------------------------------
(* Sinking: everything from m on is in order but for what is at p, which   *)
(* may rank too low.                                                       *)

Sinking(d, n, m, p) ==
  /\ Filled(d, n)
  /\ p \in m..n - 1
  /\ \A c \in 1..n - 1 : Parent(c) >= m /\ Parent(c) # p => Below(d, c)
  /\ p > 0 /\ Parent(p) >= m => \A c \in 1..n - 1 : Parent(c) = p => Rank[d[Parent(p)]] >= Rank[d[c]]

LEMMA SinkStep ==
  ASSUME NEW n \in 1..Size, NEW m \in 0..n - 1, NEW d, NEW p, Sinking(d, n, m, p)
  PROVE  LET l == Largest(d, n, p)
         IN  /\ Sinking(Swap(d, p, l), n, m, l)
             /\ l > p \/ (l = p /\ Heap(Swap(d, p, l), n, m))
<1>. DEFINE l == Largest(d, n, p)
            e == Swap(d, p, l)
<1>1. Filled(d, n) /\ n \in 0..Size /\ p \in 0..n - 1 /\ p >= m
  BY DEF Sinking
<1>2. /\ l \in 0..n - 1
      /\ l # p => Parent(l) = p /\ l > p
      /\ Rank[d[l]] >= Rank[d[p]]
      /\ \A c \in 1..n - 1 : Parent(c) = p => Rank[d[l]] >= Rank[d[c]]
  BY <1>1, LargestIs
<1>. HIDE DEF l
<1>3. /\ Filled(e, n)
      /\ \A k \in 0..n - 1 : e[k] = IF k = p THEN d[l] ELSE IF k = l THEN d[p] ELSE d[k]
  <2>1. l \in 0..n - 1
    BY <1>2
  <2>. HIDE DEF l
  <2>. QED
    BY <1>1, <2>1, SwapIs
<1>. HIDE DEF e
<1>4. \A c \in 1..n - 1 : Parent(c) \in 0..n - 1 /\ Parent(c) < c
  BY ParentIs
<1>5. \A k \in 0..n - 1 : Rank[d[k]] \in Int
  BY <1>1, FilledIs
<1>6. CASE l = p
  <2>1. \A k \in 0..n - 1 : e[k] = d[k]
    BY <1>3, <1>6
  <2>2. ASSUME NEW c \in 1..n - 1, Parent(c) >= m PROVE Below(e, c)
    <3>1. Below(d, c)
      BY <1>1, <1>2, <1>6, <2>2 DEF Sinking, Below
    <3>. QED
      BY <1>4, <2>1, <3>1 DEF Below
  <2>3. Sinking(e, n, m, l)
    BY <1>1, <1>3, <1>4, <1>6, <2>1, <2>2 DEF Sinking
  <2>. QED
    BY <1>6, <2>2, <2>3 DEF Heap, e, l
<1>7. CASE l # p
  <2>1. Parent(l) = p /\ l > p /\ l \in 1..n - 1
    BY <1>1, <1>2, <1>7
  <2>2. ASSUME NEW c \in 1..n - 1, Parent(c) >= m, Parent(c) # l PROVE Below(e, c)
    <3>1. Parent(c) \in 0..n - 1 /\ Parent(c) < c /\ c \in 0..n - 1
      BY <1>4
    <3>2. CASE c = l
      BY <1>2, <1>3, <2>1, <3>1, <3>2 DEF Below
    <3>3. CASE c = p
      <4>1. Rank[d[Parent(p)]] >= Rank[d[l]]
        BY <1>1, <2>1, <2>2, <3>1, <3>3 DEF Sinking
      <4>2. e[c] = d[l] /\ e[Parent(c)] = d[Parent(p)]
        BY <1>1, <1>3, <2>1, <3>1, <3>3
      <4>. QED
        BY <4>1, <4>2 DEF Below
    <3>4. CASE c # l /\ c # p /\ Parent(c) = p
      BY <1>2, <1>3, <3>1, <3>4 DEF Below
    <3>5. CASE c # l /\ c # p /\ Parent(c) # p
      <4>1. Below(d, c)
        BY <2>2, <3>5 DEF Sinking
      <4>. QED
        BY <1>3, <2>2, <3>1, <3>5, <4>1 DEF Below
    <3>. QED
      BY <3>2, <3>3, <3>4, <3>5
  <2>3. ASSUME NEW c \in 1..n - 1, Parent(c) = l PROVE Rank[e[Parent(l)]] >= Rank[e[c]]
    <3>1. c > l /\ c \in 0..n - 1
      BY <1>4, <2>3
    <3>2. Below(d, c)
      BY <1>1, <2>1, <2>3 DEF Sinking
    <3>3. e[c] = d[c] /\ e[p] = d[l]
      BY <1>1, <1>3, <2>1, <3>1
    <3>. QED
      BY <2>1, <2>3, <3>2, <3>3 DEF Below
  <2>4. Sinking(e, n, m, l)
    BY <1>1, <1>3, <2>1, <2>2, <2>3 DEF Sinking
  <2>. QED
    BY <2>1, <2>4 DEF e, l
<1>. QED
  BY <1>6, <1>7

(* The turns of the loop in Heapify.                                       *)
Sunk(d, n, i) ==
  CHOOSE sink : sink = [k \in 0..n |->
    IF k = 0 THEN <<d, i>>
    ELSE LET at == sink[k - 1]
             l  == Largest(at[1], n, at[2])
         IN  <<Swap(at[1], at[2], l), l>>]

LEMMA SunkIs ==
  ASSUME NEW n \in 0..Size, NEW d \in Data, NEW i \in 0..n - 1
  PROVE  /\ Heapify(d, n, i) = Sunk(d, n, i)[n][1]
         /\ Sunk(d, n, i)[0] = <<d, i>>
         /\ \A k \in 1..n :
              LET at == Sunk(d, n, i)[k - 1]
                  l  == Largest(at[1], n, at[2])
              IN  Sunk(d, n, i)[k] = <<Swap(at[1], at[2], l), l>>
<1>. DEFINE States == Data \X (0..n - 1)
            After(at) == <<Swap(at[1], at[2], Largest(at[1], n, at[2])), Largest(at[1], n, at[2])>>
            F == [k \in 1..n |-> [at \in States |-> After(at)]]
            From(h) == [k \in 0..n |-> IF k = 0 THEN <<d, i>> ELSE After(h[k - 1])]
<1>1. n \in Nat /\ <<d, i>> \in States
  OBVIOUS
<1>2. ASSUME NEW x \in Data, NEW p \in 0..n - 1
      PROVE  Swap(x, p, Largest(x, n, p)) \in Data /\ Largest(x, n, p) \in 0..n - 1
  <2>1. Left(p) \in Nat /\ Right(p) \in Nat
    BY ChildIs
  <2>2. Largest(x, n, p) \in 0..n - 1
    BY <2>1 DEF Largest
  <2>3. \A j \in 0..n - 1 : j \in Slot
    OBVIOUS
  <2>4. ASSUME NEW j \in 0..n - 1 PROVE Swap(x, p, j) \in Data
    BY <2>3 DEF Swap, Data
  <2>. QED
    BY <2>2, <2>4
<1>3. ASSUME NEW at \in States PROVE After(at) \in States
  BY <1>2
<1>. HIDE DEF After
<1>4. F \in Turns(n, States)
  BY <1>3 DEF Turns
<1>. HIDE DEF States
<1>5. PICK h : Run(h, n, States, <<d, i>>, F)
  BY <1>1, <1>4, Iterates
<1>6. h = From(h)
  <2>1. ASSUME NEW k \in 1..n PROVE h[k] = After(h[k - 1])
    <3>1. h[k - 1] \in States
      BY <1>1, <1>5 DEF Run
    <3>2. F[k][h[k - 1]] = After(h[k - 1])
      BY <3>1
    <3>. HIDE DEF F
    <3>. QED
      BY <1>5, <3>2 DEF Run
  <2>2. \A k \in 0..n : k # 0 => k \in 1..n
    BY <1>1
  <2>. QED
    BY <1>5, <2>1, <2>2 DEF Run
<1>7. Sunk(d, n, i) = From(Sunk(d, n, i))
  BY <1>6 DEF Sunk, After
<1>8. Heapify(d, n, i) = Sunk(d, n, i)[n][1]
  BY DEF Heapify, Sunk
<1>9. ASSUME NEW g, g = From(g)
      PROVE  g[0] = <<d, i>> /\ \A k \in 1..n : g[k] = After(g[k - 1])
  <2>1. g[0] = <<d, i>>
    BY <1>1, <1>9
  <2>2. ASSUME NEW k \in 1..n PROVE g[k] = After(g[k - 1])
    <3>1. k \in 0..n /\ k # 0
      BY <1>1
    <3>. QED
      BY <1>9, <3>1
  <2>. QED
    BY <2>1, <2>2
<1>. HIDE DEF From
<1>. QED
  BY <1>7, <1>8, <1>9 DEF After

(* n turns are enough: a place that was left is not come to again.         *)
LEMMA HeapifyIs ==
  ASSUME NEW n \in 0..Size, NEW d, Filled(d, n), NEW m \in 0..n - 1, Heap(d, n, m + 1)
  PROVE  Filled(Heapify(d, n, m), n) /\ Heap(Heapify(d, n, m), n, m)
<1>. DEFINE s == Sunk(d, n, m)
            Good == {k \in 0..n : /\ Sinking(s[k][1], n, m, s[k][2])
                                  /\ s[k][2] >= k \/ Heap(s[k][1], n, m)}
<1>1. n \in Nat /\ n >= 1 /\ n \in 1..Size /\ m \in Nat
  OBVIOUS
<1>2. d \in Data
  BY DEF Filled
<1>3. /\ Heapify(d, n, m) = s[n][1]
      /\ s[0] = <<d, m>>
      /\ \A k \in 1..n : s[k] = <<Swap(s[k - 1][1], s[k - 1][2], Largest(s[k - 1][1], n, s[k - 1][2])),
                                   Largest(s[k - 1][1], n, s[k - 1][2])>>
  BY <1>2, SunkIs
<1>. HIDE DEF s
<1>4. 0 \in Good
  <2>1. \A c \in 1..n - 1 : Parent(c) \in Nat /\ (Parent(c) >= m /\ Parent(c) # m => Parent(c) >= m + 1)
    BY <1>1, ParentIs
  <2>2. m > 0 => Parent(m) < m /\ Parent(m) \in Nat
    BY <1>1, ParentIs
  <2>3. Sinking(d, n, m, m)
    BY <1>1, <2>1, <2>2 DEF Sinking, Heap
  <2>. QED
    BY <1>1, <1>3, <2>3
<1>5. ASSUME NEW k \in 1..n, k - 1 \in Good PROVE k \in Good
  <2>1. PICK x, p : x = s[k - 1][1] /\ p = s[k - 1][2]
    OBVIOUS
  <2>2. Sinking(x, n, m, p) /\ (p >= k - 1 \/ Heap(x, n, m))
    BY <1>5, <2>1
  <2>3. PICK l : l = Largest(x, n, p)
    OBVIOUS
  <2>4. s[k][1] = Swap(x, p, l) /\ s[k][2] = l
    BY <1>3, <2>1, <2>3
  <2>5. Sinking(Swap(x, p, l), n, m, l) /\ (l > p \/ (l = p /\ Heap(Swap(x, p, l), n, m)))
    BY <1>1, <2>2, <2>3, SinkStep
  <2>6. p \in Nat /\ l \in Nat
    BY <1>1, <2>2, <2>5 DEF Sinking
  <2>7. ASSUME Heap(x, n, m), l # p PROVE FALSE
    <3>1. Filled(x, n) /\ p \in 0..n - 1 /\ p >= m
      BY <1>1, <2>2 DEF Sinking
    <3>2. l \in 1..n - 1 /\ Parent(l) = p
      BY <1>1, <2>3, <2>6, <2>7, <3>1, LargestIs
    <3>3. Rank[x[l]] > Rank[x[p]]
      BY <1>1, <2>3, <2>7, <3>1, FilledIs, ChildIs DEF Largest
    <3>4. Rank[x[p]] >= Rank[x[l]]
      BY <2>7, <3>1, <3>2 DEF Heap, Below
    <3>5. Rank[x[p]] \in Int /\ Rank[x[l]] \in Int
      BY <1>1, <3>1, <3>2, FilledIs
    <3>. QED
      BY <3>3, <3>4, <3>5
  <2>8. l >= k \/ Heap(Swap(x, p, l), n, m)
    BY <2>2, <2>5, <2>6, <2>7
  <2>. QED
    BY <2>4, <2>5, <2>8
<1>6. n \in Good
  <2>. HIDE DEF Good
  <2>1. \A k \in 0..n : k \in Good
    BY <1>1, <1>4, <1>5, InductionUpTo
  <2>. QED
    BY <1>1, <2>1
<1>7. Sinking(s[n][1], n, m, s[n][2]) /\ (s[n][2] >= n \/ Heap(s[n][1], n, m))
  BY <1>6
<1>8. ~(s[n][2] >= n)
  BY <1>1, <1>7 DEF Sinking
<1>. QED
  BY <1>3, <1>7, <1>8 DEF Sinking

(* The elements stay, in whatever order they are.                          *)
LEMMA HeapifyFilled ==
  ASSUME NEW n \in 0..Size, NEW d, Filled(d, n), NEW m \in 0..n - 1
  PROVE  /\ Filled(Heapify(d, n, m), n)
         /\ \A e : Times(Heapify(d, n, m), n, e) = Times(d, n, e)
<1>. DEFINE s == Sunk(d, n, m)
            Good == {k \in 0..n : /\ Filled(s[k][1], n) /\ s[k][2] \in 0..n - 1
                                  /\ \A e : Times(s[k][1], n, e) = Times(d, n, e)}
<1>1. n \in Nat
  OBVIOUS
<1>2. d \in Data
  BY DEF Filled
<1>3. /\ Heapify(d, n, m) = s[n][1]
      /\ s[0] = <<d, m>>
      /\ \A k \in 1..n : s[k] = <<Swap(s[k - 1][1], s[k - 1][2], Largest(s[k - 1][1], n, s[k - 1][2])),
                                   Largest(s[k - 1][1], n, s[k - 1][2])>>
  BY <1>2, SunkIs
<1>. HIDE DEF s
<1>4. 0 \in Good
  BY <1>1, <1>3
<1>5. ASSUME NEW k \in 1..n, k - 1 \in Good PROVE k \in Good
  <2>1. PICK x, p : x = s[k - 1][1] /\ p = s[k - 1][2]
    OBVIOUS
  <2>2. Filled(x, n) /\ p \in 0..n - 1 /\ \A e : Times(x, n, e) = Times(d, n, e)
    BY <1>5, <2>1
  <2>3. PICK l : l = Largest(x, n, p)
    OBVIOUS
  <2>4. s[k][1] = Swap(x, p, l) /\ s[k][2] = l
    BY <1>3, <2>1, <2>3
  <2>5. l \in 0..n - 1
    BY <2>2, <2>3, LargestIs
  <2>6. Filled(Swap(x, p, l), n) /\ \A e : Times(Swap(x, p, l), n, e) = Times(d, n, e)
    BY <2>2, <2>5, SwapIs, SwapTimes
  <2>. QED
    BY <2>4, <2>5, <2>6
<1>6. n \in Good
  <2>. HIDE DEF Good
  <2>1. \A k \in 0..n : k \in Good
    BY <1>1, <1>4, <1>5, InductionUpTo
  <2>. QED
    BY <1>1, <2>1
<1>. QED
  BY <1>3, <1>6

(* The turns of the loop in BuildMaxHeap.                                  *)
Built(d, n) ==
  CHOOSE built : built = [k \in 0..n \div 2 |->
    IF k = 0 THEN d ELSE Heapify(built[k - 1], n, (n \div 2) - k)]

LEMMA BuildIs ==
  ASSUME NEW n \in 0..Size, NEW d, Filled(d, n)
  PROVE  Filled(BuildMaxHeap(d, n), n) /\ Heap(BuildMaxHeap(d, n), n, 0)
<1>. DEFINE h == n \div 2
            States == {x \in Data : Filled(x, n)}
            F == [k \in 1..h |-> [x \in States |-> Heapify(x, n, h - k)]]
            From(g) == [k \in 0..h |-> IF k = 0 THEN d ELSE Heapify(g[k - 1], n, h - k)]
            b == Built(d, n)
            Good == {k \in 0..h : Filled(b[k], n) /\ Heap(b[k], n, h - k)}
<1>1. n \in Nat /\ h \in Nat /\ h + h <= n /\ n <= h + h + 1
  OBVIOUS
<1>. HIDE DEF h
<1>2. d \in States /\ \A k \in 1..h : h - k \in 0..n - 1
  BY <1>1 DEF Filled
<1>3. ASSUME NEW k \in 1..h, NEW x \in States PROVE Heapify(x, n, h - k) \in States
  <2>1. Filled(x, n) /\ h - k \in 0..n - 1
    BY <1>2
  <2>2. Filled(Heapify(x, n, h - k), n)
    BY <2>1, HeapifyFilled
  <2>. QED
    BY <2>2 DEF Filled
<1>4. F \in Turns(h, States)
  BY <1>3 DEF Turns
<1>5. PICK g : Run(g, h, States, d, F)
  BY <1>1, <1>2, <1>4, Iterates
<1>6. g = From(g)
  <2>1. ASSUME NEW k \in 1..h PROVE g[k] = Heapify(g[k - 1], n, h - k)
    <3>. HIDE DEF States
    <3>1. g[k - 1] \in States
      BY <1>1, <1>5 DEF Run
    <3>. QED
      BY <1>5, <3>1 DEF Run
  <2>2. \A k \in 0..h : k # 0 => k \in 1..h
    BY <1>1
  <2>. QED
    BY <1>5, <2>1, <2>2 DEF Run
<1>7. b = From(b)
  BY <1>6 DEF Built, h
<1>8. BuildMaxHeap(d, n) = b[h]
  BY DEF BuildMaxHeap, Built, h
<1>. HIDE DEF b, States
<1>9. b[0] = d /\ \A k \in 1..h : b[k] = Heapify(b[k - 1], n, h - k)
  <2>1. ASSUME NEW x, x = From(x)
        PROVE  x[0] = d /\ \A k \in 1..h : x[k] = Heapify(x[k - 1], n, h - k)
    <3>1. x[0] = d
      BY <1>1, <2>1
    <3>2. ASSUME NEW k \in 1..h PROVE x[k] = Heapify(x[k - 1], n, h - k)
      <4>1. k \in 0..h /\ k # 0
        BY <1>1
      <4>. QED
        BY <2>1, <4>1
    <3>. QED
      BY <3>1, <3>2
  <2>. HIDE DEF From
  <2>. QED
    BY <1>7, <2>1
<1>10. 0 \in Good
  <2>1. ASSUME NEW c \in 1..n - 1 PROVE ~(Parent(c) >= h)
    <3>1. Parent(c) \in Nat /\ (c = 2 * Parent(c) + 1 \/ c = 2 * Parent(c) + 2)
      BY ParentIs DEF Left, Right
    <3>. QED
      BY <1>1, <3>1
  <2>. QED
    BY <1>1, <1>9, <2>1 DEF Heap
<1>11. ASSUME NEW k \in 1..h, k - 1 \in Good PROVE k \in Good
  <2>1. Filled(b[k - 1], n) /\ Heap(b[k - 1], n, (h - k) + 1)
    <3>1. h - (k - 1) = (h - k) + 1
      BY <1>1
    <3>. QED
      BY <1>11, <3>1
  <2>2. Filled(Heapify(b[k - 1], n, h - k), n) /\ Heap(Heapify(b[k - 1], n, h - k), n, h - k)
    BY <1>2, <2>1, HeapifyIs
  <2>. QED
    BY <1>1, <1>9, <2>2
<1>12. h \in Good
  <2>. HIDE DEF Good
  <2>1. \A k \in 0..h : k \in Good
    BY <1>1, <1>10, <1>11, InductionUpTo
  <2>. QED
    BY <1>1, <2>1
<1>13. h - h = 0
  BY <1>1
<1>. QED
  BY <1>8, <1>12, <1>13

-----------------------------------------------------------------------------
(* Raising: everything is in order but for what is at p, which may rank    *)
(* too high.                                                               *)

Rising(d, n, p) ==
  /\ Filled(d, n)
  /\ p \in 0..n - 1
  /\ \A c \in 1..n - 1 : c # p => Below(d, c)
  /\ p > 0 => \A c \in 1..n - 1 : Parent(c) = p => Rank[d[Parent(p)]] >= Rank[d[c]]

LEMMA RiseStep ==
  ASSUME NEW n \in 1..Size, NEW d, NEW p, Rising(d, n, p), p > 0, Rank[d[Parent(p)]] < Rank[d[p]]
  PROVE  Parent(p) < p /\ Rising(Swap(d, p, Parent(p)), n, Parent(p))
<1>. DEFINE q == Parent(p)
            e == Swap(d, p, q)
<1>1. Filled(d, n) /\ n \in 0..Size /\ p \in 1..n - 1 /\ p \in Nat
  BY DEF Rising
<1>2. q \in 0..n - 1 /\ q < p
  BY <1>1, ParentIs
<1>3. \A c \in 1..n - 1 : Parent(c) \in 0..n - 1 /\ Parent(c) < c
  BY ParentIs
<1>4. \A k \in 0..n - 1 : Rank[d[k]] \in Int
  BY <1>1, FilledIs
<1>5. Rank[d[q]] < Rank[d[p]]
  OBVIOUS
<1>6. \A c \in 1..n - 1 : Parent(c) = p => Rank[d[q]] >= Rank[d[c]]
  BY <1>1 DEF Rising
<1>7. Parent(p) = q
  OBVIOUS
<1>. HIDE DEF q
<1>8. /\ Filled(e, n)
      /\ \A k \in 0..n - 1 : e[k] = IF k = p THEN d[q] ELSE IF k = q THEN d[p] ELSE d[k]
  BY <1>1, <1>2, SwapIs
<1>. HIDE DEF e
<1>9. ASSUME NEW c \in 1..n - 1, c # q PROVE Below(e, c)
  <2>1. Parent(c) \in 0..n - 1 /\ Parent(c) < c /\ c \in 0..n - 1
    BY <1>3
  <2>2. CASE c = p
    BY <1>2, <1>5, <1>7, <1>8, <2>1, <2>2, <1>4 DEF Below
  <2>3. CASE c # p
    <3>1. Below(d, c)
      BY <2>3 DEF Rising
    <3>2. e[c] = d[c]
      BY <1>8, <1>9, <2>1, <2>3
    <3>3. CASE Parent(c) = q
      <4>1. e[Parent(c)] = d[p]
        BY <1>2, <1>8, <3>3
      <4>. QED
        BY <1>1, <1>2, <1>4, <1>5, <2>1, <3>1, <3>2, <3>3, <4>1 DEF Below
    <3>4. CASE Parent(c) = p
      <4>1. e[Parent(c)] = d[q]
        BY <1>1, <1>8, <3>4
      <4>. QED
        BY <1>6, <3>2, <3>4, <4>1 DEF Below
    <3>5. CASE Parent(c) # p /\ Parent(c) # q
      <4>1. e[Parent(c)] = d[Parent(c)]
        BY <1>8, <2>1, <3>5
      <4>. QED
        BY <3>1, <3>2, <4>1 DEF Below
    <3>. QED
      BY <3>3, <3>4, <3>5
  <2>. QED
    BY <2>2, <2>3
<1>10. ASSUME q > 0, NEW c \in 1..n - 1, Parent(c) = q PROVE Rank[e[Parent(q)]] >= Rank[e[c]]
  <2>1. Parent(q) \in 0..n - 1 /\ Parent(q) < q /\ q \in 1..n - 1 /\ c \in 0..n - 1
    BY <1>2, <1>3, <1>10
  <2>2. Below(d, q)
    BY <1>2, <2>1 DEF Rising
  <2>3. e[Parent(q)] = d[Parent(q)]
    BY <1>1, <1>2, <1>8, <2>1
  <2>4. CASE c = p
    BY <1>8, <2>1, <2>2, <2>3, <2>4 DEF Below
  <2>5. CASE c # p
    <3>1. Below(d, c) /\ e[c] = d[c]
      BY <1>3, <1>8, <1>10, <2>1, <2>5 DEF Rising
    <3>. QED
      BY <1>2, <1>4, <1>10, <2>1, <2>2, <2>3, <3>1 DEF Below
  <2>. QED
    BY <2>4, <2>5
<1>11. Rising(e, n, q)
  BY <1>2, <1>8, <1>9, <1>10 DEF Rising
<1>. QED
  BY <1>2, <1>11 DEF e, q

(* The turns of the loop in Raise.                                         *)
Climbed(d, n, i, e) ==
  CHOOSE climb : climb = [k \in 0..n |->
    IF k = 0 THEN <<[d EXCEPT ![i] = e], i>>
    ELSE LET at == climb[k - 1]
             p  == Parent(at[2])
         IN  IF at[2] > 0 /\ Rank[at[1][p]] < Rank[at[1][at[2]]]
             THEN <<Swap(at[1], at[2], p), p>> ELSE at]

Lifts(at) == at[2] > 0 /\ Rank[at[1][Parent(at[2])]] < Rank[at[1][at[2]]]

Lifted(at) ==
  IF Lifts(at) THEN <<Swap(at[1], at[2], Parent(at[2])), Parent(at[2])>> ELSE at

LEMMA ClimbedIs ==
  ASSUME NEW n \in 0..Size, NEW d \in Data, NEW i \in 0..n - 1, NEW e \in Element
  PROVE  /\ Raise(d, n, i, e) = Climbed(d, n, i, e)[n][1]
         /\ Climbed(d, n, i, e)[0] = <<[d EXCEPT ![i] = e], i>>
         /\ \A k \in 1..n : Climbed(d, n, i, e)[k] = Lifted(Climbed(d, n, i, e)[k - 1])
<1>. DEFINE States == Data \X (0..n - 1)
            start == <<[d EXCEPT ![i] = e], i>>
            F == [k \in 1..n |-> [at \in States |-> Lifted(at)]]
            From(h) == [k \in 0..n |-> IF k = 0 THEN start ELSE Lifted(h[k - 1])]
<1>1. n \in Nat /\ start \in States
  <2>1. i \in Slot
    OBVIOUS
  <2>2. [d EXCEPT ![i] = e] \in Data
    BY <2>1 DEF Data
  <2>. QED
    BY <2>2
<1>2. ASSUME NEW x \in Data, NEW p \in 1..n - 1
      PROVE  Swap(x, p, Parent(p)) \in Data /\ Parent(p) \in 0..n - 1
  <2>1. Parent(p) \in 0..n - 1
    BY ParentIs
  <2>2. Parent(p) \in Slot /\ p \in Slot
    BY <2>1
  <2>. QED
    BY <2>1, <2>2 DEF Swap, Data
<1>3. ASSUME NEW at \in States PROVE Lifted(at) \in States
  <2>1. at[1] \in Data /\ at[2] \in 0..n - 1 /\ at = <<at[1], at[2]>>
    OBVIOUS
  <2>2. at[2] > 0 => at[2] \in 1..n - 1
    BY <2>1
  <2>3. at[2] > 0 => Swap(at[1], at[2], Parent(at[2])) \in Data /\ Parent(at[2]) \in 0..n - 1
    BY <1>2, <2>1, <2>2
  <2>. QED
    BY <2>3 DEF Lifted, Lifts
<1>4. F \in Turns(n, States)
  BY <1>3 DEF Turns
<1>. HIDE DEF States, start
<1>5. PICK h : Run(h, n, States, start, F)
  BY <1>1, <1>4, Iterates
<1>6. h = From(h)
  <2>1. ASSUME NEW k \in 1..n PROVE h[k] = Lifted(h[k - 1])
    <3>1. h[k - 1] \in States
      BY <1>1, <1>5 DEF Run
    <3>. QED
      BY <1>5, <3>1 DEF Run
  <2>2. \A k \in 0..n : k # 0 => k \in 1..n
    BY <1>1
  <2>. QED
    BY <1>5, <2>1, <2>2 DEF Run
<1>7. Climbed(d, n, i, e) = From(Climbed(d, n, i, e))
  BY <1>6 DEF Climbed, Lifted, Lifts, start
<1>8. Raise(d, n, i, e) = Climbed(d, n, i, e)[n][1]
  BY DEF Raise, Climbed
<1>9. ASSUME NEW g, g = From(g)
      PROVE  g[0] = start /\ \A k \in 1..n : g[k] = Lifted(g[k - 1])
  <2>1. g[0] = start
    BY <1>1, <1>9
  <2>2. ASSUME NEW k \in 1..n PROVE g[k] = Lifted(g[k - 1])
    <3>1. k \in 0..n /\ k # 0
      BY <1>1
    <3>. QED
      BY <1>9, <3>1
  <2>. QED
    BY <2>1, <2>2
<1>. HIDE DEF From
<1>. QED
  BY <1>7, <1>8, <1>9 DEF start

LEMMA RaiseIs ==
  ASSUME NEW n \in 1..Size, NEW d \in Data, NEW i \in 0..n - 1, NEW e \in Element,
         Rising([d EXCEPT ![i] = e], n, i)
  PROVE  Filled(Raise(d, n, i, e), n) /\ Heap(Raise(d, n, i, e), n, 0)
<1>. DEFINE s == Climbed(d, n, i, e)
            Good == {k \in 0..n : /\ Rising(s[k][1], n, s[k][2])
                                  /\ s[k][2] + k <= n - 1 \/ ~Lifts(s[k])}
<1>1. n \in Nat /\ n >= 1 /\ n \in 0..Size /\ i \in 0..n - 1
  OBVIOUS
<1>2. /\ Raise(d, n, i, e) = s[n][1]
      /\ s[0] = <<[d EXCEPT ![i] = e], i>>
      /\ \A k \in 1..n : s[k] = Lifted(s[k - 1])
  BY <1>1, ClimbedIs
<1>. HIDE DEF s
<1>3. 0 \in Good
  BY <1>1, <1>2
<1>4. ASSUME NEW k \in 1..n, k - 1 \in Good PROVE k \in Good
  <2>1. PICK x, p : x = s[k - 1][1] /\ p = s[k - 1][2]
    OBVIOUS
  <2>2. Rising(x, n, p) /\ (p + (k - 1) <= n - 1 \/ ~Lifts(s[k - 1]))
    BY <1>4, <2>1
  <2>3. p \in 0..n - 1 /\ p \in Nat /\ k \in 0..n
    BY <1>1, <2>2 DEF Rising
  <2>4. CASE Lifts(s[k - 1])
    <3>1. p > 0 /\ Rank[x[Parent(p)]] < Rank[x[p]]
      BY <2>1, <2>4 DEF Lifts
    <3>2. Parent(p) < p /\ Rising(Swap(x, p, Parent(p)), n, Parent(p))
      BY <2>2, <3>1, RiseStep
    <3>3. s[k][1] = Swap(x, p, Parent(p)) /\ s[k][2] = Parent(p)
      <4>1. s[k] = <<Swap(s[k - 1][1], s[k - 1][2], Parent(s[k - 1][2])), Parent(s[k - 1][2])>>
        BY <1>2, <2>4 DEF Lifted
      <4>. QED
        BY <2>1, <4>1
    <3>4. Parent(p) \in Nat
      BY <2>3, <3>1, ParentIs
    <3>5. Parent(p) + k <= n - 1
      BY <1>1, <2>2, <2>3, <2>4, <3>2, <3>4
    <3>. QED
      BY <2>3, <3>2, <3>3, <3>5
  <2>5. CASE ~Lifts(s[k - 1])
    <3>1. s[k] = s[k - 1]
      BY <1>2, <2>5 DEF Lifted
    <3>. QED
      BY <2>1, <2>2, <2>3, <2>5, <3>1
  <2>. QED
    BY <2>4, <2>5
<1>5. n \in Good
  <2>. HIDE DEF Good
  <2>1. \A k \in 0..n : k \in Good
    BY <1>1, <1>3, <1>4, InductionUpTo
  <2>. QED
    BY <1>1, <2>1
<1>6. PICK x, p : x = s[n][1] /\ p = s[n][2]
  OBVIOUS
<1>7. Rising(x, n, p) /\ p \in 0..n - 1
  BY <1>5, <1>6 DEF Rising
<1>8. ~Lifts(s[n])
  BY <1>1, <1>5, <1>6, <1>7
<1>9. Filled(x, n) /\ \A c \in 1..n - 1 : c # p => Below(x, c)
  BY <1>7 DEF Rising
<1>10. p > 0 => Below(x, p)
  <2>. SUFFICES ASSUME p > 0 PROVE Below(x, p)
    OBVIOUS
  <2>1. ~(Rank[x[Parent(p)]] < Rank[x[p]])
    BY <1>6, <1>8 DEF Lifts
  <2>2. Parent(p) \in 0..n - 1
    BY <1>1, <1>7, ParentIs
  <2>3. Rank[x[Parent(p)]] \in Int /\ Rank[x[p]] \in Int
    BY <1>1, <1>7, <1>9, <2>2, FilledIs
  <2>. QED
    BY <2>1, <2>3 DEF Below
<1>11. Heap(x, n, 0)
  BY <1>1, <1>7, <1>9, <1>10 DEF Heap
<1>. QED
  BY <1>2, <1>6, <1>9, <1>11

-----------------------------------------------------------------------------
(* The operations. *)

QueueInv == TypeOK /\ HeapOrder

Ordered(q) ==
  /\ q \in [max : 1..Size, count : 0..Size, data : Data, locked : BOOLEAN]
  /\ q.count <= q.max
  /\ Filled(q.data, q.count)
  /\ Heap(q.data, q.count, 0)

LEMMA QueueInvIs ==
  QueueInv <=> Ordered(queue) /\ pc \in [Thread -> {"idle", "enqueue", "dequeue", "empty"}]
<1>1. ASSUME queue \in [max : 1..Size, count : 0..Size, data : Data, locked : BOOLEAN]
      PROVE  HeapOrder <=> Filled(queue.data, queue.count) /\ Heap(queue.data, queue.count, 0)
  <2>1. \A c \in 1..queue.count - 1 : Parent(c) >= 0
    BY <1>1, ParentIs
  <2>. QED
    BY <1>1, <2>1 DEF HeapOrder, Filled, Heap, Below
<1>. QED
  BY <1>1 DEF QueueInv, TypeOK, Ordered, Data

LEMMA ConstructIs ==
  ASSUME NEW n \in 1..Size PROVE Ordered(Construct(n))
<1>1. Filled([s \in Slot |-> Null], 0) /\ Heap([s \in Slot |-> Null], 0, 0)
  BY DEF Filled, Heap, Data
<1>. QED
  BY <1>1 DEF Construct, Ordered, Filled

LEMMA FromKeysIs ==
  ASSUME NEW s \in [1..Size -> Element] PROVE Ordered(FromKeys(s))
<1>. DEFINE d == [x \in Slot |-> IF x < Len(s) THEN s[x + 1] ELSE Null]
<1>1. s \in Seq(Element) /\ Len(s) = Size
  OBVIOUS
<1>2. \A x \in Slot : x < Len(s) /\ x + 1 \in 1..Size /\ s[x + 1] \in Element
  BY <1>1
<1>3. d \in Data /\ \A x \in Slot : d[x] = s[x + 1]
  BY <1>2 DEF Data
<1>. HIDE DEF d
<1>4. Filled(d, Size)
  BY <1>2, <1>3, RankIs DEF Filled
<1>5. Filled(BuildMaxHeap(d, Size), Size) /\ Heap(BuildMaxHeap(d, Size), Size, 0)
  BY <1>4, BuildIs
<1>6. FromKeys(s) = [max |-> Size, count |-> Size, locked |-> FALSE, data |-> BuildMaxHeap(d, Size)]
  BY <1>1 DEF FromKeys, d
<1>. QED
  BY <1>5, <1>6 DEF Ordered, Filled

LEMMA InsertedIs ==
  ASSUME NEW q, Ordered(q), q.count < q.max, NEW e \in Element
  PROVE  Ordered(Inserted(q, e)) /\ Inserted(q, e).max = q.max
<1>. DEFINE n == q.count + 1
            d == [q.data EXCEPT ![q.count] = e]
            r == Raise(q.data, n, q.count, e)
<1>1. /\ q.data \in Data /\ q.count \in Nat /\ q.max \in 1..Size /\ q.count \in Slot
      /\ n \in 1..Size /\ q.count \in 0..n - 1 /\ n <= q.max /\ n \in 0..Size
  BY DEF Ordered
<1>2. Filled(d, n)
  <2>1. d \in Data
    BY <1>1 DEF Data
  <2>2. \A i \in Slot : d[i] = IF i = q.count THEN e ELSE q.data[i]
    BY <1>1 DEF Data
  <2>3. \A i \in Slot : q.data[i] = Null <=> i >= q.count
    BY DEF Ordered, Filled
  <2>. QED
    BY <1>1, <2>1, <2>2, <2>3, RankIs DEF Filled
<1>3. Rising(d, n, q.count)
  <2>1. \A c \in 1..n - 1 : Parent(c) \in Nat /\ Parent(c) < c
    BY ParentIs
  <2>2. ASSUME NEW c \in 1..n - 1, c # q.count PROVE Below(d, c)
    <3>1. c \in 1..q.count - 1 /\ Parent(c) >= 0 /\ Parent(c) # q.count
      BY <1>1, <2>1, <2>2
    <3>2. Below(q.data, c)
      BY <3>1 DEF Ordered, Heap
    <3>3. d[c] = q.data[c] /\ d[Parent(c)] = q.data[Parent(c)]
      BY <1>1, <2>1, <2>2, <3>1 DEF Data
    <3>. QED
      BY <3>2, <3>3 DEF Below
  <2>3. \A c \in 1..n - 1 : Parent(c) # q.count
    BY <1>1, <2>1
  <2>. QED
    BY <1>1, <1>2, <2>2, <2>3 DEF Rising
<1>4. Filled(r, n) /\ Heap(r, n, 0)
  BY <1>1, <1>3, RaiseIs
<1>5. Inserted(q, e) = [q EXCEPT !.count = n, !.data = r]
  BY DEF Inserted
<1>. HIDE DEF r, d
<1>6. /\ Inserted(q, e) \in [max : 1..Size, count : 0..Size, data : Data, locked : BOOLEAN]
      /\ Inserted(q, e).count = n /\ Inserted(q, e).data = r /\ Inserted(q, e).max = q.max
  BY <1>1, <1>4, <1>5 DEF Ordered, Filled
<1>. QED
  BY <1>1, <1>4, <1>6 DEF Ordered

LEMMA ExtractedIs ==
  ASSUME NEW q, Ordered(q), q.count # 0
  PROVE  Ordered(Extracted(q)) /\ Extracted(q).max = q.max
<1>. DEFINE n == q.count - 1
            d == [[q.data EXCEPT ![0] = q.data[n]] EXCEPT ![n] = Null]
            r == Heapify(d, n, 0)
<1>1. /\ q.data \in Data /\ q.count \in Nat /\ q.max \in 1..Size
      /\ n \in 0..Size /\ n \in Slot /\ 0 \in Slot /\ n <= q.max
  BY DEF Ordered
<1>2. \A i \in Slot : q.data[i] = Null <=> i >= q.count
  BY DEF Ordered, Filled
<1>3. \A i \in Slot : d[i] = IF i = n THEN Null ELSE IF i = 0 THEN q.data[n] ELSE q.data[i]
  BY <1>1 DEF Data
<1>4. d \in Data
  BY <1>1 DEF Data
<1>. HIDE DEF d
<1>5. Filled(d, n)
  <2>1. q.count = n + 1 /\ q.data[n] # Null
    BY <1>1, <1>2
  <2>2. ASSUME NEW i \in Slot PROVE d[i] = Null <=> i >= n
    BY <1>1, <1>2, <1>3, <2>1
  <2>. QED
    BY <1>4, <2>2 DEF Filled
<1>6. Heap(d, n, 1)
  <2>. SUFFICES ASSUME NEW c \in 1..n - 1, Parent(c) >= 1 PROVE Below(d, c)
    BY DEF Heap
  <2>1. Parent(c) \in Nat /\ Parent(c) < c
    BY ParentIs
  <2>2. Below(q.data, c)
    BY <1>1, <2>1 DEF Ordered, Heap
  <2>3. d[c] = q.data[c] /\ d[Parent(c)] = q.data[Parent(c)]
    BY <1>1, <1>3, <2>1
  <2>. QED
    BY <2>2, <2>3 DEF Below
<1>7. Filled(r, n) /\ Heap(r, n, 0)
  <2>1. CASE n = 0
    <3>1. Sunk(d, n, 0)[n][1] = Heapify(d, n, 0)
      BY DEF Heapify, Sunk
    <3>2. Sunk(d, n, 0) = [k \in 0..0 |-> <<d, 0>>]
      <4>. DEFINE g == [k \in 0..0 |-> <<d, 0>>]
                  From(h) == [k \in 0..n |-> IF k = 0 THEN <<d, 0>>
                               ELSE LET at == h[k - 1]
                                        l  == Largest(at[1], n, at[2])
                                    IN  <<Swap(at[1], at[2], l), l>>]
      <4>1. \A h : From(h) = g
        <5>. SUFFICES ASSUME NEW h PROVE From(h) = g
          OBVIOUS
        <5>1. \A k \in 0..n : k = 0
          BY <2>1
        <5>2. DOMAIN From(h) = 0..0
          BY <2>1
        <5>3. \A k \in 0..0 : From(h)[k] = <<d, 0>>
          BY <2>1
        <5>. QED
          BY <5>2, <5>3
      <4>2. Sunk(d, n, 0) = CHOOSE h : h = From(h)
        BY DEF Sunk
      <4>. HIDE DEF From, g
      <4>3. Sunk(d, n, 0) = g
        BY <4>1, <4>2
      <4>. QED
        BY <4>3 DEF g
    <3>3. r = d
      BY <2>1, <3>1, <3>2
    <3>. QED
      BY <1>5, <2>1, <3>3 DEF Heap
  <2>2. CASE n # 0
    <3>1. 0 \in 0..n - 1 /\ 0 + 1 = 1
      BY <1>1, <2>2
    <3>. QED
      BY <1>1, <1>5, <1>6, <3>1, HeapifyIs
  <2>. QED
    BY <2>1, <2>2
<1>8. Extracted(q) = [q EXCEPT !.count = n, !.data = r]
  BY DEF Extracted, d
<1>. HIDE DEF r
<1>9. /\ Extracted(q) \in [max : 1..Size, count : 0..Size, data : Data, locked : BOOLEAN]
      /\ Extracted(q).count = n /\ Extracted(q).data = r /\ Extracted(q).max = q.max
  BY <1>1, <1>7, <1>8 DEF Ordered, Filled
<1>. QED
  BY <1>1, <1>7, <1>9 DEF Ordered

LEMMA IncreasedIs ==
  ASSUME NEW q, Ordered(q), NEW i \in 0..q.count - 1, NEW e \in Element,
         ~(Rank[e] < Rank[q.data[i]])
  PROVE  Ordered([q EXCEPT !.data = Raise(@, q.count, i, e)])
<1>. DEFINE n == q.count
            d == [q.data EXCEPT ![i] = e]
            r == Raise(q.data, n, i, e)
<1>1. /\ q.data \in Data /\ n \in Nat /\ i \in Slot
      /\ n \in 1..Size /\ n \in 0..Size /\ i \in 0..n - 1
  BY DEF Ordered
<1>2. Filled(q.data, n)
  BY DEF Ordered
<1>3. \A k \in Slot : d[k] = IF k = i THEN e ELSE q.data[k]
  BY <1>1 DEF Data
<1>4. d \in Data
  BY <1>1 DEF Data
<1>. HIDE DEF d
<1>5. Filled(d, n)
  BY <1>1, <1>2, <1>3, <1>4, RankIs DEF Filled
<1>6. \A k \in 0..n - 1 : Rank[q.data[k]] \in Int /\ k \in Slot
  BY <1>1, <1>2, FilledIs
<1>7. Rank[e] >= Rank[q.data[i]] /\ Rank[e] \in Int
  BY <1>1, <1>6, RankIs
<1>8. \A c \in 1..n - 1 : Parent(c) \in 0..n - 1 /\ Parent(c) < c /\ c \in 0..n - 1 /\ Below(q.data, c)
  BY <1>1, ParentIs DEF Ordered, Heap
<1>9. ASSUME NEW c \in 1..n - 1, c # i PROVE Below(d, c)
  <2>1. d[c] = q.data[c]
    BY <1>3, <1>6, <1>8, <1>9
  <2>2. Rank[d[Parent(c)]] >= Rank[q.data[Parent(c)]] /\ Rank[d[Parent(c)]] \in Int
    BY <1>3, <1>6, <1>7, <1>8
  <2>. QED
    BY <1>6, <1>8, <2>1, <2>2 DEF Below
<1>10. ASSUME i > 0, NEW c \in 1..n - 1, Parent(c) = i PROVE Rank[d[Parent(i)]] >= Rank[d[c]]
  <2>1. i \in 1..n - 1 /\ Parent(i) # i /\ c # i
    BY <1>1, <1>8, <1>10
  <2>2. d[Parent(i)] = q.data[Parent(i)] /\ d[c] = q.data[c]
    BY <1>3, <1>6, <1>8, <2>1
  <2>. QED
    BY <1>6, <1>8, <1>10, <2>1, <2>2 DEF Below
<1>11. Rising(d, n, i)
  BY <1>1, <1>5, <1>9, <1>10 DEF Rising
<1>12. Filled(r, n) /\ Heap(r, n, 0)
  BY <1>1, <1>11, RaiseIs DEF d
<1>. HIDE DEF r
<1>13. ASSUME NEW x, x = [q EXCEPT !.data = r] PROVE Ordered(x)
  <2>1. /\ x \in [max : 1..Size, count : 0..Size, data : Data, locked : BOOLEAN]
        /\ x.count = n /\ x.data = r /\ x.max = q.max
    BY <1>1, <1>12, <1>13 DEF Ordered, Filled
  <2>. QED
    BY <1>12, <2>1 DEF Ordered
<1>. QED
  BY <1>13 DEF r

LEMMA InitKeeps == Init => QueueInv
<1>. SUFFICES ASSUME Init PROVE QueueInv
  OBVIOUS
<1>1. pc \in [Thread -> {"idle", "enqueue", "dequeue", "empty"}]
  BY DEF Init
<1>2. Ordered(queue)
  <2>1. CASE queue = Construct(Size)
    BY <2>1, ConstructIs
  <2>2. CASE \E s \in [1..Size -> Element] : queue = FromKeys(s)
    BY <2>2, FromKeysIs
  <2>. QED
    BY <2>1, <2>2 DEF Init
<1>. QED
  BY <1>1, <1>2, QueueInvIs

(* With the mutex taken or not.                                            *)
LEMMA LeaksKeeps ==
  ASSUME NEW q, Ordered(q) PROVE Ordered([q EXCEPT !.locked = TRUE])
<1>. DEFINE r == [q EXCEPT !.locked = TRUE]
<1>1. /\ r \in [max : 1..Size, count : 0..Size, data : Data, locked : BOOLEAN]
      /\ r.count = q.count /\ r.data = q.data /\ r.max = q.max
  BY DEF Ordered
<1>. QED
  BY <1>1 DEF Ordered

LEMMA NextKeeps == QueueInv /\ [Next]_vars => QueueInv'
<1>. DEFINE Pcs == [Thread -> {"idle", "enqueue", "dequeue", "empty"}]
<1>. SUFFICES ASSUME QueueInv, [Next]_vars PROVE QueueInv'
  OBVIOUS
<1>1. Ordered(queue) /\ pc \in Pcs
  BY QueueInvIs
<1>2. ASSUME Ordered(queue'), pc' \in Pcs PROVE QueueInv'
  <2>1. QueueInv' <=> (Ordered(queue) /\ pc \in Pcs)'
    BY QueueInvIs, PTL
  <2>. QED
    BY <1>2, <2>1
<1>3. ASSUME NEW t \in Thread, NEW op \in {"enqueue", "dequeue", "empty"}, Call(t, op) PROVE QueueInv'
  BY <1>1, <1>2, <1>3 DEF Call
<1>4. ASSUME NEW t \in Thread, NEW e \in Element, Enqueue(t, e) PROVE QueueInv'
  BY <1>1, <1>2, <1>4, InsertedIs DEF Enqueue, Return
<1>5. ASSUME NEW t \in Thread, Dequeue(t) PROVE QueueInv'
  BY <1>1, <1>2, <1>5, ExtractedIs DEF Dequeue, Return
<1>6. ASSUME NEW t \in Thread, Leaks(t) PROVE QueueInv'
  BY <1>1, <1>2, <1>6, LeaksKeeps DEF Leaks, Return
<1>7. ASSUME NEW t \in Thread, Empty(t) PROVE QueueInv'
  BY <1>1, <1>2, <1>7 DEF Empty, Return
<1>8. CASE Max
  BY <1>1, <1>2, <1>8 DEF Max
<1>9. CASE ExtractMax
  BY <1>1, <1>2, <1>9, ExtractedIs DEF ExtractMax
<1>10. CASE Renew
  <2>1. queue.max \in 1..Size
    BY <1>1 DEF Ordered
  <2>. QED
    BY <1>1, <1>2, <1>10, <2>1, ConstructIs DEF Renew
<1>11. ASSUME NEW e \in Element, Insert(e) PROVE QueueInv'
  BY <1>1, <1>2, <1>11, InsertedIs DEF Insert
<1>12. ASSUME NEW e \in Element, NEW i \in 0..queue.count - 1, IncreaseKey(i, e) PROVE QueueInv'
  BY <1>1, <1>2, <1>12, IncreasedIs DEF IncreaseKey
<1>13. CASE Refuses
  BY <1>1, <1>2, <1>13 DEF Refuses
<1>14. CASE UNCHANGED vars
  BY <1>1, <1>2, <1>14 DEF vars
<1>. QED
  BY <1>3, <1>4, <1>5, <1>6, <1>7, <1>8, <1>9, <1>10, <1>11, <1>12, <1>13, <1>14 DEF Next

(* Whatever is enqueued, inserted, increased and taken out, with the mutex *)
(* or without, no entry ranks above the one over it, and the entries fill  *)
(* the array from its beginning without a gap (priority_queue_heapify,     *)
(* priority_queue_increase_key).                                           *)
THEOREM QueueInvariant == Spec => []QueueInv
BY InitKeeps, NextKeeps, PTL DEF Spec

(* With the order of each entry and the one over it the first ranks        *)
(* highest of all: it is what priority_queue_max and _extract_max give.    *)
THEOREM FirstIsHighest ==
  ASSUME NEW q, Ordered(q)
  PROVE  \A i \in 0..q.count - 1 : Rank[q.data[0]] >= Rank[q.data[i]]
<1>. DEFINE n == q.count
            d == q.data
            S == {i \in Nat : \A j \in 0..i : j < n => Rank[d[0]] >= Rank[d[j]]}
<1>1. n \in 0..Size /\ n \in Nat /\ Filled(d, n)
  BY DEF Ordered
<1>2. \A j \in 0..n - 1 : Rank[d[j]] \in Int
  BY <1>1, FilledIs
<1>3. \A c \in 1..n - 1 : Parent(c) \in 0..n - 1 /\ Parent(c) < c /\ Rank[d[Parent(c)]] >= Rank[d[c]]
  BY <1>1, ParentIs DEF Ordered, Heap, Below
<1>. HIDE DEF n, d
<1>4. 0 \in S
  BY <1>1, <1>2
<1>5. ASSUME NEW i \in S PROVE i + 1 \in S
  <2>1. i \in Nat /\ \A j \in 0..i : j < n => Rank[d[0]] >= Rank[d[j]]
    OBVIOUS
  <2>2. ASSUME i + 1 < n PROVE Rank[d[0]] >= Rank[d[i + 1]]
    <3>1. i + 1 \in 1..n - 1
      BY <1>1, <2>1, <2>2
    <3>2. Parent(i + 1) \in 0..i /\ Parent(i + 1) \in 0..n - 1 /\ Parent(i + 1) < n
      BY <1>1, <1>3, <2>1, <3>1
    <3>3. Rank[d[0]] >= Rank[d[Parent(i + 1)]]
      BY <2>1, <3>2
    <3>4. 0 \in 0..n - 1 /\ i + 1 \in 0..n - 1
      BY <1>1, <3>1
    <3>. QED
      BY <1>2, <1>3, <3>1, <3>2, <3>3, <3>4
  <2>3. ASSUME NEW j \in 0..i + 1, j < n PROVE Rank[d[0]] >= Rank[d[j]]
    <3>1. j \in 0..i \/ j = i + 1
      BY <2>1
    <3>. QED
      BY <2>1, <2>2, <2>3, <3>1
  <2>. QED
    BY <2>1, <2>3
<1>6. S = Nat
  <2>1. S \in SUBSET Nat
    OBVIOUS
  <2>. HIDE DEF S
  <2>. QED
    BY <1>4, <1>5, <2>1, Induction
<1>7. ASSUME NEW i \in 0..n - 1 PROVE Rank[d[0]] >= Rank[d[i]]
  <2>1. i \in S /\ i \in 0..i /\ i < n
    BY <1>1, <1>6
  <2>. QED
    BY <2>1
<1>. QED
  BY <1>7 DEF n, d

-----------------------------------------------------------------------------
(* What comes in and goes out. *)

(* An element that is raised takes the place of what was there.            *)
LEMMA RaiseTimes ==
  ASSUME NEW n \in 0..Size, NEW d \in Data, NEW i \in 0..n - 1, NEW e \in Element,
         Filled([d EXCEPT ![i] = e], n), NEW x
  PROVE  Times(Raise(d, n, i, e), n, x) = Times([d EXCEPT ![i] = e], n, x)
<1>. DEFINE s == Climbed(d, n, i, e)
            a == [d EXCEPT ![i] = e]
            Good == {k \in 0..n : /\ Filled(s[k][1], n) /\ s[k][2] \in 0..n - 1
                                  /\ Times(s[k][1], n, x) = Times(a, n, x)}
<1>1. n \in Nat /\ Filled(a, n)
  OBVIOUS
<1>2. /\ Raise(d, n, i, e) = s[n][1]
      /\ s[0] = <<a, i>>
      /\ \A k \in 1..n : s[k] = Lifted(s[k - 1])
  BY ClimbedIs
<1>. HIDE DEF s, a
<1>3. 0 \in Good
  BY <1>1, <1>2
<1>4. ASSUME NEW k \in 1..n, k - 1 \in Good PROVE k \in Good
  <2>1. PICK y, p : y = s[k - 1][1] /\ p = s[k - 1][2]
    OBVIOUS
  <2>2. Filled(y, n) /\ p \in 0..n - 1 /\ Times(y, n, x) = Times(a, n, x)
    BY <1>4, <2>1
  <2>3. CASE Lifts(s[k - 1])
    <3>1. p \in Nat /\ p >= 1
      BY <1>1, <2>1, <2>2, <2>3 DEF Lifts
    <3>2. Parent(p) \in 0..n - 1
      BY <1>1, <2>2, <3>1, ParentIs
    <3>3. s[k][1] = Swap(y, p, Parent(p)) /\ s[k][2] = Parent(p)
      <4>1. s[k] = <<Swap(s[k - 1][1], s[k - 1][2], Parent(s[k - 1][2])), Parent(s[k - 1][2])>>
        BY <1>2, <2>3 DEF Lifted
      <4>. QED
        BY <2>1, <4>1
    <3>4. Filled(Swap(y, p, Parent(p)), n) /\ Times(Swap(y, p, Parent(p)), n, x) = Times(y, n, x)
      BY <2>2, <3>2, SwapIs, SwapTimes
    <3>. QED
      BY <2>2, <3>2, <3>3, <3>4
  <2>4. CASE ~Lifts(s[k - 1])
    <3>1. s[k] = s[k - 1]
      BY <1>2, <2>4 DEF Lifted
    <3>. QED
      BY <2>1, <2>2, <3>1
  <2>. QED
    BY <2>3, <2>4
<1>5. n \in Good
  <2>. HIDE DEF Good
  <2>1. \A k \in 0..n : k \in Good
    BY <1>1, <1>3, <1>4, InductionUpTo
  <2>. QED
    BY <1>1, <2>1
<1>. QED
  BY <1>2, <1>5 DEF a

LEMMA InsertedTimes ==
  ASSUME NEW q, Ordered(q), q.count < q.max, NEW e \in Element, NEW x
  PROVE  /\ Inserted(q, e).count = q.count + 1
         /\ Times(Inserted(q, e).data, q.count + 1, x)
              = Times(q.data, q.count, x) + (IF e = x THEN 1 ELSE 0)
<1>. DEFINE c == q.count
            n == c + 1
            d == [q.data EXCEPT ![c] = e]
            r == Raise(q.data, n, c, e)
<1>1. /\ q.data \in Data /\ c \in Nat /\ c \in Slot
      /\ n \in 0..Size /\ c \in 0..n - 1
      /\ q \in [max : 1..Size, count : 0..Size, data : Data, locked : BOOLEAN]
  BY DEF Ordered
<1>2. d \in Data /\ \A i \in Slot : d[i] = IF i = c THEN e ELSE q.data[i]
  BY <1>1 DEF Data
<1>3. \A i \in Slot : q.data[i] = Null <=> i >= c
  BY DEF Ordered, Filled
<1>4. Filled(d, n)
  BY <1>1, <1>2, <1>3, RankIs DEF Filled
<1>5. Times(r, n, x) = Times(d, n, x)
  BY <1>1, <1>4, RaiseTimes
<1>6. Inserted(q, e) = [q EXCEPT !.count = n, !.data = r]
  BY DEF Inserted
<1>7. Inserted(q, e).count = n /\ Inserted(q, e).data = r
  BY <1>1, <1>6
<1>8. d[c] = e /\ \A i \in 0..c - 1 : d[i] = q.data[i]
  BY <1>1, <1>2
<1>. HIDE DEF d, r, c
<1>9. Times(d, c + 1, x) = Times(d, c, x) + (IF e = x THEN 1 ELSE 0)
  BY <1>1, <1>8, TimesMore
<1>10. Times(d, c, x) = Times(q.data, c, x)
  BY <1>1, <1>8, TimesSame
<1>. QED
  BY <1>5, <1>7, <1>9, <1>10 DEF c

LEMMA ExtractedTimes ==
  ASSUME NEW q, Ordered(q), q.count # 0, NEW x
  PROVE  /\ Extracted(q).count = q.count - 1
         /\ Times(q.data, q.count, x)
              = Times(Extracted(q).data, q.count - 1, x) + (IF q.data[0] = x THEN 1 ELSE 0)
<1>. DEFINE n == q.count - 1
            f == Swap(q.data, 0, n)
            d == [[q.data EXCEPT ![0] = q.data[n]] EXCEPT ![n] = Null]
            r == Heapify(d, n, 0)
<1>1. /\ q.data \in Data /\ n \in Nat /\ n \in 0..Size /\ n \in Slot /\ 0 \in Slot
      /\ q.count = n + 1 /\ q.count \in 0..Size /\ 0 \in 0..q.count - 1 /\ n \in 0..q.count - 1
      /\ Filled(q.data, q.count)
      /\ q \in [max : 1..Size, count : 0..Size, data : Data, locked : BOOLEAN]
  BY DEF Ordered
<1>2. Extracted(q).count = n /\ Extracted(q).data = r
  <2>1. Extracted(q) = [q EXCEPT !.count = n, !.data = r]
    BY DEF Extracted
  <2>. HIDE DEF r
  <2>. QED
    BY <1>1, <2>1
<1>3. d \in Data /\ \A i \in Slot : d[i] = IF i = n THEN Null ELSE IF i = 0 THEN q.data[n] ELSE q.data[i]
  BY <1>1 DEF Data
<1>4. \A k \in 0..n : f[k] = IF k = 0 THEN q.data[n] ELSE IF k = n THEN q.data[0] ELSE q.data[k]
  BY <1>1, SwapIs
<1>5. Times(f, n + 1, x) = Times(q.data, n + 1, x)
  BY <1>1, SwapTimes
<1>. HIDE DEF d, f
<1>6. f[n] = q.data[0]
  BY <1>1, <1>4
<1>7. Times(f, n + 1, x) = Times(f, n, x) + (IF q.data[0] = x THEN 1 ELSE 0)
  BY <1>1, <1>6, TimesMore
<1>8. Times(d, n, x) = Times(f, n, x)
  <2>1. \A i \in 0..n - 1 : d[i] = f[i]
    BY <1>1, <1>3, <1>4
  <2>. QED
    BY <1>1, <2>1, TimesSame
<1>9. Times(r, n, x) = Times(d, n, x)
  <2>1. CASE n = 0
    <3>1. 0..n - 1 = {}
      BY <2>1
    <3>2. \A i \in 0..n - 1 : r[i] = d[i]
      BY <3>1
    <3>. QED
      BY <1>1, <3>2, TimesSame
  <2>2. CASE n # 0
    <3>1. 0 \in 0..n - 1
      BY <1>1, <2>2
    <3>2. \A i \in Slot : q.data[i] = Null <=> i >= n + 1
      BY <1>1 DEF Filled
    <3>3. Filled(d, n)
      BY <1>1, <1>3, <2>2, <3>2 DEF Filled
    <3>. QED
      BY <1>1, <3>1, <3>3, HeapifyFilled
  <2>. QED
    BY <2>1, <2>2
<1>. QED
  BY <1>1, <1>2, <1>5, <1>7, <1>8, <1>9

(* Both arrays with the place i exchanged for the last differ there only.  *)
LEMMA IncreasedTimes ==
  ASSUME NEW q, Ordered(q), NEW i \in 0..q.count - 1, NEW e \in Element, NEW x
  PROVE  Times(Raise(q.data, q.count, i, e), q.count, x) + (IF q.data[i] = x THEN 1 ELSE 0)
           = Times(q.data, q.count, x) + (IF e = x THEN 1 ELSE 0)
<1>. DEFINE c == q.count
            n == c - 1
            d == [q.data EXCEPT ![i] = e]
            f == Swap(q.data, i, n)
            g == Swap(d, i, n)
<1>1. /\ q.data \in Data /\ c \in 0..Size /\ n \in Nat /\ c = n + 1 /\ n \in 0..c - 1
      /\ i \in Slot /\ i \in 0..n /\ i \in 0..c - 1 /\ Filled(q.data, c)
  BY DEF Ordered
<1>2. d \in Data /\ \A k \in Slot : d[k] = IF k = i THEN e ELSE q.data[k]
  BY <1>1 DEF Data
<1>3. Filled(d, c)
  BY <1>1, <1>2, RankIs DEF Filled
<1>4. Times(Raise(q.data, c, i, e), c, x) = Times(d, c, x)
  BY <1>1, <1>3, RaiseTimes
<1>5. /\ Times(f, c, x) = Times(q.data, c, x)
      /\ \A k \in 0..n : f[k] = IF k = i THEN q.data[n] ELSE IF k = n THEN q.data[i] ELSE q.data[k]
  <2>. DEFINE b == q.data
  <2>. HIDE DEF d, c, n
  <2>1. Filled(b, c) /\ f = Swap(b, i, n) /\ \A k \in 0..n : k \in 0..c - 1
    BY <1>1
  <2>. HIDE DEF b, f, g
  <2>2. c \in 0..Size /\ i \in 0..c - 1 /\ n \in 0..c - 1 /\ Filled(b, c) /\ f = Swap(b, i, n)
    BY <1>1, <2>1
  <2>3. Times(f, c, x) = Times(b, c, x)
    BY ONLY <2>2, SwapTimes
  <2>4. \A k \in 0..c - 1 : f[k] = IF k = i THEN b[n] ELSE IF k = n THEN b[i] ELSE b[k]
    BY ONLY <2>2, SwapIs
  <2>. QED
    BY <2>1, <2>3, <2>4 DEF b
<1>6. /\ Times(g, c, x) = Times(d, c, x)
       /\ \A k \in 0..n : g[k] = IF k = i THEN d[n] ELSE IF k = n THEN d[i] ELSE d[k]
  <2>. HIDE DEF d, c, n, f, g
  <2>1. /\ c \in 0..Size /\ i \in 0..c - 1 /\ n \in 0..c - 1 /\ Filled(d, c) /\ g = Swap(d, i, n)
        /\ \A k \in 0..n : k \in 0..c - 1
    BY <1>1, <1>3 DEF g
  <2>2. Times(g, c, x) = Times(d, c, x)
    BY ONLY <2>1, SwapTimes
  <2>3. \A k \in 0..c - 1 : g[k] = IF k = i THEN d[n] ELSE IF k = n THEN d[i] ELSE d[k]
    BY ONLY <2>1, SwapIs
  <2>. QED
    BY <2>1, <2>2, <2>3
<1>. HIDE DEF d, c, f, g, n
<1>7. \A k \in 0..n : k \in Slot
  BY <1>1
<1>8. f[n] = q.data[i] /\ g[n] = e /\ \A k \in 0..n - 1 : g[k] = f[k]
  BY <1>1, <1>2, <1>5, <1>7, <1>6
<1>9. /\ Times(f, n + 1, x) = Times(f, n, x) + (IF q.data[i] = x THEN 1 ELSE 0)
      /\ Times(g, n + 1, x) = Times(g, n, x) + (IF e = x THEN 1 ELSE 0)
  BY <1>1, <1>8, TimesMore
<1>10. Times(g, n, x) = Times(f, n, x) /\ Times(f, n, x) \in Nat
  BY <1>1, <1>8, TimesSame, TimesIs
<1>. QED
  BY <1>1, <1>4, <1>5, <1>9, <1>10, <1>6 DEF c

-----------------------------------------------------------------------------
(* The bag of what is queued. *)

Copies(d, n) == [e \in {d[i] : i \in 0..n - 1} |-> Times(d, n, e)]

Plus(b, e) ==
  [x \in DOMAIN b \cup {e} |-> (IF x \in DOMAIN b THEN b[x] ELSE 0) + (IF x = e THEN 1 ELSE 0)]

Minus(b, e) ==
  [x \in {y \in DOMAIN b : b[y] - (IF y = e THEN 1 ELSE 0) > 0} |-> b[x] - (IF x = e THEN 1 ELSE 0)]

LEMMA CopiesIs ==
  ASSUME NEW d, NEW n \in Nat
  PROVE  /\ \A e : e \in DOMAIN Copies(d, n) <=> Times(d, n, e) > 0
         /\ \A e : Times(d, n, e) \in Nat
         /\ \A e \in DOMAIN Copies(d, n) : Copies(d, n)[e] = Times(d, n, e)
BY TimesIs DEF Copies

LEMMA CopiesPut ==
  ASSUME NEW d, NEW n \in Nat, NEW f, NEW m \in Nat, NEW e,
         \A x : Times(f, m, x) = Times(d, n, x) + (IF e = x THEN 1 ELSE 0)
  PROVE  Copies(f, m) = Plus(Copies(d, n), e)
<1>. DEFINE b == Copies(d, n)
            c == Copies(f, m)
<1>1. /\ \A x : x \in DOMAIN b <=> Times(d, n, x) > 0
      /\ \A x : Times(d, n, x) \in Nat
      /\ \A x \in DOMAIN b : b[x] = Times(d, n, x)
      /\ \A x : x \in DOMAIN c <=> Times(f, m, x) > 0
      /\ \A x \in DOMAIN c : c[x] = Times(f, m, x)
  BY CopiesIs
<1>2. c = [x \in DOMAIN c |-> c[x]]
  BY DEF Copies
<1>. HIDE DEF b, c
<1>3. DOMAIN c = DOMAIN b \cup {e}
  BY <1>1
<1>4. \A x \in DOMAIN c : c[x] = (IF x \in DOMAIN b THEN b[x] ELSE 0) + (IF x = e THEN 1 ELSE 0)
  <2>. TAKE x \in DOMAIN c
  <2>1. (IF x \in DOMAIN b THEN b[x] ELSE 0) = Times(d, n, x)
    BY <1>1
  <2>. QED
    BY <1>1, <2>1
<1>5. c = Plus(b, e)
  BY <1>2, <1>3, <1>4 DEF Plus
<1>. QED
  BY <1>5 DEF b, c

LEMMA CopiesTaken ==
  ASSUME NEW d, NEW n \in Nat, NEW f, NEW m \in Nat, NEW e,
         \A x : Times(d, n, x) = Times(f, m, x) + (IF e = x THEN 1 ELSE 0)
  PROVE  Copies(f, m) = Minus(Copies(d, n), e)
<1>. DEFINE b == Copies(d, n)
            c == Copies(f, m)
<1>1. /\ \A x : x \in DOMAIN b <=> Times(d, n, x) > 0
      /\ \A x : Times(f, m, x) \in Nat
      /\ \A x \in DOMAIN b : b[x] = Times(d, n, x)
      /\ \A x : x \in DOMAIN c <=> Times(f, m, x) > 0
      /\ \A x \in DOMAIN c : c[x] = Times(f, m, x)
  BY CopiesIs
<1>2. c = [x \in DOMAIN c |-> c[x]]
  BY DEF Copies
<1>. HIDE DEF b, c
<1>3. \A x : Times(f, m, x) = Times(d, n, x) - (IF x = e THEN 1 ELSE 0)
  BY <1>1
<1>4. DOMAIN c = {y \in DOMAIN b : b[y] - (IF y = e THEN 1 ELSE 0) > 0}
  BY <1>1, <1>3
<1>5. \A x \in DOMAIN c : c[x] = b[x] - (IF x = e THEN 1 ELSE 0)
  BY <1>1, <1>3, <1>4
<1>6. c = Minus(b, e)
  BY <1>2, <1>4, <1>5 DEF Minus
<1>. QED
  BY <1>6 DEF b, c

(* One element, which is there, for another.                               *)
LEMMA CopiesExchanged ==
  ASSUME NEW d, NEW n \in Nat, NEW f, NEW y, NEW e, y \in DOMAIN Copies(d, n),
         \A x : Times(f, n, x) + (IF y = x THEN 1 ELSE 0) = Times(d, n, x) + (IF e = x THEN 1 ELSE 0)
  PROVE  Copies(f, n) = Plus(Minus(Copies(d, n), y), e)
<1>. DEFINE b == Copies(d, n)
            c == Copies(f, n)
            a == Minus(b, y)
<1>1. /\ \A x : x \in DOMAIN b <=> Times(d, n, x) > 0
      /\ \A x : Times(d, n, x) \in Nat /\ Times(f, n, x) \in Nat
      /\ \A x \in DOMAIN b : b[x] = Times(d, n, x)
      /\ \A x : x \in DOMAIN c <=> Times(f, n, x) > 0
      /\ \A x \in DOMAIN c : c[x] = Times(f, n, x)
  BY CopiesIs
<1>2. c = [x \in DOMAIN c |-> c[x]]
  BY DEF Copies
<1>3. y \in DOMAIN b
  OBVIOUS
<1>. HIDE DEF b, c
<1>4. /\ \A x : x \in DOMAIN a <=> x \in DOMAIN b /\ b[x] - (IF x = y THEN 1 ELSE 0) > 0
      /\ \A x \in DOMAIN a : a[x] = b[x] - (IF x = y THEN 1 ELSE 0)
  BY DEF Minus
<1>. HIDE DEF a
<1>5. \A x : (IF x \in DOMAIN a THEN a[x] ELSE 0) = Times(d, n, x) - (IF x = y THEN 1 ELSE 0)
  <2>. TAKE x
  <2>1. CASE x \in DOMAIN a
    BY <1>1, <1>4, <2>1
  <2>2. CASE x \notin DOMAIN a
    BY <1>1, <1>3, <1>4, <2>2
  <2>. QED
    BY <2>1, <2>2
<1>6. \A x : x \in DOMAIN a <=> Times(d, n, x) - (IF x = y THEN 1 ELSE 0) > 0
  BY <1>1, <1>3, <1>4
<1>7. DOMAIN c = DOMAIN a \cup {e}
  <2>1. \A x : x \in DOMAIN c <=> x \in DOMAIN a \/ x = e
    <3>. TAKE x
    <3>1. Times(f, n, x) + (IF y = x THEN 1 ELSE 0) = Times(d, n, x) + (IF e = x THEN 1 ELSE 0)
      OBVIOUS
    <3>2. x = y => Times(d, n, x) > 0
      BY <1>1, <1>3
    <3>. QED
      BY <1>1, <1>6, <3>1, <3>2
  <2>. QED
    BY <2>1
<1>8. \A x \in DOMAIN c : c[x] = (IF x \in DOMAIN a THEN a[x] ELSE 0) + (IF x = e THEN 1 ELSE 0)
  <2>. TAKE x \in DOMAIN c
  <2>1. Times(f, n, x) + (IF y = x THEN 1 ELSE 0) = Times(d, n, x) + (IF e = x THEN 1 ELSE 0)
    OBVIOUS
  <2>2. (IF x \in DOMAIN a THEN a[x] ELSE 0) = Times(d, n, x) - (IF x = y THEN 1 ELSE 0)
    BY <1>5
  <2>. QED
    BY <1>1, <2>1, <2>2
<1>9. c = Plus(a, e)
  BY <1>2, <1>7, <1>8 DEF Plus
<1>. QED
  BY <1>9 DEF a, b, c

(* The places whose entry is in S are as many as the members of S count    *)
(* together: SumFunction goes through them in some order.                  *)
LEMMA SumIs ==
  ASSUME NEW d, NEW n \in Nat
  PROVE  Abs!SumFunction(Copies(d, n)) = n
<1>. DEFINE b == Copies(d, n)
            D == DOMAIN b
            At(S) == {i \in 0..n - 1 : d[i] \in S}
            From(g) == [S \in SUBSET D |->
                          IF S = {} THEN 0
                          ELSE b[CHOOSE x \in S : TRUE] + g[S \ {CHOOSE x \in S : TRUE}]]
            count == [S \in SUBSET D |-> Cardinality(At(S))]
            sum == CHOOSE g : g = From(g)
            Good == {m \in Nat : \A S \in SUBSET D : Cardinality(S) = m => sum[S] = count[S]}
<1>1. Abs!SumFunction(b) = sum[D]
  BY DEF Abs!SumFunction, Abs!SumFunctionOnSet, Abs!FoldFunctionOnSet, Abs!MapThenFoldSet
<1>2. /\ D = {d[i] : i \in 0..n - 1}
      /\ \A x \in D : b[x] = Cardinality({i \in 0..n - 1 : d[i] = x})
  BY DEF Copies, Times
<1>. HIDE DEF b, D
<1>3. IsFiniteSet(0..n - 1) /\ Cardinality(0..n - 1) = n
  BY FS_Interval
<1>4. IsFiniteSet(D)
  <2>. DEFINE g == [i \in 0..n - 1 |-> d[i]]
  <2>1. g \in Surjection(0..n - 1, D)
    BY <1>2 DEF Surjection
  <2>. QED
    BY <1>3, <2>1, FS_Surjection
<1>5. \A S : IsFiniteSet(At(S)) /\ Cardinality(At(S)) \in Nat
  <2>. TAKE S
  <2>1. At(S) \in SUBSET (0..n - 1)
    OBVIOUS
  <2>. HIDE DEF At
  <2>. QED
    BY <1>3, <2>1, FS_Subset, FS_CardinalityType
<1>6. ASSUME NEW S \in SUBSET D, NEW x \in S
      PROVE  Cardinality(At(S)) = b[x] + Cardinality(At(S \ {x}))
  <2>1. At(S) = At({x}) \cup At(S \ {x}) /\ At({x}) \cap At(S \ {x}) = {}
    BY <1>6
  <2>2. b[x] = Cardinality(At({x}))
    <3>1. At({x}) = {i \in 0..n - 1 : d[i] = x}
      OBVIOUS
    <3>. QED
      BY <1>2, <3>1
  <2>. DEFINE A == At({x})
              B == At(S \ {x})
  <2>3. IsFiniteSet(A) /\ IsFiniteSet(B) /\ Cardinality(A) \in Nat /\ Cardinality(B) \in Nat
    BY <1>5
  <2>. HIDE DEF A, B, At
  <2>4. Cardinality(A \cup B) = Cardinality(A) + Cardinality(B) - Cardinality(A \cap B)
    BY <2>3, FS_Union
  <2>5. Cardinality(A \cap B) = 0
    BY <2>1, FS_EmptySet DEF A, B
  <2>6. Cardinality(A \cup B) = Cardinality(A) + Cardinality(B)
    BY <2>3, <2>4, <2>5
  <2>. QED
    BY <2>1, <2>2, <2>6 DEF A, B
<1>7. Cardinality(At({})) = 0
  <2>1. At({}) = {}
    OBVIOUS
  <2>. QED
    BY <2>1, FS_EmptySet
<1>8. count = From(count)
  <2>1. ASSUME NEW S \in SUBSET D PROVE count[S] = From(count)[S]
    <3>1. CASE S = {}
      BY <1>7, <3>1
    <3>2. CASE S # {}
      <4>1. PICK x : x = CHOOSE y \in S : TRUE
        OBVIOUS
      <4>2. x \in S /\ S \ {x} \in SUBSET D
        BY <3>2, <4>1
      <4>3. Cardinality(At(S)) = b[x] + Cardinality(At(S \ {x}))
        BY <1>6, <4>2
      <4>. HIDE DEF At
      <4>4. From(count)[S] = b[x] + count[S \ {x}]
        BY <3>2, <4>1
      <4>. QED
        BY <4>2, <4>3, <4>4
    <3>. QED
      BY <3>1, <3>2
  <2>. HIDE DEF At
  <2>2. DOMAIN count = DOMAIN From(count)
    OBVIOUS
  <2>. QED
    BY <2>1, <2>2
<1>. HIDE DEF count, From
<1>9. sum = From(sum)
  BY <1>8
<1>. HIDE DEF sum
<1>10. \A m \in Nat : m \in Good
  <2>1. ASSUME NEW S \in SUBSET D PROVE IsFiniteSet(S) /\ Cardinality(S) \in Nat
    BY <1>4, FS_Subset, FS_CardinalityType
  <2>2. 0 \in Good
    <3>1. ASSUME NEW S \in SUBSET D, Cardinality(S) = 0 PROVE sum[S] = count[S]
      <4>1. S = {}
        BY <2>1, <3>1, FS_EmptySet
      <4>2. From(sum)[S] = 0 /\ count[S] = 0
        BY <1>7, <4>1 DEF From, count
      <4>. QED
        BY <1>9, <4>2
    <3>. QED
      BY <3>1
  <2>3. ASSUME NEW m \in Good PROVE m + 1 \in Good
    <3>1. ASSUME NEW S \in SUBSET D, Cardinality(S) = m + 1 PROVE sum[S] = count[S]
      <4>1. S # {}
        BY <3>1, FS_EmptySet
      <4>2. PICK x : x = CHOOSE y \in S : TRUE
        OBVIOUS
      <4>3. x \in S /\ S \ {x} \in SUBSET D
        BY <4>1, <4>2
      <4>4. Cardinality(S \ {x}) = m
        <5>1. IsFiniteSet(S)
          BY <2>1
        <5>2. Cardinality(S \ {x}) = Cardinality(S) - 1
          BY <4>3, <5>1, FS_RemoveElement
        <5>. QED
          BY <3>1, <5>2
      <4>5. sum[S \ {x}] = count[S \ {x}]
        BY <4>3, <4>4
      <4>6. From(sum)[S] = b[x] + sum[S \ {x}]
        BY <4>1, <4>2 DEF From
      <4>7. count[S] = b[x] + count[S \ {x}]
        BY <1>6, <4>3 DEF count
      <4>. QED
        BY <1>9, <4>5, <4>6, <4>7
    <3>. QED
      BY <3>1
  <2>4. Good \in SUBSET Nat
    OBVIOUS
  <2>. HIDE DEF Good
  <2>5. Good = Nat
    BY <2>2, <2>3, <2>4, Induction
  <2>. QED
    BY <2>5
<1>11. sum[D] = count[D]
  <2>1. Cardinality(D) \in Nat
    BY <1>4, FS_CardinalityType
  <2>. QED
    BY <1>10, <2>1
<1>12. count[D] = n
  <2>1. At(D) = 0..n - 1
    BY <1>2
  <2>. QED
    BY <1>3, <2>1 DEF count
<1>. QED
  BY <1>1, <1>11, <1>12 DEF b

-----------------------------------------------------------------------------
(* The abstract queue. *)

LEMMA EmptyIs == ASSUME NEW d PROVE Abs!EmptyBag = Copies(d, 0)
<1>1. {d[i] : i \in 0..0 - 1} = {}
  OBVIOUS
<1>. QED
  BY <1>1 DEF Abs!EmptyBag, Abs!SetToBag, Copies

(* What the abstract actions do to the bag.                                *)
LEMMA AbsIs ==
  ASSUME queue.count \in Nat
  PROVE
  /\ \A e : Abs!Enqueue(e) <=>
       Abs!SumFunction(Bag) < queue.max /\ Bag' = Plus(Bag, e) /\ answer' = <<>>
  /\ Abs!Dequeue <=> \E e \in Abs!Highest : Bag' = Minus(Bag, e) /\ answer' = <<e>>
  /\ \A e : Abs!Increase(e) <=>
       \E x \in DOMAIN Bag : Rank[x] <= Rank[e] /\ Bag' = Plus(Minus(Bag, x), e) /\ answer' = <<>>
  /\ Abs!Highest = {e \in DOMAIN Bag : \A x \in DOMAIN Bag : Rank[x] <= Rank[e]}
<1>. DEFINE One(e) == [y \in {e} |-> 1]
            Put(b, e) == [x \in DOMAIN b \cup DOMAIN One(e) |->
                            (IF x \in DOMAIN b THEN b[x] ELSE 0)
                              + (IF x \in DOMAIN One(e) THEN One(e)[x] ELSE 0)]
            Less(b, e) == [x \in DOMAIN b |-> IF x \in DOMAIN One(e) THEN b[x] - One(e)[x] ELSE b[x]]
            Take(b, e) == [x \in {y \in DOMAIN Less(b, e) : Less(b, e)[y] > 0} |-> Less(b, e)[x]]
            Counts(b) == \A x \in DOMAIN b : b[x] \in Nat
<1>1. ASSUME NEW b, NEW e PROVE Put(b, e) = Plus(b, e)
  <2>1. DOMAIN One(e) = {e} /\ \A x : (IF x \in {e} THEN One(e)[x] ELSE 0) = IF x = e THEN 1 ELSE 0
    OBVIOUS
  <2>2. \A x \in DOMAIN b \cup {e} : Put(b, e)[x] = Plus(b, e)[x]
    BY <2>1 DEF Plus
  <2>3. DOMAIN Put(b, e) = DOMAIN b \cup {e} /\ DOMAIN Plus(b, e) = DOMAIN b \cup {e}
    BY <2>1 DEF Plus
  <2>. QED
    BY <2>2, <2>3 DEF Plus
<1>2. \A b, e : Counts(b) => Take(b, e) = Minus(b, e)
  <2>. SUFFICES ASSUME NEW b, NEW e, Counts(b) PROVE Take(b, e) = Minus(b, e)
    OBVIOUS
  <2>1. /\ DOMAIN Less(b, e) = DOMAIN b
        /\ \A x \in DOMAIN b : Less(b, e)[x] = b[x] - (IF x = e THEN 1 ELSE 0)
    OBVIOUS
  <2>. HIDE DEF Less
  <2>2. {y \in DOMAIN Less(b, e) : Less(b, e)[y] > 0}
          = {y \in DOMAIN b : b[y] - (IF y = e THEN 1 ELSE 0) > 0}
    BY <2>1
  <2>. QED
    BY <2>1, <2>2 DEF Minus
<1>3. Counts(Bag)
  <2>1. \A e \in InUse : Bag[e] = Times(queue.data, queue.count, e)
    BY DEF Bag, Times
  <2>2. DOMAIN Bag = InUse
    BY DEF Bag
  <2>. QED
    BY <2>1, <2>2, TimesIs
<1>. HIDE DEF Counts
<1>4. /\ \A e : Abs!Enqueue(e) <=>
           Abs!SumFunction(Bag) < queue.max /\ Bag' = Put(Bag, e) /\ answer' = <<>>
      /\ Abs!Dequeue <=> \E e \in Abs!Highest : Bag' = Take(Bag, e) /\ answer' = <<e>>
      /\ \A e : Abs!Increase(e) <=>
           \E x \in DOMAIN Bag : Rank[x] <= Rank[e] /\ Bag' = Put(Take(Bag, x), e) /\ answer' = <<>>
  BY DEF Abs!Enqueue, Abs!Dequeue, Abs!Increase, Abs!BagToSet, Abs!One, Abs!SetToBag,
         Abs!\oplus, Abs!\ominus
<1>. HIDE DEF Put, Take
<1>5. Abs!Highest = {e \in DOMAIN Bag : \A x \in DOMAIN Bag : Rank[x] <= Rank[e]}
  BY DEF Abs!Highest, Abs!BagToSet
<1>. QED
  BY <1>1, <1>2, <1>3, <1>4, <1>5

LEMMA InsertStep ==
  ASSUME Ordered(queue), queue.count < queue.max, NEW e \in Element,
         queue' = Inserted(queue, e), answer' = <<>>
  PROVE  Abs!Next
<1>. DEFINE c == queue.count
            q == Inserted(queue, e)
<1>1. c \in Nat /\ q.max = queue.max
  BY InsertedIs DEF Ordered
<1>2. /\ q.count = c + 1
      /\ \A x : Times(q.data, c + 1, x) = Times(queue.data, c, x) + (IF e = x THEN 1 ELSE 0)
  BY InsertedTimes
<1>3. Bag = Copies(queue.data, c) /\ Bag' = Copies(queue'.data, queue'.count)
  BY DEF Bag, InUse, Copies, Times
<1>. HIDE DEF c, q
<1>4. Copies(q.data, c + 1) = Plus(Copies(queue.data, c), e)
  BY <1>1, <1>2, CopiesPut
<1>5. Bag' = Plus(Bag, e)
  BY <1>2, <1>3, <1>4 DEF q
<1>6. Abs!SumFunction(Bag) < queue.max
  BY <1>1, <1>3, SumIs DEF c
<1>7. Abs!Enqueue(e)
  BY <1>1, <1>5, <1>6, AbsIs DEF c
<1>. QED
  BY <1>1, <1>7 DEF Abs!Next, q

LEMMA FirstHighest ==
  ASSUME Ordered(queue), queue.count # 0
  PROVE  queue.data[0] \in Abs!Highest
<1>1. Bag = Copies(queue.data, queue.count) /\ queue.count \in Nat
  BY DEF Bag, InUse, Copies, Times, Ordered
<1>2. DOMAIN Bag = {queue.data[i] : i \in 0..queue.count - 1}
  BY DEF Bag, InUse
<1>3. 0 \in 0..queue.count - 1
  BY <1>1
<1>4. \A i \in 0..queue.count - 1 : Rank[queue.data[0]] >= Rank[queue.data[i]]
  BY FirstIsHighest
<1>5. \A i \in 0..queue.count - 1 : Rank[queue.data[i]] \in Int
  BY FilledIs DEF Ordered
<1>6. \A x \in DOMAIN Bag : Rank[x] <= Rank[queue.data[0]]
  BY <1>2, <1>3, <1>4, <1>5
<1>. QED
  BY <1>1, <1>2, <1>3, <1>6, AbsIs

LEMMA ExtractStep ==
  ASSUME Ordered(queue), queue.count # 0, queue' = Extracted(queue),
         answer' = <<queue.data[0]>>
  PROVE  Abs!Next
<1>. DEFINE c == queue.count
            q == Extracted(queue)
            e == queue.data[0]
<1>1. c \in Nat /\ c - 1 \in Nat /\ q.max = queue.max
  BY ExtractedIs DEF Ordered
<1>2. /\ q.count = c - 1
      /\ \A x : Times(queue.data, c, x) = Times(q.data, c - 1, x) + (IF e = x THEN 1 ELSE 0)
  BY ExtractedTimes
<1>3. Bag = Copies(queue.data, c) /\ Bag' = Copies(queue'.data, queue'.count)
  BY DEF Bag, InUse, Copies, Times
<1>4. e \in Abs!Highest
  BY FirstHighest
<1>. HIDE DEF c, q, e
<1>5. Copies(q.data, c - 1) = Minus(Copies(queue.data, c), e)
  BY <1>1, <1>2, CopiesTaken
<1>6. Bag' = Minus(Bag, e)
  BY <1>2, <1>3, <1>5 DEF q
<1>7. answer' = <<e>>
  BY DEF e
<1>8. Abs!Dequeue
  BY <1>1, <1>4, <1>6, <1>7, AbsIs DEF c
<1>. QED
  BY <1>1, <1>8 DEF Abs!Next, q

(* Without a change of the entries or of the places there are.             *)
LEMMA FailStep ==
  ASSUME Ordered(queue), queue.count = 0 \/ queue.count >= queue.max,
         queue'.data = queue.data, queue'.count = queue.count, queue'.max = queue.max,
         answer' = Nothing
  PROVE  Abs!Next
<1>1. /\ Bag = Copies(queue.data, queue.count) /\ Bag' = Copies(queue'.data, queue'.count)
      /\ queue.count \in Nat /\ queue.max \in Nat /\ queue.count <= queue.max
  BY DEF Bag, InUse, Copies, Times, Ordered
<1>2. CASE queue.count = 0
  <2>1. Bag = Abs!EmptyBag
    BY <1>1, <1>2, EmptyIs
  <2>. QED
    BY <1>1, <2>1 DEF Abs!Next, Abs!Fails
<1>3. CASE queue.count >= queue.max
  <2>1. Abs!SumFunction(Bag) = queue.max
    BY <1>1, <1>3, SumIs
  <2>. QED
    BY <1>1, <2>1 DEF Abs!Next, Abs!Fails
<1>. QED
  BY <1>2, <1>3

LEMMA MaxStep ==
  ASSUME Ordered(queue), Max PROVE Abs!Next
<1>1. Bag' = Bag
  BY DEF Max, Bag, InUse
<1>2. CASE queue.count = 0
  BY <1>2, FailStep DEF Max
<1>3. CASE queue.count # 0
  <2>1. queue.data[0] \in Abs!Highest
    BY <1>3, FirstHighest
  <2>2. answer' = <<queue.data[0]>>
    BY <1>3 DEF Max
  <2>. QED
    BY <1>1, <2>1, <2>2 DEF Max, Abs!Next, Abs!Max
<1>. QED
  BY <1>2, <1>3

LEMMA IncreaseStep ==
  ASSUME Ordered(queue), NEW e \in Element, NEW i \in 0..queue.count - 1, IncreaseKey(i, e)
  PROVE  Abs!Next
<1>. DEFINE c == queue.count
            y == queue.data[i]
            f == Raise(queue.data, c, i, e)
<1>1. /\ Bag = Copies(queue.data, c) /\ Bag' = Copies(queue'.data, queue'.count) /\ c \in Nat
      /\ DOMAIN Bag = {queue.data[k] : k \in 0..c - 1}
  BY DEF Bag, InUse, Copies, Times, Ordered
<1>2. y \in DOMAIN Bag /\ Rank[y] \in Int /\ Rank[e] \in Int
  BY <1>1, FilledIs, RankIs DEF Ordered
<1>3. CASE Rank[e] < Rank[y]
  <2>1. queue' = queue /\ answer' = Nothing
    BY <1>3 DEF IncreaseKey
  <2>2. Bag' = Bag
    BY <2>1 DEF Bag, InUse
  <2>3. Abs!Fails
    BY <1>2, <1>3, <2>1, <2>2 DEF Abs!Fails, Abs!BagToSet
  <2>. QED
    BY <2>1, <2>3 DEF Abs!Next
<1>4. CASE ~(Rank[e] < Rank[y])
  <2>1. queue' = [queue EXCEPT !.data = f] /\ answer' = <<>>
    BY <1>4 DEF IncreaseKey
  <2>2. queue'.data = f /\ queue'.count = c /\ queue'.max = queue.max
    <3>. HIDE DEF f
    <3>. QED
      BY <2>1 DEF Ordered
  <2>3. \A x : Times(f, c, x) + (IF y = x THEN 1 ELSE 0) = Times(queue.data, c, x) + (IF e = x THEN 1 ELSE 0)
    BY IncreasedTimes
  <2>. HIDE DEF f, c, y
  <2>4. Copies(f, c) = Plus(Minus(Copies(queue.data, c), y), e)
    BY <1>1, <1>2, <2>3, CopiesExchanged
  <2>5. Bag' = Plus(Minus(Bag, y), e)
    BY <1>1, <2>2, <2>4
  <2>6. Rank[y] <= Rank[e]
    BY <1>2, <1>4
  <2>7. Abs!Increase(e)
    BY <1>1, <1>2, <2>1, <2>5, <2>6, AbsIs DEF c
  <2>. QED
    BY <2>2, <2>7 DEF Abs!Next
<1>. QED
  BY <1>3, <1>4

LEMMA QueueStep ==
  ASSUME Ordered(queue), [Next]_vars PROVE [Abs!Next]_<<queue, answer>>
<1>1. /\ Bag = Copies(queue.data, queue.count) /\ Bag' = Copies(queue'.data, queue'.count)
      /\ queue.count \in Nat
  BY DEF Bag, InUse, Copies, Times, Ordered
<1>2. queue.count = 0 <=> Bag = Abs!EmptyBag
  <2>1. DOMAIN Abs!EmptyBag = {}
    BY DEF Abs!EmptyBag, Abs!SetToBag
  <2>2. queue.count # 0 => queue.data[0] \in DOMAIN Bag
    BY <1>1 DEF Bag, InUse
  <2>. QED
    BY <1>1, <2>1, <2>2, EmptyIs
<1>3. ASSUME NEW t \in Thread, NEW op \in {"enqueue", "dequeue", "empty"}, Call(t, op)
      PROVE  UNCHANGED <<queue, answer>>
  BY <1>3 DEF Call
<1>4. ASSUME NEW t \in Thread, NEW e \in Element, Enqueue(t, e) PROVE Abs!Next
  BY <1>4, InsertStep DEF Enqueue, Return
<1>5. ASSUME NEW t \in Thread, Dequeue(t) PROVE Abs!Next
  BY <1>5, ExtractStep DEF Dequeue, Return
<1>6. ASSUME NEW t \in Thread, Leaks(t) PROVE Abs!Next
  <2>1. queue' = [queue EXCEPT !.locked = TRUE] /\ answer' = Nothing
    BY <1>6 DEF Leaks, Return
  <2>2. queue'.data = queue.data /\ queue'.count = queue.count /\ queue'.max = queue.max
    BY <2>1 DEF Ordered
  <2>3. queue.count = 0 \/ queue.count >= queue.max
    BY <1>6 DEF Leaks
  <2>. QED
    BY <2>1, <2>2, <2>3, FailStep
<1>7. ASSUME NEW t \in Thread, Empty(t) PROVE Abs!Next
  <2>1. queue' = queue /\ answer' = <<queue.count = 0>>
    BY <1>7 DEF Empty, Return
  <2>2. Bag' = Bag
    BY <2>1 DEF Bag, InUse
  <2>3. answer' = <<Bag = Abs!EmptyBag>>
    BY <1>2, <2>1
  <2>. QED
    BY <2>1, <2>2, <2>3 DEF Abs!Next, Abs!Empty
<1>8. ASSUME Max PROVE Abs!Next
  BY <1>8, MaxStep
<1>9. ASSUME ExtractMax PROVE Abs!Next
  BY <1>9, ExtractStep DEF ExtractMax
<1>10. ASSUME Renew PROVE Abs!Next
  <2>1. queue'.count = 0 /\ queue'.max = queue.max /\ answer' = <<"released", <<>>>>
    BY <1>10 DEF Renew, Construct
  <2>2. Bag' = Abs!EmptyBag
    BY <1>1, <2>1, EmptyIs
  <2>. QED
    BY <2>1, <2>2 DEF Abs!Next, Abs!Renew
<1>11. ASSUME NEW e \in Element, Insert(e) PROVE Abs!Next
  BY <1>11, InsertStep DEF Insert
<1>12. ASSUME NEW e \in Element, NEW i \in 0..queue.count - 1, IncreaseKey(i, e) PROVE Abs!Next
  BY <1>12, IncreaseStep
<1>13. ASSUME Refuses PROVE Abs!Next
  <2>1. queue' = queue /\ answer' = Nothing /\ (queue.count = 0 \/ queue.count >= queue.max)
    BY <1>13 DEF Refuses
  <2>. QED
    BY <2>1, FailStep
<1>14. ASSUME UNCHANGED vars PROVE UNCHANGED <<queue, answer>>
  BY <1>14 DEF vars
<1>. QED
  BY <1>3, <1>4, <1>5, <1>6, <1>7, <1>8, <1>9, <1>10, <1>11, <1>12, <1>13, <1>14 DEF Next

(* The queue is a bag of elements that gives up one that ranks highest:    *)
(* enqueue and insert put one in, dequeue and extract_max take one out,    *)
(* increase_key exchanges one for another, and only a full queue, an empty *)
(* one or a lower key is refused; in every step of every behaviour, with   *)
(* any number of threads.                                                  *)
THEOREM QueueRefines == Spec => [][Abs!Next]_<<queue, answer>>
<1>1. QueueInv /\ [Next]_vars => [Abs!Next]_<<queue, answer>>
  BY QueueInvIs, QueueStep
<1>. QED
  BY <1>1, QueueInvariant, PTL DEF Spec

=============================================================================
